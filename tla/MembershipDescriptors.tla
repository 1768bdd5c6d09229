------------------------ MODULE MembershipDescriptors ------------------------
(***************************************************************************)
(* The topic-item loop of ClusterMembershipMgr::UpdateMembership and       *)
(* BlacklistExecutor (be/src/scheduling/cluster-membership-mgr.cc), at the *)
(* level of backend descriptors.  ClusterMembershipMgr fixes the executor   *)
(* groups of each backend; here a backend may register again with another  *)
(* executor_groups list (a restart with a new --executor_groups), and an   *)
(* ExecutorGroup holds its own copy of each member's descriptor, keyed by  *)
(* address, as ExecutorGroup::AddExecutor stores it.                       *)
(*                                                                         *)
(* Only remote backends and the published snapshot are modelled: the local *)
(* backend, the recovery grace period and the version are the business of *)
(* ClusterMembershipMgr.  A delta carries one item (a descriptor, a        *)
(* deletion, or a skipped item: a malformed descriptor or none at all);    *)
(* the statestore may send any of them.                                     *)
(***************************************************************************)
EXTENDS FiniteSets

CONSTANTS
    Backends,     \* remote backend ids (an id is also the address)
    Executors,    \* the backends whose descriptors have is_executor
    Groups,       \* executor group names
    DescGroups    \* DescGroups[b]: the executor_groups lists b registers with

ASSUME DescriptorsAssumption ==
    /\ Executors \subseteq Backends
    /\ DescGroups \in [Backends -> SUBSET SUBSET Groups]

\* ExecutorBlacklist::State.
NOT_BLACKLISTED == "NOT_BLACKLISTED"
BLACKLISTED == "BLACKLISTED"
ON_PROBATION == "ON_PROBATION"

\* No descriptor: the key is not in the map or not in the group.
None == [none |-> TRUE]

\* The well-formed descriptors b can publish: its groups and is_quiescing.
Descs(b) == [groups : DescGroups[b], quiescing : BOOLEAN]

\* Topic item values besides a descriptor (records, so that TLC compares
\* them with descriptors).
DELETED == [deleted |-> TRUE]
SKIPPED == [skipped |-> TRUE]

VARIABLES
    backends,    \* current_backends: id -> descriptor or None
    groups,      \* executor_groups: group -> (address -> stored descriptor)
    blacklist,   \* executor_blacklist: id -> state
    blDesc       \* the descriptor the blacklist entry stores

vars == <<backends, groups, blacklist, blDesc>>

-----------------------------------------------------------------------------
(* FindOrInsertExecutorGroup(g)->RemoveExecutor(d) / AddExecutor(d) for   *)
(* every g of a list; an executor group is a set keyed by address.         *)
RemoveExecutor(grp, gs, b) ==
    [g \in Groups |-> IF g \in gs THEN [grp[g] EXCEPT ![b] = None] ELSE grp[g]]
AddExecutor(grp, d, b) ==
    [g \in Groups |-> IF g \in d.groups THEN [grp[g] EXCEPT ![b] = d] ELSE grp[g]]

\* The snapshot's membership state as one record, for the loop below.
State == [backends |-> backends, groups |-> groups,
          blacklist |-> blacklist, blDesc |-> blDesc]

\* ExecutorBlacklist::FindAndRemove: drop b's entry.
FindAndRemove(s, b) ==
    [s EXCEPT !.blacklist[b] = NOT_BLACKLISTED, !.blDesc[b] = None]

(* A deleted key, lines 199-216: it leaves the blacklist and, unless it    *)
(* was quiescing or blacklisted, the groups of its stored descriptor.      *)
DeleteItem(s, k) ==
    IF s.backends[k] = None THEN s
    ELSE LET be == s.backends[k]
             wasBlacklisted == s.blacklist[k] = BLACKLISTED
         IN  [FindAndRemove(s, k) EXCEPT
                !.groups = IF k \in Executors /\ ~be.quiescing /\ ~wasBlacklisted
                           THEN RemoveExecutor(@, be.groups, k) ELSE @,
                !.backends[k] = None]

\* Mutant: the edge is taken the wrong way round (stops quiescing).
StartsQuiescingReversed(existing, v, k, wasBlacklisted) ==
    ~v.quiescing /\ existing.quiescing /\ k \in Executors /\ ~wasBlacklisted

\* The quiescing edge of the update branch, lines 264-265.
StartsQuiescing(existing, v, k, wasBlacklisted) ==
    v.quiescing /\ ~existing.quiescing /\ k \in Executors /\ ~wasBlacklisted

(* An existing key, lines 259-273: its blacklist entry is dropped; if it   *)
(* starts quiescing it leaves the groups that the NEW descriptor lists;    *)
(* then the stored descriptor is replaced (existing = be_desc) and no     *)
(* group membership is touched.                                            *)
UpdateItem(s, k, v) ==
    LET existing == s.backends[k]
        wasBlacklisted == s.blacklist[k] = BLACKLISTED
    IN  [FindAndRemove(s, k) EXCEPT
           !.groups = IF StartsQuiescing(existing, v, k, wasBlacklisted)
                      THEN RemoveExecutor(@, v.groups, k) ELSE @,
           !.backends[k] = v]

(* A new key, lines 274-285: it joins its groups if it is a non-quiescing  *)
(* executor.  The FindAndRemove of a created key sits inside DCHECK_EQ and *)
(* does not run in release builds.                                         *)
CreateItem(s, k, v) ==
    [s EXCEPT !.backends[k] = v,
              !.groups = IF ~v.quiescing /\ k \in Executors
                         THEN AddExecutor(@, v, k) ELSE @]

(* One item of the loop over update.topic_entries, lines 197-288; a        *)
(* malformed descriptor (lines 225-238) is skipped.                        *)
ApplyItem(s, k, v) ==
    CASE v = SKIPPED -> s
      [] v = DELETED -> DeleteItem(s, k)
      [] OTHER -> IF s.backends[k] # None THEN UpdateItem(s, k, v)
                                          ELSE CreateItem(s, k, v)

(* ExecutorBlacklist::Maintenance with the loop of lines 290-303: of the   *)
(* entries whose timeout has passed, blacklisted ones go on probation and  *)
(* their stored descriptors are added back to that descriptor's groups;    *)
(* probation ones are dropped.                                             *)
Maintenance(s, expired) ==
    LET probation == {b \in expired : s.blacklist[b] = BLACKLISTED}
        cleared   == {b \in expired : s.blacklist[b] = ON_PROBATION}
    IN  [s EXCEPT
           !.blacklist = [b \in Backends |->
                            IF b \in probation THEN ON_PROBATION
                            ELSE IF b \in cleared THEN NOT_BLACKLISTED
                            ELSE @[b]],
           !.blDesc = [b \in Backends |-> IF b \in cleared THEN None ELSE @[b]],
           !.groups = [g \in Groups |-> [b \in Backends |->
                         IF b \in probation /\ g \in s.blDesc[b].groups
                         THEN s.blDesc[b] ELSE @[g][b]]]]

\* Writing a membership state back to the variables (SetState).
Publish(s) ==
    /\ backends' = s.backends
    /\ groups' = s.groups
    /\ blacklist' = s.blacklist
    /\ blDesc' = s.blDesc

-----------------------------------------------------------------------------
(* UpdateMembership for a delta with one item, k's new value v, and the    *)
(* blacklist entries whose timeout has passed: the item, then maintenance  *)
(* if some timeout passed (needs_blacklist_maintenance), then publish.     *)
UpdateMembership ==
    \E k \in Backends :
      \E v \in Descs(k) \cup {DELETED, SKIPPED},
         expired \in SUBSET {b \in Backends : blacklist[b] # NOT_BLACKLISTED} :
          LET s1 == ApplyItem(State, k, v)
          IN  Publish(IF expired # {} THEN Maintenance(s1, expired) ELSE s1)

(* BlacklistExecutor(be_desc), lines 343-415, called with the descriptor   *)
(* of an executor that a query was scheduled on, as a group stores it.     *)
(* If the executor is in one of that descriptor's groups, it is removed    *)
(* from each of them and blacklisted with that descriptor.                 *)
BlacklistExecutor ==
    \E g \in Groups, b \in Backends :
        LET d == groups[g][b]
        IN  /\ d # None
            /\ \E h \in d.groups : groups[h][b] # None
            /\ groups' = RemoveExecutor(groups, d.groups, b)
            /\ blacklist' = [blacklist EXCEPT ![b] = BLACKLISTED]
            /\ blDesc' = [blDesc EXCEPT ![b] = d]
            /\ UNCHANGED backends

Init ==
    /\ backends = [b \in Backends |-> None]
    /\ groups = [g \in Groups |-> [b \in Backends |-> None]]
    /\ blacklist = [b \in Backends |-> NOT_BLACKLISTED]
    /\ blDesc = [b \in Backends |-> None]

Next == UpdateMembership \/ BlacklistExecutor

Spec == Init /\ [][Next]_vars

-----------------------------------------------------------------------------
(* Properties                                                              *)

(* CheckConsistency, the DCHECK after every item and after maintenance,    *)
(* and the spec's consistency invariant: every executor a group offers to  *)
(* the scheduler is in current_backends, is an executor, is not quiescing  *)
(* (neither its current descriptor nor the group's copy) and is not        *)
(* blacklisted.  Re-registration, quiescing, deletion, blacklisting and    *)
(* probation each move a backend in or out of groups, and each must use   *)
(* the groups the backend is actually in.                                  *)
GroupsHoldOnlySchedulable ==
    \A g \in Groups, b \in Backends :
        groups[g][b] # None =>
            /\ backends[b] # None
            /\ b \in Executors
            /\ ~backends[b].quiescing
            /\ ~groups[g][b].quiescing
            /\ blacklist[b] # BLACKLISTED

=============================================================================
