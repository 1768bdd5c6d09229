------------------------- MODULE ClusterMembershipMgr -------------------------
(***************************************************************************)
(* The cluster membership manager of Impala 3.3                            *)
(* (be/src/scheduling/cluster-membership-mgr.cc).                          *)
(*                                                                         *)
(* A snapshot is a record: the version, the backends of current_backends   *)
(* (ids), which of them are quiescing, the members of each executor group, *)
(* the executor blacklist and whether local_be_desc is set.  The manager   *)
(* holds the published snapshot `current` and, while the statestore        *)
(* subscriber is recovering, the scratch snapshot `recovering`.            *)
(* UpdateMembership and BlacklistExecutor both run under                   *)
(* update_membership_lock_, so each is one atomic step.                    *)
(*                                                                         *)
(* The statestore side is the environment: `topic` is the membership topic *)
(* entry of each remote backend and `pending` the keys changed since the   *)
(* last update was delivered, so that a delta carries the latest value of *)
(* each changed key and a full update carries every live entry.            *)
(***************************************************************************)
EXTENDS Naturals, FiniteSets

CONSTANTS
    Backends,       \* backend ids (the local backend among them)
    Local,          \* local_backend_id_
    Executors,      \* the backends whose descriptor has is_executor
    Groups,         \* executor group names
    BeGroups,       \* BeGroups[b]: the executor_groups of b's descriptor
    MaxVersion      \* bound on Snapshot::version

ASSUME MembershipAssumption ==
    /\ Local \in Backends
    /\ Executors \subseteq Backends
    /\ BeGroups \in [Backends -> SUBSET Groups]
    /\ MaxVersion \in Nat

\* ExecutorBlacklist::State.
NOT_BLACKLISTED == "NOT_BLACKLISTED"
BLACKLISTED == "BLACKLISTED"
ON_PROBATION == "ON_PROBATION"
BlStates == {NOT_BLACKLISTED, BLACKLISTED, ON_PROBATION}

\* Values of a topic entry: absent (deleted), a well-formed descriptor that
\* is or is not quiescing, or one that fails to deserialize or has an empty
\* ip_address.
TopicValues == {"absent", "live", "quiescing", "malformed"}

\* recovering_membership_ when it holds nullptr.
NoSnapshot == [null |-> TRUE]

VARIABLES
    current,        \* current_membership_
    recovering,     \* recovering_membership_, or NoSnapshot
    topic,          \* statestore: membership topic entry of each backend
    pending,        \* statestore: keys changed since the last delta
    needFull,       \* the next topic update is a full transmit
    ssRecovering,   \* IsInPostRecoveryGracePeriod()
    localDesc,      \* local_be_desc_fn_(): "none", "live" or "quiescing"
    expired,        \* backends whose blacklist/probation timeout has passed
    serverView,     \* last set passed to update_local_server_fn_
    frontendView    \* executors last passed to update_frontend_fn_

vars == <<current, recovering, topic, pending, needFull, ssRecovering,
          localDesc, expired, serverView, frontendView>>

Remote == Backends \ {Local}

\* A default-constructed Snapshot.
EmptySnapshot ==
    [version |-> 0, backends |-> {}, quiescing |-> {},
     groups |-> [g \in Groups |-> {}],
     blacklist |-> [b \in Backends |-> NOT_BLACKLISTED],
     hasLocal |-> FALSE]

-----------------------------------------------------------------------------
(* ExecutorGroup::AddExecutor / RemoveExecutor, applied by                 *)
(* FindOrInsertExecutorGroup to every group of each backend in B.          *)
AddToGroups(grp, B) == [g \in Groups |-> grp[g] \cup {b \in B : g \in BeGroups[b]}]
RemoveFromGroups(grp, B) == [g \in Groups |-> grp[g] \ {b \in B : g \in BeGroups[b]}]

\* ExecutorBlacklist::NeedsMaintenance: some entry's timeout has passed.
Expiring(s) == {b \in Backends : s.blacklist[b] # NOT_BLACKLISTED /\ b \in expired}
NeedsMaintenance(s) == Expiring(s) # {}

(* ExecutorBlacklist::Maintenance, with the loop of UpdateMembership that  *)
(* puts the executors moved to probation back into their groups.           *)
Maintenance(s) ==
    LET probation == {b \in Expiring(s) : s.blacklist[b] = BLACKLISTED}
    IN  [s EXCEPT
           !.blacklist = [b \in Backends |->
                            IF b \in probation THEN ON_PROBATION
                            ELSE IF b \in Expiring(s) THEN NOT_BLACKLISTED
                            ELSE s.blacklist[b]],
           !.groups = AddToGroups(s.groups, probation)]

-----------------------------------------------------------------------------
(* The topic items of one update: key |-> "deleted" or the descriptor's    *)
(* value.  A delta carries the changed keys, a full update every entry.    *)
Items ==
    IF needFull
    THEN [k \in {b \in Backends : topic[b] # "absent"} |-> topic[k]]
    ELSE [k \in pending |-> IF topic[k] = "absent" THEN "deleted" ELSE topic[k]]

\* Mutant: a deleted backend stays marked quiescing.
ApplyItemsKeepsDeletedQuiescing(s, items) ==
    LET deleted == {k \in DOMAIN items : items[k] = "deleted" /\ k \in s.backends}
        valid   == {k \in DOMAIN items : items[k] \in {"live", "quiescing"} /\ k # Local}
    IN  [s EXCEPT
           !.backends = (s.backends \ deleted) \cup (valid \ s.backends),
           !.quiescing = (s.quiescing \ valid) \cup {k \in valid : items[k] = "quiescing"}]

\* Mutant: a created executor joins its groups even when quiescing.
ApplyItemsJoinsQuiescing(s, items) ==
    LET valid   == {k \in DOMAIN items : items[k] \in {"live", "quiescing"} /\ k # Local}
        created == valid \ s.backends
    IN  [s EXCEPT
           !.backends = @ \cup created,
           !.quiescing = (@ \ valid) \cup {k \in valid : items[k] = "quiescing"},
           !.groups = AddToGroups(@, {k \in created : k \in Executors})]

\* Mutant: an updated backend keeps its blacklist entry.
ApplyItemsKeepsBlacklistOnUpdate(s, items) ==
    LET deleted == {k \in DOMAIN items : items[k] = "deleted" /\ k \in s.backends}
        valid   == {k \in DOMAIN items : items[k] \in {"live", "quiescing"} /\ k # Local}
        updated == valid \cap s.backends
        created == valid \ s.backends
        leaving ==
            {k \in deleted : k \in Executors /\ k \notin s.quiescing
                             /\ s.blacklist[k] # BLACKLISTED}
            \cup {k \in updated : items[k] = "quiescing" /\ k \notin s.quiescing
                                  /\ k \in Executors /\ s.blacklist[k] # BLACKLISTED}
    IN  [s EXCEPT
           !.backends = (s.backends \ deleted) \cup created,
           !.quiescing = (s.quiescing \ (deleted \cup valid))
                           \cup {k \in valid : items[k] = "quiescing"},
           !.groups = AddToGroups(RemoveFromGroups(s.groups, leaving),
                                  {k \in created : items[k] = "live" /\ k \in Executors}),
           !.blacklist = [b \in Backends |->
                            IF b \in deleted THEN NOT_BLACKLISTED ELSE s.blacklist[b]]]

(* The loop over update.topic_entries.  Items of distinct keys touch       *)
(* distinct entries, so they are applied together.  Deleted keys leave the *)
(* map and the blacklist, and their groups unless quiescing or             *)
(* blacklisted; malformed items and the local key are skipped; an existing *)
(* key is replaced, leaving its groups if it starts quiescing; a new key   *)
(* joins its groups if it is a non-quiescing executor.  The FindAndRemove  *)
(* of a created key sits inside DCHECK_EQ and is not run in release builds.*)
ApplyItems(s, items) ==
    LET deleted == {k \in DOMAIN items : items[k] = "deleted" /\ k \in s.backends}
        valid   == {k \in DOMAIN items : items[k] \in {"live", "quiescing"} /\ k # Local}
        updated == valid \cap s.backends
        created == valid \ s.backends
        wasBlacklisted(k) == s.blacklist[k] = BLACKLISTED
        leaving ==
            {k \in deleted : k \in Executors /\ k \notin s.quiescing /\ ~wasBlacklisted(k)}
            \cup {k \in updated : items[k] = "quiescing" /\ k \notin s.quiescing
                                  /\ k \in Executors /\ ~wasBlacklisted(k)}
        joining == {k \in created : items[k] = "live" /\ k \in Executors}
    IN  [s EXCEPT
           !.backends = (s.backends \ deleted) \cup created,
           !.quiescing = (s.quiescing \ (deleted \cup valid))
                           \cup {k \in valid : items[k] = "quiescing"},
           !.groups = AddToGroups(RemoveFromGroups(s.groups, leaving), joining),
           !.blacklist = [b \in Backends |->
                            IF b \in deleted \cup updated THEN NOT_BLACKLISTED
                            ELSE s.blacklist[b]]]

\* Whether the items delete a backend that the snapshot holds.
DeletesBackend(s, items) ==
    \E k \in DOMAIN items : items[k] = "deleted" /\ k \in s.backends

\* ClusterMembershipMgr::NeedsLocalBackendUpdate.
NeedsLocalBackendUpdate(s) ==
    /\ localDesc # "none"
    /\ \/ ~s.hasLocal
       \/ Local \notin s.backends
       \/ (Local \in s.quiescing) # (localDesc = "quiescing")

(* Writing the local descriptor into current_backends and its groups.      *)
ApplyLocal(s) ==
    [s EXCEPT
       !.backends = @ \cup {Local},
       !.quiescing = IF localDesc = "quiescing" THEN @ \cup {Local} ELSE @ \ {Local},
       !.groups = IF localDesc = "quiescing" THEN RemoveFromGroups(@, {Local})
                  ELSE IF Local \in Executors THEN AddToGroups(@, {Local})
                  ELSE @]

\* The snapshot an update starts from.
BaseSnapshot == IF recovering # NoSnapshot THEN recovering ELSE current

\* Mutant: a full update starts from a copy of the base snapshot.
NewStateCopiesOnFull(base) == base

\* new_state: a fresh Snapshot for a full transmit, else the recovering
\* snapshot itself or a copy of the current one.
NewState(base) == IF needFull THEN EmptySnapshot ELSE base

\* Mutant: leaving the grace period does not notify the local server.
LeavingRecoveryIgnored == FALSE

\* update_local_server as first computed: a recovering snapshot is held and
\* the subscriber has left its grace period.
LeavingRecovery == recovering # NoSnapshot /\ ~ssRecovering

(* Leaving UpdateMembership outside the grace period: the local server is  *)
(* told the backends (NotifyLocalServerForDeletedBackend) if one may have  *)
(* gone, the frontend is told the executors, the snapshot is published     *)
(* (SetState) and recovering_membership_ is reset.                         *)
Publish(s, updateLocalServer) ==
    /\ serverView' = IF updateLocalServer THEN s.backends ELSE serverView
    /\ frontendView' = s.backends \cap Executors
    /\ current' = s
    /\ recovering' = NoSnapshot

-----------------------------------------------------------------------------
(***************************************************************************)
(* ClusterMembershipMgr::UpdateMembership, for an update that is not       *)
(* skipped by the early return of lines 153-156 (a skipped update changes  *)
(* nothing and is a stuttering step).                                      *)
(***************************************************************************)
UpdateMembership ==
    LET base == BaseSnapshot
        items == Items
        noSsUpdate == ~needFull /\ pending = {}
        needsLocal == NeedsLocalBackendUpdate(base)
        updateLocalServer0 == LeavingRecovery
        needsMaint == NeedsMaintenance(base)
        s0 == NewState(base)
        s1 == [s0 EXCEPT !.hasLocal = @ \/ localDesc # "none",
                         !.version = @ + 1]
        s2 == ApplyItems(s1, items)
        s3 == IF needsMaint THEN Maintenance(s2) ELSE s2
        doLocal == NeedsLocalBackendUpdate(s3)
        s4 == IF doLocal THEN ApplyLocal(s3) ELSE s3
        updateLocalServer ==
            updateLocalServer0 \/ needFull \/ DeletesBackend(s1, items)
    IN
    /\ ~(noSsUpdate /\ ~needsLocal /\ ~updateLocalServer0 /\ ~needsMaint)
    /\ s1.version <= MaxVersion
    /\ pending' = IF doLocal THEN {Local} ELSE {}
    /\ needFull' = FALSE
    /\ expired' = IF needsMaint THEN expired \ Expiring(s2) ELSE expired
    \* AddLocalBackendToStatestore: the statestore takes the local entry and
    \* will send it back in the next delta.
    /\ topic' = IF doLocal THEN [topic EXCEPT ![Local] = localDesc] ELSE topic
    /\ IF ssRecovering
       THEN /\ recovering' = s4
            /\ UNCHANGED <<current, serverView, frontendView>>
       ELSE Publish(s4, updateLocalServer)
    /\ UNCHANGED <<ssRecovering, localDesc>>

\* Mutant: the blacklisting is applied to a copy of current_membership_ and
\* published even while a recovering snapshot is held.
BlacklistExecutorIgnoresRecovering(b) ==
    /\ current.hasLocal
    /\ b # Local
    /\ \E g \in BeGroups[b] : b \in BaseSnapshot.groups[g]
    /\ expired' = expired \ {b}
    /\ current' = [current EXCEPT
                     !.groups = RemoveFromGroups(@, {b}),
                     !.blacklist = [@ EXCEPT ![b] = BLACKLISTED]]
    /\ UNCHANGED <<recovering, topic, pending, needFull, ssRecovering,
                   localDesc, serverView, frontendView>>

(***************************************************************************)
(* ClusterMembershipMgr::BlacklistExecutor(b).  The local backend is never *)
(* blacklisted; the comparison dereferences current_membership_'s          *)
(* local_be_desc, so the call is only made once it is set.                 *)
(***************************************************************************)
BlacklistExecutor(b) ==
    LET base == BaseSnapshot
        newState == [base EXCEPT
                       !.groups = RemoveFromGroups(@, {b}),
                       !.blacklist = [@ EXCEPT ![b] = BLACKLISTED]]
    IN
    /\ current.hasLocal
    /\ b # Local
    /\ \E g \in BeGroups[b] : b \in base.groups[g]
    /\ expired' = expired \ {b}
    /\ IF recovering # NoSnapshot
       THEN /\ recovering' = newState
            /\ UNCHANGED current
       ELSE /\ current' = newState
            /\ UNCHANGED recovering
    /\ UNCHANGED <<topic, pending, needFull, ssRecovering, localDesc,
                   serverView, frontendView>>

-----------------------------------------------------------------------------
(* The environment: the statestore's topic, its connection, the local      *)
(* backend and the clock of the blacklist.                                 *)

\* A remote backend writes its topic entry: it registers or re-registers
\* after a restart (a new value even when it was live), starts quiescing,
\* or sends a malformed descriptor; or the statestore deletes its entry.
SetTopicEntry(b, v) ==
    /\ b # Local
    /\ \/ v = "live"
       \/ v = "quiescing" /\ topic[b] = "live"
       \/ v \in {"absent", "malformed"} /\ topic[b] # v
    /\ topic' = [topic EXCEPT ![b] = v]
    /\ pending' = pending \cup {b}
    /\ UNCHANGED <<current, recovering, needFull, ssRecovering, localDesc,
                   expired, serverView, frontendView>>

\* The subscriber loses and re-establishes its statestore connection: it
\* enters the post-recovery grace period and is sent a full update.
StatestoreRecovery ==
    /\ ~ssRecovering
    /\ ssRecovering' = TRUE
    /\ needFull' = TRUE
    /\ UNCHANGED <<current, recovering, topic, pending, localDesc, expired,
                   serverView, frontendView>>

GracePeriodEnds ==
    /\ ssRecovering
    /\ ssRecovering' = FALSE
    /\ UNCHANGED <<current, recovering, topic, pending, needFull, localDesc,
                   expired, serverView, frontendView>>

\* The local backend starts (local_be_desc_fn_ returns a descriptor), then
\* may start a graceful shutdown.
LocalBackendChanges ==
    /\ \/ localDesc = "none" /\ localDesc' = "live"
       \/ localDesc = "live" /\ localDesc' = "quiescing"
    /\ UNCHANGED <<current, recovering, topic, pending, needFull, ssRecovering,
                   expired, serverView, frontendView>>

\* The blacklist or probation timeout of b's entry passes.
TimeoutPasses(b) ==
    /\ BaseSnapshot.blacklist[b] # NOT_BLACKLISTED
    /\ b \notin expired
    /\ expired' = expired \cup {b}
    /\ UNCHANGED <<current, recovering, topic, pending, needFull, ssRecovering,
                   localDesc, serverView, frontendView>>

Environment ==
    \/ \E b \in Backends, v \in TopicValues : SetTopicEntry(b, v)
    \/ StatestoreRecovery
    \/ GracePeriodEnds
    \/ LocalBackendChanges
    \/ \E b \in Backends : TimeoutPasses(b)

-----------------------------------------------------------------------------
Init ==
    /\ current = EmptySnapshot
    /\ recovering = NoSnapshot
    /\ topic = [b \in Backends |-> "absent"]
    /\ pending = {}
    /\ needFull = TRUE
    /\ ssRecovering = FALSE
    /\ localDesc = "none"
    /\ expired = {}
    /\ serverView = {}
    /\ frontendView = {}

Next ==
    \/ UpdateMembership
    \/ \E b \in Backends : BlacklistExecutor(b)
    \/ Environment

Spec == Init /\ [][Next]_vars

-----------------------------------------------------------------------------
(* The snapshots the manager holds.                                        *)
Held == {current} \cup (IF recovering # NoSnapshot THEN {recovering} ELSE {})

SnapshotType ==
    [version : 0..MaxVersion, backends : SUBSET Backends,
     quiescing : SUBSET Backends, groups : [Groups -> SUBSET Backends],
     blacklist : [Backends -> BlStates], hasLocal : BOOLEAN]

(* Every variable has its type, and a snapshot's quiescing backends are    *)
(* entries of its current_backends.                                        *)
TypeOK ==
    /\ current \in SnapshotType
    /\ recovering \in SnapshotType \cup {NoSnapshot}
    /\ \A s \in Held : s.quiescing \subseteq s.backends
    /\ topic \in [Backends -> TopicValues]
    /\ pending \subseteq Backends
    /\ needFull \in BOOLEAN
    /\ ssRecovering \in BOOLEAN
    /\ localDesc \in {"none", "live", "quiescing"}
    /\ expired \subseteq Backends
    /\ serverView \subseteq Backends
    /\ frontendView \subseteq Executors

(* CheckConsistency (the DCHECK after every item, after maintenance and    *)
(* after the local update): in the published and in the recovering         *)
(* snapshot, every member of an executor group is in current_backends, is  *)
(* an executor listing that group, is not quiescing and is not             *)
(* blacklisted.                                                            *)
GroupsConsistent ==
    \A s \in Held : \A g \in Groups : \A b \in s.groups[g] :
        /\ b \in s.backends \ s.quiescing
        /\ b \in Executors
        /\ g \in BeGroups[b]
        /\ s.blacklist[b] # BLACKLISTED

(* Only known, non-quiescing remote executors are on the blacklist or on   *)
(* probation.  The DCHECK_EQ of a created backend (line 284) and the       *)
(* probation loop, which re-adds entries to their groups without checking  *)
(* them, both rely on it.                                                  *)
BlacklistTracksMembers ==
    \A s \in Held : \A b \in Backends :
        s.blacklist[b] # NOT_BLACKLISTED =>
            /\ b \in s.backends \ s.quiescing
            /\ b \in Executors \ {Local}

(* Once the statestore's updates are delivered and no recovering snapshot  *)
(* is held, the published current_backends agrees with the topic on every  *)
(* remote backend whose entry is well formed: full updates, deltas and the *)
(* hand-over of a recovering snapshot lose no deletion and no change.      *)
PublishedMatchesTopic ==
    (recovering = NoSnapshot /\ ~needFull) =>
        \A b \in Remote \ pending :
            /\ topic[b] = "absent" => b \notin current.backends
            /\ topic[b] \in {"live", "quiescing"} =>
                  /\ b \in current.backends
                  /\ (b \in current.quiescing) <=> (topic[b] = "quiescing")

(* The local server (which cancels the queries of removed backends) never  *)
(* believes in a backend that the published snapshot has dropped: every    *)
(* publish that can remove a backend, including the hand-over after the    *)
(* grace period, notifies it.                                              *)
ServerViewNoStaleBackends ==
    serverView \subseteq current.backends

(* A recovering membership is never exposed: while one is held, the        *)
(* published snapshot only changes by publishing it (and clearing it).     *)
RecoveringNeverPublished ==
    [][recovering # NoSnapshot => (UNCHANGED current \/ recovering' = NoSnapshot)]_vars

(* The spec: version is strictly monotonic across publishes.               *)
VersionIncreasesOnPublish ==
    [][current' # current => current'.version > current.version]_vars

(* Weaker: the published version never goes down.                          *)
VersionNeverDecreases ==
    [][current'.version >= current.version]_vars

(* The spec's blacklist has a probation stage before full reinstatement:   *)
(* a remote executor that is known, not quiescing and not blacklisted is a *)
(* member of each of its groups in the published snapshot.                 *)
ExecutorsReinstated ==
    recovering = NoSnapshot =>
        \A b \in (current.backends \cap Executors) \ {Local} :
            (b \notin current.quiescing /\ current.blacklist[b] # BLACKLISTED) =>
                \A g \in BeGroups[b] : b \in current.groups[g]

=============================================================================
