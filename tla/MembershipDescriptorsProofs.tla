--------------------- MODULE MembershipDescriptorsProofs ---------------------
(***************************************************************************)
(* Proofs about MembershipDescriptors for every set of backends, executors *)
(* and groups: if each backend always registers with the same              *)
(* executor_groups list, every executor an executor group offers to the    *)
(* scheduler is schedulable.  The run cmd_regroup_ghost shows that the     *)
(* hypothesis is needed.                                                   *)
(***************************************************************************)
EXTENDS MembershipDescriptors, TLAPS

(* The hypothesis: a backend's descriptors all carry the same              *)
(* executor_groups (it is not restarted with another --executor_groups).   *)
FixedGroups == \A b \in Backends : \A x, y \in DescGroups[b] : x = y

\* A descriptor of b, or None.
DescOrNone(b) == Descs(b) \cup {None}

\* Any descriptor, or None.
AnyDesc == [groups : SUBSET Groups, quiescing : BOOLEAN] \cup {None}

(* The types of a membership state record: each entry of b holds one of   *)
(* b's descriptors or None.                                                *)
SType(s) ==
    /\ s \in [backends : [Backends -> AnyDesc],
              groups : [Groups -> [Backends -> AnyDesc]],
              blacklist : [Backends -> {NOT_BLACKLISTED, BLACKLISTED, ON_PROBATION}],
              blDesc : [Backends -> AnyDesc]]
    /\ \A b \in Backends :
          /\ s.backends[b] \in DescOrNone(b)
          /\ s.blDesc[b] \in DescOrNone(b)
          /\ \A g \in Groups : s.groups[g][b] \in DescOrNone(b)

(* A member of a group is a schedulable executor whose stored descriptor   *)
(* lists that group.                                                       *)
MembersSchedulable(s) ==
    \A g \in Groups, b \in Backends : s.groups[g][b] # None =>
        /\ s.backends[b] # None
        /\ b \in Executors
        /\ ~s.backends[b].quiescing
        /\ ~s.groups[g][b].quiescing
        /\ s.blacklist[b] # BLACKLISTED
        /\ g \in s.groups[g][b].groups

(* A blacklisted executor is in no group, is a known, non-quiescing        *)
(* executor, and its blacklist entry stores a non-quiescing descriptor:    *)
(* what probation puts back into the groups.                               *)
BlacklistedSchedulable(s) ==
    \A b \in Backends : s.blacklist[b] = BLACKLISTED =>
        /\ s.blDesc[b] # None
        /\ ~s.blDesc[b].quiescing
        /\ s.backends[b] # None
        /\ ~s.backends[b].quiescing
        /\ b \in Executors
        /\ \A g \in Groups : s.groups[g][b] = None

Good(s) == SType(s) /\ MembersSchedulable(s) /\ BlacklistedSchedulable(s)

\* The inductive invariant.
IInv == Good(State)

-----------------------------------------------------------------------------
USE DescriptorsAssumption
USE DEF NOT_BLACKLISTED, BLACKLISTED, ON_PROBATION

LEMMA NoneNotDesc ==
    ASSUME NEW b \in Backends, NEW d \in Descs(b)
    PROVE  d # None /\ d # DELETED /\ d # SKIPPED
BY DEF Descs, None, DELETED, SKIPPED

(* Under FixedGroups, a backend that is in group g lists g in every one of *)
(* its descriptors.                                                        *)
LEMMA MemberGroups ==
    ASSUME FixedGroups, NEW s, Good(s), NEW g \in Groups, NEW k \in Backends,
           s.groups[g][k] # None, NEW d \in Descs(k)
    PROVE  g \in d.groups
<1>1. s.groups[g][k] \in Descs(k) /\ g \in s.groups[g][k].groups
  BY DEF Good, SType, MembersSchedulable, DescOrNone
<1>2. s.groups[g][k].groups = d.groups
  BY <1>1 DEF FixedGroups, Descs
<1>3. QED
  BY <1>1, <1>2

(* A key that is deleted leaves every group it is in.                      *)
LEMMA DeleteItemGood ==
    ASSUME FixedGroups, NEW s, Good(s), NEW k \in Backends
    PROVE  Good(DeleteItem(s, k))
<1>1. CASE s.backends[k] = None
  BY <1>1 DEF DeleteItem
<1>2. CASE s.backends[k] # None
  <2> DEFINE be == s.backends[k]
             cond == k \in Executors /\ ~be.quiescing /\ ~(s.blacklist[k] = BLACKLISTED)
             gr == IF cond THEN RemoveExecutor(s.groups, be.groups, k) ELSE s.groups
             t == [backends |-> [s.backends EXCEPT ![k] = None],
                   groups |-> gr,
                   blacklist |-> [s.blacklist EXCEPT ![k] = NOT_BLACKLISTED],
                   blDesc |-> [s.blDesc EXCEPT ![k] = None]]
  <2>1. be \in Descs(k)
    BY <1>2 DEF Good, SType, DescOrNone
  <2>2. DeleteItem(s, k) = t
    BY <1>2 DEF DeleteItem, FindAndRemove, Good, SType
  <2>3. \A g \in Groups : gr[g][k] = None
    <3>1. CASE cond
      <4>1. ASSUME NEW g \in Groups PROVE gr[g][k] = None
        <5>1. CASE s.groups[g][k] # None
          BY <2>1, <3>1, <5>1, MemberGroups DEF RemoveExecutor, Good, SType
        <5>2. CASE s.groups[g][k] = None
          BY <3>1, <5>2 DEF RemoveExecutor, Good, SType
        <5>3. QED
          BY <5>1, <5>2
      <4>2. QED
        BY <4>1
    <3>2. CASE ~cond
      BY <3>2 DEF Good, MembersSchedulable
    <3>3. QED
      BY <3>1, <3>2
  <2>4. \A g \in Groups, c \in Backends \ {k} : gr[g][c] = s.groups[g][c]
    BY DEF RemoveExecutor, Good, SType
  <2>5. gr \in [Groups -> [Backends -> AnyDesc]]
    BY <2>3, <2>4 DEF Good, SType, RemoveExecutor, AnyDesc
  <2> HIDE DEF gr
  <2>6. SType(t)
    BY <2>3, <2>4, <2>5 DEF Good, SType, DescOrNone, AnyDesc
  <2>7. MembersSchedulable(t)
    BY <2>3, <2>4 DEF Good, SType, MembersSchedulable
  <2>8. BlacklistedSchedulable(t)
    <3> SUFFICES ASSUME NEW c \in Backends, t.blacklist[c] = BLACKLISTED
                 PROVE  /\ t.blDesc[c] # None
                        /\ ~t.blDesc[c].quiescing
                        /\ t.backends[c] # None
                        /\ ~t.backends[c].quiescing
                        /\ c \in Executors
                        /\ \A g \in Groups : t.groups[g][c] = None
      BY DEF BlacklistedSchedulable
    <3>1. c # k /\ s.blacklist[c] = BLACKLISTED
      BY DEF Good, SType
    <3>2. /\ t.blDesc[c] = s.blDesc[c] /\ t.backends[c] = s.backends[c]
          /\ \A g \in Groups : t.groups[g][c] = s.groups[g][c]
      BY <2>4, <3>1 DEF Good, SType
    <3>3. QED
      BY <3>1, <3>2 DEF Good, BlacklistedSchedulable
  <2>9. QED
    BY <2>2, <2>6, <2>7, <2>8 DEF Good
<1>3. QED
  BY <1>1, <1>2

(* FindAndRemove on a typed state record.                                  *)
LEMMA FindAndRemoveRec ==
    ASSUME NEW s, SType(s), NEW k \in Backends
    PROVE  FindAndRemove(s, k) =
             [backends |-> s.backends, groups |-> s.groups,
              blacklist |-> [s.blacklist EXCEPT ![k] = NOT_BLACKLISTED],
              blDesc |-> [s.blDesc EXCEPT ![k] = None]]
<1>1. s = [backends |-> s.backends, groups |-> s.groups,
           blacklist |-> s.blacklist, blDesc |-> s.blDesc]
  BY DEF SType
<1>2. FindAndRemove(s, k) =
        [s EXCEPT !.blacklist = [s.blacklist EXCEPT ![k] = NOT_BLACKLISTED],
                  !.blDesc = [s.blDesc EXCEPT ![k] = None]]
  BY Zenon DEF FindAndRemove
<1>3. QED
  BY <1>1, <1>2

(* A key that is replaced leaves every group it is in if it starts        *)
(* quiescing, and otherwise keeps the groups' copies it had.               *)
LEMMA UpdateItemGood ==
    ASSUME FixedGroups, NEW s, Good(s), NEW k \in Backends, NEW v \in Descs(k),
           s.backends[k] # None
    PROVE  Good(UpdateItem(s, k, v))
<1> DEFINE existing == s.backends[k]
           sq == StartsQuiescing(existing, v, k, s.blacklist[k] = BLACKLISTED)
           gr == IF sq THEN RemoveExecutor(s.groups, v.groups, k) ELSE s.groups
           t == [backends |-> [s.backends EXCEPT ![k] = v],
                 groups |-> gr,
                 blacklist |-> [s.blacklist EXCEPT ![k] = NOT_BLACKLISTED],
                 blDesc |-> [s.blDesc EXCEPT ![k] = None]]
<1>1. UpdateItem(s, k, v) = t
  <2> DEFINE fr == FindAndRemove(s, k)
  <2>1. fr = [backends |-> s.backends, groups |-> s.groups,
              blacklist |-> [s.blacklist EXCEPT ![k] = NOT_BLACKLISTED],
              blDesc |-> [s.blDesc EXCEPT ![k] = None]]
    BY FindAndRemoveRec DEF Good
  <2>2. UpdateItem(s, k, v) =
          [fr EXCEPT !.groups = IF sq THEN RemoveExecutor(fr.groups, v.groups, k)
                                ELSE fr.groups,
                     !.backends = [fr.backends EXCEPT ![k] = v]]
    BY Zenon DEF UpdateItem
  <2> HIDE DEF fr
  <2>3. QED
    BY <2>1, <2>2
<1>2. ASSUME NEW g \in Groups, gr[g][k] # None
      PROVE  ~v.quiescing /\ gr[g][k] = s.groups[g][k]
  <2>1. CASE sq
    BY <1>2, <2>1, MemberGroups DEF RemoveExecutor, Good, SType
  <2>2. CASE ~sq
    <3>1. s.groups[g][k] # None
      BY <1>2, <2>2
    <3>2. k \in Executors /\ ~existing.quiescing /\ s.blacklist[k] # BLACKLISTED
      BY <3>1 DEF Good, MembersSchedulable
    <3>3. ~v.quiescing
      BY <2>2, <3>2 DEF StartsQuiescing
    <3>4. QED
      BY <2>2, <3>3
  <2>3. QED
    BY <2>1, <2>2
<1>3. \A g \in Groups, c \in Backends \ {k} : gr[g][c] = s.groups[g][c]
  BY DEF RemoveExecutor, Good, SType
<1>4. gr \in [Groups -> [Backends -> AnyDesc]]
  BY DEF Good, SType, RemoveExecutor, AnyDesc
<1>5. v \in AnyDesc /\ v # None
  BY NoneNotDesc DEF Descs, AnyDesc
<1> HIDE DEF gr
<1>6. SType(t)
  BY <1>2, <1>3, <1>4, <1>5 DEF Good, SType, DescOrNone, AnyDesc
<1>7. MembersSchedulable(t)
  <2> SUFFICES ASSUME NEW g \in Groups, NEW c \in Backends, t.groups[g][c] # None
               PROVE  /\ t.backends[c] # None
                      /\ c \in Executors
                      /\ ~t.backends[c].quiescing
                      /\ ~t.groups[g][c].quiescing
                      /\ t.blacklist[c] # BLACKLISTED
                      /\ g \in t.groups[g][c].groups
    BY DEF MembersSchedulable
  <2>1. CASE c = k
    BY <1>2, <1>5, <2>1 DEF Good, SType, MembersSchedulable
  <2>2. CASE c # k
    BY <1>3, <2>2 DEF Good, SType, MembersSchedulable
  <2>3. QED
    BY <2>1, <2>2
<1>8. BlacklistedSchedulable(t)
  <2> SUFFICES ASSUME NEW c \in Backends, t.blacklist[c] = BLACKLISTED
               PROVE  /\ t.blDesc[c] # None
                      /\ ~t.blDesc[c].quiescing
                      /\ t.backends[c] # None
                      /\ ~t.backends[c].quiescing
                      /\ c \in Executors
                      /\ \A g \in Groups : t.groups[g][c] = None
    BY DEF BlacklistedSchedulable
  <2>1. c # k /\ s.blacklist[c] = BLACKLISTED
    BY DEF Good, SType
  <2>2. /\ t.blDesc[c] = s.blDesc[c] /\ t.backends[c] = s.backends[c]
        /\ \A g \in Groups : t.groups[g][c] = s.groups[g][c]
    BY <1>3, <2>1 DEF Good, SType
  <2>3. QED
    BY <2>1, <2>2 DEF Good, BlacklistedSchedulable
<1>9. QED
  BY <1>1, <1>6, <1>7, <1>8 DEF Good

(* A new key joins the groups of its descriptor if it is a non-quiescing  *)
(* executor: it was in no group and not blacklisted, having no entry.      *)
LEMMA CreateItemGood ==
    ASSUME NEW s, Good(s), NEW k \in Backends, NEW v \in Descs(k),
           s.backends[k] = None
    PROVE  Good(CreateItem(s, k, v))
<1> DEFINE join == ~v.quiescing /\ k \in Executors
           gr == IF join THEN AddExecutor(s.groups, v, k) ELSE s.groups
           t == [backends |-> [s.backends EXCEPT ![k] = v],
                 groups |-> gr,
                 blacklist |-> s.blacklist,
                 blDesc |-> s.blDesc]
<1>1. CreateItem(s, k, v) = t
  <2>1. s = [backends |-> s.backends, groups |-> s.groups,
             blacklist |-> s.blacklist, blDesc |-> s.blDesc]
    BY DEF Good, SType
  <2>2. CreateItem(s, k, v) =
          [s EXCEPT !.backends = [s.backends EXCEPT ![k] = v], !.groups = gr]
    BY Zenon DEF CreateItem
  <2> HIDE DEF gr
  <2>3. QED
    BY <2>1, <2>2
<1>2. \A g \in Groups : s.groups[g][k] = None
  BY DEF Good, MembersSchedulable
<1>3. s.blacklist[k] # BLACKLISTED
  BY DEF Good, BlacklistedSchedulable
<1>4. ASSUME NEW g \in Groups, gr[g][k] # None
      PROVE  join /\ g \in v.groups /\ gr[g][k] = v
  BY <1>2, <1>4 DEF AddExecutor, Good, SType
<1>5. \A g \in Groups, c \in Backends \ {k} : gr[g][c] = s.groups[g][c]
  BY DEF AddExecutor, Good, SType
<1>6. v \in AnyDesc /\ v # None /\ v \in DescOrNone(k)
  BY NoneNotDesc DEF Descs, AnyDesc, DescOrNone
<1>7. gr \in [Groups -> [Backends -> AnyDesc]]
  BY <1>6 DEF Good, SType, AddExecutor
<1> HIDE DEF gr
<1>8. SType(t)
  <2>1. \A g \in Groups : gr[g][k] \in DescOrNone(k)
    BY <1>2, <1>4, <1>6 DEF DescOrNone
  <2>2. QED
    BY <1>5, <1>6, <1>7, <2>1 DEF Good, SType
<1>9. MembersSchedulable(t)
  <2> SUFFICES ASSUME NEW g \in Groups, NEW c \in Backends, t.groups[g][c] # None
               PROVE  /\ t.backends[c] # None
                      /\ c \in Executors
                      /\ ~t.backends[c].quiescing
                      /\ ~t.groups[g][c].quiescing
                      /\ t.blacklist[c] # BLACKLISTED
                      /\ g \in t.groups[g][c].groups
    BY DEF MembersSchedulable
  <2>1. CASE c = k
    BY <1>3, <1>4, <1>6, <2>1 DEF Good, SType
  <2>2. CASE c # k
    BY <1>5, <2>2 DEF Good, SType, MembersSchedulable
  <2>3. QED
    BY <2>1, <2>2
<1>10. BlacklistedSchedulable(t)
  <2> SUFFICES ASSUME NEW c \in Backends, t.blacklist[c] = BLACKLISTED
               PROVE  /\ t.blDesc[c] # None
                      /\ ~t.blDesc[c].quiescing
                      /\ t.backends[c] # None
                      /\ ~t.backends[c].quiescing
                      /\ c \in Executors
                      /\ \A g \in Groups : t.groups[g][c] = None
    BY DEF BlacklistedSchedulable
  <2>1. c # k /\ s.blacklist[c] = BLACKLISTED
    BY <1>3
  <2>2. /\ t.backends[c] = s.backends[c]
        /\ \A g \in Groups : t.groups[g][c] = s.groups[g][c]
    BY <1>5, <2>1 DEF Good, SType
  <2>3. QED
    BY <2>1, <2>2 DEF Good, BlacklistedSchedulable
<1>11. QED
  BY <1>1, <1>8, <1>9, <1>10 DEF Good

(* One item of the loop keeps the state good.                             *)
LEMMA ApplyItemGood ==
    ASSUME FixedGroups, NEW s, Good(s), NEW k \in Backends,
           NEW v \in Descs(k) \cup {DELETED, SKIPPED}
    PROVE  Good(ApplyItem(s, k, v))
<1>1. CASE v = SKIPPED
  BY <1>1 DEF ApplyItem, DELETED, SKIPPED
<1>2. CASE v = DELETED
  <2>1. ApplyItem(s, k, v) = DeleteItem(s, k)
    BY <1>2 DEF ApplyItem, DELETED, SKIPPED
  <2>2. QED
    BY <2>1, DeleteItemGood
<1>3. CASE v \in Descs(k)
  <2>1. ApplyItem(s, k, v) = IF s.backends[k] # None THEN UpdateItem(s, k, v)
                                                     ELSE CreateItem(s, k, v)
    BY <1>3, NoneNotDesc DEF ApplyItem
  <2>2. QED
    BY <1>3, <2>1, UpdateItemGood, CreateItemGood
<1>4. QED
  BY <1>1, <1>2, <1>3

(* Maintenance puts the probation executors back with the descriptors     *)
(* their blacklist entries stored, which are schedulable.                  *)
LEMMA MaintenanceGood ==
    ASSUME NEW s, Good(s), NEW expired \in SUBSET Backends
    PROVE  Good(Maintenance(s, expired))
<1> DEFINE probation == {b \in expired : s.blacklist[b] = BLACKLISTED}
           cleared   == {b \in expired : s.blacklist[b] = ON_PROBATION}
           bl == [b \in Backends |->
                    IF b \in probation THEN ON_PROBATION
                    ELSE IF b \in cleared THEN NOT_BLACKLISTED
                    ELSE s.blacklist[b]]
           bd == [b \in Backends |-> IF b \in cleared THEN None ELSE s.blDesc[b]]
           gr == [g \in Groups |-> [b \in Backends |->
                    IF b \in probation /\ g \in s.blDesc[b].groups
                    THEN s.blDesc[b] ELSE s.groups[g][b]]]
           t == [backends |-> s.backends, groups |-> gr, blacklist |-> bl, blDesc |-> bd]
<1>1. Maintenance(s, expired) = t
  <2>1. s = [backends |-> s.backends, groups |-> s.groups,
             blacklist |-> s.blacklist, blDesc |-> s.blDesc]
    BY DEF Good, SType
  <2>2. Maintenance(s, expired) = [s EXCEPT !.blacklist = bl, !.blDesc = bd, !.groups = gr]
    BY Zenon DEF Maintenance
  <2> HIDE DEF bl, bd, gr
  <2>3. QED
    BY <2>1, <2>2
<1>2. ASSUME NEW b \in probation
      PROVE  /\ s.blDesc[b] \in Descs(b)
             /\ ~s.blDesc[b].quiescing
             /\ s.backends[b] # None
             /\ ~s.backends[b].quiescing
             /\ b \in Executors
  BY DEF Good, SType, BlacklistedSchedulable, DescOrNone
<1>3. SType(t)
  <2>1. \A g \in Groups, b \in Backends : gr[g][b] \in DescOrNone(b)
    BY <1>2 DEF Good, SType, DescOrNone
  <2>2. \A b \in Backends : bd[b] \in DescOrNone(b)
    BY DEF Good, SType, DescOrNone
  <2>3. \A b \in Backends : DescOrNone(b) \subseteq AnyDesc
    BY DEF DescOrNone, Descs, AnyDesc
  <2>4. /\ gr \in [Groups -> [Backends -> AnyDesc]]
        /\ bd \in [Backends -> AnyDesc]
        /\ bl \in [Backends -> {NOT_BLACKLISTED, BLACKLISTED, ON_PROBATION}]
    BY <2>1, <2>2, <2>3 DEF Good, SType
  <2> HIDE DEF gr, bd, bl
  <2>5. QED
    BY <2>1, <2>2, <2>4 DEF Good, SType
<1>4. MembersSchedulable(t)
  <2> SUFFICES ASSUME NEW g \in Groups, NEW c \in Backends, t.groups[g][c] # None
               PROVE  /\ t.backends[c] # None
                      /\ c \in Executors
                      /\ ~t.backends[c].quiescing
                      /\ ~t.groups[g][c].quiescing
                      /\ t.blacklist[c] # BLACKLISTED
                      /\ g \in t.groups[g][c].groups
    BY DEF MembersSchedulable
  <2>1. CASE c \in probation /\ g \in s.blDesc[c].groups
    BY <1>2, <2>1
  <2>2. CASE ~(c \in probation /\ g \in s.blDesc[c].groups)
    <3>1. t.groups[g][c] = s.groups[g][c]
      BY <2>2
    <3>2. s.blacklist[c] # BLACKLISTED
      BY <3>1 DEF Good, MembersSchedulable
    <3>3. QED
      BY <3>1, <3>2 DEF Good, MembersSchedulable
  <2>3. QED
    BY <2>1, <2>2
<1>5. BlacklistedSchedulable(t)
  <2> SUFFICES ASSUME NEW c \in Backends, t.blacklist[c] = BLACKLISTED
               PROVE  /\ t.blDesc[c] # None
                      /\ ~t.blDesc[c].quiescing
                      /\ t.backends[c] # None
                      /\ ~t.backends[c].quiescing
                      /\ c \in Executors
                      /\ \A g \in Groups : t.groups[g][c] = None
    BY DEF BlacklistedSchedulable
  <2>1. c \notin expired /\ s.blacklist[c] = BLACKLISTED
    BY DEF Good, SType
  <2>2. QED
    BY <2>1 DEF Good, BlacklistedSchedulable
<1>6. QED
  BY <1>1, <1>3, <1>4, <1>5 DEF Good

-----------------------------------------------------------------------------
LEMMA InitIInv == Init => IInv
<1> SUFFICES ASSUME Init PROVE IInv
  OBVIOUS
<1>1. None \in AnyDesc /\ \A b \in Backends : None \in DescOrNone(b)
  BY DEF AnyDesc, DescOrNone
<1>2. QED
  BY <1>1 DEF Init, IInv, Good, State, SType, MembersSchedulable,
              BlacklistedSchedulable

(* The update publishes the state built by its item and its maintenance.  *)
LEMMA UpdateIInv == FixedGroups /\ IInv /\ UpdateMembership => IInv'
<1> SUFFICES ASSUME FixedGroups, IInv, UpdateMembership PROVE IInv'
  OBVIOUS
<1>1. PICK k \in Backends : \E v \in Descs(k) \cup {DELETED, SKIPPED},
         expired \in SUBSET {b \in Backends : blacklist[b] # NOT_BLACKLISTED} :
          LET s1 == ApplyItem(State, k, v)
          IN  Publish(IF expired # {} THEN Maintenance(s1, expired) ELSE s1)
  BY DEF UpdateMembership
<1>2. PICK v \in Descs(k) \cup {DELETED, SKIPPED} :
         \E expired \in SUBSET {b \in Backends : blacklist[b] # NOT_BLACKLISTED} :
          LET s1 == ApplyItem(State, k, v)
          IN  Publish(IF expired # {} THEN Maintenance(s1, expired) ELSE s1)
  BY <1>1
<1>3. PICK expired \in SUBSET {b \in Backends : blacklist[b] # NOT_BLACKLISTED} :
          LET s1 == ApplyItem(State, k, v)
          IN  Publish(IF expired # {} THEN Maintenance(s1, expired) ELSE s1)
  BY <1>2
<1> DEFINE s1 == ApplyItem(State, k, v)
           x == IF expired # {} THEN Maintenance(s1, expired) ELSE s1
<1>4. Good(s1)
  BY ApplyItemGood DEF IInv
<1>5. Good(x)
  BY <1>4, MaintenanceGood
<1> HIDE DEF s1, x
<1>6. State' = x
  <2>1. x = [backends |-> x.backends, groups |-> x.groups,
             blacklist |-> x.blacklist, blDesc |-> x.blDesc]
    BY <1>5 DEF Good, SType
  <2>2. QED
    BY <1>3, <2>1 DEF Publish, State, s1, x
<1>7. QED
  BY <1>5, <1>6 DEF IInv

(* Blacklisting removes the executor from every group it is in and stores *)
(* a group's copy of its descriptor, which is schedulable.                *)
LEMMA BlacklistIInv == FixedGroups /\ IInv /\ BlacklistExecutor => IInv'
<1> SUFFICES ASSUME FixedGroups, IInv, BlacklistExecutor PROVE IInv'
  OBVIOUS
<1> DEFINE s == State
<1>1. PICK g \in Groups, b \in Backends :
          LET d == groups[g][b]
          IN  /\ d # None
              /\ \E h \in d.groups : groups[h][b] # None
              /\ groups' = RemoveExecutor(groups, d.groups, b)
              /\ blacklist' = [blacklist EXCEPT ![b] = BLACKLISTED]
              /\ blDesc' = [blDesc EXCEPT ![b] = d]
              /\ UNCHANGED backends
  BY DEF BlacklistExecutor
<1> DEFINE d == groups[g][b]
<1>2. Good(s)
  BY DEF IInv
<1>3. /\ groups' = RemoveExecutor(groups, d.groups, b)
       /\ blacklist' = [blacklist EXCEPT ![b] = BLACKLISTED]
       /\ blDesc' = [blDesc EXCEPT ![b] = d]
       /\ backends' = backends
  BY <1>1
<1>4. /\ d \in Descs(b) /\ ~d.quiescing
      /\ backends[b] # None /\ ~backends[b].quiescing /\ b \in Executors
  BY <1>1, <1>2 DEF Good, SType, MembersSchedulable, DescOrNone, State
<1>5. \A h \in Groups : groups'[h][b] = None
  <2> SUFFICES ASSUME NEW h \in Groups PROVE groups'[h][b] = None
    OBVIOUS
  <2>1. CASE groups[h][b] # None
    <3>1. h \in d.groups
      BY <1>2, <1>4, <2>1, MemberGroups DEF State
    <3>2. groups[h] \in [Backends -> AnyDesc]
      BY <1>2 DEF Good, SType, State
    <3>3. QED
      BY <1>3, <3>1, <3>2 DEF RemoveExecutor
  <2>2. CASE groups[h][b] = None
    BY <1>1, <2>2 DEF RemoveExecutor, Good, SType, State
  <2>3. QED
    BY <2>1, <2>2
<1>6. \A h \in Groups, c \in Backends \ {b} : groups'[h][c] = groups[h][c]
  BY <1>1, <1>2 DEF RemoveExecutor, Good, SType, State
<1>7. groups' \in [Groups -> [Backends -> AnyDesc]]
  BY <1>1, <1>2 DEF RemoveExecutor, Good, SType, State, AnyDesc
<1>8. d \in AnyDesc /\ d \in DescOrNone(b)
  BY <1>4 DEF Descs, AnyDesc, DescOrNone
<1> HIDE DEF d
<1>9. SType(State')
  BY <1>1, <1>2, <1>5, <1>6, <1>7, <1>8 DEF Good, SType, State, DescOrNone
<1>10. MembersSchedulable(State')
  <2> SUFFICES ASSUME NEW h \in Groups, NEW c \in Backends, groups'[h][c] # None
               PROVE  /\ backends'[c] # None
                      /\ c \in Executors
                      /\ ~backends'[c].quiescing
                      /\ ~groups'[h][c].quiescing
                      /\ blacklist'[c] # BLACKLISTED
                      /\ h \in groups'[h][c].groups
    BY DEF MembersSchedulable, State
  <2>1. c # b
    BY <1>5
  <2>2. QED
    BY <1>1, <1>2, <1>6, <2>1 DEF Good, SType, MembersSchedulable, State
<1>11. BlacklistedSchedulable(State')
  <2> SUFFICES ASSUME NEW c \in Backends, blacklist'[c] = BLACKLISTED
               PROVE  /\ blDesc'[c] # None
                      /\ ~blDesc'[c].quiescing
                      /\ backends'[c] # None
                      /\ ~backends'[c].quiescing
                      /\ c \in Executors
                      /\ \A h \in Groups : groups'[h][c] = None
    BY DEF BlacklistedSchedulable, State
  <2>1. CASE c = b
    BY <1>3, <1>2, <1>4, <1>5, <2>1, NoneNotDesc DEF Good, SType, State
  <2>2. CASE c # b
    BY <1>1, <1>2, <1>6, <2>2 DEF Good, SType, BlacklistedSchedulable, State
  <2>3. QED
    BY <2>1, <2>2
<1>12. QED
  BY <1>9, <1>10, <1>11 DEF IInv, Good

LEMMA NextIInv == FixedGroups /\ IInv /\ [Next]_vars => IInv'
<1> SUFFICES ASSUME FixedGroups, IInv, [Next]_vars PROVE IInv'
  OBVIOUS
<1>1. CASE UpdateMembership
  BY <1>1, UpdateIInv
<1>2. CASE BlacklistExecutor
  BY <1>2, BlacklistIInv
<1>3. CASE UNCHANGED vars
  BY <1>3 DEF vars, IInv, State
<1>4. QED
  BY <1>1, <1>2, <1>3 DEF Next

(* If every backend always registers with the same executor_groups list,  *)
(* then, for every cluster, every executor a group offers the scheduler is *)
(* a known, non-quiescing executor that is not blacklisted and whose      *)
(* group copy is not quiescing: re-registration, quiescing, deletion,      *)
(* blacklisting and probation each move a backend in or out of exactly the *)
(* groups it is in.                                                        *)
THEOREM FixedGroupsSchedulable ==
    ASSUME FixedGroups
    PROVE  Spec => []GroupsHoldOnlySchedulable
<1>1. IInv => GroupsHoldOnlySchedulable
  BY DEF IInv, Good, MembersSchedulable, State, GroupsHoldOnlySchedulable
<1>2. QED
  BY <1>1, InitIInv, NextIInv, PTL DEF Spec

=============================================================================
