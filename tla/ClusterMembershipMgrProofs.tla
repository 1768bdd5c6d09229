-------------------- MODULE ClusterMembershipMgrProofs --------------------
(***************************************************************************)
(* Proofs, for all values of the constants, that the snapshots the         *)
(* membership manager holds stay consistent (the invariants that           *)
(* CheckConsistency asserts after every step of UpdateMembership), that    *)
(* the local server only sees current backends, that the published        *)
(* snapshot agrees with the topic, and that a recovering snapshot is      *)
(* never published before the hand-over.                                   *)
(***************************************************************************)
EXTENDS ClusterMembershipMgr, TLAPS

\* The fields of a snapshot, with the version unbounded.
Snap ==
    [version : Nat, backends : SUBSET Backends,
     quiescing : SUBSET Backends, groups : [Groups -> SUBSET Backends],
     blacklist : [Backends -> BlStates], hasLocal : BOOLEAN]

(* The consistency of one snapshot: GroupsConsistent and                   *)
(* BlacklistTracksMembers for s, and its quiescing backends are entries.   *)
Consistent(s) ==
    /\ s.quiescing \subseteq s.backends
    /\ \A g \in Groups : \A b \in s.groups[g] :
          /\ b \in s.backends \ s.quiescing
          /\ b \in Executors
          /\ g \in BeGroups[b]
          /\ s.blacklist[b] # BLACKLISTED
    /\ \A b \in Backends :
          s.blacklist[b] # NOT_BLACKLISTED =>
              /\ b \in s.backends \ s.quiescing
              /\ b \in Executors \ {Local}

GoodSnap(s) == s \in Snap /\ Consistent(s)

-----------------------------------------------------------------------------
USE MembershipAssumption
USE DEF NOT_BLACKLISTED, BLACKLISTED, ON_PROBATION, BlStates

LEMMA BeGroupsType == \A b \in Backends : BeGroups[b] \subseteq Groups
BY DEF MembershipAssumption

LEMMA EmptyGood == GoodSnap(EmptySnapshot)
BY DEF GoodSnap, Snap, Consistent, EmptySnapshot

(* The version bump and local_be_desc of UpdateMembership keep a snapshot  *)
(* good.                                                                   *)
LEMMA BumpGood ==
    ASSUME NEW s, GoodSnap(s)
    PROVE  LET u == [s EXCEPT !.hasLocal = @ \/ localDesc # "none",
                              !.version = @ + 1]
           IN  GoodSnap(u) /\ u.version = s.version + 1
<1> DEFINE u == [s EXCEPT !.hasLocal = @ \/ localDesc # "none",
                          !.version = @ + 1]
<1>1. u \in Snap
  <2>1. s.version + 1 \in Nat
    BY DEF GoodSnap, Snap
  <2>2. QED
    BY <2>1 DEF GoodSnap, Snap
<1>2. /\ u.backends = s.backends /\ u.quiescing = s.quiescing
      /\ u.groups = s.groups /\ u.blacklist = s.blacklist
      /\ u.version = s.version + 1
  BY DEF GoodSnap, Snap
<1> HIDE DEF u
<1>3. Consistent(u)
  BY <1>2 DEF GoodSnap, Consistent
<1>4. GoodSnap(u) /\ u.version = s.version + 1
  BY <1>1, <1>2, <1>3 DEF GoodSnap
<1>5. QED
  BY <1>4, Zenon DEF u

(* Applying the items of a topic update keeps a snapshot good.             *)
LEMMA ApplyItemsGood ==
    ASSUME NEW s, GoodSnap(s), NEW items, DOMAIN items \subseteq Backends
    PROVE  GoodSnap(ApplyItems(s, items)) /\ ApplyItems(s, items).version = s.version
<1> DEFINE deleted == {k \in DOMAIN items : items[k] = "deleted" /\ k \in s.backends}
           valid   == {k \in DOMAIN items : items[k] \in {"live", "quiescing"} /\ k # Local}
           updated == valid \cap s.backends
           created == valid \ s.backends
           leaving ==
               {k \in deleted : k \in Executors /\ k \notin s.quiescing
                                /\ ~(s.blacklist[k] = BLACKLISTED)}
               \cup {k \in updated : items[k] = "quiescing" /\ k \notin s.quiescing
                                     /\ k \in Executors /\ ~(s.blacklist[k] = BLACKLISTED)}
           joining == {k \in created : items[k] = "live" /\ k \in Executors}
           bk == (s.backends \ deleted) \cup created
           qu == (s.quiescing \ (deleted \cup valid))
                   \cup {k \in valid : items[k] = "quiescing"}
           gr == AddToGroups(RemoveFromGroups(s.groups, leaving), joining)
           bl == [b \in Backends |->
                    IF b \in deleted \cup updated THEN NOT_BLACKLISTED
                    ELSE s.blacklist[b]]
           t == [s EXCEPT !.backends = bk, !.quiescing = qu, !.groups = gr,
                          !.blacklist = bl]
<1>1. ApplyItems(s, items) = t
  BY DEF ApplyItems
<1>0. /\ t.backends = bk /\ t.quiescing = qu /\ t.groups = gr /\ t.blacklist = bl
      /\ t.version = s.version /\ t.hasLocal = s.hasLocal
  BY DEF GoodSnap, Snap
<1>2. t \in Snap
  <2>1. bk \subseteq Backends /\ qu \subseteq Backends
    BY DEF GoodSnap, Snap
  <2>2. gr \in [Groups -> SUBSET Backends]
    BY DEF GoodSnap, Snap, AddToGroups, RemoveFromGroups
  <2>3. bl \in [Backends -> BlStates]
    BY DEF GoodSnap, Snap
  <2>4. QED
    BY <2>1, <2>2, <2>3 DEF GoodSnap, Snap
<1> HIDE DEF t
<1>3. qu \subseteq bk
  BY DEF GoodSnap, Consistent
<1>4. ASSUME NEW g \in Groups, NEW b \in gr[g]
      PROVE  /\ b \in bk \ qu
             /\ b \in Executors
             /\ g \in BeGroups[b]
             /\ bl[b] # BLACKLISTED
  <2>1. CASE b \in joining
    BY <2>1 DEF GoodSnap, Snap, Consistent, AddToGroups, RemoveFromGroups
  <2>2. CASE b \notin joining
    <3>0. b \in s.groups[g] /\ ~(b \in leaving /\ g \in BeGroups[b])
      BY <2>2 DEF GoodSnap, Snap, AddToGroups, RemoveFromGroups
    <3>2. /\ b \in s.backends \ s.quiescing
          /\ b \in Executors
          /\ g \in BeGroups[b]
          /\ s.blacklist[b] # BLACKLISTED
      BY <3>0 DEF GoodSnap, Consistent
    <3>1. b \notin leaving
      BY <3>0, <3>2
    <3>3. b \notin deleted
      BY <3>1, <3>2
    <3>4. ~(b \in valid /\ items[b] = "quiescing")
      BY <3>1, <3>2
    <3>5. QED
      BY <3>2, <3>3, <3>4
  <2>3. QED
    BY <2>1, <2>2
<1>5. ASSUME NEW b \in Backends, bl[b] # NOT_BLACKLISTED
      PROVE  /\ b \in bk \ qu
             /\ b \in Executors \ {Local}
  <2>1. b \notin deleted \cup updated /\ s.blacklist[b] # NOT_BLACKLISTED
    BY <1>5
  <2>2. b \in s.backends \ s.quiescing /\ b \in Executors \ {Local}
    BY <2>1 DEF GoodSnap, Consistent
  <2>3. b \notin valid
    BY <2>1, <2>2
  <2>4. QED
    BY <2>1, <2>2, <2>3
<1> HIDE DEF bk, qu, gr, bl
<1>6. Consistent(t)
  BY <1>0, <1>3, <1>4, <1>5 DEF Consistent
<1>7. QED
  BY <1>0, <1>1, <1>2, <1>6 DEF GoodSnap

(* Blacklist maintenance, with the probation backends put back into their  *)
(* groups, keeps a snapshot good.                                          *)
LEMMA MaintenanceGood ==
    ASSUME NEW s, GoodSnap(s)
    PROVE  GoodSnap(Maintenance(s)) /\ Maintenance(s).version = s.version
<1> DEFINE exp == Expiring(s)
           probation == {b \in exp : s.blacklist[b] = BLACKLISTED}
           bl == [b \in Backends |->
                    IF b \in probation THEN ON_PROBATION
                    ELSE IF b \in exp THEN NOT_BLACKLISTED
                    ELSE s.blacklist[b]]
           gr == AddToGroups(s.groups, probation)
           t == [s EXCEPT !.blacklist = bl, !.groups = gr]
<1>1. Maintenance(s) = t
  BY DEF Maintenance
<1>2. exp \subseteq Backends
  BY DEF Expiring
<1>3. t \in Snap
  <2>1. gr \in [Groups -> SUBSET Backends]
    BY <1>2 DEF GoodSnap, Snap, AddToGroups
  <2>2. bl \in [Backends -> BlStates]
    BY DEF GoodSnap, Snap
  <2>3. QED
    BY <2>1, <2>2 DEF GoodSnap, Snap
<1>4. /\ t.backends = s.backends /\ t.quiescing = s.quiescing
      /\ t.groups = gr /\ t.blacklist = bl /\ t.version = s.version
  BY DEF GoodSnap, Snap
<1> HIDE DEF t
<1>5. ASSUME NEW g \in Groups, NEW b \in gr[g]
      PROVE  /\ b \in s.backends \ s.quiescing
             /\ b \in Executors
             /\ g \in BeGroups[b]
             /\ bl[b] # BLACKLISTED
  <2>1. CASE b \in probation /\ g \in BeGroups[b]
    BY <2>1, <1>2 DEF GoodSnap, Consistent
  <2>2. CASE b \in s.groups[g]
    BY <2>2 DEF GoodSnap, Snap, Consistent
  <2>3. QED
    BY <2>1, <2>2 DEF GoodSnap, Snap, AddToGroups
<1>6. ASSUME NEW b \in Backends, bl[b] # NOT_BLACKLISTED
      PROVE  /\ b \in s.backends \ s.quiescing
             /\ b \in Executors \ {Local}
  BY <1>6 DEF GoodSnap, Consistent
<1> HIDE DEF bl, gr
<1>7. Consistent(t)
  BY <1>4, <1>5, <1>6 DEF GoodSnap, Consistent
<1>8. QED
  BY <1>1, <1>3, <1>4, <1>7 DEF GoodSnap

(* Writing the local backend's descriptor keeps a snapshot good.           *)
LEMMA ApplyLocalGood ==
    ASSUME NEW s, GoodSnap(s)
    PROVE  GoodSnap(ApplyLocal(s)) /\ ApplyLocal(s).version = s.version
<1> DEFINE bk == s.backends \cup {Local}
           qu == IF localDesc = "quiescing" THEN s.quiescing \cup {Local}
                 ELSE s.quiescing \ {Local}
           gr == IF localDesc = "quiescing" THEN RemoveFromGroups(s.groups, {Local})
                 ELSE IF Local \in Executors THEN AddToGroups(s.groups, {Local})
                 ELSE s.groups
           t == [s EXCEPT !.backends = bk, !.quiescing = qu, !.groups = gr]
<1>1. ApplyLocal(s) = t
  BY DEF ApplyLocal
<1>2. t \in Snap
  <2>1. gr \in [Groups -> SUBSET Backends]
    BY DEF GoodSnap, Snap, AddToGroups, RemoveFromGroups
  <2>2. QED
    BY <2>1 DEF GoodSnap, Snap
<1>3. /\ t.backends = bk /\ t.quiescing = qu /\ t.groups = gr
      /\ t.blacklist = s.blacklist /\ t.version = s.version
  BY DEF GoodSnap, Snap
<1> HIDE DEF t
<1>4. s.blacklist[Local] = NOT_BLACKLISTED
  BY DEF GoodSnap, Snap, Consistent
<1>5. ASSUME NEW g \in Groups, NEW b \in gr[g]
      PROVE  /\ b \in bk \ qu
             /\ b \in Executors
             /\ g \in BeGroups[b]
             /\ s.blacklist[b] # BLACKLISTED
  <2>1. CASE b = Local
    <3>1. localDesc # "quiescing" /\ Local \in Executors /\ g \in BeGroups[Local]
      BY <2>1 DEF GoodSnap, Snap, Consistent, AddToGroups, RemoveFromGroups
    <3>2. QED
      BY <2>1, <3>1, <1>4
  <2>2. CASE b # Local
    <3>1. b \in s.groups[g]
      BY <2>2 DEF GoodSnap, Snap, AddToGroups, RemoveFromGroups
    <3>2. QED
      BY <2>2, <3>1 DEF GoodSnap, Consistent
  <2>3. QED
    BY <2>1, <2>2
<1>6. ASSUME NEW b \in Backends, s.blacklist[b] # NOT_BLACKLISTED
      PROVE  /\ b \in bk \ qu
             /\ b \in Executors \ {Local}
  BY <1>6 DEF GoodSnap, Consistent
<1>7. qu \subseteq bk
  BY DEF GoodSnap, Consistent
<1> HIDE DEF bk, qu, gr
<1>8. Consistent(t)
  BY <1>3, <1>5, <1>6, <1>7 DEF Consistent
<1>9. QED
  BY <1>1, <1>2, <1>3, <1>8 DEF GoodSnap


(* Blacklisting a backend that is a member of one of its groups keeps a    *)
(* snapshot good: membership proves it a known, non-quiescing executor.    *)
LEMMA BlacklistGood ==
    ASSUME NEW s, GoodSnap(s), NEW b \in Backends, b # Local,
           \E g \in BeGroups[b] : b \in s.groups[g]
    PROVE  LET u == [s EXCEPT !.groups = RemoveFromGroups(@, {b}),
                              !.blacklist = [@ EXCEPT ![b] = BLACKLISTED]]
           IN  GoodSnap(u) /\ u.version = s.version
<1> DEFINE gr == RemoveFromGroups(s.groups, {b})
           bl == [s.blacklist EXCEPT ![b] = BLACKLISTED]
           u == [s EXCEPT !.groups = RemoveFromGroups(@, {b}),
                          !.blacklist = [@ EXCEPT ![b] = BLACKLISTED]]
<1>1. b \in s.backends \ s.quiescing /\ b \in Executors
  BY BeGroupsType DEF GoodSnap, Consistent
<1>2. u \in Snap
  <2>1. gr \in [Groups -> SUBSET Backends]
    BY DEF GoodSnap, Snap, RemoveFromGroups
  <2>2. bl \in [Backends -> BlStates]
    BY DEF GoodSnap, Snap
  <2>3. QED
    BY <2>1, <2>2 DEF GoodSnap, Snap
<1>3. /\ u.backends = s.backends /\ u.quiescing = s.quiescing
      /\ u.groups = gr /\ u.blacklist = bl /\ u.version = s.version
  BY DEF GoodSnap, Snap
<1> HIDE DEF u
<1>4. ASSUME NEW g \in Groups, NEW c \in gr[g]
      PROVE  /\ c \in s.backends \ s.quiescing
             /\ c \in Executors
             /\ g \in BeGroups[c]
             /\ bl[c] # BLACKLISTED
  <2>1. c \in s.groups[g] /\ ~(c = b /\ g \in BeGroups[b])
    BY DEF GoodSnap, Snap, RemoveFromGroups
  <2>2. c # b
    BY <2>1 DEF GoodSnap, Consistent
  <2>3. QED
    BY <2>1, <2>2 DEF GoodSnap, Snap, Consistent
<1>5. ASSUME NEW c \in Backends, bl[c] # NOT_BLACKLISTED
      PROVE  /\ c \in s.backends \ s.quiescing
             /\ c \in Executors \ {Local}
  BY <1>1, <1>5 DEF GoodSnap, Snap, Consistent
<1> HIDE DEF gr, bl
<1>6. GoodSnap(u) /\ u.version = s.version
  BY <1>2, <1>3, <1>4, <1>5 DEF GoodSnap, Consistent
<1>7. QED
  BY <1>6, Zenon DEF u


-----------------------------------------------------------------------------
\* The inductive invariant: the types, and both held snapshots good.
IInv ==
    /\ TypeOK
    /\ GoodSnap(current)
    /\ recovering # NoSnapshot => GoodSnap(recovering)

\* A good snapshot within the version bound has the snapshot type.
LEMMA GoodSnapType ==
    ASSUME NEW s, GoodSnap(s), s.version <= MaxVersion
    PROVE  s \in SnapshotType /\ s.quiescing \subseteq s.backends
BY DEF GoodSnap, Snap, SnapshotType, Consistent

LEMMA BaseGood ==
    ASSUME IInv
    PROVE  GoodSnap(BaseSnapshot) /\ BaseSnapshot.version <= MaxVersion
BY DEF IInv, BaseSnapshot, TypeOK, SnapshotType

LEMMA InitIInv == Init => IInv
<1> SUFFICES ASSUME Init PROVE IInv
  OBVIOUS
<1>1. GoodSnap(current)
  BY EmptyGood DEF Init
<1>2. current \in SnapshotType /\ current.quiescing \subseteq current.backends
  BY <1>1, GoodSnapType DEF Init, EmptySnapshot
<1>3. TypeOK
  BY <1>2 DEF Init, TypeOK, Held, TopicValues
<1>4. QED
  BY <1>1, <1>3 DEF Init, IInv


(* UpdateMembership builds a good snapshot within the version bound, and   *)
(* keeps it as the recovering snapshot or publishes it.                    *)
LEMMA UpdateIInv == IInv /\ UpdateMembership => IInv'
<1> SUFFICES ASSUME IInv, UpdateMembership PROVE IInv'
  OBVIOUS
<1> DEFINE base == BaseSnapshot
           items == Items
           needsMaint == NeedsMaintenance(base)
           s0 == NewState(base)
           s1 == [s0 EXCEPT !.hasLocal = @ \/ localDesc # "none",
                            !.version = @ + 1]
           s2 == ApplyItems(s1, items)
           s3 == IF needsMaint THEN Maintenance(s2) ELSE s2
           doLocal == NeedsLocalBackendUpdate(s3)
           s4 == IF doLocal THEN ApplyLocal(s3) ELSE s3
<1>1. GoodSnap(base)
  BY BaseGood
<1>2. GoodSnap(s0)
  BY <1>1, EmptyGood DEF NewState
<1>3. GoodSnap(s1) /\ s1.version = s0.version + 1
  BY <1>2, BumpGood
<1>4. DOMAIN items \subseteq Backends
  BY DEF IInv, TypeOK, Items
<1>5. GoodSnap(s2) /\ s2.version = s1.version
  BY <1>3, <1>4, ApplyItemsGood
<1>6. GoodSnap(s3) /\ s3.version = s1.version
  BY <1>5, MaintenanceGood
<1>7. GoodSnap(s4) /\ s4.version = s1.version
  BY <1>6, ApplyLocalGood
<1>8. s1.version <= MaxVersion
  BY DEF UpdateMembership
<1>9. s4 \in SnapshotType /\ s4.quiescing \subseteq s4.backends
  BY <1>7, <1>8, GoodSnapType
<1>10. /\ pending' \subseteq Backends
       /\ needFull' \in BOOLEAN
       /\ expired' \subseteq Backends
       /\ topic' \in [Backends -> TopicValues]
       /\ UNCHANGED <<ssRecovering, localDesc>>
  BY DEF UpdateMembership, IInv, TypeOK, NeedsLocalBackendUpdate, TopicValues
<1>11. CASE ssRecovering
  <2>1. recovering' = s4 /\ UNCHANGED <<current, serverView, frontendView>>
    BY <1>11 DEF UpdateMembership
  <2> HIDE DEF s0, s1, s2, s3, s4
  <2>2. TypeOK'
    BY <1>9, <1>10, <2>1 DEF IInv, TypeOK, Held
  <2>3. QED
    BY <1>7, <2>1, <2>2 DEF IInv
<1>12. CASE ~ssRecovering
  <2>1. /\ current' = s4 /\ recovering' = NoSnapshot
        /\ serverView' \subseteq Backends
        /\ frontendView' \subseteq Executors
    BY <1>12, <1>9 DEF UpdateMembership, Publish, IInv, TypeOK, SnapshotType
  <2> HIDE DEF s0, s1, s2, s3, s4
  <2>2. TypeOK'
    BY <1>9, <1>10, <2>1 DEF IInv, TypeOK, Held
  <2>3. QED
    BY <1>7, <2>1, <2>2 DEF IInv
<1>13. QED
  BY <1>11, <1>12


(* BlacklistExecutor blacklists into the snapshot it checked.              *)
LEMMA BlacklistIInv ==
    ASSUME NEW b \in Backends, IInv, BlacklistExecutor(b)
    PROVE  IInv'
<1> DEFINE base == BaseSnapshot
           newState == [base EXCEPT
                          !.groups = RemoveFromGroups(@, {b}),
                          !.blacklist = [@ EXCEPT ![b] = BLACKLISTED]]
<1>1. GoodSnap(base) /\ base.version <= MaxVersion
  BY BaseGood
<1>2. GoodSnap(newState) /\ newState.version = base.version
  <2>1. b # Local /\ \E g \in BeGroups[b] : b \in base.groups[g]
    BY DEF BlacklistExecutor
  <2>2. QED
    BY <1>1, <2>1, BlacklistGood
<1>3. newState \in SnapshotType /\ newState.quiescing \subseteq newState.backends
  BY <1>1, <1>2, GoodSnapType
<1> HIDE DEF newState
<1>4. /\ expired' \subseteq Backends
      /\ UNCHANGED <<topic, pending, needFull, ssRecovering, localDesc,
                     serverView, frontendView>>
  BY DEF BlacklistExecutor, IInv, TypeOK
<1>5. CASE recovering # NoSnapshot
  <2>1. recovering' = newState /\ UNCHANGED current
    BY <1>5 DEF BlacklistExecutor, newState
  <2>2. QED
    BY <1>2, <1>3, <1>4, <2>1 DEF IInv, TypeOK, Held
<1>6. CASE recovering = NoSnapshot
  <2>1. current' = newState /\ UNCHANGED recovering
    BY <1>6 DEF BlacklistExecutor, newState
  <2>2. QED
    BY <1>2, <1>3, <1>4, <1>6, <2>1 DEF IInv, TypeOK, Held
<1>7. QED
  BY <1>5, <1>6

(* The environment never touches a snapshot.                               *)
LEMMA EnvironmentIInv == IInv /\ Environment => IInv'
<1> SUFFICES ASSUME IInv, Environment PROVE IInv'
  OBVIOUS
<1>1. CASE \E b \in Backends, v \in TopicValues : SetTopicEntry(b, v)
  BY <1>1 DEF SetTopicEntry, IInv, TypeOK, Held
<1>2. CASE StatestoreRecovery
  BY <1>2 DEF StatestoreRecovery, IInv, TypeOK, Held
<1>3. CASE GracePeriodEnds
  BY <1>3 DEF GracePeriodEnds, IInv, TypeOK, Held
<1>4. CASE LocalBackendChanges
  BY <1>4 DEF LocalBackendChanges, IInv, TypeOK, Held
<1>5. CASE \E b \in Backends : TimeoutPasses(b)
  BY <1>5 DEF TimeoutPasses, IInv, TypeOK, Held
<1>6. QED
  BY <1>1, <1>2, <1>3, <1>4, <1>5 DEF Environment

LEMMA NextIInv == IInv /\ [Next]_vars => IInv'
<1> SUFFICES ASSUME IInv, [Next]_vars PROVE IInv'
  OBVIOUS
<1>1. CASE UpdateMembership
  BY <1>1, UpdateIInv
<1>2. CASE \E b \in Backends : BlacklistExecutor(b)
  BY <1>2, BlacklistIInv
<1>3. CASE Environment
  BY <1>3, EnvironmentIInv
<1>4. CASE UNCHANGED vars
  BY <1>4 DEF vars, IInv, TypeOK, Held, GoodSnap, Snap, Consistent
<1>5. QED
  BY <1>1, <1>2, <1>3, <1>4 DEF Next

THEOREM SpecIInv == Spec => []IInv
BY InitIInv, NextIInv, PTL DEF Spec

(* The manager's variables keep their types, with every version within    *)
(* the bound, in every reachable state.                                    *)
THEOREM TypeCorrect == Spec => []TypeOK
BY SpecIInv, PTL DEF IInv

(* In the published and in the recovering snapshot, every member of an    *)
(* executor group is a known, non-quiescing, non-blacklisted executor that *)
(* lists the group: what CheckConsistency asserts holds for every cluster. *)
THEOREM GroupsAlwaysConsistent == Spec => []GroupsConsistent
<1>1. IInv => GroupsConsistent
  BY DEF IInv, GoodSnap, Consistent, GroupsConsistent, Held
<1>2. QED
  BY <1>1, SpecIInv, PTL

(* Only known, non-quiescing remote executors are ever blacklisted or on  *)
(* probation, in either snapshot, for every cluster.                       *)
THEOREM BlacklistAlwaysTracksMembers == Spec => []BlacklistTracksMembers
<1>1. IInv => BlacklistTracksMembers
  BY DEF IInv, GoodSnap, Consistent, BlacklistTracksMembers, Held
<1>2. QED
  BY <1>1, SpecIInv, PTL


-----------------------------------------------------------------------------
(***************************************************************************)
(* What the local server and the published snapshot see.                   *)
(***************************************************************************)

(* The snapshot s agrees with the topic on every remote backend whose      *)
(* latest entry has been delivered (is not pending) and is well formed.    *)
MatchAt(s, b, v) ==
    /\ v = "absent" => b \notin s.backends
    /\ v \in {"live", "quiescing"} =>
          /\ b \in s.backends
          /\ (b \in s.quiescing) <=> (v = "quiescing")

TopicMatch(s) == \A b \in Remote \ pending : MatchAt(s, b, topic[b])

(* The strengthening of PublishedMatchesTopic: unless a full update is     *)
(* due, the snapshot the next update starts from (the recovering one while *)
(* it is held) agrees with the delivered topic.                            *)
MInv == ~needFull => TopicMatch(BaseSnapshot)

\* Two snapshots that agree on b's entry agree with any topic value for b.
LEMMA MatchAtSame ==
    ASSUME NEW s, NEW t, NEW b, NEW v, MatchAt(s, b, v),
           b \in s.backends <=> b \in t.backends,
           b \in s.quiescing <=> b \in t.quiescing
    PROVE  MatchAt(t, b, v)
BY DEF MatchAt

(* The version bump leaves current_backends and the quiescing set alone.   *)
LEMMA BumpFields ==
    ASSUME NEW s \in Snap
    PROVE  LET u == [s EXCEPT !.hasLocal = @ \/ localDesc # "none",
                              !.version = @ + 1]
           IN  u.backends = s.backends /\ u.quiescing = s.quiescing
BY DEF Snap

(* Maintenance leaves current_backends and the quiescing set alone.        *)
LEMMA MaintenanceFields ==
    ASSUME NEW s \in Snap
    PROVE  Maintenance(s).backends = s.backends /\ Maintenance(s).quiescing = s.quiescing
BY DEF Snap, Maintenance

(* ApplyLocal only adds the local backend and changes only its quiescing.  *)
LEMMA ApplyLocalFields ==
    ASSUME NEW s \in Snap
    PROVE  /\ ApplyLocal(s).backends = s.backends \cup {Local}
           /\ ApplyLocal(s).quiescing \ {Local} = s.quiescing \ {Local}
BY DEF Snap, ApplyLocal

(* What the item loop does to one remote key: an absent key is left as it  *)
(* was, a deleted one leaves current_backends, and a well-formed           *)
(* descriptor is entered with its quiescing flag.                          *)
LEMMA ApplyItemsAt ==
    ASSUME NEW s \in Snap, NEW items, NEW b \in Backends \ {Local}
    PROVE  LET t == ApplyItems(s, items)
           IN  /\ b \notin DOMAIN items =>
                     /\ b \in t.backends <=> b \in s.backends
                     /\ b \in t.quiescing <=> b \in s.quiescing
               /\ b \in DOMAIN items /\ items[b] = "deleted" => b \notin t.backends
               /\ b \in DOMAIN items /\ items[b] \in {"live", "quiescing"} =>
                     /\ b \in t.backends
                     /\ b \in t.quiescing <=> items[b] = "quiescing"
BY DEF Snap, ApplyItems

(* Without a deletion of a held backend, the item loop only adds backends. *)
LEMMA ApplyItemsGrows ==
    ASSUME NEW s \in Snap, NEW items, ~DeletesBackend(s, items)
    PROVE  s.backends \subseteq ApplyItems(s, items).backends
BY DEF Snap, ApplyItems, DeletesBackend

(* A publish that does not notify the local server started from the      *)
(* current snapshot, deleted nothing it held, and so only added backends:  *)
(* the local server's view stays within the published current_backends.    *)
LEMMA UpdateServerView ==
    IInv /\ ServerViewNoStaleBackends /\ UpdateMembership => ServerViewNoStaleBackends'
<1> SUFFICES ASSUME IInv, ServerViewNoStaleBackends, UpdateMembership
             PROVE  ServerViewNoStaleBackends'
  OBVIOUS
<1> DEFINE base == BaseSnapshot
           items == Items
           needsMaint == NeedsMaintenance(base)
           s0 == NewState(base)
           s1 == [s0 EXCEPT !.hasLocal = @ \/ localDesc # "none",
                            !.version = @ + 1]
           s2 == ApplyItems(s1, items)
           s3 == IF needsMaint THEN Maintenance(s2) ELSE s2
           doLocal == NeedsLocalBackendUpdate(s3)
           s4 == IF doLocal THEN ApplyLocal(s3) ELSE s3
           updateLocalServer ==
               LeavingRecovery \/ needFull \/ DeletesBackend(s1, items)
<1>1. CASE ssRecovering
  BY <1>1 DEF UpdateMembership, ServerViewNoStaleBackends
<1>2. CASE ~ssRecovering /\ updateLocalServer
  BY <1>2 DEF UpdateMembership, Publish, ServerViewNoStaleBackends
<1>3. CASE ~ssRecovering /\ ~updateLocalServer
  <2>1. current' = s4 /\ serverView' = serverView
    BY <1>3 DEF UpdateMembership, Publish
  <2>2. s0 = current /\ ~DeletesBackend(s1, items)
    BY <1>3 DEF LeavingRecovery, BaseSnapshot, NewState
  <2>3. GoodSnap(s0) /\ GoodSnap(s1) /\ GoodSnap(s2) /\ GoodSnap(s3)
    <3>1. GoodSnap(s0)
      BY <2>2 DEF IInv
    <3>2. DOMAIN items \subseteq Backends
      BY DEF IInv, TypeOK, Items
    <3>3. QED
      BY <3>1, <3>2, BumpGood, ApplyItemsGood, MaintenanceGood
  <2> HIDE DEF s0, s2, s3, s4
  <2>4. s1.backends = current.backends
    BY <2>2, <2>3, BumpFields DEF GoodSnap
  <2>5. s1.backends \subseteq s2.backends
    BY <2>2, <2>3, ApplyItemsGrows DEF GoodSnap, s2
  <2>6. s3.backends = s2.backends
    BY <2>3, MaintenanceFields DEF GoodSnap, s3
  <2>7. s3.backends \subseteq s4.backends
    BY <2>3, ApplyLocalFields DEF GoodSnap, s4
  <2>8. QED
    BY <2>1, <2>4, <2>5, <2>6, <2>7 DEF ServerViewNoStaleBackends
<1>4. QED
  BY <1>1, <1>2, <1>3

LEMMA NextServerView ==
    IInv /\ ServerViewNoStaleBackends /\ [Next]_vars => ServerViewNoStaleBackends'
<1> SUFFICES ASSUME IInv, ServerViewNoStaleBackends, [Next]_vars
             PROVE  ServerViewNoStaleBackends'
  OBVIOUS
<1>1. CASE UpdateMembership
  BY <1>1, UpdateServerView
<1>2. ASSUME NEW b \in Backends, BlacklistExecutor(b)
      PROVE  ServerViewNoStaleBackends'
  <2>1. CASE recovering # NoSnapshot
    BY <1>2, <2>1 DEF BlacklistExecutor, ServerViewNoStaleBackends
  <2>2. CASE recovering = NoSnapshot
    <3>1. current' = [current EXCEPT !.groups = RemoveFromGroups(@, {b}),
                                     !.blacklist = [@ EXCEPT ![b] = BLACKLISTED]]
      BY <1>2, <2>2 DEF BlacklistExecutor, BaseSnapshot
    <3>2. current'.backends = current.backends
      BY <3>1 DEF IInv, TypeOK, SnapshotType
    <3>3. QED
      BY <1>2, <3>2 DEF BlacklistExecutor, ServerViewNoStaleBackends
  <2>3. QED
    BY <2>1, <2>2
<1>3. CASE Environment
  BY <1>3 DEF Environment, SetTopicEntry, StatestoreRecovery, GracePeriodEnds,
              LocalBackendChanges, TimeoutPasses, ServerViewNoStaleBackends
<1>4. CASE UNCHANGED vars
  BY <1>4 DEF vars, ServerViewNoStaleBackends
<1>5. QED
  BY <1>1, <1>2, <1>3, <1>4 DEF Next

(* The local server, which cancels the queries running on backends it is   *)
(* told are gone, never holds a backend that the published snapshot has    *)
(* dropped: every publish that can remove one (a full update, a deletion,  *)
(* the hand-over after the grace period) calls update_local_server_fn_,    *)
(* for every cluster.                                                      *)
THEOREM ServerViewNeverStale == Spec => []ServerViewNoStaleBackends
<1>1. Init => IInv /\ ServerViewNoStaleBackends
  BY InitIInv DEF Init, ServerViewNoStaleBackends
<1>2. IInv /\ ServerViewNoStaleBackends /\ [Next]_vars
        => (IInv /\ ServerViewNoStaleBackends)'
  BY NextIInv, NextServerView
<1>3. QED
  BY <1>1, <1>2, PTL DEF Spec

\* NoSnapshot (a null recovering_membership_) is not a snapshot.
LEMMA NoSnapshotNotSnap == NoSnapshot \notin Snap
BY DEF NoSnapshot, Snap

(* After an update the next one starts from the snapshot it built, and the *)
(* statestore has nothing pending but the local entry: every remote key of *)
(* the topic was delivered, by the full update or by the delta on top of   *)
(* the snapshot that already agreed with the rest.                         *)
LEMMA UpdateMInv == IInv /\ MInv /\ UpdateMembership => MInv'
<1> SUFFICES ASSUME IInv, MInv, UpdateMembership
             PROVE  TopicMatch(BaseSnapshot)'
  BY DEF MInv
<1> DEFINE base == BaseSnapshot
           items == Items
           needsMaint == NeedsMaintenance(base)
           s0 == NewState(base)
           s1 == [s0 EXCEPT !.hasLocal = @ \/ localDesc # "none",
                            !.version = @ + 1]
           s2 == ApplyItems(s1, items)
           s3 == IF needsMaint THEN Maintenance(s2) ELSE s2
           doLocal == NeedsLocalBackendUpdate(s3)
           s4 == IF doLocal THEN ApplyLocal(s3) ELSE s3
<1>1. GoodSnap(s0) /\ GoodSnap(s1) /\ GoodSnap(s2) /\ GoodSnap(s3) /\ GoodSnap(s4)
  <2>1. GoodSnap(s0)
    BY BaseGood, EmptyGood DEF NewState
  <2>2. DOMAIN items \subseteq Backends
    BY DEF IInv, TypeOK, Items
  <2>3. QED
    BY <2>1, <2>2, BumpGood, ApplyItemsGood, MaintenanceGood, ApplyLocalGood
<1>2. BaseSnapshot' = s4
  <2>1. s4 # NoSnapshot
    BY <1>1, NoSnapshotNotSnap DEF GoodSnap
  <2>2. CASE ssRecovering
    BY <2>1, <2>2 DEF UpdateMembership, BaseSnapshot
  <2>3. CASE ~ssRecovering
    BY <2>3 DEF UpdateMembership, Publish, BaseSnapshot
  <2>4. QED
    BY <2>2, <2>3
<1>3. pending' \subseteq {Local} /\ \A b \in Remote : topic'[b] = topic[b]
  BY DEF UpdateMembership, Remote
<1> HIDE DEF s0, s2, s3, s4
<1>4. ASSUME NEW b \in Remote PROVE MatchAt(s2, b, topic[b])
  <2>1. b \in Backends \ {Local}
    BY DEF Remote
  <2>2. CASE needFull
    <3>1. s1.backends = {} /\ s1.quiescing = {}
      BY <1>1, <2>2, BumpFields DEF GoodSnap, s0, NewState, EmptySnapshot
    <3>2. items = [k \in {c \in Backends : topic[c] # "absent"} |-> topic[k]]
      BY <2>2 DEF Items
    <3>3. s1 \in Snap
      BY <1>1 DEF GoodSnap
    <3>4. /\ b \in DOMAIN items /\ items[b] = "deleted" => b \notin s2.backends
          /\ b \in DOMAIN items /\ items[b] \in {"live", "quiescing"} =>
                /\ b \in s2.backends
                /\ b \in s2.quiescing <=> items[b] = "quiescing"
          /\ b \notin DOMAIN items =>
                /\ b \in s2.backends <=> b \in s1.backends
                /\ b \in s2.quiescing <=> b \in s1.quiescing
      BY <2>1, <3>3, ApplyItemsAt DEF s2
    <3>5. CASE topic[b] = "absent"
      <4>1. b \notin DOMAIN items
        BY <2>1, <3>2, <3>5
      <4>2. QED
        BY <3>1, <3>4, <3>5, <4>1 DEF MatchAt
    <3>6. CASE topic[b] \in {"live", "quiescing"}
      <4>1. b \in DOMAIN items /\ items[b] = topic[b]
        BY <2>1, <3>2, <3>6
      <4>2. QED
        BY <3>4, <3>6, <4>1 DEF MatchAt
    <3>7. QED
      BY <3>5, <3>6 DEF MatchAt
  <2>3. CASE ~needFull
    <3>1. s1.backends = base.backends /\ s1.quiescing = base.quiescing
      BY <1>1, <2>3, BumpFields DEF GoodSnap, s0, NewState
    <3>2. items = [k \in pending |-> IF topic[k] = "absent" THEN "deleted" ELSE topic[k]]
      BY <2>3 DEF Items
    <3>3. CASE b \in pending
      BY <1>1, <2>1, <3>2, <3>3, ApplyItemsAt DEF GoodSnap, s2, MatchAt
    <3>4. CASE b \notin pending
      <4>1. MatchAt(base, b, topic[b])
        BY <2>3, <3>4 DEF MInv, TopicMatch
      <4>2. /\ b \in s2.backends <=> b \in s1.backends
            /\ b \in s2.quiescing <=> b \in s1.quiescing
        BY <1>1, <2>1, <3>2, <3>4, ApplyItemsAt DEF GoodSnap, s2
      <4>3. QED
        BY <3>1, <4>1, <4>2, MatchAtSame
    <3>5. QED
      BY <3>3, <3>4
  <2>4. QED
    BY <2>2, <2>3
<1>5. ASSUME NEW b \in Remote PROVE MatchAt(s4, b, topic[b])
  <2>1. b # Local
    BY DEF Remote
  <2>2. s3.backends = s2.backends /\ s3.quiescing = s2.quiescing
    BY <1>1, MaintenanceFields DEF GoodSnap, s3
  <2>3. b \in s4.backends <=> b \in s3.backends
    BY <1>1, <2>1, ApplyLocalFields DEF GoodSnap, s4
  <2>4. b \in s4.quiescing <=> b \in s3.quiescing
    <3>1. s4.quiescing \ {Local} = s3.quiescing \ {Local}
      BY <1>1, ApplyLocalFields DEF GoodSnap, s4
    <3>2. QED
      BY <2>1, <3>1
  <2>5. QED
    BY <1>4, <2>2, <2>3, <2>4, MatchAtSame
<1>6. QED
  BY <1>2, <1>3, <1>5 DEF TopicMatch

(* Blacklisting changes only groups and blacklist entries of the snapshot *)
(* the next update starts from.                                            *)
LEMMA BlacklistMInv ==
    ASSUME NEW b \in Backends, IInv, MInv, BlacklistExecutor(b)
    PROVE  MInv'
<1> DEFINE newState == [BaseSnapshot EXCEPT
                          !.groups = RemoveFromGroups(@, {b}),
                          !.blacklist = [@ EXCEPT ![b] = BLACKLISTED]]
<1>1. GoodSnap(BaseSnapshot)
  BY BaseGood
<1>2. newState.backends = BaseSnapshot.backends
      /\ newState.quiescing = BaseSnapshot.quiescing
  BY <1>1 DEF GoodSnap, Snap
<1>3. newState # NoSnapshot
  BY <1>1, <1>2 DEF NoSnapshot, GoodSnap, Snap
<1>4. BaseSnapshot' = newState
  BY <1>3 DEF BlacklistExecutor, BaseSnapshot
<1>5. UNCHANGED <<topic, pending, needFull>>
  BY DEF BlacklistExecutor
<1> HIDE DEF newState
<1>6. QED
  BY <1>2, <1>4, <1>5 DEF MInv, TopicMatch, MatchAt

(* A topic write marks its key pending; a recovery asks for a full update; *)
(* nothing else of the environment touches a snapshot or the topic.        *)
LEMMA EnvironmentMInv == MInv /\ Environment => MInv'
<1> SUFFICES ASSUME MInv, Environment PROVE MInv'
  OBVIOUS
<1>1. CASE \E b \in Backends, v \in TopicValues : SetTopicEntry(b, v)
  BY <1>1 DEF SetTopicEntry, MInv, TopicMatch, BaseSnapshot
<1>2. CASE StatestoreRecovery
  BY <1>2 DEF StatestoreRecovery, MInv
<1>3. CASE GracePeriodEnds
  BY <1>3 DEF GracePeriodEnds, MInv, TopicMatch, BaseSnapshot
<1>4. CASE LocalBackendChanges
  BY <1>4 DEF LocalBackendChanges, MInv, TopicMatch, BaseSnapshot
<1>5. CASE \E b \in Backends : TimeoutPasses(b)
  BY <1>5 DEF TimeoutPasses, MInv, TopicMatch, BaseSnapshot
<1>6. QED
  BY <1>1, <1>2, <1>3, <1>4, <1>5 DEF Environment

LEMMA NextMInv == IInv /\ MInv /\ [Next]_vars => MInv'
<1> SUFFICES ASSUME IInv, MInv, [Next]_vars PROVE MInv'
  OBVIOUS
<1>1. CASE UpdateMembership
  BY <1>1, UpdateMInv
<1>2. CASE \E b \in Backends : BlacklistExecutor(b)
  BY <1>2, BlacklistMInv
<1>3. CASE Environment
  BY <1>3, EnvironmentMInv
<1>4. CASE UNCHANGED vars
  BY <1>4 DEF vars, MInv, TopicMatch, BaseSnapshot
<1>5. QED
  BY <1>1, <1>2, <1>3, <1>4 DEF Next

(* Once the statestore's updates are delivered and no recovering snapshot *)
(* is held, the published current_backends agrees with the topic on every *)
(* remote backend with a well-formed entry, for every cluster: full        *)
(* updates, deltas and the hand-over after the grace period lose no        *)
(* deletion and no change of the quiescing flag.                           *)
THEOREM PublishedAlwaysMatchesTopic == Spec => []PublishedMatchesTopic
<1>1. Init => IInv /\ MInv
  BY InitIInv DEF Init, MInv, TopicMatch, MatchAt, BaseSnapshot, EmptySnapshot,
                  NoSnapshot
<1>2. IInv /\ MInv /\ [Next]_vars => (IInv /\ MInv)'
  BY NextIInv, NextMInv
<1>3. MInv => PublishedMatchesTopic
  BY DEF MInv, TopicMatch, MatchAt, BaseSnapshot, PublishedMatchesTopic
<1>4. QED
  BY <1>1, <1>2, <1>3, PTL DEF Spec

(* A step taken while a recovering snapshot is held leaves the published  *)
(* one alone unless it publishes and clears the recovering one.            *)
LEMMA NextKeepsRecoveringPrivate ==
    [Next]_vars => [recovering # NoSnapshot => (UNCHANGED current \/ recovering' = NoSnapshot)]_vars
<1> SUFFICES ASSUME [Next]_vars, recovering # NoSnapshot
             PROVE  UNCHANGED current \/ recovering' = NoSnapshot
  OBVIOUS
<1>1. CASE UpdateMembership
  BY <1>1 DEF UpdateMembership, Publish
<1>2. CASE \E b \in Backends : BlacklistExecutor(b)
  BY <1>2 DEF BlacklistExecutor
<1>3. CASE Environment
  BY <1>3 DEF Environment, SetTopicEntry, StatestoreRecovery, GracePeriodEnds,
              LocalBackendChanges, TimeoutPasses
<1>4. CASE UNCHANGED vars
  BY <1>4 DEF vars
<1>5. QED
  BY <1>1, <1>2, <1>3, <1>4 DEF Next

(* The membership rebuilt during the post-recovery grace period is never   *)
(* exposed: while recovering_membership_ is held, UpdateMembership and     *)
(* BlacklistExecutor write into it and current_membership_ only changes   *)
(* by the hand-over that resets it.                                        *)
THEOREM RecoveringNeverExposed == Spec => RecoveringNeverPublished
BY NextKeepsRecoveringPrivate, PTL DEF Spec, RecoveringNeverPublished

=============================================================================
