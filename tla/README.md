# Formal models of Impala's result sink, cluster membership manager and join hash table

This directory holds TLA+ models of three components of the Impala backend.
Each module is translated from the code under `src/`. The directory also holds:

- TLC configurations that model-check the modules on small instances;
- an abstract specification of what the result sink promises its client
  (`RowStream`), and the check and the proof that the sink implements it;
- TLAPS proofs of the sink's, the membership manager's and the hash table's
  invariants for every value of the constants.

`PROJECT.json` maps every definition to the source lines it models. It also
lists the runs, the mutants that show each property can fail, the findings and
the hazards.

## 1. Inventory

| Part | Source | Status |
|---|---|---|
| Result sink (`BlockingPlanRootSink`) | `be/src/exec/blocking-plan-root-sink.cc` (3.3.0) | modelled: `BlockingPlanRootSink`; abstract spec `RowStream`; proofs in `BlockingPlanRootSinkProofs` and `BlockingPlanRootSinkRefinement` |
| Cluster membership manager | `be/src/scheduling/cluster-membership-mgr.cc` (3.3.0) | partly: `ClusterMembershipMgr` (UpdateMembership, BlacklistExecutor), proofs in `ClusterMembershipMgrProofs`; `MembershipDescriptors` (the topic-item loop with descriptors that can change groups), proofs in `MembershipDescriptorsProofs` |
| Executor blacklist | not under `src/` | modelled from the spec inside `ClusterMembershipMgr` |
| Join hash table | `be/src/exec/hash-table.inline.h` (4.1.0) | partly: `HashTable` (probe, insert, match, output iterators), proofs in `HashTableProofs` |
| `TimeTravelSpec` | `src/unnamed/part_000` | not modelled: sequential SQL analysis and string formatting |
| `ClassUtil` | `fe/.../util/ClassUtil.java` | not modelled: a reflection helper that formats a name |

How the parts interact:

- The sink sits between two threads. A fragment-instance thread (the producer)
  calls `Send`, `FlushFinal` and `Close`. A client thread (the consumer) calls
  `GetNext`. They share `lock_`, `results_`, `sender_cv_` and `consumer_cv_`.
  A third party calls `Cancel` after setting the runtime's cancellation flag.
- The membership manager is driven by the statestore subscriber's callback
  (`UpdateMembership`) and by the scheduler (`BlacklistExecutor`). Both run
  under `update_membership_lock_`, so each is one atomic step. It reads the
  local backend descriptor through a callback. It notifies the local
  ImpalaServer and the frontend when it publishes.
- The hash table is used by one thread of a hash join:
  - rows are inserted while the build side is read;
  - probe rows mark the build rows they match;
  - a right or full outer join then outputs the unmatched build rows.

## 2. Plan and modules

| Module | Models | State | Actions |
|---|---|---|---|
| `BlockingPlanRootSink` | the sink | `lock`, `senderCv`/`consumerCv` (wait sets), `senderState`, `results` (0 = nullptr, else the id of the GetNext that published it), `numRowsRequested`, `cancelled`, producer/consumer/canceller program counters, batch cursor, rows sent and delivered | one action per atomic region between lock operations of `Send`, `FlushFinal`, `Close`, `Cancel`, `GetNext`, and a spurious wake-up |
| `ClusterMembershipMgr` | the manager, plus the statestore, local backend and blacklist clock as environment | `current` and `recovering` snapshots (version, backends, quiescing, groups, blacklist), the topic, the keys changed since the last delta, `needFull`, the grace period, the local descriptor, the expired probations, and what the server and frontend were last told | `UpdateMembership` (the whole callback, as one step), `BlacklistExecutor(b)`, and environment steps |
| `RowStream` | what the sink promises its client | `produced` rows, `senderState`, `cancelled`, `inGetNext`, `numRowsRequested`, `delivered`, `eos` | `Send` (some rows), `FlushFinal`, `Close`, `Cancel`, `CallGetNext`, `ReturnGetNext` (the next k rows) |
| `MembershipDescriptors` | the topic-item loop, maintenance and `BlacklistExecutor` of the manager, per descriptor | `backends` (id to descriptor: groups and quiescing), `groups` (group to address to the descriptor copy the group holds), `blacklist` and the descriptor each entry stores | `UpdateMembership` (one item, then maintenance, then publish) and `BlacklistExecutor` |
| `HashTable` | the table of one join | `filled`, `hashArray`, each bucket's rows (duplicate list head first), `numFilledBuckets`, `numDuplicateNodes`, `nodeRemaining`, matched rows, iterator position, rows output | `Insert(k)`, `ProbeAndMatch(k, j)`, `StartOutput(m)` (Begin / FirstUnmatched), `OutputRow`, `OutputDone`, `EndBuild` |

Each `MC_*.tla` module gives the constants small values. Each `*.cfg` names
the specification, the invariants and properties, and whether deadlock is
checked.

### How the models follow the code

- **Sink.**
  - A condition-variable `Wait` is two steps:
    1. the thread joins the wait set and releases `lock_`;
    2. once it is removed from the set, it takes `lock_` back.
  - `NotifyAll` empties the set.
  - `Cancel`'s two `NotifyAll`s are steps that do not need the lock, as in the
    code.
  - `SpuriousWakeup` removes a waiter at any time, which the pthread contract
    allows.
  - A row is its sequence number, so delivery order can be checked.
- **Membership manager.**
  - `UpdateMembership` is one action, built as a chain of snapshots (`s0`…`s4`):
    1. start from an empty snapshot (full update), the recovering snapshot, or
       a copy of the current one;
    2. bump the version;
    3. apply the topic items in the order of the code's loop (deleted, update,
       create);
    4. run blacklist maintenance;
    5. apply the local backend update;
    6. keep the result as the recovering snapshot, or publish it.
  - Items are abstracted to four values per backend: absent, live, quiescing
    and malformed (a descriptor that fails to deserialize or has an empty IP).
  - The `DCHECK_EQ(FindAndRemove ...)` at line 284 does not run in a release
    build. The model therefore does not clear the blacklist entry of a created
    backend.
- **Membership descriptors.**
  - `ClusterMembershipMgr` gives each backend a fixed list of executor groups.
    `MembershipDescriptors` lets a backend register again with another list
    (`DescGroups[b]` holds the lists it may use).
  - Each group stores its own copy of a member's descriptor, keyed by address,
    as `ExecutorGroup::AddExecutor` does. `BlacklistExecutor` is called with
    such a copy.
  - The item branches follow the code: a deletion uses the stored
    descriptor's groups; an update that starts quiescing uses the new
    descriptor's groups, then replaces the stored descriptor; a creation joins
    the new descriptor's groups.
  - A delta carries one item. A "skipped" item stands for a malformed
    descriptor or an empty delta that still runs maintenance.
- **Hash table.**
  - A probe is a recursive function of the step: `(idx + step) % N` for
    quadratic probing and `(idx + 1) % N` for linear probing. The mask in the
    code equals the remainder because N is a power of two.
  - `Probe` stops at the first empty bucket, or at the first bucket with the
    same hash and an equal row.
  - `InsertDuplicateNode`'s check and its consumption are separate: it checks
    for `1 + !has_duplicates` free nodes (line 245) and `AppendNextNode`
    consumes them.
  - `GrowNodeArray` (not under `src/`) either starts a new page of
    `NodesPerPage` nodes or fails. When it fails, the row is not inserted.

### The abstract row stream and the refinement

`RowStream` says what a client of the sink can observe, with no lock and no
condition variable. The fragment produces rows 1, 2, ... and then finishes
(`FlushFinal`) or is closed early (`Close`). The query may be cancelled. A
`GetNext` call, when it returns, has appended the next k rows of the stream to
what the client has, where:

- k is at most `num_results` when that is positive;
- k is 0 only once the fragment has stopped or the query is cancelled;
- `eos` is reported exactly when `FlushFinal` has run, and then every produced
  row has been delivered.

`BlockingPlanRootSink` defines
`Stream == INSTANCE RowStream WITH produced <- sent, inGetNext <- cpc \in InGetNext`
(the other variables have the same names) and `ImplementsRowStream == Stream!Spec`.
Under this mapping:

- `SendBegin` with a non-empty batch is the abstract `Send`, and with an empty
  batch it is a stutter;
- `FlushFinal` maps to `FlushFinal`, `SetCancelled` to `Cancel`, and
  `GetNextBegin` to `CallGetNext`;
- `Close` maps to `Close` when the sender is still pending, and is a stutter
  after `FlushFinal`;
- `GetNextReturn` maps to `ReturnGetNext` with k the rows of the open result
  set;
- every other step (the lock and condition-variable hand-off, `AddRows`, the
  error paths, `Cancel`'s notifications, spurious wake-ups) is a stutter.

## 3. Runs

| Run | Config | Expect | What it shows |
|---|---|---|---|
| `sink_safety` | `MC_BlockingPlanRootSink.cfg` | pass | Every interleaving of Send, FlushFinal, Close, GetNext, Cancel and spurious wake-ups delivers rows in order exactly once. Eos is reported only after the last row. The producer only fills a result set whose GetNext is still waiting. The two threads never both wait. The sink implements `RowStream` (`ImplementsRowStream`). |
| `sink_getnext_returns` | `..._GetNextReturns.cfg` | pass | Under fairness, every GetNext returns. |
| `sink_cancel_lost_wakeup` | `..._CancelReachesProducer.cfg` | violation | Cancellation does not always release the producer (see findings). |
| `cmm_safety` | `MC_ClusterMembershipMgr.cfg` | pass | The checks (listed below) hold across topic deltas, full updates, statestore recovery, local backend changes, blacklisting and probation. |
| `cmm_version_strict` | `..._VersionIncreasesOnPublish.cfg` | violation | BlacklistExecutor publishes without a version bump. |
| `cmm_version_decreases` | `..._VersionNeverDecreases.cfg` | violation | The published version goes down after a recovery and a full update. |
| `cmm_executor_not_reinstated` | `..._ExecutorsReinstated.cfg` | violation | A backend that stops quiescing, or re-registers while blacklisted, is never put back into its groups. |
| `cmd_fixed_groups` | `MC_MembershipDescriptors.cfg` | pass | With fixed group lists, groups offer only known, non-quiescing, non-blacklisted executors through every item kind, blacklisting and probation (216 states, three executors, two groups). |
| `cmd_regroup_ghost` | `..._Regroup.cfg` | violation | Once A may come back with G2 instead of G1, a quiescing A stays in G1. |
| `ht_safety` | `MC_HashTable.cfg` | pass | Every inserted row is found by its key. The output iterators return exactly the rows (or unmatched rows) in table order. The quadratic probe is the triangular permutation. |
| `ht_full_table` | `MC_HashTable_FullTable.cfg` | pass | Five keys are offered to four buckets. The 0.75 fill limit of `NumInsertsBeforeResize` keeps a free bucket on every probe path. So the first row of every key is stored, and no insert reaches `BUCKET_NOT_FOUND` (`NoRowLost`). |
| `ht_first_unmatched_oob` | `MC_HashTable_NoOutOfBoundsRead.cfg` | violation | FirstUnmatched on an empty table reads `buckets_[-1]`. |

What `cmm_safety` checks:

- Executor groups hold only live, non-quiescing, non-blacklisted members that
  list the group.
- The blacklist tracks known executors.
- The published membership matches the topic once updates are delivered.
- The local server is never left believing in a dropped backend.
- A recovering snapshot is never exposed.

Each property of a passing run has a mutant in `PROJECT.json`: a plausible bug
in a mapped definition that TLC reports as a violation of that property.

### Bounds

- **Sink:**
  - two batches of 0 to 3 rows, which covers an empty batch, a batch split over
    two fetches, and a batch drained at once;
  - three GetNext calls with `num_results` of 0 (unlimited) or 2.

  Every wait, wake-up, cancellation point and early return is reached
  (15,324 states).
- **Membership manager:**
  - the local backend and one remote executor in one group;
  - at most 4 published versions.

  That is enough for a full update, a delta, a recovery and the hand-over of
  the recovering snapshot (403,099 states). A second remote backend makes the
  unbounded topic writes explode the state space. Group-by-group effects with
  two remotes are the next config to add, with a named bound on topic writes.
- **Membership descriptors:** three executors (one in G1, one in both
  groups, one in G2) and two groups. That is enough for a member of two
  groups, a group with two members, and blacklisting, probation and deletion
  of each. The regrouping config lets A alternate between G1 and G2.
- **Hash table:**
  - four buckets and four rows;
  - keys K1 and K2 with colliding hashes (1 and 5), and K3 on K1's probe path;
  - pages of three duplicate nodes, so the first duplicate of a second bucket
    needs a new page;
  - both probing policies.

  The probe-permutation check covers N = 1, 2, 4, …, 32 for every start.
  `ht_safety` never reaches the fill limit, because three keys fill at most
  three buckets. `ht_full_table` therefore offers five keys, with hashes 1, 5,
  2, 0 and 3, over five rows (1,384,492 states). Three buckets fill, and the
  two keys left are refused. If the limit let a fourth bucket fill, the fifth
  key's probe would find every bucket filled.

### Fairness

Only `sink_getnext_returns` and `sink_cancel_lost_wakeup` use fairness (`FairSpec`):

- **Strong fairness of the producer's and the consumer's steps.** A blocked
  thread whose wait set was emptied takes `lock_` once it is free often enough,
  as a fair mutex gives.
- **Weak fairness of `Cancel`.** `Cancel()` runs to its end once called.

The client starting another GetNext, cancellation itself and spurious
wake-ups are never assumed to happen.

## 4. Findings

1. **Lost cancellation wake-up.** Sink, line 98: `Cancel` calls
   `sender_cv_.NotifyAll()` without `lock_`.
   - If the producer has just checked `results_ == nullptr &&
     !is_cancelled()` (line 52) and has not yet waited (line 54), the
     notification is lost.
   - The producer then sleeps although the query is cancelled. The spec says
     "Cancel broadcasts both CVs so both parties observe it".
2. **Version not strictly increasing.** Membership manager, line 414:
   `BlacklistExecutor` publishes a changed snapshot with the same version,
   against §8 of the spec.
3. **Version decreases.** Membership manager, line 173: a full update starts
   from a fresh `Snapshot`, so its version restarts at 1. The trace that
   lowers the published version:
   1. a full update publishes v1;
   2. a delta publishes v2;
   3. the statestore recovers and the grace period ends;
   4. a full update publishes v1 again.
4. **Executor never reinstated.** Membership manager, lines 258–273: the
   update branch only removes a backend from its groups and clears its
   blacklist entry, so the backend is never added back. The trace:
   1. A registers;
   2. A starts quiescing;
   3. a full update arrives;
   4. A restarts and is live again;
   5. a delta arrives.

   At the end, A is live and not blacklisted, but it is in no executor group.
5. **Executor left in its old group.** Membership manager, lines 267 and
   273. A backend that starts quiescing leaves the groups of its new
   descriptor, and `existing = be_desc` moves no membership. The trace:
   1. A registers in G1;
   2. A comes back with G2 and quiescing, in one delta.

   A is now quiescing but still in G1. If A is later deleted, the stored
   descriptor is quiescing, so the removal is skipped: G1 keeps an executor
   that is no longer in `current_backends`. The spec's consistency invariant
   forbids both. `CheckConsistency` catches the first only in debug builds,
   and does not compare group names at all.
6. **Out-of-bounds read.** Hash table, line 196: `FirstUnmatched` reads
   `buckets_[bucket_idx]` before checking for `BUCKET_NOT_FOUND`, so on an
   empty table it reads `buckets_[-1]`.

## 5. Proofs

`BlockingPlanRootSinkProofs` proves, for every value of `MaxBatches`,
`MaxBatchRows`, `MaxFetches` and `FetchSizes` that satisfies `SinkAssumption`
(all naturals):

- `TypeCorrect`: `Spec => []TypeOK`.
- `WritesOnlyAwaited`: `Spec => []ProducerWritesOnlyAwaitedResultSet`.
- `NeverBothWaiting`: `Spec => []NoMutualWait`.

None of the three is inductive on its own: a producer about to write, for
instance, needs facts about who holds the lock and what the consumer is doing.
They all follow from one inductive invariant `IInv`, which is the conjunction
of:

- `TypeOK`;
- `sent >= batchRows`, so the batch's rows are row numbers;
- `LockOwner`: which program counters hold `lock_`;
- `ResultsIsLatest`: `results_` is nullptr or belongs to the latest GetNext;
- `PendingWhileSending`: inside Send, or idle between batches, the sender is
  still `ROWS_PENDING`;
- `SendLoopExit`: Send's wait loop exits with `results_` set or the query
  cancelled;
- `AbandonedOnlyWhenDone`: a returned GetNext leaves `results_` set only when
  the producer is done or the query is cancelled;
- `WaitersWaitForOther`: each waiter waits on a predicate the other thread
  can change.

The proof has three parts:

- `InitIInv`: the initial state satisfies `IInv`.
- `NextIInv`: every action preserves `IInv`, with one step per action.
- `SpecIInv`: the two combine by PTL.

Each theorem then follows from an implication `IInv => P`.

`BlockingPlanRootSinkRefinement` proves what the rows do, for the same
constants:

- `RowsDeliveredInOrder`: `Spec => []RowsInOrderExactlyOnce`.
- `EosAfterLastRow`: `Spec => []EosOnlyAfterAllRows`.
- `NoEmptyFetch`: `Spec => []NoEmptyFetchMidStream`.
- `SinkImplementsRowStream`: `Spec => ImplementsRowStream`.

These rest on a stronger inductive invariant `RInv`, which is `IInv` and:

- `CursorAccounts`: `sent - batchRows + currentBatchRow` equals the rows
  delivered plus the rows in the open result set. Every row before Send's
  cursor has been copied exactly once.
- `PendingInOrder`: the open result set holds the rows that follow the
  delivered ones.
- `BatchCursor`: between batches and after `FlushFinal` the batch is drained,
  and inside Send's loop some of its rows are left.
- `OneAddRowsPerCall`: a published result set is empty. Once Send has taken it
  back, it holds between 1 and `num_results` rows.
- `ReturnReason`: GetNext leaves its loop for one of the loop's three reasons.
- `Flags`: `eos` comes from `FlushFinal`, and the query is cancelled exactly
  when the canceller has set the flag.

In-order delivery is not inductive on its own. A step that appends a result
set keeps it only if the result set starts where the delivered rows end
(`PendingInOrder`). That in turn holds only if Send's cursor accounts for every
row (`CursorAccounts`). Eos needs the cursor to be at the end of the last batch
when `FlushFinal` runs (`BatchCursor`). The refinement proof follows the usual
pattern:

- `InitRefines`: `Init => Stream!Init`.
- `StepRefines`: `RInv /\ RInv' /\ [Next]_vars => [Stream!Next]_Stream!vars`,
  with one case per action. The `GetNextReturn` case (`ReturnRefines`)
  witnesses k with the length of the result set and takes its bounds from
  `CursorAccounts` and `OneAddRowsPerCall`.
- The two combine with `SpecRInv` by PTL.

`ClusterMembershipMgrProofs` proves, for every set of backends, executors,
groups and group assignments and every `MaxVersion` that satisfy
`MembershipAssumption`:

- `TypeCorrect`: `Spec => []TypeOK`.
- `GroupsAlwaysConsistent`: `Spec => []GroupsConsistent`.
- `BlacklistAlwaysTracksMembers`: `Spec => []BlacklistTracksMembers`.

Here the inductive invariant is a property of snapshots. `Consistent(s)` says
that a snapshot's quiescing set lies inside its backends; that each group holds
only live, non-quiescing, non-blacklisted executors assigned to it; and that a
blacklisted or probationary backend is a non-local, non-quiescing member. Then
`IInv` is `TypeOK`, plus `Consistent(current)`, plus `Consistent(recovering)`
while a recovery snapshot exists. The recovering snapshot must be included.
After statestore recovery, `UpdateMembership` builds the next `current` from
`recovering`, so a bad recovering snapshot would later be published.

Every snapshot transformer of the callback has a lemma saying it preserves
`Consistent`:

- `EmptyGood` and `BaseGood`: the empty snapshot and the chosen base.
- `ApplyItemsGood`: applying the topic items (deletions, additions, quiescing
  changes).
- `MaintenanceGood`: probation expiry.
- `ApplyLocalGood`: the local backend update.
- `BumpGood`: the version bump, which also raises the version by exactly one.
- `BlacklistGood`: `BlacklistExecutor`.

`UpdateIInv` chains these in the order of the code. It then splits on
recovery: the result goes to `recovering`, or it is published to `current`.
The `MaxVersion` guard gives the version bound in `TypeOK`.

The same module proves three properties of what the snapshots are used for:

- `ServerViewNeverStale`: `Spec => []ServerViewNoStaleBackends`.
- `PublishedAlwaysMatchesTopic`: `Spec => []PublishedMatchesTopic`.
- `RecoveringNeverExposed`: `Spec => RecoveringNeverPublished`, an action
  property.

`ServerViewNoStaleBackends` is inductive together with `IInv`. A publish
either keeps every backend of the old snapshot (no deletion in the items,
`ApplyItemsGrows`) or passes the new snapshot to the local server.
`PublishedMatchesTopic` is not inductive. While a recovering snapshot is held
the property says nothing, but the hand-over then publishes that snapshot.
The strengthening `MInv` therefore speaks of the base snapshot the next update
starts from (`BaseSnapshot`: the recovering one while it is held, else
`current`). Unless a full update is due, that snapshot agrees with the topic on
every delivered remote entry (`TopicMatch`). `ApplyItemsAt` says what the item
loop leaves at one backend. `BumpFields`, `MaintenanceFields` and
`ApplyLocalFields` say that the later steps of the callback do not move remote
backends in or out of the snapshot or change their quiescing flag.
`RecoveringNeverExposed` follows from `NextKeepsRecoveringPrivate`, one case
per action.

`MembershipDescriptorsProofs` proves `FixedGroupsSchedulable`:
`FixedGroups => (Spec => []GroupsHoldOnlySchedulable)`. The hypothesis
`FixedGroups` says that every backend registers with one executor-group list
only. The run `cmd_regroup_ghost` shows the property fails without it: a backend
that re-registers with other groups stays in its old ones. The inductive
invariant `IInv` is `Good(State)`, which holds:

- `SType`: the types, with every stored descriptor one of the backend's own;
- `MembersSchedulable`: the property, plus "a group's copy of a descriptor
  lists that group";
- `BlacklistedSchedulable`: a blacklisted backend has a non-quiescing stored
  descriptor, is a known non-quiescing executor, and is in no group.

The last conjunct is what probation needs. `Maintenance` puts a blacklisted
backend back into the groups of its stored descriptor, and that is safe only
if the backend is still live and non-quiescing. There is one lemma per item kind
(`DeleteItemGood`, `UpdateItemGood`, `CreateItemGood`) and one each for
`MaintenanceGood` and `BlacklistIInv`.

`HashTableProofs` proves `InsertedRowsFound`: `Spec => []FindAfterInsert`.
It holds for every power-of-two number of buckets, every key set, hash
function, row count and probing policy. The argument runs as follows:

- **The probe sequence.** `ProbeSequence` is a recursive function, which
  tlapm reads as a `CHOOSE` of a fixpoint. `ProbeClosedSolves` shows that the
  closed form (h + s(s+1)/2) mod n, or (h + s) mod n, is a fixpoint. So the
  `CHOOSE` denotes some fixpoint, and `ProbeSequenceRange` shows by a least
  counterexample (`LeastNat`, from `WellFoundedInduction`) that every fixpoint
  stays within the buckets. The remainder lemmas (`ModShift`, `TriStep`)
  carry the closed form.
- **The invariant.** `FindAfterInsert` is not inductive: an insert into an
  empty bucket on another key's path could cut that path. The strengthening
  `FIInv` holds:
  - a bucket is filled iff it holds rows;
  - a bucket's rows are inserted rows (below `nextRow`) with the bucket's key
    (`BucketRowsOK`);
  - a filled bucket stores its key's hash and sits at some step s0 of its key's
    probe sequence, behind buckets that are filled with another hash or key
    (`OnProbePath`).

  `ProbeFindsBucket` then shows that the probe's first stop is s0. An insert
  of a new key fills an empty bucket (`NewBucketStep`). No filled bucket is
  that bucket, so no path is cut (`PathKept`). A duplicate heads the list of a
  bucket with the same key (`PrependStep`). A failed allocation or a full table
  only names the row (`RowKeyStep`). The other actions leave the build state
  alone (`BuildUnchanged`).

The same module proves three more results:

- `TypeCorrect`: `Spec => []TypeOK`, for the same constants. `TypeOK` is not
  inductive as it stands, because `OutputRow` appends
  `entries[itBucket][itNode]` to the output. The step is well typed only if the
  iterator names a real row. The strengthening `TInv` is `TypeOK /\ FIInv /\
  IterOK`. `IterOK` says two things. First, the iterator is at the end or at a
  position `ValidPos` inside a bucket's list. Second, during the build and
  probe phases `itBucket` is `BUCKET_NOT_FOUND`, so an `Insert` that prepends
  a row cannot leave an iterator pointing into a list it changed. `FIInv`
  supplies "filled implies rows", which the `Next*Bucket` helpers need when
  they return a filled bucket. There is one lemma per helper
  (`NextFilledBucketValid`, `NextUnmatchedBucketValid`, `NextUnmatchedValid`,
  `NextRowValid`). The counters `numFilledBuckets` and `nodeRemaining` keep
  their bounds for two reasons. The first is the `NumInsertsBeforeResize`
  guard. The second is that a new page holds exactly `NodesNeeded` nodes
  (`InsertCounters`), which is the `DCHECK_GT(node_remaining_, 0)` of the code.
- `ProbeSequenceClosed`: every fixpoint of `ProbeStep`, and so the recursive
  function `ProbeSequence` itself, equals the closed form `ProbeClosed`, for
  every n > 0, probing policy and start bucket. The proof takes the least step
  at which two fixpoints differ; `ProbeClosedSolves` shows the closed form is
  one of them.
- `LinearProbeVisitsAll`: with linear probing, the first n steps of the probe
  from any start visit every one of the n buckets. Bucket t is reached at step
  (t - h) mod n (`ModShift`). This is the linear half of `ProbeVisitsAll` for
  every n.

What stays with TLC:

- the liveness property `GetNextReturns`;
- the properties the code violates (section 4), which TLC shows with
  counterexamples: `CancelReachesProducer`,
  `VersionIncreasesOnPublish`, `VersionNeverDecreases`, `ExecutorsReinstated`
  and `NoOutOfBoundsRead`;
- the hash table's `NoRowLost`. It holds only if the probe path of every key
  meets a free bucket while the table is below its fill limit. For the
  quadratic probe, that needs the number theory of the `ProbeVisitsAll` item
  below;
- the hash table's `OutputIsExact`. It compares the output with
  `ReferenceOutput`, a recursive function that concatenates `SelectSeq` of
  every bucket. A proof would need an invariant relating the iterator to a
  prefix of that concatenation. It would also need lemmas about `SelectSeq`
  of a prepended list, which the library's `SequenceTheorems` does not state.
  That proof has not been done;
- the quadratic half of `ProbeVisitsAll`: that the triangular numbers
  s(s+1)/2 for s < n are distinct modulo n when n is a power of two. This is
  number theory (a parity argument on 2^k) that the backends cannot do, and
  the proofs do not need it. The closed form is proved
  (`ProbeSequenceClosed`), and so is the linear case (`LinearProbeVisitsAll`);
- what the recursive operators compute for every input in general. The
  library's induction theorems take an operator parameter that no installed
  backend can instantiate. `ProbeSequenceClosed` gets around this for one
  function by a least-counterexample argument over `Nat`.

## 6. Not modelled

- **Membership manager:**
  - `Init` (subscriber registration);
  - the callback setters;
  - `UpdateMetrics`;
  - `CheckConsistency`, whose content is the invariant `GroupsConsistent`.

  In `ClusterMembershipMgr` each backend's executor groups are a constant.
  Changing groups are covered by `MembershipDescriptors`, which leaves out
  the local backend, the grace period and the version.
- **Hash table:**
  - resize (not in the file);
  - prefetching;
  - `FindBuildRowBucket`;
  - NULL-equality;
  - the expression-value cache.
- **`TimeTravelSpec` and `ClassUtil`:** sequential front-end code with no state
  to explore.
