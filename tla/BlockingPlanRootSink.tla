------------------------ MODULE BlockingPlanRootSink ------------------------
(***************************************************************************)
(* The rendezvous between the fragment thread that produces row batches   *)
(* (BlockingPlanRootSink::Send, FlushFinal, Close), the client thread that *)
(* fetches rows (GetNext) and the thread that cancels the fragment         *)
(* (RuntimeState::set_is_cancelled followed by Cancel), in                *)
(* be/src/exec/blocking-plan-root-sink.cc.                                 *)
(*                                                                         *)
(* One mutex (lock_) and two condition variables (sender_cv_,              *)
(* consumer_cv_).  A condition variable is the set of threads blocked in   *)
(* Wait on it; NotifyAll empties the set; a woken thread must re-acquire   *)
(* the mutex before it re-evaluates its loop predicate.  Evaluating the    *)
(* predicate and entering Wait are two steps, so that a thread that does   *)
(* not take lock_ (the canceller) can act between them.  Rows are numbered *)
(* 1, 2, ... in the order the fragment hands them to Send.                 *)
(***************************************************************************)
EXTENDS Naturals, Sequences

CONSTANTS
    MaxBatches,    \* number of row batches the fragment produces at most
    MaxBatchRows,  \* rows in one batch: 0..MaxBatchRows (0-row batches happen)
    MaxFetches,    \* number of GetNext calls the client makes at most
    FetchSizes     \* values of GetNext's num_results; 0 means "no limit"

ASSUME SinkAssumption ==
    /\ MaxBatches \in Nat
    /\ MaxBatchRows \in Nat
    /\ MaxFetches \in Nat
    /\ FetchSizes \subseteq Nat

Producer == "producer"
Consumer == "consumer"
NoThread == "none"

\* Values of sender_state_.
ROWS_PENDING == "ROWS_PENDING"
EOS == "EOS"
CLOSED_NOT_EOS == "CLOSED_NOT_EOS"

\* results_ == nullptr is 0; otherwise results_ is the number of the
\* GetNext call whose QueryResultSet it points to.
NULL == 0

VARIABLES
    lock,              \* holder of lock_
    senderCv,          \* threads blocked in sender_cv_.Wait
    consumerCv,        \* threads blocked in consumer_cv_.Wait
    senderState,       \* sender_state_
    results,           \* results_
    numRowsRequested,  \* num_rows_requested_
    cancelled,         \* RuntimeState::is_cancelled()
    ppc,               \* where the fragment (producer) thread is
    batchRows,         \* batch->num_rows() of the batch being sent
    currentBatchRow,   \* current_batch_row in Send
    sent,              \* rows handed to Send so far, current batch included
    batches,           \* Send calls so far
    cpc,               \* where the client (consumer) thread is
    fetches,           \* GetNext calls so far
    resultSet,         \* rows in the QueryResultSet of the latest GetNext
    delivered,         \* rows GetNext has returned to the client, in order
    eos,               \* *eos as set by the latest GetNext
    xpc                \* where the cancelling thread is

vars == <<lock, senderCv, consumerCv, senderState, results, numRowsRequested,
          cancelled, ppc, batchRows, currentBatchRow, sent, batches, cpc,
          fetches, resultSet, delivered, eos, xpc>>

ProducerPcs == {"idle", "send_top", "send_check", "send_wait", "send_waiting",
                "send_after", "failed", "flushed", "closed"}
ConsumerPcs == {"idle", "check", "wait", "waiting", "return"}
CancellerPcs == {"running", "flagged", "done"}

\* The consumer is inside GetNext.
InGetNext == {"check", "wait", "waiting", "return"}
\* The producer is inside Send.
InSend == {"send_top", "send_check", "send_wait", "send_waiting", "send_after"}

MinOf(a, b) == IF a < b THEN a ELSE b

-----------------------------------------------------------------------------
(* Producer: Send(batch), lines 39-72.                                     *)

\* Send starts: UpdateAndCheckRowsProducedLimit passes and the loop begins.
SendBegin ==
    /\ ppc = "idle"
    /\ batches < MaxBatches
    /\ \E b \in 0..MaxBatchRows :
          /\ batchRows' = b
          /\ sent' = sent + b
    /\ currentBatchRow' = 0
    /\ batches' = batches + 1
    /\ ppc' = "send_top"
    /\ UNCHANGED <<lock, senderCv, consumerCv, senderState, results,
                   numRowsRequested, cancelled, cpc, fetches, resultSet,
                   delivered, eos, xpc>>

\* RETURN_IF_ERROR(UpdateAndCheckRowsProducedLimit(...)) returns an error.
SendLimitExceeded ==
    /\ ppc = "idle"
    /\ batches < MaxBatches
    /\ ppc' = "failed"
    /\ batches' = batches + 1
    /\ UNCHANGED <<lock, senderCv, consumerCv, senderState, results,
                   numRowsRequested, cancelled, batchRows, currentBatchRow,
                   sent, cpc, fetches, resultSet, delivered, eos, xpc>>

\* Mutant: the loop is entered with no row left (a 0-row batch, or a
\* drained one), so an empty result set is handed back.
SendLoopEntersDrainedBatch ==
    /\ ppc = "send_top"
    /\ \/ /\ currentBatchRow > batchRows
          /\ ppc' = "idle"
          /\ UNCHANGED lock
       \/ /\ currentBatchRow <= batchRows
          /\ lock = NoThread
          /\ lock' = Producer
          /\ ppc' = "send_check"
    /\ UNCHANGED <<senderCv, consumerCv, senderState, results,
                   numRowsRequested, cancelled, batchRows, currentBatchRow,
                   sent, batches, cpc, fetches, resultSet, delivered, eos, xpc>>

\* Head of the while loop: leave Send, or take lock_ for another pass.
SendLoop ==
    /\ ppc = "send_top"
    /\ \/ /\ currentBatchRow >= batchRows
          /\ ppc' = "idle"
          /\ UNCHANGED lock
       \/ /\ currentBatchRow < batchRows
          /\ lock = NoThread
          /\ lock' = Producer
          /\ ppc' = "send_check"
    /\ UNCHANGED <<senderCv, consumerCv, senderState, results,
                   numRowsRequested, cancelled, batchRows, currentBatchRow,
                   sent, batches, cpc, fetches, resultSet, delivered, eos, xpc>>

\* while (results_ == nullptr && !state->is_cancelled()): the predicate.
SendCheck ==
    /\ ppc = "send_check"
    /\ ppc' = IF results = NULL /\ ~cancelled THEN "send_wait" ELSE "send_after"
    /\ UNCHANGED <<lock, senderCv, consumerCv, senderState, results,
                   numRowsRequested, cancelled, batchRows, currentBatchRow,
                   sent, batches, cpc, fetches, resultSet, delivered, eos, xpc>>

\* sender_cv_.Wait(l): release lock_ and block.
SendWait ==
    /\ ppc = "send_wait"
    /\ lock' = NoThread
    /\ senderCv' = senderCv \cup {Producer}
    /\ ppc' = "send_waiting"
    /\ UNCHANGED <<consumerCv, senderState, results, numRowsRequested,
                   cancelled, batchRows, currentBatchRow, sent, batches, cpc,
                   fetches, resultSet, delivered, eos, xpc>>

\* Mutant: "if" instead of "while": a woken Send goes on to AddRows without
\* re-testing its predicate.
SendWakeNoRecheck ==
    /\ ppc = "send_waiting"
    /\ Producer \notin senderCv
    /\ lock = NoThread
    /\ lock' = Producer
    /\ ppc' = "send_after"
    /\ UNCHANGED <<senderCv, consumerCv, senderState, results,
                   numRowsRequested, cancelled, batchRows, currentBatchRow,
                   sent, batches, cpc, fetches, resultSet, delivered, eos, xpc>>

\* Wait returns once notified: re-acquire lock_ and re-test the predicate.
SendWake ==
    /\ ppc = "send_waiting"
    /\ Producer \notin senderCv
    /\ lock = NoThread
    /\ lock' = Producer
    /\ ppc' = "send_check"
    /\ UNCHANGED <<senderCv, consumerCv, senderState, results,
                   numRowsRequested, cancelled, batchRows, currentBatchRow,
                   sent, batches, cpc, fetches, resultSet, delivered, eos, xpc>>

\* RETURN_IF_CANCELLED(state): Send returns CANCELLED, releasing lock_.
SendCancelled ==
    /\ ppc = "send_after"
    /\ cancelled
    /\ lock' = NoThread
    /\ ppc' = "failed"
    /\ UNCHANGED <<senderCv, consumerCv, senderState, results,
                   numRowsRequested, cancelled, batchRows, currentBatchRow,
                   sent, batches, cpc, fetches, resultSet, delivered, eos, xpc>>

\* Mutant: num_rows_requested_ is used without the min() against the rows
\* left in the batch.
NumToFetchNoMin ==
    LET remaining == batchRows - currentBatchRow
    IN  IF numRowsRequested > 0 THEN numRowsRequested ELSE remaining

\* num_to_fetch, lines 60-61.
NumToFetch ==
    LET remaining == batchRows - currentBatchRow
    IN  IF numRowsRequested > 0 THEN MinOf(remaining, numRowsRequested)
                                ELSE remaining

\* Mutant: AddRows is passed row 0 of the batch instead of current_batch_row.
BatchRowsFromStart(k) == [i \in 1..k |-> sent - batchRows + i]

\* The rows of the current batch from current_batch_row on, k of them.
BatchRows(k) == [i \in 1..k |-> sent - batchRows + currentBatchRow + i]

\* Mutant: the cursor jumps to the end of the batch after one AddRows.
SendAddRowsSkipsRest ==
    /\ ppc = "send_after"
    /\ ~cancelled
    /\ resultSet' = resultSet \o BatchRows(NumToFetch)
    /\ currentBatchRow' = batchRows
    /\ results' = NULL
    /\ consumerCv' = {}
    /\ lock' = NoThread
    /\ ppc' = "send_top"
    /\ UNCHANGED <<senderCv, senderState, numRowsRequested, cancelled,
                   batchRows, sent, batches, cpc, fetches, delivered, eos, xpc>>

\* AddRows succeeds: copy the rows, advance the cursor, results_ = nullptr,
\* consumer_cv_.NotifyAll(), and release lock_ at the end of the iteration.
SendAddRows ==
    /\ ppc = "send_after"
    /\ ~cancelled
    /\ resultSet' = resultSet \o BatchRows(NumToFetch)
    /\ currentBatchRow' = currentBatchRow + NumToFetch
    /\ results' = NULL
    /\ consumerCv' = {}
    /\ lock' = NoThread
    /\ ppc' = "send_top"
    /\ UNCHANGED <<senderCv, senderState, numRowsRequested, cancelled,
                   batchRows, sent, batches, cpc, fetches, delivered, eos, xpc>>

\* RETURN_IF_ERROR(results_->AddRows(...)) returns an error: results_ is
\* left set and the consumer is not notified.
SendAddRowsFails ==
    /\ ppc = "send_after"
    /\ ~cancelled
    /\ lock' = NoThread
    /\ ppc' = "failed"
    /\ UNCHANGED <<senderCv, consumerCv, senderState, results,
                   numRowsRequested, cancelled, batchRows, currentBatchRow,
                   sent, batches, cpc, fetches, resultSet, delivered, eos, xpc>>

(* Producer: FlushFinal, lines 74-82, called once every batch was sent.    *)
FlushFinal ==
    /\ ppc = "idle"
    /\ lock = NoThread
    /\ senderState' = EOS
    /\ consumerCv' = {}
    /\ ppc' = "flushed"
    /\ UNCHANGED <<lock, senderCv, results, numRowsRequested, cancelled,
                   batchRows, currentBatchRow, sent, batches, cpc, fetches,
                   resultSet, delivered, eos, xpc>>

\* Mutant: Close does not notify consumer_cv_.
CloseNoNotify ==
    /\ ppc \in {"idle", "flushed", "failed"}
    /\ lock = NoThread
    /\ senderState' = IF senderState = ROWS_PENDING THEN CLOSED_NOT_EOS
                                                   ELSE senderState
    /\ ppc' = "closed"
    /\ UNCHANGED <<lock, senderCv, consumerCv, results, numRowsRequested,
                   cancelled, batchRows, currentBatchRow, sent, batches, cpc,
                   fetches, resultSet, delivered, eos, xpc>>

(* Producer: Close, lines 84-94, on the success path after FlushFinal and  *)
(* on every error path (from "idle" when the fragment fails upstream).     *)
Close ==
    /\ ppc \in {"idle", "flushed", "failed"}
    /\ lock = NoThread
    /\ senderState' = IF senderState = ROWS_PENDING THEN CLOSED_NOT_EOS
                                                   ELSE senderState
    /\ consumerCv' = {}
    /\ ppc' = "closed"
    /\ UNCHANGED <<lock, senderCv, results, numRowsRequested, cancelled,
                   batchRows, currentBatchRow, sent, batches, cpc, fetches,
                   resultSet, delivered, eos, xpc>>

-----------------------------------------------------------------------------
(* Consumer: GetNext(results, num_results, eos), lines 102-121.            *)

\* Mutant: GetNext publishes results_ without sender_cv_.NotifyAll().
GetNextBeginNoNotify ==
    /\ cpc = "idle"
    /\ fetches < MaxFetches
    /\ lock = NoThread
    /\ \E n \in FetchSizes : numRowsRequested' = n
    /\ lock' = Consumer
    /\ fetches' = fetches + 1
    /\ results' = fetches + 1
    /\ resultSet' = <<>>
    /\ cpc' = "check"
    /\ UNCHANGED <<senderCv, consumerCv, senderState, cancelled, ppc,
                   batchRows, currentBatchRow, sent, batches, delivered, eos,
                   xpc>>

\* Take lock_, publish a fresh QueryResultSet, notify the sender.
GetNextBegin ==
    /\ cpc = "idle"
    /\ fetches < MaxFetches
    /\ lock = NoThread
    /\ \E n \in FetchSizes : numRowsRequested' = n
    /\ lock' = Consumer
    /\ fetches' = fetches + 1
    /\ results' = fetches + 1
    /\ resultSet' = <<>>
    /\ senderCv' = {}
    /\ cpc' = "check"
    /\ UNCHANGED <<consumerCv, senderState, cancelled, ppc, batchRows,
                   currentBatchRow, sent, batches, delivered, eos, xpc>>

\* while (sender_state_ == ROWS_PENDING && results_ != nullptr
\*        && !state->is_cancelled()): the predicate.
GetNextCheck ==
    /\ cpc = "check"
    /\ cpc' = IF senderState = ROWS_PENDING /\ results # NULL /\ ~cancelled
              THEN "wait" ELSE "return"
    /\ UNCHANGED <<lock, senderCv, consumerCv, senderState, results,
                   numRowsRequested, cancelled, ppc, batchRows,
                   currentBatchRow, sent, batches, fetches, resultSet,
                   delivered, eos, xpc>>

\* consumer_cv_.Wait(l)
GetNextWait ==
    /\ cpc = "wait"
    /\ lock' = NoThread
    /\ consumerCv' = consumerCv \cup {Consumer}
    /\ cpc' = "waiting"
    /\ UNCHANGED <<senderCv, senderState, results, numRowsRequested,
                   cancelled, ppc, batchRows, currentBatchRow, sent, batches,
                   fetches, resultSet, delivered, eos, xpc>>

GetNextWake ==
    /\ cpc = "waiting"
    /\ Consumer \notin consumerCv
    /\ lock = NoThread
    /\ lock' = Consumer
    /\ cpc' = "check"
    /\ UNCHANGED <<senderCv, consumerCv, senderState, results,
                   numRowsRequested, cancelled, ppc, batchRows,
                   currentBatchRow, sent, batches, fetches, resultSet,
                   delivered, eos, xpc>>

\* Mutant: *eos is set once the sender has stopped, whether by FlushFinal
\* or by Close.
GetNextReturnEosWhenStopped ==
    /\ cpc = "return"
    /\ eos' = (senderState # ROWS_PENDING)
    /\ delivered' = delivered \o resultSet
    /\ lock' = NoThread
    /\ cpc' = "idle"
    /\ UNCHANGED <<senderCv, consumerCv, senderState, results,
                   numRowsRequested, cancelled, ppc, batchRows,
                   currentBatchRow, sent, batches, fetches, resultSet, xpc>>

\* *eos = sender_state_ == EOS; return; the client takes the rows.
GetNextReturn ==
    /\ cpc = "return"
    /\ eos' = (senderState = EOS)
    /\ delivered' = delivered \o resultSet
    /\ lock' = NoThread
    /\ cpc' = "idle"
    /\ UNCHANGED <<senderCv, consumerCv, senderState, results,
                   numRowsRequested, cancelled, ppc, batchRows,
                   currentBatchRow, sent, batches, fetches, resultSet, xpc>>

-----------------------------------------------------------------------------
(* Cancellation: the runtime sets the flag (an atomic, not under lock_),   *)
(* then calls Cancel, lines 96-100, which notifies without taking lock_.   *)

SetCancelled ==
    /\ xpc = "running"
    /\ cancelled' = TRUE
    /\ xpc' = "flagged"
    /\ UNCHANGED <<lock, senderCv, consumerCv, senderState, results,
                   numRowsRequested, ppc, batchRows, currentBatchRow, sent,
                   batches, cpc, fetches, resultSet, delivered, eos>>

Cancel ==
    /\ xpc = "flagged"
    /\ senderCv' = {}
    /\ consumerCv' = {}
    /\ xpc' = "done"
    /\ UNCHANGED <<lock, senderState, results, numRowsRequested, cancelled,
                   ppc, batchRows, currentBatchRow, sent, batches, cpc,
                   fetches, resultSet, delivered, eos>>

\* A condition-variable wait may return without a notification.
SpuriousWakeup ==
    /\ \/ /\ senderCv # {}
          /\ senderCv' = {}
          /\ UNCHANGED consumerCv
       \/ /\ consumerCv # {}
          /\ consumerCv' = {}
          /\ UNCHANGED senderCv
    /\ UNCHANGED <<lock, senderState, results, numRowsRequested, cancelled,
                   ppc, batchRows, currentBatchRow, sent, batches, cpc,
                   fetches, resultSet, delivered, eos, xpc>>

-----------------------------------------------------------------------------
Init ==
    /\ lock = NoThread
    /\ senderCv = {}
    /\ consumerCv = {}
    /\ senderState = ROWS_PENDING
    /\ results = NULL
    /\ numRowsRequested = 0
    /\ cancelled = FALSE
    /\ ppc = "idle"
    /\ batchRows = 0
    /\ currentBatchRow = 0
    /\ sent = 0
    /\ batches = 0
    /\ cpc = "idle"
    /\ fetches = 0
    /\ resultSet = <<>>
    /\ delivered = <<>>
    /\ eos = FALSE
    /\ xpc = "running"

ProducerStep ==
    \/ SendBegin \/ SendLimitExceeded \/ SendLoop \/ SendCheck \/ SendWait
    \/ SendWake \/ SendCancelled \/ SendAddRows \/ SendAddRowsFails
    \/ FlushFinal \/ Close

\* The steps of a GetNext call once it has started.
GetNextStep == GetNextCheck \/ GetNextWait \/ GetNextWake \/ GetNextReturn

Next ==
    \/ ProducerStep
    \/ GetNextBegin
    \/ GetNextStep
    \/ SetCancelled
    \/ Cancel
    \/ SpuriousWakeup

Spec == Init /\ [][Next]_vars

(* The fragment thread runs to completion; a client in GetNext keeps       *)
(* running; Cancel() runs to its end once the flag is set.  A thread that  *)
(* keeps trying to take lock_ while it is released again and again gets    *)
(* it (strong fairness): otherwise endless spurious wake-ups of one thread *)
(* could starve the other.  Neither the client starting another GetNext,   *)
(* nor cancellation, nor a spurious wake-up is assumed to ever happen.     *)
Fairness ==
    /\ SF_vars(ProducerStep)
    /\ SF_vars(GetNextStep)
    /\ WF_vars(Cancel)

FairSpec == Spec /\ Fairness

-----------------------------------------------------------------------------
(* Properties                                                              *)

TypeOK ==
    /\ lock \in {NoThread, Producer, Consumer}
    /\ senderCv \subseteq {Producer}
    /\ consumerCv \subseteq {Consumer}
    /\ senderState \in {ROWS_PENDING, EOS, CLOSED_NOT_EOS}
    /\ results \in Nat
    /\ numRowsRequested \in Nat
    /\ cancelled \in BOOLEAN
    /\ ppc \in ProducerPcs
    /\ batchRows \in Nat
    /\ currentBatchRow \in 0..batchRows
    /\ sent \in Nat
    /\ batches \in Nat
    /\ cpc \in ConsumerPcs
    /\ fetches \in Nat
    /\ resultSet \in Seq(Nat)
    /\ delivered \in Seq(Nat)
    /\ eos \in BOOLEAN
    /\ xpc \in CancellerPcs

(* Send copies rows into results_ (AddRows) only while the GetNext call    *)
(* that published that QueryResultSet is still blocked waiting for them:   *)
(* the client may free the result set as soon as GetNext returns.          *)
ProducerWritesOnlyAwaitedResultSet ==
    (ppc = "send_after" /\ ~cancelled) =>
        /\ results # NULL
        /\ results = fetches
        /\ cpc = "waiting"

(* While rows are still pending and the query is not cancelled, GetNext    *)
(* never hands the client an empty batch (the zero-row guard of Send's     *)
(* loop, IMPALA-4335).                                                     *)
NoEmptyFetchMidStream ==
    (cpc = "return" /\ senderState = ROWS_PENDING /\ ~cancelled) =>
        Len(resultSet) > 0

(* The client receives rows 1, 2, ... in the order the fragment sent them, *)
(* each once: the batch cursor current_batch_row and num_rows_requested   *)
(* split batches without losing or repeating a row.                       *)
RowsInOrderExactlyOnce ==
    delivered = [i \in 1..Len(delivered) |-> i]

(* GetNext reports eos only after every row handed to Send has reached the *)
(* client.                                                                 *)
EosOnlyAfterAllRows ==
    eos => Len(delivered) = sent

(* The producer and the consumer are never both blocked on their condition *)
(* variables: each publishes the state change the other waits for under    *)
(* lock_ and notifies.                                                     *)
NoMutualWait ==
    ~(Producer \in senderCv /\ Consumer \in consumerCv)

(* Every GetNext call returns.                                             *)
GetNextReturns ==
    (cpc \in InGetNext) ~> (cpc = "idle")

(* Once the query is cancelled, the producer leaves Send, whether or not   *)
(* the client fetches again (Cancel notifies sender_cv_ "so both parties   *)
(* observe it").                                                           *)
CancelReachesProducer ==
    (cancelled /\ ppc \in InSend) ~> (ppc \notin InSend)


-----------------------------------------------------------------------------
(* Refinement: the sink implements the client-visible row stream.  The     *)
(* stream's rows are the rows handed to Send (sent); a GetNext call is in  *)
(* progress from its first step to its return; the other variables are    *)
(* the sink's own.                                                         *)
Stream == INSTANCE RowStream WITH produced <- sent,
                                  inGetNext <- cpc \in InGetNext

(* Every behaviour of the sink, seen through the mapping, is a behaviour   *)
(* of RowStream: each GetNext hands the client the next rows of the stream *)
(* in order, no more than num_results of them, none only once the fragment *)
(* stopped or the query was cancelled, and reports eos only with the last  *)
(* row; the lock_/condition-variable hand-off of Send and GetNext adds no  *)
(* other client-visible behaviour.                                         *)
ImplementsRowStream == Stream!Spec

=============================================================================
