--------------------- MODULE BlockingPlanRootSinkProofs ---------------------
(***************************************************************************)
(* Proofs, for all values of the constants, of the type invariant and of   *)
(* the two lock_/condition-variable invariants of BlockingPlanRootSink.    *)
(***************************************************************************)
EXTENDS BlockingPlanRootSink, TLAPS

(* Who holds lock_: the producer between taking it at the loop head and    *)
(* releasing it in Wait or at the end of the iteration; the consumer       *)
(* between entering GetNext (or waking) and Wait or return.                *)
LockOwner ==
    /\ (lock = Producer) <=> (ppc \in {"send_check", "send_wait", "send_after"})
    /\ (lock = Consumer) <=> (cpc \in {"check", "wait", "return"})

(* results_ is nullptr or the QueryResultSet of the latest GetNext.        *)
ResultsIsLatest ==
    results # NULL => results = fetches

(* FlushFinal and Close are only reached from outside Send, and they end  *)
(* the producer: while it is idle between batches or inside Send, the      *)
(* sender state is still ROWS_PENDING.                                     *)
PendingWhileSending ==
    ppc \in InSend \cup {"idle"} => senderState = ROWS_PENDING

(* Send's wait loop exits with results_ set or the query cancelled.        *)
SendLoopExit ==
    ppc = "send_after" => (results # NULL \/ cancelled)

(* GetNext leaves a published result set behind only when the query is     *)
(* cancelled or the producer is past its last Send.                        *)
AbandonedOnlyWhenDone ==
    (cpc \in {"idle", "return"} /\ results # NULL) =>
        (cancelled \/ senderState # ROWS_PENDING)

(* What each thread blocked on its condition variable waits for.           *)
WaitersWaitForOther ==
    /\ ppc = "send_wait" => results = NULL
    /\ Producer \in senderCv => results = NULL
    /\ cpc = "wait" => results # NULL
    /\ Consumer \in consumerCv => results # NULL

\* The inductive invariant.
IInv ==
    /\ TypeOK
    /\ sent >= batchRows
    /\ LockOwner
    /\ ResultsIsLatest
    /\ PendingWhileSending
    /\ SendLoopExit
    /\ AbandonedOnlyWhenDone
    /\ WaitersWaitForOther

-----------------------------------------------------------------------------
USE SinkAssumption
USE DEF Producer, Consumer, NoThread, NULL, ROWS_PENDING, EOS, CLOSED_NOT_EOS,
        ProducerPcs, ConsumerPcs, CancellerPcs, InSend, InGetNext


LEMMA InitIInv == Init => IInv
<1> SUFFICES ASSUME Init PROVE IInv
  OBVIOUS
<1>1. <<>> \in Seq(Nat)
  OBVIOUS
<1>2. TypeOK
  <2>1. resultSet \in Seq(Nat) /\ delivered \in Seq(Nat)
    BY <1>1 DEF Init
  <2>2. /\ results \in Nat /\ numRowsRequested \in Nat /\ batchRows \in Nat
        /\ currentBatchRow \in 0..batchRows /\ sent \in Nat
        /\ batches \in Nat /\ fetches \in Nat
    BY DEF Init
  <2>3. /\ lock \in {NoThread, Producer, Consumer}
        /\ senderCv \subseteq {Producer} /\ consumerCv \subseteq {Consumer}
        /\ senderState \in {ROWS_PENDING, EOS, CLOSED_NOT_EOS}
        /\ cancelled \in BOOLEAN /\ eos \in BOOLEAN
        /\ ppc \in ProducerPcs /\ cpc \in ConsumerPcs /\ xpc \in CancellerPcs
    BY DEF Init
  <2>4. QED
    BY <2>1, <2>2, <2>3 DEF TypeOK
<1>3. LockOwner /\ ResultsIsLatest /\ PendingWhileSending /\ SendLoopExit
  BY DEF Init, LockOwner, ResultsIsLatest, PendingWhileSending, SendLoopExit
<1>4. AbandonedOnlyWhenDone /\ WaitersWaitForOther
  BY DEF Init, AbandonedOnlyWhenDone, WaitersWaitForOther
<1>5. QED
  BY <1>2, <1>3, <1>4 DEF Init, IInv

(* The rows copied by AddRows stay inside the batch and are row numbers.   *)
LEMMA NumToFetchBounds ==
    ASSUME TypeOK, sent >= batchRows
    PROVE  /\ NumToFetch \in 0..(batchRows - currentBatchRow)
           /\ BatchRows(NumToFetch) \in Seq(Nat)
BY DEF TypeOK, NumToFetch, MinOf, BatchRows

LEMMA NextIInv == IInv /\ [Next]_vars => IInv'
<1> SUFFICES ASSUME IInv, [Next]_vars PROVE IInv'
  OBVIOUS
<1> USE DEF IInv, TypeOK, LockOwner, ResultsIsLatest, PendingWhileSending,
            SendLoopExit, AbandonedOnlyWhenDone, WaitersWaitForOther
<1>1. CASE SendBegin
  <2>1. PICK b \in 0..MaxBatchRows : batchRows' = b /\ sent' = sent + b
    BY <1>1 DEF SendBegin
  <2>2. TypeOK'
    BY <1>1, <2>1 DEF SendBegin
  <2>3. (sent >= batchRows)'
    BY <2>1
  <2>4. /\ ppc = "idle" /\ ppc' = "send_top"
        /\ UNCHANGED <<lock, senderCv, consumerCv, senderState, results,
                       cancelled, cpc, fetches>>
    BY <1>1 DEF SendBegin
  <2>5. (LockOwner /\ ResultsIsLatest /\ PendingWhileSending)'
    BY <2>4
  <2>6. (SendLoopExit /\ AbandonedOnlyWhenDone /\ WaitersWaitForOther)'
    BY <2>4
  <2>7. QED
    BY <2>2, <2>3, <2>5, <2>6
<1>2. CASE SendLimitExceeded
  BY <1>2 DEF SendLimitExceeded
<1>3. CASE SendLoop
  BY <1>3 DEF SendLoop
<1>4. CASE SendCheck
  BY <1>4 DEF SendCheck
<1>5. CASE SendWait
  BY <1>5 DEF SendWait
<1>6. CASE SendWake
  BY <1>6 DEF SendWake
<1>7. CASE SendCancelled
  BY <1>7 DEF SendCancelled
<1>8. CASE SendAddRows
  <2>1. NumToFetch \in 0..(batchRows - currentBatchRow)
        /\ BatchRows(NumToFetch) \in Seq(Nat)
    BY NumToFetchBounds
  <2>2. QED
    BY <1>8, <2>1 DEF SendAddRows
<1>9. CASE SendAddRowsFails
  BY <1>9 DEF SendAddRowsFails
<1>10. CASE FlushFinal
  BY <1>10 DEF FlushFinal
<1>11. CASE Close
  BY <1>11 DEF Close
<1>12. CASE GetNextBegin
  BY <1>12 DEF GetNextBegin
<1>13. CASE GetNextCheck
  BY <1>13 DEF GetNextCheck
<1>14. CASE GetNextWait
  BY <1>14 DEF GetNextWait
<1>15. CASE GetNextWake
  BY <1>15 DEF GetNextWake
<1>16. CASE GetNextReturn
  BY <1>16 DEF GetNextReturn
<1>17. CASE SetCancelled
  BY <1>17 DEF SetCancelled
<1>18. CASE Cancel
  BY <1>18 DEF Cancel
<1>19. CASE SpuriousWakeup
  <2>1. CASE senderCv # {} /\ senderCv' = {} /\ UNCHANGED consumerCv
    BY <1>19, <2>1 DEF SpuriousWakeup
  <2>2. CASE consumerCv # {} /\ consumerCv' = {} /\ UNCHANGED senderCv
    BY <1>19, <2>2 DEF SpuriousWakeup
  <2>3. QED
    BY <1>19, <2>1, <2>2 DEF SpuriousWakeup
<1>20. CASE UNCHANGED vars
  BY <1>20 DEF vars
<1>21. QED
  BY <1>1, <1>2, <1>3, <1>4, <1>5, <1>6, <1>7, <1>8, <1>9, <1>10, <1>11,
     <1>12, <1>13, <1>14, <1>15, <1>16, <1>17, <1>18, <1>19, <1>20
  DEF Next, ProducerStep, GetNextStep

THEOREM SpecIInv == Spec => []IInv
BY InitIInv, NextIInv, PTL DEF Spec

(* The sink's variables keep their types in every reachable state.         *)
THEOREM TypeCorrect == Spec => []TypeOK
BY SpecIInv, PTL DEF IInv

(* Send writes into results_ only while the GetNext that published it is   *)
(* blocked waiting: the producer never fills a result set the client has   *)
(* already been handed back.                                               *)
THEOREM WritesOnlyAwaited == Spec => []ProducerWritesOnlyAwaitedResultSet
<1>1. IInv => ProducerWritesOnlyAwaitedResultSet
  BY DEF IInv, TypeOK, LockOwner, ResultsIsLatest, PendingWhileSending,
         SendLoopExit, AbandonedOnlyWhenDone, ProducerWritesOnlyAwaitedResultSet
<1>2. QED
  BY <1>1, SpecIInv, PTL

(* The producer and the consumer are never both blocked on their          *)
(* condition variables.                                                    *)
THEOREM NeverBothWaiting == Spec => []NoMutualWait
<1>1. IInv => NoMutualWait
  BY DEF IInv, WaitersWaitForOther, NoMutualWait
<1>2. QED
  BY <1>1, SpecIInv, PTL

=============================================================================
