------------------- MODULE BlockingPlanRootSinkRefinement -------------------
(***************************************************************************)
(* Proofs, for all values of the constants, that BlockingPlanRootSink      *)
(* delivers the rows in order and exactly once, reports eos only after the *)
(* last row, never returns an empty batch mid-stream, and implements the   *)
(* client-visible RowStream.                                               *)
(***************************************************************************)
EXTENDS BlockingPlanRootSinkProofs, SequenceTheorems

(* The rows copied into the result set of the GetNext call in progress.    *)
(* Outside a call the result set belongs to the client and no longer to   *)
(* the sink.                                                               *)
Pending == IF cpc \in InGetNext THEN resultSet ELSE <<>>

(* Every row handed to Send before the batch cursor has been copied        *)
(* exactly once, into the rows delivered or the open result set.           *)
CursorAccounts ==
    sent - batchRows + currentBatchRow = Len(delivered) + Len(Pending)

(* The open result set holds the rows that follow the delivered ones.      *)
PendingInOrder ==
    cpc \in InGetNext =>
        resultSet = [i \in 1..Len(resultSet) |-> Len(delivered) + i]

(* Between batches, and once FlushFinal has run, the last batch is drained; *)
(* inside Send's loop rows of the batch are left.                          *)
BatchCursor ==
    /\ ppc \in {"idle", "flushed"} => currentBatchRow = batchRows
    /\ senderState = EOS =>
          ppc \in {"flushed", "closed"} /\ currentBatchRow = batchRows
    /\ ppc \in {"send_check", "send_wait", "send_waiting", "send_after"} =>
          currentBatchRow < batchRows

(* A GetNext call's result set is empty while it is published, and holds   *)
(* one AddRows' worth of rows, at least one and at most num_results, once   *)
(* Send has taken it back.                                                 *)
OneAddRowsPerCall ==
    /\ (cpc \in InGetNext /\ results # NULL) => resultSet = <<>>
    /\ (cpc \in InGetNext /\ results = NULL) =>
          /\ Len(resultSet) > 0
          /\ numRowsRequested > 0 => Len(resultSet) <= numRowsRequested

(* GetNext leaves its wait loop for one of the loop's three reasons.       *)
ReturnReason ==
    cpc = "return" => (results = NULL \/ senderState # ROWS_PENDING \/ cancelled)

(* eos comes from FlushFinal; the query is cancelled exactly when the      *)
(* cancelling thread has set the flag.                                     *)
Flags ==
    /\ eos => senderState = EOS
    /\ cancelled <=> xpc # "running"

\* The inductive invariant of the data the sink moves.
RInv ==
    /\ IInv
    /\ CursorAccounts
    /\ RowsInOrderExactlyOnce
    /\ PendingInOrder
    /\ BatchCursor
    /\ OneAddRowsPerCall
    /\ ReturnReason
    /\ Flags
    /\ EosOnlyAfterAllRows


-----------------------------------------------------------------------------
USE SinkAssumption
USE DEF Producer, Consumer, NoThread, NULL, ROWS_PENDING, EOS, CLOSED_NOT_EOS,
        ProducerPcs, ConsumerPcs, CancellerPcs, InSend, InGetNext

\* The rows 1..n in order, as a sequence of row numbers.
LEMMA RowRangeIsSeq ==
    ASSUME NEW a \in Nat, NEW n \in Nat
    PROVE  [i \in 1..n |-> a + i] \in Seq(Nat)
          /\ Len([i \in 1..n |-> a + i]) = n
OBVIOUS

\* Appending the k rows after row a + m to the m rows after row a.
LEMMA ConcatRowRanges ==
    ASSUME NEW a \in Nat, NEW m \in Nat, NEW k \in Nat
    PROVE  [i \in 1..m |-> a + i] \o [i \in 1..k |-> a + m + i]
             = [i \in 1..(m + k) |-> a + i]
<1> DEFINE s == [i \in 1..m |-> a + i]
<1> DEFINE t == [i \in 1..k |-> a + m + i]
<1>1. s \in Seq(Nat) /\ Len(s) = m /\ t \in Seq(Nat) /\ Len(t) = k
  BY RowRangeIsSeq
<1>2. /\ s \o t \in Seq(Nat)
      /\ Len(s \o t) = m + k
      /\ \A i \in 1..(m + k) : (s \o t)[i] = IF i <= m THEN s[i] ELSE t[i - m]
  BY <1>1, ConcatProperties
<1>3. [i \in 1..(m + k) |-> a + i] \in Seq(Nat)
      /\ Len([i \in 1..(m + k) |-> a + i]) = m + k
  BY RowRangeIsSeq
<1>4. \A i \in 1..(m + k) : (s \o t)[i] = [j \in 1..(m + k) |-> a + j][i]
  BY <1>2
<1>5. QED
  BY <1>2, <1>3, <1>4, SeqEqual

LEMMA InitRInv == Init => RInv
<1> SUFFICES ASSUME Init PROVE RInv
  OBVIOUS
<1>1. IInv
  BY InitIInv
<1>2. CursorAccounts /\ RowsInOrderExactlyOnce /\ PendingInOrder
  BY DEF Init, CursorAccounts, Pending, RowsInOrderExactlyOnce, PendingInOrder
<1>3. BatchCursor /\ OneAddRowsPerCall /\ ReturnReason /\ Flags
      /\ EosOnlyAfterAllRows
  BY DEF Init, BatchCursor, OneAddRowsPerCall, ReturnReason, Flags,
         EosOnlyAfterAllRows
<1>4. QED
  BY <1>1, <1>2, <1>3 DEF RInv


(* An AddRows call copies at least one row of the batch and at most        *)
(* num_rows_requested_ when that is positive.                              *)
LEMMA NumToFetchPositive ==
    ASSUME TypeOK, currentBatchRow < batchRows
    PROVE  /\ NumToFetch \in 1..(batchRows - currentBatchRow)
           /\ numRowsRequested > 0 => NumToFetch <= numRowsRequested
BY DEF TypeOK, NumToFetch, MinOf

\* The data invariants, without IInv.
Data ==
    /\ CursorAccounts
    /\ RowsInOrderExactlyOnce
    /\ PendingInOrder
    /\ BatchCursor
    /\ OneAddRowsPerCall
    /\ ReturnReason
    /\ Flags
    /\ EosOnlyAfterAllRows

(* The three conjuncts about the rows are kept by a step that moves no row *)
(* and neither starts nor ends a GetNext call.                             *)
LEMMA RowsUnchanged ==
    ASSUME RInv,
           UNCHANGED <<sent, batchRows, currentBatchRow, delivered, resultSet>>,
           (cpc' \in InGetNext) <=> (cpc \in InGetNext)
    PROVE  (CursorAccounts /\ RowsInOrderExactlyOnce /\ PendingInOrder)'
BY DEF RInv, CursorAccounts, Pending, RowsInOrderExactlyOnce, PendingInOrder

LEMMA NextRInv == RInv /\ [Next]_vars => RInv'
<1> SUFFICES ASSUME RInv, [Next]_vars PROVE RInv'
  OBVIOUS
<1>0. IInv'
  BY NextIInv DEF RInv
<1> SUFFICES Data'
  BY <1>0 DEF RInv, Data
<1> DEFINE RowsPart == CursorAccounts /\ RowsInOrderExactlyOnce /\ PendingInOrder
<1> DEFINE RestPart == OneAddRowsPerCall /\ ReturnReason /\ Flags
                        /\ EosOnlyAfterAllRows
<1> SUFFICES RowsPart' /\ BatchCursor' /\ RestPart'
  BY DEF Data
<1> USE DEF RowsPart, RestPart
<1>1. CASE SendBegin
  <2>1. PICK b \in 0..MaxBatchRows : batchRows' = b /\ sent' = sent + b
    BY <1>1 DEF SendBegin
  <2>2. /\ ppc = "idle" /\ ppc' = "send_top" /\ currentBatchRow' = 0
        /\ UNCHANGED <<senderState, results, numRowsRequested, cancelled, cpc,
                       resultSet, delivered, eos, xpc>>
    BY <1>1 DEF SendBegin
  <2>3. currentBatchRow = batchRows /\ senderState = ROWS_PENDING
        /\ batchRows \in Nat /\ sent \in Nat
    BY <2>2 DEF RInv, BatchCursor, IInv, PendingWhileSending, TypeOK
  <2>4. RowsPart'
    <3>1. CursorAccounts'
      BY <2>1, <2>2, <2>3 DEF RInv, CursorAccounts, Pending
    <3>2. (RowsInOrderExactlyOnce /\ PendingInOrder)'
      BY <2>2 DEF RInv, RowsInOrderExactlyOnce, PendingInOrder
    <3>3. QED
      BY <3>1, <3>2
  <2>5. BatchCursor' /\ RestPart'
    BY <2>2, <2>3 DEF RInv, BatchCursor, OneAddRowsPerCall, ReturnReason,
                      Flags, EosOnlyAfterAllRows
  <2>6. QED
    BY <2>4, <2>5
<1>2. CASE SendLimitExceeded
  <2>1. /\ ppc = "idle" /\ ppc' = "failed"
        /\ UNCHANGED <<senderState, results, numRowsRequested, cancelled, cpc,
                       resultSet, delivered, eos, xpc, sent, batchRows,
                       currentBatchRow>>
    BY <1>2 DEF SendLimitExceeded
  <2>2. senderState = ROWS_PENDING
    BY <2>1 DEF RInv, IInv, PendingWhileSending
  <2>3. QED
    BY <2>1, <2>2, RowsUnchanged DEF RInv, BatchCursor, OneAddRowsPerCall,
       ReturnReason, Flags, EosOnlyAfterAllRows
<1>3. CASE SendLoop
  <2>1. /\ ppc = "send_top"
        /\ \/ currentBatchRow >= batchRows /\ ppc' = "idle"
           \/ currentBatchRow < batchRows /\ ppc' = "send_check"
        /\ UNCHANGED <<senderState, results, numRowsRequested, cancelled, cpc,
                       resultSet, delivered, eos, xpc, sent, batchRows,
                       currentBatchRow>>
    BY <1>3 DEF SendLoop
  <2>2. senderState = ROWS_PENDING /\ currentBatchRow \in 0..batchRows
        /\ batchRows \in Nat
    BY <2>1 DEF RInv, IInv, PendingWhileSending, TypeOK
  <2>3. QED
    BY <2>1, <2>2, RowsUnchanged DEF RInv, BatchCursor, OneAddRowsPerCall,
       ReturnReason, Flags, EosOnlyAfterAllRows
<1>4. CASE SendCheck
  <2>1. /\ ppc = "send_check" /\ ppc' \in {"send_wait", "send_after"}
        /\ UNCHANGED <<senderState, results, numRowsRequested, cancelled, cpc,
                       resultSet, delivered, eos, xpc, sent, batchRows,
                       currentBatchRow>>
    BY <1>4 DEF SendCheck
  <2>2. QED
    BY <2>1, RowsUnchanged DEF RInv, BatchCursor, OneAddRowsPerCall,
       ReturnReason, Flags, EosOnlyAfterAllRows
<1>5. CASE SendWait
  <2>1. /\ ppc = "send_wait" /\ ppc' = "send_waiting"
        /\ UNCHANGED <<senderState, results, numRowsRequested, cancelled, cpc,
                       resultSet, delivered, eos, xpc, sent, batchRows,
                       currentBatchRow>>
    BY <1>5 DEF SendWait
  <2>2. QED
    BY <2>1, RowsUnchanged DEF RInv, BatchCursor, OneAddRowsPerCall,
       ReturnReason, Flags, EosOnlyAfterAllRows
<1>6. CASE SendWake
  <2>1. /\ ppc = "send_waiting" /\ ppc' = "send_check"
        /\ UNCHANGED <<senderState, results, numRowsRequested, cancelled, cpc,
                       resultSet, delivered, eos, xpc, sent, batchRows,
                       currentBatchRow>>
    BY <1>6 DEF SendWake
  <2>2. QED
    BY <2>1, RowsUnchanged DEF RInv, BatchCursor, OneAddRowsPerCall,
       ReturnReason, Flags, EosOnlyAfterAllRows
<1>7. CASE SendCancelled
  <2>1. /\ ppc = "send_after" /\ ppc' = "failed"
        /\ UNCHANGED <<senderState, results, numRowsRequested, cancelled, cpc,
                       resultSet, delivered, eos, xpc, sent, batchRows,
                       currentBatchRow>>
    BY <1>7 DEF SendCancelled
  <2>2. senderState = ROWS_PENDING
    BY <2>1 DEF RInv, IInv, PendingWhileSending
  <2>3. QED
    BY <2>1, <2>2, RowsUnchanged DEF RInv, BatchCursor, OneAddRowsPerCall,
       ReturnReason, Flags, EosOnlyAfterAllRows
<1>8. CASE SendAddRows
  <2> DEFINE k == NumToFetch
  <2> DEFINE L == Len(delivered)
  <2>1. /\ ppc = "send_after" /\ ~cancelled
        /\ currentBatchRow' = currentBatchRow + k
        /\ results' = NULL /\ ppc' = "send_top"
        /\ resultSet' = resultSet \o BatchRows(k)
        /\ UNCHANGED <<senderState, numRowsRequested, cancelled, batchRows,
                       sent, cpc, delivered, eos, xpc>>
    BY <1>8 DEF SendAddRows
  <2>2. results # NULL /\ cpc = "waiting"
    BY <2>1 DEF RInv, IInv, TypeOK, LockOwner, ResultsIsLatest,
                PendingWhileSending, SendLoopExit, AbandonedOnlyWhenDone
  <2>3. resultSet = <<>> /\ currentBatchRow < batchRows
    BY <2>1, <2>2 DEF RInv, OneAddRowsPerCall, BatchCursor
  <2>4. TypeOK /\ sent >= batchRows /\ senderState = ROWS_PENDING
    BY <2>1 DEF RInv, IInv, PendingWhileSending
  <2>5. /\ k \in 1..(batchRows - currentBatchRow)
        /\ numRowsRequested > 0 => k <= numRowsRequested
    BY <2>3, <2>4, NumToFetchPositive
  <2>6. sent - batchRows + currentBatchRow = L /\ L \in Nat
    BY <2>2, <2>3, <2>4 DEF RInv, CursorAccounts, Pending, TypeOK
  <2>7. resultSet' = [i \in 1..k |-> L + i] /\ Len(resultSet') = k
    <3>1. BatchRows(k) = [i \in 1..k |-> L + i]
      BY <2>6 DEF BatchRows
    <3>2. BatchRows(k) \in Seq(Nat) /\ Len(BatchRows(k)) = k
      BY <2>5, <2>6, <3>1, RowRangeIsSeq
    <3>3. QED
      BY <2>1, <2>3, <3>1, <3>2, ConcatEmptySeq
  <2>8. RowsPart'
    <3>1. CursorAccounts'
      BY <2>1, <2>2, <2>4, <2>5, <2>6, <2>7 DEF CursorAccounts, Pending, TypeOK
    <3>2. PendingInOrder'
      BY <2>1, <2>2, <2>7 DEF PendingInOrder
    <3>3. RowsInOrderExactlyOnce'
      BY <2>1 DEF RInv, RowsInOrderExactlyOnce
    <3>4. QED
      BY <3>1, <3>2, <3>3
  <2>9. BatchCursor'
    BY <2>1, <2>4 DEF BatchCursor
  <2>10. RestPart'
    BY <2>1, <2>2, <2>5, <2>7 DEF RInv, OneAddRowsPerCall, ReturnReason,
                                  Flags, EosOnlyAfterAllRows
  <2>11. QED
    BY <2>8, <2>9, <2>10
<1>9. CASE SendAddRowsFails
  <2>1. /\ ppc = "send_after" /\ ppc' = "failed"
        /\ UNCHANGED <<senderState, results, numRowsRequested, cancelled, cpc,
                       resultSet, delivered, eos, xpc, sent, batchRows,
                       currentBatchRow>>
    BY <1>9 DEF SendAddRowsFails
  <2>2. senderState = ROWS_PENDING
    BY <2>1 DEF RInv, IInv, PendingWhileSending
  <2>3. QED
    BY <2>1, <2>2, RowsUnchanged DEF RInv, BatchCursor, OneAddRowsPerCall,
       ReturnReason, Flags, EosOnlyAfterAllRows
<1>10. CASE FlushFinal
  <2>1. /\ ppc = "idle" /\ ppc' = "flushed" /\ senderState' = EOS
        /\ UNCHANGED <<results, numRowsRequested, cancelled, cpc,
                       resultSet, delivered, eos, xpc, sent, batchRows,
                       currentBatchRow>>
    BY <1>10 DEF FlushFinal
  <2>2. QED
    BY <2>1, RowsUnchanged DEF RInv, BatchCursor, OneAddRowsPerCall,
       ReturnReason, Flags, EosOnlyAfterAllRows
<1>11. CASE Close
  <2>1. /\ ppc \in {"idle", "flushed", "failed"} /\ ppc' = "closed"
        /\ senderState' = IF senderState = ROWS_PENDING THEN CLOSED_NOT_EOS
                                                       ELSE senderState
        /\ UNCHANGED <<results, numRowsRequested, cancelled, cpc,
                       resultSet, delivered, eos, xpc, sent, batchRows,
                       currentBatchRow>>
    BY <1>11 DEF Close
  <2>2. QED
    BY <2>1, RowsUnchanged DEF RInv, BatchCursor, OneAddRowsPerCall,
       ReturnReason, Flags, EosOnlyAfterAllRows
<1>12. CASE GetNextBegin
  <2>1. /\ cpc = "idle" /\ cpc' = "check"
        /\ resultSet' = <<>> /\ results' = fetches + 1 /\ fetches \in Nat
        /\ numRowsRequested' \in Nat
        /\ UNCHANGED <<senderState, cancelled, ppc, delivered, eos,
                       xpc, sent, batchRows, currentBatchRow>>
    BY <1>12 DEF GetNextBegin, RInv, IInv, TypeOK
  <2>2. RowsPart'
    <3>1. CursorAccounts'
      BY <2>1 DEF RInv, CursorAccounts, Pending
    <3>2. PendingInOrder'
      BY <2>1 DEF PendingInOrder
    <3>3. RowsInOrderExactlyOnce'
      BY <2>1 DEF RInv, RowsInOrderExactlyOnce
    <3>4. QED
      BY <3>1, <3>2, <3>3
  <2>3. QED
    BY <2>1, <2>2 DEF RInv, BatchCursor, OneAddRowsPerCall, ReturnReason,
                      Flags, EosOnlyAfterAllRows
<1>13. CASE GetNextCheck
  <2>1. /\ cpc = "check"
        /\ cpc' = IF senderState = ROWS_PENDING /\ results # NULL /\ ~cancelled
                  THEN "wait" ELSE "return"
        /\ UNCHANGED <<senderState, results, numRowsRequested, cancelled, ppc,
                       resultSet, delivered, eos, xpc, sent, batchRows,
                       currentBatchRow>>
    BY <1>13 DEF GetNextCheck
  <2>2. QED
    BY <2>1, RowsUnchanged DEF RInv, BatchCursor, OneAddRowsPerCall,
       ReturnReason, Flags, EosOnlyAfterAllRows
<1>14. CASE GetNextWait
  <2>1. /\ cpc = "wait" /\ cpc' = "waiting"
        /\ UNCHANGED <<senderState, results, numRowsRequested, cancelled, ppc,
                       resultSet, delivered, eos, xpc, sent, batchRows,
                       currentBatchRow>>
    BY <1>14 DEF GetNextWait
  <2>2. QED
    BY <2>1, RowsUnchanged DEF RInv, BatchCursor, OneAddRowsPerCall,
       ReturnReason, Flags, EosOnlyAfterAllRows
<1>15. CASE GetNextWake
  <2>1. /\ cpc = "waiting" /\ cpc' = "check"
        /\ UNCHANGED <<senderState, results, numRowsRequested, cancelled, ppc,
                       resultSet, delivered, eos, xpc, sent, batchRows,
                       currentBatchRow>>
    BY <1>15 DEF GetNextWake
  <2>2. QED
    BY <2>1, RowsUnchanged DEF RInv, BatchCursor, OneAddRowsPerCall,
       ReturnReason, Flags, EosOnlyAfterAllRows
<1>16. CASE GetNextReturn
  <2> DEFINE L == Len(delivered)
  <2> DEFINE m == Len(resultSet)
  <2>1. /\ cpc = "return" /\ cpc' = "idle"
        /\ delivered' = delivered \o resultSet
        /\ eos' = (senderState = EOS)
        /\ UNCHANGED <<senderState, results, numRowsRequested, cancelled, ppc,
                       resultSet, xpc, sent, batchRows, currentBatchRow>>
    BY <1>16 DEF GetNextReturn
  <2>2. L \in Nat /\ m \in Nat
    BY DEF RInv, IInv, TypeOK
  <2>3. delivered = [i \in 1..L |-> 0 + i] /\ resultSet = [i \in 1..m |-> 0 + L + i]
    BY <2>1 DEF RInv, RowsInOrderExactlyOnce, PendingInOrder
  <2>4. delivered' = [i \in 1..(L + m) |-> 0 + i]
    <3>1. [i \in 1..L |-> 0 + i] \o [i \in 1..m |-> 0 + L + i]
            = [i \in 1..(L + m) |-> 0 + i]
      BY <2>2, ConcatRowRanges
    <3>2. QED
      BY <2>1, <2>3, <3>1
  <2>5. Len(delivered') = L + m
    BY <2>2, <2>4, RowRangeIsSeq
  <2>6. sent - batchRows + currentBatchRow = L + m
    BY <2>1 DEF RInv, CursorAccounts, Pending
  <2>7. RowsPart'
    BY <2>1, <2>4, <2>5, <2>6 DEF CursorAccounts, Pending,
                                  RowsInOrderExactlyOnce, PendingInOrder
  <2>8. senderState = EOS => currentBatchRow = batchRows
    BY DEF RInv, BatchCursor
  <2>11. sent \in Nat /\ batchRows \in Nat /\ currentBatchRow \in Nat
    BY DEF RInv, IInv, TypeOK
  <2>9. BatchCursor' /\ RestPart'
    <3>1. (BatchCursor /\ OneAddRowsPerCall /\ ReturnReason /\ Flags)'
      BY <2>1 DEF RInv, BatchCursor, OneAddRowsPerCall, ReturnReason, Flags
    <3>2. EosOnlyAfterAllRows'
      <4>1. eos' => senderState = EOS
        BY <2>1
      <4>2. senderState = EOS => Len(delivered') = sent'
        BY <2>1, <2>5, <2>6, <2>8, <2>11
      <4>3. QED
        BY <4>1, <4>2 DEF EosOnlyAfterAllRows
    <3>3. QED
      BY <3>1, <3>2
  <2>10. QED
    BY <2>7, <2>9
<1>17. CASE SetCancelled
  <2>1. /\ xpc = "running" /\ xpc' = "flagged" /\ cancelled'
        /\ UNCHANGED <<senderState, results, numRowsRequested, ppc, cpc,
                       resultSet, delivered, eos, sent, batchRows,
                       currentBatchRow>>
    BY <1>17 DEF SetCancelled
  <2>2. QED
    BY <2>1, RowsUnchanged DEF RInv, BatchCursor, OneAddRowsPerCall,
       ReturnReason, Flags, EosOnlyAfterAllRows
<1>18. CASE Cancel
  <2>1. /\ xpc = "flagged" /\ xpc' = "done"
        /\ UNCHANGED <<senderState, results, numRowsRequested, ppc, cpc,
                       resultSet, delivered, eos, sent, batchRows,
                       currentBatchRow, cancelled>>
    BY <1>18 DEF Cancel
  <2>2. QED
    BY <2>1, RowsUnchanged DEF RInv, BatchCursor, OneAddRowsPerCall,
       ReturnReason, Flags, EosOnlyAfterAllRows
<1>19. CASE SpuriousWakeup
  <2>1. UNCHANGED <<senderState, results, numRowsRequested, ppc, cpc,
                    resultSet, delivered, eos, sent, batchRows,
                    currentBatchRow, cancelled, xpc>>
    BY <1>19 DEF SpuriousWakeup
  <2>2. QED
    BY <2>1, RowsUnchanged DEF RInv, BatchCursor, OneAddRowsPerCall,
       ReturnReason, Flags, EosOnlyAfterAllRows
<1>20. CASE UNCHANGED vars
  <2>1. UNCHANGED <<senderState, results, numRowsRequested, ppc, cpc,
                    resultSet, delivered, eos, sent, batchRows,
                    currentBatchRow, cancelled, xpc>>
    BY <1>20 DEF vars
  <2>2. QED
    BY <2>1, RowsUnchanged DEF RInv, BatchCursor, OneAddRowsPerCall,
       ReturnReason, Flags, EosOnlyAfterAllRows
<1>21. QED
  BY <1>1, <1>2, <1>3, <1>4, <1>5, <1>6, <1>7, <1>8, <1>9, <1>10, <1>11,
     <1>12, <1>13, <1>14, <1>15, <1>16, <1>17, <1>18, <1>19, <1>20
  DEF Next, ProducerStep, GetNextStep


\* RInv holds in every reachable state.
THEOREM SpecRInv == Spec => []RInv
<1>1. Init => RInv
  BY InitRInv
<1>2. RInv /\ [Next]_vars => RInv'
  BY NextRInv
<1>3. QED
  BY <1>1, <1>2, PTL DEF Spec

(* The client receives rows 1, 2, ... in order and each once, for every    *)
(* batch size, fetch size and number of batches: Send's cursor             *)
(* current_batch_row and the min() with num_rows_requested_ neither drop   *)
(* nor repeat a row.                                                       *)
THEOREM RowsDeliveredInOrder == Spec => []RowsInOrderExactlyOnce
BY SpecRInv, PTL DEF RInv

(* GetNext sets *eos only when every row handed to Send has been returned. *)
THEOREM EosAfterLastRow == Spec => []EosOnlyAfterAllRows
BY SpecRInv, PTL DEF RInv

(* While rows are pending and the query is not cancelled, GetNext never    *)
(* returns an empty batch: it leaves its wait loop only once Send has      *)
(* taken results_ back after copying at least one row (IMPALA-4335).       *)
LEMMA RInvNoEmptyFetch == RInv => NoEmptyFetchMidStream
<1> SUFFICES ASSUME RInv, cpc = "return", senderState = ROWS_PENDING,
                    ~cancelled
             PROVE  Len(resultSet) > 0
  BY DEF NoEmptyFetchMidStream
<1>1. results = NULL
  BY DEF RInv, ReturnReason
<1>2. QED
  BY <1>1 DEF RInv, OneAddRowsPerCall

THEOREM NoEmptyFetch == Spec => []NoEmptyFetchMidStream
BY SpecRInv, RInvNoEmptyFetch, PTL


-----------------------------------------------------------------------------
(* Refinement.  The initial state maps to RowStream's; a step of the sink  *)
(* that sends rows, flushes, closes a pending stream, cancels, starts or   *)
(* returns a GetNext maps to the RowStream step of that name, and every    *)
(* other step (the lock_ and condition-variable hand-off, a 0-row batch,   *)
(* an error path) leaves the mapped state alone.                           *)

LEMMA InitRefines == Init => Stream!Init
BY DEF Init, Stream!Init, Stream!ROWS_PENDING

\* A GetNext return hands over the open result set: k = Len(resultSet).
LEMMA ReturnRefines ==
    ASSUME RInv, RInv', GetNextReturn
    PROVE  Stream!ReturnGetNext
<1> DEFINE L == Len(delivered)
           k == Len(resultSet)
<1>1. /\ cpc = "return" /\ cpc' = "idle"
      /\ delivered' = delivered \o resultSet
      /\ eos' = (senderState = EOS)
      /\ UNCHANGED <<senderState, results, numRowsRequested, cancelled,
                     batchRows, currentBatchRow, sent, resultSet>>
  BY DEF GetNextReturn
<1>2. /\ resultSet \in Seq(Nat) /\ delivered \in Seq(Nat)
      /\ sent \in Nat /\ batchRows \in Nat /\ currentBatchRow \in 0..batchRows
      /\ numRowsRequested \in Nat
  BY DEF RInv, IInv, TypeOK
<1>3. L \in Nat /\ k \in Nat
  BY <1>2
<1>4. sent - batchRows + currentBatchRow = L + k
  BY <1>1 DEF RInv, CursorAccounts, Pending
<1>5. k \in 0..(sent - L)
  BY <1>2, <1>3, <1>4
<1>6. numRowsRequested > 0 => k <= numRowsRequested
  BY <1>1, <1>2 DEF RInv, OneAddRowsPerCall
<1>7. k = 0 => (senderState # ROWS_PENDING \/ cancelled)
  <2>1. results = NULL \/ senderState # ROWS_PENDING \/ cancelled
    BY <1>1 DEF RInv, ReturnReason
  <2>2. results = NULL => k > 0
    BY <1>1 DEF RInv, OneAddRowsPerCall
  <2>3. QED
    BY <2>1, <2>2
<1>8. resultSet = Stream!NextRows(L, k)
  BY <1>1 DEF RInv, PendingInOrder, Stream!NextRows
<1>9. eos' => Len(delivered') = sent'
  BY DEF RInv, EosOnlyAfterAllRows
<1>10. \E j \in 0..(sent - L) :
          /\ numRowsRequested > 0 => j <= numRowsRequested
          /\ j = 0 => (senderState # Stream!ROWS_PENDING \/ cancelled)
          /\ delivered' = delivered \o Stream!NextRows(L, j)
  BY <1>1, <1>5, <1>6, <1>7, <1>8 DEF Stream!ROWS_PENDING
<1>11. QED
  BY <1>1, <1>9, <1>10 DEF Stream!ReturnGetNext, Stream!EOS

LEMMA StepRefines ==
    RInv /\ RInv' /\ [Next]_vars => [Stream!Next]_Stream!vars
<1> SUFFICES ASSUME RInv, RInv', [Next]_vars
             PROVE  [Stream!Next]_Stream!vars
  OBVIOUS
<1> DEFINE Stutter == UNCHANGED <<sent, senderState, cancelled, cpc,
                                  numRowsRequested, delivered, eos>>
<1>0. Stutter => UNCHANGED Stream!vars
  BY DEF Stream!vars
<1>1. CASE SendBegin
  <2>1. PICK b \in 0..MaxBatchRows : sent' = sent + b
    BY <1>1 DEF SendBegin
  <2>2. /\ ppc = "idle" /\ sent \in Nat
        /\ UNCHANGED <<senderState, cancelled, cpc, numRowsRequested,
                       delivered, eos>>
    BY <1>1 DEF SendBegin, RInv, IInv, TypeOK
  <2>3. senderState = ROWS_PENDING
    BY <2>2 DEF RInv, IInv, PendingWhileSending
  <2>4. CASE b = 0
    BY <2>1, <2>2, <2>4, <1>0
  <2>5. CASE b # 0
    <3>1. sent' \in Nat /\ sent' > sent
      BY <2>1, <2>2, <2>5
    <3>2. QED
      BY <2>2, <2>3, <3>1 DEF Stream!Next, Stream!Send, Stream!ROWS_PENDING
  <2>6. QED
    BY <2>4, <2>5
<1>2. CASE FlushFinal
  <2>1. /\ ppc = "idle" /\ senderState' = EOS
        /\ UNCHANGED <<sent, cancelled, cpc, numRowsRequested, delivered, eos>>
    BY <1>2 DEF FlushFinal
  <2>2. senderState = ROWS_PENDING
    BY <2>1 DEF RInv, IInv, PendingWhileSending
  <2>3. QED
    BY <2>1, <2>2 DEF Stream!Next, Stream!FlushFinal, Stream!ROWS_PENDING,
       Stream!EOS
<1>3. CASE Close
  <2>1. /\ senderState' = IF senderState = ROWS_PENDING THEN CLOSED_NOT_EOS
                                                        ELSE senderState
        /\ UNCHANGED <<sent, cancelled, cpc, numRowsRequested, delivered, eos>>
    BY <1>3 DEF Close
  <2>2. CASE senderState = ROWS_PENDING
    BY <2>1, <2>2 DEF Stream!Next, Stream!Close, Stream!ROWS_PENDING,
       Stream!CLOSED_NOT_EOS
  <2>3. CASE senderState # ROWS_PENDING
    BY <2>1, <2>3, <1>0
  <2>4. QED
    BY <2>2, <2>3
<1>4. CASE GetNextBegin
  <2>1. /\ cpc = "idle" /\ cpc' = "check"
        /\ numRowsRequested' \in FetchSizes
        /\ UNCHANGED <<sent, senderState, cancelled, delivered, eos>>
    BY <1>4 DEF GetNextBegin
  <2>2. QED
    BY <2>1 DEF Stream!Next, Stream!CallGetNext
<1>5. CASE GetNextReturn
  BY <1>5, ReturnRefines DEF Stream!Next
<1>6. CASE SetCancelled
  <2>1. /\ xpc = "running" /\ cancelled' = TRUE
        /\ UNCHANGED <<sent, senderState, cpc, numRowsRequested, delivered,
                       eos>>
    BY <1>6 DEF SetCancelled
  <2>2. ~cancelled
    BY <2>1 DEF RInv, Flags
  <2>3. QED
    BY <2>1, <2>2 DEF Stream!Next, Stream!Cancel
<1>7. CASE GetNextCheck \/ GetNextWait \/ GetNextWake
  <2>1. /\ cpc \in InGetNext /\ cpc' \in InGetNext
        /\ UNCHANGED <<sent, senderState, cancelled, numRowsRequested,
                       delivered, eos>>
    BY <1>7 DEF GetNextCheck, GetNextWait, GetNextWake
  <2>2. QED
    BY <2>1 DEF Stream!vars
<1>8. CASE \/ SendLimitExceeded \/ SendLoop \/ SendCheck \/ SendWait
           \/ SendWake \/ SendCancelled \/ SendAddRows \/ SendAddRowsFails
           \/ Cancel \/ SpuriousWakeup \/ UNCHANGED vars
  <2>1. Stutter
    BY <1>8 DEF SendLimitExceeded, SendLoop, SendCheck, SendWait, SendWake,
                SendCancelled, SendAddRows, SendAddRowsFails, Cancel,
                SpuriousWakeup, vars
  <2>2. QED
    BY <2>1, <1>0
<1>9. QED
  BY <1>1, <1>2, <1>3, <1>4, <1>5, <1>6, <1>7, <1>8
  DEF Next, ProducerStep, GetNextStep

(* The sink implements RowStream under the mapping produced <- sent,       *)
(* inGetNext <- (the client is inside GetNext): every behaviour of the     *)
(* lock_/condition-variable implementation of Send, FlushFinal, Close,     *)
(* Cancel and GetNext is one the client-visible stream allows.             *)
THEOREM SinkImplementsRowStream == Spec => ImplementsRowStream
<1>1. Init => Stream!Init
  BY InitRefines
<1>2. [][Next]_vars /\ []RInv => [][Stream!Next]_Stream!vars
  <2>1. RInv /\ RInv' /\ [Next]_vars => [Stream!Next]_Stream!vars
    BY StepRefines
  <2>2. QED
    BY <2>1, PTL
<1>3. QED
  BY <1>1, <1>2, SpecRInv, PTL DEF Spec, ImplementsRowStream, Stream!Spec

=============================================================================
