------------------------------ MODULE RowStream ------------------------------
(***************************************************************************)
(* What a plan root sink promises the client that fetches a query's        *)
(* results, whatever the locking inside it: the fragment produces rows     *)
(* 1, 2, ... (Send), then either finishes (FlushFinal) or is closed early  *)
(* (Close); the query may be cancelled; the client calls GetNext with a    *)
(* row limit and, when the call returns, has received the next rows of the *)
(* stream.  BlockingPlanRootSink implements it (see the refinement there). *)
(***************************************************************************)
EXTENDS Naturals, Sequences

VARIABLES
    produced,          \* rows the fragment has handed to Send
    senderState,       \* ROWS_PENDING, EOS or CLOSED_NOT_EOS
    cancelled,         \* the query is cancelled
    inGetNext,         \* a GetNext call is in progress
    numRowsRequested,  \* num_results of the latest GetNext; 0 is no limit
    delivered,         \* rows returned to the client, in order
    eos                \* *eos as returned by the latest GetNext

vars == <<produced, senderState, cancelled, inGetNext, numRowsRequested,
          delivered, eos>>

ROWS_PENDING == "ROWS_PENDING"
EOS == "EOS"
CLOSED_NOT_EOS == "CLOSED_NOT_EOS"

\* The k rows of the stream that follow row `from`.
NextRows(from, k) == [i \in 1..k |-> from + i]

Init ==
    /\ produced = 0
    /\ senderState = ROWS_PENDING
    /\ cancelled = FALSE
    /\ inGetNext = FALSE
    /\ numRowsRequested = 0
    /\ delivered = <<>>
    /\ eos = FALSE

\* Send is given a batch with at least one row.
Send ==
    /\ senderState = ROWS_PENDING
    /\ produced' \in Nat
    /\ produced' > produced
    /\ UNCHANGED <<senderState, cancelled, inGetNext, numRowsRequested,
                   delivered, eos>>

\* Every row was sent.
FlushFinal ==
    /\ senderState = ROWS_PENDING
    /\ senderState' = EOS
    /\ UNCHANGED <<produced, cancelled, inGetNext, numRowsRequested,
                   delivered, eos>>

\* The fragment is closed before FlushFinal (an error or a cancellation).
Close ==
    /\ senderState = ROWS_PENDING
    /\ senderState' = CLOSED_NOT_EOS
    /\ UNCHANGED <<produced, cancelled, inGetNext, numRowsRequested,
                   delivered, eos>>

Cancel ==
    /\ ~cancelled
    /\ cancelled' = TRUE
    /\ UNCHANGED <<produced, senderState, inGetNext, numRowsRequested,
                   delivered, eos>>

\* The client calls GetNext(results, num_results, eos).
CallGetNext ==
    /\ ~inGetNext
    /\ inGetNext' = TRUE
    /\ numRowsRequested' \in Nat
    /\ UNCHANGED <<produced, senderState, cancelled, delivered, eos>>

(* GetNext returns the next k rows of the stream: at most num_results of   *)
(* them when that is positive, and none only once the stream has stopped   *)
(* or the query is cancelled.  eos is reported exactly when FlushFinal has *)
(* run, and then every produced row has been returned.                     *)
ReturnGetNext ==
    /\ inGetNext
    /\ inGetNext' = FALSE
    /\ \E k \in 0..(produced - Len(delivered)) :
          /\ numRowsRequested > 0 => k <= numRowsRequested
          /\ k = 0 => (senderState # ROWS_PENDING \/ cancelled)
          /\ delivered' = delivered \o NextRows(Len(delivered), k)
    /\ eos' = (senderState = EOS)
    /\ eos' => Len(delivered') = produced
    /\ UNCHANGED <<produced, senderState, cancelled, numRowsRequested>>

Next ==
    \/ Send \/ FlushFinal \/ Close \/ Cancel
    \/ CallGetNext \/ ReturnGetNext

Spec == Init /\ [][Next]_vars

=============================================================================
