----------------------- MODULE MC_BlockingPlanRootSink -----------------------
(* Small instance of BlockingPlanRootSink for TLC.                         *)
EXTENDS BlockingPlanRootSink

\* Two batches of 0..3 rows cover a 0-row batch, a batch split over two
\* fetches, and a batch drained in one fetch.
MCMaxBatches == 2
MCMaxBatchRows == 3
\* Three fetches: enough for two batches and the eos fetch.
MCMaxFetches == 3
\* An unbounded fetch, and a 2-row fetch that splits a 3-row batch and
\* exceeds the one row then left.
MCFetchSizes == {0, 2}

=============================================================================
