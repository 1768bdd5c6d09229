CONSTANTS
    MaxBatches <- MCMaxBatches
    MaxBatchRows <- MCMaxBatchRows
    MaxFetches <- MCMaxFetches
    FetchSizes <- MCFetchSizes

SPECIFICATION FairSpec

PROPERTY GetNextReturns

\* The client may stop fetching and the fragment ends: runs do stop.
CHECK_DEADLOCK FALSE
