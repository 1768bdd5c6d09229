CONSTANTS
    MaxBatches <- MCMaxBatches
    MaxBatchRows <- MCMaxBatchRows
    MaxFetches <- MCMaxFetches
    FetchSizes <- MCFetchSizes

SPECIFICATION Spec

INVARIANTS
    TypeOK
    ProducerWritesOnlyAwaitedResultSet
    NoEmptyFetchMidStream
    RowsInOrderExactlyOnce
    EosOnlyAfterAllRows
    NoMutualWait

PROPERTIES
    ImplementsRowStream

\* The client may stop fetching and the fragment ends: runs do stop.
CHECK_DEADLOCK FALSE
