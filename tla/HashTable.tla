------------------------------ MODULE HashTable ------------------------------
(***************************************************************************)
(* The open-addressing hash table of a hash join build side, Impala 4.1    *)
(* (be/src/exec/hash-table.inline.h).                                      *)
(*                                                                         *)
(* Rows are numbered 1..MaxRows in insertion order and carry a join key;   *)
(* the hash of a key is the constant Hash[k].  A bucket holds the rows     *)
(* whose key it was probed for: one row in the bucket itself, or, once it  *)
(* has duplicates, a list of DuplicateNodes with the newest first.  The    *)
(* table is used in three phases, as a join uses it: rows are inserted,   *)
(* probe rows mark the rows they match, and the build rows are output,     *)
(* all of them (Begin/Next) or the unmatched ones                          *)
(* (FirstUnmatched/NextUnmatched).  A table is used by one thread.         *)
(***************************************************************************)
EXTENDS Integers, Sequences, FiniteSetsExt

CONSTANTS
    NumBuckets,     \* num_buckets_, a power of two
    Keys,           \* join key values
    Hash,           \* Hash[k]: the 32-bit hash of the expression values
    MaxRows,        \* rows offered to the build
    NodesPerPage    \* DuplicateNodes in the page GrowNodeArray starts

ASSUME HashTableAssumption ==
    /\ NumBuckets \in {2^i : i \in 0..30}
    /\ Hash \in [Keys -> Nat]     \* a uint32_t; small values suffice
    /\ MaxRows \in Nat
    /\ NodesPerPage \in Nat \ {0, 1}

Buckets == 0..(NumBuckets - 1)
Rows == 1..MaxRows

\* The key of a row not offered yet.
NoKey == "none"

\* Iterator::BUCKET_NOT_FOUND.
BUCKET_NOT_FOUND == -1

VARIABLES
    quadratic,          \* quadratic_probing(), fixed at construction
    filled,             \* Bucket::filled
    hashArray,          \* hash_array_
    entries,            \* rows of each bucket, the DuplicateNode list head first
    rowKey,             \* key of each row offered so far
    nextRow,            \* next row to offer to Insert
    numFilledBuckets,   \* num_filled_buckets_
    numDuplicateNodes,  \* num_duplicate_nodes_
    nodeRemaining,      \* node_remaining_current_page_
    matched,            \* rows whose bucket or node IsMatched()
    phase,              \* "build", "probe", "output" or "done"
    mode,               \* output by "all" rows or "unmatched" rows
    itBucket,           \* Iterator::bucket_idx_
    itNode,             \* position of Iterator::node_ in the bucket's rows
    out,                \* rows returned by the output iterator
    oobRead             \* buckets_[BUCKET_NOT_FOUND] has been read

vars == <<quadratic, filled, hashArray, entries, rowKey, nextRow,
          numFilledBuckets, numDuplicateNodes, nodeRemaining, matched, phase,
          mode, itBucket, itNode, out, oobRead>>

-----------------------------------------------------------------------------
(* HashTable::Probe.  The bucket visited at step s: hash & (num_buckets-1) *)
(* first, then bucket_idx + step (quadratic) or bucket_idx + 1 (linear),   *)
(* masked.  With num_buckets a power of two the mask is a remainder.       *)
\* Mutant: the quadratic jump is one too long.
ProbeSequenceLongJump(n, quad, h) ==
    LET idx[s \in 0..n] ==
            IF s = 0 THEN h % n
            ELSE IF quad THEN (idx[s - 1] + s + 1) % n
            ELSE (idx[s - 1] + 1) % n
    IN  idx

ProbeSequence(n, quad, h) ==
    LET idx[s \in 0..n] ==
            IF s = 0 THEN h % n
            ELSE IF quad THEN (idx[s - 1] + s) % n
            ELSE (idx[s - 1] + 1) % n
    IN  idx

ProbeIdx(h) == ProbeSequence(NumBuckets, quadratic, h)

\* The key of the rows a filled bucket holds (GetRow and Equals).
BucketKey(b) == rowKey[entries[b][1]]

\* Mutant: the probe does not compare rows and stops only at an empty bucket.
ProbeNoCompare(h, k) ==
    LET stops == {s \in 0..(NumBuckets - 1) : ~filled[ProbeIdx(h)[s]]}
    IN  IF stops = {} THEN [idx |-> BUCKET_NOT_FOUND, found |-> FALSE]
        ELSE [idx |-> ProbeIdx(h)[Min(stops)], found |-> FALSE]

(* The loop stops at an empty bucket, or at a bucket with the same hash    *)
(* whose row equals the key; after num_buckets steps the table was full.   *)
Probe(h, k) ==
    LET stops == {s \in 0..(NumBuckets - 1) :
                    LET b == ProbeIdx(h)[s]
                    IN  ~filled[b] \/ (hashArray[b] = h /\ BucketKey(b) = k)}
    IN  IF stops = {} THEN [idx |-> BUCKET_NOT_FOUND, found |-> FALSE]
        ELSE LET b == ProbeIdx(h)[Min(stops)]
             IN  [idx |-> b, found |-> filled[b]]

\* Mutant: the first duplicate reserves one node instead of two.
NodesNeededOne(b) == 1

\* The nodes InsertDuplicateNode makes sure the current page holds: one
\* for the new row and one for the bucket's row if it has no duplicates.
NodesNeeded(b) == IF Len(entries[b]) = 1 THEN 2 ELSE 1

\* Mutant: the resize check forgets the buckets already filled.
NumInsertsBeforeResizeNoFilled == Max({0, (NumBuckets * 3) \div 4})

\* HashTable::NumInsertsBeforeResize, MAX_FILL_FACTOR = 0.75 truncated.
NumInsertsBeforeResize == Max({0, (NumBuckets * 3) \div 4 - numFilledBuckets})

-----------------------------------------------------------------------------
(***************************************************************************)
(* HashTable::Insert of the next row with key k (EvalAndHashBuild gave     *)
(* Hash[k]).  The caller checks NumInsertsBeforeResize first.  A new key   *)
(* fills the empty bucket the probe stopped at (PrepareBucketForInsert); a *)
(* key already present gets a DuplicateNode (InsertDuplicateNode), two for *)
(* the first duplicate, which turns the bucket's row into a node too.      *)
(* GrowNodeArray may fail to allocate a page: Insert returns false and     *)
(* the row is not inserted.                                                *)
(***************************************************************************)
Insert(k) ==
    LET r == nextRow
        p == Probe(Hash[k], k)
        b == p.idx
        need == NodesNeeded(b)
        \* AppendNextNode calls: one more for the bucket's own row.
        appended == IF Len(entries[b]) = 1 THEN 2 ELSE 1
    IN
    /\ phase = "build"
    /\ r \in Rows
    /\ NumInsertsBeforeResize > 0
    /\ rowKey' = [rowKey EXCEPT ![r] = k]
    /\ nextRow' = r + 1
    /\ IF ~p.found
       THEN /\ filled' = [filled EXCEPT ![b] = TRUE]
            /\ hashArray' = [hashArray EXCEPT ![b] = Hash[k]]
            /\ entries' = [entries EXCEPT ![b] = <<r>>]
            /\ numFilledBuckets' = numFilledBuckets + 1
            /\ UNCHANGED <<numDuplicateNodes, nodeRemaining>>
       ELSE \/ /\ nodeRemaining >= need
               /\ nodeRemaining' = nodeRemaining - appended
               /\ numDuplicateNodes' = numDuplicateNodes + appended
               /\ entries' = [entries EXCEPT ![b] = <<r>> \o @]
               /\ UNCHANGED <<filled, hashArray, numFilledBuckets>>
            \/ /\ nodeRemaining < need
               /\ nodeRemaining' = NodesPerPage - appended
               /\ numDuplicateNodes' = numDuplicateNodes + appended
               /\ entries' = [entries EXCEPT ![b] = <<r>> \o @]
               /\ UNCHANGED <<filled, hashArray, numFilledBuckets>>
            \/ /\ nodeRemaining < need
               /\ UNCHANGED <<filled, hashArray, entries, numFilledBuckets,
                              numDuplicateNodes, nodeRemaining>>
    /\ UNCHANGED <<quadratic, matched, phase, mode, itBucket, itNode, out,
                   oobRead>>

\* The build side is complete.
EndBuild ==
    /\ phase = "build"
    /\ phase' = "probe"
    /\ UNCHANGED <<quadratic, filled, hashArray, entries, rowKey, nextRow,
                   numFilledBuckets, numDuplicateNodes, nodeRemaining, matched,
                   mode, itBucket, itNode, out, oobRead>>

(***************************************************************************)
(* A probe row with key k: FindProbeRow, then NextDuplicate up to the j-th *)
(* row of the bucket and Iterator::SetMatched on it.                       *)
(***************************************************************************)
ProbeAndMatch(k, j) ==
    LET p == Probe(Hash[k], k)
    IN
    /\ phase = "probe"
    /\ p.found
    /\ j \in 1..Len(entries[p.idx])
    /\ matched' = matched \cup {entries[p.idx][j]}
    /\ UNCHANGED <<quadratic, filled, hashArray, entries, rowKey, nextRow,
                   numFilledBuckets, numDuplicateNodes, nodeRemaining, phase,
                   mode, itBucket, itNode, out, oobRead>>

-----------------------------------------------------------------------------
(* Iterator positions: <<bucket_idx_, node position>>.                    *)
AtEnd == <<BUCKET_NOT_FOUND, 0>>

\* HashTable::NextFilledBucket from bucket_idx + 1.
NextFilledBucket(b) ==
    LET next == {c \in Buckets : c > b /\ filled[c]}
    IN  IF next = {} THEN AtEnd ELSE <<Min(next), 1>>

IsUnmatched(b, j) == entries[b][j] \notin matched

(* The first unmatched row of the first filled bucket from b + 1 on that   *)
(* has one: the while loop of NextUnmatched over NextFilledBucket, walking *)
(* a bucket's duplicate list while the node is matched.                    *)
NextUnmatchedBucket(b) ==
    LET cand == {c \in Buckets : c > b /\ filled[c]
                                 /\ \E j \in 1..Len(entries[c]) : IsUnmatched(c, j)}
    IN  IF cand = {} THEN AtEnd
        ELSE LET c == Min(cand)
             IN  <<c, Min({j \in 1..Len(entries[c]) : IsUnmatched(c, j)})>>

(* Iterator::NextUnmatched: a later unmatched node of the current bucket,  *)
(* else the next bucket with an unmatched row.                             *)
NextUnmatched(b, j) ==
    LET rest == {i \in (j + 1)..Len(entries[b]) : IsUnmatched(b, i)}
    IN  IF Len(entries[b]) > 1 /\ rest # {} THEN <<b, Min(rest)>>
        ELSE NextUnmatchedBucket(b)

\* Iterator::Next: the next duplicate node, else the next filled bucket.
NextRow(b, j) ==
    IF Len(entries[b]) > 1 /\ j < Len(entries[b]) THEN <<b, j + 1>>
    ELSE NextFilledBucket(b)

\* Mutant: FirstUnmatched returns the first filled bucket unchecked.
StartOutputNoMatchCheck(m) ==
    LET first == NextFilledBucket(BUCKET_NOT_FOUND)
    IN
    /\ phase = "probe"
    /\ phase' = "output"
    /\ mode' = m
    /\ itBucket' = first[1]
    /\ itNode' = first[2]
    /\ oobRead' = (oobRead \/ (m = "unmatched" /\ first[1] = BUCKET_NOT_FOUND))
    /\ UNCHANGED <<quadratic, filled, hashArray, entries, rowKey, nextRow,
                   numFilledBuckets, numDuplicateNodes, nodeRemaining, matched,
                   out>>

(***************************************************************************)
(* HashTable::Begin or HashTable::FirstUnmatched.  FirstUnmatched reads    *)
(* buckets_[bucket_idx] before checking that NextFilledBucket found one:   *)
(* with no filled bucket it reads buckets_[-1].  That read is undefined;   *)
(* the bits it finds decide whether NextUnmatched is called, which in a    *)
(* release build also ends at BUCKET_NOT_FOUND.                            *)
(***************************************************************************)
StartOutput(m) ==
    LET first == NextFilledBucket(BUCKET_NOT_FOUND)
        b == first[1]
        pos == IF m = "all" \/ b = BUCKET_NOT_FOUND \/ IsUnmatched(b, 1) THEN first
               ELSE NextUnmatched(b, 1)
    IN
    /\ phase = "probe"
    /\ phase' = "output"
    /\ mode' = m
    /\ itBucket' = pos[1]
    /\ itNode' = pos[2]
    /\ oobRead' = (oobRead \/ (m = "unmatched" /\ b = BUCKET_NOT_FOUND))
    /\ UNCHANGED <<quadratic, filled, hashArray, entries, rowKey, nextRow,
                   numFilledBuckets, numDuplicateNodes, nodeRemaining, matched,
                   out>>

(* The caller takes the row the iterator is at (GetRow) and advances it    *)
(* with NextUnmatched or Next; at the end the output is complete.          *)
OutputRow ==
    LET pos == IF mode = "unmatched" THEN NextUnmatched(itBucket, itNode)
               ELSE NextRow(itBucket, itNode)
    IN
    /\ phase = "output"
    /\ itBucket # BUCKET_NOT_FOUND
    /\ out' = Append(out, entries[itBucket][itNode])
    /\ itBucket' = pos[1]
    /\ itNode' = pos[2]
    /\ UNCHANGED <<quadratic, filled, hashArray, entries, rowKey, nextRow,
                   numFilledBuckets, numDuplicateNodes, nodeRemaining, matched,
                   phase, mode, oobRead>>

OutputDone ==
    /\ phase = "output"
    /\ itBucket = BUCKET_NOT_FOUND
    /\ phase' = "done"
    /\ UNCHANGED <<quadratic, filled, hashArray, entries, rowKey, nextRow,
                   numFilledBuckets, numDuplicateNodes, nodeRemaining, matched,
                   mode, itBucket, itNode, out, oobRead>>

-----------------------------------------------------------------------------
Init ==
    /\ quadratic \in BOOLEAN
    /\ filled = [b \in Buckets |-> FALSE]
    /\ hashArray = [b \in Buckets |-> 0]
    /\ entries = [b \in Buckets |-> <<>>]
    /\ rowKey = [r \in Rows |-> NoKey]
    /\ nextRow = 1
    /\ numFilledBuckets = 0
    /\ numDuplicateNodes = 0
    /\ nodeRemaining = 0
    /\ matched = {}
    /\ phase = "build"
    /\ mode = "all"
    /\ itBucket = BUCKET_NOT_FOUND
    /\ itNode = 0
    /\ out = <<>>
    /\ oobRead = FALSE

Next ==
    \/ \E k \in Keys : Insert(k)
    \/ EndBuild
    \/ \E k \in Keys, j \in 1..MaxRows : ProbeAndMatch(k, j)
    \/ \E m \in {"all", "unmatched"} : StartOutput(m)
    \/ OutputRow
    \/ OutputDone

Spec == Init /\ [][Next]_vars

-----------------------------------------------------------------------------
(* Every variable has its type; in particular the duplicate-node page is   *)
(* never overdrawn (AppendNextNode's DCHECK_GT(node_remaining_, 0)).       *)
TypeOK ==
    /\ quadratic \in BOOLEAN
    /\ filled \in [Buckets -> BOOLEAN]
    /\ hashArray \in [Buckets -> Nat]
    /\ entries \in [Buckets -> Seq(Rows)]
    /\ rowKey \in [Rows -> Keys \cup {NoKey}]
    /\ nextRow \in 1..(MaxRows + 1)
    /\ numFilledBuckets \in 0..NumBuckets
    /\ numDuplicateNodes \in Nat
    /\ nodeRemaining \in Nat
    /\ matched \subseteq Rows
    /\ phase \in {"build", "probe", "output", "done"}
    /\ mode \in {"all", "unmatched"}
    /\ itBucket \in Buckets \cup {BUCKET_NOT_FOUND}
    /\ itNode \in Nat
    /\ out \in Seq(Rows)
    /\ oobRead \in BOOLEAN

(* The spec: a row whose Insert succeeded is found by FindProbeRow with    *)
(* the same key, in the bucket whose duplicate list holds it, whatever     *)
(* collisions, probing policy and duplicate chains the inserts made.       *)
FindAfterInsert ==
    \A b \in Buckets : \A i \in 1..Len(entries[b]) :
        LET r == entries[b][i]
            p == Probe(Hash[rowKey[r]], rowKey[r])
        IN  p.found /\ p.idx = b

(* No row is lost: the first row offered for a key is stored in some      *)
(* bucket.  Only a duplicate can be dropped, when GrowNodeArray fails.     *)
(* The caller's NumInsertsBeforeResize check keeps a free bucket, so the   *)
(* probe of InsertInternal never ends at BUCKET_NOT_FOUND (the DCHECK_NE   *)
(* of line 107, which a release build does not check).                   *)
NoRowLost ==
    \A r \in 1..(nextRow - 1) :
        (\A r2 \in 1..(r - 1) : rowKey[r2] # rowKey[r]) =>
            \E b \in Buckets : \E i \in 1..Len(entries[b]) : entries[b][i] = r

(* The reference output: the rows of the buckets in bucket order, each     *)
(* bucket's list in order, all of them or only the unmatched ones.         *)
ReferenceOutput ==
    LET keep(r) == mode = "all" \/ r \notin matched
        upto[c \in 0..NumBuckets] ==
            IF c = 0 THEN <<>>
            ELSE upto[c - 1] \o SelectSeq(entries[c - 1], keep)
    IN  upto[NumBuckets]

(* Begin/Next and FirstUnmatched/NextUnmatched return every row (every     *)
(* unmatched row) exactly once, in table order, and nothing else: a right  *)
(* or full outer join emits each unmatched build row once.                 *)
OutputIsExact ==
    /\ phase \in {"output", "done"} =>
          /\ Len(out) <= Len(ReferenceOutput)
          /\ SubSeq(ReferenceOutput, 1, Len(out)) = out
    /\ phase = "done" => out = ReferenceOutput

(* The spec: with num_buckets a power of two, the probe of the table's     *)
(* policy visits every bucket once in num_buckets steps from any start, so *)
(* a table that is not full always has a free bucket on the probe path;    *)
(* the quadratic probe is at (start + k(k+1)/2) mod N at step k.  The      *)
(* sequence depends only on N and the policy chosen at construction: it is *)
(* checked for the table as constructed, before its first insert.          *)
ProbeVisitsAll ==
    numFilledBuckets = 0 =>
    \A n \in {2^i : i \in 0..5} : \A h \in 0..(n - 1) :
        LET seq == ProbeSequence(n, quadratic, h)
        IN  /\ {seq[s] : s \in 0..(n - 1)} = 0..(n - 1)
            /\ quadratic =>
                  \A s \in 0..(n - 1) : seq[s] = (h + (s * (s + 1)) \div 2) % n

(* FirstUnmatched never reads outside buckets_.                            *)
NoOutOfBoundsRead == ~oobRead

=============================================================================
