--------------------------- MODULE HashTableProofs ---------------------------
(***************************************************************************)
(* Proofs about the hash table of a hash join build (HashTable), for every *)
(* number of buckets, set of keys, hash function and number of rows.       *)
(***************************************************************************)
EXTENDS HashTable, WellFoundedInduction, TLAPS

-----------------------------------------------------------------------------
(* Arithmetic: remainders by a positive divisor.                           *)

LEMMA ModDef ==
    ASSUME NEW n \in Nat \ {0}, NEW w \in Int
    PROVE  w % n = w - n * (w \div n)
BY SMT

LEMMA ModRange ==
    ASSUME NEW n \in Nat \ {0}, NEW w \in Int
    PROVE  w % n \in 0..(n - 1) /\ w \div n \in Int
BY SMT

LEMMA ModUnique ==
    ASSUME NEW n \in Nat \ {0}, NEW a \in Int, NEW d \in 0..(n - 1), NEW c \in Int,
           a = n * c + d
    PROVE  a % n = d
BY SMT

LEMMA Regroup ==
    ASSUME NEW n \in Int, NEW a \in Int, NEW q \in Int, NEW c \in Int,
           NEW r \in Int, NEW d \in Int, NEW y \in Int,
           r = a - n * q, d = (r + y) - n * c
    PROVE  a + y = n * (q + c) + d
BY SMT

\* Adding to a remainder and taking the remainder again is adding first.
LEMMA ModShift ==
    ASSUME NEW n \in Nat \ {0}, NEW a \in Int, NEW y \in Int
    PROVE  ((a % n) + y) % n = (a + y) % n
<1> DEFINE r == a % n
           q == a \div n
<1>1. r \in 0..(n - 1)
  BY ModRange
<1>2. q \in Int
  BY ModRange
<1>3. r = a - n * q
  BY ModDef
<1> DEFINE z == r + y
<1>4. z \in Int
  BY <1>1
<1> HIDE DEF r, q, z
<1> DEFINE d == z % n
           c == z \div n
<1>5. d \in 0..(n - 1)
  BY <1>4, ModRange
<1>6. c \in Int
  BY <1>4, ModRange
<1>7. d = z - n * c
  BY <1>4, ModDef
<1> HIDE DEF d, c
<1>8. a + y = n * (q + c) + d
  BY <1>1, <1>2, <1>3, <1>5, <1>6, <1>7, Regroup DEF z
<1> DEFINE w == a + y
           cc == q + c
<1>9. w \in Int /\ cc \in Int /\ w = n * cc + d
  BY <1>2, <1>6, <1>8
<1> HIDE DEF w, cc
<1>10. w % n = d
  BY <1>5, <1>9, ModUnique
<1>11. QED
  BY <1>10 DEF w, d, z, r

\* The triangular numbers: T(s) = T(s - 1) + s.
LEMMA TriStep ==
    ASSUME NEW s \in Nat \ {0}
    PROVE  (s * (s + 1)) \div 2 = ((s - 1) * s) \div 2 + s
BY SMT

\* A non-empty set of naturals has a least element.
LEMMA LeastNat ==
    ASSUME NEW T \in SUBSET Nat, T # {}
    PROVE  \E x \in T : \A y \in T : ~(y < x)
<1>1. \E x \in T : \A y \in T : ~(<<y, x>> \in OpToRel(<, Nat))
  BY NatLessThanWellFounded, WFMin
<1>2. QED
  BY <1>1 DEF OpToRel

-----------------------------------------------------------------------------
(* The probe sequence.  Its recursive definition has a solution, the       *)
(* closed form (h + s(s+1)/2) mod n or (h + s) mod n, and every solution    *)
(* stays within the buckets: each step is a remainder by n.                 *)

\* The step function of the recursive definition in ProbeSequence.
ProbeStep(n, q, h, g) ==
    [s \in 0..n |-> IF s = 0 THEN h % n
                    ELSE IF q THEN (g[s - 1] + s) % n
                    ELSE (g[s - 1] + 1) % n]

\* The closed form of the probe sequence.
ProbeClosed(n, q, h) ==
    [s \in 0..n |-> IF q THEN (h + (s * (s + 1)) \div 2) % n ELSE (h + s) % n]

LEMMA ProbeSequenceIsFixpoint ==
    ASSUME NEW n, NEW q, NEW h
    PROVE  ProbeSequence(n, q, h) = CHOOSE g : g = ProbeStep(n, q, h, g)
BY DEF ProbeSequence, ProbeStep

LEMMA ProbeClosedSolves ==
    ASSUME NEW n \in Nat \ {0}, NEW q \in BOOLEAN, NEW h \in Nat
    PROVE  ProbeClosed(n, q, h) = ProbeStep(n, q, h, ProbeClosed(n, q, h))
<1> DEFINE w == ProbeClosed(n, q, h)
<1>1. ASSUME NEW s \in 0..n
      PROVE  w[s] = ProbeStep(n, q, h, w)[s]
  <2>1. CASE s = 0
    <3>1. (0 * (0 + 1)) \div 2 = 0
      BY SMT
    <3>2. QED
      BY <2>1, <3>1 DEF ProbeClosed, ProbeStep
  <2>2. CASE s # 0 /\ q
    <3> DEFINE t == (h + ((s - 1) * s) \div 2)
    <3>1. t \in Int /\ w[s - 1] = t % n
      BY <2>2, SMT DEF ProbeClosed
    <3> HIDE DEF t
    <3>2. ((t % n) + s) % n = (t + s) % n
      <4>1. s \in Int
        OBVIOUS
      <4>2. QED
        BY <3>1, <4>1, ModShift, Zenon
    <3>3. t + s = h + (s * (s + 1)) \div 2
      BY <2>2, TriStep DEF t
    <3>4. QED
      BY <2>2, <3>1, <3>2, <3>3 DEF ProbeClosed, ProbeStep
  <2>3. CASE s # 0 /\ ~q
    <3> DEFINE t == h + (s - 1)
    <3>1. t \in Int /\ w[s - 1] = t % n
      BY <2>3 DEF ProbeClosed
    <3> HIDE DEF t
    <3>2. ((t % n) + 1) % n = (t + 1) % n
      <4>1. 1 \in Int
        OBVIOUS
      <4>2. QED
        BY <3>1, <4>1, ModShift, Zenon
    <3>3. QED
      BY <2>3, <3>1, <3>2 DEF ProbeClosed, ProbeStep, t
  <2>4. QED
    BY <2>1, <2>2, <2>3
<1>2. QED
  BY <1>1 DEF ProbeClosed, ProbeStep

(* Every bucket the probe visits is one of the n buckets.                  *)
LEMMA ProbeSequenceRange ==
    ASSUME NEW n \in Nat \ {0}, NEW q \in BOOLEAN, NEW h \in Nat
    PROVE  ProbeSequence(n, q, h) \in [0..n -> 0..(n - 1)]
<1> DEFINE g == ProbeSequence(n, q, h)
<1>1. g = ProbeStep(n, q, h, g)
  <2>1. \E f : f = ProbeStep(n, q, h, f)
    BY ProbeClosedSolves
  <2>2. QED
    BY <2>1, ProbeSequenceIsFixpoint
<1>2. DOMAIN g = 0..n
  BY <1>1 DEF ProbeStep
<1>3. ASSUME NEW s \in 0..n PROVE g[s] \in 0..(n - 1)
  <2> DEFINE T == {i \in 0..n : g[i] \notin 0..(n - 1)}
  <2> SUFFICES ASSUME T # {} PROVE FALSE
    OBVIOUS
  <2>0. T \in SUBSET Nat
    OBVIOUS
  <2> HIDE DEF T
  <2>1. PICK x \in T : \A y \in T : ~(y < x)
    BY <2>0, LeastNat
  <2> USE DEF T
  <2>2. CASE x = 0
    <3>1. g[0] = h % n
      BY <1>1 DEF ProbeStep
    <3>2. h % n \in 0..(n - 1)
      BY ModRange
    <3>3. QED
      BY <2>1, <2>2, <3>1, <3>2
  <2>3. CASE x # 0
    <3>1. g[x - 1] \in 0..(n - 1)
      BY <2>1, <2>3
    <3>2. g[x] = IF q THEN (g[x - 1] + x) % n ELSE (g[x - 1] + 1) % n
      BY <1>1, <2>3 DEF ProbeStep
    <3> DEFINE u == g[x - 1]
    <3> HIDE DEF u
    <3>3. (u + x) % n \in 0..(n - 1) /\ (u + 1) % n \in 0..(n - 1)
      <4>1. u + x \in Int /\ u + 1 \in Int
        BY <3>1 DEF u
      <4>2. QED
        BY <4>1, ModRange
    <3>4. QED
      BY <2>1, <3>2, <3>3 DEF u
  <2>4. QED
    BY <2>2, <2>3
<1>4. QED
  BY <1>1, <1>2, <1>3 DEF ProbeStep

(* The probe sequence is its closed form: the recursive definition has     *)
(* one solution, since two solutions agree at 0 and each step is a         *)
(* function of the step before.                                            *)
THEOREM ProbeSequenceClosed ==
    ASSUME NEW n \in Nat \ {0}, NEW q \in BOOLEAN, NEW h \in Nat
    PROVE  ProbeSequence(n, q, h) = ProbeClosed(n, q, h)
<1> DEFINE g == ProbeSequence(n, q, h)
           w == ProbeClosed(n, q, h)
<1>1. g = ProbeStep(n, q, h, g)
  <2>1. \E f : f = ProbeStep(n, q, h, f)
    BY ProbeClosedSolves
  <2>2. QED
    BY <2>1, ProbeSequenceIsFixpoint
<1>2. w = ProbeStep(n, q, h, w)
  BY ProbeClosedSolves
<1>3. ASSUME NEW s \in 0..n PROVE g[s] = w[s]
  <2> DEFINE T == {i \in 0..n : g[i] # w[i]}
  <2> SUFFICES ASSUME T # {} PROVE FALSE
    OBVIOUS
  <2>0. T \in SUBSET Nat
    OBVIOUS
  <2> HIDE DEF T
  <2>1. PICK x \in T : \A y \in T : ~(y < x)
    BY <2>0, LeastNat
  <2> USE DEF T
  <2>2. CASE x = 0
    BY <1>1, <1>2, <2>1, <2>2 DEF ProbeStep
  <2>3. CASE x # 0
    <3>1. g[x - 1] = w[x - 1]
      BY <2>1, <2>3
    <3>2. g[x] = IF q THEN (g[x - 1] + x) % n ELSE (g[x - 1] + 1) % n
      BY <1>1, <2>3 DEF ProbeStep
    <3>3. w[x] = IF q THEN (w[x - 1] + x) % n ELSE (w[x - 1] + 1) % n
      BY <1>2, <2>3 DEF ProbeStep
    <3>4. QED
      BY <2>1, <3>1, <3>2, <3>3
  <2>4. QED
    BY <2>2, <2>3
<1>4. QED
  BY <1>1, <1>2, <1>3 DEF ProbeStep

(* With linear probing the first n steps visit every bucket, for every n   *)
(* and start: bucket t is reached at step (t - h) mod n.                    *)
THEOREM LinearProbeVisitsAll ==
    ASSUME NEW n \in Nat \ {0}, NEW h \in Nat
    PROVE  {ProbeSequence(n, FALSE, h)[s] : s \in 0..(n - 1)} = 0..(n - 1)
<1> DEFINE g == ProbeSequence(n, FALSE, h)
<1>0. FALSE \in BOOLEAN
  OBVIOUS
<1>1. g = ProbeClosed(n, FALSE, h)
  BY <1>0, ProbeSequenceClosed
<1>2. g \in [0..n -> 0..(n - 1)]
  BY <1>0, ProbeSequenceRange
<1> HIDE DEF g
<1>3. \A s \in 0..(n - 1) : g[s] = (h + s) % n
  BY <1>1 DEF ProbeClosed
<1>4. ASSUME NEW t \in 0..(n - 1) PROVE \E s \in 0..(n - 1) : g[s] = t
  <2> DEFINE a == t - h
  <2>1. a \in Int
    OBVIOUS
  <2> HIDE DEF a
  <2> DEFINE s == a % n
  <2>2. s \in 0..(n - 1)
    BY <2>1, ModRange
  <2>3. (h + (a % n)) % n = (a + h) % n
    <3>1. h \in Int
      OBVIOUS
    <3>2. ((a % n) + h) % n = (a + h) % n
      BY <2>1, <3>1, ModShift, Zenon
    <3>3. a % n \in Int
      BY <2>1, ModRange
    <3>4. h + (a % n) = (a % n) + h
      BY <3>1, <3>3
    <3>5. QED
      BY <3>2, <3>4, Zenon
  <2>4. (a + h) % n = t
    BY DEF a
  <2> HIDE DEF s
  <2>5. g[s] = (h + s) % n
    BY <1>3, <2>2
  <2>6. g[s] = t
    BY <2>3, <2>4, <2>5 DEF s
  <2>7. QED
    BY <2>2, <2>6
<1>5. \A s \in 0..(n - 1) : g[s] \in 0..(n - 1)
  <2>1. \A s \in 0..(n - 1) : s \in 0..n
    OBVIOUS
  <2>2. QED
    BY <1>2, <2>1
<1>6. {g[s] : s \in 0..(n - 1)} = 0..(n - 1)
  <2>1. {g[s] : s \in 0..(n - 1)} \subseteq 0..(n - 1)
    BY <1>5
  <2>2. 0..(n - 1) \subseteq {g[s] : s \in 0..(n - 1)}
    BY <1>4
  <2>3. QED
    BY <2>1, <2>2
<1>7. QED
  BY <1>6 DEF g

-----------------------------------------------------------------------------
(* FindAfterInsert.  Inserts only fill empty buckets and never empty one,  *)
(* so the buckets a probe for a stored key passes before reaching the      *)
(* key's bucket stay filled with other keys.                               *)

LEMMA NumBucketsPos == NumBuckets \in Nat \ {0}
<1>1. \A i \in 0..30 : i \in {0, 1, 2, 3, 4, 5, 6, 7, 8, 9, 10, 11, 12, 13, 14, 15, 16, 17, 18, 19, 20, 21, 22, 23, 24, 25, 26, 27, 28, 29, 30}
  BY SMT
<1>2. 2^0 \in Nat \ {0} /\ 2^1 \in Nat \ {0} /\ 2^2 \in Nat \ {0} /\ 2^3 \in Nat \ {0} /\ 2^4 \in Nat \ {0} /\ 2^5 \in Nat \ {0} /\ 2^6 \in Nat \ {0} /\ 2^7 \in Nat \ {0} /\ 2^8 \in Nat \ {0} /\ 2^9 \in Nat \ {0} /\ 2^10 \in Nat \ {0} /\ 2^11 \in Nat \ {0} /\ 2^12 \in Nat \ {0} /\ 2^13 \in Nat \ {0} /\ 2^14 \in Nat \ {0} /\ 2^15 \in Nat \ {0} /\ 2^16 \in Nat \ {0} /\ 2^17 \in Nat \ {0} /\ 2^18 \in Nat \ {0} /\ 2^19 \in Nat \ {0} /\ 2^20 \in Nat \ {0} /\ 2^21 \in Nat \ {0} /\ 2^22 \in Nat \ {0} /\ 2^23 \in Nat \ {0} /\ 2^24 \in Nat \ {0} /\ 2^25 \in Nat \ {0} /\ 2^26 \in Nat \ {0} /\ 2^27 \in Nat \ {0} /\ 2^28 \in Nat \ {0} /\ 2^29 \in Nat \ {0} /\ 2^30 \in Nat \ {0}
  BY SMT
<1>3. \A i \in 0..30 : 2^i \in Nat \ {0}
  BY <1>1, <1>2, Zenon
<1>4. PICK i \in 0..30 : NumBuckets = 2^i
  BY HashTableAssumption, Zenon
<1>5. QED
  BY <1>3, <1>4, Zenon

\* The constants other than the number of buckets.
LEMMA ConstantTypes == MaxRows \in Nat /\ Hash \in [Keys -> Nat]
BY HashTableAssumption, Zenon

\* The types the build phase needs.
BuildTypeOK ==
    /\ quadratic \in BOOLEAN
    /\ filled \in [Buckets -> BOOLEAN]
    /\ hashArray \in [Buckets -> Nat]
    /\ entries \in [Buckets -> Seq(Rows)]
    /\ rowKey \in [Rows -> Keys \cup {NoKey}]
    /\ nextRow \in Nat

\* Bucket x makes a probe for key k with hash h go on.
Passes(x, h, k) == filled[x] /\ ~(hashArray[x] = h /\ BucketKey(x) = k)

\* The rows of bucket c are inserted rows with the bucket's key.
BucketRowsOK(c) ==
    \A i \in 1..Len(entries[c]) :
        entries[c][i] < nextRow /\ rowKey[entries[c][i]] = BucketKey(c)

(* Bucket c stores its key's hash and lies on that key's probe path after  *)
(* buckets that all make the probe go on.                                  *)
OnProbePath(c) ==
    LET k == BucketKey(c)
        h == Hash[k]
    IN  /\ hashArray[c] = h
        /\ \E s0 \in 0..(NumBuckets - 1) :
              /\ ProbeIdx(h)[s0] = c
              /\ \A s \in 0..(s0 - 1) : Passes(ProbeIdx(h)[s], h, k)

(* The inductive invariant behind FindAfterInsert: a bucket is filled iff  *)
(* it holds rows, its rows are inserted rows with its key, and a filled    *)
(* bucket lies on its key's probe path.                                    *)
FIInv ==
    /\ BuildTypeOK
    /\ \A r \in Rows : r < nextRow => rowKey[r] \in Keys
    /\ \A c \in Buckets :
          /\ filled[c] <=> entries[c] # <<>>
          /\ BucketRowsOK(c)
          /\ filled[c] => OnProbePath(c)

\* Every bucket the probe of the table visits is a bucket.
LEMMA ProbeIdxType ==
    ASSUME quadratic \in BOOLEAN, NEW h \in Nat
    PROVE  ProbeIdx(h) \in [0..NumBuckets -> Buckets]
BY NumBucketsPos, ProbeSequenceRange DEF ProbeIdx, Buckets

\* The least element of a set of integers, when it has one, is its Min.
LEMMA MinIs ==
    ASSUME NEW S \in SUBSET Int, NEW x \in S, \A y \in S : x <= y
    PROVE  Min(S) = x
<1>1. \A z \in S : (\A y \in S : z <= y) => z = x
  BY SMT
<1>2. Min(S) \in S /\ \A y \in S : Min(S) <= y
  BY Zenon DEF Min
<1>3. QED
  BY <1>1, <1>2, Zenon

\* The key of a filled bucket is a key.
LEMMA BucketKeyType ==
    ASSUME FIInv, NEW c \in Buckets, filled[c]
    PROVE  BucketKey(c) \in Keys
<1>1. entries[c] \in Seq(Rows) /\ entries[c] # <<>>
  BY DEF FIInv, BuildTypeOK
<1>2. 1 \in 1..Len(entries[c]) /\ entries[c][1] \in Rows
  BY <1>1
<1>3. entries[c][1] < nextRow
  BY <1>2 DEF FIInv, BucketRowsOK
<1>4. QED
  BY <1>2, <1>3 DEF FIInv, BucketKey

(* The probe for the key of a filled bucket stops at that bucket: the      *)
(* buckets before it on the path make the probe go on.                     *)
LEMMA ProbeFindsBucket ==
    ASSUME FIInv, NEW c \in Buckets, filled[c]
    PROVE  Probe(Hash[BucketKey(c)], BucketKey(c)) = [idx |-> c, found |-> TRUE]
<1> DEFINE k == BucketKey(c)
           h == Hash[k]
           P == ProbeIdx(h)
           stops == {s \in 0..(NumBuckets - 1) :
                       ~filled[P[s]] \/ (hashArray[P[s]] = h /\ BucketKey(P[s]) = k)}
<1>1. k \in Keys /\ h \in Nat
  BY BucketKeyType, HashTableAssumption
<1>2. P \in [0..NumBuckets -> Buckets]
  BY <1>1, ProbeIdxType DEF FIInv, BuildTypeOK
<1>3. PICK s0 \in 0..(NumBuckets - 1) :
          /\ P[s0] = c
          /\ \A s \in 0..(s0 - 1) : Passes(P[s], h, k)
  BY DEF FIInv, OnProbePath
<1>4. hashArray[c] = h
  BY DEF FIInv, OnProbePath
<1>5. s0 \in stops
  BY <1>3, <1>4
<1>6. \A y \in stops : s0 <= y
  BY <1>3, NumBucketsPos DEF Passes
<1>7. Min(stops) = s0
  BY <1>5, <1>6, MinIs
<1>8. Probe(h, k) = [idx |-> P[Min(stops)], found |-> filled[P[Min(stops)]]]
  BY <1>5 DEF Probe
<1>9. QED
  BY <1>3, <1>7, <1>8

\* FIInv implies the property.
LEMMA FIInvFindAfterInsert ==
    ASSUME FIInv
    PROVE  FindAfterInsert
<1> SUFFICES ASSUME NEW b \in Buckets, NEW i \in 1..Len(entries[b])
             PROVE  LET r == entries[b][i]
                        p == Probe(Hash[rowKey[r]], rowKey[r])
                    IN  p.found /\ p.idx = b
  BY DEF FindAfterInsert
<1>1. filled[b]
  BY DEF FIInv
<1>2. rowKey[entries[b][i]] = BucketKey(b)
  BY DEF FIInv, BucketRowsOK
<1>3. Probe(Hash[BucketKey(b)], BucketKey(b)) = [idx |-> b, found |-> TRUE]
  BY <1>1, ProbeFindsBucket
<1>4. QED
  BY <1>2, <1>3

LEMMA InitFIInv ==
    ASSUME Init
    PROVE  FIInv
BY DEF Init, FIInv, BuildTypeOK, BucketRowsOK, Rows

(* A filled bucket stays on its key's probe path through a step that keeps *)
(* the policy and keeps every filled bucket filled, with its hash and key. *)
LEMMA PathKept ==
    ASSUME FIInv, quadratic' = quadratic,
           \A x \in Buckets :
              filled[x] => /\ filled'[x]
                           /\ hashArray'[x] = hashArray[x]
                           /\ BucketKey(x)' = BucketKey(x),
           NEW c \in Buckets, filled[c]
    PROVE  OnProbePath(c)'
<1> DEFINE k == BucketKey(c)
           h == Hash[k]
           P == ProbeIdx(h)
<1>1. k \in Keys /\ h \in Nat
  BY BucketKeyType, HashTableAssumption
<1>2. P \in [0..NumBuckets -> Buckets]
  BY <1>1, ProbeIdxType DEF FIInv, BuildTypeOK
<1>3. ProbeIdx(h)' = P
  BY DEF ProbeIdx
<1>4. PICK s0 \in 0..(NumBuckets - 1) :
          /\ P[s0] = c
          /\ \A s \in 0..(s0 - 1) : Passes(P[s], h, k)
  BY DEF FIInv, OnProbePath
<1>5. BucketKey(c)' = k /\ hashArray'[c] = h
  BY DEF FIInv, OnProbePath
<1>6. \A s \in 0..(s0 - 1) : Passes(P[s], h, k)'
  <2> SUFFICES ASSUME NEW s \in 0..(s0 - 1) PROVE Passes(P[s], h, k)'
    OBVIOUS
  <2>1. P[s] \in Buckets /\ filled[P[s]]
    BY <1>2, <1>4, NumBucketsPos DEF Passes
  <2>2. QED
    BY <1>3, <1>4, <1>5, <2>1 DEF Passes
<1>7. QED
  BY <1>3, <1>4, <1>5, <1>6 DEF OnProbePath

\* A step that leaves the build state alone keeps FIInv.
LEMMA BuildUnchanged ==
    ASSUME FIInv,
           UNCHANGED <<quadratic, filled, hashArray, entries, rowKey, nextRow>>
    PROVE  FIInv'
<1>1. \A x \in Buckets :
         filled[x] => /\ filled'[x]
                      /\ hashArray'[x] = hashArray[x]
                      /\ BucketKey(x)' = BucketKey(x)
  BY DEF BucketKey
<1>2. \A c \in Buckets : filled'[c] => OnProbePath(c)'
  BY <1>1, PathKept
<1>3. BuildTypeOK'
  BY DEF FIInv, BuildTypeOK
<1>4. \A c \in Buckets : BucketRowsOK(c)'
  BY DEF FIInv, BucketRowsOK, BucketKey
<1>5. QED
  BY <1>2, <1>3, <1>4 DEF FIInv

(* The row Insert offers is not yet in any bucket, so giving it its key   *)
(* changes the key of no stored row.                                       *)
LEMMA OldRowsKeep ==
    ASSUME FIInv, NEW k, rowKey' = [rowKey EXCEPT ![nextRow] = k],
           NEW c \in Buckets, NEW i \in 1..Len(entries[c])
    PROVE  /\ entries[c][i] < nextRow
           /\ rowKey'[entries[c][i]] = rowKey[entries[c][i]]
<1>1. entries[c][i] < nextRow /\ nextRow \in Nat
  BY DEF FIInv, BucketRowsOK, BuildTypeOK
<1>2. QED
  BY <1>1

\* Insert of a row whose bucket does not change: the table was full, or
\* no duplicate node could be allocated.
LEMMA RowKeyStep ==
    ASSUME FIInv, NEW k \in Keys, nextRow \in Rows,
           rowKey' = [rowKey EXCEPT ![nextRow] = k], nextRow' = nextRow + 1,
           UNCHANGED <<quadratic, filled, hashArray, entries>>
    PROVE  FIInv'
<1>1. \A x \in Buckets :
         filled[x] => /\ filled'[x]
                      /\ hashArray'[x] = hashArray[x]
                      /\ BucketKey(x)' = BucketKey(x)
  <2> SUFFICES ASSUME NEW x \in Buckets, filled[x]
               PROVE  BucketKey(x)' = BucketKey(x)
    OBVIOUS
  <2>1. 1 \in 1..Len(entries[x])
    BY DEF FIInv, BuildTypeOK
  <2>2. QED
    BY <2>1, OldRowsKeep DEF BucketKey
<1>2. \A c \in Buckets : filled'[c] => OnProbePath(c)'
  BY <1>1, PathKept
<1>3. BuildTypeOK'
  BY DEF FIInv, BuildTypeOK, Rows
<1>4. \A r \in Rows : r < nextRow' => rowKey'[r] \in Keys
  BY DEF FIInv, BuildTypeOK
<1>5. \A c \in Buckets : BucketRowsOK(c)'
  <2> SUFFICES ASSUME NEW c \in Buckets, NEW i \in 1..Len(entries[c])
               PROVE  /\ entries[c][i] < nextRow + 1
                      /\ rowKey'[entries[c][i]] = BucketKey(c)'
    BY DEF BucketRowsOK
  <2>1. filled[c]
    BY DEF FIInv
  <2>2. entries[c][i] < nextRow /\ rowKey'[entries[c][i]] = rowKey[entries[c][i]]
    BY OldRowsKeep
  <2>3. rowKey[entries[c][i]] = BucketKey(c)
    BY DEF FIInv, BucketRowsOK
  <2>4. BucketKey(c)' = BucketKey(c)
    BY <1>1, <2>1, Zenon
  <2>5. entries[c][i] \in Nat
    <3>1. entries[c] \in Seq(Rows)
      BY DEF FIInv, BuildTypeOK
    <3>2. QED
      BY <3>1, ConstantTypes DEF Rows
  <2>6. entries[c][i] < nextRow + 1
    BY <2>2, <2>5, ConstantTypes DEF Rows
  <2>7. QED
    BY <2>2, <2>3, <2>4, <2>6, Zenon
<1>6. QED
  BY <1>2, <1>3, <1>4, <1>5 DEF FIInv

\* A filled bucket whose rows an Insert leaves alone keeps its key.
LEMMA KeyKept ==
    ASSUME FIInv, NEW k, rowKey' = [rowKey EXCEPT ![nextRow] = k],
           NEW x \in Buckets, filled[x], entries'[x] = entries[x]
    PROVE  BucketKey(x)' = BucketKey(x)
<1>1. 1 \in 1..Len(entries[x])
  BY DEF FIInv, BuildTypeOK
<1>2. QED
  BY <1>1, OldRowsKeep DEF BucketKey

\* A bucket whose rows an Insert leaves alone keeps BucketRowsOK.
LEMMA RowsKept ==
    ASSUME FIInv, NEW k, nextRow \in Rows,
           rowKey' = [rowKey EXCEPT ![nextRow] = k], nextRow' = nextRow + 1,
           NEW c \in Buckets, entries'[c] = entries[c]
    PROVE  BucketRowsOK(c)'
<1> SUFFICES ASSUME NEW i \in 1..Len(entries[c])
             PROVE  /\ entries[c][i] < nextRow + 1
                    /\ rowKey'[entries[c][i]] = BucketKey(c)'
  BY DEF BucketRowsOK
<1>1. filled[c]
  BY DEF FIInv
<1>2. entries[c][i] < nextRow /\ rowKey'[entries[c][i]] = rowKey[entries[c][i]]
  BY OldRowsKeep
<1>3. rowKey[entries[c][i]] = BucketKey(c)
  BY DEF FIInv, BucketRowsOK
<1>4. BucketKey(c)' = BucketKey(c)
  BY <1>1, KeyKept
<1>5. entries[c][i] \in Nat
  <2>1. entries[c] \in Seq(Rows)
    BY DEF FIInv, BuildTypeOK
  <2>2. QED
    BY <2>1, ConstantTypes DEF Rows
<1>6. entries[c][i] < nextRow + 1
  BY <1>2, <1>5, ConstantTypes DEF Rows
<1>7. QED
  BY <1>2, <1>3, <1>4, <1>6, Zenon

(* Insert of a duplicate row: it heads the list of the bucket that holds   *)
(* its key, whose key is then unchanged.                                   *)
LEMMA PrependStep ==
    ASSUME FIInv, NEW k \in Keys, nextRow \in Rows,
           rowKey' = [rowKey EXCEPT ![nextRow] = k], nextRow' = nextRow + 1,
           UNCHANGED <<quadratic, filled, hashArray>>,
           NEW b \in Buckets, filled[b], BucketKey(b) = k,
           entries' = [entries EXCEPT ![b] = <<nextRow>> \o @]
    PROVE  FIInv'
<1>0. entries[b] \in Seq(Rows) /\ nextRow \in Nat /\ rowKey'[nextRow] = k
  BY ConstantTypes DEF FIInv, BuildTypeOK, Rows
<1>1. entries'[b] = <<nextRow>> \o entries[b]
  BY DEF FIInv, BuildTypeOK
<1>2. BucketKey(b)' = BucketKey(b)
  BY <1>0, <1>1 DEF BucketKey
<1>3. \A x \in Buckets :
         filled[x] => /\ filled'[x]
                      /\ hashArray'[x] = hashArray[x]
                      /\ BucketKey(x)' = BucketKey(x)
  <2> SUFFICES ASSUME NEW x \in Buckets, filled[x], x # b
               PROVE  BucketKey(x)' = BucketKey(x)
    BY <1>2
  <2>1. entries'[x] = entries[x]
    OBVIOUS
  <2>2. QED
    BY <2>1, KeyKept
<1>4. \A c \in Buckets : filled'[c] => OnProbePath(c)'
  BY <1>3, PathKept
<1>5. BuildTypeOK'
  BY <1>0, <1>1 DEF FIInv, BuildTypeOK, Rows
<1>6. \A r \in Rows : r < nextRow' => rowKey'[r] \in Keys
  BY DEF FIInv, BuildTypeOK
<1>7. \A c \in Buckets : filled'[c] <=> entries'[c] # <<>>
  BY <1>0, <1>1 DEF FIInv
<1>8. \A c \in Buckets : BucketRowsOK(c)'
  <2> SUFFICES ASSUME NEW c \in Buckets PROVE BucketRowsOK(c)'
    OBVIOUS
  <2>1. CASE c # b
    <3>1. entries'[c] = entries[c]
      BY <2>1 DEF FIInv, BuildTypeOK
    <3>2. QED
      BY <3>1, RowsKept
  <2>2. CASE c = b
    <3> SUFFICES ASSUME NEW i \in 1..Len(entries'[b])
                 PROVE  /\ entries'[b][i] < nextRow + 1
                        /\ rowKey'[entries'[b][i]] = k
      BY <1>2, <2>2 DEF BucketRowsOK
    <3>1. CASE i = 1
      BY <1>0, <1>1, <3>1
    <3>2. CASE i # 1
      <4>1. i - 1 \in 1..Len(entries[b]) /\ entries'[b][i] = entries[b][i - 1]
        BY <1>0, <1>1, <3>2
      <4>2. entries[b][i - 1] < nextRow
            /\ rowKey'[entries[b][i - 1]] = rowKey[entries[b][i - 1]]
        BY <4>1, OldRowsKeep
      <4>3. rowKey[entries[b][i - 1]] = k
        BY <4>1 DEF FIInv, BucketRowsOK
      <4>4. QED
        BY <1>0, <4>1, <4>2, <4>3, ConstantTypes DEF Rows
    <3>3. QED
      BY <3>1, <3>2
  <2>3. QED
    BY <2>1, <2>2
<1>9. QED
  BY <1>4, <1>5, <1>6, <1>7, <1>8 DEF FIInv

(* Insert of a new key: it fills the empty bucket at step m of its probe,  *)
(* and the buckets before it make the probe go on.  No filled bucket is    *)
(* that bucket, so no other bucket's path changes.                         *)
LEMMA NewBucketStep ==
    ASSUME FIInv, NEW k \in Keys, nextRow \in Rows,
           rowKey' = [rowKey EXCEPT ![nextRow] = k], nextRow' = nextRow + 1,
           quadratic' = quadratic,
           NEW m \in 0..(NumBuckets - 1), NEW b,
           b = ProbeIdx(Hash[k])[m], ~filled[b],
           \A s \in 0..(m - 1) : Passes(ProbeIdx(Hash[k])[s], Hash[k], k),
           filled' = [filled EXCEPT ![b] = TRUE],
           hashArray' = [hashArray EXCEPT ![b] = Hash[k]],
           entries' = [entries EXCEPT ![b] = <<nextRow>>]
    PROVE  FIInv'
<1> DEFINE h == Hash[k]
           P == ProbeIdx(h)
<1>0. /\ h \in Nat
      /\ P \in [0..NumBuckets -> Buckets]
      /\ nextRow \in Nat
      /\ rowKey'[nextRow] = k
  BY ConstantTypes, ProbeIdxType, NumBucketsPos DEF FIInv, BuildTypeOK, Rows
<1>1. b \in Buckets
  BY <1>0, NumBucketsPos
<1>2. filled'[b] /\ hashArray'[b] = h /\ entries'[b] = <<nextRow>>
  BY <1>1 DEF FIInv, BuildTypeOK
<1>3. BucketKey(b)' = k
  BY <1>0, <1>2 DEF BucketKey
<1>4. \A x \in Buckets :
         filled[x] => /\ filled'[x]
                      /\ hashArray'[x] = hashArray[x]
                      /\ BucketKey(x)' = BucketKey(x)
  <2> SUFFICES ASSUME NEW x \in Buckets, filled[x]
               PROVE  /\ filled'[x]
                      /\ hashArray'[x] = hashArray[x]
                      /\ BucketKey(x)' = BucketKey(x)
    OBVIOUS
  <2>1. x # b /\ entries'[x] = entries[x]
    BY DEF FIInv, BuildTypeOK
  <2>2. BucketKey(x)' = BucketKey(x)
    BY <2>1, KeyKept
  <2>3. QED
    BY <2>1, <2>2 DEF FIInv, BuildTypeOK
<1>5. \A c \in Buckets : filled'[c] => OnProbePath(c)'
  <2> SUFFICES ASSUME NEW c \in Buckets, filled'[c] PROVE OnProbePath(c)'
    OBVIOUS
  <2>1. CASE c # b
    <3>1. filled[c]
      BY <2>1 DEF FIInv, BuildTypeOK
    <3>2. QED
      BY <1>4, <3>1, PathKept
  <2>2. CASE c = b
    <3>1. (ProbeIdx(Hash[BucketKey(b)]))' = P
      BY <1>3 DEF ProbeIdx
    <3>2. \A s \in 0..(m - 1) : Passes(P[s], h, k)'
      <4> SUFFICES ASSUME NEW s \in 0..(m - 1) PROVE Passes(P[s], h, k)'
        OBVIOUS
      <4>1. P[s] \in Buckets /\ filled[P[s]]
        BY <1>0, NumBucketsPos DEF Passes
      <4>2. QED
        BY <1>4, <3>1, <4>1, <1>3 DEF Passes
    <3>3. QED
      BY <1>2, <1>3, <2>2, <3>1, <3>2 DEF OnProbePath
  <2>3. QED
    BY <2>1, <2>2
<1>6. BuildTypeOK'
  BY <1>0, <1>1 DEF FIInv, BuildTypeOK, Rows
<1>7. \A r \in Rows : r < nextRow' => rowKey'[r] \in Keys
  BY DEF FIInv, BuildTypeOK
<1>8. \A c \in Buckets : filled'[c] <=> entries'[c] # <<>>
  BY <1>1 DEF FIInv, BuildTypeOK
<1>9. \A c \in Buckets : BucketRowsOK(c)'
  <2> SUFFICES ASSUME NEW c \in Buckets PROVE BucketRowsOK(c)'
    OBVIOUS
  <2>1. CASE c # b
    <3>1. entries'[c] = entries[c]
      BY <2>1 DEF FIInv, BuildTypeOK
    <3>2. QED
      BY <3>1, RowsKept
  <2>2. CASE c = b
    <3> SUFFICES ASSUME NEW i \in 1..Len(entries'[b])
                 PROVE  /\ entries'[b][i] < nextRow + 1
                        /\ rowKey'[entries'[b][i]] = k
      BY <1>2, <1>3, <2>2 DEF BucketRowsOK
    <3>1. i = 1
      <4>1. Len(entries'[b]) = 1
        BY <1>2
      <4>2. i \in 1..1
        BY <4>1, Zenon
      <4>3. QED
        BY <4>2
    <3>2. entries'[b][i] = nextRow
      BY <1>2, <3>1
    <3>3. QED
      BY <1>0, <3>2
  <2>3. QED
    BY <2>1, <2>2
<1>10. QED
  BY <1>5, <1>6, <1>7, <1>8, <1>9 DEF FIInv

\* Insert keeps FIInv, whichever bucket its probe stops at.
LEMMA InsertFIInv ==
    ASSUME FIInv, NEW k \in Keys, Insert(k)
    PROVE  FIInv'
<1> DEFINE h == Hash[k]
           P == ProbeIdx(h)
           stops == {s \in 0..(NumBuckets - 1) :
                       LET x == P[s]
                       IN  ~filled[x] \/ (hashArray[x] = h /\ BucketKey(x) = k)}
<1>1. /\ nextRow \in Rows
      /\ rowKey' = [rowKey EXCEPT ![nextRow] = k]
      /\ nextRow' = nextRow + 1
      /\ quadratic' = quadratic
  BY DEF Insert
<1>2. h \in Nat /\ P \in [0..NumBuckets -> Buckets]
  BY ConstantTypes, ProbeIdxType DEF FIInv, BuildTypeOK
<1>3. CASE stops = {}
  <2>1. Probe(h, k) = [idx |-> BUCKET_NOT_FOUND, found |-> FALSE]
    BY <1>3 DEF Probe
  <2>2. BUCKET_NOT_FOUND \notin Buckets
    BY DEF BUCKET_NOT_FOUND, Buckets
  <2>3. /\ filled' = [filled EXCEPT ![BUCKET_NOT_FOUND] = TRUE]
        /\ hashArray' = [hashArray EXCEPT ![BUCKET_NOT_FOUND] = h]
        /\ entries' = [entries EXCEPT ![BUCKET_NOT_FOUND] = <<nextRow>>]
    BY <2>1 DEF Insert
  <2>4. UNCHANGED <<filled, hashArray, entries>>
    BY <2>2, <2>3 DEF FIInv, BuildTypeOK
  <2>5. QED
    BY <1>1, <2>4, RowKeyStep
<1>4. CASE stops # {}
  <2>1. PICK m \in 0..(NumBuckets - 1) :
            /\ m = Min(stops)
            /\ m \in stops
            /\ \A y \in stops : m <= y
    <3>1. stops \in SUBSET Nat
      BY NumBucketsPos
    <3>2. PICK x \in stops : \A y \in stops : ~(y < x)
      BY <1>4, <3>1, LeastNat
    <3>3. \A y \in stops : x <= y
      BY <3>1, <3>2
    <3>4. Min(stops) = x
      BY <3>1, <3>3, MinIs
    <3>5. QED
      BY <3>3, <3>4
  <2>2. PICK b \in Buckets : b = P[m]
    BY <1>2, NumBucketsPos
  <2>3. Probe(h, k) = [idx |-> b, found |-> filled[b]]
    BY <1>4, <2>1, <2>2 DEF Probe
  <2>4. CASE ~filled[b]
    <3>1. \A s \in 0..(m - 1) : Passes(P[s], h, k)
      <4> SUFFICES ASSUME NEW s \in 0..(m - 1) PROVE Passes(P[s], h, k)
        OBVIOUS
      <4>1. s \in 0..(NumBuckets - 1)
        BY NumBucketsPos
      <4>2. s \notin stops
        <5> HIDE DEF stops
        <5>1. QED
          BY <2>1
      <4>3. QED
        BY <4>1, <4>2, Zenon DEF Passes
    <3>2. /\ filled' = [filled EXCEPT ![b] = TRUE]
          /\ hashArray' = [hashArray EXCEPT ![b] = h]
          /\ entries' = [entries EXCEPT ![b] = <<nextRow>>]
      BY <2>3, <2>4 DEF Insert
    <3>3. QED
      BY <1>1, <2>2, <2>4, <3>1, <3>2, NewBucketStep
  <2>5. CASE filled[b]
    <3>1. hashArray[b] = h /\ BucketKey(b) = k
      BY <2>1, <2>2, <2>5
    <3>2. UNCHANGED <<filled, hashArray>>
          /\ \/ entries' = [entries EXCEPT ![b] = <<nextRow>> \o @]
             \/ entries' = entries
      BY <2>3, <2>5 DEF Insert
    <3>3. QED
      BY <1>1, <2>5, <3>1, <3>2, PrependStep, RowKeyStep
  <2>6. QED
    BY <2>4, <2>5
<1>5. QED
  BY <1>3, <1>4

\* Every step keeps FIInv: Insert by InsertFIInv, the others leave the
\* build state alone.
LEMMA NextFIInv ==
    ASSUME FIInv, [Next]_vars
    PROVE  FIInv'
<1>1. CASE \E k \in Keys : Insert(k)
  BY <1>1, InsertFIInv
<1>2. CASE EndBuild
  BY <1>2, BuildUnchanged DEF EndBuild
<1>3. CASE \E k \in Keys, j \in 1..MaxRows : ProbeAndMatch(k, j)
  BY <1>3, BuildUnchanged DEF ProbeAndMatch
<1>4. CASE \E m \in {"all", "unmatched"} : StartOutput(m)
  BY <1>4, BuildUnchanged DEF StartOutput
<1>5. CASE OutputRow
  BY <1>5, BuildUnchanged DEF OutputRow
<1>6. CASE OutputDone
  BY <1>6, BuildUnchanged DEF OutputDone
<1>7. CASE UNCHANGED vars
  BY <1>7, BuildUnchanged DEF vars
<1>8. QED
  BY <1>1, <1>2, <1>3, <1>4, <1>5, <1>6, <1>7 DEF Next

(* A row whose Insert succeeded is found by the probe for its key, in the  *)
(* bucket that holds it, in every reachable state of the table, for every *)
(* number of buckets, keys, hash function, row count and probing policy.   *)
THEOREM InsertedRowsFound == Spec => []FindAfterInsert
<1>1. Init => FIInv
  BY InitFIInv
<1>2. FIInv /\ [Next]_vars => FIInv'
  BY NextFIInv
<1>3. FIInv => FindAfterInsert
  BY FIInvFindAfterInsert
<1>4. QED
  BY <1>1, <1>2, <1>3, PTL DEF Spec

-----------------------------------------------------------------------------
(* TypeOK.  The output iterator's position must be a row of a bucket for   *)
(* OutputRow to append a row, so the type invariant is strengthened with   *)
(* the iterator's validity and with FIInv (a filled bucket has rows).      *)

\* An iterator position: the end, or a row of a bucket.
ValidPos(pos) ==
    \/ pos = AtEnd
    \/ pos[1] \in Buckets /\ pos[2] \in 1..Len(entries[pos[1]])

(* The iterator is at a valid position, and at the end until the output    *)
(* starts.                                                                 *)
IterOK ==
    /\ ValidPos(<<itBucket, itNode>>)
    /\ phase \in {"build", "probe"} => itBucket = BUCKET_NOT_FOUND

TInv == TypeOK /\ FIInv /\ IterOK

\* The larger of 0 and x is positive only if x is.
LEMMA MaxZeroPos ==
    ASSUME NEW x \in Int, Max({0, x}) > 0
    PROVE  x > 0
<1>1. \E z \in {0, x} : \A y \in {0, x} : z >= y
  BY SMT
<1>2. Max({0, x}) \in {0, x} /\ \A y \in {0, x} : Max({0, x}) >= y
  BY <1>1, Zenon DEF Max
<1>3. QED
  BY <1>2

\* A non-empty set of naturals has a Min, and it is its least element.
LEMMA MinInSet ==
    ASSUME NEW S \in SUBSET Nat, S # {}
    PROVE  Min(S) \in S /\ \A y \in S : Min(S) <= y
<1>1. PICK x \in S : \A y \in S : ~(y < x)
  BY LeastNat
<1>2. \A y \in S : x <= y
  BY <1>1
<1>3. Min(S) = x
  BY <1>2, MinIs
<1>4. QED
  BY <1>2, <1>3

\* A probe that finds its key returns a bucket.
LEMMA ProbeFoundIdx ==
    ASSUME BuildTypeOK, NEW k \in Keys, Probe(Hash[k], k).found
    PROVE  Probe(Hash[k], k).idx \in Buckets
<1> DEFINE h == Hash[k]
           P == ProbeIdx(h)
           stops == {s \in 0..(NumBuckets - 1) :
                       LET x == P[s]
                       IN  ~filled[x] \/ (hashArray[x] = h /\ BucketKey(x) = k)}
<1>1. P \in [0..NumBuckets -> Buckets]
  BY ConstantTypes, ProbeIdxType DEF BuildTypeOK
<1>2. stops # {}
  BY DEF Probe
<1>3. Min(stops) \in 0..(NumBuckets - 1)
  BY <1>2, MinInSet, NumBucketsPos
<1>4. Probe(h, k).idx = P[Min(stops)]
  BY <1>2 DEF Probe
<1>5. QED
  BY <1>1, <1>3, <1>4, NumBucketsPos

\* NextFilledBucket returns the end or the first row of a filled bucket.
LEMMA NextFilledBucketValid ==
    ASSUME FIInv, NEW b \in Buckets \cup {BUCKET_NOT_FOUND}
    PROVE  ValidPos(NextFilledBucket(b))
<1> DEFINE next == {c \in Buckets : c > b /\ filled[c]}
<1>1. CASE next = {}
  BY <1>1 DEF NextFilledBucket, ValidPos
<1>2. CASE next # {}
  <2>1. next \in SUBSET Nat
    BY DEF Buckets
  <2>2. Min(next) \in next
    BY <1>2, <2>1, MinInSet
  <2>3. entries[Min(next)] \in Seq(Rows) /\ entries[Min(next)] # <<>>
    BY <2>2 DEF FIInv, BuildTypeOK
  <2>4. NextFilledBucket(b) = <<Min(next), 1>>
    BY <1>2 DEF NextFilledBucket
  <2>5. QED
    BY <2>2, <2>3, <2>4 DEF ValidPos
<1>3. QED
  BY <1>1, <1>2

\* NextUnmatchedBucket returns the end or an unmatched row of a bucket.
LEMMA NextUnmatchedBucketValid ==
    ASSUME FIInv, NEW b \in Buckets
    PROVE  ValidPos(NextUnmatchedBucket(b))
<1> DEFINE cand == {c \in Buckets : c > b /\ filled[c]
                                   /\ \E j \in 1..Len(entries[c]) : IsUnmatched(c, j)}
<1>1. CASE cand = {}
  BY <1>1 DEF NextUnmatchedBucket, ValidPos
<1>2. CASE cand # {}
  <2> DEFINE c == Min(cand)
             J == {j \in 1..Len(entries[c]) : IsUnmatched(c, j)}
  <2>1. cand \in SUBSET Nat
    BY DEF Buckets
  <2>2. c \in cand
    BY <1>2, <2>1, MinInSet
  <2>3. J \in SUBSET Nat
    OBVIOUS
  <2>4. J # {}
    BY <2>2, Zenon
  <2>5. Min(J) \in 1..Len(entries[c])
    BY <2>3, <2>4, MinInSet
  <2>6. NextUnmatchedBucket(b) = <<c, Min(J)>>
    BY <1>2 DEF NextUnmatchedBucket
  <2>7. c \in Buckets
    BY <2>2
  <2> HIDE DEF c, J
  <2>8. QED
    BY <2>5, <2>6, <2>7 DEF ValidPos
<1>3. QED
  BY <1>1, <1>2

\* NextUnmatched from a row of a bucket returns a valid position.
LEMMA NextUnmatchedValid ==
    ASSUME FIInv, NEW b \in Buckets, NEW j \in Nat
    PROVE  ValidPos(NextUnmatched(b, j))
<1> DEFINE rest == {i \in (j + 1)..Len(entries[b]) : IsUnmatched(b, i)}
<1>1. CASE Len(entries[b]) > 1 /\ rest # {}
  <2>1. entries[b] \in Seq(Rows) /\ rest \in SUBSET Nat
    BY DEF FIInv, BuildTypeOK
  <2>2. Min(rest) \in rest
    BY <1>1, <2>1, MinInSet
  <2>3. NextUnmatched(b, j) = <<b, Min(rest)>>
    BY <1>1 DEF NextUnmatched
  <2>4. QED
    BY <2>1, <2>2, <2>3 DEF ValidPos
<1>2. CASE ~(Len(entries[b]) > 1 /\ rest # {})
  BY <1>2, NextUnmatchedBucketValid DEF NextUnmatched
<1>3. QED
  BY <1>1, <1>2

\* Next from a row of a bucket returns a valid position.
LEMMA NextRowValid ==
    ASSUME FIInv, NEW b \in Buckets, NEW j \in 1..Len(entries[b])
    PROVE  ValidPos(NextRow(b, j))
<1>1. CASE Len(entries[b]) > 1 /\ j < Len(entries[b])
  <2>1. entries[b] \in Seq(Rows)
    BY DEF FIInv, BuildTypeOK
  <2>2. QED
    BY <1>1, <2>1 DEF NextRow, ValidPos
<1>2. CASE ~(Len(entries[b]) > 1 /\ j < Len(entries[b]))
  BY <1>2, NextFilledBucketValid DEF NextRow
<1>3. QED
  BY <1>1, <1>2

LEMMA InitTInv ==
    ASSUME Init
    PROVE  TInv
<1>1. TypeOK
  <2>1. /\ quadratic \in BOOLEAN
        /\ filled \in [Buckets -> BOOLEAN]
        /\ hashArray \in [Buckets -> Nat]
        /\ entries \in [Buckets -> Seq(Rows)]
        /\ rowKey \in [Rows -> Keys \cup {NoKey}]
    BY DEF Init
  <2>2. /\ nextRow \in 1..(MaxRows + 1)
        /\ numFilledBuckets \in 0..NumBuckets
        /\ numDuplicateNodes \in Nat
        /\ nodeRemaining \in Nat
    BY NumBucketsPos, ConstantTypes DEF Init
  <2>3. /\ matched \subseteq Rows
        /\ itBucket \in Buckets \cup {BUCKET_NOT_FOUND}
        /\ itNode \in Nat
        /\ out \in Seq(Rows)
    BY DEF Init
  <2>4. /\ phase \in {"build", "probe", "output", "done"}
        /\ mode \in {"all", "unmatched"}
        /\ oobRead \in BOOLEAN
    BY Zenon DEF Init
  <2>5. QED
    BY <2>1, <2>2, <2>3, <2>4 DEF TypeOK
<1>2. IterOK
  BY DEF Init, IterOK, ValidPos, AtEnd
<1>3. QED
  BY <1>1, <1>2, InitFIInv DEF TInv

(* Insert keeps the counters in range: a new key fills a bucket only while *)
(* NumInsertsBeforeResize is positive, and a duplicate takes nodes from    *)
(* the page only when it holds as many as NodesNeeded.                     *)
LEMMA InsertCounters ==
    ASSUME TypeOK, NEW k \in Keys, Insert(k)
    PROVE  /\ numFilledBuckets' \in 0..NumBuckets
           /\ numDuplicateNodes' \in Nat
           /\ nodeRemaining' \in Nat
<1> DEFINE p == Probe(Hash[k], k)
           b == p.idx
           appended == IF Len(entries[b]) = 1 THEN 2 ELSE 1
<1>1. appended \in {1, 2} /\ NodesNeeded(b) = appended
  BY DEF NodesNeeded
<1>2. NodesPerPage \in Nat \ {0, 1} /\ NumBuckets \in Nat \ {0}
  BY NumBucketsPos, HashTableAssumption, Zenon
<1>3. CASE ~p.found
  <2>1. numFilledBuckets' = numFilledBuckets + 1
        /\ UNCHANGED <<numDuplicateNodes, nodeRemaining>>
    BY <1>3 DEF Insert
  <2> DEFINE x == (NumBuckets * 3) \div 4 - numFilledBuckets
  <2>2. x \in Int /\ Max({0, x}) > 0
    BY <1>2 DEF Insert, NumInsertsBeforeResize, TypeOK
  <2> HIDE DEF x
  <2>3. x > 0
    BY <2>2, MaxZeroPos
  <2>4. numFilledBuckets + 1 \in 0..NumBuckets
    BY <1>2, <2>3 DEF x, TypeOK
  <2>5. QED
    BY <2>1, <2>4 DEF TypeOK
<1>4. CASE p.found
  <2>1. UNCHANGED numFilledBuckets
        /\ \/ /\ nodeRemaining >= NodesNeeded(b)
              /\ nodeRemaining' = nodeRemaining - appended
              /\ numDuplicateNodes' = numDuplicateNodes + appended
           \/ /\ nodeRemaining' = NodesPerPage - appended
              /\ numDuplicateNodes' = numDuplicateNodes + appended
           \/ UNCHANGED <<numDuplicateNodes, nodeRemaining>>
    BY <1>4 DEF Insert
  <2>2. QED
    BY <1>1, <1>2, <2>1 DEF TypeOK
<1>5. QED
  BY <1>3, <1>4

LEMMA InsertTInv ==
    ASSUME TInv, NEW k \in Keys, Insert(k)
    PROVE  TInv'
<1>1. FIInv'
  BY InsertFIInv DEF TInv
<1>2. /\ numFilledBuckets' \in 0..NumBuckets
      /\ numDuplicateNodes' \in Nat
      /\ nodeRemaining' \in Nat
  BY InsertCounters DEF TInv
<1>3. /\ nextRow' \in 1..(MaxRows + 1)
      /\ UNCHANGED <<matched, phase, mode, itBucket, itNode, out, oobRead>>
  BY ConstantTypes DEF Insert, Rows
<1>4. TypeOK'
  BY <1>1, <1>2, <1>3 DEF TInv, TypeOK, FIInv, BuildTypeOK
<1>5. IterOK'
  <2>1. phase = "build" /\ itBucket = BUCKET_NOT_FOUND
    BY DEF Insert, TInv, IterOK
  <2>2. <<itBucket, itNode>> = AtEnd
    BY <2>1 DEF TInv, IterOK, ValidPos, Buckets, BUCKET_NOT_FOUND
  <2>3. QED
    BY <1>3, <2>1, <2>2 DEF IterOK, ValidPos
<1>6. QED
  BY <1>1, <1>4, <1>5 DEF TInv

\* A probe row marks a row of the bucket its probe finds.
LEMMA ProbeAndMatchTInv ==
    ASSUME TInv, NEW k \in Keys, NEW j \in 1..MaxRows, ProbeAndMatch(k, j)
    PROVE  TInv'
<1> DEFINE p == Probe(Hash[k], k)
<1>1. p.idx \in Buckets
  BY ProbeFoundIdx DEF ProbeAndMatch, TInv, TypeOK, BuildTypeOK
<1>2. entries[p.idx][j] \in Rows
  BY <1>1 DEF ProbeAndMatch, TInv, TypeOK
<1>3. FIInv'
  BY BuildUnchanged DEF ProbeAndMatch, TInv
<1>4. TypeOK'
  BY <1>2 DEF ProbeAndMatch, TInv, TypeOK
<1>5. IterOK'
  BY DEF ProbeAndMatch, TInv, IterOK, ValidPos
<1>6. QED
  BY <1>3, <1>4, <1>5 DEF TInv

LEMMA EndBuildTInv ==
    ASSUME TInv, EndBuild
    PROVE  TInv'
<1>1. FIInv'
  BY BuildUnchanged DEF EndBuild, TInv
<1>2. TypeOK'
  BY DEF EndBuild, TInv, TypeOK
<1>3. IterOK'
  BY DEF EndBuild, TInv, IterOK, ValidPos
<1>4. QED
  BY <1>1, <1>2, <1>3 DEF TInv

LEMMA OutputDoneTInv ==
    ASSUME TInv, OutputDone
    PROVE  TInv'
<1>1. FIInv'
  BY BuildUnchanged DEF OutputDone, TInv
<1>2. TypeOK'
  BY DEF OutputDone, TInv, TypeOK
<1>3. IterOK'
  BY DEF OutputDone, TInv, IterOK, ValidPos
<1>4. QED
  BY <1>1, <1>2, <1>3 DEF TInv

\* What an iterator taking a valid position stores is well typed.
LEMMA ValidPair ==
    ASSUME NEW pos, ValidPos(pos)
    PROVE  /\ ValidPos(<<pos[1], pos[2]>>)
           /\ pos[1] \in Buckets \cup {BUCKET_NOT_FOUND}
           /\ pos[2] \in Nat
BY DEF ValidPos, AtEnd

(* Begin or FirstUnmatched: the first filled bucket's first row, or for     *)
(* FirstUnmatched, when that row is matched, the next unmatched one.       *)
LEMMA StartOutputTInv ==
    ASSUME TInv, NEW m \in {"all", "unmatched"}, StartOutput(m)
    PROVE  TInv'
<1> DEFINE first == NextFilledBucket(BUCKET_NOT_FOUND)
           b == first[1]
           pos == IF m = "all" \/ b = BUCKET_NOT_FOUND \/ IsUnmatched(b, 1) THEN first
                  ELSE NextUnmatched(b, 1)
<1>1. ValidPos(first)
  BY NextFilledBucketValid DEF TInv
<1>2. ValidPos(pos)
  <2>1. CASE m = "all" \/ b = BUCKET_NOT_FOUND \/ IsUnmatched(b, 1)
    BY <1>1, <2>1
  <2>2. CASE ~(m = "all" \/ b = BUCKET_NOT_FOUND \/ IsUnmatched(b, 1))
    <3>1. b \in Buckets
      BY <1>1, <2>2 DEF ValidPos, AtEnd
    <3>2. QED
      BY <2>2, <3>1, NextUnmatchedValid DEF TInv
  <2>3. QED
    BY <2>1, <2>2
<1>3. /\ ValidPos(<<pos[1], pos[2]>>)
      /\ pos[1] \in Buckets \cup {BUCKET_NOT_FOUND}
      /\ pos[2] \in Nat
  BY <1>2, ValidPair
<1>4. /\ itBucket' = pos[1] /\ itNode' = pos[2]
      /\ phase' = "output" /\ mode' = m
      /\ oobRead' \in BOOLEAN
      /\ UNCHANGED <<quadratic, filled, hashArray, entries, rowKey, nextRow,
                     numFilledBuckets, numDuplicateNodes, nodeRemaining,
                     matched, out>>
  BY DEF StartOutput
<1>5. FIInv'
  BY <1>4, BuildUnchanged DEF TInv
<1>6. TypeOK'
  BY <1>3, <1>4 DEF TInv, TypeOK
<1>7. IterOK'
  BY <1>3, <1>4 DEF IterOK, ValidPos
<1>8. QED
  BY <1>5, <1>6, <1>7 DEF TInv

(* The caller takes the iterator's row and advances it: the row is a row   *)
(* of the bucket, and the next position is valid.                          *)
LEMMA OutputRowTInv ==
    ASSUME TInv, OutputRow
    PROVE  TInv'
<1> DEFINE pos == IF mode = "unmatched" THEN NextUnmatched(itBucket, itNode)
                  ELSE NextRow(itBucket, itNode)
<1>1. itBucket \in Buckets /\ itNode \in 1..Len(entries[itBucket])
  BY DEF OutputRow, TInv, IterOK, ValidPos, AtEnd
<1>2. entries[itBucket][itNode] \in Rows
  BY <1>1 DEF TInv, TypeOK
<1>3. ValidPos(pos)
  BY <1>1, NextUnmatchedValid, NextRowValid DEF TInv
<1>4. /\ ValidPos(<<pos[1], pos[2]>>)
      /\ pos[1] \in Buckets \cup {BUCKET_NOT_FOUND}
      /\ pos[2] \in Nat
  BY <1>3, ValidPair
<1>5. /\ itBucket' = pos[1] /\ itNode' = pos[2]
      /\ out' = Append(out, entries[itBucket][itNode])
      /\ UNCHANGED <<quadratic, filled, hashArray, entries, rowKey, nextRow,
                     numFilledBuckets, numDuplicateNodes, nodeRemaining,
                     matched, phase, mode, oobRead>>
  BY DEF OutputRow
<1>6. FIInv'
  BY <1>5, BuildUnchanged DEF TInv
<1>7. TypeOK'
  BY <1>2, <1>4, <1>5 DEF TInv, TypeOK
<1>8. IterOK'
  BY <1>4, <1>5 DEF OutputRow, IterOK, ValidPos
<1>9. QED
  BY <1>6, <1>7, <1>8 DEF TInv

LEMMA NextTInv ==
    ASSUME TInv, [Next]_vars
    PROVE  TInv'
<1>1. CASE \E k \in Keys : Insert(k)
  BY <1>1, InsertTInv
<1>2. CASE EndBuild
  BY <1>2, EndBuildTInv
<1>3. CASE \E k \in Keys, j \in 1..MaxRows : ProbeAndMatch(k, j)
  BY <1>3, ProbeAndMatchTInv
<1>4. CASE \E m \in {"all", "unmatched"} : StartOutput(m)
  BY <1>4, StartOutputTInv
<1>5. CASE OutputRow
  BY <1>5, OutputRowTInv
<1>6. CASE OutputDone
  BY <1>6, OutputDoneTInv
<1>7. CASE UNCHANGED vars
  <2>1. FIInv'
    BY <1>7, BuildUnchanged DEF vars, TInv
  <2>2. QED
    BY <1>7, <2>1 DEF vars, TInv, TypeOK, IterOK, ValidPos
<1>8. QED
  BY <1>1, <1>2, <1>3, <1>4, <1>5, <1>6, <1>7 DEF Next

(* Every variable of the table keeps its type in every reachable state, for *)
(* every number of buckets, keys, hash function, row count and page size:  *)
(* the duplicate-node page is never overdrawn (AppendNextNode's            *)
(* DCHECK_GT(node_remaining_, 0)), the table never counts more filled      *)
(* buckets than it has, and the output iterators only return rows of the   *)
(* table's buckets.                                                        *)
THEOREM TypeCorrect == Spec => []TypeOK
<1>1. Init => TInv
  BY InitTInv
<1>2. TInv /\ [Next]_vars => TInv'
  BY NextTInv
<1>3. TInv => TypeOK
  BY DEF TInv
<1>4. QED
  BY <1>1, <1>2, <1>3, PTL DEF Spec

=============================================================================
