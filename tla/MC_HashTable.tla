---------------------------- MODULE MC_HashTable ----------------------------
(* A table of four buckets and four rows.  K2 collides with K1 (5 and 1   *)
(* agree in their two low bits) and K3 lands on K1's probe path, so the    *)
(* probe walks past filled buckets of other keys; a page of three          *)
(* duplicate nodes runs short on a second bucket's first duplicate.        *)
EXTENDS HashTable

CONSTANTS K1, K2, K3, K4, K5

MCKeys == {K1, K2, K3}
MCHash == [k \in MCKeys |-> CASE k = K1 -> 1 [] k = K2 -> 5 [] k = K3 -> 2]

(* A table filled to its limit: three of the four buckets (0.75) may be    *)
(* filled, and five keys, all of whose probe paths cover the table, are    *)
(* offered, so an insert past the limit would find every bucket filled.    *)
MCFullKeys == {K1, K2, K3, K4, K5}
MCFullHash == [k \in MCFullKeys |->
                 CASE k = K1 -> 1 [] k = K2 -> 5 [] k = K3 -> 2
                   [] k = K4 -> 0 [] k = K5 -> 3]
=============================================================================
