----------------------- MODULE MC_MembershipDescriptors -----------------------
(* Three remote executors and two executor groups: A in G1, B in both, C   *)
(* in G2.  In the fixed model each backend always registers with the same  *)
(* groups; in the regrouping model A may come back with G2 instead of G1.  *)
EXTENDS MembershipDescriptors, TLC

CONSTANTS A, B, C, G1, G2

MCBackends == {A, B, C}
MCGroups == {G1, G2}
MCFixedGroups == (A :> {{G1}}) @@ (B :> {{G1, G2}}) @@ (C :> {{G2}})
MCRegroups == (A :> {{G1}, {G2}}) @@ (B :> {{G1, G2}}) @@ (C :> {{G2}})
=============================================================================
