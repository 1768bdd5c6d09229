----------------------- MODULE MC_ClusterMembershipMgr -----------------------
(* Small instance of ClusterMembershipMgr for TLC.                         *)
EXTENDS ClusterMembershipMgr

CONSTANTS L, A

\* The local backend and one remote one; both are executors.
MCBackends == {L, A}

\* One executor group that every backend belongs to.
MCGroups == {"G1"}

MCBeGroups == [b \in MCBackends |-> MCGroups]

\* Enough publishes for a full update, a delta, a recovery and a hand-over.
MCMaxVersion == 4
=============================================================================
