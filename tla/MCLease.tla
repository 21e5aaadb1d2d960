------------------------------- MODULE MCLease -------------------------------
(* Two runs of one session and two workers: leases that expire, are        *)
(* renewed, preempted and fenced off.  No children.                        *)
EXTENDS WorkStore, TLC

CONSTANTS k1, k2, s1

MCWork == {1, 2}
MCSessionOf == [w \in MCWork |-> s1]
MCParent == [w \in MCWork |-> 0]
MCDeps == [w \in MCWork |-> {}]
MCInitLane == [w \in MCWork |-> IF w = 1 THEN 1 ELSE 4]
WorkerSymmetry == Permutations({k1, k2})
=============================================================================
