------------------------------- MODULE MCTree --------------------------------
(* A root request with two children, the second depending on the first,    *)
(* each in a session of its own.  Time stands still: no lease expires, so  *)
(* the runs below are about revisions, cancellation and fan-in.            *)
EXTENDS WorkStore

CONSTANTS k1, s1, s2, s3

MCWork == {1, 2, 3}
MCSessionOf == <<s1, s2, s3>>
MCParent == <<0, 1, 1>>
MCDeps == <<{}, {}, {2}>>
MCInitLane == <<4, 2, 2>>
=============================================================================
