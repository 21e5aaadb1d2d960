------------------------------ MODULE MCActions ------------------------------
(* Actions of one run, handlers that run side by side, every kind of tool. *)
EXTENDS ActionLedger, TLC

CONSTANTS a1, a2, h1, h2

MCAction == {a1}
MCPair == {a1, a2}
HandlerSymmetry == Permutations({h1, h2})
PairSymmetry == HandlerSymmetry \cup Permutations({a1, a2})
=============================================================================
