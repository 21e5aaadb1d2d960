------------------------------ MODULE MCRuntime -----------------------------
(***************************************************************************)
(* The process that runs an attempt: the agent loop (Turn) and the pool of *)
(* Python kernels it sends its cells to (Kernel).  They meet in a call and *)
(* its answer, which Turn has as the outcomes of a cell; a behaviour       *)
(* follows one of them, chosen at the start, under that part's fairness,   *)
(* and leaves the other in its initial state.                              *)
(***************************************************************************)
EXTENDS Turn, Kernel

VARIABLE which

\* Two sessions, the first with two cells, and room for one kernel.
SessionOf(c) == IF c \in {1, 2} THEN "s" ELSE "t"

all == <<which, vars, kvars>>

RuntimeInit == which \in {"turn", "kernel"} /\ Init /\ KernelInit

TurnStep(A) == which = "turn" /\ A /\ UNCHANGED <<which, kvars>>
PoolStep(A) == which = "kernel" /\ A /\ UNCHANGED <<which, vars>>

RuntimeNext == TurnStep(Next) \/ PoolStep(KernelNext)

\* The fairness of Turn and of Kernel.
RuntimeFairness ==
  /\ WF_all(TurnStep(AttemptStep)) /\ WF_all(TurnStep(LeaseLapses)) /\ WF_all(TurnStep(ResumeDecided))
  /\ \A c \in Cells : WF_all(PoolStep(CellGoesOn(c)))
  /\ \A i \in Instances : WF_all(PoolStep(HomeMade(i) \/ HomeFails(i)))
  /\ \A k \in Keys : WF_all(PoolStep(Stopped(k)))

RuntimeSpec == RuntimeInit /\ [][RuntimeNext]_all /\ RuntimeFairness
=============================================================================
