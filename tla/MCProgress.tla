------------------------------ MODULE MCProgress ------------------------------
(***************************************************************************)
(* What must eventually happen in three parts that share no state: the     *)
(* fan-in of a request tree (WorkStore, extended as in MCTree), the        *)
(* delivery of a run's events and the loop of a worker.  A behaviour       *)
(* follows one of them, chosen at the start, under that part's own         *)
(* fairness, and leaves the others in their initial states.                *)
(***************************************************************************)
EXTENDS MCTree

VARIABLES
  which,
  table, im, run, made, tried, due, claim, delivered, failed, receipt, claims, retries, dlane,
  late, received, skipped, before,
  row, running, back, poll, listener, drain, faults

\* One lane, two events and one retry of a failed row.
Out == INSTANCE Outbox WITH
  Event <- {1, 2}, Result <- {11}, Lane <- {"l"}, NoLane <- "none", MaxAttempts <- 2, MaxRetries <- 1,
  MaxFence <- 1, attempts <- tried, token <- claim, lane <- dlane

\* Two rows, one of them background, two slots of which one is reserved, two faults.
Proc == INSTANCE Worker WITH
  Jobs <- {1, 2}, Operations <- {1}, MaxRuns <- 2, ReservedRuns <- 1, MaxFaults <- 2

outVars == <<table, im, run, made, tried, due, claim, delivered, failed, receipt, claims, retries,
             dlane, late, received, skipped, before>>
procVars == <<row, running, back, poll, listener, drain, faults>>
all == <<which, vars, outVars, procVars>>

ProgressInit ==
  /\ which \in {"tree", "outbox", "worker"}
  /\ Init /\ Out!Init /\ Proc!WorkerInit
  /\ table = "events" /\ im = FALSE

Tree(A) == which = "tree" /\ A /\ UNCHANGED <<which, outVars, procVars>>
Outbox(A) == which = "outbox" /\ A /\ UNCHANGED <<which, vars, procVars>>
Process(A) == which = "worker" /\ A /\ UNCHANGED <<which, vars, outVars>>

ProgressNext == Tree(Next) \/ Outbox(Out!Next) \/ Process(Proc!WorkerNext)

\* The fairness of WorkStore, Outbox and Worker, each for its own part.
ProgressFairness ==
  /\ WF_all(Tree(WorkersRun)) /\ WF_all(Tree(BlockDependents(Work)))
  /\ WF_all(Tree(\E t \in Stamp : ResumeParents(Work, t)))
  /\ WF_all(Outbox(Out!Flush))
  /\ WF_all(Process(Proc!Loop))
  /\ \A j \in {1, 2} :
       /\ WF_all(Process(Proc!Settle(j))) /\ WF_all(Process(Proc!Leave(j)))
       /\ WF_all(Process(Proc!Expire(j) /\ running[j] # "current" /\ j \notin poll.got))

ProgressSpec == ProgressInit /\ [][ProgressNext]_all /\ ProgressFairness

(***************************************************************************)
(* The properties of the parts, under their own names.                     *)
(***************************************************************************)

\* An event a run recorded is delivered, or it or an earlier one has failed for good.
EventsSettle == Out!EventsSettle

\* A queued row is executed by a worker that is not being stopped.
WorkFinishes == Proc!WorkFinishes
=============================================================================
