------------------------------ MODULE MCResources ---------------------------
(***************************************************************************)
(* What bounds the work of a deployment: the model budget of a request     *)
(* tree (ModelBudget), the slots of a process for provider calls (Quota)   *)
(* and the slots of a worker for runs (Worker).  They share no state; a    *)
(* behaviour follows one of them, chosen at the start, and leaves the      *)
(* others in their initial states.                                         *)
(***************************************************************************)
EXTENDS ModelBudget, Quota, Worker, TLC

VARIABLE which

ResourcesInit ==
  /\ which \in {"budget", "quota", "worker"}
  /\ Init /\ QuotaInit /\ WorkerInit

ResourcesNext ==
  \/ which = "budget" /\ Next /\ UNCHANGED <<which, qvars, rvars>>
  \/ which = "quota" /\ QuotaNext /\ UNCHANGED <<which, vars, rvars>>
  \/ which = "worker" /\ WorkerNext /\ UNCHANGED <<which, vars, qvars>>

ResourcesSpec == ResourcesInit /\ [][ResourcesNext]_<<which, vars, qvars, rvars>>

Interchangeable == Permutations(Caller)
=============================================================================
