------------------------------ MODULE MCPreempt ------------------------------
(***************************************************************************)
(* The two runs of MCLease with the column claim stamps and the queue      *)
(* never reads: started_at, the time the current lease was claimed.        *)
(***************************************************************************)
EXTENDS MCLease

VARIABLE started  \* agent_work_items.started_at

PreemptInit == Init /\ started = [w \in Work |-> 0]

\* No statement acts late here, so a claim is stamped with the clock.
Claimed(w) == status'[w] = "leased" /\ fence'[w] # fence[w]

PreemptNext ==
  /\ Next
  /\ started' = [w \in Work |-> IF Claimed(w) THEN clock ELSE started[w]]

PreemptSpec == PreemptInit /\ [][PreemptNext]_<<vars, started>>

(* test/reliability.test.ts: a healthy lease is preempted, and fenced after *)
(* the grace period.  A request that an earlier attempt of the row left    *)
(* behind is none to the worker of this lease.                             *)
FencedAfterGrace ==
  [][SweepFence(clock) =>
       \A w \in Overdue(clock) : LiveLease(w) => preempt[w] >= started[w]]_<<vars, started>>
=============================================================================
