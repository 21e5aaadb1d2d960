------------------------------- MODULE Worker -------------------------------
(***************************************************************************)
(* One AgentWorker process and the wakeups that feed it: the poll loop     *)
(* with its slots, the long poll on the control plane's version counter,   *)
(* the LISTEN connection behind that counter, and the drain of stop().     *)
(* A step is what runs between two awaits.  What happens inside a run is   *)
(* module Turn; here a run finishes, yields, loses its lease or outlives   *)
(* it.  The queue's own rules are module WorkStore: here a row is claimed  *)
(* by this worker or by nobody.                                            *)
(***************************************************************************)
EXTENDS Integers, FiniteSets

CONSTANTS
  Jobs,         \* rows of agent_work_items
  Operations,   \* the rows of execution class 'operation' (background)
  MaxRuns,      \* maxConcurrentRuns
  ReservedRuns, \* reservedInteractiveRuns
  MaxFaults     \* lost connections, failed calls, expiries, preemptions, restarts

(* What the constructor checks.                                            *)
ASSUME WorkerAssumption ==
  /\ IsFiniteSet(Jobs) /\ Operations \subseteq Jobs
  /\ MaxRuns \in Nat \ {0} /\ ReservedRuns \in 0 .. MaxRuns - 1 /\ MaxFaults \in Nat

VARIABLES
  row,       \* the durable status of each row
  running,   \* the attempt of each row in this process: the map active
  back,      \* backgroundRuns
  poll,      \* the loop: where it is, the class asked for, the row granted, and whether
             \* its cursor is the current epoch and version of workWakeup
  listener,  \* the LISTEN connection and whether a notification is under way
  drain,     \* stop(): its state and the promises it waits for
  faults     \* faults so far

rvars == <<row, running, back, poll, listener, drain, faults>>

Running == {j \in Jobs : running[j] # "none"}
Stopping == drain.at # "open"

WorkerTypeOK ==
  /\ row \in [Jobs -> {"absent", "queued", "expired", "leased", "ended"}]
  /\ running \in [Jobs -> {"none", "current", "settled", "stale"}]
  /\ back \in 0 .. MaxRuns /\ faults \in 0 .. MaxFaults
  /\ poll \in [at : {"top", "asking", "answered", "empty", "waiting", "stopped"},
              only : BOOLEAN, got : SUBSET Jobs, current : BOOLEAN]
  /\ listener \in [up : BOOLEAN, pending : BOOLEAN]
  /\ drain \in [at : {"open", "draining", "clean", "timedOut"}, awaits : SUBSET Jobs]

WorkerInit ==
  /\ row = [j \in Jobs |-> "absent"] /\ running = [j \in Jobs |-> "none"] /\ back = 0
  /\ poll = [at |-> "top", only |-> FALSE, got |-> {}, current |-> FALSE]
  /\ listener = [up |-> FALSE, pending |-> FALSE]
  /\ drain = [at |-> "open", awaits |-> {}] /\ faults = 0

Fault == faults < MaxFaults /\ faults' = faults + 1

(***************************************************************************)
(* Notifications.  The trigger on agent_work_items notifies on an insert   *)
(* and on a change of status; a lease that expires changes nothing.        *)
(***************************************************************************)
Notified == [listener EXCEPT !.pending = @ \/ listener.up]

Enqueue(j) ==
  /\ row[j] = "absent" /\ row' = [row EXCEPT ![j] = "queued"] /\ listener' = Notified
  /\ UNCHANGED <<running, back, poll, drain, faults>>

(* A new version, or a new epoch: no cursor is the current one.            *)
Notify == poll' = [poll EXCEPT !.current = FALSE]

Deliver ==
  /\ listener.up /\ listener.pending /\ Notify
  /\ listener' = [listener EXCEPT !.pending = FALSE]
  /\ UNCHANGED <<row, running, back, drain, faults>>

Disconnect ==
  /\ listener.up /\ Fault /\ listener' = [up |-> FALSE, pending |-> FALSE]
  /\ UNCHANGED <<row, running, back, poll, drain>>

(* LISTEN commits, then one notification for what was missed.              *)
Listen ==
  /\ ~listener.up /\ listener' = [up |-> TRUE, pending |-> FALSE] /\ Notify
  /\ UNCHANGED <<row, running, back, drain, faults>>

(* The control plane restarts: a new wakeEpoch, its versions from zero.    *)
Restart ==
  /\ Fault /\ Notify /\ listener' = [up |-> FALSE, pending |-> FALSE]
  /\ UNCHANGED <<row, running, back, drain>>

(***************************************************************************)
(* The poll loop.                                                          *)
(***************************************************************************)
ReservedOnlyAbove(n) == n > MaxRuns - ReservedRuns

ReservedOnly(n) == n >= MaxRuns - ReservedRuns

AskForWork ==
  /\ poll.at = "top" /\ ~Stopping /\ Cardinality(Running) < MaxRuns
  /\ poll' = [poll EXCEPT !.at = "asking", !.only = ReservedOnly(back)]
  /\ UNCHANGED <<row, running, back, listener, drain, faults>>

Claimable(only) == {j \in Jobs : row[j] \in {"queued", "expired"} /\ (only => j \notin Operations)}

(* The claim commits, or finds nothing; the answer arrives.  The claim     *)
(* changes status, so it notifies as well.                                 *)
Grant(j) ==
  /\ poll.at = "asking" /\ ~Stopping /\ j \in Claimable(poll.only)
  /\ row' = [row EXCEPT ![j] = "leased"] /\ listener' = Notified
  /\ poll' = [poll EXCEPT !.at = "answered", !.got = {j}]
  /\ running' = [running EXCEPT ![j] = IF @ = "current" THEN "stale" ELSE @]
  /\ UNCHANGED <<back, drain, faults>>

GrantNone ==
  /\ poll.at = "asking" /\ ~Stopping /\ Claimable(poll.only) = {}
  /\ poll' = [poll EXCEPT !.at = "empty"]
  /\ UNCHANGED <<row, running, back, listener, drain, faults>>

(* The call fails, or the claim commits and its answer never arrives.      *)
ClaimFails ==
  /\ poll.at = "asking" /\ Fault
  /\ poll' = [poll EXCEPT !.at = "top"]
  /\ \/ UNCHANGED <<row, listener>>
     \/ \E j \in Claimable(poll.only) :
          row' = [row EXCEPT ![j] = "leased"] /\ listener' = Notified
  /\ UNCHANGED <<running, back, drain>>

(* The answer is taken up: dropped when the process is stopping, or when   *)
(* an attempt of the same row is still in the map; run otherwise.          *)
Start(j) ==
  /\ running' = [running EXCEPT ![j] = IF row[j] = "leased" THEN "current" ELSE "stale"]
  /\ back' = IF j \in Operations THEN back + 1 ELSE back

TakeThoughStopping ==
  /\ poll.at = "answered"
  /\ poll' = [poll EXCEPT !.at = "top", !.got = {}]
  /\ IF poll.got \subseteq Running THEN UNCHANGED <<running, back>> ELSE \E j \in poll.got : Start(j)
  /\ UNCHANGED <<row, listener, drain, faults>>

Take ==
  /\ poll.at = "answered"
  /\ poll' = [poll EXCEPT !.at = IF Stopping THEN "stopped" ELSE "top", !.got = {}]
  /\ IF Stopping \/ poll.got \subseteq Running THEN UNCHANGED <<running, back>> ELSE \E j \in poll.got : Start(j)
  /\ UNCHANGED <<row, listener, drain, faults>>

(* waitForWork: a cursor that is not the current one returns at once, the  *)
(* current one when the version moves or the time is over.                 *)
WaitFromNow ==
  /\ poll.at = "empty" /\ ~Stopping
  /\ poll' = [poll EXCEPT !.at = "waiting", !.current = TRUE]
  /\ UNCHANGED <<row, running, back, listener, drain, faults>>

Wait ==
  /\ poll.at = "empty" /\ ~Stopping
  /\ poll' = IF poll.current THEN [poll EXCEPT !.at = "waiting"]
             ELSE [poll EXCEPT !.at = "top", !.current = TRUE]
  /\ UNCHANGED <<row, running, back, listener, drain, faults>>

WaitEnds ==
  /\ poll.at = "waiting" /\ poll' = [poll EXCEPT !.at = "top", !.current = TRUE]
  /\ UNCHANGED <<row, running, back, listener, drain, faults>>

(***************************************************************************)
(* Runs of this process.  A run settles its row and only later leaves the  *)
(* map (the finally of runWork, then of the loop).                         *)
(***************************************************************************)
Settle(j) ==
  /\ running[j] = "current" /\ row[j] = "leased"
  /\ \/ row' = [row EXCEPT ![j] = "ended"] /\ UNCHANGED faults
     \/ Fault /\ row' = [row EXCEPT ![j] = "queued"]     \* yieldWork
  /\ running' = [running EXCEPT ![j] = "settled"] /\ listener' = Notified
  /\ UNCHANGED <<back, poll, drain>>

(* A lease nobody renews expires: its run lost contact, or there is none.  *)
Expire(j) ==
  /\ row[j] = "leased" /\ row' = [row EXCEPT ![j] = "expired"]
  /\ IF running[j] = "current" \/ j \in poll.got THEN Fault ELSE UNCHANGED faults
  /\ running' = [running EXCEPT ![j] = IF @ = "current" THEN "stale" ELSE @]
  /\ UNCHANGED <<back, poll, listener, drain>>

LeaveKeepingCount(j) ==
  /\ running[j] \in {"settled", "stale"}
  /\ running' = [running EXCEPT ![j] = "none"] /\ UNCHANGED back
  /\ UNCHANGED <<row, poll, listener, drain, faults>>

Leave(j) ==
  /\ running[j] \in {"settled", "stale"}
  /\ running' = [running EXCEPT ![j] = "none"]
  /\ back' = IF j \in Operations THEN back - 1 ELSE back
  /\ UNCHANGED <<row, poll, listener, drain, faults>>

(***************************************************************************)
(* stop(): no more claims, the runs of this moment are awaited for the     *)
(* grace period, the loop stops at its next await.                         *)
(***************************************************************************)
Stop ==
  /\ ~Stopping /\ drain' = [at |-> "draining", awaits |-> Running]
  /\ UNCHANGED <<row, running, back, poll, listener, faults>>

LoopStops ==
  /\ Stopping /\ poll.at \in {"top", "asking", "empty", "waiting"}
  /\ poll' = [poll EXCEPT !.at = "stopped"]
  /\ UNCHANGED <<row, running, back, listener, drain, faults>>

DrainEnds ==
  /\ drain.at = "draining"
  /\ \/ /\ poll.at = "stopped" /\ \A j \in drain.awaits : running[j] = "none"
        /\ drain' = [drain EXCEPT !.at = "clean"]
     \/ drain' = [drain EXCEPT !.at = "timedOut"]
  /\ UNCHANGED <<row, running, back, poll, listener, faults>>

Loop == AskForWork \/ GrantNone \/ Take \/ Wait \/ WaitEnds \/ LoopStops \/ \E j \in Jobs : Grant(j)

WorkerNext ==
  \/ Loop \/ ClaimFails
  \/ \E j \in Jobs : Enqueue(j) \/ Settle(j) \/ Expire(j) \/ Leave(j)
  \/ Deliver \/ Disconnect \/ Listen \/ Restart
  \/ Stop \/ DrainEnds

(* The loop and its timers go on; attempts end (Turn's AttemptEnds); a     *)
(* lease nobody renews runs out.                                           *)
WorkerFairness ==
  /\ WF_rvars(Loop)
  /\ \A j \in Jobs : WF_rvars(Settle(j)) /\ WF_rvars(Leave(j))
                     /\ WF_rvars(Expire(j) /\ running[j] # "current" /\ j \notin poll.got)

WorkerSpec == WorkerInit /\ [][WorkerNext]_rvars /\ WorkerFairness

(***************************************************************************)
(* What the process promises.                                              *)
(***************************************************************************)
(* Wakeup's comment: the version is captured before the scan, so a         *)
(* notification during a scan cannot be lost.  A loop asleep on the        *)
(* current version leaves no row behind that a committed change made       *)
(* claimable for the class it asked for, through lost connections and      *)
(* restarts of the control plane.                                          *)
NoLostWakeup ==
  poll.at = "waiting" /\ poll.current /\ listener.up /\ ~listener.pending
    => \A j \in Jobs : row[j] = "queued" => poll.only /\ j \in Operations

(* The slots: never more runs than maxConcurrentRuns, and never so many    *)
(* background runs that the reserved ones are taken, although the class is *)
(* chosen before the claim and runs end while it is under way.             *)
SlotsKept ==
  /\ Cardinality(Running) <= MaxRuns
  /\ Cardinality(Running \cap Operations) <= MaxRuns - ReservedRuns

(* stop() that reports no timeout leaves no run behind: none it did not    *)
(* wait for, and none started by an answer that came in while stopping.    *)
DrainLeavesNothing == drain.at = "clean" => Running = {}

(* worker/worker.ts: the loop does not sleep through a notification, the   *)
(* slots are kept and a drained worker leaves nothing running.             *)
LoopKept == WorkerTypeOK /\ NoLostWakeup /\ SlotsKept /\ DrainLeavesNothing

(* A queued row is run to its end while the process lives, whatever claim  *)
(* is lost or dropped on the way (an answer for a row whose old attempt is *)
(* still in the map is dropped with its lease).                            *)
WorkFinishes == \A j \in Jobs : row[j] = "queued" ~> row[j] = "ended" \/ Stopping
=============================================================================
