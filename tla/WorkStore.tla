------------------------------ MODULE WorkStore ------------------------------
(***************************************************************************)
(* The durable work queue of the control plane: PgWorkStore, the scheduler *)
(* sweep, the dependency sweep and the server-side operations that move a  *)
(* row of agent_work_items between its statuses.                           *)
(*                                                                         *)
(* A row is claimed under a fenced lease, a session has at most one lease  *)
(* row (agent_os_session_leases) and one route (agent_os_session_routes),  *)
(* and children of a request live and die with their parent.  Callers are  *)
(* workers holding a proof (work, fence, token) that may be stale: an      *)
(* operation takes any fence ever issued for the work.                     *)
(*                                                                         *)
(* Time.  `clock` is the database clock.  NOW() is fixed when a statement  *)
(* starts, so a statement that waited for a row lock acts at `clock` with  *)
(* a stamp t that may be up to MaxLag behind it.  Times are at least 1 and *)
(* 0 stands for SQL NULL, as it does for works and versions.               *)
(***************************************************************************)
EXTENDS Naturals, FiniteSets

CONSTANTS
  Work,        \* ids of work items, positive naturals (ordered as SQL text is)
  Worker,      \* worker ids
  NoWorker,    \* the route of a session never claimed
  Session,     \* session keys
  SessionOf,   \* [Work -> Session]
  Parent,      \* [Work -> Work \cup {0}]: meta.parentWorkId, 0 for a root job
  Deps,        \* [Work -> SUBSET Work]: meta.dependsOn
  InitLane,    \* [Work -> 1..4]: WORK_LANE_PRIORITY of the lane enqueued with
  Captured,    \* works whose meta.text is a string: their outcome is mandatory
  Outcomes,    \* goal kinds a run may end with
  AskUser,     \* works whose runs may wait for a user's input or approval
  Uncertain,   \* works whose tools may leave an effect unknown
  TTL,         \* lease time to live
  Watchdog,    \* sweepQueuedWork's watchdogMs
  Grace,       \* sweepQueuedWork's graceMs
  Delay,       \* the one second a yielded row stays unavailable
  MaxLag,      \* bound: how far a statement's NOW() may be behind the clock
  MaxTime,     \* bound on the clock
  MaxFence,    \* bound on a work's fence
  MaxVersion   \* bound on a work's request version

(* What the model needs of its constants.  Parent is a forest because      *)
(* enqueueChild only names a parent row that already exists.               *)
ASSUME StructureAssumption ==
  /\ Work \subseteq Nat \ {0}
  /\ NoWorker \notin Worker
  /\ SessionOf \in [Work -> Session]
  /\ Parent \in [Work -> Work \cup {0}]
  /\ \A w \in Work : Parent[w] < w
  /\ Deps \in [Work -> SUBSET Work]
  /\ InitLane \in [Work -> 1..4]
  /\ Outcomes \subseteq {"satisfied", "partial", "blocked"}
  /\ Captured \subseteq Work /\ AskUser \subseteq Work /\ Uncertain \subseteq Work

ASSUME TimeAssumption ==
  /\ TTL \in Nat \ {0} /\ Watchdog \in Nat \ {0} /\ Grace \in Nat \ {0}
  /\ Delay \in Nat /\ MaxLag \in Nat /\ MaxTime \in Nat \ {0}
  /\ MaxFence \in Nat /\ MaxVersion \in Nat

VARIABLES
  clock,         \* the database clock
  status,        \* agent_work_items.status, "absent" before the row exists
  fence,         \* .fence
  token,         \* .lease_token_hash, named by the fence it was issued with
  expires,       \* .lease_expires_at
  available,     \* .available_at
  cancel,        \* .cancel_requested_at IS NOT NULL
  preempt,       \* .preempt_requested_at
  version,       \* jsonb_array_length(.steer_inputs) + 1
  lane,          \* .lane
  goal,          \* .goal_outcome
  result,        \* the agent_results row .result_id points to
  born,          \* meta.parentRequestVersion
  snapshot,      \* version of the agent_request_snapshots row, 0 without one
  unknown,       \* version of an action whose effect is unknown
  waits,         \* agent_work_waits
  sessionLease,  \* agent_os_session_leases
  route,         \* agent_os_session_routes
  attempts       \* agent_attempts, with the home epoch the claim handed out

(* The columns a lease moves with, and those of the request.               *)
leaseVars == <<status, fence, token, expires, available, preempt, attempts, sessionLease>>
requestVars == <<cancel, version, lane, goal, result, born, snapshot, unknown, waits>>
vars == <<clock, leaseVars, requestVars, route>>

-----------------------------------------------------------------------------
(* Values *)

Active == {"queued", "leased", "waiting"}
Terminal == {"succeeded", "partial", "blocked", "failed", "cancelled"}
WaitKinds == {"delegated", "awaiting_input", "awaiting_approval"}
GoalKinds == {"satisfied", "partial", "blocked"} \cup WaitKinds

NoGoal == [kind |-> "none", task |-> 0, version |-> 0]
Goal(k, c, v) == [kind |-> k, task |-> c, version |-> v]
NoResult == [version |-> 0, satisfied |-> FALSE]
NoLease == [work |-> 0, fence |-> 0, expires |-> 0]

(* The status a completion leaves behind: the default of the switch takes  *)
(* both a satisfied outcome and a completion without any.                  *)
WorkStatusOf(k) ==
  IF k \in WaitKinds THEN "waiting"
  ELSE IF k \in {"partial", "blocked"} THEN k ELSE "succeeded"

(* The stamps NOW() may have for a statement that takes effect now.        *)
Stamp == {t \in 1..MaxTime : t <= clock /\ clock <= t + MaxLag}

(* Fences ever handed to a worker for w.                                   *)
Issued(w) == {a.fence : a \in {x \in attempts : x.work = w}}

(* Fault: a proof is accepted after its lease ran out.                     *)
HoldsLeaseForever(w, f, t) == status[w] = "leased" /\ fence[w] = f /\ token[w] = f

(* The WHERE clause of every call that carries a proof: id, fence and      *)
(* token hash match a leased row whose lease is live at the stamp.         *)
HoldsLease(w, f, t) ==
  /\ status[w] = "leased"
  /\ fence[w] = f
  /\ token[w] = f
  /\ expires[w] > t

LiveSession(s, t) == sessionLease[s].work # 0 /\ sessionLease[s].expires > t

(* All works below w, through any request version: the least set that has  *)
(* w's children and is closed under children.                              *)
Descendants ==
  [w \in Work |-> {d \in Work : \A S \in SUBSET Work :
     (\A c \in Work : (Parent[c] = w \/ Parent[c] \in S) => c \in S) => d \in S}]

(* All works above w, itself included.                                     *)
Lineage == [w \in Work |-> {a \in Work : a = w \/ w \in Descendants[a]}]

(* Fault: success is taken from the status alone.                          *)
SatisfiedByStatus(d) == status[d] = "succeeded" /\ ~cancel[d]

(* A prerequisite that lets its dependents run: it succeeded, was not      *)
(* cancelled, and its committed result is satisfied at its last version.   *)
Satisfied(d) ==
  /\ status[d] = "succeeded" /\ ~cancel[d]
  /\ result[d].version = version[d] /\ result[d].satisfied

(* Fault: a failed prerequisite is forgotten.                              *)
SpoiledUnlessFailed(d) == status[d] \in {"partial", "blocked", "cancelled"} \/ cancel[d]

(* A prerequisite that will never satisfy: resumeDependents' first WHERE.  *)
Spoiled(d) ==
  \/ status[d] \in {"partial", "blocked", "failed", "cancelled"}
  \/ cancel[d]
  \/ status[d] = "succeeded" /\ ~(result[d].version = version[d] /\ result[d].satisfied)

(* Only enqueueChild writes agent_work_dependencies; a root job's          *)
(* dependsOn stays in its meta.                                            *)
HardDeps(w) == IF Parent[w] = 0 THEN {} ELSE Deps[w]

-----------------------------------------------------------------------------
(* Effects shared by several operations *)

(* Fault: rows a worker holds are spared.                                  *)
CancellableIdle(D) == {x \in D : status[x] \in {"queued", "waiting"}}

(* cancelDescendants and cancelRun on a set of rows: a leased row keeps    *)
(* its lease and only learns of the cancellation.                          *)
Cancellable(D) == {x \in D : status[x] \in Active}
CancelFlag(D) == [x \in Work |-> cancel[x] \/ x \in Cancellable(D)]
CancelStatus(D) ==
  [x \in Work |-> IF x \in Cancellable(D) /\ status[x] # "leased" THEN "cancelled" ELSE status[x]]
CancelGoal(D) ==
  [x \in Work |-> IF x \in Cancellable(D) /\ status[x] # "leased"
                  THEN Goal("blocked", 0, version[x]) ELSE goal[x]]

(* DELETE FROM agent_os_session_leases WHERE work_id = w AND fence = f     *)
DropSession(w, f) ==
  [s \in Session |-> IF sessionLease[s].work = w /\ sessionLease[s].fence = f
                     THEN NoLease ELSE sessionLease[s]]

(* Fault: the heartbeat renews the row and not the session row.            *)
RenewRowOnly(w, f, e) == sessionLease

(* UPDATE agent_os_session_leases SET expires_at = e WHERE the same        *)
RenewSession(w, f, e) ==
  [s \in Session |-> IF sessionLease[s].work = w /\ sessionLease[s].fence = f
                     THEN [sessionLease[s] EXCEPT !.expires = e] ELSE sessionLease[s]]

(* DELETE FROM agent_os_session_leases WHERE expires_at <= NOW()           *)
UnexpiredSessions(t) ==
  [s \in Session |-> IF sessionLease[s].expires <= t THEN NoLease ELSE sessionLease[s]]

(* Fault: the trigger looks the attempt up by the new row's fence.         *)
EndAttemptsByNewFence(S) ==
  {IF a.work \in S /\ a.fence = fence[a.work] + 1 THEN [a EXCEPT !.open = FALSE] ELSE a : a \in attempts}

(* The track_attempt trigger, first half: rows of S leave the lease of     *)
(* their current fence.                                                    *)
EndAttempts(S) ==
  {IF a.work \in S /\ a.fence = fence[a.work] THEN [a EXCEPT !.open = FALSE] ELSE a : a \in attempts}

(* Bound: the clock still reaches the instant a released row is available. *)
InHorizon(t) == t + Delay <= MaxTime

(* Bound: a requeued row that may be claimed again has a fence left for it. *)
FenceLeft(w) == cancel[w] \/ fence[w] + 1 < MaxFence

-----------------------------------------------------------------------------
Init ==
  /\ clock = 1
  /\ status = [w \in Work |-> "absent"]
  /\ fence = [w \in Work |-> 0] /\ token = [w \in Work |-> 0]
  /\ expires = [w \in Work |-> 0] /\ available = [w \in Work |-> 0]
  /\ cancel = [w \in Work |-> FALSE] /\ preempt = [w \in Work |-> 0]
  /\ version = [w \in Work |-> 1] /\ lane = InitLane
  /\ goal = [w \in Work |-> NoGoal] /\ result = [w \in Work |-> NoResult]
  /\ born = [w \in Work |-> 0] /\ snapshot = [w \in Work |-> 0]
  /\ unknown = [w \in Work |-> 0]
  /\ waits = {} /\ attempts = {}
  /\ sessionLease = [s \in Session |-> NoLease]
  /\ route = [s \in Session |-> [worker |-> NoWorker, epoch |-> 0]]

Tick ==
  /\ clock < MaxTime /\ clock' = clock + 1
  /\ UNCHANGED <<leaseVars, requestVars, route>>

-----------------------------------------------------------------------------
(* Enqueueing *)

(* enqueueWork for a root job; a repeated id is deduplicated.              *)
EnqueueWork(w, t) ==
  /\ status[w] = "absent" /\ Parent[w] = 0
  /\ status' = [status EXCEPT ![w] = "queued"]
  /\ available' = [available EXCEPT ![w] = t]
  /\ UNCHANGED <<clock, fence, token, expires, preempt, attempts, sessionLease, requestVars, route>>

(* saveSession by a live attempt: the request snapshot grows by revisions  *)
(* the attempt knows of, which may not be the last ones.                   *)
SaveRequest(w, f, t) ==
  /\ HoldsLease(w, f, t)
  /\ \E v \in 1..version[w] : v > snapshot[w] /\ snapshot' = [snapshot EXCEPT ![w] = v]
  /\ UNCHANGED <<clock, leaseVars, cancel, version, lane, goal, result, born, unknown, waits, route>>

(* Fault: revisions are not looked at again.                               *)
InActionOfAnyVersion(w, f, t) == HoldsLease(w, f, t) /\ ~cancel[w] /\ snapshot[w] # 0

(* lockAction and requestSnapshot, and deliverMessage's first SELECT: the  *)
(* transaction of a live attempt whose request is not cancelled and whose  *)
(* snapshot has every revision.                                            *)
InAction(w, f, t) == HoldsLease(w, f, t) /\ ~cancel[w] /\ snapshot[w] = version[w]

(* enqueueChild: every ancestor is active and not cancelled, dependencies  *)
(* are siblings of the same version, and the child belongs to the version  *)
(* of the parent's snapshot.                                               *)
InsertChild(p, c, t) ==
  /\ status[c] = "absent" /\ Parent[c] = p
  /\ \A a \in Lineage[p] : status[a] \in Active /\ ~cancel[a]
  /\ \A d \in Deps[c] : d # c /\ status[d] # "absent" /\ Parent[d] = p /\ born[d] = snapshot[p]
  /\ status' = [status EXCEPT ![c] = "queued"]
  /\ available' = [available EXCEPT ![c] = t]
  /\ born' = [born EXCEPT ![c] = snapshot[p]]
  /\ UNCHANGED <<clock, fence, token, expires, preempt, attempts, sessionLease,
                 cancel, version, lane, goal, result, snapshot, unknown, waits, route>>

(* A tool of attempt f creates a child.                                    *)
EnqueueChild(w, f, c, t) == InAction(w, f, t) /\ InsertChild(w, c, t)

(* enqueueDelegated: the server creates a child of a stored request        *)
(* without a lease; it reads the snapshot, not the row's revisions.        *)
EnqueueDelegated(p, c, t) == snapshot[p] # 0 /\ InsertChild(p, c, t)

(* waitForChildren: the exact fan-in set, anchored at its least id.  The   *)
(* anchor cannot be reused for another set.                                *)
WaitForChildren(w, f, kids, t) ==
  /\ InAction(w, f, t)
  /\ \A c \in kids : status[c] # "absent" /\ Parent[c] = w /\ born[c] = version[w]
  /\ \E anchor \in kids :
       /\ \A c \in kids : anchor <= c
       /\ \A r \in waits : ~(r.parent = w /\ r.version = version[w] /\ r.task = anchor)
       /\ waits' = waits \cup {[parent |-> w, version |-> version[w], task |-> anchor, children |-> kids]}
  /\ UNCHANGED <<clock, leaseVars, cancel, version, lane, goal, result, born, snapshot, unknown, route>>

-----------------------------------------------------------------------------
(* Leasing *)

(* The candidate WHERE clause of claim, the row's own part and the rest.   *)
Eligible(w, t) ==
  /\ status[w] = "queued" \/ (status[w] = "leased" /\ expires[w] <= t)
  /\ ~cancel[w]
  /\ available[w] <= t

Claimable(w, t) ==
  /\ Eligible(w, t)
  /\ \A d \in HardDeps(w) : Satisfied(d)
  /\ \A d \in Deps[w] : status[d] \notin Active \cup {"absent"}
  /\ ~LiveSession(SessionOf[w], t)

(* Fault: a new worker inherits the epoch.                                 *)
HomeEpochKept(s, k) == IF route[s].epoch = 0 THEN 1 ELSE route[s].epoch

(* The home epoch a claim by worker k hands out: a new one with a new      *)
(* worker.                                                                 *)
HomeEpoch(s, k) == IF route[s].worker = k THEN route[s].epoch ELSE route[s].epoch + 1

(* claim: any candidate may win, since FOR UPDATE SKIP LOCKED passes over  *)
(* better ones that another statement holds.  preempt_requested_at is not  *)
(* cleared: a request made to an expired attempt stands for the next one.  *)
Claim(k, w, t) ==
  LET s == SessionOf[w]
      f == fence[w] + 1
      home == HomeEpoch(s, k)
  IN /\ fence[w] < MaxFence
     /\ Claimable(w, t)
     /\ sessionLease' = [UnexpiredSessions(t) EXCEPT ![s] = [work |-> w, fence |-> f, expires |-> t + TTL]]
     /\ route' = [route EXCEPT ![s] = [worker |-> k, epoch |-> home]]
     /\ status' = [status EXCEPT ![w] = "leased"]
     /\ fence' = [fence EXCEPT ![w] = f]
     /\ token' = [token EXCEPT ![w] = f]
     /\ expires' = [expires EXCEPT ![w] = t + TTL]
     /\ attempts' = EndAttempts({w}) \cup
          {[work |-> w, fence |-> f, worker |-> k, epoch |-> home, open |-> TRUE]}
     /\ UNCHANGED <<clock, available, preempt, requestVars>>

(* claim that finds no candidate, or loses the session row to another.     *)
ClaimNothing(t) ==
  /\ sessionLease' = UnexpiredSessions(t)
  /\ UNCHANGED <<clock, status, fence, token, expires, available, preempt, attempts, requestVars, route>>

(* heartbeat: renews the row and, if it still exists, the session row.     *)
Heartbeat(w, f, t) ==
  /\ HoldsLease(w, f, t)
  /\ expires' = [expires EXCEPT ![w] = t + TTL]
  /\ sessionLease' = RenewSession(w, f, t + TTL)
  /\ UNCHANGED <<clock, status, fence, token, available, preempt, attempts, requestVars, route>>

RequestPreempt(w, t) ==
  /\ InHorizon(t)
  /\ status[w] = "leased"
  /\ preempt' = [preempt EXCEPT ![w] = t]
  /\ UNCHANGED <<clock, status, fence, token, expires, available, attempts, sessionLease, requestVars, route>>

(* Rows of S go back to the queue under a new fence: yieldWork for one     *)
(* row, the scheduler's forced fencing for several.                        *)
Requeue(S, t) ==
  /\ status' = [x \in Work |-> IF x \in S THEN "queued" ELSE status[x]]
  /\ fence' = [x \in Work |-> IF x \in S THEN fence[x] + 1 ELSE fence[x]]
  /\ token' = [x \in Work |-> IF x \in S THEN 0 ELSE token[x]]
  /\ expires' = [x \in Work |-> IF x \in S THEN 0 ELSE expires[x]]
  /\ preempt' = [x \in Work |-> IF x \in S THEN 0 ELSE preempt[x]]
  /\ available' = [x \in Work |-> IF x \in S THEN t + Delay ELSE available[x]]
  /\ attempts' = EndAttempts(S)

YieldWork(w, f, t) ==
  /\ InHorizon(t) /\ FenceLeft(w)
  /\ HoldsLease(w, f, t)
  /\ preempt[w] # 0
  /\ Requeue({w}, t)
  /\ sessionLease' = DropSession(w, f)
  /\ UNCHANGED <<clock, requestVars, route>>

(* sweepQueuedWork, first statement: a leased row is flagged when a row of *)
(* a higher lane has been available in its session for Watchdog.           *)
Tripped(t) ==
  {w \in Work : /\ status[w] = "leased" /\ preempt[w] = 0
                /\ \E v \in Work : /\ status[v] = "queued" /\ ~cancel[v]
                                   /\ SessionOf[v] = SessionOf[w]
                                   /\ lane[v] > lane[w]
                                   /\ available[v] + Watchdog <= t}

SweepTrip(t) ==
  /\ InHorizon(t)
  /\ Tripped(t) # {}
  /\ preempt' = [w \in Work |-> IF w \in Tripped(t) THEN t ELSE preempt[w]]
  /\ UNCHANGED <<clock, status, fence, token, expires, available, attempts, sessionLease, requestVars, route>>

(* sweepQueuedWork, transaction: flagged rows past Grace are fenced off,   *)
(* their session rows go whatever fence they carry.                        *)
Overdue(t) == {w \in Work : status[w] = "leased" /\ preempt[w] # 0 /\ preempt[w] + Grace <= t}

SweepFence(t) ==
  /\ InHorizon(t) /\ \A w \in Overdue(t) : FenceLeft(w)
  /\ Overdue(t) # {}
  /\ Requeue(Overdue(t), t)
  /\ sessionLease' = [s \in Session |-> IF sessionLease[s].work \in Overdue(t) THEN NoLease ELSE sessionLease[s]]
  /\ UNCHANGED <<clock, requestVars, route>>

-----------------------------------------------------------------------------
(* Ending an attempt *)

(* The row and session updates of settle and of a result commit, with      *)
(* cancelDescendants unless the row only waits.                            *)
EndLease(w, f, st, g) ==
  LET D == IF st = "waiting" THEN {} ELSE Descendants[w] \ {w}
  IN /\ status' = [CancelStatus(D) EXCEPT ![w] = st]
     /\ goal' = [CancelGoal(D) EXCEPT ![w] = g]
     /\ cancel' = CancelFlag(D)
     /\ token' = [token EXCEPT ![w] = 0]
     /\ expires' = [expires EXCEPT ![w] = 0]
     /\ sessionLease' = DropSession(w, f)
     /\ attempts' = EndAttempts({w})

(* settle: failure and cancellation always land; any other end needs a     *)
(* request not cancelled, an outcome for a captured request, and an        *)
(* outcome of the last version.                                            *)
Accepted(w, st, g) ==
  \/ st \in {"failed", "cancelled"}
  \/ /\ ~cancel[w]
     /\ w \in Captured => g # NoGoal
     /\ g # NoGoal => g.version = version[w]

Settle(w, f, t, st, g) ==
  /\ HoldsLease(w, f, t)
  /\ Accepted(w, st, g)
  /\ EndLease(w, f, st, g)
  /\ UNCHANGED <<clock, fence, available, preempt, version, lane, result, born, snapshot, unknown, waits, route>>

(* The version complete() compares an outcome with: the saved request's.   *)
SavedVersion(w) == IF snapshot[w] = 0 THEN 1 ELSE snapshot[w]

(* complete: a satisfied outcome must already be the committed one; a run  *)
(* that fails or is cancelled reports itself blocked.                      *)
Complete(w, f, t) ==
  \/ \E k \in Outcomes :
       /\ k = "satisfied" => result[w].satisfied /\ result[w].version = SavedVersion(w)
       /\ Settle(w, f, t, WorkStatusOf(k), Goal(k, 0, SavedVersion(w)))
  \/ Settle(w, f, t, WorkStatusOf("none"), NoGoal)
  \/ \E st \in {"failed", "cancelled"} : Settle(w, f, t, st, Goal("blocked", 0, SavedVersion(w)))

(* The outcomes validateWait admits: a child of this version, or a durable *)
(* question or pending approval.                                           *)
WaitGoals(w) ==
  {Goal("delegated", c, snapshot[w]) :
     c \in {d \in Work : Parent[d] = w /\ status[d] # "absent" /\ born[d] = snapshot[w]}}
  \cup (IF w \in AskUser
        THEN {Goal(k, 0, snapshot[w]) : k \in {"awaiting_input", "awaiting_approval"}} ELSE {})

(* waitWork.  Bound: another attempt is left.                              *)
Wait(w, f, t) ==
  /\ fence[w] < MaxFence
  /\ ~cancel[w] /\ snapshot[w] # 0
  /\ \E g \in WaitGoals(w) : Settle(w, f, t, "waiting", g)

(* The outcomes commitResult lets through: judged against the saved        *)
(* request, and satisfied only without an unknown effect.                  *)
CommitGoals(w) ==
  WaitGoals(w) \cup {Goal(k, 0, snapshot[w]) :
                      k \in {o \in Outcomes : o = "satisfied" => unknown[w] = 0}}

(* deliverMessage: the result, the outcome and the end of the lease are    *)
(* one transaction.  A satisfied result is never replaced.                 *)
CommitResult(w, f, t) ==
  /\ InAction(w, f, t)
  /\ ~result[w].satisfied
  /\ \E g \in CommitGoals(w) :
       /\ g.kind \in WaitKinds => fence[w] < MaxFence
       /\ EndLease(w, f, WorkStatusOf(g.kind), g)
       /\ result' = [result EXCEPT ![w] =
            [version |-> snapshot[w], satisfied |-> g.kind = "satisfied"]]
  /\ UNCHANGED <<clock, fence, available, preempt, version, lane, born, snapshot, unknown, waits, route>>

-----------------------------------------------------------------------------
(* Requests from outside *)

(* requestCancel, cancelRun and a parent's cancelChild.                    *)
RequestCancel(w) ==
  LET D == {w} \cup Descendants[w]
  IN /\ status[w] \in Active
     /\ status' = CancelStatus(D) /\ goal' = CancelGoal(D) /\ cancel' = CancelFlag(D)
     /\ UNCHANGED <<clock, fence, token, expires, available, preempt, attempts, sessionLease,
                    version, lane, result, born, snapshot, unknown, waits, route>>

(* addSteer, reviseRun and reviseChild: a revision revives a waiting row   *)
(* and cancels everything below it.                                        *)
AddSteer(w, t) ==
  LET D == Descendants[w] \ {w}
  IN /\ version[w] < MaxVersion /\ fence[w] < MaxFence
     /\ status[w] \in Active /\ ~cancel[w]
     /\ version' = [version EXCEPT ![w] = @ + 1]
     /\ status' = [CancelStatus(D) EXCEPT ![w] = IF status[w] = "waiting" THEN "queued" ELSE status[w]]
     /\ available' = [available EXCEPT ![w] = t]
     /\ goal' = [CancelGoal(D) EXCEPT ![w] = NoGoal]
     /\ cancel' = CancelFlag(D)
     /\ UNCHANGED <<clock, fence, token, expires, preempt, attempts, sessionLease,
                    lane, result, born, snapshot, unknown, waits, route>>

(* The update every resumption shares: back to the queue, outcome cleared. *)
Revive(S, t) ==
  /\ status' = [x \in Work |-> IF x \in S THEN "queued" ELSE status[x]]
  /\ available' = [x \in Work |-> IF x \in S THEN t ELSE available[x]]
  /\ goal' = [x \in Work |-> IF x \in S THEN NoGoal ELSE goal[x]]
  /\ UNCHANGED <<clock, fence, token, expires, preempt, attempts, sessionLease,
                 cancel, result, born, unknown, waits, route>>

(* continueInput: the answer is a revision of row and snapshot alike.      *)
ContinueInput(w, t) ==
  /\ version[w] < MaxVersion
  /\ status[w] = "waiting" /\ ~cancel[w]
  /\ goal[w].kind = "awaiting_input" /\ goal[w].version = version[w]
  /\ snapshot[w] = version[w]
  /\ ~LiveSession(SessionOf[w], t)
  /\ Revive({w}, t)
  /\ version' = [version EXCEPT ![w] = @ + 1]
  /\ snapshot' = [snapshot EXCEPT ![w] = version[w] + 1]
  /\ UNCHANGED lane

(* resumeDecidedApprovals, for a wait whose approval has been decided.     *)
ResumeDecidedApprovals(w, t) ==
  /\ status[w] = "waiting" /\ ~cancel[w]
  /\ goal[w].kind = "awaiting_approval" /\ goal[w].version = version[w]
  /\ Revive({w}, t)
  /\ lane' = [lane EXCEPT ![w] = 3]
  /\ UNCHANGED <<version, snapshot>>

(* An action of attempt f ends with its effect unknown.                    *)
RecordUnknown(w, f, t) ==
  /\ w \in Uncertain /\ InAction(w, f, t)
  /\ unknown[w] = 0
  /\ unknown' = [unknown EXCEPT ![w] = version[w]]
  /\ UNCHANGED <<clock, leaseVars, cancel, version, lane, goal, result, born, snapshot, waits, route>>

(* reconcileAction: the operator sends the run back to look the unknown    *)
(* effect up; ended runs are revived too.                                  *)
ReconcileAction(w, t) ==
  /\ fence[w] < MaxFence
  /\ unknown[w] # 0 /\ unknown[w] = version[w]
  /\ ~cancel[w]
  /\ status[w] \in {"queued", "waiting", "blocked", "partial", "failed"}
  /\ Revive({w}, t)
  /\ UNCHANGED <<version, snapshot, lane>>

(* resolveAction: the operator supplies the result; the run continues if   *)
(* it had failed at that version and its session is idle.                  *)
ResolveAction(w, t) ==
  /\ unknown[w] # 0
  /\ unknown' = [unknown EXCEPT ![w] = 0]
  /\ LET revived == /\ status[w] = "failed" /\ fence[w] < MaxFence
                    /\ goal[w].version = unknown[w]
                    /\ ~LiveSession(SessionOf[w], t)
     IN /\ status' = [status EXCEPT ![w] = IF revived THEN "queued" ELSE @]
        /\ available' = [available EXCEPT ![w] = IF revived THEN t ELSE @]
        /\ goal' = [goal EXCEPT ![w] = IF revived THEN NoGoal ELSE @]
  /\ UNCHANGED <<clock, fence, token, expires, preempt, attempts, sessionLease,
                 cancel, version, lane, result, born, snapshot, waits, route>>

-----------------------------------------------------------------------------
(* The dependency sweep.  resumeDependents runs after a settled row for    *)
(* that row, and every second for all rows; P is the set it looks at.      *)

(* Works that depend, through any chain, on each work: the least set that  *)
(* has its dependents and is closed under dependents.                      *)
Downstream ==
  [d \in Work |-> {x \in Work : \A S \in SUBSET Work :
     (\A y \in Work : HardDeps(y) \cap ({d} \cup S) # {} => y \in S) => x \in S}]

(* Works downstream of a spoiled row of P.                                 *)
Blocked(P) == UNION {Downstream[d] : d \in {x \in P : Spoiled(x)}}

BlockDependents(P) ==
  LET B == {x \in Blocked(P) : status[x] = "queued"}
  IN /\ B # {}
     /\ status' = [x \in Work |-> IF x \in B THEN "blocked" ELSE status[x]]
     /\ goal' = [x \in Work |-> IF x \in B THEN Goal("blocked", 0, version[x]) ELSE goal[x]]
     /\ UNCHANGED <<clock, fence, token, expires, available, preempt, attempts, sessionLease,
                    cancel, version, lane, result, born, snapshot, unknown, waits, route>>

(* The children a delegated wait is for: the exact set waitForChildren     *)
(* stored under its anchor, or all children of that version.               *)
Awaited(p) ==
  LET row == {r \in waits : r.parent = p /\ r.version = goal[p].version /\ r.task = goal[p].task}
  IN {c \in Work : /\ Parent[c] = p /\ status[c] # "absent" /\ born[c] = goal[p].version
                   /\ \A r \in row : c \in r.children}

(* Fault: only a child that succeeded wakes its parent.                    *)
ReadyParentsOnSuccess(P) ==
  {p \in Work : /\ p \in P \/ \E c \in P : Parent[c] = p
                /\ status[p] = "waiting" /\ goal[p].kind = "delegated" /\ ~cancel[p]
                /\ status[goal[p].task] = "succeeded"
                /\ \A c \in Awaited(p) : status[c] \notin Active}

ReadyParents(P) ==
  {p \in Work : /\ p \in P \/ \E c \in P : Parent[c] = p
                /\ status[p] = "waiting" /\ goal[p].kind = "delegated" /\ ~cancel[p]
                /\ status[goal[p].task] \in Terminal
                /\ \A c \in Awaited(p) : status[c] \notin Active}

ResumeParents(P, t) ==
  /\ ReadyParents(P) # {}
  /\ Revive(ReadyParents(P), t)
  /\ UNCHANGED <<version, snapshot, lane>>

-----------------------------------------------------------------------------
(* One step of a worker that presents the proof (w, f).                    *)
WorkerStep(w, f, t) ==
  \/ Heartbeat(w, f, t)
  \/ YieldWork(w, f, t)
  \/ SaveRequest(w, f, t)
  \/ RecordUnknown(w, f, t)
  \/ Complete(w, f, t)
  \/ Wait(w, f, t)
  \/ CommitResult(w, f, t)
  \/ \E c \in Work : EnqueueChild(w, f, c, t)
  \/ \E kids \in SUBSET {c \in Work : Parent[c] = w} : WaitForChildren(w, f, kids, t)

(* One step of the server on behalf of users and operators.                *)
ServerStep(w, t) ==
  \/ EnqueueWork(w, t)
  \/ \E c \in Work : EnqueueDelegated(w, c, t)
  \/ RequestCancel(w)
  \/ RequestPreempt(w, t)
  \/ AddSteer(w, t)
  \/ ContinueInput(w, t)
  \/ ResumeDecidedApprovals(w, t)
  \/ ReconcileAction(w, t)
  \/ ResolveAction(w, t)
  \/ BlockDependents({w})
  \/ ResumeParents({w}, t)

(* One pass of the server's timer.                                         *)
SweepStep(t) ==
  \/ SweepTrip(t)
  \/ SweepFence(t)
  \/ BlockDependents(Work)
  \/ ResumeParents(Work, t)

Next ==
  \/ Tick
  \/ \E t \in Stamp :
       \/ SweepStep(t)
       \/ ClaimNothing(t)
       \/ \E k \in Worker, w \in Work : Claim(k, w, t)
       \/ \E w \in Work : ServerStep(w, t) \/ \E f \in Issued(w) : WorkerStep(w, f, t)

Spec == Init /\ [][Next]_vars

(* Fairness.  The workers' loops keep claiming while anything is claimable *)
(* and end the attempts they hold; the server's one-second timer keeps     *)
(* sweeping.  Nothing is assumed of users and operators, and nothing of    *)
(* which row a claim takes.                                                *)
WorkersRun ==
  \E w \in Work, t \in Stamp :
    \/ \E k \in Worker : Claim(k, w, t)
    \/ \E f \in Issued(w) : Complete(w, f, t)

Fairness ==
  /\ WF_vars(WorkersRun)
  /\ WF_vars(BlockDependents(Work))
  /\ WF_vars(\E t \in Stamp : ResumeParents(Work, t))

FairSpec == Spec /\ Fairness

-----------------------------------------------------------------------------
(* Properties *)

(* Every column keeps its type and the clock its bound.                    *)
TypeOK ==
  /\ clock \in 1..MaxTime
  /\ status \in [Work -> Active \cup Terminal \cup {"absent"}]
  /\ fence \in [Work -> Nat] /\ token \in [Work -> Nat]
  /\ expires \in [Work -> Nat] /\ available \in [Work -> Nat]
  /\ cancel \in [Work -> BOOLEAN] /\ preempt \in [Work -> Nat]
  /\ version \in [Work -> Nat \ {0}] /\ lane \in [Work -> 1..4]
  /\ goal \in [Work -> [kind : GoalKinds \cup {"none"}, task : Work \cup {0}, version : Nat]]
  /\ result \in [Work -> [version : Nat, satisfied : BOOLEAN]]
  /\ born \in [Work -> Nat] /\ snapshot \in [Work -> Nat] /\ unknown \in [Work -> Nat]
  /\ waits \subseteq [parent : Work, version : Nat, task : Work, children : SUBSET Work]
  /\ sessionLease \in [Session -> [work : Work \cup {0}, fence : Nat, expires : Nat]]
  /\ route \in [Session -> [worker : Worker \cup {NoWorker}, epoch : Nat]]
  /\ attempts \subseteq [work : Work, fence : Nat, worker : Worker, epoch : Nat, open : BOOLEAN]

LiveLease(w) == status[w] = "leased" /\ expires[w] > clock

(* stores.ts: at most one live lease exists per session key.               *)
SessionExclusive ==
  \A w, v \in Work : LiveLease(w) /\ LiveLease(v) /\ SessionOf[w] = SessionOf[v] => w = v

(* A home directory is mounted by its epoch: the attempt of a live lease   *)
(* has the epoch its session is routed with, so no second worker was       *)
(* given a newer home while the first one may still write.                 *)
LiveLeaseOwnsRoute ==
  \A w \in Work : LiveLease(w) =>
    \E a \in attempts :
      /\ a.work = w /\ a.fence = fence[w] /\ a.open
      /\ route[SessionOf[w]] = [worker |-> a.worker, epoch |-> a.epoch]

(* One home epoch never belongs to two workers, however often the session  *)
(* moved in between.                                                       *)
EpochOwner ==
  \A a, b \in attempts :
    SessionOf[a.work] = SessionOf[b.work] /\ a.epoch = b.epoch => a.worker = b.worker

(* The attempt log agrees with the queue: the open attempts are the rows   *)
(* leased now, under their current fence; no proof of an ended attempt     *)
(* matches a row again.                                                    *)
OpenAttemptIsLease ==
  /\ \A a \in attempts : a.open <=> (status[a.work] = "leased" /\ fence[a.work] = a.fence)
  /\ \A w \in Work : status[w] = "leased" => \E a \in attempts : a.work = w /\ a.fence = fence[w]

(* Whoever reads the attempt log learns which worker may still write to a  *)
(* home, and which proofs count: both hold over any order of claims,       *)
(* yields, sweeps and ends.                                                *)
AttemptLogKept == EpochOwner /\ OpenAttemptIsLease

(* Children live and die with their parent: a child that may still run has *)
(* a parent that is active and not cancelled.                              *)
OrphanFree ==
  \A c \in Work : Parent[c] # 0 /\ status[c] \in Active /\ ~cancel[c] =>
    status[Parent[c]] \in Active /\ ~cancel[Parent[c]]

(* A captured request that ended with an outcome has one that judges its   *)
(* last revision, whatever steer raced with the commit.                    *)
RevisionAnswered ==
  \A w \in Captured : status[w] \in {"succeeded", "partial", "blocked"} =>
    goal[w] # NoGoal /\ goal[w].version = version[w]

(* A child only ever ran with every prerequisite's current, satisfied      *)
(* result committed.                                                       *)
PrerequisitesMet ==
  \A w \in Work : Parent[w] # 0 /\ fence[w] > 0 =>
    \A d \in Deps[w] : /\ status[d] = "succeeded" /\ ~cancel[d]
                       /\ result[d].satisfied /\ result[d].version = version[d]

(* A parent waiting for children is resumed, steered or cancelled, also    *)
(* when they finished before it parked.  The exception is a child that was *)
(* asked to cancel and to yield at once: it returns to the queue, which no *)
(* claim and no sweep ends.                                                *)
DelegatedParentResumes ==
  \A p \in {Parent[c] : c \in Work} \ {0} :
    (status[p] = "waiting" /\ goal[p].kind = "delegated")
      ~> (status[p] # "waiting" \/ \E c \in Work : Parent[c] = p /\ status[c] = "queued" /\ cancel[c])

(* A failed branch blocks its downstream nodes: a queued child behind an   *)
(* ended, unsatisfied prerequisite does not stay queued.                   *)
FailedBranchBlocks ==
  \A c \in {x \in Work : Parent[x] # 0} : \A d \in Deps[c] :
    (status[c] = "queued" /\ status[d] \in Terminal \ {"succeeded"})
      ~> status[c] # "queued"

(* The queue implements a lock per session: holder is the work whose lease *)
(* on the session is live.                                                 *)
Holder ==
  [s \in Session |->
     LET live == {w \in Work : SessionOf[w] = s /\ LiveLease(w)}
     IN IF live = {} THEN 0 ELSE CHOOSE w \in live : TRUE]

Lock == INSTANCE SessionLock WITH holder <- Holder, granted <- fence

(* Sessions pass from one run to another only through being free, under    *)
(* ever larger fences.                                                     *)
LockSpec == Lock!Spec
=============================================================================
