--------------------------- MODULE WorkStoreProofs ---------------------------
(***************************************************************************)
(* Theorems about the work queue for every set of works, sessions and      *)
(* workers and every bound: its types, its end states, its prerequisites,  *)
(* its revisions and its trees of delegated work.                          *)
(***************************************************************************)
EXTENDS WorkStore, TLAPS

-----------------------------------------------------------------------------
(* Type correctness *)

LEMMA InitTypes == Init => TypeOK
  BY StructureAssumption, TimeAssumption
  DEF Init, TypeOK, NoGoal, NoResult, NoLease, GoalKinds, WaitKinds, Active, Terminal

(* The values the operations assign have the types of their columns.       *)
LEMMA GoalType ==
  ASSUME NEW k \in GoalKinds, NEW c \in Work \cup {0}, NEW v \in Nat
  PROVE  Goal(k, c, v) \in [kind : GoalKinds \cup {"none"}, task : Work \cup {0}, version : Nat]
  BY DEF Goal

LEMMA SessionTypes ==
  ASSUME TypeOK, NEW w, NEW f, NEW e \in Nat, NEW t
  PROVE  /\ DropSession(w, f) \in [Session -> [work : Work \cup {0}, fence : Nat, expires : Nat]]
         /\ RenewSession(w, f, e) \in [Session -> [work : Work \cup {0}, fence : Nat, expires : Nat]]
         /\ UnexpiredSessions(t) \in [Session -> [work : Work \cup {0}, fence : Nat, expires : Nat]]
  BY DEF TypeOK, DropSession, RenewSession, UnexpiredSessions, NoLease

AttemptType == [work : Work, fence : Nat, worker : Worker, epoch : Nat, open : BOOLEAN]

LEMMA AttemptTypes ==
  ASSUME attempts \subseteq AttemptType, NEW S
  PROVE  EndAttempts(S) \subseteq AttemptType
<1>1. ASSUME NEW a \in AttemptType PROVE [a EXCEPT !.open = FALSE] \in AttemptType
  BY DEF AttemptType
<1>2. ASSUME NEW a \in attempts
      PROVE  (IF a.work \in S /\ a.fence = fence[a.work] THEN [a EXCEPT !.open = FALSE] ELSE a) \in AttemptType
  BY <1>1
<1>3. QED  BY <1>2 DEF EndAttempts

LEMMA CancelTypes ==
  ASSUME TypeOK, NEW D
  PROVE  /\ CancelFlag(D) \in [Work -> BOOLEAN]
         /\ CancelStatus(D) \in [Work -> Active \cup Terminal \cup {"absent"}]
         /\ CancelGoal(D) \in [Work -> [kind : GoalKinds \cup {"none"}, task : Work \cup {0}, version : Nat]]
  BY GoalType DEF TypeOK, CancelFlag, CancelStatus, CancelGoal, Terminal, GoalKinds

(* What ending a lease assigns has the types of its columns.               *)
LEMMA EndLeaseTypes ==
  ASSUME TypeOK, NEW w \in Work, NEW f,
         NEW st \in Active \cup Terminal \cup {"absent"},
         NEW g \in [kind : GoalKinds \cup {"none"}, task : Work \cup {0}, version : Nat],
         EndLease(w, f, st, g)
  PROVE  /\ status' \in [Work -> Active \cup Terminal \cup {"absent"}]
         /\ goal' \in [Work -> [kind : GoalKinds \cup {"none"}, task : Work \cup {0}, version : Nat]]
         /\ cancel' \in [Work -> BOOLEAN]
         /\ token' \in [Work -> Nat] /\ expires' \in [Work -> Nat]
         /\ sessionLease' \in [Session -> [work : Work \cup {0}, fence : Nat, expires : Nat]]
         /\ attempts' \subseteq AttemptType
<1> DEFINE D == IF st = "waiting" THEN {} ELSE Descendants[w] \ {w}
<1>1. /\ status' = [CancelStatus(D) EXCEPT ![w] = st]
      /\ goal' = [CancelGoal(D) EXCEPT ![w] = g]
      /\ cancel' = CancelFlag(D)
  BY DEF EndLease
<1> HIDE DEF D
<1>2. /\ status' \in [Work -> Active \cup Terminal \cup {"absent"}]
      /\ goal' \in [Work -> [kind : GoalKinds \cup {"none"}, task : Work \cup {0}, version : Nat]]
      /\ cancel' \in [Work -> BOOLEAN]
  BY <1>1, CancelTypes
<1>3. /\ token' \in [Work -> Nat] /\ expires' \in [Work -> Nat]
  BY DEF EndLease, TypeOK
<1>4. sessionLease' \in [Session -> [work : Work \cup {0}, fence : Nat, expires : Nat]]
  BY SessionTypes, 0 \in Nat DEF EndLease
<1>5. attempts' \subseteq AttemptType
  BY AttemptTypes DEF EndLease, TypeOK, AttemptType
<1>6. QED  BY <1>2, <1>3, <1>4, <1>5

LEMMA SettleTypes ==
  ASSUME TypeOK, NEW w \in Work, NEW f, NEW t,
         NEW st \in Active \cup Terminal \cup {"absent"},
         NEW g \in [kind : GoalKinds \cup {"none"}, task : Work \cup {0}, version : Nat],
         Settle(w, f, t, st, g)
  PROVE  TypeOK'
<1>1. EndLease(w, f, st, g)
  BY DEF Settle
<1>2. QED  BY <1>1, EndLeaseTypes DEF Settle, TypeOK, AttemptType

LEMMA WaitGoalTypes ==
  ASSUME TypeOK, NEW w \in Work, NEW g \in WaitGoals(w)
  PROVE  /\ g \in [kind : GoalKinds \cup {"none"}, task : Work \cup {0}, version : Nat]
         /\ WorkStatusOf(g.kind) = "waiting"
  BY GoalType DEF WaitGoals, TypeOK, GoalKinds, WaitKinds, WorkStatusOf, Goal

LEMMA NextTypes == TypeOK /\ [Next]_vars => TypeOK'
<1> SUFFICES ASSUME TypeOK, [Next]_vars PROVE TypeOK'
  OBVIOUS
<1> USE StructureAssumption, TimeAssumption
<1> DEFINE SL == [Session -> [work : Work \cup {0}, fence : Nat, expires : Nat]]
           GT == [kind : GoalKinds \cup {"none"}, task : Work \cup {0}, version : Nat]
<1>1. CASE UNCHANGED vars
  BY <1>1 DEF TypeOK, vars, leaseVars, requestVars
<1>2. CASE Tick
  BY <1>2 DEF TypeOK, Tick, leaseVars, requestVars
<1>3. ASSUME NEW t \in Stamp, SweepStep(t) PROVE TypeOK'
  <2>0. t \in Nat /\ t + Delay \in Nat
    BY DEF Stamp
  <2>1. CASE SweepTrip(t)
    BY <2>0, <2>1 DEF TypeOK, SweepTrip, requestVars
  <2>2. CASE SweepFence(t)
    <3>1. attempts' \subseteq AttemptType
      BY <2>2, AttemptTypes DEF TypeOK, SweepFence, Requeue, AttemptType
    <3>2. QED  BY <2>0, <2>2, <3>1 DEF TypeOK, SweepFence, Requeue, requestVars, Active, NoLease, AttemptType
  <2>3. CASE BlockDependents(Work)
    <3>1. goal' \in [Work -> GT]
      BY <2>3, GoalType DEF TypeOK, BlockDependents, GoalKinds
    <3>2. QED  BY <2>3, <3>1 DEF TypeOK, BlockDependents, Terminal
  <2>4. CASE ResumeParents(Work, t)
    BY <2>0, <2>4 DEF TypeOK, ResumeParents, Revive, NoGoal, Active
  <2>5. QED  BY <1>3, <2>1, <2>2, <2>3, <2>4 DEF SweepStep
<1>4. ASSUME NEW t \in Stamp, ClaimNothing(t) PROVE TypeOK'
  <2>1. sessionLease' \in SL
    BY <1>4, SessionTypes, 0 \in Nat DEF ClaimNothing
  <2>2. QED  BY <1>4, <2>1 DEF TypeOK, ClaimNothing, requestVars
<1>5. ASSUME NEW t \in Stamp, NEW k \in Worker, NEW w \in Work, Claim(k, w, t) PROVE TypeOK'
  <2>0. /\ t + TTL \in Nat /\ fence[w] + 1 \in Nat /\ SessionOf[w] \in Session
        /\ HomeEpoch(SessionOf[w], k) \in Nat
    BY DEF Stamp, TypeOK, HomeEpoch
  <2>1. sessionLease' \in SL
    BY <1>5, <2>0, SessionTypes DEF Claim
  <2>2. attempts' \subseteq AttemptType
    <3>1. [work |-> w, fence |-> fence[w] + 1, worker |-> k, epoch |-> HomeEpoch(SessionOf[w], k), open |-> TRUE]
            \in AttemptType
      BY <2>0 DEF AttemptType
    <3>2. EndAttempts({w}) \subseteq AttemptType
      BY AttemptTypes DEF TypeOK, AttemptType
    <3>3. QED  BY <1>5, <3>1, <3>2 DEF Claim
  <2>3. QED  BY <1>5, <2>0, <2>1, <2>2 DEF TypeOK, Claim, requestVars, Active, AttemptType
<1>6. ASSUME NEW t \in Stamp, NEW w \in Work, ServerStep(w, t) PROVE TypeOK'
  <2>0. t \in Nat
    BY DEF Stamp
  <2>1. CASE EnqueueWork(w, t)
    BY <2>0, <2>1 DEF TypeOK, EnqueueWork, requestVars, Active
  <2>2. CASE \E c \in Work : EnqueueDelegated(w, c, t)
    BY <2>0, <2>2 DEF TypeOK, EnqueueDelegated, InsertChild, Active
  <2>3. CASE RequestCancel(w)
    BY <2>3, CancelTypes DEF TypeOK, RequestCancel
  <2>4. CASE RequestPreempt(w, t)
    BY <2>0, <2>4 DEF TypeOK, RequestPreempt, requestVars
  <2>5. CASE AddSteer(w, t)
    <3>1. /\ status' \in [Work -> Active \cup Terminal \cup {"absent"}]
          /\ goal' \in [Work -> GT]
          /\ cancel' \in [Work -> BOOLEAN]
      BY <2>5, CancelTypes DEF AddSteer, Active, NoGoal, TypeOK
    <3>2. version' \in [Work -> Nat \ {0}]
      BY <2>5 DEF TypeOK, AddSteer
    <3>3. QED  BY <2>0, <2>5, <3>1, <3>2 DEF TypeOK, AddSteer
  <2>6. CASE ContinueInput(w, t)
    BY <2>0, <2>6 DEF TypeOK, ContinueInput, Revive, NoGoal, Active
  <2>7. CASE ResumeDecidedApprovals(w, t)
    BY <2>0, <2>7 DEF TypeOK, ResumeDecidedApprovals, Revive, NoGoal, Active
  <2>8. CASE ReconcileAction(w, t)
    BY <2>0, <2>8 DEF TypeOK, ReconcileAction, Revive, NoGoal, Active
  <2>9. CASE ResolveAction(w, t)
    BY <2>0, <2>9 DEF TypeOK, ResolveAction, NoGoal, Active
  <2>10. CASE BlockDependents({w})
    <3>1. goal' \in [Work -> GT]
      BY <2>10, GoalType DEF TypeOK, BlockDependents, GoalKinds
    <3>2. QED  BY <2>10, <3>1 DEF TypeOK, BlockDependents, Terminal
  <2>11. CASE ResumeParents({w}, t)
    BY <2>0, <2>11 DEF TypeOK, ResumeParents, Revive, NoGoal, Active
  <2>12. QED
    BY <1>6, <2>1, <2>2, <2>3, <2>4, <2>5, <2>6, <2>7, <2>8, <2>9, <2>10, <2>11 DEF ServerStep
<1>7. ASSUME NEW t \in Stamp, NEW w \in Work, NEW f \in Issued(w), WorkerStep(w, f, t) PROVE TypeOK'
  <2>0. t \in Nat /\ t + TTL \in Nat /\ t + Delay \in Nat
    BY DEF Stamp
  <2>1. CASE Heartbeat(w, f, t)
    <3>1. sessionLease' \in SL
      BY <2>0, <2>1, SessionTypes DEF Heartbeat
    <3>2. QED  BY <2>0, <2>1, <3>1 DEF TypeOK, Heartbeat, requestVars
  <2>2. CASE YieldWork(w, f, t)
    <3>1. attempts' \subseteq AttemptType
      BY <2>2, AttemptTypes DEF TypeOK, YieldWork, Requeue, AttemptType
    <3>2. sessionLease' \in SL
      BY <2>2, SessionTypes, 0 \in Nat DEF YieldWork
    <3>3. /\ status' \in [Work -> Active \cup Terminal \cup {"absent"}]
          /\ fence' \in [Work -> Nat] /\ token' \in [Work -> Nat] /\ expires' \in [Work -> Nat]
          /\ preempt' \in [Work -> Nat] /\ available' \in [Work -> Nat]
      BY <2>0, <2>2 DEF TypeOK, YieldWork, Requeue, Active
    <3>4. QED  BY <2>2, <3>1, <3>2, <3>3 DEF TypeOK, YieldWork, requestVars, AttemptType
  <2>3. CASE SaveRequest(w, f, t)
    BY <2>3 DEF TypeOK, SaveRequest, leaseVars
  <2>4. CASE RecordUnknown(w, f, t)
    BY <2>4 DEF TypeOK, RecordUnknown, leaseVars
  <2>5. CASE Complete(w, f, t)
    <3>0. SavedVersion(w) \in Nat
      BY DEF SavedVersion, TypeOK
    <3>1. ASSUME NEW k \in Outcomes, Settle(w, f, t, WorkStatusOf(k), Goal(k, 0, SavedVersion(w)))
          PROVE  TypeOK'
      <4>1. k \in GoalKinds /\ WorkStatusOf(k) \in Active \cup Terminal \cup {"absent"}
        BY DEF GoalKinds, WorkStatusOf, Active, Terminal
      <4>2. QED  BY <3>0, <3>1, <4>1, GoalType, SettleTypes
    <3>2. ASSUME Settle(w, f, t, WorkStatusOf("none"), NoGoal)
          PROVE  TypeOK'
      <4>1. WorkStatusOf("none") \in Active \cup Terminal \cup {"absent"}
        BY DEF WorkStatusOf, Terminal, WaitKinds
      <4>2. NoGoal \in GT
        BY DEF NoGoal
      <4>3. QED  BY <3>2, <4>1, <4>2, SettleTypes
    <3>3. ASSUME NEW st \in {"failed", "cancelled"}, Settle(w, f, t, st, Goal("blocked", 0, SavedVersion(w)))
          PROVE  TypeOK'
      <4>1. st \in Active \cup Terminal \cup {"absent"} /\ "blocked" \in GoalKinds
        BY DEF Terminal, GoalKinds
      <4>2. QED  BY <3>0, <3>3, <4>1, GoalType, SettleTypes
    <3>4. QED  BY <2>5, <3>1, <3>2, <3>3 DEF Complete
  <2>6. CASE Wait(w, f, t)
    <3>1. PICK g \in WaitGoals(w) : Settle(w, f, t, "waiting", g)
      BY <2>6 DEF Wait
    <3>2. "waiting" \in Active \cup Terminal \cup {"absent"}
      BY DEF Active
    <3>3. QED  BY <3>1, <3>2, WaitGoalTypes, SettleTypes
  <2>7. CASE CommitResult(w, f, t)
    <3>1. PICK g \in CommitGoals(w) :
            /\ EndLease(w, f, WorkStatusOf(g.kind), g)
            /\ result' = [result EXCEPT ![w] = [version |-> snapshot[w], satisfied |-> g.kind = "satisfied"]]
      BY <2>7 DEF CommitResult
    <3>2. g \in GT /\ WorkStatusOf(g.kind) \in Active \cup Terminal \cup {"absent"}
      <4>1. CASE g \in WaitGoals(w)
        BY <4>1, WaitGoalTypes DEF Active
      <4>2. CASE g \notin WaitGoals(w)
        <5>1. PICK k \in Outcomes : g = Goal(k, 0, snapshot[w])
          BY <4>2 DEF CommitGoals
        <5>2. QED  BY <5>1, GoalType DEF GoalKinds, WorkStatusOf, Active, Terminal, TypeOK, Goal
      <4>3. QED  BY <4>1, <4>2
    <3>3. result' \in [Work -> [version : Nat, satisfied : BOOLEAN]]
      BY <3>1 DEF TypeOK
    <3>4. QED  BY <2>7, <3>1, <3>2, <3>3, EndLeaseTypes DEF CommitResult, TypeOK, AttemptType
  <2>8. CASE \E c \in Work : EnqueueChild(w, f, c, t)
    BY <2>0, <2>8 DEF TypeOK, EnqueueChild, InsertChild, Active
  <2>9. CASE \E kids \in SUBSET {c \in Work : Parent[c] = w} : WaitForChildren(w, f, kids, t)
    <3>1. PICK kids \in SUBSET {c \in Work : Parent[c] = w} : WaitForChildren(w, f, kids, t)
      BY <2>9
    <3>2. waits' \subseteq [parent : Work, version : Nat, task : Work, children : SUBSET Work]
      <4>1. PICK anchor \in kids :
              waits' = waits \cup {[parent |-> w, version |-> version[w], task |-> anchor, children |-> kids]}
        BY <3>1 DEF WaitForChildren
      <4>2. [parent |-> w, version |-> version[w], task |-> anchor, children |-> kids]
              \in [parent : Work, version : Nat, task : Work, children : SUBSET Work]
        BY DEF TypeOK
      <4>3. QED  BY <4>1, <4>2 DEF TypeOK
    <3>3. QED  BY <3>1, <3>2 DEF TypeOK, WaitForChildren, leaseVars
  <2>10. QED
    BY <1>7, <2>1, <2>2, <2>3, <2>4, <2>5, <2>6, <2>7, <2>8, <2>9 DEF WorkerStep
<1>8. QED
  BY <1>1, <1>2, <1>3, <1>4, <1>5, <1>6, <1>7 DEF Next

(* Every behaviour of the queue keeps its columns well typed.              *)
THEOREM TypeCorrect == Spec => []TypeOK
<1>1. Init => TypeOK
  BY InitTypes
<1>2. TypeOK /\ [Next]_vars => TypeOK'
  BY NextTypes
<1>3. QED  BY <1>1, <1>2, PTL DEF Spec

-----------------------------------------------------------------------------
(* What a step may do to one row *)

Answered(x) == goal[x] # NoGoal /\ goal[x].version = version[x]
Ends == {"succeeded", "partial", "blocked"}

(* Fences only grow, under a lease or by a claim with every prerequisite   *)
(* satisfied; a row that succeeded is never touched again; a row gets      *)
(* its status, its snapshot, its children and its unknown effects from     *)
(* operations of its own run; an outcome is of the version it judges.      *)
Moved(x) ==
  /\ fence'[x] >= fence[x]
  /\ fence'[x] > fence[x] => status[x] = "leased" \/ \A d \in HardDeps(x) : Satisfied(d)
  /\ status[x] = "succeeded" =>
       status'[x] = "succeeded" /\ cancel'[x] = cancel[x] /\ result'[x] = result[x] /\ version'[x] = version[x]
  /\ status'[x] = "leased" => status[x] = "leased" \/ fence'[x] > 0
  /\ status'[x] = "succeeded" => status[x] \in {"leased", "succeeded"}
  /\ snapshot'[x] # 0 => snapshot[x] # 0 \/ status[x] = "leased"
  /\ status[x] = "absent" /\ status'[x] # "absent" /\ Parent[x] # 0 =>
       status[Parent[x]] = "leased" \/ snapshot[Parent[x]] # 0
  /\ unknown'[x] # 0 => unknown[x] # 0 \/ x \in Uncertain
  /\ x \in Captured /\ status'[x] \in Ends =>
       \/ status[x] = status'[x] /\ goal'[x] = goal[x] /\ version'[x] = version[x]
       \/ Answered(x)'

LEMMA CancelRow ==
  ASSUME TypeOK, NEW D, NEW x \in Work
  PROVE  /\ CancelStatus(D)[x] = status[x] \/ (CancelStatus(D)[x] = "cancelled" /\ status[x] \in {"queued", "waiting"})
         /\ CancelStatus(D)[x] = status[x] => CancelGoal(D)[x] = goal[x]
         /\ status[x] \notin Active => CancelFlag(D)[x] = cancel[x]
         /\ x \notin D => CancelStatus(D)[x] = status[x] /\ CancelFlag(D)[x] = cancel[x]
         /\ x \in D /\ status[x] \in Active => CancelFlag(D)[x] /\ CancelStatus(D)[x] \in {"leased", "cancelled"}
<1>1. status[x] \in Active \cup Terminal \cup {"absent"} /\ cancel[x] \in BOOLEAN
  BY DEF TypeOK
<1>2. x \in Cancellable(D) <=> x \in D /\ status[x] \in Active
  BY DEF Cancellable
<1>3. CancelFlag(D)[x] = (cancel[x] \/ x \in Cancellable(D))
  BY DEF CancelFlag
<1>4. CancelStatus(D)[x] = IF x \in Cancellable(D) /\ status[x] # "leased" THEN "cancelled" ELSE status[x]
  BY DEF CancelStatus
<1>5. CancelGoal(D)[x] = IF x \in Cancellable(D) /\ status[x] # "leased" THEN Goal("blocked", 0, version[x]) ELSE goal[x]
  BY DEF CancelGoal
<1>6. CASE x \in Cancellable(D) /\ status[x] # "leased"
  BY <1>1, <1>2, <1>3, <1>4, <1>6 DEF Active
<1>7. CASE ~(x \in Cancellable(D) /\ status[x] # "leased")
  BY <1>1, <1>2, <1>3, <1>4, <1>5, <1>7
<1> QED
  BY <1>6, <1>7

(* The row that ends its lease, and the others.                            *)
LEMMA EndLeaseRow ==
  ASSUME TypeOK, NEW w \in Work, NEW f, NEW st \in Active \cup Terminal, NEW g, status[w] = "leased",
         EndLease(w, f, st, g), NEW x \in Work
  PROVE  /\ x = w => status'[x] = st /\ goal'[x] = g
         /\ x # w => \/ status'[x] = status[x] /\ goal'[x] = goal[x]
                     \/ status'[x] = "cancelled" /\ status[x] \in {"queued", "waiting"}
         /\ status[x] \notin Active => cancel'[x] = cancel[x]
<1> DEFINE D == IF st = "waiting" THEN {} ELSE Descendants[w] \ {w}
<1>1. /\ status' = [CancelStatus(D) EXCEPT ![w] = st]
      /\ goal' = [CancelGoal(D) EXCEPT ![w] = g]
      /\ cancel' = CancelFlag(D)
  BY DEF EndLease
<1> HIDE DEF D
<1>2. DOMAIN CancelStatus(D) = Work /\ DOMAIN CancelGoal(D) = Work
  BY DEF CancelStatus, CancelGoal
<1> QED
  BY <1>1, <1>2, CancelRow

LEMMA EndMoves ==
  ASSUME TypeOK, NEW w \in Work, NEW f, NEW st \in Active \cup Terminal, st # "leased", NEW g,
         status[w] = "leased", EndLease(w, f, st, g), UNCHANGED <<fence, version, snapshot, unknown>>,
         \A x \in Work \ {w} : result'[x] = result[x],
         w \in Captured /\ st \in Ends => g # NoGoal /\ g.version = version[w],
         NEW x \in Work
  PROVE  Moved(x)
<1>2. /\ x = w => status'[x] = st /\ goal'[x] = g
      /\ x # w => \/ status'[x] = status[x] /\ goal'[x] = goal[x]
                  \/ status'[x] = "cancelled" /\ status[x] \in {"queued", "waiting"}
      /\ status[x] \notin Active => cancel'[x] = cancel[x]
  BY EndLeaseRow
<1>3. fence'[x] = fence[x] /\ fence[x] \in Nat /\ version'[x] = version[x]
  BY DEF TypeOK
<1>4. CASE x = w
  BY <1>2, <1>3, <1>4 DEF Moved, Answered, Active, Terminal
<1>5. CASE x # w
  BY <1>2, <1>3, <1>5 DEF Moved, Answered, Active, Terminal, Ends
<1> QED
  BY <1>4, <1>5

(* A step that leaves a row's request alone and its status active or as it *)
(* was.                                                                    *)
LEMMA PlainMove ==
  ASSUME TypeOK, NEW x \in Work, UNCHANGED <<cancel, version, result, goal, snapshot, unknown, fence>>,
         status'[x] = status[x] \/ (status[x] \in {"queued", "waiting", "leased"} /\ status'[x] = "queued")
  PROVE  Moved(x)
<1>1. fence'[x] = fence[x] /\ fence[x] \in Nat /\ version'[x] = version[x] /\ goal'[x] = goal[x]
  BY DEF TypeOK
<1> QED
  BY <1>1 DEF Moved, Ends

(* A row goes back to the queue.                                           *)
LEMMA RevivedMove ==
  ASSUME TypeOK, NEW x \in Work, NEW S, NEW t, Revive(S, t), \A y \in S : y \in Work => status[y] # "succeeded" /\ status[y] # "absent",
         x \notin S => version'[x] = version[x],
         snapshot'[x] # 0 => snapshot[x] # 0
  PROVE  Moved(x)
<1>1. fence'[x] = fence[x] /\ fence[x] \in Nat /\ UNCHANGED <<cancel, result, unknown>>
  BY DEF TypeOK, Revive
<1>2. CASE x \in S
  <2>1. status'[x] = "queued"
    BY <1>2 DEF Revive
  <2> QED
    BY <1>1, <1>2, <2>1 DEF Moved, Ends
<1>3. CASE x \notin S
  <2>1. status'[x] = status[x] /\ goal'[x] = goal[x]
    BY <1>3 DEF Revive
  <2> QED
    BY <1>1, <1>3, <2>1 DEF Moved
<1> QED
  BY <1>2, <1>3

LEMMA BlockMoves ==
  ASSUME TypeOK, NEW x \in Work, NEW P, BlockDependents(P)
  PROVE  Moved(x)
<1> DEFINE B == {y \in Blocked(P) : status[y] = "queued"}
<1>1. /\ status' = [y \in Work |-> IF y \in B THEN "blocked" ELSE status[y]]
      /\ goal' = [y \in Work |-> IF y \in B THEN Goal("blocked", 0, version[y]) ELSE goal[y]]
      /\ UNCHANGED <<fence, cancel, version, result, snapshot, unknown>>
  BY DEF BlockDependents
<1>2. x \in B => status[x] = "queued"
  OBVIOUS
<1> HIDE DEF B
<1>3. fence'[x] = fence[x] /\ fence[x] \in Nat /\ version'[x] = version[x]
  BY <1>1 DEF TypeOK
<1>4. CASE x \in B
  <2>1. status'[x] = "blocked" /\ goal'[x] = Goal("blocked", 0, version[x])
    BY <1>1, <1>4
  <2>2. Answered(x)'
    BY <1>3, <2>1 DEF Answered, Goal, NoGoal
  <2> QED
    BY <1>1, <1>2, <1>3, <1>4, <2>1, <2>2 DEF Moved
<1>5. CASE x \notin B
  <2>1. status'[x] = status[x] /\ goal'[x] = goal[x]
    BY <1>1, <1>5
  <2> QED
    BY <1>1, <1>3, <2>1 DEF Moved
<1> QED
  BY <1>4, <1>5

LEMMA InsertMoves ==
  ASSUME TypeOK, NEW x \in Work, NEW p \in Work, NEW c \in Work, NEW t, InsertChild(p, c, t),
         status[p] = "leased" \/ snapshot[p] # 0
  PROVE  Moved(x)
<1>1. /\ status[c] = "absent" /\ Parent[c] = p /\ status' = [status EXCEPT ![c] = "queued"]
      /\ UNCHANGED <<fence, cancel, version, result, snapshot, unknown, goal>>
  BY DEF InsertChild
<1>2. fence[x] \in Nat /\ (x # c => status'[x] = status[x]) /\ (x = c => status'[x] = "queued")
  BY <1>1 DEF TypeOK
<1> QED
  BY <1>1, <1>2 DEF Moved, Ends

LEMMA ServerMoves ==
  ASSUME TypeOK, NEW t \in Stamp, NEW w \in Work, ServerStep(w, t), NEW x \in Work
  PROVE  Moved(x)
<1>0. fence[x] \in Nat
  BY DEF TypeOK
<1>1. CASE EnqueueWork(w, t)
  <2>1. /\ status[w] = "absent" /\ Parent[w] = 0 /\ UNCHANGED <<fence, cancel, version, result, snapshot, unknown, goal>>
        /\ (x # w => status'[x] = status[x]) /\ (x = w => status'[x] = "queued")
    BY <1>1 DEF EnqueueWork, requestVars, TypeOK
  <2> QED
    BY <1>0, <2>1 DEF Moved, Ends
<1>2. CASE \E c \in Work : EnqueueDelegated(w, c, t)
  BY <1>2, InsertMoves DEF EnqueueDelegated
<1>3. CASE RequestCancel(w)
  <2> DEFINE D == {w} \cup Descendants[w]
  <2>1. /\ status' = CancelStatus(D) /\ goal' = CancelGoal(D) /\ cancel' = CancelFlag(D)
        /\ UNCHANGED <<fence, version, result, snapshot, unknown>>
    BY <1>3 DEF RequestCancel
  <2> HIDE DEF D
  <2>2. /\ \/ status'[x] = status[x] /\ goal'[x] = goal[x]
           \/ status'[x] = "cancelled" /\ status[x] \in {"queued", "waiting"}
        /\ status[x] \notin Active => cancel'[x] = cancel[x]
    BY <2>1, CancelRow
  <2> QED
    BY <1>0, <2>1, <2>2 DEF Moved, Active, Ends
<1>4. CASE RequestPreempt(w, t)
  BY <1>4, PlainMove DEF RequestPreempt, requestVars
<1>5. CASE AddSteer(w, t)
  <2> DEFINE D == Descendants[w] \ {w}
  <2>1. /\ status' = [CancelStatus(D) EXCEPT ![w] = IF status[w] = "waiting" THEN "queued" ELSE status[w]]
        /\ goal' = [CancelGoal(D) EXCEPT ![w] = NoGoal] /\ cancel' = CancelFlag(D) /\ status[w] \in Active
        /\ version' = [version EXCEPT ![w] = @ + 1] /\ UNCHANGED <<fence, result, snapshot, unknown>>
    BY <1>5 DEF AddSteer
  <2>2. w \notin D
    OBVIOUS
  <2> HIDE DEF D
  <2>3. DOMAIN CancelStatus(D) = Work /\ DOMAIN CancelGoal(D) = Work
    BY DEF CancelStatus, CancelGoal
  <2>4. CASE x = w
    <3>1. status'[x] \in {"queued", "leased"} /\ status[x] \in Active /\ (status'[x] = "leased" => status[x] = "leased")
      BY <2>1, <2>3, <2>4 DEF Active
    <3> QED
      BY <1>0, <2>1, <3>1 DEF Moved, Active, Ends
  <2>5. CASE x # w
    <3>1. /\ \/ status'[x] = status[x] /\ goal'[x] = goal[x]
             \/ status'[x] = "cancelled" /\ status[x] \in {"queued", "waiting"}
          /\ status[x] \notin Active => cancel'[x] = cancel[x]
      BY <2>1, <2>3, <2>5, CancelRow
    <3>2. version'[x] = version[x]
      BY <2>1, <2>5 DEF TypeOK
    <3> QED
      BY <1>0, <2>1, <3>1, <3>2 DEF Moved, Active, Ends
  <2> QED
    BY <2>4, <2>5
<1>6. CASE ContinueInput(w, t)
  <2>1. snapshot[w] # 0 /\ status[w] = "waiting" /\ Revive({w}, t)
    BY <1>6 DEF ContinueInput, TypeOK
  <2>2. (x \notin {w} => version'[x] = version[x]) /\ (snapshot'[x] # 0 => snapshot[x] # 0)
    BY <1>6, <2>1 DEF ContinueInput, TypeOK
  <2> QED
    BY <2>1, <2>2, RevivedMove
<1>7. CASE ResumeDecidedApprovals(w, t) \/ ReconcileAction(w, t)
  <2>1. status[w] # "succeeded" /\ status[w] # "absent" /\ Revive({w}, t) /\ UNCHANGED <<version, snapshot>>
    BY <1>7 DEF ResumeDecidedApprovals, ReconcileAction
  <2> QED
    BY <2>1, RevivedMove
<1>8. CASE ResolveAction(w, t)
  <2>1. UNCHANGED <<fence, cancel, version, result, snapshot>> /\ (unknown'[x] # 0 => unknown[x] # 0)
    BY <1>8 DEF ResolveAction, TypeOK
  <2>2. \/ status'[x] = status[x] /\ goal'[x] = goal[x]
        \/ status[x] = "failed" /\ status'[x] = "queued"
    BY <1>8 DEF ResolveAction, TypeOK
  <2> QED
    BY <1>0, <2>1, <2>2 DEF Moved, Ends
<1>9. CASE BlockDependents({w})
  BY <1>9, BlockMoves
<1>10. CASE ResumeParents({w}, t)
  BY <1>10, RevivedMove DEF ResumeParents, ReadyParents
<1> QED
  BY <1>1, <1>2, <1>3, <1>4, <1>5, <1>6, <1>7, <1>8, <1>9, <1>10 DEF ServerStep

LEMMA RequeueMoves ==
  ASSUME TypeOK, NEW x \in Work, NEW S, NEW t, Requeue(S, t), \A y \in S : status[y] = "leased", UNCHANGED requestVars
  PROVE  Moved(x)
<1>1. fence[x] \in Nat /\ UNCHANGED <<cancel, version, result, snapshot, unknown, goal>>
  BY DEF TypeOK, requestVars
<1>2. CASE x \in S
  BY <1>1, <1>2 DEF Requeue, Moved, Ends
<1>3. CASE x \notin S
  BY <1>1, <1>3 DEF Requeue, Moved, Ends
<1> QED
  BY <1>2, <1>3

LEMMA WorkerMoves ==
  ASSUME TypeOK, NEW t \in Stamp, NEW w \in Work, NEW f \in Issued(w), WorkerStep(w, f, t), NEW x \in Work
  PROVE  Moved(x)
<1>0. fence[x] \in Nat
  BY DEF TypeOK
<1>1. ASSUME NEW st \in Active \cup Terminal, st # "leased", NEW g, Settle(w, f, t, st, g) PROVE Moved(x)
  <2>1. /\ status[w] = "leased" /\ EndLease(w, f, st, g) /\ UNCHANGED <<fence, version, snapshot, unknown, result>>
        /\ Accepted(w, st, g)
    BY <1>1 DEF Settle, HoldsLease
  <2>2. w \in Captured /\ st \in Ends => g # NoGoal /\ g.version = version[w]
    BY <2>1 DEF Accepted, Ends
  <2> QED
    BY <1>1, <2>1, <2>2, EndMoves
<1>2. CASE Heartbeat(w, f, t)
  BY <1>2, PlainMove DEF Heartbeat, requestVars
<1>3. CASE YieldWork(w, f, t)
  BY <1>3, RequeueMoves DEF YieldWork, HoldsLease
<1>4. CASE SaveRequest(w, f, t)
  <2>1. UNCHANGED <<fence, status, cancel, version, result, goal, unknown>> /\ status[w] = "leased"
    BY <1>4 DEF SaveRequest, leaseVars, HoldsLease
  <2>2. snapshot'[x] # 0 => snapshot[x] # 0 \/ status[x] = "leased"
    BY <1>4, <2>1 DEF SaveRequest, TypeOK
  <2> QED
    BY <1>0, <2>1, <2>2 DEF Moved
<1>5. CASE RecordUnknown(w, f, t)
  <2>1. UNCHANGED <<fence, status, cancel, version, result, goal, snapshot>> /\ w \in Uncertain
    BY <1>5 DEF RecordUnknown, leaseVars
  <2>2. unknown'[x] # 0 => unknown[x] # 0 \/ x \in Uncertain
    BY <1>5, <2>1 DEF RecordUnknown, TypeOK
  <2> QED
    BY <1>0, <2>1, <2>2 DEF Moved
<1>6. CASE Complete(w, f, t)
  <2>1. PICK st, g : Settle(w, f, t, st, g) /\ st \in {"succeeded", "partial", "blocked", "waiting", "failed", "cancelled"}
    BY <1>6 DEF Complete, WorkStatusOf
  <2> QED
    BY <1>1, <2>1 DEF Active, Terminal
<1>7. CASE Wait(w, f, t)
  BY <1>1, <1>7 DEF Wait, Active
<1>8. CASE CommitResult(w, f, t)
  <2>1. PICK g \in CommitGoals(w) :
          /\ EndLease(w, f, WorkStatusOf(g.kind), g)
          /\ result' = [result EXCEPT ![w] = [version |-> snapshot[w], satisfied |-> g.kind = "satisfied"]]
    BY <1>8 DEF CommitResult
  <2>2. /\ status[w] = "leased" /\ snapshot[w] = version[w] /\ UNCHANGED <<fence, version, snapshot, unknown>>
    BY <1>8 DEF CommitResult, InAction, HoldsLease
  <2>3. g # NoGoal /\ g.version = version[w]
    BY <2>2, StructureAssumption DEF CommitGoals, WaitGoals, Goal, NoGoal
  <2>4. WorkStatusOf(g.kind) \in Active \cup Terminal /\ WorkStatusOf(g.kind) # "leased"
    BY DEF WorkStatusOf, Active, Terminal
  <2>5. \A y \in Work \ {w} : result'[y] = result[y]
    BY <2>1 DEF TypeOK
  <2> QED
    BY <2>1, <2>2, <2>3, <2>4, <2>5, EndMoves
<1>9. CASE \E c \in Work : EnqueueChild(w, f, c, t)
  BY <1>9, InsertMoves DEF EnqueueChild, InAction, HoldsLease
<1>10. CASE \E kids \in SUBSET {c \in Work : Parent[c] = w} : WaitForChildren(w, f, kids, t)
  BY <1>10, PlainMove DEF WaitForChildren, leaseVars
<1> QED
  BY <1>2, <1>3, <1>4, <1>5, <1>6, <1>7, <1>8, <1>9, <1>10 DEF WorkerStep

LEMMA Moves ==
  ASSUME TypeOK, [Next]_vars, NEW x \in Work
  PROVE  Moved(x)
<1>1. CASE UNCHANGED vars \/ Tick
  BY <1>1, PlainMove DEF vars, Tick, leaseVars, requestVars
<1>2. ASSUME NEW t \in Stamp, SweepStep(t) PROVE Moved(x)
  <2>1. CASE SweepTrip(t)
    BY <2>1, PlainMove DEF SweepTrip, requestVars
  <2>2. CASE SweepFence(t)
    BY <2>2, RequeueMoves DEF SweepFence, Overdue
  <2>3. CASE BlockDependents(Work)
    BY <2>3, BlockMoves
  <2>4. CASE ResumeParents(Work, t)
    BY <2>4, RevivedMove DEF ResumeParents, ReadyParents
  <2> QED
    BY <1>2, <2>1, <2>2, <2>3, <2>4 DEF SweepStep
<1>3. ASSUME NEW t \in Stamp, ClaimNothing(t) PROVE Moved(x)
  BY <1>3, PlainMove DEF ClaimNothing, requestVars
<1>4. ASSUME NEW t \in Stamp, NEW k \in Worker, NEW w \in Work, Claim(k, w, t) PROVE Moved(x)
  <2>1. /\ UNCHANGED <<cancel, version, result, goal, snapshot, unknown>> /\ \A d \in HardDeps(w) : Satisfied(d)
        /\ status' = [status EXCEPT ![w] = "leased"] /\ fence' = [fence EXCEPT ![w] = fence[w] + 1]
        /\ status[w] \in {"queued", "leased"}
    BY <1>4 DEF Claim, requestVars, Claimable, Eligible
  <2>2. fence[x] \in Nat /\ status \in [Work -> Active \cup Terminal \cup {"absent"}] /\ fence \in [Work -> Nat]
    BY DEF TypeOK
  <2>3. CASE x = w
    <3>1. status'[x] = "leased" /\ fence'[x] = fence[x] + 1
      BY <2>1, <2>2, <2>3
    <3> QED
      BY <2>1, <2>2, <2>3, <3>1 DEF Moved, Ends
  <2>4. CASE x # w
    <3>1. status'[x] = status[x] /\ fence'[x] = fence[x]
      BY <2>1, <2>2, <2>4
    <3> QED
      BY <2>1, <2>2, <3>1 DEF Moved
  <2> QED
    BY <2>3, <2>4
<1> QED
  BY <1>1, <1>2, <1>3, <1>4, ServerMoves, WorkerMoves DEF Next

-----------------------------------------------------------------------------
(* Prerequisites and outcomes *)

(* A row that is leased, has succeeded, has a snapshot or has children was *)
(* claimed once.                                                           *)
HasRun ==
  \A w \in Work :
    /\ status[w] \in {"leased", "succeeded"} \/ snapshot[w] # 0 => fence[w] > 0
    /\ Parent[w] # 0 /\ status[w] # "absent" => fence[Parent[w]] > 0

LEMMA HasRunStep ==
  ASSUME TypeOK, HasRun, [Next]_vars
  PROVE  HasRun'
<1>0. \A x \in Work : Moved(x) /\ fence[x] \in Nat /\ fence'[x] \in Nat
  BY Moves, NextTypes DEF TypeOK
<1>1. ASSUME NEW w \in Work PROVE status'[w] \in {"leased", "succeeded"} \/ snapshot'[w] # 0 => fence'[w] > 0
  <2>1. status'[w] = "leased" => status[w] = "leased" \/ fence'[w] > 0
    BY <1>0 DEF Moved
  <2>2. status'[w] = "succeeded" => status[w] \in {"leased", "succeeded"}
    BY <1>0 DEF Moved
  <2>3. snapshot'[w] # 0 => snapshot[w] # 0 \/ status[w] = "leased"
    BY <1>0 DEF Moved
  <2>4. fence'[w] >= fence[w] /\ fence[w] \in Nat /\ fence'[w] \in Nat
    BY <1>0 DEF Moved
  <2> QED
    BY <2>1, <2>2, <2>3, <2>4 DEF HasRun
<1>2. ASSUME NEW w \in Work, Parent[w] # 0, status'[w] # "absent" PROVE fence'[Parent[w]] > 0
  <2>0. Parent[w] \in Work
    BY <1>2, StructureAssumption
  <2>1. status[w] = "absent" => status[Parent[w]] = "leased" \/ snapshot[Parent[w]] # 0
    BY <1>0, <1>2 DEF Moved
  <2>2. fence[Parent[w]] > 0
    BY <1>2, <2>0, <2>1 DEF HasRun
  <2>3. fence'[Parent[w]] >= fence[Parent[w]] /\ fence[Parent[w]] \in Nat /\ fence'[Parent[w]] \in Nat
    BY <1>0, <2>0 DEF Moved
  <2> QED
    BY <2>2, <2>3
<1> QED
  BY <1>1, <1>2 DEF HasRun

LEMMA PrerequisitesStep ==
  ASSUME TypeOK, HasRun, PrerequisitesMet, [Next]_vars
  PROVE  PrerequisitesMet'
<1> SUFFICES ASSUME NEW w \in Work, Parent[w] # 0, fence'[w] > 0, NEW d \in Deps[w]
             PROVE  /\ status'[d] = "succeeded" /\ ~cancel'[d]
                    /\ result'[d].satisfied /\ result'[d].version = version'[d]
  BY DEF PrerequisitesMet
<1>0. d \in Work /\ Moved(w) /\ Moved(d) /\ fence[w] \in Nat /\ fence'[w] \in Nat
  BY Moves, NextTypes, StructureAssumption DEF TypeOK
<1>1. Satisfied(d)
  <2>1. CASE fence[w] > 0
    BY <1>0, <2>1 DEF PrerequisitesMet, Satisfied
  <2>2. CASE ~(fence[w] > 0)
    <3>1. fence'[w] > fence[w] /\ status[w] # "leased"
      BY <1>0, <2>2 DEF HasRun
    <3> QED
      BY <1>0, <3>1 DEF Moved, HardDeps
  <2> QED
    BY <2>1, <2>2
<1> QED
  BY <1>0, <1>1 DEF Moved, Satisfied

LEMMA AnsweredStep ==
  ASSUME TypeOK, RevisionAnswered, [Next]_vars
  PROVE  RevisionAnswered'
<1> SUFFICES ASSUME NEW w \in Captured, status'[w] \in Ends
             PROVE  goal'[w] # NoGoal /\ goal'[w].version = version'[w]
  BY DEF RevisionAnswered, Ends
<1>1. w \in Work /\ Moved(w)
  BY Moves, StructureAssumption
<1>2. \/ status[w] = status'[w] /\ goal'[w] = goal[w] /\ version'[w] = version[w]
      \/ Answered(w)'
  BY <1>1 DEF Moved
<1> QED
  BY <1>2 DEF RevisionAnswered, Answered, Ends

TreeInv == TypeOK /\ HasRun /\ PrerequisitesMet /\ RevisionAnswered

LEMMA TreeInvariant == Spec => []TreeInv
<1>1. Init => TreeInv
  <2> SUFFICES ASSUME Init PROVE TreeInv
    OBVIOUS
  <2>1. HasRun /\ PrerequisitesMet
    BY StructureAssumption DEF Init, HasRun, PrerequisitesMet
  <2>2. RevisionAnswered
    BY StructureAssumption DEF Init, RevisionAnswered
  <2> QED
    BY <2>1, <2>2, InitTypes DEF TreeInv
<1>2. TreeInv /\ [Next]_vars => TreeInv'
  BY NextTypes, HasRunStep, PrerequisitesStep, AnsweredStep DEF TreeInv
<1> QED
  BY <1>1, <1>2, PTL DEF Spec

(* claim and the dependency sweep: a child only ever ran with the current, *)
(* satisfied result of every prerequisite committed, and no revision,      *)
(* cancellation, reconciliation or sweep takes one back.                   *)
THEOREM PrerequisitesStayMet == Spec => []PrerequisitesMet
<1>1. TreeInv => PrerequisitesMet
  BY DEF TreeInv
<1> QED
  BY <1>1, TreeInvariant, PTL

(* settle, commitResult and resumeDependents: a captured request that      *)
(* ended has an outcome that judges its last revision.                     *)
THEOREM RevisionsAnswered == Spec => []RevisionAnswered
<1>1. TreeInv => RevisionAnswered
  BY DEF TreeInv
<1> QED
  BY <1>1, TreeInvariant, PTL

-----------------------------------------------------------------------------
(* Children and their parents *)

(* What the least-set definition of Descendants gives: it holds the        *)
(* children, is closed under children, and never holds the row itself.     *)
LEMMA DescendantsClosed ==
  ASSUME NEW w \in Work, NEW c \in Work, Parent[c] = w \/ Parent[c] \in Descendants[w]
  PROVE  c \in Descendants[w]
  BY DEF Descendants

LEMMA DescendantsAbove ==
  ASSUME NEW w \in Work, NEW d \in Descendants[w]
  PROVE  d \in Work /\ d > w
<1> DEFINE S == {x \in Work : x > w}
<1>1. \A c \in Work : (Parent[c] = w \/ Parent[c] \in S) => c \in S
  <2> SUFFICES ASSUME NEW c \in Work, Parent[c] = w \/ Parent[c] \in S PROVE c > w
    OBVIOUS
  <2>1. Parent[c] < c /\ c \in Nat /\ w \in Nat
    BY StructureAssumption
  <2>2. CASE Parent[c] = w
    BY <2>1, <2>2
  <2>3. CASE Parent[c] \in S
    <3>1. Parent[c] \in Nat /\ Parent[c] > w
      BY <2>3, StructureAssumption
    <3> QED
      BY <2>1, <3>1
  <2> QED
    BY <2>2, <2>3
<1>2. S \in SUBSET Work
  OBVIOUS
<1> HIDE DEF S
<1>3. d \in Work /\ d \in S
  BY <1>1, <1>2 DEF Descendants
<1> QED
  BY <1>3 DEF S

(* Rows that depend on a spoiled one never ran, hence have no children.    *)
LEMMA BlockedNeverRan ==
  ASSUME TypeOK, HasRun, PrerequisitesMet, NEW P \in SUBSET Work, NEW x \in Blocked(P)
  PROVE  x \in Work /\ fence[x] = 0
<1> DEFINE S == {y \in Work : fence[y] = 0}
<1>0. PICK d \in P : Spoiled(d) /\ x \in Downstream[d]
  BY DEF Blocked
<1>1. ASSUME NEW y \in Work, HardDeps(y) \cap ({d} \cup S) # {} PROVE y \in S
  <2> SUFFICES ASSUME fence[y] # 0 PROVE FALSE
    OBVIOUS
  <2>0. PICK e \in HardDeps(y) : e = d \/ e \in S
    BY <1>1
  <2>1. Parent[y] # 0 /\ e \in Deps[y] /\ e \in Work /\ fence[y] > 0
    BY StructureAssumption, <2>0 DEF HardDeps, TypeOK
  <2>2. status[e] = "succeeded" /\ ~cancel[e] /\ result[e].satisfied /\ result[e].version = version[e]
    BY <2>1 DEF PrerequisitesMet
  <2>3. fence[e] > 0
    BY <2>1, <2>2 DEF HasRun
  <2> QED
    BY <1>0, <2>0, <2>1, <2>2, <2>3 DEF Spoiled
<1>2. S \in SUBSET Work
  OBVIOUS
<1> HIDE DEF S
<1>3. d \in Work
  BY <1>0
<1>4. Downstream[d] = {z \in Work : \A T \in SUBSET Work :
        (\A y \in Work : HardDeps(y) \cap ({d} \cup T) # {} => y \in T) => z \in T}
  BY <1>3 DEF Downstream
<1>5. x \in Work /\ x \in S
  BY <1>0, <1>1, <1>2, <1>4
<1> QED
  BY <1>5 DEF S

LEMMA SteadyTree ==
  ASSUME OrphanFree, cancel' = cancel, \A x \in Work : status'[x] \in Active <=> status[x] \in Active
  PROVE  OrphanFree'
<1> SUFFICES ASSUME NEW c \in Work, Parent[c] # 0, status'[c] \in Active, ~cancel'[c]
             PROVE  status'[Parent[c]] \in Active /\ ~cancel'[Parent[c]]
  BY DEF OrphanFree
<1>1. Parent[c] \in Work
  BY StructureAssumption
<1> QED
  BY <1>1 DEF OrphanFree

(* A set of rows closed under children is cancelled; w stays active, or    *)
(* its children are among them.                                            *)
LEMMA CutTree ==
  ASSUME TypeOK, OrphanFree, NEW D, NEW w, w \notin D,
         \A c \in Work : Parent[c] \in D => c \in D,
         cancel' = CancelFlag(D), \A x \in Work \ {w} : status'[x] = CancelStatus(D)[x],
         w \in Work => status[w] \in Active,
         w \in Work => status'[w] \in Active \/ \A c \in Work : Parent[c] = w => c \in D
  PROVE  OrphanFree'
<1> SUFFICES ASSUME NEW c \in Work, Parent[c] # 0, status'[c] \in Active, ~cancel'[c]
             PROVE  status'[Parent[c]] \in Active /\ ~cancel'[Parent[c]]
  BY DEF OrphanFree
<1> DEFINE p == Parent[c]
<1>1. p \in Work
  BY StructureAssumption
<1>2. status[c] \in Active
  <2>1. CASE c = w
    BY <2>1
  <2>2. CASE c # w
    <3>1. status'[c] = status[c] \/ status'[c] = "cancelled"
      BY <2>2, CancelRow
    <3> QED
      BY <3>1 DEF Active
  <2> QED
    BY <2>1, <2>2
<1>3. c \notin D /\ ~cancel[c]
  BY <1>2, CancelRow
<1>4. p \notin D
  BY <1>3
<1>5. status[p] \in Active /\ ~cancel[p]
  BY <1>2, <1>3 DEF OrphanFree
<1>6. ~cancel'[p]
  BY <1>1, <1>4, <1>5, CancelRow
<1>7. CASE p = w
  BY <1>1, <1>3, <1>6, <1>7
<1>8. CASE p # w
  <2>1. status'[p] = status[p]
    BY <1>1, <1>4, <1>8, CancelRow
  <2> QED
    BY <1>5, <1>6, <2>1
<1> QED
  BY <1>7, <1>8

LEMMA EndLeaseTree ==
  ASSUME TypeOK, OrphanFree, NEW w \in Work, NEW f, NEW st, NEW g, status[w] = "leased", EndLease(w, f, st, g)
  PROVE  OrphanFree'
<1> DEFINE D == IF st = "waiting" THEN {} ELSE Descendants[w] \ {w}
<1>1. status' = [CancelStatus(D) EXCEPT ![w] = st] /\ cancel' = CancelFlag(D)
  BY DEF EndLease
<1>2. w \notin D
  OBVIOUS
<1>3. ASSUME NEW c \in Work, Parent[c] \in D PROVE c \in D
  <2>1. st # "waiting" /\ Parent[c] \in Descendants[w]
    BY <1>3
  <2>2. c \in Descendants[w]
    BY <2>1, DescendantsClosed
  <2>3. c # w
    <3>1. c \in Work /\ c > w /\ w \in Nat
      BY <2>2, DescendantsAbove, StructureAssumption
    <3> QED
      BY <3>1
  <2> QED
    BY <2>1, <2>2, <2>3
<1>4. st = "waiting" \/ \A c \in Work : Parent[c] = w => c \in D
  <2> SUFFICES ASSUME st # "waiting", NEW c \in Work, Parent[c] = w PROVE c \in Descendants[w] /\ c # w
    OBVIOUS
  <2>1. c \in Descendants[w]
    BY DescendantsClosed
  <2>2. c > w /\ w \in Nat
    BY <2>1, DescendantsAbove, StructureAssumption
  <2> QED
    BY <2>1, <2>2
<1> HIDE DEF D
<1>5. DOMAIN CancelStatus(D) = Work
  BY DEF CancelStatus
<1>6. status'[w] = st /\ \A x \in Work \ {w} : status'[x] = CancelStatus(D)[x]
  BY <1>1, <1>5
<1>7. status[w] \in Active /\ (st = "waiting" => status'[w] \in Active)
  BY <1>6 DEF Active
<1> QED
  BY <1>1, <1>2, <1>3, <1>4, <1>6, <1>7, CutTree

LEMMA InsertTree ==
  ASSUME TypeOK, OrphanFree, NEW p \in Work, NEW c \in Work, NEW t, InsertChild(p, c, t)
  PROVE  OrphanFree'
<1>1. /\ status[c] = "absent" /\ Parent[c] = p /\ status' = [status EXCEPT ![c] = "queued"] /\ cancel' = cancel
      /\ \A a \in Lineage[p] : status[a] \in Active /\ ~cancel[a]
  BY DEF InsertChild
<1>2. p \in Lineage[p]
  BY DEF Lineage
<1>3. status[p] \in Active /\ ~cancel[p]
  BY <1>1, <1>2
<1>4. p # c
  BY <1>1, <1>3 DEF Active
<1>5. \A x \in Work : x # c => status'[x] = status[x]
  BY <1>1 DEF TypeOK
<1> SUFFICES ASSUME NEW d \in Work, Parent[d] # 0, status'[d] \in Active, ~cancel'[d]
             PROVE  status'[Parent[d]] \in Active /\ ~cancel'[Parent[d]]
  BY DEF OrphanFree
<1>6. CASE d = c
  BY <1>1, <1>3, <1>4, <1>5, <1>6
<1>7. CASE d # c
  <2>1. Parent[d] \in Work /\ status[Parent[d]] \in Active /\ ~cancel[Parent[d]]
    BY <1>1, <1>5, <1>7, StructureAssumption DEF OrphanFree
  <2>2. Parent[d] # c
    BY <1>1, <2>1 DEF Active
  <2> QED
    BY <1>1, <1>5, <2>1, <2>2
<1> QED
  BY <1>6, <1>7

(* A row outside the tree's lower levels goes back to the queue.           *)
LEMMA RootTree ==
  ASSUME TypeOK, OrphanFree, NEW w \in Work, Parent[w] = 0, cancel' = cancel,
         \A x \in Work : status'[x] = status[x] \/ (x = w /\ status'[x] = "queued")
  PROVE  OrphanFree'
<1> SUFFICES ASSUME NEW d \in Work, Parent[d] # 0, status'[d] \in Active, ~cancel'[d]
             PROVE  status'[Parent[d]] \in Active /\ ~cancel'[Parent[d]]
  BY DEF OrphanFree
<1>1. Parent[d] \in Work /\ status[Parent[d]] \in Active /\ ~cancel[Parent[d]]
  BY StructureAssumption DEF OrphanFree
<1> QED
  BY <1>1 DEF Active

LEMMA ReviveTree ==
  ASSUME TypeOK, OrphanFree, NEW S, NEW t, Revive(S, t), \A x \in S : status[x] = "waiting"
  PROVE  OrphanFree'
<1>1. cancel' = cancel /\ \A x \in Work : status'[x] = IF x \in S THEN "queued" ELSE status[x]
  BY DEF Revive
<1>2. \A x \in Work : status'[x] \in Active <=> status[x] \in Active
  BY <1>1 DEF Active
<1> QED
  BY <1>1, <1>2, SteadyTree

LEMMA BlockTree ==
  ASSUME TypeOK, HasRun, PrerequisitesMet, OrphanFree, NEW P \in SUBSET Work, BlockDependents(P)
  PROVE  OrphanFree'
<1> DEFINE B == {y \in Blocked(P) : status[y] = "queued"}
<1>1. status' = [y \in Work |-> IF y \in B THEN "blocked" ELSE status[y]] /\ cancel' = cancel
  BY DEF BlockDependents
<1>2. \A y \in B : y \in Work /\ fence[y] = 0
  BY BlockedNeverRan
<1> HIDE DEF B
<1> SUFFICES ASSUME NEW d \in Work, Parent[d] # 0, status'[d] \in Active, ~cancel'[d]
             PROVE  status'[Parent[d]] \in Active /\ ~cancel'[Parent[d]]
  BY DEF OrphanFree
<1>3. status[d] \in Active
  BY <1>1 DEF Active
<1>4. Parent[d] \in Work /\ status[Parent[d]] \in Active /\ ~cancel[Parent[d]]
  BY <1>1, <1>3, StructureAssumption DEF OrphanFree
<1>5. fence[Parent[d]] > 0
  BY <1>3 DEF HasRun, Active
<1>6. Parent[d] \notin B
  BY <1>2, <1>5
<1> QED
  BY <1>1, <1>4, <1>6

UnknownInv == \A w \in Work : unknown[w] # 0 => w \in Uncertain

LEMMA OrphanStep ==
  ASSUME TreeInv, UnknownInv, OrphanFree, [Next]_vars, \A w \in Uncertain : Parent[w] = 0
  PROVE  OrphanFree'
<1>0. TypeOK /\ HasRun /\ PrerequisitesMet
  BY DEF TreeInv
<1>1. CASE UNCHANGED vars \/ Tick
  BY <1>1, SteadyTree DEF vars, Tick, leaseVars, requestVars
<1>2. ASSUME NEW S, NEW t, Requeue(S, t), \A y \in S : status[y] = "leased", UNCHANGED requestVars PROVE OrphanFree'
  <2>1. cancel' = cancel /\ \A x \in Work : status'[x] = IF x \in S THEN "queued" ELSE status[x]
    BY <1>2 DEF Requeue, requestVars
  <2>2. \A x \in Work : status'[x] \in Active <=> status[x] \in Active
    BY <1>2, <2>1 DEF Active
  <2> QED
    BY <2>1, <2>2, SteadyTree
<1>3. ASSUME NEW t \in Stamp, SweepStep(t) PROVE OrphanFree'
  <2>1. CASE SweepTrip(t)
    BY <2>1, SteadyTree DEF SweepTrip, requestVars
  <2>2. CASE SweepFence(t)
    BY <1>2, <2>2 DEF SweepFence, Overdue
  <2>3. CASE BlockDependents(Work)
    BY <1>0, <2>3, BlockTree
  <2>4. CASE ResumeParents(Work, t)
    BY <1>0, <2>4, ReviveTree DEF ResumeParents, ReadyParents
  <2> QED
    BY <1>3, <2>1, <2>2, <2>3, <2>4 DEF SweepStep
<1>4. ASSUME NEW t \in Stamp, ClaimNothing(t) PROVE OrphanFree'
  BY <1>4, SteadyTree DEF ClaimNothing, requestVars
<1>5. ASSUME NEW t \in Stamp, NEW k \in Worker, NEW w \in Work, Claim(k, w, t) PROVE OrphanFree'
  <2>1. cancel' = cancel /\ status' = [status EXCEPT ![w] = "leased"] /\ status[w] \in {"queued", "leased"}
    BY <1>5 DEF Claim, requestVars, Claimable, Eligible
  <2>2. \A x \in Work : status'[x] \in Active <=> status[x] \in Active
    BY <1>0, <2>1 DEF Active, TypeOK
  <2> QED
    BY <2>1, <2>2, SteadyTree
<1>6. ASSUME NEW t \in Stamp, NEW w \in Work, ServerStep(w, t) PROVE OrphanFree'
  <2>1. CASE EnqueueWork(w, t)
    <3>1. cancel' = cancel /\ Parent[w] = 0 /\ \A x \in Work : status'[x] = status[x] \/ (x = w /\ status'[x] = "queued")
      BY <1>0, <2>1 DEF EnqueueWork, requestVars, TypeOK
    <3> QED
      BY <1>0, <3>1, RootTree
  <2>2. CASE \E c \in Work : EnqueueDelegated(w, c, t)
    BY <1>0, <2>2, InsertTree DEF EnqueueDelegated
  <2>3. CASE RequestCancel(w)
    <3> DEFINE D == {w} \cup Descendants[w]
    <3>1. cancel' = CancelFlag(D) /\ \A x \in Work \ {0} : status'[x] = CancelStatus(D)[x]
      BY <2>3 DEF RequestCancel
    <3>2. \A c \in Work : Parent[c] \in D => c \in D
      BY DescendantsClosed
    <3>3. 0 \notin Work /\ 0 \notin D
      BY DescendantsAbove, StructureAssumption
    <3> HIDE DEF D
    <3> QED
      BY <1>0, <3>1, <3>2, <3>3, CutTree
  <2>4. CASE RequestPreempt(w, t)
    BY <2>4, SteadyTree DEF RequestPreempt, requestVars
  <2>5. CASE AddSteer(w, t)
    <3> DEFINE D == Descendants[w] \ {w}
    <3>1. /\ cancel' = CancelFlag(D) /\ status[w] \in Active
          /\ status' = [CancelStatus(D) EXCEPT ![w] = IF status[w] = "waiting" THEN "queued" ELSE status[w]]
      BY <2>5 DEF AddSteer
    <3>2. w \notin D
      OBVIOUS
    <3>3. ASSUME NEW c \in Work, Parent[c] \in D PROVE c \in D
      <4>1. c \in Descendants[w]
        BY <3>3, DescendantsClosed
      <4>2. c > w /\ w \in Nat
        BY <4>1, DescendantsAbove, StructureAssumption
      <4> QED
        BY <4>1, <4>2
    <3> HIDE DEF D
    <3>4. DOMAIN CancelStatus(D) = Work
      BY DEF CancelStatus
    <3>5. status'[w] \in Active /\ \A x \in Work \ {w} : status'[x] = CancelStatus(D)[x]
      BY <3>1, <3>4 DEF Active
    <3> QED
      BY <1>0, <3>1, <3>2, <3>3, <3>5, CutTree
  <2>6. CASE ContinueInput(w, t) \/ ResumeDecidedApprovals(w, t)
    BY <1>0, <2>6, ReviveTree DEF ContinueInput, ResumeDecidedApprovals
  <2>7. CASE ReconcileAction(w, t) \/ ResolveAction(w, t)
    <3>1. Parent[w] = 0
      BY <2>7 DEF ReconcileAction, ResolveAction, UnknownInv
    <3>2. cancel' = cancel /\ \A x \in Work : status'[x] = status[x] \/ (x = w /\ status'[x] = "queued")
      BY <1>0, <2>7 DEF ReconcileAction, ResolveAction, Revive, TypeOK
    <3> QED
      BY <1>0, <3>1, <3>2, RootTree
  <2>8. CASE BlockDependents({w})
    BY <1>0, <2>8, BlockTree
  <2>9. CASE ResumeParents({w}, t)
    BY <1>0, <2>9, ReviveTree DEF ResumeParents, ReadyParents
  <2> QED
    BY <1>6, <2>1, <2>2, <2>3, <2>4, <2>5, <2>6, <2>7, <2>8, <2>9 DEF ServerStep
<1>7. ASSUME NEW t \in Stamp, NEW w \in Work, NEW f \in Issued(w), WorkerStep(w, f, t) PROVE OrphanFree'
  <2>1. CASE Heartbeat(w, f, t)
    BY <2>1, SteadyTree DEF Heartbeat, requestVars
  <2>2. CASE YieldWork(w, f, t)
    BY <1>2, <2>2 DEF YieldWork, HoldsLease
  <2>3. CASE SaveRequest(w, f, t) \/ RecordUnknown(w, f, t)
    BY <2>3, SteadyTree DEF SaveRequest, RecordUnknown, leaseVars
  <2>4. CASE Complete(w, f, t) \/ Wait(w, f, t) \/ CommitResult(w, f, t)
    <3>1. status[w] = "leased" /\ \E st, g : EndLease(w, f, st, g)
      BY <2>4 DEF Complete, Wait, CommitResult, Settle, InAction, HoldsLease
    <3> QED
      BY <1>0, <3>1, EndLeaseTree
  <2>5. CASE \E c \in Work : EnqueueChild(w, f, c, t)
    BY <1>0, <2>5, InsertTree DEF EnqueueChild
  <2>6. CASE \E kids \in SUBSET {c \in Work : Parent[c] = w} : WaitForChildren(w, f, kids, t)
    BY <2>6, SteadyTree DEF WaitForChildren, leaseVars
  <2> QED
    BY <1>7, <2>1, <2>2, <2>3, <2>4, <2>5, <2>6 DEF WorkerStep
<1> QED
  BY <1>1, <1>3, <1>4, <1>5, <1>6, <1>7 DEF Next

(* cancelDescendants, enqueueChild and the dependency sweep: a child that  *)
(* may still run has an active parent that is not cancelled, if only root  *)
(* requests leave effects unknown: reconcileAction and resolveAction       *)
(* revive an ended run without looking at its parent.                      *)
THEOREM NoOrphans ==
  ASSUME \A w \in Uncertain : Parent[w] = 0
  PROVE  Spec => []OrphanFree
<1>1. Init => UnknownInv /\ OrphanFree
  BY StructureAssumption DEF Init, UnknownInv, OrphanFree, Active
<1>2. TreeInv /\ UnknownInv /\ [Next]_vars => UnknownInv'
  BY Moves DEF TreeInv, UnknownInv, Moved
<1>3. TreeInv /\ UnknownInv /\ OrphanFree /\ [Next]_vars => OrphanFree'
  BY OrphanStep
<1> QED
  BY <1>1, <1>2, <1>3, TreeInvariant, PTL DEF Spec
=============================================================================
