------------------------- MODULE WorkStoreLeaseProofs -------------------------
(***************************************************************************)
(* Theorems about leases, sessions, routes and the attempt log.  A step of *)
(* the queue is first classified by what it does to them; each invariant   *)
(* is then shown for the few classes instead of every operation.           *)
(***************************************************************************)
EXTENDS WorkStoreProofs

-----------------------------------------------------------------------------
(* Classification of steps *)

(* Nothing about leases changes: no row becomes leased or stops being so.  *)
Quiet ==
  /\ UNCHANGED <<clock, fence, token, expires, attempts, sessionLease, route>>
  /\ \A w \in Work : status'[w] = "leased" <=> status[w] = "leased"

(* The holder of w's lease ends it.                                        *)
Ended(w, f, t) ==
  /\ HoldsLease(w, f, t)
  /\ \E st \in (Active \cup Terminal) \ {"leased"} : \E g : EndLease(w, f, st, g)
  /\ UNCHANGED <<clock, fence, route>>

LEMMA CancelKeepsLeases ==
  ASSUME TypeOK, NEW D, NEW w \in Work
  PROVE  CancelStatus(D)[w] = "leased" <=> status[w] = "leased"
  BY DEF CancelStatus

LEMMA ServerKinds ==
  ASSUME TypeOK, NEW t \in Stamp, NEW w \in Work, ServerStep(w, t)
  PROVE  Quiet
<1>1. CASE EnqueueWork(w, t)
  BY <1>1 DEF TypeOK, EnqueueWork, Quiet
<1>2. CASE \E c \in Work : EnqueueDelegated(w, c, t)
  BY <1>2 DEF TypeOK, EnqueueDelegated, InsertChild, Quiet
<1>3. CASE RequestCancel(w)
  BY <1>3, CancelKeepsLeases DEF RequestCancel, Quiet
<1>4. CASE RequestPreempt(w, t)
  BY <1>4 DEF RequestPreempt, Quiet
<1>5. CASE AddSteer(w, t)
  <2>1. \A x \in Work : status'[x] = "leased" <=> status[x] = "leased"
    <3> SUFFICES ASSUME NEW x \in Work PROVE status'[x] = "leased" <=> status[x] = "leased"
      OBVIOUS
    <3>1. CancelStatus(Descendants[w] \ {w}) \in [Work -> Active \cup Terminal \cup {"absent"}]
      BY CancelTypes
    <3>2. QED  BY <1>5, <3>1, CancelKeepsLeases DEF AddSteer
  <2>2. QED  BY <1>5, <2>1 DEF AddSteer, Quiet
<1>6. CASE ContinueInput(w, t)
  BY <1>6 DEF TypeOK, ContinueInput, Revive, Quiet
<1>7. CASE ResumeDecidedApprovals(w, t)
  BY <1>7 DEF TypeOK, ResumeDecidedApprovals, Revive, Quiet
<1>8. CASE ReconcileAction(w, t)
  BY <1>8 DEF TypeOK, ReconcileAction, Revive, Quiet
<1>9. CASE ResolveAction(w, t)
  BY <1>9 DEF TypeOK, ResolveAction, Quiet
<1>10. CASE BlockDependents({w})
  BY <1>10 DEF TypeOK, BlockDependents, Quiet
<1>11. CASE ResumeParents({w}, t)
  BY <1>11 DEF TypeOK, ResumeParents, ReadyParents, Revive, Quiet
<1>12. QED
  BY <1>1, <1>2, <1>3, <1>4, <1>5, <1>6, <1>7, <1>8, <1>9, <1>10, <1>11 DEF ServerStep

LEMMA SweepKinds ==
  ASSUME TypeOK, NEW t \in Stamp, SweepStep(t)
  PROVE  Quiet \/ SweepFence(t)
<1>1. CASE SweepTrip(t)
  BY <1>1 DEF SweepTrip, Quiet
<1>2. CASE BlockDependents(Work)
  BY <1>2 DEF TypeOK, BlockDependents, Quiet
<1>3. CASE ResumeParents(Work, t)
  BY <1>3 DEF TypeOK, ResumeParents, ReadyParents, Revive, Quiet
<1>4. QED  BY <1>1, <1>2, <1>3 DEF SweepStep

LEMMA WorkerKinds ==
  ASSUME TypeOK, NEW t \in Stamp, NEW w \in Work, NEW f \in Issued(w), WorkerStep(w, f, t)
  PROVE  Quiet \/ Heartbeat(w, f, t) \/ YieldWork(w, f, t) \/ Ended(w, f, t)
<1> USE DEF Active, Terminal
<1>1. CASE SaveRequest(w, f, t)
  BY <1>1 DEF SaveRequest, leaseVars, Quiet
<1>2. CASE RecordUnknown(w, f, t)
  BY <1>2 DEF RecordUnknown, leaseVars, Quiet
<1>3. CASE Complete(w, f, t)
  <2>1. \E st \in (Active \cup Terminal) \ {"leased"} : \E g : Settle(w, f, t, st, g)
    BY <1>3 DEF Complete, WorkStatusOf
  <2>2. QED  BY <2>1 DEF Settle, Ended
<1>4. CASE Wait(w, f, t)
  <2>1. \E g : Settle(w, f, t, "waiting", g)
    BY <1>4 DEF Wait
  <2>2. QED  BY <2>1 DEF Settle, Ended
<1>5. CASE CommitResult(w, f, t)
  <2>1. \E st \in (Active \cup Terminal) \ {"leased"} : \E g : EndLease(w, f, st, g)
    BY <1>5 DEF CommitResult, WorkStatusOf
  <2>2. QED  BY <1>5, <2>1 DEF CommitResult, InAction, Ended
<1>6. CASE \E c \in Work : EnqueueChild(w, f, c, t)
  BY <1>6 DEF TypeOK, EnqueueChild, InsertChild, Quiet
<1>7. CASE \E kids \in SUBSET {c \in Work : Parent[c] = w} : WaitForChildren(w, f, kids, t)
  BY <1>7 DEF WaitForChildren, leaseVars, Quiet
<1>8. QED
  BY <1>1, <1>2, <1>3, <1>4, <1>5, <1>6, <1>7 DEF WorkerStep

(* Every step but the passing of time falls into one of these classes.     *)
Leasing(t) ==
  \/ ClaimNothing(t)
  \/ \E k \in Worker, w \in Work : Claim(k, w, t)
  \/ SweepFence(t)
  \/ \E w \in Work : \E f \in Issued(w) : Heartbeat(w, f, t) \/ YieldWork(w, f, t) \/ Ended(w, f, t)

LEMMA StepKinds ==
  ASSUME TypeOK, [Next]_vars
  PROVE  Quiet \/ Tick \/ \E t \in Stamp : Leasing(t)
<1>1. CASE vars' = vars
  BY <1>1 DEF vars, leaseVars, Quiet
<1>2. ASSUME NEW t \in Stamp, SweepStep(t)
      PROVE  Quiet \/ Leasing(t)
  BY <1>2, SweepKinds DEF Leasing
<1>3. ASSUME NEW t \in Stamp, NEW w \in Work, ServerStep(w, t)
      PROVE  Quiet
  BY <1>3, ServerKinds
<1>4. ASSUME NEW t \in Stamp, NEW w \in Work, NEW f \in Issued(w), WorkerStep(w, f, t)
      PROVE  Quiet \/ Leasing(t)
  BY <1>4, WorkerKinds DEF Leasing
<1>5. ASSUME NEW t \in Stamp, ClaimNothing(t) \/ \E k \in Worker, w \in Work : Claim(k, w, t)
      PROVE  Leasing(t)
  BY <1>5 DEF Leasing
<1>6. CASE Next
  BY <1>2, <1>3, <1>4, <1>5, <1>6 DEF Next
<1>7. QED  BY <1>1, <1>6

(* What ending leases does to the status of the other rows.                *)
LEMMA EndedRow ==
  ASSUME TypeOK, NEW w \in Work, NEW f, NEW t, Ended(w, f, t)
  PROVE  /\ status'[w] # "leased"
         /\ \A v \in Work \ {w} : status'[v] = "leased" <=> status[v] = "leased"
         /\ \A v \in Work \ {w} : expires'[v] = expires[v]
         /\ sessionLease' = DropSession(w, f) /\ attempts' = EndAttempts({w})
<1>1. PICK st \in (Active \cup Terminal) \ {"leased"} : \E g : EndLease(w, f, st, g)
  BY DEF Ended
<1>2. PICK D : status' = [CancelStatus(D) EXCEPT ![w] = st]
  BY <1>1 DEF EndLease
<1>3. CancelStatus(D) \in [Work -> Active \cup Terminal \cup {"absent"}]
  BY CancelTypes
<1>4. /\ expires' = [expires EXCEPT ![w] = 0]
      /\ sessionLease' = DropSession(w, f) /\ attempts' = EndAttempts({w})
  BY <1>1 DEF EndLease
<1>5. QED  BY <1>2, <1>3, <1>4, CancelKeepsLeases DEF TypeOK

-----------------------------------------------------------------------------
(* Session exclusivity *)

(* The session row belongs to the live lease and runs out with it.         *)
SessionRow(w) == [work |-> w, fence |-> fence[w], expires |-> expires[w]]
SessionRowHeld == \A w \in Work : LiveLease(w) => sessionLease[SessionOf[w]] = SessionRow(w)

LEMMA StampIsClock == ASSUME TypeOK, MaxLag = 0, NEW t \in Stamp PROVE t = clock
  BY DEF Stamp, TypeOK

LEMMA SessionRowStep ==
  ASSUME TypeOK, MaxLag = 0, SessionRowHeld, [Next]_vars
  PROVE  SessionRowHeld'
<1> SUFFICES ASSUME NEW v \in Work, LiveLease(v)'
             PROVE  sessionLease'[SessionOf[v]] = SessionRow(v)'
  BY DEF SessionRowHeld
<1> SessionOf[v] \in Session
  BY StructureAssumption
<1>1. CASE Quiet
  BY <1>1 DEF Quiet, LiveLease, SessionRowHeld, SessionRow
<1>2. CASE Tick
  <2>1. LiveLease(v)
    BY <1>2 DEF Tick, leaseVars, LiveLease, TypeOK
  <2>2. QED  BY <1>2, <2>1 DEF Tick, leaseVars, SessionRowHeld, SessionRow
<1>3. ASSUME NEW t \in Stamp, Leasing(t)
      PROVE  sessionLease'[SessionOf[v]] = SessionRow(v)'
  <2>0. t = clock /\ clock' = clock
    <3>1. t = clock  BY StampIsClock
    <3>2. clock' = clock
      BY <1>3 DEF Leasing, ClaimNothing, Claim, SweepFence, Heartbeat, YieldWork, Ended
    <3>3. QED  BY <3>1, <3>2
  <2>1. CASE ClaimNothing(t)
    BY <2>0, <2>1 DEF ClaimNothing, UnexpiredSessions, LiveLease, SessionRowHeld, SessionRow, TypeOK
  <2>2. ASSUME NEW k \in Worker, NEW w \in Work, Claim(k, w, t)
        PROVE  sessionLease'[SessionOf[v]] = SessionRow(v)'
    <3> SessionOf[w] \in Session
      BY StructureAssumption
    <3>1. CASE v = w
      BY <2>2, <3>1 DEF Claim, SessionRow, UnexpiredSessions, TypeOK
    <3>2. CASE v # w
      <4>1. LiveLease(v) /\ fence'[v] = fence[v] /\ expires'[v] = expires[v]
        BY <2>0, <2>2, <3>2 DEF Claim, LiveLease, TypeOK
      <4>2. sessionLease[SessionOf[v]] = SessionRow(v)
        BY <4>1 DEF SessionRowHeld
      <4>3. SessionOf[v] # SessionOf[w]
        BY <2>0, <2>2, <4>1, <4>2, StructureAssumption
        DEF Claim, Claimable, LiveSession, SessionRow, LiveLease
      <4>4. UnexpiredSessions(t)[SessionOf[v]] = SessionRow(v)
        BY <2>0, <4>1, <4>2 DEF UnexpiredSessions, SessionRow, LiveLease, TypeOK
      <4>5. sessionLease' = [UnexpiredSessions(t) EXCEPT ![SessionOf[w]] =
                              [work |-> w, fence |-> fence[w] + 1, expires |-> t + TTL]]
        BY <2>2 DEF Claim
      <4>6. QED  BY <4>1, <4>3, <4>4, <4>5 DEF SessionRow, UnexpiredSessions
    <3>3. QED  BY <3>1, <3>2
  <2>3. CASE SweepFence(t)
    <3>1. v \notin Overdue(t)
      BY <2>3 DEF SweepFence, Requeue, LiveLease
    <3>2. LiveLease(v) /\ fence'[v] = fence[v] /\ expires'[v] = expires[v]
      BY <2>0, <2>3, <3>1 DEF SweepFence, Requeue, LiveLease
    <3>3. QED  BY <2>3, <3>1, <3>2 DEF SweepFence, SessionRowHeld, SessionRow
  <2>4. ASSUME NEW w \in Work, NEW f \in Issued(w), Heartbeat(w, f, t)
        PROVE  sessionLease'[SessionOf[v]] = SessionRow(v)'
    <3>1. LiveLease(v) /\ fence' = fence
      BY <2>0, <2>4 DEF Heartbeat, HoldsLease, LiveLease, TypeOK
    <3>2. sessionLease[SessionOf[v]] = SessionRow(v)
      BY <3>1 DEF SessionRowHeld
    <3>3. CASE v = w
      BY <2>4, <3>1, <3>2, <3>3 DEF Heartbeat, HoldsLease, RenewSession, SessionRow, TypeOK
    <3>4. CASE v # w
      BY <2>4, <3>1, <3>2, <3>4 DEF Heartbeat, RenewSession, SessionRow, TypeOK
    <3>5. QED  BY <3>3, <3>4
  <2>5. ASSUME NEW w \in Work, NEW f \in Issued(w), YieldWork(w, f, t)
        PROVE  sessionLease'[SessionOf[v]] = SessionRow(v)'
    <3>1. v # w
      BY <2>5 DEF YieldWork, Requeue, LiveLease
    <3>2. LiveLease(v) /\ fence'[v] = fence[v] /\ expires'[v] = expires[v]
      BY <2>0, <2>5, <3>1 DEF YieldWork, Requeue, LiveLease
    <3>3. QED  BY <2>5, <3>1, <3>2 DEF YieldWork, DropSession, SessionRowHeld, SessionRow
  <2>6. ASSUME NEW w \in Work, NEW f \in Issued(w), Ended(w, f, t)
        PROVE  sessionLease'[SessionOf[v]] = SessionRow(v)'
    <3>1. v # w
      BY <2>6, EndedRow DEF LiveLease
    <3>2. LiveLease(v) /\ expires'[v] = expires[v] /\ sessionLease' = DropSession(w, f)
      BY <2>0, <2>6, <3>1, EndedRow DEF LiveLease
    <3>3. fence' = fence
      BY <2>6 DEF Ended
    <3>4. QED  BY <3>1, <3>2, <3>3 DEF DropSession, SessionRowHeld, SessionRow
  <2>7. QED  BY <1>3, <2>1, <2>2, <2>3, <2>4, <2>5, <2>6 DEF Leasing
<1>4. QED  BY <1>1, <1>2, <1>3, StepKinds

LEMMA SessionRowInvariant ==
  ASSUME MaxLag = 0
  PROVE  Spec => []SessionRowHeld
<1>1. Init => SessionRowHeld
  BY DEF Init, SessionRowHeld, LiveLease
<1>2. TypeOK /\ SessionRowHeld /\ [Next]_vars => SessionRowHeld'
  BY SessionRowStep
<1>3. QED  BY <1>1, <1>2, TypeCorrect, PTL DEF Spec

(* While no statement acts on a stale NOW(), claims, heartbeats, yields    *)
(* and the scheduler's fencing leave at most one live lease per session.   *)
THEOREM SessionsExclusive ==
  ASSUME MaxLag = 0
  PROVE  Spec => []SessionExclusive
<1>1. SessionRowHeld => SessionExclusive
  <2> SUFFICES ASSUME SessionRowHeld, NEW w \in Work, NEW v \in Work,
                      LiveLease(w), LiveLease(v), SessionOf[w] = SessionOf[v]
               PROVE  w = v
    BY DEF SessionExclusive
  <2>1. SessionRow(w) = SessionRow(v)
    BY DEF SessionRowHeld
  <2>2. QED  BY <2>1 DEF SessionRow
<1>2. QED  BY <1>1, SessionRowInvariant, PTL

-----------------------------------------------------------------------------
(* The attempt log *)

(* No attempt has a fence above its row's.                                 *)
FencesBehind == \A a \in attempts : a.fence <= fence[a.work]

AttemptInv == FencesBehind /\ OpenAttemptIsLease

(* Ending attempts only closes those of the current fence.                 *)
LEMMA EndedAttempts ==
  ASSUME attempts \subseteq AttemptType, NEW S, NEW b \in EndAttempts(S)
  PROVE  \E a \in attempts :
           /\ b.work = a.work /\ b.fence = a.fence /\ b.worker = a.worker /\ b.epoch = a.epoch
           /\ b.open <=> (a.open /\ ~(a.work \in S /\ a.fence = fence[a.work]))
<1>1. PICK a \in attempts :
        b = IF a.work \in S /\ a.fence = fence[a.work] THEN [a EXCEPT !.open = FALSE] ELSE a
  BY DEF EndAttempts
<1>2. a \in AttemptType
  OBVIOUS
<1>3. CASE a.work \in S /\ a.fence = fence[a.work]
  BY <1>1, <1>2, <1>3 DEF AttemptType
<1>4. CASE ~(a.work \in S /\ a.fence = fence[a.work])
  BY <1>1, <1>2, <1>4 DEF AttemptType
<1>5. QED  BY <1>3, <1>4

LEMMA OtherAttemptsKept ==
  ASSUME NEW S, NEW a \in attempts, ~(a.work \in S /\ a.fence = fence[a.work])
  PROVE  a \in EndAttempts(S)
  BY DEF EndAttempts

(* A set S of leased rows leaves its leases, with a new fence or not.      *)
LEMMA ReleaseKeepsAttemptInv ==
  ASSUME TypeOK, AttemptInv, NEW S \in SUBSET Work,
         attempts' = EndAttempts(S), fence' \in [Work -> Nat],
         \A v \in S : fence[v] <= fence'[v] /\ status'[v] # "leased",
         \A v \in Work \ S : /\ fence'[v] = fence[v]
                             /\ status'[v] = "leased" <=> status[v] = "leased"
  PROVE  AttemptInv'
<1>1. attempts \subseteq AttemptType
  BY DEF TypeOK, AttemptType
<1>2. ASSUME NEW b \in attempts'
      PROVE  b.fence <= fence'[b.work] /\ (b.open <=> status'[b.work] = "leased" /\ fence'[b.work] = b.fence)
  <2>1. PICK a \in attempts :
          /\ b.work = a.work /\ b.fence = a.fence
          /\ b.open <=> (a.open /\ ~(a.work \in S /\ a.fence = fence[a.work]))
    BY <1>1, <1>2, EndedAttempts
  <2>2. a.work \in Work /\ a.fence \in Nat /\ fence[a.work] \in Nat
    BY <1>1 DEF TypeOK, AttemptType
  <2>3. a.fence <= fence[a.work] /\ (a.open <=> status[a.work] = "leased" /\ fence[a.work] = a.fence)
    BY DEF AttemptInv, FencesBehind, OpenAttemptIsLease
  <2>4. CASE a.work \in S
    <3>1. fence[a.work] <= fence'[a.work] /\ fence'[a.work] \in Nat /\ status'[a.work] # "leased"
      BY <2>2, <2>4
    <3>2. ~b.open
      BY <2>1, <2>3, <2>4
    <3>3. b.fence <= fence'[b.work]
      BY <2>1, <2>2, <2>3, <3>1
    <3>4. QED  BY <2>1, <3>1, <3>2, <3>3
  <2>5. CASE a.work \notin S
    BY <2>1, <2>2, <2>3, <2>5
  <2>6. QED  BY <2>4, <2>5
<1>3. ASSUME NEW v \in Work, status'[v] = "leased"
      PROVE  \E b \in attempts' : b.work = v /\ b.fence = fence'[v]
  <2>1. v \notin S /\ status[v] = "leased" /\ fence'[v] = fence[v]
    BY <1>3
  <2>2. PICK a \in attempts : a.work = v /\ a.fence = fence[v]
    BY <2>1 DEF AttemptInv, OpenAttemptIsLease
  <2>3. QED  BY <2>1, <2>2, OtherAttemptsKept
<1>4. QED  BY <1>2, <1>3 DEF AttemptInv, FencesBehind, OpenAttemptIsLease

(* A claim ends the attempt of the lease it takes over and opens the next. *)
LEMMA ClaimKeepsAttemptInv ==
  ASSUME TypeOK, AttemptInv, NEW k \in Worker, NEW w \in Work, NEW t, Claim(k, w, t)
  PROVE  AttemptInv'
<1> DEFINE new == [work |-> w, fence |-> fence[w] + 1, worker |-> k,
                   epoch |-> HomeEpoch(SessionOf[w], k), open |-> TRUE]
<1>1. attempts \subseteq AttemptType
  BY DEF TypeOK, AttemptType
<1>2. attempts' = EndAttempts({w}) \cup {new}
  BY DEF Claim
<1>3. /\ status'[w] = "leased" /\ fence'[w] = fence[w] + 1 /\ fence[w] \in Nat
      /\ \A v \in Work \ {w} : status'[v] = status[v] /\ fence'[v] = fence[v]
  BY DEF Claim, TypeOK
<1>4. new.work = w /\ new.fence = fence[w] + 1 /\ new.open = TRUE
  OBVIOUS
<1> HIDE DEF new
<1>5. ASSUME NEW b \in EndAttempts({w})
      PROVE  b.fence <= fence'[b.work] /\ (b.open <=> status'[b.work] = "leased" /\ fence'[b.work] = b.fence)
  <2>1. PICK a \in attempts :
          /\ b.work = a.work /\ b.fence = a.fence
          /\ b.open <=> (a.open /\ ~(a.work \in {w} /\ a.fence = fence[a.work]))
    BY <1>1, <1>5, EndedAttempts
  <2>2. a.work \in Work /\ a.fence \in Nat /\ fence[a.work] \in Nat
    BY <1>1 DEF TypeOK, AttemptType
  <2>3. a.fence <= fence[a.work] /\ (a.open <=> status[a.work] = "leased" /\ fence[a.work] = a.fence)
    BY DEF AttemptInv, FencesBehind, OpenAttemptIsLease
  <2>4. CASE a.work = w
    <3>1. ~b.open
      BY <2>1, <2>3, <2>4
    <3>2. b.fence <= fence'[b.work] /\ b.fence # fence'[b.work]
      BY <1>3, <2>1, <2>2, <2>3, <2>4
    <3>3. QED  BY <3>1, <3>2
  <2>5. CASE a.work # w
    BY <1>3, <2>1, <2>2, <2>3, <2>5
  <2>6. QED  BY <2>4, <2>5
<1>6. ASSUME NEW b \in attempts'
      PROVE  b.fence <= fence'[b.work] /\ (b.open <=> status'[b.work] = "leased" /\ fence'[b.work] = b.fence)
  <2>1. CASE b \in EndAttempts({w})
    BY <1>5, <2>1
  <2>2. CASE b = new
    <3>1. b.fence <= fence'[b.work] /\ fence'[b.work] = b.fence /\ status'[b.work] = "leased"
      BY <1>3, <1>4, <2>2
    <3>2. QED  BY <1>4, <2>2, <3>1
  <2>3. QED  BY <1>2, <2>1, <2>2
<1>7. ASSUME NEW v \in Work, status'[v] = "leased"
      PROVE  \E b \in attempts' : b.work = v /\ b.fence = fence'[v]
  <2>1. CASE v = w
    BY <1>2, <1>3, <1>4, <2>1
  <2>2. CASE v # w
    <3>1. PICK a \in attempts : a.work = v /\ a.fence = fence[v]
      BY <1>3, <1>7, <2>2 DEF AttemptInv, OpenAttemptIsLease
    <3>2. a \in attempts'
      BY <1>2, <2>2, <3>1, OtherAttemptsKept
    <3>3. QED  BY <1>3, <2>2, <3>1, <3>2
  <2>3. QED  BY <2>1, <2>2
<1>8. QED  BY <1>6, <1>7 DEF AttemptInv, FencesBehind, OpenAttemptIsLease

LEMMA AttemptStep ==
  ASSUME TypeOK, TypeOK', AttemptInv, [Next]_vars
  PROVE  AttemptInv'
<1>0. fence' \in [Work -> Nat]
  BY DEF TypeOK
<1>1. ASSUME attempts' = attempts, fence' = fence,
             \A w \in Work : status'[w] = "leased" <=> status[w] = "leased"
      PROVE  AttemptInv'
  <2>1. \A a \in attempts : a.work \in Work
    BY DEF TypeOK
  <2>2. QED  BY <1>1, <2>1 DEF AttemptInv, FencesBehind, OpenAttemptIsLease
<1>2. CASE Quiet
  BY <1>1, <1>2 DEF Quiet
<1>3. CASE Tick
  BY <1>1, <1>3 DEF Tick, leaseVars
<1>4. ASSUME NEW t \in Stamp, ClaimNothing(t) PROVE AttemptInv'
  BY <1>1, <1>4 DEF ClaimNothing
<1>5. ASSUME NEW t \in Stamp, NEW k \in Worker, NEW w \in Work, Claim(k, w, t) PROVE AttemptInv'
  BY <1>5, ClaimKeepsAttemptInv
<1>6. ASSUME NEW t \in Stamp, SweepFence(t) PROVE AttemptInv'
  <2>1. Overdue(t) \in SUBSET Work
    BY DEF Overdue
  <2>2. \A v \in Overdue(t) : fence[v] <= fence'[v] /\ status'[v] # "leased"
    BY <1>6, <2>1 DEF SweepFence, Requeue, TypeOK
  <2>3. \A v \in Work \ Overdue(t) : fence'[v] = fence[v] /\ (status'[v] = "leased" <=> status[v] = "leased")
    BY <1>6 DEF SweepFence, Requeue
  <2>4. attempts' = EndAttempts(Overdue(t))
    BY <1>6 DEF SweepFence, Requeue
  <2>5. QED  BY <1>0, <2>1, <2>2, <2>3, <2>4, ReleaseKeepsAttemptInv
<1>7. ASSUME NEW t \in Stamp, NEW w \in Work, NEW f, Heartbeat(w, f, t) PROVE AttemptInv'
  BY <1>1, <1>7 DEF Heartbeat
<1>8. ASSUME NEW t \in Stamp, NEW w \in Work, NEW f, YieldWork(w, f, t) PROVE AttemptInv'
  <2>1. \A v \in {w} : fence[v] <= fence'[v] /\ status'[v] # "leased"
    BY <1>8 DEF YieldWork, Requeue, TypeOK
  <2>2. \A v \in Work \ {w} : fence'[v] = fence[v] /\ (status'[v] = "leased" <=> status[v] = "leased")
    BY <1>8 DEF YieldWork, Requeue
  <2>3. attempts' = EndAttempts({w})
    BY <1>8 DEF YieldWork, Requeue
  <2>4. QED  BY <1>0, <2>1, <2>2, <2>3, ReleaseKeepsAttemptInv
<1>9. ASSUME NEW t \in Stamp, NEW w \in Work, NEW f, Ended(w, f, t) PROVE AttemptInv'
  <2>1. fence' = fence
    BY <1>9 DEF Ended
  <2>2. /\ attempts' = EndAttempts({w}) /\ status'[w] # "leased"
        /\ \A v \in Work \ {w} : status'[v] = "leased" <=> status[v] = "leased"
    BY <1>9, EndedRow
  <2>3. \A v \in {w} : fence[v] <= fence'[v] /\ status'[v] # "leased"
    BY <2>1, <2>2 DEF TypeOK
  <2>4. \A v \in Work \ {w} : fence'[v] = fence[v] /\ (status'[v] = "leased" <=> status[v] = "leased")
    BY <2>1, <2>2
  <2>5. QED  BY <1>0, <2>2, <2>3, <2>4, ReleaseKeepsAttemptInv
<1>10. QED  BY <1>2, <1>3, <1>4, <1>5, <1>6, <1>7, <1>8, <1>9, StepKinds DEF Leasing

(* The log the track_attempt trigger keeps agrees with the queue after     *)
(* every operation, also when a claim takes over an expired lease.         *)
LEMMA AttemptLogAgrees == Spec => []OpenAttemptIsLease
<1>1. Init => AttemptInv
  BY DEF Init, AttemptInv, FencesBehind, OpenAttemptIsLease
<1>2. TypeOK /\ TypeOK' /\ AttemptInv /\ [Next]_vars => AttemptInv'
  BY AttemptStep
<1>3. AttemptInv => OpenAttemptIsLease
  BY DEF AttemptInv
<1>4. QED  BY <1>1, <1>2, <1>3, TypeCorrect, PTL DEF Spec

-----------------------------------------------------------------------------
(* Routes *)

(* A session's route has its newest epoch, which is its worker's.          *)
RouteBound ==
  \A a \in attempts : /\ a.epoch <= route[SessionOf[a.work]].epoch
                      /\ a.epoch = route[SessionOf[a.work]].epoch => a.worker = route[SessionOf[a.work]].worker

RouteInv == RouteBound /\ EpochOwner

(* Routes stay, and every attempt was there before.                        *)
LEMMA SameRoutes ==
  ASSUME RouteInv, route' = route,
         \A b \in attempts' : \E a \in attempts : b.work = a.work /\ b.worker = a.worker /\ b.epoch = a.epoch
  PROVE  RouteInv'
  BY DEF RouteInv, RouteBound, EpochOwner

LEMMA ClaimKeepsRouteInv ==
  ASSUME TypeOK, RouteInv, NEW k \in Worker, NEW w \in Work, NEW t, Claim(k, w, t)
  PROVE  RouteInv'
<1> DEFINE s == SessionOf[w]
           home == HomeEpoch(s, k)
           new == [work |-> w, fence |-> fence[w] + 1, worker |-> k, epoch |-> home, open |-> TRUE]
<1>1. attempts \subseteq AttemptType
  BY DEF TypeOK, AttemptType
<1>2. attempts' = EndAttempts({w}) \cup {new}
  BY DEF Claim
<1>3. s \in Session /\ route[s].epoch \in Nat
  BY StructureAssumption DEF TypeOK
<1>4. /\ route'[s] = [worker |-> k, epoch |-> home]
      /\ \A r \in Session \ {s} : route'[r] = route[r]
  BY <1>3 DEF Claim, TypeOK
<1>5. home \in Nat /\ route[s].epoch <= home /\ (home = route[s].epoch => route[s].worker = k)
  BY <1>3 DEF HomeEpoch
<1>6. new.work = w /\ new.worker = k /\ new.epoch = home
  OBVIOUS
<1>7. route'[s].worker = k /\ route'[s].epoch = home
  BY <1>4
<1> HIDE DEF new, home, s
<1>8. ASSUME NEW b \in attempts' \ {new}
      PROVE  \E a \in attempts : /\ b.work = a.work /\ b.worker = a.worker /\ b.epoch = a.epoch
                                 /\ a.work \in Work /\ a.epoch \in Nat /\ SessionOf[a.work] \in Session
  <2>1. PICK a \in attempts : b.work = a.work /\ b.worker = a.worker /\ b.epoch = a.epoch
    BY <1>1, <1>2, <1>8, EndedAttempts
  <2>2. a.work \in Work /\ a.epoch \in Nat
    BY <1>1 DEF AttemptType
  <2>3. QED  BY <2>1, <2>2, StructureAssumption
<1>9. ASSUME NEW b \in attempts' \ {new}
      PROVE  /\ b.epoch <= route'[SessionOf[b.work]].epoch
             /\ b.epoch = route'[SessionOf[b.work]].epoch => b.worker = route'[SessionOf[b.work]].worker
  <2>1. PICK a \in attempts : /\ b.work = a.work /\ b.worker = a.worker /\ b.epoch = a.epoch
                              /\ a.work \in Work /\ a.epoch \in Nat /\ SessionOf[a.work] \in Session
    BY <1>8, <1>9
  <2>2. /\ a.epoch <= route[SessionOf[a.work]].epoch
        /\ a.epoch = route[SessionOf[a.work]].epoch => a.worker = route[SessionOf[a.work]].worker
    BY DEF RouteInv, RouteBound
  <2>3. CASE SessionOf[a.work] = s
    BY <1>3, <1>5, <1>7, <2>1, <2>2, <2>3
  <2>4. CASE SessionOf[a.work] # s
    BY <1>4, <2>1, <2>2, <2>4
  <2>5. QED  BY <2>3, <2>4
<1>10. RouteBound'
  <2>1. new.epoch <= route'[SessionOf[new.work]].epoch /\ new.worker = route'[SessionOf[new.work]].worker
    BY <1>5, <1>6, <1>7 DEF s
  <2>2. QED  BY <1>9, <2>1 DEF RouteBound
<1>11. EpochOwner'
  <2>1. ASSUME NEW b \in attempts' \ {new}, SessionOf[b.work] = s, b.epoch = home
        PROVE  b.worker = k
    BY <1>7, <1>9, <2>1
  <2>2. ASSUME NEW b \in attempts' \ {new}, NEW c \in attempts' \ {new},
               SessionOf[b.work] = SessionOf[c.work], b.epoch = c.epoch
        PROVE  b.worker = c.worker
    BY <1>8, <2>2 DEF RouteInv, EpochOwner
  <2>3. QED  BY <1>6, <2>1, <2>2 DEF EpochOwner, s
<1>12. QED  BY <1>10, <1>11 DEF RouteInv

LEMMA RouteStep ==
  ASSUME TypeOK, RouteInv, [Next]_vars
  PROVE  RouteInv'
<1>0. attempts \subseteq AttemptType
  BY DEF TypeOK, AttemptType
<1>1. ASSUME NEW S, attempts' = EndAttempts(S), route' = route PROVE RouteInv'
  BY <1>0, <1>1, EndedAttempts, SameRoutes
<1>2. ASSUME attempts' = attempts, route' = route PROVE RouteInv'
  BY <1>2, SameRoutes
<1>3. CASE Quiet
  BY <1>2, <1>3 DEF Quiet
<1>4. CASE Tick
  BY <1>2, <1>4 DEF Tick, leaseVars
<1>5. ASSUME NEW t \in Stamp, NEW k \in Worker, NEW w \in Work, Claim(k, w, t) PROVE RouteInv'
  BY <1>5, ClaimKeepsRouteInv
<1>6. ASSUME NEW t \in Stamp, ClaimNothing(t) \/ \E w \in Work, f \in Nat : Heartbeat(w, f, t) PROVE RouteInv'
  BY <1>2, <1>6 DEF ClaimNothing, Heartbeat
<1>7. ASSUME NEW t \in Stamp, SweepFence(t) PROVE RouteInv'
  BY <1>1, <1>7 DEF SweepFence, Requeue
<1>8. ASSUME NEW t \in Stamp, NEW w \in Work, NEW f, YieldWork(w, f, t) PROVE RouteInv'
  BY <1>1, <1>8 DEF YieldWork, Requeue
<1>9. ASSUME NEW t \in Stamp, NEW w \in Work, NEW f, Ended(w, f, t) PROVE RouteInv'
  BY <1>1, <1>9, EndedRow DEF Ended
<1>10. ASSUME NEW w \in Work, NEW f \in Issued(w) PROVE f \in Nat
  BY <1>0, <1>10 DEF Issued, AttemptType
<1>11. QED  BY <1>3, <1>4, <1>5, <1>6, <1>7, <1>8, <1>9, <1>10, StepKinds DEF Leasing

(* A home epoch is never handed to two workers: the claim's upsert of the  *)
(* route bumps it with every change of worker.                             *)
LEMMA EpochsOwned == Spec => []EpochOwner
<1>1. Init => RouteInv
  BY DEF Init, RouteInv, RouteBound, EpochOwner
<1>2. TypeOK /\ RouteInv /\ [Next]_vars => RouteInv'
  BY RouteStep
<1>3. RouteInv => EpochOwner
  BY DEF RouteInv
<1>4. QED  BY <1>1, <1>2, <1>3, TypeCorrect, PTL DEF Spec

(* What the log of attempts says of homes and of proofs holds after every  *)
(* operation, whatever NOW() its statement saw: an epoch is one worker's,  *)
(* and the open attempts are the leases.                                   *)
THEOREM AttemptsLogged == Spec => []AttemptLogKept
<1>1. EpochOwner /\ OpenAttemptIsLease => AttemptLogKept
  BY DEF AttemptLogKept
<1>2. QED  BY <1>1, AttemptLogAgrees, EpochsOwned, PTL

(* Leases that are live after the step were before, and rows that stay     *)
(* leased keep their attempt.                                              *)
LEMMA RouteHeldUnlessClaimed ==
  ASSUME TypeOK, LiveLeaseOwnsRoute, NEW S,
         attempts' = attempts \/ attempts' = EndAttempts(S), route' = route,
         \A v \in Work : LiveLease(v)' => LiveLease(v) /\ v \notin S /\ fence'[v] = fence[v]
  PROVE  LiveLeaseOwnsRoute'
<1> SUFFICES ASSUME NEW v \in Work, LiveLease(v)'
             PROVE  \E a \in attempts' :
                      /\ a.work = v /\ a.fence = fence'[v] /\ a.open
                      /\ route'[SessionOf[v]] = [worker |-> a.worker, epoch |-> a.epoch]
  BY DEF LiveLeaseOwnsRoute
<1>1. PICK a \in attempts :
        /\ a.work = v /\ a.fence = fence[v] /\ a.open
        /\ route[SessionOf[v]] = [worker |-> a.worker, epoch |-> a.epoch]
  BY DEF LiveLeaseOwnsRoute
<1>2. a \in attempts'
  BY <1>1, OtherAttemptsKept
<1>3. QED  BY <1>1, <1>2

(* Which leases are live after a step that claims nothing.                 *)
LEMMA LiveAfter ==
  ASSUME TypeOK, NEW t \in Stamp, MaxLag = 0
  PROVE  /\ Quiet \/ Tick \/ ClaimNothing(t) =>
              \A v \in Work : LiveLease(v)' => LiveLease(v) /\ fence'[v] = fence[v]
         /\ SweepFence(t) =>
              \A v \in Work : LiveLease(v)' => LiveLease(v) /\ v \notin Overdue(t) /\ fence'[v] = fence[v]
         /\ \A w \in Work, f \in Nat :
              /\ Heartbeat(w, f, t) => \A v \in Work : LiveLease(v)' => LiveLease(v) /\ fence'[v] = fence[v]
              /\ YieldWork(w, f, t) \/ Ended(w, f, t) =>
                   \A v \in Work : LiveLease(v)' => LiveLease(v) /\ v # w /\ fence'[v] = fence[v]
<1>1. Quiet => \A v \in Work : LiveLease(v)' => LiveLease(v) /\ fence'[v] = fence[v]
  BY DEF Quiet, LiveLease
<1>2. Tick => \A v \in Work : LiveLease(v)' => LiveLease(v) /\ fence'[v] = fence[v]
  BY DEF Tick, leaseVars, LiveLease, TypeOK
<1>3. ClaimNothing(t) => \A v \in Work : LiveLease(v)' => LiveLease(v) /\ fence'[v] = fence[v]
  BY DEF ClaimNothing, LiveLease
<1>4. SweepFence(t) =>
        \A v \in Work : LiveLease(v)' => LiveLease(v) /\ v \notin Overdue(t) /\ fence'[v] = fence[v]
  BY DEF SweepFence, Requeue, LiveLease
<1>5. ASSUME NEW w \in Work, NEW f \in Nat, Heartbeat(w, f, t), NEW v \in Work, LiveLease(v)'
      PROVE  LiveLease(v) /\ fence'[v] = fence[v]
  BY <1>5, StampIsClock DEF Heartbeat, HoldsLease, LiveLease, TypeOK
<1>6. ASSUME NEW w \in Work, NEW f \in Nat, YieldWork(w, f, t), NEW v \in Work, LiveLease(v)'
      PROVE  LiveLease(v) /\ v # w /\ fence'[v] = fence[v]
  BY <1>6 DEF YieldWork, Requeue, LiveLease
<1>7. ASSUME NEW w \in Work, NEW f \in Nat, Ended(w, f, t), NEW v \in Work, LiveLease(v)'
      PROVE  LiveLease(v) /\ v # w /\ fence'[v] = fence[v]
  <2>1. v # w /\ LiveLease(v)
    BY <1>7, EndedRow DEF Ended, LiveLease
  <2>2. QED  BY <1>7, <2>1 DEF Ended
<1>8. QED  BY <1>1, <1>2, <1>3, <1>4, <1>5, <1>6, <1>7

(* No other lease of a claimed session is live.                            *)
LEMMA ClaimsFreeSession ==
  ASSUME TypeOK, MaxLag = 0, SessionRowHeld, NEW t \in Stamp,
         NEW k \in Worker, NEW w \in Work, Claim(k, w, t), NEW v \in Work, LiveLease(v)
  PROVE  SessionOf[v] # SessionOf[w] /\ v # w
<1>1. t = clock
  BY StampIsClock
<1>2. sessionLease[SessionOf[v]] = SessionRow(v)
  BY DEF SessionRowHeld
<1>3. SessionOf[v] # SessionOf[w]
  BY <1>1, <1>2, StructureAssumption DEF Claim, Claimable, LiveSession, SessionRow, LiveLease
<1>4. QED  BY <1>3

LEMMA OwnsRouteStep ==
  ASSUME TypeOK, MaxLag = 0, SessionRowHeld, LiveLeaseOwnsRoute, [Next]_vars
  PROVE  LiveLeaseOwnsRoute'
<1>0. attempts \subseteq AttemptType
  BY DEF TypeOK, AttemptType
<1>1. clock \in Stamp
  BY DEF TypeOK, Stamp
<1>2. CASE Quiet
  <2>1. (attempts' = attempts \/ attempts' = EndAttempts({})) /\ route' = route
    BY <1>2 DEF Quiet
  <2>2. \A v \in Work : LiveLease(v)' => LiveLease(v) /\ v \notin {} /\ fence'[v] = fence[v]
    BY <1>1, <1>2, LiveAfter
  <2>3. QED  BY <2>1, <2>2, RouteHeldUnlessClaimed
<1>3. CASE Tick
  <2>1. (attempts' = attempts \/ attempts' = EndAttempts({})) /\ route' = route
    BY <1>3 DEF Tick, leaseVars
  <2>2. \A v \in Work : LiveLease(v)' => LiveLease(v) /\ v \notin {} /\ fence'[v] = fence[v]
    BY <1>1, <1>3, LiveAfter
  <2>3. QED  BY <2>1, <2>2, RouteHeldUnlessClaimed
<1>4. ASSUME NEW t \in Stamp, ClaimNothing(t) PROVE LiveLeaseOwnsRoute'
  <2>1. (attempts' = attempts \/ attempts' = EndAttempts({})) /\ route' = route
    BY <1>4 DEF ClaimNothing
  <2>2. \A v \in Work : LiveLease(v)' => LiveLease(v) /\ v \notin {} /\ fence'[v] = fence[v]
    BY <1>4, LiveAfter
  <2>3. QED  BY <2>1, <2>2, RouteHeldUnlessClaimed
<1>5. ASSUME NEW t \in Stamp, NEW k \in Worker, NEW w \in Work, Claim(k, w, t), NEW v \in Work, LiveLease(v)'
      PROVE  \E a \in attempts' :
               /\ a.work = v /\ a.fence = fence'[v] /\ a.open
               /\ route'[SessionOf[v]] = [worker |-> a.worker, epoch |-> a.epoch]
  <2> DEFINE home == HomeEpoch(SessionOf[w], k)
             new == [work |-> w, fence |-> fence[w] + 1, worker |-> k, epoch |-> home, open |-> TRUE]
  <2>1. attempts' = EndAttempts({w}) \cup {new}
    BY <1>5 DEF Claim
  <2>2. SessionOf[w] \in Session /\ SessionOf[v] \in Session
    BY StructureAssumption
  <2>3. CASE v = w
    <3>1. route'[SessionOf[w]] = [worker |-> k, epoch |-> home] /\ fence'[w] = fence[w] + 1
      BY <1>5, <2>2 DEF Claim, TypeOK
    <3>2. new \in attempts' /\ new.work = w /\ new.fence = fence[w] + 1 /\ new.open
          /\ new.worker = k /\ new.epoch = home
      BY <2>1
    <3>3. QED  BY <2>3, <3>1, <3>2
  <2>4. CASE v # w
    <3>1. LiveLease(v) /\ fence'[v] = fence[v]
      BY <1>5, <2>4 DEF Claim, LiveLease, TypeOK
    <3>2. SessionOf[v] # SessionOf[w]
      BY <1>5, <3>1, ClaimsFreeSession
    <3>3. route'[SessionOf[v]] = route[SessionOf[v]]
      BY <1>5, <2>2, <3>2 DEF Claim, TypeOK
    <3>4. PICK a \in attempts :
            /\ a.work = v /\ a.fence = fence[v] /\ a.open
            /\ route[SessionOf[v]] = [worker |-> a.worker, epoch |-> a.epoch]
      BY <3>1 DEF LiveLeaseOwnsRoute
    <3>5. a \in attempts'
      BY <2>1, <2>4, <3>4, OtherAttemptsKept
    <3>6. QED  BY <3>1, <3>3, <3>4, <3>5
  <2>5. QED  BY <2>3, <2>4
<1>6. ASSUME NEW t \in Stamp, SweepFence(t) PROVE LiveLeaseOwnsRoute'
  <2>1. attempts' = EndAttempts(Overdue(t)) /\ route' = route
    BY <1>6 DEF SweepFence, Requeue
  <2>2. QED  BY <1>6, <2>1, LiveAfter, RouteHeldUnlessClaimed
<1>7. ASSUME NEW w \in Work, NEW f \in Issued(w) PROVE f \in Nat
  BY <1>0, <1>7 DEF Issued, AttemptType
<1>8. ASSUME NEW t \in Stamp, NEW w \in Work, NEW f \in Nat, Heartbeat(w, f, t) PROVE LiveLeaseOwnsRoute'
  <2>1. (attempts' = attempts \/ attempts' = EndAttempts({})) /\ route' = route
    BY <1>8 DEF Heartbeat
  <2>2. \A v \in Work : LiveLease(v)' => LiveLease(v) /\ v \notin {} /\ fence'[v] = fence[v]
    BY <1>8, LiveAfter
  <2>3. QED  BY <2>1, <2>2, RouteHeldUnlessClaimed
<1>9. ASSUME NEW t \in Stamp, NEW w \in Work, NEW f \in Nat, YieldWork(w, f, t) \/ Ended(w, f, t)
      PROVE  LiveLeaseOwnsRoute'
  <2>1. attempts' = EndAttempts({w}) /\ route' = route
    BY <1>9, EndedRow DEF YieldWork, Requeue, Ended
  <2>2. \A v \in Work : LiveLease(v)' => LiveLease(v) /\ v \notin {w} /\ fence'[v] = fence[v]
    BY <1>9, LiveAfter
  <2>3. QED  BY <2>1, <2>2, RouteHeldUnlessClaimed
<1>10. (\E t \in Stamp, k \in Worker, w \in Work : Claim(k, w, t)) => LiveLeaseOwnsRoute'
  BY <1>5 DEF LiveLeaseOwnsRoute
<1>11. QED
  BY <1>2, <1>3, <1>4, <1>6, <1>7, <1>8, <1>9, <1>10, StepKinds DEF Leasing

(* Without stale NOW(), a session is rerouted only when no lease on it is  *)
(* live: the worker of a live lease has the newest home of its session.    *)
THEOREM LiveLeasesOwnRoutes ==
  ASSUME MaxLag = 0
  PROVE  Spec => []LiveLeaseOwnsRoute
<1>1. Init => LiveLeaseOwnsRoute
  BY DEF Init, LiveLeaseOwnsRoute, LiveLease
<1>2. TypeOK /\ SessionRowHeld /\ LiveLeaseOwnsRoute /\ [Next]_vars => LiveLeaseOwnsRoute'
  BY OwnsRouteStep
<1>3. QED  BY <1>1, <1>2, SessionRowInvariant, TypeCorrect, PTL DEF Spec

-----------------------------------------------------------------------------
(* Refinement of SessionLock *)

(* A session's holder is its one live lease.                               *)
HolderExact ==
  \A s \in Session :
    \/ Holder[s] = 0 /\ \A w \in Work : SessionOf[w] = s => ~LiveLease(w)
    \/ /\ Holder[s] \in Work /\ LiveLease(Holder[s]) /\ SessionOf[Holder[s]] = s
       /\ \A w \in Work : SessionOf[w] = s /\ LiveLease(w) => w = Holder[s]

LEMMA HolderIsExact == SessionExclusive => HolderExact
<1> SUFFICES ASSUME SessionExclusive, NEW s \in Session
             PROVE  \/ Holder[s] = 0 /\ \A w \in Work : SessionOf[w] = s => ~LiveLease(w)
                    \/ /\ Holder[s] \in Work /\ LiveLease(Holder[s]) /\ SessionOf[Holder[s]] = s
                       /\ \A w \in Work : SessionOf[w] = s /\ LiveLease(w) => w = Holder[s]
  BY DEF HolderExact
<1> DEFINE live == {w \in Work : SessionOf[w] = s /\ LiveLease(w)}
<1>1. Holder[s] = IF live = {} THEN 0 ELSE CHOOSE w \in live : TRUE
  BY DEF Holder
<1>2. \A w, v \in live : w = v
  BY DEF SessionExclusive
<1>3. CASE live # {}
  <2>1. Holder[s] \in live
    BY <1>1, <1>3
  <2>2. QED  BY <1>2, <2>1
<1>4. CASE live = {}
  BY <1>1, <1>4
<1>5. QED  BY <1>3, <1>4

(* A step that makes no lease live releases the sessions of those it ends; *)
(* R is the set of rows it fences off.                                     *)
LEMMA Releases ==
  ASSUME TypeOK, HolderExact, HolderExact', NEW R \in SUBSET Work,
         fence' = [x \in Work |-> IF x \in R THEN fence[x] + 1 ELSE fence[x]],
         \A v \in Work : LiveLease(v)' => LiveLease(v) /\ v \notin R
  PROVE  \E L \in SUBSET Session : Lock!Release(L, R)
<1> DEFINE L == {s \in Session : Holder'[s] = 0}
<1>1. ASSUME NEW s \in Session PROVE Holder'[s] = IF s \in L THEN 0 ELSE Holder[s]
  <2>1. CASE Holder'[s] # 0
    <3>1. PICK v \in Work : v = Holder'[s] /\ SessionOf[v] = s /\ LiveLease(v)'
      BY <2>1 DEF HolderExact, LiveLease
    <3>2. v = Holder[s]
      BY <3>1 DEF HolderExact
    <3>3. QED  BY <2>1, <3>1, <3>2
  <2>2. QED  BY <2>1
<1>2. Holder' = [s \in Session |-> IF s \in L THEN 0 ELSE Holder[s]]
  BY <1>1 DEF Holder
<1>3. ASSUME NEW w \in R PROVE Holder'[SessionOf[w]] # w
  <2>1. SessionOf[w] \in Session /\ w # 0 /\ ~LiveLease(w)'
    BY StructureAssumption
  <2>2. QED  BY <2>1 DEF HolderExact, LiveLease
<1>4. QED  BY <1>2, <1>3 DEF Lock!Release

(* A claim grants a free session.                                          *)
LEMMA Grants ==
  ASSUME TypeOK, MaxLag = 0, SessionRowHeld, HolderExact, HolderExact',
         NEW t \in Stamp, NEW k \in Worker, NEW w \in Work, Claim(k, w, t)
  PROVE  Lock!Grant(w)
<1>1. SessionOf[w] \in Session
  BY StructureAssumption
<1>2. Holder[SessionOf[w]] = 0
  <2>1. \A v \in Work : SessionOf[v] = SessionOf[w] => ~LiveLease(v)
    BY ClaimsFreeSession
  <2>2. QED  BY <1>1, <2>1 DEF HolderExact
<1>3. LiveLease(w)' /\ fence' = [fence EXCEPT ![w] = @ + 1]
  <2>1. clock' = clock /\ t = clock /\ status'[w] = "leased" /\ expires'[w] = t + TTL
    BY StampIsClock DEF Claim, TypeOK
  <2>2. QED  BY <2>1, TimeAssumption DEF Claim, LiveLease, TypeOK
<1>4. ASSUME NEW v \in Work \ {w} PROVE LiveLease(v)' <=> LiveLease(v)
  BY DEF Claim, LiveLease, TypeOK
<1>5. Holder'[SessionOf[w]] = w
  BY <1>1, <1>3 DEF HolderExact, LiveLease
<1>6. ASSUME NEW s \in Session \ {SessionOf[w]} PROVE Holder'[s] = Holder[s]
  <2>1. \A v \in Work : SessionOf[v] = s => v # w /\ (LiveLease(v)' <=> LiveLease(v))
    BY <1>4
  <2>2. CASE Holder[s] = 0
    <3>1. \A v \in Work : SessionOf[v] = s => ~LiveLease(v)'
      BY <2>1, <2>2, StructureAssumption DEF HolderExact
    <3>2. QED  BY <2>2, <3>1 DEF HolderExact, LiveLease
  <2>3. CASE Holder[s] # 0
    <3>1. PICK v \in Work : v = Holder[s] /\ SessionOf[v] = s /\ LiveLease(v)
      BY <2>3 DEF HolderExact
    <3>2. LiveLease(v)'
      BY <2>1, <3>1
    <3>3. QED  BY <3>1, <3>2 DEF HolderExact, LiveLease
  <2>4. QED  BY <2>2, <2>3
<1>7. Holder' = [Holder EXCEPT ![SessionOf[w]] = w]
  <2> DEFINE H == [Holder EXCEPT ![SessionOf[w]] = w]
  <2>1. /\ Holder = [s \in Session |-> Holder[s]]
        /\ Holder' = [s \in Session |-> Holder'[s]]
    BY DEF Holder
  <2>2. H = [s \in Session |-> H[s]]
    BY <2>1
  <2>3. ASSUME NEW s \in Session PROVE Holder'[s] = H[s]
    BY <1>5, <1>6, <2>1
  <2>4. QED  BY <2>1, <2>2, <2>3
<1>8. QED  BY <1>2, <1>3, <1>7 DEF Lock!Grant

LEMMA LockStep ==
  ASSUME TypeOK, MaxLag = 0, SessionRowHeld, HolderExact, HolderExact', [Next]_vars
  PROVE  Lock!Next
<1>0. attempts \subseteq AttemptType
  BY DEF TypeOK, AttemptType
<1>1. clock \in Stamp
  BY DEF TypeOK, Stamp
<1>2. ASSUME NEW R \in SUBSET Work,
             fence' = [x \in Work |-> IF x \in R THEN fence[x] + 1 ELSE fence[x]],
             \A v \in Work : LiveLease(v)' => LiveLease(v) /\ v \notin R
      PROVE  Lock!Next
  BY <1>2, Releases DEF Lock!Next
<1>3. ASSUME fence' = fence, \A v \in Work : LiveLease(v)' => LiveLease(v) PROVE Lock!Next
  <2>1. fence' = [x \in Work |-> IF x \in {} THEN fence[x] + 1 ELSE fence[x]]
    BY <1>3 DEF TypeOK
  <2>2. \A v \in Work : LiveLease(v)' => LiveLease(v) /\ v \notin {}
    BY <1>3
  <2>3. {} \in SUBSET Work
    OBVIOUS
  <2>4. QED  BY <1>2, <2>1, <2>2, <2>3, Zenon
<1>4. CASE Quiet
  BY <1>1, <1>3, <1>4, LiveAfter DEF Quiet
<1>5. CASE Tick
  BY <1>1, <1>3, <1>5, LiveAfter DEF Tick, leaseVars
<1>6. ASSUME NEW t \in Stamp, ClaimNothing(t) PROVE Lock!Next
  BY <1>3, <1>6, LiveAfter DEF ClaimNothing
<1>7. ASSUME NEW t \in Stamp, NEW k \in Worker, NEW w \in Work, Claim(k, w, t) PROVE Lock!Next
  BY <1>7, Grants DEF Lock!Next
<1>8. ASSUME NEW t \in Stamp, SweepFence(t) PROVE Lock!Next
  <2>1. /\ Overdue(t) \in SUBSET Work
        /\ fence' = [x \in Work |-> IF x \in Overdue(t) THEN fence[x] + 1 ELSE fence[x]]
    BY <1>8 DEF SweepFence, Requeue, Overdue
  <2>2. QED  BY <1>2, <1>8, <2>1, LiveAfter
<1>9. ASSUME NEW t \in Stamp, NEW w \in Work, NEW f \in Nat, Heartbeat(w, f, t) PROVE Lock!Next
  BY <1>3, <1>9, LiveAfter DEF Heartbeat
<1>10. ASSUME NEW t \in Stamp, NEW w \in Work, NEW f \in Nat, YieldWork(w, f, t) PROVE Lock!Next
  <2>1. fence' = [x \in Work |-> IF x \in {w} THEN fence[x] + 1 ELSE fence[x]]
    BY <1>10 DEF YieldWork, Requeue
  <2>2. \A v \in Work : LiveLease(v)' => LiveLease(v) /\ v \notin {w}
    BY <1>10, LiveAfter
  <2>3. QED  BY <1>2, <2>1, <2>2
<1>11. ASSUME NEW t \in Stamp, NEW w \in Work, NEW f \in Nat, Ended(w, f, t) PROVE Lock!Next
  BY <1>3, <1>11, LiveAfter DEF Ended
<1>12. ASSUME NEW w \in Work, NEW f \in Issued(w) PROVE f \in Nat
  BY <1>0, <1>12 DEF Issued, AttemptType
<1>13. QED
  BY <1>4, <1>5, <1>6, <1>7, <1>8, <1>9, <1>10, <1>11, <1>12, StepKinds DEF Leasing

(* Without stale NOW(), the queue implements a lock per session: a claim   *)
(* takes a free session, and every other step only lets sessions go.       *)
THEOREM QueueImplementsLock ==
  ASSUME MaxLag = 0
  PROVE  Spec => LockSpec
<1>1. Init => Lock!Init
  <2> SUFFICES ASSUME Init PROVE Lock!Init
    OBVIOUS
  <2>1. \A w \in Work : ~LiveLease(w)
    BY DEF Init, LiveLease
  <2>2. Holder = [s \in Session |-> 0]
    BY <2>1 DEF Holder
  <2>3. QED  BY <2>2 DEF Init, Lock!Init
<1>2. TypeOK /\ SessionRowHeld /\ HolderExact /\ HolderExact' /\ [Next]_vars => [Lock!Next]_(Lock!vars)
  BY LockStep
<1>3. QED
  BY <1>1, <1>2, TypeCorrect, SessionRowInvariant, SessionsExclusive, HolderIsExact, PTL
  DEF Spec, LockSpec, Lock!Spec
=============================================================================
