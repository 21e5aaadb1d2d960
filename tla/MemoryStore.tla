----------------------------- MODULE MemoryStore -----------------------------
(***************************************************************************)
(* MemoryWorkStore: the in-memory work store of development and of the     *)
(* test suite, which its header calls the executable specification of the  *)
(* lease state machine.  Rows, session leases and remembered claims are    *)
(* separate maps with deadlines of their own; an action is what runs       *)
(* between two awaits, so the cascade of cancellations after a run ends is *)
(* one action per child.  Lanes, kinds, tenants and the order of the       *)
(* queue are left out: any claimable row may be handed out.                *)
(***************************************************************************)
EXTENDS Integers, FiniteSets, Sequences

CONSTANTS
  MWork,         \* work items
  MSession,      \* sessions
  MSessionOf,    \* [MWork -> MSession]
  MParentOf,     \* [MWork -> MWork \cup {0}]
  MDependsOn,    \* [MWork -> SUBSET MWork]
  MWorker,       \* workers
  MRequest,      \* claim request identities
  MaxClaims,     \* remembered claims (10000 in the code)
  LeaseTtl,      \* leaseTtlMs in ticks
  MaxNow,        \* ticks explored
  MaxSteer       \* revisions explored of each row

ASSUME StoreAssumption ==
  /\ 0 \notin MWork /\ MSessionOf \in [MWork -> MSession]
  /\ MParentOf \in [MWork -> MWork \cup {0}] /\ MDependsOn \in [MWork -> SUBSET MWork]
  /\ MaxClaims \in Nat \ {0} /\ LeaseTtl \in Nat \ {0}
  /\ MaxNow \in Nat /\ MaxSteer \in [MWork -> Nat]

VARIABLES
  now,      \* the clock
  mrow,     \* rows
  mlease,   \* sessionLeases: holder, fence and deadline; holder 0 when absent
  mroute,   \* routes: worker and homeEpoch
  mclaims,  \* claims, oldest first
  cascade,  \* ended or revised rows whose children are being cancelled: the children seen
  answers   \* history: the distinct answers each remembered request got

mvars == <<now, mrow, mlease, mroute, mclaims, cascade, answers>>

Active == {"queued", "leased", "waiting"}
Ended == {"succeeded", "failed", "cancelled"}
NoLease == [w |-> 0, f |-> 0, exp |-> 0]
None == [w |-> 0, f |-> 0]
Handed == [w : MWork \cup {0}, f : Nat]
Idle == [on |-> FALSE, seen |-> {}]

StoreInit ==
  /\ now = 0
  /\ mrow = [w \in MWork |-> [st |-> "absent", fence |-> 0, exp |-> 0, avail |-> 0, cancel |-> FALSE,
                             preempt |-> FALSE, ver |-> 1, late |-> FALSE]]
  /\ mlease = [s \in MSession |-> NoLease]
  /\ mroute = [s \in MSession |-> [by |-> "none", epoch |-> 0]]
  /\ mclaims = <<>> /\ cascade = [w \in MWork |-> Idle]
  /\ answers = [r \in MRequest |-> {}]

Tick == now < MaxNow /\ now' = now + 1 /\ UNCHANGED <<mrow, mlease, mroute, mclaims, cascade, answers>>

(* enqueue: a second call with the same identity changes nothing.  late    *)
(* records a child that arrives after its parent ended.                    *)
Enqueue(w) ==
  /\ mrow[w].st = "absent"
  /\ mrow' = [mrow EXCEPT ![w].st = "queued", ![w].avail = now,
                ![w].late = MParentOf[w] # 0 /\ mrow[MParentOf[w]].st \in Ended]
  /\ UNCHANGED <<now, mlease, mroute, mclaims, cascade, answers>>

(***************************************************************************)
(* Leases.                                                                 *)
(***************************************************************************)
(* The filter of claim; expired session leases were dropped before it.     *)
Ready(w) ==
  /\ mrow[w].st = "queued" \/ (mrow[w].st = "leased" /\ mrow[w].exp <= now)
  /\ ~mrow[w].cancel /\ mrow[w].avail <= now
  /\ \A d \in MDependsOn[w] : mrow[d].st \in Ended
SessionFree(w) == LET l == mlease[MSessionOf[w]] IN l.w = 0 \/ l.exp <= now
ClaimableUnlocked(w) == Ready(w)
Claimable(w) == Ready(w) /\ SessionFree(w)

(* The remembered claims after an answer: the oldest makes room.           *)
RememberFound(r, k, ans) == IF ans = None THEN mclaims
                            ELSE Append(IF Len(mclaims) >= MaxClaims THEN Tail(mclaims) ELSE mclaims,
                                        [req |-> r, by |-> k, ans |-> ans])
Remember(r, k, ans) ==
  Append(IF Len(mclaims) >= MaxClaims THEN Tail(mclaims) ELSE mclaims, [req |-> r, by |-> k, ans |-> ans])

Prior(r) == {i \in 1 .. Len(mclaims) : mclaims[i].req = r}
Forgotten == IF Len(mclaims) >= MaxClaims THEN {mclaims[1].req} ELSE {}
Answered(r, ans, dropped) ==
  answers' = [q \in MRequest |-> (IF q \in dropped THEN {} ELSE answers[q]) \cup (IF q = r THEN {ans} ELSE {})]

(* A repeated request gets the answer it had, if the worker is the same.   *)
Replay(k, r) ==
  /\ \E i \in Prior(r) : mclaims[i].by = k /\ Answered(r, mclaims[i].ans, {})
  /\ UNCHANGED <<now, mrow, mlease, mroute, mclaims, cascade>>

Swept == [s \in MSession |-> IF mlease[s].exp <= now THEN NoLease ELSE mlease[s]]

ClaimNothing(k, r) ==
  /\ Prior(r) = {} /\ \A w \in MWork : ~Claimable(w)
  /\ mclaims' = Remember(r, k, None) /\ Answered(r, None, Forgotten) /\ mlease' = Swept
  /\ UNCHANGED <<now, mrow, mroute, cascade>>

Claim(k, r, w) ==
  /\ Prior(r) = {} /\ Claimable(w)
  /\ LET s == MSessionOf[w]
         f == mrow[w].fence + 1
     IN /\ mrow' = [mrow EXCEPT ![w].st = "leased", ![w].fence = f, ![w].exp = now + LeaseTtl]
        /\ mlease' = [Swept EXCEPT ![s] = [w |-> w, f |-> f, exp |-> now + LeaseTtl]]
        /\ mroute' = IF mroute[s].by = k THEN mroute
                     ELSE [mroute EXCEPT ![s] = [by |-> k, epoch |-> @.epoch + 1]]
        /\ mclaims' = Remember(r, k, [w |-> w, f |-> f]) /\ Answered(r, [w |-> w, f |-> f], Forgotten)
  /\ UNCHANGED <<now, cascade>>

(* validLease for an attempt that presents fence f of row w.               *)
ValidLease(w, f) == mrow[w].st = "leased" /\ mrow[w].fence = f /\ mrow[w].exp > now
Matches(w, f) == mlease[MSessionOf[w]].w = w /\ mlease[MSessionOf[w]].f = f

ExtendSessionNot(w, f) == mlease
ExtendSession(w, f) ==
  IF Matches(w, f) THEN [mlease EXCEPT ![MSessionOf[w]].exp = now + LeaseTtl] ELSE mlease

Heartbeat(w, f) ==
  /\ ValidLease(w, f)
  /\ mrow' = [mrow EXCEPT ![w].exp = now + LeaseTtl]
  /\ mlease' = ExtendSession(w, f)
  /\ UNCHANGED <<now, mroute, mclaims, cascade, answers>>

ReleaseSessionLease(w, f) == IF Matches(w, f) THEN [mlease EXCEPT ![MSessionOf[w]] = NoLease] ELSE mlease

YieldWork(w, f) ==
  /\ ValidLease(w, f) /\ mrow[w].preempt
  /\ mrow' = [mrow EXCEPT ![w].st = "queued", ![w].fence = f + 1, ![w].exp = 0, ![w].preempt = FALSE,
                ![w].avail = now + 1]
  /\ mlease' = ReleaseSessionLease(w, f)
  /\ UNCHANGED <<now, mroute, mclaims, cascade, answers>>

(* settle: refused to an outcome of an older request version or to a       *)
(* cancelled run, unless it failed; then the children, one by one.         *)
Settle(w, f, st, v) ==
  /\ ValidLease(w, f)
  /\ st \in {"succeeded", "waiting"} => ~mrow[w].cancel /\ v = mrow[w].ver
  /\ mrow' = [mrow EXCEPT ![w].st = st, ![w].exp = 0]
  /\ mlease' = ReleaseSessionLease(w, f)
  /\ cascade' = IF st = "waiting" THEN cascade ELSE [cascade EXCEPT ![w].on = TRUE]
  /\ UNCHANGED <<now, mroute, mclaims, answers>>

(***************************************************************************)
(* Cancellation, preemption, revision.  A row's descendants are collected  *)
(* level by level (64 at most, more than any tree has).                    *)
(***************************************************************************)
ClosedBelow(D) == \A c \in MWork : MParentOf[c] \in D /\ mrow[c].st # "absent" => c \in D
Descendants(w) == {c \in MWork : \A D \in SUBSET MWork : w \in D /\ ClosedBelow(D) => c \in D}

(* requestCancel on a set of rows: an active row is marked, and ends at    *)
(* once unless it is leased.                                               *)
CancelAllIdle(rows, D) ==
  [w \in MWork |-> IF w \in D /\ rows[w].st \in {"queued", "waiting"}
                   THEN [rows[w] EXCEPT !.cancel = TRUE, !.st = "cancelled"] ELSE rows[w]]
CancelAll(rows, D) ==
  [w \in MWork |->
    IF w \in D /\ rows[w].st \in Active
    THEN [rows[w] EXCEPT !.cancel = TRUE, !.st = IF rows[w].st = "leased" THEN "leased" ELSE "cancelled"]
    ELSE rows[w]]
CancelTree(rows, w) == IF rows[w].st \in Active THEN CancelAll(rows, Descendants(w)) ELSE rows

RequestCancel(w) ==
  /\ mrow[w].st \in Active /\ mrow' = CancelTree(mrow, w)
  /\ UNCHANGED <<now, mlease, mroute, mclaims, cascade, answers>>

RequestPreempt(w) ==
  /\ mrow[w].st = "leased" /\ ~mrow[w].preempt /\ mrow' = [mrow EXCEPT ![w].preempt = TRUE]
  /\ UNCHANGED <<now, mlease, mroute, mclaims, cascade, answers>>

AddSteer(w) ==
  /\ mrow[w].st \in Active /\ ~mrow[w].cancel /\ mrow[w].ver <= MaxSteer[w]
  /\ mrow' = [mrow EXCEPT ![w].ver = @ + 1, ![w].st = IF @ = "waiting" THEN "queued" ELSE @]
  /\ cascade' = [cascade EXCEPT ![w].on = TRUE]
  /\ UNCHANGED <<now, mlease, mroute, mclaims, answers>>

(* The loop over the children, one await each; it ends when it has seen    *)
(* every child, those enqueued meanwhile included.                         *)
Unseen(w) == {c \in MWork : MParentOf[c] = w /\ mrow[c].st # "absent" /\ c \notin cascade[w].seen}
CascadeChild(w) ==
  /\ cascade[w].on
  /\ IF Unseen(w) = {} THEN cascade' = [cascade EXCEPT ![w] = Idle] /\ UNCHANGED mrow
     ELSE \E c \in Unseen(w) : /\ mrow' = CancelTree(mrow, c)
                               /\ cascade' = [cascade EXCEPT ![w].seen = @ \cup {c}]
  /\ UNCHANGED <<now, mlease, mroute, mclaims, answers>>

StoreNext ==
  \/ Tick
  \/ \E w \in MWork : Enqueue(w) \/ RequestCancel(w) \/ RequestPreempt(w) \/ AddSteer(w) \/ CascadeChild(w)
  \/ \E k \in MWorker, r \in MRequest :
       Replay(k, r) \/ ClaimNothing(k, r) \/ \E w \in MWork : Claim(k, r, w)
  \/ \E w \in MWork : \E f \in 1 .. mrow[w].fence :
       \/ Heartbeat(w, f) \/ YieldWork(w, f)
       \/ \E st \in {"succeeded", "failed", "cancelled", "waiting"}, v \in 1 .. mrow[w].ver : Settle(w, f, st, v)

StoreSpec == StoreInit /\ [][StoreNext]_mvars

(***************************************************************************)
(* What the store promises.                                                *)
(***************************************************************************)
StoreTypeOK ==
  /\ now \in 0 .. MaxNow
  /\ mrow \in [MWork -> [st : Active \cup Ended \cup {"absent"}, fence : Nat, exp : Nat, avail : Nat,
                         cancel : BOOLEAN, preempt : BOOLEAN, ver : Nat, late : BOOLEAN]]
  /\ \A w \in MWork : mrow[w].ver \in 1 .. MaxSteer[w] + 1
  /\ mlease \in [MSession -> [w : MWork \cup {0}, f : Nat, exp : Nat]]
  /\ mroute \in [MSession -> [by : MWorker \cup {"none"}, epoch : Nat]]
  /\ mclaims \in Seq([req : MRequest, by : MWorker, ans : Handed]) /\ Len(mclaims) <= MaxClaims
  /\ cascade \in [MWork -> [on : BOOLEAN, seen : SUBSET MWork]]
  /\ answers \in [MRequest -> SUBSET Handed]

(* The row's deadline and the session's are kept in two maps by claim,     *)
(* heartbeat, yield and settle: an attempt whose row lease is live holds   *)
(* its session, and a live session lease belongs to a live row.            *)
MapsAgree ==
  \A w \in MWork : ValidLease(w, mrow[w].fence) <=> Matches(w, mrow[w].fence) /\ mlease[MSessionOf[w]].exp > now

(* Claim requests are repeated after a lost answer: however often and      *)
(* whenever a remembered request is repeated it gets one answer, and no    *)
(* lease is ever handed to two requests.                                   *)
OneAnswer ==
  /\ \A i \in 1 .. Len(mclaims) : mclaims[i].ans \in answers[mclaims[i].req]
  /\ \A r \in MRequest : Prior(r) # {} => Cardinality(answers[r]) = 1
  /\ \A r, q \in MRequest : r # q => (answers[r] \cap answers[q]) \subseteq {None}

(* When the cascade after the end of a run is over, no child that was      *)
(* enqueued in time goes on: children and grandchildren have ended or know *)
(* of their cancellation, whatever was claimed, revised or preempted while *)
(* the cascade ran.                                                        *)
NoOrphans ==
  \A w \in MWork : MParentOf[w] # 0 /\ mrow[MParentOf[w]].st \in Ended /\ ~mrow[w].late
                   /\ (\A p \in MWork : ~cascade[p].on)
                   => mrow[w].st \in Ended \cup {"absent"} \/ mrow[w].cancel

(* control-plane/memory-store.ts: rows and session leases agree, a         *)
(* remembered claim request has one answer, no child outlives its parent.  *)
StoreSafe == StoreTypeOK /\ MapsAgree /\ OneAnswer /\ NoOrphans

(* The maps implement the lock on sessions that the SQL store implements.  *)
MHolder == [s \in MSession |-> IF mlease[s].exp > now THEN mlease[s].w ELSE 0]
MGranted == [w \in MWork |-> mrow[w].fence]
MLock == INSTANCE SessionLock WITH Work <- MWork, Session <- MSession, SessionOf <- MSessionOf,
                                   holder <- MHolder, granted <- MGranted
StoreImplementsLock == MLock!Spec
=============================================================================
