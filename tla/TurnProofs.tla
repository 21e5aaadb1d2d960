------------------------------ MODULE TurnProofs ------------------------------
(***************************************************************************)
(* Proofs about the runtime of an attempt: Turn for any number of attempts,*)
(* request versions and calls, any limits, kinds of tools and faults, and  *)
(* Compaction for any limits and number of items.                          *)
(***************************************************************************)
EXTENDS Turn, Compaction, FiniteSetTheorems, SequenceTheorems, WellFoundedInduction, TLAPS

-----------------------------------------------------------------------------
(* Types *)

WorkRec ==
  [status : {"queued", "leased", "waiting", "done", "failed", "cancelled"},
   fence : 0 .. MaxFence, version : 1 .. MaxVersion, cancel : BOOLEAN, preempt : BOOLEAN, on : 0 .. MaxCalls]
SessRec == [calls : SUBSET Calls, outs : SUBSET Calls, version : 1 .. MaxVersion, owner : {Earlier, This}]
CallRec == [kind : Kinds, by : {Earlier, This}, version : 1 .. MaxVersion]
BudgetRec == [count : 0 .. ContinueLimit + 3, repairs : 0 .. RepairLimit + 1]
TextRec == [stamp : 0 .. MaxVersion, for : 0 .. MaxVersion]
Loop == {"hop", "checkpoint", "model", "review", "commit", "conclude"}
Acting == {"exec", "running", "threw", "ran", "park"}
Starting == {"idle", "recover", "restore"}

(* A history names calls that were made, and outputs of its own calls.     *)
Sound(s) == s \in SessRec /\ s.outs \subseteq s.calls /\ s.calls \subseteq 1 .. Len(made)

JournalTypes ==
  /\ made \in Seq(CallRec) /\ Len(made) <= MaxCalls
  /\ step \in [Calls -> Steps] /\ receipt \in [Calls -> Receipts] /\ runs \in [Calls -> Nat]
  /\ decided \subseteq Calls /\ cand \in TextRec /\ result \in TextRec
  /\ ckpt \in [version : 0 .. MaxVersion, budget : BudgetRec]

LocalTypes ==
  /\ Sound(sess) /\ budget \in BudgetRec
  /\ pc \in Starting \cup Loop \cup Acting
  /\ todo \in Seq(SUBSET sess.calls) /\ good \in 0 .. MaxVersion /\ text \in 0 .. MaxVersion

TypeInv == work \in WorkRec /\ Sound(row) /\ JournalTypes /\ LocalTypes

(* An attempt runs under the lease; before its session is open it has      *)
(* prepared nothing; a session is never ahead of the run's request.        *)
AttemptInv ==
  /\ pc # "idle" => work.status = "leased"
  /\ pc \in {"idle", "recover"} => sess = NoSession
  /\ pc \in Starting => good = NoText
  /\ pc \notin Acting => todo = <<>>
  /\ pc \in {"running", "threw", "ran", "park"} => todo # <<>>
  /\ sess.version <= work.version /\ row.version <= work.version

(* What is retained, journalled or about to be committed was written for   *)
(* the version of the session.                                             *)
TextInv ==
  /\ cand.for = cand.stamp /\ result.for = result.stamp
  /\ good \in {NoText, sess.version}
  /\ pc \in {"review", "commit"} => text = sess.version

(* In the loop every call has its output; while calls are acted on, the    *)
(* ones without are those still to do.                                     *)
PairInv ==
  /\ pc \in Loop \ {"commit", "conclude"} => Pending(sess) = {}
  /\ pc \in Acting => \A n \in Pending(sess) : \E i \in 1 .. Len(todo) : n \in todo[i]

(* The calls of the batches that have not run.                             *)
Untouched(n) == receipt[n] = "none" /\ runs[n] = 0
Waits(i) == pc \in {"exec", "running"} \/ i > 1

TodoInv ==
  /\ \A i \in 1 .. Len(todo) : \A n \in todo[i] :
       /\ Mine(n) /\ made[n].version = sess.version
       /\ Waits(i) => Untouched(n)
  /\ \A i, j \in 1 .. Len(todo) : i # j => todo[i] \cap todo[j] = {}
  /\ pc = "park" => Parks(todo[1]) # {} /\ todo[1] \subseteq sess.outs

(* What the receipt of a call says of its effect.                          *)
RunInv ==
  \A n \in Calls :
    /\ runs[n] <= 1
    /\ n > Len(made) => step[n] = "none" /\ Untouched(n)
    /\ n <= Len(made) /\ made[n].kind # "cell" =>
         /\ receipt[n] \in {"none", "pending"} => runs[n] = 0
         /\ receipt[n] = "intent" /\ made[n].kind \in Repeatable => runs[n] = 0

TurnInv == TypeInv /\ AttemptInv /\ TextInv /\ PairInv /\ TodoInv /\ RunInv /\ ParkedCanWake

-----------------------------------------------------------------------------
(* Lemmas about the operators of the model *)

(* A nonempty set of naturals has a least element, a bounded one a         *)
(* greatest: Min and Max return members of their argument.                 *)
LEMMA LeastNat ==
  ASSUME NEW T, T \subseteq Nat, T # {}
  PROVE  \E x \in T : \A y \in T : x <= y
<1>1. PICK x \in T : \A y \in T : ~ (<<y, x>> \in OpToRel(<, Nat))
  BY WFMin, NatLessThanWellFounded, Zenon
<1>2. \A y \in T : ~(y < x)
  BY <1>1 DEF OpToRel
<1> QED
  BY <1>2

LEMMA MinMember ==
  ASSUME NEW T, T \subseteq Nat, T # {}
  PROVE  Min(T) \in T /\ \A y \in T : Min(T) <= y
  BY LeastNat DEF Min

LEMMA MaxMember ==
  ASSUME NEW T, NEW m \in Nat, T \subseteq 0 .. m, T # {}
  PROVE  Max(T) \in T /\ \A y \in T : Max(T) >= y
<1> DEFINE U == {m - n : n \in T}
<1>0. PICK t \in T : TRUE
  OBVIOUS
<1>1. U \subseteq Nat /\ m - t \in U
  OBVIOUS
<1>2. PICK u \in U : \A v \in U : u <= v
  BY <1>1, LeastNat
<1>3. PICK x \in T : u = m - x
  OBVIOUS
<1>4. \A y \in T : m - x <= m - y
  BY <1>2, <1>3
<1>5. ASSUME NEW y \in T PROVE y <= x
  <2>1. x \in Int /\ y \in Int /\ m - x <= m - y
    BY <1>4
  <2> QED
    BY <2>1
<1>6. x \in T /\ \A y \in T : x >= y
  BY <1>5
<1> QED
  BY <1>6 DEF Max

LEMMA Bounds ==
  /\ MaxFence \in Nat /\ MaxVersion \in Nat /\ MaxCalls \in Nat /\ ContinueLimit \in Nat /\ RepairLimit \in Nat
  /\ MaxFence >= 1 /\ MaxVersion >= 1 /\ MaxCalls >= 1 /\ ContinueLimit >= 1 /\ RepairLimit >= 1
  BY BoundsAssumption

(* What CorrectionBudget.consume returns.                                  *)
LEMMA ConsumeTypes ==
  ASSUME budget \in BudgetRec, NEW r \in BOOLEAN
  PROVE  Consume(r).left \in BudgetRec /\ Consume(r).ok \in BOOLEAN
<1> DEFINE c == Min({ContinueLimit + 3, budget.count + 1})
<1>1. budget.count \in 0 .. ContinueLimit + 3 /\ budget.repairs \in 0 .. RepairLimit + 1
  BY DEF BudgetRec
<1>2. c \in {ContinueLimit + 3, budget.count + 1}
  BY <1>1, Bounds, MinMember
<1>3. c <= ContinueLimit + 3
  BY <1>1, Bounds DEF Min
<1>4. c \in 0 .. ContinueLimit + 3
  BY <1>1, <1>2, <1>3, Bounds
<1> QED
  BY <1>1, <1>4, Bounds DEF Consume, BudgetRec

LEMMA ObservedTypes ==
  ASSUME budget \in BudgetRec
  PROVE  Observed \in BudgetRec
  BY Bounds DEF Observed, BudgetRec

(* The attempt is over.                                                    *)
LEMMA EndTypes ==
  ASSUME EndAttempt
  PROVE  LocalTypes' /\ pc' = "idle" /\ sess' = NoSession /\ todo' = <<>> /\ good' = NoText
  BY Bounds DEF EndAttempt, LocalTypes, Sound, SessRec, NoSession, NoText, FreshBudget, BudgetRec, Starting

LEMMA FinishTypes ==
  ASSUME work \in WorkRec, NEW s \in {"failed", "cancelled"}, FinishWithError(s)
  PROVE  /\ EndAttempt /\ work' \in WorkRec /\ work'.version = work.version /\ work'.on = work.on
         /\ work'.status \in {work.status, s}
  BY DEF FinishWithError, WorkRec

LEMMA ThrowTypes ==
  ASSUME work \in WorkRec, Throw
  PROVE  /\ EndAttempt /\ LocalTypes' /\ work' \in WorkRec /\ work'.version = work.version
         /\ work'.on = work.on /\ work'.status \in {work.status, "failed"}
  BY FinishTypes, EndTypes DEF Throw

(* The parts of the type invariant depend on their own variables only.     *)
LEMMA SameJournal ==
  ASSUME JournalTypes, UNCHANGED <<made, step, receipt, decided, cand, ckpt, result, runs>>
  PROVE  JournalTypes'
  BY DEF JournalTypes

LEMMA SameLocal ==
  ASSUME LocalTypes, UNCHANGED <<made, local>>, pc' \in Starting \cup Loop \cup Acting
  PROVE  LocalTypes'
  BY DEF LocalTypes, Sound, local

LEMMA SameHistory ==
  ASSUME Sound(row), UNCHANGED <<row, made>>
  PROVE  Sound(row)'
  BY DEF Sound

-----------------------------------------------------------------------------
(* Type correctness *)

LEMMA TypeInit == Init => TypeInv
<1> SUFFICES ASSUME Init PROVE TypeInv
  OBVIOUS
<1>1. work \in WorkRec
  BY Bounds DEF Init, WorkRec
<1>2. made \in Seq(CallRec) /\ Len(made) <= 1
  <2>1. ASSUME NEW k \in Leftover PROVE [kind |-> k, by |-> Earlier, version |-> 1] \in CallRec
    BY Bounds, BoundsAssumption DEF CallRec
  <2>2. CASE made = <<>>
    BY <2>2
  <2>3. CASE made # <<>>
    <3>1. PICK k \in Leftover : made = <<[kind |-> k, by |-> Earlier, version |-> 1]>>
      BY <2>3 DEF Init
    <3> QED
      BY <2>1, <3>1
  <2> QED
    BY <2>2, <2>3
<1>3. JournalTypes
  BY <1>2, Bounds DEF Init, JournalTypes, TextRec, BudgetRec, FreshBudget, Steps, Receipts, NoText
<1>4. Sound(row)
  <2>1. 1 .. Len(made) \subseteq Calls /\ 1 \in 1 .. MaxVersion
    BY <1>2, Bounds DEF Calls
  <2> QED
    BY <2>1 DEF Init, Sound, SessRec, NoSession
<1>5. LocalTypes
  BY Bounds DEF Init, LocalTypes, Sound, SessRec, NoSession, NoText, FreshBudget, BudgetRec, Starting
<1> QED
  BY <1>1, <1>3, <1>4, <1>5 DEF TypeInv

LEMMA LeaveTypes ==
  ASSUME TypeInv, Preempted \/ Cancelled \/ Drained \/ LeaseExpires
  PROVE  TypeInv'
<1>1. EndAttempt /\ UNCHANGED <<made, step, receipt, decided, cand, ckpt, result, runs>>
  BY DEF Preempted, Cancelled, Drained, LeaseExpires, FinishWithError, durable
<1>2. work' \in WorkRec
  BY Bounds DEF Preempted, Cancelled, Drained, LeaseExpires, FinishWithError, TypeInv, WorkRec, Requeued
<1>3. row' = row \/ row' = sess
  BY DEF Preempted, Cancelled, Drained, LeaseExpires, durable
<1>4. Sound(row)'
  BY <1>1, <1>3 DEF TypeInv, LocalTypes, Sound
<1> QED
  BY <1>1, <1>2, <1>4, EndTypes, SameJournal DEF TypeInv

LEMMA WorldTypes ==
  ASSUME TypeInv, Claim \/ Revise \/ RequestStop \/ Decide \/ ResumeDecided
  PROVE  TypeInv'
<1>1. work' \in WorkRec
  <2>1. CASE Claim
    <3>1. work.fence + 1 \in 0 .. MaxFence
      BY <2>1, Bounds DEF Claim, TypeInv, WorkRec
    <3> QED
      BY <2>1, <3>1 DEF Claim, TypeInv, WorkRec
  <2>2. CASE Revise
    <3>1. work.version + 1 \in 1 .. MaxVersion /\ 0 \in 0 .. MaxCalls
      BY <2>2, Bounds DEF Revise, TypeInv, WorkRec
    <3> QED
      BY <2>2, <3>1 DEF Revise, TypeInv, WorkRec
  <2>3. CASE RequestStop
    BY <2>3 DEF RequestStop, TypeInv, WorkRec
  <2>4. CASE Decide \/ ResumeDecided
    <3>1. 0 \in 0 .. MaxCalls
      BY Bounds
    <3> QED
      BY <2>4, <3>1 DEF Decide, ResumeDecided, TypeInv, WorkRec
  <2> QED
    BY <2>1, <2>2, <2>3, <2>4
<1>2. decided' \subseteq Calls
  BY DEF Claim, Revise, RequestStop, Decide, ResumeDecided, TypeInv, JournalTypes, durable
<1>3. UNCHANGED <<row, made, step, receipt, cand, ckpt, result, runs, local>> /\ pc' \in {pc, "recover"}
  BY DEF Claim, Revise, RequestStop, Decide, ResumeDecided, durable
<1>4. JournalTypes'
  BY <1>2, <1>3 DEF JournalTypes, TypeInv
<1>5. pc' \in Starting \cup Loop \cup Acting
  BY <1>3 DEF TypeInv, LocalTypes, Starting
<1> QED
  BY <1>1, <1>3, <1>4, <1>5, SameLocal, SameHistory DEF TypeInv

LEMMA RecoveryTypes ==
  ASSUME TypeInv, AttemptInv, ExecuteDecidedApproval \/ RecoverWait \/ LoadContext \/ RestoreCall \/ OpenSession
  PROVE  TypeInv'
<1> USE DEF TypeInv
<1>1. CASE ExecuteDecidedApproval
  <2>1. PICK n \in decided : /\ receipt' = [receipt EXCEPT ![n] = "done"]
                             /\ runs' = IF made[n].kind = "cell" THEN runs ELSE [runs EXCEPT ![n] = @ + 1]
                             /\ row' = [row EXCEPT !.outs = @ \cup ({n} \cap row.calls)]
    BY <1>1 DEF ExecuteDecidedApproval
  <2>2. JournalTypes'
    BY <1>1, <2>1 DEF ExecuteDecidedApproval, JournalTypes, Receipts
  <2>3. Sound(row)'
    BY <1>1, <2>1 DEF ExecuteDecidedApproval, Sound, SessRec
  <2> QED
    BY <1>1, <2>2, <2>3, SameLocal DEF ExecuteDecidedApproval, LocalTypes
<1>2. CASE RecoverWait
  <2>1. PICK n \in WaitsOn : /\ row' = [row EXCEPT !.outs = @ \cup {n}]
                             /\ work' = IF work.cancel THEN work ELSE [work EXCEPT !.status = "waiting", !.on = n]
    BY <1>2 DEF RecoverWait
  <2>2. row.calls \subseteq 0 .. MaxCalls
    BY Bounds DEF Sound, SessRec, Calls
  <2>3. n \in row.calls
    BY <2>2, MaxMember, Bounds DEF WaitsOn
  <2>4. work' \in WorkRec
    BY <2>1, <2>2, <2>3 DEF WorkRec
  <2>5. Sound(row)'
    BY <1>2, <2>1, <2>3 DEF RecoverWait, Sound, SessRec
  <2> QED
    BY <1>2, <2>4, <2>5, EndTypes, SameJournal DEF RecoverWait
<1>3. CASE LoadContext
  <2>1. UNCHANGED durable
    BY <1>3 DEF LoadContext
  <2>2. CASE work.cancel
    BY <1>3, <2>1, <2>2, ThrowTypes, SameJournal, SameHistory DEF LoadContext, durable
  <2>3. CASE ~work.cancel
    <3>1. LocalTypes'
      <4>1. todo = <<>> /\ sess' = row /\ pc' = "restore" /\ UNCHANGED <<made, todo, good, text, budget>>
        BY <1>3, <2>1, <2>3 DEF LoadContext, AttemptInv, Acting, durable
      <4> QED
        BY <4>1 DEF LocalTypes, Sound, Starting
    <3> QED
      BY <1>3, <2>1, <2>3, <3>1, SameJournal, SameHistory DEF LoadContext, durable
  <2> QED
    BY <2>2, <2>3
<1>4. CASE RestoreCall
  <2> DEFINE n == Min(Pending(sess))
  <2>1. Pending(sess) \subseteq Calls /\ Pending(sess) \subseteq Nat
    BY DEF Pending, LocalTypes, Sound, SessRec, Calls
  <2>2. n \in Pending(sess)
    BY <1>4, <2>1, MinMember DEF RestoreCall
  <2>3. UNCHANGED <<row, made, step, decided, cand, ckpt, result>>
    BY <1>4 DEF RestoreCall
  <2> HIDE DEF n
  <2>4. CASE Recoverable(n)
    <3>1. /\ sess' = [sess EXCEPT !.outs = @ \cup {n}]
          /\ receipt' = IF Reexecuted(n) THEN [receipt EXCEPT ![n] = "done"] ELSE receipt
          /\ runs' = IF Reexecuted(n) THEN [runs EXCEPT ![n] = @ + 1] ELSE runs
          /\ UNCHANGED <<work, pc, todo, good, text, budget>>
      BY <1>4, <2>4 DEF RestoreCall, n
    <3>2. JournalTypes'
      BY <2>1, <2>2, <2>3, <3>1 DEF JournalTypes, Receipts
    <3>3. LocalTypes'
      BY <2>1, <2>2, <2>3, <3>1 DEF LocalTypes, Sound, SessRec, Pending
    <3> QED
      BY <2>3, <3>1, <3>2, <3>3, SameHistory
  <2>5. CASE ~Recoverable(n)
    <3>1. Throw /\ UNCHANGED <<receipt, runs>>
      BY <1>4, <2>5 DEF RestoreCall, n
    <3> QED
      BY <2>3, <3>1, ThrowTypes, SameJournal, SameHistory
  <2> QED
    BY <2>4, <2>5
<1>5. CASE OpenSession
  <2>1. Restored \in SessRec /\ Restored.calls = sess.calls /\ Restored.outs = sess.outs
    <3>1. 1 \in 1 .. MaxVersion
      BY Bounds
    <3> QED
      BY <3>1 DEF Restored, LocalTypes, Sound, SessRec
  <2>2. budget' \in BudgetRec
    BY <1>5, Bounds DEF OpenSession, JournalTypes, FreshBudget, BudgetRec
  <2>3. good' \in 0 .. MaxVersion
    BY <1>5, Bounds DEF OpenSession, JournalTypes, TextRec, NoText
  <2>4. Sound(row)' /\ Sound(sess)'
    BY <1>5, <2>1 DEF OpenSession, LocalTypes, Sound
  <2>5. LocalTypes'
    BY <1>5, <2>1, <2>2, <2>3, <2>4 DEF OpenSession, LocalTypes, Loop
  <2> QED
    BY <1>5, <2>4, <2>5, SameJournal DEF OpenSession
<1> QED
  BY <1>1, <1>2, <1>3, <1>4, <1>5

LEMMA SteerTypes ==
  ASSUME TypeInv
  PROVE  Sound(Steer) /\ Steer.calls = sess.calls /\ Steer.outs = sess.outs /\ Steer.version = work.version
  BY DEF Steer, TypeInv, LocalTypes, Sound, SessRec, WorkRec

LEMMA HopTypes ==
  ASSUME TypeInv, Hop
  PROVE  TypeInv'
<1> USE DEF TypeInv
<1>1. UNCHANGED <<work, made, step, receipt, decided, cand, ckpt, result, runs, todo, text>> /\ pc' = "checkpoint"
  BY DEF Hop
<1>2. CASE Steered
  <2>1. sess' = Steer /\ row' = Steer /\ good' = NoText /\ budget' = Observed
    BY <1>2 DEF Hop, ApplySteering
  <2>2. Sound(sess)' /\ Sound(row)'
    BY <1>1, <2>1, SteerTypes DEF Sound
  <2>3. LocalTypes'
    BY <1>1, <2>1, <2>2, ObservedTypes, SteerTypes, Bounds DEF LocalTypes, NoText, Loop
  <2> QED
    BY <1>1, <2>2, <2>3, SameJournal
<1>3. CASE ~Steered
  <2>1. UNCHANGED <<sess, row, good, budget>>
    BY <1>3 DEF Hop, ApplySteering
  <2> QED
    BY <1>1, <2>1, SameJournal, SameLocal, SameHistory DEF local, Loop
<1> QED
  BY <1>2, <1>3

LEMMA ModelTypes ==
  ASSUME TypeInv, SaveCheckpoint \/ ModelFails \/ DropAnswer \/ ProposeText
  PROVE  TypeInv'
<1> USE DEF TypeInv
<1>1. CASE SaveCheckpoint
  <2>1. UNCHANGED <<row, made, step, receipt, decided, cand, result, runs>>
    BY <1>1 DEF SaveCheckpoint
  <2>2. CASE StepAccepted
    <3>1. ckpt' = [version |-> sess.version, budget |-> budget] /\ pc' = "model" /\ UNCHANGED <<work, local>>
      BY <1>1, <2>2 DEF SaveCheckpoint
    <3>2. sess.version \in 0 .. MaxVersion /\ budget \in BudgetRec
      BY DEF LocalTypes, Sound, SessRec
    <3>3. JournalTypes'
      BY <2>1, <3>1, <3>2 DEF JournalTypes
    <3> QED
      BY <2>1, <3>1, <3>3, SameLocal, SameHistory DEF Loop
  <2>3. CASE ~StepAccepted
    <3>1. Throw /\ UNCHANGED ckpt
      BY <1>1, <2>3 DEF SaveCheckpoint
    <3> QED
      BY <2>1, <3>1, ThrowTypes, SameJournal, SameHistory
  <2> QED
    BY <2>2, <2>3
<1>2. CASE ModelFails
  <2>1. UNCHANGED durable
    BY <1>2 DEF ModelFails
  <2>2. CASE Throw
    BY <2>1, <2>2, ThrowTypes, SameJournal, SameHistory DEF durable
  <2>3. CASE ~Throw
    <3>1. pc' \in {"hop", "conclude"} /\ UNCHANGED <<work, sess, todo, good, text>>
          /\ (budget' = budget \/ budget' = Consume(TRUE).left)
      BY <1>2, <2>3 DEF ModelFails, local
    <3>2. LocalTypes'
      BY <2>1, <3>1, ConsumeTypes DEF LocalTypes, Sound, Loop, durable
    <3> QED
      BY <2>1, <3>1, <3>2, SameJournal, SameHistory DEF durable
  <2> QED
    BY <2>2, <2>3
<1>3. CASE DropAnswer
  BY <1>3, SameJournal, SameLocal, SameHistory DEF DropAnswer, durable, Loop
<1>4. CASE ProposeText
  <2>1. UNCHANGED <<row, made, step, receipt, decided, ckpt, result, runs>>
    BY <1>4 DEF ProposeText
  <2>2. CASE Throw
    <3>1. cand' = cand
      BY <1>4, <2>2, EndTypes, ThrowTypes DEF ProposeText, Correct
    <3> QED
      BY <2>1, <2>2, <3>1, ThrowTypes, SameJournal, SameHistory
  <2>3. CASE ~Throw
    <3>1. /\ UNCHANGED <<work, sess, todo>> /\ pc' \in {"hop", "conclude", "review"}
          /\ budget' \in {budget, Consume(TRUE).left, Consume(FALSE).left}
          /\ good' \in {good, sess.version} /\ text' \in {text, sess.version}
          /\ cand' \in {cand, [stamp |-> sess.version, for |-> sess.version]}
      BY <1>4, <2>3 DEF ProposeText, Correct
    <3>2. sess.version \in 0 .. MaxVersion
      BY DEF LocalTypes, Sound, SessRec
    <3>3. JournalTypes'
      BY <2>1, <3>1, <3>2 DEF JournalTypes, TextRec
    <3>4. budget' \in BudgetRec
      BY <3>1, ConsumeTypes DEF LocalTypes
    <3>5. LocalTypes'
      BY <2>1, <3>1, <3>2, <3>4 DEF LocalTypes, Sound, Loop
    <3> QED
      BY <2>1, <3>1, <3>3, <3>5, SameHistory
  <2> QED
    BY <2>2, <2>3
<1> QED
  BY <1>1, <1>2, <1>3, <1>4

LEMMA ThrewTypes == ASSUME TypeInv, CallThrew PROVE TypeInv'
<1> USE DEF TypeInv
<1>1. UNCHANGED durable
  BY DEF CallThrew
<1>2. CASE Throw
  BY <1>1, <1>2, ThrowTypes, SameJournal, SameHistory DEF durable
<1>3. CASE ~Throw
  <2>1. pc' = "conclude" /\ todo' = <<>> /\ UNCHANGED <<work, sess, good, text, budget>>
    BY <1>3 DEF CallThrew
  <2>2. LocalTypes'
    BY <1>1, <2>1 DEF LocalTypes, Sound, Loop, durable
  <2> QED
    BY <1>1, <2>1, <2>2, SameJournal, SameHistory DEF durable
<1> QED
  BY <1>2, <1>3

LEMMA EndingTypes ==
  ASSUME TypeInv, Review \/ Conclude \/ Commit
  PROVE  TypeInv'
<1> USE DEF TypeInv
<1>1. CASE Review
  <2>1. /\ UNCHANGED <<work, durable, sess, todo, good>> /\ pc' \in {"hop", "conclude", "commit"}
        /\ budget' \in {budget, Consume(FALSE).left} /\ text' \in {text, NoText}
    BY <1>1 DEF Review, Correct
  <2>2. budget' \in BudgetRec /\ text' \in 0 .. MaxVersion
    <3>1. Consume(FALSE).left \in BudgetRec /\ budget \in BudgetRec
      BY ConsumeTypes DEF LocalTypes
    <3>2. text \in 0 .. MaxVersion /\ NoText \in 0 .. MaxVersion
      BY Bounds DEF LocalTypes, NoText
    <3> QED
      BY <2>1, <3>1, <3>2
  <2>3. LocalTypes'
    BY <2>1, <2>2 DEF LocalTypes, Sound, Loop, durable
  <2> QED
    BY <2>1, <2>3, SameJournal, SameHistory DEF durable
<1>2. CASE Conclude
  <2>1. UNCHANGED <<made, step, receipt, decided, cand, ckpt, result, runs>>
    BY <1>2 DEF Conclude
  <2>2. CASE Steered \/ good = NoText
    <3>1. row' \in {row, Steer} /\ work' = [work EXCEPT !.status = "failed"] /\ EndAttempt
      BY <1>2, <2>2 DEF Conclude
    <3>2. Sound(row)'
      BY <2>1, <3>1, SteerTypes DEF Sound
    <3>3. work' \in WorkRec
      BY <3>1 DEF WorkRec
    <3> QED
      BY <2>1, <3>1, <3>2, <3>3, EndTypes, SameJournal
  <2>3. CASE ~(Steered \/ good = NoText)
    <3>1. text' = good /\ pc' = "commit" /\ UNCHANGED <<work, row, sess, todo, good, budget>>
      BY <1>2, <2>3 DEF Conclude
    <3>2. LocalTypes'
      BY <2>1, <3>1 DEF LocalTypes, Sound, Loop
    <3> QED
      BY <2>1, <3>1, <3>2, SameJournal, SameHistory
  <2> QED
    BY <2>2, <2>3
<1>3. CASE Commit
  <2>1. row' = sess /\ UNCHANGED <<made, step, receipt, decided, cand, ckpt, runs>>
    BY <1>3 DEF Commit
  <2>2. Sound(row)'
    BY <2>1 DEF LocalTypes, Sound
  <2>3. CASE ~Steered /\ ~work.cancel
    <3>1. /\ result' = [stamp |-> sess.version, for |-> text]
          /\ work' = [work EXCEPT !.status = "done"] /\ EndAttempt
      BY <1>3, <2>3 DEF Commit
    <3>2. sess.version \in 0 .. MaxVersion
      BY DEF LocalTypes, Sound, SessRec
    <3>3. JournalTypes'
      BY <2>1, <3>1, <3>2 DEF JournalTypes, LocalTypes, TextRec
    <3>4. work' \in WorkRec
      BY <3>1 DEF WorkRec
    <3> QED
      BY <2>2, <3>1, <3>3, <3>4, EndTypes
  <2>4. CASE ~(~Steered /\ ~work.cancel)
    <3>1. Throw /\ UNCHANGED result
      BY <1>3, <2>4 DEF Commit
    <3> QED
      BY <2>1, <2>2, <3>1, ThrowTypes, SameJournal
  <2> QED
    BY <2>3, <2>4
<1> QED
  BY <1>1, <1>2, <1>3

(* The calls a model answer proposes: they follow the calls made so far,   *)
(* are of the session's version, and each is in one batch.                 *)
New == Len(made) + 1 .. Len(made')

LEMMA Proposed ==
  ASSUME TypeInv, ProposeCalls
  PROVE  /\ made' \in Seq(CallRec) /\ Len(made') > Len(made) /\ Len(made') <= MaxCalls
         /\ \A n \in 1 .. Len(made) : made'[n] = made[n]
         /\ \A n \in New : made'[n].by = This /\ made'[n].version = sess.version
         /\ sess' = [sess EXCEPT !.calls = @ \cup New]
         /\ todo' \in Seq(SUBSET New)
         /\ \A n \in New : \E i \in 1 .. Len(todo') : n \in todo'[i]
         /\ \A i, j \in 1 .. Len(todo') : i # j => todo'[i] \cap todo'[j] = {}
<1>1. PICK ks \in [1 .. 1 -> Kinds] \cup [1 .. 2 -> Kinds] :
        /\ Len(made) + Len(ks) <= MaxCalls
        /\ made' = made \o [i \in 1 .. Len(ks) |-> [kind |-> ks[i], by |-> This, version |-> sess.version]]
        /\ sess' = [sess EXCEPT !.calls = @ \cup {Len(made) + i : i \in 1 .. Len(ks)}]
        /\ todo' = Batches(ks, Len(made))
  BY DEF ProposeCalls
<1>2. ks \in Seq(Kinds) /\ Len(ks) \in {1, 2}
  <2>1. ks \in Seq(Kinds)
    BY SeqDef
  <2>2. DOMAIN ks = 1 .. Len(ks) /\ Len(ks) \in Nat
    BY <2>1, LenProperties
  <2>3. DOMAIN ks = 1 .. 1 \/ DOMAIN ks = 1 .. 2
    OBVIOUS
  <2>4. 1 \in DOMAIN ks /\ 3 \notin DOMAIN ks
    BY <2>3
  <2> QED
    BY <2>1, <2>2, <2>4
<1> DEFINE more == [i \in 1 .. Len(ks) |-> [kind |-> ks[i], by |-> This, version |-> sess.version]]
<1>3. sess.version \in 1 .. MaxVersion /\ made \in Seq(CallRec)
  BY DEF TypeInv, LocalTypes, JournalTypes, Sound, SessRec
<1>4. \A i \in 1 .. Len(ks) : [kind |-> ks[i], by |-> This, version |-> sess.version] \in CallRec
  BY <1>2, <1>3 DEF CallRec
<1>5. more \in Seq(CallRec) /\ Len(more) = Len(ks)
  BY <1>2, <1>4
<1>6. made' \in Seq(CallRec) /\ Len(made') = Len(made) + Len(ks)
      /\ \A n \in 1 .. Len(made') : made'[n] = IF n <= Len(made) THEN made[n] ELSE more[n - Len(made)]
  BY <1>1, <1>3, <1>5
<1>7. New = {Len(made) + i : i \in 1 .. Len(ks)}
  <2>1. Len(made) \in Nat /\ Len(ks) \in Nat /\ Len(made') = Len(made) + Len(ks)
    BY <1>2, <1>3, <1>6
  <2>2. ASSUME NEW n \in New PROVE n - Len(made) \in 1 .. Len(ks) /\ n = Len(made) + (n - Len(made))
    BY <2>1 DEF New
  <2>3. ASSUME NEW i \in 1 .. Len(ks) PROVE Len(made) + i \in New
    BY <2>1 DEF New
  <2> QED
    BY <2>2, <2>3
<1>8. \A n \in New : made'[n].by = This /\ made'[n].version = sess.version
  <2> SUFFICES ASSUME NEW n \in New PROVE made'[n].by = This /\ made'[n].version = sess.version
    OBVIOUS
  <2>1. n \in 1 .. Len(made') /\ ~(n <= Len(made)) /\ n - Len(made) \in 1 .. Len(ks)
    BY <1>2, <1>3, <1>6 DEF New
  <2>2. made'[n] = more[n - Len(made)]
    BY <1>6, <2>1
  <2>3. more[n - Len(made)] = [kind |-> ks[n - Len(made)], by |-> This, version |-> sess.version]
    BY <2>1
  <2> QED
    BY <2>2, <2>3
<1>9. /\ todo' \in Seq(SUBSET New)
      /\ \A n \in New : \E i \in 1 .. Len(todo') : n \in todo'[i]
      /\ \A i, j \in 1 .. Len(todo') : i # j => todo'[i] \cap todo'[j] = {}
  <2>1. CASE todo' = <<New>>
    BY <2>1
  <2>2. CASE todo' = [i \in 1 .. Len(ks) |-> {Len(made) + i}]
    BY <1>2, <1>3, <1>7, <2>2
  <2> QED
    BY <1>1, <1>7, <2>1, <2>2 DEF Batches
<1> QED
  <2>1. Len(made') > Len(made) /\ Len(made') <= MaxCalls /\ \A n \in 1 .. Len(made) : made'[n] = made[n]
    <3>1. Len(made) \in Nat /\ Len(made') = Len(made) + Len(ks)
      BY <1>3, <1>6
    <3>2. Len(made') > Len(made) /\ Len(made') <= MaxCalls
      BY <1>1, <1>2, <3>1
    <3>3. ASSUME NEW n \in 1 .. Len(made) PROVE made'[n] = made[n]
      <4>1. n \in 1 .. Len(made') /\ n <= Len(made)
        BY <1>2, <3>1
      <4> QED
        BY <1>6, <4>1
    <3> QED
      BY <3>2, <3>3
  <2>2. sess' = [sess EXCEPT !.calls = @ \cup New]
    BY <1>1, <1>7
  <2> QED
    BY <1>6, <1>8, <1>9, <2>1, <2>2

LEMMA ProposeTypes ==
  ASSUME TypeInv, ProposeCalls
  PROVE  TypeInv'
<1>1. /\ row' = sess' /\ pc' = "exec"
      /\ UNCHANGED <<work, step, receipt, decided, cand, ckpt, result, runs, good, text, budget>>
  BY DEF ProposeCalls
<1>2. Len(made) \in Nat /\ Len(made') \in Nat /\ MaxCalls \in Nat
  BY Proposed, Bounds DEF TypeInv, JournalTypes
<1>3. New \subseteq Calls /\ New \subseteq 1 .. Len(made') /\ 1 .. Len(made) \subseteq 1 .. Len(made')
  BY <1>2, Proposed DEF New, Calls
<1>4. Sound(sess)' /\ Sound(row)'
  <2>1. Sound(sess) /\ sess' = [sess EXCEPT !.calls = @ \cup New]
    BY Proposed DEF TypeInv, LocalTypes
  <2> QED
    BY <1>1, <1>3, <2>1 DEF Sound, SessRec
<1>5. JournalTypes'
  BY <1>1, Proposed DEF JournalTypes, TypeInv
<1>6. sess'.calls = sess.calls \cup New /\ todo' \in Seq(SUBSET sess'.calls)
  BY Proposed DEF TypeInv, LocalTypes, Sound, SessRec
<1>7. LocalTypes'
  BY <1>1, <1>4, <1>6 DEF LocalTypes, TypeInv, Acting
<1> QED
  BY <1>1, <1>4, <1>5, <1>7 DEF TypeInv

LEMMA BatchTypes ==
  ASSUME TypeInv, AttemptInv, SkipCalls \/ StartBatch \/ RunBatch \/ EndCalls
  PROVE  TypeInv'
<1> USE DEF TypeInv
<1>1. CASE SkipCalls
  <2> DEFINE rest == UNION {todo[i] : i \in 1 .. Len(todo)}
  <2>1. /\ sess' = [sess EXCEPT !.outs = @ \cup rest] /\ todo' = <<>>
        /\ UNCHANGED <<work, durable, pc, good, text, budget>>
    BY <1>1 DEF SkipCalls
  <2>2. rest \subseteq sess.calls
    BY DEF LocalTypes
  <2> HIDE DEF rest
  <2>3. Sound(sess)'
    BY <2>1, <2>2 DEF LocalTypes, Sound, SessRec, durable
  <2>4. LocalTypes'
    BY <2>1, <2>3 DEF LocalTypes, durable
  <2> QED
    BY <2>1, <2>4, SameJournal, SameHistory DEF durable
<1>2. CASE StartBatch
  <2>1. /\ step' = [n \in Calls |-> IF n \in todo[1] THEN "open" ELSE step[n]] /\ pc' = "running"
        /\ UNCHANGED <<work, row, made, receipt, decided, cand, ckpt, result, runs, local>>
    BY <1>2 DEF StartBatch
  <2>2. JournalTypes'
    BY <2>1 DEF JournalTypes, Steps
  <2> QED
    BY <2>1, <2>2, SameLocal, SameHistory DEF Acting
<1>3. CASE RunBatch
  <2>1. PICK o \in [todo[1] -> Receipts] :
          /\ receipt' = [n \in Calls |-> IF n \in todo[1] THEN o[n] ELSE receipt[n]]
          /\ runs' = [n \in Calls |-> IF n \in todo[1] /\ Acted(n, o[n]) THEN runs[n] + 1 ELSE runs[n]]
          /\ pc' \in {"threw", "ran"}
    BY <1>3 DEF RunBatch
  <2>2. UNCHANGED <<work, row, made, step, decided, cand, ckpt, result, local>>
    BY <1>3 DEF RunBatch
  <2>3. JournalTypes'
    BY <2>1, <2>2 DEF JournalTypes
  <2>4. pc' \in Acting
    BY <2>1 DEF Acting
  <2> QED
    BY <2>2, <2>3, <2>4, SameLocal, SameHistory
<1>4. CASE EndCalls
  <2>1. /\ row' = sess /\ pc' = "hop"
        /\ UNCHANGED <<work, made, step, receipt, decided, cand, ckpt, result, runs, local>>
    BY <1>4 DEF EndCalls
  <2>2. Sound(row)'
    BY <2>1 DEF LocalTypes, Sound
  <2> QED
    BY <2>1, <2>2, SameJournal, SameLocal DEF Loop
<1> QED
  BY <1>1, <1>2, <1>3, <1>4

LEMMA OutcomeTypes ==
  ASSUME TypeInv, AttemptInv, TodoInv, FinishBatch \/ Park
  PROVE  TypeInv'
<1> USE DEF TypeInv
<1>0. pc \in {"ran", "park"} => todo # <<>> /\ todo[1] \subseteq sess.calls
  BY DEF AttemptInv, LocalTypes
<1>1. CASE FinishBatch
  <2>1. UNCHANGED <<row, made, receipt, decided, cand, ckpt, result, runs>> /\ pc = "ran"
    BY <1>1 DEF FinishBatch
  <2>2. CASE ~StepAccepted
    BY <1>1, <2>1, <2>2, ThrowTypes, SameJournal, SameHistory DEF FinishBatch
  <2>3. CASE StepAccepted
    <3>1. /\ step' = [n \in Calls |-> IF n \in todo[1] THEN "done" ELSE step[n]] /\ work' = work
          /\ pc' \in {"exec", "conclude", "park"} /\ UNCHANGED <<good, text>>
          /\ sess' = sess \/ sess' = [sess EXCEPT !.outs = @ \cup todo[1]]
          /\ todo' \in {todo, Tail(todo), <<>>}
          /\ budget' \in {budget, Observed, Consume(FALSE).left}
      BY <1>1, <2>3 DEF FinishBatch
    <3>2. JournalTypes'
      BY <2>1, <3>1 DEF JournalTypes, Steps
    <3>3. Sound(sess)' /\ sess'.calls = sess.calls
      BY <1>0, <2>1, <3>1 DEF LocalTypes, Sound, SessRec
    <3>4. budget' \in BudgetRec
      <4>1. budget \in BudgetRec /\ Observed \in BudgetRec /\ Consume(FALSE).left \in BudgetRec
        BY ObservedTypes, ConsumeTypes DEF LocalTypes
      <4> QED
        BY <3>1, <4>1
    <3>5. todo' \in Seq(SUBSET sess'.calls)
      <4>1. todo \in Seq(SUBSET sess.calls) /\ Tail(todo) \in Seq(SUBSET sess.calls)
            /\ <<>> \in Seq(SUBSET sess.calls)
        BY <1>0, <2>1 DEF LocalTypes
      <4> QED
        BY <3>1, <3>3, <4>1
    <3>6. LocalTypes'
      BY <3>1, <3>3, <3>4, <3>5 DEF LocalTypes, Loop, Acting
    <3> QED
      BY <2>1, <3>1, <3>2, <3>6, SameHistory
  <2> QED
    BY <2>2, <2>3
<1>2. CASE Park
  <2>1. row' = sess /\ UNCHANGED <<made, step, receipt, decided, cand, ckpt, result, runs>> /\ pc = "park"
    BY <1>2 DEF Park
  <2>2. Sound(row)'
    BY <2>1 DEF LocalTypes, Sound
  <2>3. CASE work.cancel \/ Steered
    BY <1>2, <2>1, <2>2, <2>3, ThrowTypes, SameJournal DEF Park
  <2>4. CASE ~(work.cancel \/ Steered)
    <3>1. work' = [work EXCEPT !.status = "waiting", !.on = Max(Parks(todo[1]))] /\ EndAttempt
      BY <1>2, <2>4 DEF Park
    <3>2. Parks(todo[1]) \subseteq 0 .. MaxCalls
      BY <1>0, <2>1, Bounds DEF Parks, LocalTypes, Sound, SessRec, Calls
    <3>3. Parks(todo[1]) # {}
      BY <2>1 DEF TodoInv
    <3>4. Max(Parks(todo[1])) \in 0 .. MaxCalls
      BY <3>2, <3>3, MaxMember, Bounds
    <3>5. work' \in WorkRec
      BY <3>1, <3>4 DEF WorkRec
    <3> QED
      BY <2>1, <2>2, <3>1, <3>5, EndTypes, SameJournal
  <2> QED
    BY <2>3, <2>4
<1> QED
  BY <1>1, <1>2

LEMMA TypeStep == TypeInv /\ AttemptInv /\ TodoInv /\ [Next]_vars => TypeInv'
<1> SUFFICES ASSUME TypeInv, AttemptInv, TodoInv, [Next]_vars PROVE TypeInv'
  OBVIOUS
<1>1. CASE UNCHANGED vars
  BY <1>1, SameJournal, SameLocal, SameHistory DEF vars, durable, TypeInv, LocalTypes
<1>2. CASE Next
  BY <1>2, LeaveTypes, WorldTypes, RecoveryTypes, HopTypes, ModelTypes, EndingTypes, ProposeTypes, BatchTypes,
     ThrewTypes, OutcomeTypes DEF Next, AttemptStep
<1> QED
  BY <1>1, <1>2

-----------------------------------------------------------------------------
(* The attempt and its lease *)

LEMMA EndKeeps ==
  ASSUME TypeInv, AttemptInv, EndAttempt, work'.version = work.version, row'.version <= work.version
  PROVE  AttemptInv'
<1>1. pc' = "idle" /\ sess' = NoSession /\ todo' = <<>> /\ good' = NoText /\ sess'.version = 1
  BY EndTypes DEF NoSession
<1>2. work.version >= 1 /\ work.version \in Nat
  BY DEF TypeInv, WorkRec
<1> QED
  BY <1>1, <1>2 DEF AttemptInv

LEMMA ThrowKeeps ==
  ASSUME TypeInv, AttemptInv, Throw, row'.version <= work.version
  PROVE  AttemptInv'
  BY EndKeeps, ThrowTypes DEF TypeInv

LEMMA Versions ==
  ASSUME TypeInv
  PROVE  /\ work.version \in Nat /\ sess.version \in Nat /\ row.version \in Nat
         /\ work.version >= 1 /\ sess.version >= 1 /\ row.version >= 1
  BY DEF TypeInv, LocalTypes, Sound, WorkRec, SessRec

LEMMA AttemptStarts ==
  ASSUME TypeInv, AttemptInv,
         \/ Claim \/ Revise \/ RequestStop \/ Decide \/ ResumeDecided
         \/ ExecuteDecidedApproval \/ RecoverWait \/ LoadContext \/ RestoreCall \/ OpenSession
  PROVE  AttemptInv'
<1>1. CASE Claim
  BY <1>1 DEF Claim, AttemptInv, TypeInv, WorkRec, durable, local, Starting, Acting
<1>2. CASE Revise
  BY <1>2, Versions DEF Revise, AttemptInv, TypeInv, WorkRec, durable, local
<1>3. CASE RequestStop
  BY <1>3 DEF RequestStop, AttemptInv, TypeInv, WorkRec, durable, local
<1>4. CASE Decide
  BY <1>4 DEF Decide, AttemptInv, local, Acting
<1>5. CASE ResumeDecided
  BY <1>5 DEF ResumeDecided, AttemptInv, TypeInv, WorkRec, durable, local
<1>6. CASE ExecuteDecidedApproval
  BY <1>6 DEF ExecuteDecidedApproval, AttemptInv, TypeInv, Sound, SessRec, local
<1>7. CASE RecoverWait
  <2>1. row'.version = row.version /\ work'.version = work.version /\ EndAttempt
    BY <1>7 DEF RecoverWait, TypeInv, Sound, SessRec, WorkRec
  <2> QED
    BY <2>1, EndKeeps DEF AttemptInv
<1>8. CASE LoadContext
  <2>1. CASE work.cancel
    BY <1>8, <2>1, ThrowKeeps DEF LoadContext, AttemptInv, durable
  <2>2. CASE ~work.cancel
    BY <1>8, <2>2 DEF LoadContext, AttemptInv, durable, Starting, Acting
  <2> QED
    BY <2>1, <2>2
<1>9. CASE RestoreCall
  <2>1. row' = row
    BY <1>9 DEF RestoreCall
  <2>2. CASE Throw
    BY <2>1, <2>2, ThrowKeeps DEF AttemptInv
  <2>3. CASE ~Throw
    <3>1. sess'.version = sess.version /\ UNCHANGED <<work, pc, todo, good>> /\ pc = "restore"
      BY <1>9, <2>3 DEF RestoreCall, TypeInv, LocalTypes, Sound, SessRec
    <3> QED
      BY <2>1, <3>1 DEF AttemptInv
  <2> QED
    BY <2>2, <2>3
<1>10. CASE OpenSession
  <2>0. todo = <<>> /\ todo' = todo
    BY <1>10 DEF OpenSession, AttemptInv, Acting
  <2>1. Restored.version \in {1, sess.version}
    BY DEF Restored, TypeInv, LocalTypes, Sound, SessRec
  <2>2. sess' = Restored /\ row' = Restored /\ pc' = "hop" /\ work' = work /\ pc = "restore"
    BY <1>10 DEF OpenSession
  <2>3. Restored.version <= work.version
    BY <2>1, Versions DEF AttemptInv
  <2> QED
    BY <2>0, <2>2, <2>3 DEF AttemptInv, Starting, Acting
<1> QED
  BY <1>1, <1>2, <1>3, <1>4, <1>5, <1>6, <1>7, <1>8, <1>9, <1>10

LEMMA AttemptLeaves ==
  ASSUME TypeInv, AttemptInv, Preempted \/ Cancelled \/ Drained \/ LeaseExpires
  PROVE  AttemptInv'
<1>1. EndAttempt
  BY DEF Preempted, Cancelled, Drained, LeaseExpires, FinishWithError
<1>2. work'.version = work.version
  BY DEF Preempted, Cancelled, Drained, LeaseExpires, FinishWithError, TypeInv, WorkRec, Requeued
<1>3. row' = row \/ row' = sess
  BY DEF Preempted, Cancelled, Drained, LeaseExpires, durable
<1> QED
  BY <1>1, <1>2, <1>3, EndKeeps DEF AttemptInv

LEMMA AttemptLoops ==
  ASSUME TypeInv, AttemptInv,
         Hop \/ SaveCheckpoint \/ ModelFails \/ DropAnswer \/ ProposeText \/ Review \/ Conclude \/ Commit
  PROVE  AttemptInv'
<1>1. CASE Hop
  <2>1. pc = "hop" /\ pc' = "checkpoint" /\ UNCHANGED <<work, todo>>
    BY <1>1 DEF Hop
  <2>2. CASE Steered
    BY <1>1, <2>1, <2>2, SteerTypes, Versions DEF Hop, ApplySteering, AttemptInv, Starting, Acting
  <2>3. CASE ~Steered
    BY <1>1, <2>1, <2>3 DEF Hop, ApplySteering, AttemptInv, Starting, Acting
  <2> QED
    BY <2>2, <2>3
<1>2. CASE SaveCheckpoint
  <2>1. CASE StepAccepted
    BY <1>2, <2>1 DEF SaveCheckpoint, AttemptInv, local, Starting, Acting
  <2>2. CASE ~StepAccepted
    BY <1>2, <2>2, ThrowKeeps DEF SaveCheckpoint, AttemptInv
  <2> QED
    BY <2>1, <2>2
<1>3. CASE ModelFails
  <2>1. UNCHANGED durable /\ pc = "model"
    BY <1>3 DEF ModelFails
  <2>2. CASE Throw
    BY <2>1, <2>2, ThrowKeeps DEF AttemptInv, durable
  <2>3. CASE ~Throw
    <3>1. pc' \in {"hop", "conclude"} /\ UNCHANGED <<work, sess, todo, good>>
      BY <1>3, <2>3 DEF ModelFails, local
    <3> QED
      BY <2>1, <3>1 DEF AttemptInv, durable, Starting, Acting
  <2> QED
    BY <2>2, <2>3
<1>4. CASE DropAnswer
  BY <1>4 DEF DropAnswer, AttemptInv, durable, local, Starting, Acting
<1>5. CASE ProposeText
  <2>1. row' = row /\ pc = "model"
    BY <1>5 DEF ProposeText
  <2>2. CASE Throw
    BY <2>1, <2>2, ThrowKeeps DEF AttemptInv
  <2>3. CASE ~Throw
    <3>1. UNCHANGED <<work, sess, todo>> /\ pc' \in {"hop", "conclude", "review"}
      BY <1>5, <2>3 DEF ProposeText, Correct
    <3> QED
      BY <2>1, <3>1 DEF AttemptInv, Starting, Acting
  <2> QED
    BY <2>2, <2>3
<1>6. CASE Review
  <2>1. UNCHANGED <<work, row, sess, todo, good>> /\ pc' \in {"hop", "conclude", "commit"} /\ pc = "review"
    BY <1>6 DEF Review, Correct, durable
  <2> QED
    BY <2>1 DEF AttemptInv, Starting, Acting
<1>7. CASE Conclude
  <2>1. CASE Steered \/ good = NoText
    <3>1. row' \in {row, Steer} /\ work' = [work EXCEPT !.status = "failed"] /\ EndAttempt
      BY <1>7, <2>1 DEF Conclude
    <3>2. work'.version = work.version /\ row'.version <= work.version
      BY <3>1, SteerTypes, Versions DEF AttemptInv, TypeInv, WorkRec
    <3> QED
      BY <3>1, <3>2, EndKeeps
  <2>2. CASE ~(Steered \/ good = NoText)
    BY <1>7, <2>2 DEF Conclude, AttemptInv, Starting, Acting
  <2> QED
    BY <2>1, <2>2
<1>8. CASE Commit
  <2>1. row' = sess
    BY <1>8 DEF Commit
  <2>2. CASE ~Steered /\ ~work.cancel
    <3>1. work' = [work EXCEPT !.status = "done"] /\ EndAttempt
      BY <1>8, <2>2 DEF Commit
    <3>2. work'.version = work.version
      BY <3>1 DEF TypeInv, WorkRec
    <3> QED
      BY <2>1, <3>1, <3>2, EndKeeps DEF AttemptInv
  <2>3. CASE ~(~Steered /\ ~work.cancel)
    BY <1>8, <2>1, <2>3, ThrowKeeps DEF Commit, AttemptInv
  <2> QED
    BY <2>2, <2>3
<1> QED
  BY <1>1, <1>2, <1>3, <1>4, <1>5, <1>6, <1>7, <1>8

LEMMA AttemptActs ==
  ASSUME TypeInv, AttemptInv,
         ProposeCalls \/ SkipCalls \/ StartBatch \/ RunBatch \/ CallThrew \/ EndCalls \/ FinishBatch \/ Park
  PROVE  AttemptInv'
<1>1. CASE ProposeCalls
  <2>1. row' = sess' /\ pc' = "exec" /\ UNCHANGED <<work, good>>
    BY <1>1 DEF ProposeCalls
  <2>2. sess'.version = sess.version
    BY <1>1, Proposed DEF TypeInv, LocalTypes, Sound, SessRec
  <2> QED
    BY <1>1, <2>1, <2>2 DEF ProposeCalls, AttemptInv, Starting, Acting
<1>2. CASE SkipCalls
  <2>1. sess'.version = sess.version
    BY <1>2 DEF SkipCalls, TypeInv, LocalTypes, Sound, SessRec
  <2> QED
    BY <1>2, <2>1 DEF SkipCalls, AttemptInv, durable, Starting, Acting
<1>3. CASE StartBatch
  BY <1>3 DEF StartBatch, AttemptInv, local, Starting, Acting
<1>4. CASE RunBatch
  BY <1>4 DEF RunBatch, AttemptInv, local, Starting, Acting
<1>5. CASE EndCalls
  BY <1>5 DEF EndCalls, AttemptInv, local, Starting, Acting
<1>6. CASE FinishBatch
  <2>1. row' = row /\ pc = "ran"
    BY <1>6 DEF FinishBatch
  <2>2. CASE ~StepAccepted
    BY <1>6, <2>1, <2>2, ThrowKeeps DEF FinishBatch, AttemptInv
  <2>3. CASE StepAccepted
    <3>1. /\ pc' \in {"exec", "conclude", "park"} /\ UNCHANGED <<work, good>>
          /\ sess' = sess \/ sess' = [sess EXCEPT !.outs = @ \cup todo[1]]
          /\ (pc' = "park" => todo' = todo) /\ (pc' = "conclude" => todo' = <<>>)
      BY <1>6, <2>3 DEF FinishBatch
    <3>2. sess'.version = sess.version
      BY <3>1 DEF TypeInv, LocalTypes, Sound, SessRec
    <3> QED
      BY <2>1, <3>1, <3>2 DEF AttemptInv, Starting, Acting
  <2> QED
    BY <2>2, <2>3
<1>7. CASE Park
  <2>1. row' = sess
    BY <1>7 DEF Park
  <2>2. CASE work.cancel \/ Steered
    BY <1>7, <2>1, <2>2, ThrowKeeps DEF Park, AttemptInv
  <2>3. CASE ~(work.cancel \/ Steered)
    <3>1. EndAttempt /\ work'.version = work.version
      BY <1>7, <2>3 DEF Park, TypeInv, WorkRec
    <3> QED
      BY <2>1, <3>1, EndKeeps DEF AttemptInv
  <2> QED
    BY <2>2, <2>3
<1>8. CASE CallThrew
  <2>1. UNCHANGED durable /\ pc = "threw"
    BY <1>8 DEF CallThrew
  <2>2. CASE Throw
    BY <2>1, <2>2, ThrowKeeps DEF AttemptInv, durable
  <2>3. CASE ~Throw
    <3>1. pc' = "conclude" /\ todo' = <<>> /\ UNCHANGED <<work, sess, good>>
      BY <1>8, <2>3 DEF CallThrew
    <3> QED
      BY <2>1, <3>1 DEF AttemptInv, durable, Starting, Acting
  <2> QED
    BY <2>2, <2>3
<1> QED
  BY <1>1, <1>2, <1>3, <1>4, <1>5, <1>6, <1>7, <1>8

LEMMA AttemptHolds == TypeInv /\ AttemptInv /\ [Next]_vars => AttemptInv'
<1> SUFFICES ASSUME TypeInv, AttemptInv, [Next]_vars PROVE AttemptInv'
  OBVIOUS
<1>1. CASE UNCHANGED vars
  BY <1>1 DEF vars, durable, local, AttemptInv
<1>2. CASE Next
  BY <1>2, AttemptStarts, AttemptLeaves, AttemptLoops, AttemptActs DEF Next, AttemptStep
<1> QED
  BY <1>1, <1>2

-----------------------------------------------------------------------------
(* Answers and the versions they were written for *)

LEMMA EndKeepsText ==
  ASSUME TextInv, EndAttempt, UNCHANGED <<cand, result>>
  PROVE  TextInv'
  BY EndTypes DEF TextInv

LEMMA SameText ==
  ASSUME TextInv, UNCHANGED <<cand, result, good, text>>, sess'.version = sess.version,
         pc' \in {"review", "commit"} => pc = pc' \/ pc = "review"
  PROVE  TextInv'
  BY DEF TextInv

LEMMA TextStep == TypeInv /\ AttemptInv /\ TextInv /\ [Next]_vars => TextInv'
<1> SUFFICES ASSUME TypeInv, AttemptInv, TextInv, [Next]_vars PROVE TextInv'
  OBVIOUS
<1>1. CASE Claim \/ Revise \/ RequestStop \/ Decide \/ ResumeDecided \/ UNCHANGED vars
  BY <1>1, SameText DEF Claim, Revise, RequestStop, Decide, ResumeDecided, vars, durable, local
<1>2. CASE Preempted \/ Cancelled \/ Drained \/ LeaseExpires
  <2>1. EndAttempt /\ UNCHANGED <<cand, result>>
    BY <1>2 DEF Preempted, Cancelled, Drained, LeaseExpires, FinishWithError, durable
  <2> QED
    BY <2>1, EndKeepsText
<1>3. CASE ExecuteDecidedApproval
  BY <1>3, SameText DEF ExecuteDecidedApproval, local
<1>4. CASE RecoverWait
  BY <1>4, EndKeepsText DEF RecoverWait
<1>5. CASE LoadContext
  <2>1. CASE work.cancel
    BY <1>5, <2>1, EndKeepsText DEF LoadContext, Throw, FinishWithError, durable
  <2>2. CASE ~work.cancel
    BY <1>5, <2>2 DEF LoadContext, durable, TextInv, AttemptInv, Starting
  <2> QED
    BY <2>1, <2>2
<1>6. CASE RestoreCall
  <2>1. CASE Throw
    BY <1>6, <2>1, EndKeepsText DEF RestoreCall, Throw, FinishWithError
  <2>2. CASE ~Throw
    <3>1. sess'.version = sess.version /\ UNCHANGED <<pc, good, text, cand, result>>
      BY <1>6, <2>2 DEF RestoreCall, TypeInv, LocalTypes, Sound, SessRec
    <3> QED
      BY <3>1, SameText
  <2> QED
    BY <2>1, <2>2
<1>7. CASE OpenSession
  <2>1. sess' = Restored /\ UNCHANGED <<cand, result>> /\ pc' = "hop"
    BY <1>7 DEF OpenSession
  <2>2. good' = NoText \/ (good' = cand.for /\ cand.stamp = Restored.version)
    BY <1>7 DEF OpenSession
  <2> QED
    BY <2>1, <2>2 DEF TextInv
<1>8. CASE Hop
  <2>1. UNCHANGED <<cand, result, text>> /\ pc' = "checkpoint"
    BY <1>8 DEF Hop
  <2>2. CASE Steered
    BY <1>8, <2>1, <2>2 DEF Hop, ApplySteering, TextInv
  <2>3. CASE ~Steered
    BY <1>8, <2>1, <2>3 DEF Hop, ApplySteering, TextInv
  <2> QED
    BY <2>2, <2>3
<1>9. CASE SaveCheckpoint
  <2>1. CASE StepAccepted
    BY <1>9, <2>1, SameText DEF SaveCheckpoint, local
  <2>2. CASE ~StepAccepted
    BY <1>9, <2>2, EndKeepsText DEF SaveCheckpoint, Throw, FinishWithError
  <2> QED
    BY <2>1, <2>2
<1>10. CASE ModelFails
  <2>1. CASE Throw
    BY <1>10, <2>1, EndKeepsText DEF ModelFails, Throw, FinishWithError, durable
  <2>2. CASE ~Throw
    <3>1. pc' \in {"hop", "conclude"} /\ UNCHANGED <<sess, good, text, cand, result>>
      BY <1>10, <2>2 DEF ModelFails, durable, local
    <3> QED
      BY <3>1, SameText
  <2> QED
    BY <2>1, <2>2
<1>11. CASE DropAnswer
  BY <1>11, SameText DEF DropAnswer, durable, local
<1>12. CASE ProposeText
  <2>1. CASE Throw
    <3>1. cand' = cand /\ result' = result
      BY <1>12, <2>1, ThrowTypes, EndTypes DEF ProposeText, Correct, TypeInv
    <3> QED
      BY <2>1, <3>1, EndKeepsText DEF Throw, FinishWithError
  <2>2. CASE ~Throw
    <3>1. /\ UNCHANGED <<sess, result>> /\ pc' \in {"hop", "conclude", "review"}
          /\ good' \in {good, sess.version} /\ (pc' = "review" => text' = sess.version)
          /\ cand' \in {cand, [stamp |-> sess.version, for |-> sess.version]}
      BY <1>12, <2>2 DEF ProposeText, Correct
    <3> QED
      BY <3>1 DEF TextInv
  <2> QED
    BY <2>1, <2>2
<1>13. CASE Review
  <2>1. /\ UNCHANGED <<sess, good, cand, result>> /\ pc' \in {"hop", "conclude", "commit"} /\ pc = "review"
        /\ pc' = "commit" => text' = text
    BY <1>13 DEF Review, Correct, durable
  <2> QED
    BY <2>1 DEF TextInv
<1>14. CASE Conclude
  <2>1. CASE Steered \/ good = NoText
    BY <1>14, <2>1, EndKeepsText DEF Conclude
  <2>2. CASE ~(Steered \/ good = NoText)
    BY <1>14, <2>2 DEF Conclude, TextInv
  <2> QED
    BY <2>1, <2>2
<1>15. CASE Commit
  <2>1. CASE ~Steered /\ ~work.cancel
    <3>1. result' = [stamp |-> sess.version, for |-> text] /\ EndAttempt /\ cand' = cand /\ pc = "commit"
      BY <1>15, <2>1 DEF Commit
    <3> QED
      BY <3>1, EndTypes DEF TextInv
  <2>2. CASE ~(~Steered /\ ~work.cancel)
    BY <1>15, <2>2, EndKeepsText DEF Commit, Throw, FinishWithError
  <2> QED
    BY <2>1, <2>2
<1>16. CASE ProposeCalls
  <2>1. sess'.version = sess.version
    BY <1>16, Proposed DEF TypeInv, LocalTypes, Sound, SessRec
  <2> QED
    BY <1>16, <2>1, SameText DEF ProposeCalls
<1>17. CASE SkipCalls
  <2>1. sess'.version = sess.version
    BY <1>17 DEF SkipCalls, TypeInv, LocalTypes, Sound, SessRec
  <2> QED
    BY <1>17, <2>1, SameText DEF SkipCalls, durable
<1>18. CASE StartBatch \/ RunBatch \/ EndCalls
  BY <1>18, SameText DEF StartBatch, RunBatch, EndCalls, local
<1>19. CASE FinishBatch
  <2>1. CASE ~StepAccepted
    BY <1>19, <2>1, EndKeepsText DEF FinishBatch, Throw, FinishWithError
  <2>2. CASE StepAccepted
    <3>1. /\ pc' \in {"exec", "conclude", "park"} /\ UNCHANGED <<cand, result, good, text>>
          /\ sess' = sess \/ sess' = [sess EXCEPT !.outs = @ \cup todo[1]]
      BY <1>19, <2>2 DEF FinishBatch
    <3>2. sess'.version = sess.version
      BY <3>1 DEF TypeInv, LocalTypes, Sound, SessRec
    <3> QED
      BY <3>1, <3>2, SameText
  <2> QED
    BY <2>1, <2>2
<1>20. CASE Park
  BY <1>20, EndKeepsText DEF Park, Throw, FinishWithError
<1>21. CASE CallThrew
  <2>1. CASE Throw
    BY <1>21, <2>1, EndKeepsText DEF CallThrew, Throw, FinishWithError, durable
  <2>2. CASE ~Throw
    <3>1. pc' = "conclude" /\ UNCHANGED <<sess, good, text, cand, result>>
      BY <1>21, <2>2 DEF CallThrew, durable
    <3> QED
      BY <3>1, SameText
  <2> QED
    BY <2>1, <2>2
<1> QED
  BY <1>1, <1>2, <1>3, <1>4, <1>5, <1>6, <1>7, <1>8, <1>9, <1>10, <1>11, <1>12, <1>13, <1>14, <1>15, <1>16,
     <1>17, <1>18, <1>19, <1>20, <1>21 DEF Next, AttemptStep

-----------------------------------------------------------------------------
(* Calls and their outputs, and the batches still to do *)

LEMMA NoTodo ==
  ASSUME todo' = <<>>, pc' # "park"
  PROVE  TodoInv'
  BY DEF TodoInv

LEMMA SameTodo ==
  ASSUME TypeInv, TodoInv, UNCHANGED <<todo, made, receipt, runs>>, sess'.version = sess.version,
         pc' \in {"exec", "running"} => pc \in {"exec", "running"},
         pc' = "park" => Parks(todo[1]) # {} /\ todo[1] \subseteq sess'.outs
  PROVE  TodoInv'
  BY DEF TodoInv, Waits, Untouched, Mine, Parks

(* Whatever ends the attempt, or happens outside the turn's own calls,     *)
(* leaves the calls' pairing alone.                                        *)
LEMMA QuietPairs ==
  ASSUME TypeInv, AttemptInv, PairInv, TodoInv,
         \/ Claim \/ Revise \/ RequestStop \/ Decide \/ ResumeDecided \/ UNCHANGED vars
         \/ Preempted \/ Cancelled \/ Drained \/ LeaseExpires
         \/ ExecuteDecidedApproval \/ RecoverWait \/ LoadContext \/ RestoreCall \/ Throw
  PROVE  PairInv' /\ TodoInv'
<1>1. CASE EndAttempt
  BY <1>1, EndTypes, NoTodo DEF PairInv, Loop, Acting
<1>2. CASE Preempted \/ Cancelled \/ Drained \/ LeaseExpires \/ RecoverWait \/ Throw
  BY <1>1, <1>2 DEF Preempted, Cancelled, Drained, LeaseExpires, RecoverWait, Throw, FinishWithError
<1>3. CASE Claim
  <2>1. pc = "idle" /\ pc' = "recover" /\ UNCHANGED local
    BY <1>3 DEF Claim, AttemptInv
  <2> QED
    BY <2>1, NoTodo DEF AttemptInv, PairInv, Loop, Acting, local
<1>4. CASE Revise \/ RequestStop \/ Decide \/ ResumeDecided \/ UNCHANGED vars
  <2>1. UNCHANGED <<pc, sess, todo, made, receipt, runs>>
    BY <1>4 DEF Revise, RequestStop, Decide, ResumeDecided, vars, durable, local
  <2>2. PairInv'
    BY <2>1 DEF PairInv, Pending
  <2> QED
    BY <2>1, <2>2, SameTodo DEF TodoInv
<1>5. CASE ExecuteDecidedApproval
  <2>1. pc = "recover" /\ UNCHANGED <<pc, todo>>
    BY <1>5 DEF ExecuteDecidedApproval, local
  <2> QED
    BY <2>1, NoTodo DEF AttemptInv, PairInv, Loop, Acting
<1>6. CASE LoadContext
  <2>1. CASE work.cancel
    BY <1>1, <1>6, <2>1 DEF LoadContext, Throw, FinishWithError
  <2>2. CASE ~work.cancel
    <3>1. pc = "recover" /\ pc' = "restore" /\ todo' = todo
      BY <1>6, <2>2 DEF LoadContext
    <3> QED
      BY <3>1, NoTodo DEF AttemptInv, PairInv, Loop, Acting
  <2> QED
    BY <2>1, <2>2
<1>7. CASE RestoreCall
  <2>1. CASE Throw
    BY <1>1, <2>1 DEF Throw, FinishWithError
  <2>2. CASE ~Throw
    <3>1. pc = "restore" /\ pc' = "restore" /\ todo' = todo
      BY <1>7, <2>2 DEF RestoreCall
    <3> QED
      BY <3>1, NoTodo DEF AttemptInv, PairInv, Loop, Acting
  <2> QED
    BY <2>1, <2>2
<1> QED
  BY <1>2, <1>3, <1>4, <1>5, <1>6, <1>7

LEMMA LoopPairs ==
  ASSUME TypeInv, AttemptInv, PairInv, TodoInv,
         \/ OpenSession \/ Hop \/ SaveCheckpoint \/ ModelFails \/ DropAnswer \/ ProposeText \/ Review
         \/ Conclude \/ Commit \/ CallThrew
  PROVE  PairInv' /\ TodoInv'
<1>1. CASE EndAttempt
  BY <1>1, EndTypes, NoTodo DEF PairInv, Loop, Acting
<1>2. CASE ~EndAttempt
  <2>1. CASE OpenSession
    <3>1. sess' = Restored /\ pc' = "hop" /\ pc = "restore" /\ todo' = todo /\ Pending(sess) = {}
      BY <2>1 DEF OpenSession
    <3>2. Pending(Restored) = Pending(sess)
      BY DEF Restored, Pending, TypeInv, LocalTypes, Sound, SessRec
    <3> QED
      BY <3>1, <3>2, NoTodo DEF AttemptInv, PairInv, Acting, Pending
  <2>2. CASE Hop
    <3>1. pc' = "checkpoint" /\ pc = "hop" /\ todo' = todo /\ (sess' = Steer \/ sess' = sess)
      BY <2>2 DEF Hop, ApplySteering
    <3>2. Pending(sess) = {}
      BY <3>1 DEF PairInv, Loop
    <3>3. Pending(sess') = {}
      BY <3>1, <3>2, SteerTypes DEF Pending
    <3> QED
      BY <3>1, <3>3, NoTodo DEF AttemptInv, PairInv, Acting, Pending
  <2>3. CASE SaveCheckpoint \/ ModelFails \/ DropAnswer \/ ProposeText
    <3>1. pc \in {"checkpoint", "model"} /\ pc' \in Loop /\ UNCHANGED <<sess, todo>>
      BY <1>2, <2>3 DEF SaveCheckpoint, ModelFails, DropAnswer, ProposeText, Correct, Throw, FinishWithError,
                        local, Loop
    <3> QED
      BY <3>1, NoTodo DEF AttemptInv, PairInv, Acting, Loop, Pending
  <2>4. CASE Review
    <3>1. pc = "review" /\ pc' \in {"hop", "conclude", "commit"} /\ UNCHANGED <<sess, todo>>
      BY <2>4 DEF Review, Correct
    <3> QED
      BY <3>1, NoTodo DEF AttemptInv, PairInv, Acting, Loop, Pending
  <2>5. CASE Conclude \/ Commit
    <3>1. pc = "conclude" /\ pc' = "commit" /\ todo' = todo
      BY <1>2, <2>5 DEF Conclude, Commit, Throw, FinishWithError
    <3> QED
      BY <3>1, NoTodo DEF AttemptInv, PairInv, Acting, Loop
  <2>6. CASE CallThrew
    <3>1. pc' = "conclude" /\ todo' = <<>>
      BY <1>2, <2>6 DEF CallThrew, Throw, FinishWithError
    <3> QED
      BY <3>1, NoTodo DEF PairInv, Acting, Loop
  <2> QED
    BY <2>1, <2>2, <2>3, <2>4, <2>5, <2>6
<1> QED
  BY <1>1, <1>2

LEMMA ProposePairs ==
  ASSUME TypeInv, AttemptInv, PairInv, TodoInv, RunInv, ProposeCalls
  PROVE  PairInv' /\ TodoInv'
<1>1. pc = "model" /\ pc' = "exec" /\ UNCHANGED <<receipt, runs>>
  BY DEF ProposeCalls
<1>2. sess' = [sess EXCEPT !.calls = @ \cup New] /\ Pending(sess) = {}
  BY <1>1, Proposed DEF PairInv, Loop
<1>3. Pending(sess') \subseteq New /\ sess'.version = sess.version
  BY <1>2 DEF Pending, TypeInv, LocalTypes, Sound, SessRec
<1>4. PairInv'
  BY <1>1, <1>3, Proposed DEF PairInv, Loop, Pending
<1>5. ASSUME NEW i \in 1 .. Len(todo'), NEW n \in todo'[i]
      PROVE  made'[n].by = This /\ made'[n].version = sess'.version /\ receipt'[n] = "none" /\ runs'[n] = 0
  <2>1. n \in New
    BY Proposed
  <2>2. Len(made) \in Nat /\ Len(made') \in Nat /\ MaxCalls \in Nat /\ Len(made') <= MaxCalls
    BY Proposed, Bounds DEF TypeInv, JournalTypes
  <2>3. n \in Calls /\ n > Len(made)
    BY <2>1, <2>2 DEF New, Calls
  <2> QED
    BY <1>1, <1>3, <2>1, <2>3, Proposed DEF RunInv, Untouched
<1>6. \A i, j \in 1 .. Len(todo') : i # j => todo'[i] \cap todo'[j] = {}
  BY Proposed
<1> QED
  BY <1>1, <1>4, <1>5, <1>6 DEF TodoInv, Waits, Untouched, Mine

LEMMA ActPairs ==
  ASSUME TypeInv, AttemptInv, PairInv, TodoInv, SkipCalls \/ StartBatch \/ RunBatch \/ EndCalls
  PROVE  PairInv' /\ TodoInv'
<1>1. CASE SkipCalls
  <2> DEFINE rest == UNION {todo[i] : i \in 1 .. Len(todo)}
  <2>1. sess' = [sess EXCEPT !.outs = @ \cup rest] /\ todo' = <<>> /\ pc = "exec" /\ pc' = pc
    BY <1>1 DEF SkipCalls
  <2>2. Pending(sess) \subseteq rest
    BY <2>1 DEF PairInv, Acting
  <2> HIDE DEF rest
  <2>3. Pending(sess') = {}
    BY <2>1, <2>2 DEF Pending, TypeInv, LocalTypes, Sound, SessRec
  <2>4. PairInv'
    BY <2>1, <2>3 DEF PairInv, Loop, Pending
  <2> QED
    BY <2>1, <2>4, NoTodo
<1>2. CASE StartBatch
  <2>1. pc = "exec" /\ pc' = "running" /\ UNCHANGED <<sess, todo, made, receipt, runs>>
    BY <1>2 DEF StartBatch, local
  <2>2. PairInv'
    BY <2>1 DEF PairInv, Loop, Acting, Pending
  <2> QED
    BY <2>1, <2>2, SameTodo
<1>3. CASE RunBatch
  <2>1. pc = "running" /\ pc' \in {"threw", "ran"} /\ UNCHANGED <<sess, todo, made>>
    BY <1>3 DEF RunBatch, local
  <2>2. PairInv'
    BY <2>1 DEF PairInv, Loop, Acting, Pending
  <2>3. ASSUME NEW i \in 1 .. Len(todo), NEW n \in todo[i], i > 1
        PROVE  receipt'[n] = "none" /\ runs'[n] = 0
    <3>1. todo # <<>> /\ 1 \in 1 .. Len(todo) /\ n \notin todo[1]
      BY <2>1, <2>3 DEF AttemptInv, TodoInv, TypeInv, LocalTypes
    <3>2. n \in Calls /\ receipt[n] = "none" /\ runs[n] = 0
      BY <2>3 DEF TodoInv, Waits, Untouched, TypeInv, LocalTypes, Sound, SessRec
    <3> QED
      BY <1>3, <3>1, <3>2 DEF RunBatch
  <2>4. \A i \in 1 .. Len(todo) : \A n \in todo[i] : Mine(n) /\ made[n].version = sess.version
    BY DEF TodoInv
  <2>5. \A i, j \in 1 .. Len(todo) : i # j => todo[i] \cap todo[j] = {}
    BY DEF TodoInv
  <2> QED
    BY <2>1, <2>2, <2>3, <2>4, <2>5 DEF TodoInv, Waits, Untouched, Mine
<1>4. CASE EndCalls
  <2>1. pc = "exec" /\ todo = <<>> /\ pc' = "hop" /\ UNCHANGED <<sess, todo>>
    BY <1>4 DEF EndCalls, local
  <2>2. Pending(sess) = {}
    BY <2>1 DEF PairInv, Acting
  <2> QED
    BY <2>1, <2>2, NoTodo DEF PairInv, Acting, Pending
<1> QED
  BY <1>1, <1>2, <1>3, <1>4

LEMMA OutcomePairs ==
  ASSUME TypeInv, AttemptInv, PairInv, TodoInv, FinishBatch \/ Park
  PROVE  PairInv' /\ TodoInv'
<1>1. CASE EndAttempt
  BY <1>1, EndTypes, NoTodo DEF PairInv, Loop, Acting
<1>2. CASE ~EndAttempt
  <2>1. FinishBatch /\ StepAccepted
    BY <1>2 DEF FinishBatch, Park, Throw, FinishWithError
  <2>2. /\ pc = "ran" /\ UNCHANGED <<made, receipt, runs>>
        /\ \/ pc' = "exec" /\ sess' = [sess EXCEPT !.outs = @ \cup todo[1]] /\ todo' = Tail(todo)
           \/ pc' = "conclude" /\ todo' = <<>>
           \/ /\ Parks(todo[1]) # {} /\ pc' = "park" /\ sess' = [sess EXCEPT !.outs = @ \cup todo[1]]
              /\ todo' = todo
    BY <2>1 DEF FinishBatch
  <2>3. todo # <<>> /\ todo \in Seq(SUBSET sess.calls) /\ 1 \in 1 .. Len(todo)
    BY <2>2 DEF AttemptInv, TypeInv, LocalTypes
  <2>4. \A n \in Pending(sess) : \E i \in 1 .. Len(todo) : n \in todo[i]
    BY <2>2 DEF PairInv, Acting
  <2>5. CASE pc' = "conclude"
    BY <2>2, <2>5, NoTodo DEF PairInv, Loop, Acting
  <2>6. CASE pc' # "conclude"
    <3>1. sess' = [sess EXCEPT !.outs = @ \cup todo[1]] /\ pc' \in {"exec", "park"}
      BY <2>2, <2>6
    <3>2. Pending(sess') = Pending(sess) \ todo[1] /\ sess'.version = sess.version /\ todo[1] \subseteq sess'.outs
      BY <3>1 DEF Pending, TypeInv, LocalTypes, Sound, SessRec
    <3>3. CASE pc' = "exec"
      <4>1. todo' = Tail(todo) /\ Len(todo') = Len(todo) - 1 /\ Len(todo) \in Nat
            /\ \A i \in 1 .. Len(todo') : i + 1 \in 1 .. Len(todo) /\ todo'[i] = todo[i + 1]
        BY <2>2, <2>3, <3>3
      <4>2. ASSUME NEW n \in Pending(sess') PROVE \E i \in 1 .. Len(todo') : n \in todo'[i]
        <5>1. PICK i \in 1 .. Len(todo) : n \in todo[i] /\ i # 1
          BY <2>4, <3>2, <4>2
        <5>2. i - 1 \in 1 .. Len(todo') /\ todo'[i - 1] = todo[i]
          BY <4>1, <5>1
        <5> QED
          BY <5>1, <5>2
      <4>3. PairInv'
        BY <3>3, <4>2 DEF PairInv, Loop, Pending
      <4>4. ASSUME NEW i \in 1 .. Len(todo'), NEW n \in todo'[i]
            PROVE  Mine(n) /\ made[n].version = sess.version /\ receipt[n] = "none" /\ runs[n] = 0
        <5>1. i + 1 \in 1 .. Len(todo) /\ n \in todo[i + 1] /\ i + 1 > 1
          BY <4>1, <4>4
        <5> QED
          BY <5>1 DEF TodoInv, Waits, Untouched
      <4>5. ASSUME NEW i \in 1 .. Len(todo'), NEW j \in 1 .. Len(todo'), i # j
            PROVE  todo'[i] \cap todo'[j] = {}
        <5>1. i + 1 \in 1 .. Len(todo) /\ j + 1 \in 1 .. Len(todo) /\ i + 1 # j + 1
          BY <4>1, <4>5
        <5> QED
          BY <4>1, <5>1 DEF TodoInv
      <4> QED
        BY <2>2, <3>2, <3>3, <4>3, <4>4, <4>5 DEF TodoInv, Waits, Untouched, Mine
    <3>4. CASE pc' = "park"
      <4>1. todo' = todo /\ Parks(todo[1]) # {}
        BY <2>2, <3>4
      <4>2. PairInv'
        BY <2>4, <3>2, <3>4, <4>1 DEF PairInv, Loop, Pending
      <4> QED
        BY <2>2, <3>2, <3>4, <4>1, <4>2, SameTodo
    <3> QED
      BY <3>1, <3>3, <3>4
  <2> QED
    BY <2>5, <2>6
<1> QED
  BY <1>1, <1>2

LEMMA PairStep ==
  TypeInv /\ AttemptInv /\ PairInv /\ TodoInv /\ RunInv /\ [Next]_vars => PairInv' /\ TodoInv'
  BY QuietPairs, LoopPairs, ProposePairs, ActPairs, OutcomePairs DEF Next, AttemptStep

-----------------------------------------------------------------------------
(* Effects and the receipts that remember them *)

LEMMA SameRuns ==
  ASSUME RunInv, UNCHANGED <<made, step, receipt, runs>>
  PROVE  RunInv'
  BY DEF RunInv, Untouched

LEMMA QuietRuns ==
  ASSUME RunInv,
         \/ Claim \/ Revise \/ RequestStop \/ Decide \/ ResumeDecided \/ UNCHANGED vars
         \/ Preempted \/ Cancelled \/ Drained \/ LeaseExpires \/ RecoverWait \/ LoadContext
         \/ OpenSession \/ Hop \/ SaveCheckpoint \/ ModelFails \/ DropAnswer \/ ProposeText \/ Review
         \/ SkipCalls \/ CallThrew \/ Park \/ EndCalls \/ Conclude \/ Commit
  PROVE  RunInv'
<1>1. UNCHANGED <<made, step, receipt, runs>>
  BY DEF Claim, Revise, RequestStop, Decide, ResumeDecided, vars, durable, Preempted, Cancelled, Drained,
         LeaseExpires, RecoverWait, LoadContext, OpenSession, Hop, SaveCheckpoint, ModelFails, DropAnswer,
         ProposeText, Review, SkipCalls, CallThrew, Park, EndCalls, Conclude, Commit
<1> QED
  BY <1>1, SameRuns

(* One call happens: its receipt says it had no effect before.             *)
LEMMA EffectRuns ==
  ASSUME TypeInv, RunInv, NEW n \in Calls, UNCHANGED <<made, step>>, n <= Len(made),
         receipt' = [receipt EXCEPT ![n] = "done"],
         \/ runs' = runs
         \/ made[n].kind # "cell" /\ runs[n] = 0 /\ runs' = [runs EXCEPT ![n] = @ + 1]
  PROVE  RunInv'
<1>0. receipt \in [Calls -> Receipts] /\ runs \in [Calls -> Nat]
  BY DEF TypeInv, JournalTypes
<1>1. n \in Nat /\ Len(made) \in Nat
  BY DEF Calls, TypeInv, JournalTypes
<1>2. receipt'[n] = "done" /\ runs'[n] <= 1
  BY <1>0 DEF RunInv
<1>3. \A m \in Calls : m # n => receipt'[m] = receipt[m] /\ runs'[m] = runs[m]
  BY <1>0
<1> QED
  BY <1>1, <1>2, <1>3 DEF RunInv, Untouched

LEMMA RestoreRuns ==
  ASSUME TypeInv, RunInv, ExecuteDecidedApproval \/ RestoreCall
  PROVE  RunInv'
<1>1. CASE ExecuteDecidedApproval
  <2>1. PICK n \in decided : /\ receipt[n] = "pending" /\ receipt' = [receipt EXCEPT ![n] = "done"]
                             /\ runs' = IF made[n].kind = "cell" THEN runs ELSE [runs EXCEPT ![n] = @ + 1]
    BY <1>1 DEF ExecuteDecidedApproval
  <2>2. n \in Calls /\ n \in Nat /\ Len(made) \in Nat
    BY DEF TypeInv, JournalTypes, Calls
  <2>3. n <= Len(made)
    BY <2>1, <2>2 DEF RunInv, Untouched
  <2>4. made[n].kind # "cell" => runs[n] = 0
    BY <2>1, <2>2, <2>3 DEF RunInv
  <2>5. UNCHANGED <<made, step>>
    BY <1>1 DEF ExecuteDecidedApproval
  <2> QED
    BY <2>1, <2>2, <2>3, <2>4, <2>5, EffectRuns
<1>2. CASE RestoreCall
  <2> DEFINE n == Min(Pending(sess))
  <2>1. Pending(sess) \subseteq sess.calls /\ sess.calls \subseteq 1 .. Len(made) /\ sess.calls \subseteq Calls
    BY DEF Pending, TypeInv, LocalTypes, Sound, SessRec
  <2>2. n \in Pending(sess)
    BY <1>2, <2>1, MinMember DEF RestoreCall
  <2>3. n \in Calls /\ n <= Len(made)
    BY <2>1, <2>2
  <2> HIDE DEF n
  <2>4. /\ UNCHANGED <<made, step>>
        /\ \/ UNCHANGED <<receipt, runs>>
           \/ /\ Reexecuted(n) /\ receipt' = [receipt EXCEPT ![n] = "done"]
              /\ runs' = [runs EXCEPT ![n] = @ + 1]
    BY <1>2 DEF RestoreCall, n
  <2>5. CASE UNCHANGED <<receipt, runs>>
    BY <2>4, <2>5, SameRuns
  <2>6. CASE ~UNCHANGED <<receipt, runs>>
    <3>1. made[n].kind \in Repeatable /\ receipt[n] \in {"none", "intent"}
      BY <2>4, <2>6 DEF Reexecuted
    <3>2. made[n].kind # "cell" /\ runs[n] = 0
      BY <2>3, <3>1 DEF RunInv, Repeatable
    <3> QED
      BY <2>3, <2>4, <2>6, <3>2, EffectRuns
  <2> QED
    BY <2>5, <2>6
<1> QED
  BY <1>1, <1>2

LEMMA CallRuns ==
  ASSUME TypeInv, AttemptInv, TodoInv, RunInv, ProposeCalls \/ StartBatch \/ RunBatch \/ FinishBatch
  PROVE  RunInv'
<1>0. Len(made) \in Nat /\ receipt \in [Calls -> Receipts] /\ runs \in [Calls -> Nat] /\ Calls \subseteq Nat
  BY DEF TypeInv, JournalTypes, Calls
<1>1. CASE ProposeCalls
  <2>1. UNCHANGED <<step, receipt, runs>>
    BY <1>1 DEF ProposeCalls
  <2>2. Len(made') \in Nat /\ Len(made') >= Len(made) /\ \A n \in 1 .. Len(made) : made'[n] = made[n]
    BY <1>0, <1>1, Proposed
  <2>3. ASSUME NEW n \in Calls
        PROVE  /\ runs[n] <= 1
               /\ n > Len(made') => step[n] = "none" /\ receipt[n] = "none" /\ runs[n] = 0
               /\ n <= Len(made') /\ made'[n].kind # "cell" =>
                    /\ receipt[n] \in {"none", "pending"} => runs[n] = 0
                    /\ receipt[n] = "intent" /\ made'[n].kind \in Repeatable => runs[n] = 0
    <3>1. CASE n <= Len(made)
      <4>1. n \in 1 .. Len(made) /\ ~(n > Len(made'))
        BY <1>0, <2>2, <3>1 DEF Calls
      <4> QED
        BY <2>2, <3>1, <4>1 DEF RunInv
    <3>2. CASE n > Len(made)
      BY <3>2 DEF RunInv, Untouched
    <3> QED
      BY <1>0, <3>1, <3>2
  <2> QED
    BY <2>1, <2>3 DEF RunInv, Untouched
<1>2. CASE FinishBatch /\ ~StepAccepted
  BY <1>2, SameRuns DEF FinishBatch
<1>3. CASE StartBatch \/ RunBatch \/ (FinishBatch /\ StepAccepted)
  <2>1. todo # <<>> /\ 1 \in 1 .. Len(todo)
    <3>1. pc \in {"running", "ran"} \/ todo # <<>>
      BY <1>3 DEF StartBatch, RunBatch, FinishBatch
    <3>2. todo # <<>> /\ todo \in Seq(SUBSET sess.calls)
      BY <3>1 DEF AttemptInv, TypeInv, LocalTypes
    <3> QED
      BY <3>2
  <2>2. todo[1] \subseteq Calls /\ \A n \in todo[1] : n <= Len(made)
    BY <2>1 DEF TypeInv, LocalTypes, Sound, SessRec
  <2>3. CASE RunBatch
    <3>1. PICK o \in [todo[1] -> Receipts] :
             /\ receipt' = [n \in Calls |-> IF n \in todo[1] THEN o[n] ELSE receipt[n]]
             /\ runs' = [n \in Calls |-> IF n \in todo[1] /\ Acted(n, o[n]) THEN runs[n] + 1 ELSE runs[n]]
      BY <2>3 DEF RunBatch
    <3>2. UNCHANGED <<made, step>> /\ pc = "running"
      BY <2>3 DEF RunBatch
    <3>3. \A n \in todo[1] : runs[n] = 0
      BY <2>1, <3>2 DEF TodoInv, Waits, Untouched
    <3>4. ASSUME NEW n \in todo[1]
          PROVE  /\ runs'[n] <= 1
                 /\ made[n].kind # "cell" =>
                      /\ receipt'[n] \in {"none", "pending"} => runs'[n] = 0
                      /\ receipt'[n] = "intent" /\ made[n].kind \in Repeatable => runs'[n] = 0
      BY <2>2, <3>1, <3>3 DEF Acted, Repeatable
    <3>5. \A n \in Calls : n \notin todo[1] => receipt'[n] = receipt[n] /\ runs'[n] = runs[n]
      BY <3>1
    <3> QED
      BY <1>0, <2>2, <3>2, <3>4, <3>5 DEF RunInv, Untouched
  <2>4. CASE ~RunBatch
    <3>1. UNCHANGED <<made, receipt, runs>> /\ \A n \in Calls : n \notin todo[1] => step'[n] = step[n]
      BY <1>3, <2>4 DEF StartBatch, FinishBatch
    <3> QED
      BY <1>0, <2>2, <3>1 DEF RunInv, Untouched
  <2> QED
    BY <2>3, <2>4
<1> QED
  BY <1>1, <1>2, <1>3

LEMMA RunStep == TypeInv /\ AttemptInv /\ TodoInv /\ RunInv /\ [Next]_vars => RunInv'
  BY QuietRuns, RestoreRuns, CallRuns DEF Next, AttemptStep

-----------------------------------------------------------------------------
(* Parked runs *)

(* Nothing the parked run waits for changes while no attempt runs.         *)
LEMMA SameParked ==
  ASSUME ParkedCanWake, UNCHANGED <<work, row, made, receipt>>
  PROVE  ParkedCanWake'
  BY DEF ParkedCanWake, Mine

LEMMA NotParked ==
  ASSUME work'.status # "waiting"
  PROVE  ParkedCanWake'
  BY DEF ParkedCanWake

LEMMA ParkedOutside ==
  ASSUME TypeInv, AttemptInv, ParkedCanWake,
         Claim \/ Revise \/ RequestStop \/ Decide \/ ResumeDecided \/ LeaseExpires \/ UNCHANGED vars
  PROVE  ParkedCanWake'
<1>1. CASE Decide \/ UNCHANGED vars
  BY <1>1, SameParked DEF Decide, vars, durable
<1>2. CASE Claim \/ Revise \/ RequestStop \/ ResumeDecided \/ LeaseExpires
  <2>1. work'.status = "waiting" => FALSE
    BY <1>2 DEF Claim, Revise, RequestStop, ResumeDecided, LeaseExpires, TypeInv, WorkRec
  <2> QED
    BY <2>1, NotParked
<1> QED
  BY <1>1, <1>2

LEMMA ParkedInside ==
  ASSUME TypeInv, AttemptInv, TodoInv, ParkedCanWake, AttemptStep \/ ModelFails \/ Drained
  PROVE  ParkedCanWake'
<1>0. pc # "idle" /\ work.status = "leased" /\ work \in WorkRec
  BY DEF AttemptStep, ModelFails, Drained, Preempted, Cancelled, Running, ExecuteDecidedApproval, RecoverWait,
         LoadContext, RestoreCall, OpenSession, Hop, SaveCheckpoint, DropAnswer, ProposeCalls, ProposeText, Review,
         SkipCalls, StartBatch, RunBatch, CallThrew, FinishBatch, Park, EndCalls, Conclude, Commit, AttemptInv,
         TypeInv
<1>1. CASE RecoverWait
  <2>1. PICK n \in WaitsOn : /\ row' = [row EXCEPT !.outs = @ \cup {n}]
                             /\ work' = IF work.cancel THEN work ELSE [work EXCEPT !.status = "waiting", !.on = n]
    BY <1>1 DEF RecoverWait
  <2>2. Mine(n) /\ made[n].version = work.version /\ receipt[n] \in {"pending", "defer"}
    BY DEF WaitsOn
  <2>3. CASE work.cancel
    BY <1>0, <2>1, <2>3, NotParked
  <2>4. CASE ~work.cancel
    <3>1. work'.on = n /\ work'.version = work.version
      BY <1>0, <2>1, <2>4 DEF WorkRec
    <3>2. n \in row'.outs
      BY <2>1 DEF TypeInv, Sound, SessRec
    <3> QED
      BY <1>1, <2>2, <3>1, <3>2 DEF RecoverWait, ParkedCanWake, Mine
  <2> QED
    BY <2>3, <2>4
<1>2. CASE Park
  <2>1. CASE work.cancel \/ Steered
    BY <1>0, <1>2, <2>1, ThrowTypes, NotParked DEF Park
  <2>2. CASE ~(work.cancel \/ Steered)
    <3> DEFINE n == Max(Parks(todo[1]))
    <3>1. row' = sess /\ work' = [work EXCEPT !.status = "waiting", !.on = n] /\ pc = "park"
      BY <1>2, <2>2 DEF Park
    <3>2. todo # <<>> /\ 1 \in 1 .. Len(todo)
      BY <3>1 DEF AttemptInv, TypeInv, LocalTypes
    <3>3. todo[1] \subseteq 0 .. MaxCalls
      BY <3>2, Bounds DEF TypeInv, LocalTypes, Sound, SessRec, Calls
    <3>4. n \in Parks(todo[1])
      BY <3>1, <3>3, MaxMember, Bounds DEF TodoInv, Parks
    <3> HIDE DEF n
    <3>5. n \in todo[1] /\ receipt[n] \in {"pending", "defer"}
      BY <3>4 DEF Parks
    <3>6. Mine(n) /\ made[n].version = sess.version /\ n \in sess.outs
      BY <3>1, <3>2, <3>5 DEF TodoInv
    <3>7. sess.version = work.version
      BY <1>0, <2>2 DEF AttemptInv, Steered, WorkRec, TypeInv, LocalTypes, Sound, SessRec
    <3>8. work'.on = n /\ work'.version = work.version
      BY <1>0, <3>1 DEF WorkRec
    <3> QED
      BY <1>2, <3>1, <3>5, <3>6, <3>7, <3>8 DEF Park, ParkedCanWake, Mine
  <2> QED
    BY <2>1, <2>2
<1>3. CASE ~RecoverWait /\ ~Park
  <2>1. CASE work' = work
    BY <1>0, <2>1, NotParked
  <2>2. CASE Throw
    BY <1>0, <2>2, ThrowTypes, NotParked
  <2>3. CASE Preempted \/ Cancelled
    BY <1>0, <2>3 DEF Preempted, Cancelled, FinishWithError, Requeued, ParkedCanWake, WorkRec
  <2>4. CASE Conclude \/ Commit
    BY <1>0, <2>1, <2>2, <2>4 DEF Conclude, Commit, ParkedCanWake, WorkRec
  <2>5. CASE ~(Preempted \/ Cancelled \/ Conclude \/ Commit)
    <3>1. work' = work \/ Throw
      BY <1>3, <2>5 DEF AttemptStep, ModelFails, Drained, ExecuteDecidedApproval,
         LoadContext, RestoreCall, OpenSession, Hop, SaveCheckpoint, DropAnswer, ProposeCalls, ProposeText, Review,
         SkipCalls, StartBatch, RunBatch, CallThrew, FinishBatch, EndCalls
    <3> QED
      BY <2>1, <2>2, <3>1
  <2> QED
    BY <2>3, <2>4, <2>5
<1> QED
  BY <1>1, <1>2, <1>3

LEMMA ParkedStep == TypeInv /\ AttemptInv /\ TodoInv /\ ParkedCanWake /\ [Next]_vars => ParkedCanWake'
  BY ParkedOutside, ParkedInside DEF Next

-----------------------------------------------------------------------------
(* The turn loop *)

LEMMA TurnInit == Init => TurnInv
<1> SUFFICES ASSUME Init PROVE TurnInv
  OBVIOUS
<1>1. TypeInv
  BY TypeInit
<1>2. pc = "idle" /\ todo = <<>> /\ sess = NoSession /\ good = NoText /\ work.status = "queued"
      /\ work.version = 1 /\ row.version = 1 /\ cand.for = cand.stamp /\ result.for = result.stamp
  BY DEF Init, NoText, NoSession
<1>3. AttemptInv /\ TextInv /\ PairInv /\ ParkedCanWake
  BY <1>2 DEF AttemptInv, TextInv, PairInv, ParkedCanWake, NoSession, Loop, Acting
<1>4. TodoInv
  BY <1>2 DEF TodoInv
<1>5. RunInv
  BY DEF Init, RunInv, Untouched
<1> QED
  BY <1>1, <1>3, <1>4, <1>5 DEF TurnInv

LEMMA TurnStep == TurnInv /\ [Next]_vars => TurnInv'
  BY TypeStep, AttemptHolds, TextStep, PairStep, RunStep, ParkedStep DEF TurnInv

LEMMA TurnInvHolds == Spec => []TurnInv
  BY TurnInit, TurnStep, PTL DEF Spec

(* Type correctness: histories name calls that were made and outputs of    *)
(* their own calls, nothing is journalled before its call is made, the     *)
(* correction budget stays within its caps, and an attempt that is over    *)
(* leaves nothing behind.                                                  *)
THEOREM TurnTypeCorrect == Spec => []TypeOK
<1>1. ASSUME TurnInv PROVE TypeOK
  <2>1. /\ work.fence \in 0 .. MaxFence /\ work.version \in 1 .. MaxVersion
        /\ work.status \in {"queued", "leased", "waiting", "done", "failed", "cancelled"}
    BY <1>1 DEF TurnInv, TypeInv, WorkRec
  <2>2. /\ row.outs \subseteq row.calls /\ row.calls \subseteq 1 .. Len(made) /\ row.owner \in {Earlier, This}
        /\ sess.outs \subseteq sess.calls /\ sess.calls \subseteq 1 .. Len(made)
    BY <1>1 DEF TurnInv, TypeInv, LocalTypes, Sound, SessRec
  <2>3. \A n \in Calls : /\ step[n] \in Steps /\ receipt[n] \in Receipts
                         /\ n > Len(made) => step[n] = "none" /\ receipt[n] = "none" /\ runs[n] = 0
    BY <1>1 DEF TurnInv, TypeInv, JournalTypes, RunInv, Untouched
  <2>4. budget.count \in 0 .. ContinueLimit + 3 /\ budget.repairs \in 0 .. RepairLimit + 1
    BY <1>1 DEF TurnInv, TypeInv, LocalTypes, BudgetRec
  <2>5. pc = "idle" => sess = NoSession /\ todo = <<>>
    BY <1>1 DEF TurnInv, AttemptInv, Acting
  <2> QED
    BY <2>1, <2>2, <2>3, <2>4, <2>5 DEF TypeOK
<1> QED
  BY <1>1, TurnInvHolds, PTL

(* A committed result was written for the request version it is stamped    *)
(* with: a candidate is journalled and retained under the version of the   *)
(* session, applySteering drops it before it moves that version, and a     *)
(* restored attempt takes a journalled candidate only at its own version.  *)
THEOREM AnswersCurrent == Spec => []AnswerIsCurrent
<1>1. TurnInv => AnswerIsCurrent
  BY DEF TurnInv, TextInv, AnswerIsCurrent
<1> QED
  BY <1>1, TurnInvHolds, PTL

(* The model never sees a call without its output, wherever revisions,     *)
(* crashes and restarts cut the execution of the calls.                    *)
THEOREM PairsComplete == Spec => []ModelSeesPairs
<1>1. TurnInv => ModelSeesPairs
  BY DEF TurnInv, PairInv, Loop, ModelSeesPairs
<1> QED
  BY <1>1, TurnInvHolds, PTL

(* No effect happens twice, whichever of the batch, the recovery of an     *)
(* interrupted call and the execution of a decided approval runs it.       *)
THEOREM EffectsHappenOnce == Spec => []EffectOnce
<1>1. TurnInv => EffectOnce
  BY DEF TurnInv, RunInv, EffectOnce
<1> QED
  BY <1>1, TurnInvHolds, PTL

(* A parked run waits on a question or an approval of its current version  *)
(* whose call is closed in the saved history, so an answer or a decision   *)
(* finds it.                                                               *)
THEOREM ParkedRunsCanWake == Spec => []ParkedCanWake
<1>1. TurnInv => ParkedCanWake
  BY DEF TurnInv
<1> QED
  BY <1>1, TurnInvHolds, PTL

-----------------------------------------------------------------------------
(* Compaction *)

(* Items other than summaries, those that a summary may cover.             *)
BaseItem == {Item(k, n, {}) : k \in {"text", "call", "output"}, n \in 1..MaxItems}
HistoryItem == BaseItem \cup {Summary(S) : S \in SUBSET BaseItem}

(* A history in which no item occurs twice, an output follows its call and *)
(* a summary of s may come first.                                          *)
WellFormed(h, s) ==
  /\ h \in Seq(HistoryItem)
  /\ \A i, j \in DOMAIN h : h[i] = h[j] => i = j
  /\ \A i \in DOMAIN h : IsA(h, i, "summary") => i = 1 /\ h[i] = Summary(s)
  /\ \A j \in DOMAIN h : IsA(h, j, "output") => \E i \in CallOf(h, j) : i < j

(* A prefix that holds no open call and divides no pair, and the history   *)
(* with a summary of S in its place.                                       *)
FoldsAt(h, b) == Crossing(h, b) = {} /\ \A i \in Open(h) : i > b
FoldedAt(h, b, S) == <<Summary(S)>> \o Suffix(h, b)

(* new is h with such a prefix folded into a summary that covers it.       *)
FoldOf(h, new, S) ==
  \E b \in 1..Len(h) :
    FoldsAt(h, b) /\ Covered(SubSeq(h, 1, b)) \subseteq S /\ new = FoldedAt(h, b, S)
IsFolded(h, new) == \E S \in SUBSET BaseItem : FoldOf(h, new, S)

CandidateType == [phase : {"none", "running", "ready", "failed"}, hist : Seq(HistoryItem),
               summary : SUBSET BaseItem, epoch : Nat, request : 0..MaxRevisions,
               result : Seq(HistoryItem), covers : SUBSET BaseItem]

CandidateInv(c) ==
  /\ c.phase # "none" => WellFormed(c.hist, c.summary)
  /\ c.phase = "ready" => FoldOf(c.hist, c.result, c.covers)

CompactionTypes == CompactionTypeOK /\ summary \in SUBSET BaseItem /\ pending \in CandidateType

HistInv ==
  /\ WellFormed(hist, summary)
  /\ \A i \in DOMAIN hist : hist[i].id <= items
  /\ \A n \in 1..items : Covered(hist) \cap {Text(n), Call(n)} # {}
  /\ phase = "hop" => Open(hist) = {}

CompactionInv == CompactionTypes /\ HistInv /\ CandidateInv(pending)

LEMMA ItemFacts ==
  /\ \A x \in HistoryItem :
       /\ x \in BaseItem \/ \E S \in SUBSET BaseItem : x = Summary(S)
       /\ x.kind # "summary" <=> x \in BaseItem
       /\ x.kind = "call" => x = Call(x.id)
       /\ x.kind = "output" => x = Output(x.id)
       /\ x.id \in 0..MaxItems
       /\ x.covers \in SUBSET BaseItem
  /\ \A n : Text(n).kind = "text" /\ Text(n).id = n
  /\ \A n : Call(n).kind = "call" /\ Call(n).id = n
  /\ \A n : Output(n).kind = "output" /\ Output(n).id = n
  /\ \A S : Summary(S).kind = "summary" /\ Summary(S).covers = S /\ Summary(S).id = 0
  /\ \A n \in 1..MaxItems : {Text(n), Call(n), Output(n)} \subseteq BaseItem
  /\ \A S \in SUBSET BaseItem : Summary(S) \in HistoryItem
  /\ BaseItem \subseteq HistoryItem
<1>1. ASSUME NEW x \in BaseItem
      PROVE  /\ x.kind \in {"text", "call", "output"} /\ x.id \in 1..MaxItems /\ x.covers = {}
             /\ x.kind = "call" => x = Call(x.id)
             /\ x.kind = "output" => x = Output(x.id)
  BY DEF BaseItem, Item, Call, Output
<1>2. ASSUME NEW S PROVE Summary(S).kind = "summary" /\ Summary(S).covers = S /\ Summary(S).id = 0
  BY DEF Summary, Item
<1>3. \A n \in 1..MaxItems : {Text(n), Call(n), Output(n)} \subseteq BaseItem
  BY DEF BaseItem, Text, Call, Output
<1>4. /\ \A n : Text(n).kind = "text" /\ Text(n).id = n
      /\ \A n : Call(n).kind = "call" /\ Call(n).id = n
      /\ \A n : Output(n).kind = "output" /\ Output(n).id = n
  BY DEF Text, Call, Output, Item
<1>5. ASSUME NEW x \in HistoryItem
      PROVE  /\ x \in BaseItem \/ \E S \in SUBSET BaseItem : x = Summary(S)
             /\ x.kind # "summary" <=> x \in BaseItem
             /\ x.kind = "call" => x = Call(x.id)
             /\ x.kind = "output" => x = Output(x.id)
             /\ x.id \in 0..MaxItems
             /\ x.covers \in SUBSET BaseItem
  <2>1. x \in BaseItem \/ \E S \in SUBSET BaseItem : x = Summary(S)
    BY DEF HistoryItem
  <2>2. CASE x \in BaseItem
    BY <1>1, <2>2
  <2>3. ASSUME NEW S \in SUBSET BaseItem, x = Summary(S)
        PROVE x.kind = "summary" /\ x.covers \in SUBSET BaseItem /\ x.id = 0 /\ x \notin BaseItem
    BY <1>1, <1>2, <2>3
  <2>4. 0 \in 0..MaxItems
    BY CompactionAssumption
  <2> QED
    BY <2>1, <2>2, <2>3, <2>4
<1>6. (\A S \in SUBSET BaseItem : Summary(S) \in HistoryItem) /\ BaseItem \subseteq HistoryItem
  BY DEF HistoryItem
<1> QED
  BY <1>2, <1>3, <1>4, <1>5, <1>6

(* Boundaries at or before b that divide no pair.                          *)
Whole(h, b) == {c \in 0..b : Crossing(h, c) = {}}

(* Nothing is divided by the empty prefix; and where a pair is divided, no *)
(* boundary between its call and b divides none.                           *)
LEMMA WholeFacts ==
  ASSUME NEW h, DOMAIN h \subseteq Nat \ {0}, NEW b \in Nat
  PROVE  /\ Whole(h, b) \subseteq 0..b /\ 0 \in Whole(h, b)
         /\ Crossing(h, b) = {} => Max(Whole(h, b)) = b
         /\ Max(Whole(h, b)) \in Whole(h, b)
<1>1. Crossing(h, 0) = {}
  <2> SUFFICES ASSUME NEW j, NEW i \in CallOf(h, j), i <= 0 PROVE FALSE
    BY DEF Crossing
  <2> QED
    BY DEF CallOf
<1>2. Whole(h, b) \subseteq 0..b /\ 0 \in Whole(h, b)
  BY <1>1 DEF Whole
<1>3. Max(Whole(h, b)) \in Whole(h, b) /\ \A c \in Whole(h, b) : Max(Whole(h, b)) >= c
  BY <1>2, MaxMember, Zenon
<1>4. ASSUME Crossing(h, b) = {} PROVE Max(Whole(h, b)) = b
  <2>1. b \in Whole(h, b)
    BY <1>4 DEF Whole
  <2>2. Max(Whole(h, b)) >= b /\ Max(Whole(h, b)) \in 0..b
    BY <1>2, <1>3, <2>1
  <2> QED
    BY <2>2
<1> QED
  BY <1>2, <1>3, <1>4

LEMMA ScanStep ==
  ASSUME NEW h, DOMAIN h = 1..Len(h), Len(h) \in Nat, NEW b \in 0..Len(h), Crossing(h, b) # {},
         NEW c, c = Min(CallOf(h, Min(Crossing(h, b)))) - 1
  PROVE  c \in 0..Len(h) /\ c < b /\ Whole(h, b) = Whole(h, c)
<1> DEFINE j == Min(Crossing(h, b))
           i == Min(CallOf(h, j))
<1>1. Crossing(h, b) \subseteq Nat
  BY DEF Crossing
<1>2. j \in Crossing(h, b)
  BY <1>1, MinMember, Zenon
<1>3. j \in (b + 1)..Len(h) /\ IsA(h, j, "output") /\ \E k \in CallOf(h, j) : k <= b
  BY <1>2 DEF Crossing
<1>4. CallOf(h, j) \subseteq 1..Len(h) /\ CallOf(h, j) # {}
  BY <1>3 DEF CallOf
<1>5. i \in CallOf(h, j) /\ \A k \in CallOf(h, j) : i <= k
  <2>1. CallOf(h, j) \subseteq Nat
    BY <1>4
  <2> QED
    BY <1>4, <2>1, MinMember, Zenon
<1>6. i \in 1..Len(h) /\ i <= b
  BY <1>3, <1>4, <1>5
<1>7. c = i - 1
  BY Zenon
<1>8. c \in 0..Len(h) /\ c < b
  BY <1>6, <1>7
<1>9. ASSUME NEW d \in 0..b, Crossing(h, d) = {} PROVE d <= c
  <2>1. j \in (d + 1)..Len(h)
    BY <1>3
  <2>2. ~(i <= d)
    BY <1>3, <1>5, <1>9, <2>1 DEF Crossing
  <2> QED
    BY <1>6, <1>7, <2>2
<1> HIDE DEF i, j
<1>10. Whole(h, b) = Whole(h, c)
  BY <1>8, <1>9 DEF Whole
<1> QED
  BY <1>8, <1>10

(* The scan ends with the best boundary at or before its start.            *)
Scan(h, close) ==
  close = [b \in 0..Len(h) |->
             IF Crossing(h, b) = {} THEN b ELSE close[Min(CallOf(h, Min(Crossing(h, b)))) - 1]]

LEMMA ScanEnds ==
  ASSUME NEW h, DOMAIN h = 1..Len(h), Len(h) \in Nat, NEW close, Scan(h, close), NEW b \in 0..Len(h)
  PROVE  close[b] = Max(Whole(h, b))
<1>0. DOMAIN h \subseteq Nat \ {0}
  OBVIOUS
<1> DEFINE Wrong == {c \in 0..Len(h) : close[c] # Max(Whole(h, c))}
<1> SUFFICES ASSUME Wrong # {} PROVE FALSE
  OBVIOUS
<1>1. Wrong \subseteq Nat
  OBVIOUS
<1>2. PICK c \in Wrong : \A d \in Wrong : c <= d
  BY <1>1, MinMember, Zenon
<1>3. c \in 0..Len(h) /\ close[c] # Max(Whole(h, c))
  OBVIOUS
<1>4. close[c] = IF Crossing(h, c) = {} THEN c ELSE close[Min(CallOf(h, Min(Crossing(h, c)))) - 1]
  BY <1>3 DEF Scan
<1>5. CASE Crossing(h, c) = {}
  BY <1>0, <1>3, <1>4, <1>5, WholeFacts
<1>6. CASE Crossing(h, c) # {}
  <2> DEFINE d == Min(CallOf(h, Min(Crossing(h, c)))) - 1
  <2>1. d \in 0..Len(h) /\ d < c /\ Whole(h, c) = Whole(h, d)
    BY <1>3, <1>6, ScanStep, Zenon
  <2>2. close[c] = close[d]
    BY <1>4, <1>6
  <2> HIDE DEF d
  <2>3. d \notin Wrong
    BY <1>2, <1>3, <2>1
  <2>4. close[d] = Max(Whole(h, d))
    BY <2>1, <2>3
  <2> QED
    BY <1>3, <2>1, <2>2, <2>4, Zenon
<1> QED
  BY <1>5, <1>6

LEMMA ScanExists ==
  ASSUME NEW h, DOMAIN h = 1..Len(h), Len(h) \in Nat
  PROVE  \E close : Scan(h, close)
<1>0. DOMAIN h \subseteq Nat \ {0}
  OBVIOUS
<1> DEFINE best == [b \in 0..Len(h) |-> Max(Whole(h, b))]
           next(b) == Min(CallOf(h, Min(Crossing(h, b)))) - 1
<1>1. ASSUME NEW b \in 0..Len(h)
      PROVE  Max(Whole(h, b)) = IF Crossing(h, b) = {} THEN b ELSE best[next(b)]
  <2>1. CASE Crossing(h, b) = {}
    BY <1>0, <2>1, WholeFacts
  <2>2. CASE Crossing(h, b) # {}
    <3>1. next(b) \in 0..Len(h) /\ Whole(h, b) = Whole(h, next(b))
      BY <2>2, ScanStep, Zenon
    <3> HIDE DEF next
    <3> QED
      BY <2>2, <3>1
  <2> QED
    BY <2>1, <2>2
<1> HIDE DEF next
<1>2. best = [b \in 0..Len(h) |-> IF Crossing(h, b) = {} THEN b ELSE best[next(b)]]
  BY <1>1
<1>3. Scan(h, best)
  BY <1>2, Zenon DEF Scan, next
<1> QED
  BY <1>3

LEMMA ClosedIs ==
  ASSUME NEW h, DOMAIN h = 1..Len(h), Len(h) \in Nat, NEW b \in 0..Len(h)
  PROVE  Closed(h, b) = Max(Whole(h, b))
<1> DEFINE close == CHOOSE f : Scan(h, f)
<1>1. Scan(h, close)
  BY ScanExists, Zenon
<1>2. Closed(h, b) = close[b]
  BY Zenon DEF Closed, Scan
<1> QED
  BY <1>1, <1>2, ScanEnds, Zenon

LEMMA BoundaryIs ==
  ASSUME NEW h, DOMAIN h = 1..Len(h), Len(h) \in Nat, NEW k \in 0..Len(h)
  PROVE  /\ Boundary(h, k) = Reference(h, k)
         /\ Boundary(h, k) \in 0..Len(h) /\ FoldsAt(h, Boundary(h, k))
<1> DEFINE start == Len(h) - k
           open == {i \in Open(h) : i <= start}
           from == IF open = {} THEN start ELSE Min(open) - 1
           best == {b \in 0..start : Crossing(h, b) = {} /\ \A i \in Open(h) : i > b}
<1>0. start \in 0..Len(h) /\ DOMAIN h \subseteq Nat \ {0} /\ Open(h) \subseteq 1..Len(h)
  BY DEF Open
<1>1. open \subseteq Nat
  BY <1>0
<1>2. open # {} => Min(open) \in open /\ \A i \in open : Min(open) <= i
  BY <1>1, MinMember, Zenon
<1>3. from \in 0..Len(h) /\ from <= start
  BY <1>0, <1>2
<1>4. \A b \in 0..start : b <= from <=> \A i \in Open(h) : i > b
  <2> TAKE b \in 0..start
  <2>1. CASE open = {}
    <3>1. \A i \in Open(h) : i > start
      BY <1>0, <2>1
    <3> QED
      BY <1>0, <2>1, <3>1
  <2>2. CASE open # {}
    <3>1. Min(open) \in Open(h) /\ Min(open) \in 1..Len(h) /\ from = Min(open) - 1
      BY <1>0, <1>2, <2>2
    <3>2. ASSUME b <= from, NEW i \in Open(h) PROVE i > b
      <4>1. CASE i \in open
        <5>1. Min(open) <= i
          BY <1>2, <2>2, <4>1, Zenon
        <5> QED
          BY <1>0, <3>1, <3>2, <5>1
      <4>2. CASE i \notin open
        BY <1>0, <4>2
      <4> QED
        BY <4>1, <4>2
    <3>3. ASSUME \A i \in Open(h) : i > b PROVE b <= from
      BY <3>1, <3>3
    <3> QED
      BY <3>2, <3>3
  <2> QED
    BY <2>1, <2>2
<1>5. \A b : b \in 0..from <=> b \in 0..start /\ \A i \in Open(h) : i > b
  BY <1>0, <1>3, <1>4
<1>6. Whole(h, from) = best
  BY <1>5 DEF Whole
<1>7. Boundary(h, k) = Closed(h, from)
  BY Zenon DEF Boundary
<1>8. Reference(h, k) = Max(best)
  BY Zenon DEF Reference
<1>9. from \in Nat
  BY <1>3
<1> HIDE DEF from
<1>10. Boundary(h, k) = Max(Whole(h, from))
  BY <1>3, <1>7, ClosedIs, Zenon
<1>11. Max(Whole(h, from)) \in Whole(h, from)
  BY <1>0, <1>9, WholeFacts, Zenon
<1>12. Boundary(h, k) \in best
  BY <1>6, <1>10, <1>11, Zenon
<1>13. Boundary(h, k) \in 0..start /\ FoldsAt(h, Boundary(h, k))
  BY <1>12 DEF FoldsAt
<1> QED
  BY <1>0, <1>6, <1>8, <1>10, <1>13

LEMMA KeptIs ==
  ASSUME NEW h, Len(h) \in Nat, NEW background
  PROVE  Kept(h, background) \in 0..Len(h)
<1> DEFINE most == Min({Len(h), KeepTail})
           enough(k) == \/ background \/ Weight(h) < HardLimit \/ k = 0
                        \/ Weight(Suffix(h, Boundary(h, k))) + SummarySize <= HardLimit
           tried == {k \in 0..most : k = 0 \/ \E i \in 0..most : k = most \div (2^i)}
           fit == {k \in tried : enough(k)}
<1>1. most \in {Len(h), KeepTail} /\ most <= Len(h)
  <2>1. {Len(h), KeepTail} \subseteq Nat
    BY CompactionAssumption
  <2> QED
    BY <2>1, MinMember, Zenon
<1>2. most \in Nat
  BY <1>1, CompactionAssumption
<1> HIDE DEF most
<1>3. fit \subseteq 0..most
  OBVIOUS
<1>4. 0 \in fit
  BY <1>2
<1>5. Max(fit) \in fit
  BY <1>2, <1>3, <1>4, MaxMember, Zenon
<1>6. Kept(h, background) = Max(fit)
  BY Zenon DEF Kept, most
<1> HIDE DEF fit
<1>7. Kept(h, background) \in 0..most
  BY <1>3, <1>5, <1>6
<1> QED
  BY <1>1, <1>2, <1>7

LEMMA SuffixIs ==
  ASSUME NEW h \in Seq(HistoryItem), NEW b \in 0..Len(h)
  PROVE  /\ Suffix(h, b) \in Seq(HistoryItem) /\ Len(Suffix(h, b)) = Len(h) - b
         /\ \A k \in 1..(Len(h) - b) : Suffix(h, b)[k] = h[k + b]
<1>1. \A i \in (b + 1)..Len(h) : h[i] \in HistoryItem
  BY LenProperties
<1>2. Len(h) \in Nat /\ b + 1 \in Int /\ Len(h) \in Int
  BY LenProperties
<1>3. /\ SubSeq(h, b + 1, Len(h)) \in Seq(HistoryItem)
      /\ Len(SubSeq(h, b + 1, Len(h))) = IF b + 1 <= Len(h) THEN Len(h) - (b + 1) + 1 ELSE 0
      /\ \A i \in 1..Len(h) - (b + 1) + 1 : SubSeq(h, b + 1, Len(h))[i] = h[b + 1 + i - 1]
  BY <1>1, <1>2, SubSeqProperties
<1> QED
  BY <1>2, <1>3 DEF Suffix

LEMMA PrefixIs ==
  ASSUME NEW h \in Seq(HistoryItem), NEW b \in 0..Len(h)
  PROVE  /\ SubSeq(h, 1, b) \in Seq(HistoryItem) /\ Len(SubSeq(h, 1, b)) = b
         /\ \A k \in 1..b : SubSeq(h, 1, b)[k] = h[k]
<1>1. \A i \in 1..b : h[i] \in HistoryItem
  BY LenProperties
<1>2. 1 \in Int /\ b \in Int
  OBVIOUS
<1>3. /\ SubSeq(h, 1, b) \in Seq(HistoryItem)
      /\ Len(SubSeq(h, 1, b)) = IF 1 <= b THEN b - 1 + 1 ELSE 0
      /\ \A i \in 1..b - 1 + 1 : SubSeq(h, 1, b)[i] = h[1 + i - 1]
  BY <1>1, <1>2, SubSeqProperties
<1> QED
  BY <1>3

LEMMA FoldedAtIs ==
  ASSUME NEW h \in Seq(HistoryItem), NEW b \in 0..Len(h), NEW S \in SUBSET BaseItem
  PROVE  /\ FoldedAt(h, b, S) \in Seq(HistoryItem)
         /\ Len(FoldedAt(h, b, S)) = Len(h) - b + 1
         /\ FoldedAt(h, b, S)[1] = Summary(S) /\ Head(FoldedAt(h, b, S)) = Summary(S)
         /\ \A k \in 2..(Len(h) - b + 1) : FoldedAt(h, b, S)[k] = h[k + b - 1]
<1>1. <<Summary(S)>> \in Seq(HistoryItem) /\ Len(<<Summary(S)>>) = 1 /\ <<Summary(S)>>[1] = Summary(S)
  BY ItemFacts
<1>2. /\ FoldedAt(h, b, S) \in Seq(HistoryItem)
      /\ Len(FoldedAt(h, b, S)) = 1 + Len(Suffix(h, b))
      /\ \A i \in 1..1 + Len(Suffix(h, b)) :
           FoldedAt(h, b, S)[i] = IF i <= 1 THEN <<Summary(S)>>[i] ELSE Suffix(h, b)[i - 1]
  <2>1. Suffix(h, b) \in Seq(HistoryItem)
    BY SuffixIs
  <2> QED
    BY <1>1, <2>1, ConcatProperties DEF FoldedAt
<1>3. Len(h) \in Nat
  BY LenProperties
<1>4. Len(FoldedAt(h, b, S)) = Len(h) - b + 1 /\ FoldedAt(h, b, S)[1] = Summary(S)
  BY <1>1, <1>2, <1>3, SuffixIs
<1>5. ASSUME NEW k \in 2..(Len(h) - b + 1) PROVE FoldedAt(h, b, S)[k] = h[k + b - 1]
  <2>1. FoldedAt(h, b, S)[k] = Suffix(h, b)[k - 1]
    BY <1>2, <1>3, <1>5, SuffixIs
  <2>2. k - 1 \in 1..(Len(h) - b) /\ (k - 1) + b = k + b - 1
    BY <1>3, <1>5
  <2>3. Suffix(h, b)[k - 1] = h[(k - 1) + b]
    BY <2>2, SuffixIs
  <2> QED
    BY <2>1, <2>2, <2>3
<1>6. Head(FoldedAt(h, b, S)) = FoldedAt(h, b, S)[1]
  BY <1>2, <1>3, <1>4
<1> QED
  BY <1>2, <1>4, <1>5, <1>6

LEMMA CoveredFacts ==
  /\ \A h \in Seq(HistoryItem) : Covered(h) \in SUBSET BaseItem
  /\ \A g, h : (\A i \in DOMAIN h : \E j \in DOMAIN g : g[j] = h[i]) => Covered(h) \subseteq Covered(g)
<1>1. ASSUME NEW h \in Seq(HistoryItem) PROVE Covered(h) \in SUBSET BaseItem
  <2> SUFFICES ASSUME NEW i \in DOMAIN h
               PROVE  (IF IsA(h, i, "summary") THEN h[i].covers ELSE {h[i]}) \subseteq BaseItem
    BY DEF Covered
  <2>1. h[i] \in HistoryItem
    BY LenProperties
  <2> QED
    BY <2>1, ItemFacts DEF IsA
<1>2. ASSUME NEW g, NEW h, \A i \in DOMAIN h : \E j \in DOMAIN g : g[j] = h[i]
      PROVE  Covered(h) \subseteq Covered(g)
  BY <1>2 DEF Covered, IsA
<1> QED
  BY <1>1, <1>2

(* Where compaction folds at a boundary that is safe, the shorter history  *)
(* is well formed and remembers what the longer one did.                   *)
LEMMA FoldKeeps ==
  ASSUME NEW h, NEW s, WellFormed(h, s), NEW b \in 1..Len(h), FoldsAt(h, b),
         NEW S \in SUBSET BaseItem, Covered(SubSeq(h, 1, b)) \subseteq S
  PROVE  /\ WellFormed(FoldedAt(h, b, S), S)
         /\ Covered(h) \subseteq Covered(FoldedAt(h, b, S))
         /\ Open(h) = {} => Open(FoldedAt(h, b, S)) = {}
         /\ \A n \in Nat : (\A i \in DOMAIN h : h[i].id <= n)
                             => \A i \in DOMAIN FoldedAt(h, b, S) : FoldedAt(h, b, S)[i].id <= n
<1> DEFINE g == FoldedAt(h, b, S)
<1>1. h \in Seq(HistoryItem) /\ Len(h) \in Nat /\ DOMAIN h = 1..Len(h) /\ b \in 0..Len(h)
  BY LenProperties DEF WellFormed
<1>2. /\ g \in Seq(HistoryItem) /\ DOMAIN g = 1..(Len(h) - b + 1) /\ g[1] = Summary(S)
      /\ \A k \in 2..(Len(h) - b + 1) : g[k] = h[k + b - 1]
  BY <1>1, FoldedAtIs, LenProperties
<1> HIDE DEF g
<1>3. ASSUME NEW k \in DOMAIN g, k # 1
      PROVE  k + b - 1 \in DOMAIN h /\ k + b - 1 > b /\ g[k] = h[k + b - 1] /\ g[k].kind # "summary"
  <2>1. k \in 2..(Len(h) - b + 1)
    BY <1>1, <1>2, <1>3
  <2>2. k + b - 1 \in DOMAIN h /\ k + b - 1 > b /\ k + b - 1 # 1 /\ g[k] = h[k + b - 1]
    <3>1. g[k] = h[k + b - 1]
      BY <1>2, <2>1
    <3>2. k + b - 1 \in 1..Len(h) /\ k + b - 1 > b /\ k + b - 1 # 1
      BY <1>1, <2>1
    <3> QED
      BY <1>1, <3>1, <3>2
  <2>3. h[k + b - 1].kind # "summary"
    BY <2>2 DEF WellFormed, IsA
  <2> QED
    BY <2>2, <2>3
<1>4. ASSUME NEW m \in DOMAIN h, m > b PROVE m - b + 1 \in DOMAIN g /\ m - b + 1 # 1 /\ g[m - b + 1] = h[m]
  <2>1. m - b + 1 \in 2..(Len(h) - b + 1) /\ (m - b + 1) + b - 1 = m
    BY <1>1, <1>4
  <2>2. g[m - b + 1] = h[(m - b + 1) + b - 1]
    BY <1>2, <2>1
  <2>3. m - b + 1 \in 1..(Len(h) - b + 1) /\ m - b + 1 # 1
    BY <1>1, <2>1
  <2> QED
    BY <1>2, <2>1, <2>2, <2>3
<1>5. \A i, j \in DOMAIN g : g[i] = g[j] => i = j
  <2>1. g[1].kind = "summary"
    BY <1>2, ItemFacts
  <2>2. ASSUME NEW i \in DOMAIN g, NEW j \in DOMAIN g, g[i] = g[j], i # 1, j # 1 PROVE i = j
    <3>1. i + b - 1 = j + b - 1
      BY <1>3, <2>2 DEF WellFormed
    <3> QED
      BY <1>1, <1>2, <3>1
  <2> QED
    BY <1>3, <2>1, <2>2
<1>6. \A i \in DOMAIN g : IsA(g, i, "summary") => i = 1 /\ g[i] = Summary(S)
  BY <1>2, <1>3 DEF IsA
<1>7. ASSUME NEW j \in DOMAIN g, IsA(g, j, "output") PROVE \E i \in CallOf(g, j) : i < j
  <2>1. j # 1
    BY <1>2, <1>7, ItemFacts DEF IsA
  <2> DEFINE m == j + b - 1
  <2>2. m \in DOMAIN h /\ m > b /\ g[j] = h[m]
    BY <1>3, <2>1
  <2>3. PICK i \in CallOf(h, m) : i < m
    BY <1>7, <2>2 DEF WellFormed, IsA
  <2>4. i \in DOMAIN h /\ h[i] = Call(h[m].id)
    BY <2>3 DEF CallOf
  <2>5. i > b
    <3>1. m \in (b + 1)..Len(h) /\ IsA(h, m, "output")
      BY <1>1, <1>7, <2>2 DEF IsA
    <3>2. ~(i <= b)
      BY <2>3, <3>1 DEF FoldsAt, Crossing
    <3> QED
      BY <1>1, <2>4, <3>2
  <2>6. i - b + 1 \in DOMAIN g /\ g[i - b + 1] = h[i]
    BY <1>4, <2>4, <2>5
  <2>7. i - b + 1 < j
    BY <1>1, <1>2, <2>3, <2>4
  <2>8. g[i - b + 1] = Call(g[j].id)
    BY <2>2, <2>4, <2>6
  <2> QED
    BY <2>6, <2>7, <2>8 DEF CallOf
<1>8. WellFormed(g, S)
  BY <1>2, <1>5, <1>6, <1>7 DEF WellFormed
<1>9. Covered(h) \subseteq Covered(g)
  <2> SUFFICES ASSUME NEW x \in Covered(h) PROVE x \in Covered(g)
    OBVIOUS
  <2>1. PICK i \in DOMAIN h : x \in (IF IsA(h, i, "summary") THEN h[i].covers ELSE {h[i]})
    BY DEF Covered
  <2>2. CASE i > b
    BY <1>4, <2>1, <2>2 DEF Covered, IsA
  <2>3. CASE ~(i > b)
    <3>1. i \in 1..b /\ DOMAIN SubSeq(h, 1, b) = 1..b /\ SubSeq(h, 1, b)[i] = h[i]
      BY <1>1, <2>3, PrefixIs, LenProperties
    <3>2. x \in Covered(SubSeq(h, 1, b))
      BY <2>1, <3>1 DEF Covered, IsA
    <3>3. x \in S
      BY <3>2
    <3>4. 1 \in DOMAIN g /\ IsA(g, 1, "summary") /\ g[1].covers = S
      BY <1>1, <1>2, ItemFacts DEF IsA
    <3> QED
      BY <3>3, <3>4 DEF Covered
  <2> QED
    BY <2>2, <2>3
<1>10. ASSUME Open(h) = {}, NEW k \in Open(g) PROVE FALSE
  <2>1. k \in DOMAIN g /\ IsA(g, k, "call") /\ \A j \in DOMAIN g : g[j] # Output(g[k].id)
    BY <1>10 DEF Open
  <2>2. k # 1
    BY <1>2, <2>1, ItemFacts DEF IsA
  <2> DEFINE m == k + b - 1
  <2>3. m \in DOMAIN h /\ m > b /\ g[k] = h[m]
    BY <1>3, <2>1, <2>2
  <2>4. h[m] = Call(h[m].id)
    <3>1. h[m] \in HistoryItem
      BY <1>1, <2>3, LenProperties
    <3> QED
      BY <2>1, <2>3, <3>1, ItemFacts DEF IsA
  <2>5. PICK j \in DOMAIN h : h[j] = Output(h[m].id)
    BY <1>10, <2>1, <2>3 DEF Open, IsA
  <2>6. PICK i \in CallOf(h, j) : i < j
    BY <2>5, ItemFacts DEF WellFormed, IsA
  <2>7. i \in DOMAIN h /\ h[i] = Call(h[j].id)
    BY <2>6 DEF CallOf
  <2>8. h[j].id = h[m].id
    BY <2>5, ItemFacts
  <2>9. i = m
    BY <2>3, <2>4, <2>7, <2>8 DEF WellFormed
  <2>10. j > b
    BY <1>1, <2>3, <2>6, <2>9
  <2> QED
    BY <1>4, <2>1, <2>3, <2>5, <2>10
<1>11. ASSUME NEW n \in Nat, \A i \in DOMAIN h : h[i].id <= n, NEW i \in DOMAIN g PROVE g[i].id <= n
  <2>1. CASE i = 1
    BY <1>2, <2>1, ItemFacts
  <2>2. CASE i # 1
    BY <1>3, <1>11, <2>2
  <2> QED
    BY <2>1, <2>2
<1> QED
  BY <1>8, <1>9, <1>10, <1>11 DEF g

LEMMA CompactedIs ==
  ASSUME NEW h, NEW s \in SUBSET BaseItem, WellFormed(h, s), NEW background, NEW soft,
         Compacted(h, s, background, soft) # h
  PROVE  IsFolded(h, Compacted(h, s, background, soft))
<1> DEFINE b == Boundary(h, Kept(h, background))
           fold == Folded(h, s, b)
           S == Covered(fold)
<1>1. h \in Seq(HistoryItem) /\ Len(h) \in Nat /\ DOMAIN h = 1..Len(h)
  BY LenProperties DEF WellFormed
<1>2. Kept(h, background) \in 0..Len(h)
  BY <1>1, KeptIs
<1>3. b \in 0..Len(h) /\ FoldsAt(h, b)
  BY <1>1, <1>2, BoundaryIs, Zenon
<1>4. b # 0 /\ Compacted(h, s, background, soft) = FoldedAt(h, b, S)
  BY DEF Compacted, FoldedAt
<1> HIDE DEF b
<1>5. b \in 1..Len(h)
  BY <1>1, <1>3, <1>4
<1>6. SubSeq(h, 1, b) \in Seq(HistoryItem)
  BY <1>1, <1>3, PrefixIs
<1>7. /\ fold \in Seq(HistoryItem)
      /\ \A i \in DOMAIN SubSeq(h, 1, b) : \E j \in DOMAIN fold : fold[j] = SubSeq(h, 1, b)[i]
  <2> DEFINE p == SubSeq(h, 1, b)
             q == <<Summary(s)>> \o p
  <2>1. <<Summary(s)>> \in Seq(HistoryItem) /\ Len(<<Summary(s)>>) = 1
    BY ItemFacts
  <2>2. p \in Seq(HistoryItem)
    BY <1>6
  <2> HIDE DEF p
  <2>3. /\ q \in Seq(HistoryItem) /\ Len(q) = 1 + Len(p)
        /\ \A i \in 1..1 + Len(p) : q[i] = IF i <= 1 THEN <<Summary(s)>>[i] ELSE p[i - 1]
    BY <2>1, <2>2, ConcatProperties
  <2>4. Len(p) \in Nat /\ DOMAIN p = 1..Len(p) /\ DOMAIN q = 1..(1 + Len(p))
    BY <2>2, <2>3, LenProperties
  <2>5. ASSUME NEW i \in DOMAIN p PROVE i + 1 \in DOMAIN q /\ q[i + 1] = p[i]
    <3>1. i + 1 \in 1..1 + Len(p) /\ ~(i + 1 <= 1) /\ (i + 1) - 1 = i
      BY <2>4
    <3>2. q[i + 1] = p[(i + 1) - 1]
      BY <2>3, <3>1
    <3> QED
      BY <2>4, <3>1, <3>2
  <2>6. fold = p \/ fold = q
    BY DEF Folded, p
  <2> HIDE DEF fold, q
  <2>7. fold \in Seq(HistoryItem) /\ \A i \in DOMAIN p : \E j \in DOMAIN fold : fold[j] = p[i]
    BY <2>2, <2>3, <2>5, <2>6
  <2> QED
    BY <2>7 DEF p
<1> HIDE DEF fold
<1>8. S \in SUBSET BaseItem /\ Covered(SubSeq(h, 1, b)) \subseteq S
  BY <1>7, CoveredFacts
<1>9. FoldOf(h, Compacted(h, s, background, soft), S)
  BY <1>3, <1>4, <1>5, <1>8 DEF FoldOf
<1> QED
  BY <1>8, <1>9 DEF IsFolded

(* A boundary that was safe in a history stays safe while the history      *)
(* grows, so that a candidate may be installed after the appends.          *)
LEMMA GrownFolds ==
  ASSUME NEW h, NEW s, WellFormed(h, s), NEW c, NEW r, WellFormed(c, r),
         Len(c) <= Len(h), SubSeq(h, 1, Len(c)) = c,
         NEW b \in 1..Len(c), FoldsAt(c, b), NEW S \in SUBSET BaseItem
  PROVE  /\ b \in 1..Len(h) /\ FoldsAt(h, b) /\ SubSeq(h, 1, b) = SubSeq(c, 1, b)
         /\ FoldedAt(c, b, S) \o Suffix(h, Len(c)) = FoldedAt(h, b, S)
<1>1. /\ h \in Seq(HistoryItem) /\ Len(h) \in Nat /\ DOMAIN h = 1..Len(h)
      /\ c \in Seq(HistoryItem) /\ Len(c) \in Nat /\ DOMAIN c = 1..Len(c)
      /\ b \in 0..Len(h) /\ b \in 0..Len(c) /\ Len(c) \in 0..Len(h) /\ b \in 1..Len(h)
  BY LenProperties DEF WellFormed
<1>2. \A i \in DOMAIN c : i \in DOMAIN h /\ h[i] = c[i]
  <2>1. \A i \in 1..Len(c) : SubSeq(h, 1, Len(c))[i] = h[i]
    BY <1>1, PrefixIs
  <2> QED
    BY <1>1, <2>1
<1>3. ASSUME NEW j \in Crossing(h, b) PROVE FALSE
  <2>1. j \in (b + 1)..Len(h) /\ IsA(h, j, "output")
    BY DEF Crossing
  <2>2. PICK i \in CallOf(h, j) : i <= b
    BY DEF Crossing
  <2>3. i \in DOMAIN c /\ h[i] = Call(h[j].id) /\ c[i] = h[i]
    BY <1>1, <1>2, <2>2 DEF CallOf
  <2>4. CASE j \in DOMAIN c
    <3>1. j \in (b + 1)..Len(c) /\ IsA(c, j, "output") /\ i \in CallOf(c, j)
      BY <1>1, <1>2, <2>1, <2>3, <2>4 DEF CallOf, IsA
    <3> QED
      BY <2>2, <3>1 DEF FoldsAt, Crossing
  <2>5. CASE j \notin DOMAIN c
    <3>1. IsA(c, i, "call") /\ c[i].id = h[j].id
      BY <2>3, ItemFacts DEF IsA
    <3>2. i \notin Open(c)
      BY <1>1, <2>2, <2>3 DEF FoldsAt
    <3>3. PICK k \in DOMAIN c : c[k] = Output(h[j].id)
      BY <2>3, <3>1, <3>2 DEF Open
    <3>4. j \in DOMAIN h /\ h[j] \in HistoryItem
      BY <1>1, <2>1, LenProperties
    <3>5. h[j] = Output(h[j].id)
      BY <2>1, <3>4, ItemFacts DEF IsA
    <3>6. k = j
      BY <1>2, <3>3, <3>4, <3>5 DEF WellFormed
    <3> QED
      BY <2>5, <3>6
  <2> QED
    BY <2>4, <2>5
<1>4. ASSUME NEW i \in Open(h) PROVE i > b
  <2>1. i \in DOMAIN h /\ IsA(h, i, "call") /\ \A j \in DOMAIN h : h[j] # Output(h[i].id)
    BY DEF Open
  <2>2. CASE i \in DOMAIN c
    <3>1. i \in Open(c)
      BY <1>2, <2>1, <2>2 DEF Open, IsA
    <3> QED
      BY <3>1 DEF FoldsAt
  <2>3. CASE i \notin DOMAIN c
    BY <1>1, <2>1, <2>3
  <2> QED
    BY <2>2, <2>3
<1>5. SubSeq(h, 1, b) = SubSeq(c, 1, b)
  <2>1. \A k \in 1..b : SubSeq(h, 1, b)[k] = SubSeq(c, 1, b)[k]
    <3> TAKE k \in 1..b
    <3>1. SubSeq(h, 1, b)[k] = h[k] /\ SubSeq(c, 1, b)[k] = c[k]
      BY <1>1, PrefixIs
    <3>2. h[k] = c[k]
      BY <1>1, <1>2
    <3> QED
      BY <3>1, <3>2
  <2>2. /\ SubSeq(h, 1, b) \in Seq(HistoryItem) /\ Len(SubSeq(h, 1, b)) = b
        /\ SubSeq(c, 1, b) \in Seq(HistoryItem) /\ Len(SubSeq(c, 1, b)) = b
    BY <1>1, PrefixIs
  <2> QED
    BY <2>1, <2>2, SeqEqual
<1>6. FoldedAt(c, b, S) \o Suffix(h, Len(c)) = FoldedAt(h, b, S)
  <2> DEFINE f == FoldedAt(c, b, S)
             t == Suffix(h, Len(c))
             g == FoldedAt(h, b, S)
  <2>1. /\ f \in Seq(HistoryItem) /\ Len(f) = Len(c) - b + 1 /\ f[1] = Summary(S)
        /\ \A k \in 2..(Len(c) - b + 1) : f[k] = c[k + b - 1]
    BY <1>1, FoldedAtIs
  <2>2. /\ t \in Seq(HistoryItem) /\ Len(t) = Len(h) - Len(c)
        /\ \A k \in 1..(Len(h) - Len(c)) : t[k] = h[k + Len(c)]
    BY <1>1, SuffixIs
  <2>3. /\ g \in Seq(HistoryItem) /\ Len(g) = Len(h) - b + 1 /\ g[1] = Summary(S)
        /\ \A k \in 2..(Len(h) - b + 1) : g[k] = h[k + b - 1]
    BY <1>1, FoldedAtIs
  <2> HIDE DEF f, t, g
  <2>4. /\ f \o t \in Seq(HistoryItem) /\ Len(f \o t) = Len(f) + Len(t)
        /\ \A k \in 1..Len(f) + Len(t) : (f \o t)[k] = IF k <= Len(f) THEN f[k] ELSE t[k - Len(f)]
    <3>1. f \in Seq(HistoryItem) /\ t \in Seq(HistoryItem)
      BY <2>1, <2>2
    <3> QED
      BY <3>1, ConcatProperties
  <2>5. Len(f \o t) = Len(g)
    BY <1>1, <2>1, <2>2, <2>3, <2>4
  <2>6. ASSUME NEW k \in 1..Len(f \o t) PROVE (f \o t)[k] = g[k]
    <3>1. k \in 1..Len(f) + Len(t) /\ k \in 1..(Len(h) - b + 1)
      BY <2>3, <2>4, <2>5
    <3>2. CASE k = 1
      <4>1. 1 <= Len(f) /\ 1 \in 1..Len(f) + Len(t)
        BY <1>1, <2>1, <3>1, <3>2
      <4> QED
        BY <2>1, <2>3, <2>4, <3>2, <4>1
    <3>3. CASE k # 1 /\ k <= Len(f)
      <4>1. k \in 2..(Len(c) - b + 1) /\ k \in 2..(Len(h) - b + 1) /\ k + b - 1 \in DOMAIN c
        BY <1>1, <2>1, <3>1, <3>3
      <4>2. (f \o t)[k] = c[k + b - 1] /\ g[k] = h[k + b - 1]
        BY <2>1, <2>3, <2>4, <3>1, <3>3, <4>1
      <4> QED
        BY <1>2, <4>1, <4>2
    <3>4. CASE ~(k <= Len(f))
      <4>1. k - Len(f) \in 1..(Len(h) - Len(c)) /\ k \in 2..(Len(h) - b + 1) /\ (k - Len(f)) + Len(c) = k + b - 1
        <5>1. Len(f) = Len(c) - b + 1
          BY <2>1
        <5>2. ~(k <= Len(c) - b + 1) /\ k \in Int /\ k <= Len(h) - b + 1
          BY <1>1, <3>1, <3>4, <5>1
        <5>3. /\ k - (Len(c) - b + 1) \in 1..(Len(h) - Len(c)) /\ k \in 2..(Len(h) - b + 1)
              /\ (k - (Len(c) - b + 1)) + Len(c) = k + b - 1
          BY <1>1, <5>2
        <5> QED
          BY <5>1, <5>3
      <4>2. (f \o t)[k] = h[(k - Len(f)) + Len(c)] /\ g[k] = h[k + b - 1]
        BY <2>2, <2>3, <2>4, <3>1, <3>4, <4>1
      <4> QED
        BY <4>1, <4>2
    <3> QED
      BY <3>2, <3>3, <3>4
  <2>7. f \o t = g
    BY <2>3, <2>4, <2>5, <2>6, SeqEqual
  <2> QED
    BY <2>7 DEF f, t, g
<1> QED
  BY <1>1, <1>3, <1>4, <1>5, <1>6 DEF FoldsAt

(* Items that are new, and outputs of calls that are there, may follow.    *)
LEMMA GrowthKeeps ==
  ASSUME NEW h, NEW s, WellFormed(h, s), NEW t \in Seq(BaseItem),
         \A k \in DOMAIN t : \A i \in DOMAIN h : t[k] # h[i],
         \A k, l \in DOMAIN t : t[k] = t[l] => k = l,
         \A k \in DOMAIN t : t[k].kind = "output" => \E i \in DOMAIN h : h[i] = Call(t[k].id)
  PROVE  /\ WellFormed(h \o t, s)
         /\ Covered(h) \subseteq Covered(h \o t) /\ \A k \in DOMAIN t : t[k] \in Covered(h \o t)
         /\ \A n \in Nat : /\ \A i \in DOMAIN h : h[i].id <= n
                           /\ \A k \in DOMAIN t : t[k].id <= n
                           => \A i \in DOMAIN (h \o t) : (h \o t)[i].id <= n
         /\ /\ \A k \in DOMAIN t : t[k].kind # "call"
            /\ \A i \in Open(h) : \E k \in DOMAIN t : t[k] = Output(h[i].id)
            => Open(h \o t) = {}
<1> DEFINE g == h \o t
<1>1. h \in Seq(HistoryItem) /\ Len(h) \in Nat /\ DOMAIN h = 1..Len(h)
  BY LenProperties DEF WellFormed
<1>2. t \in Seq(HistoryItem) /\ Len(t) \in Nat /\ DOMAIN t = 1..Len(t)
  <2>1. t \in Seq(HistoryItem)
    BY ItemFacts, SeqMonotonic
  <2> QED
    BY <2>1, LenProperties
<1>3. /\ g \in Seq(HistoryItem) /\ Len(g) = Len(h) + Len(t)
      /\ \A i \in 1..Len(h) + Len(t) : g[i] = IF i <= Len(h) THEN h[i] ELSE t[i - Len(h)]
  BY <1>1, <1>2, ConcatProperties
<1>4. DOMAIN g = 1..(Len(h) + Len(t))
  BY <1>3, LenProperties
<1> HIDE DEF g
<1>5. ASSUME NEW i \in DOMAIN h PROVE i \in DOMAIN g /\ g[i] = h[i]
  BY <1>1, <1>2, <1>3, <1>4
<1>6. ASSUME NEW k \in DOMAIN t PROVE k + Len(h) \in DOMAIN g /\ g[k + Len(h)] = t[k]
  <2>1. k + Len(h) \in 1..Len(h) + Len(t) /\ ~(k + Len(h) <= Len(h)) /\ (k + Len(h)) - Len(h) = k
    BY <1>1, <1>2
  <2>2. g[k + Len(h)] = t[(k + Len(h)) - Len(h)]
    BY <1>3, <2>1
  <2> QED
    BY <1>4, <2>1, <2>2
<1>7. ASSUME NEW i \in DOMAIN g
      PROVE  \/ i \in DOMAIN h /\ g[i] = h[i]
             \/ i > Len(h) /\ i - Len(h) \in DOMAIN t /\ g[i] = t[i - Len(h)]
  BY <1>1, <1>2, <1>3, <1>4
<1>8. \A k \in DOMAIN t : t[k] \in BaseItem /\ t[k].kind # "summary"
  <2>1. \A k \in DOMAIN t : t[k] \in BaseItem
    BY <1>2, LenProperties
  <2> QED
    BY <2>1, ItemFacts
<1>9. \A i, j \in DOMAIN g : g[i] = g[j] => i = j
  <2> SUFFICES ASSUME NEW i \in DOMAIN g, NEW j \in DOMAIN g, g[i] = g[j] PROVE i = j
    OBVIOUS
  <2>1. CASE i \in DOMAIN h /\ g[i] = h[i]
    BY <1>7, <2>1 DEF WellFormed
  <2>2. CASE i > Len(h) /\ i - Len(h) \in DOMAIN t /\ g[i] = t[i - Len(h)]
    <3>1. j - Len(h) \in DOMAIN t /\ g[j] = t[j - Len(h)]
      BY <1>7, <2>2
    <3>2. i - Len(h) = j - Len(h)
      BY <2>2, <3>1
    <3> QED
      BY <1>1, <1>2, <1>4, <3>2
  <2> QED
    BY <1>7, <2>1, <2>2
<1>10. \A i \in DOMAIN g : IsA(g, i, "summary") => i = 1 /\ g[i] = Summary(s)
  BY <1>7, <1>8 DEF WellFormed, IsA
<1>11. ASSUME NEW j \in DOMAIN g, IsA(g, j, "output") PROVE \E i \in CallOf(g, j) : i < j
  <2>1. CASE j \in DOMAIN h /\ g[j] = h[j]
    <3>1. PICK i \in CallOf(h, j) : i < j
      BY <1>11, <2>1 DEF WellFormed, IsA
    <3>2. i \in CallOf(g, j)
      BY <1>5, <2>1, <3>1 DEF CallOf
    <3> QED
      BY <3>1, <3>2
  <2>2. CASE j > Len(h) /\ j - Len(h) \in DOMAIN t /\ g[j] = t[j - Len(h)]
    <3>1. PICK i \in DOMAIN h : h[i] = Call(g[j].id)
      BY <1>11, <2>2 DEF IsA
    <3>2. i \in CallOf(g, j) /\ i < j
      BY <1>1, <1>4, <1>5, <2>2, <3>1 DEF CallOf
    <3> QED
      BY <3>2
  <2> QED
    BY <1>7, <2>1, <2>2
<1>12. WellFormed(g, s)
  BY <1>3, <1>9, <1>10, <1>11 DEF WellFormed
<1>13. Covered(h) \subseteq Covered(g)
  BY <1>5, CoveredFacts
<1>14. \A k \in DOMAIN t : t[k] \in Covered(g)
  BY <1>6, <1>8 DEF Covered, IsA
<1>15. ASSUME NEW n \in Nat, \A i \in DOMAIN h : h[i].id <= n, \A k \in DOMAIN t : t[k].id <= n
       PROVE  \A i \in DOMAIN g : g[i].id <= n
  BY <1>7, <1>15
<1>16. ASSUME \A k \in DOMAIN t : t[k].kind # "call",
              \A i \in Open(h) : \E k \in DOMAIN t : t[k] = Output(h[i].id),
              NEW i \in Open(g)
       PROVE  FALSE
  <2>1. i \in DOMAIN g /\ IsA(g, i, "call") /\ \A j \in DOMAIN g : g[j] # Output(g[i].id)
    BY DEF Open
  <2>2. i \in DOMAIN h /\ g[i] = h[i]
    BY <1>7, <1>16, <2>1 DEF IsA
  <2>3. i \in Open(h)
    BY <1>5, <2>1, <2>2 DEF Open, IsA
  <2> QED
    BY <1>6, <1>16, <2>1, <2>2, <2>3
<1> QED
  BY <1>12, <1>13, <1>14, <1>15, <1>16 DEF g

LEMMA AppendIs ==
  ASSUME NEW h \in Seq(HistoryItem), NEW x \in BaseItem
  PROVE  /\ Append(h, x) = h \o <<x>>
         /\ <<x>> \in Seq(BaseItem) /\ DOMAIN <<x>> = {1} /\ <<x>>[1] = x
<1>1. <<x>> \in Seq(BaseItem) /\ DOMAIN <<x>> = {1} /\ <<x>>[1] = x
  OBVIOUS
<1>2. Append(h, x) = h \o <<x>>
  <2>0. x \in HistoryItem /\ <<x>> \in Seq(HistoryItem) /\ Len(<<x>>) = 1 /\ Len(h) \in Nat
    BY ItemFacts, LenProperties
  <2>1. /\ Append(h, x) \in Seq(HistoryItem) /\ Len(Append(h, x)) = Len(h) + 1
        /\ \A i \in 1..Len(h) : Append(h, x)[i] = h[i]
        /\ Append(h, x)[Len(h) + 1] = x
    BY <2>0, AppendProperties
  <2>2. /\ h \o <<x>> \in Seq(HistoryItem) /\ Len(h \o <<x>>) = Len(h) + 1
        /\ \A i \in 1..Len(h) + 1 : (h \o <<x>>)[i] = IF i <= Len(h) THEN h[i] ELSE <<x>>[i - Len(h)]
    BY <2>0, ConcatProperties
  <2>3. \A i \in 1..Len(Append(h, x)) : Append(h, x)[i] = (h \o <<x>>)[i]
    BY <1>1, <2>0, <2>1, <2>2
  <2> QED
    BY <2>1, <2>2, <2>3, SeqEqual
<1> QED
  BY <1>1, <1>2

(* A step that appends.                                                    *)
LEMMA GrowStep ==
  ASSUME CompactionInv, NEW t \in Seq(BaseItem),
         \A k \in DOMAIN t : \A i \in DOMAIN hist : t[k] # hist[i],
         \A k, l \in DOMAIN t : t[k] = t[l] => k = l,
         \A k \in DOMAIN t : t[k].kind = "output" => \E i \in DOMAIN hist : hist[i] = Call(t[k].id),
         hist' = hist \o t, summary' = summary,
         items' \in Nat, items <= items', \A k \in DOMAIN t : t[k].id <= items',
         \A n \in (items + 1)..items' : \E k \in DOMAIN t : t[k] \in {Text(n), Call(n)},
         phase' = "hop" => /\ \A k \in DOMAIN t : t[k].kind # "call"
                           /\ \A i \in Open(hist) : \E k \in DOMAIN t : t[k] = Output(hist[i].id)
  PROVE  HistInv'
<1> DEFINE g == hist \o t
<1>1. WellFormed(hist, summary) /\ items \in Nat /\ \A i \in DOMAIN hist : hist[i].id <= items
  BY CompactionAssumption DEF CompactionInv, CompactionTypes, CompactionTypeOK, HistInv
<1>2. /\ WellFormed(g, summary)
      /\ Covered(hist) \subseteq Covered(g) /\ \A k \in DOMAIN t : t[k] \in Covered(g)
      /\ \A n \in Nat : /\ \A i \in DOMAIN hist : hist[i].id <= n
                        /\ \A k \in DOMAIN t : t[k].id <= n
                        => \A i \in DOMAIN g : g[i].id <= n
      /\ /\ \A k \in DOMAIN t : t[k].kind # "call"
         /\ \A i \in Open(hist) : \E k \in DOMAIN t : t[k] = Output(hist[i].id)
         => Open(g) = {}
  BY <1>1, GrowthKeeps
<1> HIDE DEF g
<1>3. \A i \in DOMAIN hist : hist[i].id <= items'
  <2> TAKE i \in DOMAIN hist
  <2>1. hist[i].id \in Nat
    BY <1>1, ItemFacts, LenProperties DEF WellFormed
  <2> QED
    BY <1>1, <2>1
<1>4. \A i \in DOMAIN g : g[i].id <= items'
  BY <1>2, <1>3
<1>5. ASSUME NEW n \in 1..items' PROVE Covered(g) \cap {Text(n), Call(n)} # {}
  <2>1. CASE n \in 1..items
    BY <1>2, <2>1 DEF CompactionInv, HistInv
  <2>2. CASE n \in (items + 1)..items'
    BY <1>2, <2>2
  <2> QED
    BY <1>1, <2>1, <2>2
<1>6. g = hist' /\ WellFormed(g, summary') /\ (phase' = "hop" => Open(g) = {})
  BY <1>2 DEF g
<1>7. /\ WellFormed(hist', summary') /\ \A i \in DOMAIN hist' : hist'[i].id <= items'
      /\ \A n \in 1..items' : Covered(hist') \cap {Text(n), Call(n)} # {}
      /\ phase' = "hop" => Open(hist') = {}
  BY <1>4, <1>5, <1>6
<1> QED
  BY <1>7 DEF HistInv

(* A step that folds.                                                      *)
LEMMA FoldStep ==
  ASSUME CompactionInv, NEW b \in 1..Len(hist), FoldsAt(hist, b), NEW S \in SUBSET BaseItem,
         Covered(SubSeq(hist, 1, b)) \subseteq S, hist' = FoldedAt(hist, b, S), summary' = S,
         UNCHANGED items, phase' = "hop" => phase = "hop"
  PROVE  HistInv'
<1> DEFINE g == FoldedAt(hist, b, S)
<1>1. WellFormed(hist, summary) /\ items \in Nat /\ \A i \in DOMAIN hist : hist[i].id <= items
  BY CompactionAssumption DEF CompactionInv, CompactionTypes, CompactionTypeOK, HistInv
<1>2. /\ WellFormed(g, S) /\ Covered(hist) \subseteq Covered(g)
      /\ Open(hist) = {} => Open(g) = {}
      /\ \A n \in Nat : (\A i \in DOMAIN hist : hist[i].id <= n) => \A i \in DOMAIN g : g[i].id <= n
  BY <1>1, FoldKeeps
<1> HIDE DEF g
<1>3. g = hist' /\ \A i \in DOMAIN g : g[i].id <= items
  BY <1>1, <1>2 DEF g
<1>4. \A n \in 1..items : Covered(g) \cap {Text(n), Call(n)} # {}
  BY <1>2 DEF CompactionInv, HistInv
<1>5. /\ WellFormed(hist', summary') /\ \A i \in DOMAIN hist' : hist'[i].id <= items'
      /\ \A n \in 1..items' : Covered(hist') \cap {Text(n), Call(n)} # {}
      /\ phase' = "hop" => Open(hist') = {}
  BY <1>2, <1>3, <1>4 DEF CompactionInv, HistInv
<1> QED
  BY <1>5 DEF HistInv

LEMMA PreparedKeeps ==
  ASSUME NEW left \in CandidateType, CandidateInv(left), cepoch' \in Nat, request \in 0..MaxRevisions,
         summary' \in SUBSET BaseItem, WellFormed(hist', summary'), pending' = Prepared(left, hist')
  PROVE  pending' \in CandidateType /\ CandidateInv(pending)'
<1>1. CASE pending' = left
  BY <1>1 DEF CandidateInv, FoldOf
<1>2. CASE pending' = Candidate(hist')
  <2>1. hist' \in Seq(HistoryItem) /\ <<>> \in Seq(HistoryItem)
    BY EmptySeq DEF WellFormed
  <2>2. pending' \in CandidateType
    BY <1>2, <2>1 DEF Candidate, CandidateType
  <2>3. pending'.hist = hist' /\ pending'.summary = summary' /\ pending'.phase = "running"
    BY <1>2 DEF Candidate
  <2> QED
    BY <2>2, <2>3 DEF CandidateInv
<1> QED
  BY <1>1, <1>2 DEF Prepared

LEMMA NoCandidateUsable == NoCandidate \in CandidateType /\ CandidateInv(NoCandidate)
<1>1. <<>> \in Seq(HistoryItem) /\ 0 \in 0..MaxRevisions
  BY EmptySeq, CompactionAssumption
<1>2. NoCandidate \in CandidateType
  BY <1>1 DEF NoCandidate, CandidateType
<1> QED
  BY <1>2 DEF NoCandidate, CandidateInv

LEMMA CompactionFacts ==
  ASSUME CompactionInv
  PROVE  /\ hist \in Seq(HistoryItem) /\ Len(hist) \in Nat /\ DOMAIN hist = 1..Len(hist)
         /\ \A i \in DOMAIN hist : hist[i] \in HistoryItem /\ hist[i].id \in 0..items
         /\ items \in 0..MaxItems /\ items \in Nat /\ MaxItems \in Nat
         /\ \A i \in Open(hist) : /\ i \in DOMAIN hist /\ hist[i] = Call(hist[i].id)
                                  /\ Output(hist[i].id) \in BaseItem
<1>1. hist \in Seq(HistoryItem) /\ items \in 0..MaxItems /\ MaxItems \in Nat
  BY CompactionAssumption DEF CompactionInv, CompactionTypes, CompactionTypeOK, HistInv, WellFormed
<1>2. Len(hist) \in Nat /\ DOMAIN hist = 1..Len(hist) /\ \A i \in DOMAIN hist : hist[i] \in HistoryItem
  BY <1>1, LenProperties
<1>3. ASSUME NEW i \in DOMAIN hist PROVE hist[i].id \in 0..items
  <2>1. hist[i].id \in 0..MaxItems /\ hist[i].id <= items
    BY <1>2, ItemFacts DEF CompactionInv, HistInv
  <2> QED
    BY <1>1, <2>1
<1>4. ASSUME NEW i \in Open(hist)
      PROVE  i \in DOMAIN hist /\ hist[i] = Call(hist[i].id) /\ Output(hist[i].id) \in BaseItem
  <2>1. i \in DOMAIN hist /\ hist[i].kind = "call"
    BY DEF Open, IsA
  <2>2. hist[i] \in BaseItem
    BY <1>2, <2>1, ItemFacts
  <2>3. hist[i].id \in 1..MaxItems
    BY <2>2 DEF BaseItem, Item
  <2> QED
    BY <1>2, <2>1, <2>3, ItemFacts
<1> QED
  BY <1>1, <1>2, <1>3, <1>4

LEMMA AppendTextKeeps == CompactionInv /\ AppendText => CompactionInv'
<1> SUFFICES ASSUME CompactionInv, AppendText PROVE CompactionInv'
  OBVIOUS
<1> DEFINE x == Text(items + 1)
           t == <<x>>
<1>1. x \in BaseItem /\ x.kind = "text" /\ x.id = items + 1
  <2>1. items + 1 \in 1..MaxItems
    BY CompactionFacts DEF AppendText
  <2> QED
    BY <2>1, ItemFacts
<1> HIDE DEF x
<1>2. hist' = hist \o t /\ t \in Seq(BaseItem) /\ DOMAIN t = {1} /\ t[1] = x
  BY <1>1, CompactionFacts, AppendIs DEF AppendText, x
<1> HIDE DEF t
<1>3. \A k \in DOMAIN t : \A i \in DOMAIN hist : t[k] # hist[i]
  BY <1>1, <1>2, CompactionFacts
<1>4. items' \in Nat /\ items' = items + 1 /\ items' \in 0..MaxItems /\ phase = "hop"
  BY CompactionFacts DEF AppendText
<1>5. \A n \in (items + 1)..items' : \E k \in DOMAIN t : t[k] \in {Text(n), Call(n)}
  BY <1>2, <1>4, CompactionFacts DEF x
<1>6. Open(hist) = {}
  BY <1>4 DEF CompactionInv, HistInv
<1>7. HistInv'
  <2>1. summary' = summary /\ items <= items'
    BY <1>4, CompactionFacts DEF AppendText
  <2>2. /\ \A k, l \in DOMAIN t : t[k] = t[l] => k = l
        /\ \A k \in DOMAIN t : t[k].kind = "text" /\ t[k].id <= items'
    BY <1>1, <1>2, <1>4
  <2> QED
    BY <1>2, <1>3, <1>4, <1>5, <1>6, <2>1, <2>2, GrowStep
<1>8. CompactionTypes' /\ CandidateInv(pending)'
  BY <1>4 DEF CompactionInv, CompactionTypes, CompactionTypeOK, AppendText
<1> QED
  BY <1>7, <1>8 DEF CompactionInv

LEMMA AppendCallsKeeps ==
  ASSUME CompactionInv, NEW n \in 1..2, AppendCalls(n)
  PROVE  CompactionInv'
<1> DEFINE t == [i \in 1..n |-> Call(items + i)]
<1>1. items' = items + n /\ items' \in 0..MaxItems /\ items' \in Nat /\ items <= items'
  BY CompactionFacts DEF AppendCalls
<1>2. ASSUME NEW i \in 1..n
      PROVE  t[i] = Call(items + i) /\ t[i] \in BaseItem /\ t[i].kind = "call" /\ t[i].id = items + i
             /\ items + i <= items' /\ items + i > items
  <2>1. items + i \in 1..MaxItems /\ items + i <= items' /\ items + i > items
    BY <1>1, CompactionFacts
  <2> QED
    BY <2>1, ItemFacts
<1>3. t \in Seq(BaseItem) /\ DOMAIN t = 1..n
  BY <1>2
<1>4. hist' = hist \o t /\ summary' = summary /\ phase' = "calls"
  BY DEF AppendCalls
<1> HIDE DEF t
<1>5. \A k \in DOMAIN t : \A i \in DOMAIN hist : t[k] # hist[i]
  <2> SUFFICES ASSUME NEW k \in 1..n, NEW i \in DOMAIN hist, t[k] = hist[i] PROVE FALSE
    BY <1>3
  <2>1. hist[i].id = items + k /\ items + k > items /\ hist[i].id \in 0..items
    BY <1>2, CompactionFacts
  <2> QED
    BY <2>1, CompactionFacts
<1>6. \A k, l \in DOMAIN t : t[k] = t[l] => k = l
  <2> SUFFICES ASSUME NEW k \in 1..n, NEW l \in 1..n, t[k] = t[l] PROVE k = l
    BY <1>3
  <2>1. items + k = items + l
    BY <1>2
  <2> QED
    BY <2>1, CompactionFacts
<1>7. \A m \in (items + 1)..items' : \E k \in DOMAIN t : t[k] \in {Text(m), Call(m)}
  <2> TAKE m \in (items + 1)..items'
  <2>1. m - items \in 1..n /\ items + (m - items) = m
    BY <1>1, CompactionFacts
  <2>2. t[m - items] = Call(m)
    BY <1>2, <2>1
  <2> QED
    BY <1>3, <2>1, <2>2
<1>8. HistInv'
  <2>1. \A k \in DOMAIN t : t[k].kind # "output" /\ t[k].id <= items'
    BY <1>2, <1>3
  <2> QED
    BY <1>1, <1>3, <1>4, <1>5, <1>6, <1>7, <2>1, GrowStep
<1>9. pending \in CandidateType /\ CandidateInv(pending) /\ cepoch' \in Nat /\ request \in 0..MaxRevisions
      /\ summary' \in SUBSET BaseItem
  BY DEF CompactionInv, CompactionTypes, CompactionTypeOK, AppendCalls
<1>10. WellFormed(hist', summary') /\ pending' = Prepared(pending, hist')
  <2>1. WellFormed(hist', summary')
    BY <1>8 DEF HistInv
  <2> QED
    BY <2>1 DEF AppendCalls
<1>11. pending' \in CandidateType /\ CandidateInv(pending)'
  BY <1>9, <1>10, PreparedKeeps
<1>12. CompactionTypes'
  <2>1. pending'.phase \in {"none", "running", "ready", "failed"}
    BY <1>11 DEF CandidateType
  <2> QED
    BY <1>1, <1>9, <1>11, <2>1 DEF CompactionInv, CompactionTypes, CompactionTypeOK, AppendCalls
<1> QED
  BY <1>8, <1>11, <1>12 DEF CompactionInv

LEMMA AppendOutputKeeps ==
  ASSUME CompactionInv, NEW o \in DOMAIN hist, AppendOutput(o)
  PROVE  CompactionInv'
<1> DEFINE x == Output(hist[o].id)
           t == <<x>>
<1>1. o \in Open(hist) /\ o \in DOMAIN hist /\ hist[o] = Call(hist[o].id) /\ x \in BaseItem
  BY CompactionFacts DEF AppendOutput
<1>2. x.kind = "output" /\ x.id = hist[o].id /\ hist[o].id \in 0..items
  BY <1>1, ItemFacts, CompactionFacts
<1>3. \A i \in DOMAIN hist : hist[i] # x
  BY <1>1 DEF Open
<1> HIDE DEF x
<1>4. hist' = hist \o t /\ t \in Seq(BaseItem) /\ DOMAIN t = {1} /\ t[1] = x
  BY <1>1, CompactionFacts, AppendIs DEF AppendOutput, x
<1> HIDE DEF t
<1>5. HistInv'
  <2>1. /\ \A k \in DOMAIN t : \A i \in DOMAIN hist : t[k] # hist[i]
        /\ \A k, l \in DOMAIN t : t[k] = t[l] => k = l
    BY <1>3, <1>4
  <2>2. \A k \in DOMAIN t : t[k].kind = "output" => \E i \in DOMAIN hist : hist[i] = Call(t[k].id)
    BY <1>1, <1>2, <1>4
  <2>3. summary' = summary /\ items' = items /\ items' \in Nat /\ items <= items'
    BY CompactionFacts DEF AppendOutput
  <2>4. \A k \in DOMAIN t : t[k].id <= items'
    BY <1>2, <1>4, <2>3
  <2>5. \A n \in (items + 1)..items' : \E k \in DOMAIN t : t[k] \in {Text(n), Call(n)}
    BY <2>3
  <2>6. \A k \in DOMAIN t : t[k].kind # "call"
    BY <1>2, <1>4
  <2>7. phase' = "hop" => \A i \in Open(hist) : \E k \in DOMAIN t : t[k] = Output(hist[i].id)
    BY <1>4 DEF AppendOutput, x
  <2> QED
    BY <1>4, <2>1, <2>2, <2>3, <2>4, <2>5, <2>6, <2>7, GrowStep
<1>6. CompactionTypes' /\ CandidateInv(pending)'
  BY DEF CompactionInv, CompactionTypes, CompactionTypeOK, AppendOutput
<1> QED
  BY <1>5, <1>6 DEF CompactionInv

LEMMA SkipRemainingKeeps == CompactionInv /\ SkipRemainingCalls => CompactionInv'
<1> SUFFICES ASSUME CompactionInv, SkipRemainingCalls PROVE CompactionInv'
  OBVIOUS
<1>1. PICK order \in Bijection(1..Cardinality(Open(hist)), Open(hist)) :
        hist' = hist \o [k \in DOMAIN order |-> Output(hist[order[k]].id)]
  BY DEF SkipRemainingCalls
<1> DEFINE m == Cardinality(Open(hist))
           t == [k \in DOMAIN order |-> Output(hist[order[k]].id)]
<1>2. /\ DOMAIN order = 1..m /\ \A k \in 1..m : order[k] \in Open(hist)
      /\ \A k, l \in 1..m : order[k] = order[l] => k = l
      /\ \A i \in Open(hist) : \E k \in 1..m : order[k] = i
  BY DEF Bijection, Injection, Surjection, IsInjective
<1>3. m \in Nat
  <2>1. Open(hist) \subseteq 1..Len(hist)
    BY CompactionFacts DEF Open
  <2>2. IsFiniteSet(1..Len(hist))
    <3>1. 1 \in Int /\ Len(hist) \in Int
      BY CompactionFacts
    <3> QED
      BY <3>1, FS_Interval
  <2> QED
    BY <2>1, <2>2, FS_Subset, FS_CardinalityType
<1> HIDE DEF m
<1>4. ASSUME NEW k \in 1..m
      PROVE  /\ order[k] \in Open(hist) /\ order[k] \in DOMAIN hist
             /\ hist[order[k]] = Call(hist[order[k]].id) /\ hist[order[k]].id \in 0..items
             /\ t[k] = Output(hist[order[k]].id) /\ t[k] \in BaseItem
             /\ t[k].kind = "output" /\ t[k].id = hist[order[k]].id
  <2>1. order[k] \in Open(hist)
    BY <1>2
  <2>2. /\ order[k] \in DOMAIN hist /\ hist[order[k]] = Call(hist[order[k]].id)
        /\ hist[order[k]].id \in 0..items /\ Output(hist[order[k]].id) \in BaseItem
    BY <2>1, CompactionFacts
  <2>3. t[k] = Output(hist[order[k]].id)
    BY <1>2
  <2> QED
    BY <2>1, <2>2, <2>3, ItemFacts
<1>5. DOMAIN t = 1..m /\ t \in Seq(BaseItem)
  <2>1. DOMAIN t = 1..m
    BY <1>2
  <2>2. t \in [1..m -> BaseItem]
    BY <1>2, <1>4
  <2> QED
    BY <1>3, <2>1, <2>2
<1>6. hist' = hist \o t
  BY <1>1
<1> HIDE DEF t
<1>7. ASSUME NEW k \in 1..m, NEW i \in DOMAIN hist PROVE t[k] # hist[i]
  BY <1>4 DEF Open
<1>8. ASSUME NEW k \in 1..m, NEW l \in 1..m, t[k] = t[l] PROVE k = l
  <2>1. hist[order[k]] = hist[order[l]]
    BY <1>4, <1>8
  <2>2. order[k] = order[l]
    BY <1>4, <2>1 DEF CompactionInv, HistInv, WellFormed
  <2> QED
    BY <1>2, <2>2
<1>9. HistInv'
  <2>1. \A k \in DOMAIN t : \A i \in DOMAIN hist : t[k] # hist[i]
    BY <1>5, <1>7
  <2>2. \A k, l \in DOMAIN t : t[k] = t[l] => k = l
    BY <1>5, <1>8
  <2>3. \A k \in DOMAIN t : t[k].kind = "output" => \E i \in DOMAIN hist : hist[i] = Call(t[k].id)
    BY <1>4, <1>5
  <2>4. summary' = summary /\ items' = items /\ items' \in Nat /\ items <= items'
    BY CompactionFacts DEF SkipRemainingCalls
  <2>5. \A k \in DOMAIN t : t[k].id <= items'
    BY <1>4, <1>5, <2>4, CompactionFacts
  <2>6. \A n \in (items + 1)..items' : \E k \in DOMAIN t : t[k] \in {Text(n), Call(n)}
    BY <2>4
  <2>7. \A k \in DOMAIN t : t[k].kind # "call"
    BY <1>4, <1>5
  <2>8. \A i \in Open(hist) : \E k \in DOMAIN t : t[k] = Output(hist[i].id)
    BY <1>2, <1>4, <1>5
  <2> QED
    BY <1>5, <1>6, <2>1, <2>2, <2>3, <2>4, <2>5, <2>6, <2>7, <2>8, GrowStep
<1>10. CompactionTypes' /\ CandidateInv(pending)'
  BY DEF CompactionInv, CompactionTypes, CompactionTypeOK, SkipRemainingCalls
<1> QED
  BY <1>9, <1>10 DEF CompactionInv

LEMMA SteeringKeeps == CompactionInv /\ DropCandidate => CompactionInv'
<1> SUFFICES ASSUME CompactionInv, DropCandidate PROVE CompactionInv'
  OBVIOUS
<1>1. HistInv'
  BY DEF CompactionInv, HistInv, DropCandidate
<1>2. CandidateInv(pending)' /\ pending' \in CandidateType
  BY NoCandidateUsable DEF DropCandidate, CandidateInv, FoldOf
<1>3. request' \in 0..MaxRevisions
  BY CompactionAssumption DEF CompactionInv, CompactionTypes, CompactionTypeOK, DropCandidate
<1>4. CompactionTypes'
  <2>1. pending'.phase \in {"none", "running", "ready", "failed"}
    BY <1>2 DEF CandidateType
  <2> QED
    BY <1>2, <1>3, <2>1 DEF CompactionInv, CompactionTypes, CompactionTypeOK, DropCandidate
<1> QED
  BY <1>1, <1>2, <1>4 DEF CompactionInv

LEMMA CandidateKeeps ==
  ASSUME CompactionInv, NEW well \in BOOLEAN, CandidateSettles(well)
  PROVE  CompactionInv'
<1> DEFINE new == Compacted(pending.hist, pending.summary, TRUE, Background)
<1>1. /\ pending.phase = "running" /\ pending \in CandidateType /\ WellFormed(pending.hist, pending.summary)
      /\ pending.summary \in SUBSET BaseItem
  BY DEF CandidateSettles, CompactionInv, CompactionTypes, CandidateInv, CandidateType
<1>2. UNCHANGED <<hist, summary, cepoch, request, phase, asynchronous, items>>
  BY DEF CandidateSettles
<1>3. pending' \in CandidateType /\ CandidateInv(pending)'
  <2>1. CASE well /\ new # pending.hist
    <3>0. IsFolded(pending.hist, new)
      BY <1>1, <2>1, CompactedIs
    <3>1. PICK S \in SUBSET BaseItem, b \in 1..Len(pending.hist) :
            /\ FoldsAt(pending.hist, b) /\ Covered(SubSeq(pending.hist, 1, b)) \subseteq S
            /\ new = FoldedAt(pending.hist, b, S)
      BY <3>0 DEF IsFolded, FoldOf
    <3>2. pending.hist \in Seq(HistoryItem) /\ b \in 0..Len(pending.hist)
      BY <1>1 DEF WellFormed
    <3>3. new \in Seq(HistoryItem) /\ Head(new).covers = S
      <4>1. FoldedAt(pending.hist, b, S) \in Seq(HistoryItem) /\ Head(FoldedAt(pending.hist, b, S)) = Summary(S)
        BY <3>2, FoldedAtIs
      <4> QED
        BY <3>1, <4>1, ItemFacts, Zenon
    <3>4. pending' = [pending EXCEPT !.phase = "ready", !.result = new, !.covers = Head(new).covers]
      BY <2>1 DEF CandidateSettles
    <3> HIDE DEF new
    <3>5. /\ pending' \in CandidateType /\ pending'.hist = pending.hist /\ pending'.summary = pending.summary
          /\ pending'.result = new /\ pending'.covers = S
      BY <1>1, <3>3, <3>4 DEF CandidateType
    <3> QED
      BY <1>1, <3>1, <3>5 DEF CandidateInv, FoldOf
  <2>2. CASE pending' = [pending EXCEPT !.phase = "failed"]
    <3>1. /\ pending' \in CandidateType /\ pending'.hist = pending.hist /\ pending'.summary = pending.summary
          /\ pending'.phase = "failed"
      BY <1>1, <2>2 DEF CandidateType
    <3> QED
      BY <1>1, <3>1 DEF CandidateInv
  <2> QED
    BY <2>1, <2>2 DEF CandidateSettles
<1>4. HistInv'
  BY <1>2 DEF CompactionInv, HistInv
<1>5. CompactionTypes'
  <2>1. pending'.phase \in {"none", "running", "ready", "failed"}
    BY <1>3 DEF CandidateType
  <2> QED
    BY <1>2, <1>3, <2>1 DEF CompactionInv, CompactionTypes, CompactionTypeOK
<1> QED
  BY <1>3, <1>4, <1>5 DEF CompactionInv

LEMMA InstallKeeps ==
  ASSUME CompactionInv, Installable, hist' = Spliced, summary' = pending.covers, cepoch' = pending.epoch + 1,
         UNCHANGED <<items, phase>>
  PROVE  HistInv' /\ summary' \in SUBSET BaseItem /\ cepoch' \in Nat
<1>1. /\ WellFormed(hist, summary) /\ WellFormed(pending.hist, pending.summary)
      /\ pending \in CandidateType /\ pending.covers \in SUBSET BaseItem /\ pending.epoch \in Nat
      /\ FoldOf(pending.hist, pending.result, pending.covers)
      /\ Len(pending.hist) <= Len(hist) /\ SubSeq(hist, 1, Len(pending.hist)) = pending.hist
  BY DEF CompactionInv, CompactionTypes, HistInv, CandidateInv, CandidateType, Installable
<1>2. PICK b \in 1..Len(pending.hist) :
        /\ FoldsAt(pending.hist, b) /\ Covered(SubSeq(pending.hist, 1, b)) \subseteq pending.covers
        /\ pending.result = FoldedAt(pending.hist, b, pending.covers)
  BY <1>1 DEF FoldOf
<1> DEFINE c == pending.hist
           r == pending.summary
           S == pending.covers
<1> HIDE DEF c, r, S
<1>3. /\ b \in 1..Len(hist) /\ FoldsAt(hist, b) /\ SubSeq(hist, 1, b) = SubSeq(pending.hist, 1, b)
      /\ FoldedAt(pending.hist, b, pending.covers) \o Suffix(hist, Len(pending.hist))
           = FoldedAt(hist, b, pending.covers)
  <2>1. /\ WellFormed(hist, summary) /\ WellFormed(c, r) /\ Len(c) <= Len(hist) /\ SubSeq(hist, 1, Len(c)) = c
        /\ b \in 1..Len(c) /\ FoldsAt(c, b) /\ S \in SUBSET BaseItem
    BY <1>1, <1>2 DEF c, r, S
  <2>2. /\ b \in 1..Len(hist) /\ FoldsAt(hist, b) /\ SubSeq(hist, 1, b) = SubSeq(c, 1, b)
        /\ FoldedAt(c, b, S) \o Suffix(hist, Len(c)) = FoldedAt(hist, b, S)
    BY <2>1, GrownFolds
  <2> QED
    BY <2>2 DEF c, r, S
<1>4. hist' = FoldedAt(hist, b, pending.covers)
  BY <1>2, <1>3 DEF Spliced
<1>5. HistInv'
  BY <1>1, <1>2, <1>3, <1>4, FoldStep
<1> QED
  BY <1>1, <1>5

LEMMA CompactKeeps ==
  ASSUME CompactionInv, NEW new, new = Compacted(hist, summary, FALSE, SoftLimit), new # hist,
         hist' = new, summary' = Head(new).covers, cepoch' = cepoch + 1, UNCHANGED <<items, phase>>
  PROVE  HistInv' /\ summary' \in SUBSET BaseItem /\ cepoch' \in Nat
<1>1. WellFormed(hist, summary) /\ summary \in SUBSET BaseItem /\ hist \in Seq(HistoryItem) /\ cepoch' \in Nat
  BY DEF CompactionInv, CompactionTypes, CompactionTypeOK, HistInv, WellFormed
<1>2. IsFolded(hist, new)
  BY <1>1, CompactedIs
<1>3. PICK S \in SUBSET BaseItem, b \in 1..Len(hist) :
        FoldsAt(hist, b) /\ Covered(SubSeq(hist, 1, b)) \subseteq S /\ new = FoldedAt(hist, b, S)
  BY <1>2 DEF IsFolded, FoldOf
<1>4. summary' = S
  <2>1. b \in 0..Len(hist)
    OBVIOUS
  <2>2. Head(FoldedAt(hist, b, S)) = Summary(S)
    BY <1>1, <2>1, FoldedAtIs
  <2> QED
    BY <1>3, <2>2, ItemFacts
<1>5. HistInv'
  BY <1>3, <1>4, FoldStep
<1> QED
  BY <1>1, <1>4, <1>5

LEMMA NextHopKeeps ==
  ASSUME CompactionInv, NEW outcome, NextHop(outcome)
  PROVE  CompactionInv'
<1> DEFINE new == Compacted(hist, summary, FALSE, SoftLimit)
           left == IF pending.phase = "running" THEN pending ELSE NoCandidate
<1>1. UNCHANGED <<request, asynchronous, items>> /\ phase = "hop" /\ phase' \in {"hop", "failed"}
  BY DEF NextHop
<1>2. HistInv' /\ summary' \in SUBSET BaseItem /\ cepoch' \in Nat
  <2>1. CASE /\ Installable /\ hist' = Spliced /\ summary' = pending.covers
             /\ cepoch' = pending.epoch + 1 /\ UNCHANGED phase
    BY <1>1, <2>1, InstallKeeps
  <2>2. CASE new # hist /\ hist' = new /\ summary' = Head(new).covers /\ cepoch' = cepoch + 1 /\ UNCHANGED phase
    <3> HIDE DEF new
    <3>1. new = Compacted(hist, summary, FALSE, SoftLimit)
      BY DEF new
    <3> QED
      BY <1>1, <2>2, <3>1, CompactKeeps
  <2>3. CASE UNCHANGED <<hist, summary, cepoch>>
    BY <1>1, <2>3 DEF CompactionInv, CompactionTypes, CompactionTypeOK, HistInv
  <2> HIDE DEF new
  <2> QED
    BY <2>1, <2>2, <2>3 DEF NextHop, new
<1>3. left \in CandidateType /\ CandidateInv(left)
  BY NoCandidateUsable DEF CompactionInv, CompactionTypes
<1>4. pending' = left \/ pending' = Prepared(left, hist')
  BY DEF NextHop
<1>5. WellFormed(hist', summary') /\ request \in 0..MaxRevisions
  BY <1>2 DEF HistInv, CompactionInv, CompactionTypes, CompactionTypeOK
<1> HIDE DEF left
<1>6. pending' \in CandidateType /\ CandidateInv(pending)'
  <2>1. CASE pending' = left
    BY <1>3, <2>1 DEF CandidateInv, FoldOf
  <2>2. CASE pending' = Prepared(left, hist')
    BY <1>2, <1>3, <1>5, <2>2, PreparedKeeps
  <2> QED
    BY <1>4, <2>1, <2>2
<1>7. CompactionTypes'
  <2>1. pending'.phase \in {"none", "running", "ready", "failed"}
    BY <1>6 DEF CandidateType
  <2> QED
    BY <1>1, <1>2, <1>6, <2>1 DEF CompactionInv, CompactionTypes, CompactionTypeOK
<1> QED
  BY <1>2, <1>6, <1>7 DEF CompactionInv

LEMMA CompactionStep == CompactionInv /\ [CompactionNext]_cvars => CompactionInv'
<1> SUFFICES ASSUME CompactionInv, [CompactionNext]_cvars PROVE CompactionInv'
  OBVIOUS
<1>1. CASE UNCHANGED cvars
  BY <1>1 DEF cvars, CompactionInv, CompactionTypes, CompactionTypeOK, HistInv, CandidateInv, FoldOf
<1>2. CASE CompactionNext
  BY <1>2, AppendTextKeeps, AppendCallsKeeps, AppendOutputKeeps, CandidateKeeps, NextHopKeeps,
     SkipRemainingKeeps, SteeringKeeps DEF CompactionNext
<1> QED
  BY <1>1, <1>2

LEMMA CompactionInitInv == CompactionInit => CompactionInv
<1> SUFFICES ASSUME CompactionInit PROVE CompactionInv
  OBVIOUS
<1>1. /\ hist = <<>> /\ summary = {} /\ cepoch = 0 /\ request = 0 /\ pending = NoCandidate
      /\ phase = "hop" /\ items = 0 /\ asynchronous \in BOOLEAN
  BY DEF CompactionInit
<1>2. hist \in Seq(HistoryItem) /\ DOMAIN hist = {}
  BY <1>1, EmptySeq
<1>3. HistInv
  <2>1. WellFormed(hist, summary) /\ Open(hist) = {}
    BY <1>2 DEF WellFormed, Open
  <2> QED
    BY <1>1, <1>2, <2>1 DEF HistInv
<1>4. CandidateInv(pending) /\ pending \in CandidateType
  BY <1>1, NoCandidateUsable
<1>5. CompactionTypes
  <2>1. pending.phase \in {"none", "running", "ready", "failed"}
    BY <1>4 DEF CandidateType
  <2>2. 0 \in 0..MaxItems /\ 0 \in 0..MaxRevisions
    BY CompactionAssumption
  <2> QED
    BY <1>1, <1>4, <2>1, <2>2 DEF CompactionTypes, CompactionTypeOK
<1> QED
  BY <1>3, <1>4, <1>5 DEF CompactionInv

LEMMA CompactionIsSafe == CompactionInv => CompactionSafe
<1> SUFFICES ASSUME CompactionInv PROVE CompactionSafe
  OBVIOUS
<1>1. \A k \in 0..Len(hist) : Boundary(hist, k) = Reference(hist, k)
  BY CompactionFacts, BoundaryIs
<1> QED
  BY <1>1 DEF CompactionInv, CompactionTypes, HistInv, WellFormed, HistoryKept, CompactionSafe

(* Whatever compactIfNeeded and install fold away, and whenever a          *)
(* candidate is installed while the turn appends, every item of a session  *)
(* stays in its history or is covered by the summary that replaced it, no  *)
(* output is separated from its call, no call of the running turn is       *)
(* folded, and the scan of compactIfNeeded finds the best boundary there   *)
(* is.                                                                     *)
THEOREM HistoryIsKept == CompactionSpec => []CompactionSafe
<1>1. CompactionInit => CompactionInv
  BY CompactionInitInv
<1>2. CompactionInv /\ [CompactionNext]_cvars => CompactionInv'
  BY CompactionStep
<1>3. CompactionInv => CompactionSafe
  BY CompactionIsSafe
<1> QED
  BY <1>1, <1>2, <1>3, PTL DEF CompactionSpec
=============================================================================
