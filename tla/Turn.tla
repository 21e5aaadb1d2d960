-------------------------------- MODULE Turn --------------------------------
(***************************************************************************)
(* AgentRuntime: one attempt of a conversation run, from the claim to its  *)
(* committed result, over the durable records it leaves behind (session    *)
(* row, step journal, action receipts, progress checkpoint).  An action is *)
(* what happens between two calls to the host, so that a revision, a       *)
(* cancellation, a preemption or a crash can fall between any two of them. *)
(* The text of prompts, candidates and tool results is left out: a text is *)
(* the request version it was generated for.                               *)
(***************************************************************************)
EXTENDS Integers, FiniteSets, Sequences, FiniteSetsExt

CONSTANTS
  MaxFence,       \* attempts per run
  MaxVersion,     \* request versions per run (1 + revisions)
  MaxCalls,       \* tool calls in the history of the session
  ContinueLimit,  \* continuations without a new observation (3 in the code)
  RepairLimit,    \* protocol repairs per request version (2 in the code)
  Kinds,          \* the kinds of tools offered
  Leftover,       \* the kinds of a call an earlier run may have left open
  Faults          \* what may go wrong besides revisions, see below

ASSUME BoundsAssumption ==
  /\ {MaxFence, MaxVersion, MaxCalls, ContinueLimit, RepairLimit} \subseteq Nat \ {0}
  /\ Leftover \subseteq Kinds
  /\ Kinds \subseteq {"read", "write", "unsafe", "cell"}
  /\ Faults \subseteq {"crash", "model", "review", "tool", "defer", "stop"}

Calls == 1 .. MaxCalls

(* A direct read, a direct transactional or idempotent write, a direct     *)
(* tool whose effect cannot be repeated, a Python cell.                    *)
RepeatableAll == {"read", "write", "unsafe", "cell"}

Repeatable == {"read", "write"}
(* Whose request and calls these are: this run's or an earlier one's.      *)
This == "this"
Earlier == "earlier"

Steps == {"none", "open", "done"}
Receipts == {"none", "intent", "pending", "defer", "done"}

NoSession == [calls |-> {}, outs |-> {}, version |-> 1, owner |-> Earlier]
NoText == 0
FreshBudget == [count |-> 0, repairs |-> 0]

VARIABLES
  work,      \* the run: status, fence, version, cancel, preempt, approval it waits on
  row,       \* the stored session: calls and outputs in the history, request version and owner
  made,      \* the calls made so far, in order: kind, run, request version
  step,      \* the step journal, per call
  receipt,   \* the action receipt, per call (of the run that made it)
  decided,   \* approvals decided, by call
  cand,      \* the last runtime.candidate step: version stamped and version it was written for
  ckpt,      \* the last runtime.checkpoint step: version and budget
  result,    \* the committed result: version stamped and version it was written for
  runs,      \* how often the effect of a direct call, the Python of a cell happened
  pc, sess, todo, good, text, budget

durable == <<row, made, step, receipt, decided, cand, ckpt, result, runs>>
local   == <<sess, todo, good, text, budget>>
vars    == <<work, durable, pc, local>>

TypeOK ==
  /\ work.fence \in 0 .. MaxFence /\ work.version \in 1 .. MaxVersion
  /\ work.status \in {"queued", "leased", "waiting", "done", "failed", "cancelled"}
  /\ row.outs \subseteq row.calls /\ row.calls \subseteq 1 .. Len(made) /\ row.owner \in {Earlier, This}
  /\ sess.outs \subseteq sess.calls /\ sess.calls \subseteq 1 .. Len(made)
  /\ \A n \in Calls : /\ step[n] \in Steps /\ receipt[n] \in Receipts
                      /\ n > Len(made) => step[n] = "none" /\ receipt[n] = "none" /\ runs[n] = 0
  /\ budget.count \in 0 .. ContinueLimit + 3 /\ budget.repairs \in 0 .. RepairLimit + 1
  /\ pc = "idle" => sess = NoSession /\ todo = <<>>

Pending(s) == s.calls \ s.outs
Mine(n) == made[n].by = This
Ended(s) == s \in {"done", "failed", "cancelled"}

(* An earlier run of the session may have left a call without its output.  *)
Init ==
  /\ work = [status |-> "queued", fence |-> 0, version |-> 1,
             cancel |-> FALSE, preempt |-> FALSE, on |-> 0]
  /\ made \in {<<>>} \cup {<<[kind |-> k, by |-> Earlier, version |-> 1]>> : k \in Leftover}
  /\ row = [NoSession EXCEPT !.calls = 1 .. Len(made)]
  /\ step = [n \in Calls |-> "none"] /\ receipt = [n \in Calls |-> "none"]
  /\ decided = {} /\ cand = [stamp |-> 0, for |-> NoText]
  /\ ckpt = [version |-> 0, budget |-> FreshBudget]
  /\ result = [stamp |-> 0, for |-> NoText]
  /\ runs = [n \in Calls |-> 0]
  /\ pc = "idle" /\ sess = NoSession /\ todo = <<>> /\ good = NoText /\ text = NoText
  /\ budget = FreshBudget

(***************************************************************************)
(* Leaving the attempt.                                                    *)
(***************************************************************************)
EndAttempt ==
  /\ pc' = "idle" /\ sess' = NoSession /\ todo' = <<>>
  /\ good' = NoText /\ text' = NoText /\ budget' = FreshBudget

(* The version ControlPlaneService.complete expects an outcome to name.    *)
SavedVersion == IF row.owner = This THEN row.version ELSE 1

(* finishWithError: the run ends, with the version of the attempt's        *)
(* session (1 while there is none); a completion the host refuses is       *)
(* logged and the lease runs out.                                          *)
AttemptVersion == IF pc \in {"recover", "restore"} THEN 1 ELSE sess.version

FinishWithError(status) ==
  /\ work' = IF AttemptVersion = SavedVersion THEN [work EXCEPT !.status = status] ELSE work
  /\ EndAttempt

Throw == FinishWithError("failed")

(* The abort that a heartbeat, or the worker's drain, raises: a preempted  *)
(* attempt saves its session and gives the run back; a cancelled one ends  *)
(* it; a drained one may give back only a run somebody asked for, and      *)
(* otherwise leaves the lease to expire.                                   *)
Running == pc \notin {"idle", "recover"}
HasSession == pc \notin {"restore"}
Requeued == [work EXCEPT !.status = "queued", !.preempt = FALSE]

Preempted ==
  /\ Running /\ work.preempt
  /\ row' = IF HasSession THEN sess ELSE row
  /\ work' = Requeued
  /\ EndAttempt
  /\ UNCHANGED <<made, step, receipt, decided, cand, ckpt, result, runs>>

Cancelled ==
  /\ Running /\ work.cancel /\ ~work.preempt
  /\ FinishWithError("cancelled") /\ UNCHANGED durable

Drained ==
  /\ "stop" \in Faults /\ Running /\ ~work.preempt
  /\ row' = IF HasSession THEN sess ELSE row
  /\ EndAttempt
  /\ UNCHANGED <<work, made, step, receipt, decided, cand, ckpt, result, runs>>

(***************************************************************************)
(* Claim, recovery of the run and of its session.                          *)
(***************************************************************************)
Claim ==
  /\ work.status = "queued" /\ work.fence < MaxFence
  /\ work' = [work EXCEPT !.status = "leased", !.fence = @ + 1]
  /\ pc' = "recover"
  /\ UNCHANGED <<durable, local>>

(* executeDecidedApprovals: an approved action runs before the attempt     *)
(* resumes and its receipt replaces the output of its call.                *)
ExecuteDecidedApproval ==
  /\ pc = "recover" /\ row.owner = This
  /\ \E n \in decided :
       /\ receipt[n] = "pending" /\ Mine(n) /\ made[n].version = row.version
       /\ row.version = work.version
       /\ receipt' = [receipt EXCEPT ![n] = "done"]
       /\ runs' = IF made[n].kind = "cell" THEN runs ELSE [runs EXCEPT ![n] = @ + 1]
       /\ row' = [row EXCEPT !.outs = @ \cup ({n} \cap row.calls)]
  /\ UNCHANGED <<work, made, step, decided, cand, ckpt, result, pc, local>>

DecisionsDue ==
  row.owner = This /\ row.version = work.version /\
  \E n \in decided : receipt[n] = "pending" /\ Mine(n) /\ made[n].version = row.version

(* recoverWait: the last call ended in a question or a pending approval,   *)
(* so the run parks again without running anything.                        *)
WaitsOnAnyVersion ==
  IF row.owner # This \/ row.calls = {} THEN {}
  ELSE LET n == Max(row.calls)
       IN IF Mine(n) /\ receipt[n] \in {"pending", "defer"} THEN {n} ELSE {}

WaitsOn ==
  IF row.owner # This \/ row.version # work.version \/ row.calls = {} THEN {}
  ELSE LET n == Max(row.calls)
       IN IF Mine(n) /\ made[n].version = row.version /\ receipt[n] \in {"pending", "defer"} THEN {n} ELSE {}

RecoverWait ==
  /\ pc = "recover" /\ ~DecisionsDue
  /\ \E n \in WaitsOn :
       /\ row' = [row EXCEPT !.outs = @ \cup {n}]
       /\ work' = IF work.cancel THEN work ELSE [work EXCEPT !.status = "waiting", !.on = n]
  /\ EndAttempt
  /\ UNCHANGED <<made, step, receipt, decided, cand, ckpt, result, runs>>

LoadContext ==
  /\ pc = "recover" /\ ~DecisionsDue /\ WaitsOn = {}
  /\ IF work.cancel THEN Throw ELSE /\ pc' = "restore" /\ sess' = row
                                   /\ UNCHANGED <<work, todo, good, text, budget>>
  /\ UNCHANGED durable

(* recoverStep and recoverCell: an output of the journal, or receipts of   *)
(* this run and version, or a repeatable call run again under its own key  *)
(* (refused, and answered with the refusal, unless the saved request is    *)
(* this run's and current).                                                *)
ByStep(n) == row.owner = This /\ work.fence > 1 /\ Mine(n)
             /\ step[n] = "done" /\ made[n].version = row.version
ByReceipt(n) == Mine(n) /\ receipt[n] # "none"
                /\ made[n].version = (IF row.owner = This THEN row.version ELSE work.version)
Recoverable(n) == ByStep(n) \/ ByReceipt(n) \/ made[n].kind \in Repeatable
Reexecuted(n) ==
  /\ ~ByStep(n) /\ made[n].kind \in Repeatable
  /\ receipt[n] = "intent" \/ ~ByReceipt(n)
  /\ Mine(n) /\ row.owner = This /\ row.version = work.version /\ receipt[n] \in {"none", "intent"}

RestoreCall ==
  /\ pc = "restore" /\ Pending(sess) # {}
  /\ LET n == Min(Pending(sess))
     IN IF Recoverable(n)
        THEN /\ sess' = [sess EXCEPT !.outs = @ \cup {n}]
             /\ receipt' = IF Reexecuted(n) THEN [receipt EXCEPT ![n] = "done"] ELSE receipt
             /\ runs' = IF Reexecuted(n) THEN [runs EXCEPT ![n] = @ + 1] ELSE runs
             /\ UNCHANGED <<work, pc, todo, good, text, budget>>
        ELSE Throw /\ UNCHANGED <<receipt, runs>>
  /\ UNCHANGED <<row, made, step, decided, cand, ckpt, result>>

(* The end of restoreSession and the start of runTurn: the request of this *)
(* run, its saved budget, its saved candidate.                             *)
Restored ==
  IF sess.owner = This THEN sess ELSE [sess EXCEPT !.owner = This, !.version = 1]

OpenSession ==
  /\ pc = "restore" /\ Pending(sess) = {}
  /\ sess' = Restored /\ row' = Restored
  /\ budget' = IF ckpt.version = work.version THEN ckpt.budget ELSE FreshBudget
  /\ IF cand.stamp = Restored.version /\ Restored.version = work.version
     THEN good' = cand.for ELSE good' = NoText
  /\ pc' = "hop"
  /\ UNCHANGED <<work, made, step, receipt, decided, cand, ckpt, result, runs, todo, text>>

(***************************************************************************)
(* The turn loop.                                                          *)
(***************************************************************************)
(* CorrectionBudget.consume.                                               *)
ConsumeUncounted(repair) == [ok |-> TRUE, left |-> budget]

Consume(repair) ==
  LET r == IF repair THEN [budget EXCEPT !.repairs = @ + 1] ELSE budget
      spent == repair /\ budget.repairs >= RepairLimit
      c == Min({ContinueLimit + 3, budget.count + 1})
  IN [ok |-> ~spent /\ c < ContinueLimit,
      left |-> IF spent THEN [budget EXCEPT !.repairs = RepairLimit + 1]
               ELSE [r EXCEPT !.count = c]]

Observed == [budget EXCEPT !.count = 0]

Steered == work.version > sess.version

(* applySteering: the revisions join the saved request, and what was       *)
(* prepared for the older request is dropped.                              *)
Steer == [sess EXCEPT !.version = work.version]
ApplySteeringKeepingAnswer ==
  IF Steered
  THEN /\ sess' = Steer /\ row' = Steer /\ good' = good /\ budget' = Observed
  ELSE UNCHANGED <<sess, row, good, budget>>

ApplySteering ==
  IF Steered
  THEN /\ sess' = Steer /\ row' = Steer /\ good' = NoText /\ budget' = Observed
  ELSE UNCHANGED <<sess, row, good, budget>>

(* The head of the loop: refresh, apply revisions.                         *)
Hop ==
  /\ pc = "hop" /\ ~work.cancel /\ ~work.preempt
  /\ ApplySteering
  /\ pc' = "checkpoint"
  /\ UNCHANGED <<work, made, step, receipt, decided, cand, ckpt, result, runs, todo, text>>

(* PgStepStore.save accepts a step of the current request version only.    *)
StepAccepted == work.version = sess.version /\ ~work.cancel

SaveCheckpoint ==
  /\ pc = "checkpoint"
  /\ IF StepAccepted
     THEN /\ ckpt' = [version |-> sess.version, budget |-> budget] /\ pc' = "model"
          /\ UNCHANGED <<work, local>>
     ELSE Throw /\ UNCHANGED ckpt
  /\ UNCHANGED <<row, made, step, receipt, decided, cand, result, runs>>

(* Back to the head of the loop, or out of it with the terminal error.     *)
Correct(repair) ==
  LET c == Consume(repair)
  IN /\ budget' = c.left
     /\ pc' = IF c.ok THEN "hop" ELSE "conclude"

(* model.run fails: a revision restarts the loop, a protocol error is      *)
(* corrected within the budget, an exhausted model budget or a retained    *)
(* candidate ends the loop, anything else the run.                         *)
ModelFails ==
  /\ "model" \in Faults /\ pc = "model"
  /\ \/ Steered /\ pc' = "hop" /\ UNCHANGED <<work, local>>
     \/ /\ ~Steered
        /\ \/ /\ Consume(TRUE).ok /\ pc' = "hop" /\ budget' = Consume(TRUE).left
              /\ UNCHANGED <<work, sess, todo, good, text>>
           \/ pc' = "conclude" /\ UNCHANGED <<work, sess, todo, good, text, budget>>
           \/ good = NoText /\ Throw
  /\ UNCHANGED durable

(* The answer came: refreshed, dropped if revised meanwhile.               *)
DropAnswer ==
  /\ pc = "model" /\ Steered /\ ~work.cancel /\ ~work.preempt
  /\ pc' = "hop"
  /\ UNCHANGED <<work, durable, local>>

(* Tool calls: their ids are fixed and the history saved before any runs.  *)
(* Several reads are one batch, other calls run one by one.                *)
Batches(ks, first) ==
  IF \A i \in 1 .. Len(ks) : ks[i] = "read" THEN <<{first + i : i \in 1 .. Len(ks)}>>
  ELSE [i \in 1 .. Len(ks) |-> {first + i}]

ProposeCalls ==
  /\ pc = "model" /\ ~Steered /\ ~work.cancel /\ ~work.preempt
  /\ \E ks \in [1 .. 1 -> Kinds] \cup [1 .. 2 -> Kinds] :
       /\ Len(made) + Len(ks) <= MaxCalls
       /\ made' = made \o [i \in 1 .. Len(ks) |-> [kind |-> ks[i], by |-> This, version |-> sess.version]]
       /\ sess' = [sess EXCEPT !.calls = @ \cup {Len(made) + i : i \in 1 .. Len(ks)}]
       /\ todo' = Batches(ks, Len(made))
  /\ row' = sess'
  /\ pc' = "exec"
  /\ UNCHANGED <<work, step, receipt, decided, cand, ckpt, result, runs, good, text, budget>>

(* A candidate answer.  A malformed one is withheld and a correction asked *)
(* for; a partial one is remembered and work continues while the budget    *)
(* lasts; a valid one is remembered (a journal step) and reviewed.         *)
ProposeText ==
  /\ pc = "model" /\ ~Steered /\ ~work.cancel /\ ~work.preempt
  /\ \/ /\ "review" \in Faults /\ Correct(TRUE)
        /\ UNCHANGED <<work, cand, sess, todo, good, text>>
     \/ IF StepAccepted
        THEN /\ good' = sess.version /\ cand' = [stamp |-> sess.version, for |-> sess.version]
             /\ \/ /\ "review" \in Faults /\ Consume(FALSE).ok
                   /\ budget' = Consume(FALSE).left /\ pc' = "hop" /\ text' = text
                \/ pc' = "review" /\ text' = sess.version /\ budget' = budget
             /\ UNCHANGED <<work, sess, todo>>
        ELSE Throw /\ UNCHANGED cand
  /\ UNCHANGED <<row, made, step, receipt, decided, ckpt, result, runs>>

(* verifyCandidate, the resource checks, task.inspect and the content      *)
(* review, each followed by a refresh.                                     *)
Review ==
  /\ pc = "review" /\ ~work.cancel /\ ~work.preempt
  /\ \/ Steered /\ pc' = "hop" /\ UNCHANGED <<good, budget>>
     \/ ~Steered /\ "review" \in Faults /\ Correct(FALSE) /\ UNCHANGED good
     \/ ~Steered /\ pc' = "commit" /\ UNCHANGED <<good, budget>>
  /\ text' = IF pc' = "commit" THEN text ELSE NoText
  /\ UNCHANGED <<work, durable, sess, todo>>

(***************************************************************************)
(* Tool calls.                                                             *)
(***************************************************************************)
(* Before a batch: a revision closes the calls not started.                *)
SkipCallsSilently ==
  /\ pc = "exec" /\ todo # <<>> /\ Steered /\ ~work.cancel /\ ~work.preempt
  /\ todo' = <<>>
  /\ UNCHANGED <<work, durable, pc, sess, good, text, budget>>

SkipCalls ==
  /\ pc = "exec" /\ todo # <<>> /\ Steered /\ ~work.cancel /\ ~work.preempt
  /\ sess' = [sess EXCEPT !.outs = @ \cup UNION {todo[i] : i \in 1 .. Len(todo)}]
  /\ todo' = <<>>
  /\ UNCHANGED <<work, durable, pc, good, text, budget>>

StartBatch ==
  /\ pc = "exec" /\ todo # <<>> /\ ~Steered /\ ~work.cancel /\ ~work.preempt
  /\ step' = [n \in Calls |-> IF n \in todo[1] THEN "open" ELSE step[n]]
  /\ pc' = "running"
  /\ UNCHANGED <<work, row, made, receipt, decided, cand, ckpt, result, runs, local>>

(* The calls act: an action of a superseded request is refused, otherwise  *)
(* its intent and its receipt are recorded; a cell may act or not.         *)
Outcomes(n) ==
  IF work.version # row.version THEN {"none"}
  ELSE (IF made[n].kind = "cell" THEN {"none", "done"} ELSE {"done"})
       \cup (IF "defer" \in Faults /\ made[n].kind # "read" THEN {"pending", "defer"} ELSE {})
       \cup (IF "crash" \in Faults /\ made[n].kind # "read" THEN {"intent"} ELSE {})

(* Did the call have its effect?  A write with an intent and no receipt    *)
(* rolled back, or will be recognised by its key; Python ran in any case.  *)
Acted(n, o) == made[n].kind = "cell" \/ o \in {"done", "defer"} \/ (o = "intent" /\ made[n].kind = "unsafe")

RunBatch ==
  /\ pc = "running"
  /\ \E o \in [todo[1] -> Receipts] :
       /\ \A n \in todo[1] : o[n] \in Outcomes(n)
       /\ receipt' = [n \in Calls |-> IF n \in todo[1] THEN o[n] ELSE receipt[n]]
       /\ runs' = [n \in Calls |-> IF n \in todo[1] /\ Acted(n, o[n]) THEN runs[n] + 1 ELSE runs[n]]
       /\ pc' \in IF \E n \in todo[1] : o[n] = "intent" /\ made[n].kind # "cell" THEN {"threw"}
                 ELSE {"ran"} \cup (IF "crash" \in Faults THEN {"threw"} ELSE {})
  /\ UNCHANGED <<work, row, made, step, decided, cand, ckpt, result, local>>

(* A host call that throws or gets no answer in its 30 seconds, whatever   *)
(* it did: the turn ends with the retained candidate, or the run fails.  A *)
(* cell is told of it instead and goes on.                                 *)
CallThrew ==
  /\ pc = "threw"
  /\ \/ good = NoText /\ Throw
     \/ pc' = "conclude" /\ todo' = <<>> /\ UNCHANGED <<work, sess, good, text, budget>>
  /\ UNCHANGED durable

(* saveExecutionStep and what follows it: the output joins the history; a  *)
(* failure costs budget and, when there is none left, ends the loop before *)
(* the output is recorded.  A step of a superseded request is refused.     *)
Failed(b) == "tool" \in Faults \/ \A n \in b : receipt[n] = "none" /\ made[n].kind # "cell"
Parks(b) == {n \in b : receipt[n] \in {"pending", "defer"}}

FinishBatch ==
  /\ pc = "ran"
  /\ IF ~StepAccepted
     THEN \/ Throw /\ UNCHANGED step
     ELSE /\ step' = [n \in Calls |-> IF n \in todo[1] THEN "done" ELSE step[n]]
          /\ work' = work
          /\ \/ /\ Parks(todo[1]) = {} /\ pc' = "exec"
                /\ sess' = [sess EXCEPT !.outs = @ \cup todo[1]]
                /\ todo' = Tail(todo)
                /\ \/ budget' = Observed
                   \/ Failed(todo[1]) /\ Consume(FALSE).ok /\ budget' = Consume(FALSE).left
                /\ UNCHANGED <<good, text>>
             \/ /\ Parks(todo[1]) = {} /\ Failed(todo[1]) /\ ~Consume(FALSE).ok
                /\ pc' = "conclude" /\ budget' = Consume(FALSE).left /\ todo' = <<>>
                /\ UNCHANGED <<sess, good, text>>
             \/ /\ Parks(todo[1]) # {} /\ pc' = "park"
                /\ sess' = [sess EXCEPT !.outs = @ \cup todo[1]]
                /\ UNCHANGED <<todo, good, text, budget>>
  /\ UNCHANGED <<row, made, receipt, decided, cand, ckpt, result, runs>>

(* A question or a pending approval: session saved, then waitWork, which   *)
(* refuses a superseded version (the error ends the run).                  *)
Park ==
  /\ pc = "park"
  /\ row' = sess
  /\ IF work.cancel \/ Steered THEN Throw
     ELSE /\ work' = [work EXCEPT !.status = "waiting", !.on = Max(Parks(todo[1]))]
          /\ EndAttempt
  /\ UNCHANGED <<made, step, receipt, decided, cand, ckpt, result, runs>>

EndCalls ==
  /\ pc = "exec" /\ todo = <<>>
  /\ row' = sess /\ pc' = "hop"
  /\ UNCHANGED <<work, made, step, receipt, decided, cand, ckpt, result, runs, local>>

(***************************************************************************)
(* The end of the turn.                                                    *)
(***************************************************************************)
(* Out of the loop without a final text: the retained candidate, if the    *)
(* last refresh brought no revision.                                       *)
Conclude ==
  /\ pc = "conclude" /\ ~work.cancel /\ ~work.preempt
  /\ IF Steered \/ good = NoText
     THEN /\ row' = IF Steered THEN Steer ELSE row
          /\ work' = [work EXCEPT !.status = "failed"]
          /\ EndAttempt
     ELSE /\ text' = good /\ pc' = "commit"
          /\ UNCHANGED <<work, row, sess, todo, good, budget>>
  /\ UNCHANGED <<made, step, receipt, decided, cand, ckpt, result, runs>>

(* saveSession, then commitResult: the host compares the envelope's        *)
(* version with the saved and the current one.                             *)
Commit ==
  /\ pc = "commit"
  /\ row' = sess
  /\ IF ~Steered /\ ~work.cancel
     THEN /\ result' = [stamp |-> sess.version, for |-> text]
          /\ work' = [work EXCEPT !.status = "done"]
          /\ EndAttempt
     ELSE Throw /\ UNCHANGED result
  /\ UNCHANGED <<made, step, receipt, decided, cand, ckpt, runs>>

(***************************************************************************)
(* The others: the user, the control plane, the clock.                     *)
(***************************************************************************)
Revise ==
  /\ work.version < MaxVersion /\ ~Ended(work.status) /\ ~work.cancel
  /\ work' = [work EXCEPT !.version = @ + 1, !.on = 0,
                          !.status = IF @ = "waiting" THEN "queued" ELSE @]
  /\ UNCHANGED <<durable, pc, local>>

RequestStop ==
  /\ "stop" \in Faults /\ ~Ended(work.status)
  /\ \/ ~work.cancel /\ work' = [work EXCEPT !.cancel = TRUE,
                                   !.status = IF @ = "leased" THEN @ ELSE "cancelled"]
     \/ work.status = "leased" /\ ~work.preempt /\ work.fence < MaxFence
        /\ work' = [work EXCEPT !.preempt = TRUE]
  /\ UNCHANGED <<durable, pc, local>>

(* decideApproval; resumeDecidedApprovals, also run by the timer; the      *)
(* answer to a question (continueInput) is a revision, above.              *)
Decide ==
  /\ \E n \in Calls \ decided :
       /\ receipt[n] = "pending" /\ Mine(n) /\ made[n].version = work.version
       /\ ~work.cancel /\ ~Ended(work.status)
       /\ decided' = decided \cup {n}
  /\ UNCHANGED <<work, row, made, step, receipt, cand, ckpt, result, runs, pc, local>>

ResumeDecidedOffByOne ==
  /\ work.status = "waiting" /\ work.on \in decided
  /\ made[work.on].version = work.version - 1
  /\ work' = [work EXCEPT !.status = "queued", !.on = 0]
  /\ UNCHANGED <<durable, pc, local>>

ResumeDecided ==
  /\ work.status = "waiting" /\ work.on \in decided
  /\ made[work.on].version = work.version
  /\ work' = [work EXCEPT !.status = "queued", !.on = 0]
  /\ UNCHANGED <<durable, pc, local>>

(* The lease runs out, because the attempt crashed or left it behind; the  *)
(* sweep queues the run again, or gives it up after the last attempt.      *)
LeaseExpires ==
  /\ work.status = "leased"
  /\ pc = "idle" \/ "crash" \in Faults
  /\ work' = [work EXCEPT !.preempt = FALSE,
                !.status = IF work.cancel THEN "cancelled"
                           ELSE IF work.fence < MaxFence THEN "queued" ELSE "failed"]
  /\ EndAttempt
  /\ UNCHANGED durable

AttemptStep ==
  \/ Preempted \/ Cancelled
  \/ ExecuteDecidedApproval \/ RecoverWait \/ LoadContext \/ RestoreCall \/ OpenSession
  \/ Hop \/ SaveCheckpoint \/ DropAnswer \/ ProposeCalls \/ ProposeText \/ Review
  \/ SkipCalls \/ StartBatch \/ RunBatch \/ CallThrew \/ FinishBatch \/ Park \/ EndCalls
  \/ Conclude \/ Commit

Next ==
  \/ Claim \/ AttemptStep \/ ModelFails \/ Drained
  \/ Revise \/ RequestStop \/ Decide \/ ResumeDecided \/ LeaseExpires

(* The worker process runs its attempt; the timer of the control plane     *)
(* expires leases that nobody renews and wakes decided runs.               *)
LeaseLapses == pc = "idle" /\ LeaseExpires
Spec == Init /\ [][Next]_vars /\ WF_vars(AttemptStep) /\ WF_vars(LeaseLapses) /\ WF_vars(ResumeDecided)

(***************************************************************************)
(* What the loop promises.                                                 *)
(***************************************************************************)
(* A committed result was written for the request version it is stamped    *)
(* with, however a retained candidate, a revision, a restart and a         *)
(* terminal error interleave (rememberCandidate, applySteering, commit).   *)
AnswerIsCurrent == result.for = result.stamp

(* The model never sees a call without its output: steering closes the     *)
(* calls it skips and a restored session resolves the ones a crash left.   *)
ModelSeesPairs == pc = "model" => Pending(sess) = {}

(* No effect happens twice: not by recovering an interrupted call, not by  *)
(* executing a decided approval.                                           *)
EffectOnce == \A n \in Calls : runs[n] <= 1

(* A parked run waits on a question or an approval of its current version, *)
(* and the call that asked is closed in the saved history.                 *)
ParkedCanWake ==
  work.status = "waiting" =>
    /\ work.on \in row.outs /\ Mine(work.on)
    /\ receipt[work.on] \in {"pending", "defer"} /\ made[work.on].version = work.version

(* Every attempt ends: corrections, repairs and retries are bounded, and a *)
(* lease that was left behind expires.                                     *)
AttemptEnds == work.status = "leased" ~> work.status # "leased"

(* A decision resumes its run even if it was taken before the run parked.  *)
DecidedResumes == (work.status = "waiting" /\ work.on \in decided) ~> work.status # "waiting"

(* docs/performance.md: a revision aborts the old generation and the run   *)
(* continues with the new version.  Without any fault a run never fails.   *)
RevisionContinues == work.status # "failed"
=============================================================================
