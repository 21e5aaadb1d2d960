------------------------------ MODULE Learning ------------------------------
(***************************************************************************)
(* How finished runs become memory: the capture queue, the evidence and    *)
(* its share in every scope, the reflection jobs that turn evidence into   *)
(* documents, and forgetting.  A transaction is one action; model calls    *)
(* and privacy hooks run between two of them.  Texts, thresholds and due   *)
(* times are left out: what is due may be scheduled.  All runs belong to   *)
(* one agent and principal and are authorized for every scope.             *)
(***************************************************************************)
EXTENDS Integers, FiniteSets, Sequences

CONSTANTS
  Sources,      \* runs whose result may be learned from
  Scopes,       \* memory scopes
  Drains,       \* processes that drain the capture queue
  CaptureTries, \* claims of one queue entry (5 in the code)
  JobTries,     \* attempts of one reflection job (3 in the code)
  MaxJobs,      \* jobs explored
  MaxEpoch      \* forgettings of one scope explored

ASSUME LearningAssumption ==
  /\ 0 \notin Sources /\ MaxEpoch \in Nat /\ MaxJobs \in Nat
  /\ CaptureTries \in Nat /\ JobTries \in Nat

VARIABLES
  epoch,    \* agent_memory_scopes.epoch
  born,     \* per run: the epochs when it was created (created_at against forgotten_at)
  queue,    \* agent_memory_capture: state, attempts, claim token
  drain,    \* per process: the claim it works on
  evid,     \* agent_memory_evidence: status and scopes
  share,    \* agent_memory_evidence_scopes: status, epoch and job
  job,      \* memory_synthesis work items
  learned,  \* history: per scope and run, how often a change built on it was applied
  tainted,  \* history: per scope, the runs a forgetting made unusable
  leaked    \* history: a write used a run that was tainted for its scope

lvars == <<epoch, born, queue, drain, evid, share, job, learned, tainted, leaked>>

Unborn == -1
NoShare == [st |-> "none", ep |-> 0, job |-> 0]
Free == [r |-> 0, tok |-> 0]

LearningInit ==
  /\ epoch = [s \in Scopes |-> 0] /\ born = [r \in Sources |-> [s \in Scopes |-> Unborn]]
  /\ queue = [r \in Sources |-> [st |-> "none", att |-> 0]]
  /\ drain = [d \in Drains |-> Free]
  /\ evid = [r \in Sources |-> [st |-> "none", scopes |-> {}]]
  /\ share = [s \in Scopes |-> [r \in Sources |-> NoShare]]
  /\ job = <<>>
  /\ learned = [s \in Scopes |-> [r \in Sources |-> 0]]
  /\ tainted = [s \in Scopes |-> {}] /\ leaked = FALSE

(* lockMemoryScopes and currentMemoryScopes: the scopes that have not been *)
(* forgotten since the run was created.                                    *)
CurrentScopes(r) == {s \in Scopes : born[r][s] = epoch[s]}

(***************************************************************************)
(* Runs and the capture of their results.                                  *)
(***************************************************************************)
Created(r) == born[r] # [s \in Scopes |-> Unborn]

RunStarts(r) ==
  /\ ~Created(r) /\ born' = [born EXCEPT ![r] = epoch]
  /\ UNCHANGED <<epoch, queue, drain, evid, share, job, learned, tainted, leaked>>

(* A reviewed memory tool call of a running run.                           *)
ToolWrite(r, s) ==
  /\ Created(r) /\ queue[r].st = "none" /\ s \in CurrentScopes(r)
  /\ leaked' = (leaked \/ r \in tainted[s])
  /\ UNCHANGED <<epoch, born, queue, drain, evid, share, job, learned, tainted>>

(* The result transaction enqueues a reference to the result.              *)
RunCommits(r) ==
  /\ Created(r) /\ queue[r].st = "none" /\ queue' = [queue EXCEPT ![r].st = "ready"]
  /\ UNCHANGED <<epoch, born, drain, evid, share, job, learned, tainted, leaked>>

(* drainMemoryCapture claims an entry that is free or whose claim ran out; *)
(* the token is the number of the claim.                                   *)
ClaimCapture(d, r) ==
  /\ drain[d] = Free /\ queue[r].st \in {"ready", "claimed"} /\ queue[r].att < CaptureTries
  /\ queue' = [queue EXCEPT ![r] = [st |-> "claimed", att |-> @.att + 1]]
  /\ drain' = [drain EXCEPT ![d] = [r |-> r, tok |-> queue[r].att + 1]]
  /\ UNCHANGED <<epoch, born, evid, share, job, learned, tainted, leaked>>

Holds(d) == queue[drain[d].r].st = "claimed" /\ queue[drain[d].r].att = drain[d].tok

(* The scopes evidence is installed for, with their epochs.                *)
CaptureScopesPrepared(r) == Scopes
CaptureScopes(r) == CurrentScopes(r)

(* The evidence transaction after the hooks: refused if the claim was      *)
(* taken over meanwhile, and nothing is kept for forgotten scopes.         *)
CommitCapture(d) ==
  /\ drain[d] # Free
  /\ LET r == drain[d].r
         S == CaptureScopes(r)
         install == Holds(d) /\ S # {} /\ evid[r].st = "none"
     IN /\ evid' = IF install THEN [evid EXCEPT ![r] = [st |-> "pending", scopes |-> S]] ELSE evid
        /\ share' = IF install
                    THEN [s \in Scopes |-> IF s \in S
                           THEN [share[s] EXCEPT ![r] = [st |-> "pending", ep |-> epoch[s], job |-> 0]]
                           ELSE share[s]]
                    ELSE share
        /\ queue' = IF Holds(d) THEN [queue EXCEPT ![r].st = "done"] ELSE queue
  /\ drain' = [drain EXCEPT ![d] = Free]
  /\ UNCHANGED <<epoch, born, job, learned, tainted, leaked>>

(* A hook or the storage fails: the entry is free again, if still ours.    *)
CaptureFails(d) ==
  /\ drain[d] # Free
  /\ queue' = IF Holds(d) THEN [queue EXCEPT ![drain[d].r].st = "ready"] ELSE queue
  /\ drain' = [drain EXCEPT ![d] = Free]
  /\ UNCHANGED <<epoch, born, evid, share, job, learned, tainted, leaked>>

(***************************************************************************)
(* Reflection jobs.                                                        *)
(***************************************************************************)
Usable(s, r) == share[s][r].st = "pending" /\ evid[r].st \in {"pending", "processed"}
Due(s) == {r \in Sources : Usable(s, r) /\ share[s][r].job = 0 /\ share[s][r].ep = epoch[s]}

(* The job of a reflection key that is still expected to do its work.      *)
ActiveJob(j) ==
  \/ job[j].st \in {"queued", "leased"}
  \/ job[j].st = "failed" /\ job[j].att < JobTries /\ ~job[j].cancel

Schedule(s) ==
  /\ Due(s) # {} /\ Len(job) < MaxJobs
  /\ \A j \in 1 .. Len(job) : job[j].scope = s /\ job[j].ep = epoch[s] => ~ActiveJob(j)
  /\ job' = Append(job, [scope |-> s, ep |-> epoch[s], st |-> "queued", att |-> 0, cancel |-> FALSE,
                         snapAt |-> 0, snap |-> {}, held |-> FALSE])
  /\ share' = [share EXCEPT ![s] = [r \in Sources |->
                 IF r \in Due(s) THEN [share[s][r] EXCEPT !.job = Len(job) + 1] ELSE share[s][r]]]
  /\ UNCHANGED <<epoch, born, queue, drain, evid, learned, tainted, leaked>>

(* The claim of a job; its attempts number its fences.  held: an attempt   *)
(* of a live lease works on it.                                            *)
ClaimJob(j) ==
  /\ job[j].st = "queued" \/ (job[j].st = "leased" /\ ~job[j].held)
  /\ job[j].att < JobTries /\ ~job[j].cancel
  /\ job' = [job EXCEPT ![j].st = "leased", ![j].att = @ + 1, ![j].held = TRUE]
  /\ UNCHANGED <<epoch, born, queue, drain, evid, share, learned, tainted, leaked>>

LoseJob(j) ==
  /\ job[j].st = "leased" /\ job[j].held /\ job' = [job EXCEPT ![j].held = FALSE]
  /\ UNCHANGED <<epoch, born, queue, drain, evid, share, learned, tainted, leaked>>

Running(j) == job[j].st = "leased" /\ job[j].held /\ ~job[j].cancel
Batch(j) == {r \in Sources : Usable(job[j].scope, r) /\ share[job[j].scope][r].job = j
                             /\ share[job[j].scope][r].ep = epoch[job[j].scope]}
Finished(j, st) == [job EXCEPT ![j].st = st, ![j].held = FALSE]

(* memory_synthesis.load: the batch is remembered with the fence; nothing  *)
(* to do ends the job.                                                     *)
Load(j) ==
  /\ Running(j) /\ job[j].snapAt # job[j].att
  /\ job' = IF job[j].ep # epoch[job[j].scope] \/ Batch(j) = {} THEN Finished(j, "succeeded")
            ELSE [job EXCEPT ![j].snapAt = job[j].att, ![j].snap = Batch(j)]
  /\ UNCHANGED <<epoch, born, queue, drain, evid, share, learned, tainted, leaked>>

SettledNot(old, approved) == old
SettledAs(old, approved) ==
  IF old.st = "pending" THEN [old EXCEPT !.st = IF approved THEN "processed" ELSE "rejected"] ELSE old

(* Evidence is processed once some scope used it, rejected when none may.  *)
EvidenceAfter(r, sh) ==
  IF evid[r].st = "superseded" THEN "superseded"
  ELSE IF \E s \in Scopes : sh[s][r].st = "processed" THEN "processed"
  ELSE IF \E s \in Scopes : sh[s][r].st = "pending" THEN "pending" ELSE "rejected"

(* memory_synthesis.apply: refused unless the batch is the one loaded      *)
(* under this fence.                                                       *)
SnapshotCurrent(j) == job[j].snapAt = job[j].att /\ job[j].snap = Batch(j)

Apply(j, approved) ==
  /\ Running(j) /\ job[j].snapAt = job[j].att
  /\ IF job[j].ep # epoch[job[j].scope] \/ Batch(j) = {}
     THEN job' = Finished(j, "succeeded") /\ UNCHANGED <<share, evid, learned, leaked>>
     ELSE IF ~SnapshotCurrent(j)
     THEN job' = Finished(j, "failed") /\ UNCHANGED <<share, evid, learned, leaked>>
     ELSE LET s == job[j].scope
              used == job[j].snap
          IN /\ share' = [share EXCEPT ![s] = [r \in Sources |->
                            IF share[s][r].job = j THEN SettledAs(share[s][r], approved) ELSE share[s][r]]]
             /\ evid' = [r \in Sources |-> IF r \in used THEN [evid[r] EXCEPT !.st = EvidenceAfter(r, share')] ELSE evid[r]]
             /\ learned' = IF approved THEN [learned EXCEPT ![s] = [r \in Sources |-> IF r \in used THEN @[r] + 1 ELSE @[r]]]
                           ELSE learned
             /\ leaked' = (leaked \/ (approved /\ used \cap tainted[s] # {}))
             /\ job' = [job EXCEPT ![j].snapAt = 0]
  /\ UNCHANGED <<epoch, born, queue, drain, tainted>>

CompleteJob(j) ==
  /\ job[j].st = "leased" /\ job[j].held /\ Batch(j) = {} /\ job' = Finished(j, IF job[j].cancel THEN "cancelled" ELSE "succeeded")
  /\ UNCHANGED <<epoch, born, queue, drain, evid, share, learned, tainted, leaked>>

FailJob(j) ==
  /\ job[j].st = "leased" /\ job[j].held /\ job' = Finished(j, IF job[j].cancel THEN "cancelled" ELSE "failed")
  /\ UNCHANGED <<epoch, born, queue, drain, evid, share, learned, tainted, leaked>>

(* retryMemorySynthesis, one statement after the other: exhausted jobs     *)
(* fail, failed ones with work left are queued again, and what belongs to  *)
(* a job that will not run is rejected.                                    *)
Exhausted(j) == job[j].att >= JobTries /\ (job[j].st = "queued" \/ (job[j].st = "leased" /\ ~job[j].held))
Retried(j, st) == st = "failed" /\ job[j].att < JobTries /\ ~job[j].cancel
                  /\ \E r \in Sources : share[job[j].scope][r].job = j /\ share[job[j].scope][r].st = "pending"
Sweep ==
  /\ LET st1 == [j \in 1 .. Len(job) |-> IF Exhausted(j) THEN "failed" ELSE job[j].st]
         st2 == [j \in 1 .. Len(job) |-> IF Retried(j, st1[j]) THEN "queued" ELSE st1[j]]
         dead == {j \in 1 .. Len(job) : st2[j] = "cancelled" \/ (st2[j] = "failed" /\ job[j].att >= JobTries)}
     IN /\ job' = [j \in 1 .. Len(job) |-> [job[j] EXCEPT !.st = st2[j],
                     !.snapAt = IF st2[j] = "queued" /\ st1[j] = "failed" THEN 0 ELSE @]]
        /\ share' = [s \in Scopes |-> [r \in Sources |->
                       IF share[s][r].st = "pending" /\ share[s][r].job \in dead
                       THEN [share[s][r] EXCEPT !.st = "rejected"] ELSE share[s][r]]]
  /\ <<job, share>>' # <<job, share>>
  /\ UNCHANGED <<epoch, born, queue, drain, evid, learned, tainted, leaked>>

(***************************************************************************)
(* Forgetting.                                                             *)
(***************************************************************************)
Forget(s) ==
  /\ epoch[s] < MaxEpoch
  /\ LET old == {r \in Sources : s \in evid[r].scopes}
     IN /\ epoch' = [epoch EXCEPT ![s] = @ + 1]
        /\ evid' = [r \in Sources |-> IF r \in old THEN [evid[r] EXCEPT !.st = "superseded"] ELSE evid[r]]
        /\ share' = [t \in Scopes |-> [r \in Sources |->
                       IF evid'[r].st = "superseded" THEN [share[t][r] EXCEPT !.st = "superseded"] ELSE share[t][r]]]
        /\ tainted' = [t \in Scopes |-> IF t = s THEN {r \in Sources : Created(r)} ELSE tainted[t] \cup old]
  /\ job' = [j \in 1 .. Len(job) |->
               IF job[j].scope = s /\ job[j].st \in {"queued", "leased", "failed"}
               THEN [job[j] EXCEPT !.cancel = TRUE, !.snapAt = 0, !.st = IF @ = "queued" THEN "cancelled" ELSE @]
               ELSE job[j]]
  /\ UNCHANGED <<born, queue, drain, learned, leaked>>

LearningNext ==
  \/ \E r \in Sources : RunStarts(r) \/ RunCommits(r) \/ \E s \in Scopes : ToolWrite(r, s)
  \/ \E d \in Drains : CommitCapture(d) \/ CaptureFails(d) \/ \E r \in Sources : ClaimCapture(d, r)
  \/ \E s \in Scopes : Schedule(s) \/ Forget(s)
  \/ \E j \in 1 .. Len(job) : \/ ClaimJob(j) \/ LoseJob(j) \/ Load(j) \/ CompleteJob(j) \/ FailJob(j)
                              \/ \E approved \in BOOLEAN : Apply(j, approved)
  \/ Sweep

LearningSpec == LearningInit /\ [][LearningNext]_lvars

(* The maintenance loop schedules and sweeps; workers claim jobs, and an   *)
(* attempt that is not lost goes on to an end.                             *)
LearningFairness ==
  /\ WF_lvars(Sweep) /\ \A s \in Scopes : WF_lvars(Schedule(s))
  /\ \A j \in 1 .. MaxJobs :
       /\ WF_lvars(j \in DOMAIN job /\ ClaimJob(j))
       /\ WF_lvars(j \in DOMAIN job /\ (Load(j) \/ CompleteJob(j) \/ FailJob(j) \/ \E a \in BOOLEAN : Apply(j, a)))
LearningFairSpec == LearningSpec /\ LearningFairness

ShareStates == {"none", "pending", "processed", "rejected", "superseded"}
JobRec == [scope : Scopes, ep : Nat, st : {"queued", "leased", "failed", "succeeded", "cancelled"}, att : Nat,
           cancel : BOOLEAN, snapAt : Nat, snap : SUBSET Sources, held : BOOLEAN]

LearningTypeOK ==
  /\ epoch \in [Scopes -> 0 .. MaxEpoch] /\ born \in [Sources -> [Scopes -> -1 .. MaxEpoch]]
  /\ queue \in [Sources -> [st : {"none", "ready", "claimed", "done"}, att : Nat]]
  /\ drain \in [Drains -> [r : Sources \cup {0}, tok : Nat]]
  /\ evid \in [Sources -> [st : ShareStates, scopes : SUBSET Scopes]]
  /\ share \in [Scopes -> [Sources -> [st : ShareStates, ep : Nat, job : Nat]]]
  /\ job \in Seq(JobRec) /\ Len(job) <= MaxJobs
  /\ learned \in [Scopes -> [Sources -> Nat]] /\ tainted \in [Scopes -> SUBSET Sources] /\ leaked \in BOOLEAN
  /\ \A s \in Scopes, r \in Sources : share[s][r].job <= Len(job)

(***************************************************************************)
(* What learning promises.                                                 *)
(***************************************************************************)
(* An old task, retried, moved to another worker or captured late, never   *)
(* writes what was forgotten back, in the forgotten scope or, for evidence *)
(* shared with it, in another.                                             *)
NothingForgottenReturns == ~leaked

(* However often a job is retried or its answer lost, an interaction is    *)
(* turned into memory once per scope.                                      *)
LearnedOnce == \A s \in Scopes, r \in Sources : learned[s][r] <= 1

(* Evidence that waits for reflection is eventually used, rejected or      *)
(* forgotten.                                                              *)
ReflectionSettles ==
  \A s \in Scopes, r \in Sources : share[s][r].st = "pending" ~> share[s][r].st # "pending"

(* memory/evidence.ts, capture.ts, synthesis.ts: what was forgotten does   *)
(* not come back and evidence is learned from once.                        *)
LearningSafe == LearningTypeOK /\ NothingForgottenReturns /\ LearnedOnce
=============================================================================
