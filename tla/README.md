# TLA+ verification of LingxiOS

LingxiOS runs durable AI agents. A PostgreSQL control plane keeps every request
as a work item, hands it to workers under fenced leases, executes the tools the
agent calls, accounts for model usage and delivers events and results to the
product that embeds it. Workers, the control plane and the product are separate
processes: any of them may stop, stall, or repeat what it already did.

This directory holds specifications of the parts where that is hard, the TLC
instances that check them, and theorems that TLAPS proves for every value of the
constants. `PROJECT.json` maps each definition to the source lines it stands
for. Source paths below are relative to `src/src/`.

    tlc -workers 2 -config MCQueue.cfg MCQueue     # a run
    tlapm WorkStoreLeaseProofs.tla                 # the proofs of a module

## 1. Inventory

| Component | State it keeps | Operations | What is hard about it | Module |
|---|---|---|---|---|
| Work queue: `control-plane/pg-store.ts`, `app/jobs.ts`, `db/schema.sql` | `agent_work_items`, `agent_os_session_leases`, `agent_os_session_routes`, `agent_attempts` | claim, heartbeat, yield, complete, fail, wait, preempt, cancel, steer, enqueue, enqueue child | stale proofs, expiry against renewal, one lease per session, routing epochs | WorkStore |
| Scheduler sweep: `control-plane/scheduler.ts` | none of its own | ask overdue leases to yield, fence off those that do not | fences a worker that is alive | WorkStore |
| Dependency sweep and graphs: `control-plane/dependencies.ts`, `collaboration/graphs.ts` | `agent_work_waits`, `meta.dependsOn` | block dependents, resume parents, wait for a set of children | children finish before the parent parks; failed branches | WorkStore |
| Results: `app/index.ts`, `protocol/outcome.ts` | `agent_results`, `agent_request_snapshots` | commit a result with the end of the lease, save the request | a revision races the commit | WorkStore |
| Operator operations: `app/index.ts`, `app/input.ts` | the same rows | cancelRun, reviseRun, continueInput, reconcileAction, resolveAction, enqueueDelegated | revive rows that have ended | WorkStore |
| Host actions: `control-plane/service.ts`, `tools/executor.ts`, `control-plane/approvals.ts` | `agent_action_intents`, `agent_action_ledger`, `agent_action_resolutions`, `agent_approvals` | executeAction, decideApproval, reconcilePending, resolveAction | handlers of one action side by side, lost answers, crashes between an external call and its receipt | ActionLedger |
| Delivery outbox: `control-plane/outbox.ts` | `agent_run_events`, `agent_delivery_outbox` | claim, deliver, acknowledge, fail, sweep, retry | claims outlived, late arrivals, order, attempt limit | Outbox |
| Model budget: `control-plane/pg-store.ts`, `model/execution.ts` | `agent_model_budgets`, `agent_model_budget_calls` | reserve, record, invoke's retry loop | repeated and late requests, the last token shared by parallel runs | ModelBudget |
| In-memory store: `control-plane/memory-store.ts` | maps of rows, session leases, routes, remembered claims | the queue's operations without SQL | maps with deadlines of their own, a claim repeated after a lost answer, cascades with awaits in between | MemoryStore |
| Agent runtime: `runtime/runtime.ts`, `runtime/corrections.ts`, `control-plane/steps.ts`, `app/recover-wait.ts` | `agent_os_sessions`, `agent_steps`, the attempt's locals | claim, restore, hop, steer, batch of calls, park, conclude, commit | a revision, stop or crash between any two calls to the host; approvals decided before the run parks | Turn |
| History compaction: `runtime/compaction.ts` | the session's history and summary, a background candidate | compact, prepare, install | a candidate of an older history; pairs of calls and outputs | Compaction |
| Worker loop: `worker/worker.ts`, `control-plane/wakeup.ts` | slots, notification versions, LISTEN connection | poll, claim, wait, stop, drain | lost notifications, answers while stopping, slots | Worker |
| Resource quota: `resource-quota.ts` | slots and waiting queue of a process | run, abort, release | slots that outlive a cancelled caller, foreground reservation | Quota |
| Kernel manager: `kernel/manager.ts`, `kernel/runner.py`, `kernel/freeze.ts` | kernel processes, their chains of cells, waiters | execute, evict, kill, freeze, restore, sweep, close | a full pool, death at any moment, wake-ups | Kernel |
| Workspaces: `kernel/workspace.ts`, `app/workspaces.ts` | a home directory, `agent_workspace_checkpoints`, stored objects | capture, stage, save with the step, restore, maintenance | collection against a commit, two attempts over one home | Workspace |
| Memory documents: `memory/store.ts`, `memory/review.ts`, `memory/semantic.ts` | `agent_memories`, versions, commands, reviews, embeddings | write, repeat, restore, forget, review, apply, index | a judgement or an embedding of a text that has changed | Documents |
| Memory learning: `memory/capture.ts`, `memory/evidence.ts`, `memory/synthesis.ts`, `memory/forget.ts` | capture queue, evidence, shares per scope, jobs | capture, schedule, load, apply, retry, forget | forgetting races everything | Learning |
| Memory evolution: `memory/evolution.ts` | candidates, evaluations, pinned references | propose, record, finish, roll back, pin | the baseline changes under an evaluation | Evolution |
| Shared state: `collaboration/state.ts` | versions per field, operation receipts | update, read history | concurrent edits, repeated operations, numbers out of commit order | SharedState |
| Realtime previews: `runtime/preview.ts`, `app/realtime.ts`, `ui/index.ts` | a draft buffer, a snapshot per run, subscribers | push, upload, recover, admit, stream, show | drafts of a superseded attempt, gaps after a reconnect | Preview |
| Artifacts, HTTP transport, context and prompts, outcome checks, research, CLI, evaluation | files, text | | I/O, text assembly and pure predicates over documents | not modelled |

How they interact. A worker claims a work item and receives a *proof*: the
work's id, its fence and a token. Every later call carries the proof, and the
control plane compares it with the row in the WHERE clause of the statement that
acts. A run's tools go through executeAction under the same proof, its model
calls through the budget, its events and its result through the outbox. A parent
creates children and parks; the dependency sweep resumes it. Revising or
cancelling a request cancels the children of its earlier versions. Operators act
on the rows without a proof.

What has to be right:

* queue - one live lease per session; an ended attempt's proof never matches
  again; a home directory's epoch has one owner; a healthy lease is fenced off
  only after a request to yield and a grace period (it is not, see section 5);
  cancelled runs neither start nor succeed; children end with their
  parent; a result answers the last revision; a waiting parent resumes;
* actions - an uncertain request leaves at most once; a transactional effect and
  its receipt agree; nothing runs unapproved; what was settled stays settled;
* outbox - events arrive in order; what is acknowledged has arrived; attempts
  are bounded and every event settles;
* budget - counters agree with the calls; no call reaches the provider without a
  reservation; the limit is exceeded by wrong estimates only.

* runtime - an answer is of the version it is stamped with; the model sees every
  call with its output; an effect is not repeated by a recovery; a parked run can
  be woken; every attempt ends;
* kernels and workspaces - one kernel per session and a bounded pool, no terminated
  kernel handed out again, only idle kernels evicted, every cell settles; a committed checkpoint can be read back
  and a cell starts from it;
* memory - what was forgotten does not return; evidence is used once; a protected
  document changes as it was judged; a strategy replaces the baseline it was
  compared with;
* processes - no wake-up is lost, slots are kept, a drained worker leaves nothing;
* history, drafts, shared state - nothing is lost, divided or shown to the wrong
  reader.

`PROJECT.json` lists under `hazards` the places in the code where each of these
could fail, with the property that would show it.

## 2. The modules

### WorkStore

One variable per column of `agent_work_items` that control depends on
(`status`, `fence`, `token`, `expires`, `available`, `cancel`, `preempt`,
`version`, `lane`, `goal`, `result`, ...) and one per table beside it
(`sessionLease`, `route`, `attempts`, `waits`, `snapshot`, `unknown`). Every SQL
transaction is one action.

* *Proofs.* A call with a proof is enabled for every fence ever issued for the
  work (`Issued`), so a worker may present the proof of any attempt at any time;
  `HoldsLease` is the WHERE clause. A worker's own state is not needed for that.
* *Time.* `clock` is the database clock. NOW() is fixed when a statement starts,
  so a statement that waited for a lock acts with a stamp `t` that lags behind
  the clock by up to `MaxLag` (`Stamp`). `MaxLag = 0` is a statement that does
  not wait.
* *Trigger.* The attempt trigger of `db/schema.sql` is `EndAttempts`, part of
  each action that changes status or fence.
* *Tree.* `Parent` and `Deps` are constants: the ids and edges a child would be
  created with. Creating the row is the action `InsertChild`, with its checks.
* *Outcomes.* What a run achieved is chosen freely from `Outcomes`; the checks on
  an outcome (`CommitGoals`, `WaitGoals`, `Accepted`) are the code's.

Left out: `last_seen_at` of workers (written, and read by no decision of claim);
the memory work kinds' limit of attempts (in Learning); replay of a claim request
whose answer was lost (`agent_claim_requests`; in MemoryStore, whose protocol is
the same); the cap of 64 children. resolveAction's two
statements are one action.

### SessionLock

What the queue promises about sessions: a lock per session that is granted when
free, to a run with a larger fence than ever before, and released. `WorkStore`
implements it: `LockSpec` instantiates it with `holder` the work whose lease on
the session is live (`Holder`) and `granted` the fences. So does `MemoryStore`
(`StoreImplementsLock`): the two stores are interchangeable in this respect.

### ActionLedger

One run's write actions. A member of `Call` is a handler on the control plane;
its `pc` marks the awaits between which another handler may act. `Begin` ...
`RecordResult` follow executeAction statement by statement; `ExecuteExternal`,
`Send`, `Answer` and `ExecuteTransaction` the tool executor; `Gate` and `Shown`
the approval check and its preview; `Reconcile` the reconciler. `Crash` kills a
handler at any step, `LoseLease`, `Claim`, `Revise` and `Cancel` are the run's
own changes. External: `flying`, `sent` and `applied` are the service the tool
talks to; a request may land after its handler gave up.

Assumptions about what is not in the repository: an idempotent service applies
an action once; a reconciler and an operator report what is applied at that
moment. Left out: read tools, the built-in namespaces, validation of arguments.
An operator's second resolution with another value counts as a new one. A tool
sends one request per execution.

### Outbox

The events and results of one run, and the lanes that deliver them. A lane
claims a row with a fresh token (`ClaimRow`), calls the transport (`Transmit`,
`Arrive`), and acknowledges or fails the row if the token is still its own
(`Owns`). Stalling needs no action: `due` (available_at <= NOW()) returns by
itself (`BecomeDue`) while the lane still holds the row, and another lane may
then claim it. A request of a lane that gave up or died may still arrive
(`late`, `ArriveLate`). `SweepExhausted` fails rows at the attempt limit whose
lane died. Meanwhile the run is claimed, fails, is cancelled and commits
(`RunMoves`, `CommitResult`).

Abstractions: a lane's name is its token (one claim at a time); a result is
current by status, fence and result id, which subsumes the comparison of request
versions; each behaviour follows the lanes of one table, since neither reads the
rows of the other. `received` is a set: a receiver deduplicates by id. The outbox of
usage observations (`agent_model_budget_calls`) has neither order nor condition and is left out, as is the deletion of
old rows.

### ModelBudget

The runs (`Caller`) of one request tree, invoke's loop in each, and the root
budget. `Reserve` and `Record` are the two transactions; a request in `asked` or
`reported` may arrive never, late or again. `LoseLease` and `Reclaim` start a new
attempt, whose calls get new ids (the code's ids carry the fence). Tokens stand
for tokens and cost, which the same statements reserve and settle. Left out:
prices, rounding, clamping of limits by the policy. `timeLeft` is the execution
time of the tree, which only runs out.

### Turn

AgentRuntime.runWork and runTurn for one run and its attempts. Durable: the work
row, the saved session, steps, receipts, the decisions of people. Local to an
attempt, and lost with it: the session in memory, `pc`, the batch in execution,
the correction budget. An action is what runs between two calls to the host.
`Claim`, `ExecuteDecidedApproval`, `RecoverWait`, `LoadContext`, `RestoreCall` ...
`OpenSession` start an attempt; `Hop`, `ProposeCalls`, `ProposeText`, `Review`,
`SkipCalls`, `StartBatch`, `RunBatch`, `FinishBatch`, `Park`, `Conclude`, `Commit` are
the loop; `Revise`, `RequestStop`, `Decide`, `ResumeDecided` and `LeaseExpires` happen
around it. In `RunBatch` a call may answer, fail, or throw: a host call that
throws or has no answer after 30 seconds, whatever it did, leads to `CallThrew`,
where the run ends, or concludes with the candidate it kept. A cell is told of such
a call by the kernel and goes on. `Kinds` chooses the tools an answer may call (a repeatable write, one
that may not be repeated, a Python cell), `Leftover` what an earlier run of the
session left unfinished, `Faults` which faults occur. A text is the version it
was written for.

### Kernel

The pool of one worker process. `cell` is the fate of each submitted cell, `on` its
instance, `chain` the order inside a kernel, `pool` the manager's map. An action is
what runs between two awaits. Which idle kernel is evicted is left open (the code
takes the least recently used). `Freeze`/`Resume` surround a capture,
`StopForRestore`/`Stopped` a restoration.

A start has two awaits, and a kernel may be terminated in either. While the home
directory is being made (`kernel/manager.ts:144`) there is no process to kill:
`terminate` marks the kernel dead (`doomed`), start() goes on to spawn the process
all the same (`HomeMade`, now `stray`), and the ready frame (`manager.ts:225`) puts
the kernel back to ready (`revived`). When mkdir fails instead, the kernel stays
`starting` for ever without a process (`stuck`) and each later cell fails in it.

What `PoolKept` says is therefore about the kernels the manager may hand to a cell:
they are in its map, at most `maxKernels` and one per session, and a terminated one
is not handed out again though its process came up (`NeverReused`). The number of
*processes* is not bounded by `maxKernels`: one that was spawned after its kernel was
terminated counts for nothing (section 5).

### Workspace

Two runs of a session, their attempts (an expired one goes on), the home directory
and the kernel that has it open, checkpoints and stored objects. `Inspect` and
`Delete` are the two halves of the maintenance, between which a step may be
committed. A file's content is the number of the write that made it, and a capture
uploads the changed files in some order (`UploadOrder`).

### MemoryStore

MemoryWorkStore with `mrow`, `mlease`, `mroute`, `mclaims` for its maps; `answers`
remembers what each claim request was told, for as long as the store remembers the
request (an older one makes room at `MaxClaims`). The cascade of cancellations awaits
between children, so it is one action per child (`CascadeChild`). `Descendants` is
the least set closed under children; the code collects it level by level, 64 at most.

### Documents, Learning, Evolution

Every transaction is one action; model calls, privacy hooks and reviews fall
between two. *Documents*: an administrator's commands that may be repeated, an
agent's review bound to document, version, epoch, attempt and request, and an
index pass with the text it read. *Learning*: evidence with a share per scope,
`Schedule`, `Load`, `Apply`, `Sweep` (retryMemorySynthesis) and `Forget`; `tainted`
and `leaked` record what was derived from forgotten scopes. *Evolution*: one scope
and kind, any number of candidates; `asOf` and `clean` record what an evaluation
was compared with.

### Worker, Quota

*Worker*: rows as one worker sees them, the long poll on the version counter, the
LISTEN connection (which may drop), claims whose answers are lost, `Stop` and the
drain. `Faults` are bounded by `MaxFaults`. *Quota*: ResourceQuota's counters and
queue, the queue as the set of calls ahead of each waiting call (`waiters`);
`Drain` starts what a release lets start, `Abandon` is a caller that leaves while
its operation still works.

### Compaction, Preview, SharedState

*Compaction*: a history of texts, calls and outputs; `Boundary` computes the kept
suffix the way the code does, step by step, and is compared with `Reference`, the
largest boundary that divides no pair and holds no open call. *Preview*: buffer, uploads, snapshot,
stream and reducer, with a piece of text as a pair of provider call and place.
*SharedState*: the row, its lock, the operations by number, a reader with a cursor.

## 3. Runs

Parts that share no state are checked in one run (`MCQueue`, `MCResources`,
`MCRuntime` and `MCKnowledge` extend their parts): a behaviour picks a part at the
start (`which`) and leaves the others in their initial states. The states are
those of the separate instances, added, not multiplied, and each property speaks
of its own part.

| Run | Instance | What it shows |
|---|---|---|
| queue | Leases: 2 works of one session, 2 workers, TTL 2, 4 ticks, 3 fences. Tree: a root, two children, one behind the other, 2 fences, 2 versions | `SessionExclusive`, `AttemptLogKept`, refinement of SessionLock (`LockSpec`); `OrphanFree`, `RevisionAnswered`, `PrerequisitesMet` |
| actions | 1 action, 2 handlers, all kinds of tools, 2 attempts, 2 versions | `UncertainOnce`, `TransactionExact`, `ApprovedOnly`, `SettledStays` |
| delivery | Outbox: 2 lanes, 2 events or 2 results, 2 attempts of each, 2 attempts of the run. Preview: 2 provider calls, 2 uploads, drafts of 2 pieces, with 2 attempts and 3 frames or 2 versions and 2 frames | `EventsInOrder`, `AckedIsReceived`, `ResultsSerialized`; `DraftIsTrue` |
| resources | ModelBudget: 2 callers, 3 calls, 5 tokens. Quota: 6 calls, 2 slots, 1 reserved, queue of 2. Worker: 3 rows, 2 slots, 1 reserved, 2 faults | `BudgetExact`, `OverrunOnlyByEstimates`; `QuotaKept`; `LoopKept` |
| runtime | Turn: 2 attempts, 2 versions, 2 calls. Kernel: 2 sessions, 3 cells, 1 kernel, 3 instances; fair | `AnswerIsCurrent`, `ModelSeesPairs`, `EffectOnce`, `ParkedCanWake`, `AttemptEnds`, `DecidedResumes`; `PoolKept`, `CellsSettle` |
| progress | the tree; 1 lane, 2 events, a retry; 2 rows, 2 slots, 2 faults; fair | `DelegatedParentResumes`, `FailedBranchBlocks`; `EventsSettle`; `WorkFinishes` |
| knowledge | MemoryStore: a parent that may be revised and its child, 2 request ids. Workspace: 2 runs, 2 attempts, 3 checkpoints, 2 writes. Documents: 3 writes, 2 epochs. Learning: 1 run, 2 scopes. Evolution: 3 candidates. Compaction: 5 items. SharedState: 2 writers, 2 operations, 2 fields | `StoreSafe`, `StoreImplementsLock`; `WorkspaceSafe`; `DocumentsSafe`; `LearningSafe`; `EvolutionSafe`; `CompactionSafe`; `SharedSafe` |
| stale_heartbeat | the leases, `MaxLag = 1` | violated: `SessionExclusive` |
| stale_preempt | the leases, 4 fences, with the time of each claim | violated: `FencedAfterGrace` |
| overlapping_writes | 2 actions, 2 handlers | violated: `WritesAwaitSettlement` |
| revision_fails_run | Turn without faults | violated: `RevisionContinues` |
| learning_blocked | Learning, 2 runs, 2 scopes, fair | violated: `ReflectionSettles` |

The `...Safe` and `...Kept` properties conjoin the type invariant of their module
with the named parts in its last section (`MapsAgree`, `OneAnswer`, `NoOrphans`
for MemoryStore, and so on).

*Bounds.* queue, leases: with TTL 2 and 4 ticks a lease can be granted, renewed, run out,
be taken over, and run out again; 3 fences give three owners in a row, enough
for a session to move from one worker to another and back. queue, tree: time stands
still, so leases do not expire; expiry is the business of the leases, while every
order of revision, cancellation, wait and commit over one dependency edge is
here. The root may leave an effect unknown and be reconciled; a child may not,
see section 5. actions: two handlers are what it takes for one to overtake the
other at any await; counters of requests and effects stop at 2, which is where a
property fails. delivery: two events give an order, two lanes a lost claim; a
draft is superseded by a second attempt in one profile of Preview and by a second
version in the other, two uploads give a late one, drafts of two pieces with one
per frame a gap. Events are those of a run in a conversation, where they may also
be dropped; results are checked with and without one. resources: three calls of two callers,
with a limit that is reached in calls in some behaviours and in tokens in others;
more calls than slots and queue together, so that some are refused. runtime: the
second attempt restores what the first left, the second version supersedes the
first, two calls make a batch and a leftover; one kernel for two sessions makes
every submission an eviction or a wait. knowledge: each instance has the two
actors of its hazard and one step more than it takes to violate the property; the
in-memory store remembers every claim request there (two, with room for both), so
that a remembered claim makes room for another only in the proof of `StoreKept`.

The theorems of section 4 remove most of these bounds from the safety properties
they state: they hold for any number of works, workers, handlers, lanes, callers,
attempts, calls, jobs, sessions, kernels and steps.

*Deadlock* is not checked: a bounded instance stops at its bounds, and a finished
tree, a settled action or a delivered outbox has nothing left to do.

*Fairness.* WorkStore's fairness is of the workers together (some claim is made
while something is claimable, some held attempt is ended) and of the two sweeps.
`worker/worker.ts` claims in a loop and the server runs the sweeps from a
one-second timer, so each is attempted again and again. Which row a claim takes,
and what users and operators do, is not assumed. `DelegatedParentResumes` has an
exception that the code needs: a child that is asked to cancel and yields at the
same moment returns to the queue, where no claim takes it and no sweep ends it.
Outbox: weak fairness of the flush as a whole; lanes are restarted every second,
have deadlines, and time passes. Nothing is assumed of the network, of the
receiver or of a single lane. Turn: the attempt takes its next step (every call
to the host has a deadline), time ends a lease that is not renewed, and
resumeDecidedApprovals runs from the timer. Kernel: what is resolved in a process
runs (`CellGoesOn`), mkdir answers, a killed process exits, and a cell ends - by its
own result, the start's or the execution's time limit, or its caller's signal
(`CellEnds`); while the home is being made no timer runs, so nothing but mkdir is
relied on there. Worker: the loop runs, a run
that holds its lease ends, and a lease that nobody renews runs out; claims may
fail, connections may drop, but only `MaxFaults` times. Learning: timers and
workers run; how a job ends is open.

*Symmetry* is used for workers, handlers, lanes and callers in runs that check
safety only.

## 4. Proofs

All theorems are stated for arbitrary constants under the modules' ASSUMEs.

**WorkStoreProofs** - `TypeCorrect`: `TypeOK` is inductive. The properties of the
tree rest on `Moved`, a summary of what a step may do to one row, proved once per
action (`Moves`), and on `HasRun`: a row that is leased, has succeeded, has a
snapshot or has children was claimed once.

* `PrerequisitesStayMet`: fences grow under a lease or by a claim, which asks for
  the current, satisfied results of the prerequisites, and by `Moved` a row that
  succeeded keeps its result, its version and its cancel mark.
* `RevisionsAnswered`: by `Moved` a captured row is left as it ended, or ends with
  a goal of its version; a revision that comes first is in the version that the
  commit compares.
* `NoOrphans` has a hypothesis: no row with a parent leaves an effect unknown
  (`Uncertain`). It is needed: reconcileAction and resolveAction revive an ended
  row without looking at its parent (section 5).

**WorkStoreLeaseProofs** - A step is first classified by what it does to leases
(`StepKinds`): quiet, the clock, a claim, a renewal, a holder ending its lease,
or rows put back in the queue. Each invariant is then shown per class.

* `SessionsExclusive` (`MaxLag = 0`): exclusivity is not inductive, because the
  queue decides by the session row and the property speaks of work rows. The
  strengthening `SessionRowHeld` says that a live lease is exactly what its
  session row records.
* `AttemptsLogged`: `AttemptLogKept` from its two halves. That the open attempts are
  the leased rows (`AttemptLogAgrees`) needs that no attempt has a fence beyond its row's
  (`FencesBehind`), so that a claim's new fence is fresh. That an
  epoch has one owner (`EpochsOwned`) needs that no attempt has an epoch beyond its session's route,
  and that one at the route's epoch is of the route's worker (`RouteBound`).
* `LiveLeasesOwnRoutes` (`MaxLag = 0`): a claim moves the route only when the
  session row is free, hence when no lease of the session is live.
* `QueueImplementsLock` (`MaxLag = 0`): `Spec => LockSpec`, from `HolderExact`:
  under exclusivity the CHOOSE in `Holder` picks the only candidate.

The hypothesis `MaxLag = 0` is essential: the run stale_heartbeat refutes
exclusivity without it.

**ActionLedgerProofs** - `TypeInv` adds to `TypeOK` what a busy slot carries.

* `UncertainSentOnce`: `StarterInv` says that a handler that executes has an
  intent, that for an uncertain tool it is the one handler that inserted the
  intent, and that this one has not sent yet.
* `SettledForever`: case analysis of what a step does to receipts and
  resolutions (`ReceiptMoves`, `ResolutionMoves`).
* `TransactionsExact`, `EffectsApproved`, `SendingRecorded`: from
  `LedgerInv = CallInv /\ TransactionInv /\ ApprovalInv`, which ties each
  handler's step to the receipt and approval that let it get there.

**DeliveryProofs** - the outbox and the drafts.

* Outbox: `LaneInv` (a busy lane has a present row of its table) makes `TypeOK`
  inductive. `TokenInv` relates token, delivered, failed and attempts:
  `DeliveredFinal` and `ClaimsAreBounded` follow from it. `ResultsAreSerialized` is
  inductive over both. `AckedAreReceived` needs `ArrivalInv`: a lane about to
  acknowledge has an answer, and an answer implies arrival. `EventsKeepOrder` needs
  `OrderInv`: whatever is under way - held by a lane, late or received - has all
  events recorded ahead of it already delivered.
* `DraftKept` (Preview): nothing in the state says what a number of a frame stood
  for once the frame is gone, so the invariant supplies it: there is a record
  `told`, for each attempt the call and the end of the draft after each of its
  frames, such that everything on its way agrees with it (`Tells`) - the frames in
  a buffer (`BufferFits`), the frame an upload holds (`SentFits`), the snapshot,
  the one the stream sent last and what the screen shows (`ShownFits`). A buffer
  may rewrite what it told of frames that have not left it - a piece joins the
  last frame - and nothing else (`Retold`); this is shown of each operation
  (`Goes`). A snapshot that takes the next number then continues without a gap,
  and a delta against the snapshot sent last makes the whole draft, because equal
  numbers of an attempt mean equal lengths (`Deltas`). `ScreenInv` adds that the
  screen is of the state the stream has read.

**ModelBudgetProofs** - `BudgetTypeCorrect` and `CallsReserved`: `CallInv` says
that an admitted caller's current call has a row in `agent_model_budget_calls`,
with the bounds on invoke's counters; `CountInv` that `model_calls` is the number
of rows, that it is never above the limit, and that every call the provider saw
has a row. `BudgetIsExact` and `OverrunBounded`:
`SumInv` says that the token counter is the sum of the charges of the rows, and
above the limit only by what settled calls used beyond their estimates;
`LedgerInv` that ids are used once and in order, so that a late report meets its
own row. How a sum over a set changes when a member is added or its term changes
is proved first, by induction over a set of naturals.

**TurnProofs** - one inductive invariant, `TurnInv`, carries the five theorems about
Turn; `HistoryIsKept` is about Compaction.
`AttemptInv` says which locals are in use at each `pc` and that no version is ahead
of the request's; `TextInv` that what is retained, journalled or about to be
committed was written for the version of the session (`AnswersCurrent`); `PairInv`
that a call without its output is in a batch still in execution
(`PairsComplete`); `TodoInv` that the batches are disjoint and their calls
untouched until they run; `RunInv` that a call without a receipt, and one that may
be repeated while it has only an intent, has had no effect (`EffectsHappenOnce`).
`ParkedRunsCanWake` is inductive with these.

`HistoryIsKept` (Compaction) rests on the scan that closes the kept suffix over
pairs: where a pair is divided, no boundary between its call and the present one
divides none (`ScanStep`), so the recursion keeps the set of whole boundaries and
ends at its greatest (`ScanEnds`, by the least start at which it would not;
`ScanExists` shows that the recursion defines a function). With open calls left
out that is `Reference` (`BoundaryIs`). `FoldKeeps` folds at such a boundary:
calls stay before their outputs, nothing occurs twice, nothing is forgotten. `GrownFolds`
is why a candidate may be installed late: a boundary that was safe in a prefix is
safe in every history that goes on from it. `CompactionInv` adds what the
items' numbers and a settled candidate are.

**ResourceProofs** - three components of a worker process.

* `SlotsOfTheQuota` (Quota): the counters count the calls that hold a slot and
  are within their limits (`Counted`, `Bounded`), the calls of the queue are in an
  order (`Ordered`), and none of them is held back. A release then starts at most
  one of them, after which again none could start (`ReleaseStartsOne`).
* `LoopOfTheWorker` (Worker): `ClaimInv` says that what the loop found out before
  it asked for work still holds when the answer comes, `StopInv` that nothing
  starts after stop() took the list of runs it waits for, `WakeInv` that from an
  empty answer on a row that becomes claimable leaves a notification under way or
  an outdated cursor.
* `PoolOfKernels` (Kernel): `PoolInv` relates the map to the kernels (one that is
  alive is in the map under its session; one that was terminated while its home was
  being made is in the map only as long as a restore waits on it, hence out of it
  before its process is spawned: `Tame`), `KeyInv` says that a cell in flight is in a
  kernel of its session, `BornInv` numbers the kernels, so a new
  one is new, `SizeInv` bounds the map, and `ChainInv` says that the cells in
  flight are exactly those in the chains and that only the first of a chain has
  begun. `OnlyIdleEvicted` follows: the kernel that an eviction takes has an empty
  chain, hence no cell in flight.

**KnowledgeProofs** - what an agent remembers, the files of its sessions, and the
in-memory store.

* `StrategiesEvolve` (Evolution): a candidate is promoted only over the version it
  was compared with. Versions only grow (`Evolves`), so a reference to a strategy
  that was active and has been replaced never fits again; `BaseInv` says of an
  evaluation under way that its baseline is still the active version it was
  compared with, or is gone for good, in which case the verdict cannot promote.
  `PinInv`: a run that has pinned a strategy was shown no other.
* `StoreKept` (MemoryStore): `LeaseInv` - a session lease is of a leased row, under
  its fence and with its deadline, and a row whose lease is live has the session's -
  gives `MapsAgree`. `AnswerInv` - a request is remembered once with the one answer
  it got, and no remembered fence is beyond its row's, so that the fence of a new
  claim is new - gives `OneAnswer`, while requests are forgotten and used again.
  `CascadeInv` - the children a cascade has seen are over, and a child that was
  there when its parent ended is over or its parent's cascade still runs - gives
  `NoOrphans`; it needs that a cancelled tree is closed under children
  (`CancelTreeRows`), for a row that a cancellation ends starts no cascade.
* `StoreIsALock`: `StoreSpec => StoreImplementsLock`, from `LeaseInv`: of the
  operations, only claim grants, and it does so to a session that is free.
* `DocumentsKept` (Documents): `KeyInv` - the command of an administrator that was
  sent is among the recorded ones until somebody forgets or deletes - answers the
  repetition; `Judgment` - a review under way is of what the reviewer was shown -
  and `VectorInv` - no vector is of a version its document has not reached - carry
  the reviews and the index over every write that comes in between.
* `LearningKept` (Learning): every step is first summarised by what it may do to
  epochs, evidence and shares (`LearningMoves`). `TaintInv` - a run that a
  forgetting concerns is older than the scope's epoch or its evidence is superseded
  - with `ShareInv` - a share that waits is of the epoch its run was created in -
  refuses it wherever it arrives late; `CapturedInv` says that evidence comes from
  captured results only.
* `CheckpointsKept` (Workspace): `LastHolds` - only the last attempt can hold the
  lease, and a home that was left is not returned to - leaves one home to look at.
  `MarkedInv`: a kernel marked with the committed generation has the committed
  files. An attempt without the lease may run its cell in that home (`RunningInv`:
  then nobody else does, and the kernel is dirty) and capture it late; by `BehindInv`
  its base is not ahead of what is committed nor that ahead of the home, so a
  capture that finds no change has found the committed files. `RetentionInv`: what maintenance
  is about to delete is referenced by nothing and of an attempt that can no longer
  commit.
* `SharedStateKept` (SharedState): `HolderOfRow` - whoever is in a transaction
  holds the row's lock and read what is committed - and `PendingInv` - what is
  about to be committed is new, has the highest number, is beyond every reader's
  cursor and goes on from the row - so that the history grows by one write at a
  time (`OneMoreWrite`).

The type invariants, `LiveLeaseOwnsRoute`, `SentIsRecorded`, `DeliveredIsFinal`,
`ClaimsBounded` and `ProviderCallsReserved` are proved and not checked by a run
of their own.

Only model-checked: the liveness properties (fairness and ENABLED are out of the
prover's reach). Every safety property that a run expects to hold is proved.

## 5. Findings

1. `stale_heartbeat`: a heartbeat that waited for a row lock compares with the
   NOW() of its start and can revive a lease after a claim took the session
   over: two live leases in one session, against `control-plane/stores.ts:6`.
2. `stale_preempt`: the claim of an expired row keeps the request to yield that the
   ended attempt left unanswered (`control-plane/pg-store.ts:226`), and the watchdog
   (`control-plane/scheduler.ts:22`) takes it for one to the new attempt: a fresh,
   healthy lease is fenced off unasked, against `test/reliability.test.ts:129`. The
   run records beside the queue when each lease was claimed, as `started_at` does.
3. `overlapping_writes`: the check for unsettled writes and the insertion of the
   intent are separate statements: two writes pass together, against the refusal
   in `control-plane/service.ts:571`.
4. `revision_fails_run`: a revision between the loop's last refresh and its next
   saved step (`control-plane/steps.ts:61`) fails the run, against
   `docs/performance.md:17`.
5. `learning_blocked`: a failed job whose evidence was superseded by forgetting
   another scope is neither retried nor given up (`memory/evidence.ts:96`, `:139`),
   and blocks its scope for ever, against `docs/packaged-runtime.md:115`.

Observed while modelling, without a run of their own:

* claim moves a session to whichever worker asks, also away from a worker that is
  alive (`control-plane/pg-store.ts:213`), against `control-plane/stores.ts:7`;
* reconcileAction queues an ended child again under a parent that has ended
  (`app/index.ts:669`), and enqueueDelegated checks a saved request snapshot and
  creates a child of a superseded version (`app/index.ts:735`), both against
  `docs/im-collaboration.md:67`;
* a kernel terminated while its home directory is being made is spawned afterwards,
  outside the map and `maxKernels`, and runs until its input closes or the process
  ends (`kernel/manager.ts:144`, `:225`), against "killed (never reused)" of
  `kernel/manager.ts:11` in so far as it is not killed; it is never reused
  (`NeverReused`);
* a kernel may be evicted or swept between a cell's end and the capture of its
  workspace (`kernel/manager.ts:465`), so that its step cannot be saved; and an
  interrupted cell without receipts ends its run with an error instead of
  continuing from the last checkpoint (`runtime/runtime.ts:1261`): both against
  `docs/packaged-runtime.md:58`.

Hazards that no property covers:

* `control-plane/approvals.ts:54`: a resource may change after the preview that a
  person approved was compared and before an external request lands; no document
  says otherwise.
* `control-plane/service.ts:585`: an approved action of a tool without
  idempotency finds its own intent and goes to reconciliation; whether that is
  intended depends on the product's reconciler.
* `control-plane/service.ts:283`: a reconciler may find nothing while a stale
  handler is about to send. The later effect then stands against a settled
  receipt; nothing promises more.
* `control-plane/outbox.ts:92`: the claim locks one row and reads the others from
  its snapshot. Statements are atomic in Outbox; two results current within one
  statement's lifetime would be needed.
* `runtime/runtime.ts:217`: an event the worker gave up on may be recorded after
  the next one; `EventsInOrder` is about the order of recording.

## 6. Not modelled

* A product's shared RealtimeStore and several control planes over it: an external
  store whose consistency the repository does not state.
* Provider protocols (`model/openai.ts`), HTTP parsing and authentication
  (`control-plane/http-server.ts`, `host/http-client.ts`), fetching, artifacts and
  object storage: I/O. Their failures appear as lost and repeated calls.
* Prompts, context, presentation and outcome checks: text assembly and pure
  predicates over documents. Verdicts are free choices.
* Conversations and message ingestion, audiences and authorization.
* Ranking, search and embeddings; the statistics behind a verdict on a candidate.
* Isolation of kernels: operating-system configuration.
* The whole as one state machine: each pair of parts meets in a narrow contract
  (a proof, a receipt, a cell's outcome), which the modules state on both sides;
  the product of their state spaces is out of TLC's reach.

## 7. Plan

Written and checked: all modules of section 2. Proved: section 4.

Abstract specifications worth stating and refining beside SessionLock: a
write-once register for a settled action, a FIFO channel for the events of a run,
a counter with a limit for the budget.
