----------------------------- MODULE ActionLedger -----------------------------
(***************************************************************************)
(* The durable action ledger of one run: executeAction, the tool executor, *)
(* approvals and reconciliation.                                           *)
(*                                                                         *)
(* A call of executeAction is a handler on the control plane that awaits   *)
(* the database or an external service at each of its steps.  Handlers of  *)
(* the same action run side by side: the worker's client retries a request *)
(* whose answer was lost, and handlers of an attempt that lost its lease   *)
(* keep running next to those of the next one.  A handler may die anywhere.*)
(*                                                                         *)
(* External.  `applied` is the state of the world: a transactional tool    *)
(* changes it with the commit, any other when its request lands, which may *)
(* be after the handler gave up.  An idempotent service applies an action  *)
(* once, however often it is asked.  A tool's reconciler and an operator   *)
(* report what they find: success of an applied action, no effect of one   *)
(* that is not applied yet.                                                *)
(***************************************************************************)
EXTENDS Naturals

CONSTANTS
  Action,       \* idempotency keys of write actions
  Call,         \* slots for handlers that run at the same time
  Effects,      \* effect types of the catalogue's write tools
  Approvals,    \* whether tools ask for approval: a set of booleans
  MaxFence,     \* bound on attempts
  MaxVersion,   \* bound on request versions
  MaxResource   \* bound on changes of the resource an approval previews

ASSUME LedgerAssumption ==
  /\ Effects \subseteq {"transaction", "idempotent", "uncertain"}
  /\ Approvals \subseteq BOOLEAN
  /\ MaxFence \in Nat /\ MaxVersion \in Nat /\ MaxResource \in Nat

VARIABLES
  tool,        \* effect and approval of each action's tool, fixed
  fence,       \* the run's fence
  live,        \* the lease of that fence is live
  cancelled,   \* cancel_requested_at IS NOT NULL
  version,     \* request version of the run
  resource,    \* version of the resources previews show
  intent,      \* agent_action_intents: request version, 0 without a row
  receipt,     \* agent_action_ledger.result
  resolution,  \* the last agent_action_resolutions row
  approval,    \* agent_approvals
  call,        \* the handlers
  flying,      \* requests on their way to the external service, up to 2
  sent,        \* requests ever sent, counted up to 2
  applied      \* times the effect took place, counted up to 2

ledgerVars == <<intent, receipt, resolution, approval>>
worldVars == <<flying, sent, applied>>
runVars == <<fence, live, cancelled, version, resource>>
vars == <<tool, runVars, ledgerVars, worldVars, call>>

-----------------------------------------------------------------------------
(* Receipts: "inflight" is the unknown receipt with the code               *)
(* external_in_flight, "none" no row.                                      *)
Settled == {"ok", "no_effect"}
Uncertain == {"unknown", "inflight"}
Receipts == Settled \cup Uncertain \cup {"none", "pending"}

NoApproval == [decision |-> "none", preview |-> 0]
Idle == [pc |-> "idle", action |-> 0, fence |-> 0, version |-> 0, started |-> FALSE, result |-> "none"]
Steps == {"idle", "asked", "prepared", "refused", "checked", "reserved", "execute", "external",
          "settle", "record", "reconcile", "resolve"}
Slot == [pc : Steps, action : Action \cup {0}, fence : Nat, version : Nat, started : BOOLEAN, result : Receipts]

UpTo2(n) == IF n < 2 THEN n + 1 ELSE 2

(* find: the last resolution before the receipt.                           *)
Found(a) == IF resolution[a] # "none" THEN resolution[a] ELSE receipt[a]

(* unsettled: intents without a settled result.                            *)
Unsettled(a) == intent[a] # 0 /\ Found(a) \notin Settled

(* record: a receipt is written once; only a pending approval is replaced. *)
Record(a, r) == [receipt EXCEPT ![a] = IF @ \in {"none", "pending"} THEN r ELSE @]

(* lockAction: the handler's attempt holds the lease of an uncancelled run *)
(* whose version is the intent's.                                          *)
Locked(c) ==
  /\ live /\ fence = call[c].fence /\ ~cancelled
  /\ intent[call[c].action] = version

Goto(c, pc) == call' = [call EXCEPT ![c].pc = pc]
Return(c) == call' = [call EXCEPT ![c] = Idle]
Finish(c, r) == call' = [call EXCEPT ![c].pc = "record", ![c].result = r]

-----------------------------------------------------------------------------
Init ==
  /\ tool \in [Action -> [effect : Effects, approval : Approvals]]
  /\ fence = 0 /\ live = FALSE /\ cancelled = FALSE /\ version = 1 /\ resource = 1
  /\ intent = [a \in Action |-> 0]
  /\ receipt = [a \in Action |-> "none"] /\ resolution = [a \in Action |-> "none"]
  /\ approval = [a \in Action |-> NoApproval]
  /\ call = [c \in Call |-> Idle]
  /\ flying = [a \in Action |-> 0] /\ sent = [a \in Action |-> 0] /\ applied = [a \in Action |-> 0]

-----------------------------------------------------------------------------
(* executeAction *)

(* requireLease.  Workers, recoverCell and executeDecidedApprovals all     *)
(* enter here.                                                             *)
Begin(c, a) ==
  /\ call[c].pc = "idle"
  /\ live /\ ~cancelled
  /\ call' = [call EXCEPT ![c] = [Idle EXCEPT !.pc = "asked", !.action = a, !.fence = fence]]
  /\ UNCHANGED <<tool, runVars, ledgerVars, worldVars>>

(* From the heartbeat to findIntent: the lease is still held, the request  *)
(* is not cancelled, and the key has no intent of another version.         *)
Identify(c) ==
  /\ call[c].pc = "asked"
  /\ IF live /\ fence = call[c].fence /\ ~cancelled /\ intent[call[c].action] \in {0, version}
     THEN call' = [call EXCEPT ![c].pc = "prepared", ![c].version = version]
     ELSE Return(c)
  /\ UNCHANGED <<tool, runVars, ledgerVars, worldVars>>

(* Denied by grant (before the intent is looked up), mode, arguments,      *)
(* authorization or a changed contract: only a pending approval is closed, *)
(* after another await.                                                    *)
Refuse(c) ==
  /\ call[c].pc \in {"asked", "prepared"}
  /\ IF Found(call[c].action) = "pending" THEN Goto(c, "refused") ELSE Return(c)
  /\ UNCHANGED <<tool, runVars, ledgerVars, worldVars>>

RecordRefusal(c) ==
  /\ call[c].pc = "refused"
  /\ receipt' = Record(call[c].action, "no_effect")
  /\ Return(c)
  /\ UNCHANGED <<tool, runVars, intent, resolution, approval, worldVars>>

(* No write starts while another is unsettled.                             *)
CheckUnsettled(c) ==
  /\ call[c].pc = "prepared"
  /\ IF \E b \in Action \ {call[c].action} : Unsettled(b) THEN Return(c) ELSE Goto(c, "checked")
  /\ UNCHANGED <<tool, runVars, ledgerVars, worldVars>>

(* reserve: whoever inserts the intent has started the action.  The lease  *)
(* is not looked at again.                                                 *)
Reserve(c) ==
  LET a == call[c].action
  IN /\ call[c].pc = "checked"
     /\ intent' = [intent EXCEPT ![a] = IF @ = 0 THEN call[c].version ELSE @]
     /\ call' = [call EXCEPT ![c].pc = "reserved", ![c].started = intent[a] = 0]
     /\ UNCHANGED <<tool, runVars, receipt, resolution, approval, worldVars>>

(* Faults: an intent without a receipt counts as not started; an effect    *)
(* left unknown is tried again.                                            *)
AfterReserveRestart(c) ==
  CASE Found(call[c].action) \in Settled -> "idle"
    [] Found(call[c].action) \in Uncertain -> "reconcile"
    [] OTHER -> "execute"

(* What the handler does next: replay a result, look an unknown effect up, *)
(* or execute.                                                             *)
AfterReserve(c) ==
  LET a == call[c].action
  IN CASE Found(a) \in Settled -> "idle"
       [] Found(a) \in Uncertain -> "reconcile"
       [] ~call[c].started /\ tool[a].effect = "uncertain" -> "reconcile"
       [] OTHER -> "execute"

Replay(c) ==
  /\ call[c].pc = "reserved"
  /\ IF AfterReserve(c) = "idle" THEN Return(c) ELSE Goto(c, AfterReserve(c))
  /\ UNCHANGED <<tool, runVars, ledgerVars, worldVars>>

(* The service's last statement.  The executor's result is not applied     *)
(* over a receipt another handler has written.                             *)
RecordResult(c) ==
  /\ call[c].pc = "record"
  /\ receipt' = Record(call[c].action, call[c].result)
  /\ Return(c)
  /\ UNCHANGED <<tool, runVars, intent, resolution, approval, worldVars>>

-----------------------------------------------------------------------------
(* The executor *)

(* Nothing was done: contract, authorization or observation refuse, the    *)
(* tool or the database fails, or the deadline passes.  An error that      *)
(* proves nothing is recorded as an unknown effect.                        *)
ExecuteRefused(c) ==
  /\ call[c].pc = "execute"
  /\ \E r \in {"no_effect", "unknown"} : Finish(c, r)
  /\ UNCHANGED <<tool, runVars, ledgerVars, worldVars>>

(* Fault: any decision opens the gate.                                     *)
GateAnyDecision(a) ==
  IF ~tool[a].approval \/ approval[a].decision \in {"yes", "no"} THEN "open" ELSE "pending"

(* approvalGate: the preview is shown for decision once, and has to be     *)
(* unchanged when the approved action is executed.                         *)
Gate(a) ==
  IF ~tool[a].approval THEN "open"
  ELSE CASE approval[a].decision \in {"none", "open"} -> "pending"
         [] approval[a].decision = "yes" /\ approval[a].preview = resource -> "open"
         [] OTHER -> "no_effect"

Shown(a) ==
  [approval EXCEPT ![a] = IF @ = NoApproval THEN [decision |-> "open", preview |-> resource] ELSE @]

(* Uncertainty is persisted before an approved request is sent.            *)
InFlight(a) == [receipt EXCEPT ![a] = IF @ = "pending" THEN "inflight" ELSE @]

(* The non-transactional path.  Without approval it goes straight to the   *)
(* service.  With one, a transaction checks lease and approval and marks   *)
(* the receipt in flight; losing the lease there is an unknown effect.     *)
ExecuteExternal(c) ==
  LET a == call[c].action
  IN /\ call[c].pc = "execute" /\ tool[a].effect # "transaction"
     /\ IF ~tool[a].approval
        THEN Goto(c, "external") /\ UNCHANGED <<receipt, approval>>
        ELSE IF ~Locked(c)
        THEN Finish(c, "unknown") /\ UNCHANGED <<receipt, approval>>
        ELSE /\ approval' = Shown(a)
             /\ IF Gate(a) = "open"
                THEN receipt' = InFlight(a) /\ Goto(c, "external")
                ELSE Finish(c, Gate(a)) /\ UNCHANGED receipt
     /\ UNCHANGED <<tool, runVars, intent, resolution, worldVars>>

(* The request leaves; whether it lands is up to the network.              *)
Send(c) ==
  LET a == call[c].action
  IN /\ call[c].pc = "external" /\ flying[a] < 2
     /\ flying' = [flying EXCEPT ![a] = @ + 1]
     /\ sent' = [sent EXCEPT ![a] = UpTo2(@)]
     /\ Goto(c, "settle")
     /\ UNCHANGED <<tool, runVars, ledgerVars, applied>>

Land(a) ==
  /\ flying[a] > 0
  /\ flying' = [flying EXCEPT ![a] = @ - 1]
  /\ applied' = [applied EXCEPT ![a] = IF tool[a].effect = "idempotent" THEN 1 ELSE UpTo2(@)]
  /\ UNCHANGED <<tool, runVars, ledgerVars, sent, call>>

Lose(a) ==
  /\ flying[a] > 0
  /\ flying' = [flying EXCEPT ![a] = @ - 1]
  /\ UNCHANGED <<tool, runVars, ledgerVars, sent, applied, call>>

(* Fault: the answer replaces whatever is recorded.                        *)
AnsweredAnyway(a, r) == [receipt EXCEPT ![a] = IF tool[a].approval /\ r # "unknown" THEN r ELSE @]

(* An answer replaces the in-flight receipt of an approved request.        *)
Answered(a, r) ==
  [receipt EXCEPT ![a] = IF tool[a].approval /\ @ = "inflight" /\ r # "unknown" THEN r ELSE @]

(* The answer of the service, a provable refusal, or none in time.         *)
Answer(c) ==
  LET a == call[c].action
  IN /\ call[c].pc = "settle"
     /\ \E r \in {"ok", "no_effect", "unknown"} :
          /\ r = "ok" => applied[a] > 0
          /\ r = "no_effect" => applied[a] = 0
          /\ receipt' = Answered(a, r)
          /\ Finish(c, r)
     /\ UNCHANGED <<tool, runVars, intent, resolution, approval, worldVars>>

(* Fault: the transaction does not look for a receipt.                     *)
OpenTransactionBlind(c) == Locked(c)

(* The transaction may run the tool: it has its locks, and no receipt but  *)
(* that of a pending approval.                                             *)
OpenTransaction(c) == Locked(c) /\ receipt[call[c].action] \in {"none", "pending"}

(* The transactional path, one serializable transaction: effect and        *)
(* receipt commit together.  A lost answer to COMMIT makes the handler's   *)
(* result unknown, whatever became of the transaction.                     *)
ExecuteTransaction(c) ==
  LET a == call[c].action
  IN /\ call[c].pc = "execute" /\ tool[a].effect = "transaction"
     /\ \/ /\ OpenTransaction(c) /\ Gate(a) = "open"
           /\ applied' = [applied EXCEPT ![a] = UpTo2(@)]
           /\ receipt' = [receipt EXCEPT ![a] = "ok"]
           /\ \E r \in {"ok", "unknown"} : Finish(c, r)
           /\ UNCHANGED approval
        \/ /\ OpenTransaction(c) /\ Gate(a) = "pending"
           /\ approval' = Shown(a)
           /\ receipt' = [receipt EXCEPT ![a] = "pending"]
           /\ \E r \in {"pending", "unknown"} : Finish(c, r)
           /\ UNCHANGED applied
        \/ /\ Locked(c) /\ ~OpenTransaction(c)
           /\ Finish(c, IF receipt[a] \in Uncertain THEN "no_effect" ELSE receipt[a])
           /\ UNCHANGED <<applied, receipt, approval>>
        \/ /\ ~Locked(c) \/ Gate(a) = "no_effect"
           /\ Finish(c, "no_effect")
           /\ UNCHANGED <<applied, receipt, approval>>
     /\ UNCHANGED <<tool, runVars, intent, resolution, flying, sent>>

-----------------------------------------------------------------------------
(* Reconciliation *)

(* reconcilePending and task.inspect look up every unknown effect.         *)
BeginReconcile(c, a) ==
  /\ call[c].pc = "idle"
  /\ live /\ ~cancelled
  /\ intent[a] # 0 /\ Found(a) \in Uncertain \cup {"none"}
  /\ call' = [call EXCEPT ![c] = [Idle EXCEPT !.pc = "reconcile", !.action = a, !.fence = fence, !.version = version]]
  /\ UNCHANGED <<tool, runVars, ledgerVars, worldVars>>

(* reconcileNative: the tool's reconciler may be missing, fail or find     *)
(* nothing out.                                                            *)
Reconcile(c) ==
  LET a == call[c].action
  IN /\ call[c].pc = "reconcile"
     /\ \/ Return(c)
        \/ \E r \in Settled :
             /\ r = "ok" <=> applied[a] > 0
             /\ call' = [call EXCEPT ![c].pc = "resolve", ![c].result = r]
     /\ UNCHANGED <<tool, runVars, ledgerVars, worldVars>>

(* Resolutions are appended.  The same status with another value has       *)
(* another id, so any settled answer may become the last one.              *)
RecordResolution(c) ==
  /\ call[c].pc = "resolve"
  /\ resolution' = [resolution EXCEPT ![call[c].action] = call[c].result]
  /\ Return(c)
  /\ UNCHANGED <<tool, runVars, intent, receipt, approval, worldVars>>

(* resolveAction: an operator's evidence about any recorded intent.        *)
OperatorResolve(a) ==
  /\ intent[a] # 0
  /\ \E r \in Settled :
       /\ r = "ok" <=> applied[a] > 0
       /\ resolution' = [resolution EXCEPT ![a] = r]
  /\ UNCHANGED <<tool, runVars, intent, receipt, approval, worldVars, call>>

(* decideApproval, once: the id is announced by a recorded receipt.        *)
DecideApproval(a, d) ==
  /\ approval[a].decision = "open" /\ receipt[a] # "none"
  /\ ~cancelled /\ intent[a] = version
  /\ approval' = [approval EXCEPT ![a].decision = d]
  /\ UNCHANGED <<tool, runVars, intent, receipt, resolution, worldVars, call>>

-----------------------------------------------------------------------------
(* The run's row, as far as actions look at it *)

Claim ==
  /\ ~live /\ ~cancelled /\ fence < MaxFence
  /\ live' = TRUE /\ fence' = fence + 1
  /\ UNCHANGED <<tool, cancelled, version, resource, ledgerVars, worldVars, call>>

(* The lease expires, is given back, or the run parks.  Bound: another     *)
(* attempt is left.                                                        *)
LoseLease ==
  /\ live /\ fence < MaxFence
  /\ live' = FALSE
  /\ UNCHANGED <<tool, fence, cancelled, version, resource, ledgerVars, worldVars, call>>

Cancel ==
  /\ ~cancelled /\ cancelled' = TRUE
  /\ UNCHANGED <<tool, fence, live, version, resource, ledgerVars, worldVars, call>>

Revise ==
  /\ version < MaxVersion /\ version' = version + 1
  /\ UNCHANGED <<tool, fence, live, cancelled, resource, ledgerVars, worldVars, call>>

ChangeResource ==
  /\ resource < MaxResource /\ resource' = resource + 1
  /\ UNCHANGED <<tool, fence, live, cancelled, version, ledgerVars, worldVars, call>>

(* The control plane dies under a handler, or the handler's deadline ends. *)
Crash(c) ==
  /\ call[c].pc # "idle"
  /\ Return(c)
  /\ UNCHANGED <<tool, runVars, ledgerVars, worldVars>>

-----------------------------------------------------------------------------
(* One step of a handler.                                                  *)
Handler(c) ==
  \/ Identify(c) \/ Refuse(c) \/ RecordRefusal(c)
  \/ CheckUnsettled(c) \/ Reserve(c) \/ Replay(c) \/ RecordResult(c)
  \/ ExecuteRefused(c) \/ ExecuteExternal(c) \/ Send(c) \/ Answer(c)
  \/ ExecuteTransaction(c)
  \/ Reconcile(c) \/ RecordResolution(c)

Next ==
  \/ \E c \in Call : Handler(c) \/ Crash(c) \/ \E a \in Action : Begin(c, a) \/ BeginReconcile(c, a)
  \/ \E a \in Action : Land(a) \/ Lose(a) \/ OperatorResolve(a) \/ \E d \in {"yes", "no"} : DecideApproval(a, d)
  \/ Claim \/ LoseLease \/ Cancel \/ Revise \/ ChangeResource

Spec == Init /\ [][Next]_vars

-----------------------------------------------------------------------------
(* Properties *)

(* Every table and every handler keeps its type.                           *)
TypeOK ==
  /\ tool \in [Action -> [effect : Effects, approval : Approvals]]
  /\ fence \in 0..MaxFence /\ live \in BOOLEAN /\ cancelled \in BOOLEAN
  /\ version \in Nat /\ resource \in Nat
  /\ intent \in [Action -> Nat]
  /\ receipt \in [Action -> Receipts] /\ resolution \in [Action -> Settled \cup {"none"}]
  /\ approval \in [Action -> [decision : {"none", "open", "yes", "no"}, preview : Nat]]
  /\ call \in [Call -> Slot]
  /\ flying \in [Action -> 0..2] /\ sent \in [Action -> 0..2] /\ applied \in [Action -> 0..2]

(* packaged-runtime.md: an unknown effect is not retried.  The request of  *)
(* an uncertain tool leaves at most once, over all attempts, retries and   *)
(* crashes.                                                                *)
UncertainOnce == \A a \in Action : tool[a].effect = "uncertain" => sent[a] <= 1

(* A transactional tool takes effect at most once, and its receipt says    *)
(* succeeded exactly when it did, also after a lost answer to COMMIT.      *)
TransactionExact ==
  \A a \in Action : tool[a].effect = "transaction" =>
    applied[a] <= 1 /\ (applied[a] = 1 <=> receipt[a] = "ok")

(* Nothing an approval guards is done without the approval.                *)
ApprovedOnly ==
  \A a \in Action : tool[a].approval /\ (sent[a] > 0 \/ applied[a] > 0) => approval[a].decision = "yes"

(* Uncertainty is persisted before an approved request leaves: no crash    *)
(* can make it look like an approval still to be executed.                 *)
SentIsRecorded == \A a \in Action : tool[a].approval /\ sent[a] > 0 => receipt[a] \notin {"none", "pending"}

(* A settled action stays settled, and a receipt is never rewritten; only  *)
(* a pending approval and an in-flight request still change.               *)
SettledStays ==
  [][\A a \in Action : /\ Found(a) \in Settled => Found(a)' \in Settled
                       /\ receipt[a] \in Settled \cup {"unknown"} => receipt'[a] = receipt[a]]_vars

(* service.ts: "Prior actions require approval or reconciliation before    *)
(* starting another write".  A write starts when no other is unsettled.    *)
WritesAwaitSettlement ==
  [][\A a \in Action : intent[a] = 0 /\ intent'[a] # 0 => \A b \in Action \ {a} : ~Unsettled(b)]_vars
=============================================================================
