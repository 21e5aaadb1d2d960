-------------------------- MODULE ActionLedgerProofs --------------------------
(***************************************************************************)
(* Proofs about ActionLedger for any set of actions and of handlers and    *)
(* any bounds.                                                             *)
(***************************************************************************)
EXTENDS ActionLedger, TLAPS

-----------------------------------------------------------------------------
(* Type correctness *)

(* A busy handler works on an action, carries a version once it has        *)
(* identified it, and resolves with a settled result only.                 *)
Carried(x) ==
  /\ x.pc # "idle" => x.action \in Action
  /\ x.pc \in {"prepared", "checked"} => x.version # 0
  /\ x.pc = "resolve" => x.result \in Settled

Slots == call \in [Call -> Slot] /\ \A c \in Call : Carried(call[c])

Tables ==
  /\ tool \in [Action -> [effect : Effects, approval : Approvals]]
  /\ fence \in 0..MaxFence /\ live \in BOOLEAN /\ cancelled \in BOOLEAN
  /\ version \in Nat /\ resource \in Nat
  /\ intent \in [Action -> Nat]
  /\ receipt \in [Action -> Receipts] /\ resolution \in [Action -> Settled \cup {"none"}]
  /\ approval \in [Action -> [decision : {"none", "open", "yes", "no"}, preview : Nat]]
  /\ flying \in [Action -> 0..2] /\ sent \in [Action -> 0..2] /\ applied \in [Action -> 0..2]

TypeInv == Tables /\ Slots /\ version # 0

(* One handler's slot changes.                                             *)
LEMMA ReplaceSlot ==
  ASSUME Slots, NEW c \in Call, NEW x \in Slot, Carried(x), call' = [call EXCEPT ![c] = x]
  PROVE  Slots'
  BY DEF Slots

LEMMA IdleSlot == Idle \in Slot
  BY DEF Idle, Slot, Steps, Receipts

(* A handler moves on.                                                     *)
LEMMA GotoSlots ==
  ASSUME Slots, NEW c \in Call, call[c].pc # "idle",
         NEW p \in Steps \ {"idle", "prepared", "resolve"},
         p = "checked" => call[c].pc = "prepared", Goto(c, p)
  PROVE  Slots'
  BY DEF Slots, Slot, Carried, Goto

(* A handler returns or dies.                                              *)
LEMMA ReturnSlots ==
  ASSUME Slots, NEW c \in Call, Return(c)
  PROVE  Slots'
  BY DEF Slots, Slot, Carried, Return, Idle, Steps, Receipts

(* A handler has a result to record.                                       *)
LEMMA FinishSlots ==
  ASSUME Slots, NEW c \in Call, call[c].pc # "idle", NEW r \in Receipts, Finish(c, r)
  PROVE  Slots'
  BY DEF Slots, Slot, Carried, Finish, Steps

(* The tables depend on their own variables only.                          *)
LEMMA SameTables ==
  ASSUME Tables, UNCHANGED <<tool, runVars, ledgerVars, worldVars>>
  PROVE  Tables'
  BY DEF Tables, runVars, ledgerVars, worldVars

(* Handler steps that leave every table and the run alone.                 *)
LEMMA SilentTypes ==
  ASSUME TypeInv, NEW c \in Call,
         \/ Identify(c) \/ Refuse(c) \/ CheckUnsettled(c) \/ Replay(c)
         \/ ExecuteRefused(c) \/ Reconcile(c) \/ Crash(c)
         \/ \E a \in Action : Begin(c, a) \/ BeginReconcile(c, a)
  PROVE  TypeInv'
<1> USE DEF TypeInv
<1>0. UNCHANGED <<tool, runVars, ledgerVars, worldVars>>
  BY DEF Identify, Refuse, CheckUnsettled, Replay, ExecuteRefused, Reconcile, Crash, Begin, BeginReconcile
<1>1. Tables' /\ version' # 0
  BY <1>0, SameTables DEF runVars
<1>2. fence \in Nat /\ version \in Nat
  BY LedgerAssumption DEF Tables
<1>3. Slots'
  <2>1. CASE Identify(c)
    <3>1. CASE call' = [call EXCEPT ![c].pc = "prepared", ![c].version = version]
      <4> DEFINE x == [call[c] EXCEPT !.pc = "prepared", !.version = version]
      <4>1. x \in Slot /\ Carried(x)
        BY <2>1 DEF Identify, Slots, Slot, Carried, Steps, Tables
      <4>2. call' = [call EXCEPT ![c] = x]
        BY <3>1
      <4>3. QED  BY <4>1, <4>2, ReplaceSlot
    <3>2. QED  BY <2>1, <3>1, ReturnSlots DEF Identify
  <2>2. CASE Refuse(c)
    BY <2>2, GotoSlots, ReturnSlots DEF Refuse, Steps
  <2>3. CASE CheckUnsettled(c)
    BY <2>3, GotoSlots, ReturnSlots DEF CheckUnsettled, Steps
  <2>4. CASE Replay(c)
    BY <2>4, GotoSlots, ReturnSlots DEF Replay, AfterReserve, Steps
  <2>5. CASE ExecuteRefused(c)
    BY <2>5, FinishSlots DEF ExecuteRefused, Receipts, Settled, Uncertain
  <2>6. CASE Reconcile(c)
    <3>1. ASSUME NEW r \in Settled, call' = [call EXCEPT ![c].pc = "resolve", ![c].result = r]
          PROVE  Slots'
      <4> DEFINE x == [call[c] EXCEPT !.pc = "resolve", !.result = r]
      <4>1. x \in Slot /\ Carried(x)
        BY <2>6 DEF Reconcile, Slots, Slot, Carried, Steps, Receipts
      <4>2. call' = [call EXCEPT ![c] = x]
        BY <3>1
      <4>3. QED  BY <4>1, <4>2, ReplaceSlot
    <3>2. QED  BY <2>6, <3>1, ReturnSlots DEF Reconcile
  <2>7. CASE Crash(c)
    BY <2>7, ReturnSlots DEF Crash
  <2>8. CASE \E a \in Action : Begin(c, a)
    <3>1. PICK a \in Action : Begin(c, a)
      BY <2>8
    <3> DEFINE x == [Idle EXCEPT !.pc = "asked", !.action = a, !.fence = fence]
    <3>2. x \in Slot /\ Carried(x)
      BY <1>2, IdleSlot DEF Slot, Carried, Idle, Steps
    <3>3. QED  BY <3>1, <3>2, ReplaceSlot DEF Begin
  <2>9. CASE \E a \in Action : BeginReconcile(c, a)
    <3>1. PICK a \in Action : BeginReconcile(c, a)
      BY <2>9
    <3> DEFINE x == [Idle EXCEPT !.pc = "reconcile", !.action = a, !.fence = fence, !.version = version]
    <3>2. x \in Slot /\ Carried(x)
      BY <1>2, IdleSlot DEF Slot, Carried, Idle, Steps
    <3>3. QED  BY <3>1, <3>2, ReplaceSlot DEF BeginReconcile
  <2>10. QED  BY <2>1, <2>2, <2>3, <2>4, <2>5, <2>6, <2>7, <2>8, <2>9
<1>4. QED  BY <1>1, <1>3

(* Handler steps that write.                                               *)
LEMMA WritingTypes ==
  ASSUME TypeInv, NEW c \in Call,
         \/ RecordRefusal(c) \/ Reserve(c) \/ RecordResult(c) \/ ExecuteExternal(c)
         \/ Send(c) \/ Answer(c) \/ ExecuteTransaction(c) \/ RecordResolution(c)
  PROVE  TypeInv'
<1> USE DEF TypeInv
<1>0. /\ call[c].pc # "idle"
      /\ call[c].action \in Action /\ call[c].version \in Nat /\ call[c].result \in Receipts
      /\ call[c].pc = "resolve" => call[c].result \in Settled
  BY DEF Slots, Slot, Carried, RecordRefusal, Reserve, RecordResult, ExecuteExternal, Send, Answer,
         ExecuteTransaction, RecordResolution
<1>1. version' # 0
  BY DEF RecordRefusal, Reserve, RecordResult, ExecuteExternal, Send, Answer,
         ExecuteTransaction, RecordResolution, runVars
<1>2. CASE RecordRefusal(c)
  <2>1. Tables'  BY <1>0, <1>2 DEF RecordRefusal, Record, Tables, runVars, worldVars, Receipts, Settled
  <2>2. QED  BY <1>1, <1>2, <2>1, ReturnSlots DEF RecordRefusal
<1>3. CASE Reserve(c)
  <2>1. Tables'  BY <1>0, <1>3 DEF Reserve, Tables, runVars, worldVars
  <2>2. Slots'
    <3> DEFINE b == intent[call[c].action] = 0
               x == [call[c] EXCEPT !.pc = "reserved", !.started = b]
    <3>1. b \in BOOLEAN
      OBVIOUS
    <3>2. call' = [call EXCEPT ![c] = x]
      BY <1>3 DEF Reserve
    <3> HIDE DEF b
    <3>3. x \in Slot /\ Carried(x)
      BY <1>0, <3>1 DEF Slots, Slot, Carried, Steps
    <3>4. QED  BY <3>2, <3>3, ReplaceSlot
  <2>3. QED  BY <1>1, <2>1, <2>2
<1>4. CASE RecordResult(c)
  <2>1. Tables'  BY <1>0, <1>4 DEF RecordResult, Record, Tables, runVars, worldVars
  <2>2. QED  BY <1>1, <1>4, <2>1, ReturnSlots DEF RecordResult
<1>5. CASE ExecuteExternal(c)
  <2>1. Gate(call[c].action) \in {"open", "pending", "no_effect"}
    BY DEF Gate
  <2>2. Slots'
    BY <1>0, <1>5, <2>1, GotoSlots, FinishSlots DEF ExecuteExternal, Steps, Receipts, Settled, Uncertain
  <2>3. Shown(call[c].action) \in [Action -> [decision : {"none", "open", "yes", "no"}, preview : Nat]]
    BY <1>0 DEF Shown, Tables
  <2>4. InFlight(call[c].action) \in [Action -> Receipts]
    BY <1>0 DEF InFlight, Tables, Receipts, Uncertain
  <2>5. Tables'
    BY <1>5, <2>3, <2>4 DEF ExecuteExternal, Tables, runVars, worldVars
  <2>6. QED  BY <1>1, <2>2, <2>5
<1>6. CASE Send(c)
  <2>1. Tables'  BY <1>0, <1>6 DEF Send, UpTo2, Tables, runVars, ledgerVars
  <2>2. QED  BY <1>0, <1>1, <1>6, <2>1, GotoSlots DEF Send, Steps
<1>7. CASE Answer(c)
  <2>1. PICK r \in {"ok", "no_effect", "unknown"} : receipt' = Answered(call[c].action, r) /\ Finish(c, r)
    BY <1>7 DEF Answer
  <2>2. Tables'
    BY <1>0, <1>7, <2>1 DEF Answer, Answered, Tables, runVars, worldVars, Receipts, Settled, Uncertain
  <2>3. QED  BY <1>0, <1>1, <2>1, <2>2, FinishSlots DEF Receipts, Settled, Uncertain
<1>8. CASE ExecuteTransaction(c)
  <2>1. PICK r \in Receipts : Finish(c, r)
    BY <1>0, <1>8 DEF ExecuteTransaction, Receipts, Settled, Uncertain, Tables
  <2>2. Shown(call[c].action) \in [Action -> [decision : {"none", "open", "yes", "no"}, preview : Nat]]
    BY <1>0 DEF Shown, Tables
  <2>3. /\ [receipt EXCEPT ![call[c].action] = "ok"] \in [Action -> Receipts]
        /\ [receipt EXCEPT ![call[c].action] = "pending"] \in [Action -> Receipts]
        /\ [applied EXCEPT ![call[c].action] = UpTo2(@)] \in [Action -> 0..2]
    <3>1. receipt \in [Action -> Receipts] /\ applied \in [Action -> 0..2]
      BY DEF Tables
    <3>2. "ok" \in Receipts /\ "pending" \in Receipts
      BY DEF Receipts, Settled
    <3>3. \A n \in 0..2 : UpTo2(n) \in 0..2
      BY DEF UpTo2
    <3>4. QED  BY <1>0, <3>1, <3>2, <3>3
  <2>4. Tables'
    <3>1. /\ receipt' \in [Action -> Receipts]
          /\ applied' \in [Action -> 0..2]
          /\ approval' \in [Action -> [decision : {"none", "open", "yes", "no"}, preview : Nat]]
      BY <1>8, <2>2, <2>3 DEF ExecuteTransaction, Tables
    <3>2. UNCHANGED <<tool, runVars, intent, resolution, flying, sent>>
      BY <1>8 DEF ExecuteTransaction
    <3>3. QED  BY <3>1, <3>2 DEF Tables, runVars
  <2>5. QED  BY <1>0, <1>1, <2>1, <2>4, FinishSlots
<1>9. CASE RecordResolution(c)
  <2>1. Tables'  BY <1>0, <1>9 DEF RecordResolution, Tables, runVars, worldVars
  <2>2. QED  BY <1>1, <1>9, <2>1, ReturnSlots DEF RecordResolution
<1>10. QED  BY <1>2, <1>3, <1>4, <1>5, <1>6, <1>7, <1>8, <1>9

(* Steps of the run, the world and its people.                             *)
LEMMA OuterTypes ==
  ASSUME TypeInv,
         \/ \E a \in Action : Land(a) \/ Lose(a) \/ OperatorResolve(a)
         \/ \E a \in Action, d \in {"yes", "no"} : DecideApproval(a, d)
         \/ Claim \/ LoseLease \/ Cancel \/ Revise \/ ChangeResource
  PROVE  TypeInv'
<1> USE LedgerAssumption DEF TypeInv
<1>1. Slots'
  BY DEF Slots, Land, Lose, OperatorResolve, DecideApproval, Claim, LoseLease, Cancel, Revise, ChangeResource
<1> USE DEF Tables, runVars, ledgerVars, worldVars
<1>2. CASE \E a \in Action : Land(a)  BY <1>1, <1>2 DEF Land, UpTo2
<1>3. CASE \E a \in Action : Lose(a)  BY <1>1, <1>3 DEF Lose
<1>4. CASE \E a \in Action : OperatorResolve(a)  BY <1>1, <1>4 DEF OperatorResolve
<1>5. CASE \E a \in Action, d \in {"yes", "no"} : DecideApproval(a, d)
  <2>1. PICK a \in Action, d \in {"yes", "no"} : DecideApproval(a, d)
    BY <1>5
  <2>2. [approval[a] EXCEPT !.decision = d] \in [decision : {"none", "open", "yes", "no"}, preview : Nat]
    OBVIOUS
  <2>3. approval' = [approval EXCEPT ![a] = [approval[a] EXCEPT !.decision = d]]
    BY <2>1 DEF DecideApproval
  <2>4. approval' \in [Action -> [decision : {"none", "open", "yes", "no"}, preview : Nat]]
    BY <2>2, <2>3
  <2>5. QED  BY <1>1, <2>1, <2>4 DEF DecideApproval
<1>6. CASE Claim  BY <1>1, <1>6 DEF Claim
<1>7. CASE LoseLease \/ Cancel  BY <1>1, <1>7 DEF LoseLease, Cancel
<1>8. CASE Revise \/ ChangeResource  BY <1>1, <1>8 DEF Revise, ChangeResource
<1>9. QED  BY <1>2, <1>3, <1>4, <1>5, <1>6, <1>7, <1>8

LEMMA StepTypes ==
  ASSUME TypeInv, Next
  PROVE  TypeInv'
  BY SilentTypes, WritingTypes, OuterTypes DEF Next, Handler

LEMMA TypeInvInvariant == Spec => []TypeInv
<1>1. Init => TypeInv
  <2> SUFFICES ASSUME Init PROVE TypeInv
    OBVIOUS
  <2>1. Slots
    BY IdleSlot DEF Init, Slots, Carried, Idle
  <2>2. "none" \in Receipts
    BY DEF Receipts
  <2>3. NoApproval \in [decision : {"none", "open", "yes", "no"}, preview : Nat]
    BY DEF NoApproval
  <2>4. Tables
    <3>1. live \in BOOLEAN /\ cancelled \in BOOLEAN
      BY Zenon DEF Init
    <3>2. fence \in 0..MaxFence /\ version \in Nat /\ resource \in Nat
      BY LedgerAssumption DEF Init
    <3>3. /\ tool \in [Action -> [effect : Effects, approval : Approvals]]
          /\ receipt \in [Action -> Receipts] /\ resolution \in [Action -> Settled \cup {"none"}]
          /\ approval \in [Action -> [decision : {"none", "open", "yes", "no"}, preview : Nat]]
      BY <2>2, <2>3 DEF Init
    <3>4. intent \in [Action -> Nat]
          /\ flying \in [Action -> 0..2] /\ sent \in [Action -> 0..2] /\ applied \in [Action -> 0..2]
      BY DEF Init
    <3>5. QED  BY <3>1, <3>2, <3>3, <3>4 DEF Tables
  <2>5. QED  BY <2>1, <2>4 DEF TypeInv, Init
<1>2. TypeInv /\ UNCHANGED vars => TypeInv'
  BY SameTables DEF TypeInv, Slots, vars, runVars
<1>3. QED  BY <1>1, <1>2, StepTypes, PTL DEF Spec

(* Type correctness of the ledger, for any number of actions, handlers,    *)
(* attempts and versions.                                                  *)
THEOREM LedgerTypeCorrect == Spec => []TypeOK
<1>1. TypeInv => TypeOK
  BY DEF TypeInv, Tables, Slots, TypeOK
<1>2. QED  BY <1>1, TypeInvInvariant, PTL

-----------------------------------------------------------------------------
(* What a handler's step does to its own slot *)

(* Only c's slot changes: to one at p, with its action and start kept.     *)
MovesTo(c, p) ==
  /\ \A d \in Call \ {c} : call'[d] = call[d]
  /\ call'[c].pc = p /\ call'[c].action = call[c].action
  /\ call'[c].started = call[c].started

LEMMA GotoMoves ==
  ASSUME Slots, NEW c \in Call, NEW p, Goto(c, p)
  PROVE  MovesTo(c, p)
  BY DEF Slots, Slot, Goto, MovesTo

LEMMA FinishMoves ==
  ASSUME Slots, NEW c \in Call, NEW r, Finish(c, r)
  PROVE  MovesTo(c, "record") /\ call'[c].result = r
  BY DEF Slots, Slot, Finish, MovesTo

LEMMA ReturnMoves ==
  ASSUME Slots, NEW c \in Call, Return(c)
  PROVE  /\ \A d \in Call \ {c} : call'[d] = call[d]
         /\ call'[c] = Idle
  BY DEF Slots, Slot, Return

LEMMA BeginMoves ==
  ASSUME Slots, NEW c \in Call, NEW a, Begin(c, a) \/ BeginReconcile(c, a)
  PROVE  /\ \A d \in Call \ {c} : call'[d] = call[d]
         /\ call'[c].pc \in {"asked", "reconcile"}
<1>1. /\ [Idle EXCEPT !.pc = "asked", !.action = a, !.fence = fence].pc = "asked"
      /\ [Idle EXCEPT !.pc = "reconcile", !.action = a, !.fence = fence, !.version = version].pc = "reconcile"
  BY DEF Idle
<1>2. QED  BY <1>1 DEF Begin, BeginReconcile, Slots

-----------------------------------------------------------------------------
(* No uncertain request is sent twice *)

Executing == {"reserved", "execute", "external"}

(* c inserted a's intent and has not sent its request yet.                 *)
Starter(c, a) == call[c].action = a /\ call[c].started = TRUE /\ call[c].pc \in Executing

(* Whoever executes has an intent; of an uncertain tool only the one       *)
(* handler that inserted the intent executes, and it has not sent yet.     *)
StarterInv ==
  /\ \A c \in Call : call[c].pc \in Executing => intent[call[c].action] # 0
  /\ \A c \in Call : call[c].pc \in {"execute", "external"} /\ tool[call[c].action].effect = "uncertain"
                        => call[c].started = TRUE
  /\ \A a \in Action : intent[a] = 0 => sent[a] = 0
  /\ \A a \in Action : tool[a].effect = "uncertain" =>
       /\ sent[a] <= 1
       /\ \A c \in Call : Starter(c, a) => sent[a] = 0
       /\ \A c, d \in Call : Starter(c, a) /\ Starter(d, a) => c = d

(* The steps that matter to it.                                            *)
Leaves(c) ==
  /\ \A d \in Call \ {c} : call'[d] = call[d]
  /\ call'[c].pc \notin Executing
  /\ UNCHANGED <<tool, intent, sent>>

Executes(c) ==
  /\ MovesTo(c, "execute") /\ call[c].pc = "reserved"
  /\ tool[call[c].action].effect = "uncertain" => call[c].started # FALSE
  /\ UNCHANGED <<tool, intent, sent>>

GoesOut(c) ==
  /\ MovesTo(c, "external") /\ call[c].pc = "execute"
  /\ UNCHANGED <<tool, intent, sent>>

LEMMA StarterKinds ==
  ASSUME TypeInv, NEW c \in Call,
         Handler(c) \/ Crash(c) \/ \E a \in Action : Begin(c, a) \/ BeginReconcile(c, a)
  PROVE  Leaves(c) \/ Executes(c) \/ GoesOut(c) \/ Reserve(c) \/ Send(c)
<1> USE DEF TypeInv, Executing
<1> USE GotoMoves, FinishMoves, ReturnMoves
<1>1. CASE Identify(c)
  <2>1. CASE Return(c)
    BY <1>1, <2>1 DEF Identify, Leaves, Idle, runVars, ledgerVars, worldVars
  <2>2. CASE call' = [call EXCEPT ![c].pc = "prepared", ![c].version = version]
    BY <1>1, <2>2 DEF Identify, Leaves, Slots, Slot, runVars, ledgerVars, worldVars
  <2>3. QED  BY <1>1, <2>1, <2>2 DEF Identify
<1>2. CASE Refuse(c) \/ RecordRefusal(c) \/ CheckUnsettled(c) \/ RecordResult(c) \/ RecordResolution(c) \/ Crash(c)
  BY <1>2 DEF Refuse, RecordRefusal, CheckUnsettled, RecordResult, RecordResolution, Crash, Leaves, MovesTo,
              Idle, runVars, ledgerVars, worldVars
<1>3. CASE Replay(c)
  <2>1. AfterReserve(c) \in {"idle", "reconcile", "execute"}
    BY DEF AfterReserve
  <2>2. CASE AfterReserve(c) = "idle"
    BY <1>3, <2>2 DEF Replay, Leaves, Idle, runVars, ledgerVars, worldVars
  <2>3. CASE AfterReserve(c) = "reconcile"
    BY <1>3, <2>3 DEF Replay, Leaves, MovesTo, runVars, ledgerVars, worldVars
  <2>4. CASE AfterReserve(c) = "execute"
    <3>1. tool[call[c].action].effect = "uncertain" => call[c].started # FALSE
      BY <2>4 DEF AfterReserve
    <3>2. QED  BY <1>3, <2>4, <3>1 DEF Replay, Executes, runVars, ledgerVars, worldVars
  <2>5. QED  BY <2>1, <2>2, <2>3, <2>4
<1>4. CASE ExecuteRefused(c) \/ Answer(c)
  BY <1>4 DEF ExecuteRefused, Answer, Leaves, MovesTo, runVars, ledgerVars, worldVars
<1>5. CASE ExecuteTransaction(c)
  <2>1. PICK r : Finish(c, r)
    BY <1>5 DEF ExecuteTransaction
  <2>2. UNCHANGED <<tool, intent, sent>>
    BY <1>5 DEF ExecuteTransaction
  <2>3. QED  BY <2>1, <2>2 DEF Leaves, MovesTo
<1>6. CASE ExecuteExternal(c)
  <2>1. Goto(c, "external") \/ \E r : Finish(c, r)
    BY <1>6 DEF ExecuteExternal
  <2>2. UNCHANGED <<tool, intent, sent>> /\ call[c].pc = "execute"
    BY <1>6 DEF ExecuteExternal, worldVars
  <2>3. QED  BY <2>1, <2>2 DEF Leaves, GoesOut, MovesTo
<1>7. CASE Reconcile(c)
  <2>1. CASE Return(c)
    BY <1>7, <2>1 DEF Reconcile, Leaves, Idle, runVars, ledgerVars, worldVars
  <2>2. ASSUME NEW r \in Settled, call' = [call EXCEPT ![c].pc = "resolve", ![c].result = r]
        PROVE  Leaves(c)
    <3>1. call'[c].pc = "resolve" /\ \A d \in Call \ {c} : call'[d] = call[d]
      BY <2>2 DEF Slots, Slot
    <3>2. UNCHANGED <<tool, intent, sent>>
      BY <1>7 DEF Reconcile, ledgerVars, worldVars
    <3>3. QED  BY <3>1, <3>2 DEF Leaves
  <2>3. QED  BY <1>7, <2>1, <2>2 DEF Reconcile
<1>8. CASE \E a \in Action : Begin(c, a) \/ BeginReconcile(c, a)
  <2>1. /\ \A d \in Call \ {c} : call'[d] = call[d]
        /\ call'[c].pc \in {"asked", "reconcile"}
    BY <1>8, BeginMoves
  <2>2. UNCHANGED <<tool, intent, sent>>
    BY <1>8 DEF Begin, BeginReconcile, ledgerVars, worldVars
  <2>3. QED  BY <2>1, <2>2 DEF Leaves
<1>9. QED
  BY <1>1, <1>2, <1>3, <1>4, <1>5, <1>6, <1>7, <1>8 DEF Handler

LEMMA StarterStep ==
  ASSUME TypeInv, StarterInv, Next
  PROVE  StarterInv'
<1> USE DEF TypeInv, Executing
<1>0. \A d \in Call : call[d].pc # "idle" => call[d].action \in Action
  BY DEF Slots, Carried
<1>1. CASE UNCHANGED <<tool, intent, sent, call>>
  BY <1>1 DEF StarterInv, Starter
<1>2. ASSUME NEW c \in Call, Leaves(c) PROVE StarterInv'
  BY <1>2 DEF StarterInv, Starter, Leaves
<1>3. ASSUME NEW c \in Call, Executes(c) PROVE StarterInv'
  <2>1. call[c].started \in BOOLEAN
    BY DEF Slots, Slot
  <2>2. tool[call[c].action].effect = "uncertain" => call[c].started = TRUE
    BY Zenon, <1>3, <2>1 DEF Executes
  <2>3. \A d \in Call, a \in Action : Starter(d, a)' <=> Starter(d, a)
    BY <1>3 DEF Executes, MovesTo, Starter
  <2>4. QED  BY <1>3, <2>2, <2>3 DEF StarterInv, Executes, MovesTo
<1>4. ASSUME NEW c \in Call, GoesOut(c) PROVE StarterInv'
  <2>1. \A d \in Call, a \in Action : Starter(d, a)' <=> Starter(d, a)
    BY <1>4 DEF GoesOut, MovesTo, Starter
  <2>2. QED  BY <1>4, <2>1 DEF StarterInv, GoesOut, MovesTo
<1>5. ASSUME NEW c \in Call, Reserve(c) PROVE StarterInv'
  <2> DEFINE a == call[c].action
  <2>1. a \in Action /\ call[c].version # 0 /\ call[c].pc = "checked"
    BY <1>5 DEF Reserve, Slots, Carried
  <2>2. /\ \A d \in Call \ {c} : call'[d] = call[d]
        /\ call'[c].pc = "reserved" /\ call'[c].action = a /\ call'[c].started = (intent[a] = 0)
    BY <1>5 DEF Reserve, Slots, Slot
  <2>3. /\ \A b \in Action \ {a} : intent'[b] = intent[b]
        /\ intent'[a] = IF intent[a] = 0 THEN call[c].version ELSE intent[a]
        /\ UNCHANGED <<tool, sent>>
    BY <1>5, <2>1 DEF Reserve, Tables, worldVars
  <2>4. \A b \in Action : intent[b] # 0 => intent'[b] # 0
    BY <2>1, <2>3
  <2>5. intent'[a] # 0
    BY <2>1, <2>3
  <2>6. \A d \in Call, b \in Action : Starter(d, b)' => Starter(d, b) \/ (d = c /\ b = a /\ intent[a] = 0)
    BY <2>2 DEF Starter
  <2>7. \A d \in Call, b \in Action : Starter(d, b) => intent[b] # 0
    BY DEF StarterInv, Starter
  <2>8. \A d \in Call : call'[d].pc \in {"execute", "external"} => call'[d] = call[d]
    BY <2>2
  <2>9. (\A d \in Call : call[d].pc \in Executing => intent[call[d].action] # 0)'
    BY <1>0, <2>2, <2>4, <2>5 DEF StarterInv
  <2>10. (\A b \in Action : tool[b].effect = "uncertain" =>
            /\ sent[b] <= 1
            /\ \A d \in Call : Starter(d, b) => sent[b] = 0
            /\ \A d, e \in Call : Starter(d, b) /\ Starter(e, b) => d = e)'
    BY <2>3, <2>6, <2>7 DEF StarterInv
  <2>11. QED  BY <2>3, <2>4, <2>8, <2>9, <2>10 DEF StarterInv
<1>6. ASSUME NEW c \in Call, Send(c) PROVE StarterInv'
  <2> DEFINE a == call[c].action
  <2>1. a \in Action /\ call[c].pc = "external"
    BY <1>6 DEF Send, Slots, Carried
  <2>2. MovesTo(c, "settle")
    BY <1>6, GotoMoves DEF Send
  <2>3. /\ \A b \in Action \ {a} : sent'[b] = sent[b]
        /\ sent'[a] = UpTo2(sent[a])
        /\ UNCHANGED <<tool, intent>>
    BY <1>6, <2>1 DEF Send, Tables, ledgerVars
  <2>4. \A d \in Call, b \in Action : Starter(d, b)' => Starter(d, b) /\ d # c
    BY <2>2 DEF Starter, MovesTo
  <2>5. intent[a] # 0
    BY <2>1 DEF StarterInv
  <2>6. tool[a].effect = "uncertain" => Starter(c, a) /\ sent[a] = 0
    BY <2>1 DEF StarterInv, Starter
  <2>7. \A b \in Action : b = a /\ tool[b].effect = "uncertain" => \A d \in Call : ~Starter(d, b)'
    BY <2>1, <2>4, <2>6 DEF StarterInv
  <2>8. (\A b \in Action : tool[b].effect = "uncertain" =>
            /\ sent[b] <= 1
            /\ \A d \in Call : Starter(d, b) => sent[b] = 0
            /\ \A d, e \in Call : Starter(d, b) /\ Starter(e, b) => d = e)'
    BY <2>3, <2>4, <2>6, <2>7 DEF StarterInv, UpTo2
  <2>9. QED  BY <2>2, <2>3, <2>5, <2>8 DEF StarterInv, MovesTo
<1>7. CASE \E a \in Action : Land(a) \/ Lose(a) \/ OperatorResolve(a) \/ \E d \in {"yes", "no"} : DecideApproval(a, d)
  BY <1>1, <1>7 DEF Land, Lose, OperatorResolve, DecideApproval, ledgerVars, worldVars
<1>8. CASE Claim \/ LoseLease \/ Cancel \/ Revise \/ ChangeResource
  BY <1>1, <1>8 DEF Claim, LoseLease, Cancel, Revise, ChangeResource, ledgerVars, worldVars
<1>9. QED
  BY <1>2, <1>3, <1>4, <1>5, <1>6, <1>7, <1>8, StarterKinds DEF Next

(* An uncertain tool's request leaves at most once, whatever the retries,  *)
(* attempts and crashes: executeAction's reservation makes one handler the *)
(* starter of the action, and only the starter sends.                      *)
THEOREM UncertainSentOnce == Spec => []UncertainOnce
<1>1. Init => StarterInv
  BY DEF Init, StarterInv, Starter, Executing, Idle
<1>2. StarterInv /\ UNCHANGED vars => StarterInv'
  BY DEF StarterInv, Starter, vars, ledgerVars, worldVars
<1>3. StarterInv => UncertainOnce
  BY DEF StarterInv, UncertainOnce
<1>4. QED  BY <1>1, <1>2, <1>3, StarterStep, TypeInvInvariant, PTL DEF Spec

-----------------------------------------------------------------------------
(* Receipts are final *)

(* What a step may do to the receipt of an action.                         *)
ReceiptMove(a) ==
  \/ receipt'[a] = receipt[a]
  \/ receipt[a] \in {"none", "pending"}
  \/ receipt[a] = "inflight" /\ receipt'[a] \in Settled

LEMMA ReceiptMoves ==
  ASSUME TypeInv, Next, NEW a \in Action
  PROVE  ReceiptMove(a)
<1> USE DEF TypeInv, Tables
<1>1. CASE UNCHANGED receipt
  BY <1>1 DEF ReceiptMove
<1>2. ASSUME NEW c \in Call, RecordRefusal(c) \/ RecordResult(c) PROVE ReceiptMove(a)
  BY <1>2 DEF RecordRefusal, RecordResult, Record, ReceiptMove
<1>3. ASSUME NEW c \in Call, ExecuteExternal(c) PROVE ReceiptMove(a)
  BY <1>3 DEF ExecuteExternal, InFlight, ReceiptMove
<1>4. ASSUME NEW c \in Call, Answer(c) PROVE ReceiptMove(a)
  BY <1>4 DEF Answer, Answered, ReceiptMove, Settled
<1>5. ASSUME NEW c \in Call, ExecuteTransaction(c) PROVE ReceiptMove(a)
  BY <1>5 DEF ExecuteTransaction, OpenTransaction, ReceiptMove
<1>6. ASSUME NEW c \in Call,
             \/ Identify(c) \/ Refuse(c) \/ CheckUnsettled(c) \/ Reserve(c) \/ Replay(c) \/ ExecuteRefused(c)
             \/ Send(c) \/ Reconcile(c) \/ RecordResolution(c) \/ Crash(c)
             \/ \E b \in Action : Begin(c, b) \/ BeginReconcile(c, b)
      PROVE  UNCHANGED receipt
  BY <1>6 DEF Identify, Refuse, CheckUnsettled, Reserve, Replay, ExecuteRefused, Send, Reconcile,
              RecordResolution, Crash, Begin, BeginReconcile, ledgerVars
<1>7. CASE \/ \E b \in Action : Land(b) \/ Lose(b) \/ OperatorResolve(b) \/ \E d \in {"yes", "no"} : DecideApproval(b, d)
           \/ Claim \/ LoseLease \/ Cancel \/ Revise \/ ChangeResource
  BY <1>1, <1>7 DEF Land, Lose, OperatorResolve, DecideApproval, Claim, LoseLease, Cancel, Revise, ChangeResource,
                    ledgerVars
<1>8. QED
  BY <1>1, <1>2, <1>3, <1>4, <1>5, <1>6, <1>7 DEF Next, Handler

LEMMA ResolutionMoves ==
  ASSUME TypeInv, Next, NEW a \in Action
  PROVE  resolution'[a] = resolution[a] \/ resolution'[a] \in Settled
<1> USE DEF TypeInv, Tables
<1>1. ASSUME NEW c \in Call, RecordResolution(c)
      PROVE  resolution'[a] = resolution[a] \/ resolution'[a] \in Settled
  BY <1>1 DEF RecordResolution, Slots, Carried
<1>2. ASSUME NEW b \in Action, OperatorResolve(b)
      PROVE  resolution'[a] = resolution[a] \/ resolution'[a] \in Settled
  BY <1>2 DEF OperatorResolve
<1>3. ASSUME NEW c \in Call,
             \/ Identify(c) \/ Refuse(c) \/ RecordRefusal(c) \/ CheckUnsettled(c) \/ Reserve(c) \/ Replay(c)
             \/ RecordResult(c) \/ ExecuteRefused(c) \/ ExecuteExternal(c) \/ Send(c) \/ Answer(c)
             \/ ExecuteTransaction(c) \/ Reconcile(c) \/ Crash(c)
             \/ \E b \in Action : Begin(c, b) \/ BeginReconcile(c, b)
      PROVE  UNCHANGED resolution
  BY <1>3 DEF Identify, Refuse, RecordRefusal, CheckUnsettled, Reserve, Replay, RecordResult, ExecuteRefused,
              ExecuteExternal, Send, Answer, ExecuteTransaction, Reconcile, Crash, Begin, BeginReconcile, ledgerVars
<1>4. CASE \/ \E b \in Action : Land(b) \/ Lose(b) \/ \E d \in {"yes", "no"} : DecideApproval(b, d)
           \/ Claim \/ LoseLease \/ Cancel \/ Revise \/ ChangeResource
  BY <1>4 DEF Land, Lose, DecideApproval, Claim, LoseLease, Cancel, Revise, ChangeResource, ledgerVars
<1>5. QED
  BY <1>1, <1>2, <1>3, <1>4 DEF Next, Handler

(* A settled action stays settled, and a receipt other than that of a      *)
(* pending approval or a request in flight is never rewritten, by record,  *)
(* the executor or a late handler.                                         *)
THEOREM SettledForever == Spec => SettledStays
<1>1. ASSUME TypeInv, [Next]_vars
      PROVE  [\A a \in Action : /\ Found(a) \in Settled => Found(a)' \in Settled
                                /\ receipt[a] \in Settled \cup {"unknown"} => receipt'[a] = receipt[a]]_vars
  <2> SUFFICES ASSUME Next, NEW a \in Action
               PROVE  /\ Found(a) \in Settled => Found(a)' \in Settled
                      /\ receipt[a] \in Settled \cup {"unknown"} => receipt'[a] = receipt[a]
    BY <1>1
  <2>1. receipt[a] \in Settled \cup {"unknown"} => receipt'[a] = receipt[a]
    BY <1>1, ReceiptMoves DEF ReceiptMove, Settled
  <2>2. resolution[a] \in Settled \cup {"none"}
    BY <1>1 DEF TypeInv, Tables
  <2>3. resolution'[a] = resolution[a] \/ resolution'[a] \in Settled
    BY <1>1, ResolutionMoves
  <2>4. QED  BY <2>1, <2>2, <2>3 DEF Found, Settled
<1>2. QED  BY <1>1, TypeInvInvariant, PTL DEF Spec, SettledStays

-----------------------------------------------------------------------------
(* Transactions and approvals *)

(* Only tools that are not transactional talk to a service, and a result   *)
(* to record is given; success of a transaction is on record already.      *)
CallInv ==
  \A c \in Call :
    /\ call[c].pc \in {"external", "settle"} => tool[call[c].action].effect # "transaction"
    /\ call[c].pc = "record" =>
         /\ call[c].result # "none"
         /\ tool[call[c].action].effect = "transaction" /\ call[c].result = "ok" => receipt[call[c].action] = "ok"

TransactionInv ==
  \A a \in Action : tool[a].effect = "transaction" =>
    /\ applied[a] <= 1 /\ (applied[a] = 1 <=> receipt[a] = "ok")
    /\ flying[a] = 0

(* A decision follows a receipt; a request follows an approval and a       *)
(* receipt that is no longer the pending one.                              *)
ApprovalInv ==
  \A a \in Action : tool[a].approval = TRUE =>
    /\ approval[a].decision \in {"yes", "no"} => receipt[a] # "none"
    /\ sent[a] > 0 => approval[a].decision = "yes" /\ receipt[a] \notin {"none", "pending"}
    /\ applied[a] > 0 => approval[a].decision = "yes"
    /\ flying[a] > 0 => sent[a] > 0
    /\ \A c \in Call : call[c].action = a /\ call[c].pc = "external" =>
         approval[a].decision = "yes" /\ receipt[a] \notin {"none", "pending"}

LedgerInv == CallInv /\ TransactionInv /\ ApprovalInv

(* The tables stay, and c neither talks to a service nor has a success.    *)
Aside(c) ==
  /\ \A d \in Call \ {c} : call'[d] = call[d]
  /\ call'[c].pc \notin {"external", "settle"}
  /\ call'[c].pc = "record" => call'[c].result \in {"no_effect", "unknown"}
  /\ UNCHANGED <<tool, receipt, approval, flying, sent, applied>>

LEMMA AsideKinds ==
  ASSUME TypeInv, NEW c \in Call,
         \/ Identify(c) \/ Refuse(c) \/ CheckUnsettled(c) \/ Reserve(c) \/ Replay(c) \/ ExecuteRefused(c)
         \/ Reconcile(c) \/ RecordResolution(c) \/ Crash(c)
         \/ \E b \in Action : Begin(c, b) \/ BeginReconcile(c, b)
  PROVE  Aside(c)
<1> USE DEF TypeInv
<1> USE GotoMoves, FinishMoves, ReturnMoves
<1>1. UNCHANGED <<tool, receipt, approval, flying, sent, applied>>
  BY DEF Identify, Refuse, CheckUnsettled, Reserve, Replay, ExecuteRefused, Reconcile,
         RecordResolution, Crash, Begin, BeginReconcile, ledgerVars, worldVars
<1>2. CASE Identify(c)
  <2>1. CASE Return(c)
    BY <1>1, <2>1 DEF Aside, Idle
  <2>2. CASE call' = [call EXCEPT ![c].pc = "prepared", ![c].version = version]
    BY <1>1, <2>2 DEF Aside, Slots, Slot
  <2>3. QED  BY <1>2, <2>1, <2>2 DEF Identify
<1>3. CASE Refuse(c) \/ CheckUnsettled(c) \/ RecordResolution(c) \/ Crash(c)
  BY <1>1, <1>3 DEF Refuse, CheckUnsettled, RecordResolution, Crash, Aside, MovesTo, Idle
<1>4. CASE Reserve(c)
  <2>1. call'[c].pc = "reserved" /\ \A d \in Call \ {c} : call'[d] = call[d]
    BY <1>4 DEF Reserve, Slots, Slot
  <2>2. QED  BY <1>1, <2>1 DEF Aside
<1>5. CASE Replay(c)
  <2>1. AfterReserve(c) \in {"idle", "reconcile", "execute"}
    BY DEF AfterReserve
  <2>2. QED  BY <1>1, <1>5, <2>1 DEF Replay, Aside, MovesTo, Idle
<1>6. CASE ExecuteRefused(c)
  BY <1>1, <1>6 DEF ExecuteRefused, Aside, MovesTo
<1>7. CASE Reconcile(c)
  <2>1. CASE Return(c)
    BY <1>1, <2>1 DEF Aside, Idle
  <2>2. ASSUME NEW r \in Settled, call' = [call EXCEPT ![c].pc = "resolve", ![c].result = r]
        PROVE  Aside(c)
    <3>1. call'[c].pc = "resolve" /\ \A d \in Call \ {c} : call'[d] = call[d]
      BY <2>2 DEF Slots, Slot
    <3>2. QED  BY <1>1, <3>1 DEF Aside
  <2>3. QED  BY <1>7, <2>1, <2>2 DEF Reconcile
<1>8. CASE \E a \in Action : Begin(c, a) \/ BeginReconcile(c, a)
  <2>1. /\ \A d \in Call \ {c} : call'[d] = call[d]
        /\ call'[c].pc \in {"asked", "reconcile"}
    BY <1>8, BeginMoves
  <2>2. QED  BY <1>1, <2>1 DEF Aside
<1>9. QED
  BY <1>2, <1>3, <1>4, <1>5, <1>6, <1>7, <1>8

LEMMA AsideStep ==
  ASSUME TypeInv, LedgerInv, NEW c \in Call, Aside(c)
  PROVE  LedgerInv'
<1>1. CallInv'
  BY DEF LedgerInv, CallInv, Aside
<1>2. TransactionInv'
  BY DEF LedgerInv, TransactionInv, Aside
<1>3. ApprovalInv'
  BY DEF LedgerInv, ApprovalInv, Aside
<1>4. QED  BY <1>1, <1>2, <1>3 DEF LedgerInv

(* record: the receipt of c's action was missing or pending, or stays.     *)
LEMMA RecordStep ==
  ASSUME TypeInv, LedgerInv, NEW c \in Call, RecordRefusal(c) \/ RecordResult(c)
  PROVE  LedgerInv'
<1> DEFINE a == call[c].action
<1>1. a \in Action
  BY DEF RecordRefusal, RecordResult, TypeInv, Slots, Carried
<1>2. /\ \A d \in Call \ {c} : call'[d] = call[d]
      /\ call'[c].pc = "idle"
  BY ReturnMoves DEF RecordRefusal, RecordResult, TypeInv, Idle
<1>3. UNCHANGED <<tool, approval, flying, sent, applied>>
  BY DEF RecordRefusal, RecordResult, worldVars
<1>4. \A b \in Action : receipt'[b] = receipt[b] \/ (receipt[b] \in {"none", "pending"} /\ receipt'[b] # "none")
  BY <1>1 DEF RecordRefusal, RecordResult, Record, TypeInv, Tables, LedgerInv, CallInv
<1>5. \A b \in Action : tool[b].effect = "transaction" => (receipt'[b] = "ok" <=> receipt[b] = "ok")
  BY <1>1 DEF RecordRefusal, RecordResult, Record, TypeInv, Tables, LedgerInv, CallInv
<1>6. CallInv'
  BY <1>2, <1>3, <1>5 DEF LedgerInv, CallInv, TypeInv, Slots, Carried
<1>7. TransactionInv'
  BY <1>3, <1>5 DEF LedgerInv, TransactionInv
<1>8. ApprovalInv'
  BY <1>2, <1>3, <1>4 DEF LedgerInv, ApprovalInv
<1>9. QED  BY <1>6, <1>7, <1>8 DEF LedgerInv

(* The approved request is marked in flight before it goes out.            *)
LEMMA ExternalStep ==
  ASSUME TypeInv, LedgerInv, NEW c \in Call, ExecuteExternal(c)
  PROVE  LedgerInv'
<1> DEFINE a == call[c].action
<1>1. a \in Action /\ tool[a].effect # "transaction" /\ tool[a].approval \in BOOLEAN
  BY LedgerAssumption DEF ExecuteExternal, TypeInv, Tables, Slots, Carried
<1>2. /\ UNCHANGED <<tool, flying, sent, applied>>
      /\ \A d \in Call \ {c} : call'[d] = call[d]
      /\ call'[c].action = a
  BY GotoMoves, FinishMoves DEF ExecuteExternal, TypeInv, MovesTo, worldVars
<1>3. \/ call'[c].pc = "record" /\ call'[c].result \in {"unknown", "pending", "no_effect"}
      \/ call'[c].pc = "external"
  <2>1. Gate(a) \in {"open", "pending", "no_effect"}
    BY DEF Gate
  <2>2. QED  BY <2>1, GotoMoves, FinishMoves DEF ExecuteExternal, TypeInv, MovesTo
<1>4. \A b \in Action \ {a} : receipt'[b] = receipt[b] /\ approval'[b] = approval[b]
  BY <1>1 DEF ExecuteExternal, InFlight, Shown, TypeInv, Tables
<1>5. /\ receipt'[a] = receipt[a] \/ (receipt[a] = "pending" /\ receipt'[a] = "inflight")
      /\ approval'[a] = approval[a] \/ (approval[a].decision = "none" /\ approval'[a].decision = "open")
  BY <1>1 DEF ExecuteExternal, InFlight, Shown, NoApproval, TypeInv, Tables
<1>6. tool[a].approval = TRUE /\ call'[c].pc = "external" =>
        approval[a].decision = "yes" /\ receipt'[a] \notin {"none", "pending"}
  <2> SUFFICES ASSUME tool[a].approval = TRUE, call'[c].pc = "external"
               PROVE  approval[a].decision = "yes" /\ receipt'[a] \notin {"none", "pending"}
    OBVIOUS
  <2>1. Gate(a) = "open" /\ receipt' = InFlight(a)
    BY FinishMoves DEF ExecuteExternal, TypeInv, MovesTo
  <2>2. approval[a].decision = "yes"
    BY <2>1 DEF Gate
  <2>3. receipt[a] # "none"
    BY <1>1, <2>2 DEF LedgerInv, ApprovalInv
  <2>4. QED  BY <1>1, <2>1, <2>2, <2>3 DEF InFlight, TypeInv, Tables
<1>7. CallInv'
  BY <1>1, <1>2, <1>3, <1>4, <1>5 DEF LedgerInv, CallInv, TypeInv, Slots, Carried
<1>8. TransactionInv'
  BY <1>1, <1>2, <1>4 DEF LedgerInv, TransactionInv
<1>9. ApprovalInv'
  BY <1>1, <1>2, <1>3, <1>4, <1>5, <1>6 DEF LedgerInv, ApprovalInv
<1>10. QED  BY <1>7, <1>8, <1>9 DEF LedgerInv

LEMMA SendStep ==
  ASSUME TypeInv, LedgerInv, NEW c \in Call, Send(c)
  PROVE  LedgerInv'
<1> DEFINE a == call[c].action
<1>1. a \in Action /\ call[c].pc = "external" /\ tool[a].effect # "transaction"
  BY DEF Send, TypeInv, Slots, Carried, LedgerInv, CallInv
<1>2. MovesTo(c, "settle")
  BY GotoMoves DEF Send, TypeInv
<1>3. /\ UNCHANGED <<tool, receipt, approval, applied>>
      /\ \A b \in Action \ {a} : sent'[b] = sent[b] /\ flying'[b] = flying[b]
      /\ sent'[a] > 0
  BY <1>1 DEF Send, UpTo2, TypeInv, Tables, ledgerVars
<1>4. CallInv'
  BY <1>1, <1>2, <1>3 DEF LedgerInv, CallInv, MovesTo
<1>5. TransactionInv'
  BY <1>1, <1>3 DEF LedgerInv, TransactionInv
<1>6. ApprovalInv'
  BY <1>1, <1>2, <1>3 DEF LedgerInv, ApprovalInv, MovesTo
<1>7. QED  BY <1>4, <1>5, <1>6 DEF LedgerInv

(* A request lands or is lost.                                             *)
LEMMA LandStep ==
  ASSUME TypeInv, LedgerInv, NEW a \in Action, Land(a) \/ Lose(a)
  PROVE  LedgerInv'
<1>1. flying[a] > 0 /\ tool[a].effect # "transaction"
  BY DEF Land, Lose, LedgerInv, TransactionInv
<1>2. /\ UNCHANGED <<tool, receipt, approval, sent, call>>
      /\ \A b \in Action \ {a} : applied'[b] = applied[b] /\ flying'[b] = flying[b]
  BY DEF Land, Lose, TypeInv, Tables, ledgerVars
<1>3. CallInv'
  BY <1>2 DEF LedgerInv, CallInv
<1>4. TransactionInv'
  BY <1>1, <1>2 DEF LedgerInv, TransactionInv
<1>5. ApprovalInv'
  BY <1>1, <1>2 DEF LedgerInv, ApprovalInv
<1>6. QED  BY <1>3, <1>4, <1>5 DEF LedgerInv

LEMMA AnswerStep ==
  ASSUME TypeInv, LedgerInv, NEW c \in Call, Answer(c)
  PROVE  LedgerInv'
<1> DEFINE a == call[c].action
<1>1. a \in Action /\ tool[a].effect # "transaction"
  BY DEF Answer, TypeInv, Slots, Carried, LedgerInv, CallInv
<1>2. PICK r \in {"ok", "no_effect", "unknown"} : receipt' = Answered(a, r) /\ Finish(c, r)
  BY DEF Answer
<1>3. MovesTo(c, "record") /\ call'[c].result = r
  BY <1>2, FinishMoves DEF TypeInv
<1>4. UNCHANGED <<tool, approval, flying, sent, applied>>
  BY DEF Answer, worldVars
<1>5. /\ \A b \in Action \ {a} : receipt'[b] = receipt[b]
      /\ receipt'[a] = receipt[a] \/ (receipt[a] = "inflight" /\ receipt'[a] = r)
  BY <1>1, <1>2 DEF Answered, TypeInv, Tables
<1>6. CallInv'
  BY <1>1, <1>3, <1>4, <1>5 DEF LedgerInv, CallInv, MovesTo, TypeInv, Slots, Carried
<1>7. TransactionInv'
  BY <1>1, <1>4, <1>5 DEF LedgerInv, TransactionInv
<1>8. ApprovalInv'
  BY <1>1, <1>3, <1>4, <1>5 DEF LedgerInv, ApprovalInv, MovesTo
<1>9. QED  BY <1>6, <1>7, <1>8 DEF LedgerInv

LEMMA DecideStep ==
  ASSUME TypeInv, LedgerInv, NEW a \in Action, NEW d \in {"yes", "no"}, DecideApproval(a, d)
  PROVE  LedgerInv'
<1>1. /\ UNCHANGED <<tool, receipt, flying, sent, applied, call>>
      /\ receipt[a] # "none" /\ approval[a].decision = "open"
      /\ \A b \in Action \ {a} : approval'[b] = approval[b]
  BY DEF DecideApproval, TypeInv, Tables, worldVars
<1>2. CallInv'
  BY <1>1 DEF LedgerInv, CallInv
<1>3. TransactionInv'
  BY <1>1 DEF LedgerInv, TransactionInv
<1>4. ApprovalInv'
  BY <1>1 DEF LedgerInv, ApprovalInv
<1>5. QED  BY <1>2, <1>3, <1>4 DEF LedgerInv

(* Effect and receipt commit together, once: the transaction runs the tool *)
(* only while no receipt says it has.                                      *)
LEMMA TransactionStep ==
  ASSUME TypeInv, LedgerInv, NEW c \in Call, ExecuteTransaction(c)
  PROVE  LedgerInv'
<1> DEFINE a == call[c].action
           Commits == /\ receipt[a] \in {"none", "pending"} /\ Gate(a) = "open"
                      /\ applied' = [applied EXCEPT ![a] = UpTo2(@)]
                      /\ receipt' = [receipt EXCEPT ![a] = "ok"] /\ approval' = approval
                      /\ \E r \in {"ok", "unknown"} : Finish(c, r)
           Parks == /\ receipt[a] \in {"none", "pending"} /\ applied' = applied
                    /\ receipt' = [receipt EXCEPT ![a] = "pending"] /\ approval' = Shown(a)
                    /\ \E r \in {"pending", "unknown"} : Finish(c, r)
           Rests == /\ UNCHANGED <<applied, receipt, approval>>
                    /\ \E r \in Receipts \ {"none"} : Finish(c, r) /\ (r = "ok" => receipt[a] = "ok")
<1>1. a \in Action /\ tool[a].effect = "transaction" /\ receipt[a] \in Receipts /\ UNCHANGED <<tool, flying, sent>>
  BY DEF ExecuteTransaction, TypeInv, Tables, Slots, Carried
<1>2. Commits \/ Parks \/ Rests
  BY <1>1 DEF ExecuteTransaction, OpenTransaction, Receipts, Settled, Uncertain
<1>3. CASE Commits
  <2>1. PICK r \in {"ok", "unknown"} : MovesTo(c, "record") /\ call'[c].result = r
    BY <1>3, FinishMoves DEF TypeInv
  <2>2. /\ \A b \in Action \ {a} : receipt'[b] = receipt[b] /\ applied'[b] = applied[b]
        /\ receipt'[a] = "ok" /\ applied'[a] = UpTo2(applied[a])
    BY <1>1, <1>3 DEF TypeInv, Tables
  <2>3. applied[a] = 0 /\ applied'[a] = 1
    BY <1>1, <1>3, <2>2 DEF LedgerInv, TransactionInv, TypeInv, Tables, UpTo2
  <2>4. tool[a].approval = TRUE => approval[a].decision = "yes"
    BY <1>3 DEF Gate
  <2>5. CallInv'
    BY <1>1, <2>1, <2>2 DEF LedgerInv, CallInv, MovesTo, TypeInv, Slots, Carried
  <2>6. TransactionInv'
    BY <1>1, <2>2, <2>3 DEF LedgerInv, TransactionInv
  <2>7. ApprovalInv'
    BY <1>1, <1>3, <2>1, <2>2, <2>4 DEF LedgerInv, ApprovalInv, MovesTo
  <2>8. QED  BY <2>5, <2>6, <2>7 DEF LedgerInv
<1>4. CASE Parks
  <2>1. PICK r \in {"pending", "unknown"} : MovesTo(c, "record") /\ call'[c].result = r
    BY <1>4, FinishMoves DEF TypeInv
  <2>2. /\ \A b \in Action \ {a} : receipt'[b] = receipt[b] /\ approval'[b] = approval[b]
        /\ receipt'[a] = "pending"
        /\ approval'[a] = approval[a] \/ (approval[a].decision = "none" /\ approval'[a].decision = "open")
    BY <1>1, <1>4 DEF TypeInv, Tables, Shown, NoApproval
  <2>3. CallInv'
    BY <1>1, <1>4, <2>1, <2>2 DEF LedgerInv, CallInv, MovesTo, TypeInv, Slots, Carried
  <2>4. TransactionInv'
    BY <1>1, <1>4, <2>2 DEF LedgerInv, TransactionInv
  <2>5. ApprovalInv'
    BY <1>1, <1>4, <2>1, <2>2 DEF LedgerInv, ApprovalInv, MovesTo
  <2>6. QED  BY <2>3, <2>4, <2>5 DEF LedgerInv
<1>5. CASE Rests
  <2>1. PICK r \in Receipts \ {"none"} :
          MovesTo(c, "record") /\ call'[c].result = r /\ (r = "ok" => receipt[a] = "ok")
    BY <1>5, FinishMoves DEF TypeInv
  <2>2. CallInv'
    BY <1>1, <1>5, <2>1 DEF LedgerInv, CallInv, MovesTo
  <2>3. TransactionInv'
    BY <1>1, <1>5 DEF LedgerInv, TransactionInv
  <2>4. ApprovalInv'
    BY <1>1, <1>5, <2>1 DEF LedgerInv, ApprovalInv, MovesTo
  <2>5. QED  BY <2>2, <2>3, <2>4 DEF LedgerInv
<1>6. QED  BY <1>2, <1>3, <1>4, <1>5

LEMMA SameLedger ==
  ASSUME LedgerInv, UNCHANGED <<tool, receipt, approval, worldVars, call>>
  PROVE  LedgerInv'
  BY DEF LedgerInv, CallInv, TransactionInv, ApprovalInv, worldVars

LEMMA LedgerStep ==
  ASSUME TypeInv, LedgerInv, Next
  PROVE  LedgerInv'
<1>1. ASSUME NEW c \in Call, Handler(c) \/ Crash(c) \/ \E a \in Action : Begin(c, a) \/ BeginReconcile(c, a)
      PROVE  LedgerInv'
  BY <1>1, AsideKinds, AsideStep, RecordStep, ExternalStep, SendStep, AnswerStep, TransactionStep DEF Handler
<1>2. ASSUME NEW a \in Action,
             Land(a) \/ Lose(a) \/ OperatorResolve(a) \/ \E d \in {"yes", "no"} : DecideApproval(a, d)
      PROVE  LedgerInv'
  <2>1. CASE OperatorResolve(a)
    BY <2>1, SameLedger DEF OperatorResolve
  <2>2. QED  BY <1>2, <2>1, LandStep, DecideStep
<1>3. CASE Claim \/ LoseLease \/ Cancel \/ Revise \/ ChangeResource
  BY <1>3, SameLedger DEF Claim, LoseLease, Cancel, Revise, ChangeResource, ledgerVars
<1>4. QED  BY <1>1, <1>2, <1>3 DEF Next

LEMMA LedgerInvariant == Spec => []LedgerInv
<1>1. Init => LedgerInv
  BY DEF Init, LedgerInv, CallInv, TransactionInv, ApprovalInv, Idle, NoApproval
<1>2. LedgerInv /\ UNCHANGED vars => LedgerInv'
  BY SameLedger DEF vars, ledgerVars
<1>3. QED  BY <1>1, <1>2, LedgerStep, TypeInvInvariant, PTL DEF Spec

(* A transactional tool takes effect at most once, and exactly when its    *)
(* receipt says so: executor.ts commits both in one transaction and a lost *)
(* answer to COMMIT cannot overwrite the receipt.                          *)
THEOREM TransactionsExact == Spec => []TransactionExact
<1>1. LedgerInv => TransactionExact
  BY DEF LedgerInv, TransactionInv, TransactionExact
<1>2. QED  BY <1>1, LedgerInvariant, PTL

(* What an approval guards is done only once it is approved: approvalGate  *)
(* stands before every effect of such a tool.                              *)
THEOREM EffectsApproved == Spec => []ApprovedOnly
<1>1. TypeInv /\ LedgerInv => ApprovedOnly
  <2> SUFFICES ASSUME TypeInv, LedgerInv, NEW a \in Action, tool[a].approval, sent[a] > 0 \/ applied[a] > 0
               PROVE  approval[a].decision = "yes"
    BY DEF ApprovedOnly
  <2>1. tool[a].approval = TRUE
    BY LedgerAssumption DEF TypeInv, Tables
  <2>2. QED  BY <2>1 DEF LedgerInv, ApprovalInv
<1>2. QED  BY <1>1, LedgerInvariant, TypeInvInvariant, PTL

(* An approved request that has been sent never looks like one still to be *)
(* sent: the executor persists external_in_flight first.                   *)
THEOREM SendingRecorded == Spec => []SentIsRecorded
<1>1. TypeInv /\ LedgerInv => SentIsRecorded
  <2> SUFFICES ASSUME TypeInv, LedgerInv, NEW a \in Action, tool[a].approval, sent[a] > 0
               PROVE  receipt[a] \notin {"none", "pending"}
    BY DEF SentIsRecorded
  <2>1. tool[a].approval = TRUE
    BY LedgerAssumption DEF TypeInv, Tables
  <2>2. QED  BY <2>1 DEF LedgerInv, ApprovalInv
<1>2. QED  BY <1>1, LedgerInvariant, TypeInvInvariant, PTL
=============================================================================
