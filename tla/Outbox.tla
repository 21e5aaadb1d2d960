------------------------------- MODULE Outbox --------------------------------
(***************************************************************************)
(* The delivery outboxes of one run: its events, delivered in order, and   *)
(* its results, of which only the current one is delivered.                *)
(*                                                                         *)
(* A lane of flushOutbox claims a row with a fresh token, calls the        *)
(* product's transport and acknowledges the row if the token is still its  *)
(* own.  Lanes belong to several processes, any of which may die or stall. *)
(* A stalled lane outlives its claim, and a request it gave up on may      *)
(* still reach the receiver, so nothing ties a lane to the clock: `due`    *)
(* stands for available_at <= NOW() and comes back by itself.  A lane has  *)
(* one claim at a time and a new claim of a row replaces the old token, so *)
(* the lane's name stands for the token it drew.                           *)
(*                                                                         *)
(* Each table has lanes of its own, which read no rows of the other: a     *)
(* behaviour follows the lanes of one table.                               *)
(***************************************************************************)
EXTENDS Naturals, FiniteSets

CONSTANTS
  Event,       \* sequence numbers of the run's events
  Result,      \* ids of its results, naturals that are no event
  Lane,        \* lanes of all processes
  NoLane,      \* claim_token IS NULL
  MaxAttempts, \* flushOutbox's maxAttempts
  MaxRetries,  \* bound: trusted retries of failed rows
  MaxFence     \* bound: attempts of the run

ASSUME OutboxAssumption ==
  /\ Event \subseteq Nat \ {0} /\ Result \subseteq Nat \ {0} /\ Event \cap Result = {}
  /\ NoLane \notin Lane
  /\ MaxAttempts \in Nat \ {0} /\ MaxRetries \in Nat /\ MaxFence \in Nat

VARIABLES
  table,      \* the table whose lanes the behaviour follows
  im,         \* the run belongs to a conversation
  run,        \* status, fence, cancelled and result_id of its work item
  made,       \* fence a row was written under, 0 before
  attempts,   \* .attempts
  due,        \* .available_at <= NOW()
  token,      \* .claim_token
  delivered,  \* .delivered_at IS NOT NULL
  failed,     \* .failed_at IS NOT NULL
  receipt,    \* results with a stored IM receipt
  claims,     \* claims of a row since it was last retried on request
  retries,    \* trusted retries so far
  lane,       \* what each lane is doing
  late,       \* rows on their way to the receiver though their lane gave up
  received,   \* rows the receiver has seen
  skipped,    \* events the transport was told to drop
  before      \* pairs of events recorded in the order of their numbers

rowVars == <<attempts, due, token, delivered, failed, receipt, claims>>
runVars == <<table, im, run, made, before>>
worldVars == <<late, received, skipped>>
vars == <<runVars, rowVars, retries, lane, worldVars>>

Row == Event \cup Result
Served == IF table = "events" THEN Event ELSE Result
Present(r) == made[r] # 0
Rest == [pc |-> "idle", row |-> 0, answered |-> FALSE]
Busy == {"claimed", "sent", "receipt", "ack", "fail"}

Init ==
  /\ table \in {"events", "results"} /\ im \in BOOLEAN
  /\ run = [status |-> "queued", fence |-> 0, cancelled |-> FALSE, result |-> 0]
  /\ made = [r \in Row |-> 0]
  /\ attempts = [r \in Row |-> 0] /\ due = [r \in Row |-> TRUE]
  /\ token = [r \in Row |-> NoLane] /\ claims = [r \in Row |-> 0]
  /\ delivered = [r \in Row |-> FALSE] /\ failed = [r \in Row |-> FALSE]
  /\ receipt = {} /\ retries = 0
  /\ lane = [l \in Lane |-> Rest]
  /\ late = {} /\ received = {} /\ skipped = {} /\ before = {}

-----------------------------------------------------------------------------
(* The run writes the rows *)

Run(s, f, c) == run' = [run EXCEPT !.status = s, !.fence = f, !.cancelled = c]

(* The work item changes hands: claimed, yielded, failed, revised or       *)
(* revived after a result, cancelled.  A revision that finds the run at    *)
(* work changes nothing the outboxes read before the next result.          *)
RunMoves ==
  /\ \/ /\ run.status = "queued" /\ ~run.cancelled /\ run.fence < MaxFence
        /\ Run("leased", run.fence + 1, FALSE)
     \/ /\ run.status = "leased"
        /\ \/ run.fence < MaxFence /\ Run("queued", run.fence + 1, run.cancelled)
           \/ Run("failed", run.fence, run.cancelled)
     \/ /\ run.status = "ended" /\ Run("queued", run.fence, FALSE)
     \/ /\ run.status # "failed" /\ ~run.cancelled
        /\ Run(IF run.status = "leased" THEN "leased" ELSE "failed", run.fence, TRUE)
  /\ UNCHANGED <<table, im, made, before, rowVars, retries, lane, worldVars>>

(* Event e is recorded now.                                                *)
Recorded(e) == before' = before \cup {<<d, e>> : d \in {x \in Event : Present(x) /\ x < e}}

(* append: a number in the range of the attempt, which is above those of   *)
(* earlier attempts.  Within an attempt a request its worker gave up on    *)
(* may be recorded after the next one.                                     *)
AppendEvent(e) ==
  /\ run.status = "leased" /\ ~Present(e)
  /\ \A d \in Event : made[d] \in 1 .. run.fence - 1 => d < e
  /\ made' = [made EXCEPT ![e] = run.fence]
  /\ Recorded(e)
  /\ UNCHANGED <<table, im, run, rowVars, retries, lane, worldVars>>

(* deliverMessage: result, outbox row and the event that announces them    *)
(* are one transaction.  The event's number is the next one of the run.    *)
CommitResult(r, e) ==
  /\ run.status = "leased" /\ ~run.cancelled /\ ~Present(r)
  /\ \A d \in Event : Present(d) => d < e
  /\ \A d \in Event : d < e => \E x \in Event : Present(x) /\ d <= x
  /\ run' = [run EXCEPT !.status = "ended", !.result = r]
  /\ made' = [made EXCEPT ![r] = run.fence, ![e] = run.fence]
  /\ Recorded(e)
  /\ UNCHANGED <<table, im, rowVars, retries, lane, worldVars>>

-----------------------------------------------------------------------------
(* A lane delivers a row *)

(* Fault: an earlier result may still be on its way.                       *)
CurrentAlone(r) == run.result = r /\ run.status = "ended" /\ ~run.cancelled /\ made[r] = run.fence

(* definitions.agent_delivery_outbox.where: the run's current result, not  *)
(* cancelled or claimed since, and no other being delivered.  A revision   *)
(* moves the run on from where its result is deliverable, so the request   *)
(* version never decides alone.                                            *)
Current(r) ==
  /\ run.result = r /\ run.status = "ended" /\ ~run.cancelled
  /\ made[r] = run.fence
  /\ \A q \in Result \ {r} : ~(token[q] # NoLane /\ ~delivered[q] /\ ~due[q])

(* Fault: only events of the same attempt are waited for.                  *)
InTurnOfAttempt(e) == \A d \in Event : d < e /\ made[d] = made[e] => delivered[d]

(* definitions.agent_run_events.where: every earlier event is delivered.   *)
InTurn(e) == \A d \in Event : d < e /\ Present(d) => delivered[d]

Candidate(r) ==
  /\ Present(r) /\ ~delivered[r] /\ ~failed[r] /\ due[r]
  /\ attempts[r] < MaxAttempts
  /\ IF r \in Event THEN InTurn(r) ELSE Current(r)

(* An attempt is counted when the row is claimed, before anything is sent. *)
Counted(r) == [attempts EXCEPT ![r] = @ + 1]

(* deliverBatch's first statement: the claim.                              *)
ClaimRow(l, r) ==
  /\ lane[l].pc = "idle" /\ r \in Served /\ Candidate(r)
  /\ claims' = [claims EXCEPT ![r] = @ + 1]
  /\ token' = [token EXCEPT ![r] = l]
  /\ due' = [due EXCEPT ![r] = FALSE]
  /\ attempts' = Counted(r)
  /\ lane' = [lane EXCEPT ![l] = [pc |-> "claimed", row |-> r, answered |-> FALSE]]
  /\ UNCHANGED <<runVars, delivered, failed, receipt, retries, worldVars>>

(* An event of a conversation is dropped if hidden, or if the run was      *)
(* claimed again or cancelled since it was recorded.                       *)
Stale(e) == made[e] # run.fence \/ run.cancelled

(* What flushEvents may drop.                                              *)
Droppable(r) == im /\ r \in Event

(* flushEvents and flushDeliveries: the transport is called, or not.       *)
Transmit(l) ==
  LET r == lane[l].row
  IN /\ lane[l].pc = "claimed"
     /\ \/ /\ ~(Droppable(r) /\ Stale(r))
           /\ lane' = [lane EXCEPT ![l].pc = "sent"]
           /\ UNCHANGED skipped
        \/ /\ Droppable(r)
           /\ skipped' = skipped \cup {r}
           /\ lane' = [lane EXCEPT ![l].pc = "ack"]
     /\ UNCHANGED <<runVars, rowVars, retries, received, late>>

(* A request reaches the receiver while its lane waits, or after that.  A  *)
(* second copy changes nothing there.  A request that is lost never does.  *)
Arrive(l) ==
  /\ lane[l].pc = "sent" /\ ~lane[l].answered
  /\ received' = received \cup {lane[l].row}
  /\ late' = late \ {lane[l].row}
  /\ lane' = [lane EXCEPT ![l].answered = TRUE]
  /\ UNCHANGED <<runVars, rowVars, retries, skipped>>

ArriveLate(r) ==
  /\ r \in late
  /\ received' = received \cup {r}
  /\ late' = late \ {r}
  /\ UNCHANGED <<runVars, rowVars, retries, lane, skipped>>

(* The request of a lane that stops at one of the steps P may still arrive: *)
(* abortable leaves the transport's callback running, a crash does not.    *)
Abandoned(l, P) == IF lane[l].pc \in P THEN late \cup ({lane[l].row} \ received) ELSE late

(* Fault: a delivery that ran into its deadline counts as made.            *)
AnsweredAnyway(l) ==
  /\ lane[l].pc = "sent"
  /\ lane' = [lane EXCEPT ![l].pc = "ack"]
  /\ UNCHANGED <<runVars, rowVars, retries, worldVars>>

(* deliver resolves; for an IM result its receipt is stored next.          *)
Answered(l) ==
  /\ lane[l].pc = "sent" /\ lane[l].answered
  /\ lane' = [lane EXCEPT ![l].pc = IF im /\ lane[l].row \in Result THEN "receipt" ELSE "ack"]
  /\ UNCHANGED <<runVars, rowVars, retries, worldVars>>

StoreReceipt(l) ==
  LET r == lane[l].row
  IN /\ lane[l].pc = "receipt"
     /\ IF token[r] = l
        THEN receipt' = receipt \cup {r} /\ lane' = [lane EXCEPT ![l].pc = "ack"]
        ELSE lane' = [lane EXCEPT ![l].pc = "fail"] /\ UNCHANGED receipt
     /\ UNCHANGED <<runVars, attempts, due, token, delivered, failed, claims, retries, worldVars>>

(* The callback of a delivery given up stores its receipt while the claim  *)
(* still stands.                                                           *)
StoreReceiptLate(l) ==
  /\ lane[l].pc = "fail" /\ im /\ lane[l].row \in Result \cap received
  /\ token[lane[l].row] = l
  /\ receipt' = receipt \cup {lane[l].row}
  /\ UNCHANGED <<runVars, attempts, due, token, delivered, failed, claims, retries, lane, worldVars>>

(* deliver rejects, the deadline passes, or a statement throws.            *)
GiveUp(l) ==
  /\ lane[l].pc \in {"claimed", "sent", "receipt", "ack"}
  /\ lane' = [lane EXCEPT ![l].pc = "fail"]
  /\ late' = Abandoned(l, {"claimed", "sent"})
  /\ UNCHANGED <<runVars, rowVars, retries, received, skipped>>

(* WHERE ... AND claim_token = the lane's.                                 *)
Owns(l) == token[lane[l].row] = l

(* The acknowledgement; its own answer may be lost.                        *)
Acknowledge(l) ==
  LET r == lane[l].row
  IN /\ lane[l].pc = "ack"
     /\ IF Owns(l) THEN delivered' = [delivered EXCEPT ![r] = TRUE] /\ token' = [token EXCEPT ![r] = NoLane]
        ELSE UNCHANGED <<delivered, token>>
     /\ \/ lane' = [lane EXCEPT ![l] = Rest]
        \/ lane' = [lane EXCEPT ![l].pc = "fail"]
     /\ UNCHANGED <<runVars, attempts, due, failed, receipt, claims, retries, worldVars>>

(* The failure: back off, or fail for good at the attempt limit.           *)
Fail(l) ==
  LET r == lane[l].row
  IN /\ lane[l].pc = "fail"
     /\ IF Owns(l)
        THEN /\ token' = [token EXCEPT ![r] = NoLane]
             /\ failed' = [failed EXCEPT ![r] = attempts[r] >= MaxAttempts]
             /\ due' = [due EXCEPT ![r] = FALSE]
        ELSE UNCHANGED <<token, failed, due>>
     /\ lane' = [lane EXCEPT ![l] = Rest]
     /\ UNCHANGED <<runVars, attempts, delivered, receipt, claims, retries, worldVars>>

(* The lane's process dies, or its failure could not be stored.            *)
Crash(l) ==
  /\ lane[l].pc \in Busy
  /\ lane' = [lane EXCEPT ![l] = Rest]
  /\ late' = Abandoned(l, {"sent"})
  /\ UNCHANGED <<runVars, rowVars, retries, received, skipped>>

-----------------------------------------------------------------------------
(* The claim's 60 seconds, or the back-off, are over.  Nothing reads the   *)
(* time of a row that is delivered or has failed.                          *)
BecomeDue(r) ==
  /\ ~due[r] /\ ~delivered[r] /\ ~failed[r] /\ due' = [due EXCEPT ![r] = TRUE]
  /\ UNCHANGED <<runVars, attempts, token, delivered, failed, receipt, claims, retries, lane, worldVars>>

(* Fault: rows still claimed are left to their lane, which may be gone.    *)
ExhaustedUnclaimed ==
  {r \in Served : Present(r) /\ ~delivered[r] /\ ~failed[r] /\ token[r] = NoLane /\ attempts[r] >= MaxAttempts}

Exhausted == {r \in Served : Present(r) /\ ~delivered[r] /\ ~failed[r] /\ due[r] /\ attempts[r] >= MaxAttempts}

(* flushOutbox's first statement: claims that ran out at the limit.        *)
SweepExhausted ==
  /\ Exhausted # {}
  /\ failed' = [r \in Row |-> failed[r] \/ r \in Exhausted]
  /\ token' = [r \in Row |-> IF r \in Exhausted THEN NoLane ELSE token[r]]
  /\ UNCHANGED <<runVars, attempts, due, delivered, receipt, claims, retries, lane, worldVars>>

(* retryDelivery: the failed events, or the failed current result.         *)
RetryDelivery(R) ==
  /\ retries < MaxRetries /\ retries' = retries + 1
  /\ R # {}
  /\ failed' = [r \in Row |-> failed[r] /\ r \notin R]
  /\ attempts' = [r \in Row |-> IF r \in R THEN 0 ELSE attempts[r]]
  /\ due' = [r \in Row |-> due[r] \/ r \in R]
  /\ token' = [r \in Row |-> IF r \in R THEN NoLane ELSE token[r]]
  /\ claims' = [r \in Row |-> IF r \in R THEN 0 ELSE claims[r]]
  /\ UNCHANGED <<runVars, delivered, receipt, lane, worldVars>>

Failed(S) == {r \in S : failed[r] /\ ~delivered[r]}

LaneStep(l) ==
  \/ \E r \in Row : ClaimRow(l, r)
  \/ Transmit(l) \/ Answered(l) \/ StoreReceipt(l) \/ GiveUp(l) \/ Acknowledge(l) \/ Fail(l)

Next ==
  \/ RunMoves
  \/ \E e \in Event : AppendEvent(e) \/ \E r \in Result : CommitResult(r, e)
  \/ \E l \in Lane : LaneStep(l) \/ Crash(l) \/ Arrive(l) \/ StoreReceiptLate(l)
  \/ \E r \in Row : BecomeDue(r) \/ ArriveLate(r)
  \/ SweepExhausted
  \/ RetryDelivery(Failed(Event))
  \/ RetryDelivery(Failed(IF run.cancelled THEN {} ELSE {run.result} \cap Result))

Spec == Init /\ [][Next]_vars

(* Fairness.  Lanes run to their deadlines and are started again every     *)
(* second, and time passes: as long as any of that can happen, some of it  *)
(* does.  Nothing is assumed of the network, the receiver or the run, nor  *)
(* of any single lane.                                                     *)
Flush == (\E l \in Lane : LaneStep(l)) \/ (\E r \in Row : BecomeDue(r)) \/ SweepExhausted

FairSpec == Spec /\ WF_vars(Flush)

-----------------------------------------------------------------------------
(* Properties *)

(* Every table and every lane keeps its type.                              *)
TypeOK ==
  /\ table \in {"events", "results"} /\ im \in BOOLEAN
  /\ run \in [status : {"queued", "leased", "ended", "failed"}, fence : Nat,
              cancelled : BOOLEAN, result : Result \cup {0}]
  /\ made \in [Row -> Nat]
  /\ attempts \in [Row -> Nat] /\ claims \in [Row -> Nat] /\ token \in [Row -> Lane \cup {NoLane}]
  /\ due \in [Row -> BOOLEAN] /\ delivered \in [Row -> BOOLEAN] /\ failed \in [Row -> BOOLEAN]
  /\ receipt \subseteq Result /\ retries \in Nat
  /\ lane \in [Lane -> [pc : Busy \cup {"idle"}, row : Row \cup {0}, answered : BOOLEAN]]
  /\ late \subseteq Row /\ received \subseteq Row /\ skipped \subseteq Event /\ before \subseteq Event \X Event

(* performance.md: events of one work keep their order.  The receiver      *)
(* first sees an event when every event recorded ahead of it has reached   *)
(* it or was dropped, whatever was retried, lost or late.                  *)
EventsInOrder == \A p \in before : p[2] \in received => p[1] \in received \cup skipped

(* A row marked delivered has reached the receiver, or was dropped on      *)
(* purpose, and an IM result has its receipt.                              *)
AckedIsReceived ==
  \A r \in Row : delivered[r] =>
    /\ r \in received \cup skipped
    /\ im /\ r \in Result => r \in receipt

(* A delivered row is never claimed, failed or retried again by a lane     *)
(* that lost its claim: the token decides who may end a claim.             *)
DeliveredIsFinal ==
  /\ \A r \in Row : ~(delivered[r] /\ failed[r])
  /\ \A r \in Row : delivered[r] => token[r] = NoLane

(* packaged-runtime.md: bounded retries.  Between two trusted retries a    *)
(* row is claimed, hence sent, at most MaxAttempts times, crashes counted. *)
ClaimsBounded == \A r \in Row : claims[r] <= MaxAttempts

(* Two results of one run are never under delivery at once.                *)
ResultsSerialized ==
  \A q, r \in Result : token[q] # NoLane /\ token[r] # NoLane /\ ~due[q] /\ ~due[r] => q = r

(* Every event is delivered or fails for good, unless one ahead of it has  *)
(* failed.                                                                 *)
EventsSettle ==
  \A e \in Event : (table = "events" /\ Present(e)) ~> (delivered[e] \/ \E d \in Event : d <= e /\ failed[d])
=============================================================================
