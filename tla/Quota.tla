-------------------------------- MODULE Quota -------------------------------
(***************************************************************************)
(* ResourceQuota: the slots of a shared resource of one process (model     *)
(* calls, tool calls, fetches, parsers), with slots reserved for the       *)
(* foreground and a bounded queue.  Every step is one synchronous run of   *)
(* run(), of a cancellation or of release().                               *)
(***************************************************************************)
EXTENDS Integers, FiniteSets

CONSTANTS
  Calls,       \* calls of run()
  Background,  \* the calls of priority 'background'
  Capacity,    \* slots
  MaxQueued,   \* maxQueued
  Reserved     \* reservedForeground

(* What the constructor checks, without its upper limits.                  *)
ASSUME QuotaAssumption ==
  /\ IsFiniteSet(Calls) /\ Background \subseteq Calls
  /\ Capacity \in Nat \ {0} /\ MaxQueued \in Nat /\ Reserved \in 0 .. Capacity - 1

VARIABLES
  call,     \* where each call is
  used,     \* the counters active and background
  waiters   \* the queue: for each call in it, the calls ahead of it

qvars == <<call, used, waiters>>

Working == {c \in Calls : call[c] \in {"running", "abandoned"}}

QuotaTypeOK ==
  /\ call \in [Calls -> {"new", "waiting", "running", "abandoned", "settled", "refused", "cancelled"}]
  /\ used \in [active : 0 .. Capacity, background : 0 .. Capacity]
  /\ DOMAIN waiters = {c \in Calls : call[c] = "waiting"} /\ Cardinality(DOMAIN waiters) <= MaxQueued
  /\ \A c \in DOMAIN waiters : waiters[c] \subseteq DOMAIN waiters \ {c}

QuotaInit ==
  /\ call = [c \in Calls |-> "new"] /\ used = [active |-> 0, background |-> 0]
  /\ waiters = [c \in {} |-> {}]

Available(u, c) == u.active < Capacity /\ (c \in Background => u.background < Capacity - Reserved)

(* The counters after the calls of S start, and after c releases its slot. *)
Taken(u, S) ==
  [active |-> u.active + Cardinality(S), background |-> u.background + Cardinality(S \cap Background)]

Freed(u, c) ==
  [active |-> u.active - 1, background |-> u.background - IF c \in Background THEN 1 ELSE 0]

Queued(queue, c) == [d \in DOMAIN queue \cup {c} |-> IF d = c THEN DOMAIN queue ELSE queue[d]]

Without(queue, S) == [d \in DOMAIN queue \ S |-> queue[d] \ S]

(* drain: the first waiter a slot is free for starts, then again from the  *)
(* front.  Starting only uses slots up, so the calls that start are those  *)
(* a slot is free for after the ones ahead of them have started.           *)
StartsHead(u, queue, S) == \A c \in DOMAIN queue : c \in S <=> queue[c] = {} /\ Available(u, c)

Starts(u, queue, S) == \A c \in DOMAIN queue : c \in S <=> Available(Taken(u, S \cap queue[c]), c)

Drain(u, queue, calls) ==
  \E S \in SUBSET DOMAIN queue :
    /\ Starts(u, queue, S)
    /\ used' = Taken(u, S) /\ waiters' = Without(queue, S)
    /\ call' = [c \in Calls |-> IF c \in S THEN "running" ELSE calls[c]]

(* run: at once when a slot is free and nobody waits, refused when the     *)
(* queue is full, queued otherwise.  An aborted signal is rejected first.  *)
AtOnce(c) == Available(used, c) /\ DOMAIN waiters = {}

Run(c) ==
  /\ call[c] = "new"
  /\ \/ call' = [call EXCEPT ![c] = "cancelled"] /\ UNCHANGED <<used, waiters>>
     \/ /\ AtOnce(c)
        /\ call' = [call EXCEPT ![c] = "running"] /\ used' = Taken(used, {c}) /\ UNCHANGED waiters
     \/ /\ ~AtOnce(c) /\ Cardinality(DOMAIN waiters) >= MaxQueued
        /\ call' = [call EXCEPT ![c] = "refused"] /\ UNCHANGED <<used, waiters>>
     \/ /\ ~AtOnce(c) /\ Cardinality(DOMAIN waiters) < MaxQueued
        /\ Drain(used, Queued(waiters, c), [call EXCEPT ![c] = "waiting"])

(* A waiter whose signal aborts leaves the queue.  A running operation     *)
(* keeps its slot until it settles, although nobody waits for it.          *)
CancelWaiting(c) ==
  /\ call[c] = "waiting" /\ waiters' = Without(waiters, {c})
  /\ call' = [call EXCEPT ![c] = "cancelled"] /\ UNCHANGED used

AbandonReleasing(c) ==
  /\ call[c] = "running" /\ Drain(Freed(used, c), waiters, [call EXCEPT ![c] = "abandoned"])

Abandon(c) ==
  /\ call[c] = "running" /\ call' = [call EXCEPT ![c] = "abandoned"] /\ UNCHANGED <<used, waiters>>

Release(c) ==
  /\ call[c] \in {"running", "abandoned"}
  /\ Drain(Freed(used, c), waiters, [call EXCEPT ![c] = "settled"])

QuotaNext == \E c \in Calls : Run(c) \/ CancelWaiting(c) \/ Abandon(c) \/ Release(c)

QuotaSpec == QuotaInit /\ [][QuotaNext]_qvars

(* The class comment: a slot is held until the underlying operation        *)
(* settles, even if it ignores cancellation.  The operations really at     *)
(* work never exceed the capacity, nor the background ones their share.    *)
CapacityKept ==
  /\ Cardinality(Working) <= Capacity
  /\ Cardinality(Working \cap Background) <= Capacity - Reserved

(* Nobody waits for a slot that is free for it: no cancellation, release   *)
(* or blocked background call at the front keeps a waiter from it.         *)
NoneHeldBack == \A c \in DOMAIN waiters : ~Available(used, c)

(* resource-quota.ts: no more calls at work than slots, the reserved ones  *)
(* left to the foreground, and no caller waits while it could have a slot. *)
QuotaKept == QuotaTypeOK /\ CapacityKept /\ NoneHeldBack
=============================================================================
