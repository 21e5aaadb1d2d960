--------------------------- MODULE ResourceProofs ---------------------------
(***************************************************************************)
(* Theorems about the slots of a process: those of a ResourceQuota for any *)
(* number of calls and slots, those of a worker for any number of rows and *)
(* runs, and its pool of kernels for any number of sessions and cells.     *)
(***************************************************************************)
EXTENDS Quota, Worker, Kernel, FiniteSetTheorems, SequenceTheorems, TLAPS

-----------------------------------------------------------------------------
(* Counting *)

(* A part of a finite set that gains or loses one member.                  *)
LEMMA CountAdd ==
  ASSUME NEW F, IsFiniteSet(F), NEW S \in SUBSET F, NEW x \in F, x \notin S
  PROVE  /\ Cardinality(S) \in Nat /\ Cardinality(S \cup {x}) = Cardinality(S) + 1
         /\ S \cup {x} \in SUBSET F
<1>1. IsFiniteSet(S) /\ Cardinality(S) \in Nat
  BY FS_Subset, FS_CardinalityType
<1> QED
  BY <1>1, FS_AddElement

LEMMA CountDrop ==
  ASSUME NEW F, IsFiniteSet(F), NEW S \in SUBSET F, NEW x \in S
  PROVE  /\ Cardinality(S) \in Nat /\ Cardinality(S) >= 1
         /\ Cardinality(S \ {x}) = Cardinality(S) - 1
<1>1. IsFiniteSet(S) /\ Cardinality(S) \in Nat
  BY FS_Subset, FS_CardinalityType
<1>2. Cardinality(S \ {x}) = Cardinality(S) - 1
  BY <1>1, FS_RemoveElement
<1>3. Cardinality(S) # 0
  BY <1>1, FS_EmptySet
<1> QED
  BY <1>1, <1>2, <1>3

(* A set that is empty, or is not.                                         *)
LEMMA CountNone ==
  ASSUME NEW F, IsFiniteSet(F), NEW S \in SUBSET F
  PROVE  Cardinality(S) \in Nat /\ (S # {} => Cardinality(S) >= 1) /\ (S = {} => Cardinality(S) = 0)
<1>1. IsFiniteSet(S) /\ Cardinality(S) \in Nat
  BY FS_Subset, FS_CardinalityType
<1> QED
  BY <1>1, FS_EmptySet

(* The smaller of two sets has no more members.                            *)
LEMMA CountPart ==
  ASSUME NEW F, IsFiniteSet(F), NEW S \in SUBSET F, NEW T \in SUBSET S
  PROVE  Cardinality(T) \in Nat /\ Cardinality(S) \in Nat /\ Cardinality(T) <= Cardinality(S)
<1>1. IsFiniteSet(S)
  BY FS_Subset
<1> QED
  BY <1>1, FS_Subset, FS_CardinalityType

-----------------------------------------------------------------------------
(* ResourceQuota *)

Counters == [active : Int, background : Int]

(* The counters are those of the calls of W, and within their limits.      *)
Counted(u, W) ==
  /\ u \in Counters
  /\ u.active = Cardinality(W) /\ u.background = Cardinality(W \cap Background)

Bounded(u) == u.active <= Capacity /\ u.background <= Capacity - Reserved

(* The calls of a queue are in an order.                                   *)
Ordered(queue) ==
  /\ \A c \in DOMAIN queue : queue[c] \subseteq DOMAIN queue \ {c}
  /\ \A c, d \in DOMAIN queue : c # d => c \in queue[d] \/ d \in queue[c]

QuotaInv ==
  /\ QuotaTypeOK /\ NoneHeldBack
  /\ Counted(used, Working) /\ Bounded(used) /\ Ordered(waiters)

(* A slot that is free after more calls have started was free before.      *)
LEMMA AvailableBefore ==
  ASSUME NEW u \in Counters, NEW S \in SUBSET Calls, NEW T \in SUBSET S, NEW c,
         Available(Taken(u, S), c)
  PROVE  Available(Taken(u, T), c) /\ Available(u, c)
<1>1. /\ Cardinality(T) \in Nat /\ Cardinality(S) \in Nat /\ Cardinality(T) <= Cardinality(S)
  BY QuotaAssumption, CountPart
<1>2. /\ Cardinality(T \cap Background) \in Nat /\ Cardinality(S \cap Background) \in Nat
      /\ Cardinality(T \cap Background) <= Cardinality(S \cap Background)
  <2>1. S \cap Background \in SUBSET Calls /\ T \cap Background \in SUBSET (S \cap Background)
    OBVIOUS
  <2> QED
    BY <2>1, QuotaAssumption, CountPart
<1> QED
  BY <1>1, <1>2, QuotaAssumption DEF Available, Taken, Counters

(* The counters after one call more, and after one less.                   *)
LEMMA CountTaken ==
  ASSUME NEW W \in SUBSET Calls, NEW u, Counted(u, W), NEW c \in Calls \ W
  PROVE  Counted(Taken(u, {c}), W \cup {c})
<1>1. /\ Cardinality({c}) = 1 /\ IsFiniteSet(Calls) /\ W \cap Background \in SUBSET Calls
      /\ c \notin W \cap Background
  BY FS_Singleton, QuotaAssumption
<1>2. Cardinality(W) \in Nat /\ Cardinality(W \cup {c}) = Cardinality(W) + 1
  BY <1>1, CountAdd
<1>3. Cardinality((W \cup {c}) \cap Background) = Cardinality(W \cap Background) + Cardinality({c} \cap Background)
      /\ Cardinality(W \cap Background) \in Nat /\ Cardinality({c} \cap Background) \in Nat
  <2>1. CASE c \in Background
    <3>1. {c} \cap Background = {c} /\ (W \cup {c}) \cap Background = (W \cap Background) \cup {c}
      BY <2>1
    <3>2. /\ Cardinality(W \cap Background) \in Nat
          /\ Cardinality((W \cap Background) \cup {c}) = Cardinality(W \cap Background) + 1
      BY <1>1, CountAdd
    <3> QED
      BY <1>1, <3>1, <3>2
  <2>2. CASE c \notin Background
    <3>1. {c} \cap Background = {} /\ (W \cup {c}) \cap Background = W \cap Background
      BY <2>2
    <3>2. Cardinality(W \cap Background) \in Nat
      BY <1>1, CountNone
    <3>3. Cardinality({}) = 0
      BY FS_EmptySet
    <3> QED
      BY <3>1, <3>2, <3>3
  <2> QED
    BY <2>1, <2>2
<1> QED
  BY <1>1, <1>2, <1>3 DEF Counted, Taken, Counters

LEMMA CountFreed ==
  ASSUME NEW W \in SUBSET Calls, NEW u, Counted(u, W), NEW c \in W
  PROVE  Counted(Freed(u, c), W \ {c})
<1>1. IsFiniteSet(Calls) /\ W \cap Background \in SUBSET Calls
  BY QuotaAssumption
<1>2. Cardinality(W) \in Nat /\ Cardinality(W \ {c}) = Cardinality(W) - 1
  BY <1>1, CountDrop
<1>3. /\ Cardinality(W \cap Background) \in Nat
      /\ Cardinality((W \ {c}) \cap Background) = Cardinality(W \cap Background) - IF c \in Background THEN 1 ELSE 0
  <2>1. CASE c \in Background
    <3>1. (W \ {c}) \cap Background = (W \cap Background) \ {c} /\ c \in W \cap Background
      BY <2>1
    <3>2. /\ Cardinality(W \cap Background) \in Nat
          /\ Cardinality((W \cap Background) \ {c}) = Cardinality(W \cap Background) - 1
      BY <1>1, <3>1, CountDrop
    <3> QED
      BY <2>1, <3>1, <3>2
  <2>2. CASE c \notin Background
    <3>1. (W \ {c}) \cap Background = W \cap Background
      BY <2>2
    <3>2. Cardinality(W \cap Background) \in Nat
      BY <1>1, CountNone
    <3> QED
      BY <2>2, <3>1, <3>2
  <2> QED
    BY <2>1, <2>2
<1> QED
  BY <1>1, <1>2, <1>3 DEF Counted, Freed, Counters

(* The counters after one call starts.                                     *)
LEMMA TakenOne ==
  ASSUME NEW u \in Counters, NEW c
  PROVE  /\ Taken(u, {c}).active = u.active + 1
         /\ Taken(u, {c}).background = u.background + IF c \in Background THEN 1 ELSE 0
<1>1. Cardinality({c}) = 1 /\ Cardinality({}) = 0
  BY FS_Singleton, FS_EmptySet
<1>2. CASE c \in Background
  <2>1. {c} \cap Background = {c}
    BY <1>2
  <2> QED
    BY <1>1, <1>2, <2>1 DEF Taken
<1>3. CASE c \notin Background
  <2>1. {c} \cap Background = {}
    BY <1>3
  <2> QED
    BY <1>1, <1>3, <2>1 DEF Taken
<1> QED
  BY <1>2, <1>3

AtMostOne(S) == \A c, d \in S : c = d

(* What a drain that starts at most one call makes of the counters and of  *)
(* the queue.                                                              *)
Consistent(W, u, queue) ==
  /\ W \in SUBSET Calls /\ Counted(u, W) /\ Bounded(u)
  /\ DOMAIN queue \subseteq Calls \ W /\ Ordered(queue)

NoneFree(u, queue) == \A d \in DOMAIN queue : ~Available(u, d)

LEMMA DrainStep ==
  ASSUME NEW W, NEW u, NEW queue, Consistent(W, u, queue),
         NEW S \in SUBSET DOMAIN queue, Starts(u, queue, S), AtMostOne(S)
  PROVE  /\ Consistent(W \cup S, Taken(u, S), Without(queue, S))
         /\ NoneFree(Taken(u, S), Without(queue, S))
<1>0. /\ W \in SUBSET Calls /\ Counted(u, W) /\ Bounded(u)
      /\ DOMAIN queue \subseteq Calls \ W /\ Ordered(queue)
  BY DEF Consistent
<1>1. u \in Counters
  BY <1>0 DEF Counted
<1>2. /\ DOMAIN Without(queue, S) = DOMAIN queue \ S
      /\ \A d \in DOMAIN queue \ S : Without(queue, S)[d] = queue[d] \ S
  BY DEF Without
<1>3. Ordered(Without(queue, S))
  BY <1>0, <1>2 DEF Ordered
<1>4. ASSUME NEW d \in DOMAIN Without(queue, S), Available(Taken(u, S), d) PROVE FALSE
  <2>1. S \in SUBSET Calls /\ S \cap queue[d] \in SUBSET S
    BY <1>0
  <2>2. Available(Taken(u, S \cap queue[d]), d)
    BY <1>1, <1>4, <2>1, AvailableBefore
  <2> QED
    BY <1>2, <2>2 DEF Starts
<1>5. CASE S = {}
  <2>1. Cardinality(S) = 0 /\ Cardinality(S \cap Background) = 0 /\ W \cup S = W
    BY <1>5, FS_EmptySet
  <2>2. Taken(u, S) = u
    BY <1>1, <2>1 DEF Taken, Counters
  <2> QED
    BY <1>0, <1>2, <1>3, <1>4, <2>1, <2>2 DEF Consistent, NoneFree
<1>6. CASE S # {}
  <2>1. PICK s \in S : S = {s}
    BY <1>6 DEF AtMostOne
  <2>2. s \in Calls /\ s \notin W
    BY <1>0
  <2>3. Counted(Taken(u, S), W \cup S)
    BY <1>0, <2>1, <2>2, CountTaken
  <2>4. Available(u, s)
    <3>1. Available(Taken(u, S \cap queue[s]), s)
      BY <2>1 DEF Starts
    <3>2. S \cap queue[s] \in SUBSET Calls /\ {} \in SUBSET (S \cap queue[s])
      BY <1>0
    <3> QED
      BY <1>1, <3>1, <3>2, AvailableBefore
  <2>5. /\ Taken(u, S).active = u.active + 1
        /\ Taken(u, S).background = u.background + IF s \in Background THEN 1 ELSE 0
    BY <1>1, <2>1, TakenOne
  <2>7. Bounded(Taken(u, S))
    BY <1>0, <1>1, <2>4, <2>5, QuotaAssumption DEF Bounded, Counters, Available
  <2> QED
    BY <1>0, <1>2, <1>3, <1>4, <2>3, <2>7 DEF Consistent, NoneFree
<1> QED
  BY <1>5, <1>6

(* Counters within their limits have the type of the variable.             *)
LEMMA CountersType ==
  ASSUME NEW W \in SUBSET Calls, NEW u, Counted(u, W), Bounded(u)
  PROVE  u \in [active : 0 .. Capacity, background : 0 .. Capacity]
<1>1. Cardinality(W) \in Nat
  BY QuotaAssumption, CountNone
<1>2. Cardinality(W \cap Background) \in Nat
  <2>1. W \cap Background \in SUBSET Calls
    OBVIOUS
  <2> QED
    BY <2>1, QuotaAssumption, CountNone
<1> QED
  BY <1>1, <1>2, QuotaAssumption DEF Counted, Bounded, Counters

CallStates == {"new", "waiting", "running", "abandoned", "settled", "refused", "cancelled"}

At(calls, states) == {c \in Calls : calls[c] \in states}

(* A drain that starts at most one call ends in the invariant.             *)
LEMMA DrainInv ==
  ASSUME NEW u, NEW queue, NEW calls \in [Calls -> CallStates], Drain(u, queue, calls),
         Counted(u, At(calls, {"running", "abandoned"})), Bounded(u),
         DOMAIN queue = At(calls, {"waiting"}), Cardinality(DOMAIN queue) <= MaxQueued, Ordered(queue),
         \A S \in SUBSET DOMAIN queue : Starts(u, queue, S) => AtMostOne(S)
  PROVE  QuotaInv'
<1> DEFINE W == At(calls, {"running", "abandoned"})
<1>1. PICK S \in SUBSET DOMAIN queue :
        /\ Starts(u, queue, S)
        /\ used' = Taken(u, S) /\ waiters' = Without(queue, S)
        /\ call' = [c \in Calls |-> IF c \in S THEN "running" ELSE calls[c]]
  BY DEF Drain
<1>2. W \in SUBSET Calls /\ DOMAIN queue \subseteq Calls \ W
  BY DEF At
<1>3. W \cup S = Working' /\ DOMAIN queue \ S = {c \in Calls : call'[c] = "waiting"}
  BY <1>1 DEF At, Working
<1>4. call' \in [Calls -> CallStates]
  BY <1>1 DEF CallStates
<1>5. W \cup S \in SUBSET Calls
  BY <1>2
<1> HIDE DEF W
<1>6. /\ Counted(used', Working') /\ Bounded(used')
      /\ \A d \in DOMAIN waiters' : ~Available(used', d)
      /\ Ordered(waiters') /\ DOMAIN waiters' = DOMAIN queue \ S
  <2>1. AtMostOne(S)
    BY <1>1
  <2>2. Counted(u, W)
    BY DEF W
  <2>3. Consistent(W, u, queue)
    BY <1>2, <2>2 DEF Consistent
  <2>4. /\ Consistent(W \cup S, Taken(u, S), Without(queue, S))
        /\ NoneFree(Taken(u, S), Without(queue, S))
    BY <1>1, <2>1, <2>3, DrainStep
  <2>5. DOMAIN Without(queue, S) = DOMAIN queue \ S
    BY DEF Without
  <2> QED
    BY <1>1, <1>3, <2>4, <2>5 DEF Consistent, NoneFree
<1>7. used' \in [active : 0 .. Capacity, background : 0 .. Capacity]
  BY <1>3, <1>5, <1>6, CountersType
<1>8. Cardinality(DOMAIN waiters') <= MaxQueued
  <2>1. DOMAIN queue \in SUBSET Calls /\ DOMAIN queue \ S \in SUBSET DOMAIN queue
    BY <1>2
  <2>2. /\ Cardinality(DOMAIN queue \ S) \in Nat /\ Cardinality(DOMAIN queue) \in Nat
        /\ Cardinality(DOMAIN queue \ S) <= Cardinality(DOMAIN queue)
    BY <2>1, QuotaAssumption, CountPart
  <2> QED
    BY <1>6, <2>2, QuotaAssumption
<1>9. Counted(used, Working)' /\ Bounded(used)' /\ Ordered(waiters)' /\ NoneHeldBack'
  BY <1>6 DEF Counted, Bounded, Ordered, NoneHeldBack, Available, Working
<1>10. QuotaTypeOK'
  BY <1>3, <1>4, <1>6, <1>7, <1>8 DEF QuotaTypeOK, CallStates, Ordered
<1> QED
  BY <1>9, <1>10 DEF QuotaInv

(* A released slot goes to one waiter at most: nobody was held back before *)
(* it, so whoever starts uses up the slot every other one would need.      *)
LEMMA ReleaseStartsOne ==
  ASSUME QuotaInv, NEW c \in Working, NEW S \in SUBSET DOMAIN waiters,
         Starts(Freed(used, c), waiters, S)
  PROVE  AtMostOne(S)
<1> DEFINE u == Freed(used, c)
<1>1. used \in Counters /\ u \in Counters /\ S \in SUBSET Calls
  BY DEF QuotaInv, QuotaTypeOK, Counted, Counters, Freed
<1>2. ASSUME NEW d \in S PROVE Available(Taken(u, S \cap waiters[d]), d) /\ ~Available(used, d)
  BY <1>2 DEF Starts, QuotaInv, NoneHeldBack
<1>3. ASSUME NEW d \in S, NEW e \in S, e \in waiters[d] PROVE FALSE
  <2>1. Available(Taken(u, {e}), d)
    <3>1. S \cap waiters[d] \in SUBSET Calls /\ {e} \in SUBSET (S \cap waiters[d])
      BY <1>1, <1>3
    <3> QED
      BY <1>1, <1>2, <3>1, AvailableBefore
  <2>2. Available(u, e)
    <3>1. S \cap waiters[e] \in SUBSET Calls /\ {} \in SUBSET (S \cap waiters[e])
      BY <1>1
    <3> QED
      BY <1>1, <1>2, <3>1, AvailableBefore
  <2>3. ~Available(used, d) /\ ~Available(used, e)
    BY <1>2
  <2> DEFINE v == Taken(u, {e})
  <2>4. u.active = used.active - 1 /\ u.background \in {used.background, used.background - 1}
    BY <1>1 DEF Freed, Counters
  <2> HIDE DEF u
  <2>5. v.active = u.active + 1 /\ v.background = u.background + IF e \in Background THEN 1 ELSE 0
    BY <1>1, TakenOne
  <2>6. used.active \in Int /\ used.background \in Int
    BY <1>1 DEF Counters
  <2> HIDE DEF v
  <2>7. Available(v, d)
    BY <2>1 DEF v
  <2> QED
    BY <2>2, <2>3, <2>4, <2>5, <2>6, <2>7, QuotaAssumption DEF Available
<1>4. ASSUME NEW d \in S, NEW e \in S, d # e PROVE FALSE
  <2>1. d \in waiters[e] \/ e \in waiters[d]
    BY <1>4 DEF QuotaInv, Ordered
  <2> QED
    BY <1>3, <2>1
<1> QED
  BY <1>4 DEF AtMostOne

(* A call that joins the queue starts alone or not at all.                 *)
LEMMA QueuedStartsOne ==
  ASSUME QuotaInv, NEW c \in Calls, call[c] = "new",
         NEW S \in SUBSET DOMAIN Queued(waiters, c), Starts(used, Queued(waiters, c), S)
  PROVE  AtMostOne(S)
<1>1. used \in Counters /\ S \in SUBSET Calls /\ DOMAIN Queued(waiters, c) = DOMAIN waiters \cup {c}
  BY DEF QuotaInv, QuotaTypeOK, Counted, Queued
<1>2. ASSUME NEW d \in S PROVE d = c
  <2>1. Available(Taken(used, S \cap Queued(waiters, c)[d]), d)
    BY <1>2 DEF Starts
  <2>2. S \cap Queued(waiters, c)[d] \in SUBSET Calls /\ {} \in SUBSET (S \cap Queued(waiters, c)[d])
    BY <1>1
  <2>3. Available(used, d)
    BY <1>1, <2>1, <2>2, AvailableBefore
  <2> QED
    BY <1>1, <2>3 DEF QuotaInv, NoneHeldBack
<1> QED
  BY <1>2 DEF AtMostOne

LEMMA QueuedType ==
  ASSUME QuotaInv, NEW c \in Calls, call[c] = "new", Cardinality(DOMAIN waiters) < MaxQueued
  PROVE  /\ DOMAIN Queued(waiters, c) = DOMAIN waiters \cup {c} /\ Ordered(Queued(waiters, c))
         /\ Cardinality(DOMAIN Queued(waiters, c)) <= MaxQueued
<1>1. /\ DOMAIN Queued(waiters, c) = DOMAIN waiters \cup {c} /\ c \notin DOMAIN waiters
      /\ \A d \in DOMAIN waiters : Queued(waiters, c)[d] = waiters[d]
      /\ Queued(waiters, c)[c] = DOMAIN waiters /\ DOMAIN waiters \in SUBSET Calls
  BY DEF Queued, QuotaInv, QuotaTypeOK
<1>2. Ordered(Queued(waiters, c))
  BY <1>1 DEF Ordered, QuotaInv
<1>3. /\ Cardinality(DOMAIN waiters) \in Nat
      /\ Cardinality(DOMAIN waiters \cup {c}) = Cardinality(DOMAIN waiters) + 1
  BY <1>1, QuotaAssumption, CountAdd
<1> QED
  BY <1>1, <1>2, <1>3, QuotaAssumption

(* The steps *)

LEMMA QuotaInitInv == QuotaInit => QuotaInv
<1> SUFFICES ASSUME QuotaInit PROVE QuotaInv
  OBVIOUS
<1>1. Working = {} /\ Working \cap Background = {} /\ DOMAIN waiters = {}
  BY DEF QuotaInit, Working
<1>2. Cardinality({}) = 0
  BY FS_EmptySet
<1>3. QuotaTypeOK
  <2>1. used \in [active : 0 .. Capacity, background : 0 .. Capacity]
    BY QuotaAssumption DEF QuotaInit
  <2>2. {c \in Calls : call[c] = "waiting"} = {}
    BY DEF QuotaInit
  <2> QED
    BY <1>1, <1>2, <2>1, <2>2, QuotaAssumption DEF QuotaTypeOK, QuotaInit
<1>4. Counted(used, Working) /\ Bounded(used)
  BY <1>1, <1>2, QuotaAssumption DEF QuotaInit, Counted, Bounded, Counters
<1> QED
  BY <1>1, <1>3, <1>4 DEF QuotaInv, NoneHeldBack, Ordered

LEMMA ReleaseInv == ASSUME QuotaInv, NEW c \in Calls, Release(c) PROVE QuotaInv'
<1> DEFINE calls == [call EXCEPT ![c] = "settled"]
<1>1. /\ call[c] \in {"running", "abandoned"} /\ Drain(Freed(used, c), waiters, calls)
  BY DEF Release
<1>2. c \in Working /\ Working \in SUBSET Calls /\ calls \in [Calls -> CallStates]
  BY <1>1 DEF Working, QuotaInv, QuotaTypeOK, CallStates
<1>3. At(calls, {"running", "abandoned"}) = Working \ {c} /\ DOMAIN waiters = At(calls, {"waiting"})
  BY <1>1 DEF At, Working, QuotaInv, QuotaTypeOK
<1>4. Counted(Freed(used, c), Working \ {c})
  BY <1>2, CountFreed DEF QuotaInv
<1>5. Bounded(Freed(used, c))
  BY QuotaAssumption DEF QuotaInv, Counted, Counters, Freed, Bounded
<1>6. Cardinality(DOMAIN waiters) <= MaxQueued /\ Ordered(waiters)
  BY DEF QuotaInv, QuotaTypeOK
<1>7. \A S \in SUBSET DOMAIN waiters : Starts(Freed(used, c), waiters, S) => AtMostOne(S)
  BY <1>2, ReleaseStartsOne
<1> HIDE DEF calls
<1> QED
  BY <1>1, <1>2, <1>3, <1>4, <1>5, <1>6, <1>7, DrainInv

LEMMA QueueInv ==
  ASSUME QuotaInv, NEW c \in Calls, call[c] = "new", Cardinality(DOMAIN waiters) < MaxQueued,
         Drain(used, Queued(waiters, c), [call EXCEPT ![c] = "waiting"])
  PROVE  QuotaInv'
<1> DEFINE calls == [call EXCEPT ![c] = "waiting"]
           queue == Queued(waiters, c)
<1>1. calls \in [Calls -> CallStates] /\ Drain(used, queue, calls)
  BY DEF QuotaInv, QuotaTypeOK, CallStates
<1>2. /\ DOMAIN queue = DOMAIN waiters \cup {c} /\ Ordered(queue) /\ Cardinality(DOMAIN queue) <= MaxQueued
  BY QueuedType
<1>3. At(calls, {"running", "abandoned"}) = Working /\ DOMAIN queue = At(calls, {"waiting"})
  BY <1>2 DEF At, Working, QuotaInv, QuotaTypeOK
<1>4. Counted(used, Working) /\ Bounded(used)
  BY DEF QuotaInv
<1>5. \A S \in SUBSET DOMAIN queue : Starts(used, queue, S) => AtMostOne(S)
  BY QueuedStartsOne
<1> HIDE DEF calls, queue
<1> QED
  BY <1>1, <1>2, <1>3, <1>4, <1>5, DrainInv

(* A step that leaves the counters, the queue and the work as they are.    *)
LEMMA QuietInv ==
  ASSUME QuotaInv, UNCHANGED <<used, waiters>>, call' \in [Calls -> CallStates],
         \A c \in Calls : /\ call'[c] = "waiting" <=> call[c] = "waiting"
                          /\ call'[c] \in {"running", "abandoned"} <=> call[c] \in {"running", "abandoned"}
  PROVE  QuotaInv'
<1>1. Working' = Working
  BY DEF Working
<1>2. {c \in Calls : call'[c] = "waiting"} = {c \in Calls : call[c] = "waiting"}
  OBVIOUS
<1>3. QuotaTypeOK'
  BY <1>2 DEF QuotaInv, QuotaTypeOK, CallStates
<1> QED
  BY <1>1, <1>3 DEF QuotaInv, NoneHeldBack, Counted, Bounded, Ordered, Available

LEMMA RunInv == ASSUME QuotaInv, NEW c \in Calls, Run(c) PROVE QuotaInv'
<1>0. call \in [Calls -> CallStates]
  BY DEF QuotaInv, QuotaTypeOK, CallStates
<1>1. CASE call' = [call EXCEPT ![c] = "cancelled"] /\ UNCHANGED <<used, waiters>>
  BY <1>0, <1>1, QuietInv DEF Run, CallStates
<1>2. CASE call' = [call EXCEPT ![c] = "refused"] /\ UNCHANGED <<used, waiters>>
  BY <1>0, <1>2, QuietInv DEF Run, CallStates
<1>3. CASE /\ AtOnce(c) /\ call' = [call EXCEPT ![c] = "running"]
           /\ used' = Taken(used, {c}) /\ UNCHANGED waiters
  <2>1. call[c] = "new" /\ Available(used, c) /\ DOMAIN waiters = {}
    BY <1>3 DEF Run, AtOnce
  <2>2. Working' = Working \cup {c} /\ c \in Calls \ Working /\ Working \in SUBSET Calls
    BY <1>0, <1>3, <2>1 DEF Working
  <2>3. {d \in Calls : call'[d] = "waiting"} = {d \in Calls : call[d] = "waiting"}
    BY <1>0, <1>3, <2>1
  <2>4. Counted(Taken(used, {c}), Working \cup {c})
    BY <2>2, CountTaken DEF QuotaInv
  <2>5. Counted(used', Working')
    BY <1>3, <2>2, <2>4
  <2>6. Bounded(used')
    <3>1. used \in Counters
      BY DEF QuotaInv, Counted
    <3>2. /\ used'.active = used.active + 1
          /\ used'.background = used.background + IF c \in Background THEN 1 ELSE 0
      BY <1>3, <3>1, TakenOne
    <3> QED
      BY <2>1, <3>1, <3>2, QuotaAssumption DEF QuotaInv, Bounded, Counters, Available
  <2>7. used' \in [active : 0 .. Capacity, background : 0 .. Capacity]
    <3>1. Working \cup {c} \in SUBSET Calls
      BY <2>2
    <3> QED
      BY <2>2, <2>5, <2>6, <3>1, CountersType
  <2>8. QuotaTypeOK'
    BY <1>0, <1>3, <2>3, <2>7 DEF QuotaInv, QuotaTypeOK, CallStates
  <2> QED
    BY <1>3, <2>1, <2>5, <2>6, <2>8 DEF QuotaInv, NoneHeldBack, Counted, Bounded, Ordered
<1>4. CASE /\ Cardinality(DOMAIN waiters) < MaxQueued
           /\ Drain(used, Queued(waiters, c), [call EXCEPT ![c] = "waiting"])
  BY <1>4, QueueInv DEF Run
<1> QED
  BY <1>1, <1>2, <1>3, <1>4 DEF Run

LEMMA CancelInv == ASSUME QuotaInv, NEW c \in Calls, CancelWaiting(c) PROVE QuotaInv'
<1>1. /\ call \in [Calls -> CallStates] /\ call[c] = "waiting"
      /\ waiters' = Without(waiters, {c}) /\ call' = [call EXCEPT ![c] = "cancelled"] /\ used' = used
  BY DEF QuotaInv, QuotaTypeOK, CallStates, CancelWaiting
<1>2. Working' = Working
  BY <1>1 DEF Working
<1>3. /\ DOMAIN waiters' = DOMAIN waiters \ {c}
      /\ \A d \in DOMAIN waiters' : waiters'[d] = waiters[d] \ {c}
  BY <1>1 DEF Without
<1>4. Ordered(waiters')
  BY <1>3 DEF QuotaInv, Ordered
<1>5. DOMAIN waiters' = {d \in Calls : call'[d] = "waiting"}
  BY <1>1, <1>3 DEF QuotaInv, QuotaTypeOK
<1>6. Cardinality(DOMAIN waiters') <= MaxQueued
  <2>1. DOMAIN waiters \in SUBSET Calls /\ DOMAIN waiters \ {c} \in SUBSET DOMAIN waiters
    BY DEF QuotaInv, QuotaTypeOK
  <2>2. /\ Cardinality(DOMAIN waiters \ {c}) \in Nat /\ Cardinality(DOMAIN waiters) \in Nat
        /\ Cardinality(DOMAIN waiters \ {c}) <= Cardinality(DOMAIN waiters)
    BY <2>1, QuotaAssumption, CountPart
  <2> QED
    BY <1>3, <2>2, QuotaAssumption DEF QuotaInv, QuotaTypeOK
<1>7. QuotaTypeOK'
  BY <1>1, <1>4, <1>5, <1>6 DEF QuotaInv, QuotaTypeOK, CallStates, Ordered
<1> QED
  BY <1>1, <1>2, <1>3, <1>4, <1>7 DEF QuotaInv, NoneHeldBack, Counted, Bounded, Ordered, Available

LEMMA AbandonInv == ASSUME QuotaInv, NEW c \in Calls, Abandon(c) PROVE QuotaInv'
  BY QuietInv DEF Abandon, QuotaInv, QuotaTypeOK, CallStates

(* The counters are exact, the queue is in order and nobody in it could    *)
(* start: this is kept by every step of ResourceQuota.                     *)
LEMMA QuotaHolds == QuotaSpec => []QuotaInv
<1>1. ASSUME QuotaInv, [QuotaNext]_qvars PROVE QuotaInv'
  <2>1. CASE QuotaNext
    BY <1>1, <2>1, RunInv, CancelInv, AbandonInv, ReleaseInv DEF QuotaNext
  <2>2. CASE UNCHANGED qvars
    <3>1. UNCHANGED <<used, waiters>> /\ call' = call
      BY <2>2 DEF qvars
    <3>2. call' \in [Calls -> CallStates]
      BY <1>1, <3>1 DEF QuotaInv, QuotaTypeOK, CallStates
    <3> QED
      BY <1>1, <3>1, <3>2, QuietInv
  <2> QED
    BY <1>1, <2>1, <2>2
<1> QED
  BY <1>1, QuotaInitInv, PTL DEF QuotaSpec

(* For any number of calls, slots and reserved slots and any length of the *)
(* queue: the operations at work never exceed the capacity, background     *)
(* ones never take a reserved slot, and nobody waits for a slot that is    *)
(* free for it, whatever is cancelled, abandoned or released.              *)
THEOREM SlotsOfTheQuota == QuotaSpec => []QuotaKept
<1>1. QuotaInv => QuotaKept
  BY QuotaAssumption DEF QuotaInv, QuotaKept, CapacityKept, Counted, Bounded
<1> QED
  BY <1>1, QuotaHolds, PTL

-----------------------------------------------------------------------------
(* AgentWorker *)

(* What the loop found out before it asked for work is still true when the *)
(* answer comes: the runs it counted can only have become fewer.           *)
ClaimInv ==
  /\ poll.at \in {"asking", "answered"} => Cardinality(Running) < MaxRuns
  /\ poll.at = "asking" /\ ~poll.only => back < MaxRuns - ReservedRuns
  /\ poll.at = "answered" =>
       \E j \in Jobs : poll.got = {j} /\ (j \in Operations => back < MaxRuns - ReservedRuns)

CountInv == back = Cardinality(Running \cap Operations)

(* Nothing starts after stop() has taken the list of runs it waits for.    *)
StopInv == (Stopping => Running \subseteq drain.awaits) /\ DrainLeavesNothing

(* From an empty answer on, a row that becomes claimable leaves a          *)
(* notification under way, or a cursor that is no longer the current one.  *)
WakeInv ==
  poll.at \in {"empty", "waiting"} /\ poll.current /\ listener.up /\ ~listener.pending
    => \A j \in Jobs : row[j] = "queued" => poll.only /\ j \in Operations

LoopInv == WorkerTypeOK /\ CountInv /\ SlotsKept /\ ClaimInv /\ StopInv /\ WakeInv

LEMMA RunningFinite ==
  WorkerTypeOK => /\ Running \in SUBSET Jobs /\ Running \cap Operations \in SUBSET Jobs
                  /\ Cardinality(Running) \in Nat /\ Cardinality(Running \cap Operations) \in Nat
<1>1. Running \in SUBSET Jobs /\ Running \cap Operations \in SUBSET Jobs
  BY DEF Running
<1> QED
  BY <1>1, WorkerAssumption, CountNone

LEMMA WorkerInitInv == WorkerInit => LoopInv
<1> SUFFICES ASSUME WorkerInit PROVE LoopInv
  OBVIOUS
<1>1. Running = {} /\ Running \cap Operations = {} /\ Cardinality({}) = 0
  BY FS_EmptySet DEF WorkerInit, Running
<1>2. WorkerTypeOK
  BY WorkerAssumption DEF WorkerInit, WorkerTypeOK
<1>3. CountInv /\ SlotsKept
  BY <1>1, WorkerAssumption DEF WorkerInit, CountInv, SlotsKept
<1>4. ClaimInv /\ StopInv /\ WakeInv
  BY DEF WorkerInit, ClaimInv, StopInv, DrainLeavesNothing, Stopping, WakeInv
<1> QED
  BY <1>2, <1>3, <1>4 DEF LoopInv

(* The types *)

LEMMA NotifiedType == WorkerTypeOK => Notified \in [up : BOOLEAN, pending : BOOLEAN]
  BY DEF WorkerTypeOK, Notified

LEMMA WorkerTypes == ASSUME LoopInv, [WorkerNext]_rvars PROVE WorkerTypeOK'
<1>0. WorkerTypeOK /\ Notified \in [up : BOOLEAN, pending : BOOLEAN] /\ CountInv /\ SlotsKept
  BY NotifiedType DEF LoopInv
<1>1. CASE UNCHANGED rvars
  BY <1>0, <1>1 DEF rvars, WorkerTypeOK
<1>2. CASE AskForWork \/ GrantNone \/ Wait \/ WaitEnds \/ LoopStops
  <2>1. CASE AskForWork
    <3>1. ReservedOnly(back) \in BOOLEAN
      BY DEF ReservedOnly
    <3> QED
      BY <1>0, <2>1, <3>1 DEF AskForWork, WorkerTypeOK
  <2>2. CASE GrantNone
    BY <1>0, <2>2 DEF GrantNone, WorkerTypeOK
  <2>3. CASE Wait
    BY <1>0, <2>3 DEF Wait, WorkerTypeOK
  <2>4. CASE WaitEnds
    BY <1>0, <2>4 DEF WaitEnds, WorkerTypeOK
  <2>5. CASE LoopStops
    BY <1>0, <2>5 DEF LoopStops, WorkerTypeOK
  <2> QED
    BY <1>2, <2>1, <2>2, <2>3, <2>4, <2>5
<1>3. CASE \E j \in Jobs : Grant(j)
  <2>1. PICK j \in Jobs : Grant(j)
    BY <1>3
  <2>2. /\ row' = [row EXCEPT ![j] = "leased"] /\ listener' = Notified
        /\ running' = [running EXCEPT ![j] = IF @ = "current" THEN "stale" ELSE @]
        /\ UNCHANGED <<back, drain, faults>>
    BY <2>1 DEF Grant
  <2>3. poll' \in [at : {"top", "asking", "answered", "empty", "waiting", "stopped"},
                   only : BOOLEAN, got : SUBSET Jobs, current : BOOLEAN]
    <3>1. {j} \in SUBSET Jobs
      OBVIOUS
    <3> QED
      BY <1>0, <2>1, <3>1 DEF Grant, WorkerTypeOK
  <2> QED
    BY <1>0, <2>2, <2>3 DEF WorkerTypeOK
<1>4. CASE Take
  <2>1. UNCHANGED <<row, listener, drain, faults>> /\ WorkerTypeOK
    BY <1>0, <1>4 DEF Take
  <2>2. poll' \in [at : {"top", "asking", "answered", "empty", "waiting", "stopped"},
                   only : BOOLEAN, got : SUBSET Jobs, current : BOOLEAN]
    BY <1>0, <1>4 DEF Take, WorkerTypeOK
  <2>3. /\ running' \in [Jobs -> {"none", "current", "settled", "stale"}]
        /\ back' \in 0 .. MaxRuns
    <3>1. CASE UNCHANGED <<running, back>>
      BY <1>0, <3>1 DEF WorkerTypeOK
    <3>2. CASE ~UNCHANGED <<running, back>>
      <4>1. PICK j \in poll.got : Start(j)
        BY <1>4, <3>2 DEF Take
      <4>2. j \in Operations => back + 1 \in 0 .. MaxRuns
        BY <1>0, <1>4, <4>1, WorkerAssumption DEF LoopInv, ClaimInv, Take, WorkerTypeOK
      <4> QED
        BY <1>0, <4>1, <4>2 DEF Start, WorkerTypeOK
    <3> QED
      BY <3>1, <3>2
  <2> QED
    BY <2>1, <2>2, <2>3 DEF WorkerTypeOK
<1>5. CASE ClaimFails
  BY <1>0, <1>5, WorkerAssumption DEF ClaimFails, Fault, Claimable, WorkerTypeOK
<1>6. ASSUME NEW j \in Jobs, Enqueue(j) \/ Settle(j) \/ Expire(j) PROVE WorkerTypeOK'
  BY <1>0, <1>6, WorkerAssumption DEF Enqueue, Settle, Expire, Fault, WorkerTypeOK
<1>7. ASSUME NEW j \in Jobs, Leave(j) PROVE WorkerTypeOK'
  <2>1. j \in Operations => back - 1 \in 0 .. MaxRuns
    <3>1. ASSUME j \in Operations PROVE back >= 1
      <4>1. j \in Running \cap Operations /\ Running \cap Operations \in SUBSET Jobs
        BY <1>7, <3>1 DEF Leave, Running
      <4>2. Cardinality(Running \cap Operations) >= 1
        BY <4>1, WorkerAssumption, CountDrop
      <4> QED
        BY <1>0, <4>2 DEF CountInv
    <3> QED
      BY <1>0, <3>1, WorkerAssumption DEF WorkerTypeOK
  <2> QED
    BY <1>0, <1>7, <2>1 DEF Leave, WorkerTypeOK
<1>8. CASE Deliver \/ Disconnect \/ Listen \/ Restart
  <2>1. CASE Deliver
    BY <1>0, <2>1 DEF Deliver, Notify, WorkerTypeOK
  <2>2. CASE Disconnect
    BY <1>0, <2>2, WorkerAssumption DEF Disconnect, Fault, WorkerTypeOK
  <2>3. CASE Listen
    BY <1>0, <2>3 DEF Listen, Notify, WorkerTypeOK
  <2>4. CASE Restart
    <3>1. faults' \in 0 .. MaxFaults /\ UNCHANGED <<row, running, back, drain>>
      BY <1>0, <2>4, WorkerAssumption DEF Restart, Fault, WorkerTypeOK
    <3> QED
      BY <1>0, <2>4, <3>1 DEF Restart, Notify, WorkerTypeOK
  <2> QED
    BY <1>8, <2>1, <2>2, <2>3, <2>4
<1>9. CASE Stop \/ DrainEnds
  BY <1>0, <1>9 DEF Stop, DrainEnds, Running, WorkerTypeOK
<1> QED
  BY <1>1, <1>2, <1>3, <1>4, <1>5, <1>6, <1>7, <1>8, <1>9 DEF WorkerNext, Loop

(* The slots *)

(* Every step leaves the runs of the process as they are, ends one of      *)
(* them, or starts the one that was granted, before stop().                *)
RunsSame == Running' = Running /\ back' = back
RunLeaves(j) ==
  /\ j \in Running /\ Running' = Running \ {j} /\ back' = IF j \in Operations THEN back - 1 ELSE back
  /\ UNCHANGED <<poll, listener, drain, row>>
RunStarts(j) ==
  /\ poll.at = "answered" /\ poll.got = {j} /\ j \in Jobs \ Running /\ ~Stopping
  /\ Running' = Running \cup {j} /\ back' = IF j \in Operations THEN back + 1 ELSE back
  /\ poll'.at = "top" /\ UNCHANGED <<row, listener, drain>>

(* What the loop holds against the slots stays covered.                    *)
PollSame == poll'.at = poll.at /\ poll'.only = poll.only /\ poll'.got = poll.got
PollAsks == /\ ~Stopping /\ Cardinality(Running) < MaxRuns
            /\ poll'.at = "asking" /\ (~poll'.only => back < MaxRuns - ReservedRuns)
PollGets == /\ poll.at = "asking" /\ poll'.at = "answered"
            /\ \E j \in Jobs : poll'.got = {j} /\ (poll.only => j \notin Operations)
PollRests == poll'.at \notin {"asking", "answered"}

LEMMA RunsMove ==
  ASSUME LoopInv, [WorkerNext]_rvars
  PROVE  \/ RunsSame /\ (PollSame \/ PollAsks \/ PollGets \/ PollRests)
         \/ \E j \in Jobs : RunLeaves(j) \/ RunStarts(j)
<1>0. WorkerTypeOK
  BY DEF LoopInv
<1>1. CASE UNCHANGED rvars
  BY <1>1 DEF rvars, RunsSame, PollSame, Running
<1>2. CASE AskForWork
  <2>1. poll'.at = "asking" /\ (poll'.only <=> ReservedOnly(back)) /\ UNCHANGED <<running, back>>
    BY <1>0, <1>2 DEF AskForWork, WorkerTypeOK
  <2>2. ~ReservedOnly(back) => back < MaxRuns - ReservedRuns
    BY <1>0, WorkerAssumption DEF ReservedOnly, WorkerTypeOK
  <2> QED
    BY <1>2, <2>1, <2>2 DEF AskForWork, RunsSame, PollAsks, Running
<1>3. CASE GrantNone \/ Wait \/ WaitEnds \/ LoopStops
  <2>1. UNCHANGED <<running, back>>
    BY <1>3 DEF GrantNone, Wait, WaitEnds, LoopStops
  <2>2. PollRests
    BY <1>0, <1>3 DEF GrantNone, Wait, WaitEnds, LoopStops, PollRests, WorkerTypeOK
  <2> QED
    BY <2>1, <2>2 DEF RunsSame, Running
<1>4. CASE \E j \in Jobs : Grant(j)
  <2>1. PICK j \in Jobs : Grant(j)
    BY <1>4
  <2>2. RunsSame
    BY <1>0, <2>1 DEF Grant, RunsSame, Running, WorkerTypeOK
  <2>3. PollGets
    BY <1>0, <2>1 DEF Grant, PollGets, Claimable, WorkerTypeOK
  <2> QED
    BY <2>2, <2>3
<1>5. CASE Take
  <2>1. PICK j \in Jobs : poll.got = {j}
    BY <1>5 DEF LoopInv, ClaimInv, Take
  <2>2. poll'.at \in {"stopped", "top"} /\ PollRests
    BY <1>0, <1>5 DEF Take, PollRests, WorkerTypeOK
  <2>3. CASE Stopping \/ j \in Running
    BY <1>5, <2>1, <2>2, <2>3 DEF Take, RunsSame, Running
  <2>4. CASE ~Stopping /\ j \notin Running
    <3>1. Start(j)
      BY <1>5, <2>1, <2>4 DEF Take
    <3>2. Running' = Running \cup {j} /\ back' = IF j \in Operations THEN back + 1 ELSE back
      BY <1>0, <3>1 DEF Start, Running, WorkerTypeOK
    <3>3. poll.at = "answered" /\ poll'.at = "top" /\ UNCHANGED <<row, listener, drain>>
      BY <1>0, <1>5, <2>4 DEF Take, WorkerTypeOK
    <3> QED
      BY <2>1, <2>4, <3>2, <3>3 DEF RunStarts
  <2> QED
    BY <2>3, <2>4
<1>6. CASE ClaimFails
  BY <1>0, <1>6 DEF ClaimFails, RunsSame, PollRests, Running, WorkerTypeOK
<1>7. ASSUME NEW j \in Jobs, Enqueue(j) \/ Settle(j) \/ Expire(j) PROVE RunsSame /\ PollSame
  BY <1>0, <1>7 DEF Enqueue, Settle, Expire, RunsSame, PollSame, Running, WorkerTypeOK
<1>8. ASSUME NEW j \in Jobs, Leave(j) PROVE RunLeaves(j)
  BY <1>0, <1>8 DEF Leave, RunLeaves, Running, WorkerTypeOK
<1>9. CASE Deliver \/ Disconnect \/ Listen \/ Restart
  <2>1. RunsSame
    BY <1>9 DEF Deliver, Disconnect, Listen, Restart, RunsSame, Running
  <2>2. PollSame
    BY <1>0, <1>9 DEF Deliver, Disconnect, Listen, Restart, Notify, PollSame, WorkerTypeOK
  <2> QED
    BY <2>1, <2>2
<1>10. CASE Stop \/ DrainEnds
  BY <1>10 DEF Stop, DrainEnds, RunsSame, PollSame, Running
<1> QED
  BY <1>1, <1>2, <1>3, <1>4, <1>5, <1>6, <1>7, <1>8, <1>9, <1>10 DEF WorkerNext, Loop

LEMMA SlotStep == ASSUME LoopInv, [WorkerNext]_rvars PROVE (CountInv /\ SlotsKept /\ ClaimInv)'
<1>0. /\ WorkerTypeOK /\ CountInv /\ SlotsKept /\ ClaimInv
      /\ Cardinality(Running) \in Nat /\ Cardinality(Running \cap Operations) \in Nat
      /\ Running \in SUBSET Jobs /\ Running \cap Operations \in SUBSET Jobs
      /\ IsFiniteSet(Jobs) /\ MaxRuns \in Nat /\ ReservedRuns \in Nat
  BY RunningFinite, WorkerAssumption DEF LoopInv
<1>1. CASE RunsSame /\ (PollSame \/ PollAsks \/ PollGets \/ PollRests)
  <2>1. CountInv' /\ SlotsKept'
    BY <1>0, <1>1 DEF CountInv, SlotsKept, RunsSame
  <2>2. CASE PollSame
    BY <1>0, <1>1, <2>1, <2>2 DEF ClaimInv, RunsSame, PollSame
  <2>3. CASE PollAsks
    BY <1>0, <1>1, <2>1, <2>3 DEF ClaimInv, RunsSame, PollAsks
  <2>4. CASE PollGets
    BY <1>0, <1>1, <2>1, <2>4 DEF ClaimInv, RunsSame, PollGets
  <2>5. CASE PollRests
    BY <1>0, <1>1, <2>1, <2>5 DEF ClaimInv, RunsSame, PollRests
  <2> QED
    BY <1>1, <2>2, <2>3, <2>4, <2>5
<1>2. ASSUME NEW j \in Jobs, RunLeaves(j) PROVE (CountInv /\ SlotsKept /\ ClaimInv)'
  <2>1. /\ Cardinality(Running') = Cardinality(Running) - 1
        /\ Cardinality(Running' \cap Operations) = Cardinality(Running \cap Operations) - IF j \in Operations THEN 1 ELSE 0
    <3>1. j \in Running /\ Running' = Running \ {j}
      BY <1>2 DEF RunLeaves
    <3>2. Cardinality(Running') = Cardinality(Running) - 1
      BY <1>0, <3>1, CountDrop
    <3>3. CASE j \in Operations
      <4>1. Running' \cap Operations = (Running \cap Operations) \ {j} /\ j \in Running \cap Operations
        BY <3>1, <3>3
      <4> QED
        BY <1>0, <3>2, <3>3, <4>1, CountDrop
    <3>4. CASE j \notin Operations
      <4>1. Running' \cap Operations = Running \cap Operations
        BY <3>1, <3>4
      <4> QED
        BY <1>0, <3>2, <3>4, <4>1
    <3> QED
      BY <3>3, <3>4
  <2>2. poll' = poll /\ back' = IF j \in Operations THEN back - 1 ELSE back
    BY <1>2 DEF RunLeaves
  <2>3. CountInv' /\ SlotsKept'
    BY <1>0, <2>1, <2>2 DEF CountInv, SlotsKept
  <2>4. ClaimInv'
    BY <1>0, <2>1, <2>2 DEF ClaimInv, CountInv
  <2> QED
    BY <2>3, <2>4
<1>3. ASSUME NEW j \in Jobs, RunStarts(j) PROVE (CountInv /\ SlotsKept /\ ClaimInv)'
  <2>1. /\ Cardinality(Running') = Cardinality(Running) + 1
        /\ Cardinality(Running' \cap Operations) = Cardinality(Running \cap Operations) + IF j \in Operations THEN 1 ELSE 0
    <3>1. j \in Jobs /\ j \notin Running /\ Running' = Running \cup {j}
      BY <1>3 DEF RunStarts
    <3>2. Cardinality(Running') = Cardinality(Running) + 1
      BY <1>0, <3>1, CountAdd
    <3>3. CASE j \in Operations
      <4>1. Running' \cap Operations = (Running \cap Operations) \cup {j} /\ j \notin Running \cap Operations
        BY <3>1, <3>3
      <4> QED
        BY <1>0, <3>2, <3>3, <4>1, CountAdd
    <3>4. CASE j \notin Operations
      <4>1. Running' \cap Operations = Running \cap Operations
        BY <3>1, <3>4
      <4> QED
        BY <1>0, <3>2, <3>4, <4>1
    <3> QED
      BY <3>3, <3>4
  <2>2. /\ poll.at = "answered" /\ poll.got = {j} /\ poll'.at = "top"
        /\ back' = IF j \in Operations THEN back + 1 ELSE back
    BY <1>3 DEF RunStarts
  <2>3. Cardinality(Running) < MaxRuns /\ (j \in Operations => back < MaxRuns - ReservedRuns)
    BY <1>0, <2>2 DEF ClaimInv
  <2>4. CountInv' /\ SlotsKept'
    BY <1>0, <2>1, <2>2, <2>3 DEF CountInv, SlotsKept
  <2>5. ClaimInv'
    BY <2>2 DEF ClaimInv
  <2> QED
    BY <2>4, <2>5
<1> QED
  BY <1>1, <1>2, <1>3, RunsMove

(* The drain and the wakeups *)

LEMMA StopStep == ASSUME LoopInv, [WorkerNext]_rvars PROVE StopInv'
<1>0. WorkerTypeOK /\ StopInv
  BY DEF LoopInv
<1>1. CASE drain' = drain
  <2>1. CASE RunsSame
    BY <1>0, <1>1, <2>1 DEF StopInv, DrainLeavesNothing, Stopping, RunsSame
  <2>2. CASE \E j \in Jobs : RunLeaves(j)
    BY <1>0, <1>1, <2>2 DEF StopInv, DrainLeavesNothing, Stopping, RunLeaves
  <2>3. CASE \E j \in Jobs : RunStarts(j)
    BY <1>0, <1>1, <2>3 DEF StopInv, DrainLeavesNothing, Stopping, RunStarts
  <2> QED
    BY <2>1, <2>2, <2>3, RunsMove
<1>2. CASE Stop
  BY <1>0, <1>2 DEF Stop, StopInv, DrainLeavesNothing, Stopping, Running
<1>3. CASE DrainEnds
  <2>1. drain.at = "draining" /\ Running \subseteq drain.awaits /\ running' = running
    BY <1>0, <1>3 DEF DrainEnds, StopInv, Stopping
  <2>2. drain'.awaits = drain.awaits /\ Running' = Running
    BY <1>0, <1>3, <2>1 DEF DrainEnds, Running, WorkerTypeOK
  <2>3. drain'.at = "clean" => Running = {}
    BY <1>0, <1>3, <2>1 DEF DrainEnds, Running, WorkerTypeOK
  <2> QED
    BY <2>1, <2>2, <2>3 DEF StopInv, DrainLeavesNothing
<1>4. drain' = drain \/ Stop \/ DrainEnds
  BY DEF WorkerNext, Loop, rvars, AskForWork, GrantNone, Take, Wait, WaitEnds, LoopStops, Grant, ClaimFails,
         Enqueue, Settle, Expire, Leave, Deliver, Disconnect, Listen, Restart
<1> QED
  BY <1>1, <1>2, <1>3, <1>4

LEMMA WakeStep == ASSUME LoopInv, [WorkerNext]_rvars PROVE WakeInv'
<1>0. WorkerTypeOK /\ WakeInv
  BY DEF LoopInv
<1>1. CASE UNCHANGED <<row, listener>> /\ PollSame /\ poll'.current = poll.current
  BY <1>0, <1>1 DEF WakeInv, PollSame
<1>2. CASE poll'.at \notin {"empty", "waiting"}
  BY <1>2 DEF WakeInv
<1>3. CASE ~poll'.current \/ ~listener'.up \/ listener'.pending
  BY <1>3 DEF WakeInv
<1>4. CASE UNCHANGED rvars \/ Stop \/ DrainEnds
  BY <1>1, <1>4 DEF rvars, Stop, DrainEnds, PollSame
<1>5. CASE AskForWork \/ WaitEnds \/ LoopStops \/ Take \/ ClaimFails \/ \E j \in Jobs : Grant(j)
  BY <1>0, <1>2, <1>5 DEF AskForWork, WaitEnds, LoopStops, Take, ClaimFails, Grant, WorkerTypeOK
<1>6. CASE GrantNone
  <2>1. Claimable(poll.only) = {} /\ poll'.only = poll.only /\ row' = row
    BY <1>0, <1>6 DEF GrantNone, WorkerTypeOK
  <2>2. \A j \in Jobs : row[j] = "queued" => poll.only /\ j \in Operations
    BY <2>1 DEF Claimable
  <2> QED
    BY <2>1, <2>2 DEF WakeInv
<1>7. CASE Wait
  <2>1. CASE poll.current
    BY <1>0, <1>7, <2>1 DEF Wait, WakeInv, WorkerTypeOK
  <2>2. CASE ~poll.current
    BY <1>0, <1>2, <1>7, <2>2 DEF Wait, WorkerTypeOK
  <2> QED
    BY <2>1, <2>2
<1>8. ASSUME NEW j \in Jobs, Enqueue(j) \/ Settle(j) PROVE WakeInv'
  <2>1. listener' = Notified
    BY <1>8 DEF Enqueue, Settle
  <2>2. listener'.pending \/ ~listener'.up
    BY <1>0, <2>1 DEF Notified, WorkerTypeOK
  <2> QED
    BY <1>3, <2>2
<1>9. ASSUME NEW j \in Jobs, Expire(j) PROVE WakeInv'
  BY <1>0, <1>9 DEF Expire, WakeInv, WorkerTypeOK
<1>10. ASSUME NEW j \in Jobs, Leave(j) PROVE WakeInv'
  BY <1>1, <1>10 DEF Leave, PollSame
<1>11. CASE Deliver \/ Listen \/ Restart
  BY <1>0, <1>3, <1>11 DEF Deliver, Listen, Restart, Notify, WorkerTypeOK
<1>12. CASE Disconnect
  BY <1>3, <1>12 DEF Disconnect
<1> QED
  BY <1>4, <1>5, <1>6, <1>7, <1>8, <1>9, <1>10, <1>11, <1>12 DEF WorkerNext, Loop

(* For any number of rows, slots and faults: the loop never sleeps through *)
(* a row it could claim, runs never take more than their slots, background *)
(* runs never the reserved ones, and a stop() that reports no timeout has  *)
(* left no run behind.                                                     *)
THEOREM LoopOfTheWorker == WorkerSpec => []LoopKept
<1>1. ASSUME LoopInv, [WorkerNext]_rvars PROVE LoopInv'
  BY <1>1, WorkerTypes, SlotStep, StopStep, WakeStep DEF LoopInv
<1>2. LoopInv => LoopKept
  BY DEF LoopInv, LoopKept, StopInv, WakeInv, NoLostWakeup
<1> QED
  BY <1>1, <1>2, WorkerInitInv, PTL DEF WorkerSpec

-----------------------------------------------------------------------------
(* KernelManager *)

(* The map and the kernels: a kernel in the map is the one of its session, *)
(* a kernel alive is in the map, and one that a restore waits on is dead;  *)
(* only such a one can be in the map while it still awaits its home.       *)
Tame(k) ==
  pool[k] # 0 => /\ inst[pool[k]].state \notin {"stray", "revived"}
                 /\ inst[pool[k]].state = "doomed" => stopping[k] = pool[k]

PoolInv ==
  /\ \A k \in Keys : pool[k] # 0 => pool[k] \in Born /\ inst[pool[k]].key = k
  /\ \A i \in Instances : Alive(i) => pool[inst[i].key] = i
  /\ \A k \in Keys : stopping[k] # 0 /\ pool[k] # 0 => ~Alive(pool[k])
  /\ \A k \in Keys : Tame(k)

(* Kernels are numbered as they are created.                               *)
BornInv == \E n \in 0 .. MaxInst : Born = 1 .. n

SizeInv == Cardinality(InPool(pool)) <= MaxKernels

(* The chains: a cell is in the chain of its kernel exactly while it is in *)
(* flight, once, and only the first one of a chain has begun.              *)
ChainInv ==
  /\ \A i \in Instances : \A m \in 1 .. Len(chain[i]) :
       on[chain[i][m]] = i /\ cell[chain[i][m]] \in InFlight
  /\ \A i \in Instances : \A m, n \in 1 .. Len(chain[i]) : m # n => chain[i][m] # chain[i][n]
  /\ \A i \in Instances : \A m \in 2 .. Len(chain[i]) : cell[chain[i][m]] = "queued"
  /\ \A c \in Cells : cell[c] \in InFlight =>
       on[c] \in Instances /\ \E m \in 1 .. Len(chain[on[c]]) : chain[on[c]][m] = c
  /\ \A i \in Instances \ Born : chain[i] = <<>>

(* A cell is given to a kernel of its session.                             *)
KeyInv == \A c \in Cells : cell[c] \in InFlight => inst[on[c]].key = KeyOf(c)

KernelInv == KernelTypeOK /\ PoolInv /\ BornInv /\ SizeInv /\ ChainInv /\ KeyInv /\ OnlyIdleEvicted

CellStates == {"new", "asking", "capacity", "done", "checkpoint"} \cup InFlight \cup Settled

(* What has begun is first in its chain, and the first of a chain is on    *)
(* its kernel.                                                             *)
LEMMA BegunIsFirst ==
  ASSUME KernelTypeOK, ChainInv, NEW c \in Cells, cell[c] \in InFlight
  PROVE  on[c] \in Instances /\ chain[on[c]] # <<>> /\ (cell[c] # "queued" => First(c))
<1>1. on[c] \in Instances /\ chain[on[c]] \in Seq(Cells)
  BY DEF ChainInv, KernelTypeOK
<1>2. PICK m \in 1 .. Len(chain[on[c]]) : chain[on[c]][m] = c
  BY DEF ChainInv
<1>3. chain[on[c]] # <<>> /\ Len(chain[on[c]]) \in Nat
  BY <1>1, <1>2
<1>4. ASSUME cell[c] # "queued" PROVE First(c)
  <2>1. m = 1
    BY <1>1, <1>2, <1>3, <1>4 DEF ChainInv
  <2> QED
    BY <1>1, <1>2, <1>3, <2>1 DEF First, Instances
<1> QED
  BY <1>1, <1>3, <1>4

LEMMA HeadIsFirst ==
  ASSUME KernelTypeOK, ChainInv, NEW i \in Instances, chain[i] # <<>>
  PROVE  /\ Head(chain[i]) \in Cells /\ on[Head(chain[i])] = i /\ First(Head(chain[i]))
         /\ cell[Head(chain[i])] \in InFlight
<1>1. chain[i] \in Seq(Cells) /\ Len(chain[i]) >= 1 /\ Head(chain[i]) = chain[i][1] /\ 1 \in 1 .. Len(chain[i])
  BY DEF KernelTypeOK
<1>2. Head(chain[i]) \in Cells
  BY <1>1
<1>3. on[Head(chain[i])] = i /\ cell[Head(chain[i])] \in InFlight
  BY <1>1 DEF ChainInv
<1>4. i # 0
  BY KernelAssumption DEF Instances
<1> QED
  BY <1>2, <1>3, <1>4 DEF First

(* A step that takes the first cells of the chains of D out, and changes   *)
(* nothing else about what is in flight.                                   *)
Dropped(D) == {Head(chain[i]) : i \in D}

LEMMA ChainsShrink ==
  ASSUME KernelTypeOK, ChainInv, NEW D \in SUBSET Instances, \A i \in D : chain[i] # <<>>,
         \A i \in Instances : chain'[i] = IF i \in D THEN Tail(chain[i]) ELSE chain[i],
         \A c \in Dropped(D) : cell'[c] \notin InFlight,
         \A c \in Cells \ Dropped(D) :
           /\ cell'[c] \in InFlight <=> cell[c] \in InFlight
           /\ cell[c] \in InFlight => on'[c] = on[c]
           /\ cell[c] = "queued" /\ cell'[c] # "queued" => First(c),
         Born' = Born
  PROVE  ChainInv'
<1> DEFINE shift(i) == IF i \in D THEN 1 ELSE 0
<1>1. ASSUME NEW i \in Instances
      PROVE  /\ chain[i] \in Seq(Cells) /\ Len(chain[i]) \in Nat /\ Len(chain'[i]) = Len(chain[i]) - shift(i)
             /\ \A m \in 1 .. Len(chain'[i]) : chain'[i][m] = chain[i][m + shift(i)]
             /\ Len(chain'[i]) \in Nat
  <2>1. chain[i] \in Seq(Cells) /\ Len(chain[i]) \in Nat
    BY DEF KernelTypeOK
  <2>2. CASE i \in D
    <3>1. chain[i] # <<>> /\ chain'[i] = Tail(chain[i]) /\ shift(i) = 1
      BY <2>2
    <3>2. /\ Len(Tail(chain[i])) = Len(chain[i]) - 1
          /\ \A m \in 1 .. Len(Tail(chain[i])) : Tail(chain[i])[m] = chain[i][m + 1]
      BY <2>1, <3>1, HeadTailProperties
    <3>3. Len(Tail(chain[i])) \in Nat
      BY <2>1, <3>1, HeadTailProperties, LenProperties
    <3> QED
      BY <2>1, <3>1, <3>2, <3>3
  <2>3. CASE i \notin D
    <3>1. chain'[i] = chain[i] /\ shift(i) = 0
      BY <2>3
    <3> HIDE DEF shift
    <3>2. \A m \in 1 .. Len(chain[i]) : m + shift(i) = m
      BY <2>1, <3>1
    <3> QED
      BY <2>1, <3>1, <3>2
  <2> QED
    BY <2>2, <2>3
<1>2. ASSUME NEW i \in Instances, NEW m \in 1 .. Len(chain'[i])
      PROVE  /\ m + shift(i) \in 1 .. Len(chain[i]) /\ chain'[i][m] = chain[i][m + shift(i)]
             /\ chain'[i][m] \in Cells \ Dropped(D)
  <2>0. shift(i) \in {0, 1}
    OBVIOUS
  <2> HIDE DEF shift
  <2>1. m + shift(i) \in 1 .. Len(chain[i]) /\ chain'[i][m] = chain[i][m + shift(i)]
    BY <1>1, <1>2, <2>0
  <2>2. chain'[i][m] \in Cells
    BY <1>1, <2>1
  <2>3. ASSUME NEW j \in D, chain'[i][m] = Head(chain[j]) PROVE FALSE
    <3>1. on[Head(chain[j])] = j /\ on[chain[i][m + shift(i)]] = i
      BY <2>1, <2>3, HeadIsFirst DEF ChainInv
    <3>2. j = i /\ m + shift(i) # 1
      BY <1>2, <2>1, <2>3, <3>1 DEF shift
    <3>3. Head(chain[i]) = chain[i][1] /\ 1 \in 1 .. Len(chain[i])
      BY <1>1, <2>1, <2>3
    <3>4. chain[i][1] # chain[i][m + shift(i)]
      BY <2>1, <3>2, <3>3 DEF ChainInv
    <3> QED
      BY <2>1, <2>3, <3>2, <3>3, <3>4
  <2> QED
    BY <2>1, <2>2, <2>3 DEF Dropped
<1> HIDE DEF shift
<1>3. \A i \in Instances : \A m \in 1 .. Len(chain'[i]) : on'[chain'[i][m]] = i /\ cell'[chain'[i][m]] \in InFlight
  <2>1. ASSUME NEW i \in Instances, NEW m \in 1 .. Len(chain'[i])
        PROVE  on'[chain'[i][m]] = i /\ cell'[chain'[i][m]] \in InFlight
    <3>1. on[chain'[i][m]] = i /\ cell[chain'[i][m]] \in InFlight /\ chain'[i][m] \in Cells \ Dropped(D)
      BY <1>2 DEF ChainInv
    <3> QED
      BY <3>1
  <2> QED
    BY <2>1
<1>4. \A i \in Instances : \A m, n \in 1 .. Len(chain'[i]) : m # n => chain'[i][m] # chain'[i][n]
  <2>1. ASSUME NEW i \in Instances, NEW m \in 1 .. Len(chain'[i]), NEW n \in 1 .. Len(chain'[i]), m # n
        PROVE  chain'[i][m] # chain'[i][n]
    <3>1. m + shift(i) # n + shift(i)
      BY <2>1 DEF shift
    <3> QED
      BY <1>2, <2>1, <3>1 DEF ChainInv
  <2> QED
    BY <2>1
<1>5. \A i \in Instances : \A m \in 2 .. Len(chain'[i]) : cell'[chain'[i][m]] = "queued"
  <2>1. ASSUME NEW i \in Instances, NEW m \in 2 .. Len(chain'[i]) PROVE cell'[chain'[i][m]] = "queued"
    <3>1. m \in 1 .. Len(chain'[i]) /\ m + shift(i) # 1 /\ Len(chain[i]) \in Nat
      BY <1>1, <2>1 DEF shift
    <3>2. m + shift(i) \in 2 .. Len(chain[i]) /\ chain'[i][m] = chain[i][m + shift(i)]
          /\ chain'[i][m] \in Cells \ Dropped(D)
      BY <1>2, <3>1
    <3>3. cell[chain'[i][m]] = "queued" /\ on[chain'[i][m]] = i
      BY <1>1, <3>1, <3>2 DEF ChainInv
    <3>4. ~First(chain'[i][m])
      <4>1. Len(chain[i]) >= 1 /\ 1 \in 1 .. Len(chain[i]) /\ chain[i][1] # chain[i][m + shift(i)]
        BY <3>1, <3>2 DEF ChainInv
      <4>2. Head(chain[i]) = chain[i][1]
        BY <1>1, <4>1
      <4> QED
        BY <3>2, <3>3, <4>1, <4>2 DEF First
    <3> QED
      BY <3>2, <3>3, <3>4
  <2> QED
    BY <2>1
<1>6. \A c \in Cells : cell'[c] \in InFlight =>
        on'[c] \in Instances /\ \E m \in 1 .. Len(chain'[on'[c]]) : chain'[on'[c]][m] = c
  <2>1. ASSUME NEW c \in Cells, cell'[c] \in InFlight
        PROVE  on'[c] \in Instances /\ \E m \in 1 .. Len(chain'[on'[c]]) : chain'[on'[c]][m] = c
    <3>1. c \notin Dropped(D) /\ cell[c] \in InFlight /\ on'[c] = on[c] /\ on[c] \in Instances
      BY <2>1 DEF ChainInv
    <3>2. PICK m \in 1 .. Len(chain[on[c]]) : chain[on[c]][m] = c
      BY <3>1 DEF ChainInv
    <3>3. on[c] \in D => m # 1
      BY <1>1, <3>1, <3>2 DEF Dropped
    <3>4. m - shift(on[c]) \in 1 .. Len(chain'[on[c]])
      <4>1. Len(chain[on[c]]) \in Nat /\ Len(chain'[on[c]]) = Len(chain[on[c]]) - shift(on[c])
        BY <1>1, <3>1
      <4> QED
        BY <3>2, <3>3, <4>1 DEF shift
    <3>5. chain'[on[c]][m - shift(on[c])] = c
      <4>1. (m - shift(on[c])) + shift(on[c]) = m
        BY <3>2 DEF shift
      <4> QED
        BY <1>2, <3>1, <3>2, <3>4, <4>1
    <3> QED
      BY <3>1, <3>4, <3>5
  <2> QED
    BY <2>1
<1>7. \A i \in Instances \ Born' : chain'[i] = <<>>
  BY DEF ChainInv
<1> QED
  BY <1>3, <1>4, <1>5, <1>6, <1>7 DEF ChainInv

(* A step that puts cell c at the end of the chain of i.                   *)
LEMMA ChainsGrow ==
  ASSUME KernelTypeOK, ChainInv, NEW c \in Cells, cell[c] \notin InFlight, NEW i \in Instances,
         \A j \in Instances : chain'[j] = IF j = i THEN Append(chain[i], c) ELSE chain[j],
         on'[c] = i, cell'[c] = "queued",
         \A x \in Cells \ {c} : on'[x] = on[x] /\ cell'[x] = cell[x],
         i \in Born', Born \subseteq Born'
  PROVE  ChainInv'
<1>0. "queued" \in InFlight
  BY DEF InFlight
<1>1. /\ chain[i] \in Seq(Cells) /\ Len(chain[i]) \in Nat /\ chain'[i] = Append(chain[i], c)
      /\ \A j \in Instances \ {i} : chain'[j] = chain[j]
  <2>1. chain[i] \in Seq(Cells)
    BY DEF KernelTypeOK
  <2>2. Len(chain[i]) \in Nat
    BY <2>1, LenProperties
  <2> QED
    BY <2>1, <2>2
<1>2. /\ Len(chain'[i]) = Len(chain[i]) + 1 /\ chain'[i][Len(chain[i]) + 1] = c
      /\ \A m \in 1 .. Len(chain[i]) : chain'[i][m] = chain[i][m]
  BY <1>1, AppendProperties
<1>3. ASSUME NEW j \in Instances, NEW m \in 1 .. Len(chain[j]) PROVE chain[j][m] \in Cells \ {c}
  <2>1. chain[j] \in Seq(Cells)
    BY DEF KernelTypeOK
  <2>2. chain[j][m] \in Cells
    BY <1>3, <2>1, ElementOfSeq
  <2> QED
    BY <1>3, <2>2 DEF ChainInv
<1>4. ASSUME NEW j \in Instances, NEW m \in 1 .. Len(chain'[j])
      PROVE  \/ m \in 1 .. Len(chain[j]) /\ chain'[j][m] = chain[j][m]
             \/ j = i /\ m = Len(chain[i]) + 1 /\ chain'[j][m] = c
  <2>1. CASE j = i
    <3>1. m \in 1 .. Len(chain[i]) \/ m = Len(chain[i]) + 1
      BY <1>1, <1>2, <1>4, <2>1
    <3> QED
      BY <1>2, <2>1, <3>1
  <2>2. CASE j # i
    <3>1. chain'[j] = chain[j]
      BY <2>2
    <3> QED
      BY <1>4, <3>1
  <2> QED
    BY <2>1, <2>2
<1>5. \A j \in Instances : \A m \in 1 .. Len(chain'[j]) : on'[chain'[j][m]] = j /\ cell'[chain'[j][m]] \in InFlight
  <2>1. ASSUME NEW j \in Instances, NEW m \in 1 .. Len(chain'[j])
        PROVE  on'[chain'[j][m]] = j /\ cell'[chain'[j][m]] \in InFlight
    <3>1. CASE m \in 1 .. Len(chain[j]) /\ chain'[j][m] = chain[j][m]
      <4>1. on[chain[j][m]] = j /\ cell[chain[j][m]] \in InFlight /\ chain[j][m] \in Cells \ {c}
        BY <1>3, <3>1 DEF ChainInv
      <4> QED
        BY <3>1, <4>1
    <3>2. CASE j = i /\ chain'[j][m] = c
      BY <1>0, <3>2
    <3> QED
      BY <1>4, <2>1, <3>1, <3>2
  <2> QED
    BY <2>1
<1>6. \A j \in Instances : \A m, n \in 1 .. Len(chain'[j]) : m # n => chain'[j][m] # chain'[j][n]
  <2>1. ASSUME NEW j \in Instances, NEW m \in 1 .. Len(chain'[j]), NEW n \in 1 .. Len(chain'[j]), m # n
        PROVE  chain'[j][m] # chain'[j][n]
    <3>1. \/ m \in 1 .. Len(chain[j]) /\ chain'[j][m] = chain[j][m] /\ chain[j][m] # c
          \/ j = i /\ m = Len(chain[i]) + 1 /\ chain'[j][m] = c
      BY <1>3, <1>4, <2>1
    <3>2. \/ n \in 1 .. Len(chain[j]) /\ chain'[j][n] = chain[j][n] /\ chain[j][n] # c
          \/ j = i /\ n = Len(chain[i]) + 1 /\ chain'[j][n] = c
      BY <1>3, <1>4, <2>1
    <3> QED
      BY <2>1, <3>1, <3>2 DEF ChainInv
  <2> QED
    BY <2>1
<1>7. \A j \in Instances : \A m \in 2 .. Len(chain'[j]) : cell'[chain'[j][m]] = "queued"
  <2>1. ASSUME NEW j \in Instances, NEW m \in 2 .. Len(chain'[j]) PROVE cell'[chain'[j][m]] = "queued"
    <3>0. m \in 1 .. Len(chain'[j])
      BY <2>1
    <3>1. CASE m \in 1 .. Len(chain[j]) /\ chain'[j][m] = chain[j][m]
      <4>1. m \in 2 .. Len(chain[j]) /\ chain[j][m] \in Cells \ {c}
        BY <1>3, <2>1, <3>1
      <4>2. cell[chain[j][m]] = "queued"
        BY <4>1 DEF ChainInv
      <4> QED
        BY <3>1, <4>1, <4>2
    <3> QED
      BY <1>4, <3>0, <3>1
  <2> QED
    BY <2>1
<1>8. \A x \in Cells : cell'[x] \in InFlight =>
        on'[x] \in Instances /\ \E m \in 1 .. Len(chain'[on'[x]]) : chain'[on'[x]][m] = x
  <2>1. ASSUME NEW x \in Cells \ {c}, cell'[x] \in InFlight
        PROVE  on'[x] \in Instances /\ \E m \in 1 .. Len(chain'[on'[x]]) : chain'[on'[x]][m] = x
    <3>1. on'[x] = on[x] /\ on[x] \in Instances
      BY <2>1 DEF ChainInv
    <3>2. PICK m \in 1 .. Len(chain[on[x]]) : chain[on[x]][m] = x
      BY <2>1 DEF ChainInv
    <3>3. m \in 1 .. Len(chain'[on[x]]) /\ chain'[on[x]][m] = x
      BY <1>1, <1>2, <3>1, <3>2
    <3> QED
      BY <3>1, <3>3
  <2>2. Len(chain[i]) + 1 \in 1 .. Len(chain'[i])
    BY <1>1, <1>2
  <2> QED
    BY <1>2, <2>1, <2>2
<1>9. \A j \in Instances \ Born' : chain'[j] = <<>>
  BY <1>1 DEF ChainInv
<1> QED
  BY <1>5, <1>6, <1>7, <1>8, <1>9 DEF ChainInv

(* A step that creates no kernel: entries of the map only go, kernels only *)
(* die, and one that stays alive keeps its entry.                          *)
PoolShrinks ==
  /\ \A k \in Keys : pool'[k] \in {pool[k], 0}
  /\ \A i \in Instances : /\ inst'[i].key = inst[i].key
                          /\ inst'[i].state = "none" <=> inst[i].state = "none"
                          /\ Alive(i)' => Alive(i) /\ pool'[inst[i].key] = pool[inst[i].key]
  /\ \A k \in Keys : stopping'[k] # 0 /\ pool'[k] # 0 => stopping[k] # 0 \/ ~Alive(pool[k])'
  /\ \A k \in Keys : Tame(k)'

LEMMA PoolStaysSmall ==
  ASSUME KernelTypeOK, PoolInv, BornInv, SizeInv, PoolShrinks, KernelTypeOK'
  PROVE  (PoolInv /\ BornInv /\ SizeInv)' /\ Born' = Born
<1>1. Born' = Born
  BY DEF Born, PoolShrinks
<1>2. PoolInv'
  <2>1. ASSUME NEW k \in Keys, pool'[k] # 0 PROVE pool'[k] \in Born' /\ inst'[pool'[k]].key = k
    <3>1. pool'[k] = pool[k] /\ pool[k] \in Born /\ inst[pool[k]].key = k /\ pool[k] \in Instances
      BY <2>1 DEF PoolShrinks, PoolInv, Born
    <3> QED
      BY <1>1, <3>1 DEF PoolShrinks
  <2>2. ASSUME NEW i \in Instances, Alive(i)' PROVE pool'[inst'[i].key] = i
    BY <2>2 DEF PoolShrinks, PoolInv
  <2>3. ASSUME NEW k \in Keys, stopping'[k] # 0, pool'[k] # 0 PROVE ~Alive(pool[k])'
    <3>1. pool'[k] = pool[k] /\ pool[k] \in Instances
      BY <2>3 DEF PoolShrinks, PoolInv, Born
    <3>2. CASE stopping[k] # 0
      <4>1. ~Alive(pool[k])
        BY <2>3, <3>1, <3>2 DEF PoolInv
      <4>2. ASSUME Alive(pool[k])' PROVE FALSE
        <5>1. PICK i \in Instances : i = pool[k]
          BY <3>1
        <5>2. inst'[i].state \in {"created", "home", "stuck", "starting", "ready"}
          BY <3>1, <4>2, <5>1 DEF Alive
        <5>3. Alive(i)
          BY <5>2 DEF PoolShrinks, Alive
        <5> QED
          BY <4>1, <5>1, <5>3
      <4> QED
        BY <4>2
    <3> QED
      BY <2>3, <3>2 DEF PoolShrinks
  <2>4. \A k \in Keys : Tame(k)'
    BY DEF PoolShrinks
  <2> QED
    BY <2>1, <2>2, <2>3, <2>4 DEF PoolInv, Born, Alive
<1>3. SizeInv'
  <2>1. InPool(pool') \subseteq InPool(pool) /\ InPool(pool) \in SUBSET Instances
    BY DEF InPool, PoolShrinks, KernelTypeOK, Instances
  <2>2. IsFiniteSet(Instances)
    BY KernelAssumption, FS_Interval DEF Instances
  <2>3. /\ Cardinality(InPool(pool')) \in Nat /\ Cardinality(InPool(pool)) \in Nat
        /\ Cardinality(InPool(pool')) <= Cardinality(InPool(pool))
    BY <2>1, <2>2, CountPart
  <2> QED
    BY <2>3, KernelAssumption DEF SizeInv, InPool
<1>4. BornInv'
  BY <1>1 DEF BornInv
<1> QED
  BY <1>1, <1>2, <1>3, <1>4

(* Cell x stays where it is, unless it is woken.                           *)
Rests(x) == cell'[x] = cell[x] \/ (cell[x] = "capacity" /\ cell'[x] = "asking")

(* A step that creates no kernel, takes the first cells of the chains of D *)
(* out and moves no cell in or out of flight else.                         *)
LEMMA KernelQuiet ==
  ASSUME KernelInv, KernelTypeOK', PoolShrinks, NEW D \in SUBSET Instances, \A i \in D : chain[i] # <<>>,
         \A i \in Instances : chain'[i] = IF i \in D THEN Tail(chain[i]) ELSE chain[i],
         \A c \in Dropped(D) : cell'[c] \notin InFlight \cup {"evicted"},
         \A c \in Cells \ Dropped(D) :
           \/ Rests(c) /\ on'[c] = on[c]
           \/ cell[c] \notin InFlight /\ cell'[c] \notin InFlight \cup {"evicted"}
           \/ cell'[c] \in InFlight /\ cell[c] \in InFlight /\ First(c) /\ on'[c] = on[c]
  PROVE  KernelInv'
<1>1. KernelTypeOK /\ PoolInv /\ BornInv /\ SizeInv /\ ChainInv /\ KeyInv /\ OnlyIdleEvicted
  BY DEF KernelInv
<1>2. (PoolInv /\ BornInv /\ SizeInv)' /\ Born' = Born
  BY <1>1, PoolStaysSmall
<1>3. "evicted" \notin InFlight /\ "asking" \notin InFlight /\ "capacity" \notin InFlight /\ "queued" \in InFlight
  BY DEF InFlight
<1>4. \A c \in Cells \ Dropped(D) :
        /\ cell'[c] \in InFlight <=> cell[c] \in InFlight
        /\ cell[c] \in InFlight => on'[c] = on[c]
        /\ cell[c] = "queued" /\ cell'[c] # "queued" => First(c)
        /\ cell'[c] = "evicted" => cell[c] = "evicted"
  BY <1>3 DEF Rests
<1>5. ChainInv'
  <2>1. \A c \in Dropped(D) : cell'[c] \notin InFlight
    OBVIOUS
  <2> QED
    BY <1>1, <1>2, <1>4, <2>1, ChainsShrink
<1>6. OnlyIdleEvicted'
  BY <1>1, <1>4 DEF OnlyIdleEvicted
<1>7. KeyInv'
  <2>1. ASSUME NEW c \in Cells, cell'[c] \in InFlight PROVE inst'[on'[c]].key = KeyOf(c)
    <3>1. c \notin Dropped(D) /\ cell[c] \in InFlight /\ on'[c] = on[c] /\ on[c] \in Instances
      BY <1>1, <1>4, <2>1 DEF ChainInv
    <3> QED
      BY <1>1, <3>1 DEF KeyInv, PoolShrinks
  <2> QED
    BY <2>1 DEF KeyInv
<1> QED
  BY <1>2, <1>5, <1>6, <1>7 DEF KernelInv

(* The same when no chain changes.                                         *)
LEMMA KernelStill ==
  ASSUME KernelInv, KernelTypeOK', PoolShrinks, chain' = chain,
         \A c \in Cells :
           \/ Rests(c) /\ on'[c] = on[c]
           \/ cell[c] \notin InFlight /\ cell'[c] \notin InFlight \cup {"evicted"}
           \/ cell'[c] \in InFlight /\ cell[c] \in InFlight /\ First(c) /\ on'[c] = on[c]
  PROVE  KernelInv'
<1>1. {} \in SUBSET Instances /\ Dropped({}) = {}
  BY DEF Dropped
<1> QED
  BY <1>1, KernelQuiet

(* A kernel that keeps its process, and one that loses it.                 *)
LEMMA KernelTypes ==
  KernelInv => /\ KernelTypeOK /\ ChainInv /\ PoolInv /\ KeyInv
               /\ inst \in [Instances -> [key : Keys, state : KernelStates]] /\ cell \in [Cells -> CellStates]
               /\ \A i \in Instances : inst[i].key \in Keys /\ chain[i] \in Seq(Cells)
  BY DEF KernelInv, KernelTypeOK, KernelStates, CellStates

LEMMA PoolUntouched ==
  ASSUME KernelTypeOK, PoolInv, UNCHANGED <<inst, pool, stopping>>
  PROVE  PoolShrinks
  BY DEF PoolShrinks, PoolInv, Tame, Alive

(* The steps of one cell that leave the map alone.                         *)
LEMMA CellStep ==
  ASSUME KernelInv, NEW c \in Cells, UNCHANGED <<inst, pool, stopping, chain, closed>>,
         NEW v \in CellStates \ {"evicted"}, cell' = [cell EXCEPT ![c] = v],
         on' \in [Cells -> 0 .. MaxInst], frozen' \subseteq Instances,
         \A x \in Cells \ {c} : on'[x] = on[x],
         \/ cell[c] \notin InFlight /\ v \notin InFlight
         \/ cell[c] \in InFlight /\ v \in InFlight /\ First(c) /\ on'[c] = on[c]
  PROVE  KernelInv'
<1>1. KernelTypeOK /\ PoolInv /\ cell \in [Cells -> CellStates]
  BY KernelTypes
<1>2. cell' \in [Cells -> CellStates]
  BY <1>1
<1>3. KernelTypeOK'
  BY <1>1, <1>2 DEF KernelTypeOK, CellStates
<1>4. \A x \in Cells : cell'[x] = IF x = c THEN v ELSE cell[x]
  BY <1>1
<1>5. PoolShrinks
  BY <1>1, PoolUntouched
<1>6. chain' = chain
  OBVIOUS
<1> QED
  BY <1>3, <1>4, <1>5, <1>6, KernelStill DEF Rests

LEMMA StepsOfACell ==
  ASSUME KernelInv, NEW c \in Cells, Submit(c) \/ GiveUp(c) \/ HostCall(c) \/ HostResult(c) \/ Freeze(c)
  PROVE  KernelInv'
<1>1. KernelTypeOK /\ ChainInv /\ cell \in [Cells -> CellStates]
  BY KernelTypes
<1>2. on \in [Cells -> 0 .. MaxInst] /\ frozen \subseteq Instances
  BY <1>1 DEF KernelTypeOK
<1>3. CASE Submit(c) \/ GiveUp(c)
  <2>1. PICK v \in {"asking", "cancelled"} : cell' = [cell EXCEPT ![c] = v]
    BY <1>3 DEF Submit, GiveUp
  <2>2. UNCHANGED <<inst, pool, stopping, chain, closed, on, frozen>> /\ cell[c] \in {"new", "asking", "capacity"}
    BY <1>3 DEF Submit, GiveUp
  <2>3. v \in CellStates \ {"evicted"} /\ v \notin InFlight /\ cell[c] \notin InFlight
    BY <2>2 DEF CellStates, InFlight, Settled
  <2> QED
    BY <1>2, <2>1, <2>2, <2>3, CellStep
<1>4. CASE HostCall(c) \/ HostResult(c)
  <2>1. PICK v \in {"calling", "python"} : cell' = [cell EXCEPT ![c] = v]
    BY <1>4 DEF HostCall, HostResult
  <2>2. UNCHANGED <<inst, pool, stopping, chain, closed, on, frozen>> /\ cell[c] \in {"calling", "python"}
    BY <1>4 DEF HostCall, HostResult
  <2>3. v \in CellStates \ {"evicted"} /\ v \in InFlight /\ cell[c] \in InFlight /\ cell[c] # "queued"
    BY <2>2 DEF CellStates, InFlight, Settled
  <2>4. First(c)
    BY <1>1, <2>3, BegunIsFirst
  <2> QED
    BY <1>2, <2>1, <2>2, <2>3, <2>4, CellStep
<1>5. CASE Freeze(c)
  <2>1. PICK v \in {"checkpoint", "failed", "lost"} : cell' = [cell EXCEPT ![c] = v]
    BY <1>5 DEF Freeze
  <2>2. UNCHANGED <<inst, pool, stopping, chain, closed>> /\ cell[c] = "done"
    BY <1>5 DEF Freeze
  <2>3. v \in CellStates \ {"evicted"} /\ v \notin InFlight /\ cell[c] \notin InFlight
    BY <2>2 DEF CellStates, InFlight, Settled
  <2>4. pool[KeyOf(c)] \in 0 .. MaxInst
    BY <1>1, KernelAssumption DEF KernelTypeOK
  <2>5. pool[KeyOf(c)] # 0 => pool[KeyOf(c)] \in Instances
    BY <2>4, KernelAssumption DEF Instances
  <2>6. on' \in [Cells -> 0 .. MaxInst] /\ frozen' \subseteq Instances /\ \A x \in Cells \ {c} : on'[x] = on[x]
    BY <1>2, <1>5, <2>4, <2>5 DEF Freeze
  <2> QED
    BY <2>1, <2>2, <2>3, <2>6, CellStep
<1> QED
  BY <1>3, <1>4, <1>5

(* Steps of a kernel that leave the map and the chains alone.              *)
LEMMA StateChange ==
  ASSUME KernelInv, NEW i \in Instances, NEW s \in KernelStates, inst' = [inst EXCEPT ![i].state = s],
         inst[i].state # "none",
         \/ s \in {"home", "stuck", "starting", "ready"} /\ Alive(i)
         \/ s \in {"stray", "revived"} /\ \A k \in Keys : pool[k] # i
         \/ s = "dead",
         UNCHANGED <<pool, stopping>>
  PROVE  PoolShrinks /\ inst' \in [Instances -> [key : Keys, state : KernelStates]]
<1>1. inst \in [Instances -> [key : Keys, state : KernelStates]] /\ PoolInv
  BY KernelTypes
<1>2. /\ inst' \in [Instances -> [key : Keys, state : KernelStates]]
      /\ \A j \in Instances : inst'[j].key = inst[j].key /\ (j # i => inst'[j] = inst[j]) /\ inst'[i].state = s
  BY <1>1
<1>3. \A j \in Instances : Alive(j)' => Alive(j)
  BY <1>1, <1>2 DEF Alive, KernelStates
<1>4. ASSUME NEW k \in Keys PROVE Tame(k)'
  <2>1. pool[k] # 0 => pool[k] \in Instances /\ Tame(k)
    BY <1>1 DEF PoolInv, Born
  <2> QED
    BY <1>2, <2>1 DEF Tame
<1>5. s # "none"
  OBVIOUS
<1> QED
  BY <1>2, <1>3, <1>4, <1>5 DEF PoolShrinks

(* What a kernel is after terminate().                                     *)
Gone == {"dead", "doomed", "stray"}

LEMMA AfterDies ==
  ASSUME NEW s \in KernelStates
  PROVE  After(s) \in Gone /\ (After(s) = "stray" => s = "stray")
  BY DEF After, Gone, KernelStates

LEMMA GoneStates ==
  /\ Gone \subseteq KernelStates /\ "none" \notin Gone /\ "revived" \notin Gone
  /\ \A i \in Instances : inst[i].state \in Gone => ~Alive(i)
  BY DEF Gone, KernelStates, Alive

LEMMA TerminatedKernel ==
  ASSUME KernelInv, NEW i \in Instances, inst' = Terminated(i)
  PROVE  /\ inst' \in [Instances -> [key : Keys, state : KernelStates]]
         /\ \A j \in Instances : inst'[j].key = inst[j].key /\ (j # i => inst'[j] = inst[j])
         /\ inst'[i].state \in Gone /\ (inst'[i].state = "stray" => inst[i].state = "stray")
         /\ \A j \in Instances : Alive(j)' => Alive(j) /\ j # i
<1>1. inst \in [Instances -> [key : Keys, state : KernelStates]]
  BY KernelTypes
<1>2. PICK s \in KernelStates : s = After(inst[i].state) /\ s \in Gone /\ (s = "stray" => inst[i].state = "stray")
  BY <1>1, AfterDies, GoneStates
<1>3. inst' = [inst EXCEPT ![i].state = s]
  BY <1>2 DEF Terminated
<1>4. /\ inst' \in [Instances -> [key : Keys, state : KernelStates]]
      /\ \A j \in Instances : inst'[j].key = inst[j].key /\ (j # i => inst'[j] = inst[j])
      /\ inst'[i].state = s
  BY <1>1, <1>3
<1> QED
  BY <1>2, <1>4 DEF Alive, Gone

(* Waking the callers that wait for room moves nothing else.               *)
LEMMA WokenCells ==
  ASSUME NEW cs \in [Cells -> CellStates]
  PROVE  /\ Woken(cs) \in [Cells -> CellStates]
         /\ \A x \in Cells : Woken(cs)[x] = IF cs[x] = "capacity" THEN "asking" ELSE cs[x]
  BY DEF Woken, CellStates

(* What the end of an execution does to the kernel i it ran on: it stays,  *)
(* it is stuck, or it is dead for the manager as well.                     *)
KernelEnds(i, dead) ==
  /\ inst' \in [Instances -> [key : Keys, state : KernelStates]]
  /\ \A j \in Instances : /\ inst'[j].key = inst[j].key /\ (j # i => inst'[j] = inst[j])
                          /\ Alive(j)' => Alive(j) /\ ~(dead /\ j = i)
  /\ inst'[i].state # "none" /\ (dead \/ inst'[i] = inst[i] \/ inst'[i].state = "stuck")

(* The end of the first cell of a chain, with its kernel or without it.    *)
LEMMA SettleInv ==
  ASSUME KernelInv, NEW c \in Cells, cell[c] \in InFlight, First(c),
         NEW outcome \in {"done", "failed", "cancelled"}, NEW dead \in BOOLEAN,
         SettleCell(c, outcome, dead), UNCHANGED <<on, frozen, stopping, closed>>,
         KernelEnds(on[c], dead)
  PROVE  KernelInv'
<1> DEFINE i == on[c]
           cs == [cell EXCEPT ![c] = outcome]
           drop == dead /\ pool[KeyOf(c)] = i
<1>1. /\ KernelTypeOK /\ ChainInv /\ PoolInv /\ KeyInv /\ cell \in [Cells -> CellStates]
      /\ inst \in [Instances -> [key : Keys, state : KernelStates]] /\ KeyOf(c) \in Keys
  BY KernelTypes, KernelAssumption
<1>2. /\ i \in Instances /\ chain[i] # <<>> /\ Head(chain[i]) = c /\ chain[i] \in Seq(Cells)
      /\ Tail(chain[i]) \in Seq(Cells)
  <2>1. i \in Instances /\ chain[i] # <<>> /\ chain[i] \in Seq(Cells)
    BY <1>1, BegunIsFirst, KernelTypes
  <2> QED
    BY <2>1, HeadTailProperties DEF First
<1>3. outcome \in CellStates /\ outcome \notin InFlight \cup {"evicted", "capacity"}
  BY DEF CellStates, InFlight, Settled
<1>4. /\ chain' = [chain EXCEPT ![i] = Tail(chain[i])]
      /\ pool' = IF drop THEN [pool EXCEPT ![KeyOf(c)] = 0] ELSE pool
      /\ cell' = Woken(cs) \/ cell' = cs
  BY DEF SettleCell
<1>5. cs \in [Cells -> CellStates] /\ \A x \in Cells : cs[x] = IF x = c THEN outcome ELSE cell[x]
  BY <1>1, <1>3
<1>6. /\ cell' \in [Cells -> CellStates] /\ cell'[c] = outcome
      /\ \A x \in Cells \ {c} : Rests(x)
  <2>1. CASE cell' = cs
    BY <1>5, <2>1 DEF Rests
  <2>2. CASE cell' = Woken(cs)
    <3>1. /\ Woken(cs) \in [Cells -> CellStates]
          /\ \A x \in Cells : Woken(cs)[x] = IF cs[x] = "capacity" THEN "asking" ELSE cs[x]
      BY <1>5, WokenCells
    <3> QED
      BY <1>3, <1>5, <2>2, <3>1 DEF Rests
  <2> QED
    BY <1>4, <2>1, <2>2
<1> HIDE DEF cs
<1>7. inst[i].state # "none"
  BY <1>1, <1>2 DEF ChainInv, Born
<1>8. /\ inst' \in [Instances -> [key : Keys, state : KernelStates]]
      /\ \A j \in Instances : inst'[j].key = inst[j].key /\ (j # i => inst'[j] = inst[j])
      /\ inst'[i].state # "none" /\ (dead \/ inst'[i] = inst[i] \/ inst'[i].state = "stuck")
      /\ \A j \in Instances : Alive(j)' => Alive(j) /\ ~(dead /\ j = i)
  BY DEF KernelEnds
<1>9. \A k \in Keys : pool'[k] = IF drop /\ k = KeyOf(c) THEN 0 ELSE pool[k]
  BY <1>1, <1>4 DEF KernelTypeOK
<1>10. pool' \in [Keys -> 0 .. MaxInst]
  BY <1>1, <1>4, KernelAssumption DEF KernelTypeOK
<1>11. KernelTypeOK'
  <2>1. chain' \in [Instances -> Seq(Cells)]
    BY <1>1, <1>2, <1>4 DEF KernelTypeOK
  <2> QED
    BY <1>1, <1>6, <1>8, <1>10, <2>1 DEF KernelTypeOK, CellStates, KernelStates
<1>12. PoolShrinks
  <2>1. ASSUME NEW j \in Instances, Alive(j)' PROVE pool'[inst[j].key] = pool[inst[j].key]
    <3>1. drop => j # i
      BY <1>8, <2>1
    <3>2. inst[j].key \in Keys /\ pool[inst[j].key] = j
      BY <1>1, <1>8, <2>1 DEF PoolInv
    <3>3. ~(drop /\ inst[j].key = KeyOf(c))
      BY <3>1, <3>2
    <3> QED
      BY <1>9, <3>2, <3>3
  <2>2. \A j \in Instances : inst'[j].state = "none" <=> inst[j].state = "none"
    BY <1>7, <1>8
  <2> HIDE DEF drop
  <2>3. \A k \in Keys : pool'[k] \in {pool[k], 0}
    BY <1>9
  <2>4. ASSUME NEW k \in Keys PROVE Tame(k)'
    <3>1. CASE pool'[k] = i /\ i # 0 /\ dead
      <4>1. pool[k] = i /\ inst[i].key = k
        BY <1>1, <2>3, <3>1 DEF PoolInv
      <4>2. KeyOf(c) = k
        BY <1>1, <4>1 DEF KeyInv
      <4> QED
        BY <1>9, <3>1, <4>1, <4>2 DEF drop
    <3>2. CASE pool'[k] = i /\ i # 0 /\ ~dead
      <4>1. pool[k] = i /\ Tame(k)
        BY <1>1, <2>3, <3>2 DEF PoolInv
      <4> QED
        BY <1>8, <3>2, <4>1 DEF Tame
    <3>3. CASE pool'[k] # 0 /\ pool'[k] # i
      <4>1. pool[k] = pool'[k] /\ pool[k] \in Instances /\ Tame(k)
        BY <1>1, <2>3, <3>3 DEF PoolInv, Born
      <4> QED
        BY <1>8, <3>3, <4>1 DEF Tame
    <3> QED
      BY <3>1, <3>2, <3>3 DEF Tame
  <2> QED
    BY <1>8, <2>1, <2>2, <2>3, <2>4 DEF PoolShrinks
<1>13. {i} \in SUBSET Instances /\ Dropped({i}) = {c}
  BY <1>2 DEF Dropped
<1>14. \A j \in Instances : chain'[j] = IF j \in {i} THEN Tail(chain[j]) ELSE chain[j]
  BY <1>1, <1>4 DEF KernelTypeOK
<1> HIDE DEF drop
<1> QED
  BY <1>2, <1>3, <1>6, <1>11, <1>12, <1>13, <1>14, KernelQuiet

LEMMA StepsOfAKernel ==
  ASSUME KernelInv,
         \/ \E c \in Cells : Begin(c)
         \/ \E i \in Instances : HomeMade(i) \/ HomeFails(i) \/ Ready(i) \/ IdleExit(i)
  PROVE  KernelInv'
<1>1. /\ KernelTypeOK /\ ChainInv /\ PoolInv /\ cell \in [Cells -> CellStates]
      /\ inst \in [Instances -> [key : Keys, state : KernelStates]]
  BY KernelTypes
<1>2. "queued" \in InFlight /\ "python" \in InFlight /\ "starting" \in InFlight
  BY DEF InFlight
<1>3. ASSUME NEW c \in Cells, Begin(c) PROVE KernelInv'
  <2>1. cell[c] = "queued" /\ First(c) /\ UNCHANGED <<on, frozen, stopping, closed>>
    BY <1>3 DEF Begin
  <2>2. on[c] \in Instances /\ inst[on[c]].state \in KernelStates
    BY <1>1, <1>2, <2>1, BegunIsFirst
  <2>3. ASSUME NEW v \in {"starting", "python"}, cell' = [cell EXCEPT ![c] = v],
               \/ inst' = inst
               \/ inst[on[c]].state = "created" /\ inst' = [inst EXCEPT ![on[c]].state = "home"],
               UNCHANGED <<chain, pool>>
        PROVE  KernelInv'
    <3>1. v \in CellStates /\ v \in InFlight
      BY <1>2 DEF CellStates
    <3>2. PoolShrinks /\ inst' \in [Instances -> [key : Keys, state : KernelStates]]
      <4>1. CASE inst' = inst
        BY <1>1, <2>1, <2>3, <4>1, PoolUntouched
      <4>2. CASE inst[on[c]].state = "created" /\ inst' = [inst EXCEPT ![on[c]].state = "home"]
        BY <2>1, <2>2, <2>3, <4>2, StateChange DEF KernelStates, Alive
      <4> QED
        BY <2>3, <4>1, <4>2
    <3>3. KernelTypeOK'
      BY <1>1, <2>1, <2>3, <3>1, <3>2 DEF KernelTypeOK, CellStates
    <3>4. \A x \in Cells : cell'[x] = IF x = c THEN v ELSE cell[x]
      BY <1>1, <2>3
    <3> QED
      BY <1>2, <2>1, <2>3, <3>1, <3>2, <3>3, <3>4, KernelStill DEF Rests
  <2>4. ASSUME inst[on[c]].state = "stuck", SettleCell(c, "failed", FALSE), UNCHANGED inst PROVE KernelInv'
    <3>1. KernelEnds(on[c], FALSE)
      BY <1>1, <2>4 DEF KernelEnds, Alive
    <3> QED
      BY <1>2, <2>1, <2>4, <3>1, SettleInv
  <2> QED
    BY <1>3, <2>3, <2>4 DEF Begin
<1>4. ASSUME NEW i \in Instances, NEW from \in KernelStates, NEW s \in KernelStates,
             inst[i].state = from, inst' = [inst EXCEPT ![i].state = s],
             \/ <<from, s>> \in {<<"home", "starting">>, <<"starting", "ready">>}
             \/ <<from, s>> \in {<<"doomed", "stray">>, <<"stray", "revived">>}
                /\ \A k \in Keys : pool[k] # i
             \/ from # "none" /\ s = "dead",
             cell' = cell \/ (chain[i] # <<>> /\ cell' = [cell EXCEPT ![Head(chain[i])] = "python"]),
             UNCHANGED <<on, chain, pool, frozen, stopping, closed>>
      PROVE  KernelInv'
  <2>1. PoolShrinks /\ inst' \in [Instances -> [key : Keys, state : KernelStates]]
    BY <1>4, StateChange DEF Alive
  <2>2. CASE cell' = cell
    <3>1. KernelTypeOK'
      BY <1>1, <1>4, <2>1, <2>2 DEF KernelTypeOK
    <3> QED
      BY <1>4, <2>1, <2>2, <3>1, KernelStill DEF Rests
  <2>3. CASE chain[i] # <<>> /\ cell' = [cell EXCEPT ![Head(chain[i])] = "python"]
    <3>1. Head(chain[i]) \in Cells /\ First(Head(chain[i])) /\ cell[Head(chain[i])] \in InFlight
      BY <1>1, <2>3, HeadIsFirst
    <3>2. KernelTypeOK'
      BY <1>1, <1>4, <2>1, <2>3, <3>1 DEF KernelTypeOK, InFlight
    <3>3. \A x \in Cells : cell'[x] = IF x = Head(chain[i]) THEN "python" ELSE cell[x]
      BY <1>1, <2>3
    <3> QED
      BY <1>2, <1>4, <2>1, <3>1, <3>2, <3>3, KernelStill DEF Rests
  <2> QED
    BY <1>4, <2>2, <2>3
<1>5. ASSUME NEW i \in Instances, inst[i].state \in {"doomed", "stray"}, \A k \in Keys : stopping[k] # i
      PROVE  \A k \in Keys : pool[k] # i
  <2>1. i # 0
    BY KernelAssumption DEF Instances
  <2> QED
    BY <1>1, <1>5, <2>1 DEF PoolInv, Tame
<1>6. ASSUME NEW i \in Instances, inst[i].state = "stray" PROVE \A k \in Keys : pool[k] # i
  <2>1. i # 0
    BY KernelAssumption DEF Instances
  <2> QED
    BY <1>1, <1>6, <2>1 DEF PoolInv, Tame
<1>7. ASSUME NEW i \in Instances, HomeMade(i) PROVE KernelInv'
  <2>1. PICK st \in {<<"home", "starting">>, <<"doomed", "stray">>} :
          inst[i].state = st[1] /\ inst' = [inst EXCEPT ![i].state = st[2]]
    BY <1>7 DEF HomeMade
  <2>2. UNCHANGED <<cell, on, chain, pool, frozen, stopping, closed>> /\ \A k \in Keys : stopping[k] # i
    BY <1>7 DEF HomeMade
  <2>3. CASE st = <<"home", "starting">>
    BY <1>4, <2>1, <2>2, <2>3 DEF KernelStates
  <2>4. CASE st = <<"doomed", "stray">>
    <3>1. \A k \in Keys : pool[k] # i
      BY <1>5, <2>1, <2>2, <2>4
    <3> QED
      BY <1>4, <2>1, <2>2, <2>4, <3>1 DEF KernelStates
  <2> QED
    BY <2>1, <2>3, <2>4
<1>8. ASSUME NEW i \in Instances, Ready(i) PROVE KernelInv'
  <2>1. PICK st \in {<<"starting", "ready">>, <<"stray", "revived">>} :
          inst[i].state = st[1] /\ inst' = [inst EXCEPT ![i].state = st[2]]
    BY <1>8 DEF Ready
  <2>2. /\ UNCHANGED <<on, chain, pool, frozen, stopping, closed>>
        /\ cell' = cell \/ (chain[i] # <<>> /\ cell' = [cell EXCEPT ![Head(chain[i])] = "python"])
    BY <1>8 DEF Ready
  <2>3. CASE st = <<"starting", "ready">>
    BY <1>4, <2>1, <2>2, <2>3 DEF KernelStates
  <2>4. CASE st = <<"stray", "revived">>
    <3>1. \A k \in Keys : pool[k] # i
      BY <1>6, <2>1, <2>4
    <3> QED
      BY <1>4, <2>1, <2>2, <2>4, <3>1 DEF KernelStates
  <2> QED
    BY <2>1, <2>3, <2>4
<1>9. ASSUME NEW i \in Instances, IdleExit(i) PROVE KernelInv'
  <2>1. /\ inst[i].state \in {"ready", "revived", "stray"} /\ inst' = [inst EXCEPT ![i].state = "dead"]
        /\ UNCHANGED <<cell, on, chain, pool, frozen, stopping, closed>>
    BY <1>9 DEF IdleExit
  <2>2. inst[i].state \in KernelStates /\ inst[i].state # "none" /\ "dead" \in KernelStates
    BY <2>1 DEF KernelStates
  <2> QED
    BY <1>4, <2>1, <2>2
<1>10. ASSUME NEW i \in Instances, HomeFails(i) PROVE KernelInv'
  <2>1. PICK st \in {<<"home", "stuck">>, <<"doomed", "dead">>} :
          /\ inst[i].state = st[1] /\ inst' = [inst EXCEPT ![i].state = st[2]]
          /\ IF chain[i] = <<>> THEN UNCHANGED <<cell, chain, pool>>
             ELSE SettleCell(Head(chain[i]), "failed", st[2] = "dead")
    BY <1>10 DEF HomeFails
  <2>2. UNCHANGED <<on, frozen, stopping, closed>>
    BY <1>10 DEF HomeFails
  <2>3. CASE chain[i] = <<>>
    <3>1. UNCHANGED <<cell, on, chain, pool, frozen, stopping, closed>>
      BY <2>1, <2>2, <2>3
    <3>2. PoolShrinks /\ inst' \in [Instances -> [key : Keys, state : KernelStates]]
      <4>1. CASE st = <<"home", "stuck">>
        BY <2>1, <3>1, <4>1, StateChange DEF KernelStates, Alive
      <4>2. CASE st = <<"doomed", "dead">>
        BY <2>1, <3>1, <4>2, StateChange DEF KernelStates
      <4> QED
        BY <2>1, <4>1, <4>2
    <3>3. KernelTypeOK'
      BY <1>1, <3>1, <3>2 DEF KernelTypeOK
    <3> QED
      BY <3>1, <3>2, <3>3, KernelStill DEF Rests
  <2>4. CASE chain[i] # <<>>
    <3> DEFINE c == Head(chain[i])
               dead == st[2] = "dead"
    <3>1. c \in Cells /\ First(c) /\ cell[c] \in InFlight /\ on[c] = i
      BY <1>1, <2>4, HeadIsFirst
    <3>2. SettleCell(c, "failed", dead) /\ dead \in BOOLEAN
      BY <2>1, <2>4
    <3>3. KernelEnds(i, dead)
      <4>1. /\ inst' \in [Instances -> [key : Keys, state : KernelStates]]
            /\ \A j \in Instances : inst'[j].key = inst[j].key /\ (j # i => inst'[j] = inst[j])
            /\ inst'[i].state = st[2]
        BY <1>1, <2>1 DEF KernelStates
      <4>2. st[2] # "none" /\ (dead \/ st[2] = "stuck") /\ (st[2] = "stuck" => ~dead /\ inst[i].state = "home")
        BY <2>1
      <4> HIDE DEF dead
      <4>3. ASSUME NEW j \in Instances, Alive(j)' PROVE Alive(j) /\ ~(dead /\ j = i)
        <5>1. CASE j = i
          <6>1. st[2] \in {"created", "home", "stuck", "starting", "ready"}
            BY <4>1, <4>3, <5>1 DEF Alive
          <6>2. st[2] = "stuck"
            BY <2>1, <6>1
          <6> QED
            BY <4>2, <5>1, <6>2 DEF Alive
        <5>2. CASE j # i
          BY <4>1, <4>3, <5>2 DEF Alive
        <5> QED
          BY <5>1, <5>2
      <4> QED
        BY <4>1, <4>2, <4>3 DEF KernelEnds
    <3> HIDE DEF c, dead
    <3> QED
      BY <2>2, <3>1, <3>2, <3>3, SettleInv
  <2> QED
    BY <2>3, <2>4
<1> QED
  BY <1>3, <1>7, <1>8, <1>9, <1>10

LEMMA StepsOfTheMap ==
  ASSUME KernelInv,
         \/ \E c \in Cells : Resume(c)
         \/ \E k \in Keys : Stopped(k) \/ SweepIdle(k)
  PROVE  KernelInv'
<1>1. /\ KernelTypeOK /\ ChainInv /\ PoolInv /\ cell \in [Cells -> CellStates]
      /\ inst \in [Instances -> [key : Keys, state : KernelStates]]
  BY KernelTypes
<1>2. /\ Woken(cell) \in [Cells -> CellStates]
      /\ \A x \in Cells : Woken(cell)[x] = IF cell[x] = "capacity" THEN "asking" ELSE cell[x]
  BY <1>1, WokenCells
<1>3. ASSUME NEW c \in Cells, Resume(c) PROVE KernelInv'
  <2>1. /\ cell[c] = "checkpoint" /\ frozen' = frozen \ {on[c]} /\ cell' = Woken([cell EXCEPT ![c] = "saved"])
        /\ UNCHANGED <<on, inst, chain, pool, stopping, closed>>
    BY <1>3 DEF Resume
  <2>2. "saved" \in CellStates /\ "saved" \notin InFlight /\ "checkpoint" \notin InFlight
    BY DEF CellStates, InFlight, Settled
  <2>3. [cell EXCEPT ![c] = "saved"] \in [Cells -> CellStates]
    BY <1>1, <2>2
  <2>4. /\ cell' \in [Cells -> CellStates]
        /\ \A x \in Cells : cell'[x] = IF [cell EXCEPT ![c] = "saved"][x] = "capacity" THEN "asking"
                                       ELSE [cell EXCEPT ![c] = "saved"][x]
    BY <2>1, <2>3, WokenCells
  <2>5. cell'[c] = "saved" /\ \A x \in Cells \ {c} : Rests(x)
    BY <1>1, <2>4 DEF Rests
  <2>6. KernelTypeOK'
    BY <1>1, <2>1, <2>4 DEF KernelTypeOK, CellStates
  <2>7. PoolShrinks
    BY <1>1, <2>1, PoolUntouched
  <2> QED
    BY <2>1, <2>2, <2>5, <2>6, <2>7, KernelStill
<1>4. ASSUME NEW k \in Keys, Stopped(k) PROVE KernelInv'
  <2>1. /\ stopping[k] # 0 /\ stopping' = [stopping EXCEPT ![k] = 0] /\ pool' = [pool EXCEPT ![k] = 0]
        /\ cell' = Woken(cell) /\ UNCHANGED <<on, inst, chain, frozen, closed>>
    BY <1>4 DEF Stopped
  <2>2. KernelTypeOK'
    <3>1. pool' \in [Keys -> 0 .. MaxInst] /\ stopping' \in [Keys -> 0 .. MaxInst]
      BY <1>1, <2>1, KernelAssumption DEF KernelTypeOK
    <3> QED
      BY <1>1, <1>2, <2>1, <3>1 DEF KernelTypeOK, CellStates
  <2>3. \A j \in Keys : pool'[j] = (IF j = k THEN 0 ELSE pool[j]) /\ stopping'[j] = IF j = k THEN 0 ELSE stopping[j]
    BY <1>1, <2>1 DEF KernelTypeOK
  <2>4. \A i \in Instances : Alive(i) => inst[i].key # k
    <3>1. ASSUME NEW i \in Instances, Alive(i), inst[i].key = k PROVE FALSE
      <4>1. pool[k] = i /\ i # 0
        BY <1>1, <3>1, KernelAssumption DEF PoolInv, Instances
      <4> QED
        BY <1>1, <2>1, <3>1, <4>1 DEF PoolInv
    <3> QED
      BY <3>1
  <2>5. PoolShrinks
    <3>1. ASSUME NEW j \in Keys PROVE Tame(j)'
      BY <1>1, <2>1, <2>3 DEF PoolInv, Tame
    <3> QED
      BY <1>1, <2>1, <2>3, <2>4, <3>1 DEF PoolShrinks, Alive
  <2>6. \A c \in Cells : Rests(c) /\ on'[c] = on[c]
    BY <1>2, <2>1 DEF Rests
  <2> QED
    BY <2>1, <2>2, <2>5, <2>6, KernelStill
<1>5. ASSUME NEW k \in Keys, SweepIdle(k) PROVE KernelInv'
  <2>1. /\ pool[k] # 0 /\ inst' = Terminated(pool[k]) /\ pool' = [pool EXCEPT ![k] = 0]
        /\ cell' = Woken(cell) /\ UNCHANGED <<on, chain, frozen, stopping, closed>>
    BY <1>5 DEF SweepIdle
  <2>2. pool[k] \in Instances /\ inst[pool[k]].key = k /\ inst[pool[k]].state # "none"
    BY <1>1, <2>1 DEF PoolInv, Born
  <2>3. /\ inst' \in [Instances -> [key : Keys, state : KernelStates]]
        /\ \A i \in Instances : inst'[i].key = inst[i].key /\ (i # pool[k] => inst'[i] = inst[i])
        /\ inst'[pool[k]].state # "none"
        /\ \A i \in Instances : Alive(i)' => Alive(i) /\ i # pool[k]
    BY <2>1, <2>2, TerminatedKernel, GoneStates
  <2>4. KernelTypeOK'
    <3>1. pool' \in [Keys -> 0 .. MaxInst]
      BY <1>1, <2>1, KernelAssumption DEF KernelTypeOK
    <3> QED
      BY <1>1, <1>2, <2>1, <2>3, <3>1 DEF KernelTypeOK, CellStates, KernelStates
  <2>5. \A j \in Keys : pool'[j] = IF j = k THEN 0 ELSE pool[j]
    BY <1>1, <2>1 DEF KernelTypeOK
  <2>6. ASSUME NEW i \in Instances, Alive(i)' PROVE Alive(i) /\ pool'[inst[i].key] = pool[inst[i].key]
    <3>1. i # pool[k] /\ Alive(i)
      BY <2>3, <2>6
    <3>2. inst[i].key \in Keys /\ inst[i].key # k
      BY <1>1, <3>1 DEF PoolInv
    <3> QED
      BY <2>5, <3>1, <3>2
  <2>7. PoolShrinks
    <3>1. \A i \in Instances : inst'[i].state = "none" <=> inst[i].state = "none"
      BY <2>2, <2>3
    <3>2. ASSUME NEW j \in Keys PROVE Tame(j)'
      <4>1. pool'[j] # 0 => pool'[j] = pool[j] /\ pool[j] \in Instances /\ inst[pool[j]].key = j /\ Tame(j)
        BY <1>1, <2>5 DEF PoolInv, Born
      <4>2. pool'[j] # 0 => inst'[pool[j]] = inst[pool[j]]
        BY <2>2, <2>3, <2>5, <4>1
      <4> QED
        BY <2>1, <4>1, <4>2 DEF Tame
    <3> QED
      BY <2>1, <2>3, <2>5, <2>6, <3>1, <3>2 DEF PoolShrinks
  <2>8. \A c \in Cells : Rests(c) /\ on'[c] = on[c]
    BY <1>2, <2>1 DEF Rests
  <2> QED
    BY <2>1, <2>4, <2>7, <2>8, KernelStill
<1> QED
  BY <1>3, <1>4, <1>5

LEMMA StepsOfAnEnd ==
  ASSUME KernelInv, NEW c \in Cells, Reject(c) \/ Result(c) \/ Kill(c)
  PROVE  KernelInv'
<1>1. /\ KernelTypeOK /\ ChainInv
      /\ inst \in [Instances -> [key : Keys, state : KernelStates]]
  BY KernelTypes
<1>2. cell[c] \in InFlight /\ First(c)
  <2>1. cell[c] \in InFlight /\ (cell[c] = "queued" => First(c))
    BY DEF Reject, Result, Kill, InFlight
  <2> QED
    BY <1>1, <2>1, BegunIsFirst
<1>3. on[c] \in Instances /\ inst[on[c]].state # "none"
  <2>1. on[c] \in Instances /\ chain[on[c]] # <<>>
    BY <1>1, <1>2, BegunIsFirst
  <2> QED
    BY <1>1, <2>1 DEF ChainInv, Born
<1>4. ASSUME NEW dead \in BOOLEAN, dead => ~Alive(on[c]), inst' = inst PROVE KernelEnds(on[c], dead)
  BY <1>1, <1>3, <1>4 DEF KernelEnds, Alive
<1>5. CASE Reject(c)
  <2> DEFINE dead == inst[on[c]].state \in {"dead", "doomed", "stray"}
  <2>1. /\ SettleCell(c, IF dead THEN "failed" ELSE "cancelled", dead)
        /\ UNCHANGED <<on, inst, frozen, stopping, closed>>
    BY <1>5 DEF Reject
  <2>2. dead \in BOOLEAN /\ (dead => ~Alive(on[c]))
    BY DEF Alive
  <2>3. (IF dead THEN "failed" ELSE "cancelled") \in {"done", "failed", "cancelled"}
    OBVIOUS
  <2> HIDE DEF dead
  <2>4. KernelEnds(on[c], dead)
    BY <1>4, <2>1, <2>2
  <2> QED
    BY <1>2, <2>1, <2>2, <2>3, <2>4, SettleInv
<1>6. CASE Result(c)
  <2>1. SettleCell(c, "done", FALSE) /\ UNCHANGED <<on, inst, frozen, stopping, closed>>
    BY <1>6 DEF Result
  <2>2. KernelEnds(on[c], FALSE)
    BY <1>4, <2>1
  <2> QED
    BY <1>2, <2>1, <2>2, SettleInv
<1>7. CASE Kill(c)
  <2>1. /\ SettleCell(c, "failed", TRUE) /\ inst' = Terminated(on[c])
        /\ UNCHANGED <<on, frozen, stopping, closed>>
    BY <1>7 DEF Kill
  <2>2. KernelEnds(on[c], TRUE)
    <3>1. inst'[on[c]].state # "none"
      BY <1>3, <2>1, TerminatedKernel, GoneStates
    <3> QED
      BY <1>3, <2>1, <3>1, TerminatedKernel DEF KernelEnds
  <2> QED
    BY <1>2, <2>1, <2>2, SettleInv
<1> QED
  BY <1>5, <1>6, <1>7

LEMMA RestoreStep == ASSUME KernelInv, NEW k \in Keys, StopForRestore(k) PROVE KernelInv'
<1> DEFINE i == pool[k]
           first == Interrupted(i)
<1>1. /\ KernelTypeOK /\ ChainInv /\ PoolInv /\ cell \in [Cells -> CellStates]
      /\ inst \in [Instances -> [key : Keys, state : KernelStates]]
  BY KernelTypes
<1>2. /\ i # 0 /\ stopping[k] = 0 /\ stopping' = [stopping EXCEPT ![k] = i] /\ inst' = Terminated(i)
      /\ cell' = (IF first THEN Woken(FirstFails(i, "failed")) ELSE cell)
      /\ chain' = [chain EXCEPT ![i] = Unchained(i)]
      /\ pool' = (IF first THEN [pool EXCEPT ![k] = 0] ELSE pool)
      /\ UNCHANGED <<on, frozen, closed>>
  BY DEF StopForRestore
<1>3. i \in Instances /\ inst[i].key = k /\ inst[i].state # "none" /\ i \in 0 .. MaxInst
  BY <1>1, <1>2 DEF PoolInv, Born, KernelTypeOK
<1>4. /\ inst' \in [Instances -> [key : Keys, state : KernelStates]]
      /\ \A j \in Instances : inst'[j].key = inst[j].key /\ (j # i => inst'[j] = inst[j])
      /\ inst'[i].state \in Gone /\ (inst'[i].state = "stray" => inst[i].state = "stray")
      /\ \A j \in Instances : Alive(j)' => Alive(j) /\ j # i
  <2> HIDE DEF i, first
  <2> QED
    BY <1>2, <1>3, TerminatedKernel
<1>5. /\ \A j \in Keys : pool'[j] \in {pool[j], 0} /\ (j # k => pool'[j] = pool[j])
      /\ \A j \in Keys : stopping'[j] = IF j = k THEN i ELSE stopping[j]
      /\ pool' \in [Keys -> 0 .. MaxInst] /\ stopping' \in [Keys -> 0 .. MaxInst]
  <2>1. pool \in [Keys -> 0 .. MaxInst] /\ stopping \in [Keys -> 0 .. MaxInst] /\ 0 \in 0 .. MaxInst
    BY <1>1, KernelAssumption DEF KernelTypeOK
  <2> HIDE DEF first, i
  <2> QED
    BY <1>2, <1>3, <2>1
<1>6. PoolShrinks
  <2>1. ASSUME NEW j \in Instances, Alive(j)' PROVE Alive(j) /\ pool'[inst[j].key] = pool[inst[j].key]
    <3>1. j # i /\ Alive(j)
      BY <1>4, <2>1
    <3>2. inst[j].key \in Keys /\ inst[j].key # k
      BY <1>1, <3>1 DEF PoolInv
    <3> QED
      BY <1>5, <3>1, <3>2
  <2>2. \A j \in Instances : inst'[j].state = "none" <=> inst[j].state = "none"
    BY <1>3, <1>4, GoneStates
  <2>3. ASSUME NEW j \in Keys, stopping'[j] # 0, pool'[j] # 0 PROVE stopping[j] # 0 \/ ~Alive(pool[j])'
    <3>1. CASE j = k
      <4>1. inst'[i].state \notin {"created", "home", "stuck", "starting", "ready"} /\ pool'[j] = i
        BY <1>4, <1>5, <2>3, <3>1 DEF Gone
      <4> QED
        BY <3>1, <4>1 DEF Alive
    <3>2. CASE j # k
      BY <1>5, <2>3, <3>2
    <3> QED
      BY <3>1, <3>2
  <2>4. ASSUME NEW j \in Keys PROVE Tame(j)'
    <3>1. pool'[j] # 0 => pool'[j] = pool[j] /\ pool[j] \in Instances /\ inst[pool[j]].key = j /\ Tame(j)
      BY <1>1, <1>5 DEF PoolInv, Born
    <3>2. CASE j = k
      BY <1>4, <1>5, <3>1, <3>2, GoneStates DEF Tame
    <3>3. CASE j # k
      BY <1>3, <1>4, <1>5, <3>1, <3>3 DEF Tame
    <3> QED
      BY <3>2, <3>3
  <2> QED
    BY <1>4, <1>5, <2>1, <2>2, <2>3, <2>4 DEF PoolShrinks
<1>7. CASE ~first
  <2>1. cell' = cell /\ chain' = chain
    BY <1>1, <1>2, <1>7 DEF Unchained, KernelTypeOK
  <2>2. KernelTypeOK'
    BY <1>1, <1>2, <1>4, <1>5, <2>1 DEF KernelTypeOK
  <2> QED
    BY <1>2, <1>6, <2>1, <2>2, KernelStill DEF Rests
<1>8. CASE first
  <2> DEFINE c == Head(chain[i])
  <2>1. /\ c \in Cells /\ cell[c] \in InFlight /\ cell[c] # "queued" /\ chain[i] # <<>>
        /\ chain[i] \in Seq(Cells) /\ Tail(chain[i]) \in Seq(Cells)
    BY <1>1, <1>3, <1>8, HeadIsFirst, HeadTailProperties, KernelTypes DEF Interrupted
  <2>2. chain' = [chain EXCEPT ![i] = Tail(chain[i])] /\ cell' = Woken(FirstFails(i, "failed"))
    BY <1>2, <1>8 DEF Unchained
  <2>3. \A x \in Cells : FirstFails(i, "failed")[x] = IF x = c THEN "failed" ELSE cell[x]
    BY <1>8 DEF FirstFails
  <2>4. FirstFails(i, "failed") \in [Cells -> CellStates]
    <3>1. "failed" \in CellStates
      BY DEF CellStates, Settled
    <3> QED
      BY <1>1, <3>1 DEF FirstFails
  <2>5. /\ cell' \in [Cells -> CellStates] /\ cell'[c] = "failed"
        /\ \A x \in Cells \ {c} : Rests(x)
    <3>1. /\ cell' \in [Cells -> CellStates]
          /\ \A x \in Cells : cell'[x] = IF FirstFails(i, "failed")[x] = "capacity" THEN "asking"
                                         ELSE FirstFails(i, "failed")[x]
      BY <2>2, <2>4, WokenCells
    <3> QED
      BY <2>1, <2>3, <3>1 DEF Rests
  <2>6. KernelTypeOK'
    <3>1. chain' \in [Instances -> Seq(Cells)]
      BY <1>1, <1>3, <2>1, <2>2 DEF KernelTypeOK
    <3> QED
      BY <1>1, <1>2, <1>4, <1>5, <2>5, <3>1 DEF KernelTypeOK, KernelStates, CellStates
  <2>7. {i} \in SUBSET Instances /\ Dropped({i}) = {c} /\ "failed" \notin InFlight \cup {"evicted"}
    BY <1>3 DEF Dropped, InFlight
  <2>8. \A j \in Instances : chain'[j] = IF j \in {i} THEN Tail(chain[j]) ELSE chain[j]
    BY <1>1, <2>2 DEF KernelTypeOK
  <2> HIDE DEF c
  <2> QED
    BY <1>2, <1>6, <2>1, <2>5, <2>6, <2>7, <2>8, KernelQuiet
<1> QED
  BY <1>7, <1>8

LEMMA CloseStep == ASSUME KernelInv, Close PROVE KernelInv'
<1> DEFINE I == InPool(pool)
           D == {i \in Instances : i \in I /\ Interrupted(i)}
           cs == [c \in Cells |-> IF on[c] \in I /\ First(c) /\ Interrupted(on[c]) THEN "failed" ELSE cell[c]]
<1>1. /\ KernelTypeOK /\ ChainInv /\ PoolInv /\ cell \in [Cells -> CellStates]
      /\ inst \in [Instances -> [key : Keys, state : KernelStates]]
  BY KernelTypes
<1>2. /\ closed' = TRUE /\ pool' = [k \in Keys |-> 0] /\ UNCHANGED <<on, frozen, stopping>>
      /\ inst' = [i \in Instances |-> IF i \in I THEN [inst[i] EXCEPT !.state = After(@)] ELSE inst[i]]
      /\ cell' = Woken(cs) /\ chain' = [i \in Instances |-> IF i \in I THEN Unchained(i) ELSE chain[i]]
  BY DEF Close, First
<1>3. I \subseteq Born /\ I \subseteq Instances /\ \A i \in I : inst[i].state # "none" /\ pool[inst[i].key] = i
  BY <1>1 DEF InPool, PoolInv, Born
<1>4. "failed" \in CellStates /\ "failed" \notin InFlight \cup {"evicted", "capacity"}
  BY DEF CellStates, InFlight, Settled
<1> HIDE DEF I
<1>5. cs \in [Cells -> CellStates]
  BY <1>1, <1>4
<1>6. /\ cell' \in [Cells -> CellStates]
      /\ \A x \in Cells : cell'[x] = IF cs[x] = "capacity" THEN "asking" ELSE cs[x]
  <2> HIDE DEF cs
  <2> QED
    BY <1>2, <1>5, WokenCells
<1>7. ASSUME NEW i \in D
      PROVE  /\ Head(chain[i]) \in Cells /\ on[Head(chain[i])] = i /\ First(Head(chain[i]))
             /\ Interrupted(i) /\ chain[i] # <<>>
  BY <1>1, HeadIsFirst DEF Interrupted
<1>8. \A c \in Dropped(D) : c \in Cells /\ cell'[c] = "failed"
  <2>1. ASSUME NEW i \in D PROVE Head(chain[i]) \in Cells /\ cell'[Head(chain[i])] = "failed"
    <3>1. i \in I
      OBVIOUS
    <3>2. cs[Head(chain[i])] = "failed"
      BY <1>7, <3>1
    <3> QED
      BY <1>4, <1>6, <1>7, <3>2
  <2> HIDE DEF D
  <2> QED
    BY <2>1 DEF Dropped
<1>9. \A c \in Cells \ Dropped(D) : Rests(c)
  <2>1. ASSUME NEW c \in Cells, on[c] \in I, First(c), Interrupted(on[c])
        PROVE  c \in Dropped(D)
    <3>1. on[c] \in D /\ Head(chain[on[c]]) = c
      BY <1>3, <2>1 DEF First
    <3> HIDE DEF D
    <3> QED
      BY <3>1 DEF Dropped
  <2>2. ASSUME NEW c \in Cells \ Dropped(D) PROVE Rests(c)
    <3>1. cs[c] = cell[c]
      BY <2>1, <2>2
    <3> QED
      BY <1>6, <3>1 DEF Rests
  <2> QED
    BY <2>2
<1>10. \A i \in Instances : chain'[i] = IF i \in D THEN Tail(chain[i]) ELSE chain[i]
  BY <1>2 DEF Unchained
<1>11. chain' \in [Instances -> Seq(Cells)]
  <2>1. ASSUME NEW i \in Instances, chain[i] # <<>> PROVE Tail(chain[i]) \in Seq(Cells)
    BY <2>1, KernelTypes, HeadTailProperties
  <2> QED
    BY <1>1, <1>2, <2>1 DEF Unchained, Interrupted, KernelTypeOK
<1>12. /\ inst' \in [Instances -> [key : Keys, state : KernelStates]]
       /\ \A i \in Instances : inst'[i].key = inst[i].key /\ (i \notin I => inst'[i] = inst[i])
       /\ \A i \in I : inst'[i].state \in Gone
  <2>1. ASSUME NEW i \in I
        PROVE  /\ inst'[i] \in [key : Keys, state : KernelStates] /\ inst'[i].key = inst[i].key
               /\ inst'[i].state \in Gone
    <3>1. inst[i] \in [key : Keys, state : KernelStates] /\ i \in Instances
      BY <1>1, <1>3
    <3>2. PICK st \in KernelStates : st = After(inst[i].state) /\ st \in Gone
      BY <3>1, AfterDies, GoneStates
    <3>3. inst'[i] = [inst[i] EXCEPT !.state = st]
      BY <1>2, <3>1, <3>2
    <3> QED
      BY <3>1, <3>2, <3>3
  <2>2. \A i \in Instances \ I : inst'[i] = inst[i]
    BY <1>2
  <2>3. \A i \in Instances : inst'[i] \in [key : Keys, state : KernelStates]
    BY <1>1, <2>1, <2>2
  <2> QED
    BY <1>2, <2>1, <2>2, <2>3
<1>13. KernelTypeOK'
  <2>1. pool' \in [Keys -> 0 .. MaxInst]
    BY <1>2, KernelAssumption
  <2> QED
    BY <1>1, <1>2, <1>6, <1>11, <1>12, <2>1 DEF KernelTypeOK, KernelStates, CellStates
<1>14. PoolShrinks
  <2>1. ASSUME NEW i \in Instances, Alive(i)' PROVE FALSE
    <3>1. i \notin I /\ Alive(i)
      BY <1>3, <1>12, <2>1 DEF Alive, Gone
    <3>2. pool[inst[i].key] = i /\ inst[i].key \in Keys /\ i # 0
      BY <1>1, <3>1, KernelAssumption DEF PoolInv, Instances
    <3> QED
      BY <3>1, <3>2 DEF I, InPool
  <2>2. \A i \in Instances : inst'[i].state = "none" <=> inst[i].state = "none"
    BY <1>3, <1>12, GoneStates
  <2>3. \A k \in Keys : pool'[k] = 0 /\ Tame(k)'
    BY <1>2 DEF Tame
  <2> QED
    BY <1>12, <2>1, <2>2, <2>3 DEF PoolShrinks
<1>15. /\ D \in SUBSET Instances /\ \A i \in D : chain[i] # <<>>
       /\ \A c \in Dropped(D) : cell'[c] \notin InFlight \cup {"evicted"}
  <2>1. \A c \in Dropped(D) : cell'[c] \notin InFlight \cup {"evicted"}
    BY <1>4, <1>8
  <2>2. D \in SUBSET Instances
    OBVIOUS
  <2>3. \A i \in D : chain[i] # <<>>
    BY <1>7
  <2> HIDE DEF D
  <2> QED
    BY <2>1, <2>2, <2>3
<1>16. on' = on
  BY <1>2
<1> HIDE DEF D
<1> QED
  BY <1>9, <1>10, <1>13, <1>14, <1>15, <1>16, KernelQuiet

(* The map without the session's dead kernel.                              *)
LEMMA Forgotten ==
  ASSUME KernelInv, NEW k \in Keys
  PROVE  /\ Forget(k) \in [Keys -> 0 .. MaxInst]
         /\ \A j \in Keys : Forget(k)[j] \in {pool[j], 0} /\ (j # k => Forget(k)[j] = pool[j])
         /\ Forget(k)[k] # 0 => Forget(k) = pool /\ Alive(pool[k])
         /\ pool[k] # 0 /\ Alive(pool[k]) => Forget(k) = pool
<1>1. pool \in [Keys -> 0 .. MaxInst] /\ 0 \in 0 .. MaxInst
  BY KernelAssumption DEF KernelInv, KernelTypeOK
<1> QED
  BY <1>1 DEF Forget

(* A caller that finds no kernel to use, or no room for one.               *)
LEMMA AcquireNone ==
  ASSUME KernelInv, NEW c \in Cells, cell[c] = "asking", NEW v \in {"cancelled", "capacity"},
         cell' = [cell EXCEPT ![c] = v], pool' = Forget(KeyOf(c)),
         UNCHANGED <<on, inst, chain, frozen, stopping, closed>>
  PROVE  KernelInv'
<1> DEFINE k == KeyOf(c)
<1>1. KernelTypeOK /\ PoolInv /\ cell \in [Cells -> CellStates] /\ k \in Keys
  BY KernelTypes, KernelAssumption
<1>2. v \in CellStates /\ v \notin InFlight \cup {"evicted"} /\ "asking" \notin InFlight
  BY DEF CellStates, InFlight, Settled
<1>3. \A x \in Cells : cell'[x] = IF x = c THEN v ELSE cell[x]
  BY <1>1
<1>4. /\ pool' \in [Keys -> 0 .. MaxInst] /\ \A j \in Keys : pool'[j] \in {pool[j], 0} /\ (j # k => pool'[j] = pool[j])
      /\ pool[k] # 0 /\ Alive(pool[k]) => pool' = pool
  BY <1>1, Forgotten
<1>5. KernelTypeOK'
  BY <1>1, <1>2, <1>4 DEF KernelTypeOK, CellStates
<1> HIDE DEF k
<1>6. ASSUME NEW i \in Instances, Alive(i)' PROVE Alive(i) /\ pool'[inst[i].key] = pool[inst[i].key]
  <2>1. Alive(i) /\ inst[i].key \in Keys /\ pool[inst[i].key] = i /\ i # 0
    BY <1>1, <1>6, KernelTypes, KernelAssumption DEF Alive, PoolInv, Instances
  <2> QED
    BY <1>4, <2>1
<1>7. \A j \in Keys : Tame(j)'
  BY <1>1, <1>4 DEF PoolInv, Tame
<1>8. PoolShrinks
  BY <1>4, <1>6, <1>7 DEF PoolShrinks
<1> QED
  BY <1>2, <1>3, <1>5, <1>8, KernelStill DEF Rests

(* A caller whose session has its kernel.                                  *)
LEMMA AcquireOwn ==
  ASSUME KernelInv, NEW c \in Cells, cell[c] = "asking", NEW i \in Instances, pool[KeyOf(c)] = i,
         GiveTo(c, i), cell' = [cell EXCEPT ![c] = "queued"],
         UNCHANGED <<inst, pool, frozen, stopping, closed>>
  PROVE  KernelInv'
<1>1. /\ KernelTypeOK /\ PoolInv /\ ChainInv /\ BornInv /\ SizeInv /\ KeyInv /\ OnlyIdleEvicted
      /\ cell \in [Cells -> CellStates] /\ KeyOf(c) \in Keys
  BY KernelTypes, KernelAssumption DEF KernelInv
<1>2. "queued" \in CellStates /\ "asking" \notin InFlight
  BY DEF CellStates, InFlight
<1>3. /\ \A x \in Cells : cell'[x] = IF x = c THEN "queued" ELSE cell[x]
      /\ \A x \in Cells : on'[x] = IF x = c THEN i ELSE on[x]
      /\ \A j \in Instances : chain'[j] = IF j = i THEN Append(chain[i], c) ELSE chain[j]
  BY <1>1 DEF GiveTo, KernelTypeOK
<1>4. Append(chain[i], c) \in Seq(Cells)
  BY KernelTypes, AppendProperties
<1>5. KernelTypeOK'
  <2>1. i \in 0 .. MaxInst
    BY KernelAssumption DEF Instances
  <2> QED
    BY <1>1, <1>2, <1>4, <2>1 DEF KernelTypeOK, CellStates, GiveTo
<1>6. PoolShrinks
  BY <1>1, PoolUntouched
<1>7. (PoolInv /\ BornInv /\ SizeInv)' /\ Born' = Born
  BY <1>1, <1>5, <1>6, PoolStaysSmall
<1>8. i \in Born'
  BY <1>1, <1>7, KernelAssumption DEF PoolInv, Instances
<1>9. ChainInv'
  BY <1>1, <1>2, <1>3, <1>7, <1>8, ChainsGrow
<1>10. OnlyIdleEvicted'
  BY <1>1, <1>3 DEF OnlyIdleEvicted
<1>11. KeyInv'
  <2>1. inst[i].key = KeyOf(c)
    BY <1>1, KernelAssumption DEF PoolInv, Instances
  <2> QED
    BY <1>1, <1>3, <2>1 DEF KeyInv
<1> QED
  BY <1>5, <1>7, <1>9, <1>10, <1>11 DEF KernelInv

(* Acquire's assignments when the caller gets a new kernel.                *)
Renews(c, k, p, fresh, out) ==
  /\ pool' = [[j \in Keys |-> IF p[j] = out THEN 0 ELSE p[j]] EXCEPT ![k] = fresh]
  /\ inst' = [i \in Instances |->
       IF i = fresh THEN [key |-> k, state |-> "created"]
       ELSE IF i = out THEN [inst[i] EXCEPT !.state = After(@)] ELSE inst[i]]
  /\ cell' = [x \in Cells |->
       IF x = c THEN "queued"
       ELSE IF out # 0 /\ on[x] = out /\ cell[x] \in InFlight THEN "evicted"
       ELSE cell[x]]
  /\ on' = [on EXCEPT ![c] = fresh]
  /\ chain' = [i \in Instances |-> IF i = fresh THEN <<c>> ELSE IF i = out THEN <<>> ELSE chain[i]]

(* A caller that gets a new kernel, in the place of an idle one when there *)
(* is no room.                                                             *)
LEMMA AcquireNew ==
  ASSUME KernelInv, NEW c \in Cells, cell[c] = "asking", NEW k \in Keys, k = KeyOf(c), stopping[k] = 0,
         NEW p, p = Forget(k), p[k] = 0, NEW fresh, fresh = Cardinality(Born) + 1, fresh <= MaxInst,
         NEW out,
         \/ Cardinality(InPool(p)) < MaxKernels /\ out = 0
         \/ out \in InPool(p) /\ ~Busy(out),
         Renews(c, k, p, fresh, out),
         UNCHANGED <<frozen, stopping, closed>>
  PROVE  KernelInv'
<1>1. /\ KernelTypeOK /\ PoolInv /\ ChainInv /\ BornInv /\ SizeInv /\ KeyInv /\ OnlyIdleEvicted
      /\ cell \in [Cells -> CellStates] /\ inst \in [Instances -> [key : Keys, state : KernelStates]]
      /\ pool \in [Keys -> 0 .. MaxInst]
  BY KernelTypes DEF KernelInv, KernelTypeOK
<1>2. /\ p \in [Keys -> 0 .. MaxInst] /\ \A j \in Keys : p[j] \in {pool[j], 0} /\ (j # k => p[j] = pool[j])
      /\ pool[k] # 0 => ~Alive(pool[k])
  BY <1>1, Forgotten
<1>3. PICK n \in 0 .. MaxInst : Born = 1 .. n
  BY <1>1 DEF BornInv
<1>4. fresh = n + 1 /\ fresh \in Instances /\ fresh \notin Born /\ fresh # 0 /\ chain[fresh] = <<>>
  <2>1. n \in Int /\ 1 \in Int
    BY <1>3, KernelAssumption
  <2>2. Cardinality(1 .. n) = IF 1 > n THEN 0 ELSE n - 1 + 1
    BY <2>1, FS_Interval
  <2>3. fresh = n + 1
    BY <1>3, <2>1, <2>2, KernelAssumption
  <2>4. fresh \in Instances /\ fresh \notin Born /\ fresh # 0
    BY <1>3, <2>3, KernelAssumption DEF Instances
  <2> QED
    BY <1>1, <2>3, <2>4 DEF ChainInv
<1>5. \A j \in Keys : p[j] # 0 => p[j] \in Born /\ p[j] \in Instances /\ inst[p[j]].key = j /\ p[j] # fresh
  BY <1>1, <1>2, <1>4 DEF PoolInv, Born
<1>6. out # 0 => out \in InPool(p) /\ out \in Born /\ out \in Instances /\ out # fresh /\ chain[out] = <<>>
  BY <1>5 DEF InPool, Busy
<1>7. ASSUME NEW x \in Cells, cell[x] \in InFlight PROVE on[x] # out
  <2>1. on[x] \in Instances /\ chain[on[x]] # <<>>
    BY <1>1, <1>7, BegunIsFirst
  <2>2. on[x] # 0
    BY <2>1, KernelAssumption DEF Instances
  <2> QED
    BY <1>6, <2>1, <2>2
<1>8. /\ \A x \in Cells : cell'[x] = IF x = c THEN "queued" ELSE cell[x]
      /\ \A x \in Cells : on'[x] = IF x = c THEN fresh ELSE on[x]
  BY <1>1, <1>7 DEF KernelTypeOK, Renews
<1>9. \A i \in Instances : chain'[i] = IF i = fresh THEN Append(chain[fresh], c) ELSE chain[i]
  <2>0. Append(<<>>, c) = <<c>>
    OBVIOUS
  <2>1. Append(chain[fresh], c) = <<c>>
    BY <1>4, <2>0
  <2>2. 0 \notin Instances
    BY KernelAssumption DEF Instances
  <2>3. \A i \in Instances : i = out => chain[i] = <<>>
    BY <1>6, <2>2
  <2> QED
    BY <2>1, <2>3 DEF Renews
<1>10. /\ \A i \in Instances : i # fresh /\ i # out => inst'[i] = inst[i]
       /\ inst'[fresh] = [key |-> k, state |-> "created"]
       /\ out # 0 => inst'[out].key = inst[out].key /\ inst'[out].state \in Gone
       /\ inst' \in [Instances -> [key : Keys, state : KernelStates]]
  <2>1. 0 \notin Instances
    BY KernelAssumption DEF Instances
  <2>2. ASSUME out # 0
        PROVE  /\ inst'[out] \in [key : Keys, state : KernelStates]
               /\ inst'[out].key = inst[out].key /\ inst'[out].state \in Gone
    <3>1. inst[out] \in [key : Keys, state : KernelStates] /\ out \in Instances /\ out # fresh
      BY <1>1, <1>6, <2>2
    <3>2. PICK st \in KernelStates : st = After(inst[out].state) /\ st \in Gone
      BY <3>1, AfterDies, GoneStates
    <3>3. inst'[out] = [inst[out] EXCEPT !.state = st]
      BY <3>1, <3>2 DEF Renews
    <3> QED
      BY <3>1, <3>2, <3>3
  <2>3. \A i \in Instances : i # fresh /\ i # out => inst'[i] = inst[i]
    BY DEF Renews
  <2>4. inst'[fresh] = [key |-> k, state |-> "created"]
    BY <1>4 DEF Renews
  <2>5. \A i \in Instances : inst'[i] \in [key : Keys, state : KernelStates]
    BY <1>1, <2>1, <2>2, <2>3, <2>4 DEF KernelStates
  <2>6. inst' = [i \in Instances |-> inst'[i]]
    BY DEF Renews
  <2> QED
    BY <2>2, <2>3, <2>4, <2>5, <2>6
<1>11. /\ pool'[k] = fresh /\ \A j \in Keys \ {k} : pool'[j] = IF p[j] = out THEN 0 ELSE p[j]
       /\ pool' \in [Keys -> 0 .. MaxInst]
  <2>1. fresh \in 0 .. MaxInst /\ 0 \in 0 .. MaxInst
    BY <1>4, KernelAssumption DEF Instances
  <2> QED
    BY <1>2, <2>1 DEF Renews
<1>12. KernelTypeOK'
  <2>1. chain' \in [Instances -> Seq(Cells)]
    <3>1. <<c>> \in Seq(Cells) /\ <<>> \in Seq(Cells)
      OBVIOUS
    <3> QED
      BY <1>1, <3>1 DEF KernelTypeOK, Renews
  <2>2. cell' \in [Cells -> CellStates]
    <3>1. "queued" \in CellStates
      BY DEF CellStates, InFlight
    <3>2. DOMAIN cell' = Cells /\ cell' = [x \in Cells |-> cell'[x]]
      BY DEF Renews
    <3> QED
      BY <1>1, <1>8, <3>1, <3>2
  <2>3. on' \in [Cells -> 0 .. MaxInst]
    <3>1. fresh \in 0 .. MaxInst
      BY <1>4, KernelAssumption DEF Instances
    <3> QED
      BY <1>1, <3>1 DEF KernelTypeOK, Renews
  <2> QED
    BY <1>1, <1>10, <1>11, <2>1, <2>2, <2>3 DEF KernelTypeOK, CellStates, KernelStates
<1>13. Born' = Born \cup {fresh}
  <2>1. \A i \in Instances : inst'[i].state # "none" <=> inst[i].state # "none" \/ i = fresh
    <3>1. /\ inst[fresh].state = "none" /\ inst'[fresh].state = "created"
          /\ out # 0 => inst[out].state # "none" /\ inst'[out].state # "none"
      BY <1>1, <1>4, <1>6, <1>10, GoneStates DEF Born
    <3>2. 0 \notin Instances
      BY KernelAssumption DEF Instances
    <3> QED
      BY <1>6, <1>10, <3>1, <3>2
  <2> QED
    BY <1>4, <2>1 DEF Born
<1>14. BornInv'
  <2>1. n + 1 \in 0 .. MaxInst /\ 1 .. (n + 1) = (1 .. n) \cup {n + 1}
    BY <1>3, <1>4, KernelAssumption
  <2> QED
    BY <1>3, <1>4, <1>13, <2>1 DEF BornInv
<1>15. ChainInv'
  <2>1. "asking" \notin InFlight
    BY DEF InFlight
  <2>2. /\ fresh \in Instances /\ on'[c] = fresh /\ cell'[c] = "queued" /\ cell[c] \notin InFlight
        /\ \A x \in Cells \ {c} : on'[x] = on[x] /\ cell'[x] = cell[x]
    BY <1>4, <1>8, <2>1
  <2>3. fresh \in Born' /\ Born \subseteq Born'
    BY <1>13
  <2> QED
    BY <1>1, <1>9, <2>2, <2>3, ChainsGrow
<1>16. PoolInv'
  <2>1. ASSUME NEW j \in Keys, pool'[j] # 0 PROVE pool'[j] \in Born' /\ inst'[pool'[j]].key = j
    <3>1. CASE j = k
      BY <1>10, <1>11, <1>13, <3>1
    <3>2. CASE j # k
      <4>1. pool'[j] = p[j] /\ p[j] # 0 /\ p[j] # out
        BY <1>11, <2>1, <3>2
      <4> QED
        BY <1>5, <1>10, <1>13, <4>1
    <3> QED
      BY <3>1, <3>2
  <2>2. ASSUME NEW i \in Instances, Alive(i)' PROVE pool'[inst'[i].key] = i
    <3>1. CASE i = fresh
      BY <1>10, <1>11, <3>1
    <3>2. CASE i # fresh
      <4>1. i # out
        <5>1. 0 \notin Instances
          BY KernelAssumption DEF Instances
        <5> QED
          BY <1>6, <1>10, <2>2, <3>2, <5>1 DEF Alive, Gone
      <4>2. inst'[i] = inst[i] /\ Alive(i) /\ inst[i].key \in Keys
        BY <1>1, <1>10, <2>2, <3>2, <4>1 DEF Alive
      <4>3. pool[inst[i].key] = i /\ i # 0
        BY <1>1, <4>2, KernelAssumption DEF PoolInv, Instances
      <4>4. inst[i].key # k
        BY <1>2, <4>2, <4>3
      <4> QED
        BY <1>2, <1>11, <4>1, <4>2, <4>3, <4>4
    <3> QED
      BY <3>1, <3>2
  <2>3. ASSUME NEW j \in Keys, stopping'[j] # 0, pool'[j] # 0 PROVE ~Alive(pool[j])'
    <3>1. j # k /\ stopping[j] # 0
      BY <2>3
    <3>2. pool'[j] = pool[j] /\ pool[j] # 0 /\ pool[j] # out /\ pool[j] \in Instances /\ pool[j] # fresh
      BY <1>2, <1>5, <1>11, <2>3, <3>1
    <3>3. ~Alive(pool[j]) /\ inst'[pool[j]] = inst[pool[j]]
      BY <1>1, <1>10, <3>1, <3>2 DEF PoolInv
    <3> QED
      BY <3>2, <3>3 DEF Alive
  <2>4. ASSUME NEW j \in Keys PROVE Tame(j)'
    <3>1. CASE j = k
      BY <1>10, <1>11, <3>1 DEF Tame
    <3>2. CASE j # k /\ pool'[j] # 0
      <4>1. pool'[j] = pool[j] /\ pool[j] # 0 /\ pool[j] # out /\ pool[j] \in Instances /\ pool[j] # fresh
        BY <1>2, <1>5, <1>11, <3>2
      <4>2. inst'[pool[j]] = inst[pool[j]] /\ Tame(j)
        BY <1>1, <1>10, <4>1 DEF PoolInv
      <4> QED
        BY <4>1, <4>2 DEF Tame
    <3>3. CASE pool'[j] = 0
      BY <3>3 DEF Tame
    <3> QED
      BY <3>1, <3>2, <3>3
  <2> QED
    BY <2>1, <2>2, <2>3, <2>4 DEF PoolInv, Born, Alive
<1>17. SizeInv'
  <2> DEFINE I == InPool(p)
             R == I \ {out}
  <2>1. IsFiniteSet(Instances)
    <3>1. 1 \in Int /\ MaxInst \in Int
      BY KernelAssumption
    <3> QED
      BY <3>1, FS_Interval DEF Instances
  <2>2. I \in SUBSET InPool(pool) /\ InPool(pool) \in SUBSET Instances /\ fresh \notin I
    BY <1>1, <1>2, <1>5 DEF InPool, PoolInv, Born
  <2>3. InPool(pool') \subseteq R \cup {fresh}
    BY <1>11 DEF InPool
  <2> HIDE DEF I
  <2>4. /\ Cardinality(I) \in Nat /\ Cardinality(InPool(pool)) \in Nat
        /\ Cardinality(I) <= Cardinality(InPool(pool))
    BY <2>1, <2>2, CountPart
  <2>5. Cardinality(R) \in Nat /\ Cardinality(R) + 1 <= MaxKernels
    <3>1. CASE Cardinality(I) < MaxKernels
      <4>1. I \in SUBSET Instances /\ R \in SUBSET I
        BY <2>2
      <4>2. Cardinality(R) \in Nat /\ Cardinality(R) <= Cardinality(I)
        BY <2>1, <4>1, CountPart
      <4> QED
        BY <2>4, <3>1, <4>2, KernelAssumption
    <3>2. CASE out \in I
      <4>1. I \in SUBSET Instances
        BY <2>2
      <4>2. Cardinality(I) >= 1 /\ Cardinality(R) = Cardinality(I) - 1
        BY <2>1, <3>2, <4>1, CountDrop
      <4>3. Cardinality(InPool(pool)) <= MaxKernels
        BY <1>1 DEF SizeInv
      <4> QED
        BY <2>4, <4>2, <4>3, KernelAssumption
    <3> QED
      BY <3>1, <3>2 DEF I
  <2>6. R \in SUBSET Instances /\ fresh \notin R /\ fresh \in Instances
    BY <1>4, <2>2
  <2> HIDE DEF R
  <2>7. Cardinality(R \cup {fresh}) = Cardinality(R) + 1 /\ R \cup {fresh} \in SUBSET Instances
    BY <2>1, <2>6, CountAdd
  <2>8. /\ Cardinality(InPool(pool')) <= Cardinality(R \cup {fresh}) /\ Cardinality(InPool(pool')) \in Nat
    BY <2>1, <2>3, <2>7, CountPart
  <2> QED
    BY <2>5, <2>7, <2>8, KernelAssumption DEF SizeInv, InPool
<1>18. OnlyIdleEvicted'
  BY <1>1, <1>8 DEF OnlyIdleEvicted
<1>19. KeyInv'
  <2>1. ASSUME NEW x \in Cells \ {c}, cell[x] \in InFlight PROVE inst'[on'[x]].key = KeyOf(x)
    <3>1. on[x] \in Instances /\ on'[x] = on[x] /\ inst[on[x]].key = KeyOf(x) /\ on[x] # out
      BY <1>1, <1>7, <1>8, <2>1 DEF KeyInv, ChainInv
    <3>2. on[x] # fresh
      BY <1>1, <1>4, <2>1, BegunIsFirst
    <3> QED
      BY <1>10, <3>1, <3>2
  <2>2. on'[c] = fresh /\ inst'[fresh].key = KeyOf(c)
    BY <1>8, <1>10
  <2> QED
    BY <1>8, <2>1, <2>2 DEF KeyInv
<1> QED
  BY <1>12, <1>14, <1>15, <1>16, <1>17, <1>18, <1>19 DEF KernelInv

LEMMA AcquireStep == ASSUME KernelInv, NEW c \in Cells, Acquire(c) PROVE KernelInv'
<1> DEFINE k == KeyOf(c)
           p == Forget(k)
           fresh == Cardinality(Born) + 1
           full == Cardinality(InPool(p)) >= MaxKernels
           idle == {i \in InPool(p) : ~Busy(i)}
<1>1. /\ KernelTypeOK /\ PoolInv /\ k \in Keys /\ p \in [Keys -> 0 .. MaxInst]
      /\ p[k] # 0 => p = pool /\ Alive(pool[k])
      /\ \A j \in Keys : p[j] \in {pool[j], 0}
  BY KernelTypes, KernelAssumption, Forgotten
<1>2. cell[c] = "asking" /\ stopping[k] = 0 /\ UNCHANGED <<frozen, stopping, closed>>
  BY DEF Acquire
<1>3. CASE p[k] # 0
  <2>1. GiveTo(c, p[k]) /\ cell' = [cell EXCEPT ![c] = "queued"] /\ UNCHANGED <<inst, pool>>
    BY <1>3 DEF Acquire
  <2>2. p[k] \in Instances /\ pool[k] = p[k]
    BY <1>1, <1>3, KernelAssumption DEF Instances
  <2> HIDE DEF p
  <2> QED
    BY <1>2, <2>1, <2>2, AcquireOwn
<1>4. CASE p[k] = 0
  <2>1. \/ /\ closed /\ cell' = [cell EXCEPT ![c] = "cancelled"] /\ pool' = p
           /\ UNCHANGED <<on, inst, chain>>
        \/ /\ ~closed /\ full /\ idle = {} /\ pool' = p
           /\ cell' = [cell EXCEPT ![c] = "capacity"]
           /\ UNCHANGED <<on, inst, chain>>
        \/ /\ ~closed /\ (full => idle # {}) /\ fresh <= MaxInst
           /\ \E out \in IF full THEN idle ELSE {0} : Renews(c, k, p, fresh, out)
    BY <1>4 DEF Acquire, Renews
  <2>2. CASE /\ cell' = [cell EXCEPT ![c] = "cancelled"] \/ cell' = [cell EXCEPT ![c] = "capacity"]
             /\ pool' = p /\ UNCHANGED <<on, inst, chain>>
    BY <1>2, <2>2, AcquireNone
  <2>3. ASSUME NEW out \in IF full THEN idle ELSE {0}, fresh <= MaxInst, Renews(c, k, p, fresh, out)
        PROVE  KernelInv'
    <3>1. \/ Cardinality(InPool(p)) < MaxKernels /\ out = 0
          \/ out \in InPool(p) /\ ~Busy(out)
      <4>1. InPool(p) \in SUBSET Instances /\ IsFiniteSet(Instances)
        <5>1. 1 \in Int /\ MaxInst \in Int
          BY KernelAssumption
        <5>2. IsFiniteSet(Instances)
          BY <5>1, FS_Interval DEF Instances
        <5>3. \A j \in Keys : p[j] \in 0 .. MaxInst
          BY <1>1
        <5> HIDE DEF p
        <5> QED
          BY <5>2, <5>3, KernelAssumption DEF InPool, Instances
      <4>2. Cardinality(InPool(p)) \in Nat
        BY <4>1, CountNone
      <4> QED
        BY <2>3, <4>2, KernelAssumption
    <3>2. p = Forget(KeyOf(c)) /\ fresh = Cardinality(Born) + 1 /\ k = KeyOf(c)
      OBVIOUS
    <3> HIDE DEF p, fresh, k, full, idle
    <3> QED
      BY <1>1, <1>2, <1>4, <2>3, <3>1, <3>2, AcquireNew
  <2> QED
    BY <2>1, <2>2, <2>3
<1> QED
  BY <1>3, <1>4

LEMMA KernelInitInv == KernelInit => KernelInv
<1> SUFFICES ASSUME KernelInit PROVE KernelInv
  OBVIOUS
<1>1. PICK home \in Keys : inst = [i \in Instances |-> [key |-> home, state |-> "none"]]
  <2>1. (CHOOSE k \in Keys : TRUE) \in Keys
    BY KernelAssumption
  <2> QED
    BY <2>1 DEF KernelInit
<1>2. \A i \in Instances : inst[i].state = "none" /\ ~Alive(i) /\ chain[i] = <<>>
  BY <1>1 DEF KernelInit, Alive
<1>3. "new" \notin InFlight /\ 0 \in 0 .. MaxInst
  BY KernelAssumption DEF InFlight
<1>4. KernelTypeOK
  <2>1. chain \in [Instances -> Seq(Cells)]
    BY DEF KernelInit
  <2>2. inst \in [Instances -> [key : Keys, state : KernelStates]]
    BY <1>1 DEF KernelStates
  <2> QED
    BY <1>3, <2>1, <2>2 DEF KernelInit, KernelTypeOK
<1>5. PoolInv
  BY <1>2 DEF PoolInv, Tame, KernelInit
<1>6. BornInv
  <2>1. Born = {} /\ 1 .. 0 = {}
    BY <1>2 DEF Born
  <2> QED
    BY <1>3, <2>1 DEF BornInv
<1>7. SizeInv
  <2>1. InPool(pool) = {}
    BY DEF InPool, KernelInit
  <2> QED
    BY <2>1, FS_EmptySet, KernelAssumption DEF SizeInv
<1>8. ChainInv
  <2>1. \A i \in Instances : 1 .. Len(chain[i]) = {} /\ 2 .. Len(chain[i]) = {}
    BY <1>2
  <2>2. \A c \in Cells : cell[c] \notin InFlight
    BY <1>3 DEF KernelInit
  <2> QED
    BY <1>2, <2>1, <2>2 DEF ChainInv
<1>9. OnlyIdleEvicted /\ KeyInv
  BY <1>3 DEF OnlyIdleEvicted, KeyInv, KernelInit
<1> QED
  BY <1>4, <1>5, <1>6, <1>7, <1>8, <1>9 DEF KernelInv

(* The kernels alive are among the kernels of the map.                     *)
LEMMA KernelBound == KernelInv => PoolKept
<1> SUFFICES ASSUME KernelInv PROVE PoolKept
  OBVIOUS
<1> DEFINE living == {i \in Instances : Alive(i)}
<1>1. KernelTypeOK /\ PoolInv /\ SizeInv /\ OnlyIdleEvicted
  BY DEF KernelInv
<1>2. 1 \in Int /\ MaxInst \in Int
  BY KernelAssumption
<1>3. IsFiniteSet(Instances)
  BY <1>2, FS_Interval DEF Instances
<1>4. living \subseteq InPool(pool)
  <2>1. ASSUME NEW i \in Instances, Alive(i) PROVE i \in InPool(pool)
    <3>1. inst[i].key \in Keys /\ pool[inst[i].key] = i /\ i # 0
      BY <1>1, <2>1, KernelTypes, KernelAssumption DEF PoolInv, Instances
    <3> QED
      BY <3>1 DEF InPool
  <2> QED
    BY <2>1
<1>5. InPool(pool) \in SUBSET Instances
  BY <1>1, KernelAssumption DEF InPool, KernelTypeOK, Instances
<1>6. Cardinality(living) <= MaxKernels
  <2>1. /\ Cardinality(living) \in Nat /\ Cardinality(InPool(pool)) \in Nat
        /\ Cardinality(living) <= Cardinality(InPool(pool))
    <3> HIDE DEF living
    <3> QED
      BY <1>3, <1>4, <1>5, CountPart
  <2> HIDE DEF living
  <2> QED
    BY <1>1, <2>1, KernelAssumption DEF SizeInv
<1>7. NeverReused
  BY <1>1 DEF NeverReused, PoolInv, Tame
<1> QED
  BY <1>1, <1>6, <1>7 DEF PoolKept, PoolBound, PoolInv

(* PoolKept: one kernel per session, no more of them than maxKernels, none *)
(* given out that was terminated and brought back by its process, and no   *)
(* cell, running or waiting in a chain, loses its kernel to an eviction,   *)
(* in every order of executions, slow or failing starts, deaths,           *)
(* checkpoints, restores, sweeps and the close of the manager.             *)
THEOREM PoolOfKernels == KernelSpec => []PoolKept
<1>1. ASSUME KernelInv, [KernelNext]_kvars PROVE KernelInv'
  <2>1. CASE UNCHANGED kvars
    <3>1. UNCHANGED <<cell, on, inst, chain, pool, frozen, stopping, closed>>
      BY <2>1 DEF kvars
    <3>2. KernelTypeOK /\ PoolInv
      BY <1>1 DEF KernelInv
    <3>3. KernelTypeOK' /\ PoolShrinks
      BY <3>1, <3>2, PoolUntouched DEF KernelTypeOK
    <3> QED
      BY <1>1, <3>1, <3>3, KernelStill DEF Rests
  <2>2. CASE Progress
    BY <1>1, <2>2, AcquireStep, StepsOfACell, StepsOfAKernel, StepsOfTheMap DEF Progress
  <2>3. CASE Close \/ \E k \in Keys : StopForRestore(k)
    BY <1>1, <2>3, CloseStep, RestoreStep
  <2>4. CASE \E c \in Cells : Submit(c) \/ GiveUp(c) \/ HostCall(c)
    BY <1>1, <2>4, StepsOfACell
  <2>5. CASE \E c \in Cells : Reject(c) \/ Result(c) \/ Kill(c)
    BY <1>1, <2>5, StepsOfAnEnd
  <2>6. CASE (\E i \in Instances : IdleExit(i)) \/ (\E k \in Keys : SweepIdle(k))
    BY <1>1, <2>6, StepsOfAKernel, StepsOfTheMap
  <2> QED
    BY <1>1, <2>1, <2>2, <2>3, <2>4, <2>5, <2>6 DEF KernelNext
<1> QED
  BY <1>1, KernelInitInv, KernelBound, PTL DEF KernelSpec
=============================================================================
