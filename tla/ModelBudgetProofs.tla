-------------------------- MODULE ModelBudgetProofs --------------------------
(***************************************************************************)
(* Proofs about ModelBudget for any number of callers and calls and any    *)
(* limits.  The token counter is a sum over the calls' rows: the lemmas    *)
(* about sums are proved by induction on the size of the set, over a set   *)
(* of naturals, since the provers cannot instantiate a rule that takes an  *)
(* operator.                                                               *)
(***************************************************************************)
EXTENDS ModelBudget, FiniteSetTheorems, WellFoundedInduction, TLAPS

USE ModelBudgetAssumption

(* A caller at work has a call, an admitted one has its row, and only a    *)
(* call with tries left is repeated.                                       *)
CallInv ==
  \A c \in Caller :
    /\ pc[c] # "idle" => last[c] \in 1 .. MaxIds
    /\ pc[c] \in {"reserving", "admitted", "calling", "recording"} => tries[c] >= 1
    /\ pc[c] = "admitted" => Current(c) \in issued
    /\ pc[c] = "again" => tries[c] < MaxTries

(* The call counter of agent_model_budgets counts its rows.                *)
CountInv ==
  /\ IsFiniteSet(issued) /\ budget.calls = Cardinality(issued) /\ budget.calls <= MaxCalls
  /\ touched \subseteq issued

BudgetInv == TypeOK /\ CallInv /\ CountInv

LEMMA CurrentInId ==
  ASSUME TypeOK, CallInv, NEW c \in Caller, pc[c] # "idle"
  PROVE  Current(c) \in Id /\ size[Current(c)] \in Nat
<1>1. Current(c) \in Id
  BY DEF CallInv, Current, Id
<1> QED
  BY <1>1 DEF TypeOK

LEMMA AskTypes ==
  ASSUME TypeOK, NEW c \in Caller, NEW n \in Nat, Ask(c, n)
  PROVE  /\ last' \in [Caller -> 0 .. MaxIds] /\ last'[c] \in 1 .. MaxIds
         /\ \A d \in Caller \ {c} : last'[d] = last[d]
         /\ size' \in [Id -> Nat] /\ asked' \subseteq Id /\ again' \in [Caller -> BOOLEAN]
         /\ pc' = [pc EXCEPT ![c] = "reserving"]
         /\ UNCHANGED <<calls, tokens, usage, reported, storeVars, touched, worldVars>>
<1>1. last[c] + 1 \in 1 .. MaxIds
  BY DEF TypeOK, Ask
<1>2. <<c, last[c] + 1>> \in Id
  BY <1>1 DEF Id
<1> QED
  BY <1>1, <1>2 DEF TypeOK, Ask

LEMMA TypeStep == TypeOK /\ CallInv /\ [Next]_vars => TypeOK'
<1> SUFFICES ASSUME TypeOK, CallInv, [Next]_vars PROVE TypeOK'
  OBVIOUS
<1>1. ASSUME NEW k \in Id, Reserve(k) PROVE TypeOK'
  <2>1. budget' \in [calls : Nat, tokens : Int] /\ issued' \subseteq Id
    BY <1>1 DEF TypeOK, Reserve
  <2>2. k[1] \in Caller
    BY DEF Id
  <2>3. pc' \in [Caller -> {"idle", "reserving", "admitted", "calling", "recording", "again"}]
    BY <1>1, <2>2 DEF TypeOK, Reserve
  <2> QED
    BY <1>1, <2>1, <2>3 DEF TypeOK, Reserve, worldVars
<1>2. ASSUME NEW k \in Id, Record(k) PROVE TypeOK'
  <2>1. usage[k] \in Nat /\ size[k] \in Nat
    BY DEF TypeOK
  <2>2. budget' \in [calls : Nat, tokens : Int] /\ settled' \subseteq Id
    BY <1>2, <2>1 DEF TypeOK, Record
  <2>3. pc' \in [Caller -> {"idle", "reserving", "admitted", "calling", "recording", "again"}]
    BY <1>2 DEF TypeOK, Record
  <2> QED
    BY <1>2, <2>2, <2>3 DEF TypeOK, Record, worldVars
<1>3. ASSUME NEW c \in Caller, NEW n \in Size, Begin(c, n) PROVE TypeOK'
  <2>1. n \in Nat /\ Ask(c, n) /\ tries' \in [Caller -> 0 .. MaxTries]
    BY <1>3 DEF TypeOK, Begin
  <2> QED
    BY <2>1, AskTypes DEF TypeOK, storeVars, worldVars
<1>4. ASSUME NEW c \in Caller, Retry(c) PROVE TypeOK'
  <2>1. size[Current(c)] \in Nat
    BY <1>4, CurrentInId DEF Retry
  <2>2. Ask(c, size[Current(c)]) /\ tries' \in [Caller -> 0 .. MaxTries]
    BY <1>4 DEF TypeOK, Retry, CallInv
  <2> QED
    BY <2>1, <2>2, AskTypes DEF TypeOK, storeVars, worldVars
<1>5. ASSUME NEW c \in Caller, Invoke(c) PROVE TypeOK'
  <2>1. Current(c) \in Id /\ size[Current(c)] \in Nat
    BY <1>5, CurrentInId DEF Invoke, Admitted
  <2> QED
    BY <1>5, <2>1 DEF TypeOK, Invoke, storeVars, worldVars
<1>6. ASSUME NEW c \in Caller, NEW n \in Nat, NEW r \in BOOLEAN, Report(c, n, r) PROVE TypeOK'
  <2>1. Current(c) \in Id /\ size[Current(c)] \in Nat
    BY <1>6, CurrentInId DEF Report
  <2> QED
    BY <1>6, <2>1 DEF TypeOK, Report, storeVars, worldVars
<1>7. ASSUME NEW c \in Caller, (\E n \in Usage : Report(c, n, FALSE)) \/ (\E r \in BOOLEAN : Report(c, size[Current(c)], r))
      PROVE TypeOK'
  <2>1. pc[c] = "calling"
    BY <1>7 DEF Report
  <2>2. size[Current(c)] \in Nat
    BY <2>1, CurrentInId
  <2> QED
    BY <1>6, <1>7, <2>2
<1>8. ASSUME NEW c \in Caller, GiveUp(c) PROVE TypeOK'
  BY <1>8 DEF TypeOK, GiveUp, storeVars, worldVars
<1>9. ASSUME NEW c \in Caller, LoseLease(c) PROVE TypeOK'
  BY <1>9 DEF TypeOK, LoseLease, callVars, storeVars
<1>10. ASSUME NEW c \in Caller, Reclaim(c) PROVE TypeOK'
  BY <1>10 DEF TypeOK, Reclaim, storeVars
<1>11. CASE RunOut
  BY <1>11 DEF TypeOK, RunOut, callVars, storeVars
<1>12. CASE UNCHANGED vars
  BY <1>12 DEF TypeOK, vars, callVars, storeVars, worldVars
<1> QED
  BY <1>1, <1>2, <1>3, <1>4, <1>5, <1>7, <1>8, <1>9, <1>10, <1>11, <1>12 DEF Next

LEMMA CallStep == TypeOK /\ CallInv /\ [Next]_vars => CallInv'
<1> SUFFICES ASSUME TypeOK, CallInv, [Next]_vars PROVE CallInv'
  OBVIOUS
<1>1. ASSUME NEW k \in Id, Reserve(k) PROVE CallInv'
  <2>1. k[1] \in Caller /\ UNCHANGED <<last, tries>> /\ issued \subseteq issued'
    BY <1>1 DEF Reserve, Id
  <2>2. CASE UNCHANGED pc
    BY <2>1, <2>2 DEF CallInv, Current
  <2>3. CASE /\ pc[k[1]] = "reserving" /\ Current(k[1]) = k
             /\ pc' = [pc EXCEPT ![k[1]] = IF k \in issued' THEN "admitted" ELSE "idle"]
    BY <2>1, <2>3 DEF TypeOK, CallInv, Current
  <2> QED
    BY <1>1, <2>2, <2>3 DEF Reserve
<1>2. ASSUME NEW k \in Id, Record(k) PROVE CallInv'
  <2>1. k[1] \in Caller /\ UNCHANGED <<last, tries, issued>>
    BY <1>2 DEF Record, Id
  <2>2. CASE UNCHANGED pc
    BY <2>1, <2>2 DEF CallInv, Current
  <2>3. CASE /\ pc[k[1]] = "recording"
             /\ pc' = [pc EXCEPT ![k[1]] = IF Repeats(k[1]) THEN "again" ELSE "idle"]
    BY <2>1, <2>3 DEF TypeOK, CallInv, Current, Repeats
  <2> QED
    BY <1>2, <2>2, <2>3 DEF Record
<1>3. ASSUME NEW c \in Caller, NEW n \in Nat, Ask(c, n), NEW t \in Nat, t >= 1, tries' = [tries EXCEPT ![c] = t] PROVE CallInv'
  <2>1. /\ last'[c] \in 1 .. MaxIds /\ \A d \in Caller \ {c} : last'[d] = last[d]
        /\ pc' = [pc EXCEPT ![c] = "reserving"] /\ UNCHANGED issued
    BY <1>3, AskTypes DEF storeVars
  <2>2. pc'[c] = "reserving" /\ tries'[c] = t /\ \A d \in Caller \ {c} : pc'[d] = pc[d] /\ tries'[d] = tries[d]
    BY <1>3, <2>1 DEF TypeOK
  <2>3. ASSUME NEW d \in Caller \ {c}
        PROVE  /\ pc'[d] # "idle" => last'[d] \in 1 .. MaxIds
               /\ pc'[d] \in {"reserving", "admitted", "calling", "recording"} => tries'[d] >= 1
               /\ pc'[d] = "admitted" => Current(d)' \in issued'
               /\ pc'[d] = "again" => tries'[d] < MaxTries
    BY <2>1, <2>2 DEF CallInv, Current
  <2>4. /\ last'[c] \in 1 .. MaxIds /\ tries'[c] >= 1 /\ pc'[c] # "admitted" /\ pc'[c] # "again"
    BY <1>3, <2>1, <2>2
  <2> QED
    BY <2>3, <2>4 DEF CallInv
<1>4. ASSUME NEW c \in Caller, NEW n \in Size, Begin(c, n) PROVE CallInv'
  <2>1. n \in Nat /\ Ask(c, n) /\ tries' = [tries EXCEPT ![c] = 1] /\ 1 \in Nat /\ 1 >= 1
    BY <1>4 DEF Begin
  <2> QED
    BY <1>3, <2>1
<1>5. ASSUME NEW c \in Caller, Retry(c) PROVE CallInv'
  <2>1. size[Current(c)] \in Nat
    BY <1>5, CurrentInId DEF Retry
  <2>2. tries[c] + 1 \in Nat /\ tries[c] + 1 >= 1
    BY DEF TypeOK
  <2>3. Ask(c, size[Current(c)]) /\ tries' = [tries EXCEPT ![c] = tries[c] + 1]
    BY <1>5 DEF Retry
  <2> QED
    BY <1>3, <2>1, <2>2, <2>3
<1>6. ASSUME NEW c \in Caller, Invoke(c) \/ GiveUp(c) \/ LoseLease(c) \/ Reclaim(c) PROVE CallInv'
  <2>1. UNCHANGED <<last, tries, issued>>
    BY <1>6 DEF Invoke, GiveUp, LoseLease, Reclaim, callVars, storeVars
  <2>2. CASE UNCHANGED pc
    BY <2>1, <2>2 DEF CallInv, Current
  <2>3. CASE pc' = [pc EXCEPT ![c] = "idle"]
    BY <2>1, <2>3 DEF TypeOK, CallInv, Current
  <2>4. CASE pc[c] = "admitted" /\ pc' = [pc EXCEPT ![c] = "calling"]
    BY <2>1, <2>4 DEF TypeOK, CallInv, Current
  <2> QED
    BY <1>6, <2>2, <2>3, <2>4 DEF Invoke, Admitted, GiveUp, LoseLease, Reclaim, callVars
<1>7. ASSUME NEW c \in Caller, (\E n \in Usage : Report(c, n, FALSE)) \/ (\E r \in BOOLEAN : Report(c, size[Current(c)], r))
      PROVE CallInv'
  <2>1. pc[c] = "calling" /\ pc' = [pc EXCEPT ![c] = "recording"] /\ UNCHANGED <<last, tries, issued>>
    BY <1>7 DEF Report, storeVars
  <2> QED
    BY <2>1 DEF TypeOK, CallInv, Current
<1>8. CASE RunOut \/ UNCHANGED vars
  BY <1>8 DEF CallInv, Current, RunOut, vars, callVars, storeVars
<1> QED
  BY <1>1, <1>2, <1>4, <1>5, <1>6, <1>7, <1>8 DEF Next

LEMMA CountStep == TypeOK /\ CallInv /\ CountInv /\ [Next]_vars => CountInv'
<1> SUFFICES ASSUME TypeOK, CallInv, CountInv, [Next]_vars PROVE CountInv'
  OBVIOUS
<1>1. CASE UNCHANGED <<issued, touched>> /\ budget'.calls = budget.calls
  BY <1>1 DEF CountInv
<1>2. ASSUME NEW k \in Id, Reserve(k) PROVE CountInv'
  <2>1. CASE k \notin issued /\ Fits(size[k])
    <3>1. issued' = issued \cup {k} /\ budget'.calls = budget.calls + 1 /\ UNCHANGED touched
      BY <1>2, <2>1 DEF Reserve
    <3>2. IsFiniteSet(issued') /\ Cardinality(issued') = Cardinality(issued) + 1
      BY <2>1, <3>1, FS_AddElement DEF CountInv
    <3>3. budget.calls + 1 <= MaxCalls
      BY <2>1 DEF Fits, TypeOK
    <3> QED
      BY <3>1, <3>2, <3>3 DEF CountInv
  <2>2. CASE ~(k \notin issued /\ Fits(size[k]))
    BY <1>1, <1>2, <2>2 DEF Reserve
  <2> QED
    BY <2>1, <2>2
<1>3. ASSUME NEW k \in Id, Record(k) PROVE CountInv'
  BY <1>1, <1>3 DEF Record, TypeOK
<1>4. ASSUME NEW c \in Caller, Invoke(c) PROVE CountInv'
  BY <1>4 DEF Invoke, Admitted, CallInv, CountInv, storeVars
<1>5. ASSUME \/ \E c \in Caller : \/ \E n \in Size : Begin(c, n)
                                  \/ Retry(c) \/ GiveUp(c) \/ LoseLease(c) \/ Reclaim(c)
                                  \/ \E n \in Usage : Report(c, n, FALSE)
                                  \/ \E r \in BOOLEAN : Report(c, size[Current(c)], r)
             \/ RunOut \/ UNCHANGED vars
      PROVE CountInv'
  <2>1. UNCHANGED <<issued, touched, budget>>
    BY <1>5 DEF Begin, Retry, Ask, GiveUp, LoseLease, Reclaim, Report, RunOut, vars, storeVars
  <2> QED
    BY <1>1, <2>1
<1> QED
  BY <1>2, <1>3, <1>4, <1>5 DEF Next

LEMMA BudgetInvariant == Spec => []BudgetInv
<1>1. Init => BudgetInv
  <2>1. Init => TypeOK /\ CallInv
    BY DEF Init, TypeOK, CallInv
  <2>2. Init => CountInv
    BY FS_EmptySet DEF Init, CountInv
  <2> QED
    BY <2>1, <2>2 DEF BudgetInv
<1>2. BudgetInv /\ [Next]_vars => BudgetInv'
  BY TypeStep, CallStep, CountStep DEF BudgetInv
<1> QED
  BY <1>1, <1>2, PTL DEF Spec

(* Every column of the budget tables and every local of invoke keeps its   *)
(* type.                                                                   *)
THEOREM BudgetTypeCorrect == Spec => []TypeOK
<1>1. BudgetInv => TypeOK
  BY DEF BudgetInv
<1> QED
  BY <1>1, BudgetInvariant, PTL

(* PgModelBudgetStore.reserve: no call reaches the provider without a row, *)
(* and never more calls than the tree's limit, whatever is repeated, lost, *)
(* late or attempted again.                                                *)
THEOREM CallsReserved == Spec => []ProviderCallsReserved
<1>1. BudgetInv => ProviderCallsReserved
  <2> SUFFICES ASSUME BudgetInv PROVE ProviderCallsReserved
    OBVIOUS
  <2>1. Cardinality(touched) <= Cardinality(issued) /\ Cardinality(touched) \in Nat /\ Cardinality(issued) \in Nat
    BY FS_Subset, FS_CardinalityType DEF BudgetInv, CountInv
  <2> QED
    BY <2>1 DEF BudgetInv, CountInv, ProviderCallsReserved
<1> QED
  BY <1>1, BudgetInvariant, PTL
-----------------------------------------------------------------------------
(* Sums *)

(* A nonempty set of naturals has a least element, hence induction over    *)
(* the naturals for a set of them.                                         *)
LEMMA LeastNat ==
  ASSUME NEW T, T \subseteq Nat, T # {}
  PROVE  \E x \in T : \A y \in T : x <= y
<1>1. PICK x \in T : \A y \in T : ~ (<<y, x>> \in OpToRel(<, Nat))
  BY WFMin, NatLessThanWellFounded, Zenon
<1>2. \A y \in T : ~(y < x)
  BY <1>1 DEF OpToRel
<1> QED
  BY <1>2

LEMMA NatSetInduction ==
  ASSUME NEW T, 0 \in T, \A n \in Nat : n \in T => n + 1 \in T
  PROVE  Nat \subseteq T
<1> SUFFICES ASSUME Nat \ T # {} PROVE FALSE
  OBVIOUS
<1>1. PICK x \in Nat \ T : \A y \in Nat \ T : x <= y
  BY LeastNat
<1>2. x # 0
  OBVIOUS
<1>3. x - 1 \in Nat /\ x - 1 \in T
  BY <1>1, <1>2
<1> QED
  BY <1>3

(* The recursion behind MapThenSumSet: g gives every part of T the sum of  *)
(* f over it.                                                              *)
Pick(s) == CHOOSE x \in s : TRUE
Part(f, g, s) == IF s = {} THEN 0 ELSE f[Pick(s)] + g[s \ {Pick(s)}]
Sums(f, T, g) == g = [s \in SUBSET T |-> Part(f, g, s)]

LEMMA Picked ==
  ASSUME NEW s, IsFiniteSet(s), s # {}
  PROVE  /\ Pick(s) \in s /\ IsFiniteSet(s \ {Pick(s)})
         /\ Cardinality(s) \in Nat /\ Cardinality(s \ {Pick(s)}) \in Nat
         /\ Cardinality(s) = Cardinality(s \ {Pick(s)}) + 1
<1>1. Pick(s) \in s
  BY DEF Pick
<1>2. IsFiniteSet(s \ {Pick(s)}) /\ Cardinality(s \ {Pick(s)}) = Cardinality(s) - 1
  BY <1>1, FS_RemoveElement
<1>3. Cardinality(s) \in Nat /\ Cardinality(s \ {Pick(s)}) \in Nat
  BY <1>2, FS_CardinalityType
<1> QED
  BY <1>1, <1>2, <1>3

LEMMA SumExists ==
  ASSUME NEW T, IsFiniteSet(T), NEW D \in {Nat, Int}, NEW f \in [T -> D]
  PROVE  \E g \in [SUBSET T -> D] : Sums(f, T, g)
<1> DEFINE Upto(n, g) == \A s \in SUBSET T : Cardinality(s) <= n => g[s] = Part(f, g, s)
           E == {n \in Nat : \E g \in [SUBSET T -> D] : Upto(n, g)}
<1>9. 0 \in D /\ \A x, y \in D : x + y \in D
  OBVIOUS
<1>0. \A s \in SUBSET T : IsFiniteSet(s) /\ Cardinality(s) \in Nat
  BY FS_Subset, FS_CardinalityType
<1>1. 0 \in E
  <2> DEFINE g == [s \in SUBSET T |-> 0]
  <2>1. ASSUME NEW s \in SUBSET T, Cardinality(s) <= 0 PROVE s = {}
    BY <1>0, <2>1, FS_EmptySet
  <2>2. Upto(0, g)
    BY <2>1 DEF Part
  <2>3. g \in [SUBSET T -> D]
    BY <1>9
  <2> QED
    BY <2>2, <2>3
<1>2. ASSUME NEW n \in Nat, n \in E PROVE n + 1 \in E
  <2>1. PICK g \in [SUBSET T -> D] : Upto(n, g)
    BY <1>2
  <2> DEFINE h == [s \in SUBSET T |-> IF Cardinality(s) <= n THEN g[s] ELSE Part(f, g, s)]
  <2>2. ASSUME NEW s \in SUBSET T PROVE Part(f, g, s) \in D
    <3>1. s # {} => Pick(s) \in T /\ s \ {Pick(s)} \in SUBSET T
      BY DEF Pick
    <3>2. s # {} => f[Pick(s)] \in D /\ g[s \ {Pick(s)}] \in D
      BY <3>1
    <3> QED
      BY <3>2, <1>9 DEF Part
  <2>3. h \in [SUBSET T -> D]
    BY <2>2
  <2>4. ASSUME NEW s \in SUBSET T, Cardinality(s) <= n + 1 PROVE h[s] = Part(f, h, s)
    <3>1. h[s] = Part(f, g, s)
      BY <2>1
    <3>2. CASE s = {}
      BY <3>1, <3>2 DEF Part
    <3>3. CASE s # {}
      <4>1. s \ {Pick(s)} \in SUBSET T /\ Cardinality(s \ {Pick(s)}) <= n
        BY <1>0, <2>4, <3>3, Picked
      <4>2. h[s \ {Pick(s)}] = g[s \ {Pick(s)}]
        BY <4>1
      <4> QED
        BY <3>1, <3>3, <4>2 DEF Part
    <3> QED
      BY <3>2, <3>3
  <2> HIDE DEF h
  <2>5. Upto(n + 1, h)
    BY <2>4
  <2> QED
    BY <2>3, <2>5
<1>3. Cardinality(T) \in E
  <2> HIDE DEF E
  <2>1. Nat \subseteq E
    BY <1>1, <1>2, NatSetInduction
  <2> QED
    BY <1>0, <2>1
<1>4. PICK g \in [SUBSET T -> D] : Upto(Cardinality(T), g)
  BY <1>3
<1>5. ASSUME NEW s \in SUBSET T PROVE g[s] = Part(f, g, s)
  <2>1. Cardinality(s) <= Cardinality(T)
    BY FS_Subset
  <2> QED
    BY <1>4, <2>1
<1> QED
  BY <1>5 DEF Sums

LEMMA SumSame ==
  ASSUME NEW T, IsFiniteSet(T), NEW U, NEW V, T \subseteq U, T \subseteq V, NEW f, NEW e,
         \A x \in T : f[x] = e[x], NEW g, Sums(f, U, g), NEW h, Sums(e, V, h)
  PROVE  g[T] = h[T]
<1> DEFINE E == {n \in Nat : \A s \in SUBSET T : Cardinality(s) = n => g[s] = h[s]}
<1>0. \A s \in SUBSET T : /\ IsFiniteSet(s) /\ Cardinality(s) \in Nat
                          /\ g[s] = Part(f, g, s) /\ h[s] = Part(e, h, s)
  BY FS_Subset, FS_CardinalityType DEF Sums
<1>1. 0 \in E
  <2>1. ASSUME NEW s \in SUBSET T, Cardinality(s) = 0 PROVE g[s] = h[s]
    <3>1. s = {}
      BY <1>0, <2>1, FS_EmptySet
    <3> QED
      BY <1>0, <3>1 DEF Part
  <2> QED
    BY <2>1
<1>2. ASSUME NEW n \in Nat, n \in E PROVE n + 1 \in E
  <2>1. ASSUME NEW s \in SUBSET T, Cardinality(s) = n + 1 PROVE g[s] = h[s]
    <3>1. s # {}
      BY <2>1, FS_EmptySet
    <3>2. Pick(s) \in s /\ s \ {Pick(s)} \in SUBSET T /\ Cardinality(s \ {Pick(s)}) = n
      BY <1>0, <2>1, <3>1, Picked
    <3>3. g[s \ {Pick(s)}] = h[s \ {Pick(s)}] /\ f[Pick(s)] = e[Pick(s)]
      BY <1>2, <3>2
    <3> QED
      BY <1>0, <3>1, <3>3 DEF Part
  <2> QED
    BY <2>1
<1>3. Cardinality(T) \in E
  <2> HIDE DEF E
  <2>1. Nat \subseteq E
    BY <1>1, <1>2, NatSetInduction
  <2> QED
    BY <1>0, <2>1
<1> QED
  BY <1>3

(* Whatever the order in which Pick takes the members, one member more     *)
(* adds its value.                                                         *)
Adds(f, T, g) == \A r \in SUBSET T : \A k \in T \ r : g[r \cup {k}] = g[r] + f[k]

LEMMA SumAdd ==
  ASSUME NEW T, IsFiniteSet(T), NEW f \in [T -> Int], NEW g \in [SUBSET T -> Int], Sums(f, T, g)
  PROVE  Adds(f, T, g)
<1> DEFINE E == {n \in Nat : \A s \in SUBSET T : Cardinality(s) = n => \A x \in T \ s : g[s \cup {x}] = g[s] + f[x]}
<1>0. \A s \in SUBSET T : IsFiniteSet(s) /\ Cardinality(s) \in Nat /\ g[s] = Part(f, g, s)
  BY FS_Subset, FS_CardinalityType DEF Sums
<1>1. ASSUME NEW s \in SUBSET T, NEW x \in T \ s, Pick(s \cup {x}) = x PROVE g[s \cup {x}] = g[s] + f[x]
  <2>1. (s \cup {x}) \ {x} = s /\ s \cup {x} # {} /\ s \cup {x} \in SUBSET T
    OBVIOUS
  <2>2. g[s \cup {x}] = f[x] + g[s]
    BY <1>0, <1>1, <2>1 DEF Part
  <2> QED
    BY <2>2
<1>2. 0 \in E
  <2>1. ASSUME NEW s \in SUBSET T, Cardinality(s) = 0, NEW x \in T \ s PROVE g[s \cup {x}] = g[s] + f[x]
    <3>1. s = {}
      BY <1>0, <2>1, FS_EmptySet
    <3>2. Pick(s \cup {x}) = x
      BY <3>1 DEF Pick
    <3> QED
      BY <1>1, <3>2
  <2> QED
    BY <2>1
<1>3. ASSUME NEW n \in Nat, n \in E PROVE n + 1 \in E
  <2>1. ASSUME NEW s \in SUBSET T, Cardinality(s) = n + 1, NEW x \in T \ s PROVE g[s \cup {x}] = g[s] + f[x]
    <3> DEFINE y == Pick(s \cup {x})
    <3>1. y \in s \cup {x} /\ s \cup {x} \in SUBSET T
      BY DEF Pick
    <3>2. CASE y = x
      BY <1>1, <3>2
    <3>3. CASE y # x
      <4> HIDE DEF y
      <4> DEFINE t == s \ {y}
      <4>1. t \in SUBSET T /\ y \in T \ t /\ x \in T \ t /\ s = t \cup {y} /\ (s \cup {x}) \ {y} = t \cup {x}
        BY <3>1, <3>3
      <4>2. Cardinality(t) = n
        BY <1>0, <2>1, <3>1, <3>3, FS_RemoveElement
      <4>3. g[s \cup {x}] = f[y] + g[t \cup {x}]
        <5>1. g[s \cup {x}] = Part(f, g, s \cup {x})
          BY <1>0, <3>1
        <5> QED
          BY <4>1, <5>1 DEF Part, y
      <4> HIDE DEF t
      <4>4. g[t \cup {x}] = g[t] + f[x] /\ g[t \cup {y}] = g[t] + f[y]
        BY <1>3, <4>1, <4>2
      <4>5. g[t] \in Int /\ f[x] \in Int /\ f[y] \in Int
        BY <4>1
      <4> QED
        BY <4>1, <4>3, <4>4, <4>5
    <3> QED
      BY <3>2, <3>3
  <2> QED
    BY <2>1
<1>4. Nat \subseteq E
  <2> HIDE DEF E
  <2> QED
    BY <1>2, <1>3, NatSetInduction
<1> QED
  BY <1>0, <1>4 DEF Adds

(* The sum over a function with a finite domain.                           *)
Sigma(f) == (CHOOSE g : Sums(f, DOMAIN f, g))[DOMAIN f]

LEMMA SigmaSum ==
  ASSUME NEW T, IsFiniteSet(T), NEW D \in {Nat, Int}, NEW f \in [T -> D]
  PROVE  /\ Sigma(f) \in D
         /\ \E g \in [SUBSET T -> D] : Sums(f, T, g) /\ Sigma(f) = g[T]
<1> DEFINE h == CHOOSE g : Sums(f, T, g)
<1>1. PICK g \in [SUBSET T -> D] : Sums(f, T, g)
  BY SumExists
<1>2. Sums(f, T, h)
  BY <1>1
<1>3. Sigma(f) = h[T]
  BY DEF Sigma
<1> HIDE DEF h
<1>4. h[T] = g[T]
  BY <1>1, <1>2, SumSame
<1> QED
  BY <1>1, <1>3, <1>4

LEMMA SigmaAdd ==
  ASSUME NEW T, IsFiniteSet(T), NEW f \in [T -> Int], NEW U, NEW k \in U, k \notin T,
         T \subseteq U, U \subseteq T \cup {k}, NEW e \in [U -> Int], \A x \in T : e[x] = f[x]
  PROVE  Sigma(e) = Sigma(f) + e[k]
<1>1. PICK g \in [SUBSET T -> Int] : Sums(f, T, g) /\ Sigma(f) = g[T]
  BY SigmaSum
<1>2. IsFiniteSet(U)
  BY FS_AddElement, FS_Subset
<1>3. PICK h \in [SUBSET U -> Int] : Sums(e, U, h) /\ Sigma(e) = h[U]
  BY <1>2, SigmaSum
<1>4. h[T \cup {k}] = h[T] + e[k]
  <2>1. IsFiniteSet(U) /\ e \in [U -> Int] /\ h \in [SUBSET U -> Int] /\ Sums(e, U, h)
    BY <1>2, <1>3
  <2>2. Adds(e, U, h)
    BY <2>1, SumAdd
  <2> QED
    BY <2>2 DEF Adds
<1>5. h[T] = g[T]
  BY <1>1, <1>2, <1>3, SumSame
<1>6. U = T \cup {k}
  OBVIOUS
<1> QED
  BY <1>1, <1>3, <1>4, <1>5, <1>6

LEMMA SigmaChange ==
  ASSUME NEW T, IsFiniteSet(T), NEW f \in [T -> Int], NEW k \in T, NEW e \in [T -> Int],
         \A x \in T \ {k} : e[x] = f[x]
  PROVE  Sigma(e) = Sigma(f) + e[k] - f[k]
<1> DEFINE U == T \ {k}
           r == [x \in U |-> f[x]]
<1>1. IsFiniteSet(U) /\ T = U \cup {k} /\ k \notin U
  BY FS_Subset
<1>2. r \in [U -> Int] /\ \A x \in U : f[x] = r[x] /\ e[x] = r[x]
  OBVIOUS
<1> HIDE DEF U, r
<1>3. Sigma(f) = Sigma(r) + f[k]
  BY <1>1, <1>2, SigmaAdd
<1>4. Sigma(e) = Sigma(r) + e[k]
  BY <1>1, <1>2, SigmaAdd
<1>5. Sigma(r) \in Int /\ f[k] \in Int /\ e[k] \in Int
  BY <1>1, <1>2, SigmaSum
<1> QED
  BY <1>3, <1>4, <1>5

(* What MapThenSumSet computes for the two sums of the model, now and after *)
(* a step.                                                                 *)
LEMMA ChargeSum ==
  \A T : IsFiniteSet(T) /\ (\A k \in T : Charge(k) \in Int) => MapThenSumSet(Charge, T) = Sigma([k \in T |-> Charge(k)])
<1> SUFFICES ASSUME NEW T, IsFiniteSet(T), \A k \in T : Charge(k) \in Int
             PROVE  MapThenSumSet(Charge, T) = Sigma([k \in T |-> Charge(k)])
  OBVIOUS
<1> DEFINE f == [k \in T |-> Charge(k)]
           P(g) == g = [s \in SUBSET T |-> IF s = {} THEN 0
                          ELSE Charge(CHOOSE x \in s : TRUE) + g[s \ {CHOOSE x \in s : TRUE}]]
           it == CHOOSE g : P(g)
<1>1. MapThenSumSet(Charge, T) = it[T]
  BY DEF MapThenSumSet, MapThenFoldSet
<1>2. PICK g \in [SUBSET T -> Int] : Sums(f, T, g) /\ Sigma(f) = g[T]
  BY SigmaSum
<1>3. ASSUME NEW h PROVE P(h) <=> Sums(f, T, h)
  <2>1. ASSUME NEW s \in SUBSET T
        PROVE  Part(f, h, s) = IF s = {} THEN 0
                                ELSE Charge(CHOOSE x \in s : TRUE) + h[s \ {CHOOSE x \in s : TRUE}]
    BY DEF Part, Pick
  <2> QED
    BY <2>1 DEF Sums
<1>4. P(it)
  <2>1. P(g)
    BY <1>2, <1>3
  <2> HIDE DEF P
  <2> QED
    BY <2>1
<1> HIDE DEF it
<1>5. Sums(f, T, it)
  BY <1>3, <1>4
<1>6. it[T] = g[T]
  BY <1>2, <1>5, SumSame
<1> QED
  BY <1>1, <1>2, <1>6

LEMMA ExcessSum ==
  \A T : IsFiniteSet(T) /\ (\A k \in T : Excess(k) \in Nat) => MapThenSumSet(Excess, T) = Sigma([k \in T |-> Excess(k)])
<1> SUFFICES ASSUME NEW T, IsFiniteSet(T), \A k \in T : Excess(k) \in Nat
             PROVE  MapThenSumSet(Excess, T) = Sigma([k \in T |-> Excess(k)])
  OBVIOUS
<1> DEFINE f == [k \in T |-> Excess(k)]
           P(g) == g = [s \in SUBSET T |-> IF s = {} THEN 0
                          ELSE Excess(CHOOSE x \in s : TRUE) + g[s \ {CHOOSE x \in s : TRUE}]]
           it == CHOOSE g : P(g)
<1>1. MapThenSumSet(Excess, T) = it[T]
  BY DEF MapThenSumSet, MapThenFoldSet
<1>2. PICK g \in [SUBSET T -> Nat] : Sums(f, T, g) /\ Sigma(f) = g[T]
  BY SigmaSum
<1>3. ASSUME NEW h PROVE P(h) <=> Sums(f, T, h)
  <2>1. ASSUME NEW s \in SUBSET T
        PROVE  Part(f, h, s) = IF s = {} THEN 0
                                ELSE Excess(CHOOSE x \in s : TRUE) + h[s \ {CHOOSE x \in s : TRUE}]
    BY DEF Part, Pick
  <2> QED
    BY <2>1 DEF Sums
<1>4. P(it)
  <2>1. P(g)
    BY <1>2, <1>3
  <2> HIDE DEF P
  <2> QED
    BY <2>1
<1> HIDE DEF it
<1>5. Sums(f, T, it)
  BY <1>3, <1>4
<1>6. it[T] = g[T]
  BY <1>2, <1>5, SumSame
<1> QED
  BY <1>1, <1>2, <1>6

LEMMA ChargeSumNext == ChargeSum'
  BY ChargeSum, PTL

LEMMA ExcessSumNext == ExcessSum'
  BY ExcessSum, PTL

-----------------------------------------------------------------------------
(* The token counter *)

(* Ids are used once and in order; a row is of a request that was made, a  *)
(* settled one of a call that was reported; a call still going on has not  *)
(* been reported.                                                          *)
LedgerInv ==
  /\ issued \subseteq asked /\ settled \subseteq issued /\ settled \subseteq reported
  /\ \A k \in asked \cup reported : k[2] <= last[k[1]]
  /\ \A c \in Caller : pc[c] \in {"reserving", "admitted", "calling"} => Current(c) \notin reported

LEMMA LedgerAsk ==
  ASSUME TypeOK, LedgerInv, NEW c \in Caller, NEW n \in Nat, Ask(c, n)
  PROVE  /\ LedgerInv' /\ UNCHANGED <<usage, issued, settled, budget>>
         /\ \A k \in asked : size'[k] = size[k]
<1> DEFINE k == <<c, last[c] + 1>>
<1>1. /\ last' = [last EXCEPT ![c] = @ + 1] /\ size' = [size EXCEPT ![k] = n] /\ asked' = asked \cup {k}
      /\ pc' = [pc EXCEPT ![c] = "reserving"] /\ UNCHANGED <<usage, reported, issued, settled, budget>>
  BY DEF Ask, storeVars
<1>2. k \notin asked /\ k \notin reported
  <2>1. last[c] \in Int /\ ~(k[2] <= last[k[1]])
    BY DEF TypeOK
  <2> HIDE DEF k
  <2> QED
    BY <2>1 DEF LedgerInv
<1>3. \A d \in Caller : last'[d] >= last[d] /\ (d # c => last'[d] = last[d] /\ pc'[d] = pc[d])
  BY <1>1 DEF TypeOK
<1>4. ASSUME NEW j \in asked' \cup reported' PROVE j[2] <= last'[j[1]]
  <2>1. CASE j = k
    BY <1>1, <2>1 DEF TypeOK
  <2>2. CASE j # k
    <3>1. j[2] <= last[j[1]] /\ j \in Id
      BY <1>1, <1>4, <2>2 DEF LedgerInv, TypeOK
    <3>2. j[1] \in Caller /\ j[2] \in Int
      BY <3>1 DEF Id
    <3>3. last[j[1]] \in Int /\ last'[j[1]] \in Int /\ last[j[1]] <= last'[j[1]]
      BY <1>1, <1>3, <3>2 DEF TypeOK
    <3> QED
      BY <3>1, <3>2, <3>3
  <2> QED
    BY <2>1, <2>2
<1>5. ASSUME NEW d \in Caller, pc'[d] \in {"reserving", "admitted", "calling"} PROVE Current(d)' \notin reported'
  <2>1. CASE d = c
    <3>1. Current(d)' = k
      BY <1>1, <2>1 DEF Current, TypeOK
    <3> QED
      BY <1>1, <1>2, <3>1
  <2>2. CASE d # c
    BY <1>1, <1>3, <1>5, <2>2 DEF Current, LedgerInv
  <2> QED
    BY <2>1, <2>2
<1>6. LedgerInv'
  BY <1>1, <1>4, <1>5 DEF LedgerInv
<1>7. \A j \in asked : size'[j] = size[j]
  <2> HIDE DEF k
  <2> QED
    BY <1>1, <1>2 DEF TypeOK
<1> QED
  BY <1>1, <1>6, <1>7

(* Asking changes the size of no row, reporting the usage of no settled    *)
(* one.                                                                    *)
LEMMA LedgerReport ==
  ASSUME TypeOK, CallInv, LedgerInv, NEW c \in Caller, NEW n \in Nat, NEW r \in BOOLEAN, Report(c, n, r)
  PROVE  /\ LedgerInv' /\ UNCHANGED <<size, issued, settled, budget>>
         /\ \A k \in settled : usage'[k] = usage[k]
<1>1. /\ pc[c] = "calling" /\ usage' = [usage EXCEPT ![Current(c)] = n] /\ reported' = reported \cup {Current(c)}
      /\ pc' = [pc EXCEPT ![c] = "recording"] /\ UNCHANGED <<last, asked, size, issued, settled, budget>>
  BY DEF Report, storeVars
<1>2. Current(c) \in Id /\ Current(c) \notin settled
  BY <1>1, CurrentInId DEF LedgerInv
<1>3. Current(c)[2] <= last[Current(c)[1]]
  BY <1>1 DEF Current, TypeOK
<1>4. \A d \in Caller : d # c => pc'[d] = pc[d] /\ Current(d) # Current(c)
  BY <1>1 DEF TypeOK, Current
<1>5. pc'[c] = "recording"
  BY <1>1 DEF TypeOK
<1>6. LedgerInv'
  <2>1. \A j \in asked' \cup reported' : j[2] <= last'[j[1]]
    BY <1>1, <1>3 DEF LedgerInv
  <2>2. ASSUME NEW d \in Caller, pc'[d] \in {"reserving", "admitted", "calling"} PROVE Current(d)' \notin reported'
    <3>1. d # c /\ Current(d)' = Current(d)
      BY <1>1, <1>5, <2>2 DEF Current
    <3> QED
      BY <1>1, <1>4, <2>2, <3>1 DEF LedgerInv
  <2> QED
    BY <1>1, <2>1, <2>2 DEF LedgerInv
<1>7. \A k \in settled : usage'[k] = usage[k]
  BY <1>1, <1>2 DEF TypeOK
<1> QED
  BY <1>1, <1>6, <1>7

LEMMA LedgerQuiet ==
  ASSUME TypeOK, CallInv, LedgerInv,
         \/ RunOut \/ UNCHANGED vars
         \/ \E c \in Caller : Invoke(c) \/ GiveUp(c) \/ LoseLease(c) \/ Reclaim(c)
  PROVE  LedgerInv' /\ UNCHANGED <<size, usage, issued, settled, budget>>
<1>1. UNCHANGED <<last, asked, reported, size, usage, issued, settled, budget>>
  BY DEF RunOut, vars, Invoke, GiveUp, LoseLease, Reclaim, callVars, storeVars
<1>2. ASSUME NEW d \in Caller, pc'[d] \in {"reserving", "admitted", "calling"}
      PROVE  pc[d] \in {"reserving", "admitted", "calling"}
  <2>1. CASE UNCHANGED pc
    BY <1>2, <2>1
  <2>2. ASSUME NEW c \in Caller, pc' = [pc EXCEPT ![c] = "idle"]
        PROVE  pc[d] \in {"reserving", "admitted", "calling"}
    BY <1>2, <2>2 DEF TypeOK
  <2>3. ASSUME NEW c \in Caller, pc[c] = "admitted", pc' = [pc EXCEPT ![c] = "calling"]
        PROVE  pc[d] \in {"reserving", "admitted", "calling"}
    BY <1>2, <2>3 DEF TypeOK
  <2> QED
    BY <2>1, <2>2, <2>3 DEF RunOut, vars, Invoke, Admitted, GiveUp, LoseLease, Reclaim, callVars
<1> QED
  BY <1>1, <1>2 DEF LedgerInv, Current

LEMMA LedgerStore ==
  ASSUME TypeOK, CallInv, LedgerInv, NEW k \in Id, Reserve(k) \/ Record(k)
  PROVE  LedgerInv' /\ UNCHANGED <<size, usage>>
<1>1. UNCHANGED <<last, asked, reported, size, usage>> /\ k[1] \in Caller
  BY DEF Reserve, Record, Id
<1>2. issued' \subseteq asked' /\ settled' \subseteq issued' /\ settled' \subseteq reported'
  BY <1>1 DEF Reserve, Record, LedgerInv
<1>3. ASSUME NEW d \in Caller, pc'[d] \in {"reserving", "admitted", "calling"}
      PROVE  pc[d] \in {"reserving", "admitted", "calling"}
  BY <1>1, <1>3 DEF Reserve, Record, TypeOK
<1> QED
  BY <1>1, <1>2, <1>3 DEF LedgerInv, Current

(* The counter is what the rows add up to, and above the limit only by     *)
(* what settled calls used beyond their estimates.                         *)
SumInv == budget.tokens = MapThenSumSet(Charge, issued) /\ OverrunOnlyByEstimates

Charges == [k \in issued |-> Charge(k)]
Excesses == [k \in settled |-> Excess(k)]

LEMMA SumsAre ==
  TypeOK /\ LedgerInv /\ IsFiniteSet(issued) =>
    /\ Charges \in [issued -> Int] /\ MapThenSumSet(Charge, issued) = Sigma(Charges)
    /\ IsFiniteSet(settled) /\ Excesses \in [settled -> Nat] /\ MapThenSumSet(Excess, settled) = Sigma(Excesses)
    /\ Sigma(Charges) \in Int /\ Sigma(Excesses) \in Nat
<1> SUFFICES ASSUME TypeOK, LedgerInv, IsFiniteSet(issued)
             PROVE  /\ Charges \in [issued -> Int] /\ MapThenSumSet(Charge, issued) = Sigma(Charges)
                    /\ IsFiniteSet(settled) /\ Excesses \in [settled -> Nat]
                    /\ MapThenSumSet(Excess, settled) = Sigma(Excesses)
                    /\ Sigma(Charges) \in Int /\ Sigma(Excesses) \in Nat
  OBVIOUS
<1>1. \A k \in issued : Charge(k) \in Int
  BY DEF TypeOK, Charge
<1>2. \A k \in settled : Excess(k) \in Nat
  BY DEF TypeOK, Excess
<1>3. IsFiniteSet(settled)
  BY FS_Subset DEF LedgerInv
<1>4. MapThenSumSet(Charge, issued) = Sigma(Charges)
  BY <1>1, ChargeSum DEF Charges
<1>5. MapThenSumSet(Excess, settled) = Sigma(Excesses)
  BY <1>2, <1>3, ExcessSum DEF Excesses
<1>6. Charges \in [issued -> Int] /\ Excesses \in [settled -> Nat]
  BY <1>1, <1>2 DEF Charges, Excesses
<1>7. Sigma(Charges) \in Int /\ Sigma(Excesses) \in Nat
  BY <1>3, <1>6, SigmaSum
<1> QED
  BY <1>3, <1>4, <1>5, <1>6, <1>7

LEMMA SumsAreNext == SumsAre'
  BY SumsAre, PTL

LEMMA SumsSame ==
  ASSUME TypeOK, LedgerInv, CountInv, SumInv, UNCHANGED <<issued, settled, budget>>,
         \A k \in issued : size'[k] = size[k], \A k \in settled : usage'[k] = usage[k],
         TypeOK', LedgerInv', CountInv'
  PROVE  SumInv'
<1>1. \A k \in issued : Charge(k)' = Charge(k)
  BY DEF Charge
<1>2. \A k \in settled : Excess(k)' = Excess(k)
  BY DEF Excess, LedgerInv
<1>3. Charges' = Charges /\ Excesses' = Excesses
  BY <1>1, <1>2 DEF Charges, Excesses
<1>4. MapThenSumSet(Charge, issued) = Sigma(Charges) /\ MapThenSumSet(Excess, settled) = Sigma(Excesses)
  BY SumsAre DEF CountInv
<1>5. MapThenSumSet(Charge, issued)' = Sigma(Charges') /\ MapThenSumSet(Excess, settled)' = Sigma(Excesses')
  BY SumsAreNext DEF CountInv
<1> QED
  BY <1>3, <1>4, <1>5 DEF SumInv, OverrunOnlyByEstimates

LEMMA SumReserve ==
  ASSUME TypeOK, LedgerInv, CountInv, SumInv, TypeOK', LedgerInv', CountInv', NEW k \in Id, Reserve(k)
  PROVE  SumInv'
<1>1. UNCHANGED <<size, usage, settled>>
  BY DEF Reserve
<1>2. CASE k \notin issued /\ Fits(size[k])
  <2>1. issued' = issued \cup {k} /\ budget'.tokens = budget.tokens + size[k]
    BY <1>2 DEF Reserve
  <2>2. \A j \in issued : Charge(j)' = Charge(j)
    BY <1>1 DEF Charge
  <2>3. Charge(k)' = size[k]
    BY <1>1, <1>2 DEF Charge, LedgerInv
  <2>4. /\ Charges \in [issued -> Int] /\ MapThenSumSet(Charge, issued) = Sigma(Charges)
    BY SumsAre DEF CountInv
  <2>5. /\ Charges' \in [issued' -> Int] /\ MapThenSumSet(Charge, issued)' = Sigma(Charges')
        /\ MapThenSumSet(Excess, settled)' \in Nat
    BY SumsAreNext DEF CountInv
  <2>6. (\A j \in issued : Charges'[j] = Charges[j]) /\ Charges'[k] = size[k]
    BY <2>1, <2>2, <2>3 DEF Charges
  <2>7. Sigma(Charges') = Sigma(Charges) + size[k]
    BY <1>2, <2>1, <2>4, <2>5, <2>6, SigmaAdd DEF CountInv
  <2>8. budget'.tokens = MapThenSumSet(Charge, issued)'
    BY <2>1, <2>4, <2>5, <2>7 DEF SumInv
  <2>9. budget'.tokens <= MaxTokens /\ budget'.tokens \in Int
    BY <1>2, <2>1 DEF Fits, TypeOK
  <2>10. OverrunOnlyByEstimates'
    BY <2>5, <2>9 DEF OverrunOnlyByEstimates
  <2> QED
    BY <2>8, <2>10 DEF SumInv
<1>3. CASE ~(k \notin issued /\ Fits(size[k]))
  <2>1. UNCHANGED <<issued, budget>>
    BY <1>3 DEF Reserve
  <2> QED
    BY <1>1, <2>1, SumsSame
<1> QED
  BY <1>2, <1>3

LEMMA SumRecord ==
  ASSUME TypeOK, LedgerInv, CountInv, SumInv, TypeOK', LedgerInv', CountInv', NEW k \in Id, Record(k)
  PROVE  SumInv'
<1>1. UNCHANGED <<size, usage, issued>> /\ k \in issued
  BY DEF Record
<1>2. CASE Unsettled(k)
  <2>1. k \notin settled /\ settled' = settled \cup {k} /\ budget'.tokens = budget.tokens + usage[k] - size[k]
    BY <1>2 DEF Record, Unsettled, TypeOK
  <2>2. usage[k] \in Nat /\ size[k] \in Nat /\ budget.tokens \in Int /\ MaxTokens \in Nat
    BY DEF TypeOK
  <2>3. (\A j \in issued \ {k} : Charge(j)' = Charge(j)) /\ Charge(k)' = usage[k] /\ Charge(k) = size[k]
    BY <1>1, <2>1 DEF Charge
  <2>4. (\A j \in settled : Excess(j)' = Excess(j)) /\ Excess(k)' = Excess(k)
    BY <1>1 DEF Excess
  <2>5. /\ Charges \in [issued -> Int] /\ MapThenSumSet(Charge, issued) = Sigma(Charges) /\ Sigma(Charges) \in Int
        /\ IsFiniteSet(settled) /\ Excesses \in [settled -> Nat]
        /\ MapThenSumSet(Excess, settled) = Sigma(Excesses) /\ Sigma(Excesses) \in Nat
    BY SumsAre DEF CountInv
  <2>6. /\ Charges' \in [issued' -> Int] /\ MapThenSumSet(Charge, issued)' = Sigma(Charges')
        /\ Excesses' \in [settled' -> Nat] /\ MapThenSumSet(Excess, settled)' = Sigma(Excesses')
    BY SumsAreNext DEF CountInv
  <2>7. (\A j \in issued \ {k} : Charges'[j] = Charges[j]) /\ Charges'[k] = usage[k] /\ Charges[k] = size[k]
    BY <1>1, <2>3 DEF Charges
  <2>8. Sigma(Charges') = Sigma(Charges) + usage[k] - size[k]
    BY <1>1, <2>5, <2>6, <2>7, SigmaChange DEF CountInv
  <2>9. budget'.tokens = MapThenSumSet(Charge, issued)'
    BY <2>1, <2>2, <2>5, <2>6, <2>8 DEF SumInv
  <2>10. (\A j \in settled : Excesses'[j] = Excesses[j]) /\ Excesses'[k] = Excess(k)
    BY <2>1, <2>4 DEF Excesses
  <2>11. Excesses \in [settled -> Int] /\ Excesses' \in [settled' -> Int]
    BY <2>1, <2>5, <2>6
  <2>12. Sigma(Excesses') = Sigma(Excesses) + Excess(k)
    BY <2>1, <2>5, <2>10, <2>11, SigmaAdd
  <2>13. Excess(k) \in Nat /\ usage[k] - size[k] <= Excess(k)
    BY <2>2 DEF Excess
  <2>14. budget.tokens <= MaxTokens + Sigma(Excesses)
    BY <2>5 DEF SumInv, OverrunOnlyByEstimates
  <2>15. budget'.tokens <= MaxTokens + Sigma(Excesses')
    BY <2>1, <2>2, <2>5, <2>12, <2>13, <2>14
  <2> QED
    BY <2>6, <2>9, <2>15 DEF SumInv, OverrunOnlyByEstimates
<1>3. CASE ~Unsettled(k)
  <2>1. UNCHANGED <<settled, budget>>
    BY <1>3 DEF Record
  <2> QED
    BY <1>1, <2>1, SumsSame
<1> QED
  BY <1>2, <1>3

TokenInv == BudgetInv /\ LedgerInv /\ SumInv

LEMMA TokenInit == Init => TokenInv
<1> SUFFICES ASSUME Init PROVE TokenInv
  OBVIOUS
<1>1. BudgetInv
  <2>1. TypeOK /\ CallInv
    BY DEF Init, TypeOK, CallInv
  <2>2. CountInv
    BY FS_EmptySet DEF Init, CountInv
  <2> QED
    BY <2>1, <2>2 DEF BudgetInv
<1>2. LedgerInv
  BY DEF Init, LedgerInv
<1>3. /\ Charges \in [issued -> Int] /\ MapThenSumSet(Charge, issued) = Sigma(Charges)
      /\ MapThenSumSet(Excess, settled) = Sigma(Excesses) /\ Sigma(Excesses) \in Nat
  BY <1>1, <1>2, SumsAre DEF BudgetInv, CountInv
<1>4. PICK g \in [SUBSET {} -> Int] : Sums(Charges, {}, g) /\ Sigma(Charges) = g[{}]
  BY <1>3, SigmaSum, FS_EmptySet DEF Init
<1>5. Sigma(Charges) = 0
  BY <1>4 DEF Sums, Part
<1>6. budget.tokens = 0
  BY DEF Init
<1>7. SumInv
  BY <1>3, <1>5, <1>6 DEF SumInv, OverrunOnlyByEstimates
<1> QED
  BY <1>1, <1>2, <1>7 DEF TokenInv

LEMMA TokenStep == TokenInv /\ [Next]_vars => TokenInv'
<1> SUFFICES ASSUME TokenInv, [Next]_vars PROVE TokenInv'
  OBVIOUS
<1>1. BudgetInv /\ TypeOK /\ CallInv /\ CountInv /\ LedgerInv /\ SumInv
  BY DEF TokenInv, BudgetInv
<1>2. TypeOK' /\ CallInv' /\ CountInv' /\ BudgetInv'
  BY <1>1, TypeStep, CallStep, CountStep DEF BudgetInv
<1>3. ASSUME NEW k \in Id, Reserve(k) \/ Record(k) PROVE LedgerInv' /\ SumInv'
  <2>1. LedgerInv'
    BY <1>1, <1>3, LedgerStore
  <2> QED
    BY <1>1, <1>2, <1>3, <2>1, SumReserve, SumRecord
<1>4. ASSUME NEW c \in Caller, NEW n \in Nat, Ask(c, n) PROVE LedgerInv' /\ SumInv'
  <2>1. /\ LedgerInv' /\ UNCHANGED <<usage, issued, settled, budget>>
        /\ \A k \in asked : size'[k] = size[k]
    BY <1>1, <1>4, LedgerAsk
  <2>2. \A k \in issued : size'[k] = size[k]
    BY <1>1, <2>1 DEF LedgerInv
  <2> QED
    BY <1>1, <1>2, <2>1, <2>2, SumsSame
<1>5. ASSUME NEW c \in Caller, NEW n \in Nat, NEW r \in BOOLEAN, Report(c, n, r) PROVE LedgerInv' /\ SumInv'
  BY <1>1, <1>2, <1>5, LedgerReport, SumsSame
<1>6. ASSUME \/ RunOut \/ UNCHANGED vars
             \/ \E c \in Caller : Invoke(c) \/ GiveUp(c) \/ LoseLease(c) \/ Reclaim(c)
      PROVE  LedgerInv' /\ SumInv'
  BY <1>1, <1>2, <1>6, LedgerQuiet, SumsSame
<1>7. ASSUME NEW c \in Caller, (\E n \in Size : Begin(c, n)) \/ Retry(c) PROVE LedgerInv' /\ SumInv'
  <2>1. CASE Retry(c)
    <3>1. size[Current(c)] \in Nat
      BY <1>1, <2>1, CurrentInId DEF Retry
    <3> QED
      BY <1>4, <2>1, <3>1 DEF Retry
  <2>2. CASE \E n \in Size : Begin(c, n)
    BY <1>4, <2>2 DEF Begin
  <2> QED
    BY <1>7, <2>1, <2>2
<1>8. ASSUME NEW c \in Caller, (\E n \in Usage : Report(c, n, FALSE)) \/ (\E r \in BOOLEAN : Report(c, size[Current(c)], r))
      PROVE  LedgerInv' /\ SumInv'
  <2>1. size[Current(c)] \in Nat
    BY <1>1, <1>8, CurrentInId DEF Report
  <2> QED
    BY <1>5, <1>8, <2>1
<1>9. LedgerInv' /\ SumInv'
  BY <1>3, <1>6, <1>7, <1>8 DEF Next
<1> QED
  BY <1>2, <1>9 DEF TokenInv

LEMMA TokenInvHolds == Spec => []TokenInv
  BY TokenInit, TokenStep, PTL DEF Spec

(* The counters of agent_model_budgets are what the rows of its calls add  *)
(* up to: a row is charged once, its estimate is replaced by its usage     *)
(* once, and no later request or report changes either.                    *)
THEOREM BudgetIsExact == Spec => []BudgetExact
<1>1. TokenInv => BudgetExact
  BY DEF TokenInv, BudgetInv, CountInv, SumInv, BudgetExact
<1> QED
  BY <1>1, TokenInvHolds, PTL

(* The tree's tokens exceed its limit by no more than what its providers   *)
(* used beyond the estimates: reserve compares against the limit with the  *)
(* estimate, record adds what it was short.                                *)
THEOREM OverrunBounded == Spec => []OverrunOnlyByEstimates
<1>1. TokenInv => OverrunOnlyByEstimates
  BY DEF TokenInv, SumInv
<1> QED
  BY <1>1, TokenInvHolds, PTL
=============================================================================
