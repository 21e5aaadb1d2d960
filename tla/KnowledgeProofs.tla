--------------------------- MODULE KnowledgeProofs ---------------------------
(***************************************************************************)
(* Theorems about components that keep what the system knows: evolved      *)
(* strategies (Evolution), the in-memory work store (MemoryStore), memory  *)
(* documents and reviews (Documents), learning and forgetting (Learning),  *)
(* the files of sessions (Workspace) and shared states (SharedState).      *)
(***************************************************************************)
EXTENDS Evolution, MemoryStore, Documents, Learning, Workspace, SharedState,
        FiniteSetTheorems, SequenceTheorems, TLAPS

-----------------------------------------------------------------------------
(* Evolution *)

OneActive ==
  \A c, d \in Candidates : mem[c].st = "active" /\ mem[d].st = "active" => c = d

(* A candidate under evaluation was compared with what was active, and     *)
(* after any change of the active strategy that version is gone for good.  *)
ComparedWith(c) ==
  /\ asOf[c] <= switches
  /\ plan[c].base # Nothing =>
       /\ plan[c].base.id \in Candidates /\ plan[c].base.ver <= mem[plan[c].base.id].ver
       /\ asOf[c] = switches => mem[plan[c].base.id].st = "active"
       /\ asOf[c] # switches => plan[c].base.ver < mem[plan[c].base.id].ver

BaseInv == \A c \in Candidates : plan[c].verdict = "pending" => ComparedWith(c)

(* A run was shown what it pinned, and it pinned at most one reference.    *)
PinInv ==
  \A u \in PinRuns :
    /\ \A q, r \in pin[u] : q = r
    /\ pin[u] = NoPin => shown[u] = {}
    /\ pin[u] # NoPin => \A r \in pin[u] : r.id \in Candidates
    /\ shown[u] \subseteq {r.id : r \in pin[u]}

(* A memory that was not proposed has no version.                          *)
FreshInv == \A c \in Candidates : mem[c].st = "none" => mem[c].ver = 0

EvolutionInv == EvolutionTypeOK /\ OneActive /\ FreshInv /\ clean /\ BaseInv /\ PinInv

MemoryRec == [st : {"none", "candidate", "active", "retired", "expired"}, ver : Nat]

LEMMA ActiveIs ==
  ASSUME EvolutionTypeOK, OneActive
  PROVE  /\ ActiveRef \in Refs
         /\ \A r \in ActiveRefs : r.id \in Candidates /\ mem[r.id].st = "active" /\ r = ActiveRef /\ r = Ref(r.id)
         /\ \A c \in Candidates : mem[c].st = "active" => ActiveRef = Ref(c)
         /\ ActiveRef # Nothing => ActiveRef \in ActiveRefs
         /\ ActiveRef.id # 0 => ActiveRef.id \in Candidates
<1>1. \A c \in Candidates : Ref(c) \in Refs /\ Ref(c).id = c /\ Ref(c).ver = mem[c].ver
  BY DEF EvolutionTypeOK, Ref, Refs
<1>2. \A r \in ActiveRefs : r \in Refs /\ r.id \in Candidates /\ mem[r.id].st = "active" /\ r = Ref(r.id)
  BY <1>1 DEF ActiveRefs
<1>3. \A q, r \in ActiveRefs : q = r
  BY <1>2 DEF OneActive
<1>4. ActiveRefs # {} => ActiveRef \in ActiveRefs
  <2>1. ASSUME NEW x \in ActiveRefs PROVE (CHOOSE r \in ActiveRefs : TRUE) \in ActiveRefs
    BY <2>1
  <2> QED
    BY <2>1 DEF ActiveRef
<1>5. ActiveRefs = {} => ActiveRef = Nothing /\ Nothing \in Refs /\ Nothing.id = 0
  BY DEF ActiveRef, Nothing, Refs
<1>6. \A c \in Candidates : mem[c].st = "active" => Ref(c) \in ActiveRefs
  BY DEF ActiveRefs
<1>7. CASE ActiveRefs = {}
  BY <1>5, <1>6, <1>7
<1>8. CASE ActiveRefs # {}
  BY <1>2, <1>3, <1>4, <1>6, <1>8
<1> QED
  BY <1>7, <1>8

LEMMA AtMostOneMember ==
  ASSUME NEW S, \A q, r \in S : q = r
  PROVE  Cardinality(S) <= 1
<1>1. CASE S = {}
  BY <1>1, FS_EmptySet
<1>2. ASSUME NEW x \in S PROVE Cardinality(S) <= 1
  <2>1. S = {x}
    BY <1>2
  <2> QED
    BY <2>1, FS_Singleton
<1> QED
  BY <1>1, <1>2

(* What a step does to the memories: versions grow, and either the active  *)
(* strategy is left alone or it is replaced by a later version.            *)
Evolves ==
  /\ mem' \in [Candidates -> MemoryRec] /\ OneActive'
  /\ \A c \in Candidates : mem'[c].ver >= mem[c].ver
  /\ \/ switches' = switches /\ \A c \in Candidates : mem[c].st = "active" => mem'[c] = mem[c]
     \/ switches' = switches + 1 /\ \A c \in Candidates : mem[c].st = "active" => mem'[c].ver > mem[c].ver

LEMMA SwitchedTo ==
  ASSUME EvolutionTypeOK, OneActive, NEW out, NEW in \in Candidates \cup {0},
         in # out, \A c \in Candidates : mem[c].st = "active" => c = out,
         mem' = Switched(out, in), switches' = switches + 1
  PROVE  Evolves
<1>1. /\ mem \in [Candidates -> MemoryRec] /\ 0 \notin Candidates
      /\ \A c \in Candidates : mem[c] \in MemoryRec /\ mem[c].ver \in Nat /\ mem[c].ver + 1 \in Nat
  BY EvolutionAssumption DEF EvolutionTypeOK, MemoryRec
<1>2. \A c \in Candidates : mem'[c] = IF c = out THEN [st |-> "retired", ver |-> mem[c].ver + 1]
                                      ELSE IF c = in THEN [st |-> "active", ver |-> mem[c].ver + 1] ELSE mem[c]
  BY DEF Switched, Bump
<1>3. ASSUME NEW c \in Candidates
      PROVE  /\ mem'[c] \in MemoryRec
             /\ mem'[c].ver = IF c = out \/ c = in THEN mem[c].ver + 1 ELSE mem[c].ver
             /\ mem'[c].st = IF c = out THEN "retired" ELSE IF c = in THEN "active" ELSE mem[c].st
  <2>1. CASE c = out
    <3>1. mem'[c] = [st |-> "retired", ver |-> mem[c].ver + 1]
      BY <1>2, <2>1
    <3> QED
      BY <1>1, <2>1, <3>1 DEF MemoryRec
  <2>2. CASE c # out /\ c = in
    <3>1. mem'[c] = [st |-> "active", ver |-> mem[c].ver + 1]
      BY <1>2, <2>2
    <3> QED
      BY <1>1, <2>2, <3>1 DEF MemoryRec
  <2>3. CASE c # out /\ c # in
    BY <1>1, <1>2, <2>3
  <2> QED
    BY <2>1, <2>2, <2>3
<1>4. mem' \in [Candidates -> MemoryRec]
  BY <1>3 DEF Switched
<1>5. OneActive'
  <2>1. ASSUME NEW c \in Candidates, mem'[c].st = "active" PROVE c = in
    BY <1>3, <2>1
  <2> QED
    BY <2>1 DEF OneActive
<1>6. \A c \in Candidates : mem'[c].ver >= mem[c].ver /\ (mem[c].st = "active" => mem'[c].ver > mem[c].ver)
  BY <1>1, <1>3
<1> QED
  BY <1>4, <1>5, <1>6 DEF Evolves

LEMMA OneMemory ==
  ASSUME EvolutionTypeOK, OneActive, NEW c \in Candidates, NEW m \in MemoryRec, mem' = [mem EXCEPT ![c] = m],
         m.st # "active", m.ver >= mem[c].ver,
         IF mem[c].st = "active" THEN m.ver > mem[c].ver /\ switches' = switches + 1 ELSE switches' = switches
  PROVE  Evolves
<1>1. mem \in [Candidates -> MemoryRec] /\ \A d \in Candidates : mem[d].ver \in Nat
  BY DEF EvolutionTypeOK, MemoryRec
<1>2. \A d \in Candidates : mem'[d] = IF d = c THEN m ELSE mem[d]
  BY <1>1
<1>3. OneActive'
  BY <1>2 DEF OneActive
<1>4. \A d \in Candidates : mem'[d].ver >= mem[d].ver
  BY <1>1, <1>2
<1>5. CASE mem[c].st = "active"
  <2>1. \A d \in Candidates : mem[d].st = "active" => d = c
    BY <1>5 DEF OneActive
  <2> QED
    BY <1>1, <1>2, <1>3, <1>4, <1>5, <2>1 DEF Evolves
<1>6. CASE mem[c].st # "active"
  BY <1>1, <1>2, <1>3, <1>4, <1>6 DEF Evolves
<1> QED
  BY <1>5, <1>6

LEMMA EvolutionStep ==
  ASSUME EvolutionInv, [EvolutionNext]_evars
  PROVE  Evolves
<1>1. /\ EvolutionTypeOK /\ OneActive /\ FreshInv /\ mem \in [Candidates -> MemoryRec] /\ switches \in Nat
      /\ \A c \in Candidates : mem[c] \in MemoryRec /\ mem[c].ver \in Nat /\ mem[c].ver + 1 \in Nat
  BY DEF EvolutionInv, EvolutionTypeOK, MemoryRec
<1>2. CASE UNCHANGED <<mem, switches>>
  BY <1>1, <1>2 DEF Evolves, OneActive
<1>3. ASSUME NEW c \in Candidates, Propose(c) PROVE Evolves
  <2>1. mem' = [mem EXCEPT ![c] = [st |-> "candidate", ver |-> 1]] /\ switches' = switches /\ mem[c].st = "none"
    BY <1>3 DEF Propose
  <2> DEFINE m == [st |-> "candidate", ver |-> 1]
  <2>2. m \in MemoryRec /\ m.st = "candidate" /\ m.ver = 1 /\ mem[c].ver = 0
    BY <1>1, <2>1 DEF MemoryRec, FreshInv
  <2>3. mem' = [mem EXCEPT ![c] = m]
    BY <2>1
  <2> HIDE DEF m
  <2>4. m.st # "active" /\ m.ver >= mem[c].ver
    BY <2>2
  <2>5. mem[c].st # "active"
    BY <2>1
  <2> QED
    BY <1>1, <2>1, <2>2, <2>3, <2>4, <2>5, OneMemory
<1>4. ASSUME NEW c \in Candidates, Finish(c) PROVE Evolves
  <2>1. CASE Verdict(c) = "passed"
    <3>1. mem' = Switched(ActiveRef.id, c) /\ switches' = switches + 1 /\ mem[c] = [st |-> "candidate", ver |-> 1]
      BY <1>4, <2>1 DEF Finish, Evaluating
    <3>2. \A d \in Candidates : mem[d].st = "active" => d = ActiveRef.id
      BY <1>1, ActiveIs DEF Ref
    <3>3. c # ActiveRef.id
      <4>1. ActiveRef.id \in Candidates => mem[ActiveRef.id].st = "active"
        BY <1>1, ActiveIs, EvolutionAssumption DEF Nothing
      <4> QED
        BY <3>1, <4>1
    <3> QED
      BY <1>1, <3>1, <3>2, <3>3, SwitchedTo
  <2> QED
    BY <1>2, <1>4, <2>1 DEF Finish
<1>5. ASSUME NEW a \in Candidates, NEW t \in Candidates \cup {0}, Rollback(a, t) PROVE Evolves
  <2>1. mem[a].st = "active" /\ mem' = Switched(a, t) /\ switches' = switches + 1 /\ (t # 0 => mem[t].st = "retired")
    BY <1>5 DEF Rollback
  <2>2. t # a /\ \A c \in Candidates : mem[c].st = "active" => c = a
    BY <1>1, <2>1, EvolutionAssumption DEF OneActive
  <2> QED
    BY <1>1, <2>1, <2>2, SwitchedTo
<1>6. ASSUME NEW c \in Candidates, Invalidate(c) PROVE Evolves
  <2> DEFINE m == Bump(mem[c], "expired")
  <2>1. mem' = [mem EXCEPT ![c] = m]
    BY <1>1, <1>6 DEF Invalidate
  <2>2. m \in MemoryRec /\ m.st # "active" /\ m.ver = mem[c].ver + 1
    BY <1>1 DEF Bump, MemoryRec
  <2> HIDE DEF m
  <2>3. m.ver >= mem[c].ver /\ m.ver > mem[c].ver
    BY <1>1, <2>2
  <2>4. IF mem[c].st = "active" THEN switches' = switches + 1 ELSE switches' = switches
    BY <1>6 DEF Invalidate
  <2> QED
    BY <1>1, <2>1, <2>2, <2>3, <2>4, OneMemory
<1>7. ASSUME NEW c \in Candidates, NEW v \in Variants, NEW r \in {"ok", "bad"}, Record(c, v, r) PROVE Evolves
  BY <1>2, <1>7 DEF Record
<1>8. ASSUME NEW u \in PinRuns, Hop(u) PROVE Evolves
  BY <1>2, <1>8 DEF Hop
<1>9. CASE UNCHANGED evars
  BY <1>2, <1>9 DEF evars
<1> QED
  BY <1>3, <1>4, <1>5, <1>6, <1>7, <1>8, <1>9 DEF EvolutionNext

(* What was compared before stays so: no change brings an old version back. *)
LEMMA ComparisonStays ==
  ASSUME EvolutionTypeOK, Evolves, NEW c \in Candidates, ComparedWith(c), plan'[c].base = plan[c].base,
         asOf'[c] = asOf[c]
  PROVE  ComparedWith(c)'
<1>1. switches \in Nat /\ asOf[c] \in Nat /\ switches' \in {switches, switches + 1}
  BY DEF EvolutionTypeOK, Evolves
<1>2. asOf'[c] <= switches' /\ asOf[c] <= switches
  BY <1>1 DEF ComparedWith
<1>3. ASSUME plan'[c].base # Nothing
      PROVE  /\ plan'[c].base.id \in Candidates /\ plan'[c].base.ver <= mem'[plan'[c].base.id].ver
             /\ asOf'[c] = switches' => mem'[plan'[c].base.id].st = "active"
             /\ asOf'[c] # switches' => plan'[c].base.ver < mem'[plan'[c].base.id].ver
  <2> DEFINE b == plan[c].base.id
             v == plan[c].base.ver
  <2>1. /\ b \in Candidates /\ v <= mem[b].ver
        /\ asOf[c] = switches => mem[b].st = "active"
        /\ asOf[c] # switches => v < mem[b].ver
    BY <1>3 DEF ComparedWith
  <2>2. mem[b].ver \in Nat /\ mem'[b].ver \in Nat /\ v \in Nat /\ mem'[b].ver >= mem[b].ver
    BY <2>1 DEF EvolutionTypeOK, Evolves, MemoryRec, Refs
  <2>3. CASE switches' = switches /\ \A d \in Candidates : mem[d].st = "active" => mem'[d] = mem[d]
    BY <1>1, <2>1, <2>2, <2>3
  <2>4. CASE switches' = switches + 1 /\ \A d \in Candidates : mem[d].st = "active" => mem'[d].ver > mem[d].ver
    BY <1>1, <1>2, <2>1, <2>2, <2>4
  <2> QED
    BY <2>3, <2>4 DEF Evolves
<1> QED
  BY <1>2, <1>3 DEF ComparedWith

LEMMA EvolutionTypes == ASSUME EvolutionInv, [EvolutionNext]_evars PROVE EvolutionTypeOK'
<1>1. EvolutionTypeOK /\ OneActive /\ ActiveRef \in Refs /\ ActiveRefs \in SUBSET Refs
  <2>1. EvolutionTypeOK /\ OneActive
    BY DEF EvolutionInv
  <2> QED
    BY <2>1, ActiveIs
<1>2. mem' \in [Candidates -> MemoryRec]
  BY EvolutionStep DEF Evolves
<1>3. switches' \in Nat
  BY <1>1, EvolutionStep DEF Evolves, EvolutionTypeOK
<1>4. /\ plan' \in [Candidates -> [verdict : {"none", "pending", "stale", "passed", "failed"}, base : Refs,
                                   reports : [Variants -> {"none", "ok", "bad"}]]]
      /\ asOf' \in [Candidates -> Nat] /\ clean' \in BOOLEAN
  <2>1. CASE UNCHANGED <<plan, asOf, clean>>
    BY <1>1, <2>1 DEF EvolutionTypeOK
  <2>2. ASSUME NEW c \in Candidates, Propose(c) \/ Finish(c)
        PROVE  /\ plan' \in [Candidates -> [verdict : {"none", "pending", "stale", "passed", "failed"}, base : Refs,
                                            reports : [Variants -> {"none", "ok", "bad"}]]]
               /\ asOf' \in [Candidates -> Nat] /\ clean' \in BOOLEAN
    <3>1. CASE Propose(c)
      BY <1>1, <3>1 DEF Propose, EvolutionTypeOK
    <3>2. CASE Finish(c)
      <4>1. Verdict(c) \in {"stale", "passed", "failed"}
        BY DEF Verdict
      <4>2. clean' \in BOOLEAN
        BY <1>1, <3>2 DEF Finish, EvolutionTypeOK
      <4>3. asOf' = asOf /\ plan' = [plan EXCEPT ![c].verdict = Verdict(c)]
        BY <3>2 DEF Finish
      <4> QED
        BY <1>1, <4>1, <4>2, <4>3 DEF EvolutionTypeOK
    <3> QED
      BY <2>2, <3>1, <3>2
  <2>3. ASSUME NEW c \in Candidates, NEW v \in Variants, NEW r \in {"ok", "bad"}, Record(c, v, r)
        PROVE  /\ plan' \in [Candidates -> [verdict : {"none", "pending", "stale", "passed", "failed"}, base : Refs,
                                            reports : [Variants -> {"none", "ok", "bad"}]]]
               /\ asOf' \in [Candidates -> Nat] /\ clean' \in BOOLEAN
    <3>1. plan' = [plan EXCEPT ![c].reports[v] = r] /\ UNCHANGED <<asOf, clean>>
      BY <2>3 DEF Record
    <3> QED
      BY <1>1, <3>1 DEF EvolutionTypeOK
  <2> QED
    BY <2>1, <2>2, <2>3 DEF EvolutionNext, evars, Rollback, Invalidate, Hop
<1>5. pin' \in [PinRuns -> SUBSET Refs] /\ shown' \in [PinRuns -> SUBSET Candidates]
  <2>1. CASE UNCHANGED <<pin, shown>>
    BY <1>1, <2>1 DEF EvolutionTypeOK
  <2>2. ASSUME NEW u \in PinRuns, Hop(u)
        PROVE  pin' \in [PinRuns -> SUBSET Refs] /\ shown' \in [PinRuns -> SUBSET Candidates]
    <3>1. References(u) \in SUBSET Refs
      BY <1>1 DEF References, EvolutionTypeOK
    <3>2. \A r \in References(u) : r.id \in Candidates
      <4>1. CASE pin[u] = NoPin
        BY <1>1, <4>1, ActiveIs DEF References
      <4>2. CASE pin[u] # NoPin
        BY <4>2 DEF References, EvolutionInv, PinInv
      <4> QED
        BY <4>1, <4>2
    <3>3. pin' = [pin EXCEPT ![u] = References(u)]
      BY <2>2 DEF Hop
    <3> DEFINE more == {r.id : r \in {q \in References(u) : mem[q.id].st \in {"active", "retired"}}}
    <3>4. shown' = [shown EXCEPT ![u] = @ \cup more] /\ more \in SUBSET Candidates
      BY <2>2, <3>2 DEF Hop
    <3> HIDE DEF more
    <3> QED
      BY <1>1, <3>1, <3>3, <3>4 DEF EvolutionTypeOK
  <2> QED
    BY <2>1, <2>2 DEF EvolutionNext, evars, Rollback, Invalidate, Propose, Finish, Record
<1> QED
  BY <1>2, <1>3, <1>4, <1>5 DEF EvolutionTypeOK, MemoryRec

LEMMA BaseStep ==
  ASSUME EvolutionInv, [EvolutionNext]_evars, EvolutionTypeOK'
  PROVE  (FreshInv /\ BaseInv)' /\ clean'
<1>1. /\ EvolutionTypeOK /\ OneActive /\ FreshInv /\ BaseInv /\ clean /\ Evolves
      /\ plan \in [Candidates -> [verdict : {"none", "pending", "stale", "passed", "failed"}, base : Refs,
                                   reports : [Variants -> {"none", "ok", "bad"}]]]
  BY EvolutionStep DEF EvolutionInv, EvolutionTypeOK
<1>2. ASSUME NEW c \in Candidates, plan'[c].verdict = "pending", plan[c].verdict = "pending",
             plan'[c].base = plan[c].base, asOf'[c] = asOf[c]
      PROVE  ComparedWith(c)'
  BY <1>1, <1>2, ComparisonStays DEF BaseInv
<1>3. ASSUME NEW c \in Candidates, Propose(c) PROVE (FreshInv /\ BaseInv)' /\ clean'
  <2>1. /\ plan' = [plan EXCEPT ![c].verdict = "pending", ![c].base = ActiveRef]
        /\ asOf' = [asOf EXCEPT ![c] = switches] /\ switches' = switches /\ clean' = clean
        /\ mem' = [mem EXCEPT ![c] = [st |-> "candidate", ver |-> 1]] /\ mem[c].st = "none"
    BY <1>3 DEF Propose
  <2>2. plan'[c].base = ActiveRef /\ asOf'[c] = switches
    BY <1>1, <2>1 DEF EvolutionTypeOK
  <2>3. ASSUME ActiveRef # Nothing
        PROVE  ActiveRef.id \in Candidates /\ ActiveRef.ver <= mem'[ActiveRef.id].ver /\ mem'[ActiveRef.id].st = "active"
    <3>1. ActiveRef.id \in Candidates /\ mem[ActiveRef.id].st = "active" /\ ActiveRef = Ref(ActiveRef.id)
      BY <1>1, <2>3, ActiveIs
    <3>2. mem'[ActiveRef.id] = mem[ActiveRef.id] /\ mem[ActiveRef.id].ver \in Nat
      BY <1>1, <2>1, <3>1 DEF EvolutionTypeOK
    <3>3. ActiveRef.ver = mem[ActiveRef.id].ver
      BY <3>1 DEF Ref
    <3> QED
      BY <3>1, <3>2, <3>3
  <2>4. ComparedWith(c)'
    BY <1>1, <2>1, <2>2, <2>3 DEF ComparedWith, EvolutionTypeOK
  <2>5. \A d \in Candidates \ {c} : plan'[d] = plan[d] /\ asOf'[d] = asOf[d]
    BY <1>1, <2>1 DEF EvolutionTypeOK
  <2>6. BaseInv'
    BY <1>1, <1>2, <2>4, <2>5 DEF BaseInv
  <2>7. FreshInv'
    BY <1>1, <2>1 DEF FreshInv, EvolutionTypeOK
  <2> QED
    BY <1>1, <2>1, <2>6, <2>7
<1>4. ASSUME NEW c \in Candidates, Finish(c) PROVE (FreshInv /\ BaseInv)' /\ clean'
  <2>1. /\ plan' = [plan EXCEPT ![c].verdict = Verdict(c)] /\ asOf' = asOf
        /\ plan[c].verdict = "pending" /\ Verdict(c) # "pending"
    BY <1>4 DEF Finish, Evaluating, Verdict
  <2>2. BaseInv'
    <3>1. \A d \in Candidates : /\ plan'[d].base = plan[d].base /\ asOf'[d] = asOf[d]
                                /\ plan'[d].verdict = "pending" => plan[d].verdict = "pending"
      BY <1>1, <2>1
    <3> QED
      BY <1>2, <3>1 DEF BaseInv
  <2>3. CASE Verdict(c) = "passed"
    <3>1. ActiveRef = plan[c].base /\ ComparedWith(c)
      BY <1>1, <2>1, <2>3 DEF Verdict, BaselineCurrent, BaseInv
    <3>2. plan[c].base # Nothing => asOf[c] = switches
      <4>1. ASSUME plan[c].base # Nothing PROVE plan[c].base.ver = mem[plan[c].base.id].ver /\ plan[c].base.ver \in Nat
        <5>1. ActiveRef = Ref(ActiveRef.id) /\ ActiveRef \in Refs
          BY <1>1, <3>1, <4>1, ActiveIs
        <5>2. ActiveRef.ver = mem[ActiveRef.id].ver /\ ActiveRef.ver \in Nat
          BY <5>1 DEF Ref, Refs
        <5> QED
          BY <3>1, <5>2
      <4> QED
        BY <3>1, <4>1 DEF ComparedWith
    <3>3. clean'
      BY <1>1, <1>4, <2>3, <3>2 DEF Finish
    <3>4. mem' = Switched(ActiveRef.id, c)
      BY <1>4, <2>3 DEF Finish
    <3>5. FreshInv'
      <4>1. ASSUME NEW d \in Candidates, mem'[d].st = "none" PROVE mem'[d] = mem[d]
        BY <3>4, <4>1 DEF Switched, Bump
      <4> QED
        BY <1>1, <4>1 DEF FreshInv
    <3> QED
      BY <2>2, <3>3, <3>5
  <2>4. CASE Verdict(c) # "passed"
    BY <1>1, <1>4, <2>2, <2>4 DEF Finish, FreshInv
  <2> QED
    BY <2>3, <2>4
<1>5. ASSUME UNCHANGED <<plan, asOf, clean>>, \A d \in Candidates : mem'[d].st = "none" => mem'[d] = mem[d]
      PROVE  (FreshInv /\ BaseInv)' /\ clean'
  BY <1>1, <1>2, <1>5 DEF FreshInv, BaseInv
<1>6. ASSUME NEW a \in Candidates, NEW t \in Candidates \cup {0}, Rollback(a, t) PROVE (FreshInv /\ BaseInv)' /\ clean'
  <2>1. mem' = Switched(a, t) /\ UNCHANGED <<plan, asOf, clean>>
    BY <1>6 DEF Rollback
  <2>2. \A d \in Candidates : mem'[d].st = "none" => mem'[d] = mem[d]
    BY <2>1 DEF Switched, Bump
  <2> QED
    BY <1>5, <2>1, <2>2
<1>7. ASSUME NEW c \in Candidates, Invalidate(c) PROVE (FreshInv /\ BaseInv)' /\ clean'
  <2>1. mem' = [mem EXCEPT ![c] = Bump(mem[c], "expired")] /\ UNCHANGED <<plan, asOf, clean>>
    BY <1>1, <1>7 DEF Invalidate, EvolutionTypeOK
  <2>2. \A d \in Candidates : mem'[d].st = "none" => mem'[d] = mem[d]
    BY <1>1, <2>1 DEF Bump, EvolutionTypeOK
  <2> QED
    BY <1>5, <2>1, <2>2
<1>8. ASSUME NEW c \in Candidates, NEW v \in Variants, NEW r \in {"ok", "bad"}, Record(c, v, r)
      PROVE  (FreshInv /\ BaseInv)' /\ clean'
  <2>1. plan' = [plan EXCEPT ![c].reports[v] = r] /\ UNCHANGED <<mem, asOf, clean>>
    BY <1>8 DEF Record
  <2>2. \A d \in Candidates : plan'[d].base = plan[d].base /\ plan'[d].verdict = plan[d].verdict
    BY <1>1, <2>1
  <2> QED
    BY <1>1, <1>2, <2>1, <2>2 DEF FreshInv, BaseInv
<1>9. CASE (\E u \in PinRuns : Hop(u)) \/ UNCHANGED evars
  BY <1>5, <1>9 DEF Hop, evars
<1> QED
  BY <1>3, <1>4, <1>6, <1>7, <1>8, <1>9 DEF EvolutionNext

LEMMA PinStep == ASSUME EvolutionInv, [EvolutionNext]_evars PROVE PinInv'
<1>1. EvolutionTypeOK /\ OneActive /\ PinInv
  BY DEF EvolutionInv
<1>2. CASE UNCHANGED <<pin, shown>>
  BY <1>1, <1>2 DEF PinInv
<1>3. ASSUME NEW u \in PinRuns, Hop(u) PROVE PinInv'
  <2> DEFINE refs == References(u)
             more == {r.id : r \in {q \in refs : mem[q.id].st \in {"active", "retired"}}}
  <2>1. pin' = [pin EXCEPT ![u] = refs] /\ shown' = [shown EXCEPT ![u] = @ \cup more]
    BY <1>3 DEF Hop
  <2>2. pin'[u] = refs /\ shown'[u] = shown[u] \cup more /\ more \subseteq {r.id : r \in refs}
    BY <1>1, <2>1 DEF EvolutionTypeOK
  <2>3. \A x \in PinRuns \ {u} : pin'[x] = pin[x] /\ shown'[x] = shown[x]
    BY <1>1, <2>1 DEF EvolutionTypeOK
  <2>4. \A q, r \in refs : q = r
    BY <1>1, ActiveIs DEF References, PinInv
  <2>5. \A r \in refs : r.id \in Candidates
    BY <1>1, ActiveIs DEF References, PinInv
  <2>6. refs # NoPin
    <3>1. Nothing.id \notin Candidates
      BY EvolutionAssumption DEF Nothing
    <3> QED
      BY <2>5, <3>1 DEF NoPin
  <2>7. shown[u] \subseteq {r.id : r \in refs}
    BY <1>1 DEF References, PinInv
  <2> HIDE DEF refs, more
  <2> QED
    BY <1>1, <2>2, <2>3, <2>4, <2>5, <2>6, <2>7 DEF PinInv
<1> QED
  BY <1>2, <1>3 DEF EvolutionNext, evars, Rollback, Invalidate, Propose, Finish, Record

LEMMA EvolutionInitInv == EvolutionInit => EvolutionInv
<1> SUFFICES ASSUME EvolutionInit PROVE EvolutionInv
  OBVIOUS
<1>1. Nothing \in Refs
  BY DEF Nothing, Refs
<1>2. EvolutionTypeOK
  BY <1>1 DEF EvolutionInit, EvolutionTypeOK, NoPin
<1> QED
  BY <1>2 DEF EvolutionInit, EvolutionInv, OneActive, FreshInv, BaseInv, PinInv, NoPin

(* EvolutionSafe: a candidate is promoted only over the very version it    *)
(* was compared with, at most one strategy is active, and a run is never   *)
(* shown two, whatever is proposed, promoted, rolled back or expires       *)
(* between the transactions of an evaluation.                              *)
THEOREM StrategiesEvolve == EvolutionSpec => []EvolutionSafe
<1>1. EvolutionInv /\ [EvolutionNext]_evars => EvolutionInv'
  BY EvolutionTypes, EvolutionStep, BaseStep, PinStep DEF EvolutionInv, Evolves
<1>2. EvolutionInv => EvolutionSafe
  <2> SUFFICES ASSUME EvolutionInv PROVE EvolutionSafe
    OBVIOUS
  <2>1. \A q, r \in ActiveRefs : q = r
    BY ActiveIs DEF EvolutionInv
  <2>2. Cardinality(ActiveRefs) <= 1
    BY <2>1, AtMostOneMember
  <2>3. \A u \in PinRuns : \A c, d \in shown[u] : c = d
    BY DEF EvolutionInv, PinInv
  <2>4. \A u \in PinRuns : Cardinality(shown[u]) <= 1
    BY <2>3, AtMostOneMember
  <2> QED
    BY <2>2, <2>4 DEF EvolutionInv, EvolutionSafe, PromotedOverBaseline, PinnedForTheRun
<1> QED
  BY <1>1, <1>2, EvolutionInitInv, PTL DEF EvolutionSpec

-----------------------------------------------------------------------------
(* The in-memory work store: types *)

RowRec == [st : Active \cup Ended \cup {"absent"}, fence : Nat, exp : Nat, avail : Nat,
           cancel : BOOLEAN, preempt : BOOLEAN, ver : Nat, late : BOOLEAN]
LeaseRec == [w : MWork \cup {0}, f : Nat, exp : Nat]
ClaimRec == [req : MRequest, by : MWorker, ans : Handed]

Revisions(rows) == \A w \in MWork : rows[w].ver \in 1 .. MaxSteer[w] + 1

RowTypes == mrow \in [MWork -> RowRec] /\ Revisions(mrow)
LeaseTypes == mlease \in [MSession -> LeaseRec] /\ mroute \in [MSession -> [by : MWorker \cup {"none"}, epoch : Nat]]
ClaimTypes ==
  /\ mclaims \in Seq(ClaimRec) /\ Len(mclaims) <= MaxClaims
  /\ answers \in [MRequest -> SUBSET Handed]
CascadeTypes == cascade \in [MWork -> [on : BOOLEAN, seen : SUBSET MWork]]
TimeType == now \in 0 .. MaxNow

LEMMA StoreTypes == StoreTypeOK <=> RowTypes /\ LeaseTypes /\ ClaimTypes /\ CascadeTypes /\ TimeType
  BY DEF StoreTypeOK, RowTypes, LeaseTypes, ClaimTypes, CascadeTypes, TimeType, RowRec, LeaseRec, ClaimRec, Revisions

(* A row of rows R that keeps its lease, or its absence, as it was.        *)
Calm(R) ==
  /\ R \in [MWork -> RowRec] /\ Revisions(R)
  /\ \A x \in MWork : /\ R[x].fence = mrow[x].fence /\ R[x].exp = mrow[x].exp
                      /\ R[x].st = "leased" <=> mrow[x].st = "leased"

(* A row that has ended or knows that it is to be cancelled.               *)
CeasedIn(R, x) == R[x].st \in Ended \/ R[x].cancel
Ceased(x) == CeasedIn(mrow, x)

(* What cancelling a tree does to the rows.                                *)
Pruned(R) ==
  /\ \A x \in MWork : /\ Ceased(x) => CeasedIn(R, x)
                      /\ R[x].late = mrow[x].late /\ (R[x].st = "absent" <=> mrow[x].st = "absent")
  /\ \A p, c \in MWork : MParentOf[c] = p /\ mrow[c].st # "absent" /\ R[p].st \in Ended /\ mrow[p].st \notin Ended
                         => CeasedIn(R, c)

LEMMA CancelTreeRows ==
  ASSUME RowTypes, NEW w \in MWork
  PROVE  /\ Calm(CancelTree(mrow, w)) /\ Pruned(CancelTree(mrow, w))
         /\ mrow[w].st # "absent" => CeasedIn(CancelTree(mrow, w), w)
<1> DEFINE D == Descendants(w)
           R == CancelTree(mrow, w)
<1>1. D \in SUBSET MWork /\ w \in D
  BY DEF Descendants
<1>2. ASSUME NEW c \in MWork, MParentOf[c] \in D, mrow[c].st # "absent" PROVE c \in D
  BY <1>2 DEF Descendants, ClosedBelow
<1>3. CASE mrow[w].st \notin Active
  <2>1. R = mrow
    BY <1>3 DEF CancelTree
  <2>2. mrow[w].st \in Active \cup Ended \cup {"absent"}
    BY DEF RowTypes, RowRec
  <2>3. Calm(mrow) /\ Pruned(mrow)
    BY DEF Calm, Pruned, RowTypes, Ceased
  <2>4. mrow[w].st # "absent" => CeasedIn(mrow, w)
    BY <1>3, <2>2 DEF CeasedIn
  <2> QED
    BY <2>1, <2>3, <2>4
<1>4. CASE mrow[w].st \in Active
  <2>1. R = CancelAll(mrow, D)
    BY <1>4 DEF CancelTree
  <2>2. ASSUME NEW x \in MWork
        PROVE  /\ R[x] \in RowRec /\ R[x].fence = mrow[x].fence /\ R[x].exp = mrow[x].exp /\ R[x].ver = mrow[x].ver
               /\ R[x].late = mrow[x].late
               /\ IF x \in D /\ mrow[x].st \in Active
                  THEN R[x].cancel /\ R[x].st = IF mrow[x].st = "leased" THEN "leased" ELSE "cancelled"
                  ELSE R[x].cancel = mrow[x].cancel /\ R[x].st = mrow[x].st
    <3>1. mrow[x] \in RowRec
      BY DEF RowTypes
    <3>2. CASE x \in D /\ mrow[x].st \in Active
      <4>1. R[x] = [mrow[x] EXCEPT !.cancel = TRUE, !.st = IF mrow[x].st = "leased" THEN "leased" ELSE "cancelled"]
        BY <2>1, <3>2 DEF CancelAll
      <4>2. (IF mrow[x].st = "leased" THEN "leased" ELSE "cancelled") \in Active \cup Ended
        BY DEF Active, Ended
      <4> HIDE DEF R
      <4> QED
        BY <3>1, <3>2, <4>1, <4>2 DEF RowRec
    <3>3. CASE ~(x \in D /\ mrow[x].st \in Active)
      <4>1. R[x] = mrow[x]
        BY <2>1, <3>3 DEF CancelAll
      <4> HIDE DEF R, D
      <4> QED
        BY <3>1, <3>3, <4>1
    <3> QED
      BY <3>2, <3>3
  <2>3. R \in [MWork -> RowRec]
    <3>1. R = [x \in MWork |-> R[x]]
      BY <2>1 DEF CancelAll
    <3> HIDE DEF R
    <3> QED
      BY <2>2, <3>1
  <2> HIDE DEF R, D
  <2>4. Calm(R)
    BY <2>2, <2>3 DEF Calm, RowTypes, Revisions
  <2>5. \A x \in MWork : Ceased(x) => CeasedIn(R, x)
    BY <2>2 DEF Ceased, CeasedIn, Active, Ended
  <2>6. \A x \in D : mrow[x].st # "absent" => CeasedIn(R, x)
    <3>1. \A x \in MWork : mrow[x].st \in Active \cup Ended \cup {"absent"}
      BY DEF RowTypes, RowRec
    <3> QED
      BY <1>1, <2>2, <2>5, <3>1 DEF Ceased, CeasedIn
  <2>7. ASSUME NEW p \in MWork, NEW c \in MWork, MParentOf[c] = p, mrow[c].st # "absent",
               R[p].st \in Ended, mrow[p].st \notin Ended
        PROVE  CeasedIn(R, c)
    <3>1. p \in D
      BY <2>2, <2>7
    <3> QED
      BY <1>2, <2>6, <2>7, <3>1
  <2>8. \A x \in MWork : R[x].late = mrow[x].late /\ (R[x].st = "absent" <=> mrow[x].st = "absent")
    BY <2>2 DEF Active
  <2>9. Pruned(R)
    BY <2>5, <2>7, <2>8 DEF Pruned
  <2> QED
    BY <1>1, <2>4, <2>6, <2>9 DEF R
<1> QED
  BY <1>3, <1>4

-----------------------------------------------------------------------------
(* The in-memory work store: leases *)

(* A session lease is of a leased row of the session, under its fence and  *)
(* with its deadline; a row whose lease is live has the session's.         *)
LeaseInv ==
  /\ \A s \in MSession : mlease[s].w # 0 =>
       /\ MSessionOf[mlease[s].w] = s /\ mrow[mlease[s].w].st = "leased"
       /\ mlease[s].f = mrow[mlease[s].w].fence /\ mlease[s].exp = mrow[mlease[s].w].exp
  /\ \A w \in MWork : mrow[w].st = "leased" /\ mrow[w].exp > now => mlease[MSessionOf[w]].w = w

StoreTyped == RowTypes /\ LeaseTypes /\ TimeType

LEMMA LeaseFacts ==
  StoreTyped =>
    /\ now \in Nat /\ MaxNow \in Nat /\ LeaseTtl \in Nat \ {0} /\ mrow \in [MWork -> RowRec] /\ mlease \in [MSession -> LeaseRec]
    /\ \A w \in MWork : MSessionOf[w] \in MSession /\ w # 0 /\ mrow[w] \in RowRec /\ mrow[w].fence \in Nat /\ mrow[w].exp \in Nat
    /\ \A s \in MSession : mlease[s] \in LeaseRec /\ mlease[s].w \in MWork \cup {0} /\ mlease[s].exp \in Nat /\ mlease[s].f \in Nat
  BY StoreAssumption DEF StoreTyped, RowTypes, LeaseTypes, TimeType, RowRec, LeaseRec

(* The session lease of an attempt that presents a valid lease.            *)
LEMMA ValidHolds ==
  ASSUME StoreTyped, LeaseInv, NEW w \in MWork, NEW f \in Nat, ValidLease(w, f)
  PROVE  /\ Matches(w, f) /\ mlease[MSessionOf[w]].exp = mrow[w].exp /\ mrow[w].exp > now
         /\ MSessionOf[w] \in MSession /\ MHolder[MSessionOf[w]] = w
         /\ f = mrow[w].fence /\ mrow[w].st = "leased"
<1>1. mrow[w].st = "leased" /\ mrow[w].fence = f /\ mrow[w].exp > now /\ MSessionOf[w] \in MSession /\ w # 0
  BY LeaseFacts DEF ValidLease
<1>2. mlease[MSessionOf[w]].w = w
  BY <1>1 DEF LeaseInv
<1>3. mlease[MSessionOf[w]].f = f /\ mlease[MSessionOf[w]].exp = mrow[w].exp
  BY <1>1, <1>2 DEF LeaseInv
<1>4. MHolder[MSessionOf[w]] = w
  BY <1>1, <1>2, <1>3 DEF MHolder
<1> QED
  BY <1>1, <1>2, <1>3, <1>4 DEF Matches

LEMMA SweptLeases ==
  ASSUME StoreTyped
  PROVE  /\ Swept \in [MSession -> LeaseRec]
         /\ \A s \in MSession : IF mlease[s].exp <= now THEN Swept[s].w = 0 /\ Swept[s].exp = 0 ELSE Swept[s] = mlease[s]
<1>1. NoLease \in LeaseRec /\ NoLease.w = 0 /\ NoLease.exp = 0
  BY DEF NoLease, LeaseRec
<1>2. \A s \in MSession : mlease[s] \in LeaseRec
  BY LeaseFacts
<1> QED
  BY <1>1, <1>2 DEF Swept

(* Steps that change no lease of a row: the clock, the sweep of expired    *)
(* session leases, and what users do to the rows.                          *)
LEMMA LeaseQuiet ==
  ASSUME StoreTyped, LeaseInv, Calm(mrow'), mlease' = mlease \/ mlease' = Swept,
         now' \in 0 .. MaxNow, now' >= now
  PROVE  LeaseInv' /\ [MLock!Next]_(MLock!vars)
<1>1. /\ now \in Nat /\ now' \in Nat
      /\ \A w \in MWork : MSessionOf[w] \in MSession /\ w # 0 /\ mrow[w].exp \in Nat
      /\ \A s \in MSession : mlease[s].w \in MWork \cup {0} /\ mlease[s].exp \in Nat
  BY LeaseFacts
<1>2. \A s \in MSession : mlease'[s] = mlease[s] \/ (mlease[s].exp <= now /\ mlease'[s].w = 0 /\ mlease'[s].exp = 0)
  BY SweptLeases
<1>3. \A x \in MWork : /\ mrow'[x].fence = mrow[x].fence /\ mrow'[x].exp = mrow[x].exp
                       /\ mrow'[x].st = "leased" <=> mrow[x].st = "leased"
  BY DEF Calm
<1>4. LeaseInv'
  <2>1. ASSUME NEW s \in MSession, mlease'[s].w # 0
        PROVE  /\ MSessionOf[mlease'[s].w] = s /\ mrow'[mlease'[s].w].st = "leased"
               /\ mlease'[s].f = mrow'[mlease'[s].w].fence /\ mlease'[s].exp = mrow'[mlease'[s].w].exp
    <3>1. mlease'[s] = mlease[s] /\ mlease[s].w \in MWork
      BY <1>1, <1>2, <2>1
    <3> QED
      BY <1>3, <2>1, <3>1 DEF LeaseInv
  <2>2. ASSUME NEW w \in MWork, mrow'[w].st = "leased", mrow'[w].exp > now'
        PROVE  mlease'[MSessionOf[w]].w = w
    <3>1. mrow[w].st = "leased" /\ mrow[w].exp > now
      BY <1>1, <1>3, <2>2
    <3>2. mlease[MSessionOf[w]].w = w /\ mlease[MSessionOf[w]].exp = mrow[w].exp
      BY <1>1, <3>1 DEF LeaseInv
    <3> QED
      BY <1>1, <1>2, <3>1, <3>2
  <2> QED
    BY <2>1, <2>2 DEF LeaseInv
<1>5. [MLock!Next]_(MLock!vars)
  <2> DEFINE L == {s \in MSession : mlease'[s].exp <= now'}
  <2>1. \A s \in MSession : MHolder'[s] = IF s \in L THEN 0 ELSE MHolder[s]
    <3>1. ASSUME NEW s \in MSession PROVE MHolder'[s] = IF s \in L THEN 0 ELSE MHolder[s]
      <4>1. MHolder'[s] = IF mlease'[s].exp > now' THEN mlease'[s].w ELSE 0
        BY DEF MHolder
      <4>2. MHolder[s] = IF mlease[s].exp > now THEN mlease[s].w ELSE 0
        BY DEF MHolder
      <4>3. mlease'[s].exp \in Nat
        BY <1>1, <1>2
      <4> QED
        BY <1>1, <1>2, <4>1, <4>2, <4>3
    <3> QED
      BY <3>1
  <2>2. MHolder' = [s \in MSession |-> IF s \in L THEN 0 ELSE MHolder[s]]
    <3>1. MHolder' = [s \in MSession |-> MHolder'[s]]
      BY DEF MHolder
    <3> HIDE DEF L
    <3> QED
      BY <2>1, <3>1
  <2>3. MGranted' = [w \in MWork |-> IF w \in {} THEN MGranted[w] + 1 ELSE MGranted[w]]
    BY <1>3 DEF MGranted
  <2>4. L \in SUBSET MSession /\ {} \in SUBSET MWork
    OBVIOUS
  <2> HIDE DEF L
  <2>5. MLock!Release(L, {})
    BY <2>2, <2>3 DEF MLock!Release
  <2> QED
    BY <2>4, <2>5 DEF MLock!Next
<1> QED
  BY <1>4, <1>5

(* A row other than w keeps its lease.                                     *)
OthersKeep(w) ==
  /\ mrow' \in [MWork -> RowRec] /\ now' = now
  /\ \A x \in MWork \ {w} : mrow'[x] = mrow[x]

(* The end of a valid lease.                                               *)
LEMMA LeaseEnd ==
  ASSUME StoreTyped, LeaseInv, NEW w \in MWork, NEW f \in Nat, ValidLease(w, f), OthersKeep(w),
         mrow'[w].st # "leased", mrow'[w].fence \in {f, f + 1}, mlease' = ReleaseSessionLease(w, f)
  PROVE  LeaseInv' /\ [MLock!Next]_(MLock!vars)
<1> DEFINE t == MSessionOf[w]
<1>1. /\ Matches(w, f) /\ t \in MSession /\ MHolder[t] = w /\ f = mrow[w].fence /\ w # 0
      /\ \A s \in MSession : mlease[s].w \in MWork \cup {0} /\ mlease[s] \in LeaseRec
      /\ \A x \in MWork : MSessionOf[x] \in MSession
  BY ValidHolds, LeaseFacts
<1>2. /\ mlease' = [mlease EXCEPT ![t] = NoLease] /\ NoLease.w = 0 /\ NoLease.exp = 0 /\ now' = now
      /\ mlease \in [MSession -> LeaseRec] /\ \A x \in MWork \ {w} : mrow'[x] = mrow[x]
  BY <1>1, LeaseFacts DEF ReleaseSessionLease, NoLease, OthersKeep
<1>3. \A s \in MSession : mlease'[s] = IF s = t THEN NoLease ELSE mlease[s]
  BY <1>1, <1>2
<1>4. LeaseInv'
  <2>1. ASSUME NEW s \in MSession, mlease'[s].w # 0
        PROVE  /\ MSessionOf[mlease'[s].w] = s /\ mrow'[mlease'[s].w].st = "leased"
               /\ mlease'[s].f = mrow'[mlease'[s].w].fence /\ mlease'[s].exp = mrow'[mlease'[s].w].exp
    <3>1. s # t /\ mlease'[s] = mlease[s] /\ mlease[s].w \in MWork
      BY <1>1, <1>2, <1>3, <2>1
    <3>2. MSessionOf[mlease[s].w] = s
      BY <2>1, <3>1 DEF LeaseInv
    <3>3. mlease[s].w # w /\ mrow'[mlease[s].w] = mrow[mlease[s].w]
      BY <1>2, <3>1, <3>2
    <3> QED
      BY <2>1, <3>1, <3>3 DEF LeaseInv
  <2>2. ASSUME NEW x \in MWork, mrow'[x].st = "leased", mrow'[x].exp > now'
        PROVE  mlease'[MSessionOf[x]].w = x
    <3>1. x # w /\ mrow'[x] = mrow[x]
      BY <1>2, <2>2
    <3>2. mlease[MSessionOf[x]].w = x
      BY <1>2, <2>2, <3>1 DEF LeaseInv
    <3>3. mlease[t].w = w
      BY <1>1 DEF Matches
    <3> QED
      BY <1>1, <1>3, <3>1, <3>2, <3>3
  <2> QED
    BY <2>1, <2>2 DEF LeaseInv
<1>5. MHolder' = [s \in MSession |-> IF s \in {t} THEN 0 ELSE MHolder[s]]
  <2>1. ASSUME NEW s \in MSession PROVE MHolder'[s] = IF s \in {t} THEN 0 ELSE MHolder[s]
    <3>1. MHolder'[s] = (IF mlease'[s].exp > now THEN mlease'[s].w ELSE 0)
          /\ MHolder[s] = (IF mlease[s].exp > now THEN mlease[s].w ELSE 0)
      BY <1>2 DEF MHolder
    <3> QED
      BY <1>2, <1>3, <3>1
  <2>2. MHolder' = [s \in MSession |-> MHolder'[s]]
    BY DEF MHolder
  <2> QED
    BY <2>1, <2>2
<1>6. ASSUME mrow'[w].fence = f PROVE MLock!Release({t}, {})
  <2>1. MGranted' = [x \in MWork |-> IF x \in {} THEN MGranted[x] + 1 ELSE MGranted[x]]
    BY <1>1, <1>2, <1>6 DEF MGranted
  <2> QED
    BY <1>5, <2>1 DEF MLock!Release
<1>7. ASSUME mrow'[w].fence = f + 1 PROVE MLock!Release({t}, {w})
  <2>1. MGranted' = [x \in MWork |-> IF x \in {w} THEN MGranted[x] + 1 ELSE MGranted[x]]
    BY <1>1, <1>2, <1>7 DEF MGranted
  <2>2. \A x \in {w} : MHolder'[MSessionOf[x]] # x
    BY <1>1, <1>5
  <2> QED
    BY <1>5, <2>1, <2>2 DEF MLock!Release
<1> QED
  BY <1>1, <1>4, <1>6, <1>7 DEF MLock!Next

(* The renewal of a valid lease, in both maps.                             *)
LEMMA LeaseRenewed ==
  ASSUME StoreTyped, LeaseInv, NEW w \in MWork, NEW f \in Nat, ValidLease(w, f), OthersKeep(w),
         mrow'[w].st = "leased", mrow'[w].fence = f, mrow'[w].exp = now + LeaseTtl, mlease' = ExtendSession(w, f)
  PROVE  LeaseInv' /\ [MLock!Next]_(MLock!vars)
<1> DEFINE t == MSessionOf[w]
<1>1. /\ Matches(w, f) /\ t \in MSession /\ MHolder[t] = w /\ f = mrow[w].fence /\ w # 0
      /\ \A s \in MSession : mlease[s].w \in MWork \cup {0} /\ mlease[s] \in LeaseRec
      /\ \A x \in MWork : MSessionOf[x] \in MSession
      /\ now + LeaseTtl > now /\ now + LeaseTtl \in Nat /\ mlease \in [MSession -> LeaseRec]
  BY ValidHolds, LeaseFacts
<1>2. mlease' = [mlease EXCEPT ![t].exp = now + LeaseTtl] /\ now' = now /\ \A x \in MWork \ {w} : mrow'[x] = mrow[x]
  BY <1>1 DEF ExtendSession, OthersKeep
<1>3. /\ \A s \in MSession \ {t} : mlease'[s] = mlease[s]
      /\ mlease'[t].w = w /\ mlease'[t].f = f /\ mlease'[t].exp = now + LeaseTtl
  BY <1>1, <1>2 DEF LeaseRec, Matches
<1>4. LeaseInv'
  <2>1. ASSUME NEW s \in MSession, mlease'[s].w # 0
        PROVE  /\ MSessionOf[mlease'[s].w] = s /\ mrow'[mlease'[s].w].st = "leased"
               /\ mlease'[s].f = mrow'[mlease'[s].w].fence /\ mlease'[s].exp = mrow'[mlease'[s].w].exp
    <3>1. CASE s = t
      BY <1>1, <1>3, <3>1
    <3>2. CASE s # t
      <4>1. mlease'[s] = mlease[s] /\ mlease[s].w \in MWork /\ MSessionOf[mlease[s].w] = s
        BY <1>1, <1>3, <2>1, <3>2 DEF LeaseInv
      <4>2. mrow'[mlease[s].w] = mrow[mlease[s].w]
        BY <1>2, <3>2, <4>1
      <4> QED
        BY <2>1, <4>1, <4>2 DEF LeaseInv
    <3> QED
      BY <3>1, <3>2
  <2>2. ASSUME NEW x \in MWork, mrow'[x].st = "leased", mrow'[x].exp > now'
        PROVE  mlease'[MSessionOf[x]].w = x
    <3>1. CASE x = w
      BY <1>3, <3>1
    <3>2. CASE x # w
      <4>1. mlease[MSessionOf[x]].w = x /\ MSessionOf[x] \in MSession
        BY <1>1, <1>2, <2>2, <3>2 DEF LeaseInv
      <4>2. mlease[t].w = w
        BY <1>1 DEF Matches
      <4> QED
        BY <1>3, <3>2, <4>1, <4>2
    <3> QED
      BY <3>1, <3>2
  <2> QED
    BY <2>1, <2>2 DEF LeaseInv
<1>5. MHolder' = MHolder
  <2>1. ASSUME NEW s \in MSession PROVE MHolder'[s] = MHolder[s]
    <3>1. MHolder'[s] = (IF mlease'[s].exp > now THEN mlease'[s].w ELSE 0)
          /\ MHolder[s] = (IF mlease[s].exp > now THEN mlease[s].w ELSE 0)
      BY <1>2 DEF MHolder
    <3> QED
      BY <1>1, <1>3, <3>1
  <2>2. MHolder' = [s \in MSession |-> MHolder'[s]] /\ MHolder = [s \in MSession |-> MHolder[s]]
    BY DEF MHolder
  <2> QED
    BY <2>1, <2>2
<1>6. MGranted' = MGranted
  BY <1>1, <1>2 DEF MGranted
<1> QED
  BY <1>4, <1>5, <1>6 DEF MLock!vars

(* A claim: the session was free.                                          *)
LEMMA LeaseGranted ==
  ASSUME StoreTyped, LeaseInv, NEW w \in MWork, SessionFree(w), OthersKeep(w),
         mrow'[w].st = "leased", mrow'[w].fence = mrow[w].fence + 1, mrow'[w].exp = now + LeaseTtl,
         mlease' = [Swept EXCEPT ![MSessionOf[w]] = [w |-> w, f |-> mrow[w].fence + 1, exp |-> now + LeaseTtl]]
  PROVE  LeaseInv' /\ [MLock!Next]_(MLock!vars)
<1> DEFINE t == MSessionOf[w]
           f == mrow[w].fence + 1
<1>1. /\ t \in MSession /\ w # 0 /\ now \in Nat /\ f \in Nat
      /\ \A s \in MSession : mlease[s].w \in MWork \cup {0} /\ mlease[s].exp \in Nat
      /\ \A x \in MWork : MSessionOf[x] \in MSession
      /\ now + LeaseTtl > now /\ now + LeaseTtl \in Nat
  BY LeaseFacts
<1>2. now' = now /\ \A x \in MWork \ {w} : mrow'[x] = mrow[x]
  BY DEF OthersKeep
<1>3. /\ \A s \in MSession \ {t} : IF mlease[s].exp <= now THEN mlease'[s].w = 0 /\ mlease'[s].exp = 0
                                   ELSE mlease'[s] = mlease[s]
      /\ mlease'[t].w = w /\ mlease'[t].f = f /\ mlease'[t].exp = now + LeaseTtl
  BY <1>1, SweptLeases
<1>4. LeaseInv'
  <2>1. ASSUME NEW s \in MSession, mlease'[s].w # 0
        PROVE  /\ MSessionOf[mlease'[s].w] = s /\ mrow'[mlease'[s].w].st = "leased"
               /\ mlease'[s].f = mrow'[mlease'[s].w].fence /\ mlease'[s].exp = mrow'[mlease'[s].w].exp
    <3>1. CASE s = t
      BY <1>1, <1>3, <3>1
    <3>2. CASE s # t
      <4>1. mlease'[s] = mlease[s] /\ mlease[s].w \in MWork /\ MSessionOf[mlease[s].w] = s
        BY <1>1, <1>3, <2>1, <3>2 DEF LeaseInv
      <4>2. mrow'[mlease[s].w] = mrow[mlease[s].w]
        BY <1>2, <3>2, <4>1
      <4> QED
        BY <2>1, <4>1, <4>2 DEF LeaseInv
    <3> QED
      BY <3>1, <3>2
  <2>2. ASSUME NEW x \in MWork, mrow'[x].st = "leased", mrow'[x].exp > now'
        PROVE  mlease'[MSessionOf[x]].w = x
    <3>1. CASE x = w
      BY <1>3, <3>1
    <3>2. CASE x # w
      <4>1. /\ mlease[MSessionOf[x]].w = x /\ MSessionOf[x] \in MSession /\ x # 0
            /\ mrow[x].exp > now
        BY <1>1, <1>2, <2>2, <3>2, LeaseFacts DEF LeaseInv
      <4>2. mlease[MSessionOf[x]].exp = mrow[x].exp
        BY <4>1 DEF LeaseInv
      <4>3. MSessionOf[x] # t
        <5>1. mlease[t].w = 0 \/ mlease[t].exp <= now
          BY DEF SessionFree
        <5>2. mlease[MSessionOf[x]].exp > now
          BY <4>1, <4>2
        <5> QED
          BY <1>1, <4>1, <5>1, <5>2
      <4> QED
        BY <1>1, <1>3, <4>1, <4>2, <4>3
    <3> QED
      BY <3>1, <3>2
  <2> QED
    BY <2>1, <2>2 DEF LeaseInv
<1>5. MHolder[t] = 0
  BY <1>1 DEF MHolder, SessionFree
<1>6. MHolder' = [MHolder EXCEPT ![t] = w]
  <2>1. ASSUME NEW s \in MSession PROVE MHolder'[s] = IF s = t THEN w ELSE MHolder[s]
    <3>1. MHolder'[s] = (IF mlease'[s].exp > now THEN mlease'[s].w ELSE 0)
          /\ MHolder[s] = (IF mlease[s].exp > now THEN mlease[s].w ELSE 0)
      BY <1>2 DEF MHolder
    <3> QED
      BY <1>1, <1>3, <3>1
  <2>2. MHolder' = [s \in MSession |-> MHolder'[s]] /\ MHolder \in [MSession -> MWork \cup {0}]
    BY <1>1 DEF MHolder
  <2> QED
    BY <2>1, <2>2
<1>7. MGranted' = [MGranted EXCEPT ![w] = @ + 1]
  BY <1>2 DEF MGranted
<1>8. MLock!Grant(w)
  BY <1>5, <1>6, <1>7 DEF MLock!Grant
<1> QED
  BY <1>4, <1>8 DEF MLock!Next

-----------------------------------------------------------------------------
(* The in-memory work store: remembered claims *)

(* A request is remembered once, with the one answer it got; a lease was   *)
(* handed to one request, and no fence beyond its row's.                   *)
AnswerInv ==
  /\ \A i, j \in 1 .. Len(mclaims) : i # j => mclaims[i].req # mclaims[j].req
  /\ \A i \in 1 .. Len(mclaims) : answers[mclaims[i].req] = {mclaims[i].ans}
  /\ \A r \in MRequest : Prior(r) = {} => answers[r] = {}
  /\ \A i, j \in 1 .. Len(mclaims) : i # j => mclaims[i].ans = None \/ mclaims[i].ans # mclaims[j].ans
  /\ \A i \in 1 .. Len(mclaims) : mclaims[i].ans = None \/
       (mclaims[i].ans.w \in MWork /\ mclaims[i].ans.f <= mrow[mclaims[i].ans.w].fence)

FencesGrow == \A x \in MWork : mrow[x].fence \in Nat /\ mrow'[x].fence \in Nat /\ mrow'[x].fence >= mrow[x].fence

LEMMA ClaimFacts ==
  ASSUME ClaimTypes
  PROVE  /\ Len(mclaims) \in Nat
         /\ \A i \in 1 .. Len(mclaims) :
              mclaims[i] \in ClaimRec /\ mclaims[i].req \in MRequest /\ mclaims[i].ans \in Handed /\ mclaims[i].ans.f \in Nat
<1>1. mclaims \in Seq(ClaimRec)
  BY DEF ClaimTypes
<1>2. \A i \in 1 .. Len(mclaims) : mclaims[i] \in ClaimRec
  BY <1>1
<1>3. \A c \in ClaimRec : c.req \in MRequest /\ c.ans \in Handed
  BY DEF ClaimRec
<1>4. \A a \in Handed : a.f \in Nat
  BY DEF Handed
<1> QED
  BY <1>1, <1>2, <1>3, <1>4

LEMMA AnswersKept ==
  ASSUME ClaimTypes, AnswerInv, FencesGrow, mclaims' = mclaims, answers' = answers
  PROVE  AnswerInv'
<1>1. \A i \in 1 .. Len(mclaims) : mclaims[i].ans.f \in Nat
  BY ClaimFacts
<1>2. ASSUME NEW i \in 1 .. Len(mclaims), mclaims[i].ans.w \in MWork, mclaims[i].ans.f <= mrow[mclaims[i].ans.w].fence
      PROVE  mclaims[i].ans.f <= mrow'[mclaims[i].ans.w].fence
  BY <1>1, <1>2 DEF FencesGrow
<1> QED
  BY <1>2 DEF AnswerInv, Prior

LEMMA AnswerRepeated ==
  ASSUME ClaimTypes, AnswerInv, NEW r \in MRequest, NEW i \in Prior(r), Answered(r, mclaims[i].ans, {})
  PROVE  answers' = answers
<1>1. answers[r] = {mclaims[i].ans}
  BY DEF AnswerInv, Prior
<1>2. answers = [q \in MRequest |-> answers[q]]
  BY DEF ClaimTypes
<1>3. answers' = [q \in MRequest |-> (IF q \in {} THEN {} ELSE answers[q]) \cup (IF q = r THEN {mclaims[i].ans} ELSE {})]
  BY DEF Answered
<1>4. \A q \in MRequest : answers'[q] = answers[q]
  BY <1>1, <1>3
<1> QED
  BY <1>2, <1>3, <1>4

(* A fresh request and its answer are remembered, and the oldest one makes *)
(* room.                                                                   *)
LEMMA AnswerRemembered ==
  ASSUME ClaimTypes, AnswerInv, FencesGrow, NEW r \in MRequest, NEW k \in MWorker, NEW ans \in Handed, Prior(r) = {},
         mclaims' = Remember(r, k, ans), Answered(r, ans, Forgotten),
         ans = None \/ (ans.w \in MWork /\ mrow[ans.w].fence < ans.f /\ ans.f <= mrow'[ans.w].fence)
  PROVE  (ClaimTypes /\ AnswerInv)'
<1> DEFINE full == Len(mclaims) >= MaxClaims
           base == IF full THEN Tail(mclaims) ELSE mclaims
           shift == IF full THEN 1 ELSE 0
           e == [req |-> r, by |-> k, ans |-> ans]
           n == Len(base)
<1>1. /\ mclaims \in Seq(ClaimRec) /\ Len(mclaims) \in Nat /\ Len(mclaims) <= MaxClaims /\ MaxClaims \in Nat \ {0}
      /\ e \in ClaimRec /\ e.req = r /\ e.ans = ans
  BY StoreAssumption DEF ClaimTypes, ClaimRec
<1>2. base \in Seq(ClaimRec) /\ n = Len(mclaims) - shift /\ n \in Nat /\ n + 1 <= MaxClaims
      /\ \A i \in 1 .. n : base[i] = mclaims[i + shift] /\ i + shift \in 1 .. Len(mclaims)
  BY <1>1
<1> HIDE DEF e
<1>3. mclaims' = Append(base, e)
  BY DEF Remember, e
<1> HIDE DEF base
<1>4. /\ mclaims' \in Seq(ClaimRec) /\ Len(mclaims') = n + 1 /\ mclaims'[n + 1] = e
      /\ \A i \in 1 .. n : mclaims'[i] = base[i]
  BY <1>1, <1>2, <1>3
<1> HIDE DEF n
<1>5. \A i \in 1 .. n : /\ i + shift \in 1 .. Len(mclaims) /\ mclaims'[i] = mclaims[i + shift]
                        /\ mclaims'[i].req # r /\ mclaims'[i].req \in MRequest /\ mclaims'[i].ans.f \in Nat
  <2>1. \A i \in 1 .. n : i + shift \in 1 .. Len(mclaims) /\ mclaims'[i] = mclaims[i + shift]
    BY <1>2, <1>4
  <2>2. \A i \in 1 .. Len(mclaims) : mclaims[i].req # r
    BY DEF Prior
  <2> HIDE DEF shift
  <2> QED
    BY <2>1, <2>2, ClaimFacts
<1>6. \A i \in 1 .. n + 1 : i \in 1 .. n \/ i = n + 1
  BY <1>2
<1>7. \A i \in 1 .. n : mclaims'[i].req \notin Forgotten
  <2>1. CASE full
    <3>1. \A i \in 1 .. n : i + 1 # 1 /\ i + 1 \in 1 .. Len(mclaims) /\ 1 \in 1 .. Len(mclaims)
      BY <1>1, <1>5, <2>1
    <3>2. \A i \in 1 .. n : mclaims[i + 1].req # mclaims[1].req
      BY <3>1 DEF AnswerInv
    <3> QED
      BY <1>5, <2>1, <3>2 DEF Forgotten
  <2>2. CASE ~full
    BY <2>2 DEF Forgotten
  <2> QED
    BY <2>1, <2>2
<1>8. /\ answers' \in [MRequest -> SUBSET Handed]
      /\ \A q \in MRequest : answers'[q] = (IF q \in Forgotten THEN {} ELSE answers[q]) \cup (IF q = r THEN {ans} ELSE {})
  BY DEF Answered, ClaimTypes
<1>9. answers'[r] = {ans}
  BY <1>8 DEF AnswerInv
<1>10. ClaimTypes'
  BY <1>2, <1>4, <1>8 DEF ClaimTypes
<1>11. ASSUME NEW i \in 1 .. n + 1, NEW j \in 1 .. n + 1, i # j PROVE mclaims'[i].req # mclaims'[j].req
  <2>1. CASE i \in 1 .. n /\ j \in 1 .. n
    <3>1. i + shift # j + shift
      BY <1>11, <2>1
    <3> QED
      BY <1>5, <2>1, <3>1 DEF AnswerInv
  <2>2. CASE i = n + 1 \/ j = n + 1
    BY <1>1, <1>4, <1>5, <1>6, <1>11, <2>2
  <2> QED
    BY <1>6, <2>1, <2>2
<1>12. ASSUME NEW i \in 1 .. n + 1 PROVE answers'[mclaims'[i].req] = {mclaims'[i].ans}
  <2>1. CASE i \in 1 .. n
    <3>1. /\ i + shift \in 1 .. Len(mclaims) /\ mclaims'[i] = mclaims[i + shift]
          /\ mclaims'[i].req # r /\ mclaims'[i].req \in MRequest /\ mclaims'[i].req \notin Forgotten
      BY <1>5, <1>7, <2>1
    <3> HIDE DEF shift
    <3>2. answers'[mclaims'[i].req] = answers[mclaims'[i].req]
      BY <1>8, <3>1
    <3> QED
      BY <3>1, <3>2 DEF AnswerInv
  <2>2. CASE i = n + 1
    BY <1>1, <1>4, <1>9, <2>2
  <2> QED
    BY <1>6, <2>1, <2>2
<1>13. ASSUME NEW q \in MRequest, \A i \in 1 .. n + 1 : mclaims'[i].req # q PROVE answers'[q] = {}
  <2>1. q # r
    BY <1>1, <1>2, <1>4, <1>13
  <2>2. CASE q \in Forgotten
    BY <1>8, <2>1, <2>2
  <2>3. CASE q \notin Forgotten
    <3>1. ASSUME NEW m \in 1 .. Len(mclaims), mclaims[m].req = q PROVE FALSE
      <4>1. m # 1 \/ ~full
        BY <1>1, <2>3, <3>1 DEF Forgotten
      <4>2. m - shift \in 1 .. n
        BY <1>1, <1>2, <4>1
      <4>3. mclaims'[m - shift] = mclaims[m - shift + shift] /\ m - shift + shift = m
        BY <1>5, <4>2
      <4> QED
        BY <1>13, <1>2, <3>1, <4>2, <4>3
    <3> QED
      BY <1>8, <2>1, <2>3, <3>1 DEF AnswerInv, Prior
  <2> QED
    BY <2>2, <2>3
<1>14. ASSUME NEW i \in 1 .. n PROVE mclaims'[i].ans = None \/
         (mclaims'[i].ans.w \in MWork /\ mclaims'[i].ans.f <= mrow[mclaims'[i].ans.w].fence /\ mclaims'[i].ans.f \in Nat)
  <2>1. i + shift \in 1 .. Len(mclaims) /\ mclaims'[i] = mclaims[i + shift] /\ mclaims'[i].ans.f \in Nat
    BY <1>5
  <2> HIDE DEF shift
  <2> QED
    BY <2>1 DEF AnswerInv
<1>15. ASSUME NEW i \in 1 .. n + 1 PROVE mclaims'[i].ans = None \/
         (mclaims'[i].ans.w \in MWork /\ mclaims'[i].ans.f <= mrow'[mclaims'[i].ans.w].fence)
  <2>1. CASE i \in 1 .. n
    <3>1. CASE mclaims'[i].ans = None
      BY <3>1
    <3>2. CASE mclaims'[i].ans # None
      <4>1. /\ mclaims'[i].ans.w \in MWork /\ mclaims'[i].ans.f <= mrow[mclaims'[i].ans.w].fence
            /\ mclaims'[i].ans.f \in Nat
        BY <1>14, <2>1, <3>2
      <4> HIDE DEF n
      <4> QED
        BY <4>1 DEF FencesGrow
    <3> QED
      BY <3>1, <3>2
  <2>2. CASE i = n + 1
    BY <1>1, <1>4, <2>2
  <2> QED
    BY <1>6, <2>1, <2>2
<1>16. ASSUME NEW i \in 1 .. n PROVE ans = None \/ mclaims'[i].ans # ans
  <2>1. ASSUME ans # None, mclaims'[i].ans = ans PROVE FALSE
    <3>1. ans.w \in MWork /\ mrow[ans.w].fence < ans.f /\ ans.f <= mrow[ans.w].fence /\ ans.f \in Nat
      BY <1>14, <2>1
    <3> QED
      BY <3>1 DEF FencesGrow
  <2> QED
    BY <2>1
<1>17. ASSUME NEW i \in 1 .. n + 1, NEW j \in 1 .. n + 1, i # j
       PROVE  mclaims'[i].ans = None \/ mclaims'[i].ans # mclaims'[j].ans
  <2>1. CASE i \in 1 .. n /\ j \in 1 .. n
    <3>1. i + shift # j + shift
      BY <1>17, <2>1
    <3> QED
      BY <1>5, <2>1, <3>1 DEF AnswerInv
  <2>2. CASE i \in 1 .. n /\ j = n + 1
    BY <1>1, <1>4, <1>16, <2>2
  <2>3. CASE i = n + 1 /\ j \in 1 .. n
    BY <1>1, <1>4, <1>16, <2>3
  <2> QED
    BY <1>6, <1>17, <2>1, <2>2, <2>3
<1>18. AnswerInv'
  <2>1. Len(mclaims') = n + 1
    BY <1>4
  <2>2. \A q \in MRequest : Prior(q)' = {} => answers'[q] = {}
    <3>1. ASSUME NEW q \in MRequest, Prior(q)' = {} PROVE \A i \in 1 .. n + 1 : mclaims'[i].req # q
      BY <2>1, <3>1 DEF Prior
    <3> QED
      BY <1>13, <3>1
  <2> HIDE DEF shift
  <2>3. \A i, j \in 1 .. Len(mclaims') : i # j => mclaims'[i].req # mclaims'[j].req
    BY <1>11, <2>1
  <2>4. \A i \in 1 .. Len(mclaims') : answers'[mclaims'[i].req] = {mclaims'[i].ans}
    BY <1>12, <2>1
  <2>5. \A i, j \in 1 .. Len(mclaims') : i # j => mclaims'[i].ans = None \/ mclaims'[i].ans # mclaims'[j].ans
    BY <1>17, <2>1
  <2>6. \A i \in 1 .. Len(mclaims') : mclaims'[i].ans = None \/
          (mclaims'[i].ans.w \in MWork /\ mclaims'[i].ans.f <= mrow'[mclaims'[i].ans.w].fence)
    BY <1>15, <2>1
  <2>7. None' = None
    BY DEF None
  <2> QED
    BY <2>2, <2>3, <2>4, <2>5, <2>6, <2>7 DEF AnswerInv
<1> QED
  BY <1>10, <1>18

LEMMA OneAnswerEach == ClaimTypes /\ AnswerInv => OneAnswer
<1> SUFFICES ASSUME ClaimTypes, AnswerInv PROVE OneAnswer
  OBVIOUS
<1>1. \A i \in 1 .. Len(mclaims) : mclaims[i].ans \in answers[mclaims[i].req]
  BY DEF AnswerInv
<1>2. ASSUME NEW r \in MRequest, Prior(r) # {} PROVE Cardinality(answers[r]) = 1
  <2>1. PICK i \in 1 .. Len(mclaims) : mclaims[i].req = r
    BY <1>2 DEF Prior
  <2>2. answers[r] = {mclaims[i].ans}
    BY <2>1 DEF AnswerInv
  <2> QED
    BY <2>2, FS_Singleton
<1>3. ASSUME NEW r \in MRequest, NEW q \in MRequest, r # q, NEW a \in answers[r] \cap answers[q] PROVE a = None
  <2>0. Prior(r) # {} /\ Prior(q) # {}
    BY <1>3 DEF AnswerInv
  <2>1. PICK i \in 1 .. Len(mclaims) : mclaims[i].req = r
    BY <2>0 DEF Prior
  <2>2. PICK j \in 1 .. Len(mclaims) : mclaims[j].req = q
    BY <2>0 DEF Prior
  <2>3. answers[r] = {mclaims[i].ans} /\ answers[q] = {mclaims[j].ans}
    BY <2>1, <2>2 DEF AnswerInv
  <2>4. i # j /\ a = mclaims[i].ans /\ a = mclaims[j].ans
    BY <1>3, <2>1, <2>2, <2>3
  <2> QED
    BY <2>4 DEF AnswerInv
<1> QED
  BY <1>1, <1>2, <1>3 DEF OneAnswer

-----------------------------------------------------------------------------
(* The in-memory work store: the cascade of cancellations *)

(* The children a cascade has seen are over, and a child that was there    *)
(* when its parent ended is over or its parent's cascade still runs.       *)
Awaited(c) ==
  /\ MParentOf[c] # 0 /\ mrow[c].st # "absent" /\ ~mrow[c].late /\ mrow[MParentOf[c]].st \in Ended
CascadeInv ==
  /\ \A p \in MWork : \A c \in cascade[p].seen : Ceased(c)
  /\ \A c \in MWork : Awaited(c) => Ceased(c) \/ cascade[MParentOf[c]].on

(* Rows that were pruned, while a cascade saw only rows that are over and  *)
(* stopped only when it had seen every child.                              *)
LEMMA CascadePruned ==
  ASSUME CascadeTypes, CascadeInv, Pruned(mrow'),
         \A p \in MWork : \A c \in cascade'[p].seen : c \in cascade[p].seen \/ CeasedIn(mrow', c),
         \A p \in MWork : cascade[p].on => cascade'[p].on \/ Unseen(p) = {}
  PROVE  CascadeInv'
<1>1. \A x \in MWork : (Ceased(x) => CeasedIn(mrow', x)) /\ mrow'[x].late = mrow[x].late /\ (mrow'[x].st = "absent" <=> mrow[x].st = "absent")
  BY DEF Pruned
<1>2. \A p \in MWork : cascade[p].seen \subseteq MWork
  BY DEF CascadeTypes
<1>3. ASSUME NEW p \in MWork, NEW c \in cascade'[p].seen PROVE CeasedIn(mrow', c)
  <2>1. CASE c \in cascade[p].seen
    BY <1>1, <1>2, <2>1 DEF CascadeInv
  <2> QED
    BY <2>1
<1>4. ASSUME NEW c \in MWork, Awaited(c)' PROVE CeasedIn(mrow', c) \/ cascade'[MParentOf[c]].on
  <2> DEFINE p == MParentOf[c]
  <2>1. p \in MWork /\ mrow[c].st # "absent" /\ ~mrow[c].late /\ mrow'[p].st \in Ended
    BY <1>1, <1>4, StoreAssumption DEF Awaited
  <2>2. CASE mrow[p].st \notin Ended
    BY <2>1, <2>2 DEF Pruned
  <2>3. CASE mrow[p].st \in Ended
    <3>1. Ceased(c) \/ cascade[p].on
      BY <1>4, <2>1, <2>3 DEF CascadeInv, Awaited
    <3>2. CASE Ceased(c)
      BY <1>1, <3>2
    <3>3. CASE cascade[p].on /\ Unseen(p) = {}
      <4>1. c \in cascade[p].seen
        BY <2>1, <3>3 DEF Unseen
      <4> QED
        BY <1>1, <2>1, <4>1 DEF CascadeInv
    <3> QED
      BY <2>1, <3>1, <3>2, <3>3
  <2> QED
    BY <2>2, <2>3
<1> QED
  BY <1>3, <1>4 DEF CascadeInv, Ceased, CeasedIn

(* A step on the row w: it ends only with a cascade of its own.            *)
LEMMA CascadeOfRow ==
  ASSUME CascadeTypes, CascadeInv, NEW w \in MWork, OthersKeep(w), Ceased(w) => CeasedIn(mrow', w),
         mrow[w].st = "absent" => mrow'[w].late = (MParentOf[w] # 0 /\ mrow[MParentOf[w]].st \in Ended),
         mrow[w].st # "absent" => mrow'[w].late = mrow[w].late,
         mrow'[w].st \in Ended => mrow[w].st \in Ended \/ cascade'[w].on,
         \A p \in MWork : cascade'[p].seen = cascade[p].seen /\ (cascade[p].on => cascade'[p].on)
  PROVE  CascadeInv'
<1>1. \A x \in MWork \ {w} : mrow'[x] = mrow[x]
  BY DEF OthersKeep
<1>2. \A x \in MWork : Ceased(x) => CeasedIn(mrow', x)
  BY <1>1 DEF Ceased, CeasedIn
<1>3. \A p \in MWork : cascade[p].seen \subseteq MWork
  BY DEF CascadeTypes
<1>4. \A p \in MWork : \A c \in cascade'[p].seen : CeasedIn(mrow', c)
  BY <1>2, <1>3 DEF CascadeInv
<1>5. ASSUME NEW c \in MWork, Awaited(c)' PROVE CeasedIn(mrow', c) \/ cascade'[MParentOf[c]].on
  <2> DEFINE p == MParentOf[c]
  <2>1. p \in MWork /\ mrow'[c].st # "absent" /\ ~mrow'[c].late /\ mrow'[p].st \in Ended
    BY <1>5, StoreAssumption DEF Awaited
  <2>2. CASE mrow[p].st \notin Ended
    BY <1>1, <2>1, <2>2
  <2>3. CASE mrow[p].st \in Ended
    <3>1. Awaited(c)
      <4>1. CASE c = w
        BY <1>5, <2>1, <2>3, <4>1 DEF Awaited
      <4>2. CASE c # w
        BY <1>1, <1>5, <2>1, <2>3, <4>2 DEF Awaited
      <4> QED
        BY <4>1, <4>2
    <3>2. Ceased(c) \/ cascade[p].on
      BY <3>1 DEF CascadeInv
    <3> QED
      BY <1>2, <2>1, <3>2
  <2> QED
    BY <2>2, <2>3
<1> QED
  BY <1>4, <1>5 DEF CascadeInv, Ceased, CeasedIn

LEMMA NoneLeft == RowTypes /\ CascadeInv => NoOrphans
<1> SUFFICES ASSUME RowTypes, CascadeInv, NEW w \in MWork, MParentOf[w] # 0, mrow[MParentOf[w]].st \in Ended,
                    ~mrow[w].late, \A p \in MWork : ~cascade[p].on, mrow[w].st # "absent"
             PROVE  mrow[w].st \in Ended \/ mrow[w].cancel
  BY DEF NoOrphans
<1>1. Awaited(w)
  BY DEF Awaited
<1>2. MParentOf[w] \in MWork
  BY StoreAssumption
<1> QED
  BY <1>1, <1>2 DEF CascadeInv, Ceased, CeasedIn

LEMMA MapsOfLeases == StoreTyped /\ LeaseInv => MapsAgree
<1> SUFFICES ASSUME StoreTyped, LeaseInv, NEW w \in MWork
             PROVE  ValidLease(w, mrow[w].fence) <=> Matches(w, mrow[w].fence) /\ mlease[MSessionOf[w]].exp > now
  BY DEF MapsAgree
<1>1. mrow[w].fence \in Nat /\ MSessionOf[w] \in MSession /\ w # 0
  BY LeaseFacts
<1>2. ASSUME ValidLease(w, mrow[w].fence) PROVE Matches(w, mrow[w].fence) /\ mlease[MSessionOf[w]].exp > now
  BY <1>1, <1>2, ValidHolds
<1>3. ASSUME Matches(w, mrow[w].fence), mlease[MSessionOf[w]].exp > now PROVE ValidLease(w, mrow[w].fence)
  BY <1>1, <1>3 DEF LeaseInv, Matches, ValidLease
<1> QED
  BY <1>2, <1>3

-----------------------------------------------------------------------------
(* The in-memory work store: the invariant and the operations *)

StoreInv == StoreTyped /\ ClaimTypes /\ CascadeTypes /\ LeaseInv /\ AnswerInv /\ CascadeInv
StoreKeeps == StoreInv' /\ [MLock!Next]_(MLock!vars)

LEMMA LeasesTyped ==
  ASSUME StoreTyped, NEW w \in MWork, NEW f \in Nat
  PROVE  /\ ReleaseSessionLease(w, f) \in [MSession -> LeaseRec] /\ ExtendSession(w, f) \in [MSession -> LeaseRec]
         /\ \A e \in LeaseRec : [Swept EXCEPT ![MSessionOf[w]] = e] \in [MSession -> LeaseRec]
<1>1. NoLease \in LeaseRec /\ mlease \in [MSession -> LeaseRec]
  BY LeaseFacts DEF NoLease, LeaseRec
<1>2. now + LeaseTtl \in Nat
  BY LeaseFacts
<1>3. ExtendSession(w, f) \in [MSession -> LeaseRec]
  BY <1>1, <1>2 DEF ExtendSession, LeaseRec
<1> QED
  BY <1>1, <1>3, SweptLeases DEF ReleaseSessionLease

(* One row changes.                                                        *)
LEMMA RowChanged ==
  ASSUME RowTypes, NEW w \in MWork, NEW e \in RowRec, e.ver \in 1 .. MaxSteer[w] + 1,
         mrow' = [mrow EXCEPT ![w] = e], now' = now
  PROVE  RowTypes' /\ OthersKeep(w) /\ mrow'[w] = e
<1>1. mrow \in [MWork -> RowRec] /\ Revisions(mrow)
  BY DEF RowTypes
<1>2. mrow' \in [MWork -> RowRec] /\ mrow'[w] = e /\ \A x \in MWork \ {w} : mrow'[x] = mrow[x]
  BY <1>1
<1>3. Revisions(mrow')
  BY <1>1, <1>2 DEF Revisions
<1> QED
  BY <1>2, <1>3 DEF RowTypes, OthersKeep

LEMMA RowFacts ==
  ASSUME StoreTyped, NEW w \in MWork
  PROVE  /\ mrow[w] \in RowRec /\ mrow[w].ver \in 1 .. MaxSteer[w] + 1 /\ mrow[w].ver \in Nat /\ MaxSteer[w] \in Nat
         /\ mrow[w].fence \in Nat /\ mrow[w].exp \in Nat /\ mrow[w].cancel \in BOOLEAN
         /\ now \in Nat /\ now + 1 \in Nat /\ now + LeaseTtl \in Nat
<1>1. mrow[w] \in RowRec /\ Revisions(mrow) /\ now \in Nat
  BY LeaseFacts DEF StoreTyped, RowTypes
<1>2. \A e \in RowRec : e.ver \in Nat /\ e.fence \in Nat /\ e.exp \in Nat /\ e.cancel \in BOOLEAN
  BY DEF RowRec
<1>3. LeaseTtl \in Nat /\ MaxSteer[w] \in Nat
  BY StoreAssumption
<1> QED
  BY <1>1, <1>2, <1>3 DEF Revisions

(* Steps that change no fence, no remembered claim and no lease of a row.  *)
LEMMA QuietStep ==
  ASSUME StoreInv, Calm(mrow'), mlease' = mlease, mroute' = mroute, mclaims' = mclaims, answers' = answers,
         now' \in 0 .. MaxNow, now' >= now, CascadeTypes', CascadeInv'
  PROVE  StoreKeeps
<1>1. StoreTyped /\ ClaimTypes /\ LeaseInv /\ AnswerInv
  BY DEF StoreInv
<1>2. LeaseInv' /\ [MLock!Next]_(MLock!vars)
  BY <1>1, LeaseQuiet
<1>3. FencesGrow
  BY <1>1, LeaseFacts DEF Calm, FencesGrow
<1>4. ClaimTypes' /\ AnswerInv'
  BY <1>1, <1>3, AnswersKept DEF ClaimTypes
<1>5. StoreTyped'
  BY <1>1 DEF StoreTyped, RowTypes, Calm, LeaseTypes, TimeType
<1> QED
  BY <1>2, <1>4, <1>5 DEF StoreInv, StoreKeeps

LEMMA TreeStep ==
  ASSUME StoreInv, NEW w \in MWork, mrow' = mrow \/ mrow' = CancelTree(mrow, w),
         UNCHANGED <<now, mlease, mroute, mclaims, answers>>, CascadeTypes',
         \A p \in MWork : \A c \in cascade'[p].seen : c \in cascade[p].seen \/ CeasedIn(mrow', c),
         \A p \in MWork : cascade[p].on => cascade'[p].on \/ Unseen(p) = {}
  PROVE  StoreKeeps
<1>1. RowTypes /\ now \in 0 .. MaxNow /\ now \in Nat /\ CascadeTypes /\ CascadeInv
  BY LeaseFacts DEF StoreInv, StoreTyped, TimeType
<1>2. Calm(mrow') /\ Pruned(mrow')
  <2>1. CASE mrow' = mrow
    BY <1>1, <2>1 DEF Calm, Pruned, RowTypes, Ceased
  <2>2. CASE mrow' = CancelTree(mrow, w)
    BY <1>1, <2>2, CancelTreeRows
  <2> QED
    BY <2>1, <2>2
<1>3. CascadeInv'
  BY <1>1, <1>2, CascadePruned
<1> QED
  BY <1>1, <1>2, <1>3, QuietStep

LEMMA TickStep == ASSUME StoreInv, Tick PROVE StoreKeeps
<1>1. StoreTyped /\ CascadeTypes /\ CascadeInv
  BY DEF StoreInv
<1>2. now' \in 0 .. MaxNow /\ now' >= now
  BY <1>1, LeaseFacts DEF Tick, StoreTyped, TimeType
<1>3. Calm(mrow') /\ UNCHANGED <<mrow, mlease, mroute, mclaims, cascade, answers>>
  BY <1>1 DEF Tick, Calm, StoreTyped, RowTypes
<1>4. CascadeTypes' /\ CascadeInv'
  BY <1>1, <1>3 DEF CascadeTypes, CascadeInv, Awaited, Ceased
<1> QED
  BY <1>2, <1>3, <1>4, QuietStep

LEMMA ReplayStep == ASSUME StoreInv, NEW k \in MWorker, NEW r \in MRequest, Replay(k, r) PROVE StoreKeeps
<1>1. StoreTyped /\ ClaimTypes /\ AnswerInv /\ CascadeTypes /\ CascadeInv
  BY DEF StoreInv
<1>2. PICK i \in Prior(r) : Answered(r, mclaims[i].ans, {})
  BY DEF Replay
<1>3. answers' = answers
  BY <1>1, <1>2, AnswerRepeated
<1>4. UNCHANGED <<now, mrow, mlease, mroute, mclaims, cascade>>
  BY DEF Replay
<1>5. now' \in 0 .. MaxNow /\ now' >= now /\ Calm(mrow')
  BY <1>1, <1>4, LeaseFacts DEF StoreTyped, TimeType, Calm, RowTypes
<1>6. CascadeTypes' /\ CascadeInv'
  BY <1>1, <1>4 DEF CascadeTypes, CascadeInv, Awaited, Ceased
<1> QED
  BY <1>3, <1>4, <1>5, <1>6, QuietStep

LEMMA CancelStep == ASSUME StoreInv, NEW w \in MWork, RequestCancel(w) \/ CascadeChild(w) PROVE StoreKeeps
<1>1. CascadeTypes /\ RowTypes /\ \A p \in MWork : cascade[p].seen \subseteq MWork
  BY DEF StoreInv, StoreTyped, CascadeTypes
<1>2. CASE RequestCancel(w)
  <2>1. mrow' = CancelTree(mrow, w) /\ UNCHANGED <<now, mlease, mroute, mclaims, cascade, answers>>
    BY <1>2 DEF RequestCancel
  <2> QED
    BY <1>1, <2>1, TreeStep DEF CascadeTypes
<1>3. CASE CascadeChild(w) /\ Unseen(w) = {}
  <2>1. cascade' = [cascade EXCEPT ![w] = Idle] /\ UNCHANGED <<now, mrow, mlease, mroute, mclaims, answers>>
    BY <1>3 DEF CascadeChild
  <2>2. CascadeTypes' /\ \A p \in MWork : cascade'[p] = IF p = w THEN Idle ELSE cascade[p]
    BY <1>1, <2>1 DEF CascadeTypes, Idle
  <2>3. \A p \in MWork : cascade'[p].seen \subseteq cascade[p].seen
    BY <2>2 DEF Idle
  <2>4. \A p \in MWork : cascade[p].on => cascade'[p].on \/ Unseen(p) = {}
    BY <1>3, <2>2
  <2> QED
    BY <2>1, <2>2, <2>3, <2>4, TreeStep
<1>4. ASSUME CascadeChild(w), Unseen(w) # {} PROVE StoreKeeps
  <2>1. PICK c \in Unseen(w) : mrow' = CancelTree(mrow, c) /\ cascade' = [cascade EXCEPT ![w].seen = @ \cup {c}]
    BY <1>4 DEF CascadeChild
  <2>2. c \in MWork /\ mrow[c].st # "absent" /\ CeasedIn(mrow', c)
    BY <1>1, <2>1, CancelTreeRows DEF Unseen
  <2>3. CascadeTypes' /\ \A p \in MWork : cascade'[p].on = cascade[p].on /\ cascade'[p].seen \subseteq cascade[p].seen \cup {c}
    BY <1>1, <2>1, <2>2 DEF CascadeTypes
  <2>4. UNCHANGED <<now, mlease, mroute, mclaims, answers>>
    BY <1>4 DEF CascadeChild
  <2>5. \A p \in MWork : \A x \in cascade'[p].seen : x \in cascade[p].seen \/ CeasedIn(mrow', x)
    BY <2>2, <2>3
  <2> QED
    BY <2>1, <2>2, <2>3, <2>4, <2>5, TreeStep
<1> QED
  BY <1>2, <1>3, <1>4

LEMMA CascadeStarted ==
  ASSUME CascadeTypes, NEW w \in MWork, cascade' = cascade \/ cascade' = [cascade EXCEPT ![w].on = TRUE]
  PROVE  CascadeTypes' /\ \A p \in MWork : cascade'[p].seen = cascade[p].seen /\ (cascade[p].on => cascade'[p].on)
<1>1. CASE cascade' = cascade
  BY <1>1 DEF CascadeTypes
<1>2. CASE cascade' = [cascade EXCEPT ![w].on = TRUE]
  <2>1. cascade[w] \in [on : BOOLEAN, seen : SUBSET MWork]
    BY DEF CascadeTypes
  <2>2. [cascade[w] EXCEPT !.on = TRUE] \in [on : BOOLEAN, seen : SUBSET MWork]
    BY <2>1
  <2>3. \A p \in MWork : cascade'[p] = IF p = w THEN [cascade[w] EXCEPT !.on = TRUE] ELSE cascade[p]
    BY <1>2 DEF CascadeTypes
  <2>4. CascadeTypes'
    BY <1>2, <2>2 DEF CascadeTypes
  <2> QED
    BY <2>1, <2>3, <2>4
<1> QED
  BY <1>1, <1>2

LEMMA RowOnlyStep ==
  ASSUME StoreInv, NEW w \in MWork, Enqueue(w) \/ RequestPreempt(w) \/ AddSteer(w)
  PROVE  StoreKeeps
<1>1. /\ StoreTyped /\ CascadeTypes /\ CascadeInv /\ RowTypes /\ now' = now /\ now \in 0 .. MaxNow
      /\ mrow \in [MWork -> RowRec]
  BY DEF StoreInv, StoreTyped, TimeType, RowTypes, Enqueue, RequestPreempt, AddSteer
<1>2. /\ mrow[w] \in RowRec /\ mrow[w].ver \in 1 .. MaxSteer[w] + 1 /\ mrow[w].ver \in Nat /\ MaxSteer[w] \in Nat
      /\ now \in Nat
  BY <1>1, RowFacts
<1>3. SUFFICES ASSUME NEW e \in RowRec, e.ver \in 1 .. MaxSteer[w] + 1, mrow' = [mrow EXCEPT ![w] = e],
                      e.fence = mrow[w].fence, e.exp = mrow[w].exp, e.st = "leased" <=> mrow[w].st = "leased",
                      Ceased(w) => e.st \in Ended \/ e.cancel, e.st \notin Ended,
                      mrow[w].st = "absent" => e.late = (MParentOf[w] # 0 /\ mrow[MParentOf[w]].st \in Ended),
                      mrow[w].st # "absent" => e.late = mrow[w].late,
                      UNCHANGED <<now, mlease, mroute, mclaims, answers>>,
                      cascade' = cascade \/ cascade' = [cascade EXCEPT ![w].on = TRUE]
               PROVE  StoreKeeps
  <2>1. CASE Enqueue(w)
    <3> DEFINE late == MParentOf[w] # 0 /\ mrow[MParentOf[w]].st \in Ended
               e == [mrow[w] EXCEPT !.st = "queued", !.avail = now, !.late = late]
    <3>1. mrow[w].st = "absent" /\ mrow' = [mrow EXCEPT ![w] = e]
      BY <1>1, <2>1 DEF Enqueue
    <3>2. late \in BOOLEAN /\ "queued" \in Active \cup Ended \cup {"absent"}
      BY DEF Active
    <3> HIDE DEF late
    <3>3. e \in RowRec /\ e.fence = mrow[w].fence /\ e.exp = mrow[w].exp /\ e.ver = mrow[w].ver /\ e.st = "queued"
          /\ e.late = late /\ e.cancel = mrow[w].cancel
      BY <1>2, <3>2 DEF RowRec
    <3> HIDE DEF e
    <3> QED
      BY <1>1, <1>2, <1>3, <2>1, <3>1, <3>3 DEF Enqueue, Ceased, CeasedIn, Ended, late
  <2>2. CASE RequestPreempt(w)
    <3> DEFINE e == [mrow[w] EXCEPT !.preempt = TRUE]
    <3>1. mrow[w].st = "leased" /\ mrow' = [mrow EXCEPT ![w] = e]
      BY <1>1, <2>2 DEF RequestPreempt
    <3>2. e \in RowRec /\ e.fence = mrow[w].fence /\ e.exp = mrow[w].exp /\ e.ver = mrow[w].ver /\ e.st = mrow[w].st
          /\ e.late = mrow[w].late /\ e.cancel = mrow[w].cancel
      BY <1>2 DEF RowRec
    <3> HIDE DEF e
    <3> QED
      BY <1>1, <1>2, <1>3, <2>2, <3>1, <3>2 DEF RequestPreempt, Ceased, CeasedIn, Ended
  <2>3. CASE AddSteer(w)
    <3> DEFINE st == IF mrow[w].st = "waiting" THEN "queued" ELSE mrow[w].st
               e == [mrow[w] EXCEPT !.ver = @ + 1, !.st = st]
    <3>1. mrow[w].st \in Active /\ ~mrow[w].cancel /\ mrow[w].ver <= MaxSteer[w] /\ mrow' = [mrow EXCEPT ![w] = e]
      BY <1>1, <2>3 DEF AddSteer
    <3>2. st \in Active /\ st \in Active \cup Ended \cup {"absent"}
      BY <3>1 DEF Active
    <3>3. st = "leased" <=> mrow[w].st = "leased"
      OBVIOUS
    <3> HIDE DEF st
    <3>4. e \in RowRec /\ e.fence = mrow[w].fence /\ e.exp = mrow[w].exp /\ e.ver = mrow[w].ver + 1 /\ e.st = st
          /\ e.late = mrow[w].late /\ e.cancel = mrow[w].cancel
      <4> DEFINE v == mrow[w].ver + 1
      <4>1. v \in Nat /\ e = [mrow[w] EXCEPT !.ver = v, !.st = st]
        BY <1>2
      <4> HIDE DEF v, e
      <4>2. e \in RowRec
        BY <1>2, <3>2, <4>1 DEF RowRec
      <4>3. e.fence = mrow[w].fence /\ e.exp = mrow[w].exp /\ e.ver = v /\ e.st = st
            /\ e.late = mrow[w].late /\ e.cancel = mrow[w].cancel
        BY <1>2, <4>1 DEF RowRec
      <4> QED
        BY <4>2, <4>3 DEF v
    <3> HIDE DEF e
    <3>5. e.ver \in 1 .. MaxSteer[w] + 1
      BY <1>2, <3>1, <3>4
    <3> QED
      BY <1>1, <1>2, <1>3, <2>3, <3>1, <3>2, <3>3, <3>4, <3>5 DEF AddSteer, Ceased, CeasedIn, Ended, Active
  <2> QED
    BY <2>1, <2>2, <2>3
<1>4. RowTypes' /\ OthersKeep(w) /\ mrow'[w] = e
  BY <1>1, <1>3, RowChanged
<1>5. Calm(mrow')
  BY <1>1, <1>3, <1>4 DEF Calm, RowTypes, OthersKeep
<1>6. CascadeTypes' /\ \A p \in MWork : cascade'[p].seen = cascade[p].seen /\ (cascade[p].on => cascade'[p].on)
  BY <1>1, <1>3, CascadeStarted
<1>7. CascadeInv'
  BY <1>1, <1>3, <1>4, <1>6, CascadeOfRow DEF CeasedIn
<1> QED
  BY <1>1, <1>2, <1>3, <1>5, <1>6, <1>7, QuietStep

LEMMA ClaimNothingStep ==
  ASSUME StoreInv, NEW k \in MWorker, NEW r \in MRequest, ClaimNothing(k, r)
  PROVE  StoreKeeps
<1>1. StoreTyped /\ ClaimTypes /\ CascadeTypes /\ LeaseInv /\ AnswerInv /\ CascadeInv
  BY DEF StoreInv
<1>2. /\ Prior(r) = {} /\ mclaims' = Remember(r, k, None) /\ Answered(r, None, Forgotten) /\ mlease' = Swept
      /\ UNCHANGED <<now, mrow, mroute, cascade>>
  BY DEF ClaimNothing
<1>3. now' \in 0 .. MaxNow /\ now' >= now /\ Calm(mrow') /\ FencesGrow
  BY <1>1, <1>2, LeaseFacts DEF StoreTyped, TimeType, Calm, RowTypes, FencesGrow
<1>4. LeaseInv' /\ [MLock!Next]_(MLock!vars)
  BY <1>1, <1>2, <1>3, LeaseQuiet
<1>5. None \in Handed
  BY DEF None, Handed
<1>6. ClaimTypes' /\ AnswerInv'
  BY <1>1, <1>2, <1>3, <1>5, AnswerRemembered
<1>7. StoreTyped'
  BY <1>1, <1>2, SweptLeases DEF StoreTyped, RowTypes, LeaseTypes, TimeType
<1>8. CascadeTypes' /\ CascadeInv'
  BY <1>1, <1>2 DEF CascadeTypes, CascadeInv, Awaited, Ceased
<1> QED
  BY <1>4, <1>6, <1>7, <1>8 DEF StoreInv, StoreKeeps

LEMMA ClaimStep ==
  ASSUME StoreInv, NEW k \in MWorker, NEW r \in MRequest, NEW w \in MWork, Claim(k, r, w)
  PROVE  StoreKeeps
<1> DEFINE s == MSessionOf[w]
           f == mrow[w].fence + 1
           x == now + LeaseTtl
           e == [mrow[w] EXCEPT !.st = "leased", !.fence = f, !.exp = x]
           ans == [w |-> w, f |-> f]
           l == [w |-> w, f |-> f, exp |-> x]
<1>1. /\ StoreTyped /\ ClaimTypes /\ CascadeTypes /\ LeaseInv /\ AnswerInv /\ CascadeInv /\ RowTypes /\ LeaseTypes
      /\ mrow \in [MWork -> RowRec] /\ s \in MSession
  BY LeaseFacts DEF StoreInv, StoreTyped
<1>2. /\ mrow[w] \in RowRec /\ mrow[w].ver \in 1 .. MaxSteer[w] + 1 /\ mrow[w].fence \in Nat /\ x \in Nat /\ f \in Nat
      /\ f = mrow[w].fence + 1
  BY <1>1, RowFacts
<1>3. /\ Prior(r) = {} /\ Ready(w) /\ SessionFree(w) /\ UNCHANGED <<now, cascade>>
      /\ mrow' = [mrow EXCEPT ![w] = e] /\ mlease' = [Swept EXCEPT ![s] = l]
      /\ mroute' = IF mroute[s].by = k THEN mroute ELSE [mroute EXCEPT ![s] = [by |-> k, epoch |-> @.epoch + 1]]
      /\ mclaims' = Remember(r, k, ans) /\ Answered(r, ans, Forgotten)
  BY <1>1 DEF Claim, Claimable
<1> HIDE DEF f, x
<1>4. e \in RowRec /\ e.st = "leased" /\ e.fence = f /\ e.exp = x /\ e.ver = mrow[w].ver /\ e.late = mrow[w].late
      /\ e.cancel = mrow[w].cancel
  BY <1>2 DEF RowRec, Active
<1>5. ans \in Handed /\ ans.w = w /\ ans.f = f /\ l \in LeaseRec
  BY <1>2 DEF Handed, LeaseRec
<1> HIDE DEF e, ans, l
<1>6. RowTypes' /\ OthersKeep(w) /\ mrow'[w] = e
  BY <1>1, <1>2, <1>3, <1>4, RowChanged
<1>7. LeaseInv' /\ [MLock!Next]_(MLock!vars)
  BY <1>1, <1>3, <1>4, <1>6, LeaseGranted DEF f, x, l
<1>8. FencesGrow
  <2>1. \A y \in MWork : mrow[y].fence \in Nat
    BY <1>1, LeaseFacts
  <2> QED
    BY <1>2, <1>4, <1>6, <2>1 DEF FencesGrow, OthersKeep
<1>9. ClaimTypes' /\ AnswerInv'
  <2>1. ans.w \in MWork /\ mrow[ans.w].fence < ans.f /\ ans.f <= mrow'[ans.w].fence
    BY <1>2, <1>4, <1>5, <1>6
  <2> QED
    BY <1>1, <1>3, <1>5, <1>8, <2>1, AnswerRemembered
<1>10. LeaseTypes' /\ TimeType'
  <2>1. mlease' \in [MSession -> LeaseRec]
    BY <1>1, <1>2, <1>3, <1>5, LeasesTyped
  <2>2. mroute' \in [MSession -> [by : MWorker \cup {"none"}, epoch : Nat]]
    BY <1>1, <1>3 DEF LeaseTypes
  <2> QED
    BY <1>1, <1>3, <2>1, <2>2 DEF LeaseTypes, TimeType, StoreTyped
<1>11. ~Ceased(w) /\ mrow[w].st # "absent"
  BY <1>3 DEF Ready, Ceased, CeasedIn, Ended
<1>12. CascadeTypes' /\ CascadeInv'
  <2>1. "leased" \notin Ended
    BY DEF Ended
  <2> QED
    BY <1>1, <1>3, <1>4, <1>6, <1>11, <2>1, CascadeOfRow DEF CascadeTypes
<1> QED
  BY <1>6, <1>7, <1>9, <1>10, <1>12 DEF StoreInv, StoreKeeps, StoreTyped

(* What an attempt does under its valid lease: it keeps or ends the lease, *)
(* and a run that ends starts the cascade to its children.                 *)
LEMMA AttemptStep ==
  ASSUME StoreInv, NEW w \in MWork, NEW f \in Nat,
         \/ Heartbeat(w, f) \/ YieldWork(w, f)
         \/ \E st \in {"succeeded", "failed", "cancelled", "waiting"}, v \in 1 .. mrow[w].ver : Settle(w, f, st, v)
  PROVE  StoreKeeps
<1> DEFINE x == now + LeaseTtl
<1>1. /\ StoreTyped /\ ClaimTypes /\ CascadeTypes /\ LeaseInv /\ AnswerInv /\ CascadeInv /\ RowTypes /\ LeaseTypes
      /\ mrow \in [MWork -> RowRec] /\ TimeType
  BY DEF StoreInv, StoreTyped, RowTypes
<1>2. /\ mrow[w] \in RowRec /\ mrow[w].ver \in 1 .. MaxSteer[w] + 1 /\ mrow[w].fence \in Nat /\ x \in Nat /\ now + 1 \in Nat
      /\ f + 1 \in Nat
  BY <1>1, RowFacts
<1>3. /\ ValidLease(w, f) /\ UNCHANGED <<now, mroute, mclaims, answers>>
  BY DEF Heartbeat, YieldWork, Settle
<1>4. mrow[w].st = "leased" /\ mrow[w].fence = f
  BY <1>3 DEF ValidLease
<1>5. SUFFICES ASSUME NEW e \in RowRec, mrow' = [mrow EXCEPT ![w] = e], e.ver = mrow[w].ver, e.late = mrow[w].late,
                      e.cancel = mrow[w].cancel,
                      \/ e.st = "leased" /\ e.fence = f /\ e.exp = x /\ mlease' = ExtendSession(w, f)
                      \/ e.st # "leased" /\ e.fence \in {f, f + 1} /\ mlease' = ReleaseSessionLease(w, f),
                      \/ cascade' = cascade /\ e.st \notin Ended
                      \/ cascade' = [cascade EXCEPT ![w].on = TRUE]
               PROVE  StoreKeeps
  <2>1. CASE Heartbeat(w, f)
    <3> DEFINE e == [mrow[w] EXCEPT !.exp = x]
    <3>1. mrow' = [mrow EXCEPT ![w] = e] /\ mlease' = ExtendSession(w, f) /\ cascade' = cascade
      BY <1>1, <2>1 DEF Heartbeat
    <3> HIDE DEF x
    <3>2. e \in RowRec /\ e.st = "leased" /\ e.fence = f /\ e.exp = x /\ e.ver = mrow[w].ver /\ e.late = mrow[w].late
          /\ e.cancel = mrow[w].cancel
      BY <1>2, <1>4 DEF RowRec
    <3> HIDE DEF e
    <3>3. e.st \notin Ended
      BY <3>2 DEF Ended
    <3> QED
      BY <1>5, <3>1, <3>2, <3>3
  <2>2. CASE YieldWork(w, f)
    <3> DEFINE e == [mrow[w] EXCEPT !.st = "queued", !.fence = f + 1, !.exp = 0, !.preempt = FALSE, !.avail = now + 1]
    <3>1. mrow' = [mrow EXCEPT ![w] = e] /\ mlease' = ReleaseSessionLease(w, f) /\ cascade' = cascade
      BY <1>1, <2>2 DEF YieldWork
    <3>2. e \in RowRec /\ e.st = "queued" /\ e.fence = f + 1 /\ e.ver = mrow[w].ver /\ e.late = mrow[w].late
          /\ e.cancel = mrow[w].cancel
      BY <1>2, <1>4 DEF RowRec, Active
    <3> HIDE DEF e
    <3>3. e.st \notin Ended
      BY <3>2 DEF Ended
    <3> QED
      BY <1>5, <3>1, <3>2, <3>3
  <2>3. ASSUME NEW st \in {"succeeded", "failed", "cancelled", "waiting"}, NEW v \in 1 .. mrow[w].ver, Settle(w, f, st, v)
        PROVE  StoreKeeps
    <3> DEFINE e == [mrow[w] EXCEPT !.st = st, !.exp = 0]
    <3>1. mrow' = [mrow EXCEPT ![w] = e] /\ mlease' = ReleaseSessionLease(w, f)
          /\ cascade' = IF st = "waiting" THEN cascade ELSE [cascade EXCEPT ![w].on = TRUE]
      BY <1>1, <2>3 DEF Settle
    <3>2. st \in Active \cup Ended \cup {"absent"} /\ st # "leased" /\ (st = "waiting" => st \notin Ended)
      BY DEF Active, Ended
    <3>3. e \in RowRec /\ e.st = st /\ e.fence = f /\ e.ver = mrow[w].ver /\ e.late = mrow[w].late
          /\ e.cancel = mrow[w].cancel
      BY <1>2, <1>4, <3>2 DEF RowRec
    <3> HIDE DEF e
    <3> QED
      BY <1>5, <3>1, <3>2, <3>3
  <2> QED
    BY <2>1, <2>2, <2>3
<1>6. RowTypes' /\ OthersKeep(w) /\ mrow'[w] = e
  BY <1>1, <1>2, <1>3, <1>5, RowChanged
<1>7. LeaseInv' /\ [MLock!Next]_(MLock!vars)
  <2>1. CASE e.st = "leased" /\ e.fence = f /\ e.exp = x /\ mlease' = ExtendSession(w, f)
    BY <1>1, <1>3, <1>6, <2>1, LeaseRenewed
  <2>2. CASE e.st # "leased" /\ e.fence \in {f, f + 1} /\ mlease' = ReleaseSessionLease(w, f)
    BY <1>1, <1>3, <1>6, <2>2, LeaseEnd
  <2> QED
    BY <1>5, <2>1, <2>2
<1>8. FencesGrow
  <2>1. \A y \in MWork : mrow[y].fence \in Nat
    BY <1>1, LeaseFacts
  <2>2. e.fence \in Nat /\ e.fence >= mrow[w].fence
    BY <1>2, <1>4, <1>5
  <2> QED
    BY <1>2, <1>6, <2>1, <2>2 DEF FencesGrow, OthersKeep
<1>9. ClaimTypes' /\ AnswerInv'
  BY <1>1, <1>3, <1>8, AnswersKept DEF ClaimTypes
<1>10. LeaseTypes' /\ TimeType'
  <2>1. mlease' \in [MSession -> LeaseRec]
    BY <1>1, <1>5, LeasesTyped
  <2> QED
    BY <1>1, <1>3, <2>1 DEF LeaseTypes, TimeType
<1>11. CascadeTypes' /\ \A p \in MWork : cascade'[p].seen = cascade[p].seen /\ (cascade[p].on => cascade'[p].on)
  BY <1>1, <1>5, CascadeStarted
<1>12. e.st \in Ended => cascade'[w].on
  BY <1>1, <1>5 DEF CascadeTypes
<1>13. Ceased(w) => CeasedIn(mrow', w)
  BY <1>4, <1>5, <1>6 DEF Ceased, CeasedIn, Ended
<1>14. CascadeInv'
  BY <1>1, <1>4, <1>5, <1>6, <1>11, <1>12, <1>13, CascadeOfRow
<1> QED
  BY <1>6, <1>7, <1>9, <1>10, <1>11, <1>14 DEF StoreInv, StoreKeeps, StoreTyped

LEMMA StoreStep == ASSUME StoreInv, [StoreNext]_mvars PROVE StoreKeeps
<1>1. CASE Tick
  BY <1>1, TickStep
<1>2. ASSUME NEW w \in MWork, Enqueue(w) \/ RequestCancel(w) \/ RequestPreempt(w) \/ AddSteer(w) \/ CascadeChild(w)
      PROVE  StoreKeeps
  BY <1>2, RowOnlyStep, CancelStep
<1>3. ASSUME NEW k \in MWorker, NEW r \in MRequest,
             Replay(k, r) \/ ClaimNothing(k, r) \/ \E w \in MWork : Claim(k, r, w)
      PROVE  StoreKeeps
  BY <1>3, ReplayStep, ClaimNothingStep, ClaimStep
<1>4. ASSUME NEW w \in MWork, NEW f \in 1 .. mrow[w].fence,
             \/ Heartbeat(w, f) \/ YieldWork(w, f)
             \/ \E st \in {"succeeded", "failed", "cancelled", "waiting"}, v \in 1 .. mrow[w].ver : Settle(w, f, st, v)
      PROVE  StoreKeeps
  <2>1. f \in Nat
    OBVIOUS
  <2> QED
    BY <1>4, <2>1, AttemptStep
<1>5. CASE UNCHANGED mvars
  <2>1. /\ StoreTyped /\ CascadeTypes /\ CascadeInv /\ UNCHANGED <<now, mrow, mlease, mroute, mclaims, cascade, answers>>
    BY <1>5 DEF StoreInv, mvars
  <2>2. now' \in 0 .. MaxNow /\ now' >= now /\ Calm(mrow')
    BY <2>1, LeaseFacts DEF StoreTyped, TimeType, Calm, RowTypes
  <2>3. CascadeTypes' /\ CascadeInv'
    BY <2>1 DEF CascadeTypes, CascadeInv, Awaited, Ceased
  <2> QED
    BY <2>1, <2>2, <2>3, QuietStep
<1> QED
  BY <1>1, <1>2, <1>3, <1>4, <1>5 DEF StoreNext

LEMMA StoreInitInv == StoreInit => StoreInv /\ MLock!Init
<1> SUFFICES ASSUME StoreInit PROVE StoreInv /\ MLock!Init
  OBVIOUS
<1>1. \A w \in MWork : mrow[w] = [st |-> "absent", fence |-> 0, exp |-> 0, avail |-> 0, cancel |-> FALSE,
                                  preempt |-> FALSE, ver |-> 1, late |-> FALSE]
  BY DEF StoreInit
<1>2. StoreTyped
  <2>1. RowTypes
    BY StoreAssumption DEF StoreInit, RowTypes, RowRec, Revisions
  <2>2. LeaseTypes
    BY DEF StoreInit, LeaseTypes, LeaseRec, NoLease
  <2>3. TimeType
    BY StoreAssumption DEF StoreInit, TimeType
  <2> QED
    BY <2>1, <2>2, <2>3 DEF StoreTyped
<1>3. mclaims = <<>> /\ Len(mclaims) = 0 /\ \A r \in MRequest : answers[r] = {}
  BY DEF StoreInit
<1>4. ClaimTypes /\ AnswerInv
  <2>1. ClaimTypes
    BY <1>3, StoreAssumption DEF StoreInit, ClaimTypes
  <2> QED
    BY <1>3, <2>1 DEF AnswerInv
<1>5. CascadeTypes /\ CascadeInv
  BY <1>1 DEF StoreInit, CascadeTypes, CascadeInv, Idle, Awaited
<1>6. LeaseInv
  BY <1>1 DEF StoreInit, LeaseInv, NoLease
<1>7. MLock!Init
  BY <1>1 DEF StoreInit, NoLease, MLock!Init, MHolder, MGranted
<1> QED
  BY <1>2, <1>4, <1>5, <1>6, <1>7 DEF StoreInv

(* StoreSafe: an attempt with a live lease holds its session and a live    *)
(* session lease is of a live row, a remembered claim request has one      *)
(* answer and no two requests the same lease, and when the cascades are    *)
(* over no child outlives its parent.                                      *)
THEOREM StoreKept == StoreSpec => []StoreSafe
<1>1. StoreInv /\ [StoreNext]_mvars => StoreInv'
  BY StoreStep DEF StoreKeeps
<1>2. StoreInv => StoreSafe
  BY StoreTypes, MapsOfLeases, OneAnswerEach, NoneLeft DEF StoreInv, StoreTyped, StoreSafe
<1> QED
  BY <1>1, <1>2, StoreInitInv, PTL DEF StoreSpec

(* StoreImplementsLock: every step of the three maps of memory-store.ts,   *)
(* seen as who holds each session and what fence each row was granted, is  *)
(* a step of the lock on sessions that the SQL store implements.           *)
THEOREM StoreIsALock == StoreSpec => StoreImplementsLock
<1>1. StoreInv /\ [StoreNext]_mvars => StoreInv' /\ [MLock!Next]_(MLock!vars)
  BY StoreStep DEF StoreKeeps
<1> QED
  BY <1>1, StoreInitInv, PTL DEF StoreSpec, StoreImplementsLock, MLock!Spec

-----------------------------------------------------------------------------
(* Documents *)

(* What was reviewed is what was shown to the reviewer.                    *)
Judgment(r) ==
  r.explicit \in BOOLEAN /\ r = [hash |-> r.shown, explicit |-> r.explicit, shown |-> r.shown]

(* A key that was sent and not forgotten is among the commands.            *)
KeyInv == \A k \in AdminActs : sent[k] # Unsent => Known(k)

(* No version is beyond the number of writes, and no vector beyond its     *)
(* document; one of the document's version is of its text.                 *)
VectorInv ==
  \A d \in Docs : /\ doc[d].ver <= writes /\ index[d].ver <= doc[d].ver
                  /\ index[d].ver > 0 /\ index[d].ver = doc[d].ver => index[d].text = doc[d].text

ReadingInv == reading = NoRead \/ reading.d \in Docs

DocRec == [ver : 0 .. MaxWrite, text : 0 .. MaxWrite, explicit : BOOLEAN]
VectorRec == [ver : 0 .. MaxWrite, text : 0 .. MaxWrite]
PastRec == [d : Docs, ver : 0 .. MaxWrite, text : 0 .. MaxWrite]

(* The tables a write changes.                                             *)
StoredTypes ==
  /\ mepoch \in 0 .. MaxForget /\ writes \in 0 .. MaxWrite
  /\ doc \in [Docs -> DocRec] /\ archive \subseteq PastRec /\ index \in [Docs -> VectorRec]
(* Keys, attempt and index pass.                                           *)
ActorTypes ==
  /\ sent \in [AdminActs -> Changes \cup {Unsent}]
  /\ agent \in [fence : 1 .. MaxFence, rv : 1 .. MaxRequest]
  /\ reading \in [d : Docs \cup {0}, ver : 0 .. MaxWrite, text : 0 .. MaxWrite]
  /\ refused \in BOOLEAN /\ unjudged \in BOOLEAN

DocumentsInv ==
  /\ StoredTypes /\ ActorTypes /\ KeyInv /\ VectorInv /\ ReadingInv
  /\ Judgment(prep) /\ Judgment(review) /\ ~refused /\ ~unjudged

LEMMA DocumentsTypes == StoredTypes /\ ActorTypes => DocumentsTypeOK
  BY DEF DocumentsTypeOK, StoredTypes, ActorTypes, DocRec, VectorRec, PastRec

LEMMA NoJudgment == Judgment(NoReview)
  BY DEF Judgment, NoReview

LEMMA ChangeFacts ==
  ASSUME NEW c \in Changes
  PROVE  c.d \in Docs /\ c.ver \in 0 .. MaxWrite /\ c.op \in {"create", "update", "delete"}
  BY DocumentsAssumption DEF Changes

(* A new version of one document.                                          *)
LEMMA NewVersion ==
  ASSUME StoredTypes, VectorInv, NEW d \in Docs, NEW text \in 0 .. MaxWrite, NEW explicit \in BOOLEAN,
         writes < MaxWrite, writes' = writes + 1, mepoch' = mepoch, index' = index, archive' \subseteq PastRec,
         doc' = [doc EXCEPT ![d] = [ver |-> @.ver + 1, text |-> text, explicit |-> explicit]]
  PROVE  (StoredTypes /\ VectorInv)'
<1>1. /\ doc \in [Docs -> DocRec] /\ index \in [Docs -> VectorRec] /\ writes \in Nat /\ MaxWrite \in Nat
      /\ mepoch \in 0 .. MaxForget
  BY DocumentsAssumption DEF StoredTypes
<1>2. \A x \in Docs : doc[x].ver \in Nat /\ doc[x].text \in Nat /\ index[x].ver \in Nat
  BY <1>1 DEF DocRec, VectorRec
<1> DEFINE v == doc[d].ver + 1
           e == [ver |-> v, text |-> text, explicit |-> explicit]
<1>3. v \in 0 .. MaxWrite /\ v <= writes + 1 /\ v > doc[d].ver /\ text \in 0 .. MaxWrite
  BY <1>1, <1>2 DEF VectorInv
<1>4. doc' = [doc EXCEPT ![d] = e]
  OBVIOUS
<1> HIDE DEF v
<1>5. e \in DocRec /\ e.ver = v /\ e.text = text
  BY <1>3 DEF DocRec
<1> HIDE DEF e
<1>6. doc' \in [Docs -> DocRec] /\ doc'[d] = e /\ \A x \in Docs \ {d} : doc'[x] = doc[x]
  BY <1>1, <1>4, <1>5
<1>7. StoredTypes'
  BY <1>1, <1>6 DEF StoredTypes
<1>8. ASSUME NEW x \in Docs
      PROVE  /\ doc'[x].ver <= writes' /\ index'[x].ver <= doc'[x].ver
             /\ index'[x].ver > 0 /\ index'[x].ver = doc'[x].ver => index'[x].text = doc'[x].text
  <2>1. CASE x = d
    <3>1. doc'[x].ver = v /\ doc'[x].text = text /\ index'[x].ver < v
      BY <1>2, <1>3, <1>5, <1>6, <2>1 DEF VectorInv
    <3> QED
      BY <1>1, <1>2, <1>3, <3>1
  <2>2. CASE x # d
    BY <1>1, <1>2, <1>6, <2>2 DEF VectorInv
  <2> QED
    BY <2>1, <2>2
<1> QED
  BY <1>7, <1>8 DEF VectorInv

(* Documents, versions and vectors are deleted together.                   *)
LEMMA RemovedTogether ==
  ASSUME StoredTypes, VectorInv, NEW D \in SUBSET Docs, Removed(D), mepoch' \in 0 .. MaxForget,
         writes' \in 0 .. MaxWrite, writes' >= writes
  PROVE  (StoredTypes /\ VectorInv)'
<1>1. /\ doc \in [Docs -> DocRec] /\ index \in [Docs -> VectorRec] /\ archive \subseteq PastRec
      /\ writes \in Nat /\ writes' \in Nat /\ MaxWrite \in Nat
  BY DocumentsAssumption DEF StoredTypes
<1>2. /\ doc' = [d \in Docs |-> IF d \in D THEN Absent ELSE doc[d]]
      /\ index' = [d \in Docs |-> IF d \in D THEN [ver |-> 0, text |-> 0] ELSE index[d]]
      /\ archive' \subseteq archive
  BY DEF Removed
<1>3. Absent \in DocRec /\ Absent.ver = 0 /\ Absent.text = 0 /\ [ver |-> 0, text |-> 0] \in VectorRec
  BY <1>1 DEF Absent, DocRec, VectorRec
<1>4. StoredTypes'
  BY <1>1, <1>2, <1>3 DEF StoredTypes
<1>5. \A x \in Docs : doc[x].ver \in Nat /\ doc[x].text \in Nat /\ index[x].ver \in Nat
  BY <1>1 DEF DocRec, VectorRec
<1>6. ASSUME NEW x \in Docs
      PROVE  /\ doc'[x].ver <= writes' /\ index'[x].ver <= doc'[x].ver
             /\ index'[x].ver > 0 /\ index'[x].ver = doc'[x].ver => index'[x].text = doc'[x].text
  <2>1. CASE x \in D
    BY <1>1, <1>2, <1>3, <2>1
  <2>2. CASE x \notin D
    <3>1. doc'[x] = doc[x] /\ index'[x] = index[x]
      BY <1>2, <2>2
    <3> QED
      BY <1>1, <1>5, <3>1 DEF VectorInv
  <2> QED
    BY <2>1, <2>2
<1> QED
  BY <1>4, <1>6 DEF VectorInv

LEMMA WriteStored ==
  ASSUME DocumentsInv, NEW c \in Changes, NEW explicit \in BOOLEAN, NEW k, Permitted(c, explicit), Room(c),
         Write(c, explicit, k)
  PROVE  /\ (StoredTypes /\ VectorInv)' /\ Judgment(review)'
         /\ IF c.op = "delete" THEN cmds' = {[ep |-> mepoch', act |-> k]}
            ELSE mepoch' = mepoch /\ cmds' = cmds \cup {[ep |-> mepoch, act |-> k]}
<1>1. /\ StoredTypes /\ VectorInv /\ Judgment(review) /\ MaxWrite \in Nat /\ writes \in Nat
      /\ mepoch \in 0 .. MaxForget /\ MaxForget \in Nat
  BY DocumentsAssumption DEF DocumentsInv, StoredTypes
<1>2. c.d \in Docs /\ c.ver \in 0 .. MaxWrite
  BY ChangeFacts
<1>3. CASE c.op = "delete"
  <2>1. Removed({c.d}) /\ mepoch' = mepoch + 1 /\ review' = NoReview /\ cmds' = {Command(c, k)} /\ writes' = writes + 1
    BY <1>3 DEF Write
  <2>2. mepoch' \in 0 .. MaxForget /\ writes' \in 0 .. MaxWrite /\ writes' >= writes
    BY <1>1, <1>3, <2>1 DEF Room
  <2>3. (StoredTypes /\ VectorInv)'
    BY <1>1, <1>2, <2>1, <2>2, RemovedTogether
  <2>4. cmds' = {[ep |-> mepoch', act |-> k]}
    BY <1>3, <2>1 DEF Command
  <2> QED
    BY <1>3, <2>1, <2>3, <2>4, NoJudgment
<1>4. CASE c.op # "delete"
  <2>1. /\ writes' = writes + 1 /\ UNCHANGED <<mepoch, index, review>> /\ cmds' = cmds \cup {Command(c, k)}
        /\ doc' = [doc EXCEPT ![c.d] = [ver |-> @.ver + 1, text |-> writes + 1, explicit |-> explicit]]
        /\ archive' = IF c.op = "update" THEN archive \cup {[d |-> c.d, ver |-> c.ver, text |-> doc[c.d].text]} ELSE archive
    BY <1>4 DEF Write
  <2>2. doc[c.d].text \in 0 .. MaxWrite /\ archive \subseteq PastRec
    BY <1>1, <1>2 DEF StoredTypes, DocRec
  <2>3. archive' \subseteq PastRec
    BY <1>2, <2>1, <2>2 DEF PastRec
  <2>4. (StoredTypes /\ VectorInv)'
    <3>1. writes < MaxWrite /\ writes + 1 \in 0 .. MaxWrite
      BY <1>1 DEF Room
    <3> QED
      BY <1>1, <1>2, <2>1, <2>3, <3>1, NewVersion
  <2>5. cmds' = cmds \cup {[ep |-> mepoch, act |-> k]}
    BY <1>4, <2>1 DEF Command
  <2> QED
    BY <1>1, <1>4, <2>1, <2>4, <2>5
<1> QED
  BY <1>3, <1>4

(* Keys other than the one written keep their commands, unless the write   *)
(* was a deletion, which makes them new.                                   *)
LEMMA KeysKept ==
  ASSUME KeyInv, NEW c \in Changes, NEW k,
         IF c.op = "delete" THEN cmds' = {[ep |-> mepoch', act |-> k]}
         ELSE mepoch' = mepoch /\ cmds' = cmds \cup {[ep |-> mepoch, act |-> k]},
         \A l \in AdminActs : l = k \/ sent'[l] = IF c.op = "delete" THEN Unsent ELSE sent[l]
  PROVE  KeyInv'
<1> SUFFICES ASSUME NEW l \in AdminActs, sent'[l] # Unsent' PROVE [ep |-> mepoch', act |-> l] \in cmds'
  BY DEF KeyInv, Known
<1>1. Unsent' = Unsent
  BY DEF Unsent
<1>2. CASE l = k
  BY <1>2
<1>3. CASE l # k
  <2>1. c.op # "delete" /\ sent[l] # Unsent
    BY <1>1, <1>3
  <2> QED
    BY <2>1 DEF KeyInv, Known
<1> QED
  BY <1>2, <1>3

LEMMA DocumentsStep == ASSUME DocumentsInv, [DocumentsNext]_dvars PROVE DocumentsInv'
<1>1. /\ StoredTypes /\ ActorTypes /\ KeyInv /\ VectorInv /\ ReadingInv /\ Judgment(prep) /\ Judgment(review)
      /\ ~refused /\ ~unjudged
  BY DEF DocumentsInv
<1> DEFINE Actors == UNCHANGED <<agent, prep, reading, refused, unjudged>>
           Quiet == UNCHANGED <<mepoch, doc, archive, cmds, sent, index, writes, refused, unjudged>>
<1>3. ASSUME NEW k \in AdminActs, NEW c \in Changes, AdminSends(k, c)
      PROVE  DocumentsInv'
  <2>1. /\ Permitted(c, TRUE) /\ Room(c) /\ Write(c, TRUE, k) /\ Actors
        /\ sent' = [l \in AdminActs |-> IF l = k THEN c ELSE IF c.op = "delete" THEN Unsent ELSE sent[l]]
    BY <1>3 DEF AdminSends
  <2>2. /\ (StoredTypes /\ VectorInv)' /\ Judgment(review)'
        /\ IF c.op = "delete" THEN cmds' = {[ep |-> mepoch', act |-> k]}
           ELSE mepoch' = mepoch /\ cmds' = cmds \cup {[ep |-> mepoch, act |-> k]}
    BY <2>1, WriteStored
  <2>3. KeyInv'
    BY <1>1, <2>1, <2>2, KeysKept
  <2>4. ActorTypes'
    BY <1>1, <2>1 DEF ActorTypes
  <2> QED
    BY <1>1, <2>1, <2>2, <2>3, <2>4 DEF ReadingInv, Judgment, DocumentsInv
<1>4. ASSUME NEW k \in AdminActs, AdminRepeats(k) PROVE UNCHANGED dvars
  <2>1. Known(k)
    BY <1>1, <1>4 DEF AdminRepeats, KeyInv
  <2>2. refused' = refused
    <3>1. refused' = (refused \/ ~Known(k))
      BY <1>4, <2>1 DEF AdminRepeats
    <3> QED
      BY <1>1, <2>1, <3>1 DEF ActorTypes
  <2> QED
    BY <1>4, <2>1, <2>2 DEF AdminRepeats, dvars, DocumentsInv
<1>5. ASSUME NEW a \in archive, Restore(a)
      PROVE  DocumentsInv'
  <2>1. /\ writes < MaxWrite /\ writes' = writes + 1
        /\ doc' = [doc EXCEPT ![a.d] = [ver |-> @.ver + 1, text |-> a.text, explicit |-> TRUE]]
        /\ archive' = archive \cup {[d |-> a.d, ver |-> doc[a.d].ver, text |-> doc[a.d].text]}
        /\ UNCHANGED <<mepoch, cmds, sent, agent, prep, review, reading, index, refused, unjudged>>
    BY <1>5 DEF Restore
  <2>2. a.d \in Docs /\ a.text \in 0 .. MaxWrite /\ archive \subseteq PastRec
    BY <1>1 DEF StoredTypes, PastRec
  <2>3. doc[a.d].ver \in 0 .. MaxWrite /\ doc[a.d].text \in 0 .. MaxWrite
    BY <1>1, <2>2 DEF StoredTypes, DocRec
  <2>4. archive' \subseteq PastRec
    BY <2>1, <2>2, <2>3 DEF PastRec
  <2>5. (StoredTypes /\ VectorInv)'
    BY <1>1, <2>1, <2>2, <2>4, NewVersion
  <2> QED
    BY <1>1, <2>1, <2>5 DEF DocumentsInv, ActorTypes, KeyInv, Known, ReadingInv, Judgment
<1>6. CASE ForgetScope
  <2>1. /\ mepoch < MaxForget /\ mepoch' = mepoch + 1 /\ Removed(Docs) /\ review' = NoReview
        /\ sent' = [k \in AdminActs |-> Unsent] /\ UNCHANGED <<agent, prep, reading, writes, refused, unjudged>>
    BY <1>6 DEF ForgetScope
  <2>2. mepoch' \in 0 .. MaxForget /\ writes' \in 0 .. MaxWrite /\ writes' >= writes
    BY <1>1, <2>1, DocumentsAssumption DEF StoredTypes
  <2>3. (StoredTypes /\ VectorInv)'
    BY <1>1, <2>1, <2>2, RemovedTogether
  <2>4. KeyInv'
    BY <2>1 DEF KeyInv, Unsent
  <2>5. ActorTypes'
    BY <1>1, <2>1 DEF ActorTypes
  <2> QED
    BY <1>1, <2>1, <2>3, <2>4, <2>5, NoJudgment DEF ReadingInv, Judgment, DocumentsInv
<1>7. ASSUME NEW c \in Changes, PrepareReview(c)
      PROVE  DocumentsInv'
  <2>1. prep' = [hash |-> Hash(c), explicit |-> FALSE, shown |-> Shown(c)] /\ Quiet /\ UNCHANGED <<agent, review, reading>>
    BY <1>7 DEF PrepareReview
  <2>2. Judgment(prep')
    BY <2>1 DEF Judgment, Hash, Shown
  <2> QED
    BY <1>1, <2>1, <2>2 DEF StoredTypes, ActorTypes, KeyInv, Known, VectorInv, ReadingInv, Judgment, DocumentsInv
<1>8. ASSUME NEW explicit \in BOOLEAN, RecordReview(explicit)
      PROVE  DocumentsInv'
  <2>1. review' = [prep EXCEPT !.explicit = explicit] /\ prep' = NoReview /\ Quiet /\ UNCHANGED <<agent, reading>>
    BY <1>8 DEF RecordReview
  <2>2. Judgment(review') /\ Judgment(prep')
    BY <1>1, <2>1, NoJudgment DEF Judgment
  <2> QED
    BY <1>1, <2>1, <2>2 DEF StoredTypes, ActorTypes, KeyInv, Known, VectorInv, ReadingInv, DocumentsInv
<1>9. ASSUME NEW c \in Changes, AgentApplies(c)
      PROVE  DocumentsInv'
  <2>1. /\ review.hash = Hash(c) /\ Permitted(c, review.explicit) /\ Room(c) /\ Write(c, review.explicit, "agent")
        /\ unjudged' = (unjudged \/ (doc[c.d].explicit /\ review.shown # Shown(c)))
        /\ sent' = IF c.op = "delete" THEN [k \in AdminActs |-> Unsent] ELSE sent
        /\ UNCHANGED <<agent, prep, reading, refused>>
    BY <1>9 DEF AgentApplies
  <2>2. review.explicit \in BOOLEAN /\ review.hash = review.shown
    BY <1>1 DEF Judgment
  <2>3. review.shown = Shown(c)
    BY <2>1, <2>2 DEF Hash, Shown
  <2>4. /\ (StoredTypes /\ VectorInv)' /\ Judgment(review)'
        /\ IF c.op = "delete" THEN cmds' = {[ep |-> mepoch', act |-> "agent"]}
           ELSE mepoch' = mepoch /\ cmds' = cmds \cup {[ep |-> mepoch, act |-> "agent"]}
    BY <2>1, <2>2, WriteStored
  <2>5. KeyInv'
    <3>1. \A l \in AdminActs : sent'[l] = IF c.op = "delete" THEN Unsent ELSE sent[l]
      BY <2>1
    <3> QED
      BY <1>1, <2>4, <3>1, KeysKept
  <2>6. unjudged' = FALSE
    BY <1>1, <2>1, <2>3
  <2>7. ActorTypes'
    BY <1>1, <2>1, <2>6 DEF ActorTypes
  <2> QED
    BY <1>1, <2>1, <2>4, <2>5, <2>6, <2>7 DEF ReadingInv, Judgment, DocumentsInv
<1>10. CASE Revised \/ Reclaimed
  <2>1. Quiet /\ UNCHANGED <<review, reading>> /\ (prep' = prep \/ prep' = NoReview)
    BY <1>10 DEF Revised, Reclaimed
  <2>2. agent' \in [fence : 1 .. MaxFence, rv : 1 .. MaxRequest]
    BY <1>1, <1>10, DocumentsAssumption DEF Revised, Reclaimed, ActorTypes
  <2>3. Judgment(prep')
    BY <1>1, <2>1, NoJudgment
  <2> QED
    BY <1>1, <2>1, <2>2, <2>3 DEF StoredTypes, ActorTypes, KeyInv, Known, VectorInv, ReadingInv, Judgment, DocumentsInv
<1>11. ASSUME NEW d \in Docs, IndexRead(d)
       PROVE  DocumentsInv'
  <2>1. reading' = [d |-> d, ver |-> doc[d].ver, text |-> doc[d].text] /\ Quiet /\ UNCHANGED <<agent, prep, review>>
    BY <1>11 DEF IndexRead
  <2>2. doc[d].ver \in 0 .. MaxWrite /\ doc[d].text \in 0 .. MaxWrite
    BY <1>1 DEF StoredTypes, DocRec
  <2>3. reading' \in [d : Docs \cup {0}, ver : 0 .. MaxWrite, text : 0 .. MaxWrite] /\ reading'.d = d
    BY <2>1, <2>2
  <2> QED
    BY <1>1, <2>1, <2>3 DEF StoredTypes, ActorTypes, KeyInv, Known, VectorInv, ReadingInv, Judgment, DocumentsInv
<1>12. CASE IndexStore
  <2> DEFINE d == reading.d
  <2>1. /\ d \in Docs /\ reading' = NoRead /\ UNCHANGED <<mepoch, doc, archive, cmds, sent, agent, prep, review, writes, refused, unjudged>>
        /\ index' = IF Unchanged THEN [index EXCEPT ![d] = [ver |-> doc[d].ver, text |-> reading.text]] ELSE index
    BY <1>1, <1>12 DEF IndexStore, ReadingInv
  <2>2. /\ doc[d].ver \in 0 .. MaxWrite /\ reading.text \in 0 .. MaxWrite /\ index \in [Docs -> VectorRec]
        /\ Unchanged => reading.text = doc[d].text
    BY <1>1, <2>1 DEF StoredTypes, DocRec, ActorTypes, Unchanged
  <2> DEFINE e == [ver |-> doc[d].ver, text |-> reading.text]
  <2>3. e \in VectorRec /\ e.ver = doc[d].ver /\ e.text = reading.text
    BY <2>2 DEF VectorRec
  <2> HIDE DEF e
  <2>4. index' \in [Docs -> VectorRec] /\ \A x \in Docs : index'[x] = index[x] \/ (x = d /\ Unchanged /\ index'[x] = e)
    BY <2>1, <2>2, <2>3 DEF e
  <2>5. VectorInv'
    <3>1. ASSUME NEW x \in Docs
          PROVE  /\ doc[x].ver <= writes /\ index'[x].ver <= doc[x].ver
                 /\ index'[x].ver > 0 /\ index'[x].ver = doc[x].ver => index'[x].text = doc[x].text
      <4>1. CASE index'[x] = index[x]
        BY <1>1, <4>1 DEF VectorInv
      <4>2. CASE x = d /\ Unchanged /\ index'[x] = e
        BY <1>1, <2>2, <2>3, <4>2 DEF VectorInv
      <4> QED
        BY <2>4, <4>1, <4>2
    <3> QED
      BY <2>1, <3>1 DEF VectorInv
  <2>6. NoRead \in [d : Docs \cup {0}, ver : 0 .. MaxWrite, text : 0 .. MaxWrite]
    BY DocumentsAssumption DEF NoRead
  <2> QED
    BY <1>1, <2>1, <2>4, <2>5, <2>6 DEF StoredTypes, ActorTypes, KeyInv, Known, ReadingInv, Judgment, DocumentsInv
<1>13. ASSUME UNCHANGED dvars PROVE DocumentsInv'
  BY <1>1, <1>13 DEF dvars, DocumentsInv, StoredTypes, ActorTypes, KeyInv, Known, VectorInv, ReadingInv, Judgment
<1> QED
  BY <1>3, <1>4, <1>5, <1>6, <1>7, <1>8, <1>9, <1>10, <1>11, <1>12, <1>13 DEF DocumentsNext

(* DocumentsSafe: a write repeated after a lost answer is answered, a      *)
(* protected document changes only as it was judged, and a vector of a     *)
(* document's version is of its text, whatever is forgotten, restored or   *)
(* deleted between reading and writing.                                    *)
THEOREM DocumentsKept == DocumentsSpec => []DocumentsSafe
<1>1. DocumentsInit => DocumentsInv
  <2> SUFFICES ASSUME DocumentsInit PROVE DocumentsInv
    OBVIOUS
  <2>1. StoredTypes
    BY DocumentsAssumption DEF DocumentsInit, StoredTypes, Absent, DocRec, VectorRec
  <2>2. ActorTypes
    <3>1. NoRead \in [d : Docs \cup {0}, ver : 0 .. MaxWrite, text : 0 .. MaxWrite]
      BY DocumentsAssumption DEF NoRead
    <3>2. [fence |-> 1, rv |-> 1] \in [fence : 1 .. MaxFence, rv : 1 .. MaxRequest]
      BY DocumentsAssumption
    <3>3. sent \in [AdminActs -> Changes \cup {Unsent}]
      BY DEF DocumentsInit
    <3> QED
      BY <3>1, <3>2, <3>3 DEF DocumentsInit, ActorTypes
  <2>3. KeyInv /\ ReadingInv
    BY DEF DocumentsInit, KeyInv, ReadingInv
  <2>4. VectorInv
    BY DEF DocumentsInit, VectorInv, Absent
  <2> QED
    BY <2>1, <2>2, <2>3, <2>4, NoJudgment DEF DocumentsInit, DocumentsInv, DocumentsInv
<1>2. DocumentsInv => DocumentsSafe
  BY DocumentsTypes DEF DocumentsInv, VectorInv, DocumentsSafe, RepeatsAnswered, ChangedAsJudged, IndexCurrent
<1> QED
  BY <1>1, <1>2, DocumentsStep, PTL DEF DocumentsSpec

-----------------------------------------------------------------------------
(* Learning *)

QueueRec == [st : {"none", "ready", "claimed", "done"}, att : Nat]
EvidenceRec == [st : ShareStates, scopes : SUBSET Scopes]
ShareRec == [st : ShareStates, ep : Nat, job : Nat]

(* What is shared by the processes, and the history.                       *)
ScopeTypes ==
  /\ epoch \in [Scopes -> 0 .. MaxEpoch] /\ born \in [Sources -> [Scopes -> -1 .. MaxEpoch]]
  /\ learned \in [Scopes -> [Sources -> Nat]] /\ tainted \in [Scopes -> SUBSET Sources] /\ leaked \in BOOLEAN
QueueTypes ==
  /\ queue \in [Sources -> QueueRec]
  /\ drain \in [Drains -> [r : Sources \cup {0}, tok : Nat]]
EvidenceTypes ==
  /\ evid \in [Sources -> EvidenceRec] /\ share \in [Scopes -> [Sources -> ShareRec]]
JobTypes == job \in Seq(JobRec) /\ Len(job) <= MaxJobs
JobsOfShares == \A s \in Scopes, r \in Sources : share[s][r].job <= Len(job)

(* A claim of the capture queue is of a run.                               *)
DrainInv == \A d \in Drains : drain[d] = Free \/ drain[d].r \in Sources

(* A run was created before the epochs of now; one a forgetting of a scope *)
(* concerns is older than the scope's epoch or lost its evidence; a share  *)
(* that waits is of the epoch its run was created in; a run without        *)
(* evidence has no share and evidence only comes from a captured result;   *)
(* and a share that waits has not been learned from.                       *)
TaintInv == \A s \in Scopes, r \in Sources :
  /\ Created(r) => born[r][s] <= epoch[s]
  /\ r \in tainted[s] => (Created(r) /\ born[r][s] < epoch[s]) \/ evid[r].st = "superseded"
ShareInv == \A s \in Scopes, r \in Sources :
  /\ share[s][r].st = "pending" => Created(r) /\ share[s][r].ep = born[r][s]
  /\ evid[r].st = "none" => evid[r].scopes = {} /\ share[s][r].st = "none"
  /\ learned[s][r] <= 1
  /\ share[s][r].st \in {"none", "pending"} => learned[s][r] = 0
CapturedInv == \A r \in Sources :
  /\ evid[r].st # "none" => queue[r].st = "done"
  /\ evid[r].st = "none" => evid[r].scopes = {}

LearningTypes == ScopeTypes /\ QueueTypes /\ EvidenceTypes /\ JobTypes /\ JobsOfShares
LearningInv == LearningTypes /\ DrainInv /\ TaintInv /\ ShareInv /\ CapturedInv /\ ~leaked

LEMMA LearningTyped == LearningTypes => LearningTypeOK
  BY DEF LearningTypes, ScopeTypes, QueueTypes, EvidenceTypes, JobTypes, JobsOfShares, LearningTypeOK,
         QueueRec, EvidenceRec, ShareRec

LEMMA LearningFacts ==
  ASSUME LearningTypes
  PROVE  /\ \A s \in Scopes : epoch[s] \in 0 .. MaxEpoch /\ epoch[s] \in Nat /\ tainted[s] \subseteq Sources
         /\ \A r \in Sources : evid[r] \in EvidenceRec /\ evid[r].st \in ShareStates /\ queue[r] \in QueueRec
                               /\ evid[r].scopes \subseteq Scopes
         /\ \A s \in Scopes, r \in Sources :
              /\ share[s][r] \in ShareRec /\ share[s][r].st \in ShareStates /\ share[s][r].ep \in Nat /\ share[s][r].job \in Nat
              /\ born[r][s] \in -1 .. MaxEpoch /\ born[r][s] \in Int /\ learned[s][r] \in Nat
         /\ Len(job) \in Nat /\ \A j \in 1 .. Len(job) : job[j] \in JobRec /\ job[j].scope \in Scopes
<1>1. ScopeTypes /\ QueueTypes /\ EvidenceTypes /\ JobTypes
  BY DEF LearningTypes
<1>2. \A s \in Scopes : epoch[s] \in 0 .. MaxEpoch /\ epoch[s] \in Nat /\ tainted[s] \subseteq Sources
  BY <1>1 DEF ScopeTypes
<1>3. \A r \in Sources : evid[r] \in EvidenceRec /\ queue[r] \in QueueRec
  BY <1>1 DEF EvidenceTypes, QueueTypes
<1>4. \A e \in EvidenceRec : e.st \in ShareStates /\ e.scopes \subseteq Scopes
  BY DEF EvidenceRec
<1>5. \A s \in Scopes, r \in Sources : share[s][r] \in ShareRec /\ born[r][s] \in -1 .. MaxEpoch /\ learned[s][r] \in Nat
  BY <1>1 DEF EvidenceTypes, ScopeTypes
<1>6. \A e \in ShareRec : e.st \in ShareStates /\ e.ep \in Nat /\ e.job \in Nat
  BY DEF ShareRec
<1>7. \A e \in JobRec : e.scope \in Scopes
  BY DEF JobRec
<1>8. Len(job) \in Nat /\ \A j \in 1 .. Len(job) : job[j] \in JobRec
  BY <1>1 DEF JobTypes
<1> QED
  BY <1>2, <1>3, <1>4, <1>5, <1>6, <1>7, <1>8

(* What most steps do: no scope is forgotten and no evidence installed.    *)
LearningMoves ==
  /\ UNCHANGED <<epoch, born, tainted>>
  /\ \A r \in Sources :
       /\ queue[r].st = "done" => queue'[r].st = "done"
       /\ evid[r].st = "superseded" => evid'[r].st = "superseded"
       /\ evid[r].st = "none" <=> evid'[r].st = "none"
       /\ evid'[r].scopes = evid[r].scopes
  /\ \A s \in Scopes, r \in Sources :
       /\ share[s][r].st = "none" <=> share'[s][r].st = "none"
       /\ share'[s][r].st = "pending" => share[s][r].st = "pending" /\ share'[s][r].ep = share[s][r].ep
       /\ \/ learned'[s][r] = learned[s][r]
          \/ learned'[s][r] = learned[s][r] + 1 /\ share[s][r].st = "pending" /\ share'[s][r].st = "processed"

LEMMA MovesKeep ==
  ASSUME LearningInv, LearningMoves
  PROVE  (TaintInv /\ ShareInv /\ CapturedInv)'
<1>1. LearningTypes /\ TaintInv /\ ShareInv /\ CapturedInv
  BY DEF LearningInv
<1>2. \A r \in Sources : Created(r)' <=> Created(r)
  BY DEF LearningMoves, Created
<1>3. CapturedInv'
  BY <1>1 DEF LearningMoves, CapturedInv
<1>4. TaintInv'
  BY <1>1, <1>2 DEF LearningMoves, TaintInv
<1>5. ASSUME NEW s \in Scopes, NEW r \in Sources
      PROVE  /\ share'[s][r].st = "pending" => Created(r)' /\ share'[s][r].ep = born'[r][s]
             /\ evid'[r].st = "none" => evid'[r].scopes = {} /\ share'[s][r].st = "none"
             /\ learned'[s][r] <= 1
             /\ share'[s][r].st \in {"none", "pending"} => learned'[s][r] = 0
  <2>1. /\ share[s][r].st = "pending" => Created(r) /\ share[s][r].ep = born[r][s]
        /\ evid[r].st = "none" => evid[r].scopes = {} /\ share[s][r].st = "none"
        /\ learned[s][r] <= 1
        /\ share[s][r].st \in {"none", "pending"} => learned[s][r] = 0
    BY <1>1 DEF ShareInv
  <2>2. /\ evid[r].st = "none" <=> evid'[r].st = "none"
        /\ evid'[r].scopes = evid[r].scopes /\ born' = born
        /\ share[s][r].st = "none" <=> share'[s][r].st = "none"
        /\ share'[s][r].st = "pending" => share[s][r].st = "pending" /\ share'[s][r].ep = share[s][r].ep
        /\ \/ learned'[s][r] = learned[s][r]
           \/ learned'[s][r] = learned[s][r] + 1 /\ share[s][r].st = "pending" /\ share'[s][r].st = "processed"
    BY DEF LearningMoves
  <2> QED
    BY <1>2, <2>1, <2>2
<1>6. ShareInv'
  BY <1>5 DEF ShareInv
<1> QED
  BY <1>3, <1>4, <1>6

LEMMA OneJob ==
  ASSUME JobTypes, NEW j \in 1 .. Len(job), NEW e \in JobRec, job' = [job EXCEPT ![j] = e]
  PROVE  JobTypes' /\ Len(job') = Len(job)
<1>1. job \in Seq(JobRec) /\ Len(job) <= MaxJobs
  BY DEF JobTypes
<1>2. job' \in Seq(JobRec) /\ Len(job') = Len(job)
  BY <1>1
<1> QED
  BY <1>1, <1>2 DEF JobTypes

LEMMA FunctionIsSeq ==
  ASSUME NEW S, NEW n \in Nat, NEW f \in [1 .. n -> S]
  PROVE  f \in Seq(S) /\ Len(f) = n
<1>1. f \in Seq(S)
  BY SeqDef
<1> QED
  BY <1>1, LenProperties

LEMMA EveryJob ==
  ASSUME JobTypes, NEW f, f \in [1 .. Len(job) -> JobRec], job' = f
  PROVE  JobTypes' /\ Len(job') = Len(job)
<1>1. Len(job) \in Nat /\ Len(job) <= MaxJobs
  BY DEF JobTypes
<1>2. job' \in Seq(JobRec) /\ DOMAIN job' = 1 .. Len(job)
  BY <1>1, SeqDef
<1>3. Len(job') \in Nat /\ DOMAIN job' = 1 .. Len(job')
  BY <1>2, LenProperties
<1>4. Len(job') = Len(job)
  BY <1>1, <1>2, <1>3
<1> QED
  BY <1>1, <1>2, <1>4 DEF JobTypes

(* Runs and the capture of results, apart from the installation of         *)
(* evidence.                                                               *)
LEMMA RunStep ==
  ASSUME LearningInv, NEW r \in Sources, RunStarts(r) \/ RunCommits(r) \/ \E s \in Scopes : ToolWrite(r, s)
  PROVE  LearningInv'
<1>1. LearningTypes /\ DrainInv /\ TaintInv /\ ShareInv /\ CapturedInv /\ ~leaked
      /\ ScopeTypes /\ QueueTypes /\ EvidenceTypes /\ JobTypes /\ JobsOfShares
  BY DEF LearningInv, LearningTypes
<1>2. CASE RunStarts(r)
  <2>1. ~Created(r) /\ born' = [born EXCEPT ![r] = epoch] /\ UNCHANGED <<epoch, queue, drain, evid, share, job, learned, tainted, leaked>>
    BY <1>2 DEF RunStarts
  <2>2. epoch \in [Scopes -> -1 .. MaxEpoch]
    BY <1>1, LearningAssumption DEF ScopeTypes
  <2>3. ScopeTypes' /\ born'[r] = epoch /\ \A q \in Sources \ {r} : born'[q] = born[q]
    BY <1>1, <2>1, <2>2 DEF ScopeTypes
  <2>4. \A q \in Sources \ {r} : Created(q)' <=> Created(q)
    BY <2>3 DEF Created
  <2>5. TaintInv'
    <3>1. ASSUME NEW s \in Scopes, NEW q \in Sources
          PROVE  /\ Created(q)' => born'[q][s] <= epoch[s]
                 /\ q \in tainted[s] => (Created(q)' /\ born'[q][s] < epoch[s]) \/ evid[q].st = "superseded"
      <4>1. CASE q = r
        BY <1>1, <2>1, <2>3, <4>1, LearningFacts DEF TaintInv
      <4>2. CASE q # r
        BY <1>1, <2>3, <2>4, <4>2 DEF TaintInv
      <4> QED
        BY <4>1, <4>2
    <3> QED
      BY <2>1, <3>1 DEF TaintInv
  <2>6. ShareInv'
    <3>1. \A s \in Scopes : share[s][r].st # "pending"
      BY <1>1, <2>1 DEF ShareInv
    <3>2. ASSUME NEW s \in Scopes, NEW q \in Sources, share[s][q].st = "pending"
          PROVE  Created(q)' /\ share[s][q].ep = born'[q][s]
      BY <1>1, <2>3, <2>4, <3>1, <3>2 DEF ShareInv
    <3> QED
      BY <1>1, <2>1, <3>2 DEF ShareInv
  <2> QED
    BY <1>1, <2>1, <2>3, <2>5, <2>6
       DEF LearningInv, LearningTypes, QueueTypes, EvidenceTypes, JobTypes, JobsOfShares, DrainInv, CapturedInv
<1>3. CASE RunCommits(r)
  <2>1. queue[r].st = "none" /\ queue' = [queue EXCEPT ![r].st = "ready"]
        /\ UNCHANGED <<epoch, born, drain, evid, share, job, learned, tainted, leaked>>
    BY <1>3 DEF RunCommits
  <2>2. QueueTypes' /\ \A q \in Sources : queue[q].st = "done" => queue'[q].st = "done"
    BY <1>1, <2>1 DEF QueueTypes, QueueRec
  <2>3. LearningMoves
    BY <2>1, <2>2 DEF LearningMoves
  <2>4. (TaintInv /\ ShareInv /\ CapturedInv)'
    BY <2>3, MovesKeep
  <2> QED
    BY <1>1, <2>1, <2>2, <2>4
       DEF LearningInv, LearningTypes, ScopeTypes, EvidenceTypes, JobTypes, JobsOfShares, DrainInv
<1>4. ASSUME NEW s \in Scopes, ToolWrite(r, s) PROVE LearningInv'
  <2>1. /\ queue[r].st = "none" /\ born[r][s] = epoch[s] /\ leaked' = (leaked \/ r \in tainted[s])
        /\ UNCHANGED <<epoch, born, queue, drain, evid, share, job, learned, tainted>>
    BY <1>4 DEF ToolWrite, CurrentScopes
  <2>2. evid[r].st # "superseded"
    BY <1>1, <2>1 DEF CapturedInv
  <2>3. r \notin tainted[s]
    <3>1. epoch[s] \in Nat
      BY <1>1, LearningFacts
    <3> QED
      BY <1>1, <2>1, <2>2, <3>1 DEF TaintInv
  <2>4. leaked' = FALSE
    BY <1>1, <2>1, <2>3
  <2>5. LearningMoves
    BY <2>1 DEF LearningMoves
  <2>6. (TaintInv /\ ShareInv /\ CapturedInv)'
    BY <2>5, MovesKeep
  <2> QED
    BY <1>1, <2>1, <2>4, <2>6
       DEF LearningInv, LearningTypes, ScopeTypes, QueueTypes, EvidenceTypes, JobTypes, JobsOfShares, DrainInv
<1> QED
  BY <1>2, <1>3, <1>4

LEMMA CaptureStep ==
  ASSUME LearningInv, NEW d \in Drains,
         CommitCapture(d) \/ CaptureFails(d) \/ \E r \in Sources : ClaimCapture(d, r)
  PROVE  LearningInv'
<1>1. LearningTypes /\ DrainInv /\ TaintInv /\ ShareInv /\ CapturedInv /\ ~leaked
      /\ ScopeTypes /\ QueueTypes /\ EvidenceTypes /\ JobTypes /\ JobsOfShares
  BY DEF LearningInv, LearningTypes
<1>2. Free \in [r : Sources \cup {0}, tok : Nat]
  BY DEF Free
<1>3. ASSUME NEW r \in Sources, ClaimCapture(d, r) PROVE LearningInv'
  <2> DEFINE e == [st |-> "claimed", att |-> queue[r].att + 1]
             c == [r |-> r, tok |-> queue[r].att + 1]
  <2>1. /\ queue[r].st \in {"ready", "claimed"} /\ queue' = [queue EXCEPT ![r] = e] /\ drain' = [drain EXCEPT ![d] = c]
        /\ UNCHANGED <<epoch, born, evid, share, job, learned, tainted, leaked>>
    BY <1>3 DEF ClaimCapture
  <2>2. e \in QueueRec /\ c \in [r : Sources \cup {0}, tok : Nat] /\ c.r = r
    BY <1>1, LearningFacts DEF QueueRec
  <2> HIDE DEF e, c
  <2>3. QueueTypes' /\ \A q \in Sources : queue[q].st = "done" => queue'[q].st = "done"
    BY <1>1, <2>1, <2>2 DEF QueueTypes
  <2>4. DrainInv'
    BY <1>1, <2>1, <2>2 DEF DrainInv, QueueTypes, Free
  <2>5. LearningMoves
    BY <2>1, <2>3 DEF LearningMoves
  <2>6. (TaintInv /\ ShareInv /\ CapturedInv)'
    BY <2>5, MovesKeep
  <2> QED
    BY <1>1, <2>1, <2>3, <2>4, <2>6 DEF LearningInv, LearningTypes, ScopeTypes, EvidenceTypes, JobTypes, JobsOfShares
<1>4. ASSUME drain[d] # Free, drain' = [drain EXCEPT ![d] = Free], NEW st \in {"ready", "done"},
             queue' = IF Holds(d) THEN [queue EXCEPT ![drain[d].r].st = st] ELSE queue
      PROVE  /\ QueueTypes' /\ DrainInv' /\ \A q \in Sources : queue[q].st = "done" => queue'[q].st = "done"
             /\ drain[d].r \in Sources
             /\ Holds(d) => queue'[drain[d].r].st = st
  <2>1. drain[d].r \in Sources
    BY <1>1, <1>4 DEF DrainInv
  <2>2. DrainInv' /\ drain' \in [Drains -> [r : Sources \cup {0}, tok : Nat]]
    BY <1>1, <1>2, <1>4 DEF DrainInv, QueueTypes, Free
  <2>3. CASE ~Holds(d)
    BY <1>1, <1>4, <2>1, <2>2, <2>3 DEF QueueTypes
  <2>4. CASE Holds(d)
    <3> DEFINE e == [queue[drain[d].r] EXCEPT !.st = st]
    <3>1. queue' = [queue EXCEPT ![drain[d].r] = e] /\ queue[drain[d].r].st = "claimed"
      BY <1>4, <2>4 DEF Holds
    <3>2. e \in QueueRec /\ e.st = st
      BY <1>1, <2>1, LearningFacts DEF QueueRec
    <3> HIDE DEF e
    <3> QED
      BY <1>1, <2>1, <2>2, <3>1, <3>2 DEF QueueTypes
  <2> QED
    BY <2>3, <2>4
<1>5. CASE CaptureFails(d)
  <2>1. UNCHANGED <<epoch, born, evid, share, job, learned, tainted, leaked>>
    BY <1>5 DEF CaptureFails
  <2>2. QueueTypes' /\ DrainInv' /\ \A q \in Sources : queue[q].st = "done" => queue'[q].st = "done"
    BY <1>4, <1>5 DEF CaptureFails
  <2>3. LearningMoves
    BY <2>1, <2>2 DEF LearningMoves
  <2>4. (TaintInv /\ ShareInv /\ CapturedInv)'
    BY <2>3, MovesKeep
  <2> QED
    BY <1>1, <2>1, <2>2, <2>4 DEF LearningInv, LearningTypes, ScopeTypes, EvidenceTypes, JobTypes, JobsOfShares
<1>6. CASE CommitCapture(d)
  <2> DEFINE r == drain[d].r
             S == CaptureScopes(r)
             install == Holds(d) /\ S # {} /\ evid[r].st = "none"
  <2>1. /\ evid' = IF install THEN [evid EXCEPT ![r] = [st |-> "pending", scopes |-> S]] ELSE evid
        /\ share' = IF install
                    THEN [s \in Scopes |-> IF s \in S
                           THEN [share[s] EXCEPT ![r] = [st |-> "pending", ep |-> epoch[s], job |-> 0]]
                           ELSE share[s]]
                    ELSE share
        /\ UNCHANGED <<epoch, born, job, learned, tainted, leaked>>
    BY <1>6 DEF CommitCapture
  <2>2. /\ QueueTypes' /\ DrainInv' /\ \A q \in Sources : queue[q].st = "done" => queue'[q].st = "done"
        /\ r \in Sources
        /\ Holds(d) => queue'[r].st = "done"
    BY <1>4, <1>6 DEF CommitCapture
  <2>3. CASE ~install
    <3>1. LearningMoves
      BY <2>1, <2>2, <2>3 DEF LearningMoves
    <3>2. (TaintInv /\ ShareInv /\ CapturedInv)'
      BY <3>1, MovesKeep
    <3> QED
      BY <1>1, <2>1, <2>2, <2>3, <3>2 DEF LearningInv, LearningTypes, ScopeTypes, EvidenceTypes, JobTypes, JobsOfShares
  <2>4. CASE install
    <3> DEFINE e == [st |-> "pending", scopes |-> S]
    <3>1. S \subseteq Scopes /\ \A s \in S : born[r][s] = epoch[s]
      BY DEF CaptureScopes, CurrentScopes
    <3>2. evid' = [evid EXCEPT ![r] = e] /\ e \in EvidenceRec /\ e.st = "pending"
      BY <2>1, <2>4, <3>1 DEF EvidenceRec, ShareStates
    <3> DEFINE g(s) == [st |-> "pending", ep |-> epoch[s], job |-> 0]
    <3>3. \A s \in Scopes : g(s) \in ShareRec /\ g(s).st = "pending" /\ g(s).ep = epoch[s] /\ g(s).job = 0
      BY <1>1, LearningFacts DEF ShareRec, ShareStates
    <3>4. share' = [s \in Scopes |-> IF s \in S THEN [share[s] EXCEPT ![r] = g(s)] ELSE share[s]]
      BY <2>1, <2>4
    <3> HIDE DEF e, g, S
    <3>5. share' \in [Scopes -> [Sources -> ShareRec]]
      BY <1>1, <2>2, <3>3, <3>4 DEF EvidenceTypes
    <3>6. \A s \in Scopes, q \in Sources : share'[s][q] = IF s \in S /\ q = r THEN g(s) ELSE share[s][q]
      BY <1>1, <2>2, <3>4 DEF EvidenceTypes
    <3>7. EvidenceTypes' /\ evid'[r] = e /\ \A q \in Sources \ {r} : evid'[q] = evid[q]
      <4>1. evid \in [Sources -> EvidenceRec] /\ r \in Sources
        BY <1>1, <2>2, <2>4 DEF EvidenceTypes
      <4> HIDE DEF r
      <4>2. evid' \in [Sources -> EvidenceRec] /\ evid'[r] = e /\ \A q \in Sources \ {r} : evid'[q] = evid[q]
        BY <3>2, <4>1
      <4> QED
        BY <3>5, <4>2 DEF EvidenceTypes
    <3>8. JobsOfShares'
      BY <1>1, <2>1, <3>3, <3>6, LearningFacts DEF JobsOfShares
    <3>9. CapturedInv'
      BY <1>1, <2>2, <2>4, <3>2, <3>7 DEF CapturedInv
    <3>10. \A q \in Sources : (Created(q)' <=> Created(q)) /\ (evid[q].st = "superseded" => evid'[q].st = "superseded")
      BY <2>1, <2>4, <3>7 DEF Created
    <3>11. TaintInv'
      BY <1>1, <2>1, <3>10 DEF TaintInv
    <3>12. ASSUME NEW s \in S PROVE s \in Scopes /\ Created(r)
      <4>1. s \in Scopes /\ epoch[s] \in Nat /\ born[r][s] = epoch[s]
        BY <1>1, <3>1, <3>12, LearningFacts
      <4>2. epoch[s] # -1
        BY <4>1
      <4> QED
        BY <4>1, <4>2 DEF Created, Unborn
    <3>13. ASSUME NEW s \in Scopes, NEW q \in Sources
           PROVE  /\ share'[s][q].st = "pending" => Created(q) /\ share'[s][q].ep = born[q][s]
                  /\ evid'[q].st = "none" => evid'[q].scopes = {} /\ share'[s][q].st = "none"
                  /\ learned[s][q] <= 1
                  /\ share'[s][q].st \in {"none", "pending"} => learned[s][q] = 0
      <4>1. /\ share[s][q].st = "pending" => Created(q) /\ share[s][q].ep = born[q][s]
            /\ evid[q].st = "none" => evid[q].scopes = {} /\ share[s][q].st = "none"
            /\ learned[s][q] <= 1
            /\ share[s][q].st \in {"none", "pending"} => learned[s][q] = 0
        BY <1>1 DEF ShareInv
      <4>2. CASE q # r
        BY <3>6, <3>7, <4>1, <4>2
      <4>3. CASE q = r /\ s \in S
        BY <2>4, <3>1, <3>2, <3>3, <3>6, <3>7, <3>12, <4>1, <4>3
      <4>4. CASE q = r /\ s \notin S
        BY <2>4, <3>2, <3>6, <3>7, <4>1, <4>4
      <4> QED
        BY <4>2, <4>3, <4>4
    <3>14. ShareInv'
      BY <2>1, <3>10, <3>13 DEF ShareInv
    <3> QED
      BY <1>1, <2>1, <2>2, <3>7, <3>8, <3>9, <3>11, <3>14 DEF LearningInv, LearningTypes, ScopeTypes, JobTypes
  <2> QED
    BY <2>3, <2>4
<1> QED
  BY <1>3, <1>5, <1>6


(* Steps that change only the jobs.                                        *)
LEMMA JobsOnly ==
  ASSUME LearningInv, JobTypes', Len(job') = Len(job),
         UNCHANGED <<epoch, born, queue, drain, evid, share, learned, tainted, leaked>>
  PROVE  LearningInv'
<1>1. LearningMoves
  BY DEF LearningMoves
<1>2. (TaintInv /\ ShareInv /\ CapturedInv)'
  BY <1>1, MovesKeep
<1> QED
  BY <1>2 DEF LearningInv, LearningTypes, ScopeTypes, QueueTypes, EvidenceTypes, JobsOfShares, DrainInv

LEMMA FinishedJob ==
  ASSUME LearningInv, NEW j \in 1 .. Len(job), NEW st \in {"failed", "succeeded", "cancelled"}, job' = Finished(j, st)
  PROVE  JobTypes' /\ Len(job') = Len(job)
<1> DEFINE e == [job[j] EXCEPT !.st = st, !.held = FALSE]
<1>1. LearningTypes /\ JobTypes /\ job[j] \in JobRec
  BY LearningFacts DEF LearningInv, LearningTypes
<1>2. e \in JobRec
  BY <1>1 DEF JobRec
<1>3. job' = [job EXCEPT ![j] = e]
  BY <1>1 DEF Finished, JobTypes
<1> HIDE DEF e
<1> QED
  BY <1>1, <1>2, <1>3, OneJob

LEMMA JobStep ==
  ASSUME LearningInv, NEW j \in 1 .. Len(job),
         ClaimJob(j) \/ LoseJob(j) \/ Load(j) \/ CompleteJob(j) \/ FailJob(j)
  PROVE  LearningInv'
<1>1. LearningTypes /\ JobTypes /\ job[j] \in JobRec
  BY LearningFacts DEF LearningInv, LearningTypes
<1>2. UNCHANGED <<epoch, born, queue, drain, evid, share, learned, tainted, leaked>>
  BY DEF ClaimJob, LoseJob, Load, CompleteJob, FailJob
<1>3. JobTypes' /\ Len(job') = Len(job)
  <2>1. CASE ClaimJob(j)
    <3> DEFINE e == [job[j] EXCEPT !.st = "leased", !.att = @ + 1, !.held = TRUE]
    <3>1. e \in JobRec
      <4>1. job[j].att + 1 \in Nat
        BY <1>1 DEF JobRec
      <4> QED
        BY <1>1, <4>1 DEF JobRec
    <3>2. job' = [job EXCEPT ![j] = e]
      BY <1>1, <2>1 DEF ClaimJob, JobTypes
    <3> HIDE DEF e
    <3> QED
      BY <1>1, <3>1, <3>2, OneJob
  <2>2. CASE LoseJob(j)
    <3> DEFINE e == [job[j] EXCEPT !.held = FALSE]
    <3>1. e \in JobRec
      BY <1>1 DEF JobRec
    <3>2. job' = [job EXCEPT ![j] = e]
      BY <1>1, <2>2 DEF LoseJob, JobTypes
    <3> HIDE DEF e
    <3> QED
      BY <1>1, <3>1, <3>2, OneJob
  <2>3. CASE Load(j)
    <3>1. CASE job' = Finished(j, "succeeded")
      BY <3>1, FinishedJob
    <3>2. CASE job' = [job EXCEPT ![j].snapAt = job[j].att, ![j].snap = Batch(j)]
      <4> DEFINE e == [job[j] EXCEPT !.snapAt = job[j].att, !.snap = Batch(j)]
      <4>1. Batch(j) \subseteq Sources
        BY DEF Batch
      <4>2. e \in JobRec
        BY <1>1, <4>1 DEF JobRec
      <4>3. job' = [job EXCEPT ![j] = e]
        BY <1>1, <3>2 DEF JobTypes
      <4> HIDE DEF e
      <4> QED
        BY <1>1, <4>2, <4>3, OneJob
    <3> QED
      BY <2>3, <3>1, <3>2 DEF Load
  <2>4. CASE CompleteJob(j) \/ FailJob(j)
    BY <2>4, FinishedJob DEF CompleteJob, FailJob
  <2> QED
    BY <2>1, <2>2, <2>3, <2>4
<1> QED
  BY <1>2, <1>3, JobsOnly

LEMMA ScheduleStep ==
  ASSUME LearningInv, NEW s \in Scopes, Schedule(s)
  PROVE  LearningInv'
<1> DEFINE n == [scope |-> s, ep |-> epoch[s], st |-> "queued", att |-> 0, cancel |-> FALSE,
                 snapAt |-> 0, snap |-> {}, held |-> FALSE]
           g(r) == [share[s][r] EXCEPT !.job = Len(job) + 1]
<1>1. LearningTypes /\ DrainInv /\ ~leaked
      /\ ScopeTypes /\ QueueTypes /\ EvidenceTypes /\ JobTypes /\ JobsOfShares
  BY DEF LearningInv, LearningTypes
<1>2. /\ Len(job) < MaxJobs /\ job' = Append(job, n)
      /\ share' = [share EXCEPT ![s] = [r \in Sources |-> IF r \in Due(s) THEN g(r) ELSE share[s][r]]]
      /\ UNCHANGED <<epoch, born, queue, drain, evid, learned, tainted, leaked>>
  BY DEF Schedule
<1>3. n \in JobRec
  BY <1>1, LearningFacts DEF JobRec
<1>4. Len(job) \in Nat
  BY <1>1, LearningFacts
<1>5. \A r \in Sources : g(r) \in ShareRec /\ g(r).st = share[s][r].st /\ g(r).ep = share[s][r].ep /\ g(r).job = Len(job) + 1
  BY <1>1, <1>4, LearningFacts DEF ShareRec
<1> HIDE DEF n, g
<1>6. JobTypes' /\ Len(job') = Len(job) + 1
  BY <1>1, <1>2, <1>3, <1>4, LearningAssumption DEF JobTypes
<1>7. EvidenceTypes'
  BY <1>1, <1>2, <1>5 DEF EvidenceTypes
<1>8. \A t \in Scopes, r \in Sources :
        /\ share'[t][r].st = share[t][r].st /\ share'[t][r].ep = share[t][r].ep
        /\ share'[t][r].job = share[t][r].job \/ share'[t][r].job = Len(job) + 1
  BY <1>1, <1>2, <1>5 DEF EvidenceTypes
<1>9. JobsOfShares'
  <2>1. \A t \in Scopes, r \in Sources : share[t][r].job \in Nat /\ share[t][r].job <= Len(job)
    BY <1>1, LearningFacts DEF JobsOfShares
  <2> QED
    BY <1>4, <1>6, <1>8, <2>1 DEF JobsOfShares
<1>10. LearningMoves
  BY <1>2, <1>8 DEF LearningMoves
<1>11. (TaintInv /\ ShareInv /\ CapturedInv)'
  BY <1>10, MovesKeep
<1> QED
  BY <1>1, <1>2, <1>6, <1>7, <1>9, <1>11 DEF LearningInv, LearningTypes, ScopeTypes, QueueTypes, DrainInv


(* A model's answer is applied to the batch it was made from; nothing in   *)
(* that batch was forgotten.                                               *)
LEMMA ApplyStep ==
  ASSUME LearningInv, NEW j \in 1 .. Len(job), NEW approved \in BOOLEAN, Apply(j, approved)
  PROVE  LearningInv'
<1>1. LearningTypes /\ DrainInv /\ TaintInv /\ ShareInv /\ CapturedInv /\ ~leaked
      /\ ScopeTypes /\ QueueTypes /\ EvidenceTypes /\ JobTypes /\ JobsOfShares
  BY DEF LearningInv, LearningTypes
<1>2. job[j] \in JobRec /\ job[j].scope \in Scopes
  BY <1>1, LearningFacts
<1>3. UNCHANGED <<epoch, born, queue, drain, tainted>>
  BY DEF Apply
<1>4. CASE (job' = Finished(j, "succeeded") \/ job' = Finished(j, "failed")) /\ UNCHANGED <<share, evid, learned, leaked>>
  <2>1. JobTypes' /\ Len(job') = Len(job)
    BY <1>4, FinishedJob
  <2> QED
    BY <1>3, <1>4, <2>1, JobsOnly
<1>5. CASE ~((job' = Finished(j, "succeeded") \/ job' = Finished(j, "failed")) /\ UNCHANGED <<share, evid, learned, leaked>>)
  <2> DEFINE s == job[j].scope
             used == Batch(j)
             w(r) == SettledAs(share[s][r], approved)
             v(r) == [evid[r] EXCEPT !.st = EvidenceAfter(r, share')]
  <2>1. /\ share' = [share EXCEPT ![s] = [r \in Sources |-> IF share[s][r].job = j THEN w(r) ELSE share[s][r]]]
        /\ evid' = [r \in Sources |-> IF r \in used THEN v(r) ELSE evid[r]]
        /\ learned' = IF approved THEN [learned EXCEPT ![s] = [r \in Sources |-> IF r \in used THEN @[r] + 1 ELSE @[r]]]
                      ELSE learned
        /\ leaked' = (leaked \/ (approved /\ used \cap tainted[s] # {}))
        /\ job' = [job EXCEPT ![j].snapAt = 0]
    BY <1>5 DEF Apply, SnapshotCurrent
  <2>2. /\ used \subseteq Sources
        /\ \A r \in used : /\ share[s][r].st = "pending" /\ evid[r].st \in {"pending", "processed"}
                           /\ share[s][r].job = j /\ share[s][r].ep = epoch[s]
    BY DEF Batch, Usable
  <2>3. \A r \in Sources : w(r) \in ShareRec /\ w(r).ep = share[s][r].ep /\ w(r).job = share[s][r].job
          /\ w(r).st = IF share[s][r].st = "pending" THEN (IF approved THEN "processed" ELSE "rejected") ELSE share[s][r].st
    BY <1>1, <1>2, LearningFacts DEF SettledAs, ShareRec, ShareStates
  <2>4. ASSUME NEW r \in used
        PROVE  v(r) \in EvidenceRec /\ v(r).st \notin {"none", "superseded"} /\ v(r).scopes = evid[r].scopes
    <3> DEFINE st == EvidenceAfter(r, share')
    <3>1. st \in ShareStates /\ st \notin {"none", "superseded"}
      BY <2>2 DEF EvidenceAfter, ShareStates
    <3>2. evid[r] \in EvidenceRec
      BY <1>1, <2>2, LearningFacts
    <3>3. v(r) = [evid[r] EXCEPT !.st = st]
      OBVIOUS
    <3> HIDE DEF st, v
    <3> QED
      BY <3>1, <3>2, <3>3 DEF EvidenceRec
  <2>5. s \in Scopes
    BY <1>2
  <2>6. leaked' = FALSE
    <3>1. ASSUME NEW r \in used PROVE r \notin tainted[s]
      <4>1. r \in Sources /\ share[s][r].ep = born[r][s] /\ share[s][r].ep = epoch[s] /\ evid[r].st # "superseded"
        BY <1>1, <2>2, <2>5 DEF ShareInv
      <4>2. epoch[s] \in Nat
        BY <1>1, <2>5, LearningFacts
      <4>3. born[r][s] = epoch[s] /\ ~(born[r][s] < epoch[s])
        BY <4>1, <4>2
      <4>4. r \in tainted[s] => born[r][s] < epoch[s] \/ evid[r].st = "superseded"
        BY <1>1, <2>5, <4>1 DEF TaintInv
      <4> QED
        BY <4>1, <4>3, <4>4
    <3> QED
      BY <1>1, <2>1, <3>1
  <2>7. JobTypes' /\ Len(job') = Len(job)
    <3> DEFINE e == [job[j] EXCEPT !.snapAt = 0]
    <3>1. e \in JobRec
      BY <1>2 DEF JobRec
    <3>2. job' = [job EXCEPT ![j] = e]
      BY <1>1, <2>1 DEF JobTypes
    <3> HIDE DEF e
    <3> QED
      BY <1>1, <3>1, <3>2, OneJob
  <2> HIDE DEF s, used, w, v
  <2>8. /\ share' \in [Scopes -> [Sources -> ShareRec]]
        /\ \A t \in Scopes, r \in Sources :
             share'[t][r] = IF t = s /\ share[s][r].job = j THEN w(r) ELSE share[t][r]
    BY <1>1, <2>1, <2>3, <2>5 DEF EvidenceTypes
  <2>9. /\ evid' \in [Sources -> EvidenceRec]
        /\ \A r \in Sources : evid'[r] = IF r \in used THEN v(r) ELSE evid[r]
    BY <1>1, <2>1, <2>4 DEF EvidenceTypes
  <2>10. /\ learned' \in [Scopes -> [Sources -> Nat]]
         /\ \A t \in Scopes, r \in Sources :
              learned'[t][r] = IF approved /\ t = s /\ r \in used THEN learned[t][r] + 1 ELSE learned[t][r]
    <3>1. learned \in [Scopes -> [Sources -> Nat]]
      BY <1>1 DEF ScopeTypes
    <3>2. CASE ~approved
      BY <2>1, <3>1, <3>2
    <3>3. CASE approved
      <4>1. learned' = [learned EXCEPT ![s] = [r \in Sources |-> IF r \in used THEN learned[s][r] + 1 ELSE learned[s][r]]]
        BY <2>1, <2>5, <3>1, <3>3
      <4>2. [r \in Sources |-> IF r \in used THEN learned[s][r] + 1 ELSE learned[s][r]] \in [Sources -> Nat]
        BY <2>5, <3>1
      <4> QED
        BY <2>5, <3>1, <3>3, <4>1, <4>2
    <3> QED
      BY <3>2, <3>3
  <2>11. LearningMoves
    <3>1. \A r \in Sources : /\ evid[r].st = "superseded" => evid'[r].st = "superseded"
                             /\ evid[r].st = "none" <=> evid'[r].st = "none"
                             /\ evid'[r].scopes = evid[r].scopes
      BY <2>2, <2>4, <2>9
    <3>2. ASSUME NEW t \in Scopes, NEW r \in Sources
          PROVE  /\ share[t][r].st = "none" <=> share'[t][r].st = "none"
                 /\ share'[t][r].st = "pending" => share[t][r].st = "pending" /\ share'[t][r].ep = share[t][r].ep
                 /\ \/ learned'[t][r] = learned[t][r]
                    \/ learned'[t][r] = learned[t][r] + 1 /\ share[t][r].st = "pending" /\ share'[t][r].st = "processed"
      <4>1. CASE t = s /\ r \in used
        BY <2>2, <2>3, <2>8, <2>10, <4>1
      <4>2. CASE ~(t = s /\ r \in used)
        BY <2>3, <2>8, <2>10, <4>2
      <4> QED
        BY <4>1, <4>2
    <3> QED
      BY <1>3, <3>1, <3>2 DEF LearningMoves
  <2>12. (TaintInv /\ ShareInv /\ CapturedInv)'
    BY <2>11, MovesKeep
  <2>13. JobsOfShares'
    BY <1>1, <2>3, <2>5, <2>7, <2>8 DEF JobsOfShares
  <2> QED
    BY <1>1, <1>3, <2>6, <2>7, <2>8, <2>9, <2>10, <2>12, <2>13
       DEF LearningInv, LearningTypes, ScopeTypes, QueueTypes, EvidenceTypes, DrainInv
<1> QED
  BY <1>4, <1>5


LEMMA SweepStep ==
  ASSUME LearningInv, Sweep
  PROVE  LearningInv'
<1> DEFINE J == 1 .. Len(job)
           st1 == [j \in J |-> IF Exhausted(j) THEN "failed" ELSE job[j].st]
           st2 == [j \in J |-> IF Retried(j, st1[j]) THEN "queued" ELSE st1[j]]
           dead == {j \in J : st2[j] = "cancelled" \/ (st2[j] = "failed" /\ job[j].att >= JobTries)}
           sn(j) == IF st2[j] = "queued" /\ st1[j] = "failed" THEN 0 ELSE job[j].snapAt
           e(j) == [job[j] EXCEPT !.st = st2[j], !.snapAt = sn(j)]
           x(s, r) == [share[s][r] EXCEPT !.st = "rejected"]
<1>1. LearningTypes /\ DrainInv /\ ~leaked
      /\ ScopeTypes /\ QueueTypes /\ EvidenceTypes /\ JobTypes /\ JobsOfShares
  BY DEF LearningInv, LearningTypes
<1>2. /\ job' = [j \in J |-> e(j)]
      /\ share' = [s \in Scopes |-> [r \in Sources |->
                     IF share[s][r].st = "pending" /\ share[s][r].job \in dead THEN x(s, r) ELSE share[s][r]]]
      /\ UNCHANGED <<epoch, born, queue, drain, evid, learned, tainted, leaked>>
  BY DEF Sweep
<1>3. ASSUME NEW j \in J PROVE e(j) \in JobRec
  <2>1. job[j] \in JobRec
    BY <1>1, LearningFacts
  <2>2. st2[j] \in {"queued", "leased", "failed", "succeeded", "cancelled"}
    BY <2>1 DEF JobRec
  <2> HIDE DEF st2
  <2>3. sn(j) \in Nat
    BY <2>1 DEF JobRec
  <2> HIDE DEF sn
  <2> QED
    BY <2>1, <2>2, <2>3 DEF JobRec
<1>4. \A s \in Scopes, r \in Sources :
        x(s, r) \in ShareRec /\ x(s, r).st = "rejected" /\ x(s, r).ep = share[s][r].ep /\ x(s, r).job = share[s][r].job
  BY <1>1, LearningFacts DEF ShareRec, ShareStates
<1> HIDE DEF e, x, dead
<1>5. JobTypes' /\ Len(job') = Len(job)
  BY <1>1, <1>2, <1>3, EveryJob
<1>6. EvidenceTypes'
  BY <1>1, <1>2, <1>4 DEF EvidenceTypes
<1>7. \A s \in Scopes, r \in Sources :
        /\ share'[s][r].ep = share[s][r].ep /\ share'[s][r].job = share[s][r].job
        /\ \/ share'[s][r].st = share[s][r].st
           \/ share[s][r].st = "pending" /\ share'[s][r].st = "rejected"
  BY <1>2, <1>4
<1>8. JobsOfShares'
  BY <1>1, <1>5, <1>7 DEF JobsOfShares
<1>9. LearningMoves
  <2>1. \A s \in Scopes, r \in Sources :
          /\ share[s][r].st = "none" <=> share'[s][r].st = "none"
          /\ share'[s][r].st = "pending" => share[s][r].st = "pending" /\ share'[s][r].ep = share[s][r].ep
    BY <1>7
  <2> QED
    BY <1>2, <2>1 DEF LearningMoves
<1>10. (TaintInv /\ ShareInv /\ CapturedInv)'
  BY <1>9, MovesKeep
<1> QED
  BY <1>1, <1>2, <1>5, <1>6, <1>8, <1>10 DEF LearningInv, LearningTypes, ScopeTypes, QueueTypes, DrainInv

(* Forgetting a scope makes every run created so far unusable for it, and  *)
(* the evidence it was shared with unusable everywhere.                    *)
LEMMA ForgetStep ==
  ASSUME LearningInv, NEW s \in Scopes, Forget(s)
  PROVE  LearningInv'
<1> DEFINE old == {r \in Sources : s \in evid[r].scopes}
           v(r) == [evid[r] EXCEPT !.st = "superseded"]
           x(t, r) == [share[t][r] EXCEPT !.st = "superseded"]
           e(j) == [job[j] EXCEPT !.cancel = TRUE, !.snapAt = 0, !.st = IF @ = "queued" THEN "cancelled" ELSE @]
           f(j) == IF job[j].scope = s /\ job[j].st \in {"queued", "leased", "failed"} THEN e(j) ELSE job[j]
<1>1. LearningTypes /\ DrainInv /\ TaintInv /\ ShareInv /\ CapturedInv /\ ~leaked
      /\ ScopeTypes /\ QueueTypes /\ EvidenceTypes /\ JobTypes /\ JobsOfShares
  BY DEF LearningInv, LearningTypes
<1>2. /\ epoch[s] < MaxEpoch /\ epoch' = [epoch EXCEPT ![s] = @ + 1]
      /\ evid' = [r \in Sources |-> IF r \in old THEN v(r) ELSE evid[r]]
      /\ share' = [t \in Scopes |-> [r \in Sources |-> IF evid'[r].st = "superseded" THEN x(t, r) ELSE share[t][r]]]
      /\ tainted' = [t \in Scopes |-> IF t = s THEN {r \in Sources : Created(r)} ELSE tainted[t] \cup old]
      /\ job' = [j \in 1 .. Len(job) |-> f(j)]
      /\ UNCHANGED <<born, queue, drain, learned, leaked>>
  BY DEF Forget
<1>3. \A r \in Sources : v(r) \in EvidenceRec /\ v(r).st = "superseded" /\ v(r).scopes = evid[r].scopes
  BY <1>1, LearningFacts DEF EvidenceRec, ShareStates
<1>4. \A t \in Scopes, r \in Sources :
        x(t, r) \in ShareRec /\ x(t, r).st = "superseded" /\ x(t, r).ep = share[t][r].ep /\ x(t, r).job = share[t][r].job
  BY <1>1, LearningFacts DEF ShareRec, ShareStates
<1>5. ASSUME NEW j \in 1 .. Len(job) PROVE f(j) \in JobRec
  <2> DEFINE st == IF job[j].st = "queued" THEN "cancelled" ELSE job[j].st
  <2>1. job[j] \in JobRec
    BY <1>1, LearningFacts
  <2>2. st \in {"queued", "leased", "failed", "succeeded", "cancelled"}
    BY <2>1 DEF JobRec
  <2>3. e(j) = [job[j] EXCEPT !.cancel = TRUE, !.snapAt = 0, !.st = st]
    BY <2>1 DEF JobRec
  <2> HIDE DEF st
  <2>4. [job[j] EXCEPT !.cancel = TRUE, !.snapAt = 0, !.st = st] \in JobRec
    BY <2>1, <2>2 DEF JobRec
  <2> QED
    BY <2>1, <2>3, <2>4
<1>6. old \subseteq Sources /\ \A r \in old : evid[r].st # "none"
  BY <1>1 DEF CapturedInv
<1> HIDE DEF f, v, x
<1>7. JobTypes' /\ Len(job') = Len(job)
  BY <1>1, <1>2, <1>5, EveryJob
<1>8. /\ evid' \in [Sources -> EvidenceRec]
      /\ \A r \in Sources : evid'[r] = IF r \in old THEN v(r) ELSE evid[r]
  BY <1>1, <1>2, <1>3 DEF EvidenceTypes
<1>9. \A r \in Sources : /\ evid[r].st = "superseded" => evid'[r].st = "superseded"
                         /\ r \in old => evid'[r].st = "superseded"
                         /\ evid[r].st = "none" <=> evid'[r].st = "none"
                         /\ evid'[r].scopes = evid[r].scopes
  BY <1>3, <1>6, <1>8
<1>10. /\ share' \in [Scopes -> [Sources -> ShareRec]]
       /\ \A t \in Scopes, r \in Sources :
            /\ share'[t][r].ep = share[t][r].ep /\ share'[t][r].job = share[t][r].job
            /\ \/ share'[t][r].st = "superseded" /\ evid'[r].st = "superseded"
               \/ share'[t][r].st = share[t][r].st /\ evid'[r].st # "superseded"
  BY <1>1, <1>2, <1>4 DEF EvidenceTypes
<1> HIDE DEF old
<1>11. ScopeTypes' /\ \A t \in Scopes : epoch'[t] = IF t = s THEN epoch[t] + 1 ELSE epoch[t]
  <2>1. epoch \in [Scopes -> 0 .. MaxEpoch] /\ epoch[s] + 1 \in 0 .. MaxEpoch
    BY <1>1, <1>2, LearningAssumption DEF ScopeTypes
  <2>2. epoch' \in [Scopes -> 0 .. MaxEpoch] /\ \A t \in Scopes : epoch'[t] = IF t = s THEN epoch[t] + 1 ELSE epoch[t]
    BY <1>2, <2>1
  <2>3. tainted' \in [Scopes -> SUBSET Sources]
    BY <1>1, <1>2, <1>6 DEF ScopeTypes
  <2> QED
    BY <1>1, <1>2, <2>2, <2>3 DEF ScopeTypes
<1>12. \A r \in Sources : Created(r)' <=> Created(r)
  BY <1>2 DEF Created
<1>13. TaintInv'
  <2>1. ASSUME NEW t \in Scopes, NEW r \in Sources
        PROVE  /\ Created(r) => born[r][t] <= epoch'[t]
               /\ r \in tainted'[t] => (Created(r) /\ born[r][t] < epoch'[t]) \/ evid'[r].st = "superseded"
    <3>1. /\ Created(r) => born[r][t] <= epoch[t]
          /\ r \in tainted[t] => (Created(r) /\ born[r][t] < epoch[t]) \/ evid[r].st = "superseded"
          /\ epoch[t] \in Nat /\ born[r][t] \in Int
      BY <1>1, LearningFacts DEF TaintInv
    <3>2. tainted'[t] = IF t = s THEN {q \in Sources : Created(q)} ELSE tainted[t] \cup old
      BY <1>2
    <3>3. CASE t = s
      BY <1>9, <1>11, <3>1, <3>2, <3>3
    <3>4. CASE t # s
      BY <1>9, <1>11, <3>1, <3>2, <3>4
    <3> QED
      BY <3>3, <3>4
  <2> QED
    BY <1>2, <1>12, <2>1 DEF TaintInv
<1>14. ShareInv'
  <2>1. ASSUME NEW t \in Scopes, NEW r \in Sources
        PROVE  /\ share'[t][r].st = "pending" => Created(r) /\ share'[t][r].ep = born[r][t]
               /\ evid'[r].st = "none" => evid'[r].scopes = {} /\ share'[t][r].st = "none"
               /\ learned[t][r] <= 1
               /\ share'[t][r].st \in {"none", "pending"} => learned[t][r] = 0
    <3>1. /\ share[t][r].st = "pending" => Created(r) /\ share[t][r].ep = born[r][t]
          /\ evid[r].st = "none" => evid[r].scopes = {} /\ share[t][r].st = "none"
          /\ learned[t][r] <= 1
          /\ share[t][r].st \in {"none", "pending"} => learned[t][r] = 0
      BY <1>1 DEF ShareInv
    <3>2. /\ share'[t][r].ep = share[t][r].ep
          /\ \/ share'[t][r].st = "superseded" /\ evid'[r].st = "superseded"
             \/ share'[t][r].st = share[t][r].st /\ evid'[r].st # "superseded"
      BY <1>10
    <3> QED
      BY <1>9, <3>1, <3>2
  <2> QED
    BY <1>2, <1>12, <2>1 DEF ShareInv
<1>15. CapturedInv'
  BY <1>1, <1>2, <1>9 DEF CapturedInv
<1>16. JobsOfShares'
  BY <1>1, <1>7, <1>10 DEF JobsOfShares
<1> QED
  BY <1>1, <1>2, <1>7, <1>8, <1>10, <1>11, <1>13, <1>14, <1>15, <1>16
     DEF LearningInv, LearningTypes, QueueTypes, EvidenceTypes, DrainInv

LEMMA LearningStep == LearningInv /\ [LearningNext]_lvars => LearningInv'
<1> SUFFICES ASSUME LearningInv, [LearningNext]_lvars PROVE LearningInv'
  OBVIOUS
<1>1. CASE UNCHANGED lvars
  BY <1>1 DEF lvars, LearningInv, LearningTypes, ScopeTypes, QueueTypes, EvidenceTypes, JobTypes, JobsOfShares,
              DrainInv, TaintInv, ShareInv, CapturedInv, Created
<1>2. CASE \E r \in Sources : RunStarts(r) \/ RunCommits(r) \/ \E s \in Scopes : ToolWrite(r, s)
  BY <1>2, RunStep
<1>3. CASE \E d \in Drains : CommitCapture(d) \/ CaptureFails(d) \/ \E r \in Sources : ClaimCapture(d, r)
  BY <1>3, CaptureStep
<1>4. CASE \E s \in Scopes : Schedule(s) \/ Forget(s)
  BY <1>4, ScheduleStep, ForgetStep
<1>5. ASSUME NEW j \in 1 .. Len(job), ClaimJob(j) \/ LoseJob(j) \/ Load(j) \/ CompleteJob(j) \/ FailJob(j)
                                      \/ \E approved \in BOOLEAN : Apply(j, approved)
      PROVE  LearningInv'
  BY <1>5, JobStep, ApplyStep
<1>6. CASE Sweep
  BY <1>6, SweepStep
<1> QED
  BY <1>1, <1>2, <1>3, <1>4, <1>5, <1>6 DEF LearningNext

(* memory/evidence.ts, capture.ts, synthesis.ts: nothing forgotten comes   *)
(* back through an old run, a late capture or a retried job, and a run is  *)
(* learned from once per scope.                                            *)
THEOREM LearningKept == LearningSpec => []LearningSafe
<1>1. LearningInit => LearningInv
  <2> SUFFICES ASSUME LearningInit PROVE LearningInv
    OBVIOUS
  <2>1. ScopeTypes
    <3>1. 0 \in 0 .. MaxEpoch /\ Unborn \in -1 .. MaxEpoch
      BY LearningAssumption DEF Unborn
    <3> QED
      BY <3>1 DEF LearningInit, ScopeTypes
  <2>2. QueueTypes /\ DrainInv
    BY DEF LearningInit, QueueTypes, QueueRec, Free, DrainInv
  <2>3. EvidenceTypes /\ JobsOfShares
    BY DEF LearningInit, EvidenceTypes, EvidenceRec, ShareRec, ShareStates, NoShare, JobsOfShares
  <2>4. JobTypes
    BY LearningAssumption DEF LearningInit, JobTypes
  <2>5. \A r \in Sources : ~Created(r)
    BY DEF LearningInit, Created
  <2>6. TaintInv /\ ShareInv /\ CapturedInv
    BY <2>5 DEF LearningInit, TaintInv, ShareInv, CapturedInv, NoShare
  <2> QED
    BY <2>1, <2>2, <2>3, <2>4, <2>6 DEF LearningInit, LearningInv, LearningTypes
<1>2. LearningInv => LearningSafe
  <2> SUFFICES ASSUME LearningInv PROVE LearningSafe
    OBVIOUS
  <2>1. LearningTypeOK /\ NothingForgottenReturns
    BY LearningTyped DEF LearningInv, NothingForgottenReturns
  <2>2. LearnedOnce
    BY DEF LearningInv, ShareInv, LearnedOnce
  <2> QED
    BY <2>1, <2>2 DEF LearningSafe
<1> QED
  BY <1>1, <1>2, LearningStep, PTL DEF LearningSpec

-----------------------------------------------------------------------------
(* Workspace *)

AttemptTypes == att \in Seq(AttemptRec) /\ Len(att) <= MaxAttempts
CheckpointTypes ==
  /\ ckpt \in [gen : 0 .. MaxGen, entries : [Files -> Nat], by : Nat, base : Nat]
  /\ obj \in Seq(ObjectRec) /\ gc \in 0 .. Len(obj) /\ gone \subseteq 1 .. Len(obj)
HomeTypes ==
  /\ home \in [Attempts -> [Files -> Nat]] /\ kernel \in [Attempts -> Int] /\ cellWrites \in 0 .. MaxWrites
WorkspaceTypes == AttemptTypes /\ CheckpointTypes /\ HomeTypes /\ ended \subseteq Works

(* What entries of a checkpoint hold, in a given object store.             *)
Holding(os, e) == [f \in Files |-> IF e[f] = 0 THEN 0 ELSE os[e[f]].content]
Stored(os, e) == \A f \in Files : e[f] <= Len(os)
Committed == Holding(obj, ckpt.entries)
CurrentSnap == [gen |-> ckpt.gen, entries |-> ckpt.entries]
Place == att[Len(att)].place

(* Only the last attempt may hold the lease, of a run that has not ended;  *)
(* a home that was left is never returned to.                              *)
LastHolds ==
  /\ lease \in {0, Len(att)} /\ (lease # 0 => att[lease].work \notin ended)
  /\ \A i, j \in 1 .. Len(att) : att[i].place <= i /\ (i <= j => att[i].place <= att[j].place)
  /\ \A q \in Attempts : q > Len(att) => kernel[q] = NoKernel

(* Every reference is to an object that was stored.                        *)
ObjectInv ==
  /\ Stored(obj, ckpt.entries)
  /\ \A i \in 1 .. Len(att) : Stored(obj, att[i].snap.entries) /\ Stored(obj, att[i].cap)
  /\ \A o \in 1 .. Len(obj) : obj[o].content <= cellWrites /\ obj[o].by <= Len(att)
  /\ \A q \in Attempts, f \in Files : home[q][f] <= cellWrites

(* What maintenance is about to delete is not referenced, and belongs to   *)
(* an attempt that can no longer commit it.                                *)
RetentionInv ==
  /\ CheckpointReadable
  /\ gc # 0 => ~RetainedReferenced(gc) /\ ~Current(obj[gc].by)

(* The lease holder, once it prepared its home, works on what is committed *)
(* and commits what its home holds.                                        *)
HolderInv == lease # 0 =>
  /\ att[lease].pc \in {"cell", "done", "captured", "ready"} => att[lease].snap = CurrentSnap
  /\ att[lease].pc \in {"cell", "done", "captured"} => ckpt.gen < MaxGen /\ att[lease].from = Committed
  /\ att[lease].pc = "ready" => home[Place] = Committed
  /\ att[lease].pc = "retry" => Repeated(lease)
  /\ att[lease].pc \in {"captured", "retry"} => home[Place] = Holding(obj, att[lease].cap)

(* One cell runs in a home, in a dirty kernel, from the committed          *)
(* checkpoint; when it is not the lease holder's, that one has not begun.  *)
InCell(i) == att[i].place = Place /\ att[i].pc = "cell"
RunningInv == \A i \in 1 .. Len(att) : InCell(i) =>
  /\ kernel[Place] = Dirty /\ att[i].snap = CurrentSnap
  /\ \A j \in 1 .. Len(att) : InCell(j) => j = i
  /\ lease \notin {0, i} => att[lease].pc \in {"new", "over"}

(* A kernel marked with the committed generation has the committed files.  *)
MarkedInv == Len(att) > 0 /\ kernel[Place] = ckpt.gen => home[Place] = Committed

(* An attempt that lost its lease in this home is not ahead of what is     *)
(* committed, nor is that ahead of the home.                               *)
NotAhead(h, k) == \A f \in Files : h[f] <= k[f]
BehindInv == \A i \in 1 .. Len(att) : att[i].place = Place =>
  /\ att[i].pc \in {"cell", "done"} \/ (att[i].pc = "captured" /\ i = lease) => NotAhead(Committed, home[Place])
  /\ att[i].pc \in {"cell", "done"} => NotAhead(Holding(obj, att[i].snap.entries), Committed)

CoreInv == HolderInv /\ RunningInv /\ MarkedInv /\ BehindInv
WorkspaceInv == WorkspaceTypes /\ LastHolds /\ ObjectInv /\ RetentionInv /\ CoreInv

AttemptStates == {"new", "cell", "done", "captured", "retry", "ready", "over"}
SnapRec == [gen : Nat, entries : [Files -> Nat]]

LEMMA AttemptFields ==
  ASSUME NEW r
  PROVE  r \in AttemptRec <=>
           /\ r = [work |-> r.work, place |-> r.place, pc |-> r.pc, from |-> r.from, snap |-> r.snap, cap |-> r.cap]
           /\ r.work \in Works /\ r.place \in Attempts /\ r.pc \in AttemptStates
           /\ r.from \in [Files -> Nat] /\ r.snap \in SnapRec /\ r.cap \in [Files -> Nat]
  BY DEF AttemptRec, AttemptStates, SnapRec

LEMMA WorkspaceFacts ==
  ASSUME WorkspaceTypes
  PROVE  /\ Len(att) \in Nat /\ Len(att) <= MaxAttempts
         /\ \A i \in 1 .. Len(att) :
              /\ att[i] \in AttemptRec /\ att[i].work \in Works /\ att[i].place \in Attempts /\ att[i].pc \in AttemptStates
              /\ att[i].from \in [Files -> Nat] /\ att[i].snap \in SnapRec /\ att[i].cap \in [Files -> Nat]
              /\ att[i].snap.gen \in Nat /\ att[i].snap.entries \in [Files -> Nat]
         /\ Len(obj) \in Nat /\ \A o \in 1 .. Len(obj) : obj[o] \in ObjectRec /\ obj[o].by \in Attempts /\ obj[o].content \in Nat
         /\ ckpt.gen \in 0 .. MaxGen /\ ckpt.gen \in Nat /\ ckpt.entries \in [Files -> Nat]
         /\ \A q \in Attempts : home[q] \in [Files -> Nat] /\ kernel[q] \in Int
         /\ cellWrites \in Nat /\ CurrentSnap \in SnapRec
<1>1. AttemptTypes /\ CheckpointTypes /\ HomeTypes
  BY DEF WorkspaceTypes
<1>2. Len(att) \in Nat /\ Len(att) <= MaxAttempts /\ \A i \in 1 .. Len(att) : att[i] \in AttemptRec
  BY <1>1 DEF AttemptTypes
<1>3. \A i \in 1 .. Len(att) :
        /\ att[i].work \in Works /\ att[i].place \in Attempts /\ att[i].pc \in AttemptStates
        /\ att[i].from \in [Files -> Nat] /\ att[i].snap \in SnapRec /\ att[i].cap \in [Files -> Nat]
  BY <1>2, AttemptFields
<1>4. \A s \in SnapRec : s.gen \in Nat /\ s.entries \in [Files -> Nat]
  BY DEF SnapRec
<1>5. Len(obj) \in Nat /\ \A o \in 1 .. Len(obj) : obj[o] \in ObjectRec
  BY <1>1 DEF CheckpointTypes
<1>6. \A o \in ObjectRec : o.by \in Attempts /\ o.content \in Nat
  BY DEF ObjectRec
<1>7. ckpt.gen \in 0 .. MaxGen /\ ckpt.gen \in Nat /\ ckpt.entries \in [Files -> Nat]
  BY <1>1, WorkspaceAssumption DEF CheckpointTypes
<1>8. \A q \in Attempts : home[q] \in [Files -> Nat] /\ kernel[q] \in Int
  BY <1>1 DEF HomeTypes
<1>9. cellWrites \in Nat
  BY <1>1, WorkspaceAssumption DEF HomeTypes
<1>10. CurrentSnap \in SnapRec
  BY <1>7 DEF CurrentSnap, SnapRec
<1> QED
  BY <1>2, <1>3, <1>4, <1>5, <1>6, <1>7, <1>8, <1>9, <1>10

(* What is stored stays readable the same way when objects are added.      *)
Grows(os, new) == Len(os) <= Len(new) /\ \A o \in 1 .. Len(os) : new[o] = os[o]

LEMMA HoldingKept ==
  ASSUME NEW os \in Seq(ObjectRec), NEW new, Grows(os, new), NEW e \in [Files -> Nat], Stored(os, e)
  PROVE  Holding(new, e) = Holding(os, e)
<1>1. \A f \in Files : e[f] # 0 => e[f] \in 1 .. Len(os)
  BY DEF Stored
<1> QED
  BY <1>1 DEF Holding, Grows

LEMMA HoldingTyped ==
  ASSUME WorkspaceTypes, ObjectInv, NEW e \in [Files -> Nat], Stored(obj, e)
  PROVE  Holding(obj, e) \in [Files -> Nat] /\ \A f \in Files : Holding(obj, e)[f] <= cellWrites
<1>1. Len(obj) \in Nat /\ cellWrites \in Nat /\ \A o \in 1 .. Len(obj) : obj[o].content \in Nat /\ obj[o].content <= cellWrites
  BY WorkspaceFacts DEF ObjectInv
<1>2. \A f \in Files : e[f] # 0 => e[f] \in 1 .. Len(obj)
  BY <1>1 DEF Stored
<1> QED
  BY <1>1, <1>2 DEF Holding

LEMMA IsHolding == \A e : Contents(e) = Holding(obj, e)
  BY DEF Contents, Holding


(* Attempts end, the lease may run out and kernels may be lost; nothing    *)
(* else happens to the current home.                                       *)
RetiresOnly(b) == att'[b] = att[b] \/ att'[b] = Done(att[b])
Retires ==
  /\ Len(att') = Len(att) /\ att' \in Seq(AttemptRec) /\ \A i \in 1 .. Len(att) : RetiresOnly(i)
  /\ UNCHANGED <<ckpt, obj, home, cellWrites>>
  /\ lease' \in {0, lease} /\ (lease' # 0 => ended' = ended)
  /\ kernel' \in [Attempts -> Int]
  /\ \A q \in Attempts : kernel'[q] = kernel[q] \/ kernel'[q] = NoKernel
  /\ Len(att) > 0 /\ kernel'[Place] # kernel[Place] => \A i \in 1 .. Len(att) : att'[i].place = Place => att'[i].pc # "cell"

LEMMA DoneIs ==
  ASSUME NEW r \in AttemptRec
  PROVE  /\ Done(r) \in AttemptRec /\ Done(r).work = r.work /\ Done(r).place = r.place /\ Done(r).pc = "over"
         /\ Done(r).snap.entries = Empty /\ Done(r).cap = Empty
<1>1. r.work \in Works /\ r.place \in Attempts
  BY AttemptFields
<1>2. Empty \in [Files -> Nat]
  BY DEF Empty
<1>3. [gen |-> 0, entries |-> Empty] \in SnapRec
  BY <1>2 DEF SnapRec
<1> QED
  BY <1>1, <1>2, <1>3 DEF Done, Fresh, AttemptRec, SnapRec

LEMMA RetireStep ==
  ASSUME WorkspaceTypes, LastHolds, ObjectInv, CoreInv, Retires
  PROVE  AttemptTypes' /\ HomeTypes' /\ LastHolds' /\ ObjectInv' /\ CoreInv'
<1>1. Len(att') = Len(att) /\ Len(att) \in Nat
      /\ \A i \in 1 .. Len(att) : /\ att'[i] = att[i] \/ att'[i].pc = "over"
                                  /\ att'[i].work = att[i].work /\ att'[i].place = att[i].place
                                  /\ att'[i].snap.entries \in {att[i].snap.entries, Empty}
                                  /\ att'[i].cap \in {att[i].cap, Empty}
  BY WorkspaceFacts, DoneIs DEF Retires, RetiresOnly
<1>2. UNCHANGED <<ckpt, obj, home, cellWrites>>
      /\ lease' \in {0, lease} /\ (lease' # 0 => ended' = ended) /\ lease \in {0, Len(att)}
  BY DEF Retires, LastHolds
<1>3. /\ \A q \in Attempts : kernel'[q] = kernel[q] \/ kernel'[q] = NoKernel
      /\ Len(att) > 0 /\ kernel'[Place] # kernel[Place] => \A i \in 1 .. Len(att) : att'[i].place = Place => att'[i].pc # "cell"
  BY DEF Retires
<1>4. Place' = Place \/ Len(att) = 0
  BY <1>1 DEF Place
<1>5. AttemptTypes' /\ HomeTypes'
  BY <1>1, <1>2 DEF WorkspaceTypes, AttemptTypes, HomeTypes, Retires
<1>6. LastHolds'
  BY <1>1, <1>2, <1>3 DEF LastHolds
<1>7. ObjectInv'
  <2>1. Stored(obj, Empty)
    BY WorkspaceFacts DEF Stored, Empty
  <2> QED
    BY <1>1, <1>2, <2>1 DEF ObjectInv, Stored
<1>8. Committed' = Committed /\ CurrentSnap' = CurrentSnap /\ ckpt' = ckpt
  BY <1>2 DEF Committed, Holding, CurrentSnap
<1>9. CASE Len(att) = 0
  BY <1>1, <1>2, <1>5, <1>6, <1>7, <1>9 DEF CoreInv, HolderInv, RunningInv, MarkedInv, BehindInv
<1>10. CASE Len(att) # 0
  <2>1. Place' = Place /\ Len(att) \in 1 .. Len(att) /\ Place \in Attempts
    BY <1>1, <1>4, <1>10, WorkspaceFacts DEF Place
  <2>2. HolderInv'
    <3>1. CASE lease' = 0
      BY <3>1 DEF HolderInv
    <3>2. CASE lease' # 0 /\ att'[lease].pc = "over"
      BY <1>2, <3>2 DEF HolderInv
    <3>3. CASE lease' # 0 /\ att'[lease] = att[lease]
      <4>1. lease' = lease
        BY <1>2, <3>3
      <4> QED
        BY <1>2, <1>8, <2>1, <3>3, <4>1 DEF CoreInv, HolderInv, Repeated, Holding
    <3> QED
      BY <1>1, <1>2, <2>1, <3>1, <3>2, <3>3
  <2>3. RunningInv'
    <3>1. ASSUME NEW i \in 1 .. Len(att), InCell(i)'
          PROVE  /\ kernel'[Place] = Dirty /\ att'[i].snap = CurrentSnap
                 /\ \A j \in 1 .. Len(att) : InCell(j)' => j = i
                 /\ lease' \notin {0, i} => att'[lease].pc \in {"new", "over"}
      <4>1. InCell(i) /\ att'[i] = att[i] /\ \A j \in 1 .. Len(att) : InCell(j)' => InCell(j)
        BY <1>1, <2>1, <3>1 DEF InCell
      <4>2. kernel'[Place] = kernel[Place]
        BY <1>1, <1>3, <1>10, <2>1, <3>1 DEF InCell
      <4>3. lease # 0 => lease \in 1 .. Len(att)
        BY <1>2, <2>1
      <4>4. /\ kernel[Place] = Dirty /\ att[i].snap = CurrentSnap
            /\ \A j \in 1 .. Len(att) : InCell(j) => j = i
            /\ lease \notin {0, i} => att[lease].pc \in {"new", "over"}
        BY <4>1 DEF CoreInv, RunningInv
      <4> QED
        BY <1>1, <1>2, <4>1, <4>2, <4>3, <4>4
    <3> QED
      BY <1>1, <1>2, <1>8, <2>1, <3>1 DEF RunningInv
  <2>4. MarkedInv'
    <3>1. NoKernel # ckpt.gen
      BY WorkspaceFacts DEF NoKernel
    <3> QED
      BY <1>1, <1>2, <1>3, <1>8, <1>10, <2>1, <3>1 DEF CoreInv, MarkedInv
  <2>5. BehindInv'
    <3>1. ASSUME NEW i \in 1 .. Len(att), att'[i].place = Place
          PROVE  /\ att'[i].pc \in {"cell", "done"} \/ (att'[i].pc = "captured" /\ i = lease') => NotAhead(Committed, home[Place])
                 /\ att'[i].pc \in {"cell", "done"} => NotAhead(Holding(obj, att'[i].snap.entries), Committed)
      <4>1. att[i].place = Place
        BY <1>1, <3>1
      <4>2. /\ att[i].pc \in {"cell", "done"} \/ (att[i].pc = "captured" /\ i = lease) => NotAhead(Committed, home[Place])
            /\ att[i].pc \in {"cell", "done"} => NotAhead(Holding(obj, att[i].snap.entries), Committed)
        BY <4>1 DEF CoreInv, BehindInv
      <4>3. i = lease' => i = lease
        BY <1>2
      <4> QED
        BY <1>1, <4>2, <4>3
    <3>2. \A k : NotAhead(Committed, k)' <=> NotAhead(Committed, k)
      BY <1>8 DEF NotAhead
    <3> QED
      BY <1>1, <1>2, <1>8, <2>1, <3>1 DEF BehindInv, NotAhead, Holding
  <2> QED
    BY <1>5, <1>6, <1>7, <2>2, <2>3, <2>4, <2>5 DEF CoreInv
<1> QED
  BY <1>9, <1>10


LEMMA RetentionKept ==
  ASSUME WorkspaceTypes, AttemptTypes', ObjectInv, RetentionInv, UNCHANGED <<gone, gc, ckpt>>, Grows(obj, obj'),
         Len(att) <= Len(att'), \A i \in 1 .. Len(att) : att'[i].work = att[i].work, ended \subseteq ended'
  PROVE  RetentionInv'
<1>1. CheckpointReadable'
  BY DEF RetentionInv, CheckpointReadable, Readable
<1>2. ASSUME gc # 0 PROVE ~RetainedReferenced(gc)' /\ ~Current(obj[gc].by)'
  <2>1. ~RetainedReferenced(gc) /\ ~Current(obj[gc].by)
    BY <1>2 DEF RetentionInv
  <2>2. gc \in 1 .. Len(obj)
    BY <1>2 DEF WorkspaceTypes, CheckpointTypes
  <2>3. obj'[gc] = obj[gc] /\ obj[gc].by \in 1 .. Len(att)
    BY <2>2, WorkspaceFacts DEF Grows, ObjectInv, Attempts
  <2> DEFINE b == obj[gc].by
  <2>4. att[b].work \in ended \/ \E c \in b + 1 .. Len(att) : att[c].work = att[b].work
    BY <2>1 DEF Current
  <2>5. Len(att) \in Nat /\ Len(att') \in Nat
    BY WorkspaceFacts DEF AttemptTypes
  <2>6. \A c \in b + 1 .. Len(att) : c \in b + 1 .. Len(att') /\ att'[c].work = att[c].work
    BY <2>3, <2>5
  <2>7. att'[b].work \in ended' \/ \E c \in b + 1 .. Len(att') : att'[c].work = att'[b].work
    BY <2>3, <2>4, <2>6
  <2> QED
    BY <2>1, <2>3, <2>7 DEF RetainedReferenced, Current
<1> QED
  BY <1>1, <1>2 DEF RetentionInv

LEMMA RetirementKeeps ==
  ASSUME WorkspaceInv, Retires, UNCHANGED <<gone, gc>>, ended \subseteq ended', ended' \subseteq Works
  PROVE  WorkspaceInv'
<1>1. WorkspaceTypes /\ CheckpointTypes /\ LastHolds /\ ObjectInv /\ RetentionInv /\ CoreInv
  BY DEF WorkspaceInv, WorkspaceTypes
<1>2. AttemptTypes' /\ HomeTypes' /\ LastHolds' /\ ObjectInv' /\ CoreInv'
  BY <1>1, RetireStep
<1>3. CheckpointTypes' /\ Len(att') = Len(att) /\ Grows(obj, obj') /\ UNCHANGED ckpt
  BY <1>1, WorkspaceFacts DEF Retires, CheckpointTypes, Grows
<1>4. \A i \in 1 .. Len(att) : att'[i].work = att[i].work
  BY <1>1, WorkspaceFacts, DoneIs DEF Retires, RetiresOnly
<1>5. RetentionInv'
  BY <1>1, <1>2, <1>3, <1>4, WorkspaceFacts, RetentionKept
<1> QED
  BY <1>1, <1>2, <1>3, <1>5 DEF WorkspaceInv, WorkspaceTypes

(* att[a] becomes r, and some of the other attempts end.                   *)
Advances(a, r) ==
  /\ Len(att') = Len(att) /\ att' \in Seq(AttemptRec) /\ att'[a] = r
  /\ \A i \in 1 .. Len(att) : i # a => RetiresOnly(i)

LEMMA OneAdvances ==
  ASSUME AttemptTypes, NEW a \in 1 .. Len(att), NEW r \in AttemptRec, att' = [att EXCEPT ![a] = r]
  PROVE  Advances(a, r)
  BY DEF AttemptTypes, Advances, RetiresOnly

LEMMA OthersKilled ==
  ASSUME AttemptTypes, NEW a \in 1 .. Len(att), NEW r \in AttemptRec, att' = [KillOthers(a) EXCEPT ![a] = r]
  PROVE  /\ Advances(a, r) /\ \A i \in 1 .. Len(att) : i # a /\ att'[i].place = att[a].place => att'[i].pc # "cell"
<1>1. att \in Seq(AttemptRec) /\ Len(att) \in Nat /\ \A i \in 1 .. Len(att) : att[i] \in AttemptRec /\ Done(att[i]) \in AttemptRec
  BY DoneIs DEF AttemptTypes
<1>2. KillOthers(a) \in [1 .. Len(att) -> AttemptRec]
  BY <1>1 DEF KillOthers
<1>3. att' \in [1 .. Len(att) -> AttemptRec]
  BY <1>2
<1>4. att' \in Seq(AttemptRec)
  <2>1. Len(att) \in Nat
    BY <1>1
  <2> QED
    BY <1>3, <2>1, FunctionIsSeq
<1>5. Len(att') = Len(att)
  BY <1>1, <1>3, <1>4, LenProperties
<1>6. att'[a] = r /\ \A i \in 1 .. Len(att) : i # a => att'[i] = KillOthers(a)[i]
  BY <1>2
<1>7. \A i \in 1 .. Len(att) : KillOthers(a)[i] = IF i # a /\ att[i].place = att[a].place /\ att[i].pc = "cell" THEN Done(att[i]) ELSE att[i]
  BY DEF KillOthers
<1>8. \A i \in 1 .. Len(att) : Done(att[i]).pc = "over" /\ Done(att[i]).place = att[i].place
  BY <1>1, DoneIs
<1>9. Advances(a, r)
  BY <1>4, <1>5, <1>6, <1>7 DEF Advances, RetiresOnly
<1> QED
  BY <1>6, <1>7, <1>8, <1>9

LEMMA EndsAre ==
  ASSUME AttemptTypes, NEW a \in 1 .. Len(att)
  PROVE  /\ Done(att[a]) \in AttemptRec
         /\ att' = Over(a) => Advances(a, Done(att[a]))
         /\ att' = [KillOthers(a) EXCEPT ![a] = Done(@)] =>
              Advances(a, Done(att[a])) /\ \A i \in 1 .. Len(att) : i # a /\ att'[i].place = att[a].place => att'[i].pc # "cell"
<1>1. att[a] \in AttemptRec /\ Done(att[a]) \in AttemptRec
  BY DoneIs DEF AttemptTypes
<1>2. KillOthers(a)[a] = att[a] /\ a \in DOMAIN KillOthers(a)
  BY DEF KillOthers
<1>3. att' = [KillOthers(a) EXCEPT ![a] = Done(@)] => att' = [KillOthers(a) EXCEPT ![a] = Done(att[a])]
  BY <1>2
<1>4. att' = Over(a) => att' = [att EXCEPT ![a] = Done(att[a])]
  BY DEF Over, At
<1> QED
  BY <1>1, <1>3, <1>4, OneAdvances, OthersKilled


LEMMA EndOne ==
  ASSUME WorkspaceInv, NEW a \in 1 .. Len(att), Advances(a, Done(att[a])),
         UNCHANGED <<ckpt, obj, gone, gc, home, cellWrites>>,
         lease' \in {0, lease}, lease' # 0 => ended' = ended, ended \subseteq ended', ended' \subseteq Works,
         kernel' \in [Attempts -> Int], \A q \in Attempts : kernel'[q] = kernel[q] \/ kernel'[q] = NoKernel,
         kernel'[Place] # kernel[Place] => \A i \in 1 .. Len(att) : i # a /\ att'[i].place = Place => att'[i].pc # "cell"
  PROVE  WorkspaceInv'
<1>1. att'[a].pc = "over"
  BY WorkspaceFacts, DoneIs DEF WorkspaceInv, Advances
<1>2. Retires
  BY <1>1 DEF Advances, Retires, RetiresOnly
<1> QED
  BY <1>2, RetirementKeeps

LEMMA EndStep ==
  ASSUME WorkspaceInv, Expire \/ (\E a \in 1 .. Len(att), final \in BOOLEAN : EndRun(a, final))
  PROVE  WorkspaceInv'
<1>1. WorkspaceTypes /\ AttemptTypes /\ kernel \in [Attempts -> Int] /\ ended \subseteq Works
  BY DEF WorkspaceInv, WorkspaceTypes, HomeTypes
<1>2. CASE Expire
  <2>1. lease' = 0 /\ UNCHANGED <<att, ended, ckpt, obj, gone, gc, home, kernel, cellWrites>>
    BY <1>2 DEF Expire
  <2>2. Retires
    BY <1>1, <2>1 DEF Retires, RetiresOnly, AttemptTypes
  <2> QED
    BY <1>1, <2>1, <2>2, RetirementKeeps
<1>3. ASSUME NEW a \in 1 .. Len(att), NEW final \in BOOLEAN, EndRun(a, final) PROVE WorkspaceInv'
  <2>1. lease' = 0 /\ att' = Over(a) /\ UNCHANGED <<ckpt, obj, gone, gc, home, kernel, cellWrites>>
        /\ ended' = IF final THEN ended \cup {att[a].work} ELSE ended
    BY <1>3 DEF EndRun
  <2>2. Advances(a, Done(att[a]))
    BY <1>1, <2>1, EndsAre
  <2>3. ended \subseteq ended' /\ ended' \subseteq Works
    BY <1>1, <2>1, WorkspaceFacts
  <2> QED
    BY <1>1, <2>1, <2>2, <2>3, EndOne
<1> QED
  BY <1>2, <1>3

LEMMA CrashStep ==
  ASSUME WorkspaceInv, NEW p \in Attempts, Crash(p) \/ KernelLost(p)
  PROVE  WorkspaceInv'
<1>1. WorkspaceTypes /\ AttemptTypes /\ kernel \in [Attempts -> Int] /\ ended \subseteq Works
      /\ \A i \in 1 .. Len(att) : att[i] \in AttemptRec
  BY WorkspaceFacts DEF WorkspaceInv, WorkspaceTypes, HomeTypes
<1>2. kernel' = [kernel EXCEPT ![p] = NoKernel] /\ UNCHANGED <<lease, ended, ckpt, obj, gone, gc, home, cellWrites>>
  BY DEF Crash, KernelLost
<1>3. kernel' \in [Attempts -> Int] /\ \A q \in Attempts : kernel'[q] = IF q = p THEN NoKernel ELSE kernel[q]
  BY <1>1, <1>2 DEF NoKernel
<1>4. Len(att) > 0 => Place \in Attempts
  BY <1>1, WorkspaceFacts DEF Place
<1>5. CASE Crash(p)
  <2>1. att' = [a \in 1 .. Len(att) |-> IF att[a].place = p THEN Done(att[a]) ELSE att[a]]
    BY <1>5 DEF Crash
  <2>2. \A i \in 1 .. Len(att) : Done(att[i]) \in AttemptRec /\ Done(att[i]).pc = "over" /\ Done(att[i]).place = att[i].place
    BY <1>1, DoneIs
  <2>3. att' \in [1 .. Len(att) -> AttemptRec]
    BY <1>1, <2>1, <2>2
  <2>4. att' \in Seq(AttemptRec) /\ Len(att') = Len(att)
    <3>1. Len(att) \in Nat
      BY <1>1, WorkspaceFacts
    <3>2. att' \in Seq(AttemptRec)
      BY <2>3, <3>1, FunctionIsSeq
    <3> QED
      BY <2>3, <3>1, <3>2, LenProperties
  <2>5. \A i \in 1 .. Len(att) : RetiresOnly(i) /\ (att'[i].place = p => att'[i].pc # "cell")
    BY <2>1, <2>2 DEF RetiresOnly
  <2>6. Retires
    BY <1>2, <1>3, <1>4, <2>4, <2>5 DEF Retires
  <2> QED
    BY <1>1, <1>2, <2>6, RetirementKeeps
<1>6. CASE KernelLost(p)
  <2>1. att' = att /\ kernel[p] >= 0
    BY <1>6 DEF KernelLost
  <2>2. ASSUME Len(att) > 0, Place = p, NEW i \in 1 .. Len(att), att[i].place = Place PROVE att[i].pc # "cell"
    <3>1. InCell(i) => kernel[Place] = Dirty
      BY DEF WorkspaceInv, CoreInv, RunningInv
    <3> QED
      BY <2>1, <2>2, <3>1 DEF InCell, Dirty
  <2>3. Retires
    BY <1>1, <1>2, <1>3, <1>4, <2>1, <2>2 DEF Retires, RetiresOnly, AttemptTypes
  <2> QED
    BY <1>1, <1>2, <2>3, RetirementKeeps
<1> QED
  BY <1>5, <1>6

(* Maintenance: an object is deleted after a commit only if none can have  *)
(* taken it up.                                                            *)
LEMMA MaintenanceStep ==
  ASSUME WorkspaceInv, Delete \/ \E o \in 1 .. Len(obj) : Inspect(o)
  PROVE  WorkspaceInv'
<1>1. WorkspaceTypes /\ AttemptTypes /\ CheckpointTypes /\ kernel \in [Attempts -> Int] /\ ended \subseteq Works
      /\ LastHolds /\ ObjectInv /\ RetentionInv /\ CoreInv
  BY DEF WorkspaceInv, WorkspaceTypes, HomeTypes
<1>2. UNCHANGED <<lease, att, ended, ckpt, obj, home, kernel, cellWrites>>
  BY DEF Delete, Inspect
<1>3. AttemptTypes' /\ HomeTypes' /\ LastHolds' /\ ObjectInv' /\ CoreInv'
  <2>1. Retires
    BY <1>1, <1>2 DEF Retires, RetiresOnly, AttemptTypes
  <2> QED
    BY <1>1, <2>1, RetireStep
<1>4. CASE Delete
  <2>1. gc # 0 /\ gone' = gone \cup {gc} /\ gc' = 0
    BY <1>4 DEF Delete
  <2>2. \A f \in Files : ckpt.entries[f] # 0 => ckpt.entries[f] \notin gone'
    BY <1>1, <2>1 DEF RetentionInv, CheckpointReadable, Readable, RetainedReferenced
  <2>3. RetentionInv'
    BY <1>2, <2>1, <2>2 DEF RetentionInv, CheckpointReadable, Readable
  <2>4. CheckpointTypes'
    <3>1. Len(obj) \in Nat /\ gc \in 1 .. Len(obj) /\ gone \subseteq 1 .. Len(obj)
      BY <1>1, <2>1, WorkspaceFacts DEF CheckpointTypes
    <3>2. gc' \in 0 .. Len(obj) /\ gone' \subseteq 1 .. Len(obj)
      BY <2>1, <3>1
    <3> QED
      BY <1>1, <1>2, <3>2 DEF CheckpointTypes
  <2> QED
    BY <1>1, <1>2, <1>3, <2>3, <2>4 DEF WorkspaceInv, WorkspaceTypes
<1>5. ASSUME NEW o \in 1 .. Len(obj), Inspect(o) PROVE WorkspaceInv'
  <2>1. gc' = o /\ gone' = gone /\ ~RetainedReferenced(o) /\ ~Current(obj[o].by)
    BY <1>5 DEF Inspect, Retained
  <2>2. RetentionInv'
    BY <1>1, <1>2, <2>1 DEF RetentionInv, CheckpointReadable, Readable, RetainedReferenced, Current
  <2>3. CheckpointTypes'
    BY <1>1, <1>2, <2>1, WorkspaceFacts DEF CheckpointTypes
  <2> QED
    BY <1>1, <1>2, <1>3, <2>2, <2>3 DEF WorkspaceInv, WorkspaceTypes
<1> QED
  BY <1>4, <1>5


LEMMA AttemptClaims ==
  ASSUME WorkspaceInv, NEW w \in Works, NEW moves \in BOOLEAN, ClaimRun(w, moves)
  PROVE  WorkspaceInv'
<1> DEFINE n == Len(att) + 1
           q == IF moves \/ att = <<>> THEN n ELSE att[n - 1].place
           r == Fresh(w, q, "new")
<1>1. WorkspaceTypes /\ AttemptTypes /\ CheckpointTypes /\ HomeTypes /\ ended \subseteq Works
      /\ LastHolds /\ ObjectInv /\ RetentionInv /\ CoreInv
  BY DEF WorkspaceInv, WorkspaceTypes
<1>2. /\ lease = 0 /\ w \notin ended /\ Len(att) < MaxAttempts /\ att' = Append(att, r) /\ lease' = n
      /\ UNCHANGED <<ended, ckpt, obj, gone, gc, home, kernel, cellWrites>>
  BY DEF ClaimRun
<1>3. Len(att) \in Nat /\ \A i \in 1 .. Len(att) : att[i] \in AttemptRec
  BY <1>1, WorkspaceFacts
<1>4. q = n \/ (Len(att) > 0 /\ q = Place)
  BY <1>1, <1>3 DEF Place, AttemptTypes
<1>5. n \in Attempts /\ q \in Attempts
  <2>1. n \in Attempts
    BY <1>2, <1>3, WorkspaceAssumption DEF Attempts
  <2>2. Len(att) > 0 => Place \in Attempts
    BY <1>1, <1>3, WorkspaceFacts DEF Place
  <2> QED
    BY <1>4, <2>1, <2>2
<1> HIDE DEF q
<1>6. r \in AttemptRec /\ r.work = w /\ r.place = q /\ r.pc = "new" /\ r.snap.entries = Empty /\ r.cap = Empty
  <2>1. Empty \in [Files -> Nat]
    BY DEF Empty
  <2>2. [gen |-> 0, entries |-> Empty] \in SnapRec
    BY <2>1 DEF SnapRec
  <2> QED
    BY <1>5, <2>1, <2>2 DEF Fresh, AttemptRec, SnapRec
<1> HIDE DEF r
<1>7. /\ att' \in Seq(AttemptRec) /\ Len(att') = n /\ att'[n] = r
      /\ \A i \in 1 .. Len(att) : att'[i] = att[i]
  BY <1>1, <1>2, <1>3, <1>6 DEF AttemptTypes
<1>8. AttemptTypes' /\ CheckpointTypes' /\ HomeTypes'
  BY <1>1, <1>2, <1>3, <1>7, WorkspaceAssumption DEF AttemptTypes, CheckpointTypes, HomeTypes
<1>9. LastHolds'
  <2>1. \A i \in 1 .. n : i \in 1 .. Len(att) \/ i = n
    BY <1>3
  <2>2. \A i \in 1 .. Len(att) : att[i].place \in Nat /\ att[i].place <= i /\ att[i].place <= q
    <3>1. ASSUME NEW i \in 1 .. Len(att) PROVE att[i].place \in Nat /\ att[i].place <= i /\ att[i].place <= Place
      <4>1. att[i].place \in Nat
        BY <1>1, WorkspaceFacts DEF Attempts
      <4>2. Len(att) \in 1 .. Len(att) /\ i <= Len(att)
        BY <1>3
      <4> QED
        BY <1>1, <4>1, <4>2 DEF LastHolds, Place
    <3> QED
      BY <1>3, <1>4, <3>1
  <2>3. q <= n
    <3>1. Len(att) > 0 => Len(att) \in 1 .. Len(att) /\ Place <= Len(att) /\ Place \in Nat
      BY <1>1, <1>3, WorkspaceFacts DEF LastHolds, Place, Attempts
    <3> QED
      BY <1>3, <1>4, <3>1
  <2>4. \A i, j \in 1 .. n : att'[i].place <= i /\ (i <= j => att'[i].place <= att'[j].place)
    <3>1. \A i, j \in 1 .. Len(att) : att[i].place <= i /\ (i <= j => att[i].place <= att[j].place)
      BY <1>1 DEF LastHolds
    <3>2. q \in Nat
      BY <1>5 DEF Attempts
    <3>3. att'[n].place = q /\ \A i \in 1 .. Len(att) : att'[i].place = att[i].place
      BY <1>6, <1>7
    <3>4. \A i \in 1 .. n : att'[i].place <= i
      BY <1>3, <2>1, <2>3, <3>1, <3>3
    <3>5. ASSUME NEW i \in 1 .. n, NEW j \in 1 .. n, i <= j PROVE att'[i].place <= att'[j].place
      <4>1. CASE j \in 1 .. Len(att)
        <5>1. i \in 1 .. Len(att)
          BY <1>3, <3>5, <4>1
        <5> QED
          BY <3>1, <3>3, <3>5, <4>1, <5>1
      <4>2. CASE j = n
        BY <2>1, <2>2, <3>2, <3>3, <4>2
      <4> QED
        BY <2>1, <4>1, <4>2
    <3> QED
      BY <3>4, <3>5
  <2>5. \A k \in Attempts : k > n => kernel[k] = NoKernel
    BY <1>1, <1>3 DEF LastHolds, Attempts
  <2> QED
    BY <1>2, <1>6, <1>7, <2>4, <2>5 DEF LastHolds
<1>10. ObjectInv'
  <2>1. Stored(obj, Empty)
    BY <1>1, WorkspaceFacts DEF Stored, Empty
  <2>2. \A i \in 1 .. n : i \in 1 .. Len(att) \/ i = n
    BY <1>3
  <2>3. \A i \in 1 .. n : Stored(obj, att'[i].snap.entries) /\ Stored(obj, att'[i].cap)
    BY <1>1, <1>6, <1>7, <2>1, <2>2 DEF ObjectInv
  <2>4. \A o \in 1 .. Len(obj) : obj[o].by \in Int /\ obj[o].by <= n
    BY <1>1, <1>3, WorkspaceFacts DEF ObjectInv, Attempts
  <2> QED
    BY <1>1, <1>2, <1>7, <2>3, <2>4 DEF ObjectInv, Stored
<1>11. RetentionInv'
  <2>1. Len(att) <= Len(att') /\ Grows(obj, obj')
    BY <1>1, <1>2, <1>3, <1>7, WorkspaceFacts DEF Grows
  <2> QED
    BY <1>1, <1>2, <1>7, <1>8, <2>1, RetentionKept
<1>12. Place' = q /\ ckpt' = ckpt /\ Committed' = Committed /\ CurrentSnap' = CurrentSnap
  BY <1>2, <1>6, <1>7 DEF Place, Committed, Holding, CurrentSnap
<1>13. HolderInv'
  BY <1>2, <1>6, <1>7 DEF HolderInv
<1>14. \A i \in 1 .. n : att'[i].place = q => i = n \/ (i \in 1 .. Len(att) /\ att'[i] = att[i] /\ att[i].place = Place /\ q = Place)
  <2>1. ASSUME NEW i \in 1 .. Len(att) PROVE att[i].place # n
    BY <1>1, <1>3, WorkspaceFacts DEF LastHolds, Attempts
  <2> QED
    BY <1>3, <1>4, <1>7, <2>1
<1>15. RunningInv'
  <2>1. ASSUME NEW i \in 1 .. n, InCell(i)'
        PROVE  /\ kernel[q] = Dirty /\ att'[i].snap = CurrentSnap
               /\ \A j \in 1 .. n : InCell(j)' => j = i
    <3>1. ASSUME NEW j \in 1 .. n, InCell(j)' PROVE j \in 1 .. Len(att) /\ att'[j] = att[j] /\ InCell(j) /\ q = Place
      BY <1>6, <1>7, <1>12, <1>14, <3>1 DEF InCell
    <3>2. i \in 1 .. Len(att) /\ InCell(i) /\ q = Place /\ att'[i] = att[i]
      BY <2>1, <3>1
    <3>3. kernel[Place] = Dirty /\ att[i].snap = CurrentSnap /\ \A j \in 1 .. Len(att) : InCell(j) => j = i
      BY <1>1, <3>2 DEF CoreInv, RunningInv
    <3> QED
      BY <3>1, <3>2, <3>3
  <2> QED
    BY <1>2, <1>6, <1>7, <1>12, <2>1 DEF RunningInv
<1>16. MarkedInv'
  <2>1. CASE q = n
    <3>1. kernel[n] = NoKernel /\ NoKernel # ckpt.gen
      BY <1>1, <1>3, <1>5, WorkspaceFacts DEF LastHolds, NoKernel
    <3> QED
      BY <1>2, <1>7, <1>12, <2>1, <3>1 DEF MarkedInv
  <2>2. CASE Len(att) > 0 /\ q = Place
    BY <1>1, <1>2, <1>7, <1>12, <2>2 DEF MarkedInv, CoreInv
  <2> QED
    BY <1>4, <2>1, <2>2
<1>17. BehindInv'
  <2>1. ASSUME NEW i \in 1 .. n, att'[i].place = q, i # n
        PROVE  /\ att'[i].pc \in {"cell", "done"} => NotAhead(Committed, home[q])
               /\ att'[i].pc \in {"cell", "done"} => NotAhead(Holding(obj, att'[i].snap.entries), Committed)
    BY <1>1, <1>14, <2>1 DEF CoreInv, BehindInv
  <2> QED
    BY <1>2, <1>6, <1>7, <1>12, <2>1 DEF BehindInv, NotAhead, Holding
<1> QED
  BY <1>1, <1>2, <1>8, <1>9, <1>10, <1>11, <1>13, <1>15, <1>16, <1>17 DEF WorkspaceInv, WorkspaceTypes, CoreInv


(* What every step of an attempt leaves alone.                             *)
LEMMA AdvanceFrame ==
  ASSUME WorkspaceInv, NEW a \in 1 .. Len(att), NEW r \in AttemptRec, Advances(a, r),
         r.work = att[a].work, r.place = att[a].place, UNCHANGED <<lease, ended>>,
         obj' \in Seq(ObjectRec), Grows(obj, obj'), \A o \in 1 .. Len(obj') : obj'[o].content <= cellWrites' /\ obj'[o].by <= Len(att),
         Stored(obj', r.snap.entries), Stored(obj', r.cap), Stored(obj', ckpt'.entries),
         HomeTypes', \A q \in Attempts, f \in Files : home'[q][f] <= cellWrites',
         \A q \in Attempts : q # att[a].place => kernel'[q] = kernel[q]
  PROVE  /\ AttemptTypes' /\ LastHolds' /\ ObjectInv' /\ Place' = Place
         /\ \A i \in 1 .. Len(att) : att'[i].work = att[i].work /\ att'[i].place = att[i].place
                                     /\ (i # a => att'[i] = att[i] \/ att'[i].pc = "over")
         /\ Place \in Attempts /\ Len(att) \in 1 .. Len(att) /\ (lease # 0 => lease = Len(att)) /\ Len(att') = Len(att)
<1>1. WorkspaceTypes /\ AttemptTypes /\ CheckpointTypes /\ LastHolds /\ ObjectInv
  BY DEF WorkspaceInv, WorkspaceTypes
<1>2. Len(att) \in Nat /\ Len(att) \in 1 .. Len(att) /\ Len(att') = Len(att) /\ att' \in Seq(AttemptRec) /\ att'[a] = r
      /\ \A i \in 1 .. Len(att) : att[i] \in AttemptRec /\ (i # a => RetiresOnly(i))
  BY <1>1, WorkspaceFacts DEF Advances
<1>3. \A i \in 1 .. Len(att) : /\ att'[i].work = att[i].work /\ att'[i].place = att[i].place
                               /\ (i # a => att'[i] = att[i] \/ att'[i].pc = "over")
                               /\ (i # a => att'[i].snap.entries \in {att[i].snap.entries, Empty} /\ att'[i].cap \in {att[i].cap, Empty})
  BY <1>2, DoneIs DEF RetiresOnly
<1>4. AttemptTypes'
  BY <1>1, <1>2 DEF AttemptTypes
<1>5. Place' = Place /\ Place \in Attempts
  BY <1>1, <1>2, <1>3, WorkspaceFacts DEF Place
<1>6. LastHolds'
  <2>1. att[a].place <= Len(att)
    <3>1. att[a].place \in Nat /\ att[a].place <= a /\ a <= Len(att)
      BY <1>1, <1>2, WorkspaceFacts DEF LastHolds, Attempts
    <3> QED
      BY <1>2, <3>1
  <2>2. \A q \in Attempts : q > Len(att) => kernel'[q] = NoKernel
    BY <1>1, <1>2, <2>1 DEF LastHolds, Attempts
  <2>3. lease \in {0, Len(att)} /\ (lease # 0 => att[lease].work \notin ended)
        /\ \A i, j \in 1 .. Len(att) : att[i].place <= i /\ (i <= j => att[i].place <= att[j].place)
    BY <1>1 DEF LastHolds
  <2> QED
    BY <1>2, <1>3, <2>2, <2>3 DEF LastHolds
<1>7. ObjectInv'
  <2>1. Len(obj) \in Nat /\ Len(obj') \in Nat
    BY <1>1, WorkspaceFacts
  <2>2. Stored(obj', Empty)
    BY <2>1 DEF Stored, Empty
  <2>3. \A i \in 1 .. Len(att) : Stored(obj', att[i].snap.entries) /\ Stored(obj', att[i].cap)
    <3>1. ASSUME NEW e \in [Files -> Nat], Stored(obj, e) PROVE Stored(obj', e)
      BY <2>1, <3>1 DEF Stored, Grows
    <3> QED
      BY <1>1, <3>1, WorkspaceFacts DEF ObjectInv
  <2>4. \A i \in 1 .. Len(att) : Stored(obj', att'[i].snap.entries) /\ Stored(obj', att'[i].cap)
    BY <1>2, <1>3, <2>2, <2>3
  <2> QED
    BY <1>2, <2>4 DEF ObjectInv, Stored
<1> QED
  BY <1>1, <1>2, <1>3, <1>4, <1>5, <1>6, <1>7 DEF LastHolds

(* A step in a home that was left concerns nothing that matters.           *)
LEMMA ElsewhereStep ==
  ASSUME WorkspaceInv, NEW a \in 1 .. Len(att), NEW r \in AttemptRec, att[a].place # Place,
         Place' = Place, Len(att') = Len(att), UNCHANGED <<lease, ckpt, obj>>,
         home'[Place] = home[Place], kernel'[Place] = kernel[Place],
         \A i \in 1 .. Len(att) : att[i].place = Place => att'[i] = att[i] \/ att'[i].pc = "over",
         \A i \in 1 .. Len(att) : att'[i].place = att[i].place
  PROVE  CoreInv'
<1>1. WorkspaceTypes /\ LastHolds /\ HolderInv /\ RunningInv /\ MarkedInv /\ BehindInv
  BY DEF WorkspaceInv, CoreInv
<1>2. Committed' = Committed /\ CurrentSnap' = CurrentSnap
  BY DEF Committed, Holding, CurrentSnap
<1>3. Len(att) \in 1 .. Len(att) /\ (lease # 0 => lease = Len(att) /\ att[lease].place = Place)
  BY <1>1, WorkspaceFacts DEF LastHolds, Place
<1>4. HolderInv'
  <2>1. CASE lease = 0
    BY <2>1 DEF HolderInv
  <2>2. CASE lease # 0 /\ att'[lease] = att[lease]
    BY <1>1, <1>2, <2>2 DEF HolderInv, Repeated, Holding
  <2>3. CASE lease # 0 /\ att'[lease].pc = "over"
    BY <2>3 DEF HolderInv
  <2> QED
    BY <1>3, <2>1, <2>2, <2>3
<1>5. RunningInv'
  <2>1. ASSUME NEW i \in 1 .. Len(att), InCell(i)'
        PROVE  /\ kernel[Place] = Dirty /\ att'[i].snap = CurrentSnap
               /\ \A j \in 1 .. Len(att) : InCell(j)' => j = i
               /\ lease \notin {0, i} => att'[lease].pc \in {"new", "over"}
    <3>1. \A j \in 1 .. Len(att) : InCell(j)' => InCell(j) /\ att'[j] = att[j]
      BY DEF InCell
    <3>2. /\ kernel[Place] = Dirty /\ att[i].snap = CurrentSnap
          /\ \A j \in 1 .. Len(att) : InCell(j) => j = i
          /\ lease \notin {0, i} => att[lease].pc \in {"new", "over"}
      BY <1>1, <2>1, <3>1 DEF RunningInv
    <3> QED
      BY <1>3, <2>1, <3>1, <3>2
  <2> QED
    BY <1>2, <2>1 DEF RunningInv
<1>6. MarkedInv'
  BY <1>1, <1>2 DEF MarkedInv
<1>7. BehindInv'
  <2>1. ASSUME NEW i \in 1 .. Len(att), att'[i].place = Place
        PROVE  /\ att'[i].pc \in {"cell", "done"} \/ (att'[i].pc = "captured" /\ i = lease) => NotAhead(Committed, home[Place])
               /\ att'[i].pc \in {"cell", "done"} => NotAhead(Holding(obj, att'[i].snap.entries), Committed)
    BY <1>1, <2>1 DEF BehindInv
  <2> QED
    BY <1>2, <2>1 DEF BehindInv, NotAhead, Holding
<1> QED
  BY <1>4, <1>5, <1>6, <1>7 DEF CoreInv


LEMMA WriteStep ==
  ASSUME WorkspaceInv, NEW a \in 1 .. Len(att), NEW f \in Files, WriteFile(a, f)
  PROVE  WorkspaceInv'
<1> DEFINE p == att[a].place
           h == [home[p] EXCEPT ![f] = cellWrites + 1]
<1>1. WorkspaceTypes /\ AttemptTypes /\ CheckpointTypes /\ HomeTypes /\ ended \subseteq Works
      /\ LastHolds /\ ObjectInv /\ RetentionInv /\ CoreInv /\ HolderInv /\ RunningInv /\ MarkedInv /\ BehindInv
  BY DEF WorkspaceInv, WorkspaceTypes, CoreInv
<1>2. att[a].pc = "cell" /\ cellWrites < MaxWrites /\ cellWrites' = cellWrites + 1
      /\ UNCHANGED <<lease, att, ended, ckpt, obj, gone, gc, kernel>>
  BY DEF WriteFile
<1>3. p \in Attempts /\ home \in [Attempts -> [Files -> Nat]] /\ cellWrites \in Nat
  BY <1>1, WorkspaceFacts DEF HomeTypes
<1>4. home' = [home EXCEPT ![p] = h] /\ h \in [Files -> Nat] /\ \A g \in Files : h[g] = IF g = f THEN cellWrites + 1 ELSE home[p][g]
  BY <1>3 DEF WriteFile
<1> HIDE DEF h
<1>5. home' \in [Attempts -> [Files -> Nat]] /\ home'[p] = h /\ \A q \in Attempts : q # p => home'[q] = home[q]
  BY <1>3, <1>4
<1>6. HomeTypes'
  BY <1>1, <1>2, <1>3, <1>5, WorkspaceAssumption DEF HomeTypes
<1>7. \A q \in Attempts, g \in Files : home'[q][g] <= cellWrites'
  <2>1. \A q \in Attempts, g \in Files : home[q][g] \in Nat /\ home[q][g] <= cellWrites
    BY <1>1, <1>3 DEF ObjectInv
  <2> QED
    BY <1>2, <1>3, <1>4, <1>5, <2>1
<1>8. obj' \in Seq(ObjectRec) /\ Grows(obj, obj') /\ \A o \in 1 .. Len(obj') : obj'[o].content <= cellWrites' /\ obj'[o].by <= Len(att)
  <2>1. \A o \in 1 .. Len(obj) : obj[o].content \in Nat /\ obj[o].content <= cellWrites /\ obj[o].by <= Len(att)
    BY <1>1, WorkspaceFacts DEF ObjectInv
  <2>2. obj' = obj /\ obj \in Seq(ObjectRec) /\ Len(obj) \in Nat
    BY <1>1, <1>2, WorkspaceFacts DEF CheckpointTypes
  <2>3. Grows(obj, obj)
    BY <2>2 DEF Grows
  <2>4. \A o \in 1 .. Len(obj) : obj[o].content <= cellWrites' /\ obj[o].by <= Len(att)
    BY <1>2, <1>3, <2>1
  <2> QED
    BY <2>2, <2>3, <2>4
<1>9. Advances(a, att[a]) /\ att[a] \in AttemptRec
  BY <1>1, <1>2, WorkspaceFacts DEF Advances, AttemptTypes, RetiresOnly
<1>10. Stored(obj', att[a].snap.entries) /\ Stored(obj', att[a].cap) /\ Stored(obj', ckpt'.entries)
  BY <1>1, <1>2 DEF ObjectInv
<1>11. /\ AttemptTypes' /\ LastHolds' /\ ObjectInv' /\ Place' = Place
       /\ Place \in Attempts /\ Len(att) \in 1 .. Len(att) /\ (lease # 0 => lease = Len(att)) /\ Len(att') = Len(att)
  BY <1>2, <1>6, <1>7, <1>8, <1>9, <1>10, AdvanceFrame
<1>12. CheckpointTypes' /\ RetentionInv'
  BY <1>1, <1>2, <1>8, <1>11, RetentionKept, WorkspaceFacts DEF CheckpointTypes
<1>13. CASE p # Place
  <2>1. CoreInv'
    BY <1>2, <1>5, <1>9, <1>11, <1>13, ElsewhereStep
  <2> QED
    BY <1>1, <1>2, <1>6, <1>11, <1>12, <2>1 DEF WorkspaceInv, WorkspaceTypes
<1>14. CASE p = Place
  <2>1. InCell(a) /\ kernel[Place] = Dirty /\ (lease \notin {0, a} => att[lease].pc \in {"new", "over"})
    BY <1>1, <1>2, <1>14 DEF InCell, RunningInv
  <2>2. Committed' = Committed /\ CurrentSnap' = CurrentSnap
    BY <1>2 DEF Committed, Holding, CurrentSnap
  <2>3. HolderInv'
    BY <1>1, <1>2, <1>11, <2>1, <2>2 DEF HolderInv
  <2>4. RunningInv'
    BY <1>1, <1>2, <1>11, <2>1, <2>2 DEF RunningInv, InCell
  <2>5. MarkedInv'
    <3>1. Dirty # ckpt.gen
      BY <1>1, WorkspaceFacts DEF Dirty
    <3> QED
      BY <1>2, <1>11, <2>1, <3>1 DEF MarkedInv
  <2>6. BehindInv'
    <3>1. Committed \in [Files -> Nat] /\ \A g \in Files : Committed[g] <= cellWrites
      BY <1>1, HoldingTyped, WorkspaceFacts DEF Committed, ObjectInv
    <3>2. NotAhead(Committed, home[Place]) => NotAhead(Committed, home'[Place])
      <4>1. home'[Place] = h /\ \A g \in Files : h[g] = IF g = f THEN cellWrites + 1 ELSE home[Place][g]
        BY <1>4, <1>5, <1>14
      <4> HIDE DEF p
      <4>2. \A g \in Files : Committed[g] \in Nat /\ Committed[g] <= cellWrites + 1
        BY <1>3, <3>1
      <4> QED
        BY <4>1, <4>2 DEF NotAhead
    <3>3. ASSUME NEW i \in 1 .. Len(att), att[i].place = Place
          PROVE  /\ att[i].pc \in {"cell", "done"} \/ (att[i].pc = "captured" /\ i = lease) => NotAhead(Committed, home'[Place])
                 /\ att[i].pc \in {"cell", "done"} => NotAhead(Holding(obj, att[i].snap.entries), Committed)
      BY <1>1, <3>2, <3>3 DEF BehindInv
    <3> QED
      BY <1>2, <1>11, <2>2, <3>3 DEF BehindInv, NotAhead, Holding
  <2> QED
    BY <1>1, <1>2, <1>6, <1>11, <1>12, <2>3, <2>4, <2>5, <2>6 DEF WorkspaceInv, WorkspaceTypes, CoreInv
<1> QED
  BY <1>13, <1>14

(* The steps of an attempt that write no file and store no object.         *)
LEMMA SteadyFrame ==
  ASSUME WorkspaceInv, NEW a \in 1 .. Len(att), NEW r \in AttemptRec, Advances(a, r),
         r.work = att[a].work, r.place = att[a].place, UNCHANGED <<lease, ended, obj, gone, gc, cellWrites, ckpt>>,
         Stored(obj, r.snap.entries), Stored(obj, r.cap),
         home' \in [Attempts -> [Files -> Nat]], kernel' \in [Attempts -> Int],
         \A q \in Attempts : q # att[a].place => home'[q] = home[q] /\ kernel'[q] = kernel[q],
         \A f \in Files : home'[att[a].place][f] <= cellWrites
  PROVE  /\ WorkspaceTypes' /\ LastHolds' /\ ObjectInv' /\ RetentionInv' /\ Place' = Place
         /\ \A i \in 1 .. Len(att) : att'[i].place = att[i].place /\ (i # a => att'[i] = att[i] \/ att'[i].pc = "over")
         /\ Place \in Attempts /\ Len(att) \in 1 .. Len(att) /\ (lease # 0 => lease = Len(att)) /\ Len(att') = Len(att)
         /\ Committed' = Committed /\ CurrentSnap' = CurrentSnap /\ (att[a].place # Place => CoreInv')
<1>1. WorkspaceTypes /\ AttemptTypes /\ CheckpointTypes /\ HomeTypes /\ ended \subseteq Works
      /\ LastHolds /\ ObjectInv /\ RetentionInv
  BY DEF WorkspaceInv, WorkspaceTypes
<1>2. HomeTypes'
  BY <1>1 DEF HomeTypes
<1>3. \A q \in Attempts, f \in Files : home'[q][f] <= cellWrites'
  BY <1>1 DEF ObjectInv
<1>4. obj' \in Seq(ObjectRec) /\ Grows(obj, obj') /\ \A o \in 1 .. Len(obj') : obj'[o].content <= cellWrites' /\ obj'[o].by <= Len(att)
  BY <1>1, WorkspaceFacts DEF Grows, CheckpointTypes, ObjectInv
<1>5. Stored(obj', r.snap.entries) /\ Stored(obj', r.cap) /\ Stored(obj', ckpt'.entries)
  BY <1>1 DEF ObjectInv
<1>6. /\ AttemptTypes' /\ LastHolds' /\ ObjectInv' /\ Place' = Place
      /\ \A i \in 1 .. Len(att) : att'[i].work = att[i].work /\ att'[i].place = att[i].place
                                  /\ (i # a => att'[i] = att[i] \/ att'[i].pc = "over")
      /\ Place \in Attempts /\ Len(att) \in 1 .. Len(att) /\ (lease # 0 => lease = Len(att)) /\ Len(att') = Len(att)
  BY <1>2, <1>3, <1>4, <1>5, AdvanceFrame
<1>7. CheckpointTypes' /\ RetentionInv'
  BY <1>1, <1>4, <1>6, RetentionKept, WorkspaceFacts DEF CheckpointTypes
<1>8. Committed' = Committed /\ CurrentSnap' = CurrentSnap
  BY DEF Committed, Holding, CurrentSnap
<1>9. att[a].place # Place => CoreInv'
  <2> SUFFICES ASSUME att[a].place # Place PROVE CoreInv'
    OBVIOUS
  <2>1. \A i \in 1 .. Len(att) : att[i].place = Place => att'[i] = att[i] \/ att'[i].pc = "over"
    BY <1>6
  <2> QED
    BY <1>6, <2>1, ElsewhereStep
<1> QED
  BY <1>1, <1>2, <1>6, <1>7, <1>8, <1>9 DEF WorkspaceTypes


LEMMA CellEndStep ==
  ASSUME WorkspaceInv, NEW a \in 1 .. Len(att), CellEnds(a)
  PROVE  WorkspaceInv'
<1> DEFINE r == [att[a] EXCEPT !.pc = "done"]
<1>1. WorkspaceTypes /\ AttemptTypes /\ HomeTypes /\ ObjectInv
      /\ HolderInv /\ RunningInv /\ MarkedInv /\ BehindInv
  BY DEF WorkspaceInv, WorkspaceTypes, CoreInv
<1>2. att[a].pc = "cell" /\ att' = [att EXCEPT ![a] = r] /\ UNCHANGED <<lease, ended, ckpt, obj, gone, gc, home, kernel, cellWrites>>
  BY DEF CellEnds, At
<1>3. r \in AttemptRec /\ r.pc = "done" /\ r.work = att[a].work /\ r.place = att[a].place
      /\ r.snap = att[a].snap /\ r.cap = att[a].cap /\ r.from = att[a].from
  BY <1>1, WorkspaceFacts DEF AttemptRec
<1> HIDE DEF r
<1>4. Advances(a, r)
  BY <1>1, <1>2, <1>3, OneAdvances
<1>5. \A f \in Files : home'[att[a].place][f] <= cellWrites
  BY <1>1, <1>2, WorkspaceFacts DEF ObjectInv
<1>6. /\ WorkspaceTypes' /\ LastHolds' /\ ObjectInv' /\ RetentionInv' /\ Place' = Place
      /\ \A i \in 1 .. Len(att) : att'[i].place = att[i].place /\ (i # a => att'[i] = att[i] \/ att'[i].pc = "over")
      /\ Place \in Attempts /\ Len(att) \in 1 .. Len(att) /\ (lease # 0 => lease = Len(att)) /\ Len(att') = Len(att)
      /\ Committed' = Committed /\ CurrentSnap' = CurrentSnap /\ (att[a].place # Place => CoreInv')
  BY <1>1, <1>2, <1>3, <1>4, <1>5, SteadyFrame DEF ObjectInv, HomeTypes
<1>7. att'[a] = r
  BY <1>4 DEF Advances
<1>8. HolderInv'
  <2>1. CASE lease = a
    BY <1>1, <1>2, <1>3, <1>6, <1>7, <2>1 DEF HolderInv
  <2>2. CASE lease # a
    BY <1>1, <1>2, <1>6, <2>2 DEF HolderInv, Repeated, Holding
  <2> QED
    BY <2>1, <2>2
<1>9. RunningInv'
  <2>1. \A i \in 1 .. Len(att) : InCell(i)' => InCell(i) /\ i # a /\ att'[i] = att[i]
    BY <1>3, <1>6, <1>7 DEF InCell
  <2>2. lease # 0 /\ att[lease].pc \in {"new", "over"} => att'[lease].pc \in {"new", "over"}
    BY <1>2, <1>6
  <2> QED
    BY <1>1, <1>2, <1>6, <2>1, <2>2 DEF RunningInv
<1>10. MarkedInv'
  BY <1>1, <1>2, <1>6 DEF MarkedInv
<1>11. BehindInv'
  <2>1. ASSUME NEW i \in 1 .. Len(att), att'[i].place = Place
        PROVE  /\ att'[i].pc \in {"cell", "done"} \/ (att'[i].pc = "captured" /\ i = lease) => NotAhead(Committed, home[Place])
               /\ att'[i].pc \in {"cell", "done"} => NotAhead(Holding(obj, att'[i].snap.entries), Committed)
    BY <1>1, <1>2, <1>3, <1>6, <1>7, <2>1 DEF BehindInv
  <2> QED
    BY <1>2, <1>6, <2>1 DEF BehindInv, NotAhead, Holding
<1> QED
  BY <1>6, <1>8, <1>9, <1>10, <1>11 DEF WorkspaceInv, CoreInv


(* The lease holder starts a cell, alone, from what is committed.          *)
LEMMA BeginsCell ==
  ASSUME WorkspaceInv, NEW a \in 1 .. Len(att), lease = a, NEW r \in AttemptRec, Advances(a, r),
         r.pc = "cell", r.snap = CurrentSnap, r.from = Committed, r.work = att[a].work, r.place = att[a].place,
         Stored(obj, r.cap), ckpt.gen < MaxGen,
         UNCHANGED <<lease, ended, obj, gone, gc, cellWrites, ckpt>>,
         home' \in [Attempts -> [Files -> Nat]], home'[Place] = Committed, \A q \in Attempts : q # Place => home'[q] = home[q],
         kernel' = [kernel EXCEPT ![Place] = Dirty],
         \A i \in 1 .. Len(att) : i # a /\ att'[i].place = Place => att'[i].pc # "cell"
  PROVE  WorkspaceInv'
<1>1. WorkspaceTypes /\ AttemptTypes /\ HomeTypes /\ ObjectInv /\ LastHolds
      /\ HolderInv /\ RunningInv /\ MarkedInv /\ BehindInv
  BY DEF WorkspaceInv, WorkspaceTypes, CoreInv
<1>2. Len(att) \in 1 .. Len(att) /\ a = Len(att) /\ att[a].place = Place /\ Place \in Attempts
  BY <1>1, WorkspaceFacts DEF LastHolds, Place
<1>3. kernel' \in [Attempts -> Int] /\ kernel'[Place] = Dirty /\ \A q \in Attempts : q # Place => kernel'[q] = kernel[q]
  BY <1>1, <1>2 DEF HomeTypes, Dirty
<1>4. Stored(obj, ckpt.entries) /\ r.snap.entries = ckpt.entries
  BY <1>1 DEF ObjectInv, CurrentSnap
<1>5. Committed \in [Files -> Nat] /\ \A f \in Files : Committed[f] <= cellWrites
  BY <1>1, <1>4, HoldingTyped, WorkspaceFacts DEF Committed
<1>6. /\ WorkspaceTypes' /\ LastHolds' /\ ObjectInv' /\ RetentionInv' /\ Place' = Place
      /\ \A i \in 1 .. Len(att) : att'[i].place = att[i].place /\ (i # a => att'[i] = att[i] \/ att'[i].pc = "over")
      /\ Len(att') = Len(att) /\ Committed' = Committed /\ CurrentSnap' = CurrentSnap
  <2>1. Stored(obj, r.snap.entries)
    BY <1>4
  <2>2. \A q \in Attempts : q # att[a].place => home'[q] = home[q] /\ kernel'[q] = kernel[q]
    BY <1>2, <1>3
  <2>3. \A f \in Files : home'[att[a].place][f] <= cellWrites
    BY <1>2, <1>5
  <2> QED
    BY <1>3, <2>1, <2>2, <2>3, SteadyFrame
<1>7. att'[a] = r
  BY DEF Advances
<1>8. HolderInv'
  BY <1>2, <1>6, <1>7 DEF HolderInv
<1>9. \A f \in Files : Committed[f] <= Committed[f]
  BY <1>5
<1>10. RunningInv'
  BY <1>2, <1>3, <1>6, <1>7 DEF RunningInv, InCell
<1>11. MarkedInv'
  BY <1>6 DEF MarkedInv
<1>12. BehindInv'
  <2>1. ASSUME NEW i \in 1 .. Len(att), att'[i].place = Place
        PROVE  att'[i].pc \in {"cell", "done"} => NotAhead(Holding(obj, att'[i].snap.entries), Committed)
    <3>1. CASE i = a
      BY <1>4, <1>7, <1>9, <3>1 DEF NotAhead, Committed
    <3>2. CASE i # a
      BY <1>1, <1>6, <2>1, <3>2 DEF BehindInv
    <3> QED
      BY <3>1, <3>2
  <2>2. NotAhead(Committed, home'[Place])
    BY <1>9 DEF NotAhead
  <2> QED
    BY <1>6, <2>1, <2>2 DEF BehindInv, NotAhead, Holding
<1> QED
  BY <1>6, <1>8, <1>10, <1>11, <1>12 DEF WorkspaceInv, CoreInv

LEMMA NextCellStep ==
  ASSUME WorkspaceInv, NEW a \in 1 .. Len(att), NextCell(a)
  PROVE  WorkspaceInv'
<1> DEFINE p == att[a].place
           r == [att[a] EXCEPT !.pc = "cell", !.from = home[p]]
<1>1. WorkspaceTypes /\ AttemptTypes /\ HomeTypes /\ ObjectInv /\ LastHolds /\ HolderInv /\ RunningInv /\ ended \subseteq Works
  BY DEF WorkspaceInv, WorkspaceTypes, CoreInv
<1>2. att[a].pc = "ready" /\ ckpt.gen < MaxGen /\ UNCHANGED <<lease, ended, ckpt, obj, gone, gc, home, cellWrites>>
  BY DEF NextCell
<1>3. CASE ~Leased(a)
  <2>1. att' = Over(a) /\ kernel' = kernel
    BY <1>3 DEF NextCell
  <2>2. Advances(a, Done(att[a]))
    BY <1>1, <2>1, EndsAre
  <2> QED
    BY <1>1, <1>2, <2>1, <2>2, EndOne DEF HomeTypes
<1>4. CASE Leased(a)
  <2>1. kernel' = [kernel EXCEPT ![p] = Dirty] /\ att' = [att EXCEPT ![a] = r]
    BY <1>4 DEF NextCell, At
  <2>2. lease = a /\ a = Len(att) /\ p = Place /\ p \in Attempts
    BY <1>1, <1>4, WorkspaceFacts DEF Leased, LastHolds, Place
  <2>3. att[a].snap = CurrentSnap /\ home[p] = Committed
    BY <1>1, <1>2, <2>2 DEF HolderInv
  <2>4. home[p] \in [Files -> Nat]
    BY <1>1, <2>2, WorkspaceFacts
  <2>5. r \in AttemptRec /\ r.pc = "cell" /\ r.work = att[a].work /\ r.place = att[a].place
        /\ r.snap = att[a].snap /\ r.cap = att[a].cap /\ r.from = home[p]
    BY <1>1, <2>4, WorkspaceFacts DEF AttemptRec
  <2> HIDE DEF r
  <2>6. Advances(a, r)
    BY <1>1, <2>1, <2>5, OneAdvances
  <2>7. \A i \in 1 .. Len(att) : i # a /\ att'[i].place = Place => att'[i].pc # "cell"
    BY <1>1, <1>2, <2>1, <2>2 DEF RunningInv, InCell, AttemptTypes
  <2>8. Stored(obj, r.cap)
    BY <1>1, <2>5 DEF ObjectInv
  <2>9. home' \in [Attempts -> [Files -> Nat]] /\ home'[Place] = Committed /\ kernel' = [kernel EXCEPT ![Place] = Dirty]
    BY <1>1, <1>2, <2>1, <2>2, <2>3 DEF HomeTypes
  <2> QED
    BY <1>2, <2>2, <2>3, <2>5, <2>6, <2>7, <2>8, <2>9, BeginsCell
<1> QED
  BY <1>3, <1>4

LEMMA PrepareStep ==
  ASSUME WorkspaceInv, NEW a \in 1 .. Len(att), PrepareWorkspace(a)
  PROVE  WorkspaceInv'
<1> DEFINE p == att[a].place
           kept == KeepsHome(p, ckpt.gen)
           rejected == ~Leased(a) \/ (~kept /\ (Refused(p, ckpt.gen) \/ ~Readable(ckpt.entries)))
           r == [att[a] EXCEPT !.pc = "cell", !.from = home'[p], !.snap = [gen |-> ckpt.gen, entries |-> ckpt.entries]]
<1>1. WorkspaceTypes /\ AttemptTypes /\ HomeTypes /\ ObjectInv /\ LastHolds /\ HolderInv /\ RunningInv /\ MarkedInv
      /\ ended \subseteq Works
  BY DEF WorkspaceInv, WorkspaceTypes, CoreInv
<1>2. att[a].pc = "new" /\ ckpt.gen < MaxGen /\ UNCHANGED <<lease, ended, ckpt, obj, gone, gc, cellWrites>>
  BY DEF PrepareWorkspace
<1>3. p \in Attempts /\ att[a] \in AttemptRec
  BY <1>1, WorkspaceFacts
<1>4. CASE rejected
  <2>1. /\ att' = [(IF kept THEN att ELSE KillOthers(a)) EXCEPT ![a] = Done(@)]
        /\ kernel' = IF kept \/ ~Leased(a) THEN kernel ELSE [kernel EXCEPT ![p] = NoKernel]
        /\ home' = home
    BY <1>4 DEF PrepareWorkspace
  <2>2. CASE kept
    <3>1. att' = Over(a) /\ kernel' = kernel
      BY <2>1, <2>2 DEF Over, At
    <3>2. Advances(a, Done(att[a]))
      BY <1>1, <3>1, EndsAre
    <3> QED
      BY <1>1, <1>2, <2>1, <3>1, <3>2, EndOne DEF HomeTypes
  <2>3. CASE ~kept
    <3>1. att' = [KillOthers(a) EXCEPT ![a] = Done(@)]
      BY <2>1, <2>3
    <3>2. Advances(a, Done(att[a])) /\ \A i \in 1 .. Len(att) : i # a /\ att'[i].place = att[a].place => att'[i].pc # "cell"
      BY <1>1, <3>1, EndsAre
    <3>3. kernel' \in [Attempts -> Int] /\ \A q \in Attempts : kernel'[q] = kernel[q] \/ (q = p /\ kernel'[q] = NoKernel)
      BY <1>1, <1>3, <2>1 DEF HomeTypes, NoKernel
    <3>4. Place \in Attempts
      BY <1>1, WorkspaceFacts DEF Place
    <3> QED
      BY <1>1, <1>2, <2>1, <3>2, <3>3, <3>4, EndOne
  <2> QED
    BY <2>2, <2>3
<1>5. CASE ~rejected
  <2>1. /\ home' = IF kept THEN home ELSE [home EXCEPT ![p] = Contents(ckpt.entries)]
        /\ kernel' = [kernel EXCEPT ![p] = Dirty]
        /\ att' = [(IF kept THEN att ELSE KillOthers(a)) EXCEPT ![a] = [@ EXCEPT !.pc = "cell", !.from = home'[p],
                          !.snap = [gen |-> ckpt.gen, entries |-> ckpt.entries]]]
    BY <1>5 DEF PrepareWorkspace
  <2>2. lease = a /\ a = Len(att) /\ p = Place /\ Len(att) > 0
    BY <1>1, <1>5, WorkspaceFacts DEF Leased, LastHolds, Place
  <2>3. Committed \in [Files -> Nat] /\ Contents(ckpt.entries) = Committed
    BY <1>1, HoldingTyped, WorkspaceFacts, IsHolding DEF Committed, ObjectInv
  <2>4. home' \in [Attempts -> [Files -> Nat]] /\ home'[p] = Committed /\ \A q \in Attempts : q # p => home'[q] = home[q]
    <3>1. CASE kept
      BY <1>1, <2>1, <2>2, <3>1 DEF HomeTypes, KeepsHome, MarkedInv
    <3>2. CASE ~kept
      BY <1>1, <1>3, <2>1, <2>3, <3>2 DEF HomeTypes
    <3> QED
      BY <3>1, <3>2
  <2>5. r \in AttemptRec /\ r.pc = "cell" /\ r.work = att[a].work /\ r.place = att[a].place
        /\ r.snap = CurrentSnap /\ r.cap = att[a].cap /\ r.from = Committed
    <3>1. CurrentSnap \in SnapRec /\ home'[p] \in [Files -> Nat]
      BY <1>1, <1>3, <2>4, WorkspaceFacts
    <3> QED
      BY <1>3, <2>4, <3>1 DEF AttemptRec, CurrentSnap, SnapRec
  <2>6. att' = [(IF kept THEN att ELSE KillOthers(a)) EXCEPT ![a] = r]
    <3>1. KillOthers(a)[a] = att[a]
      BY DEF KillOthers
    <3> QED
      BY <2>1, <3>1
  <2> HIDE DEF r
  <2>7. Advances(a, r) /\ \A i \in 1 .. Len(att) : i # a /\ att'[i].place = Place => att'[i].pc # "cell"
    <3>1. CASE kept
      <4>1. \A i \in 1 .. Len(att) : ~InCell(i)
        <5>1. kernel[Place] # Dirty
          BY <1>1, <2>2, <3>1, WorkspaceFacts DEF KeepsHome, Dirty
        <5> QED
          BY <1>1, <5>1 DEF RunningInv
      <4>2. att' = [att EXCEPT ![a] = r]
        BY <2>6, <3>1
      <4>3. Advances(a, r)
        BY <1>1, <2>5, <4>2, OneAdvances
      <4> QED
        BY <1>1, <4>1, <4>2, <4>3 DEF InCell, AttemptTypes
    <3>2. CASE ~kept
      BY <1>1, <2>2, <2>5, <2>6, <3>2, OthersKilled
    <3> QED
      BY <3>1, <3>2
  <2>8. Stored(obj, r.cap)
    BY <1>1, <2>5 DEF ObjectInv
  <2>9. home'[Place] = Committed /\ (\A q \in Attempts : q # Place => home'[q] = home[q]) /\ kernel' = [kernel EXCEPT ![Place] = Dirty]
    BY <2>1, <2>2, <2>4
  <2> QED
    BY <1>2, <2>2, <2>4, <2>5, <2>7, <2>8, <2>9, BeginsCell
<1> QED
  BY <1>4, <1>5


LEMMA TimeoutStep ==
  ASSUME WorkspaceInv, NEW a \in 1 .. Len(att), CellTimesOut(a)
  PROVE  WorkspaceInv'
<1> DEFINE p == att[a].place
           s == att[a].snap
           r == [att[a] EXCEPT !.pc = "captured", !.cap = s.entries]
           fails == HasFiles(s.entries) /\ (~Leased(a) \/ ~Readable(s.entries) \/ s.entries # ckpt.entries)
<1>1. WorkspaceTypes /\ AttemptTypes /\ HomeTypes /\ ObjectInv /\ LastHolds
      /\ HolderInv /\ RunningInv /\ MarkedInv /\ BehindInv /\ ended \subseteq Works
  BY DEF WorkspaceInv, WorkspaceTypes, CoreInv
<1>2. att[a].pc = "cell" /\ kernel' = [kernel EXCEPT ![p] = NoKernel]
      /\ UNCHANGED <<lease, ended, ckpt, obj, gone, gc, cellWrites>>
  BY DEF CellTimesOut
<1>3. p \in Attempts /\ att[a] \in AttemptRec /\ s.entries \in [Files -> Nat]
  BY <1>1, WorkspaceFacts
<1>4. kernel' \in [Attempts -> Int] /\ \A q \in Attempts : kernel'[q] = IF q = p THEN NoKernel ELSE kernel[q]
  BY <1>1, <1>2, <1>3 DEF HomeTypes, NoKernel
<1>5. p = Place => /\ \A i \in 1 .. Len(att) : InCell(i) => i = a
                   /\ s = CurrentSnap /\ (lease \notin {0, a} => att[lease].pc \in {"new", "over"})
  BY <1>1, <1>2 DEF RunningInv, InCell
<1>6. CASE fails
  <2>1. att' = Over(a) /\ home' = home
    BY <1>6 DEF CellTimesOut
  <2>2. Advances(a, Done(att[a]))
    BY <1>1, <2>1, EndsAre
  <2>3. ASSUME kernel'[Place] # kernel[Place], NEW i \in 1 .. Len(att), i # a, att'[i].place = Place PROVE att'[i].pc # "cell"
    <3>1. Place \in Attempts
      BY <1>1, WorkspaceFacts DEF Place
    <3>2. p = Place
      BY <1>4, <2>3, <3>1
    <3>3. att'[i] = att[i]
      BY <1>1, <2>1, <2>3 DEF Over, At, AttemptTypes
    <3> QED
      BY <1>5, <2>3, <3>2, <3>3 DEF InCell
  <2> QED
    BY <1>1, <1>2, <1>4, <2>1, <2>2, <2>3, EndOne
<1>7. CASE ~fails
  <2>1. home' = [home EXCEPT ![p] = Contents(s.entries)] /\ att' = [KillOthers(a) EXCEPT ![a] = [@ EXCEPT !.pc = "captured", !.cap = s.entries]]
    BY <1>7 DEF CellTimesOut
  <2>2. r \in AttemptRec /\ r.pc = "captured" /\ r.work = att[a].work /\ r.place = att[a].place
        /\ r.snap = s /\ r.cap = s.entries /\ r.from = att[a].from
    BY <1>3 DEF AttemptRec
  <2>3. att' = [KillOthers(a) EXCEPT ![a] = r]
    <3>1. KillOthers(a)[a] = att[a]
      BY DEF KillOthers
    <3> QED
      BY <2>1, <3>1
  <2> HIDE DEF r
  <2>4. Advances(a, r)
    BY <1>1, <2>2, <2>3, OthersKilled
  <2>5. Stored(obj, s.entries) /\ Contents(s.entries) = Holding(obj, s.entries)
        /\ Holding(obj, s.entries) \in [Files -> Nat] /\ \A f \in Files : Holding(obj, s.entries)[f] <= cellWrites
    BY <1>1, <1>3, HoldingTyped, IsHolding DEF ObjectInv
  <2>6. home' \in [Attempts -> [Files -> Nat]] /\ home'[p] = Holding(obj, s.entries) /\ \A q \in Attempts : q # p => home'[q] = home[q]
    BY <1>1, <1>3, <2>1, <2>5 DEF HomeTypes
  <2>7. /\ WorkspaceTypes' /\ LastHolds' /\ ObjectInv' /\ RetentionInv' /\ Place' = Place
        /\ \A i \in 1 .. Len(att) : att'[i].place = att[i].place /\ (i # a => att'[i] = att[i] \/ att'[i].pc = "over")
        /\ Place \in Attempts /\ Len(att) \in 1 .. Len(att) /\ (lease # 0 => lease = Len(att)) /\ Len(att') = Len(att)
        /\ Committed' = Committed /\ CurrentSnap' = CurrentSnap /\ (p # Place => CoreInv')
    <3>1. \A q \in Attempts : q # att[a].place => home'[q] = home[q] /\ kernel'[q] = kernel[q]
      BY <1>4, <2>6
    <3>2. \A f \in Files : home'[att[a].place][f] <= cellWrites
      BY <2>5, <2>6
    <3>3. Stored(obj, r.snap.entries) /\ Stored(obj, r.cap)
      BY <2>2, <2>5
    <3> QED
      BY <1>2, <1>4, <2>2, <2>4, <2>6, <3>1, <3>2, <3>3, SteadyFrame
  <2>8. CASE p = Place
    <3>1. att'[a] = r
      BY <2>4 DEF Advances
    <3>2. home'[Place] = Committed /\ Holding(obj, s.entries) = Committed /\ Committed \in [Files -> Nat]
      BY <1>5, <2>5, <2>6, <2>8 DEF CurrentSnap, Committed
    <3>3. HolderInv'
      <4>1. CASE lease = a
        BY <1>1, <1>2, <2>2, <2>7, <3>1, <3>2, <4>1 DEF HolderInv, Holding
      <4>2. CASE lease # a
        BY <1>2, <1>5, <2>7, <2>8, <4>2 DEF HolderInv
      <4> QED
        BY <4>1, <4>2
    <3>4. \A i \in 1 .. Len(att) : ~InCell(i)'
      BY <1>5, <2>2, <2>7, <2>8, <3>1 DEF InCell
    <3>5. MarkedInv'
      BY <2>7, <3>2 DEF MarkedInv
    <3>6. BehindInv'
      <4>1. ASSUME NEW i \in 1 .. Len(att), att'[i].place = Place
            PROVE  att'[i].pc \in {"cell", "done"} => NotAhead(Holding(obj, att'[i].snap.entries), Committed)
        BY <1>1, <2>2, <2>7, <3>1, <4>1 DEF BehindInv
      <4>2. NotAhead(Committed, home'[Place])
        BY <3>2 DEF NotAhead
      <4> QED
        BY <1>2, <2>7, <4>1, <4>2 DEF BehindInv, NotAhead, Holding
    <3> QED
      BY <2>7, <3>3, <3>4, <3>5, <3>6 DEF WorkspaceInv, CoreInv, RunningInv
  <2> QED
    BY <2>7, <2>8 DEF WorkspaceInv
<1> QED
  BY <1>6, <1>7

LEMMA OrderIs ==
  ASSUME NEW S, IsFiniteSet(S)
  PROVE  /\ UploadOrder(S) \in [1 .. Cardinality(S) -> S] /\ Cardinality(S) \in Nat
         /\ \A f \in S : \E i \in DOMAIN UploadOrder(S) : UploadOrder(S)[i] = f
<1>1. Cardinality(S) \in Nat /\ ExistsBijection(1 .. Cardinality(S), S)
  BY FS_CardinalityType
<1>2. \E s \in [1 .. Cardinality(S) -> S] : \A f \in S : \E i \in DOMAIN s : s[i] = f
  BY <1>1 DEF ExistsBijection, Bijection, Surjection
<1> QED
  BY <1>1, <1>2 DEF UploadOrder


(* What a capture uploads and names is what the home holds.                *)
LEMMA CaptureHolds ==
  ASSUME WorkspaceInv, NEW a \in 1 .. Len(att), NEW c, NEW new, new = Changed(a),
         NEW order, order = UploadOrder(new),
         obj' = obj \o [i \in DOMAIN order |-> [by |-> a, content |-> home[att[a].place][order[i]]]],
         c = [f \in Files |-> IF home[att[a].place][f] = 0 THEN 0
                              ELSE IF f \in new THEN Len(obj) + CHOOSE i \in DOMAIN order : order[i] = f
                              ELSE att[a].snap.entries[f]]
  PROVE  /\ obj' \in Seq(ObjectRec) /\ Grows(obj, obj') /\ \A o \in 1 .. Len(obj') : obj'[o].content <= cellWrites /\ obj'[o].by <= Len(att)
         /\ c \in [Files -> Nat] /\ Stored(obj', c) /\ Holding(obj', c) = home[att[a].place]
         /\ new = {} => obj' = obj
<1> DEFINE h == home[att[a].place]
           n == Len(obj)
           m == Cardinality(new)
           e(i) == [by |-> a, content |-> h[order[i]]]
           tail == [i \in 1 .. m |-> e(i)]
           at(f) == CHOOSE i \in 1 .. m : order[i] = f
<1>1. WorkspaceTypes /\ AttemptTypes /\ HomeTypes /\ CheckpointTypes /\ ObjectInv
  BY DEF WorkspaceInv, WorkspaceTypes, CoreInv
<1>2. h \in [Files -> Nat] /\ (\A f \in Files : h[f] <= cellWrites) /\ n \in Nat
      /\ att[a].snap.entries \in [Files -> Nat] /\ Stored(obj, att[a].snap.entries)
  BY <1>1, WorkspaceFacts DEF ObjectInv
<1>3. new \subseteq Files /\ \A f \in Files \ new : h[f] # 0 => h[f] = Contents(att[a].snap.entries)[f]
  BY DEF Changed
<1>4. IsFiniteSet(new)
  BY <1>3, WorkspaceAssumption, FS_Subset
<1>5. order \in [1 .. m -> new] /\ m \in Nat /\ \A f \in new : \E i \in 1 .. m : order[i] = f
  BY <1>4, OrderIs
<1>6. \A f \in new : at(f) \in 1 .. m /\ order[at(f)] = f
  BY <1>5
<1>7. \A i \in 1 .. m : e(i) \in ObjectRec /\ e(i).content = h[order[i]] /\ e(i).by = a /\ h[order[i]] <= cellWrites
  <2>1. a \in Attempts
    BY <1>1, WorkspaceFacts, WorkspaceAssumption DEF Attempts
  <2>2. \A i \in 1 .. m : order[i] \in Files
    BY <1>3, <1>5
  <2> QED
    BY <1>2, <2>1, <2>2 DEF ObjectRec
<1>8. obj' = obj \o tail
  BY <1>5
<1>9. c = [f \in Files |-> IF h[f] = 0 THEN 0 ELSE IF f \in new THEN n + at(f) ELSE att[a].snap.entries[f]]
  BY <1>5
<1> HIDE DEF e, at, h, m
<1>10. tail \in Seq(ObjectRec) /\ Len(tail) = m /\ \A i \in 1 .. m : tail[i] = e(i)
  <2>1. tail \in [1 .. m -> ObjectRec]
    BY <1>7
  <2>2. tail \in Seq(ObjectRec)
    BY <1>5, <2>1, FunctionIsSeq
  <2> QED
    BY <1>5, <2>1, <2>2, LenProperties
<1> HIDE DEF tail
<1>11. /\ obj' \in Seq(ObjectRec) /\ Len(obj') = n + m
       /\ \A o \in 1 .. n : obj'[o] = obj[o]
       /\ \A i \in 1 .. m : obj'[n + i] = e(i)
  <2>1. obj \in Seq(ObjectRec)
    BY <1>1 DEF CheckpointTypes
  <2>2. /\ obj \o tail \in Seq(ObjectRec) /\ Len(obj \o tail) = n + Len(tail)
        /\ \A k \in 1 .. n + Len(tail) : (obj \o tail)[k] = IF k <= n THEN obj[k] ELSE tail[k - n]
    BY <1>10, <2>1, ConcatProperties
  <2>3. /\ obj' \in Seq(ObjectRec) /\ Len(obj') = n + m
        /\ \A k \in 1 .. n + m : obj'[k] = IF k <= n THEN obj[k] ELSE tail[k - n]
    BY <1>8, <1>10, <2>2
  <2> HIDE DEF n
  <2>4. \A o \in 1 .. n : obj'[o] = obj[o]
    BY <1>2, <1>5, <2>3
  <2>5. ASSUME NEW i \in 1 .. m PROVE obj'[n + i] = tail[i]
    <3> DEFINE k == n + i
    <3>1. n \in Nat /\ m \in Nat /\ i \in Nat /\ 1 <= i /\ i <= m
      BY <1>2, <1>5
    <3>2. k \in 1 .. n + m /\ ~(k <= n) /\ k - n = i
      BY <3>1
    <3> HIDE DEF k
    <3>3. obj'[k] = tail[i]
      BY <2>3, <3>2
    <3> QED
      BY <3>3 DEF k
  <2> QED
    BY <1>10, <2>3, <2>4, <2>5
<1>12. \A o \in 1 .. Len(obj') : o \in 1 .. n \/ \E i \in 1 .. m : o = n + i
  <2> SUFFICES ASSUME NEW o \in 1 .. Len(obj'), o \notin 1 .. n PROVE \E i \in 1 .. m : o = n + i
    OBVIOUS
  <2>1. o - n \in 1 .. m /\ o = n + (o - n)
    BY <1>2, <1>5, <1>11
  <2> QED
    BY <2>1
<1>13. \A o \in 1 .. Len(obj') : obj'[o].content <= cellWrites /\ obj'[o].by <= Len(att)
  <2>1. a <= Len(att)
    BY <1>1, WorkspaceFacts
  <2>2. \A o \in 1 .. n : obj[o].content <= cellWrites /\ obj[o].by <= Len(att)
    BY <1>1 DEF ObjectInv
  <2>3. \A i \in 1 .. m : e(i).content <= cellWrites /\ e(i).by <= Len(att)
    BY <1>7, <2>1
  <2> QED
    BY <1>11, <1>12, <2>2, <2>3
<1>14. \A f \in Files : /\ h[f] = 0 => c[f] = 0
                        /\ h[f] # 0 /\ f \in new => c[f] = n + at(f)
                        /\ h[f] # 0 /\ f \notin new => c[f] = att[a].snap.entries[f]
  BY <1>9
<1>15. ASSUME NEW f \in Files
       PROVE  c[f] \in Nat /\ c[f] <= n + m /\ h[f] = IF c[f] = 0 THEN 0 ELSE obj'[c[f]].content
  <2>1. CASE h[f] = 0
    BY <1>2, <1>5, <1>14, <2>1
  <2>2. CASE h[f] # 0 /\ f \in new
    <3>1. c[f] = n + at(f) /\ at(f) \in 1 .. m /\ order[at(f)] = f
      BY <1>6, <1>14, <2>2
    <3>2. c[f] \in Nat /\ c[f] # 0 /\ c[f] <= n + m
      BY <1>2, <1>5, <3>1
    <3>3. obj'[c[f]] = e(at(f))
      BY <1>11, <3>1
    <3> QED
      BY <1>7, <3>1, <3>2, <3>3
  <2>3. CASE h[f] # 0 /\ f \notin new
    <3>1. c[f] = att[a].snap.entries[f] /\ h[f] = Contents(att[a].snap.entries)[f]
      BY <1>3, <1>14, <2>3
    <3>2. h[f] = IF c[f] = 0 THEN 0 ELSE obj[c[f]].content
      BY <3>1 DEF Contents
    <3>3. c[f] \in 1 .. n
      BY <1>2, <2>3, <3>1, <3>2 DEF Stored
    <3> QED
      BY <1>2, <1>5, <1>11, <3>2, <3>3
  <2> QED
    BY <2>1, <2>2, <2>3
<1>16. c \in [Files -> Nat] /\ Stored(obj', c) /\ Holding(obj', c) = h
  <2>1. c \in [Files -> Nat]
    BY <1>9, <1>15
  <2>2. Holding(obj', c) = [f \in Files |-> h[f]]
    BY <1>15 DEF Holding
  <2> QED
    BY <1>2, <1>11, <1>15, <2>1, <2>2 DEF Stored
<1>17. new = {} => obj' = obj
  <2> SUFFICES ASSUME new = {} PROVE obj' = obj
    OBVIOUS
  <2>1. m = 0
    BY FS_EmptySet DEF m
  <2>2. tail = <<>>
    BY <1>10, <2>1
  <2> QED
    BY <1>1, <1>8, <2>2 DEF CheckpointTypes
<1>18. Grows(obj, obj')
  BY <1>2, <1>5, <1>11 DEF Grows
<1> QED
  BY <1>11, <1>13, <1>16, <1>17, <1>18 DEF h


LEMMA CheckpointCapture ==
  ASSUME WorkspaceInv, NEW a \in 1 .. Len(att), Capture(a)
  PROVE  WorkspaceInv'
<1> DEFINE p == att[a].place
           new == Changed(a)
           order == UploadOrder(new)
           c == [f \in Files |-> IF home[p][f] = 0 THEN 0
                                 ELSE IF f \in new THEN Len(obj) + CHOOSE i \in DOMAIN order : order[i] = f
                                 ELSE att[a].snap.entries[f]]
           r == [att[a] EXCEPT !.pc = "captured", !.cap = c]
           busy == \E b \in 1 .. Len(att) : att[b].place = p /\ att[b].pc = "cell"
           fails == kernel[p] = NoKernel \/ busy \/ (new # {} /\ ~Leased(a))
<1>1. WorkspaceTypes /\ AttemptTypes /\ HomeTypes /\ CheckpointTypes /\ ObjectInv /\ LastHolds
      /\ RetentionInv /\ HolderInv /\ RunningInv /\ MarkedInv /\ BehindInv /\ ended \subseteq Works
  BY DEF WorkspaceInv, WorkspaceTypes, CoreInv
<1>2. att[a].pc = "done" /\ UNCHANGED <<lease, ended, ckpt, gone, gc, home, cellWrites>>
  BY DEF Capture
<1>3. p \in Attempts /\ att[a] \in AttemptRec
  BY <1>1, WorkspaceFacts
<1>4. CASE fails
  <2>1. att' = Over(a) /\ obj' = obj /\ kernel' = kernel
    BY <1>4 DEF Capture
  <2>2. Advances(a, Done(att[a]))
    BY <1>1, <2>1, EndsAre
  <2> QED
    BY <1>1, <1>2, <2>1, <2>2, EndOne DEF HomeTypes
<1>5. CASE ~fails
  <2>1. /\ obj' = obj \o [i \in DOMAIN order |-> [by |-> a, content |-> home[p][order[i]]]]
        /\ att' = [att EXCEPT ![a] = r]
        /\ kernel' = [kernel EXCEPT ![p] = att[a].snap.gen + 1]
    BY <1>5 DEF Capture, At
  <2>2. /\ obj' \in Seq(ObjectRec) /\ Grows(obj, obj') /\ \A o \in 1 .. Len(obj') : obj'[o].content <= cellWrites /\ obj'[o].by <= Len(att)
        /\ c \in [Files -> Nat] /\ Stored(obj', c) /\ Holding(obj', c) = home[p]
        /\ new = {} => obj' = obj
    BY <2>1, CaptureHolds
  <2>3. ~busy /\ (new = {} \/ Leased(a))
    BY <1>5
  <2>4. new = {} => \A f \in Files : home[p][f] # 0 => home[p][f] = Holding(obj, att[a].snap.entries)[f]
    BY IsHolding DEF Changed
  <2> HIDE DEF c, new, order
  <2>5. r \in AttemptRec /\ r.pc = "captured" /\ r.work = att[a].work /\ r.place = att[a].place
        /\ r.snap = att[a].snap /\ r.cap = c /\ r.from = att[a].from
    BY <1>3, <2>2 DEF AttemptRec
  <2> HIDE DEF r
  <2>6. Advances(a, r) /\ att'[a] = r
    BY <1>1, <2>1, <2>5, OneAdvances DEF Advances
  <2>7. \A e \in [Files -> Nat] : Stored(obj, e) => Stored(obj', e) /\ Holding(obj', e) = Holding(obj, e)
    <3> SUFFICES ASSUME NEW e \in [Files -> Nat], Stored(obj, e) PROVE Stored(obj', e) /\ Holding(obj', e) = Holding(obj, e)
      OBVIOUS
    <3>1. Len(obj) \in Nat /\ Len(obj') \in Nat /\ Len(obj) <= Len(obj')
      BY <1>1, <2>2, WorkspaceFacts DEF Grows
    <3>2. Stored(obj', e)
      BY <3>1 DEF Stored
    <3> QED
      BY <1>1, <2>2, <3>2, HoldingKept DEF CheckpointTypes
  <2>8. Stored(obj', r.snap.entries) /\ Stored(obj', ckpt.entries) /\ Committed' = Committed /\ CurrentSnap' = CurrentSnap
        /\ \A i \in 1 .. Len(att) : Holding(obj', att[i].snap.entries) = Holding(obj, att[i].snap.entries)
    <3>1. /\ Stored(obj, att[a].snap.entries) /\ Stored(obj, ckpt.entries) /\ ckpt.entries \in [Files -> Nat]
          /\ \A i \in 1 .. Len(att) : Stored(obj, att[i].snap.entries) /\ att[i].snap.entries \in [Files -> Nat]
      BY <1>1, WorkspaceFacts DEF ObjectInv
    <3>2. Committed' = Holding(obj', ckpt.entries)
      BY <1>2 DEF Committed, Holding
    <3> QED
      BY <1>2, <2>5, <2>7, <3>1, <3>2 DEF Committed, CurrentSnap
  <2>9. kernel' \in [Attempts -> Int] /\ \A q \in Attempts : kernel'[q] = IF q = p THEN att[a].snap.gen + 1 ELSE kernel[q]
    <3>1. att[a].snap.gen + 1 \in Int
      BY <1>1, WorkspaceFacts
    <3> QED
      BY <1>1, <1>3, <2>1, <3>1 DEF HomeTypes
  <2>10. /\ AttemptTypes' /\ LastHolds' /\ ObjectInv' /\ Place' = Place /\ HomeTypes'
         /\ \A i \in 1 .. Len(att) : att'[i].work = att[i].work /\ att'[i].place = att[i].place
         /\ Place \in Attempts /\ Len(att) \in 1 .. Len(att) /\ (lease # 0 => lease = Len(att)) /\ Len(att') = Len(att)
    <3>1. HomeTypes' /\ \A q \in Attempts, f \in Files : home'[q][f] <= cellWrites'
      BY <1>1, <1>2, <2>9 DEF HomeTypes, ObjectInv
    <3>2. \A o \in 1 .. Len(obj') : obj'[o].content <= cellWrites' /\ obj'[o].by <= Len(att)
      BY <1>2, <2>2
    <3>3. \A q \in Attempts : q # att[a].place => kernel'[q] = kernel[q]
      BY <2>9
    <3>4. Stored(obj', r.cap) /\ Stored(obj', ckpt'.entries)
      BY <1>2, <2>2, <2>5, <2>8
    <3> QED
      BY <1>2, <2>2, <2>5, <2>6, <2>8, <3>1, <3>2, <3>3, <3>4, AdvanceFrame
  <2>11. \A i \in 1 .. Len(att) : i # a => att'[i] = att[i]
    BY <1>1, <2>1 DEF AttemptTypes
  <2>12. CheckpointTypes' /\ RetentionInv'
    <3>1. Len(obj) \in Nat /\ Len(obj') \in Nat /\ Len(obj) <= Len(obj')
      BY <1>1, <2>2, WorkspaceFacts DEF Grows
    <3>2. CheckpointTypes'
      BY <1>1, <1>2, <2>2, <3>1 DEF CheckpointTypes
    <3>3. Len(att) <= Len(att') /\ \A i \in 1 .. Len(att) : att'[i].work = att[i].work
      BY <1>1, <2>10, WorkspaceFacts
    <3>4. UNCHANGED <<gone, gc, ckpt>> /\ Grows(obj, obj') /\ AttemptTypes' /\ ended \subseteq ended'
      BY <1>2, <2>2, <2>10
    <3>5. RetentionInv'
      BY <1>1, <3>3, <3>4, RetentionKept
    <3> QED
      BY <3>2, <3>5
  <2>13. CASE ~Leased(a) /\ p # Place
    <3>1. CoreInv'
      <4>1. obj' = obj
        BY <2>2, <2>3, <2>13
      <4> QED
        BY <1>2, <1>3, <2>9, <2>10, <2>11, <2>13, <4>1, ElsewhereStep
    <3> QED
      BY <1>1, <1>2, <2>10, <2>12, <3>1 DEF WorkspaceInv, WorkspaceTypes
  <2>14. CASE p = Place
    <3>1. \A i \in 1 .. Len(att) : ~InCell(i)'
      BY <2>3, <2>5, <2>6, <2>10, <2>11, <2>14 DEF InCell
    <3>2. HolderInv'
      <4>1. CASE lease = a
        BY <1>1, <1>2, <2>2, <2>5, <2>6, <2>8, <2>10, <2>14, <4>1 DEF HolderInv, Holding
      <4>2. CASE lease # a
        <5>1. lease # 0 => Holding(obj', att[lease].cap) = Holding(obj, att[lease].cap)
          BY <1>1, <2>7, <2>10, WorkspaceFacts DEF ObjectInv
        <5>2. lease # 0 => att'[lease] = att[lease]
          BY <2>10, <2>11, <4>2
        <5>3. lease # 0 => Holding(obj, att[lease].cap)' = Holding(obj', att[lease].cap)
          BY <1>2, <5>2 DEF Holding
        <5>4. lease # 0 => (Repeated(lease) => Repeated(lease)')
          BY <1>2, <5>2 DEF Repeated
        <5> QED
          BY <1>1, <1>2, <2>8, <2>10, <5>1, <5>2, <5>3, <5>4 DEF HolderInv
      <4> QED
        BY <4>1, <4>2
    <3>3. MarkedInv'
      <4> SUFFICES ASSUME att[a].snap.gen + 1 = ckpt.gen PROVE home[Place] = Committed
        BY <1>2, <2>8, <2>9, <2>10, <2>14 DEF MarkedInv
      <4>1. new = {}
        <5>1. Leased(a) => att[a].snap = CurrentSnap
          BY <1>1, <1>2 DEF HolderInv, Leased
        <5>2. CurrentSnap.gen = ckpt.gen /\ att[a].snap.gen \in Nat
          BY <1>1, WorkspaceFacts DEF CurrentSnap
        <5> QED
          BY <2>3, <5>1, <5>2
      <4>2. NotAhead(Committed, home[Place]) /\ NotAhead(Holding(obj, att[a].snap.entries), Committed)
        BY <1>1, <1>2, <2>14 DEF BehindInv
      <4>3. Committed \in [Files -> Nat] /\ home[Place] \in [Files -> Nat] /\ Holding(obj, att[a].snap.entries) \in [Files -> Nat]
        BY <1>1, <2>10, HoldingTyped, WorkspaceFacts DEF Committed, ObjectInv
      <4>4. \A f \in Files : home[Place][f] = Committed[f]
        <5> SUFFICES ASSUME NEW f \in Files PROVE home[Place][f] = Committed[f]
          OBVIOUS
        <5>1. /\ Committed[f] \in Nat /\ home[Place][f] \in Nat /\ Holding(obj, att[a].snap.entries)[f] \in Nat
              /\ Committed[f] <= home[Place][f] /\ Holding(obj, att[a].snap.entries)[f] <= Committed[f]
              /\ home[Place][f] # 0 => home[Place][f] = Holding(obj, att[a].snap.entries)[f]
          BY <2>4, <2>14, <4>1, <4>2, <4>3 DEF NotAhead
        <5> QED
          BY <5>1
      <4> QED
        BY <4>3, <4>4
    <3>4. BehindInv'
      <4>1. ASSUME NEW i \in 1 .. Len(att), att'[i].place = Place
            PROVE  /\ att'[i].pc \in {"cell", "done"} \/ (att'[i].pc = "captured" /\ i = lease) => NotAhead(Committed, home[Place])
                   /\ att'[i].pc \in {"cell", "done"} => NotAhead(Holding(obj', att'[i].snap.entries), Committed)
        BY <1>1, <1>2, <2>5, <2>6, <2>8, <2>10, <2>11, <4>1 DEF BehindInv
      <4> QED
        BY <1>2, <2>8, <2>10, <4>1 DEF BehindInv, NotAhead, Holding
    <3> QED
      BY <1>1, <1>2, <2>10, <2>12, <3>1, <3>2, <3>3, <3>4 DEF WorkspaceInv, WorkspaceTypes, CoreInv, RunningInv
  <2>15. Leased(a) => p = Place
    BY <1>1, WorkspaceFacts DEF Leased, LastHolds, Place
  <2> QED
    BY <2>13, <2>14, <2>15
<1> QED
  BY <1>4, <1>5


LEMMA CheckpointSave ==
  ASSUME WorkspaceInv, NEW a \in 1 .. Len(att), SaveStep(a)
  PROVE  WorkspaceInv'
<1> DEFINE new == [gen |-> ckpt.gen + 1, entries |-> att[a].cap, by |-> a, base |-> att[a].snap.gen]
           retry == [att[a] EXCEPT !.pc = "retry"]
<1>1. WorkspaceTypes /\ AttemptTypes /\ HomeTypes /\ CheckpointTypes /\ ObjectInv /\ LastHolds
      /\ RetentionInv /\ HolderInv /\ RunningInv /\ MarkedInv /\ BehindInv /\ ended \subseteq Works
  BY DEF WorkspaceInv, WorkspaceTypes, CoreInv
<1>2. att[a].pc \in {"captured", "retry"} /\ UNCHANGED <<lease, ended, obj, gone, gc, home, kernel, cellWrites>>
  BY DEF SaveStep
<1>3. CASE att' = Over(a) /\ ckpt' = ckpt
  <2>1. Advances(a, Done(att[a]))
    BY <1>1, <1>3, EndsAre
  <2> QED
    BY <1>1, <1>2, <1>3, <2>1, EndOne DEF HomeTypes
<1>4. CASE SaveAllowed(a) /\ ckpt' = (IF Repeated(a) THEN ckpt ELSE new) /\ att' \in {At(a, Saved(a)), At(a, retry)}
  <2>1. lease = a /\ a = Len(att) /\ att[a].place = Place /\ Place \in Attempts /\ Len(att) \in 1 .. Len(att)
    BY <1>1, <1>4, WorkspaceFacts DEF SaveAllowed, Leased, LastHolds, Place
  <2>2. /\ home[Place] = Holding(obj, att[a].cap)
        /\ att[a].pc = "captured" => att[a].snap = CurrentSnap /\ ckpt.gen < MaxGen
        /\ att[a].pc = "retry" => Repeated(a)
    BY <1>1, <1>2, <2>1 DEF HolderInv
  <2>3. att[a] \in AttemptRec /\ att[a].cap \in [Files -> Nat] /\ att[a].snap.gen \in Nat /\ ckpt.gen \in Nat
        /\ Stored(obj, att[a].cap) /\ Stored(obj, att[a].snap.entries) /\ Stored(obj, ckpt.entries)
    BY <1>1, WorkspaceFacts DEF ObjectInv
  <2>4. \/ ckpt' = ckpt /\ Repeated(a) /\ att[a].pc = "retry"
        \/ ckpt' = new /\ att[a].pc = "captured" /\ ckpt.gen < MaxGen /\ att[a].snap.gen = ckpt.gen
    <3>1. att[a].pc = "captured" => att[a].snap.gen = ckpt.gen /\ ~Repeated(a)
      BY <2>2, <2>3 DEF CurrentSnap, Repeated
    <3> QED
      BY <1>2, <1>4, <2>2, <3>1
  <2>5. /\ ckpt'.gen = att[a].snap.gen + 1 /\ ckpt'.entries = att[a].cap /\ ckpt'.by = a /\ ckpt'.base = att[a].snap.gen
        /\ ckpt' \in [gen : 0 .. MaxGen, entries : [Files -> Nat], by : Nat, base : Nat]
    <3>1. CASE ckpt' = ckpt /\ Repeated(a)
      BY <1>1, <3>1 DEF Repeated, CheckpointTypes
    <3>2. CASE ckpt' = new /\ ckpt.gen < MaxGen /\ att[a].snap.gen = ckpt.gen
      <4>1. ckpt.gen + 1 \in 0 .. MaxGen /\ a \in Nat
        BY <2>3, <3>2, WorkspaceAssumption
      <4> QED
        BY <2>3, <3>2, <4>1
    <3> QED
      BY <2>4, <3>1, <3>2
  <2> HIDE DEF new
  <2>6. PICK r \in {Saved(a), retry} : att' = [att EXCEPT ![a] = r]
    BY <1>4 DEF At
  <2>7. /\ r \in AttemptRec /\ r.work = att[a].work /\ r.place = att[a].place
        /\ \/ r.pc = "ready" /\ r.snap = [gen |-> att[a].snap.gen + 1, entries |-> att[a].cap] /\ r.cap = Empty
           \/ r.pc = "retry" /\ r.snap = att[a].snap /\ r.cap = att[a].cap
    <3>1. CASE r = retry
      BY <2>3, <3>1 DEF AttemptRec
    <3>2. CASE r = Saved(a)
      <4>1. [gen |-> att[a].snap.gen + 1, entries |-> att[a].cap] \in SnapRec /\ Empty \in [Files -> Nat]
        BY <2>3 DEF SnapRec, Empty
      <4>2. att[a].work \in Works /\ att[a].place \in Attempts
        BY <2>3, AttemptFields
      <4> QED
        BY <2>3, <3>2, <4>1, <4>2 DEF Saved, AttemptRec, SnapRec
    <3> QED
      BY <2>6, <3>1, <3>2
  <2>8. Advances(a, r) /\ att'[a] = r /\ \A i \in 1 .. Len(att) : i # a => att'[i] = att[i]
    <3>1. r \in AttemptRec /\ att \in Seq(AttemptRec)
      BY <1>1, <2>7 DEF AttemptTypes
    <3>2. Advances(a, r)
      BY <1>1, <2>6, <3>1, OneAdvances
    <3>3. \A i \in 1 .. Len(att) : i # a => att'[i] = att[i]
      BY <2>6, <3>1
    <3> QED
      BY <3>2, <3>3 DEF Advances
  <2>9. /\ AttemptTypes' /\ LastHolds' /\ ObjectInv' /\ Place' = Place /\ HomeTypes' /\ CheckpointTypes'
        /\ \A i \in 1 .. Len(att) : att'[i].work = att[i].work /\ att'[i].place = att[i].place
        /\ Len(att') = Len(att)
    <3>1. HomeTypes' /\ \A q \in Attempts, f \in Files : home'[q][f] <= cellWrites'
      BY <1>1, <1>2 DEF HomeTypes, ObjectInv
    <3>2. obj' \in Seq(ObjectRec) /\ Grows(obj, obj') /\ \A o \in 1 .. Len(obj') : obj'[o].content <= cellWrites' /\ obj'[o].by <= Len(att)
      BY <1>1, <1>2, WorkspaceFacts DEF Grows, CheckpointTypes, ObjectInv
    <3>3. Stored(obj', r.snap.entries) /\ Stored(obj', r.cap) /\ Stored(obj', ckpt'.entries)
      <4>1. Stored(obj, Empty)
        BY <1>1, WorkspaceFacts DEF Stored, Empty
      <4> QED
        BY <1>2, <2>3, <2>5, <2>7, <4>1
    <3>4. \A q \in Attempts : q # att[a].place => kernel'[q] = kernel[q]
      BY <1>2
    <3>5. CheckpointTypes'
      BY <1>1, <1>2, <2>5 DEF CheckpointTypes
    <3> QED
      BY <1>2, <2>7, <2>8, <3>1, <3>2, <3>3, <3>4, <3>5, AdvanceFrame
  <2>10. Committed' = home[Place] /\ CurrentSnap' = [gen |-> att[a].snap.gen + 1, entries |-> att[a].cap]
    <3>1. Committed' = Holding(obj, att[a].cap)
      BY <1>2, <2>5 DEF Committed, Holding
    <3> QED
      BY <2>2, <2>5, <3>1 DEF CurrentSnap
  <2>11. RetentionInv'
    <3>1. \A f \in Files : att[a].cap[f] # 0 => (\E g \in Files : ckpt.entries[g] = att[a].cap[f])
                                                \/ (obj[att[a].cap[f]].by = a /\ att[a].cap[f] \notin gone)
      BY <1>4 DEF SaveAllowed
    <3>2. Current(a)
      BY <1>1, <2>1 DEF Current, LastHolds
    <3>3. \A f \in Files : att[a].cap[f] # 0 => att[a].cap[f] \notin gone
      BY <1>1, <3>1 DEF RetentionInv, CheckpointReadable, Readable
    <3>4. CheckpointReadable'
      BY <1>2, <2>5, <3>3 DEF CheckpointReadable, Readable
    <3>5. ASSUME gc # 0 PROVE ~RetainedReferenced(gc)' /\ ~Current(obj[gc].by)'
      <4>1. ~RetainedReferenced(gc) /\ ~Current(obj[gc].by) /\ gc \in 1 .. Len(obj)
        BY <1>1, <3>5 DEF RetentionInv, CheckpointTypes
      <4>2. \A f \in Files : att[a].cap[f] # gc
        BY <3>1, <3>2, <3>5, <4>1 DEF RetainedReferenced
      <4>3. obj[gc].by \in 1 .. Len(att)
        BY <1>1, <4>1, WorkspaceFacts DEF ObjectInv, Attempts
      <4>4. ~Current(obj[gc].by)'
        <5> DEFINE b == obj[gc].by
        <5>1. att[b].work \in ended \/ \E d \in b + 1 .. Len(att) : att[d].work = att[b].work
          BY <4>1 DEF Current
        <5>2. \A d \in b + 1 .. Len(att) : d \in 1 .. Len(att)
          BY <2>1, <4>3
        <5>3. att'[b].work \in ended' \/ \E d \in b + 1 .. Len(att') : att'[d].work = att'[b].work
          BY <1>2, <2>9, <4>3, <5>1, <5>2
        <5> QED
          BY <1>2, <5>3 DEF Current
      <4> QED
        BY <1>2, <2>5, <4>2, <4>4 DEF RetainedReferenced
    <3> QED
      BY <1>2, <3>4, <3>5 DEF RetentionInv
  <2>12. \A i \in 1 .. Len(att) : ~InCell(i)'
    <3>1. \A i \in 1 .. Len(att) : i # a => ~InCell(i)
      BY <1>1, <1>2, <2>1 DEF RunningInv
    <3> QED
      BY <2>7, <2>8, <2>9, <3>1 DEF InCell
  <2>13. HolderInv'
    <3>1. r.pc = "retry" => Repeated(a)'
      BY <2>5, <2>7, <2>8 DEF Repeated
    <3>2. r.pc = "retry" => Holding(obj, att[lease].cap)' = home[Place]
      BY <1>2, <2>1, <2>2, <2>7, <2>8 DEF Holding
    <3>3. r.pc = "ready" => att'[a].snap = CurrentSnap'
      BY <2>7, <2>8, <2>10
    <3> QED
      BY <1>2, <2>1, <2>7, <2>8, <2>9, <2>10, <3>1, <3>2, <3>3 DEF HolderInv
  <2>14. MarkedInv'
    BY <1>2, <2>9, <2>10 DEF MarkedInv
  <2>15. BehindInv'
    <3>1. home[Place] \in [Files -> Nat]
      BY <1>1, <2>1, WorkspaceFacts
    <3>2. NotAhead(home[Place], home[Place])
      BY <3>1 DEF NotAhead
    <3>3. NotAhead(Committed, home[Place])
      <4>1. CASE att[a].pc = "captured"
        BY <1>1, <2>1, <4>1 DEF BehindInv
      <4>2. CASE ckpt' = ckpt
        BY <1>2, <2>10, <3>2, <4>2 DEF Committed, Holding
      <4> QED
        BY <2>4, <4>1, <4>2
    <3>4. ASSUME NEW i \in 1 .. Len(att), att'[i].place = Place, att'[i].pc \in {"cell", "done"}
          PROVE  NotAhead(Holding(obj, att'[i].snap.entries), home[Place])
      <4>1. i # a /\ att'[i] = att[i]
        BY <2>7, <2>8, <3>4
      <4>2. NotAhead(Holding(obj, att[i].snap.entries), Committed)
        BY <1>1, <3>4, <4>1 DEF BehindInv
      <4>3. Holding(obj, att[i].snap.entries) \in [Files -> Nat] /\ Committed \in [Files -> Nat]
        BY <1>1, HoldingTyped, WorkspaceFacts DEF Committed, ObjectInv
      <4>4. \A f \in Files : /\ Holding(obj, att[i].snap.entries)[f] \in Nat /\ Committed[f] \in Nat /\ home[Place][f] \in Nat
                             /\ Holding(obj, att[i].snap.entries)[f] <= Committed[f] /\ Committed[f] <= home[Place][f]
        BY <3>1, <3>3, <4>2, <4>3 DEF NotAhead
      <4> QED
        BY <4>1, <4>4 DEF NotAhead
    <3> QED
      BY <1>2, <2>9, <2>10, <3>2, <3>4 DEF BehindInv, NotAhead, Holding
  <2> QED
    BY <1>1, <1>2, <2>9, <2>11, <2>12, <2>13, <2>14, <2>15 DEF WorkspaceInv, WorkspaceTypes, CoreInv, RunningInv
<1> QED
  BY <1>3, <1>4 DEF SaveStep

LEMMA WorkspaceStep == WorkspaceInv /\ [WorkspaceNext]_wvars => WorkspaceInv'
<1> SUFFICES ASSUME WorkspaceInv, [WorkspaceNext]_wvars PROVE WorkspaceInv'
  OBVIOUS
<1>1. CASE UNCHANGED wvars
  <2>1. WorkspaceTypes /\ AttemptTypes /\ HomeTypes /\ ended \subseteq Works
    BY DEF WorkspaceInv, WorkspaceTypes
  <2>2. Retires
    BY <1>1, <2>1 DEF wvars, Retires, RetiresOnly, AttemptTypes, HomeTypes
  <2> QED
    BY <1>1, <2>1, <2>2, RetirementKeeps DEF wvars
<1>2. CASE \E w \in Works, moves \in BOOLEAN : ClaimRun(w, moves)
  BY <1>2, AttemptClaims
<1>3. CASE Expire \/ Delete \/ \E o \in 1 .. Len(obj) : Inspect(o)
  BY <1>3, EndStep, MaintenanceStep
<1>4. CASE \E p \in Attempts : Crash(p) \/ KernelLost(p)
  BY <1>4, CrashStep
<1>5. ASSUME NEW a \in 1 .. Len(att),
             \/ \E final \in BOOLEAN : EndRun(a, final)
             \/ PrepareWorkspace(a) \/ NextCell(a) \/ CellEnds(a) \/ CellTimesOut(a)
             \/ Capture(a) \/ SaveStep(a) \/ \E f \in Files : WriteFile(a, f)
      PROVE  WorkspaceInv'
  BY <1>5, EndStep, PrepareStep, NextCellStep, CellEndStep, TimeoutStep, CheckpointCapture, CheckpointSave, WriteStep
<1> QED
  BY <1>1, <1>2, <1>3, <1>4, <1>5 DEF WorkspaceNext

(* app/workspaces.ts: the committed checkpoint can be read back whatever   *)
(* maintenance deletes, and every cell of the lease holder starts from it. *)
THEOREM CheckpointsKept == WorkspaceSpec => []WorkspaceSafe
<1>1. WorkspaceInit => WorkspaceInv
  <2> SUFFICES ASSUME WorkspaceInit PROVE WorkspaceInv
    OBVIOUS
  <2>1. Empty \in [Files -> Nat] /\ \A f \in Files : Empty[f] = 0
    BY DEF Empty
  <2>2. att = <<>> /\ obj = <<>> /\ Len(att) = 0 /\ Len(obj) = 0
    BY DEF WorkspaceInit
  <2>3. WorkspaceTypes
    <3>1. AttemptTypes /\ HomeTypes
      BY <2>1, <2>2, WorkspaceAssumption DEF WorkspaceInit, AttemptTypes, HomeTypes, NoKernel
    <3>2. CheckpointTypes
      BY <2>1, <2>2, WorkspaceAssumption DEF WorkspaceInit, CheckpointTypes
    <3> QED
      BY <3>1, <3>2 DEF WorkspaceInit, WorkspaceTypes
  <2>4. LastHolds
    BY <2>2 DEF WorkspaceInit, LastHolds, NoKernel
  <2>5. ObjectInv
    BY <2>1, <2>2 DEF WorkspaceInit, ObjectInv, Stored
  <2>6. RetentionInv
    BY <2>1 DEF WorkspaceInit, RetentionInv, CheckpointReadable, Readable
  <2>7. CoreInv
    BY <2>2 DEF WorkspaceInit, CoreInv, HolderInv, RunningInv, MarkedInv, BehindInv
  <2> QED
    BY <2>3, <2>4, <2>5, <2>6, <2>7 DEF WorkspaceInv
<1>2. WorkspaceInv => WorkspaceSafe
  <2> SUFFICES ASSUME WorkspaceInv PROVE WorkspaceSafe
    OBVIOUS
  <2>1. lease \in 0 .. Len(att)
    BY WorkspaceFacts DEF WorkspaceInv, LastHolds
  <2>2. WorkspaceTypeOK
    BY <2>1 DEF WorkspaceInv, WorkspaceTypes, AttemptTypes, CheckpointTypes, HomeTypes, WorkspaceTypeOK
  <2>3. StartsCommitted
    BY IsHolding DEF WorkspaceInv, CoreInv, HolderInv, StartsCommitted, Leased, Committed
  <2> QED
    BY <2>2, <2>3 DEF WorkspaceInv, RetentionInv, WorkspaceSafe
<1> QED
  BY <1>1, <1>2, WorkspaceStep, PTL DEF WorkspaceSpec

-----------------------------------------------------------------------------
(* SharedState *)

(* Whoever is in a transaction holds the row, and read what is committed.  *)
HolderOfRow == \A w \in Writers : /\ writer[w].pc # "idle" <=> holder = w
                                  /\ writer[w].pc = "locked" => writer[w].row = shared

(* The row that a commit will leave.                                       *)
OneFurther(row, rec, old) ==
  /\ row.version = old.version + 1
  /\ \A f \in DOMAIN rec.expected :
       /\ old.fields[f].version = rec.expected[f]
       /\ row.fields[f] = [version |-> rec.expected[f] + 1, value |-> rec.op]
  /\ \A f \in Fields \ DOMAIN rec.expected : row.fields[f] = old.fields[f]

(* What is about to be committed is new, has the highest number and goes   *)
(* on from the row.                                                        *)
Pending(row, rec, old, done, number, cursor) ==
  /\ rec.seq <= number /\ cursor < rec.seq
  /\ \A o \in done : o.op # rec.op /\ o.seq < rec.seq
  /\ IF rec.ok THEN OneFurther(row, rec, old) ELSE row = old
PendingInv == \A w \in Writers : writer[w].pc = "written" =>
  Pending(writer[w].row, writer[w].rec, shared, ops, seq, reader.cursor)

NumberInv == reader.cursor <= seq /\ \A o \in ops : o.seq <= seq

SharedInv == SharedSafe /\ HolderOfRow /\ PendingInv /\ NumberInv

LEMMA SharedTyped ==
  ASSUME SharedTypeOK
  PROVE  /\ shared \in SharedRec /\ shared.version \in Nat /\ seq \in Int /\ holder \in Writers \cup {Unset}
         /\ shared.fields \in [Fields -> FieldRec]
         /\ \A f \in Fields : shared.fields[f].version \in Nat
         /\ \A o \in ops : o \in OpRec /\ o.seq \in Nat /\ o.op \in Operations /\ o.ok \in BOOLEAN
                           /\ o.expected \in Updates
         /\ reader.cursor \in Nat /\ reader.read \subseteq Nat
         /\ \A w \in Writers : writer[w] \in {NoTransaction} \cup LockedRec \cup WrittenRec
<1> QED
  BY SharedAssumption DEF SharedTypeOK, SharedRec, FieldRec, OpRec

LEMMA TransactionTyped ==
  ASSUME SharedTypeOK, NEW w \in Writers
  PROVE  /\ writer[w].pc \in {"idle", "locked", "written"}
         /\ writer[w].pc = "idle" => writer[w] = NoTransaction
         /\ writer[w].pc = "locked" => /\ writer[w] \in LockedRec /\ writer[w].op \in Operations
                                       /\ writer[w].expected \in Updates /\ writer[w].row \in SharedRec
         /\ writer[w].pc = "written" => /\ writer[w] \in WrittenRec /\ writer[w].row \in SharedRec
                                        /\ writer[w].rec \in OpRec
<1> QED
  BY SharedTyped DEF NoTransaction, LockedRec, WrittenRec

LEMMA UpdatesTyped ==
  ASSUME NEW e \in Updates
  PROVE  /\ DOMAIN e \subseteq Fields /\ DOMAIN e # {}
         /\ \A f \in DOMAIN e : e[f] \in 0..(MaxFieldVersion - 1)
<1> QED
  BY DEF Updates

LEMMA WritersFree ==
  ASSUME SharedTypeOK, HolderOfRow, NEW w \in Writers, writer[w].pc # "idle"
  PROVE  \A v \in Writers : v # w => writer[v].pc = "idle"
<1> QED
  BY DEF HolderOfRow

(* The three parts that speak of the history alone.                        *)
History == StateOfHistory /\ OperationsOnce /\ NothingMissed

LEMMA HistoryFrame ==
  ASSUME History, UNCHANGED <<shared, ops, reader>>
  PROVE  History'
<1> QED
  BY DEF History, StateOfHistory, FieldOfHistory, OperationsOnce, NothingMissed, Wrote, Before, Successful

(* A step of one writer that changes nothing but its transaction.          *)
LEMMA TransactionStep ==
  ASSUME SharedTypeOK, HolderOfRow, PendingInv, NumberInv, History,
         NEW w \in Writers, NEW t \in {NoTransaction} \cup LockedRec \cup WrittenRec,
         writer' = [writer EXCEPT ![w] = t],
         UNCHANGED <<shared, ops, reader>>, seq' \in 0..MaxSeq, seq <= seq',
         holder' \in Writers \cup {Unset},
         \A v \in Writers : v # w => (holder' = v <=> holder = v),
         (t.pc # "idle") <=> (holder' = w),
         t.pc = "locked" => t.row = shared,
         t.pc = "written" => Pending(t.row, t.rec, shared, ops, seq', reader.cursor)
  PROVE  SharedInv'
<1>1. writer'[w] = t /\ \A v \in Writers : v # w => writer'[v] = writer[v]
  BY DEF SharedTypeOK
<1>2. SharedTypeOK'
  BY DEF SharedTypeOK
<1>3. HolderOfRow'
  BY <1>1 DEF HolderOfRow
<1>4. PendingInv'
  <2> SUFFICES ASSUME NEW v \in Writers, writer'[v].pc = "written"
               PROVE  Pending(writer'[v].row, writer'[v].rec, shared, ops, seq', reader.cursor)
    BY DEF PendingInv
  <2>1. CASE v = w
    BY <2>1, <1>1
  <2>2. CASE v # w
    <3>1. writer'[v] = writer[v] /\ writer[v].rec \in OpRec
          /\ Pending(writer[v].row, writer[v].rec, shared, ops, seq, reader.cursor)
      BY <2>2, <1>1, TransactionTyped DEF PendingInv
    <3>2. writer[v].rec.seq \in Nat /\ seq \in Nat /\ seq' \in Nat
      BY <3>1, SharedAssumption DEF OpRec, SharedTypeOK
    <3> QED
      BY <3>1, <3>2 DEF Pending
  <2> QED
    BY <2>1, <2>2
<1>5. NumberInv'
  BY SharedTyped, SharedAssumption DEF NumberInv
<1>6. History'
  BY HistoryFrame
<1> QED
  BY <1>2, <1>3, <1>4, <1>5, <1>6 DEF SharedInv, SharedSafe, History

LEMMA InvParts ==
  ASSUME SharedInv
  PROVE  SharedTypeOK /\ HolderOfRow /\ PendingInv /\ NumberInv /\ History
<1> QED
  BY DEF SharedInv, SharedSafe, History

LEMMA LockKeeps ==
  ASSUME SharedInv, NEW w \in Writers, NEW op \in Operations, NEW expected \in Updates, Lock(w, op, expected)
  PROVE  SharedInv'
<1> DEFINE t == [pc |-> "locked", op |-> op, expected |-> expected, row |-> shared]
<1>1. writer' = [writer EXCEPT ![w] = t] /\ holder' = w /\ holder = Unset /\ UNCHANGED <<shared, ops, seq, reader>>
  BY DEF Lock, LockAvailable
<1>2. t \in LockedRec /\ t.pc = "locked" /\ t.row = shared
  BY InvParts, SharedTyped DEF LockedRec
<1>3. seq \in 0..MaxSeq /\ seq <= seq
  BY InvParts, SharedTyped DEF SharedTypeOK
<1> HIDE DEF t
<1> QED
  BY <1>1, <1>2, <1>3, InvParts, SharedAssumption, TransactionStep

(* The transaction of a writer ends and leaves nothing.                    *)
LEMMA ReleaseKeeps ==
  ASSUME SharedInv, NEW w \in Writers, writer[w].pc # "idle",
         writer' = [writer EXCEPT ![w] = NoTransaction], holder' = Unset,
         UNCHANGED <<shared, ops, seq, reader>>
  PROVE  SharedInv'
<1>1. holder = w
  BY InvParts DEF HolderOfRow
<1>2. NoTransaction.pc = "idle"
  BY DEF NoTransaction
<1>3. seq \in 0..MaxSeq /\ seq <= seq
  BY InvParts, SharedTyped DEF SharedTypeOK
<1> QED
  BY <1>1, <1>2, <1>3, InvParts, SharedAssumption, TransactionStep

LEMMA RepeatedKeeps ==
  ASSUME SharedInv, NEW w \in Writers, RepeatedOperation(w)
  PROVE  SharedInv'
<1> QED
  BY ReleaseKeeps DEF RepeatedOperation

LEMMA AbortKeeps ==
  ASSUME SharedInv, NEW w \in Writers, Abort(w)
  PROVE  SharedInv'
<1>1. holder = w
  BY InvParts DEF Abort, HolderOfRow
<1> QED
  BY <1>1, ReleaseKeeps DEF Abort

LEMMA RecordKeeps ==
  ASSUME SharedInv, NEW w \in Writers, RecordOperation(w)
  PROVE  SharedInv'
<1> DEFINE t == writer[w]
           row == Written(w)
           rec == [seq |-> seq + 1, op |-> t.op, expected |-> t.expected, ok |-> Conflicts(w) = {}]
           new == [pc |-> "written", row |-> row, rec |-> rec]
<1>1. /\ t.pc = "locked" /\ RecordedAs(t.op) = {} /\ seq < MaxSeq /\ seq' = seq + 1
      /\ writer' = [writer EXCEPT ![w] = new] /\ UNCHANGED <<shared, ops, holder, reader>>
  BY DEF RecordOperation
<1>2. t \in LockedRec /\ t.op \in Operations /\ t.expected \in Updates /\ t.row = shared
  BY <1>1, InvParts, TransactionTyped DEF HolderOfRow
<1>3. DOMAIN t.expected \subseteq Fields /\ \A f \in DOMAIN t.expected : t.expected[f] \in 0..(MaxFieldVersion - 1)
  BY <1>2, UpdatesTyped
<1>4. shared \in SharedRec /\ shared.version \in Nat /\ shared.fields \in [Fields -> FieldRec] /\ seq \in Nat
  BY InvParts, SharedTyped, SharedAssumption DEF SharedTypeOK
<1>5. rec \in OpRec
  BY <1>2, <1>4 DEF OpRec
<1>6. rec.seq = seq + 1 /\ rec.op = t.op /\ rec.expected = t.expected /\ rec.ok = (Conflicts(w) = {})
  OBVIOUS
<1>7. ASSUME Conflicts(w) = {}
      PROVE  row \in SharedRec /\ OneFurther(row, rec, shared)
  <2>1. row = [version |-> shared.version + 1,
               fields |-> [f \in Fields |-> IF f \in DOMAIN t.expected
                                            THEN [version |-> t.expected[f] + 1, value |-> t.op]
                                            ELSE shared.fields[f]]]
    BY <1>2, <1>7 DEF Written
  <2>2. \A f \in DOMAIN t.expected : [version |-> t.expected[f] + 1, value |-> t.op] \in FieldRec
    BY <1>2, <1>3, SharedAssumption DEF FieldRec
  <2>3. row \in SharedRec
    BY <2>1, <2>2, <1>3, <1>4 DEF SharedRec
  <2>4. \A f \in DOMAIN t.expected : shared.fields[f].version = t.expected[f]
    BY <1>2, <1>7 DEF Conflicts
  <2>5. OneFurther(row, rec, shared)
    <3>1. row.version = shared.version + 1 /\ \A f \in Fields \ DOMAIN t.expected : row.fields[f] = shared.fields[f]
      BY <2>1
    <3>2. \A f \in DOMAIN t.expected : row.fields[f] = [version |-> t.expected[f] + 1, value |-> t.op]
      BY <2>1, <1>3
    <3> HIDE DEF row
    <3>3. \A f \in DOMAIN rec.expected : row.fields[f] = [version |-> rec.expected[f] + 1, value |-> rec.op]
      BY <3>2
    <3> HIDE DEF rec
    <3> QED
      BY <3>1, <3>3, <2>4, <1>6 DEF OneFurther
  <2> QED
    BY <2>3, <2>5
<1>8. ASSUME Conflicts(w) # {}
      PROVE  row \in SharedRec /\ row = shared
  BY <1>2, <1>4, <1>8 DEF Written
<1>9. row \in SharedRec /\ IF rec.ok THEN OneFurther(row, rec, shared) ELSE row = shared
  BY <1>6, <1>7, <1>8
<1>10. \A o \in ops : o.op # rec.op /\ o.seq < rec.seq
  BY <1>1, <1>4, <1>6, InvParts, SharedTyped DEF RecordedAs, NumberInv
<1>11. Pending(row, rec, shared, ops, seq', reader.cursor)
  <2>1. rec.seq <= seq' /\ reader.cursor < rec.seq
    BY <1>1, <1>4, <1>6, InvParts, SharedTyped DEF NumberInv
  <2> QED
    BY <2>1, <1>9, <1>10 DEF Pending
<1>12. new \in WrittenRec /\ new.pc = "written" /\ new.row = row /\ new.rec = rec
  BY <1>5, <1>9 DEF WrittenRec
<1>13. seq' \in 0..MaxSeq /\ seq <= seq'
  BY <1>1, <1>4, InvParts, SharedAssumption DEF SharedTypeOK
<1>14. holder = w /\ holder \in Writers \cup {Unset}
  BY <1>1, InvParts, SharedTyped DEF HolderOfRow
<1> HIDE DEF t, row, rec, new
<1>15. /\ new \in {NoTransaction} \cup LockedRec \cup WrittenRec /\ new.pc # "idle"
       /\ new.pc # "locked" /\ Pending(new.row, new.rec, shared, ops, seq', reader.cursor)
  BY <1>11, <1>12
<1>16. \A v \in Writers : v # w => (holder' = v <=> holder = v)
  BY <1>1
<1>17. (new.pc # "idle") <=> (holder' = w)
  BY <1>1, <1>14, <1>15
<1> QED
  BY <1>1, <1>13, <1>14, <1>15, <1>16, <1>17, InvParts, TransactionStep

LEMMA ReadKeeps ==
  ASSUME SharedInv, ReadHistory
  PROVE  SharedInv'
<1> DEFINE after == {o \in ops : o.seq > reader.cursor}
           page == {o \in after : Cardinality({p \in after : p.seq <= o.seq}) <= PageSize}
<1>1. UNCHANGED <<shared, ops, seq, holder, writer>>
  BY DEF ReadHistory
<1>2. PICK last \in page : /\ \A o \in page : o.seq <= last.seq
                           /\ reader' = [cursor |-> last.seq, read |-> reader.read \cup {o.seq : o \in page}]
  BY DEF ReadHistory
<1>3. reader'.cursor = last.seq /\ reader'.read = reader.read \cup {o.seq : o \in page}
  BY <1>2
<1>4. last \in after /\ last \in ops /\ last.seq \in Nat
  BY <1>2, InvParts, SharedTyped
<1>5. \A o \in ops : o.seq \in Nat /\ reader.cursor \in Nat /\ reader.read \subseteq Nat
  BY InvParts, SharedTyped
<1>6. SharedTypeOK'
  <2>1. reader' \in [cursor : Nat, read : SUBSET Nat]
    BY <1>2, <1>4, <1>5
  <2> QED
    BY <1>1, <2>1, InvParts DEF SharedTypeOK
<1>7. NothingMissed'
  <2> SUFFICES ASSUME NEW o \in ops, o.seq <= last.seq
               PROVE  o.seq \in reader'.read
    BY <1>1, <1>3 DEF NothingMissed
  <2>1. CASE o.seq <= reader.cursor
    BY <2>1, <1>3, InvParts DEF History, NothingMissed
  <2>2. CASE o.seq > reader.cursor
    <3> DEFINE upTo(x) == {p \in after : p.seq <= x.seq}
    <3>1. o \in after /\ upTo(o) \subseteq upTo(last)
      BY <2>2, <1>4, <1>5
    <3>2. IsFiniteSet(upTo(last))
      BY InvParts, FS_Subset DEF SharedTypeOK
    <3>3. Cardinality(upTo(o)) <= Cardinality(upTo(last)) /\ Cardinality(upTo(o)) \in Nat
          /\ Cardinality(upTo(last)) \in Nat
      BY <3>1, <3>2, FS_Subset, FS_CardinalityType
    <3>4. Cardinality(upTo(last)) <= PageSize
      BY <1>2
    <3>5. o \in page
      BY <3>1, <3>3, <3>4, SharedAssumption
    <3> QED
      BY <3>5, <1>3
  <2> QED
    BY <2>1, <2>2, <1>5
<1>8. PendingInv'
  <2> SUFFICES ASSUME NEW w \in Writers, writer[w].pc = "written"
               PROVE  Pending(writer[w].row, writer[w].rec, shared, ops, seq, last.seq)
    BY <1>1, <1>3 DEF PendingInv
  <2>1. Pending(writer[w].row, writer[w].rec, shared, ops, seq, reader.cursor)
    BY InvParts DEF PendingInv
  <2> QED
    BY <2>1, <1>4 DEF Pending
<1>9. HolderOfRow' /\ NumberInv'
  BY <1>1, <1>3, <1>4, InvParts DEF HolderOfRow, NumberInv
<1>10. StateOfHistory' /\ OperationsOnce'
  BY <1>1, InvParts DEF History, StateOfHistory, FieldOfHistory, OperationsOnce, Wrote, Before, Successful
<1> QED
  BY <1>6, <1>7, <1>8, <1>9, <1>10 DEF SharedInv, SharedSafe

(* The history with one more successful operation, and the row it leaves.  *)
LEMMA OneMoreWrite ==
  ASSUME SharedTypeOK, StateOfHistory, NEW rec \in OpRec, NEW row, rec.ok, OneFurther(row, rec, shared),
         \A o \in ops : o.seq < rec.seq, ops' = ops \cup {rec}, shared' = row
  PROVE  StateOfHistory'
<1>1. rec \notin ops /\ rec.seq \in Nat /\ IsFiniteSet(ops)
  BY DEF SharedTypeOK, OpRec
<1>2. \A o \in ops : o.seq \in Nat
  BY SharedTyped
<1>3. Successful' = Successful \cup {rec} /\ IsFiniteSet(Successful) /\ rec \notin Successful
  BY <1>1, FS_Subset DEF Successful
<1>4. Cardinality(Successful') = Cardinality(Successful) + 1
  BY <1>3, FS_AddElement
<1>5. shared'.version = Cardinality(Successful')
  BY <1>4 DEF StateOfHistory, OneFurther
<1>6. ASSUME NEW f \in Fields
      PROVE  FieldOfHistory(f)'
  <2>1. IsFiniteSet(Wrote(f)) /\ rec \notin Wrote(f) /\ Wrote(f) \subseteq ops
    BY <1>1, <1>3, FS_Subset DEF Wrote, Successful
  <2>2. FieldOfHistory(f)
    BY DEF StateOfHistory
  <2>3. ASSUME f \in DOMAIN rec.expected
        PROVE  FieldOfHistory(f)'
    <3>1. Wrote(f)' = Wrote(f) \cup {rec}
      BY <2>3, <1>3 DEF Wrote
    <3>2. Cardinality(Wrote(f) \cup {rec}) = Cardinality(Wrote(f)) + 1
      BY <2>1, FS_AddElement
    <3>3. shared.fields[f].version = rec.expected[f] /\ shared'.fields[f].version = rec.expected[f] + 1
          /\ shared'.fields[f].value = rec.op
      <4>1. shared.fields[f].version = rec.expected[f]
            /\ row.fields[f] = [version |-> rec.expected[f] + 1, value |-> rec.op]
        BY <2>3 DEF OneFurther
      <4>2. row.fields[f].version = rec.expected[f] + 1 /\ row.fields[f].value = rec.op
        BY <4>1
      <4> QED
        BY <4>1, <4>2
    <3>4. Before(rec, Wrote(f) \cup {rec}) = Wrote(f)
      BY <1>1, <2>1 DEF Before
    <3>5. \A o \in Wrote(f) : Before(o, Wrote(f) \cup {rec}) = Before(o, Wrote(f)) /\ ~(rec.seq <= o.seq)
      BY <1>1, <1>2, <2>1 DEF Before
    <3> QED
      BY <3>1, <3>2, <3>3, <3>4, <3>5, <2>2 DEF FieldOfHistory
  <2>4. ASSUME f \notin DOMAIN rec.expected
        PROVE  FieldOfHistory(f)'
    <3>1. Wrote(f)' = Wrote(f)
      BY <2>4, <1>3 DEF Wrote
    <3>2. shared'.fields[f] = shared.fields[f]
      BY <2>4 DEF OneFurther
    <3> QED
      BY <3>1, <3>2, <2>2 DEF FieldOfHistory
  <2> QED
    BY <2>3, <2>4
<1> QED
  BY <1>5, <1>6 DEF StateOfHistory

LEMMA CommitKeeps ==
  ASSUME SharedInv, NEW w \in Writers, Commit(w)
  PROVE  SharedInv'
<1> DEFINE row == writer[w].row
           rec == writer[w].rec
<1>1. /\ writer[w].pc = "written" /\ shared' = row /\ ops' = ops \cup {rec} /\ UNCHANGED <<seq, reader>>
      /\ writer' = [writer EXCEPT ![w] = NoTransaction] /\ holder' = Unset
  BY DEF Commit
<1>2. row \in SharedRec /\ rec \in OpRec
  BY <1>1, InvParts, TransactionTyped
<1>3. Pending(row, rec, shared, ops, seq, reader.cursor)
  BY <1>1, InvParts DEF PendingInv
<1>4. holder = w /\ \A v \in Writers : writer'[v] = NoTransaction
  <2>1. holder = w
    BY <1>1, InvParts DEF HolderOfRow
  <2>2. \A v \in Writers : v # w => writer[v] = NoTransaction
    BY <2>1, InvParts, TransactionTyped DEF HolderOfRow
  <2>3. writer \in [Writers -> {NoTransaction} \cup LockedRec \cup WrittenRec]
    BY InvParts DEF SharedTypeOK
  <2> QED
    BY <1>1, <2>1, <2>2, <2>3
<1>5. NoTransaction.pc = "idle"
  BY DEF NoTransaction
<1>6. rec.seq \in Nat /\ seq \in Nat /\ reader.cursor \in Nat /\ \A o \in ops : o.seq \in Nat
  BY <1>2, InvParts, SharedTyped, SharedAssumption DEF OpRec, SharedTypeOK
<1> HIDE DEF row, rec
<1>7. SharedTypeOK'
  <2>1. ops' \subseteq OpRec /\ IsFiniteSet(ops')
    BY <1>1, <1>2, InvParts, FS_AddElement DEF SharedTypeOK
  <2>2. writer' \in [Writers -> {NoTransaction} \cup LockedRec \cup WrittenRec]
    BY <1>1, InvParts DEF SharedTypeOK
  <2> QED
    BY <1>1, <1>2, <2>1, <2>2, InvParts DEF SharedTypeOK
<1>8. HolderOfRow' /\ PendingInv'
  BY <1>1, <1>4, <1>5, SharedAssumption DEF HolderOfRow, PendingInv
<1>9. NumberInv'
  BY <1>1, <1>3, <1>6, InvParts DEF NumberInv, Pending
<1>10. OperationsOnce' /\ NothingMissed'
  <2>1. \A o \in ops : o.op # rec.op /\ o.seq < rec.seq
    BY <1>3 DEF Pending
  <2>2. OperationsOnce'
    BY <2>1, <1>1, <1>6, InvParts DEF History, OperationsOnce
  <2>3. ~(rec.seq <= reader.cursor)
    BY <1>3, <1>6 DEF Pending
  <2> QED
    BY <2>2, <2>3, <1>1, InvParts DEF History, NothingMissed
<1>11. StateOfHistory'
  <2>1. CASE rec.ok
    BY <2>1, <1>1, <1>2, <1>3, InvParts, OneMoreWrite DEF Pending, History
  <2>2. CASE ~rec.ok
    <3>1. shared' = shared /\ Successful' = Successful
      BY <2>2, <1>1, <1>3 DEF Pending, Successful
    <3> QED
      BY <3>1, InvParts DEF History, StateOfHistory, FieldOfHistory, Wrote
  <2> QED
    BY <2>1, <2>2
<1> QED
  BY <1>7, <1>8, <1>9, <1>10, <1>11 DEF SharedInv, SharedSafe

LEMMA SharedInitInv == SharedInit => SharedInv
<1> SUFFICES ASSUME SharedInit PROVE SharedInv
  OBVIOUS
<1>1. \A w \in Writers : writer[w] = NoTransaction /\ NoTransaction.pc = "idle"
  BY DEF SharedInit, NoTransaction
<1>2. SharedTypeOK
  <2>1. Unwritten \in FieldRec
    BY SharedAssumption DEF Unwritten, FieldRec
  <2>2. IsFiniteSet({})
    BY FS_EmptySet
  <2> QED
    BY <2>1, <2>2, SharedAssumption DEF SharedInit, SharedTypeOK, SharedRec
<1>3. Successful = {} /\ Cardinality({}) = 0 /\ \A f \in Fields : Wrote(f) = {}
  BY FS_EmptySet DEF SharedInit, Successful, Wrote
<1>4. StateOfHistory
  BY <1>3 DEF SharedInit, StateOfHistory, FieldOfHistory, Unwritten
<1>5. OperationsOnce /\ NothingMissed /\ NumberInv
  BY DEF SharedInit, OperationsOnce, NothingMissed, NumberInv
<1>6. HolderOfRow /\ PendingInv
  BY <1>1, SharedAssumption DEF SharedInit, HolderOfRow, PendingInv
<1> QED
  BY <1>2, <1>4, <1>5, <1>6 DEF SharedInv, SharedSafe

(* SharedSafe: a shared state is what its recorded operations, in the      *)
(* order of their numbers, make of it, each operation counts once, and a   *)
(* reader that follows the numbers misses none.                            *)
THEOREM SharedStateKept == SharedSpec => []SharedSafe
<1>1. SharedInv /\ [SharedNext]_svars => SharedInv'
  <2> SUFFICES ASSUME SharedInv, [SharedNext]_svars PROVE SharedInv'
    OBVIOUS
  <2>1. ASSUME NEW w \in Writers, NEW op \in Operations, NEW expected \in Updates, Lock(w, op, expected)
        PROVE  SharedInv'
    BY <2>1, LockKeeps
  <2>2. ASSUME NEW w \in Writers, RepeatedOperation(w) \/ RecordOperation(w) \/ Commit(w) \/ Abort(w)
        PROVE  SharedInv'
    BY <2>2, RepeatedKeeps, RecordKeeps, CommitKeeps, AbortKeeps
  <2>3. CASE ReadHistory
    BY <2>3, ReadKeeps
  <2>4. CASE UNCHANGED svars
    BY <2>4 DEF svars, SharedInv, SharedSafe, SharedTypeOK, StateOfHistory, FieldOfHistory, OperationsOnce, NothingMissed,
                Wrote, Successful, Before, HolderOfRow, PendingInv, NumberInv
  <2> QED
    BY <2>1, <2>2, <2>3, <2>4 DEF SharedNext
<1>2. SharedInv => SharedSafe
  BY DEF SharedInv
<1> QED
  BY <1>1, <1>2, SharedInitInv, PTL DEF SharedSpec
=============================================================================
