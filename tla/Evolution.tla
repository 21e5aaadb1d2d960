----------------------------- MODULE Evolution ------------------------------
(***************************************************************************)
(* Evolved memories of one scope and kind: candidates proposed from        *)
(* committed evidence, evaluated case by case against the strategy that    *)
(* was active when they were proposed, promoted by a verdict, rolled back  *)
(* by an administrator, pinned by runs.  Every action is one transaction.  *)
(* The benchmark has one case; a report says whether it succeeded.         *)
(***************************************************************************)
EXTENDS Integers, FiniteSets

CONSTANTS
  Candidates,   \* identities of evolved memories
  PinRuns,      \* runs that use strategies
  MaxVersion    \* versions of one memory explored

ASSUME EvolutionAssumption == 0 \notin Candidates /\ MaxVersion \in Nat

VARIABLES
  mem,       \* agent_memories with origin evolved: status and version
  plan,      \* agent_evolution_evaluations: verdict, baseline reference, reports
  pin,       \* per run: strategy_snapshot, NoPin before the first hop
  shown,     \* history: per run, what its hops were given
  switches,  \* history: how often the active strategy changed
  asOf,      \* history: per candidate, switches when it was proposed
  clean      \* history: every promotion met the strategy it was compared with

evars == <<mem, plan, pin, shown, switches, asOf, clean>>

Nothing == [id |-> 0, ver |-> 0]
Refs == [id : Candidates \cup {0}, ver : Nat]
NoPin == {Nothing}
Variants == {"baseline", "candidate"}
Ref(c) == [id |-> c, ver |-> mem[c].ver]
ActiveRefs == {Ref(c) : c \in {d \in Candidates : mem[d].st = "active"}}
ActiveRef == IF ActiveRefs = {} THEN Nothing ELSE CHOOSE r \in ActiveRefs : TRUE

EvolutionInit ==
  /\ mem = [c \in Candidates |-> [st |-> "none", ver |-> 0]]
  /\ plan = [c \in Candidates |-> [verdict |-> "none", base |-> Nothing,
                                   reports |-> [v \in Variants |-> "none"]]]
  /\ pin = [u \in PinRuns |-> NoPin] /\ shown = [u \in PinRuns |-> {}]
  /\ switches = 0 /\ asOf = [c \in Candidates |-> 0] /\ clean = TRUE

(* proposeEvolution: the candidate and the reference of its baseline.      *)
Propose(c) ==
  /\ mem[c].st = "none"
  /\ mem' = [mem EXCEPT ![c] = [st |-> "candidate", ver |-> 1]]
  /\ plan' = [plan EXCEPT ![c].verdict = "pending", ![c].base = ActiveRef]
  /\ asOf' = [asOf EXCEPT ![c] = switches]
  /\ UNCHANGED <<pin, shown, switches, clean>>

(* executeEvolution up to the verdict: a candidate under evaluation.       *)
Evaluating(c) == plan[c].verdict = "pending" /\ mem[c] = [st |-> "candidate", ver |-> 1]

(* record: a repeated report must be the same one.                         *)
Record(c, v, result) ==
  /\ Evaluating(c) /\ plan[c].reports[v] = "none"
  /\ plan' = [plan EXCEPT ![c].reports[v] = result]
  /\ UNCHANGED <<mem, pin, shown, switches, asOf, clean>>

(* The baseline is still the active strategy, in the same version.         *)
BaselineCurrent(c) == ActiveRef = plan[c].base

Verdict(c) == IF ~BaselineCurrent(c) THEN "stale"
              ELSE IF plan[c].reports["candidate"] = "ok" /\ plan[c].reports["baseline"] = "bad" THEN "passed"
              ELSE "failed"

Bump(m, st) == [st |-> st, ver |-> m.ver + 1]
Switched(out, in) ==
  [c \in Candidates |-> IF c = out THEN Bump(mem[c], "retired") ELSE IF c = in THEN Bump(mem[c], "active") ELSE mem[c]]

(* finish: with every report in, the verdict, and with a pass the switch.  *)
Finish(c) ==
  /\ Evaluating(c) /\ \A v \in Variants : plan[c].reports[v] # "none"
  /\ plan' = [plan EXCEPT ![c].verdict = Verdict(c)]
  /\ IF Verdict(c) = "passed"
     THEN /\ mem' = Switched(ActiveRef.id, c)
          /\ switches' = switches + 1 /\ clean' = (clean /\ (asOf[c] = switches \/ plan[c].base = Nothing))
     ELSE UNCHANGED <<mem, switches, clean>>
  /\ UNCHANGED <<pin, shown, asOf>>

(* rollbackEvolution to an evaluated predecessor, or to nothing (0).       *)
Rollback(a, t) ==
  /\ mem[a].st = "active" /\ mem[a].ver < MaxVersion
  /\ t # 0 => mem[t].st = "retired" /\ plan[t].verdict = "passed"
  /\ mem' = Switched(a, t) /\ switches' = switches + 1
  /\ UNCHANGED <<plan, pin, shown, asOf, clean>>

(* The evidence behind a memory is cancelled or revised: it expires, and   *)
(* its evaluation cannot go on.                                            *)
Invalidate(c) ==
  /\ mem[c].st \in {"candidate", "active", "retired"}
  /\ mem' = [mem EXCEPT ![c] = Bump(@, "expired")]
  /\ switches' = IF mem[c].st = "active" THEN switches + 1 ELSE switches
  /\ UNCHANGED <<plan, pin, shown, asOf, clean>>

(* pinnedEvolution at a hop of a run: references are taken once; what is   *)
(* still active or retired of them is shown.                               *)
ReferencesFresh(u) == ActiveRefs
References(u) == IF pin[u] = NoPin THEN ActiveRefs ELSE pin[u]
Hop(u) ==
  /\ pin' = [pin EXCEPT ![u] = References(u)]
  /\ shown' = [shown EXCEPT ![u] = @ \cup {r.id : r \in {q \in References(u) : mem[q.id].st \in {"active", "retired"}}}]
  /\ UNCHANGED <<mem, plan, switches, asOf, clean>>

EvolutionNext ==
  \/ \E c \in Candidates : Propose(c) \/ Finish(c) \/ Invalidate(c)
  \/ \E c \in Candidates, v \in Variants, result \in {"ok", "bad"} : Record(c, v, result)
  \/ \E a \in Candidates, t \in Candidates \cup {0} : Rollback(a, t)
  \/ \E u \in PinRuns : Hop(u)

EvolutionSpec == EvolutionInit /\ [][EvolutionNext]_evars

EvolutionTypeOK ==
  /\ mem \in [Candidates -> [st : {"none", "candidate", "active", "retired", "expired"}, ver : Nat]]
  /\ plan \in [Candidates -> [verdict : {"none", "pending", "stale", "passed", "failed"}, base : Refs,
                              reports : [Variants -> {"none", "ok", "bad"}]]]
  /\ pin \in [PinRuns -> SUBSET Refs] /\ shown \in [PinRuns -> SUBSET Candidates]
  /\ switches \in Nat /\ asOf \in [Candidates -> Nat] /\ clean \in BOOLEAN

(* A candidate takes over only from the very strategy it was compared      *)
(* with: nothing was promoted, rolled back or expired in between, not even *)
(* back and forth (one that was compared with no strategy may find a       *)
(* strategy come and gone).  And at most one strategy is active.           *)
PromotedOverBaseline == clean /\ Cardinality(ActiveRefs) <= 1

(* The strategies of a run are pinned at its first hop: later hops may     *)
(* lose one, and never gain one, whatever is promoted meanwhile; a kind    *)
(* has one.                                                                *)
PinnedForTheRun == \A u \in PinRuns : Cardinality(shown[u]) <= 1

(* memory/evolution.ts: a strategy is promoted over the baseline it was    *)
(* compared with, and a run keeps the strategy it started with.            *)
EvolutionSafe == EvolutionTypeOK /\ PromotedOverBaseline /\ PinnedForTheRun
=============================================================================
