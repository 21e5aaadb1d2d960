----------------------------- MODULE ModelBudget -----------------------------
(***************************************************************************)
(* The model calls of one request tree and the durable root budget they    *)
(* are reserved from and settled against.                                  *)
(*                                                                         *)
(* A caller is one run of the tree with its successive attempts.  The      *)
(* calls of a caller are numbered through all of them: the code's call ids *)
(* carry the fence, so they are never used twice.  Requests to the control *)
(* plane may be repeated, late or lost.  Tokens stand for tokens and cost, *)
(* which are reserved, limited and settled by the same statements.         *)
(***************************************************************************)
EXTENDS Integers, FiniteSets, FiniteSetsExt

CONSTANTS
  Caller,      \* runs of the tree
  Size,        \* token estimates of a request
  Usage,       \* token counts a provider may report
  MaxCalls,    \* max_model_calls
  MaxTokens,   \* max_tokens
  MaxTries,    \* provider attempts of one call, 3 in the code
  MaxIds       \* bound: calls of one caller

ASSUME ModelBudgetAssumption ==
  /\ IsFiniteSet(Caller)
  /\ Size \subseteq Nat \ {0} /\ Usage \subseteq Nat
  /\ MaxCalls \in Nat \ {0} /\ MaxTokens \in Nat \ {0} /\ MaxTries \in Nat \ {0} /\ MaxIds \in Nat

Id == Caller \X (1 .. MaxIds)

VARIABLES
  live,      \* the caller's attempt holds its lease and is not cancelled
  since,     \* number of the first call of that attempt
  timeLeft,  \* the tree's execution time is not used up
  pc,        \* where invoke is
  last,      \* number of the caller's latest call
  tries,     \* attempt, invoke's loop counter
  calls,     \* calls, the attempt's own count
  tokens,    \* tokens, likewise
  size,      \* reserved_tokens asked for
  usage,     \* what the caller reports
  again,     \* the failure is one invoke repeats the request for
  asked,     \* reserveModelCall requests that may reach the control plane
  reported,  \* recordModelUsage requests, likewise
  issued,    \* rows of agent_model_budget_calls
  settled,   \* .input_tokens IS NOT NULL
  budget,    \* model_calls and tokens of agent_model_budgets
  touched    \* calls that reached the provider

callVars == <<pc, last, tries, calls, tokens, size, usage, again>>
storeVars == <<issued, settled, budget>>
worldVars == <<live, since, timeLeft>>
vars == <<callVars, asked, reported, storeVars, touched, worldVars>>

Current(c) == <<c, last[c]>>

(* The proof presented with call k is of a live, uncancelled attempt.      *)
Live(k) == live[k[1]] /\ k[2] >= since[k[1]]

Init ==
  /\ live = [c \in Caller |-> TRUE] /\ since = [c \in Caller |-> 1] /\ timeLeft = TRUE
  /\ pc = [c \in Caller |-> "idle"] /\ last = [c \in Caller |-> 0] /\ tries = [c \in Caller |-> 0]
  /\ calls = [c \in Caller |-> 0] /\ tokens = [c \in Caller |-> 0]
  /\ size = [k \in Id |-> 0] /\ usage = [k \in Id |-> 0] /\ again = [c \in Caller |-> FALSE]
  /\ asked = {} /\ reported = {} /\ issued = {} /\ settled = {} /\ touched = {}
  /\ budget = [calls |-> 0, tokens |-> 0]

-----------------------------------------------------------------------------
(* The root budget (PgModelBudgetStore) *)

(* Fault: only what is used up already is looked at.                       *)
FitsSoFar(n) == timeLeft /\ budget.calls < MaxCalls /\ budget.tokens < MaxTokens

(* The INSERT's condition.                                                 *)
Fits(n) == timeLeft /\ budget.calls < MaxCalls /\ budget.tokens + n <= MaxTokens

(* reserve: a repeated request finds its row and is allowed.  The answer   *)
(* is lost, or the caller goes on with it.                                 *)
Reserve(k) ==
  /\ k \in asked /\ Live(k)
  /\ IF k \notin issued /\ Fits(size[k])
     THEN /\ issued' = issued \cup {k}
          /\ budget' = [calls |-> budget.calls + 1, tokens |-> budget.tokens + size[k]]
     ELSE UNCHANGED <<issued, budget>>
  /\ \/ UNCHANGED pc
     \/ /\ pc[k[1]] = "reserving" /\ Current(k[1]) = k
        /\ pc' = [pc EXCEPT ![k[1]] = IF k \in issued' THEN "admitted" ELSE "idle"]
  /\ UNCHANGED <<last, tries, calls, tokens, size, usage, again, asked, reported, settled, touched, worldVars>>

(* Fault: every report is charged.                                         *)
UnsettledAlways(k) == TRUE

(* A row that is settled already is left alone.  A call is reported with   *)
(* the same numbers each time, so the refusal of others never applies.     *)
Unsettled(k) == k \notin settled

(* invoke repeats a request up to three times.                             *)
Repeats(c) == again[c] /\ tries[c] < MaxTries

(* record: any attempt may settle its own call, however late.  An answered *)
(* invoke repeats the request under a new id, or returns.                  *)
Record(k) ==
  LET c == k[1]
  IN /\ k \in reported /\ k \in issued
     /\ IF Unsettled(k)
        THEN /\ settled' = settled \cup {k}
             /\ budget' = [budget EXCEPT !.tokens = @ + usage[k] - size[k]]
        ELSE UNCHANGED <<settled, budget>>
     /\ \/ UNCHANGED pc
        \/ /\ pc[c] = "recording" /\ Current(c) = k
           /\ pc' = [pc EXCEPT ![c] = IF Repeats(c) THEN "again" ELSE "idle"]
     /\ UNCHANGED <<last, tries, calls, tokens, size, usage, again, asked, reported, issued, touched, worldVars>>

-----------------------------------------------------------------------------
(* invoke *)

(* The next request of invoke: the attempt's own limits first, then a      *)
(* reservation of n tokens under a new id.                                 *)
Ask(c, n) ==
  LET k == <<c, last[c] + 1>>
  IN /\ last[c] < MaxIds
     /\ calls[c] < MaxCalls /\ tokens[c] + n <= MaxTokens
     /\ last' = [last EXCEPT ![c] = @ + 1]
     /\ size' = [size EXCEPT ![k] = n]
     /\ asked' = asked \cup {k}
     /\ pc' = [pc EXCEPT ![c] = "reserving"]
     /\ again' = [again EXCEPT ![c] = FALSE]
     /\ UNCHANGED <<calls, tokens, usage, reported, storeVars, touched, worldVars>>

Begin(c, n) == pc[c] = "idle" /\ Ask(c, n) /\ tries' = [tries EXCEPT ![c] = 1]

(* A retry is of the same request, hence of the same size.                 *)
Retry(c) == pc[c] = "again" /\ Ask(c, size[Current(c)]) /\ tries' = [tries EXCEPT ![c] = @ + 1]

(* reservation.allowed.                                                    *)
Admitted(c) == pc[c] = "admitted"

(* The call is counted and, once the event that announces it is recorded,  *)
(* the provider is called.                                                 *)
Invoke(c) ==
  /\ Admitted(c)
  /\ calls' = [calls EXCEPT ![c] = @ + 1]
  /\ tokens' = [tokens EXCEPT ![c] = @ + size[Current(c)]]
  /\ \/ touched' = touched \cup {Current(c)} /\ pc' = [pc EXCEPT ![c] = "calling"]
     \/ UNCHANGED touched /\ pc' = [pc EXCEPT ![c] = "idle"]
  /\ UNCHANGED <<last, tries, size, usage, again, asked, reported, storeVars, worldVars>>

(* The call is over for invoke and n tokens are reported: the provider's   *)
(* count, or the estimate when it has none, fails, is cancelled or out of  *)
(* time.  Some failures are worth another request.                         *)
Report(c, n, retry) ==
  /\ pc[c] = "calling"
  /\ usage' = [usage EXCEPT ![Current(c)] = n]
  /\ tokens' = [tokens EXCEPT ![c] = @ + n - size[Current(c)]]
  /\ again' = [again EXCEPT ![c] = retry]
  /\ reported' = reported \cup {Current(c)}
  /\ pc' = [pc EXCEPT ![c] = "recording"]
  /\ UNCHANGED <<last, tries, calls, size, asked, storeVars, touched, worldVars>>

(* A request to the control plane was refused or failed for good, the time *)
(* was over on return, or the run was aborted in between.                  *)
GiveUp(c) ==
  /\ pc[c] \in {"reserving", "admitted", "recording", "again"}
  /\ pc' = [pc EXCEPT ![c] = "idle"]
  /\ UNCHANGED <<last, tries, calls, tokens, size, usage, again, asked, reported, storeVars, touched, worldVars>>

-----------------------------------------------------------------------------
(* Surroundings *)

(* The attempt is cancelled, expires or is fenced off.                     *)
LoseLease(c) ==
  /\ live[c] /\ live' = [live EXCEPT ![c] = FALSE]
  /\ UNCHANGED <<callVars, asked, reported, storeVars, touched, since, timeLeft>>

(* The run is claimed again, by a process that knows nothing of its calls. *)
(* The old process may be there still and report a call it had begun; no   *)
(* step in between sees whether it reports now or has reported before.     *)
Reclaim(c) ==
  /\ ~live[c]
  /\ live' = [live EXCEPT ![c] = TRUE]
  /\ since' = [since EXCEPT ![c] = last[c] + 1]
  /\ pc' = [pc EXCEPT ![c] = "idle"]
  /\ calls' = [calls EXCEPT ![c] = 0] /\ tokens' = [tokens EXCEPT ![c] = 0]
  /\ UNCHANGED <<last, tries, size, usage, again, asked, reported, storeVars, touched, timeLeft>>

(* deadline_at, computed from the time all attempts have used.             *)
RunOut ==
  /\ timeLeft /\ timeLeft' = FALSE
  /\ UNCHANGED <<callVars, asked, reported, storeVars, touched, live, since>>

Next ==
  \/ \E k \in Id : Reserve(k) \/ Record(k)
  \/ \E c \in Caller : \/ \E n \in Size : Begin(c, n)
                       \/ Retry(c) \/ Invoke(c) \/ GiveUp(c) \/ LoseLease(c) \/ Reclaim(c)
                       \/ \E n \in Usage : Report(c, n, FALSE)
                       \/ \E r \in BOOLEAN : Report(c, size[Current(c)], r)
  \/ RunOut

Spec == Init /\ [][Next]_vars

-----------------------------------------------------------------------------
(* Properties *)

(* Every counter and set keeps its type.                                   *)
TypeOK ==
  /\ live \in [Caller -> BOOLEAN] /\ since \in [Caller -> 1 .. MaxIds + 1] /\ timeLeft \in BOOLEAN
  /\ pc \in [Caller -> {"idle", "reserving", "admitted", "calling", "recording", "again"}]
  /\ last \in [Caller -> 0 .. MaxIds] /\ tries \in [Caller -> 0 .. MaxTries]
  /\ calls \in [Caller -> Nat] /\ tokens \in [Caller -> Int]
  /\ size \in [Id -> Nat] /\ usage \in [Id -> Nat] /\ again \in [Caller -> BOOLEAN]
  /\ asked \subseteq Id /\ reported \subseteq Id /\ issued \subseteq Id /\ settled \subseteq Id
  /\ budget \in [calls : Nat, tokens : Int] /\ touched \subseteq Id

Charge(k) == IF k \in settled THEN usage[k] ELSE size[k]

(* The counters of agent_model_budgets are what the rows of its calls add  *)
(* up to, however often requests are repeated, lost or late.               *)
BudgetExact ==
  /\ budget.calls = Cardinality(issued)
  /\ budget.tokens = MapThenSumSet(Charge, issued)

(* packaged-runtime.md: calls reserve a durable root budget before they    *)
(* reach the provider.  Over all attempts, crashes and retries of the tree *)
(* no more calls than the limit ever reach it.                             *)
ProviderCallsReserved == touched \subseteq issued /\ Cardinality(touched) <= MaxCalls

Excess(k) == IF usage[k] > size[k] THEN usage[k] - size[k] ELSE 0

(* The tree's tokens exceed its limit by no more than what its providers   *)
(* used beyond the estimates.                                              *)
OverrunOnlyByEstimates == budget.tokens <= MaxTokens + MapThenSumSet(Excess, settled)
=============================================================================
