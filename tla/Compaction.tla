------------------------------ MODULE Compaction ------------------------------
(***************************************************************************)
(* Context compaction of an attempt (runtime/compaction.ts and the part of *)
(* the turn loop that drives it).  The history of the session is a         *)
(* sequence of items; compaction replaces a prefix by one summary item.    *)
(* A background candidate is computed from a copy while the turn goes on   *)
(* and is installed later; at the hard limit the loop compacts in the      *)
(* foreground.  The text of a summary is abstracted to the set of items it *)
(* covers, the size of an item to 1 and of a summary to SummarySize.       *)
(***************************************************************************)
EXTENDS Integers, Sequences, SequencesExt

CONSTANTS
  MaxItems,     \* items appended in a behaviour
  SoftLimit,    \* contextWindowTokens * softRatio
  Background,   \* the lower threshold of a background candidate
  HardLimit,    \* contextWindowTokens * hardRatio
  KeepTail,     \* keepTailItems
  SummarySize,  \* maxSummaryChars
  MaxRevisions  \* revisions of the request explored

ASSUME CompactionAssumption == MaxItems \in Nat /\ KeepTail \in Nat /\ MaxRevisions \in Nat

VARIABLES
  hist,       \* session.history
  summary,    \* session.summary: what it covers, {} when there is none
  cepoch,     \* session.compactionEpoch
  request,    \* revisions of session.request
  pending,    \* pendingCompaction: phase, base and result
  phase,      \* the turn: "hop", "calls", or "failed"
  asynchronous, \* performance.asyncCompaction
  items       \* items appended so far

cvars == <<hist, summary, cepoch, request, pending, phase, asynchronous, items>>

Item(kind, id, covers) == [kind |-> kind, id |-> id, covers |-> covers]
Text(n) == Item("text", n, {})
Call(n) == Item("call", n, {})
Output(c) == Item("output", c, {})
Summary(S) == Item("summary", 0, S)
IsA(h, i, k) == h[i].kind = k

NoCandidate == [phase |-> "none", hist |-> <<>>, summary |-> {}, epoch |-> 0, request |-> 0,
                result |-> <<>>, covers |-> {}]

\* What is remembered of the items of a history: the items that are there and the
\* ones its summary item covers.
Covered(h) == UNION {IF IsA(h, i, "summary") THEN h[i].covers ELSE {h[i]} : i \in DOMAIN h}

\* estimateTokens.
Weight(h) == Len(h) + Cardinality({i \in DOMAIN h : IsA(h, i, "summary")}) * (SummarySize - 1)

\* Calls that have no output yet, and the place of a call.
Open(h) == {i \in DOMAIN h : IsA(h, i, "call") /\ \A j \in DOMAIN h : h[j] # Output(h[i].id)}
CallOf(h, j) == {i \in DOMAIN h : h[i] = Call(h[j].id)}

CompactionInit ==
  /\ hist = <<>> /\ summary = {} /\ cepoch = 0 /\ request = 0
  /\ pending = NoCandidate /\ phase = "hop" /\ items = 0
  /\ asynchronous \in BOOLEAN

(* ---------------------------- compactIfNeeded --------------------------- *)

\* Outputs of the kept suffix whose call is in the prefix of b items.
Crossing(h, b) == {j \in (b + 1)..Len(h) : IsA(h, j, "output") /\ \E i \in CallOf(h, j) : i <= b}

\* The scan that closes the suffix over tool pairs, started again whenever the
\* boundary moves.
Closed(h, start) ==
  LET close[b \in 0..Len(h)] ==
        IF Crossing(h, b) = {} THEN b ELSE close[Min(CallOf(h, Min(Crossing(h, b)))) - 1]
  IN close[start]

\* Mutant: calls whose output is still to come may be folded away.
BoundaryOfDone(h, keep) == Closed(h, Len(h) - keep)

\* The length of the prefix to summarize when keep items are to stay: never past a
\* call whose output is still to come, never between a call and its output.
Boundary(h, keep) ==
  LET start == Len(h) - keep
      open == {i \in Open(h) : i <= start}
  IN Closed(h, IF open = {} THEN start ELSE Min(open) - 1)

Suffix(h, b) == SubSeq(h, b + 1, Len(h))

\* The tail is halved until the kept suffix and a summary fit under the hard limit: of
\* the tails tried, each half of the one before, the longest that does.
Kept(h, background) ==
  LET enough(k) == \/ background \/ Weight(h) < HardLimit \/ k = 0
                   \/ Weight(Suffix(h, Boundary(h, k))) + SummarySize <= HardLimit
      most == Min({Len(h), KeepTail})
      tried == {k \in 0..most : k = 0 \/ \E i \in 0..most : k = most \div (2^i)}
  IN Max({k \in tried : enough(k)})

\* The summarized prefix, with the prior summary put in front unless it is there.
Folded(h, s, b) ==
  LET prefix == SubSeq(h, 1, b)
  IN IF s # {} /\ ~ \E i \in DOMAIN prefix : prefix[i] = Summary(s)
     THEN <<Summary(s)>> \o prefix ELSE prefix

\* The outcome of a compaction whose model calls succeed: the new history, or the old
\* one where compactIfNeeded returns { compacted: false }.
Compacted(h, s, background, soft) ==
  LET b == Boundary(h, Kept(h, background))
      fold == Folded(h, s, b)
      new == <<Summary(Covered(fold))>> \o Suffix(h, b)
  IN IF \/ Weight(h) < soft \/ b = 0
        \/ background /\ Weight(fold) < SummarySize
        \/ Weight(new) >= Weight(h)
     THEN h ELSE new

(* ------------------------------ the turn -------------------------------- *)

\* The model answers with a text: the next hop, after a correction or an observation.
AppendText ==
  /\ phase = "hop" /\ items < MaxItems
  /\ hist' = Append(hist, Text(items + 1)) /\ items' = items + 1
  /\ UNCHANGED <<summary, cepoch, request, pending, phase, asynchronous>>

\* A candidate is prepared from a copy once the history has grown enough.
Candidate(h) == [phase |-> "running", hist |-> h, summary |-> summary', epoch |-> cepoch',
                 request |-> request, result |-> <<>>, covers |-> {}]
Prepared(left, h) ==
  IF asynchronous /\ left.phase = "none" /\ Len(h) > KeepTail /\ Weight(h) >= Background
  THEN Candidate(h) ELSE left

\* The model answers with calls, which are appended before they are executed; a
\* candidate may be prepared while they run.
AppendCalls(n) ==
  /\ phase = "hop" /\ items + n <= MaxItems
  /\ hist' = hist \o [i \in 1..n |-> Call(items + i)] /\ items' = items + n
  /\ phase' = "calls"
  /\ UNCHANGED <<summary, cepoch, request, asynchronous>>
  /\ pending' = Prepared(pending, hist')

\* A call ends; the next hop starts when every call has its output.
AppendOutput(i) ==
  /\ phase = "calls" /\ i \in Open(hist)
  /\ hist' = Append(hist, Output(hist[i].id))
  /\ phase' = IF Open(hist) = {i} THEN "hop" ELSE "calls"
  /\ UNCHANGED <<summary, cepoch, request, pending, asynchronous, items>>

\* The candidate's model calls end, well or not; a failure leaves nothing to install.
CandidateSettles(well) ==
  /\ pending.phase = "running"
  /\ LET new == Compacted(pending.hist, pending.summary, TRUE, Background)
     IN pending' = IF well /\ new # pending.hist
                THEN [pending EXCEPT !.phase = "ready", !.result = new, !.covers = Head(new).covers]
                ELSE [pending EXCEPT !.phase = "failed"]
  /\ UNCHANGED <<hist, summary, cepoch, request, phase, asynchronous, items>>

\* install refuses a candidate whose base is no longer a prefix of the session's history.
Installable ==
  /\ pending.phase = "ready" /\ cepoch = pending.epoch /\ summary = pending.summary
  /\ request = pending.request
  /\ Len(pending.hist) <= Len(hist) /\ SubSeq(hist, 1, Len(pending.hist)) = pending.hist

\* Mutant: what was appended meanwhile is dropped.
SplicedCopy == pending.result

\* The candidate's history with what was appended while it was computed.
Spliced == pending.result \o Suffix(hist, Len(pending.hist))

\* The compaction part of a hop.  A candidate is awaited at the hard limit; a settled one
\* is installed or dropped; the foreground compacts when that did not help; a new
\* candidate may be started.  A failure in the foreground ends the run at the hard limit,
\* unless a revision interrupted it.  (Compaction without the memory snapshot of the
\* prompt, tried first where there is one, is the same step.)
NextHop(outcome) ==
  LET atLimit == Weight(hist) >= HardLimit
      foreground == ~asynchronous \/ atLimit
      new == Compacted(hist, summary, FALSE, SoftLimit)
  IN /\ phase = "hop"
     /\ atLimit => pending.phase # "running"
     /\ \/ /\ Installable
           /\ hist' = Spliced /\ summary' = pending.covers /\ cepoch' = pending.epoch + 1
           /\ UNCHANGED phase
        \/ /\ ~Installable /\ foreground /\ outcome = "well" /\ new # hist
           /\ hist' = new /\ summary' = Head(new).covers /\ cepoch' = cepoch + 1
           /\ UNCHANGED phase
        \/ /\ ~Installable /\ (outcome = "well" => ~foreground \/ new = hist)
           /\ phase' = IF outcome = "fails" /\ atLimit THEN "failed" ELSE "hop"
           /\ UNCHANGED <<hist, summary, cepoch>>
     /\ LET left == IF pending.phase = "running" THEN pending ELSE NoCandidate
        IN pending' = IF outcome = "steered" \/ phase' = "failed" THEN left
                   ELSE Prepared(left, hist')
     /\ UNCHANGED <<request, asynchronous, items>>

\* A revision is seen while calls are left: they are answered as not started.
SkipRemainingCalls ==
  /\ phase = "calls" /\ request < MaxRevisions
  /\ \E order \in Bijection(1..Cardinality(Open(hist)), Open(hist)) :
       /\ \A k, l \in DOMAIN order : k < l => order[k] < order[l]
       /\ hist' = hist \o [k \in DOMAIN order |-> Output(hist[order[k]].id)]
  /\ phase' = "hop"
  /\ UNCHANGED <<summary, cepoch, request, pending, asynchronous, items>>

\* A revision changes the request and drops the candidate.
DropCandidate ==
  /\ phase = "hop" /\ request < MaxRevisions
  /\ request' = request + 1 /\ pending' = NoCandidate
  /\ UNCHANGED <<hist, summary, cepoch, phase, asynchronous, items>>

CompactionNext ==
  \/ AppendText
  \/ \E n \in 1..2 : AppendCalls(n)
  \/ \E i \in DOMAIN hist : AppendOutput(i)
  \/ \E well \in BOOLEAN : CandidateSettles(well)
  \/ \E outcome \in {"well", "fails", "steered"} : NextHop(outcome)
  \/ SkipRemainingCalls
  \/ DropCandidate

CompactionSpec == CompactionInit /\ [][CompactionNext]_cvars

(* ------------------------------ properties ------------------------------ *)

CompactionTypeOK ==
  /\ phase \in {"hop", "calls", "failed"} /\ items \in 0..MaxItems
  /\ pending.phase \in {"none", "running", "ready", "failed"}
  /\ cepoch \in Nat /\ request \in 0..MaxRevisions /\ asynchronous \in BOOLEAN

\* The best boundary there is: the longest prefix of at most Len - k items that holds no
\* open call and divides no pair.
Reference(h, k) ==
  Max({b \in 0..(Len(h) - k) :
         Crossing(h, b) = {} /\ \A i \in Open(h) : i > b})

\* Whatever compactIfNeeded and install do, in whatever order with the appends of the
\* turn, the session keeps what happened: every item is still in the history or covered
\* by its summary, the summary item is session.summary, an output is preceded by its
\* call, a call of the running turn is in the history, and the boundary is the best one.
HistoryKept ==
  /\ \A n \in 1..items : Covered(hist) \cap {Text(n), Call(n)} # {}
  /\ \A i \in DOMAIN hist : IsA(hist, i, "summary") => i = 1 /\ hist[i] = Summary(summary)
  /\ \A j \in DOMAIN hist : IsA(hist, j, "output") => \E i \in CallOf(hist, j) : i < j
  /\ phase = "hop" => Open(hist) = {}
  /\ \A k \in 0..Len(hist) : Boundary(hist, k) = Reference(hist, k)

(* runtime/compaction.ts: nothing is lost, no tool pair is divided.        *)
CompactionSafe == CompactionTypeOK /\ HistoryKept
=============================================================================
