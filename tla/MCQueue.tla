------------------------------- MODULE MCQueue --------------------------------
(***************************************************************************)
(* Two parts of the queue in one run; a behaviour follows the one chosen   *)
(* at the start.  The leases of two requests of one session, 1 and 4, with *)
(* two workers and a running clock; and the tree of request 1 with its     *)
(* children 2 and 3, the second depending on the first, while the clock    *)
(* stands still and one worker serves all.                                 *)
(***************************************************************************)
EXTENDS WorkStore, TLC

CONSTANTS k1, k2, s1, s2
VARIABLE which

MCWork == {1, 2, 3, 4}
MCSessionOf == <<s1, s2, s2, s1>>
MCParent == <<0, 1, 1, 0>>
MCDeps == <<{}, {}, {2}, {}>>
MCInitLane == <<1, 2, 2, 4>>
WorkerSymmetry == Permutations({k1, k2})

\* Requests are not revised and nothing of them is saved; three fences.
LeaseNext ==
  /\ UNCHANGED <<version, snapshot, unknown>> /\ Next
  /\ status'[2] = "absent" /\ status'[3] = "absent"

\* Two fences: a row under its last one is not queued again.
TreeNext ==
  /\ UNCHANGED <<clock, preempt>> /\ Next
  /\ status'[4] = "absent"
  /\ \A w \in Work :
       /\ fence'[w] <= 2
       /\ fence[w] = 2 => status'[w] \notin {"queued", "waiting"} /\ version'[w] = version[w]
  /\ \A a, b \in attempts' : a.worker = b.worker

QueueInit == which \in {"leases", "tree"} /\ Init

QueueNext ==
  /\ UNCHANGED which
  /\ \/ which = "leases" /\ LeaseNext
     \/ which = "tree" /\ TreeNext

QueueSpec == QueueInit /\ [][QueueNext]_<<which, vars>>
=============================================================================
