----------------------------- MODULE SessionLock -----------------------------
(***************************************************************************)
(* What the work queue promises about sessions: each session is a lock a   *)
(* work item holds for one attempt.  A session is granted only when it is  *)
(* free, every grant carries a fence above all earlier ones of that work,  *)
(* and between two holders the session is free.  Locks may be lost at any  *)
(* time, several at once: leases expire with the clock.                    *)
(***************************************************************************)
EXTENDS Naturals

CONSTANTS Work, Session, SessionOf

VARIABLES
  holder,   \* [Session -> Work \cup {0}], 0 when the session is free
  granted   \* [Work -> Nat], an upper bound of the fences granted so far

vars == <<holder, granted>>

Init ==
  /\ holder = [s \in Session |-> 0]
  /\ granted = [w \in Work |-> 0]

(* A free session is given to w under a new fence.                         *)
Grant(w) ==
  /\ granted' = [granted EXCEPT ![w] = @ + 1]
  /\ holder[SessionOf[w]] = 0
  /\ holder' = [holder EXCEPT ![SessionOf[w]] = w]

(* The holders of L let go, or lose, their sessions; fences of works in R  *)
(* are used up so that no earlier grant can be presented again.            *)
Release(L, R) ==
  /\ granted' = [w \in Work |-> IF w \in R THEN granted[w] + 1 ELSE granted[w]]
  /\ holder' = [s \in Session |-> IF s \in L THEN 0 ELSE holder[s]]
  /\ \A w \in R : holder'[SessionOf[w]] # w

Next ==
  \/ \E w \in Work : Grant(w)
  \/ \E R \in SUBSET Work, L \in SUBSET Session : Release(L, R)

Spec == Init /\ [][Next]_vars
=============================================================================
