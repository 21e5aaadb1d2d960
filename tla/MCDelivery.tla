------------------------------ MODULE MCDelivery ----------------------------
(***************************************************************************)
(* The two ways out of a run: the durable rows that two delivery lanes     *)
(* send (Outbox) and the draft that is streamed to a screen and never      *)
(* stored (Preview).  They share no state; a behaviour follows one of      *)
(* them, chosen at the start, and leaves the other in its initial state.   *)
(***************************************************************************)
EXTENDS Outbox, Preview, TLC

CONSTANTS l1, l2

VARIABLE which

\* Two provider calls over two uploads, frames of one piece and drafts of two: of a run that is
\* claimed twice, and of one that is revised.
Frames == buffer[1].seq + buffer[2].seq
AttemptsNext == PreviewNext /\ work'.version = 1
RevisionsNext == PreviewNext /\ work'.fence <= 1 /\ Frames' <= 2

\* Events of a conversation may also be dropped, so the run they are of is one.
DeliveryInit ==
  /\ Init /\ PreviewInit
  /\ \/ which = "outbox" /\ (table = "events" => im)
     \/ which \in {"attempts", "revisions"} /\ table = "events" /\ im

DeliveryNext ==
  \/ which = "outbox" /\ Next /\ UNCHANGED <<which, pvars>>
  \/ which = "attempts" /\ AttemptsNext /\ UNCHANGED <<which, vars>>
  \/ which = "revisions" /\ RevisionsNext /\ UNCHANGED <<which, vars>>

DeliverySpec == DeliveryInit /\ [][DeliveryNext]_<<which, vars, pvars>>

LaneSymmetry == Permutations({l1, l2})
=============================================================================
