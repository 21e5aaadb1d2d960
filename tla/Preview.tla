------------------------------- MODULE Preview --------------------------------
(***************************************************************************)
(* The path of a draft from the model to the screen.  The worker's buffer  *)
(* (runtime/preview.ts) turns pieces of text into frames; uploads carry    *)
(* them to the control plane, reconnect after a break and may belong to an *)
(* attempt that has lost its lease; the control plane keeps one snapshot   *)
(* per run (app/realtime.ts, receive); a subscriber's stream (response)    *)
(* sends the state and the snapshot as a whole or as a delta;              *)
(* the reducer of ui/index.ts shows them.  A piece of text is a pair of    *)
(* the provider call and its place.  One run, one control plane, no shared  *)
(* RealtimeStore; the durable events of the stream are left out.           *)
(***************************************************************************)
EXTENDS Integers, Sequences, SequencesExt

CONSTANTS
  LastFence, MaxVersion, \* attempts and request versions explored
  MaxCalls,              \* provider calls (attemptId)
  MaxFrames,             \* frames of all attempts together, replays after a break excepted
  MaxUploads,            \* connections of the preview channel
  DraftLimit,            \* pieces in a draft (100 000 characters)
  FrameLimit             \* pieces in a frame (16 384 characters)

ASSUME PreviewAssumption ==
  /\ LastFence \in Nat /\ MaxVersion \in Nat \ {0} /\ MaxCalls \in Nat /\ MaxFrames \in Nat
  /\ MaxUploads \in Nat /\ DraftLimit \in Nat /\ FrameLimit \in Nat \ {0}

VARIABLES
  work,     \* the work row: status, fence, version
  buffer,   \* PreviewBuffer of each attempt
  conn,     \* uploads in the order they were opened
  owner,    \* owners: the upload that owns the run's entry, 0 when none
  entry,    \* entries: the snapshot of the run
  sub,      \* the loop of a subscriber
  view,     \* RunView
  calls     \* provider calls so far

pvars == <<work, buffer, conn, owner, entry, sub, view, calls>>

Fences == 1..LastFence
NoSnapshot == [fence |-> 0, version |-> 0, call |-> 0, seq |-> 0, draft |-> <<>>]
NoPreview == [fence |-> 0, version |-> 0, call |-> 0, seq |-> 0]
NewBuffer == [version |-> 1, call |-> 0, enabled |-> FALSE, draft |-> <<>>, seq |-> 0,
              pending |-> <<>>, batch |-> <<>>, consumer |-> 0, closed |-> FALSE]
NewSub == [pc |-> "read", status |-> "none", fence |-> 0, version |-> 0, known |-> FALSE, last |-> NoSnapshot]

PreviewInit ==
  /\ work = [status |-> "queued", fence |-> 0, version |-> 1]
  /\ buffer = [f \in Fences |-> NewBuffer]
  /\ conn = <<>> /\ owner = 0 /\ entry = NoSnapshot /\ calls = 0
  /\ sub = NewSub
  /\ view = [fence |-> 0, version |-> 0, closed |-> 0, preview |-> NoPreview, draft |-> <<>>]

(* ------------------------------- the run -------------------------------- *)

Claim ==
  /\ work.status = "queued" /\ work.fence < LastFence
  /\ work' = [work EXCEPT !.status = "leased", !.fence = @ + 1]
  /\ UNCHANGED <<buffer, conn, owner, entry, sub, view, calls>>

\* The lease ends: the run goes back to the queue, waits, or is settled.
LeaseEnds(status) ==
  /\ work.status = "leased"
  /\ work' = [work EXCEPT !.status = status]
  /\ UNCHANGED <<buffer, conn, owner, entry, sub, view, calls>>

Revise ==
  /\ work.status \in {"queued", "leased"} /\ work.version < MaxVersion
  /\ work' = [work EXCEPT !.version = @ + 1]
  /\ UNCHANGED <<buffer, conn, owner, entry, sub, view, calls>>

(* --------------------------- PreviewBuffer ------------------------------ *)

Frame(b, n, kind, text) ==
  [version |-> b.version, call |-> b.call, seq |-> b.seq + n, kind |-> kind, text |-> text]

\* reset: a new identity, an empty draft, and one frame that says so.  The new generation
\* makes the iterator drop what is left of the batch it had taken.
Reset(b, call, version, enabled) ==
  IF b.closed THEN b
  ELSE LET new == [b EXCEPT !.call = call, !.version = version, !.enabled = enabled,
                            !.draft = <<>>, !.batch = <<>>]
       IN [new EXCEPT !.pending = <<Frame(new, 1, "reset", <<>>)>>, !.seq = @ + 1]

\* replay: a reset frame and the whole draft again, in frames of FrameLimit pieces.
Replay(b) ==
  LET frames == (Len(b.draft) + FrameLimit - 1) \div FrameLimit
      part(i) == SubSeq(b.draft, (i - 1) * FrameLimit + 1,
                        IF i = frames THEN Len(b.draft) ELSE i * FrameLimit)
  IN IF b.closed \/ b.call = 0 THEN b
     ELSE [b EXCEPT !.batch = <<>>, !.seq = @ + 1 + frames,
             !.pending = <<Frame(b, 1, "reset", <<>>)>>
                         \o [i \in 1..frames |-> Frame(b, i + 1, "delta", part(i))]]

\* push: a piece too many ends the draft, a frame too large starts it over, else the
\* piece joins the last frame or makes one.
Pushed(b, piece) ==
  LET new == [b EXCEPT !.draft = Append(@, piece)]
      n == Len(b.pending)
      joins == n > 0 /\ b.pending[n].kind = "delta"
  IN IF Len(b.draft) + 1 > DraftLimit THEN Reset(b, b.call, b.version, FALSE)
     ELSE IF joins /\ Len(b.pending[n].text) + 1 > FrameLimit THEN Replay(new)
     ELSE IF joins THEN [new EXCEPT !.pending[n].text = Append(@, piece)]
     ELSE [new EXCEPT !.pending = Append(@, Frame(b, 1, "delta", <<piece>>)), !.seq = @ + 1]

Framed(f, b) ==
  b.seq + FoldFunctionOnSet(LAMBDA other, n : other.seq + n, 0, buffer, Fences \ {f}) <= MaxFrames
Buffers(f, b) ==
  /\ Framed(f, b)
  /\ buffer' = [buffer EXCEPT ![f] = b]
  /\ UNCHANGED <<work, owner, entry, sub, view>>

Upload(f) == [fence |-> f, client |-> "open", server |-> "idle", frame |-> <<>>, row |-> 0]

\* An attempt, perhaps one that has lost its lease, starts a provider call for the
\* version it knows of; the first call opens the upload.
StartCall(f, version) ==
  LET first == buffer[f].consumer = 0
      started == Reset(buffer[f], calls + 1, version, TRUE)
  IN /\ f <= work.fence /\ calls < MaxCalls /\ ~buffer[f].closed
     /\ version \in buffer[f].version..work.version
     /\ first => Len(conn) < MaxUploads
     /\ calls' = calls + 1
     /\ conn' = IF first THEN Append(conn, Upload(f)) ELSE conn
     /\ Buffers(f, IF first THEN [started EXCEPT !.consumer = Len(conn) + 1] ELSE started)

Push(f) ==
  /\ buffer[f].enabled /\ ~buffer[f].closed
  /\ Buffers(f, Pushed(buffer[f], <<buffer[f].call, Len(buffer[f].draft) + 1>>))
  /\ UNCHANGED <<conn, calls>>

\* A failed call, tool calls, a revision or a withheld answer discard the draft.
Discard(f) ==
  /\ buffer[f].enabled
  /\ Buffers(f, Reset(buffer[f], buffer[f].call, buffer[f].version, FALSE))
  /\ UNCHANGED <<conn, calls>>

Closed(b) == [b EXCEPT !.closed = TRUE, !.enabled = FALSE, !.draft = <<>>]
CloseBuffer(f) ==
  /\ buffer[f].consumer # 0 /\ ~buffer[f].closed
  /\ Buffers(f, Closed(buffer[f]))
  /\ UNCHANGED <<conn, calls>>

(* ------------------------------- uploads -------------------------------- *)

Consuming(c) == buffer[conn[c].fence].consumer = c

\* uploadPreview connects again after a break: recover makes the new connection the only
\* consumer and starts the draft over.
Connect(f) ==
  LET b == buffer[f]
  IN /\ b.consumer # 0 /\ ~b.closed /\ conn[b.consumer].client = "broken"
     /\ Len(conn) < MaxUploads
     /\ conn' = Append(conn, Upload(f))
     /\ buffer' = [buffer EXCEPT ![f] = [Replay(b) EXCEPT !.consumer = Len(conn) + 1]]
     /\ UNCHANGED <<work, owner, entry, sub, view, calls>>

\* The iterator's batch; when it is used up or dropped, what is pending becomes the batch.
Batch(b) == IF b.batch = <<>> THEN b.pending ELSE b.batch
\* yield: the next frame of the batch leaves the buffer.
Pulled(b) == [b EXCEPT !.batch = Tail(Batch(b)), !.pending = IF b.batch = <<>> THEN <<>> ELSE @]

\* The connection breaks; the control plane may notice later and finishes the frame it has.
Break(c) ==
  /\ conn[c].client = "open" /\ conn[c].server # "done"
  /\ conn' = [conn EXCEPT ![c] = [@ EXCEPT !.client = "broken"]]
  /\ UNCHANGED <<work, buffer, owner, entry, sub, view, calls>>

(* ------------------------ the control plane: receive -------------------- *)

Owned(c) == owner = c
\* finally: the entry is reset if this upload owns it, and given up.
Finished(c) ==
  /\ conn' = [conn EXCEPT ![c] = [@ EXCEPT !.server = "done", !.client = "broken", !.frame = <<>>, !.row = 0]]
  /\ entry' = IF Owned(c) THEN NoSnapshot ELSE entry
  /\ owner' = IF Owned(c) THEN 0 ELSE owner
  /\ UNCHANGED <<work, sub, view, calls>>

\* A frame arrives and the row of its lease is read; without it the upload is refused for
\* good and the buffer closed.
Query(c) ==
  LET f == conn[c].fence
      b == buffer[f]
  IN /\ conn[c].server = "idle" /\ conn[c].client = "open" /\ Consuming(c) /\ Batch(b) # <<>>
     /\ IF work.status = "leased" /\ work.fence = f
        THEN /\ conn' = [conn EXCEPT ![c] = [@ EXCEPT !.server = "queried", !.frame = <<Head(Batch(b))>>,
                                                    !.row = work.version]]
             /\ buffer' = [buffer EXCEPT ![f] = Pulled(b)]
             /\ UNCHANGED <<work, owner, entry, sub, view, calls>>
        ELSE Finished(c) /\ buffer' = [buffer EXCEPT ![f] = Closed(b)]

\* Another upload of this or a later attempt keeps the entry; a frame of another version
\* than the row's resets it.
Admit(c) ==
  /\ conn[c].server = "queried"
  /\ IF owner # 0 /\ owner # c /\ conn[owner].fence >= conn[c].fence
     THEN Finished(c) /\ UNCHANGED buffer
     ELSE LET same == conn[c].row = Head(conn[c].frame).version
          IN /\ owner' = c
             /\ entry' = IF same THEN entry ELSE NoSnapshot
             /\ conn' = [conn EXCEPT ![c] = [@ EXCEPT !.server = IF same THEN "admitted" ELSE "idle",
                                                    !.frame = IF same THEN conn[c].frame ELSE <<>>, !.row = 0]]
             /\ UNCHANGED <<work, buffer, sub, view, calls>>

\* Frames the snapshot is already past.
Superseded(f, frame) ==
  /\ entry # NoSnapshot
  /\ \/ entry.fence > f \/ entry.version > frame.version
     \/ entry.fence = f /\ entry.seq >= frame.seq

Continues(f, frame) ==
  /\ entry.fence = f /\ entry.version = frame.version /\ entry.call = frame.call
  /\ frame.seq = entry.seq + 1

\* What an allowed frame makes of the snapshot; anything out of place resets it.
Applied(c, frame) ==
  LET f == conn[c].fence
      at(seq, draft) == [fence |-> f, version |-> frame.version, call |-> frame.call,
                         seq |-> seq, draft |-> draft]
  IN IF Superseded(f, frame) THEN entry
     ELSE IF frame.kind = "reset" THEN at(frame.seq, <<>>)
     ELSE IF Continues(f, frame) THEN at(frame.seq, entry.draft \o frame.text)
     ELSE IF Owned(c) THEN NoSnapshot ELSE entry

\* The host's policy answers, after other uploads may have moved on.
Apply(c, allowed) ==
  /\ conn[c].server = "admitted"
  /\ entry' = IF allowed THEN Applied(c, Head(conn[c].frame))
              ELSE IF Owned(c) THEN NoSnapshot ELSE entry
  /\ conn' = [conn EXCEPT ![c] = [@ EXCEPT !.server = "idle", !.frame = <<>>]]
  /\ UNCHANGED <<work, buffer, owner, sub, view, calls>>

\* The control plane sees the end of an upload, broken or complete.
UploadEnds(c) ==
  /\ conn[c].server = "idle"
  /\ \/ conn[c].client = "broken"
     \/ LET b == buffer[conn[c].fence]
        IN b.closed /\ (Consuming(c) => Batch(b) = <<>>)
  /\ Finished(c) /\ UNCHANGED buffer

(* ------------------------ the stream of a subscriber -------------------- *)

\* consumeRunState: a state of the same attempt and version leaves the draft alone.
ConsumeState(v, r) ==
  IF r.version < v.version \/ r.fence < v.fence THEN v
  ELSE LET open == r.status \in {"queued", "leased"}
           kept == open /\ r.fence = v.fence /\ r.version = v.version
       IN [v EXCEPT !.fence = r.fence, !.version = r.version,
                    !.closed = IF open THEN @ ELSE r.fence,
                    !.preview = IF kept THEN @ ELSE NoPreview,
                    !.draft = IF kept THEN @ ELSE <<>>]

\* consumePreview: a whole draft, or a delta that continues the one shown; a gap discards.
Shows(v, u, draft) ==
  [v EXCEPT !.fence = u.fence, !.version = u.version, !.draft = draft,
            !.preview = [fence |-> u.fence, version |-> u.version, call |-> u.call, seq |-> u.seq]]
ConsumePreview(v, u, delta, from, whole) ==
  LET p == v.preview
  IN IF \/ u.fence < v.fence \/ u.fence <= v.closed \/ u.version < v.version
        \/ p.fence = u.fence /\ u.seq <= p.seq
     THEN v
     ELSE IF whole THEN Shows(v, u, u.draft)
     ELSE IF p.call = u.call /\ p.fence = u.fence /\ p.version = u.version /\ p.seq = from
     THEN Shows(v, u, v.draft \o delta)
     ELSE [v EXCEPT !.draft = <<>>, !.preview = NoPreview]

\* The loop reads the run's state first ...
SubRead ==
  /\ sub.pc = "read"
  /\ sub' = [sub EXCEPT !.pc = "preview", !.status = work.status, !.fence = work.fence, !.version = work.version]
  /\ view' = IF <<sub.status, sub.fence, sub.version>> = <<work.status, work.fence, work.version>>
             THEN view ELSE ConsumeState(view, work)
  /\ UNCHANGED <<work, buffer, conn, owner, entry, calls>>

Extends(old, new) ==
  /\ old.call = new.call /\ old.fence = new.fence /\ old.version = new.version
  /\ IsPrefix(old.draft, new.draft)

\* Mutant: a draft outlives the lease it was written under.
EligibleUnleased == entry.fence = sub.fence /\ entry.version = sub.version

\* Only a draft of the attempt and version just read is shown.
Eligible == sub.status = "leased" /\ entry.fence = sub.fence /\ entry.version = sub.version

\* ... and then the snapshot: a reset when there is none to show, a delta when it goes on
\* from the last one, or the whole.  A run that has ended ends the stream; otherwise a
\* notification or the timeout of 750 ms starts over.
SubPreview(allowed) ==
  LET shown == Eligible /\ allowed
      news == entry.seq # sub.last.seq \/ entry.fence # sub.last.fence
      whole == ~Extends(sub.last, entry)
      delta == SubSeq(entry.draft, Len(sub.last.draft) + 1, Len(entry.draft))
  IN /\ sub.pc = "preview"
     /\ view' = IF shown /\ news THEN ConsumePreview(view, entry, delta, sub.last.seq, whole)
                ELSE IF shown \/ (sub.known /\ sub.last = NoSnapshot) THEN view
                ELSE [view EXCEPT !.draft = <<>>, !.preview = NoPreview]
     /\ sub' = [sub EXCEPT !.known = TRUE,
                  !.last = IF shown /\ news THEN entry ELSE IF shown THEN @ ELSE NoSnapshot,
                  !.pc = IF sub.status = "ended" THEN "done" ELSE "read"]
     /\ UNCHANGED <<work, buffer, conn, owner, entry, calls>>

\* The client reconnects; its view stays.
Reconnect ==
  /\ sub.pc = "read" /\ sub.known /\ sub' = NewSub
  /\ UNCHANGED <<work, buffer, conn, owner, entry, view, calls>>

PreviewNext ==
  \/ Claim \/ Revise
  \/ \E status \in {"queued", "ended"} : LeaseEnds(status)
  \/ \E f \in Fences :
       \/ \E version \in 1..MaxVersion : StartCall(f, version)
       \/ Push(f) \/ Discard(f) \/ CloseBuffer(f) \/ Connect(f)
  \/ \E c \in DOMAIN conn :
       \/ Break(c) \/ Query(c) \/ Admit(c) \/ UploadEnds(c)
       \/ \E allowed \in BOOLEAN : Apply(c, allowed)
  \/ SubRead \/ Reconnect
  \/ \E allowed \in BOOLEAN : SubPreview(allowed)

PreviewSpec == PreviewInit /\ [][PreviewNext]_pvars

(* ------------------------------ properties ------------------------------ *)

Piece == Nat \X Nat
RunStatus == {"queued", "leased", "ended"}
FrameRec == [version : Nat, call : Nat, seq : Nat, kind : {"reset", "delta"}, text : Seq(Piece)]
BufferRec == [version : Nat, call : Nat, enabled : BOOLEAN, draft : Seq(Piece), seq : Nat,
              pending : Seq(FrameRec), batch : Seq(FrameRec), consumer : Nat, closed : BOOLEAN]
ConnRec == [fence : Fences, client : {"open", "broken"}, server : {"idle", "queried", "admitted", "done"},
            frame : Seq(FrameRec), row : Nat]
SnapshotRec == [fence : 0..LastFence, version : Nat, call : Nat, seq : Nat, draft : Seq(Piece)]
PreviewRec == [fence : 0..LastFence, version : Nat, call : Nat, seq : Nat]

PreviewTypeOK ==
  /\ work \in [status : RunStatus, fence : 0..LastFence, version : 1..MaxVersion]
  /\ buffer \in [Fences -> BufferRec] /\ conn \in Seq(ConnRec) /\ entry \in SnapshotRec
  /\ calls \in 0..MaxCalls /\ owner \in 0..Len(conn)
  /\ \A f \in Fences : buffer[f].consumer <= Len(conn)
  /\ sub \in [pc : {"read", "preview", "done"}, status : RunStatus \cup {"none"}, fence : 0..LastFence,
              version : 0..MaxVersion, known : BOOLEAN, last : SnapshotRec]
  /\ view \in [fence : 0..LastFence, version : Nat, closed : 0..LastFence, preview : PreviewRec,
               draft : Seq(Piece)]

\* The text of one provider call from its beginning, without gaps or repetitions.
Gapless(call, draft) == draft = [k \in 1..Len(draft) |-> <<call, k>>]

\* What a person sees of a draft is the beginning of one provider call's text, whatever
\* uploads broke, overlapped or came from a fenced attempt; between two rounds of the
\* stream it belongs to the attempt and version the stream last read; and a stream that
\* ends with its run leaves no draft behind.
DraftIsTrue ==
  /\ PreviewTypeOK
  /\ Gapless(view.preview.call, view.draft)
  /\ sub.pc # "preview" /\ sub.known /\ view.preview # NoPreview =>
       /\ sub.status = "leased" /\ view.preview.fence = sub.fence
       /\ view.preview.version = sub.version
  /\ sub.pc = "done" => view.draft = <<>>
=============================================================================
