--------------------------- MODULE DeliveryProofs ----------------------------
(***************************************************************************)
(* Theorems about what a product is sent: drafts on their way to a screen  *)
(* (Preview), and events and results in the outbox (Outbox).               *)
(***************************************************************************)
EXTENDS Outbox, Preview, SequenceTheorems, TLAPS

-----------------------------------------------------------------------------
(* Preview: the frames of a buffer *)

(* What each frame of an attempt told, by its number: the call it is of    *)
(* and how far the draft reaches after it.                                 *)
ToldRec == [call : Nat, end : Nat]

(* The frames that have not left a buffer, and how many have.              *)
Queue(b) == b.batch \o b.pending
Sent(b) == b.seq - Len(Queue(b))

(* A frame says what was told under its number.                            *)
FrameFits(t, fr) ==
  /\ fr.seq \in 1 .. Len(t) /\ t[fr.seq].call = fr.call
  /\ fr.kind = "reset" => t[fr.seq].end = 0
  /\ fr.kind = "delta" =>
       /\ fr.seq > 1 /\ t[fr.seq - 1].call = fr.call
       /\ t[fr.seq].end = t[fr.seq - 1].end + Len(fr.text)
       /\ \A k \in 1 .. Len(fr.text) : fr.text[k] = <<fr.call, t[fr.seq - 1].end + k>>

(* The unsent frames have the last numbers, and the last of what was told  *)
(* is the draft.                                                           *)
DraftFits(t, b) ==
  b.closed \/ IF b.seq = 0 THEN b.enabled = FALSE /\ b.draft = <<>>
              ELSE t[b.seq] = [call |-> b.call, end |-> Len(b.draft)]
QueueFits(t, b) ==
  \A i \in 1 .. Len(Queue(b)) : Queue(b)[i].seq = Sent(b) + i /\ FrameFits(t, Queue(b)[i])
BufferFits(t, b) ==
  /\ t \in Seq(ToldRec) /\ Len(t) = b.seq /\ Len(Queue(b)) <= b.seq
  /\ QueueFits(t, b) /\ Gapless(b.call, b.draft) /\ DraftFits(t, b)

(* A frame that left, and a draft that came of frames that left.           *)
SentFits(t, n, fr) == fr.seq <= n /\ FrameFits(t, fr)
ShownFits(told, n, fence, call, seq, draft) ==
  IF fence = 0 THEN draft = <<>>
  ELSE /\ seq \in 1 .. n[fence] /\ told[fence][seq] = [call |-> call, end |-> Len(draft)]
       /\ Gapless(call, draft)

(* What was told of frames that left is not told differently later.        *)
Retold(t, n, t2, n2) ==
  /\ n \in Nat /\ n2 \in Nat /\ n <= n2 /\ n <= Len(t) /\ n <= Len(t2) /\ \A i \in 1 .. n : t2[i] = t[i]

LEMMA SentKept ==
  ASSUME NEW t \in Seq(ToldRec), NEW t2 \in Seq(ToldRec), NEW n, NEW n2, Retold(t, n, t2, n2),
         NEW fr \in FrameRec, SentFits(t, n, fr)
  PROVE  SentFits(t2, n2, fr)
<1>1. fr.seq \in Nat /\ Len(t) \in Nat /\ Len(t2) \in Nat
  BY DEF FrameRec
<1>2. fr.seq \in 1 .. n /\ (fr.seq > 1 => fr.seq - 1 \in 1 .. n) /\ fr.seq \in 1 .. Len(t2)
  BY <1>1 DEF SentFits, FrameFits, Retold
<1>3. t2[fr.seq] = t[fr.seq] /\ (fr.seq > 1 => t2[fr.seq - 1] = t[fr.seq - 1])
  BY <1>2 DEF Retold
<1>4. FrameFits(t2, fr)
  BY <1>2, <1>3 DEF SentFits, FrameFits
<1>5. fr.seq <= n2
  BY <1>1 DEF SentFits, Retold
<1> QED
  BY <1>4, <1>5 DEF SentFits

LEMMA BufferTyped ==
  ASSUME NEW b \in BufferRec
  PROVE  /\ b.version \in Nat /\ b.call \in Nat /\ b.enabled \in BOOLEAN /\ b.draft \in Seq(Piece) /\ b.seq \in Nat
         /\ b.pending \in Seq(FrameRec) /\ b.batch \in Seq(FrameRec) /\ b.consumer \in Nat /\ b.closed \in BOOLEAN
         /\ Queue(b) \in Seq(FrameRec) /\ Len(Queue(b)) \in Nat /\ Len(b.draft) \in Nat /\ Len(b.pending) \in Nat
         /\ Len(b.batch) \in Nat /\ Len(Queue(b)) = Len(b.batch) + Len(b.pending)
<1>1. /\ b.version \in Nat /\ b.call \in Nat /\ b.enabled \in BOOLEAN /\ b.draft \in Seq(Piece) /\ b.seq \in Nat
      /\ b.pending \in Seq(FrameRec) /\ b.batch \in Seq(FrameRec) /\ b.consumer \in Nat /\ b.closed \in BOOLEAN
  BY DEF BufferRec
<1>2. Queue(b) \in Seq(FrameRec) /\ Len(Queue(b)) = Len(b.batch) + Len(b.pending)
  BY <1>1, ConcatProperties DEF Queue
<1>3. Len(Queue(b)) \in Nat /\ Len(b.draft) \in Nat /\ Len(b.pending) \in Nat /\ Len(b.batch) \in Nat
  BY <1>1, <1>2, LenProperties
<1> QED
  BY <1>1, <1>2, <1>3

LEMMA AppendFacts ==
  ASSUME NEW S, NEW s \in Seq(S), NEW e \in S
  PROVE  /\ Append(s, e) \in Seq(S) /\ Len(s) \in Nat /\ Len(Append(s, e)) = Len(s) + 1
         /\ Append(s, e)[Len(s) + 1] = e /\ \A i \in 1 .. Len(s) : Append(s, e)[i] = s[i]
  BY LenProperties, AppendProperties

LEMMA ConcatAppend ==
  ASSUME NEW S, NEW s \in Seq(S), NEW r \in Seq(S), NEW e \in S
  PROVE  s \o Append(r, e) = Append(s \o r, e)
<1>1. Len(s) \in Nat /\ Len(r) \in Nat /\ s \o r \in Seq(S) /\ Len(s \o r) = Len(s) + Len(r)
      /\ \A i \in 1 .. Len(s) + Len(r) : (s \o r)[i] = IF i <= Len(s) THEN s[i] ELSE r[i - Len(s)]
  BY ConcatProperties, LenProperties
<1> DEFINE x == Append(r, e)
           y == s \o x
           z == Append(s \o r, e)
<1>2. x \in Seq(S) /\ Len(x) = Len(r) + 1 /\ x[Len(r) + 1] = e /\ \A i \in 1 .. Len(r) : x[i] = r[i]
  BY <1>1, AppendFacts
<1> HIDE DEF x
<1>3. y \in Seq(S) /\ Len(y) = Len(s) + Len(r) + 1
      /\ \A i \in 1 .. Len(s) + Len(r) + 1 : y[i] = IF i <= Len(s) THEN s[i] ELSE x[i - Len(s)]
  <2>1. Len(s) + Len(x) = Len(s) + Len(r) + 1
    BY <1>1, <1>2
  <2>2. y \in Seq(S) /\ Len(y) = Len(s) + Len(x)
        /\ \A i \in 1 .. Len(s) + Len(x) : y[i] = IF i <= Len(s) THEN s[i] ELSE x[i - Len(s)]
    BY <1>2, ConcatProperties
  <2> HIDE DEF y
  <2> QED
    BY <2>1, <2>2
<1>4. z \in Seq(S) /\ Len(z) = Len(s) + Len(r) + 1 /\ z[Len(s) + Len(r) + 1] = e
      /\ \A i \in 1 .. Len(s) + Len(r) : z[i] = (s \o r)[i]
  BY <1>1, AppendFacts
<1> HIDE DEF y, z
<1>5. ASSUME NEW i \in 1 .. Len(s) + Len(r) + 1
      PROVE  y[i] = z[i]
  <2>1. CASE i <= Len(s)
    <3>1. i \in 1 .. Len(s) + Len(r)
      BY <2>1, <1>1
    <3> QED
      BY <3>1, <2>1, <1>1, <1>3, <1>4
  <2>2. CASE i > Len(s) /\ i <= Len(s) + Len(r)
    <3>1. i - Len(s) \in 1 .. Len(r) /\ i \in 1 .. Len(s) + Len(r)
      BY <2>2, <1>1
    <3> QED
      BY <3>1, <2>2, <1>1, <1>2, <1>3, <1>4
  <2>3. CASE i = Len(s) + Len(r) + 1
    <3>1. i - Len(s) = Len(r) + 1 /\ ~(i <= Len(s))
      BY <2>3, <1>1
    <3> QED
      BY <3>1, <2>3, <1>2, <1>3, <1>4
  <2> QED
    <3>1. i <= Len(s) \/ (i > Len(s) /\ i <= Len(s) + Len(r)) \/ i = Len(s) + Len(r) + 1
      BY <1>1
    <3> QED
      BY <3>1, <2>1, <2>2, <2>3
<1>6. y = z
  BY <1>3, <1>4, <1>5, SeqEqual
<1> QED
  BY <1>6 DEF x, y, z

LEMMA GaplessIff ==
  ASSUME NEW c, NEW d \in Seq(Piece)
  PROVE  Gapless(c, d) <=> \A k \in 1 .. Len(d) : d[k] = <<c, k>>
<1> DEFINE n == Len(d)
<1>1. d = [k \in 1 .. n |-> d[k]]
  BY LenProperties
<1> HIDE DEF n
<1>2. d = [k \in 1 .. n |-> <<c, k>>] <=> \A k \in 1 .. n : d[k] = <<c, k>>
  BY <1>1
<1> QED
  BY <1>2 DEF Gapless, n

LEMMA GaplessAppend ==
  ASSUME NEW c \in Nat, NEW d \in Seq(Piece), Gapless(c, d)
  PROVE  Gapless(c, Append(d, <<c, Len(d) + 1>>))
<1>1. Len(d) \in Nat /\ <<c, Len(d) + 1>> \in Piece
  BY LenProperties DEF Piece
<1> DEFINE x == Append(d, <<c, Len(d) + 1>>)
<1>2. x \in Seq(Piece) /\ Len(x) = Len(d) + 1 /\ x[Len(d) + 1] = <<c, Len(d) + 1>>
      /\ \A i \in 1 .. Len(d) : x[i] = d[i]
  BY <1>1, AppendFacts
<1> HIDE DEF x
<1>3. \A k \in 1 .. Len(x) : x[k] = <<c, k>>
  BY <1>1, <1>2, GaplessIff
<1> QED
  BY <1>2, <1>3, GaplessIff DEF x

LEMMA EmptyDraft == \A c : Gapless(c, <<>>) /\ Len(<<>>) = 0
  BY DEF Gapless

(* A draft started over, or discarded.                                     *)
LEMMA StartedFits ==
  ASSUME NEW b \in BufferRec, NEW b2 \in BufferRec, NEW t, BufferFits(t, b), NEW fr \in FrameRec,
         b2.batch = <<>>, b2.pending = <<fr>>, b2.seq = b.seq + 1, b2.draft = <<>>,
         fr.kind = "reset", fr.seq = b.seq + 1, fr.call = b2.call
  PROVE  \E t2 : BufferFits(t2, b2) /\ Retold(t, Sent(b), t2, Sent(b2))
<1> DEFINE e == [call |-> b2.call, end |-> 0]
           t2 == Append(t, e)
<1>1. b.seq \in Nat /\ b2.call \in Nat /\ e \in ToldRec /\ t \in Seq(ToldRec) /\ Len(t) = b.seq
      /\ Len(Queue(b)) \in Nat /\ Len(Queue(b)) <= b.seq
  BY BufferTyped DEF ToldRec, BufferFits
<1>2. t2 \in Seq(ToldRec) /\ Len(t2) = b.seq + 1 /\ t2[b.seq + 1] = e /\ \A i \in 1 .. b.seq : t2[i] = t[i]
  BY <1>1
<1> HIDE DEF t2
<1>3. Queue(b2) = <<fr>> /\ Len(<<fr>>) = 1 /\ Sent(b2) = b.seq
  BY <1>1 DEF Queue, Sent
<1>4. QueueFits(t2, b2)
  <2>1. FrameFits(t2, fr)
    BY <1>1, <1>2 DEF FrameFits
  <2>2. fr.seq = Sent(b2) + 1 /\ <<fr>>[1] = fr
    BY <1>3
  <2> QED
    BY <1>3, <2>1, <2>2 DEF QueueFits
<1>5. DraftFits(t2, b2) /\ Gapless(b2.call, b2.draft)
  BY <1>1, <1>2, EmptyDraft DEF DraftFits
<1>6. BufferFits(t2, b2)
  BY <1>1, <1>2, <1>3, <1>4, <1>5 DEF BufferFits
<1>7. Retold(t, Sent(b), t2, Sent(b2))
  BY <1>1, <1>2, <1>3 DEF Retold, Sent
<1> QED
  BY <1>6, <1>7

LEMMA FramesAppend ==
  \A x, y \in Seq(FrameRec), fr \in FrameRec : x \o Append(y, fr) = Append(x \o y, fr)
  BY ConcatAppend

LEMMA QueueAppend ==
  ASSUME NEW b, NEW b2, NEW fr \in FrameRec, b.batch \in Seq(FrameRec), b.pending \in Seq(FrameRec),
         b2.batch = b.batch, b2.pending = Append(b.pending, fr)
  PROVE  Queue(b2) = Append(Queue(b), fr)
<1>1. b.batch \o Append(b.pending, fr) = Append(b.batch \o b.pending, fr)
  BY FramesAppend
<1> QED
  BY <1>1 DEF Queue

(* A piece that makes a frame of its own.                                  *)
LEMMA FramedFits ==
  ASSUME NEW b \in BufferRec, NEW b2 \in BufferRec, NEW t, BufferFits(t, b), NEW fr \in FrameRec,
         ~b.closed, b.enabled,
         b2.batch = b.batch, b2.pending = Append(b.pending, fr), b2.seq = b.seq + 1, b2.call = b.call,
         b2.draft = Append(b.draft, <<b.call, Len(b.draft) + 1>>),
         fr.kind = "delta", fr.seq = b.seq + 1, fr.call = b.call, fr.text = <<<<b.call, Len(b.draft) + 1>>>>
  PROVE  \E t2 : BufferFits(t2, b2) /\ Retold(t, Sent(b), t2, Sent(b2))
<1> DEFINE e == [call |-> b.call, end |-> Len(b.draft) + 1]
           t2 == Append(t, e)
           q == Queue(b)
<1>1. b.seq \in Nat /\ b.call \in Nat /\ t \in Seq(ToldRec) /\ Len(t) = b.seq
      /\ Len(q) \in Nat /\ Len(q) <= b.seq /\ Len(b.draft) \in Nat /\ b.draft \in Seq(Piece)
      /\ q \in Seq(FrameRec) /\ b.batch \in Seq(FrameRec) /\ b.pending \in Seq(FrameRec)
  BY BufferTyped DEF BufferFits
<1>e. e \in ToldRec
  BY <1>1 DEF ToldRec
<1>2. t2 \in Seq(ToldRec) /\ Len(t2) = b.seq + 1 /\ t2[b.seq + 1] = e /\ \A i \in 1 .. b.seq : t2[i] = t[i]
  BY <1>1, <1>e, AppendFacts
<1> HIDE DEF t2
<1>3. b.seq # 0 /\ t[b.seq] = [call |-> b.call, end |-> Len(b.draft)]
  BY DEF BufferFits, DraftFits
<1>4. Queue(b2) = Append(q, fr)
  BY <1>1, QueueAppend
<1>5. Len(Queue(b2)) = Len(q) + 1 /\ Queue(b2)[Len(q) + 1] = fr /\ \A i \in 1 .. Len(q) : Queue(b2)[i] = q[i]
  BY <1>1, <1>4, AppendFacts
<1>6. Sent(b2) = Sent(b) /\ Sent(b) = b.seq - Len(q) /\ Sent(b) \in Nat
  <2>1. Sent(b2) = (b.seq + 1) - (Len(q) + 1) /\ Sent(b) = b.seq - Len(q)
    BY <1>5 DEF Sent
  <2>2. b.seq \in Nat /\ Len(q) \in Nat /\ Len(q) <= b.seq
    BY <1>1
  <2> HIDE DEF q
  <2> QED
    BY <2>1, <2>2
<1>7. FrameFits(t2, fr)
  <2>0. b.seq \in Nat /\ b.seq # 0 /\ fr.seq = b.seq + 1 /\ Len(t2) = b.seq + 1
    BY <1>1, <1>2, <1>3
  <2>1. fr.seq - 1 = b.seq /\ b.seq \in 1 .. b.seq /\ fr.seq > 1 /\ fr.seq \in 1 .. Len(t2)
    BY <2>0
  <2>3. t2[fr.seq] = e /\ t2[fr.seq - 1] = t[b.seq]
    BY <2>0, <2>1, <1>2
  <2>2. Len(fr.text) = 1 /\ fr.text[1] = <<b.call, Len(b.draft) + 1>>
    OBVIOUS
  <2> QED
    BY <2>1, <2>2, <2>3, <1>1, <1>3 DEF FrameFits
<1>8. QueueFits(t2, b2)
  <2> SUFFICES ASSUME NEW i \in 1 .. Len(q) + 1
               PROVE  Queue(b2)[i].seq = Sent(b) + i /\ FrameFits(t2, Queue(b2)[i])
    BY <1>5, <1>6 DEF QueueFits
  <2>1. CASE i = Len(q) + 1
    BY <2>1, <1>1, <1>5, <1>6, <1>7
  <2>2. CASE i \in 1 .. Len(q)
    <3>1. Queue(b2)[i] = q[i] /\ q[i].seq = Sent(b) + i /\ FrameFits(t, q[i]) /\ q[i] \in FrameRec
      BY <2>2, <1>1, <1>5 DEF BufferFits, QueueFits
    <3>2. SentFits(t, b.seq, q[i])
      BY <3>1, <1>1, <1>6, <2>2 DEF SentFits
    <3>3. Retold(t, b.seq, t2, b.seq + 1)
      BY <1>1, <1>2 DEF Retold
    <3> QED
      BY <3>1, <3>2, <3>3, <1>1, <1>2, SentKept DEF SentFits
  <2> QED
    BY <2>1, <2>2, <1>1
<1>9. DraftFits(t2, b2) /\ Gapless(b2.call, b2.draft)
  <2>1. Len(b2.draft) = Len(b.draft) + 1
    BY <1>1, AppendProperties DEF Piece
  <2>2. Gapless(b2.call, b2.draft)
    BY <1>1, GaplessAppend DEF BufferFits
  <2> QED
    BY <1>1, <1>2, <2>1, <2>2 DEF DraftFits
<1>10. BufferFits(t2, b2)
  BY <1>1, <1>2, <1>5, <1>8, <1>9 DEF BufferFits
<1>11. Retold(t, Sent(b), t2, Sent(b2))
  <2>1. Sent(b) <= b.seq
    BY <1>1, <1>6
  <2> HIDE DEF q
  <2> QED
    BY <1>1, <1>2, <1>6, <2>1 DEF Retold
<1> QED
  BY <1>10, <1>11

LEMMA FramesConcat ==
  \A x, y \in Seq(FrameRec) :
    /\ Len(x) \in Nat /\ Len(y) \in Nat /\ Len(x \o y) = Len(x) + Len(y)
    /\ \A i \in 1 .. Len(x) + Len(y) : (x \o y)[i] = IF i <= Len(x) THEN x[i] ELSE y[i - Len(x)]
  BY ConcatProperties, LenProperties

LEMMA PieceAppend ==
  \A d \in Seq(Piece), p \in Piece :
    /\ Append(d, p) \in Seq(Piece) /\ Len(d) \in Nat /\ Len(Append(d, p)) = Len(d) + 1
    /\ Append(d, p)[Len(d) + 1] = p /\ \A i \in 1 .. Len(d) : Append(d, p)[i] = d[i]
  BY AppendFacts

(* Two sequences that differ in their last member at most.                 *)
AlikeBefore(s, r) == Len(s) = Len(r) /\ \A i \in 1 .. Len(r) : i # Len(r) => s[i] = r[i]
LastOf(s, e) == Len(s) \in Nat /\ Len(s) > 0 /\ s[Len(s)] = e

LEMMA LastDiffers ==
  ASSUME NEW x \in Seq(FrameRec), NEW y \in Seq(FrameRec), NEW z \in Seq(FrameRec), Len(y) # 0, AlikeBefore(z, y)
  PROVE  AlikeBefore(x \o z, x \o y) /\ LastOf(x \o z, z[Len(y)]) /\ LastOf(x \o y, y[Len(y)])
<1>0. Len(z) = Len(y) /\ \A i \in 1 .. Len(y) : i # Len(y) => z[i] = y[i]
  BY DEF AlikeBefore
<1>1. Len(x) \in Nat /\ Len(y) \in Nat /\ Len(x \o y) = Len(x) + Len(y)
      /\ \A i \in 1 .. Len(x) + Len(y) : (x \o y)[i] = IF i <= Len(x) THEN x[i] ELSE y[i - Len(x)]
  BY FramesConcat
<1>2. Len(x \o z) = Len(x) + Len(z)
      /\ \A i \in 1 .. Len(x) + Len(z) : (x \o z)[i] = IF i <= Len(x) THEN x[i] ELSE z[i - Len(x)]
  BY FramesConcat
<1>3. ASSUME NEW i \in 1 .. Len(x) + Len(y), i # Len(x) + Len(y)
      PROVE  (x \o z)[i] = (x \o y)[i]
  <2>1. CASE i <= Len(x)
    BY <2>1, <1>0, <1>1, <1>2
  <2>2. CASE i > Len(x)
    <3>1. i - Len(x) \in 1 .. Len(y) /\ i - Len(x) # Len(y) /\ ~(i <= Len(x))
      BY <2>2, <1>1, <1>3
    <3> QED
      BY <3>1, <1>0, <1>1, <1>2
  <2>3. i <= Len(x) \/ i > Len(x)
    BY <1>1
  <2> QED
    BY <2>1, <2>2, <2>3
<1>4. (x \o z)[Len(x) + Len(y)] = z[Len(y)] /\ (x \o y)[Len(x) + Len(y)] = y[Len(y)]
  <2>1. Len(x) + Len(y) \in 1 .. Len(x) + Len(y) /\ ~(Len(x) + Len(y) <= Len(x))
        /\ (Len(x) + Len(y)) - Len(x) = Len(y)
    BY <1>1
  <2> QED
    BY <2>1, <1>0, <1>1, <1>2
<1> QED
  BY <1>0, <1>1, <1>2, <1>3, <1>4 DEF AlikeBefore, LastOf

(* A piece that joins the last frame.                                      *)
LEMMA QueueLast ==
  ASSUME NEW b, NEW b2, NEW fr \in FrameRec, b.batch \in Seq(FrameRec), b.pending \in Seq(FrameRec),
         b2.batch = b.batch, Len(b.pending) > 0, b2.pending = [b.pending EXCEPT ![Len(b.pending)] = fr]
  PROVE  /\ Len(Queue(b2)) = Len(Queue(b)) /\ Len(Queue(b)) > 0 /\ Len(Queue(b)) \in Nat
         /\ Queue(b2)[Len(Queue(b))] = fr /\ Queue(b)[Len(Queue(b))] = b.pending[Len(b.pending)]
         /\ \A i \in 1 .. Len(Queue(b)) : i # Len(Queue(b)) => Queue(b2)[i] = Queue(b)[i]
<1>1. b2.pending \in Seq(FrameRec) /\ AlikeBefore(b2.pending, b.pending) /\ Len(b.pending) # 0
      /\ b2.pending[Len(b.pending)] = fr
  BY LenProperties DEF AlikeBefore
<1>2. AlikeBefore(b.batch \o b2.pending, b.batch \o b.pending)
      /\ LastOf(b.batch \o b2.pending, fr) /\ LastOf(b.batch \o b.pending, b.pending[Len(b.pending)])
  BY <1>1, LastDiffers
<1>3. AlikeBefore(Queue(b2), Queue(b)) /\ LastOf(Queue(b2), fr) /\ LastOf(Queue(b), b.pending[Len(b.pending)])
  BY <1>2 DEF Queue
<1> QED
  BY <1>3 DEF AlikeBefore, LastOf

LEMMA JoinedFits ==
  ASSUME NEW b \in BufferRec, NEW b2 \in BufferRec, NEW t, BufferFits(t, b), NEW fr \in FrameRec,
         ~b.closed, b.enabled, Len(b.pending) > 0, b.pending[Len(b.pending)].kind = "delta",
         b2.batch = b.batch, b2.pending = [b.pending EXCEPT ![Len(b.pending)] = fr], b2.seq = b.seq, b2.call = b.call,
         b2.draft = Append(b.draft, <<b.call, Len(b.draft) + 1>>),
         fr.kind = "delta", fr.seq = b.pending[Len(b.pending)].seq, fr.call = b.pending[Len(b.pending)].call,
         fr.text = Append(b.pending[Len(b.pending)].text, <<b.call, Len(b.draft) + 1>>)
  PROVE  \E t2 : BufferFits(t2, b2) /\ Retold(t, Sent(b), t2, Sent(b2))
<1> DEFINE q == Queue(b)
           n == Len(q)
           old == b.pending[Len(b.pending)]
           e == [call |-> b.call, end |-> Len(b.draft) + 1]
           t2 == [t EXCEPT ![b.seq] = e]
<1>1. b.seq \in Nat /\ b.call \in Nat /\ t \in Seq(ToldRec) /\ Len(t) = b.seq /\ b.draft \in Seq(Piece)
      /\ n \in Nat /\ n <= b.seq /\ Len(b.draft) \in Nat /\ b.batch \in Seq(FrameRec) /\ b.pending \in Seq(FrameRec)
      /\ q \in Seq(FrameRec)
  BY BufferTyped DEF BufferFits
<1>2. Len(Queue(b2)) = n /\ n > 0 /\ Queue(b2)[n] = fr /\ q[n] = old
      /\ \A i \in 1 .. n : i # n => Queue(b2)[i] = q[i]
  BY <1>1, QueueLast
<1>3. b.seq # 0 /\ t[b.seq] = [call |-> b.call, end |-> Len(b.draft)]
  BY DEF BufferFits, DraftFits
<1>4. \A i \in 1 .. n : q[i].seq = Sent(b) + i /\ FrameFits(t, q[i]) /\ q[i] \in FrameRec
  BY <1>1 DEF BufferFits, QueueFits
<1>5. Sent(b) = b.seq - n /\ Sent(b2) = b.seq - n
  BY <1>2 DEF Sent
<1>6. old.seq = b.seq /\ FrameFits(t, old) /\ old \in FrameRec /\ old.text \in Seq(Piece) /\ Len(old.text) \in Nat
  <2>1. n \in 1 .. n /\ Sent(b) + n = b.seq
    BY <1>1, <1>2, <1>5
  <2>2. old.seq = b.seq /\ FrameFits(t, old) /\ old \in FrameRec
    BY <2>1, <1>2, <1>4
  <2>3. old.text \in Seq(Piece)
    BY <2>2 DEF FrameRec
  <2> QED
    BY <2>2, <2>3, LenProperties
<1>7. e \in ToldRec
  BY <1>1 DEF ToldRec
<1>8. t2 \in Seq(ToldRec) /\ Len(t2) = b.seq /\ t2[b.seq] = e /\ \A i \in 1 .. b.seq : i # b.seq => t2[i] = t[i]
  BY <1>1, <1>3, <1>7
<1> HIDE DEF t2, e, old, n, q
<1>14. Retold(t, b.seq - 1, t2, b.seq - 1)
  <2>1. b.seq - 1 \in Nat /\ b.seq - 1 <= Len(t) /\ b.seq - 1 <= Len(t2)
    BY <1>1, <1>3, <1>8
  <2>2. \A i \in 1 .. b.seq - 1 : i \in 1 .. b.seq /\ i # b.seq
    BY <1>1
  <2> QED
    BY <2>1, <2>2, <1>8 DEF Retold
<1>9. FrameFits(t2, fr)
  <2>1. /\ old.seq \in 1 .. Len(t) /\ t[b.seq].call = old.call /\ old.seq > 1 /\ t[b.seq - 1].call = old.call
        /\ t[b.seq].end = t[b.seq - 1].end + Len(old.text)
        /\ \A k \in 1 .. Len(old.text) : old.text[k] = <<old.call, t[b.seq - 1].end + k>>
    BY <1>6 DEF FrameFits, old
  <2>a. b.seq > 1
    BY <2>1, <1>6
  <2>b. b.seq - 1 \in 1 .. b.seq /\ b.seq - 1 # b.seq
    BY <2>a, <1>1
  <2>2. t2[b.seq - 1] = t[b.seq - 1]
    BY <2>b, <1>8
  <2>3. t[b.seq - 1] \in ToldRec /\ t[b.seq - 1].end \in Nat
    <3>1. t[b.seq - 1] \in ToldRec
      BY <2>b, <1>1
    <3> QED
      BY <3>1 DEF ToldRec
  <2>4. old.call = b.call /\ Len(b.draft) = t[b.seq - 1].end + Len(old.text) /\ e.end = Len(b.draft) + 1
        /\ e.call = b.call
    BY <2>1, <1>3 DEF e
  <2>5. fr.seq = b.seq /\ fr.call = b.call /\ fr.kind = "delta"
        /\ fr.text = Append(old.text, <<b.call, Len(b.draft) + 1>>)
    BY <1>6, <2>4 DEF old
  <2>6. <<b.call, Len(b.draft) + 1>> \in Piece
    BY <1>1 DEF Piece
  <2>7. Len(fr.text) = Len(old.text) + 1 /\ fr.text[Len(old.text) + 1] = <<b.call, Len(b.draft) + 1>>
        /\ \A k \in 1 .. Len(old.text) : fr.text[k] = old.text[k]
    <3> DEFINE p == <<b.call, Len(b.draft) + 1>>
    <3>1. p \in Piece /\ old.text \in Seq(Piece) /\ fr.text = Append(old.text, p)
      BY <2>5, <2>6, <1>6
    <3> HIDE DEF p
    <3>2. Len(Append(old.text, p)) = Len(old.text) + 1 /\ Append(old.text, p)[Len(old.text) + 1] = p
          /\ \A k \in 1 .. Len(old.text) : Append(old.text, p)[k] = old.text[k]
      BY <3>1, PieceAppend, Zenon
    <3> QED
      BY <3>1, <3>2, Zenon DEF p
  <2>8. \A k \in 1 .. Len(fr.text) : fr.text[k] = <<b.call, t[b.seq - 1].end + k>>
    <3> SUFFICES ASSUME NEW k \in 1 .. Len(old.text) + 1
                 PROVE  fr.text[k] = <<b.call, t[b.seq - 1].end + k>>
      BY <2>7
    <3>1. CASE k = Len(old.text) + 1
      <4>1. Len(b.draft) + 1 = t[b.seq - 1].end + k
        <5> DEFINE from == t[b.seq - 1].end
                   m == Len(old.text)
                   d == Len(b.draft)
        <5>1. from \in Nat /\ m \in Nat /\ k = m + 1 /\ d = from + m
          BY <3>1, <2>3, <2>4, <1>6
        <5> HIDE DEF from, m, d
        <5>2. d + 1 = from + k
          BY <5>1
        <5> QED
          BY <5>2 DEF from, d
      <4> QED
        BY <4>1, <3>1, <2>7
    <3>2. CASE k \in 1 .. Len(old.text)
      BY <3>2, <2>1, <2>4, <2>7
    <3>3. k = Len(old.text) + 1 \/ k \in 1 .. Len(old.text)
      BY <1>6
    <3> QED
      BY <3>1, <3>2, <3>3
  <2>9. fr.seq \in 1 .. Len(t2) /\ fr.seq > 1 /\ t2[fr.seq] = e /\ t2[fr.seq - 1] = t[b.seq - 1]
    <3>1. fr.seq = b.seq
      BY <2>5
    <3>2. b.seq \in 1 .. b.seq /\ Len(t2) = b.seq
      BY <2>a, <1>1, <1>8
    <3> QED
      BY <3>1, <3>2, <2>a, <2>2, <1>8
  <2>10. t2[fr.seq].call = fr.call /\ t2[fr.seq - 1].call = fr.call
         /\ t2[fr.seq].end = t2[fr.seq - 1].end + Len(fr.text)
    <3>1. t2[fr.seq].call = fr.call /\ t2[fr.seq - 1].call = fr.call
      BY <2>1, <2>4, <2>5, <2>9
    <3>2. t2[fr.seq].end = Len(b.draft) + 1 /\ t2[fr.seq - 1].end = t[b.seq - 1].end
          /\ Len(fr.text) = Len(old.text) + 1
      BY <2>4, <2>7, <2>9
    <3>3. Len(b.draft) + 1 = t[b.seq - 1].end + (Len(old.text) + 1)
      BY <2>3, <2>4, <1>6
    <3> QED
      BY <3>1, <3>2, <3>3
  <2> QED
    BY <2>5, <2>8, <2>9, <2>10 DEF FrameFits
<1>10. QueueFits(t2, b2)
  <2> SUFFICES ASSUME NEW i \in 1 .. n
               PROVE  Queue(b2)[i].seq = Sent(b) + i /\ FrameFits(t2, Queue(b2)[i])
    BY <1>2, <1>5 DEF QueueFits
  <2>1. CASE i = n
    <3>1. fr.seq = b.seq /\ Sent(b) + n = b.seq
      BY <1>1, <1>5, <1>6 DEF old
    <3> QED
      BY <3>1, <2>1, <1>2, <1>9
  <2>2. CASE i # n
    <3>1. Queue(b2)[i] = q[i] /\ q[i].seq = Sent(b) + i /\ FrameFits(t, q[i]) /\ q[i] \in FrameRec
      BY <2>2, <1>2, <1>4
    <3>2. SentFits(t, b.seq - 1, q[i])
      BY <3>1, <2>2, <1>1, <1>5 DEF SentFits
    <3>3. Retold(t, b.seq - 1, t2, b.seq - 1)
      BY <1>14
    <3>4. FrameFits(t2, q[i])
      BY <3>1, <3>2, <3>3, <1>1, <1>8, SentKept DEF SentFits
    <3> QED
      BY <3>1, <3>4
  <2> QED
    BY <2>1, <2>2
<1>11. DraftFits(t2, b2) /\ Gapless(b2.call, b2.draft)
  <2>1. Len(b2.draft) = Len(b.draft) + 1
    BY <1>1, AppendProperties DEF Piece
  <2>2. Gapless(b2.call, b2.draft)
    BY <1>1, GaplessAppend DEF BufferFits
  <2> QED
    BY <1>1, <1>3, <1>8, <2>1, <2>2 DEF DraftFits, e
<1>12. BufferFits(t2, b2)
  BY <1>1, <1>2, <1>8, <1>10, <1>11 DEF BufferFits
<1>13. Retold(t, Sent(b), t2, Sent(b2))
  <2>1. Sent(b) \in Nat /\ Sent(b2) = Sent(b) /\ Sent(b) <= Len(t) /\ Sent(b) <= Len(t2)
    <3>1. b.seq \in Nat /\ n \in Nat /\ n <= b.seq /\ Len(t) = b.seq /\ Len(t2) = b.seq
      BY <1>1, <1>8
    <3>2. b.seq - n \in Nat /\ b.seq - n <= b.seq
      BY <3>1
    <3> QED
      BY <3>1, <3>2, <1>5
  <2>2. \A i \in 1 .. Sent(b) : i \in 1 .. b.seq /\ i # b.seq
    BY <1>1, <1>2, <1>5
  <2> QED
    BY <2>1, <2>2, <1>8 DEF Retold
<1> QED
  BY <1>12, <1>13

(* How far a draft of n pieces reaches after i frames.                     *)
Frames(n) == (n + FrameLimit - 1) \div FrameLimit
Reach(n, i) == IF i = 0 THEN 0 ELSE IF i = Frames(n) THEN n ELSE i * FrameLimit

LEMMA FramesOfDraft ==
  ASSUME NEW n \in Nat
  PROVE  /\ Frames(n) \in Nat /\ (Frames(n) = 0 => n = 0)
         /\ \A i \in 1 .. Frames(n) :
              /\ Reach(n, i - 1) = (i - 1) * FrameLimit /\ Reach(n, i) \in Nat /\ Reach(n, i - 1) \in Nat
              /\ Reach(n, i - 1) <= Reach(n, i) /\ Reach(n, i) <= n
<1> DEFINE k == Frames(n)
           l == FrameLimit
<1>1. l \in Nat /\ l > 0
  BY PreviewAssumption
<1> HIDE DEF l
<1>2. k = (n + l - 1) \div l
  BY DEF Frames, l
<1>3. k \in Nat /\ k * l <= n + l - 1 /\ n + l - 1 < k * l + l
  BY <1>1, <1>2
<1> HIDE DEF k
<1>4. k = 0 => n = 0
  <2>1. k = 0 => k * l = 0
    BY <1>1
  <2> QED
    BY <2>1, <1>1, <1>3
<1>5. ASSUME NEW i \in 1 .. k
      PROVE  /\ Reach(n, i - 1) = (i - 1) * l /\ Reach(n, i) \in Nat /\ Reach(n, i - 1) \in Nat
             /\ Reach(n, i - 1) <= Reach(n, i) /\ Reach(n, i) <= n
  <2>1. (i - 1) * l \in Nat /\ i * l = (i - 1) * l + l /\ i * l \in Nat
    BY <1>1, <1>3
  <2>2. i * l <= k * l
    BY <1>1, <1>3
  <2>3. k * l \in Nat
    BY <1>1, <1>3
  <2>4. (i - 1) * l <= n
    BY <1>1, <1>3, <2>1, <2>2, <2>3
  <2>5. i < k => i * l <= n
    <3> SUFFICES ASSUME i < k PROVE i * l <= n
      OBVIOUS
    <3>1. (i + 1) * l <= k * l /\ (i + 1) * l = i * l + l
      BY <1>1, <1>3
    <3> QED
      BY <3>1, <1>1, <1>3, <2>1, <2>3
  <2>6. Reach(n, i - 1) = (i - 1) * l
    <3>1. i - 1 # k /\ (i - 1 = 0 => (i - 1) * l = 0)
      BY <1>1, <1>3
    <3> QED
      BY <3>1 DEF Reach, k, l
  <2>7. Reach(n, i) = IF i = k THEN n ELSE i * l
    BY <1>3 DEF Reach, k, l
  <2> QED
    BY <2>1, <2>4, <2>5, <2>6, <2>7, <1>1, <1>3
<1> QED
  BY <1>3, <1>4, <1>5 DEF k, l

LEMMA ReachTyped ==
  ASSUME NEW n \in Nat
  PROVE  /\ Frames(n) \in Nat /\ Reach(n, 0) = 0 /\ Reach(n, Frames(n)) = n
         /\ \A j \in 1 .. Frames(n) + 1 : Reach(n, j - 1) \in Nat
<1>1. Frames(n) \in Nat /\ (Frames(n) = 0 => n = 0) /\ \A i \in 1 .. Frames(n) : Reach(n, i) \in Nat
  BY FramesOfDraft
<1>2. Reach(n, 0) = 0 /\ Reach(n, Frames(n)) = n
  BY <1>1 DEF Reach
<1>3. ASSUME NEW j \in 1 .. Frames(n) + 1 PROVE Reach(n, j - 1) \in Nat
  <2>1. j = 1 \/ j - 1 \in 1 .. Frames(n)
    BY <1>1
  <2>2. j = 1 => Reach(n, j - 1) = 0
    BY <1>2
  <2> QED
    BY <2>1, <2>2, <1>1
<1> QED
  BY <1>1, <1>2, <1>3

(* The told sequence goes on by the frames of a draft of n pieces.         *)
ToldOn(t, t2, c, n) ==
  /\ t2 \in Seq(ToldRec) /\ Len(t2) = Len(t) + (Frames(n) + 1) /\ \A i \in 1 .. Len(t) : t2[i] = t[i]
  /\ \A j \in 1 .. Frames(n) + 1 : t2[Len(t) + j] = [call |-> c, end |-> Reach(n, j - 1)]

LEMMA ToldMore ==
  ASSUME NEW t \in Seq(ToldRec), NEW c \in Nat, NEW n \in Nat
  PROVE  \E t2 : ToldOn(t, t2, c, n)
<1> DEFINE m == Frames(n) + 1
           more == [j \in 1 .. m |-> [call |-> c, end |-> Reach(n, j - 1)]]
           t2 == t \o more
<1>1. m \in Nat /\ Len(t) \in Nat /\ \A j \in 1 .. m : [call |-> c, end |-> Reach(n, j - 1)] \in ToldRec
  <2>1. m \in Nat /\ Len(t) \in Nat /\ \A j \in 1 .. m : Reach(n, j - 1) \in Nat
    <3>1. Frames(n) \in Nat /\ \A j \in 1 .. Frames(n) + 1 : Reach(n, j - 1) \in Nat
      BY ReachTyped
    <3>2. Len(t) \in Nat
      BY LenProperties
    <3> QED
      BY <3>1, <3>2
  <2> HIDE DEF m
  <2> QED
    BY <2>1 DEF ToldRec
<1>2. \A j \in 1 .. m : more[j] = [call |-> c, end |-> Reach(n, j - 1)]
  OBVIOUS
<1>3. more \in [1 .. m -> ToldRec]
  BY <1>1
<1> HIDE DEF m, more
<1>4. more \in Seq(ToldRec) /\ Len(more) = m
  BY <1>1, <1>3
<1>5. t2 \in Seq(ToldRec) /\ Len(t2) = Len(t) + Len(more)
      /\ \A i \in 1 .. Len(t) + Len(more) : t2[i] = IF i <= Len(t) THEN t[i] ELSE more[i - Len(t)]
  BY <1>4, ConcatProperties
<1> HIDE DEF t2
<1>6. ASSUME NEW i \in 1 .. Len(t) PROVE t2[i] = t[i]
  <2>1. i \in 1 .. Len(t) + Len(more) /\ i <= Len(t)
    BY <1>1, <1>4
  <2> QED
    BY <2>1, <1>5
<1>7. ASSUME NEW j \in 1 .. m PROVE t2[Len(t) + j] = [call |-> c, end |-> Reach(n, j - 1)]
  <2>1. Len(t) + j \in 1 .. Len(t) + Len(more) /\ ~(Len(t) + j <= Len(t)) /\ (Len(t) + j) - Len(t) = j
    BY <1>1, <1>4
  <2>2. t2[Len(t) + j] = more[j]
    BY <2>1, <1>5
  <2> QED
    BY <2>2, <1>2
<1>8. ToldOn(t, t2, c, n)
  BY <1>4, <1>5, <1>6, <1>7 DEF ToldOn, m
<1> QED
  BY <1>8

LEMMA SubSeqFrom ==
  ASSUME NEW d \in Seq(Piece), NEW from \in Nat, NEW to \in from .. Len(d)
  PROVE  /\ SubSeq(d, from + 1, to) \in Seq(Piece) /\ Len(SubSeq(d, from + 1, to)) = to - from
         /\ \A m \in 1 .. to - from : SubSeq(d, from + 1, to)[m] = d[from + m]
<1>1. Len(d) \in Nat /\ to \in Nat
  BY LenProperties
<1>2. \A m \in 1 .. to - from : (from + 1) + m - 1 = from + m
  BY <1>1
<1>3. from + 1 \in 1 .. Len(d) + 1 /\ to \in from + 1 - 1 .. Len(d) /\ to - (from + 1) + 1 = to - from
  BY <1>1
<1> QED
  BY <1>1, <1>2, <1>3, SubSeqProperties

(* A frame of a draft that is sent again.                                  *)
ReplayedFrame(fr, number, c, d, j) ==
  /\ fr \in FrameRec /\ fr.seq = number + j /\ fr.call = c
  /\ j = 1 => fr.kind = "reset"
  /\ j > 1 => fr.kind = "delta"
  /\ j > 1 => fr.text = SubSeq(d, Reach(Len(d), j - 2) + 1, Reach(Len(d), j - 1))

LEMMA ReplayedFits ==
  ASSUME NEW t \in Seq(ToldRec), NEW t2, NEW c \in Nat, NEW d \in Seq(Piece), Gapless(c, d), ToldOn(t, t2, c, Len(d)),
         NEW j \in 1 .. Frames(Len(d)) + 1, NEW fr, ReplayedFrame(fr, Len(t), c, d, j)
  PROVE  FrameFits(t2, fr)
<1> DEFINE n == Len(d)
           k == Frames(n)
           s == Len(t)
<1>1. n \in Nat /\ k \in Nat /\ s \in Nat
  BY ReachTyped, LenProperties
<1>2. \A i \in 1 .. k : Reach(n, i) \in Nat /\ Reach(n, i - 1) \in Nat /\ Reach(n, i - 1) <= Reach(n, i) /\ Reach(n, i) <= n
  BY <1>1, FramesOfDraft
<1>3. fr \in FrameRec /\ fr.seq = s + j /\ fr.call = c /\ (j = 1 => fr.kind = "reset")
      /\ (j > 1 => fr.kind = "delta") /\ (j > 1 => fr.text = SubSeq(d, Reach(n, j - 2) + 1, Reach(n, j - 1)))
  BY DEF ReplayedFrame
<1>4. Len(t2) = s + (k + 1) /\ \A i \in 1 .. k + 1 : t2[s + i] = [call |-> c, end |-> Reach(n, i - 1)]
  BY DEF ToldOn
<1>5. Reach(n, 0) = 0
  BY <1>1, ReachTyped
<1>6. \A m \in 1 .. n : d[m] = <<c, m>>
  BY GaplessIff
<1>7. j \in 1 .. k + 1
  OBVIOUS
<1> HIDE DEF n, k, s
<1>8. fr.seq \in 1 .. Len(t2)
  BY <1>1, <1>3, <1>4, <1>7
<1>9. t2[fr.seq] = [call |-> c, end |-> Reach(n, j - 1)]
  BY <1>3, <1>4, <1>7
<1>10. t2[fr.seq].call = c /\ t2[fr.seq].end = Reach(n, j - 1)
  BY <1>9
<1>11. CASE j = 1
  <2>1. t2[fr.seq].end = 0 /\ fr.kind # "delta"
    BY <1>3, <1>5, <1>10, <1>11
  <2> QED
    BY <2>1, <1>3, <1>8, <1>10 DEF FrameFits
<1>12. CASE j > 1
  <2> DEFINE from == Reach(n, j - 2)
             to == Reach(n, j - 1)
  <2>1. j - 1 \in 1 .. k /\ (j - 1) - 1 = j - 2 /\ j - 1 \in 1 .. k + 1
    BY <1>1, <1>7, <1>12
  <2>2. from \in Nat /\ to \in Nat /\ from <= to /\ to <= n
    BY <2>1, <1>2
  <2>3. fr.seq - 1 = s + (j - 1) /\ fr.seq > 1
    BY <1>1, <1>3, <1>7, <1>12
  <2>4. t2[fr.seq - 1] = [call |-> c, end |-> from]
    BY <2>1, <2>3, <1>4
  <2>5. fr.text = SubSeq(d, from + 1, to) /\ t2[fr.seq].end = to
    BY <1>3, <1>10, <1>12
  <2> HIDE DEF from, to
  <2>6. t2[fr.seq - 1].call = c /\ t2[fr.seq - 1].end = from
    BY <2>4
  <2>8. Len(fr.text) = to - from /\ \A m \in 1 .. to - from : fr.text[m] = d[from + m]
    <3>1. to \in from .. Len(d)
      BY <2>2, <1>1 DEF n
    <3> QED
      BY <2>2, <2>5, <3>1, SubSeqFrom
  <2>9. ASSUME NEW m \in 1 .. to - from PROVE fr.text[m] = <<c, from + m>>
    <3>1. from + m \in 1 .. n
      BY <2>2, <1>1
    <3> QED
      BY <3>1, <2>8, <1>6
  <2>10. to = from + (to - from)
    BY <2>2
  <2> QED
    BY <2>3, <2>5, <2>6, <2>8, <2>9, <2>10, <1>3, <1>8, <1>10, <1>12 DEF FrameFits
<1>13. j = 1 \/ j > 1
  BY <1>1, <1>7
<1> QED
  BY <1>11, <1>12, <1>13

(* A draft sent again: a frame that starts over, and its pieces in frames  *)
(* of FrameLimit.                                                          *)
LEMMA ReplayFits ==
  ASSUME NEW b \in BufferRec, NEW b2, NEW t, BufferFits(t, b), NEW d \in Seq(Piece), Gapless(b.call, d),
         b2.batch = <<>>, b2.seq = b.seq + 1 + Frames(Len(d)), b2.call = b.call, b2.draft = d,
         b2.pending \in Seq(FrameRec), Len(b2.pending) = Frames(Len(d)) + 1,
         \A j \in 1 .. Frames(Len(d)) + 1 : ReplayedFrame(b2.pending[j], b.seq, b.call, d, j)
  PROVE  \E t2 : BufferFits(t2, b2) /\ Retold(t, Sent(b), t2, Sent(b2))
<1> DEFINE k == Frames(Len(d))
<1>1. b.seq \in Nat /\ b.call \in Nat /\ t \in Seq(ToldRec) /\ Len(t) = b.seq
      /\ Len(Queue(b)) \in Nat /\ Len(Queue(b)) <= b.seq /\ Len(d) \in Nat /\ k \in Nat
  BY BufferTyped, LenProperties, ReachTyped DEF BufferFits
<1>2. PICK t2 : ToldOn(t, t2, b.call, Len(d))
  BY <1>1, ToldMore
<1>3. \A j \in 1 .. k + 1 : FrameFits(t2, b2.pending[j])
  BY <1>1, <1>2, ReplayedFits
<1>4. t2 \in Seq(ToldRec) /\ Len(t2) = b.seq + (k + 1) /\ (\A i \in 1 .. b.seq : t2[i] = t[i])
      /\ \A j \in 1 .. k + 1 : t2[b.seq + j] = [call |-> b.call, end |-> Reach(Len(d), j - 1)]
  BY <1>1, <1>2 DEF ToldOn
<1>5. Queue(b2) = b2.pending
  BY ConcatEmptySeq DEF Queue
<1>6. Len(b2.pending) = k + 1 /\ b2.seq = b.seq + 1 + k /\ \A j \in 1 .. k + 1 : b2.pending[j].seq = b.seq + j
  BY DEF ReplayedFrame
<1>7. Reach(Len(d), k) = Len(d)
  BY <1>1, ReachTyped
<1> HIDE DEF k
<1>8. Len(Queue(b2)) = k + 1 /\ Sent(b2) = b.seq /\ b2.seq = b.seq + (k + 1) /\ Len(Queue(b2)) <= b2.seq /\ b2.seq # 0
  BY <1>1, <1>5, <1>6 DEF Sent
<1>9. QueueFits(t2, b2)
  BY <1>3, <1>5, <1>6, <1>8 DEF QueueFits
<1>10. DraftFits(t2, b2)
  <2>1. k + 1 \in 1 .. k + 1 /\ (k + 1) - 1 = k
    BY <1>1
  <2>2. t2[b2.seq] = [call |-> b.call, end |-> Len(d)]
    BY <2>1, <1>4, <1>7, <1>8
  <2> QED
    BY <2>2, <1>8 DEF DraftFits
<1>11. BufferFits(t2, b2)
  BY <1>4, <1>8, <1>9, <1>10 DEF BufferFits
<1>12. Retold(t, Sent(b), t2, Sent(b2))
  <2>1. Sent(b) \in Nat /\ Sent(b) <= b.seq
    BY <1>1 DEF Sent
  <2>2. \A i \in 1 .. Sent(b) : i \in 1 .. b.seq
    BY <2>1, <1>1
  <2> QED
    BY <2>1, <2>2, <1>1, <1>4, <1>8 DEF Retold
<1> QED
  BY <1>11, <1>12

-----------------------------------------------------------------------------
(* Preview: the operations of a buffer *)

(* What a buffer becomes keeps what its frames that left have told.        *)
Keeps(b, b2) ==
  /\ b2 \in BufferRec /\ (b2.enabled => b2.call # 0)
  /\ \A t : BufferFits(t, b) => \E t2 : BufferFits(t2, b2) /\ Retold(t, Sent(b), t2, Sent(b2))
Goes(b, b2) == Keeps(b, b2) /\ b2.consumer = b.consumer

LEMMA SentTyped ==
  ASSUME NEW b \in BufferRec, NEW t, BufferFits(t, b)
  PROVE  /\ Sent(b) \in Nat /\ Sent(b) <= b.seq /\ Len(t) = b.seq /\ t \in Seq(ToldRec)
         /\ Retold(t, Sent(b), t, Sent(b))
<1>1. b.seq \in Nat /\ Len(Queue(b)) \in Nat /\ Len(Queue(b)) <= b.seq /\ Len(t) = b.seq /\ t \in Seq(ToldRec)
  BY BufferTyped DEF BufferFits
<1>2. Sent(b) \in Nat /\ Sent(b) <= b.seq
  BY <1>1 DEF Sent
<1> QED
  BY <1>1, <1>2 DEF Retold

LEMMA SameGoes ==
  ASSUME NEW b \in BufferRec, b.enabled => b.call # 0
  PROVE  Goes(b, b)
  BY SentTyped DEF Goes, Keeps

LEMMA ResetGoes ==
  ASSUME NEW b \in BufferRec, b.enabled => b.call # 0, NEW call \in Nat, NEW version \in Nat,
         NEW enabled \in BOOLEAN, enabled => call # 0
  PROVE  Goes(b, Reset(b, call, version, enabled))
<1>1. CASE b.closed
  BY <1>1, SameGoes DEF Reset
<1>2. CASE ~b.closed
  <2> DEFINE fr == [version |-> version, call |-> call, seq |-> b.seq + 1, kind |-> "reset", text |-> <<>>]
             b2 == Reset(b, call, version, enabled)
  <2>1. b.seq \in Nat /\ b.consumer \in Nat /\ b.closed \in BOOLEAN
    BY BufferTyped
  <2>2. fr \in FrameRec /\ fr.kind = "reset" /\ fr.seq = b.seq + 1 /\ fr.call = call
    BY <2>1 DEF FrameRec
  <2>3. b2 = [version |-> version, call |-> call, enabled |-> enabled, draft |-> <<>>, seq |-> b.seq + 1,
              pending |-> <<fr>>, batch |-> <<>>, consumer |-> b.consumer, closed |-> b.closed]
    BY <1>2 DEF Reset, Frame, BufferRec
  <2> HIDE DEF fr, b2
  <2>4. b2 \in BufferRec
    BY <2>1, <2>2, <2>3 DEF BufferRec
  <2>5. b2.batch = <<>> /\ b2.pending = <<fr>> /\ b2.seq = b.seq + 1 /\ b2.draft = <<>> /\ b2.call = call
        /\ b2.consumer = b.consumer /\ b2.enabled = enabled
    BY <2>3
  <2>6. ASSUME NEW t, BufferFits(t, b)
        PROVE  \E t2 : BufferFits(t2, b2) /\ Retold(t, Sent(b), t2, Sent(b2))
    BY <2>2, <2>4, <2>5, <2>6, StartedFits
  <2>7. Goes(b, b2)
    BY <2>4, <2>5, <2>6 DEF Goes, Keeps
  <2> QED
    BY <2>7 DEF b2
<1> QED
  BY <1>1, <1>2

(* The frames of a draft that is sent again.                               *)
LEMMA ReplayFrames ==
  ASSUME NEW b \in BufferRec, ~b.closed, b.call # 0
  PROVE  LET r == Replay(b)
             k == Frames(Len(b.draft))
         IN /\ r \in BufferRec /\ r.batch = <<>> /\ r.seq = b.seq + 1 + k /\ r.call = b.call /\ r.draft = b.draft
            /\ r.consumer = b.consumer /\ r.enabled = b.enabled
            /\ r.pending \in Seq(FrameRec) /\ Len(r.pending) = k + 1
            /\ \A j \in 1 .. k + 1 : ReplayedFrame(r.pending[j], b.seq, b.call, b.draft, j)
<1> DEFINE d == b.draft
           n == Len(d)
           k == Frames(n)
           part(i) == SubSeq(d, (i - 1) * FrameLimit + 1, IF i = k THEN n ELSE i * FrameLimit)
           one == Frame(b, 1, "reset", <<>>)
           many == [i \in 1 .. k |-> Frame(b, i + 1, "delta", part(i))]
           p == <<one>> \o many
           r == Replay(b)
<1>1. /\ b.version \in Nat /\ b.call \in Nat /\ b.enabled \in BOOLEAN /\ d \in Seq(Piece) /\ b.seq \in Nat
      /\ b.consumer \in Nat /\ b.closed \in BOOLEAN /\ n \in Nat
  BY BufferTyped
<1>2. k \in Nat /\ \A i \in 1 .. k : /\ Reach(n, i - 1) = (i - 1) * FrameLimit /\ Reach(n, i) \in Nat /\ Reach(n, i - 1) \in Nat
                                     /\ Reach(n, i - 1) <= Reach(n, i) /\ Reach(n, i) <= n
  BY <1>1, FramesOfDraft
<1>3. r = [b EXCEPT !.batch = <<>>, !.seq = @ + 1 + k, !.pending = p]
  BY DEF Replay, Frames
<1>4. r = [version |-> b.version, call |-> b.call, enabled |-> b.enabled, draft |-> d, seq |-> b.seq + 1 + k,
           pending |-> p, batch |-> <<>>, consumer |-> b.consumer, closed |-> b.closed]
  <2> HIDE DEF p, k, d, r
  <2> QED
    BY <1>3 DEF BufferRec, d
<1>5. \A i \in 1 .. k : part(i) = SubSeq(d, Reach(n, i - 1) + 1, Reach(n, i))
  <2> SUFFICES ASSUME NEW i \in 1 .. k PROVE part(i) = SubSeq(d, Reach(n, i - 1) + 1, Reach(n, i))
    OBVIOUS
  <2>1. i # 0 /\ Reach(n, i - 1) = (i - 1) * FrameLimit
    BY <1>2
  <2>2. Reach(n, i) = IF i = k THEN n ELSE i * FrameLimit
    BY <2>1 DEF Reach
  <2> HIDE DEF n, d, k
  <2> QED
    BY <2>1, <2>2
<1> HIDE DEF part
<1>6. \A i \in 1 .. k : part(i) \in Seq(Piece)
  <2> SUFFICES ASSUME NEW i \in 1 .. k PROVE part(i) \in Seq(Piece)
    OBVIOUS
  <2>1. Reach(n, i - 1) \in Nat /\ Reach(n, i) \in Reach(n, i - 1) .. n
    BY <1>2, <1>1
  <2>2. SubSeq(d, Reach(n, i - 1) + 1, Reach(n, i)) \in Seq(Piece)
    BY <1>1, <2>1, SubSeqFrom
  <2> QED
    BY <2>2, <1>5
<1>7. \A i \in 1 .. k : many[i] = [version |-> b.version, call |-> b.call, seq |-> b.seq + (i + 1), kind |-> "delta", text |-> part(i)]
  BY DEF Frame
<1>8. one = [version |-> b.version, call |-> b.call, seq |-> b.seq + 1, kind |-> "reset", text |-> <<>>]
  BY DEF Frame
<1>9. one \in FrameRec /\ \A i \in 1 .. k : many[i] \in FrameRec
  <2>1. one \in FrameRec
    <3> HIDE DEF one, many, n, k, d
    <3> QED
      BY <1>1, <1>8 DEF FrameRec
  <2>2. \A i \in 1 .. k : b.seq + (i + 1) \in Nat
    BY <1>1, <1>2
  <2> HIDE DEF one, many, n, k, d
  <2>3. ASSUME NEW i \in 1 .. k PROVE many[i] \in FrameRec
    <3> DEFINE q == b.seq + (i + 1)
               x == part(i)
    <3>1. q \in Nat /\ x \in Seq(Piece)
          /\ many[i] = [version |-> b.version, call |-> b.call, seq |-> q, kind |-> "delta", text |-> x]
      BY <1>6, <1>7, <2>2
    <3> HIDE DEF q, x
    <3> QED
      BY <1>1, <3>1 DEF FrameRec
  <2> QED
    BY <2>1, <2>3
<1>10. many = [i \in 1 .. k |-> many[i]]
  OBVIOUS
<1> HIDE DEF one, many
<1>11. many \in Seq(FrameRec) /\ Len(many) = k
  <2> HIDE DEF k
  <2>1. many \in [1 .. k -> FrameRec]
    BY <1>9, <1>10
  <2> QED
    BY <2>1, <1>2
<1>12. <<one>> \in Seq(FrameRec) /\ Len(<<one>>) = 1 /\ <<one>>[1] = one
  BY <1>9
<1>13. p \in Seq(FrameRec) /\ Len(p) = 1 + k
       /\ \A j \in 1 .. 1 + k : p[j] = IF j <= 1 THEN <<one>>[j] ELSE many[j - 1]
  <2> DEFINE o == <<one>>
  <2>1. o \in Seq(FrameRec) /\ Len(o) = 1
    BY <1>12
  <2> HIDE DEF o, k
  <2>2. o \o many \in Seq(FrameRec)
    BY <2>1, <1>11, ConcatProperties
  <2>3. Len(o \o many) = 1 + k /\ \A j \in 1 .. 1 + k : (o \o many)[j] = IF j <= 1 THEN o[j] ELSE many[j - 1]
    <3>1. Len(o \o many) = Len(o) + Len(many)
          /\ \A j \in 1 .. Len(o) + Len(many) : (o \o many)[j] = IF j <= Len(o) THEN o[j] ELSE many[j - Len(o)]
      BY <2>1, <1>11, FramesConcat
    <3> QED
      BY <3>1, <2>1, <1>11
  <2> QED
    BY <2>2, <2>3 DEF o
<1> HIDE DEF p, r
<1>14. ASSUME NEW j \in 1 .. k + 1
       PROVE  ReplayedFrame(p[j], b.seq, b.call, d, j)
  <2>1. CASE j = 1
    <3>1. p[j] = one
      BY <2>1, <1>2, <1>12, <1>13
    <3> QED
      BY <3>1, <2>1, <1>8, <1>9 DEF ReplayedFrame
  <2>2. CASE j > 1
    <3>1. j - 1 \in 1 .. k /\ j \in 1 .. 1 + k /\ ~(j <= 1) /\ (j - 1) + 1 = j /\ (j - 1) - 1 = j - 2 /\ j # 1
      BY <2>2, <1>2
    <3>2. p[j] = many[j - 1]
      BY <3>1, <1>13
    <3>3. p[j] \in FrameRec
      BY <3>1, <3>2, <1>9
    <3>4. p[j] = [version |-> b.version, call |-> b.call, seq |-> b.seq + ((j - 1) + 1), kind |-> "delta", text |-> part(j - 1)]
      BY <3>1, <3>2, <1>7
    <3>5. part(j - 1) = SubSeq(d, Reach(n, j - 2) + 1, Reach(n, j - 1))
      <4>1. part(j - 1) = SubSeq(d, Reach(n, (j - 1) - 1) + 1, Reach(n, j - 1))
        BY <3>1, <1>5
      <4> QED
        BY <4>1, <3>1
    <3>6. p[j].seq = b.seq + j /\ p[j].call = b.call /\ p[j].kind = "delta" /\ p[j].text = part(j - 1)
      BY <3>1, <3>4
    <3> QED
      BY <3>1, <3>3, <3>5, <3>6 DEF ReplayedFrame, n
  <2>3. j = 1 \/ j > 1
    BY <1>2
  <2> QED
    BY <2>1, <2>2, <2>3
<1>15. r.batch = <<>> /\ r.seq = b.seq + 1 + k /\ r.call = b.call /\ r.draft = d /\ r.pending = p
       /\ r.consumer = b.consumer /\ r.enabled = b.enabled
  BY <1>4
<1>16. r \in BufferRec
  <2>1. b.seq + 1 + k \in Nat
    BY <1>1, <1>2
  <2>2. p \in Seq(FrameRec) /\ <<>> \in Seq(FrameRec)
    BY <1>13
  <2> HIDE DEF d, k
  <2> QED
    BY <1>1, <1>4, <2>1, <2>2 DEF BufferRec
<1>17. Len(p) = k + 1
  BY <1>2, <1>13
<1> QED
  BY <1>13, <1>14, <1>15, <1>16, <1>17 DEF d, n, k, r

LEMMA ReplayGoes ==
  ASSUME NEW b \in BufferRec, NEW b1 \in BufferRec, b1.seq = b.seq, b1.call = b.call, b1.consumer = b.consumer,
         b1.enabled = b.enabled, b.enabled => b.call # 0, ~b1.closed, b.call # 0,
         \A t : BufferFits(t, b) => Gapless(b.call, b1.draft)
  PROVE  Goes(b, Replay(b1))
<1> DEFINE r == Replay(b1)
           d == b1.draft
<1>1. /\ r \in BufferRec /\ r.batch = <<>> /\ r.seq = b.seq + 1 + Frames(Len(d)) /\ r.call = b.call /\ r.draft = d
      /\ r.consumer = b.consumer /\ r.enabled = b.enabled
      /\ r.pending \in Seq(FrameRec) /\ Len(r.pending) = Frames(Len(d)) + 1
      /\ \A j \in 1 .. Frames(Len(d)) + 1 : ReplayedFrame(r.pending[j], b.seq, b.call, d, j)
  BY ReplayFrames
<1>2. d \in Seq(Piece)
  BY BufferTyped
<1> HIDE DEF r, d
<1>3. ASSUME NEW t, BufferFits(t, b)
      PROVE  \E t2 : BufferFits(t2, r) /\ Retold(t, Sent(b), t2, Sent(r))
  <2>1. Gapless(b.call, d)
    BY <1>3 DEF d
  <2> QED
    BY <1>1, <1>2, <1>3, <2>1, ReplayFits
<1>4. Goes(b, r)
  BY <1>1, <1>3 DEF Goes, Keeps
<1> QED
  BY <1>4 DEF r

LEMMA ClosedGoes ==
  ASSUME NEW b \in BufferRec
  PROVE  Goes(b, Closed(b)) /\ Closed(b).closed
<1> DEFINE c == Closed(b)
<1>1. c = [version |-> b.version, call |-> b.call, enabled |-> FALSE, draft |-> <<>>, seq |-> b.seq,
           pending |-> b.pending, batch |-> b.batch, consumer |-> b.consumer, closed |-> TRUE]
  <2>1. b = [version |-> b.version, call |-> b.call, enabled |-> b.enabled, draft |-> b.draft, seq |-> b.seq,
             pending |-> b.pending, batch |-> b.batch, consumer |-> b.consumer, closed |-> b.closed]
    BY DEF BufferRec
  <2>2. c = [b EXCEPT !.closed = TRUE, !.enabled = FALSE, !.draft = <<>>]
    BY DEF Closed
  <2> HIDE DEF c
  <2> QED
    BY <2>1, <2>2
<1> HIDE DEF c
<1>2. c \in BufferRec
  BY <1>1, BufferTyped DEF BufferRec
<1>3. c.call = b.call /\ c.enabled = FALSE /\ c.draft = <<>> /\ c.seq = b.seq /\ c.pending = b.pending
      /\ c.batch = b.batch /\ c.consumer = b.consumer /\ c.closed = TRUE
  BY <1>1
<1>4. Queue(c) = Queue(b) /\ Sent(c) = Sent(b)
  BY <1>3 DEF Queue, Sent
<1>5. ASSUME NEW t, BufferFits(t, b)
      PROVE  BufferFits(t, c) /\ Retold(t, Sent(b), t, Sent(c))
  <2>1. QueueFits(t, c)
    BY <1>4, <1>5 DEF BufferFits, QueueFits
  <2>2. DraftFits(t, c) /\ Gapless(c.call, c.draft)
    BY <1>3, EmptyDraft DEF DraftFits
  <2>3. BufferFits(t, c)
    BY <2>1, <2>2, <1>3, <1>4, <1>5 DEF BufferFits
  <2> QED
    BY <2>3, <1>4, <1>5, SentTyped
<1>6. Goes(b, c)
  BY <1>2, <1>3, <1>5 DEF Goes, Keeps
<1> QED
  BY <1>3, <1>6 DEF c
LEMMA PushGoes ==
  ASSUME NEW b \in BufferRec, b.enabled, b.call # 0, ~b.closed
  PROVE  Goes(b, Pushed(b, <<b.call, Len(b.draft) + 1>>))
<1> DEFINE piece == <<b.call, Len(b.draft) + 1>>
           new == [b EXCEPT !.draft = Append(@, piece)]
           n == Len(b.pending)
           joins == n > 0 /\ b.pending[n].kind = "delta"
           p == Pushed(b, piece)
<1>1. /\ b.version \in Nat /\ b.call \in Nat /\ b.draft \in Seq(Piece) /\ b.seq \in Nat /\ b.pending \in Seq(FrameRec)
      /\ b.batch \in Seq(FrameRec) /\ b.consumer \in Nat /\ Len(b.draft) \in Nat /\ n \in Nat
  BY BufferTyped
<1>2. piece \in Piece
  BY <1>1 DEF Piece
<1>3. Append(b.draft, piece) \in Seq(Piece)
  BY <1>1, <1>2, PieceAppend
<1>4. new = [version |-> b.version, call |-> b.call, enabled |-> b.enabled, draft |-> Append(b.draft, piece), seq |-> b.seq,
             pending |-> b.pending, batch |-> b.batch, consumer |-> b.consumer, closed |-> b.closed]
  <2>1. b = [version |-> b.version, call |-> b.call, enabled |-> b.enabled, draft |-> b.draft, seq |-> b.seq,
             pending |-> b.pending, batch |-> b.batch, consumer |-> b.consumer, closed |-> b.closed]
    BY DEF BufferRec
  <2> DEFINE x == Append(b.draft, piece)
  <2>2. new = [b EXCEPT !.draft = x]
    OBVIOUS
  <2> HIDE DEF x, new
  <2>3. new = [version |-> b.version, call |-> b.call, enabled |-> b.enabled, draft |-> x, seq |-> b.seq,
             pending |-> b.pending, batch |-> b.batch, consumer |-> b.consumer, closed |-> b.closed]
    BY <2>1, <2>2
  <2> QED
    BY <2>3 DEF x
<1>5. new \in BufferRec
  BY <1>1, <1>3, <1>4 DEF BufferRec
<1>6. new.call = b.call /\ new.enabled = b.enabled /\ new.draft = Append(b.draft, piece) /\ new.seq = b.seq
      /\ new.version = b.version
      /\ new.pending = b.pending /\ new.batch = b.batch /\ new.consumer = b.consumer /\ new.closed = b.closed
  BY <1>4
<1>7. CASE Len(b.draft) + 1 > DraftLimit
  <2>1. p = Reset(b, b.call, b.version, FALSE)
    BY <1>7 DEF Pushed
  <2> HIDE DEF p
  <2> QED
    BY <2>1, <1>1, ResetGoes DEF p
<1>8. CASE ~(Len(b.draft) + 1 > DraftLimit) /\ joins /\ Len(b.pending[n].text) + 1 > FrameLimit
  <2>1. p = Replay(new)
    BY <1>8 DEF Pushed
  <2>2. ASSUME NEW t, BufferFits(t, b) PROVE Gapless(b.call, new.draft)
    BY <2>2, <1>1, <1>6, GaplessAppend DEF BufferFits
  <2> HIDE DEF new, p
  <2>3. Goes(b, Replay(new))
    BY <2>2, <1>5, <1>6, ReplayGoes
  <2> QED
    BY <2>1, <2>3 DEF p
<1>9. CASE ~(Len(b.draft) + 1 > DraftLimit) /\ joins /\ ~(Len(b.pending[n].text) + 1 > FrameLimit)
  <2> DEFINE old == b.pending[n]
             fr == [old EXCEPT !.text = Append(@, piece)]
             q == [b.pending EXCEPT ![n] = fr]
  <2>1. old \in FrameRec /\ n > 0 /\ old.kind = "delta"
    <3>1. n \in 1 .. n
      BY <1>1, <1>9
    <3> QED
      BY <3>1, <1>1, <1>9
  <2>2. old.text \in Seq(Piece)
    BY <2>1 DEF FrameRec
  <2>3. Append(old.text, piece) \in Seq(Piece)
    BY <2>2, <1>2, PieceAppend
  <2>4. fr = [version |-> old.version, call |-> old.call, seq |-> old.seq, kind |-> old.kind, text |-> Append(old.text, piece)]
    <3>1. old = [version |-> old.version, call |-> old.call, seq |-> old.seq, kind |-> old.kind, text |-> old.text]
      <4> HIDE DEF old
      <4> QED
        BY <2>1 DEF FrameRec
    <3> DEFINE x == Append(old.text, piece)
    <3>2. fr = [old EXCEPT !.text = x]
      OBVIOUS
    <3> HIDE DEF x, old, fr
    <3>3. fr = [version |-> old.version, call |-> old.call, seq |-> old.seq, kind |-> old.kind, text |-> x]
      BY <3>1, <3>2
    <3> QED
      BY <3>3 DEF x
  <2>5. fr \in FrameRec
    <3> DEFINE x == Append(old.text, piece)
    <3> HIDE DEF x, old, fr
    <3> QED
      BY <2>1, <2>3, <2>4 DEF FrameRec, x
  <2>6. fr.kind = "delta" /\ fr.seq = old.seq /\ fr.call = old.call /\ fr.text = Append(old.text, piece)
    BY <2>1, <2>4
  <2>7. p = [new EXCEPT !.pending[n].text = Append(@, piece)]
    BY <1>9 DEF Pushed
  <2>8. p = [version |-> b.version, call |-> b.call, enabled |-> b.enabled, draft |-> Append(b.draft, piece), seq |-> b.seq,
             pending |-> q, batch |-> b.batch, consumer |-> b.consumer, closed |-> b.closed]
    <3> DEFINE x == Append(b.draft, piece)
    <3> HIDE DEF x, p, piece
    <3> QED
      BY <1>4, <2>7 DEF x
  <2>9. q \in Seq(FrameRec)
    <3> HIDE DEF fr
    <3> QED
      BY <1>1, <2>1, <2>5
  <2> HIDE DEF p, q, fr, old, new
  <2>10. p \in BufferRec
    BY <1>1, <1>3, <2>8, <2>9 DEF BufferRec
  <2>11. p.batch = b.batch /\ p.pending = q /\ p.seq = b.seq /\ p.call = b.call /\ p.draft = Append(b.draft, piece)
         /\ p.consumer = b.consumer /\ p.enabled = b.enabled
    BY <2>8
  <2>12. ASSUME NEW t, BufferFits(t, b)
         PROVE  \E t2 : BufferFits(t2, p) /\ Retold(t, Sent(b), t2, Sent(p))
    BY <2>12, <2>1, <2>5, <2>6, <2>10, <2>11, JoinedFits DEF old, q
  <2>13. Goes(b, p)
    BY <2>10, <2>11, <2>12 DEF Goes, Keeps
  <2> QED
    BY <2>13 DEF p
<1>10. CASE ~(Len(b.draft) + 1 > DraftLimit) /\ ~joins
  <2> DEFINE text == <<piece>>
             fr == [version |-> b.version, call |-> b.call, seq |-> b.seq + 1, kind |-> "delta", text |-> text]
             q == Append(b.pending, fr)
  <2>1. text \in Seq(Piece)
    BY <1>2
  <2>2. fr \in FrameRec /\ fr.kind = "delta" /\ fr.seq = b.seq + 1 /\ fr.call = b.call /\ fr.text = text
    <3> HIDE DEF text
    <3> QED
      BY <2>1, <1>1 DEF FrameRec
  <2>3. p = [new EXCEPT !.pending = Append(@, fr), !.seq = @ + 1]
    BY <1>10 DEF Pushed, Frame
  <2>4. q \in Seq(FrameRec)
    <3> HIDE DEF fr
    <3> QED
      BY <1>1, <2>2
  <2>5. p = [version |-> b.version, call |-> b.call, enabled |-> b.enabled, draft |-> Append(b.draft, piece), seq |-> b.seq + 1,
             pending |-> q, batch |-> b.batch, consumer |-> b.consumer, closed |-> b.closed]
    <3> DEFINE x == Append(b.draft, piece)
    <3> HIDE DEF x, p, piece, fr
    <3> QED
      BY <1>4, <2>3 DEF x
  <2> HIDE DEF p, q, fr, new
  <2>6. p \in BufferRec
    <3> DEFINE x == Append(b.draft, piece)
    <3> HIDE DEF x
    <3> QED
      BY <1>1, <1>3, <2>4, <2>5 DEF BufferRec, x
  <2>7. p.batch = b.batch /\ p.pending = q /\ p.seq = b.seq + 1 /\ p.call = b.call /\ p.draft = Append(b.draft, piece)
         /\ p.consumer = b.consumer /\ p.enabled = b.enabled
    BY <2>5
  <2>8. ASSUME NEW t, BufferFits(t, b)
         PROVE  \E t2 : BufferFits(t2, p) /\ Retold(t, Sent(b), t2, Sent(p))
    BY <2>8, <2>2, <2>6, <2>7, FramedFits DEF q
  <2>9. Goes(b, p)
    BY <2>6, <2>7, <2>8 DEF Goes, Keeps
  <2> QED
    BY <2>9 DEF p
<1> QED
  BY <1>7, <1>8, <1>9, <1>10

LEMMA TailFrames ==
  \A x \in Seq(FrameRec) : x # <<>> =>
    /\ Tail(x) \in Seq(FrameRec) /\ Len(x) \in Nat /\ Len(x) > 0 /\ Len(Tail(x)) = Len(x) - 1
    /\ x[1] \in FrameRec /\ Head(x) = x[1] /\ \A i \in 1 .. Len(x) - 1 : Tail(x)[i] = x[i + 1]
  BY HeadTailProperties, LenProperties, EmptySeq

(* A queue without its head.                                               *)
Shifted(q2, q) == Len(q2) = Len(q) - 1 /\ \A i \in 1 .. Len(q) - 1 : q2[i] = q[i + 1]

LEMMA TailShifts ==
  ASSUME NEW x \in Seq(FrameRec), NEW y \in Seq(FrameRec), x # <<>>
  PROVE  Shifted(Tail(x) \o y, x \o y) /\ (x \o y)[1] = Head(x) /\ Len(x \o y) > 0
<1>1. /\ Tail(x) \in Seq(FrameRec) /\ Len(x) \in Nat /\ Len(x) > 0 /\ Len(Tail(x)) = Len(x) - 1
      /\ Head(x) = x[1] /\ \A i \in 1 .. Len(x) - 1 : Tail(x)[i] = x[i + 1]
  BY TailFrames
<1>2. /\ Len(y) \in Nat /\ Len(x \o y) = Len(x) + Len(y)
      /\ \A i \in 1 .. Len(x) + Len(y) : (x \o y)[i] = IF i <= Len(x) THEN x[i] ELSE y[i - Len(x)]
  BY FramesConcat
<1>3. /\ Len(Tail(x) \o y) = (Len(x) - 1) + Len(y)
     
      /\ \A i \in 1 .. (Len(x) - 1) + Len(y) : (Tail(x) \o y)[i] = IF i <= Len(x) - 1 THEN Tail(x)[i] ELSE y[i - (Len(x) - 1)]
  <2> DEFINE z == Tail(x)
  <2>1. z \in Seq(FrameRec) /\ Len(z) = Len(x) - 1
    BY <1>1
  <2> HIDE DEF z
  <2>2. Len(z \o y) = Len(z) + Len(y)
        /\ \A i \in 1 .. Len(z) + Len(y) : (z \o y)[i] = IF i <= Len(z) THEN z[i] ELSE y[i - Len(z)]
    BY <2>1, FramesConcat
  <2> QED
    BY <2>1, <2>2 DEF z
<1>4. ASSUME NEW i \in 1 .. (Len(x) - 1) + Len(y)
      PROVE  (Tail(x) \o y)[i] = (x \o y)[i + 1]
  <2>1. CASE i <= Len(x) - 1
    <3>1. i \in 1 .. Len(x) - 1 /\ i + 1 \in 1 .. Len(x) + Len(y) /\ i + 1 <= Len(x)
      BY <2>1, <1>1, <1>2
    <3> QED
      BY <3>1, <2>1, <1>1, <1>2, <1>3
  <2>2. CASE i > Len(x) - 1
    <3>1. ~(i <= Len(x) - 1) /\ ~(i + 1 <= Len(x)) /\ i + 1 \in 1 .. Len(x) + Len(y)
          /\ i - (Len(x) - 1) = (i + 1) - Len(x)
      BY <2>2, <1>1, <1>2
    <3> QED
      BY <3>1, <1>2, <1>3
  <2>3. i <= Len(x) - 1 \/ i > Len(x) - 1
    BY <1>1
  <2> QED
    BY <2>1, <2>2, <2>3
<1>5. (Len(x) - 1) + Len(y) = (Len(x) + Len(y)) - 1 /\ Len(x) + Len(y) > 0 /\ 1 \in 1 .. Len(x) + Len(y)
      /\ 1 <= Len(x)
  BY <1>1, <1>2
<1>6. (x \o y)[1] = x[1]
  BY <1>2, <1>5
<1> QED
  BY <1>1, <1>2, <1>3, <1>4, <1>5, <1>6 DEF Shifted

LEMMA NoFrames == \A x \in Seq(FrameRec) : x \o <<>> = x /\ <<>> \o x = x
  BY ConcatEmptySeq

LEMMA PulledQueue ==
  ASSUME NEW b \in BufferRec, Batch(b) # <<>>
  PROVE  LET p == Pulled(b)
         IN /\ p \in BufferRec /\ p.consumer = b.consumer /\ p.enabled = b.enabled /\ p.call = b.call
            /\ p.draft = b.draft /\ p.seq = b.seq /\ p.closed = b.closed
            /\ Shifted(Queue(p), Queue(b)) /\ Queue(b)[1] = Head(Batch(b)) /\ Len(Queue(b)) > 0
            /\ Head(Batch(b)) \in FrameRec
<1> DEFINE p == Pulled(b)
           x == Batch(b)
           y == IF b.batch = <<>> THEN <<>> ELSE b.pending
           z == Tail(x)
<1>1. /\ b.version \in Nat /\ b.call \in Nat /\ b.enabled \in BOOLEAN /\ b.draft \in Seq(Piece) /\ b.seq \in Nat
      /\ b.pending \in Seq(FrameRec) /\ b.batch \in Seq(FrameRec) /\ b.consumer \in Nat /\ b.closed \in BOOLEAN
  BY BufferTyped
<1>2. x \in Seq(FrameRec) /\ x # <<>> /\ y \in Seq(FrameRec)
  BY <1>1 DEF Batch
<1>3. Queue(b) = x \o y
  <2>1. CASE b.batch = <<>>
    <3>1. x = b.pending /\ y = <<>>
      BY <2>1 DEF Batch
    <3> HIDE DEF x, y
    <3> QED
      BY <2>1, <3>1, <1>1, NoFrames DEF Queue
  <2>2. CASE b.batch # <<>>
    BY <2>2 DEF Batch, Queue
  <2> QED
    BY <2>1, <2>2
<1>4. z \in Seq(FrameRec) /\ Head(x) = x[1] /\ x[1] \in FrameRec
  <2> HIDE DEF x
  <2> QED
    BY <1>2, TailFrames
<1>5. p = [version |-> b.version, call |-> b.call, enabled |-> b.enabled, draft |-> b.draft, seq |-> b.seq,
           pending |-> y, batch |-> z, consumer |-> b.consumer, closed |-> b.closed]
  <2>1. b = [version |-> b.version, call |-> b.call, enabled |-> b.enabled, draft |-> b.draft, seq |-> b.seq,
             pending |-> b.pending, batch |-> b.batch, consumer |-> b.consumer, closed |-> b.closed]
    BY DEF BufferRec
  <2>2. p = [b EXCEPT !.batch = z, !.pending = y]
    BY DEF Pulled
  <2> HIDE DEF p, x, y, z
  <2> QED
    BY <2>1, <2>2
<1> HIDE DEF p, x, y
<1>6. Shifted(z \o y, x \o y) /\ (x \o y)[1] = Head(x) /\ Len(x \o y) > 0
  BY <1>2, TailShifts
<1> HIDE DEF z
<1>7. p \in BufferRec
  BY <1>1, <1>2, <1>4, <1>5 DEF BufferRec
<1>8. p.consumer = b.consumer /\ p.enabled = b.enabled /\ p.call = b.call /\ p.draft = b.draft /\ p.seq = b.seq
      /\ p.closed = b.closed /\ p.batch = z /\ p.pending = y
  BY <1>5
<1>9. Queue(p) = z \o y
  BY <1>8 DEF Queue
<1> QED
  BY <1>3, <1>4, <1>6, <1>7, <1>8, <1>9 DEF p, x

LEMMA PulledFits ==
  ASSUME NEW b \in BufferRec, Batch(b) # <<>>, NEW t, BufferFits(t, b)
  PROVE  /\ BufferFits(t, Pulled(b)) /\ Retold(t, Sent(b), t, Sent(Pulled(b)))
         /\ SentFits(t, Sent(Pulled(b)), Head(Batch(b)))
<1> DEFINE p == Pulled(b)
           q == Queue(b)
           q2 == Queue(p)
<1>1. /\ p \in BufferRec /\ p.enabled = b.enabled /\ p.call = b.call
      /\ p.draft = b.draft /\ p.seq = b.seq /\ p.closed = b.closed
      /\ Shifted(q2, q) /\ q[1] = Head(Batch(b)) /\ Len(q) > 0
  BY PulledQueue
<1>2. b.seq \in Nat /\ Len(q) \in Nat /\ Len(q) <= b.seq /\ t \in Seq(ToldRec) /\ Len(t) = b.seq
      /\ \A i \in 1 .. Len(q) : q[i].seq = Sent(b) + i /\ FrameFits(t, q[i])
  BY BufferTyped DEF BufferFits, QueueFits
<1>3. Sent(b) = b.seq - Len(q) /\ Sent(p) = b.seq - Len(q2)
  BY <1>1 DEF Sent
<1> HIDE DEF p, q
<1>4. Len(q2) = Len(q) - 1 /\ \A i \in 1 .. Len(q) - 1 : q2[i] = q[i + 1]
  BY <1>1 DEF Shifted
<1> HIDE DEF q2
<1>5. Sent(b) \in Nat /\ Sent(p) = Sent(b) + 1 /\ Sent(p) <= b.seq /\ Len(q2) <= b.seq
  BY <1>1, <1>2, <1>3, <1>4
<1>6. QueueFits(t, p)
  <2> SUFFICES ASSUME NEW i \in 1 .. Len(q2) PROVE q2[i].seq = Sent(p) + i /\ FrameFits(t, q2[i])
    BY DEF QueueFits, q2
  <2>1. q2[i] = q[i + 1] /\ i + 1 \in 1 .. Len(q) /\ Sent(b) + (i + 1) = Sent(p) + i
    BY <1>2, <1>4, <1>5
  <2> QED
    BY <2>1, <1>2
<1>7. SentFits(t, Sent(p), Head(Batch(b)))
  <2>1. 1 \in 1 .. Len(q)
    BY <1>1, <1>2
  <2> QED
    BY <2>1, <1>1, <1>2, <1>5 DEF SentFits
<1>8. DraftFits(t, p) /\ Gapless(p.call, p.draft)
  BY <1>1 DEF BufferFits, DraftFits
<1>9. BufferFits(t, p)
  BY <1>1, <1>2, <1>5, <1>6, <1>8 DEF BufferFits, q2
<1>10. Retold(t, Sent(b), t, Sent(p))
  BY <1>2, <1>5 DEF Retold
<1> QED
  BY <1>7, <1>9, <1>10 DEF p

LEMMA PullGoes ==
  ASSUME NEW b \in BufferRec, b.enabled => b.call # 0, Batch(b) # <<>>
  PROVE  Goes(b, Pulled(b)) /\ Head(Batch(b)) \in FrameRec
<1>1. Pulled(b) \in BufferRec /\ Pulled(b).consumer = b.consumer /\ Pulled(b).enabled = b.enabled
      /\ Pulled(b).call = b.call /\ Head(Batch(b)) \in FrameRec
  BY PulledQueue
<1>2. ASSUME NEW t, BufferFits(t, b)
      PROVE  \E t2 : BufferFits(t2, Pulled(b)) /\ Retold(t, Sent(b), t2, Sent(Pulled(b)))
  BY <1>2, PulledFits
<1> QED
  BY <1>1, <1>2 DEF Goes, Keeps

(* Another consumer does not change what a buffer tells.                   *)
LEMMA ConsumerKeeps ==
  ASSUME NEW b, NEW b1, Keeps(b, b1), NEW n \in Nat
  PROVE  Keeps(b, [b1 EXCEPT !.consumer = n]) /\ [b1 EXCEPT !.consumer = n].consumer = n
<1> DEFINE b2 == [b1 EXCEPT !.consumer = n]
<1>1. b1 \in BufferRec /\ (b1.enabled => b1.call # 0)
  BY DEF Keeps
<1>2. b1 = [version |-> b1.version, call |-> b1.call, enabled |-> b1.enabled, draft |-> b1.draft, seq |-> b1.seq,
            pending |-> b1.pending, batch |-> b1.batch, consumer |-> b1.consumer, closed |-> b1.closed]
  BY <1>1 DEF BufferRec
<1>3. b2 = [version |-> b1.version, call |-> b1.call, enabled |-> b1.enabled, draft |-> b1.draft, seq |-> b1.seq,
            pending |-> b1.pending, batch |-> b1.batch, consumer |-> n, closed |-> b1.closed]
  BY <1>2
<1> HIDE DEF b2
<1>4. b2 \in BufferRec
  BY <1>1, <1>3, BufferTyped DEF BufferRec
<1>5. b2.call = b1.call /\ b2.enabled = b1.enabled /\ b2.draft = b1.draft /\ b2.seq = b1.seq
      /\ b2.pending = b1.pending
      /\ b2.batch = b1.batch /\ b2.closed = b1.closed /\ b2.consumer = n
  BY <1>3
<1>6. Queue(b2) = Queue(b1) /\ Sent(b2) = Sent(b1)
  BY <1>5 DEF Queue, Sent
<1>7. ASSUME NEW t, BufferFits(t, b1) PROVE BufferFits(t, b2)
  BY <1>5, <1>6, <1>7 DEF BufferFits, QueueFits, DraftFits
<1>8. ASSUME NEW t, BufferFits(t, b)
      PROVE  \E t2 : BufferFits(t2, b2) /\ Retold(t, Sent(b), t2, Sent(b2))
  <2>1. PICK t2 : BufferFits(t2, b1) /\ Retold(t, Sent(b), t2, Sent(b1))
    BY <1>8 DEF Keeps
  <2> QED
    BY <2>1, <1>6, <1>7
<1>9. Keeps(b, b2)
  BY <1>1, <1>4, <1>5, <1>8 DEF Keeps
<1> QED
  BY <1>5, <1>9 DEF b2

-----------------------------------------------------------------------------
(* Preview: from the buffers to the screen *)

BuffersFit(told, buf) == \A f \in Fences : BufferFits(told[f], buf[f])
SentOf(buf) == [f \in Fences |-> Sent(buf[f])]
ConnFits(told, n, c) ==
  c.server \in {"queried", "admitted"} =>
    c.frame # <<>> /\ SentFits(told[c.fence], n[c.fence], Head(c.frame))
ConnsFit(told, n, cs) == \A i \in 1 .. Len(cs) : ConnFits(told, n, cs[i])
SnapshotFits(told, n, s) == ShownFits(told, n, s.fence, s.call, s.seq, s.draft)
ViewFits(told, n, v) == ShownFits(told, n, v.preview.fence, v.preview.call, v.preview.seq, v.draft)

(* Everything on its way was told as the record has it.                    *)
Tells(told, buf, cs, e, last, v) ==
  /\ told \in [Fences -> Seq(ToldRec)] /\ BuffersFit(told, buf) /\ ConnsFit(told, SentOf(buf), cs)
  /\ SnapshotFits(told, SentOf(buf), e) /\ SnapshotFits(told, SentOf(buf), last) /\ ViewFits(told, SentOf(buf), v)
ToldInv == \E told : Tells(told, buffer, conn, entry, sub.last, view)

AllRetold(told, n, told2, n2) == \A f \in Fences : Retold(told[f], n[f], told2[f], n2[f])

LEMMA ShownKept ==
  ASSUME NEW told, NEW n, NEW told2, NEW n2, AllRetold(told, n, told2, n2),
         NEW fence \in 0 .. LastFence, NEW call, NEW seq, NEW draft, ShownFits(told, n, fence, call, seq, draft)
  PROVE  ShownFits(told2, n2, fence, call, seq, draft)
<1>1. CASE fence = 0
  BY <1>1 DEF ShownFits
<1>2. CASE fence # 0
  <2>1. fence \in Fences
    BY <1>2, PreviewAssumption DEF Fences
  <2>2. Retold(told[fence], n[fence], told2[fence], n2[fence])
    BY <2>1 DEF AllRetold
  <2>3. seq \in 1 .. n[fence] /\ told[fence][seq] = [call |-> call, end |-> Len(draft)] /\ Gapless(call, draft)
    BY <1>2 DEF ShownFits
  <2>4. seq \in 1 .. n2[fence] /\ told2[fence][seq] = told[fence][seq]
    BY <2>2, <2>3 DEF Retold
  <2> QED
    BY <1>2, <2>3, <2>4 DEF ShownFits
<1> QED
  BY <1>1, <1>2

LEMMA ConnKept ==
  ASSUME NEW told \in [Fences -> Seq(ToldRec)], NEW n, NEW told2 \in [Fences -> Seq(ToldRec)], NEW n2,
         AllRetold(told, n, told2, n2), NEW c \in ConnRec, ConnFits(told, n, c)
  PROVE  ConnFits(told2, n2, c)
<1> SUFFICES ASSUME c.server \in {"queried", "admitted"}
             PROVE  c.frame # <<>> /\ SentFits(told2[c.fence], n2[c.fence], Head(c.frame))
  BY DEF ConnFits
<1>1. c.fence \in Fences /\ c.frame \in Seq(FrameRec)
  BY DEF ConnRec
<1>2. c.frame # <<>> /\ SentFits(told[c.fence], n[c.fence], Head(c.frame))
  BY DEF ConnFits
<1>3. Head(c.frame) \in FrameRec
  BY <1>1, <1>2, TailFrames
<1>4. Retold(told[c.fence], n[c.fence], told2[c.fence], n2[c.fence])
  BY <1>1 DEF AllRetold
<1>5. told[c.fence] \in Seq(ToldRec) /\ told2[c.fence] \in Seq(ToldRec)
  BY <1>1
<1> QED
  BY <1>2, <1>3, <1>4, <1>5, SentKept

Snapshots(e, last, v) == e.fence \in 0 .. LastFence /\ last.fence \in 0 .. LastFence
/\ v.preview.fence \in 0 .. LastFence

LEMMA TellsOn ==
  ASSUME NEW told, NEW buf, NEW cs \in Seq(ConnRec), NEW e, NEW last, NEW v, Snapshots(e, last, v),
         Tells(told, buf, cs, e, last, v), NEW told2 \in [Fences -> Seq(ToldRec)], NEW buf2,
         BuffersFit(told2, buf2), AllRetold(told, SentOf(buf), told2, SentOf(buf2))
  PROVE  Tells(told2, buf2, cs, e, last, v)
<1>1. ASSUME NEW i \in 1 .. Len(cs) PROVE ConnFits(told2, SentOf(buf2), cs[i])
  <2>1. cs[i] \in ConnRec /\ ConnFits(told, SentOf(buf), cs[i])
    BY DEF Tells, ConnsFit
  <2> QED
    BY <2>1, ConnKept DEF Tells
<1>2. /\ SnapshotFits(told2, SentOf(buf2), e) /\ SnapshotFits(told2, SentOf(buf2), last)
      /\ ViewFits(told2, SentOf(buf2), v)
  BY ShownKept DEF Tells, SnapshotFits, ViewFits, Snapshots
<1> QED
  BY <1>1, <1>2 DEF Tells, ConnsFit

LEMMA OneBuffer ==
  ASSUME NEW told, NEW buf \in [Fences -> BufferRec], NEW cs \in Seq(ConnRec), NEW e, NEW last, NEW v,
         Snapshots(e, last, v), Tells(told, buf, cs, e, last, v), NEW f \in Fences, NEW b2 \in BufferRec, NEW t2,
         BufferFits(t2, b2), Retold(told[f], Sent(buf[f]), t2, Sent(b2))
  PROVE  Tells([told EXCEPT ![f] = t2], [buf EXCEPT ![f] = b2], cs, e, last, v)
<1> DEFINE told2 == [told EXCEPT ![f] = t2]
           buf2 == [buf EXCEPT ![f] = b2]
<1>1. t2 \in Seq(ToldRec) /\ told \in [Fences -> Seq(ToldRec)] /\ BuffersFit(told, buf)
  BY DEF BufferFits, Tells
<1>2. told2 \in [Fences -> Seq(ToldRec)] /\ told2[f] = t2 /\ \A g \in Fences : g # f => told2[g] = told[g]
  BY <1>1
<1>3. buf2 \in [Fences -> BufferRec] /\ buf2[f] = b2 /\ \A g \in Fences : g # f => buf2[g] = buf[g]
  OBVIOUS
<1> HIDE DEF told2, buf2
<1>4. BuffersFit(told2, buf2)
  BY <1>1, <1>2, <1>3 DEF BuffersFit
<1>5. ASSUME NEW g \in Fences PROVE Retold(told[g], SentOf(buf)[g], told2[g], SentOf(buf2)[g])
  <2>1. SentOf(buf)[g] = Sent(buf[g]) /\ SentOf(buf2)[g] = Sent(buf2[g])
    BY DEF SentOf
  <2>2. CASE g = f
    BY <2>1, <2>2, <1>2, <1>3
  <2>3. CASE g # f
    <3>1. BufferFits(told[g], buf[g]) /\ buf[g] \in BufferRec
      BY <1>1 DEF BuffersFit
    <3>2. Retold(told[g], Sent(buf[g]), told[g], Sent(buf[g]))
      BY <3>1, SentTyped
    <3> QED
      BY <2>1, <2>3, <3>2, <1>2, <1>3
  <2> QED
    BY <2>2, <2>3
<1>6. Tells(told2, buf2, cs, e, last, v)
  BY <1>2, <1>4, <1>5, TellsOn DEF AllRetold
<1> QED
  BY <1>6 DEF told2, buf2

(* A buffer goes on.                                                       *)
LEMMA BufferTells ==
  ASSUME NEW told, NEW buf \in [Fences -> BufferRec], NEW cs \in Seq(ConnRec), NEW e, NEW last, NEW v,
         Snapshots(e, last, v), Tells(told, buf, cs, e, last, v), NEW f \in Fences, NEW b2, Keeps(buf[f], b2)
  PROVE  \E told2 : Tells(told2, [buf EXCEPT ![f] = b2], cs, e, last, v)
<1>1. BufferFits(told[f], buf[f]) /\ b2 \in BufferRec
  BY DEF Tells, BuffersFit, Keeps
<1>2. PICK t2 : BufferFits(t2, b2) /\ Retold(told[f], Sent(buf[f]), t2, Sent(b2))
  BY <1>1 DEF Keeps
<1>3. Tells([told EXCEPT ![f] = t2], [buf EXCEPT ![f] = b2], cs, e, last, v)
  BY <1>1, <1>2, OneBuffer
<1> QED
  BY <1>3

(* A frame leaves a buffer.                                                *)
LEMMA PullTells ==
  ASSUME NEW told, NEW buf \in [Fences -> BufferRec], NEW cs \in Seq(ConnRec), NEW e, NEW last, NEW v,
         Snapshots(e, last, v), Tells(told, buf, cs, e, last, v), NEW f \in Fences, Batch(buf[f]) # <<>>
  PROVE  LET buf2 == [buf EXCEPT ![f] = Pulled(buf[f])]
         IN Tells(told, buf2, cs, e, last, v) /\ SentFits(told[f], SentOf(buf2)[f], Head(Batch(buf[f])))
<1> DEFINE b == buf[f]
           p == Pulled(b)
           buf2 == [buf EXCEPT ![f] = p]
<1>1. BufferFits(told[f], b) /\ b \in BufferRec /\ told \in [Fences -> Seq(ToldRec)]
  BY DEF Tells, BuffersFit
<1>2. BufferFits(told[f], p) /\ Retold(told[f], Sent(b), told[f], Sent(p))
      /\ SentFits(told[f], Sent(p), Head(Batch(b)))
  BY <1>1, PulledFits
<1>3. p \in BufferRec
  BY <1>1, PulledQueue
<1>4. [told EXCEPT ![f] = told[f]] = told
  BY <1>1
<1>5. Tells([told EXCEPT ![f] = told[f]], buf2, cs, e, last, v)
  <2> HIDE DEF p
  <2> QED
    BY <1>2, <1>3, OneBuffer
<1>6. SentOf(buf2)[f] = Sent(p)
  <2> HIDE DEF p
  <2> QED
    BY DEF SentOf
<1> QED
  BY <1>2, <1>4, <1>5, <1>6

LEMMA ConnsTell ==
  ASSUME NEW told, NEW buf, NEW cs, NEW e, NEW last, NEW v, Tells(told, buf, cs, e, last, v), NEW cs2,
         \A i \in 1 .. Len(cs2) : ConnFits(told, SentOf(buf), cs2[i])
  PROVE  Tells(told, buf, cs2, e, last, v)
  BY DEF Tells, ConnsFit

-----------------------------------------------------------------------------
(* Preview: steps of runs, buffers and uploads *)

RunTypes ==
  work \in [status : RunStatus, fence : 0 .. LastFence, version : 1 .. MaxVersion] /\ calls \in 0 .. MaxCalls
PathTypes ==
  /\ buffer \in [Fences -> BufferRec] /\ conn \in Seq(ConnRec) /\ entry \in SnapshotRec
  /\ owner \in 0 .. Len(conn) /\ \A f \in Fences : buffer[f].consumer <= Len(conn)
ScreenTypes ==
  /\ sub \in [pc : {"read", "preview", "done"}, status : RunStatus \cup {"none"}, fence : 0 .. LastFence,
              version : 0 .. MaxVersion, known : BOOLEAN, last : SnapshotRec]
  /\ view \in [fence : 0 .. LastFence, version : Nat, closed : 0 .. LastFence, preview : PreviewRec,
               draft : Seq(Piece)]

CallInv == \A f \in Fences : buffer[f].enabled => buffer[f].call # 0
PathInv == PathTypes /\ CallInv /\ ToldInv

LEMMA TypesSplit == PreviewTypeOK <=> RunTypes /\ PathTypes /\ ScreenTypes
  BY DEF PreviewTypeOK, RunTypes, PathTypes, ScreenTypes

(* No upload holds a frame that it did not hold before.                    *)
Carries(cs, cs2) ==
  \A i \in 1 .. Len(cs2) : cs2[i].server \in {"queried", "admitted"} =>
    /\ i \in 1 .. Len(cs) /\ cs[i].server \in {"queried", "admitted"}
    /\ cs2[i].fence = cs[i].fence /\ cs2[i].frame = cs[i].frame

LEMMA CarriedFits ==
  ASSUME NEW told, NEW n, NEW cs, NEW cs2, Carries(cs, cs2), ConnsFit(told, n, cs)
  PROVE  ConnsFit(told, n, cs2)
<1> SUFFICES ASSUME NEW i \in 1 .. Len(cs2) PROVE ConnFits(told, n, cs2[i])
  BY DEF ConnsFit
<1> SUFFICES ASSUME cs2[i].server \in {"queried", "admitted"}
             PROVE  cs2[i].frame # <<>> /\ SentFits(told[cs2[i].fence], n[cs2[i].fence], Head(cs2[i].frame))
  BY DEF ConnFits
<1>1. /\ i \in 1 .. Len(cs) /\ cs[i].server \in {"queried", "admitted"}
      /\ cs2[i].fence = cs[i].fence /\ cs2[i].frame = cs[i].frame
  BY DEF Carries
<1>2. ConnFits(told, n, cs[i])
  BY <1>1 DEF ConnsFit
<1> QED
  BY <1>1, <1>2 DEF ConnFits

LEMMA ScreenSnapshots ==
  ASSUME PathTypes, ScreenTypes
  PROVE  Snapshots(entry, sub.last, view) /\ sub.last \in SnapshotRec /\ view.preview \in PreviewRec
<1>1. sub.last \in SnapshotRec /\ view.preview \in PreviewRec /\ entry \in SnapshotRec
  BY DEF PathTypes, ScreenTypes
<1> QED
  BY <1>1 DEF Snapshots, SnapshotRec, PreviewRec

LEMMA NothingShown == \A told, n : SnapshotFits(told, n, NoSnapshot) /\ NoSnapshot \in SnapshotRec
<1>1. NoSnapshot \in SnapshotRec
  BY PreviewAssumption DEF NoSnapshot, SnapshotRec
<1>2. \A told, n : SnapshotFits(told, n, NoSnapshot)
  BY DEF SnapshotFits, ShownFits, NoSnapshot
<1> QED
  BY <1>1, <1>2

(* What is told is told whatever uploads end and the entry is given up.    *)
LEMMA TellsLess ==
  ASSUME NEW told, NEW buf, NEW cs, NEW e, NEW last, NEW v, Tells(told, buf, cs, e, last, v),
         NEW cs2, Carries(cs, cs2), NEW e2, e2 = e \/ e2 = NoSnapshot
  PROVE  Tells(told, buf, cs2, e2, last, v)
<1>1. ConnsFit(told, SentOf(buf), cs2)
  BY CarriedFits DEF Tells
<1>2. SnapshotFits(told, SentOf(buf), e2)
  BY NothingShown DEF Tells
<1> QED
  BY <1>1, <1>2 DEF Tells

LEMMA PathStep ==
  ASSUME PathInv, ScreenTypes, NEW f \in Fences, NEW b2, Keeps(buffer[f], b2), buffer' = [buffer EXCEPT ![f] = b2],
         conn' \in Seq(ConnRec), Len(conn) <= Len(conn'), b2.consumer <= Len(conn'), Carries(conn, conn'),
         entry' = entry \/ entry' = NoSnapshot, owner' \in 0 .. Len(conn'), sub' = sub, view' = view
  PROVE  PathInv'
<1>1. /\ buffer \in [Fences -> BufferRec] /\ conn \in Seq(ConnRec) /\ entry \in SnapshotRec
      /\ \A g \in Fences : buffer[g].consumer <= Len(conn)
  BY DEF PathInv, PathTypes
<1>2. b2 \in BufferRec /\ (b2.enabled => b2.call # 0)
  BY DEF Keeps
<1>3. Len(conn) \in Nat /\ Len(conn') \in Nat /\ \A g \in Fences : buffer[g].consumer \in Nat
  BY <1>1, LenProperties DEF BufferRec
<1>4. buffer' \in [Fences -> BufferRec] /\ buffer'[f] = b2 /\ \A g \in Fences : g # f => buffer'[g] = buffer[g]
  BY <1>1, <1>2
<1>5. entry' \in SnapshotRec
  BY <1>1, NothingShown
<1>6. \A g \in Fences : buffer'[g].consumer <= Len(conn')
  BY <1>1, <1>3, <1>4
<1>7. PathTypes'
  BY <1>4, <1>5, <1>6 DEF PathTypes
<1>8. CallInv'
  BY <1>2, <1>4 DEF PathInv, CallInv
<1>9. PICK told : Tells(told, buffer, conn, entry, sub.last, view)
  BY DEF PathInv, ToldInv
<1>10. PICK told2 : Tells(told2, buffer', conn, entry, sub.last, view)
  BY <1>1, <1>9, BufferTells, ScreenSnapshots DEF PathInv
<1>11. Tells(told2, buffer', conn', entry', sub'.last, view')
  BY <1>10, TellsLess
<1>12. ToldInv'
  BY <1>11 DEF ToldInv
<1> QED
  BY <1>7, <1>8, <1>12 DEF PathInv

LEMMA ConnStep ==
  ASSUME PathInv, buffer' = buffer, conn' \in Seq(ConnRec), Len(conn) <= Len(conn'), Carries(conn, conn'),
         entry' = entry \/ entry' = NoSnapshot, owner' \in 0 .. Len(conn'), sub' = sub, view' = view
  PROVE  PathInv'
<1>1. /\ buffer \in [Fences -> BufferRec] /\ conn \in Seq(ConnRec) /\ entry \in SnapshotRec
      /\ \A g \in Fences : buffer[g].consumer <= Len(conn)
  BY DEF PathInv, PathTypes
<1>3. Len(conn) \in Nat /\ Len(conn') \in Nat /\ \A g \in Fences : buffer[g].consumer \in Nat
  BY <1>1, LenProperties DEF BufferRec
<1>5. entry' \in SnapshotRec
  BY <1>1, NothingShown
<1>6. \A g \in Fences : buffer'[g].consumer <= Len(conn')
  BY <1>1, <1>3
<1>7. PathTypes'
  BY <1>1, <1>5, <1>6 DEF PathTypes
<1>8. CallInv'
  BY DEF PathInv, CallInv
<1>9. PICK told : Tells(told, buffer, conn, entry, sub.last, view)
  BY DEF PathInv, ToldInv
<1>11. Tells(told, buffer', conn', entry', sub'.last, view')
  BY <1>9, TellsLess
<1>12. ToldInv'
  BY <1>11 DEF ToldInv
<1> QED
  BY <1>7, <1>8, <1>12 DEF PathInv

LEMMA CarriesSame ==
  ASSUME NEW cs \in Seq(ConnRec)
  PROVE  Carries(cs, cs) /\ Len(cs) \in Nat
  BY LenProperties DEF Carries

(* One upload changes, and holds no frame it did not hold.                 *)
LEMMA OneConn ==
  ASSUME NEW cs \in Seq(ConnRec), NEW c \in DOMAIN cs, NEW e \in ConnRec
  PROVE  LET cs2 == [cs EXCEPT ![c] = e]
         IN /\ cs2 \in Seq(ConnRec) /\ Len(cs2) = Len(cs) /\ Len(cs) \in Nat /\ c \in 1 .. Len(cs) /\ cs2[c] = e
            /\ \A i \in 1 .. Len(cs) : i # c => cs2[i] = cs[i]
  BY LenProperties

LEMMA OneCarries ==
  ASSUME NEW cs \in Seq(ConnRec), NEW c \in DOMAIN cs, NEW e \in ConnRec,
         e.server \in {"queried", "admitted"} =>
           cs[c].server \in {"queried", "admitted"} /\ e.fence = cs[c].fence /\ e.frame = cs[c].frame
  PROVE  Carries(cs, [cs EXCEPT ![c] = e])
<1> DEFINE cs2 == [cs EXCEPT ![c] = e]
<1>1. /\ cs2 \in Seq(ConnRec) /\ Len(cs2) = Len(cs) /\ c \in 1 .. Len(cs) /\ cs2[c] = e
      /\ \A i \in 1 .. Len(cs) : i # c => cs2[i] = cs[i]
  BY OneConn
<1> HIDE DEF cs2
<1>2. Carries(cs, cs2)
  BY <1>1 DEF Carries
<1> QED
  BY <1>2 DEF cs2

LEMMA NewUpload ==
  ASSUME NEW cs \in Seq(ConnRec), NEW f \in Fences
  PROVE  /\ Append(cs, Upload(f)) \in Seq(ConnRec) /\ Len(cs) \in Nat /\ Len(Append(cs, Upload(f))) = Len(cs) + 1
         /\ Carries(cs, Append(cs, Upload(f)))
<1> DEFINE u == Upload(f)
           cs2 == Append(cs, u)
<1>1. u \in ConnRec /\ u.server = "idle"
  BY DEF Upload, ConnRec
<1> HIDE DEF u
<1>2. /\ cs2 \in Seq(ConnRec) /\ Len(cs) \in Nat /\ Len(cs2) = Len(cs) + 1
      /\ cs2[Len(cs) + 1] = u /\ \A i \in 1 .. Len(cs) : cs2[i] = cs[i]
  BY <1>1, AppendFacts
<1> HIDE DEF cs2
<1>3. Carries(cs, cs2)
  <2> SUFFICES ASSUME NEW i \in 1 .. Len(cs2), cs2[i].server \in {"queried", "admitted"}
               PROVE  /\ i \in 1 .. Len(cs) /\ cs[i].server \in {"queried", "admitted"}
                      /\ cs2[i].fence = cs[i].fence /\ cs2[i].frame = cs[i].frame
    BY DEF Carries
  <2>1. i # Len(cs) + 1
    BY <1>1, <1>2
  <2>2. i \in 1 .. Len(cs)
    BY <2>1, <1>2
  <2> QED
    BY <2>2, <1>2
<1> QED
  BY <1>2, <1>3 DEF cs2, u

LEMMA ChangedConn ==
  ASSUME NEW cs \in Seq(ConnRec), NEW c \in DOMAIN cs, NEW e \in ConnRec, NEW cs2, cs2 = [cs EXCEPT ![c] = e],
         e.server \in {"queried", "admitted"} =>
           cs[c].server \in {"queried", "admitted"} /\ e.fence = cs[c].fence /\ e.frame = cs[c].frame
  PROVE  cs2 \in Seq(ConnRec) /\ Len(cs2) = Len(cs) /\ Carries(cs, cs2)
<1>1. cs2 \in Seq(ConnRec) /\ Len(cs2) = Len(cs)
  BY OneConn
<1>2. Carries(cs, cs2)
  BY OneCarries
<1> QED
  BY <1>1, <1>2

LEMMA PathFacts ==
  ASSUME PathInv
  PROVE  /\ buffer \in [Fences -> BufferRec] /\ conn \in Seq(ConnRec) /\ entry \in SnapshotRec
         /\ owner \in 0 .. Len(conn) /\ Len(conn) \in Nat
         /\ \A f \in Fences : /\ buffer[f] \in BufferRec /\ buffer[f].consumer \in Nat /\ buffer[f].consumer <= Len(conn)
                              /\ (buffer[f].enabled => buffer[f].call # 0)
<1>1. /\ buffer \in [Fences -> BufferRec] /\ conn \in Seq(ConnRec) /\ entry \in SnapshotRec
      /\ owner \in 0 .. Len(conn) /\ \A f \in Fences : buffer[f].consumer <= Len(conn)
  BY DEF PathInv, PathTypes
<1>2. \A f \in Fences : buffer[f] \in BufferRec /\ (buffer[f].enabled => buffer[f].call # 0)
  BY <1>1 DEF PathInv, CallInv
<1>3. \A f \in Fences : buffer[f].consumer \in Nat
  BY <1>2, BufferTyped
<1>4. Len(conn) \in Nat
  BY <1>1, LenProperties
<1> QED
  BY <1>1, <1>2, <1>3, <1>4

LEMMA PathSame ==
  ASSUME PathInv, UNCHANGED <<buffer, conn, owner, entry, sub, view>>
  PROVE  PathInv'
<1>1. conn' \in Seq(ConnRec) /\ Len(conn) <= Len(conn') /\ Carries(conn, conn') /\ owner' \in 0 .. Len(conn')
  BY PathFacts, CarriesSame
<1> QED
  BY <1>1, ConnStep

LEMMA StartPath ==
  ASSUME PathInv, RunTypes, ScreenTypes, NEW f \in Fences, NEW version \in 1 .. MaxVersion, StartCall(f, version)
  PROVE  PathInv' /\ calls' \in 0 .. MaxCalls
<1> DEFINE b == buffer[f]
           first == b.consumer = 0
           started == Reset(b, calls + 1, version, TRUE)
           b2 == IF first THEN [started EXCEPT !.consumer = Len(conn) + 1] ELSE started
<1>1. /\ buffer' = [buffer EXCEPT ![f] = b2] /\ calls < MaxCalls /\ calls' = calls + 1
      /\ conn' = IF first THEN Append(conn, Upload(f)) ELSE conn
      /\ UNCHANGED <<work, owner, entry, sub, view>>
  BY DEF StartCall, Buffers
<1>2. b \in BufferRec /\ (b.enabled => b.call # 0) /\ b.consumer \in Nat /\ b.consumer <= Len(conn)
      /\ conn \in Seq(ConnRec) /\ Len(conn) \in Nat /\ owner \in 0 .. Len(conn)
  BY PathFacts
<1>3. calls + 1 \in Nat /\ calls + 1 # 0 /\ version \in Nat /\ calls' \in 0 .. MaxCalls
  BY <1>1, PreviewAssumption DEF RunTypes
<1>4. Goes(b, started)
  BY <1>2, <1>3, ResetGoes
<1> HIDE DEF b, started
<1>5. Keeps(b, b2) /\ b2.consumer = IF first THEN Len(conn) + 1 ELSE b.consumer
  <2>1. Keeps(b, started) /\ started.consumer = b.consumer
    BY <1>4 DEF Goes
  <2>2. Len(conn) + 1 \in Nat
    BY <1>2
  <2>3. Keeps(b, [started EXCEPT !.consumer = Len(conn) + 1]) /\ [started EXCEPT !.consumer = Len(conn) + 1].consumer = Len(conn) + 1
    BY <2>1, <2>2, ConsumerKeeps
  <2> QED
    BY <2>1, <2>3
<1> HIDE DEF b2
<1>6. conn' \in Seq(ConnRec) /\ Len(conn) <= Len(conn') /\ b2.consumer <= Len(conn') /\ Carries(conn, conn')
      /\ owner' \in 0 .. Len(conn')
  <2>1. CASE first
    <3>1. conn' \in Seq(ConnRec) /\ Len(conn') = Len(conn) + 1 /\ Carries(conn, conn')
      BY <2>1, <1>1, <1>2, NewUpload
    <3> QED
      BY <3>1, <2>1, <1>1, <1>2, <1>5
  <2>2. CASE ~first
    BY <2>2, <1>1, <1>2, <1>5, CarriesSame
  <2> QED
    BY <2>1, <2>2
<1>7. PathInv'
  BY <1>1, <1>5, <1>6, PathStep DEF b
<1> QED
  BY <1>3, <1>7

LEMMA BufferPath ==
  ASSUME PathInv, ScreenTypes, NEW f \in Fences, NEW b2, Goes(buffer[f], b2), buffer' = [buffer EXCEPT ![f] = b2],
         UNCHANGED <<conn, owner, entry, sub, view>>
  PROVE  PathInv'
<1>1. Keeps(buffer[f], b2) /\ b2.consumer = buffer[f].consumer
  BY DEF Goes
<1>2. conn' \in Seq(ConnRec) /\ Len(conn) <= Len(conn') /\ b2.consumer <= Len(conn') /\ Carries(conn, conn')
      /\ owner' \in 0 .. Len(conn')
  BY <1>1, PathFacts, CarriesSame
<1> QED
  BY <1>1, <1>2, PathStep

LEMMA PushPath ==
  ASSUME PathInv, ScreenTypes, NEW f \in Fences, Push(f)
  PROVE  PathInv'
<1> DEFINE b2 == Pushed(buffer[f], <<buffer[f].call, Len(buffer[f].draft) + 1>>)
<1>1. buffer' = [buffer EXCEPT ![f] = b2] /\ UNCHANGED <<conn, owner, entry, sub, view>>
      /\ buffer[f].enabled /\ ~buffer[f].closed
  BY DEF Push, Buffers
<1>2. buffer[f] \in BufferRec /\ buffer[f].call # 0
  BY <1>1, PathFacts
<1>3. Goes(buffer[f], b2)
  BY <1>1, <1>2, PushGoes
<1> HIDE DEF b2
<1> QED
  BY <1>1, <1>3, BufferPath

LEMMA DiscardPath ==
  ASSUME PathInv, ScreenTypes, NEW f \in Fences, Discard(f)
  PROVE  PathInv'
<1> DEFINE b2 == Reset(buffer[f], buffer[f].call, buffer[f].version, FALSE)
<1>1. buffer' = [buffer EXCEPT ![f] = b2] /\ UNCHANGED <<conn, owner, entry, sub, view>>
  BY DEF Discard, Buffers
<1>2. buffer[f] \in BufferRec /\ (buffer[f].enabled => buffer[f].call # 0)
  BY PathFacts
<1>3. buffer[f].call \in Nat /\ buffer[f].version \in Nat
  BY <1>2, BufferTyped
<1>4. Goes(buffer[f], b2)
  BY <1>2, <1>3, ResetGoes
<1> HIDE DEF b2
<1> QED
  BY <1>1, <1>4, BufferPath

LEMMA ClosePath ==
  ASSUME PathInv, ScreenTypes, NEW f \in Fences, CloseBuffer(f)
  PROVE  PathInv'
<1> DEFINE b2 == Closed(buffer[f])
<1>1. buffer' = [buffer EXCEPT ![f] = b2] /\ UNCHANGED <<conn, owner, entry, sub, view>>
  BY DEF CloseBuffer, Buffers
<1>2. Goes(buffer[f], b2)
  BY PathFacts, ClosedGoes
<1> HIDE DEF b2
<1> QED
  BY <1>1, <1>2, BufferPath

LEMMA ReplaySelf ==
  ASSUME NEW b \in BufferRec, b.enabled => b.call # 0
  PROVE  Goes(b, Replay(b))
<1>1. CASE b.closed \/ b.call = 0
  BY <1>1, SameGoes DEF Replay
<1>2. CASE ~b.closed /\ b.call # 0
  <2>1. \A t : BufferFits(t, b) => Gapless(b.call, b.draft)
    BY DEF BufferFits
  <2> QED
    BY <1>2, <2>1, ReplayGoes
<1> QED
  BY <1>1, <1>2

LEMMA ConnectPath ==
  ASSUME PathInv, ScreenTypes, NEW f \in Fences, Connect(f)
  PROVE  PathInv'
<1> DEFINE b == buffer[f]
           r == Replay(b)
           b2 == [r EXCEPT !.consumer = Len(conn) + 1]
<1>1. buffer' = [buffer EXCEPT ![f] = b2] /\ conn' = Append(conn, Upload(f)) /\ UNCHANGED <<owner, entry, sub, view>>
  BY DEF Connect
<1>2. b \in BufferRec /\ (b.enabled => b.call # 0) /\ conn \in Seq(ConnRec) /\ Len(conn) \in Nat
      /\ owner \in 0 .. Len(conn)
  BY PathFacts
<1>3. Keeps(b, r)
  BY <1>2, ReplaySelf DEF Goes
<1> HIDE DEF r
<1>4. Keeps(b, b2) /\ b2.consumer = Len(conn) + 1
  <2>1. Len(conn) + 1 \in Nat
    BY <1>2
  <2> QED
    BY <1>3, <2>1, ConsumerKeeps
<1> HIDE DEF b2
<1>5. conn' \in Seq(ConnRec) /\ Len(conn') = Len(conn) + 1 /\ Carries(conn, conn')
  BY <1>1, <1>2, NewUpload
<1>6. Len(conn) <= Len(conn') /\ b2.consumer <= Len(conn') /\ owner' \in 0 .. Len(conn')
  BY <1>1, <1>2, <1>4, <1>5
<1> QED
  BY <1>1, <1>4, <1>5, <1>6, PathStep DEF b

LEMMA BreakPath ==
  ASSUME PathInv, NEW c \in DOMAIN conn, Break(c)
  PROVE  PathInv'
<1> DEFINE e == [conn[c] EXCEPT !.client = "broken"]
<1>1. conn' = [conn EXCEPT ![c] = e] /\ UNCHANGED <<buffer, owner, entry, sub, view>>
  BY DEF Break
<1>2. conn \in Seq(ConnRec) /\ Len(conn) \in Nat /\ owner \in 0 .. Len(conn) /\ conn[c] \in ConnRec
  BY PathFacts
<1>3. e \in ConnRec /\ e.server = conn[c].server /\ e.fence = conn[c].fence /\ e.frame = conn[c].frame
  BY <1>2 DEF ConnRec
<1> HIDE DEF e
<1>4. conn' \in Seq(ConnRec) /\ Len(conn') = Len(conn) /\ Carries(conn, conn')
  BY <1>1, <1>2, <1>3, ChangedConn
<1> QED
  BY <1>1, <1>2, <1>4, ConnStep

(* The end of an upload.                                                   *)
LEMMA FinishedConn ==
  ASSUME PathInv, NEW c \in DOMAIN conn, Finished(c)
  PROVE  /\ conn' \in Seq(ConnRec) /\ Len(conn') = Len(conn) /\ Len(conn) \in Nat /\ Carries(conn, conn')
         /\ entry' = entry \/ entry' = NoSnapshot
         /\ owner' \in 0 .. Len(conn') /\ sub' = sub /\ view' = view
<1> DEFINE e == [conn[c] EXCEPT !.server = "done", !.client = "broken", !.frame = <<>>, !.row = 0]
<1>1. /\ conn' = [conn EXCEPT ![c] = e] /\ (entry' = entry \/ entry' = NoSnapshot) /\ (owner' = 0 \/ owner' = owner)
      /\ sub' = sub /\ view' = view
  BY DEF Finished
<1>2. conn \in Seq(ConnRec) /\ Len(conn) \in Nat /\ owner \in 0 .. Len(conn) /\ conn[c] \in ConnRec
  BY PathFacts
<1>3. e = [fence |-> conn[c].fence, client |-> "broken", server |-> "done", frame |-> <<>>, row |-> 0]
  <2> DEFINE x == conn[c]
  <2> HIDE DEF x
  <2>1. x = [fence |-> x.fence, client |-> x.client, server |-> x.server, frame |-> x.frame, row |-> x.row]
    BY <1>2 DEF ConnRec, x
  <2>2. e = [x EXCEPT !.server = "done", !.client = "broken", !.frame = <<>>, !.row = 0]
    BY DEF x
  <2>3. e = [fence |-> x.fence, client |-> "broken", server |-> "done", frame |-> <<>>, row |-> 0]
    <3> HIDE DEF e
    <3> QED
      BY <2>1, <2>2
  <2> QED
    BY <2>3 DEF x
<1> HIDE DEF e
<1>4. e \in ConnRec /\ e.server = "done"
  BY <1>2, <1>3 DEF ConnRec
<1>5. conn' \in Seq(ConnRec) /\ Len(conn') = Len(conn) /\ Carries(conn, conn')
  BY <1>1, <1>2, <1>4, ChangedConn
<1>6. owner' \in 0 .. Len(conn')
  BY <1>1, <1>2, <1>5
<1> QED
  BY <1>1, <1>2, <1>5, <1>6

LEMMA EndPath ==
  ASSUME PathInv, NEW c \in DOMAIN conn, UploadEnds(c)
  PROVE  PathInv'
<1>1. Finished(c) /\ buffer' = buffer
  BY DEF UploadEnds
<1>2. Len(conn) <= Len(conn')
  BY <1>1, FinishedConn
<1> QED
  BY <1>1, <1>2, FinishedConn, ConnStep

LEMMA QueryPath ==
  ASSUME PathInv, RunTypes, ScreenTypes, NEW c \in DOMAIN conn, Query(c)
  PROVE  PathInv'
<1> DEFINE f == conn[c].fence
           b == buffer[f]
<1>1. conn \in Seq(ConnRec) /\ Len(conn) \in Nat /\ owner \in 0 .. Len(conn) /\ conn[c] \in ConnRec
      /\ buffer \in [Fences -> BufferRec] /\ entry \in SnapshotRec
      /\ \A g \in Fences : buffer[g].consumer \in Nat /\ buffer[g].consumer <= Len(conn)
  BY PathFacts
<1>2. f \in Fences
  BY <1>1 DEF ConnRec
<1>3. b \in BufferRec /\ (b.enabled => b.call # 0) /\ b.consumer <= Len(conn) /\ b.consumer \in Nat
  BY <1>2, PathFacts
<1>4. CASE ~(work.status = "leased" /\ work.fence = f)
  <2> DEFINE b2 == Closed(b)
  <2>1. Finished(c) /\ buffer' = [buffer EXCEPT ![f] = b2]
    BY <1>4 DEF Query
  <2>2. Goes(b, b2)
    BY <1>3, ClosedGoes
  <2> HIDE DEF b2, b, f
  <2>3. Keeps(buffer[f], b2) /\ b2.consumer <= Len(conn)
    BY <2>2, <1>3 DEF Goes, b
  <2>4. /\ conn' \in Seq(ConnRec) /\ Len(conn') = Len(conn) /\ Carries(conn, conn')
        /\ entry' = entry \/ entry' = NoSnapshot
        /\ owner' \in 0 .. Len(conn') /\ sub' = sub /\ view' = view
    BY <2>1, FinishedConn
  <2>5. Len(conn) <= Len(conn') /\ b2.consumer <= Len(conn')
    BY <2>3, <2>4, <1>1
  <2> QED
    BY <1>2, <2>1, <2>3, <2>4, <2>5, PathStep
<1>5. CASE work.status = "leased" /\ work.fence = f
  <2> DEFINE h == Head(Batch(b))
             p == Pulled(b)
             e == [conn[c] EXCEPT !.server = "queried", !.frame = <<h>>, !.row = work.version]
  <2>1. /\ conn' = [conn EXCEPT ![c] = e] /\ buffer' = [buffer EXCEPT ![f] = p] /\ Batch(b) # <<>>
        /\ UNCHANGED <<owner, entry, sub, view>>
    BY <1>5 DEF Query
  <2>2. Goes(b, p) /\ h \in FrameRec
    BY <1>3, <2>1, PullGoes
  <2>3. PICK told : Tells(told, buffer, conn, entry, sub.last, view)
    BY DEF PathInv, ToldInv
  <2>4. Tells(told, buffer', conn, entry, sub.last, view) /\ SentFits(told[f], SentOf(buffer')[f], h)
    <3> DEFINE buf2 == [buffer EXCEPT ![f] = Pulled(buffer[f])]
    <3>1. Snapshots(entry, sub.last, view)
      BY ScreenSnapshots DEF PathInv
    <3>2. Tells(told, buf2, conn, entry, sub.last, view) /\ SentFits(told[f], SentOf(buf2)[f], Head(Batch(buffer[f])))
      BY <3>1, <1>1, <1>2, <2>1, <2>3, PullTells
    <3>3. buffer' = buf2
      BY <2>1
    <3> HIDE DEF buf2
    <3> QED
      BY <3>2, <3>3
  <2> HIDE DEF h, p
  <2>5. e = [fence |-> f, client |-> conn[c].client, server |-> "queried", frame |-> <<h>>, row |-> work.version]
    <3> DEFINE x == conn[c]
               v == work.version
    <3> HIDE DEF x, v
    <3>1. x = [fence |-> x.fence, client |-> x.client, server |-> x.server, frame |-> x.frame, row |-> x.row]
      BY <1>1 DEF ConnRec, x
    <3>2. e = [x EXCEPT !.server = "queried", !.frame = <<h>>, !.row = v]
      BY DEF x, v
    <3>3. e = [fence |-> x.fence, client |-> x.client, server |-> "queried", frame |-> <<h>>, row |-> v]
      <4> HIDE DEF e
      <4> QED
        BY <3>1, <3>2
    <3> QED
      BY <3>3 DEF x, v
  <2>6. work.version \in Nat
    BY PreviewAssumption DEF RunTypes
  <2>7. <<h>> \in Seq(FrameRec) /\ <<h>> # <<>> /\ Head(<<h>>) = h
    BY <2>2
  <2>8. conn[c].client \in {"open", "broken"}
    BY <1>1 DEF ConnRec
  <2> HIDE DEF e, f, b
  <2>9. e \in ConnRec /\ e.fence = f /\ e.frame = <<h>>
    <3> DEFINE s == <<h>>
    <3> HIDE DEF s
    <3> QED
      BY <2>5, <2>6, <2>7, <2>8, <1>2 DEF ConnRec, s
  <2>10. /\ conn' \in Seq(ConnRec) /\ Len(conn') = Len(conn) /\ conn'[c] = e /\ c \in 1 .. Len(conn)
         /\ \A i \in 1 .. Len(conn) : i # c => conn'[i] = conn[i]
    BY <2>1, <2>9, <1>1, OneConn
  <2>11. Tells(told, buffer', conn', entry', sub'.last, view')
    <3>1. ASSUME NEW i \in 1 .. Len(conn') PROVE ConnFits(told, SentOf(buffer'), conn'[i])
      <4>1. CASE i = c
        BY <4>1, <2>4, <2>7, <2>9, <2>10 DEF ConnFits
      <4>2. CASE i # c
        BY <4>2, <2>4, <2>10 DEF Tells, ConnsFit
      <4> QED
        BY <4>1, <4>2
    <3>2. Tells(told, buffer', conn', entry, sub.last, view)
      BY <3>1, <2>4, ConnsTell
    <3> QED
      BY <3>2, <2>1
  <2>12. p \in BufferRec /\ p.consumer = b.consumer /\ (p.enabled => p.call # 0)
    BY <2>2 DEF Goes, Keeps
  <2>13. buffer' \in [Fences -> BufferRec] /\ buffer'[f] = p /\ \A g \in Fences : g # f => buffer'[g] = buffer[g]
    BY <1>1, <1>2, <2>1, <2>12
  <2>14. PathTypes'
    <3>1. \A g \in Fences : buffer'[g].consumer <= Len(conn')
      BY <1>1, <1>3, <2>10, <2>12, <2>13
    <3>2. owner' \in 0 .. Len(conn') /\ entry' \in SnapshotRec
      BY <1>1, <2>1, <2>10
    <3> QED
      BY <3>1, <3>2, <2>10, <2>13 DEF PathTypes
  <2>15. CallInv'
    BY <2>12, <2>13 DEF PathInv, CallInv
  <2>16. ToldInv'
    BY <2>11 DEF ToldInv
  <2> QED
    BY <2>14, <2>15, <2>16 DEF PathInv
<1> QED
  BY <1>4, <1>5

LEMMA AdmitPath ==
  ASSUME PathInv, NEW c \in DOMAIN conn, Admit(c)
  PROVE  PathInv'
<1> DEFINE same == conn[c].row = Head(conn[c].frame).version
           e == [conn[c] EXCEPT !.server = IF same THEN "admitted" ELSE "idle",
                                !.frame = IF same THEN conn[c].frame ELSE <<>>, !.row = 0]
<1>1. conn \in Seq(ConnRec) /\ Len(conn) \in Nat /\ owner \in 0 .. Len(conn) /\ conn[c] \in ConnRec
      /\ c \in 1 .. Len(conn)
  BY PathFacts
<1>2. \/ Finished(c) /\ buffer' = buffer
      \/ /\ conn[c].server = "queried" /\ owner' = c /\ (entry' = entry \/ entry' = NoSnapshot)
         /\ conn' = [conn EXCEPT ![c] = e] /\ UNCHANGED <<buffer, sub, view>>
  <2> DEFINE overtaken == owner # 0 /\ owner # c /\ conn[owner].fence >= conn[c].fence
  <2>1. overtaken => Finished(c) /\ buffer' = buffer
    BY DEF Admit
  <2>2. conn[c].server = "queried"
    BY DEF Admit
  <2>3. ~overtaken => owner' = c /\ entry' = (IF same THEN entry ELSE NoSnapshot) /\ UNCHANGED <<buffer, sub, view>>
    BY DEF Admit
  <2>4. ~overtaken => conn' = [conn EXCEPT ![c] = e]
    BY DEF Admit
  <2> HIDE DEF overtaken, e, same
  <2> QED
    BY <2>1, <2>2, <2>3, <2>4
<1>3. CASE Finished(c) /\ buffer' = buffer
  <2>1. Len(conn) <= Len(conn')
    BY <1>3, FinishedConn
  <2> QED
    BY <1>3, <2>1, FinishedConn, ConnStep
<1>4. CASE /\ conn[c].server = "queried" /\ owner' = c /\ (entry' = entry \/ entry' = NoSnapshot)
           /\ conn' = [conn EXCEPT ![c] = e] /\ UNCHANGED <<buffer, sub, view>>
  <2> DEFINE x == conn[c]
             server == IF same THEN "admitted" ELSE "idle"
             frame == IF same THEN x.frame ELSE <<>>
  <2>1. x.frame \in Seq(FrameRec) /\ frame \in Seq(FrameRec) /\ x.fence \in Fences /\ x.client \in {"open", "broken"}
        /\ (server = "admitted" => frame = x.frame)
        /\ server \in {"admitted", "idle"}
    BY <1>1 DEF ConnRec
  <2>2. e = [x EXCEPT !.server = server, !.frame = frame, !.row = 0]
    OBVIOUS
  <2>3. x = [fence |-> x.fence, client |-> x.client, server |-> x.server, frame |-> x.frame, row |-> x.row]
    <3> HIDE DEF x
    <3> QED
      BY <1>1 DEF ConnRec, x
  <2> HIDE DEF x, e, server, frame
  <2>4. e = [fence |-> x.fence, client |-> x.client, server |-> server, frame |-> frame, row |-> 0]
    BY <2>2, <2>3
  <2>5. e \in ConnRec /\ e.server = server /\ e.frame = frame /\ e.fence = x.fence
    BY <2>1, <2>4 DEF ConnRec
  <2>6. e.server \in {"queried", "admitted"} =>
          conn[c].server \in {"queried", "admitted"} /\ e.fence = conn[c].fence /\ e.frame = conn[c].frame
    BY <1>4, <2>1, <2>5 DEF x
  <2>7. conn' \in Seq(ConnRec) /\ Len(conn') = Len(conn) /\ Carries(conn, conn')
    BY <1>1, <1>4, <2>5, <2>6, ChangedConn
  <2>8. owner' \in 0 .. Len(conn') /\ Len(conn) <= Len(conn')
    BY <1>1, <1>4, <2>7
  <2> QED
    BY <1>4, <2>7, <2>8, ConnStep
<1> QED
  BY <1>2, <1>3, <1>4

LEMMA GaplessConcat ==
  ASSUME NEW c \in Nat, NEW d \in Seq(Piece), Gapless(c, d), NEW x \in Seq(Piece),
         \A k \in 1 .. Len(x) : x[k] = <<c, Len(d) + k>>
  PROVE  Gapless(c, d \o x) /\ Len(d \o x) = Len(d) + Len(x) /\ d \o x \in Seq(Piece)
<1> DEFINE y == d \o x
<1>1. /\ y \in Seq(Piece) /\ Len(y) = Len(d) + Len(x) /\ Len(d) \in Nat /\ Len(x) \in Nat
      /\ \A i \in 1 .. Len(d) + Len(x) : y[i] = IF i <= Len(d) THEN d[i] ELSE x[i - Len(d)]
  BY ConcatProperties, LenProperties
<1> HIDE DEF y
<1>2. ASSUME NEW i \in 1 .. Len(d) + Len(x)
      PROVE  y[i] = <<c, i>>
  <2>1. CASE i <= Len(d)
    <3>1. i \in 1 .. Len(d)
      BY <2>1, <1>1
    <3>2. d[i] = <<c, i>>
      BY <3>1, GaplessIff
    <3> QED
      BY <2>1, <3>2, <1>1
  <2>2. CASE ~(i <= Len(d))
    <3>1. i - Len(d) \in 1 .. Len(x) /\ Len(d) + (i - Len(d)) = i
      BY <2>2, <1>1
    <3>2. x[i - Len(d)] = <<c, i>>
      BY <3>1
    <3> QED
      BY <2>2, <3>2, <1>1
  <2> QED
    BY <2>1, <2>2
<1>3. Gapless(c, y)
  BY <1>1, <1>2, GaplessIff
<1> QED
  BY <1>1, <1>3 DEF y

LEMMA ToldTyped ==
  ASSUME NEW t \in Seq(ToldRec), NEW i \in 1 .. Len(t)
  PROVE  t[i].call \in Nat /\ t[i].end \in Nat /\ t[i] = [call |-> t[i].call, end |-> t[i].end]
<1>1. t[i] \in ToldRec
  OBVIOUS
<1> QED
  BY <1>1 DEF ToldRec

LEMMA FrameTyped ==
  ASSUME NEW fr \in FrameRec
  PROVE  /\ fr.version \in Nat /\ fr.call \in Nat /\ fr.seq \in Nat /\ fr.kind \in {"reset", "delta"}
         /\ fr.text \in Seq(Piece) /\ Len(fr.text) \in Nat
<1>1. fr.version \in Nat /\ fr.call \in Nat /\ fr.seq \in Nat /\ fr.kind \in {"reset", "delta"}
      /\ fr.text \in Seq(Piece)
  BY DEF FrameRec
<1> QED
  BY <1>1, LenProperties

(* A frame that is applied makes a snapshot of what was told.              *)
LEMMA AppliedFits ==
  ASSUME PathInv, NEW told, Tells(told, buffer, conn, entry, sub.last, view), NEW c \in DOMAIN conn,
         conn[c].server = "admitted"
  PROVE  LET a == Applied(c, Head(conn[c].frame))
         IN a \in SnapshotRec /\ SnapshotFits(told, SentOf(buffer), a)
<1> DEFINE f == conn[c].fence
           fr == Head(conn[c].frame)
           n == SentOf(buffer)
           a == Applied(c, fr)
           t == told[f]
           at(draft) == [fence |-> f, version |-> fr.version, call |-> fr.call, seq |-> fr.seq, draft |-> draft]
<1>1. conn[c] \in ConnRec /\ c \in 1 .. Len(conn) /\ entry \in SnapshotRec
  BY PathFacts
<1>2. f \in Fences /\ conn[c].frame \in Seq(FrameRec)
  BY <1>1 DEF ConnRec
<1>3. conn[c].frame # <<>> /\ SentFits(t, n[f], fr)
  BY <1>1 DEF Tells, ConnsFit, ConnFits
<1>4. fr \in FrameRec
  BY <1>2, <1>3, TailFrames
<1>5. f \in 1 .. LastFence /\ f \in 0 .. LastFence /\ f # 0 /\ t \in Seq(ToldRec)
  BY <1>2, PreviewAssumption DEF Fences, Tells
<1>6. fr.version \in Nat /\ fr.call \in Nat /\ fr.seq \in Nat /\ fr.kind \in {"reset", "delta"}
      /\ fr.text \in Seq(Piece)
      /\ Len(fr.text) \in Nat
  BY <1>4, FrameTyped
<1>7. SnapshotFits(told, n, entry)
  BY DEF Tells
<1>8. \/ a = entry \/ a = NoSnapshot
      \/ fr.kind = "reset" /\ a = at(<<>>)
      \/ fr.kind = "delta" /\ Continues(f, fr) /\ a = at(entry.draft \o fr.text)
  BY <1>6 DEF Applied
<1> HIDE DEF a, fr, n, t, f
<1>9. fr.seq \in 1 .. n[f] /\ fr.seq \in 1 .. Len(t) /\ t[fr.seq].call = fr.call
  BY <1>3, <1>6 DEF SentFits, FrameFits
<1>10. t[fr.seq] = [call |-> fr.call, end |-> t[fr.seq].end] /\ t[fr.seq].end \in Nat
  BY <1>5, <1>9, ToldTyped
<1>11. ASSUME NEW d \in Seq(Piece), t[fr.seq].end = Len(d), Gapless(fr.call, d)
       PROVE  at(d) \in SnapshotRec /\ SnapshotFits(told, n, at(d))
  <2>1. at(d) \in SnapshotRec
    BY <1>5, <1>6 DEF SnapshotRec
  <2>2. told[f][fr.seq] = [call |-> fr.call, end |-> Len(d)]
    BY <1>10, <1>11 DEF t
  <2>3. SnapshotFits(told, n, at(d))
    BY <2>2, <1>5, <1>9, <1>11 DEF SnapshotFits, ShownFits
  <2> QED
    BY <2>1, <2>3
<1>12. CASE a = entry
  BY <1>1, <1>7, <1>12 DEF a, n, fr
<1>13. CASE a = NoSnapshot
  BY <1>13, NothingShown DEF a, n, fr
<1>14. CASE fr.kind = "reset" /\ a = at(<<>>)
  <2>1. t[fr.seq].end = 0 /\ <<>> \in Seq(Piece)
    BY <1>3, <1>14 DEF SentFits, FrameFits
  <2>2. t[fr.seq].end = Len(<<>>) /\ Gapless(fr.call, <<>>)
    BY <2>1, EmptyDraft
  <2>3. at(<<>>) \in SnapshotRec /\ SnapshotFits(told, n, at(<<>>))
    BY <2>1, <2>2, <1>11
  <2> HIDE DEF at
  <2> QED
    BY <2>3, <1>14 DEF a, n, fr
<1>15. CASE fr.kind = "delta" /\ Continues(f, fr) /\ a = at(entry.draft \o fr.text)
  <2> DEFINE d == entry.draft
  <2>1. d \in Seq(Piece) /\ Len(d) \in Nat /\ entry.seq \in Nat
    <3>1. d \in Seq(Piece) /\ entry.seq \in Nat
      BY <1>1 DEF SnapshotRec
    <3> QED
      BY <3>1, LenProperties
  <2>2. entry.fence = f /\ entry.call = fr.call /\ fr.seq = entry.seq + 1
    BY <1>15 DEF Continues
  <2>3. fr.seq - 1 = entry.seq
    BY <2>1, <2>2
  <2>4. t[fr.seq - 1] = [call |-> fr.call, end |-> Len(d)] /\ Gapless(fr.call, d)
    BY <1>5, <1>7, <2>2, <2>3 DEF SnapshotFits, ShownFits, t
  <2>5. t[fr.seq - 1].end = Len(d)
    BY <2>4
  <2>6. t[fr.seq].end = t[fr.seq - 1].end + Len(fr.text)
        /\ \A k \in 1 .. Len(fr.text) : fr.text[k] = <<fr.call, t[fr.seq - 1].end + k>>
    BY <1>3, <1>15 DEF SentFits, FrameFits
  <2> HIDE DEF d
  <2>7. t[fr.seq].end = Len(d) + Len(fr.text) /\ \A k \in 1 .. Len(fr.text) : fr.text[k] = <<fr.call, Len(d) + k>>
    BY <2>5, <2>6
  <2>8. Gapless(fr.call, d \o fr.text) /\ Len(d \o fr.text) = Len(d) + Len(fr.text) /\ d \o fr.text \in Seq(Piece)
    BY <2>1, <2>4, <2>7, <1>6, GaplessConcat
  <2>9. at(d \o fr.text) \in SnapshotRec /\ SnapshotFits(told, n, at(d \o fr.text))
    <3> DEFINE x == d \o fr.text
    <3>1. x \in Seq(Piece) /\ t[fr.seq].end = Len(x) /\ Gapless(fr.call, x)
      BY <2>7, <2>8
    <3> HIDE DEF x, at
    <3>2. at(x) \in SnapshotRec /\ SnapshotFits(told, n, at(x))
      BY <3>1, <1>11
    <3> QED
      BY <3>2 DEF x
  <2> HIDE DEF at
  <2> QED
    BY <2>9, <1>15 DEF a, n, fr, d
<1> QED
  BY <1>8, <1>12, <1>13, <1>14, <1>15

LEMMA ApplyPath ==
  ASSUME PathInv, NEW c \in DOMAIN conn, NEW allowed \in BOOLEAN, Apply(c, allowed)
  PROVE  PathInv'
<1> DEFINE e == [conn[c] EXCEPT !.server = "idle", !.frame = <<>>]
           a == Applied(c, Head(conn[c].frame))
<1>1. conn \in Seq(ConnRec) /\ Len(conn) \in Nat /\ owner \in 0 .. Len(conn) /\ conn[c] \in ConnRec
      /\ buffer \in [Fences -> BufferRec] /\ entry \in SnapshotRec
      /\ \A g \in Fences : buffer[g].consumer <= Len(conn)
  BY PathFacts
<1>2. /\ conn[c].server = "admitted" /\ conn' = [conn EXCEPT ![c] = e] /\ UNCHANGED <<buffer, owner, sub, view>>
      /\ entry' = a \/ entry' = NoSnapshot \/ entry' = entry
  BY DEF Apply
<1>3. e \in ConnRec /\ e.server = "idle"
  <2> DEFINE x == conn[c]
  <2> HIDE DEF x
  <2>1. x = [fence |-> x.fence, client |-> x.client, server |-> x.server, frame |-> x.frame, row |-> x.row]
        /\ x.fence \in Fences /\ x.client \in {"open", "broken"} /\ x.row \in Nat
    BY <1>1 DEF ConnRec, x
  <2>2. e = [x EXCEPT !.server = "idle", !.frame = <<>>]
    BY DEF x
  <2> HIDE DEF e
  <2>3. e = [fence |-> x.fence, client |-> x.client, server |-> "idle", frame |-> <<>>, row |-> x.row]
    BY <2>1, <2>2
  <2> QED
    BY <2>1, <2>3 DEF ConnRec
<1> HIDE DEF e
<1>4. conn' \in Seq(ConnRec) /\ Len(conn') = Len(conn) /\ Carries(conn, conn')
  BY <1>1, <1>2, <1>3, ChangedConn
<1>5. PICK told : Tells(told, buffer, conn, entry, sub.last, view)
  BY DEF PathInv, ToldInv
<1>6. a \in SnapshotRec /\ SnapshotFits(told, SentOf(buffer), a)
  BY <1>2, <1>5, AppliedFits
<1> HIDE DEF a
<1>7. entry' \in SnapshotRec /\ SnapshotFits(told, SentOf(buffer), entry')
  BY <1>1, <1>2, <1>5, <1>6, NothingShown DEF Tells
<1>8. Tells(told, buffer, conn', entry, sub.last, view)
  BY <1>4, <1>5, TellsLess
<1>9. Tells(told, buffer, conn', entry', sub.last, view)
  BY <1>7, <1>8 DEF Tells
<1>10. ToldInv'
  BY <1>2, <1>9 DEF ToldInv
<1>11. PathTypes'
  BY <1>1, <1>2, <1>4, <1>7 DEF PathTypes
<1>12. CallInv'
  BY <1>2 DEF PathInv, CallInv
<1> QED
  BY <1>10, <1>11, <1>12 DEF PathInv

-----------------------------------------------------------------------------
(* Preview: the stream and the screen *)

RunInv == work.status = "leased" => work.fence >= 1
(* The stream and the screen are not ahead of the run.                     *)
BehindInv ==
  /\ view.fence <= work.fence /\ view.version <= work.version
  /\ sub.fence <= work.fence /\ sub.version <= work.version
(* Once the stream has read the run, the screen is of what it read.        *)
ReadInv ==
  /\ sub.status # "none" => view.fence = sub.fence /\ view.version = sub.version
  /\ sub.known \/ sub.pc = "preview" => sub.status # "none"
  /\ sub.status = "leased" => sub.fence >= 1
(* A draft is shown under the attempt and version of the screen, and the   *)
(* stream knows when it has shown none.                                    *)
ShownInv ==
  /\ view.preview # NoPreview => view.preview.fence = view.fence /\ view.preview.version = view.version
  /\ view.preview = NoPreview => view.draft = <<>>
  /\ sub.known /\ sub.last = NoSnapshot => view.preview = NoPreview
  /\ sub.pc # "preview" /\ sub.known /\ view.preview # NoPreview =>
       /\ sub.status = "leased" /\ view.preview.fence = sub.fence /\ view.preview.version = sub.version
  /\ sub.pc = "done" => view.draft = <<>>
ScreenInv == RunInv /\ BehindInv /\ ReadInv /\ ShownInv

LEMMA RunFacts ==
  ASSUME RunTypes
  PROVE  /\ work.status \in RunStatus /\ work.fence \in 0 .. LastFence /\ work.version \in 1 .. MaxVersion
         /\ work.fence \in Nat /\ work.version \in Nat /\ LastFence \in Nat /\ MaxVersion \in Nat
         /\ calls \in 0 .. MaxCalls
  BY PreviewAssumption DEF RunTypes

LEMMA ScreenFacts ==
  ASSUME ScreenTypes
  PROVE  /\ sub.pc \in {"read", "preview", "done"} /\ sub.status \in RunStatus \cup {"none"}
         /\ sub.fence \in 0 .. LastFence /\ sub.version \in 0 .. MaxVersion /\ sub.known \in BOOLEAN
         /\ sub.last \in SnapshotRec /\ view.fence \in 0 .. LastFence /\ view.version \in Nat
         /\ view.closed \in 0 .. LastFence /\ view.preview \in PreviewRec /\ view.draft \in Seq(Piece)
         /\ sub.fence \in Nat /\ sub.version \in Nat /\ view.fence \in Nat /\ view.closed \in Nat
         /\ sub = [pc |-> sub.pc, status |-> sub.status, fence |-> sub.fence, version |-> sub.version,
                   known |-> sub.known, last |-> sub.last]
         /\ view = [fence |-> view.fence, version |-> view.version, closed |-> view.closed,
                    preview |-> view.preview, draft |-> view.draft]
<1>1. /\ sub.pc \in {"read", "preview", "done"} /\ sub.status \in RunStatus \cup {"none"}
      /\ sub.fence \in 0 .. LastFence /\ sub.version \in 0 .. MaxVersion /\ sub.known \in BOOLEAN
      /\ sub.last \in SnapshotRec
      /\ sub = [pc |-> sub.pc, status |-> sub.status, fence |-> sub.fence, version |-> sub.version,
                   known |-> sub.known, last |-> sub.last]
  BY DEF ScreenTypes
<1>2. /\ view.fence \in 0 .. LastFence /\ view.version \in Nat
      /\ view.closed \in 0 .. LastFence /\ view.preview \in PreviewRec /\ view.draft \in Seq(Piece)
      /\ view = [fence |-> view.fence, version |-> view.version, closed |-> view.closed,
                    preview |-> view.preview, draft |-> view.draft]
  BY DEF ScreenTypes
<1>3. sub.fence \in Nat /\ sub.version \in Nat /\ view.fence \in Nat /\ view.closed \in Nat
  BY <1>1, <1>2, PreviewAssumption
<1> QED
  BY <1>1, <1>2, <1>3

LEMMA ScreenSame ==
  ASSUME ScreenTypes, ScreenInv, RunTypes, RunTypes', RunInv', work.fence <= work'.fence, work.version <= work'.version,
         UNCHANGED <<sub, view>>
  PROVE  ScreenTypes' /\ ScreenInv'
<1>1. /\ sub.fence \in Nat /\ sub.version \in Nat /\ view.fence \in Nat /\ view.version \in Nat
      /\ work.fence \in Nat /\ work.version \in Nat
  BY RunFacts, ScreenFacts
<1>2. work'.fence \in Nat /\ work'.version \in Nat
  BY PreviewAssumption DEF RunTypes
<1>3. BehindInv'
  BY <1>1, <1>2 DEF ScreenInv, BehindInv
<1>4. ScreenTypes' /\ ReadInv' /\ ShownInv'
  BY DEF ScreenTypes, ScreenInv, ReadInv, ShownInv
<1> QED
  BY <1>3, <1>4 DEF ScreenInv

LEMMA ScreenStill ==
  ASSUME ScreenTypes, ScreenInv, RunTypes, UNCHANGED <<work, sub, view>>, calls' \in 0 .. MaxCalls
  PROVE  RunTypes' /\ ScreenTypes' /\ ScreenInv'
<1>1. RunTypes' /\ RunInv'
  BY DEF RunTypes, RunInv, ScreenInv
<1>2. work.fence <= work'.fence /\ work.version <= work'.version
  BY RunFacts
<1> QED
  BY <1>1, <1>2, ScreenSame

LEMMA WorkStep ==
  ASSUME RunTypes, ScreenTypes, ScreenInv, NEW status \in RunStatus, NEW fence \in 0 .. LastFence,
         NEW version \in 1 .. MaxVersion, work' = [status |-> status, fence |-> fence, version |-> version],
         status = "leased" => fence >= 1, work.fence <= fence, work.version <= version, UNCHANGED <<sub, view, calls>>
  PROVE  RunTypes' /\ ScreenTypes' /\ ScreenInv'
<1>1. RunTypes' /\ RunInv' /\ work.fence <= work'.fence /\ work.version <= work'.version
  BY DEF RunTypes, RunInv
<1> QED
  BY <1>1, ScreenSame

LEMMA WorkSteps ==
  ASSUME RunTypes, ScreenTypes, ScreenInv, Claim \/ Revise \/ \E status \in {"queued", "ended"} : LeaseEnds(status)
  PROVE  /\ RunTypes' /\ ScreenTypes' /\ ScreenInv'
         /\ UNCHANGED <<buffer, conn, owner, entry, sub, view>>
<1> DEFINE s == work.status
           f == work.fence
           v == work.version
<1>1. work = [status |-> s, fence |-> f, version |-> v]
  BY DEF RunTypes
<1>2. s \in RunStatus /\ f \in 0 .. LastFence /\ v \in 1 .. MaxVersion /\ f \in Nat /\ v \in Nat
      /\ LastFence \in Nat /\ MaxVersion \in Nat
  BY RunFacts
<1>3. s = "leased" => f >= 1
  BY DEF ScreenInv, RunInv
<1>4. CASE Claim
  <2>1. work' = [work EXCEPT !.status = "leased", !.fence = @ + 1] /\ f < LastFence
        /\ UNCHANGED <<buffer, conn, owner, entry, sub, view, calls>>
    BY <1>4 DEF Claim
  <2> DEFINE g == f + 1
  <2>2. g \in 0 .. LastFence /\ g >= 1 /\ f <= g /\ v <= v
    BY <1>2, <2>1
  <2>3. work' = [status |-> "leased", fence |-> g, version |-> v]
    <3>1. work' = [work EXCEPT !.status = "leased", !.fence = g]
      BY <2>1
    <3> HIDE DEF s, v, f, g
    <3> QED
      BY <1>1, <3>1
  <2>4. "leased" \in RunStatus
    BY DEF RunStatus
  <2> HIDE DEF g
  <2> QED
    BY <1>2, <2>1, <2>2, <2>3, <2>4, WorkStep
<1>5. CASE Revise
  <2>1. work' = [work EXCEPT !.version = @ + 1] /\ v < MaxVersion
        /\ UNCHANGED <<buffer, conn, owner, entry, sub, view, calls>>
    BY <1>5 DEF Revise
  <2> DEFINE w == v + 1
  <2>2. w \in 1 .. MaxVersion /\ v <= w /\ f <= f
    BY <1>2, <2>1
  <2>3. work' = [status |-> s, fence |-> f, version |-> w]
    <3> HIDE DEF s, f
    <3> QED
      BY <1>1, <2>1
  <2> HIDE DEF w
  <2> QED
    BY <1>2, <1>3, <2>1, <2>2, <2>3, WorkStep
<1>6. CASE \E status \in {"queued", "ended"} : LeaseEnds(status)
  <2>1. PICK status \in {"queued", "ended"} : LeaseEnds(status)
    BY <1>6
  <2>2. work' = [work EXCEPT !.status = status] /\ UNCHANGED <<buffer, conn, owner, entry, sub, view, calls>>
    BY <2>1 DEF LeaseEnds
  <2>3. work' = [status |-> status, fence |-> f, version |-> v]
    <3> HIDE DEF f, v, s
    <3> QED
      BY <1>1, <2>2
  <2>4. status \in RunStatus /\ status # "leased" /\ f <= f /\ v <= v
    BY <1>2 DEF RunStatus
  <2> QED
    BY <1>2, <2>2, <2>3, <2>4, WorkStep
<1> QED
  BY <1>4, <1>5, <1>6

(* A delta that goes on from the draft shown makes the whole draft.        *)
LEMMA DeltaWhole ==
  ASSUME NEW c, NEW v \in Seq(Piece), NEW d \in Seq(Piece), Gapless(c, v), Gapless(c, d), Len(v) <= Len(d)
  PROVE  v \o SubSeq(d, Len(v) + 1, Len(d)) = d
<1> DEFINE m == Len(v)
           x == SubSeq(d, m + 1, Len(d))
           y == v \o x
<1>1. m \in Nat /\ Len(d) \in Nat /\ Len(d) \in m .. Len(d)
  BY LenProperties
<1>2. x \in Seq(Piece) /\ Len(x) = Len(d) - m /\ \A k \in 1 .. Len(d) - m : x[k] = d[m + k]
  <2> HIDE DEF m
  <2> QED
    BY <1>1, SubSeqFrom
<1> HIDE DEF x
<1>3. y \in Seq(Piece) /\ Len(y) = m + Len(x) /\ \A i \in 1 .. m + Len(x) : y[i] = IF i <= m THEN v[i] ELSE x[i - m]
  BY <1>2, ConcatProperties
<1> HIDE DEF y
<1>4. (\A i \in 1 .. m : v[i] = <<c, i>>) /\ \A i \in 1 .. Len(d) : d[i] = <<c, i>>
  BY GaplessIff
<1> HIDE DEF m
<1>5. Len(y) = Len(d) /\ m + Len(x) = Len(d)
  BY <1>1, <1>2, <1>3
<1>6. ASSUME NEW i \in 1 .. Len(d) PROVE y[i] = d[i]
  <2>1. CASE i <= m
    <3>1. i \in 1 .. m
      BY <2>1, <1>1
    <3> QED
      BY <3>1, <2>1, <1>3, <1>4, <1>5
  <2>2. CASE ~(i <= m)
    <3>1. i - m \in 1 .. Len(d) - m /\ m + (i - m) = i
      BY <2>2, <1>1
    <3>2. x[i - m] = d[i]
      BY <3>1, <1>2
    <3> QED
      BY <3>2, <2>2, <1>3, <1>5
  <2> QED
    BY <2>1, <2>2
<1>7. y = d
  BY <1>3, <1>5, <1>6, SeqEqual
<1> QED
  BY <1>7 DEF y, x, m

(* What the screen may show next: the same, nothing, or the whole of a     *)
(* snapshot.                                                               *)
Cleared(v, w) == w.preview = NoPreview /\ w.draft = <<>>
Alike(v, w) == w.preview = v.preview /\ w.draft = v.draft

LEMMA NextView ==
  ASSUME NEW told, NEW n, NEW v, NEW w, ViewFits(told, n, v), Cleared(v, w) \/ Alike(v, w)
  PROVE  ViewFits(told, n, w)
<1>1. CASE Cleared(v, w)
  <2>1. w.preview.fence = 0 /\ w.draft = <<>>
    BY <1>1 DEF Cleared, NoPreview
  <2> QED
    BY <2>1 DEF ViewFits, ShownFits
<1>2. CASE Alike(v, w)
  BY <1>2 DEF Alike, ViewFits
<1> QED
  BY <1>1, <1>2

LEMMA NothingPrevious == NoPreview \in PreviewRec /\ NoPreview.fence = 0
  BY PreviewAssumption DEF NoPreview, PreviewRec

(* A state that is not behind the screen's.                                *)
LEMMA StateShown ==
  ASSUME RunTypes, ScreenTypes, ScreenInv
  PROVE  LET w == ConsumeState(view, work)
         IN
         /\ w \in [fence : 0 .. LastFence, version : Nat, closed : 0 .. LastFence, preview : PreviewRec, draft : Seq(Piece)]
            /\ w.fence = work.fence /\ w.version = work.version
            /\ \/ Cleared(view, w)
               \/ Alike(view, w) /\ work.fence = view.fence /\ work.version = view.version
<1> DEFINE w == ConsumeState(view, work)
           open == work.status \in {"queued", "leased"}
           kept == open /\ work.fence = view.fence /\ work.version = view.version
           closed == IF open THEN view.closed ELSE work.fence
           preview == IF kept THEN view.preview ELSE NoPreview
           draft == IF kept THEN view.draft ELSE <<>>
<1>1. /\ view.fence \in Nat /\ view.version \in Nat /\ view.closed \in 0 .. LastFence /\ view.preview \in PreviewRec
      /\ view.draft \in Seq(Piece)
      /\ view = [fence |-> view.fence, version |-> view.version, closed |-> view.closed,
                 preview |-> view.preview, draft |-> view.draft]
  BY ScreenFacts
<1>2. work.fence \in 0 .. LastFence /\ work.fence \in Nat /\ work.version \in Nat
  BY RunFacts
<1>3. ~(work.version < view.version \/ work.fence < view.fence)
  BY <1>1, <1>2 DEF ScreenInv, BehindInv
<1>4. w = [view EXCEPT !.fence = work.fence, !.version = work.version, !.closed = closed, !.preview = preview, !.draft = draft]
  BY <1>3 DEF ConsumeState
<1>5. closed \in 0 .. LastFence /\ preview \in PreviewRec /\ draft \in Seq(Piece)
  BY <1>1, <1>2, NothingPrevious
<1>6. ~kept => preview = NoPreview /\ draft = <<>>
  OBVIOUS
<1>7. kept => preview = view.preview /\ draft = view.draft /\ work.fence = view.fence /\ work.version = view.version
  OBVIOUS
<1> HIDE DEF w, closed, preview, draft, kept
<1>8. w = [fence |-> work.fence, version |-> work.version, closed |-> closed, preview |-> preview, draft |-> draft]
  BY <1>1, <1>4
<1>9. w \in [fence : 0 .. LastFence, version : Nat, closed : 0 .. LastFence, preview : PreviewRec, draft : Seq(Piece)]
  BY <1>2, <1>5, <1>8
<1>10. w.fence = work.fence /\ w.version = work.version /\ w.preview = preview /\ w.draft = draft
  BY <1>8
<1> QED
  BY <1>6, <1>7, <1>9, <1>10 DEF w, Cleared, Alike

LEMMA ReadScreen ==
  ASSUME RunTypes, PathInv, ScreenTypes, ScreenInv, SubRead
  PROVE  RunTypes' /\ PathInv' /\ ScreenTypes' /\ ScreenInv'
<1> DEFINE w == ConsumeState(view, work)
           same == <<sub.status, sub.fence, sub.version>> = <<work.status, work.fence, work.version>>
<1>1. /\ sub.pc = "read"
      /\ sub' = [sub EXCEPT !.pc = "preview", !.status = work.status, !.fence = work.fence, !.version = work.version]
      /\ view' = (IF same THEN view ELSE w)
      /\ UNCHANGED <<work, buffer, conn, owner, entry, calls>>
  BY DEF SubRead
<1>2. /\ sub.known \in BOOLEAN /\ sub.last \in SnapshotRec /\ view.fence \in Nat /\ view.version \in Nat
      /\ sub = [pc |-> sub.pc, status |-> sub.status, fence |-> sub.fence, version |-> sub.version,
                known |-> sub.known, last |-> sub.last]
     
      /\ view \in [fence : 0 .. LastFence, version : Nat, closed : 0 .. LastFence, preview : PreviewRec, draft : Seq(Piece)]
  BY ScreenFacts DEF ScreenTypes
<1>3. /\ work.status \in RunStatus /\ work.fence \in 0 .. LastFence /\ work.version \in 1 .. MaxVersion
      /\ work.fence \in Nat /\ work.version \in Nat /\ MaxVersion \in Nat /\ calls \in 0 .. MaxCalls
  BY RunFacts
<1>4.
      /\ w \in [fence : 0 .. LastFence, version : Nat, closed : 0 .. LastFence, preview : PreviewRec, draft : Seq(Piece)]
      /\ w.fence = work.fence /\ w.version = work.version
      /\ \/ Cleared(view, w)
         \/ Alike(view, w) /\ work.fence = view.fence /\ work.version = view.version
  BY StateShown
<1>5. sub' = [pc |-> "preview", status |-> work.status, fence |-> work.fence, version |-> work.version,
              known |-> sub.known, last |-> sub.last]
  <2> DEFINE s == work.status
             f == work.fence
             v == work.version
  <2>1. sub' = [sub EXCEPT !.pc = "preview", !.status = s, !.fence = f, !.version = v]
    BY <1>1
  <2> HIDE DEF s, f, v
  <2>2. sub' = [pc |-> "preview", status |-> s, fence |-> f, version |-> v, known |-> sub.known, last |-> sub.last]
    BY <1>2, <2>1
  <2> QED
    BY <2>2 DEF s, f, v
<1>6. sub'.pc = "preview" /\ sub'.status = work.status /\ sub'.fence = work.fence /\ sub'.version = work.version
      /\ sub'.known = sub.known /\ sub'.last = sub.last
  BY <1>5
<1>7. work.status # "none"
  BY <1>3 DEF RunStatus
<1> HIDE DEF w
<1>8. same => view.fence = work.fence /\ view.version = work.version
  BY <1>7 DEF ScreenInv, ReadInv
<1>9. /\ view'.fence = work.fence /\ view'.version = work.version
      /\ \/ Cleared(view, view')
         \/ Alike(view, view') /\ work.fence = view.fence /\ work.version = view.version
  <2>1. CASE same
    BY <2>1, <1>1, <1>8 DEF Alike
  <2>2. CASE ~same
    BY <2>2, <1>1, <1>4
  <2> QED
    BY <2>1, <2>2
<1>10. ScreenTypes'
  <2>1. view' \in [fence : 0 .. LastFence, version : Nat, closed : 0 .. LastFence, preview : PreviewRec, draft : Seq(Piece)]
    BY <1>1, <1>2, <1>4
  <2>2. work.version \in 0 .. MaxVersion
    BY <1>3
  <2>3. sub' \in [pc : {"read", "preview", "done"}, status : RunStatus \cup {"none"}, fence : 0 .. LastFence,
                  version : 0 .. MaxVersion, known : BOOLEAN, last : SnapshotRec]
    BY <1>2, <1>3, <1>5, <2>2
  <2> QED
    BY <2>1, <2>3 DEF ScreenTypes
<1>11. RunTypes' /\ RunInv'
  BY <1>1 DEF RunTypes, ScreenInv, RunInv
<1>12. BehindInv'
  BY <1>1, <1>3, <1>6, <1>9 DEF BehindInv
<1>13. ReadInv'
  <2>1. sub'.status = "leased" => sub'.fence >= 1
    BY <1>6 DEF ScreenInv, RunInv
  <2> QED
    BY <2>1, <1>6, <1>7, <1>9 DEF ReadInv
<1>14. ShownInv'
  <2>1. CASE Cleared(view, view')
    BY <2>1, <1>6 DEF Cleared, ShownInv
  <2>2. CASE Alike(view, view') /\ work.fence = view.fence /\ work.version = view.version
    BY <2>2, <1>6, <1>9 DEF Alike, ScreenInv, ShownInv
  <2> QED
    BY <2>1, <2>2, <1>9
<1>15. PathInv'
  <2>1. PICK told : Tells(told, buffer, conn, entry, sub.last, view)
    BY DEF PathInv, ToldInv
  <2>2. ViewFits(told, SentOf(buffer), view')
    BY <2>1, <1>9, NextView DEF Tells
  <2>3. Tells(told, buffer', conn', entry', sub'.last, view')
    BY <2>1, <2>2, <1>1, <1>6 DEF Tells
  <2> QED
    BY <2>3, <1>1 DEF PathInv, PathTypes, CallInv, ToldInv
<1> QED
  BY <1>10, <1>11, <1>12, <1>13, <1>14, <1>15 DEF ScreenInv

LEMMA ReconnectScreen ==
  ASSUME RunTypes, PathInv, ScreenTypes, ScreenInv, Reconnect
  PROVE  RunTypes' /\ PathInv' /\ ScreenTypes' /\ ScreenInv'
<1>1. sub' = NewSub /\ UNCHANGED <<work, buffer, conn, owner, entry, view, calls>> /\ sub.pc = "read"
  BY DEF Reconnect
<1>2. /\ sub'.pc = "read" /\ sub'.status = "none" /\ sub'.fence = 0 /\ sub'.version = 0 /\ sub'.known = FALSE
      /\ sub'.last = NoSnapshot
  BY <1>1 DEF NewSub
<1>3. ScreenTypes'
  BY <1>1, NothingShown, PreviewAssumption DEF ScreenTypes, NewSub
<1>4. work.fence \in Nat /\ work.version \in Nat
  BY RunFacts
<1>5. RunTypes' /\ RunInv' /\ BehindInv' /\ ReadInv' /\ ShownInv'
  BY <1>1, <1>2, <1>4 DEF RunTypes, ScreenInv, RunInv, BehindInv, ReadInv, ShownInv
<1>6. PathInv'
  <2>1. PICK told : Tells(told, buffer, conn, entry, sub.last, view)
    BY DEF PathInv, ToldInv
  <2>2. Tells(told, buffer', conn', entry', sub'.last, view')
    BY <2>1, <1>1, <1>2, NothingShown DEF Tells
  <2> QED
    BY <2>2, <1>1 DEF PathInv, PathTypes, CallInv, ToldInv
<1> QED
  BY <1>3, <1>5, <1>6 DEF ScreenInv

(* What a snapshot makes of the screen.                                    *)
Whole(v, e, w) ==
  /\ w.fence = e.fence /\ w.version = e.version /\ w.draft = e.draft
  /\ w.preview = [fence |-> e.fence, version |-> e.version, call |-> e.call, seq |-> e.seq]

LEMMA Deltas ==
  ASSUME NEW told \in [Fences -> Seq(ToldRec)], NEW n, NEW e \in SnapshotRec, NEW last \in SnapshotRec,
         NEW v, v.draft \in Seq(Piece), SnapshotFits(told, n, e), SnapshotFits(told, n, last), ViewFits(told, n, v),
         e.fence # 0, Extends(last, e), v.preview.call = e.call, v.preview.fence = e.fence, v.preview.seq = last.seq
  PROVE  v.draft \o SubSeq(e.draft, Len(last.draft) + 1, Len(e.draft)) = e.draft
<1> DEFINE t == told[e.fence]
           x == v.draft
           y == e.draft
           z == last.draft
<1>1. last.call = e.call /\ last.fence = e.fence /\ Len(z) <= Len(y)
  BY DEF Extends, IsPrefix
<1>2. y \in Seq(Piece) /\ z \in Seq(Piece) /\ x \in Seq(Piece)
  BY DEF SnapshotRec
<1>3. Gapless(e.call, y)
  BY DEF SnapshotFits, ShownFits
<1>4. t[last.seq] = [call |-> e.call, end |-> Len(z)]
  BY <1>1 DEF SnapshotFits, ShownFits
<1>5. t[last.seq] = [call |-> e.call, end |-> Len(x)] /\ Gapless(e.call, x)
  BY DEF ViewFits, ShownFits
<1> HIDE DEF t, x, y, z
<1>6. Len(x) = Len(z)
  <2>1. t[last.seq].end = Len(x) /\ t[last.seq].end = Len(z)
    <3> DEFINE i == Len(x)
               j == Len(z)
    <3>1. t[last.seq].end = i
      <4>1. t[last.seq] = [call |-> e.call, end |-> i]
        BY <1>5
      <4> HIDE DEF i
      <4> QED
        BY <4>1
    <3>2. t[last.seq].end = j
      <4>1. t[last.seq] = [call |-> e.call, end |-> j]
        BY <1>4
      <4> HIDE DEF j
      <4> QED
        BY <4>1
    <3> QED
      BY <3>1, <3>2
  <2> QED
    BY <2>1
<1>7. x \o SubSeq(y, Len(x) + 1, Len(y)) = y
  BY <1>1, <1>2, <1>3, <1>5, <1>6, DeltaWhole
<1> QED
  BY <1>6, <1>7 DEF x, y, z

LEMMA SnapshotTyped ==
  ASSUME NEW s \in SnapshotRec
  PROVE  /\ s.fence \in 0 .. LastFence /\ s.fence \in Nat /\ s.version \in Nat /\ s.call \in Nat /\ s.seq \in Nat
         /\ s.draft \in Seq(Piece)
  BY PreviewAssumption DEF SnapshotRec

(* A delta shows what the whole draft would.                               *)
LEMMA Consumed ==
  ASSUME PathInv, ScreenTypes, ScreenInv, Eligible
  PROVE  LET delta == SubSeq(entry.draft, Len(sub.last.draft) + 1, Len(entry.draft))
             w == ConsumePreview(view, entry, delta, sub.last.seq, ~Extends(sub.last, entry))
         IN \/ w = view \/ w = Shows(view, entry, entry.draft)
            \/ w = [view EXCEPT !.draft = <<>>, !.preview = NoPreview]
<1> DEFINE delta == SubSeq(entry.draft, Len(sub.last.draft) + 1, Len(entry.draft))
           p == view.preview
           goes == p.call = entry.call /\ p.fence = entry.fence /\ p.version = entry.version /\ p.seq = sub.last.seq
           w == ConsumePreview(view, entry, delta, sub.last.seq, ~Extends(sub.last, entry))
<1>1. \/ w = view \/ w = Shows(view, entry, entry.draft)
      \/ w = [view EXCEPT !.draft = <<>>, !.preview = NoPreview]
      \/ Extends(sub.last, entry) /\ goes /\ w = Shows(view, entry, view.draft \o delta)
  <2> HIDE DEF delta
  <2> QED
    BY DEF ConsumePreview
<1> HIDE DEF w
<1>2. CASE Extends(sub.last, entry) /\ goes /\ w = Shows(view, entry, view.draft \o delta)
  <2>1. PICK told : Tells(told, buffer, conn, entry, sub.last, view)
    BY DEF PathInv, ToldInv
  <2>2. told \in [Fences -> Seq(ToldRec)] /\ SnapshotFits(told, SentOf(buffer), entry)
        /\ SnapshotFits(told, SentOf(buffer), sub.last) /\ ViewFits(told, SentOf(buffer), view)
    BY <2>1 DEF Tells
  <2>3. entry \in SnapshotRec /\ sub.last \in SnapshotRec /\ view.draft \in Seq(Piece)
    BY PathFacts, ScreenFacts
  <2>4. entry.fence # 0
    <3>1. entry.fence = sub.fence /\ sub.fence >= 1
      BY DEF Eligible, ScreenInv, ReadInv
    <3> QED
      BY <3>1
  <2>5. view.draft \o delta = entry.draft
    BY <1>2, <2>2, <2>3, <2>4, Deltas
  <2> HIDE DEF delta
  <2>6. w = Shows(view, entry, entry.draft)
    BY <1>2, <2>5
  <2> QED
    BY <2>6 DEF w, delta
<1> QED
  BY <1>1, <1>2 DEF w

ViewType == [fence : 0 .. LastFence, version : Nat, closed : 0 .. LastFence, preview : PreviewRec, draft : Seq(Piece)]

LEMMA ClearedView ==
  ASSUME ScreenTypes, NEW w, w = [view EXCEPT !.draft = <<>>, !.preview = NoPreview]
  PROVE  w \in ViewType /\ w.fence = view.fence /\ w.version = view.version /\ Cleared(view, w)
<1>1. w = [fence |-> view.fence, version |-> view.version, closed |-> view.closed, preview |-> NoPreview, draft |-> <<>>]
  BY ScreenFacts
<1>2. w \in ViewType
  <2>1. view.fence \in 0 .. LastFence /\ view.version \in Nat /\ view.closed \in 0 .. LastFence
        /\ NoPreview \in PreviewRec
    BY ScreenFacts, NothingPrevious
  <2>2. <<>> \in Seq(Piece)
    OBVIOUS
  <2> DEFINE n == NoPreview
             d == <<>>
  <2> HIDE DEF n, d
  <2> QED
    BY <1>1, <2>1, <2>2 DEF ViewType, n, d
<1> QED
  BY <1>1, <1>2 DEF Cleared

LEMMA WholeView ==
  ASSUME PathInv, ScreenTypes, NEW w, w = Shows(view, entry, entry.draft)
  PROVE  w \in ViewType /\ Whole(view, entry, w)
<1> DEFINE p == [fence |-> entry.fence, version |-> entry.version, call |-> entry.call, seq |-> entry.seq]
<1>1. entry \in SnapshotRec
  BY PathFacts
<1>2. /\ entry.fence \in 0 .. LastFence /\ entry.version \in Nat /\ entry.call \in Nat /\ entry.seq \in Nat
      /\ entry.draft \in Seq(Piece)
  BY <1>1, SnapshotTyped
<1>3. p \in PreviewRec
  BY <1>2 DEF PreviewRec
<1>4. w = [view EXCEPT !.fence = entry.fence, !.version = entry.version, !.draft = entry.draft, !.preview = p]
  BY DEF Shows
<1>5. w = [fence |-> entry.fence, version |-> entry.version, closed |-> view.closed, preview |-> p, draft |-> entry.draft]
  <2> DEFINE f == entry.fence
             v == entry.version
             d == entry.draft
  <2>1. w = [view EXCEPT !.fence = f, !.version = v, !.draft = d, !.preview = p]
    BY <1>4
  <2> HIDE DEF f, v, d, p
  <2>2. w = [fence |-> f, version |-> v, closed |-> view.closed, preview |-> p, draft |-> d]
    BY <2>1, ScreenFacts
  <2> QED
    BY <2>2 DEF f, v, d
<1>6. w \in ViewType
  <2> HIDE DEF p
  <2> QED
    BY <1>2, <1>3, <1>5, ScreenFacts DEF ViewType
<1> QED
  BY <1>5, <1>6 DEF Whole

(* What a round of the stream does: Alike, Whole, or Cleared.              *)
LEMMA RoundShows ==
  ASSUME PathInv, ScreenTypes, ScreenInv, NEW allowed \in BOOLEAN, SubPreview(allowed)
  PROVE  /\ view' \in ViewType /\ view'.fence = view.fence /\ view'.version = view.version
         /\ sub'.last \in SnapshotRec
         /\ \/ Alike(view, view') /\ Eligible /\ sub'.last \in {entry, sub.last} /\ sub'.last # NoSnapshot
            \/ Whole(view, entry, view') /\ Eligible /\ sub'.last = entry /\ sub'.last # NoSnapshot
            \/ Alike(view, view') /\ sub.known /\ sub.last = NoSnapshot /\ sub'.last = NoSnapshot
            \/ Cleared(view, view') /\ sub'.last \in {entry, NoSnapshot}
<1> DEFINE shown == Eligible /\ allowed
           news == entry.seq # sub.last.seq \/ entry.fence # sub.last.fence
           delta == SubSeq(entry.draft, Len(sub.last.draft) + 1, Len(entry.draft))
           w == ConsumePreview(view, entry, delta, sub.last.seq, ~Extends(sub.last, entry))
           none == sub.known /\ sub.last = NoSnapshot
           cleared == [view EXCEPT !.draft = <<>>, !.preview = NoPreview]
           last == IF shown /\ news THEN entry ELSE IF shown THEN sub.last ELSE NoSnapshot
<1>1. /\ sub.pc = "preview"
      /\ view' = (IF shown /\ news THEN w ELSE IF shown \/ none THEN view ELSE cleared)
  <2> HIDE DEF w, cleared
  <2> QED
    BY DEF SubPreview, w, cleared
<1>2. sub'.last = last
  <2>1. sub' = [sub EXCEPT !.known = TRUE, !.last = last, !.pc = IF sub.status = "ended" THEN "done" ELSE "read"]
    BY DEF SubPreview
  <2> HIDE DEF last
  <2>2. sub = [pc |-> sub.pc, status |-> sub.status, fence |-> sub.fence, version |-> sub.version,
               known |-> sub.known, last |-> sub.last]
    BY ScreenFacts
  <2> QED
    BY <2>1, <2>2
<1>3. entry \in SnapshotRec /\ sub.last \in SnapshotRec /\ NoSnapshot \in SnapshotRec /\ view \in ViewType
  BY PathFacts, ScreenFacts, NothingShown DEF ScreenTypes, ViewType
<1>4. Eligible => entry.fence = view.fence /\ entry.version = view.version /\ entry.fence >= 1
  BY DEF Eligible, ScreenInv, ReadInv
<1>5. Eligible => entry # NoSnapshot /\ (~news => sub.last # NoSnapshot)
  BY <1>4 DEF NoSnapshot
<1>6. Eligible => w = view \/ w = Shows(view, entry, entry.draft) \/ w = cleared
  BY Consumed
<1> HIDE DEF w
<1>7. CASE shown /\ news
  <2>1. view' = w /\ sub'.last = entry /\ entry # NoSnapshot
    BY <1>1, <1>2, <1>5, <1>7
  <2>2. CASE w = view
    BY <2>1, <2>2, <1>3, <1>7 DEF Alike
  <2>3. CASE w = Shows(view, entry, entry.draft)
    <3>1. view' \in ViewType /\ Whole(view, entry, view')
      BY <2>1, <2>3, WholeView
    <3>2. view'.fence = view.fence /\ view'.version = view.version
      BY <3>1, <1>4, <1>7 DEF Whole
    <3> QED
      BY <3>1, <3>2, <2>1, <1>3, <1>7
  <2>4. CASE w = cleared
    <3>1. view' \in ViewType /\ view'.fence = view.fence /\ view'.version = view.version /\ Cleared(view, view')
      BY <2>1, <2>4, ClearedView
    <3> QED
      BY <3>1, <2>1, <1>3
  <2> QED
    BY <2>2, <2>3, <2>4, <1>6, <1>7
<1>8. CASE shown /\ ~news
  <2>1. view' = view /\ sub'.last = sub.last /\ sub.last # NoSnapshot
    BY <1>1, <1>2, <1>5, <1>8
  <2> QED
    BY <2>1, <1>3, <1>8 DEF Alike
<1>9. CASE ~shown /\ none
  <2>1. view' = view /\ sub'.last = NoSnapshot
    BY <1>1, <1>2, <1>9
  <2> QED
    BY <2>1, <1>3, <1>9 DEF Alike
<1>10. CASE ~shown /\ ~none
  <2>1. view' = cleared /\ sub'.last = NoSnapshot
    BY <1>1, <1>2, <1>10
  <2>2. view' \in ViewType /\ view'.fence = view.fence /\ view'.version = view.version /\ Cleared(view, view')
    BY <2>1, ClearedView
  <2> QED
    BY <2>1, <2>2, <1>3
<1> QED
  BY <1>7, <1>8, <1>9, <1>10

LEMMA PreviewScreen ==
  ASSUME RunTypes, PathInv, ScreenTypes, ScreenInv, NEW allowed \in BOOLEAN, SubPreview(allowed)
  PROVE  RunTypes' /\ PathInv' /\ ScreenTypes' /\ ScreenInv'
<1>1. /\ view' \in ViewType /\ view'.fence = view.fence /\ view'.version = view.version
      /\ sub'.last \in SnapshotRec
      /\ \/ Alike(view, view') /\ Eligible /\ sub'.last \in {entry, sub.last} /\ sub'.last # NoSnapshot
         \/ Whole(view, entry, view') /\ Eligible /\ sub'.last = entry /\ sub'.last # NoSnapshot
         \/ Alike(view, view') /\ sub.known /\ sub.last = NoSnapshot /\ sub'.last = NoSnapshot
         \/ Cleared(view, view') /\ sub'.last \in {entry, NoSnapshot}
  BY RoundShows
<1> DEFINE last == sub'.last
           pc == IF sub.status = "ended" THEN "done" ELSE "read"
<1>2. sub.pc = "preview" /\ UNCHANGED <<work, buffer, conn, owner, entry, calls>>
      /\ \E l : sub' = [sub EXCEPT !.known = TRUE, !.last = l, !.pc = pc]
  BY DEF SubPreview
<1> HIDE DEF pc
<1>3. sub' = [pc |-> pc, status |-> sub.status, fence |-> sub.fence, version |-> sub.version, known |-> TRUE, last |-> last]
  <2>1. PICK l : sub' = [sub EXCEPT !.known = TRUE, !.last = l, !.pc = pc]
    BY <1>2
  <2>2. sub = [pc |-> sub.pc, status |-> sub.status, fence |-> sub.fence, version |-> sub.version,
               known |-> sub.known, last |-> sub.last]
    BY ScreenFacts
  <2>3. sub' = [pc |-> pc, status |-> sub.status, fence |-> sub.fence, version |-> sub.version, known |-> TRUE, last |-> l]
    BY <2>1, <2>2
  <2>4. last = l
    BY <2>3
  <2> HIDE DEF last
  <2> QED
    BY <2>3, <2>4
<1>4. sub'.pc = pc /\ sub'.status = sub.status /\ sub'.fence = sub.fence /\ sub'.version = sub.version
      /\ sub'.known = TRUE
  BY <1>3
<1>5. ScreenTypes'
  <2>1. pc \in {"read", "preview", "done"}
    BY DEF pc
  <2>2. sub' \in [pc : {"read", "preview", "done"}, status : RunStatus \cup {"none"}, fence : 0 .. LastFence,
                  version : 0 .. MaxVersion, known : BOOLEAN, last : SnapshotRec]
    <3>1. last \in SnapshotRec
      BY <1>1
    <3> HIDE DEF last
    <3> QED
      BY <1>3, <2>1, <3>1, ScreenFacts
  <2> QED
    BY <1>1, <2>2 DEF ScreenTypes, ViewType
<1>6. RunTypes' /\ RunInv' /\ BehindInv'
  BY <1>1, <1>2, <1>4 DEF RunTypes, ScreenInv, RunInv, BehindInv
<1>7. ReadInv'
  BY <1>1, <1>2, <1>4 DEF ScreenInv, ReadInv
<1>8. Eligible => sub.status = "leased" /\ entry.fence = sub.fence /\ entry.version = sub.version
  BY DEF Eligible
<1>9. sub.status # "none" /\ view.fence = sub.fence /\ view.version = sub.version
  BY <1>2 DEF ScreenInv, ReadInv
<1>10. ShownInv'
  <2>1. CASE Alike(view, view') /\ Eligible /\ sub'.last \in {entry, sub.last} /\ sub'.last # NoSnapshot
    <3>1. sub.status = "leased" /\ pc # "done"
      BY <2>1, <1>8 DEF pc
    <3> QED
      BY <2>1, <3>1, <1>1, <1>4, <1>9 DEF Alike, ScreenInv, ShownInv
  <2>2. CASE Whole(view, entry, view') /\ Eligible /\ sub'.last = entry /\ sub'.last # NoSnapshot
    <3>1. sub.status = "leased" /\ pc # "done"
      BY <2>2, <1>8 DEF pc
    <3>2. view'.preview.fence = entry.fence /\ view'.preview.version = entry.version
          /\ view'.fence = entry.fence /\ view'.version = entry.version
      BY <2>2 DEF Whole
    <3>3. view'.preview # NoPreview
      <4>1. entry.fence >= 1
        BY <2>2, <1>8 DEF ScreenInv, ReadInv
      <4> QED
        BY <3>2, <4>1 DEF NoPreview
    <3> QED
      BY <2>2, <3>1, <3>2, <3>3, <1>4, <1>8 DEF ShownInv
  <2>3. CASE Alike(view, view') /\ sub.known /\ sub.last = NoSnapshot /\ sub'.last = NoSnapshot
    <3>1. view.preview = NoPreview /\ view.draft = <<>>
      BY <2>3 DEF ScreenInv, ShownInv
    <3> QED
      BY <2>3, <3>1 DEF Alike, ShownInv
  <2>4. CASE Cleared(view, view')
    BY <2>4 DEF Cleared, ShownInv
  <2> QED
    BY <2>1, <2>2, <2>3, <2>4, <1>1
<1>11. PathInv'
  <2>1. PICK told : Tells(told, buffer, conn, entry, sub.last, view)
    BY DEF PathInv, ToldInv
  <2>2. sub'.last = entry \/ sub'.last = sub.last \/ sub'.last = NoSnapshot
    BY <1>1
  <2>3. SnapshotFits(told, SentOf(buffer), sub'.last)
    BY <2>1, <2>2, NothingShown DEF Tells
  <2>4. ViewFits(told, SentOf(buffer), view')
    <3>1. CASE Cleared(view, view') \/ Alike(view, view')
      BY <3>1, <2>1, NextView DEF Tells
    <3>2. CASE Whole(view, entry, view')
      <4>1. view'.preview.fence = entry.fence /\ view'.preview.call = entry.call /\ view'.preview.seq = entry.seq
            /\ view'.draft = entry.draft
        BY <3>2 DEF Whole
      <4>2. SnapshotFits(told, SentOf(buffer), entry)
        BY <2>1 DEF Tells
      <4> QED
        BY <4>1, <4>2 DEF SnapshotFits, ViewFits
    <3> QED
      BY <3>1, <3>2, <1>1
  <2>5. Tells(told, buffer', conn', entry', sub'.last, view')
    BY <2>1, <2>3, <2>4, <1>2 DEF Tells
  <2> QED
    BY <2>5, <1>2 DEF PathInv, PathTypes, CallInv, ToldInv
<1> QED
  BY <1>5, <1>6, <1>7, <1>10, <1>11 DEF ScreenInv

PreviewInv == RunTypes /\ PathInv /\ ScreenTypes /\ ScreenInv

LEMMA PreviewStarts == PreviewInit => PreviewInv
<1> SUFFICES ASSUME PreviewInit PROVE PreviewInv
  OBVIOUS
<1>1. LastFence \in Nat /\ MaxVersion \in Nat /\ 1 \in 1 .. MaxVersion /\ MaxCalls \in Nat /\ 0 \in 0 .. LastFence
  BY PreviewAssumption
<1>2. RunTypes /\ calls = 0
  BY <1>1 DEF PreviewInit, RunTypes, RunStatus
<1>3. /\ sub.pc = "read" /\ sub.status = "none" /\ sub.fence = 0 /\ sub.version = 0 /\ sub.known = FALSE
      /\ sub.last = NoSnapshot /\ view.fence = 0 /\ view.version = 0 /\ view.preview = NoPreview /\ view.draft = <<>>
      /\ work.status = "queued" /\ work.fence = 0 /\ work.version = 1
  BY DEF PreviewInit, NewSub
<1>4. ScreenTypes
  BY <1>1, NothingShown, NothingPrevious DEF PreviewInit, ScreenTypes, NewSub
<1>5. ScreenInv
  BY <1>3 DEF ScreenInv, RunInv, BehindInv, ReadInv, ShownInv
<1>6. NewBuffer \in BufferRec
  BY DEF NewBuffer, BufferRec
<1>7. buffer = [f \in Fences |-> NewBuffer] /\ conn = <<>> /\ owner = 0 /\ entry = NoSnapshot
  BY DEF PreviewInit
<1>8. \A f \in Fences : buffer[f] = NewBuffer
  BY <1>7
<1>9. PathTypes
  <2>1. buffer \in [Fences -> BufferRec]
    BY <1>6, <1>7
  <2>2. conn \in Seq(ConnRec) /\ Len(conn) = 0
    BY <1>7
  <2>3. \A f \in Fences : buffer[f].consumer <= Len(conn)
    BY <1>8, <2>2 DEF NewBuffer
  <2> QED
    BY <1>7, <2>1, <2>2, <2>3, NothingShown DEF PathTypes
<1>10. CallInv
  BY <1>8 DEF CallInv, NewBuffer
<1>11. BufferFits(<<>>, NewBuffer)
  <2>1. NewBuffer.seq = 0 /\ NewBuffer.batch = <<>> /\ NewBuffer.pending = <<>> /\ NewBuffer.enabled = FALSE
        /\ NewBuffer.draft = <<>>
    BY DEF NewBuffer
  <2>2. Queue(NewBuffer) = <<>> /\ Len(<<>>) = 0
    BY <2>1, NoFrames DEF Queue
  <2>3. QueueFits(<<>>, NewBuffer)
    BY <2>2 DEF QueueFits
  <2> QED
    BY <2>1, <2>2, <2>3, EmptyDraft DEF BufferFits, DraftFits
<1>12. ToldInv
  <2> DEFINE told == [f \in Fences |-> <<>>]
  <2>1. told \in [Fences -> Seq(ToldRec)] /\ \A f \in Fences : told[f] = <<>>
    OBVIOUS
  <2> HIDE DEF told
  <2>2. BuffersFit(told, buffer)
    BY <2>1, <1>8, <1>11 DEF BuffersFit
  <2>3. ConnsFit(told, SentOf(buffer), conn)
    BY <1>7 DEF ConnsFit
  <2>4. ViewFits(told, SentOf(buffer), view)
    BY <1>3, NothingPrevious DEF ViewFits, ShownFits
  <2>5. Tells(told, buffer, conn, entry, sub.last, view)
    BY <2>1, <2>2, <2>3, <2>4, <1>3, <1>7, NothingShown DEF Tells
  <2> QED
    BY <2>5 DEF ToldInv
<1> QED
  BY <1>2, <1>4, <1>5, <1>9, <1>10, <1>12 DEF PreviewInv, PathInv

LEMMA PreviewGoesOn == PreviewInv /\ [PreviewNext]_pvars => PreviewInv'
<1> SUFFICES ASSUME RunTypes, PathInv, ScreenTypes, ScreenInv, [PreviewNext]_pvars
             PROVE  RunTypes' /\ PathInv' /\ ScreenTypes' /\ ScreenInv'
  BY DEF PreviewInv
<1>0. calls \in 0 .. MaxCalls
  BY RunFacts
<1>1. CASE UNCHANGED pvars
  BY <1>0, <1>1, PathSame, ScreenStill DEF pvars
<1>2. CASE Claim \/ Revise \/ \E status \in {"queued", "ended"} : LeaseEnds(status)
  BY <1>2, WorkSteps, PathSame
<1>3. ASSUME NEW f \in Fences, NEW version \in 1 .. MaxVersion, StartCall(f, version)
      PROVE  RunTypes' /\ PathInv' /\ ScreenTypes' /\ ScreenInv'
  <2>1. UNCHANGED <<work, sub, view>>
    BY <1>3 DEF StartCall, Buffers
  <2> QED
    BY <1>3, <2>1, StartPath, ScreenStill
<1>4. ASSUME NEW f \in Fences, Push(f) \/ Discard(f) \/ CloseBuffer(f) \/ Connect(f)
      PROVE  RunTypes' /\ PathInv' /\ ScreenTypes' /\ ScreenInv'
  <2>1. UNCHANGED <<work, sub, view, calls>>
    BY <1>4 DEF Push, Discard, CloseBuffer, Connect, Buffers
  <2>2. PathInv'
    BY <1>4, PushPath, DiscardPath, ClosePath, ConnectPath
  <2> QED
    BY <1>0, <2>1, <2>2, ScreenStill
<1>5. ASSUME NEW c \in DOMAIN conn, Break(c) \/ Query(c) \/ Admit(c) \/ UploadEnds(c)
      PROVE  RunTypes' /\ PathInv' /\ ScreenTypes' /\ ScreenInv'
  <2>1. UNCHANGED <<work, sub, view, calls>>
    BY <1>5 DEF Break, Query, Admit, UploadEnds, Finished
  <2>2. PathInv'
    BY <1>5, BreakPath, QueryPath, AdmitPath, EndPath
  <2> QED
    BY <1>0, <2>1, <2>2, ScreenStill
<1>6. ASSUME NEW c \in DOMAIN conn, NEW allowed \in BOOLEAN, Apply(c, allowed)
      PROVE  RunTypes' /\ PathInv' /\ ScreenTypes' /\ ScreenInv'
  <2>1. UNCHANGED <<work, sub, view, calls>>
    BY <1>6 DEF Apply
  <2> QED
    BY <1>0, <1>6, <2>1, ApplyPath, ScreenStill
<1>7. CASE SubRead
  BY <1>7, ReadScreen
<1>8. CASE Reconnect
  BY <1>8, ReconnectScreen
<1>9. ASSUME NEW allowed \in BOOLEAN, SubPreview(allowed)
      PROVE  RunTypes' /\ PathInv' /\ ScreenTypes' /\ ScreenInv'
  BY <1>9, PreviewScreen
<1> QED
  BY <1>1, <1>2, <1>3, <1>4, <1>5, <1>6, <1>7, <1>8, <1>9 DEF PreviewNext

(* What a person sees of a draft is the beginning of one provider call's   *)
(* text, of the attempt and version that the stream last read, whatever    *)
(* uploads broke, overlapped or came from a fenced attempt.                *)
THEOREM DraftKept == PreviewSpec => []DraftIsTrue
<1>1. PreviewInit => PreviewInv
  BY PreviewStarts
<1>2. PreviewInv /\ [PreviewNext]_pvars => PreviewInv'
  BY PreviewGoesOn
<1>3. PreviewInv => DraftIsTrue
  <2> SUFFICES ASSUME PreviewInv PROVE DraftIsTrue
    OBVIOUS
  <2>1. PreviewTypeOK
    BY TypesSplit DEF PreviewInv, PathInv
  <2>2. Gapless(view.preview.call, view.draft)
    <3>1. PICK told : Tells(told, buffer, conn, entry, sub.last, view)
      BY DEF PreviewInv, PathInv, ToldInv
    <3> QED
      BY <3>1, EmptyDraft DEF Tells, ViewFits, ShownFits
  <2> QED
    BY <2>1, <2>2 DEF DraftIsTrue, PreviewInv, ScreenInv, ShownInv
<1> QED
  BY <1>1, <1>2, <1>3, PTL DEF PreviewSpec

-----------------------------------------------------------------------------
(* Outbox: type correctness *)

USE OutboxAssumption

(* A lane's slot and the run's row as TypeOK has them.                     *)
Slot == [pc : Busy \cup {"idle"}, row : Row \cup {0}, answered : BOOLEAN]
RunRow == [status : {"queued", "leased", "ended", "failed"}, fence : Nat, cancelled : BOOLEAN, result : Result \cup {0}]

(* A lane at work is at work on a row, and receipts are for results.       *)
LaneInv ==
  \A l \in Lane : /\ lane[l].pc # "idle" => lane[l].row \in Row
                  /\ lane[l].pc = "receipt" => lane[l].row \in Result

(* How a lane changes: a new step of the same delivery, an answer, rest or *)
(* a new claim.                                                            *)
MovesTo(l, p) == lane' = [lane EXCEPT ![l].pc = p]
Rests(l) == lane' = [lane EXCEPT ![l] = Rest]

(* The slots after a change of one lane.                                   *)
LEMMA SlotFacts ==
  ASSUME lane \in [Lane -> Slot], NEW l \in Lane
  PROVE  /\ lane[l].row \in Row \cup {0}
         /\ \A p \in Busy : MovesTo(l, p) =>
              /\ lane' \in [Lane -> Slot]
              /\ lane'[l].row = lane[l].row /\ lane'[l].pc = p /\ lane'[l].answered = lane[l].answered
              /\ \A k \in Lane \ {l} : lane'[k] = lane[k]
         /\ Rests(l) =>
              /\ lane' \in [Lane -> Slot] /\ lane'[l].pc = "idle"
              /\ \A k \in Lane \ {l} : lane'[k] = lane[k]
<1>1. lane[l] \in Slot
  OBVIOUS
<1>2. Rest \in Slot /\ Rest.pc = "idle"
  BY DEF Rest, Slot
<1>3. lane[l].row \in Row \cup {0}
  BY <1>1 DEF Slot
<1>4. ASSUME NEW p \in Busy, MovesTo(l, p)
      PROVE  /\ lane' \in [Lane -> Slot]
             /\ lane'[l].row = lane[l].row /\ lane'[l].pc = p /\ lane'[l].answered = lane[l].answered
             /\ \A k \in Lane \ {l} : lane'[k] = lane[k]
  <2>1. [lane[l] EXCEPT !.pc = p] \in Slot
    BY <1>1 DEF Slot
  <2>2. lane' = [lane EXCEPT ![l] = [lane[l] EXCEPT !.pc = p]]
    BY <1>4 DEF MovesTo
  <2>3. lane'[l] = [lane[l] EXCEPT !.pc = p] /\ \A k \in Lane \ {l} : lane'[k] = lane[k]
    BY <2>2
  <2>4. lane' \in [Lane -> Slot]
    BY <2>1, <2>2
  <2>5. lane'[l].row = lane[l].row /\ lane'[l].pc = p /\ lane'[l].answered = lane[l].answered
    BY <1>1, <2>3 DEF Slot
  <2> QED
    BY <2>3, <2>4, <2>5
<1>5. Rests(l) => /\ lane' \in [Lane -> Slot] /\ lane'[l].pc = "idle"
                  /\ \A k \in Lane \ {l} : lane'[k] = lane[k]
  BY <1>2 DEF Rests
<1> QED
  BY <1>3, <1>4, <1>5

(* The slots after a claim, and after an answer.                           *)
LEMMA SlotClaims ==
  ASSUME lane \in [Lane -> Slot], NEW l \in Lane, NEW r \in Row,
         lane' = [lane EXCEPT ![l] = [pc |-> "claimed", row |-> r, answered |-> FALSE]]
  PROVE  /\ lane' \in [Lane -> Slot]
         /\ lane'[l].row = r /\ lane'[l].pc = "claimed" /\ ~lane'[l].answered
         /\ \A k \in Lane \ {l} : lane'[k] = lane[k]
<1>1. [pc |-> "claimed", row |-> r, answered |-> FALSE] \in Slot
  BY DEF Slot, Busy
<1>2. lane'[l] = [pc |-> "claimed", row |-> r, answered |-> FALSE] /\ \A k \in Lane \ {l} : lane'[k] = lane[k]
  OBVIOUS
<1>3. lane' \in [Lane -> Slot]
  BY <1>1
<1>4. lane'[l].row = r /\ lane'[l].pc = "claimed" /\ ~lane'[l].answered
  BY <1>2
<1> QED
  BY <1>2, <1>3, <1>4

LEMMA SlotAnswered ==
  ASSUME lane \in [Lane -> Slot], NEW l \in Lane, lane' = [lane EXCEPT ![l].answered = TRUE]
  PROVE  /\ lane' \in [Lane -> Slot]
         /\ lane'[l].row = lane[l].row /\ lane'[l].pc = lane[l].pc
         /\ \A k \in Lane \ {l} : lane'[k] = lane[k]
<1>1. lane[l] \in Slot
  OBVIOUS
<1>2. [lane[l] EXCEPT !.answered = TRUE] \in Slot
  BY <1>1 DEF Slot
<1>3. lane' = [lane EXCEPT ![l] = [lane[l] EXCEPT !.answered = TRUE]]
  OBVIOUS
<1>4. lane'[l] = [lane[l] EXCEPT !.answered = TRUE]
  BY <1>3
<1> QED
  BY <1>1, <1>2, <1>3, <1>4 DEF Slot

LEMMA TypeStep == TypeOK /\ LaneInv /\ [Next]_vars => TypeOK'
<1> SUFFICES ASSUME TypeOK, LaneInv, [Next]_vars PROVE TypeOK'
  OBVIOUS
<1>0. lane \in [Lane -> Slot] /\ run \in RunRow
  BY DEF TypeOK, Slot, RunRow
<1>1. CASE RunMoves
  <2>1. ASSUME NEW s \in {"queued", "leased", "ended", "failed"}, NEW f \in Nat, NEW c \in BOOLEAN, Run(s, f, c)
        PROVE  run' \in RunRow
    BY <1>0, <2>1 DEF Run, RunRow
  <2>2. run.fence \in Nat /\ run.fence + 1 \in Nat /\ run.cancelled \in BOOLEAN
    BY <1>0 DEF RunRow
  <2>3. run' \in RunRow
    BY <1>1, <2>1, <2>2 DEF RunMoves
  <2> QED
    BY <1>1, <2>3 DEF TypeOK, RunMoves, RunRow, rowVars, worldVars
<1>2. ASSUME NEW e \in Event, AppendEvent(e) PROVE TypeOK'
  <2>1. made' \in [Row -> Nat] /\ before' \subseteq Event \X Event
    BY <1>2 DEF TypeOK, AppendEvent, Recorded, Row
  <2> QED
    BY <1>2, <2>1 DEF TypeOK, AppendEvent, rowVars, worldVars
<1>3. ASSUME NEW e \in Event, NEW r \in Result, CommitResult(r, e) PROVE TypeOK'
  <2>1. made' \in [Row -> Nat] /\ before' \subseteq Event \X Event
    BY <1>3 DEF TypeOK, CommitResult, Recorded, Row
  <2> QED
    BY <1>3, <2>1 DEF TypeOK, CommitResult, rowVars, worldVars
<1>4. ASSUME NEW l \in Lane, NEW r \in Row, ClaimRow(l, r) PROVE TypeOK'
  <2>1. lane' \in [Lane -> Slot]
    BY <1>0, <1>4, SlotClaims DEF ClaimRow
  <2>2. /\ attempts' \in [Row -> Nat] /\ claims' \in [Row -> Nat]
        /\ token' \in [Row -> Lane \cup {NoLane}] /\ due' \in [Row -> BOOLEAN]
    BY <1>4 DEF TypeOK, ClaimRow, Counted
  <2> QED
    BY <1>4, <2>1, <2>2 DEF TypeOK, ClaimRow, Slot, runVars, worldVars
<1>5. ASSUME NEW l \in Lane, Transmit(l) PROVE TypeOK'
  <2>1. lane' \in [Lane -> Slot]
    BY <1>0, <1>5, SlotFacts DEF Transmit, Busy, MovesTo
  <2> QED
    BY <1>5, <2>1 DEF TypeOK, Transmit, Droppable, Slot, runVars, rowVars
<1>6. ASSUME NEW l \in Lane, Answered(l) \/ GiveUp(l) \/ Crash(l) PROVE TypeOK'
  <2>1. lane' \in [Lane -> Slot]
    BY <1>0, <1>6, SlotFacts DEF Answered, GiveUp, Crash, Busy, MovesTo, Rests
  <2>2. late' \subseteq Row
    BY <1>6 DEF TypeOK, LaneInv, Answered, GiveUp, Crash, Abandoned, worldVars
  <2> QED
    BY <1>6, <2>1, <2>2 DEF TypeOK, Answered, GiveUp, Crash, Slot, runVars, rowVars, worldVars
<1>7. ASSUME NEW l \in Lane, StoreReceipt(l) \/ StoreReceiptLate(l) PROVE TypeOK'
  <2>1. lane' \in [Lane -> Slot]
    BY <1>0, <1>7, SlotFacts DEF StoreReceipt, StoreReceiptLate, Busy, MovesTo
  <2>2. receipt' \subseteq Result
    BY <1>7 DEF TypeOK, LaneInv, StoreReceipt, StoreReceiptLate
  <2> QED
    BY <1>7, <2>1, <2>2 DEF TypeOK, StoreReceipt, StoreReceiptLate, Slot, runVars, worldVars
<1>8. ASSUME NEW l \in Lane, Acknowledge(l) PROVE TypeOK'
  <2>1. lane' \in [Lane -> Slot]
    BY <1>0, <1>8, SlotFacts DEF Acknowledge, Busy, MovesTo, Rests
  <2>2. delivered' \in [Row -> BOOLEAN] /\ token' \in [Row -> Lane \cup {NoLane}]
    BY <1>8 DEF TypeOK, Acknowledge
  <2> QED
    BY <1>8, <2>1, <2>2 DEF TypeOK, Acknowledge, Slot, runVars, worldVars
<1>9. ASSUME NEW l \in Lane, Fail(l) PROVE TypeOK'
  <2>1. lane' \in [Lane -> Slot]
    BY <1>0, <1>9, SlotFacts DEF Fail, Rests
  <2>2. token' \in [Row -> Lane \cup {NoLane}] /\ due' \in [Row -> BOOLEAN]
    BY <1>9 DEF TypeOK, Fail
  <2>3. failed' \in [Row -> BOOLEAN]
    <3>1. (attempts[lane[l].row] >= MaxAttempts) \in BOOLEAN
      OBVIOUS
    <3> QED
      BY <1>9, <3>1 DEF TypeOK, Fail
  <2> QED
    BY <1>9, <2>1, <2>2, <2>3 DEF TypeOK, Fail, Slot, runVars, worldVars
<1>10. ASSUME NEW l \in Lane, Arrive(l) PROVE TypeOK'
  <2>1. lane' \in [Lane -> Slot]
    BY <1>0, <1>10, SlotAnswered DEF Arrive
  <2>2. received' \subseteq Row /\ late' \subseteq Row
    BY <1>10 DEF TypeOK, LaneInv, Arrive
  <2> QED
    BY <1>10, <2>1, <2>2 DEF TypeOK, Arrive, Slot, runVars, rowVars
<1>11. ASSUME NEW r \in Row, BecomeDue(r) \/ ArriveLate(r) PROVE TypeOK'
  BY <1>11 DEF TypeOK, BecomeDue, ArriveLate, runVars, rowVars, worldVars
<1>12. CASE SweepExhausted
  BY <1>12 DEF TypeOK, SweepExhausted, runVars, worldVars
<1>13. ASSUME NEW R, RetryDelivery(R) PROVE TypeOK'
  BY <1>13 DEF TypeOK, RetryDelivery, runVars, worldVars
<1>14. CASE UNCHANGED vars
  BY <1>14 DEF TypeOK, vars, runVars, rowVars, worldVars
<1> QED
  BY <1>1, <1>2, <1>3, <1>4, <1>5, <1>6, <1>7, <1>8, <1>9, <1>10, <1>11, <1>12, <1>13, <1>14
     DEF Next, LaneStep

LEMMA LaneInvStep == TypeOK /\ LaneInv /\ [Next]_vars => LaneInv'
<1> SUFFICES ASSUME TypeOK, LaneInv, [Next]_vars PROVE LaneInv'
  OBVIOUS
<1>0. lane \in [Lane -> Slot]
  BY DEF TypeOK, Slot
<1>1. CASE UNCHANGED lane
  BY <1>1 DEF LaneInv
<1>2. ASSUME NEW l \in Lane, NEW r \in Row, ClaimRow(l, r) PROVE LaneInv'
  <2>1. lane'[l].row = r /\ lane'[l].pc = "claimed" /\ \A k \in Lane \ {l} : lane'[k] = lane[k]
    BY <1>0, <1>2, SlotClaims DEF ClaimRow
  <2> QED
    BY <2>1 DEF LaneInv
<1>3. ASSUME NEW l \in Lane, Rests(l) PROVE LaneInv'
  BY <1>0, <1>3, SlotFacts DEF LaneInv
<1>4. ASSUME NEW l \in Lane, NEW p \in Busy \ {"receipt"}, lane[l].pc # "idle", MovesTo(l, p) PROVE LaneInv'
  BY <1>0, <1>4, SlotFacts DEF LaneInv
<1>5. ASSUME NEW l \in Lane, Answered(l) PROVE LaneInv'
  <2>1. CASE im /\ lane[l].row \in Result
    <3>1. MovesTo(l, "receipt")
      BY <1>5, <2>1 DEF Answered, MovesTo
    <3> QED
      BY <1>0, <2>1, <3>1, SlotFacts DEF LaneInv, Busy, Row
  <2>2. CASE ~(im /\ lane[l].row \in Result)
    BY <1>4, <1>5, <2>2 DEF Answered, MovesTo, Busy
  <2> QED
    BY <2>1, <2>2
<1>6. ASSUME NEW l \in Lane, Arrive(l) PROVE LaneInv'
  BY <1>0, <1>6, SlotAnswered DEF LaneInv, Arrive
<1>7. ASSUME NEW l \in Lane, Transmit(l) \/ StoreReceipt(l) \/ GiveUp(l) PROVE LaneInv'
  BY <1>4, <1>7 DEF Transmit, StoreReceipt, GiveUp, MovesTo, Busy
<1>8. ASSUME NEW l \in Lane, Acknowledge(l) \/ Fail(l) \/ Crash(l) PROVE LaneInv'
  BY <1>3, <1>4, <1>8 DEF Acknowledge, Fail, Crash, MovesTo, Rests, Busy
<1>9. ASSUME \/ \E l \in Lane : StoreReceiptLate(l)
             \/ \E r \in Row : BecomeDue(r) \/ ArriveLate(r)
             \/ \E e \in Event : AppendEvent(e) \/ \E r \in Result : CommitResult(r, e)
             \/ RunMoves \/ SweepExhausted \/ \E R \in {Failed(Event), Failed(IF run.cancelled THEN {} ELSE {run.result} \cap Result)} : RetryDelivery(R)
             \/ UNCHANGED vars
      PROVE LaneInv'
  BY <1>1, <1>9 DEF StoreReceiptLate, BecomeDue, ArriveLate, AppendEvent, CommitResult, RunMoves, SweepExhausted,
     RetryDelivery, vars
<1> QED
  BY <1>2, <1>5, <1>6, <1>7, <1>8, <1>9 DEF Next, LaneStep

(* Every column of the outboxes and every lane of flushOutbox keeps its    *)
(* type.                                                                   *)
THEOREM OutboxTypeCorrect == Spec => []TypeOK
<1>1. Init => TypeOK /\ LaneInv
  <2>1. Rest \in Slot /\ Rest.pc = "idle"
    BY DEF Rest, Slot
  <2>2. Init => lane \in [Lane -> Slot] /\ LaneInv
    BY <2>1 DEF Init, LaneInv
  <2> QED
    BY <2>2 DEF Init, TypeOK, Slot, Row
<1> QED
  BY <1>1, TypeStep, LaneInvStep, PTL DEF Spec

-----------------------------------------------------------------------------
(* Tokens *)

(* A row that is settled has no token, and is settled one way only; every  *)
(* claim has been counted.                                                 *)
TokenInv ==
  /\ \A r \in Row : delivered[r] => token[r] = NoLane
  /\ \A r \in Row : failed[r] => token[r] = NoLane /\ ~delivered[r]
  /\ \A r \in Row : claims[r] = attempts[r] /\ attempts[r] <= MaxAttempts

LEMMA TokenStep == TypeOK /\ TokenInv /\ [Next]_vars => TokenInv'
<1> SUFFICES ASSUME TypeOK, TokenInv, [Next]_vars PROVE TokenInv'
  OBVIOUS
<1>1. CASE UNCHANGED <<attempts, token, delivered, failed, claims>>
  BY <1>1 DEF TokenInv
<1>2. ASSUME NEW l \in Lane, NEW r \in Row, ClaimRow(l, r) PROVE TokenInv'
  BY <1>2 DEF TypeOK, TokenInv, ClaimRow, Counted, Candidate
<1>3. ASSUME NEW l \in Lane, Acknowledge(l) PROVE TokenInv'
  <2>1. lane[l].pc = "ack"
    BY <1>3 DEF Acknowledge
  <2>2. CASE ~Owns(l)
    BY <1>3, <2>2, <1>1 DEF Acknowledge
  <2>3. CASE Owns(l)
    BY <1>3, <2>3 DEF TypeOK, TokenInv, Acknowledge, Owns
  <2> QED
    BY <2>2, <2>3
<1>4. ASSUME NEW l \in Lane, Fail(l) PROVE TokenInv'
  <2>2. CASE ~Owns(l)
    BY <1>4, <2>2, <1>1 DEF Fail
  <2>3. CASE Owns(l)
    BY <1>4, <2>3 DEF TypeOK, TokenInv, Fail, Owns
  <2> QED
    BY <2>2, <2>3
<1>5. CASE SweepExhausted
  BY <1>5 DEF TypeOK, TokenInv, SweepExhausted, Exhausted
<1>6. ASSUME NEW R, RetryDelivery(R) PROVE TokenInv'
  BY <1>6 DEF TypeOK, TokenInv, RetryDelivery
<1>7. ASSUME NEW l \in Lane, Transmit(l) \/ Answered(l) \/ StoreReceipt(l) \/ StoreReceiptLate(l) \/ GiveUp(l)
                             \/ Crash(l) \/ Arrive(l)
      PROVE TokenInv'
  BY <1>7, <1>1 DEF Transmit, Answered, StoreReceipt, StoreReceiptLate, GiveUp, Crash, Arrive, rowVars
<1>8. ASSUME NEW r \in Row, BecomeDue(r) \/ ArriveLate(r) PROVE TokenInv'
  BY <1>8, <1>1 DEF BecomeDue, ArriveLate, rowVars
<1>9. ASSUME RunMoves \/ \E e \in Event : AppendEvent(e) \/ \E r \in Result : CommitResult(r, e)
      PROVE TokenInv'
  BY <1>9, <1>1 DEF RunMoves, AppendEvent, CommitResult, rowVars
<1>10. CASE UNCHANGED vars
  BY <1>10, <1>1 DEF vars, rowVars
<1> QED
  BY <1>2, <1>3, <1>4, <1>5, <1>6, <1>7, <1>8, <1>9, <1>10 DEF Next, LaneStep

(* What TypeOK, LaneInv and TokenInv give all later invariants.            *)
Base == TypeOK /\ LaneInv /\ TokenInv

LEMMA BaseInv == Spec => []Base
<1>1. Init => Base
  <2>1. Rest \in Slot /\ Rest.pc = "idle"
    BY DEF Rest, Slot
  <2>2. Init => lane \in [Lane -> Slot] /\ LaneInv
    BY <2>1 DEF Init, LaneInv
  <2>3. Init => TypeOK
    BY <2>2 DEF Init, TypeOK, Slot, Row
  <2>4. Init => TokenInv
    BY DEF Init, TokenInv
  <2> QED
    BY <2>2, <2>3, <2>4 DEF Base
<1>2. Base /\ [Next]_vars => Base'
  BY TypeStep, LaneInvStep, TokenStep DEF Base
<1> QED
  BY <1>1, <1>2, PTL DEF Spec

(* The claim token of flushOutbox's statements: a delivered row is not     *)
(* failed and carries no claim, so no lane can end it a second time.       *)
THEOREM DeliveredFinal == Spec => []DeliveredIsFinal
<1>1. Base => DeliveredIsFinal
  BY DEF Base, TokenInv, DeliveredIsFinal
<1> QED
  BY <1>1, BaseInv, PTL

(* flushOutbox's maxAttempts bounds the claims of a row between two        *)
(* trusted retries, whichever lanes die on it.                             *)
THEOREM ClaimsAreBounded == Spec => []ClaimsBounded
<1>1. Base => ClaimsBounded
  BY DEF Base, TokenInv, ClaimsBounded, TypeOK
<1> QED
  BY <1>1, BaseInv, PTL

-----------------------------------------------------------------------------
(* Results *)

LEMMA SerialStep == Base /\ ResultsSerialized /\ [Next]_vars => ResultsSerialized'
<1> SUFFICES ASSUME Base, ResultsSerialized, [Next]_vars PROVE ResultsSerialized'
  OBVIOUS
<1> USE DEF Base
<1>1. CASE UNCHANGED <<token, due>>
  BY <1>1 DEF ResultsSerialized
<1>2. ASSUME NEW l \in Lane, NEW r \in Row, ClaimRow(l, r) PROVE ResultsSerialized'
  <2>1. token' = [token EXCEPT ![r] = l] /\ due' = [due EXCEPT ![r] = FALSE]
    BY <1>2 DEF ClaimRow
  <2>2. CASE r \in Event
    BY <2>1, <2>2 DEF TypeOK, ResultsSerialized, Row
  <2>3. CASE r \notin Event
    <3>1. \A q \in Result \ {r} : ~(token[q] # NoLane /\ ~due[q])
      BY <1>2, <2>3 DEF ClaimRow, Candidate, Current, TokenInv, Row
    <3> QED
      BY <2>1, <3>1 DEF TypeOK, ResultsSerialized, Row
  <2> QED
    BY <2>2, <2>3
<1>3. ASSUME NEW l \in Lane, Acknowledge(l) \/ Fail(l) PROVE ResultsSerialized'
  <2>1. \A q \in Result : \/ token'[q] = NoLane
                          \/ token'[q] = token[q] /\ due'[q] = due[q]
    BY <1>3 DEF Acknowledge, Fail, TypeOK, Row
  <2> QED
    BY <2>1 DEF ResultsSerialized
<1>4. ASSUME SweepExhausted \/ \E R \in {Failed(Event), Failed(IF run.cancelled THEN {} ELSE {run.result} \cap Result)} : RetryDelivery(R)
      PROVE ResultsSerialized'
  <2>1. SweepExhausted => \A q \in Result : (token'[q] = NoLane \/ token'[q] = token[q]) /\ due'[q] = due[q]
    BY DEF SweepExhausted, Row
  <2>2. ASSUME NEW R, RetryDelivery(R)
        PROVE  \A q \in Result : (token'[q] = NoLane \/ token'[q] = token[q]) /\ (due[q] => due'[q])
    BY <2>2 DEF RetryDelivery, Row
  <2> QED
    BY <1>4, <2>1, <2>2 DEF ResultsSerialized
<1>5. ASSUME NEW r \in Row, BecomeDue(r) PROVE ResultsSerialized'
  BY <1>5 DEF BecomeDue, ResultsSerialized, TypeOK, Row
<1>6. ASSUME \/ \E l \in Lane : Transmit(l) \/ Answered(l) \/ StoreReceipt(l) \/ StoreReceiptLate(l) \/ GiveUp(l)
                                \/ Crash(l) \/ Arrive(l)
             \/ \E r \in Row : ArriveLate(r)
             \/ \E e \in Event : AppendEvent(e) \/ \E r \in Result : CommitResult(r, e)
             \/ RunMoves \/ UNCHANGED vars
      PROVE ResultsSerialized'
  BY <1>1, <1>6 DEF Transmit, Answered, StoreReceipt, StoreReceiptLate, GiveUp, Crash, Arrive, ArriveLate, AppendEvent,
     CommitResult, RunMoves, vars, rowVars
<1> QED
  BY <1>2, <1>3, <1>4, <1>5, <1>6 DEF Next, LaneStep

(* definitions.agent_delivery_outbox.where: two results of a run are never *)
(* under an unexpired claim together.                                      *)
THEOREM ResultsAreSerialized == Spec => []ResultsSerialized
<1>1. Init => ResultsSerialized
  BY DEF Init, ResultsSerialized, Row
<1> QED
  BY <1>1, SerialStep, BaseInv, PTL DEF Spec

-----------------------------------------------------------------------------
(* Arrivals *)

(* What a lane has learnt is so, and what a row says is so.                *)
ArrivalInv ==
  /\ \A l \in Lane : lane[l].pc = "claimed" => ~lane[l].answered
  /\ \A l \in Lane : lane[l].pc = "sent" /\ lane[l].answered => lane[l].row \in received
  /\ \A l \in Lane : lane[l].pc = "receipt" => lane[l].row \in received
  /\ \A l \in Lane : lane[l].pc = "ack" =>
       /\ lane[l].row \in received \cup skipped
       /\ im /\ lane[l].row \in Result => lane[l].row \in receipt
  /\ AckedIsReceived

LEMMA ArrivalStep == Base /\ ArrivalInv /\ [Next]_vars => ArrivalInv'
<1> SUFFICES ASSUME Base, ArrivalInv, [Next]_vars PROVE ArrivalInv'
  OBVIOUS
<1> USE DEF Base
<1>0. lane \in [Lane -> Slot]
  BY DEF TypeOK, Slot
<1>1. CASE /\ UNCHANGED <<lane, delivered, im>>
           /\ received \subseteq received' /\ skipped \subseteq skipped' /\ receipt \subseteq receipt'
  BY <1>1 DEF ArrivalInv, AckedIsReceived
<1>2. ASSUME NEW l \in Lane, NEW r \in Row, ClaimRow(l, r) PROVE ArrivalInv'
  <2>1. lane'[l].pc = "claimed" /\ ~lane'[l].answered /\ \A k \in Lane \ {l} : lane'[k] = lane[k]
    BY <1>0, <1>2, SlotClaims DEF ClaimRow
  <2> QED
    BY <1>2, <2>1 DEF ArrivalInv, AckedIsReceived, ClaimRow, runVars, worldVars
<1>3. ASSUME NEW l \in Lane, Rests(l), UNCHANGED <<delivered, im, received, skipped, receipt>> PROVE ArrivalInv'
  BY <1>0, <1>3, SlotFacts DEF ArrivalInv, AckedIsReceived
<1>4. ASSUME NEW l \in Lane, MovesTo(l, "fail"), UNCHANGED <<delivered, im, received, skipped, receipt>> PROVE ArrivalInv'
  <2>1. lane'[l].pc = "fail" /\ \A k \in Lane \ {l} : lane'[k] = lane[k]
    BY <1>0, <1>4, SlotFacts DEF Busy
  <2> QED
    BY <1>4, <2>1 DEF ArrivalInv, AckedIsReceived
<1>5. ASSUME NEW l \in Lane, Transmit(l) PROVE ArrivalInv'
  <2> DEFINE r == lane[l].row
  <2>1. CASE MovesTo(l, "sent") /\ UNCHANGED skipped
    <3>1. /\ lane'[l].pc = "sent" /\ lane'[l].row = r /\ lane'[l].answered = lane[l].answered
          /\ \A k \in Lane \ {l} : lane'[k] = lane[k]
      BY <1>0, <2>1, SlotFacts DEF Busy
    <3>2. lane[l].pc = "claimed"
      BY <1>5 DEF Transmit
    <3> QED
      BY <1>5, <2>1, <3>1, <3>2 DEF ArrivalInv, AckedIsReceived, Transmit, runVars, rowVars
  <2>2. CASE Droppable(r) /\ skipped' = skipped \cup {r} /\ MovesTo(l, "ack")
    <3>1. lane'[l].pc = "ack" /\ lane'[l].row = r /\ \A k \in Lane \ {l} : lane'[k] = lane[k]
      BY <1>0, <2>2, SlotFacts DEF Busy
    <3>2. r \in Event /\ r \notin Result
      BY <2>2 DEF Droppable
    <3> QED
      BY <1>5, <2>2, <3>1, <3>2 DEF ArrivalInv, AckedIsReceived, Transmit, runVars, rowVars
  <2> QED
    BY <1>5, <2>1, <2>2 DEF Transmit, MovesTo
<1>6. ASSUME NEW l \in Lane, Arrive(l) PROVE ArrivalInv'
  <2>1. lane'[l].row = lane[l].row /\ lane'[l].pc = lane[l].pc /\ \A k \in Lane \ {l} : lane'[k] = lane[k]
    BY <1>0, <1>6, SlotAnswered DEF Arrive
  <2> QED
    BY <1>6, <2>1 DEF ArrivalInv, AckedIsReceived, Arrive, runVars, rowVars
<1>7. ASSUME NEW l \in Lane, Answered(l) PROVE ArrivalInv'
  <2>0. UNCHANGED <<delivered, im, received, skipped, receipt>> /\ lane[l].row \in received
    BY <1>7 DEF Answered, runVars, rowVars, worldVars, ArrivalInv
  <2>1. CASE im /\ lane[l].row \in Result
    <3>1. MovesTo(l, "receipt")
      BY <1>7, <2>1 DEF Answered, MovesTo
    <3>2. lane'[l].pc = "receipt" /\ lane'[l].row = lane[l].row /\ \A k \in Lane \ {l} : lane'[k] = lane[k]
      BY <1>0, <3>1, SlotFacts DEF Busy
    <3> QED
      BY <2>0, <3>2 DEF ArrivalInv, AckedIsReceived
  <2>2. CASE ~(im /\ lane[l].row \in Result)
    <3>1. MovesTo(l, "ack")
      BY <1>7, <2>2 DEF Answered, MovesTo
    <3>2. lane'[l].pc = "ack" /\ lane'[l].row = lane[l].row /\ \A k \in Lane \ {l} : lane'[k] = lane[k]
      BY <1>0, <3>1, SlotFacts DEF Busy
    <3> QED
      BY <2>0, <2>2, <3>2 DEF ArrivalInv, AckedIsReceived
  <2> QED
    BY <2>1, <2>2
<1>8. ASSUME NEW l \in Lane, StoreReceipt(l) PROVE ArrivalInv'
  <2>0. UNCHANGED <<delivered, im, received, skipped>> /\ lane[l].row \in received
    BY <1>8 DEF StoreReceipt, runVars, worldVars, ArrivalInv
  <2>1. CASE token[lane[l].row] = l
    <3>1. MovesTo(l, "ack") /\ receipt' = receipt \cup {lane[l].row}
      BY <1>8, <2>1 DEF StoreReceipt, MovesTo
    <3>2. lane'[l].pc = "ack" /\ lane'[l].row = lane[l].row /\ \A k \in Lane \ {l} : lane'[k] = lane[k]
      BY <1>0, <3>1, SlotFacts DEF Busy
    <3> QED
      BY <2>0, <3>1, <3>2 DEF ArrivalInv, AckedIsReceived
  <2>2. CASE token[lane[l].row] # l
    BY <1>4, <1>8, <2>0, <2>2 DEF StoreReceipt, MovesTo
  <2> QED
    BY <2>1, <2>2
<1>9. ASSUME NEW l \in Lane, Acknowledge(l) PROVE ArrivalInv'
  <2>0. UNCHANGED <<im, received, skipped, receipt>>
    BY <1>9 DEF Acknowledge, runVars, worldVars
  <2>1. lane'[l].pc \in {"idle", "fail"} /\ \A k \in Lane \ {l} : lane'[k] = lane[k]
    BY <1>0, <1>9, SlotFacts DEF Acknowledge, Rests, MovesTo, Busy
  <2>2. AckedIsReceived'
    <3>1. \A r \in Row : delivered'[r] => delivered[r] \/ r = lane[l].row
      BY <1>9 DEF Acknowledge, TypeOK
    <3>2. lane[l].pc = "ack"
      BY <1>9 DEF Acknowledge
    <3> QED
      BY <2>0, <3>1, <3>2 DEF ArrivalInv, AckedIsReceived
  <2> QED
    BY <2>0, <2>1, <2>2 DEF ArrivalInv
<1>10. ASSUME NEW l \in Lane, Fail(l) \/ Crash(l) \/ GiveUp(l) PROVE ArrivalInv'
  BY <1>3, <1>4, <1>10 DEF Fail, Crash, GiveUp, Rests, MovesTo, runVars, rowVars, worldVars
<1>11. ASSUME \/ \E l \in Lane : StoreReceiptLate(l)
              \/ \E r \in Row : BecomeDue(r) \/ ArriveLate(r)
              \/ \E e \in Event : AppendEvent(e) \/ \E r \in Result : CommitResult(r, e)
              \/ RunMoves \/ SweepExhausted \/ \E R \in {Failed(Event), Failed(IF run.cancelled THEN {} ELSE {run.result} \cap Result)} : RetryDelivery(R)
              \/ UNCHANGED vars
      PROVE ArrivalInv'
  <2>1. /\ UNCHANGED <<lane, delivered, im>>
        /\ received \subseteq received' /\ skipped \subseteq skipped' /\ receipt \subseteq receipt'
    BY <1>11 DEF StoreReceiptLate, BecomeDue, ArriveLate, AppendEvent, CommitResult, RunMoves, SweepExhausted,
       RetryDelivery, vars, runVars, rowVars, worldVars
  <2> QED
    BY <1>1, <2>1
<1> QED
  BY <1>2, <1>5, <1>6, <1>7, <1>8, <1>9, <1>10, <1>11 DEF Next, LaneStep

LEMMA ArrivalAlways == Spec => []ArrivalInv
<1>1. Init => ArrivalInv
  <2>1. Rest.pc = "idle"
    BY DEF Rest
  <2> QED
    BY <2>1 DEF Init, ArrivalInv, AckedIsReceived
<1> QED
  BY <1>1, ArrivalStep, BaseInv, PTL DEF Spec

(* flushOutbox marks a row delivered only after its transport call has     *)
(* resolved, or for an event dropped on purpose.                           *)
THEOREM AckedAreReceived == Spec => []AckedIsReceived
<1>1. ArrivalInv => AckedIsReceived
  BY DEF ArrivalInv
<1> QED
  BY <1>1, ArrivalAlways, PTL

-----------------------------------------------------------------------------
(* Order *)

(* Under way: at the receiver, on the way to it, or in a lane's hands.     *)
UnderWay(e) == e \in received \/ e \in late \/ \E l \in Lane : lane[l].pc # "idle" /\ lane[l].row = e

(* What is under way has been recorded, and whatever was recorded ahead of *)
(* it is delivered.                                                        *)
OrderInv ==
  /\ \A r \in Row : UnderWay(r) => Present(r)
  /\ \A p \in before : Present(p[1]) /\ p[1] < p[2]
  /\ \A p \in before : UnderWay(p[2]) => delivered[p[1]]

LEMMA OrderStep == Base /\ OrderInv /\ [Next]_vars => OrderInv'
<1> SUFFICES ASSUME Base, OrderInv, [Next]_vars PROVE OrderInv'
  OBVIOUS
<1> USE DEF Base
<1>0. lane \in [Lane -> Slot]
  BY DEF TypeOK, Slot
<1>a. \A p \in before : p[1] \in Event /\ p[2] \in Event /\ p[1] \in Row /\ p[2] \in Row
  BY DEF TypeOK, Row
<1>1. ASSUME UNCHANGED <<made, before>>, \A r \in Row : UnderWay(r)' => UnderWay(r),
             \A r \in Row : delivered[r] => delivered'[r]
      PROVE  OrderInv'
  BY <1>1, <1>a DEF OrderInv, Present
<1>2. ASSUME NEW l \in Lane, NEW r \in Row, ClaimRow(l, r) PROVE OrderInv'
  <2>1. lane'[l].row = r /\ \A k \in Lane \ {l} : lane'[k] = lane[k]
    BY <1>0, <1>2, SlotClaims DEF ClaimRow
  <2>2. UNCHANGED <<made, before, delivered, received, late>>
    BY <1>2 DEF ClaimRow, runVars, worldVars
  <2>3. \A q \in Row : UnderWay(q)' => UnderWay(q) \/ q = r
    BY <2>1, <2>2 DEF UnderWay
  <2>4. Present(r) /\ (r \in Event => InTurn(r))
    BY <1>2 DEF ClaimRow, Candidate
  <2>5. ASSUME NEW p \in before, p[2] = r PROVE delivered[p[1]]
    BY <1>a, <2>4, <2>5 DEF OrderInv, InTurn
  <2> QED
    BY <1>a, <2>2, <2>3, <2>4, <2>5 DEF OrderInv, Present
<1>3. ASSUME NEW l \in Lane, lane[l].pc # "idle", NEW p \in Busy, MovesTo(l, p),
             UNCHANGED <<made, before, received>>, \A r \in Row : delivered[r] => delivered'[r],
             late' \subseteq late \cup {lane[l].row}
      PROVE  OrderInv'
  <2>1. lane'[l].row = lane[l].row /\ \A k \in Lane \ {l} : lane'[k] = lane[k]
    BY <1>0, <1>3, SlotFacts
  <2>2. \A r \in Row : UnderWay(r)' => UnderWay(r)
    BY <1>3, <2>1 DEF UnderWay
  <2> QED
    BY <1>1, <1>3, <2>2
<1>4. ASSUME NEW l \in Lane, lane[l].pc # "idle", Rests(l),
             UNCHANGED <<made, before, received>>, \A r \in Row : delivered[r] => delivered'[r],
             late' \subseteq late \cup {lane[l].row}
      PROVE  OrderInv'
  <2>1. lane'[l].pc = "idle" /\ \A k \in Lane \ {l} : lane'[k] = lane[k]
    BY <1>0, <1>4, SlotFacts
  <2>2. \A r \in Row : UnderWay(r)' => UnderWay(r)
    BY <1>4, <2>1 DEF UnderWay
  <2> QED
    BY <1>1, <1>4, <2>2
<1>5. ASSUME NEW l \in Lane, Transmit(l) \/ Answered(l) \/ StoreReceipt(l) PROVE OrderInv'
  BY <1>3, <1>5 DEF Transmit, Answered, StoreReceipt, MovesTo, Busy, runVars, rowVars, worldVars
<1>6. ASSUME NEW l \in Lane, GiveUp(l) \/ Crash(l) PROVE OrderInv'
  <2>1. \A P : Abandoned(l, P) \subseteq late \cup {lane[l].row}
    BY DEF Abandoned
  <2>2. UNCHANGED <<made, before, received, delivered>> /\ late' \subseteq late \cup {lane[l].row}
        /\ lane[l].pc # "idle"
    BY <1>6, <2>1 DEF GiveUp, Crash, Busy, runVars, rowVars
  <2> QED
    BY <1>3, <1>4, <1>6, <2>2 DEF GiveUp, Crash, MovesTo, Rests, Busy
<1>7. ASSUME NEW l \in Lane, Acknowledge(l) \/ Fail(l) PROVE OrderInv'
  <2>1. UNCHANGED <<made, before, received, late>> /\ lane[l].pc # "idle"
    BY <1>7 DEF Acknowledge, Fail, runVars, worldVars
  <2>2. \A r \in Row : delivered[r] => delivered'[r]
    BY <1>7 DEF Acknowledge, Fail, TypeOK
  <2> QED
    BY <1>3, <1>4, <1>7, <2>1, <2>2 DEF Acknowledge, Fail, MovesTo, Rests, Busy
<1>8. ASSUME NEW l \in Lane, Arrive(l) PROVE OrderInv'
  <2>1. lane'[l].row = lane[l].row /\ lane'[l].pc = lane[l].pc /\ \A k \in Lane \ {l} : lane'[k] = lane[k]
    BY <1>0, <1>8, SlotAnswered DEF Arrive
  <2>2. UNCHANGED <<made, before, delivered>>
    BY <1>8 DEF Arrive, runVars, rowVars
  <2>3. \A r \in Row : UnderWay(r)' => UnderWay(r)
    BY <1>8, <2>1 DEF Arrive, UnderWay
  <2> QED
    BY <1>1, <2>2, <2>3
<1>9. ASSUME NEW r \in Row, ArriveLate(r) PROVE OrderInv'
  <2>1. UNCHANGED <<made, before, delivered>>
    BY <1>9 DEF ArriveLate, runVars, rowVars
  <2>2. \A q \in Row : UnderWay(q)' => UnderWay(q)
    BY <1>9 DEF ArriveLate, UnderWay
  <2> QED
    BY <1>1, <2>1, <2>2
<1>10. ASSUME NEW e \in Event, ~Present(e), Recorded(e), NEW D, e \in D, D \subseteq Row,
              \A r \in Row : r \notin D => made'[r] = made[r],
              \A r \in D : ~Present(r),
              UNCHANGED <<delivered, lane, received, late>>
       PROVE  OrderInv'
  <2>1. \A r \in Row : Present(r) => Present(r)'
    BY <1>10 DEF Present
  <2>2. \A r \in Row : UnderWay(r)' <=> UnderWay(r)
    BY <1>10 DEF UnderWay
  <2>3. ~UnderWay(e) /\ e \in Row
    BY <1>10 DEF OrderInv, Row
  <2>4. ASSUME NEW p \in before' PROVE \/ p \in before
                                       \/ p[1] \in Row /\ Present(p[1]) /\ p[1] < e /\ p[2] = e
    BY <1>10 DEF Recorded, Row
  <2>5. \A p \in before' : Present(p[1])' /\ p[1] < p[2]
    BY <1>a, <2>1, <2>4 DEF OrderInv
  <2>6. \A p \in before' : UnderWay(p[2])' => delivered'[p[1]]
    BY <1>10, <1>a, <2>2, <2>3, <2>4 DEF OrderInv
  <2>7. \A r \in Row : UnderWay(r)' => Present(r)'
    BY <2>1, <2>2 DEF OrderInv
  <2> QED
    BY <2>5, <2>6, <2>7 DEF OrderInv
<1>11. ASSUME NEW e \in Event, AppendEvent(e) PROVE OrderInv'
  <2>1. ~Present(e) /\ Recorded(e) /\ UNCHANGED <<delivered, lane, received, late>>
    BY <1>11 DEF AppendEvent, rowVars, worldVars
  <2>2. \A r \in Row : r \notin {e} => made'[r] = made[r]
    BY <1>11 DEF AppendEvent, TypeOK
  <2>3. e \in {e} /\ {e} \subseteq Row /\ \A r \in {e} : ~Present(r)
    BY <2>1 DEF Row
  <2> QED
    BY <1>10, <2>1, <2>2, <2>3
<1>12. ASSUME NEW e \in Event, NEW r \in Result, CommitResult(r, e) PROVE OrderInv'
  <2>1. Recorded(e) /\ ~Present(r) /\ UNCHANGED <<delivered, lane, received, late>>
    BY <1>12 DEF CommitResult, rowVars, worldVars
  <2>2. ~Present(e)
    <3>1. e \in Nat /\ ~(e < e)
      OBVIOUS
    <3> QED
      BY <1>12, <3>1 DEF CommitResult
  <2>3. \A q \in Row : q \notin {e, r} => made'[q] = made[q]
    BY <1>12 DEF CommitResult, TypeOK
  <2>4. e \in {e, r} /\ {e, r} \subseteq Row /\ \A q \in {e, r} : ~Present(q)
    BY <2>1, <2>2 DEF Row
  <2> QED
    BY <1>10, <2>1, <2>2, <2>3, <2>4
<1>13. ASSUME \/ \E l \in Lane : StoreReceiptLate(l)
              \/ \E r \in Row : BecomeDue(r)
              \/ RunMoves \/ SweepExhausted \/ \E R \in {Failed(Event), Failed(IF run.cancelled THEN {} ELSE {run.result} \cap Result)} : RetryDelivery(R)
              \/ UNCHANGED vars
       PROVE OrderInv'
  <2>1. UNCHANGED <<made, before, delivered, lane, received, late>>
    BY <1>13 DEF StoreReceiptLate, BecomeDue, RunMoves, SweepExhausted, RetryDelivery, vars, runVars, rowVars, worldVars
  <2> QED
    BY <1>1, <2>1 DEF UnderWay
<1> QED
  BY <1>2, <1>5, <1>6, <1>7, <1>8, <1>9, <1>11, <1>12, <1>13 DEF Next, LaneStep

(* definitions.agent_run_events.where: an event reaches the receiver after *)
(* every event recorded ahead of it, across retries, crashes of lanes and  *)
(* requests that arrive late.                                              *)
THEOREM EventsKeepOrder == Spec => []EventsInOrder
<1>1. Init => OrderInv
  <2>1. Rest.pc = "idle"
    BY DEF Rest
  <2> QED
    BY <2>1 DEF Init, OrderInv, UnderWay
<1>2. Base /\ ArrivalInv /\ OrderInv => EventsInOrder
  BY DEF Base, TypeOK, ArrivalInv, AckedIsReceived, OrderInv, UnderWay, EventsInOrder, Row
<1> QED
  BY <1>1, <1>2, OrderStep, ArrivalAlways, BaseInv, PTL DEF Spec
=============================================================================
