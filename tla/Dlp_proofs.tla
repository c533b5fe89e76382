----------------------------- MODULE Dlp_proofs -----------------------------
(***************************************************************************)
(* Proofs about the two things the gateway does with the DLP engine.       *)
(*                                                                         *)
(* First StreamDlp, for any replies, policies, events and window, and for  *)
(* any detectors that keep what StreamDlp assumes of them. The invariant   *)
(* speaks of the record that process_event works on, so that a lemma for   *)
(* each of its operators is enough: Release is the heart, Poll and PollTwo *)
(* compose them. The last theorem of this part is that StreamDlp           *)
(* implements MaskedStream.                                                *)
(*                                                                         *)
(* Then DlpScan, for any texts, policies, matches and sidecar answers. Its *)
(* loops are functions of their turns: each has an equation (from          *)
(* FoldExists) and an invariant (from UpTo), and what a whole scan gives   *)
(* follows: DedupeIsExact, DedupeKeepsTheStrongest, RedactingIsExact.      *)
(***************************************************************************)
EXTENDS StreamDlp, DlpScan, SequenceTheorems, FiniteSetTheorems, WellFoundedInduction, TLAPS

RawKinds == {"raw", "raw finish", "raw done"}
FrameKinds == {"text", "finish", "other", "done", "error"} \cup RawKinds
StreamFrames == [kind : FrameKinds, from : Nat, to : Nat, masked : SUBSET Spans]
States ==
  [got : Nat, sent : Nat, finished : BOOLEAN, out : Seq(StreamFrames),
   over : {"no", "done", "error"}]

KindAt(st, kind) == {i \in DOMAIN st.out : st.out[i].kind = kind}

\* What was re-emitted is a prefix of what was received.
Shape(st) == st \in States /\ st.sent <= st.got /\ st.got <= Len(text)

\* The text frames lie one after the other over the text that was re-emitted.
Laid(st) ==
  /\ \A i \in KindAt(st, "text") :
       /\ st.out[i].from < st.out[i].to /\ st.out[i].to <= st.sent
       /\ \A f \in st.out[i].masked : st.out[i].from <= f.start /\ f.end <= st.out[i].to
  /\ \A i, j \in KindAt(st, "text") : i < j => st.out[i].to <= st.out[j].from
  /\ \A x \in 0 .. st.sent - 1 :
       \E i \in KindAt(st, "text") : x \in InFrame(st.out[i])

\* After a finish there is no text to come, and [DONE] is the last frame.
Marked(st) ==
  /\ KindAt(st, "finish") # {} => st.finished
  /\ st.finished => st.got = Len(text) /\ st.sent = st.got
  /\ \A i \in KindAt(st, "finish"), j \in KindAt(st, "text") : j < i
  /\ \A i \in DOMAIN st.out : i \in KindAt(st, "done") <=> i = Len(st.out) /\ st.over = "done"

Good(st) == Shape(st) /\ Laid(st) /\ Marked(st)
Open(st) == Good(st) /\ st.over = "no"

\* The whole invariant.
Bounded(st) ==
  /\ st.over = "no" => st.got - st.sent < HOLDBACK + MaxMatch
  /\ st.over = "done" => st.sent = st.got
IInv == text \in Texts /\ policies \in PolicySets /\ Good(Current) /\ Bounded(Current)

-----------------------------------------------------------------------------
(* release.                                                                *)

LEMMA Appended ==
  ASSUME NEW S, NEW out \in Seq(S), NEW fr \in S
  PROVE  /\ Append(out, fr) \in Seq(S)
         /\ Len(out) \in Nat /\ DOMAIN out = 1 .. Len(out)
         /\ Len(Append(out, fr)) = Len(out) + 1
         /\ DOMAIN Append(out, fr) = 1 .. Len(out) + 1
         /\ Append(out, fr)[Len(out) + 1] = fr
         /\ \A i \in 1 .. Len(out) : Append(out, fr)[i] = out[i]
  OBVIOUS

\* What `release` may rely on: the spans of the pending text.
LEMMA TextFrameFacts ==
  ASSUME NEW from \in Nat, NEW to \in Nat, NEW masked \in SUBSET Spans
  PROVE  LET fr == TextFrame(from, to, masked)
         IN /\ fr \in StreamFrames /\ fr.kind = "text" /\ fr.kind \notin RawKinds
            /\ fr.from = from /\ fr.to = to /\ fr.masked = masked
<1>1. "text" \in FrameKinds /\ "text" \notin RawKinds
  BY DEF FrameKinds, RawKinds
<1> QED
  BY <1>1 DEF TextFrame, StreamFrames

LEMMA PendingSpans ==
  ASSUME text \in Texts, policies \in PolicySets, NEW st, Shape(st)
  PROVE  LET spans == Findings(text, policies, st.sent, st.got) IN
         /\ spans \subseteq Spans
         /\ \A f \in spans :
              /\ f.start \in Nat /\ f.end \in Nat
              /\ st.sent <= f.start /\ f.start < f.end /\ f.end <= st.got
              /\ f.end - f.start <= MaxMatch
              /\ \A g \in spans : g = f \/ g.end <= f.start \/ f.end <= g.start
<1>1. st.sent \in 0 .. Len(text) /\ st.got \in st.sent .. Len(text)
  BY BoundsAssumption DEF Shape, States
<1>2. \A f \in Spans : f.start \in Nat /\ f.end \in Nat
  BY DEF Spans
<1> QED
  BY <1>1, <1>2, SpansAssumption

\* The cut lies in the pending text and goes through no match; it leaves nothing
\* when everything is flushed, and less than the window and a match otherwise.
LEMMA CutFacts ==
  ASSUME text \in Texts, policies \in PolicySets, NEW st, Shape(st),
         NEW flush \in BOOLEAN
  PROVE  LET spans == Findings(text, policies, st.sent, st.got)
             cut == Cut(st, flush, spans)
         IN /\ cut \in st.sent .. st.got
            /\ \A f \in spans : f.end <= cut \/ cut <= f.start
            /\ flush => cut = st.got
            /\ ~ flush => st.got - cut < HOLDBACK + MaxMatch
            /\ ~ flush => cut = st.sent \/ cut + HOLDBACK <= st.got
<1> DEFINE spans == Findings(text, policies, st.sent, st.got)
           target == Target(st, flush)
           across == {f \in spans : f.start < target /\ f.end > target}
           cut == Cut(st, flush, spans)
<1>1. st.sent \in Nat /\ st.got \in Nat /\ st.sent <= st.got
  BY DEF Shape, States
<1>2. \A f \in spans :
        /\ f.start \in Nat /\ f.end \in Nat
        /\ st.sent <= f.start /\ f.start < f.end /\ f.end <= st.got
        /\ f.end - f.start <= MaxMatch
        /\ \A g \in spans : g = f \/ g.end <= f.start \/ f.end <= g.start
  BY PendingSpans
<1>3. /\ target \in st.sent .. st.got
      /\ flush => target = st.got
      /\ ~ flush => st.got - target <= HOLDBACK
      /\ ~ flush => target = st.sent \/ target + HOLDBACK <= st.got
  BY <1>1, BoundsAssumption DEF Target
<1>4. cut = IF across = {} THEN target ELSE (CHOOSE f \in across : TRUE).start
  BY DEF Cut
<1> HIDE DEF spans, target, cut
<1>5. CASE across = {}
  <2>1. cut = target
    BY <1>4, <1>5
  <2>2. \A f \in spans : f.end <= target \/ target <= f.start
    BY <1>1, <1>2, <1>3, <1>5
  <2> QED
    BY <1>1, <1>3, <2>1, <2>2, BoundsAssumption DEF spans, cut
<1>6. CASE across # {}
  <2>1. PICK g \in spans : g.start < target /\ g.end > target /\ cut = g.start
    BY <1>4, <1>6
  <2>2. \A f \in spans : f.end <= cut \/ cut <= f.start
    BY <1>2, <2>1
  <2>3. ~ flush
    BY <1>1, <1>2, <1>3, <2>1
  <2>4. /\ g.start \in Nat /\ g.end \in Nat /\ st.sent <= g.start /\ g.end <= st.got
        /\ g.end - g.start <= MaxMatch /\ target \in Nat
        /\ st.got - target <= HOLDBACK /\ (target = st.sent \/ target + HOLDBACK <= st.got)
    BY <1>1, <1>2, <1>3, <2>1, <2>3
  <2>5. HOLDBACK \in Nat /\ MaxMatch \in Nat
    BY BoundsAssumption
  <2>6. cut \in st.sent .. st.got /\ st.got - cut < HOLDBACK + MaxMatch
    BY <1>1, <2>1, <2>4, <2>5
  <2>7. cut = st.sent \/ cut + HOLDBACK <= st.got
    BY <1>1, <2>1, <2>4, <2>5
  <2> QED
    BY <2>2, <2>3, <2>6, <2>7 DEF spans, cut
<1> QED
  BY <1>5, <1>6

\* One more frame of text, from where the last one ended.
LEMMA MoreText ==
  ASSUME NEW st, Open(st), text \in Texts,
         NEW cut \in st.sent .. st.got, cut # st.sent,
         NEW masked \in SUBSET Spans,
         \A f \in masked : st.sent <= f.start /\ f.end <= cut
  PROVE  LET new == [st EXCEPT !.sent = cut,
                               !.out = Append(@, TextFrame(st.sent, cut, masked))]
         IN Open(new) /\ new.got = st.got /\ new.finished = st.finished /\ new.sent = cut
<1> DEFINE fr == TextFrame(st.sent, cut, masked)
           out == Append(st.out, fr)
           n == Len(st.out)
           new == [st EXCEPT !.sent = cut, !.out = out]
<1>1. /\ st \in States /\ st.sent \in Nat /\ st.got \in Nat /\ st.out \in Seq(StreamFrames)
      /\ st.finished \in BOOLEAN /\ st.sent < cut /\ cut <= st.got /\ cut \in Nat
      /\ st.got <= Len(text) /\ st.over = "no"
  BY DEF Open, Good, Shape, States
<1>2. /\ fr \in StreamFrames /\ fr.kind = "text"
      /\ fr.from = st.sent /\ fr.to = cut /\ fr.masked = masked
  BY <1>1, TextFrameFacts
<1>3. /\ out \in Seq(StreamFrames) /\ n \in Nat /\ DOMAIN st.out = 1 .. n
      /\ Len(out) = n + 1 /\ DOMAIN out = 1 .. n + 1 /\ out[n + 1] = fr
      /\ \A i \in 1 .. n : out[i] = st.out[i]
  BY <1>1, <1>2, Appended
<1>4. /\ new.sent = cut /\ new.out = out /\ new.got = st.got
      /\ new.finished = st.finished /\ new.over = "no" /\ new \in States
  BY <1>1, <1>3 DEF States
<1> HIDE DEF fr, out, n, new
<1>5. KindAt(new, "text") = KindAt(st, "text") \cup {n + 1}
  BY <1>2, <1>3, <1>4 DEF KindAt
<1>6. \A kind \in {"finish", "done"} : KindAt(new, kind) = KindAt(st, kind)
  BY <1>2, <1>3, <1>4 DEF KindAt
<1>7. KindAt(st, "text") \subseteq 1 .. n
  BY <1>3 DEF KindAt
<1>8. \A i \in KindAt(st, "text") : st.out[i].from \in Nat /\ st.out[i].to \in Nat
  <2>1. \A i \in 1 .. n : st.out[i] \in StreamFrames
    BY <1>1, <1>3
  <2>2. \A f \in StreamFrames : f.from \in Nat /\ f.to \in Nat
    BY DEF StreamFrames
  <2> QED
    BY <1>7, <2>1, <2>2
<1>9. Laid(new)
  <2>1. \A i \in KindAt(new, "text") :
          /\ out[i].from < out[i].to /\ out[i].to <= cut
          /\ \A f \in out[i].masked : out[i].from <= f.start /\ f.end <= out[i].to
    <3> SUFFICES ASSUME NEW i \in KindAt(new, "text")
                 PROVE  /\ out[i].from < out[i].to /\ out[i].to <= cut
                        /\ \A f \in out[i].masked : out[i].from <= f.start /\ f.end <= out[i].to
      OBVIOUS
    <3>1. CASE i = n + 1
      BY <1>1, <1>2, <1>3, <3>1
    <3>2. CASE i \in KindAt(st, "text")
      <4>1. out[i] = st.out[i]
        BY <1>3, <1>7, <3>2
      <4> QED
        BY <1>1, <1>8, <3>2, <4>1 DEF Open, Good, Laid
    <3> QED
      BY <1>5, <3>1, <3>2
  <2>2. \A i, j \in KindAt(new, "text") : i < j => out[i].to <= out[j].from
    <3> SUFFICES ASSUME NEW i \in KindAt(new, "text"), NEW j \in KindAt(new, "text"), i < j
                 PROVE  out[i].to <= out[j].from
      OBVIOUS
    <3>1. i \in KindAt(st, "text") /\ out[i] = st.out[i]
      BY <1>3, <1>5, <1>7
    <3>2. CASE j = n + 1
      BY <1>2, <1>3, <3>1, <3>2 DEF Open, Good, Laid
    <3>3. CASE j \in KindAt(st, "text")
      <4>1. out[j] = st.out[j]
        BY <1>3, <1>7, <3>3
      <4> QED
        BY <3>1, <3>3, <4>1 DEF Open, Good, Laid
    <3> QED
      BY <1>5, <3>2, <3>3
  <2>3. \A x \in 0 .. cut - 1 : \E i \in KindAt(new, "text") : x \in InFrame(out[i])
    <3> SUFFICES ASSUME NEW x \in 0 .. cut - 1
                 PROVE  \E i \in KindAt(new, "text") : x \in InFrame(out[i])
      OBVIOUS
    <3>1. CASE x < st.sent
      <4>1. PICK i \in KindAt(st, "text") : x \in InFrame(st.out[i])
        BY <1>1, <3>1 DEF Open, Good, Laid
      <4>2. out[i] = st.out[i]
        BY <1>3, <1>7
      <4> QED
        BY <1>5, <4>1, <4>2
    <3>2. CASE x >= st.sent
      <4>1. x \in InFrame(out[n + 1])
        BY <1>1, <1>2, <1>3, <3>2 DEF InFrame
      <4> QED
        BY <1>5, <4>1
    <3> QED
      BY <1>1, <3>1, <3>2
  <2> QED
    BY <1>4, <2>1, <2>2, <2>3 DEF Laid
<1>10. Marked(new)
  <2>1. ~ st.finished
    BY <1>1 DEF Open, Good, Marked
  <2>2. KindAt(st, "finish") = {}
    BY <2>1 DEF Open, Good, Marked
  <2>3. \A i \in 1 .. n + 1 : i \notin KindAt(new, "done")
    <3>1. \A i \in 1 .. n : i \notin KindAt(st, "done")
      BY <1>1, <1>3 DEF Open, Good, Marked
    <3> QED
      BY <1>3, <1>6, <3>1 DEF KindAt
  <2> QED
    BY <1>3, <1>4, <1>6, <2>1, <2>2, <2>3 DEF Marked
<1>11. Shape(new)
  BY <1>1, <1>4 DEF Shape
<1> QED
  BY <1>4, <1>9, <1>10, <1>11 DEF Open, Good, new, out, fr

\* When a marker may be emitted, ending the stream so and finishing it or not.
Fits(st, kind, ends, finishes) ==
  /\ kind \in FrameKinds \ {"text"}
  /\ ends \in {"no", "done", "error"} /\ finishes \in BOOLEAN
  /\ ends = "done" <=> kind = "done"
  /\ kind = "finish" => finishes
  /\ st.finished => finishes
  /\ finishes => st.got = Len(text) /\ st.sent = st.got

Marker(st, kind, from, to, ends, finishes) ==
  [st EXCEPT !.out = Append(@, Frame(kind, from, to)), !.finished = finishes, !.over = ends]

\* A frame without text moves nothing; only a finish after all of the text, and
\* nothing but the end of the stream with [DONE], keep the markers last.
LEMMA MoreMarker ==
  ASSUME NEW st, Open(st), text \in Texts,
         NEW kind, NEW from \in Nat, NEW to \in Nat, NEW ends, NEW finishes,
         Fits(st, kind, ends, finishes)
  PROVE  LET new == Marker(st, kind, from, to, ends, finishes)
         IN Good(new) /\ new.over = ends /\ new.got = st.got /\ new.sent = st.sent
<1> DEFINE fr == Frame(kind, from, to)
           out == Append(st.out, fr)
           n == Len(st.out)
           new == Marker(st, kind, from, to, ends, finishes)
<1>0. /\ kind \in FrameKinds /\ kind # "text"
      /\ ends \in {"no", "done", "error"} /\ finishes \in BOOLEAN
      /\ ends = "done" <=> kind = "done"
      /\ kind = "finish" => finishes
      /\ st.finished => finishes
      /\ finishes => st.got = Len(text) /\ st.sent = st.got
  BY DEF Fits
<1>1. /\ st \in States /\ st.sent \in Nat /\ st.got \in Nat /\ st.out \in Seq(StreamFrames)
      /\ st.sent <= st.got /\ st.got <= Len(text) /\ st.over = "no"
  BY DEF Open, Good, Shape, States
<1>2. fr \in StreamFrames /\ fr.kind = kind
  BY <1>0 DEF Frame, StreamFrames, FrameKinds, RawKinds
<1>3. /\ out \in Seq(StreamFrames) /\ n \in Nat /\ DOMAIN st.out = 1 .. n
      /\ Len(out) = n + 1 /\ DOMAIN out = 1 .. n + 1 /\ out[n + 1] = fr
      /\ \A i \in 1 .. n : out[i] = st.out[i]
  BY <1>1, <1>2, Appended
<1>4. /\ new.sent = st.sent /\ new.out = out /\ new.got = st.got
      /\ new.finished = finishes /\ new.over = ends /\ new \in States
  BY <1>0, <1>1, <1>3 DEF States, Marker
<1> HIDE DEF fr, out, n, new
<1>5. \A k \in FrameKinds :
        KindAt(new, k) = IF k = kind THEN KindAt(st, k) \cup {n + 1} ELSE KindAt(st, k)
  BY <1>2, <1>3, <1>4 DEF KindAt
<1>6. KindAt(new, "text") = KindAt(st, "text") /\ KindAt(st, "text") \subseteq 1 .. n
  BY <1>0, <1>3, <1>5 DEF KindAt, FrameKinds, RawKinds
<1>7. Laid(new)
  <2>1. \A i \in KindAt(st, "text") : out[i] = st.out[i]
    BY <1>3, <1>6
  <2> QED
    BY <1>4, <1>6, <2>1 DEF Laid, Open, Good
<1>8. Marked(new)
  <2>0. KindAt(new, "finish") \subseteq KindAt(st, "finish") \cup {n + 1}
    BY <1>5 DEF FrameKinds
  <2>1. KindAt(new, "finish") # {} => finishes
    BY <1>0, <1>5 DEF FrameKinds, RawKinds, Open, Good, Marked
  <2>2. \A i \in KindAt(new, "finish"), j \in KindAt(st, "text") : j < i
    BY <1>3, <1>6, <2>0 DEF Open, Good, Marked
  <2>3. \A i \in 1 .. n + 1 : i \in KindAt(new, "done") <=> i = n + 1 /\ ends = "done"
    <3>1. \A i \in 1 .. n : i \notin KindAt(st, "done")
      BY <1>0, <1>1, <1>3 DEF Open, Good, Marked
    <3>2. n + 1 \notin KindAt(st, "done")
      BY <1>0, <1>3 DEF KindAt
    <3>3. KindAt(new, "done") =
            IF kind = "done" THEN KindAt(st, "done") \cup {n + 1} ELSE KindAt(st, "done")
      BY <1>0, <1>5 DEF FrameKinds, RawKinds
    <3> QED
      BY <1>0, <1>3, <3>1, <3>2, <3>3
  <2> QED
    BY <1>0, <1>3, <1>4, <1>6, <2>1, <2>2, <2>3 DEF Marked
<1>9. Shape(new)
  BY <1>1, <1>4 DEF Shape
<1> QED
  BY <1>4, <1>7, <1>8, <1>9 DEF Good, new, out

\* What `release` does: nothing, or one more frame up to the cut.
LEMMA ReleaseFacts ==
  ASSUME text \in Texts, policies \in PolicySets, NEW st, Open(st),
         NEW flush \in BOOLEAN
  PROVE  LET new == Release(st, flush) IN
         /\ Open(new) /\ new.got = st.got /\ new.finished = st.finished
         /\ flush => new.sent = st.got
         /\ ~ flush => st.got - new.sent < HOLDBACK + MaxMatch
<1> DEFINE spans == Findings(text, policies, st.sent, st.got)
           cut == Cut(st, flush, spans)
           settled == {f \in spans : f.end <= cut}
           new == Release(st, flush)
<1>1. Shape(st) /\ st.over = "no" /\ st.sent \in Nat
  BY DEF Open, Good, Shape, States
<1>2. /\ cut \in st.sent .. st.got
      /\ flush => cut = st.got
      /\ ~ flush => st.got - cut < HOLDBACK + MaxMatch
  BY <1>1, CutFacts
<1>3. settled \in SUBSET Spans /\ \A f \in settled : st.sent <= f.start /\ f.end <= cut
  BY <1>1, PendingSpans
<1>4. new = IF cut = st.sent THEN st
            ELSE [st EXCEPT !.sent = cut, !.out = Append(@, TextFrame(st.sent, cut, settled))]
  BY DEF Release
<1> HIDE DEF spans, cut, settled, new
<1>5. CASE cut = st.sent
  BY <1>1, <1>2, <1>4, <1>5 DEF new
<1>6. CASE cut # st.sent
  <2>1. /\ Open(new) /\ new.got = st.got /\ new.finished = st.finished /\ new.sent = cut
    BY <1>2, <1>3, <1>4, <1>6, MoreText, ZenonT(60)
  <2> QED
    BY <1>2, <2>1 DEF new
<1> QED
  BY <1>5, <1>6

-----------------------------------------------------------------------------
(* process_event.                                                          *)

\* The markers process_event and the end of a stream emit, as MoreMarker has them.
LEMMA Emitted ==
  ASSUME NEW st \in States, NEW kind, NEW from, NEW to, NEW ends
  PROVE  /\ Emit(st, Frame(kind, from, to)) =
              Marker(st, kind, from, to, st.over, st.finished)
         /\ [Emit(st, Frame(kind, from, to)) EXCEPT !.over = ends] =
              Marker(st, kind, from, to, ends, st.finished)
         /\ Finish(st) = Marker(st, "finish", 0, 0, st.over, TRUE)
  BY DEF States, Emit, Finish, Marker

\* An event without content has no characters, nor has [DONE].
LEMMA EventFacts ==
  ASSUME NEW ev \in Events
  PROVE  /\ ev.n \in Nat /\ ev.finish \in BOOLEAN /\ ev.done \in BOOLEAN
         /\ ~ ev.content => ev.n = 0
  BY BoundsAssumption DEF Events

\* Text that arrives after no finish leaves the stream as it should be.
LEMMA Received ==
  ASSUME text \in Texts, NEW st, Open(st), NEW ev \in Events, Follows(st, ev)
  PROVE  LET more == [st EXCEPT !.got = @ + ev.n] IN
         /\ Open(more) /\ more.got = st.got + ev.n /\ more.sent = st.sent
         /\ more.out = st.out /\ more.finished = st.finished
<1> DEFINE more == [st EXCEPT !.got = @ + ev.n]
<1>1. /\ st \in States /\ st.sent \in Nat /\ st.got \in Nat /\ st.sent <= st.got
      /\ st.over = "no" /\ ev.n \in Nat /\ st.got + ev.n <= Len(text)
  BY EventFacts DEF Open, Good, Shape, States, Follows
<1>2. /\ more \in States /\ more.sent = st.sent /\ more.got = st.got + ev.n
      /\ more.out = st.out /\ more.finished = st.finished /\ more.over = "no"
  BY <1>1 DEF States
<1>3. Shape(more)
  BY <1>1, <1>2 DEF Shape
<1>4. Laid(more)
  BY <1>2 DEF Open, Good, Laid, KindAt
<1>5. st.finished => st.got + ev.n = Len(text) /\ st.sent = st.got + ev.n
  <2>1. st.finished => st.got = Len(text) /\ st.sent = st.got
    BY DEF Open, Good, Marked
  <2> QED
    BY <1>1, <2>1
<1>6. Marked(more)
  BY <1>1, <1>2, <1>5 DEF Open, Good, Marked, KindAt
<1> QED
  BY <1>2, <1>3, <1>4, <1>6 DEF Open, Good

LEMMA TextKeeps ==
  ASSUME text \in Texts, policies \in PolicySets, NEW st, Open(st), Bounded(st),
         NEW ev \in Events, Follows(st, ev)
  PROVE  LET new == ProcessText(st, ev) IN
         /\ Open(new) /\ Bounded(new)
         /\ new.got = st.got + ev.n /\ new.finished = st.finished
<1> DEFINE more == [st EXCEPT !.got = @ + ev.n]
           new == ProcessText(st, ev)
<1>1. /\ st \in States /\ st.sent \in Nat /\ st.got \in Nat /\ st.sent <= st.got
      /\ st.over = "no" /\ ev.n \in Nat /\ st.got + ev.n <= Len(text)
      /\ ~ ev.content => ev.n = 0
  BY EventFacts DEF Open, Good, Shape, States, Follows
<1>2. CASE ev.content
  <2>1. /\ Open(more) /\ more.sent = st.sent /\ more.got = st.got + ev.n
        /\ more.finished = st.finished
    BY Received
  <2>2. new = Release(more, FALSE)
    BY <1>2 DEF ProcessText
  <2> HIDE DEF more, new
  <2>3. /\ Open(new) /\ new.got = more.got /\ new.finished = more.finished
        /\ more.got - new.sent < HOLDBACK + MaxMatch
    BY <2>1, <2>2, ReleaseFacts
  <2> QED
    BY <2>1, <2>3 DEF Bounded, Open, new
<1>3. CASE ~ ev.content
  BY <1>1, <1>3 DEF ProcessText
<1> QED
  BY <1>2, <1>3

LEMMA FinishKeeps ==
  ASSUME text \in Texts, policies \in PolicySets, NEW st, Open(st), Bounded(st),
         NEW ev \in Events, ev.finish => st.got = Len(text)
  PROVE  LET new == ProcessFinish(st, ev) IN
         /\ Good(new) /\ Bounded(new) /\ new.over = "no" /\ new.got = st.got
<1> DEFINE flushed == Release(st, TRUE)
           new == ProcessFinish(st, ev)
<1>1. CASE ev.finish
  <2>1. /\ Open(flushed) /\ flushed.got = st.got /\ flushed.sent = st.got
    BY ReleaseFacts
  <2>2. flushed \in States /\ flushed.over = "no" /\ flushed.got \in Nat
    BY <2>1 DEF Open, Good, Shape, States
  <2>. PICK yes \in BOOLEAN : yes = TRUE
    OBVIOUS
  <2>3. new = Marker(flushed, "finish", 0, 0, "no", yes)
    BY <1>1, <2>2, Emitted DEF ProcessFinish
  <2> HIDE DEF flushed, new
  <2>4. Fits(flushed, "finish", "no", yes)
    BY <1>1, <2>1 DEF Fits, FrameKinds, RawKinds
  <2>5. Good(new) /\ new.over = "no" /\ new.got = flushed.got /\ new.sent = flushed.sent
    <3>1. 0 \in Nat
      OBVIOUS
    <3>2. Open(flushed)
      BY <2>1
    <3>3. Good(Marker(flushed, "finish", 0, 0, "no", yes))
      BY <2>4, <3>1, <3>2, MoreMarker, Zenon
    <3>4. /\ new.over = "no" /\ new.got = flushed.got /\ new.sent = flushed.sent
      BY <2>2, <2>3 DEF Marker, States
    <3> QED
      BY <2>3, <3>3, <3>4, Zenon
  <2>6. Bounded(new)
    BY <2>1, <2>2, <2>5, BoundsAssumption DEF Bounded
  <2> QED
    BY <2>1, <2>5, <2>6 DEF new
<1>2. CASE ~ ev.finish /\ ev.content
  BY <1>2 DEF ProcessFinish, Open
<1>3. CASE ~ ev.finish /\ ~ ev.content
  <2>1. /\ st \in States /\ st.over = "no" /\ st.finished \in BOOLEAN
        /\ st.finished => st.got = Len(text) /\ st.sent = st.got
    BY DEF Open, Good, Shape, States, Marked
  <2>2. new = Marker(st, "other", 0, 0, "no", st.finished)
    <3>1. Emit(st, Frame("other", 0, 0)) = Marker(st, "other", 0, 0, st.over, st.finished)
      BY <2>1, Emitted, ZenonT(30)
    <3>2. new = Emit(st, Frame("other", 0, 0))
      BY <1>3 DEF ProcessFinish
    <3> QED
      BY <2>1, <3>1, <3>2, Zenon
  <2> HIDE DEF new
  <2>3. Fits(st, "other", "no", st.finished)
    BY <2>1 DEF Fits, FrameKinds, RawKinds
  <2>4. Good(new) /\ new.over = "no" /\ new.got = st.got /\ new.sent = st.sent
    BY <2>1, <2>2, <2>3, MoreMarker
  <2> QED
    BY <2>1, <2>4 DEF Bounded, new
<1> QED
  BY <1>1, <1>2, <1>3

LEMMA DoneKeeps ==
  ASSUME text \in Texts, policies \in PolicySets, NEW st, Open(st)
  PROVE  LET new == ProcessDone(st) IN
         Good(new) /\ Bounded(new) /\ new.over = "done" /\ new.got = st.got
<1> DEFINE flushed == Release(st, TRUE)
           new == ProcessDone(st)
<1>1. Open(flushed) /\ flushed.got = st.got /\ flushed.sent = st.got
  BY ReleaseFacts
<1>2. /\ flushed \in States /\ flushed.finished \in BOOLEAN
      /\ flushed.finished => flushed.got = Len(text) /\ flushed.sent = flushed.got
  BY <1>1 DEF Open, Good, Shape, States, Marked
<1>3. new = [Emit(flushed, Frame("done", 0, 0)) EXCEPT !.over = "done"]
  BY DEF ProcessDone, EndStream
<1> HIDE DEF flushed, new
<1>4. new = Marker(flushed, "done", 0, 0, "done", flushed.finished)
  BY <1>2, <1>3 DEF States, Emit, Marker
<1>5. Fits(flushed, "done", "done", flushed.finished)
  BY <1>2 DEF Fits, FrameKinds, RawKinds
<1>6. Good(new) /\ new.over = "done" /\ new.got = flushed.got /\ new.sent = flushed.sent
  BY <1>1, <1>2, <1>4, <1>5, MoreMarker
<1> QED
  BY <1>1, <1>6 DEF Bounded, new

LEMMA EventKeeps ==
  ASSUME text \in Texts, policies \in PolicySets, NEW st, Good(st), Bounded(st),
         NEW ev \in Events, Follows(st, ev)
  PROVE  Good(ProcessEvent(st, ev)) /\ Bounded(ProcessEvent(st, ev))
<1>1. Open(st)
  BY DEF Open, Follows
<1>2. CASE ev.done
  BY <1>1, <1>2, DoneKeeps DEF ProcessEvent
<1>3. CASE ~ ev.done
  <2> DEFINE mid == ProcessText(st, ev)
  <2>1. Open(mid) /\ Bounded(mid) /\ mid.got = st.got + ev.n
    BY <1>1, TextKeeps
  <2>2. ev.finish => mid.got = Len(text)
    BY <2>1 DEF Follows
  <2> HIDE DEF mid
  <2>3. Good(ProcessFinish(mid, ev)) /\ Bounded(ProcessFinish(mid, ev))
    BY <2>1, <2>2, FinishKeeps
  <2> QED
    BY <1>3, <2>3 DEF ProcessEvent, mid
<1> QED
  BY <1>2, <1>3

-----------------------------------------------------------------------------
(* The steps of the stream.                                                *)

\* What is passed on of an event without its terminator is a marker that fits
\* where the text was flushed.
LEMMA PassOnKeeps ==
  ASSUME text \in Texts, NEW st, Open(st), st.sent = st.got, NEW ev \in Events
  PROVE  LET new == PassOn(st, ev) IN
         /\ Open(new) /\ new.got = st.got /\ new.sent = st.sent
         /\ st.got + ev.n \in Nat /\ st.got \in Nat
         /\ new = Marker(st, RawKind(ev), st.got, st.got + ev.n, "no", st.finished)
         /\ Fits(st, RawKind(ev), "no", st.finished)
<1> DEFINE new == PassOn(st, ev)
<1>1. /\ st \in States /\ st.over = "no" /\ st.finished \in BOOLEAN
      /\ st.got \in Nat /\ ev.n \in Nat /\ st.got + ev.n \in Nat
      /\ st.finished => st.got = Len(text) /\ st.sent = st.got
  BY EventFacts DEF Open, Good, Shape, States, Marked
<1>2. RawKind(ev) \in RawKinds
  BY DEF RawKind, RawKinds
<1>3. new = Marker(st, RawKind(ev), st.got, st.got + ev.n, "no", st.finished)
  BY <1>1 DEF States, PassOn, Emit, Marker
<1> HIDE DEF new
<1>4. Fits(st, RawKind(ev), "no", st.finished)
  BY <1>1, <1>2 DEF Fits, FrameKinds, RawKinds
<1>5. Good(new) /\ new.over = "no" /\ new.got = st.got /\ new.sent = st.sent
  BY <1>1, <1>3, <1>4, MoreMarker
<1> QED
  BY <1>1, <1>3, <1>4, <1>5 DEF new, Open

LEMMA Becomes ==
  ASSUME NEW st, st \in States, Become(st)
  PROVE  Current' = st /\ text' = text /\ policies' = policies
  BY DEF Become, Current, States

LEMMA GoodBecomes ==
  ASSUME text \in Texts, policies \in PolicySets,
         NEW st, Good(st), Bounded(st), Become(st)
  PROVE  IInv'
<1>1. Current' = st /\ text' = text /\ policies' = policies
  BY Becomes DEF Good, Shape
<1>2. Good(Current)'
  <2>1. \A kind : KindAt(Current, kind)' = KindAt(st, kind)
    BY <1>1 DEF KindAt
  <2>2. Shape(Current)'
    BY <1>1 DEF Good, Shape
  <2>3. Laid(Current)'
    BY <1>1 DEF Good, Laid, KindAt
  <2>4. Marked(Current)'
    BY <1>1 DEF Good, Marked, KindAt
  <2> QED
    BY <2>2, <2>3, <2>4 DEF Good
<1>3. Bounded(Current)'
  BY <1>1 DEF Bounded
<1> QED
  BY <1>1, <1>2, <1>3 DEF IInv

LEMMA InitGood == Init => IInv
<1> SUFFICES ASSUME Init PROVE IInv
  OBVIOUS
<1>1. /\ Current.got = 0 /\ Current.sent = 0 /\ Current.finished = FALSE
      /\ Current.out = <<>> /\ Current.over = "no" /\ Current \in States
  <2>1. <<>> \in Seq(StreamFrames)
    OBVIOUS
  <2>2. Current = [got |-> 0, sent |-> 0, finished |-> FALSE, out |-> <<>>, over |-> "no"]
    BY DEF Init, Current
  <2> QED
    BY <2>1, <2>2 DEF States
<1>2. text \in Texts /\ policies \in PolicySets /\ Len(text) \in Nat
  BY BoundsAssumption DEF Init
<1>3. \A kind : KindAt(Current, kind) = {}
  BY <1>1 DEF KindAt
<1>4. DOMAIN Current.out = {}
  BY <1>1
<1> QED
  BY <1>1, <1>2, <1>3, <1>4, BoundsAssumption DEF IInv, Good, Shape, Laid, Marked, Bounded

LEMMA StepGood == IInv /\ [Next]_vars => IInv'
<1> SUFFICES ASSUME IInv, [Next]_vars PROVE IInv'
  OBVIOUS
<1>1. /\ text \in Texts /\ policies \in PolicySets /\ Good(Current) /\ Bounded(Current)
      /\ Current \in States /\ Current.got = got /\ Current.sent = sent
      /\ Current.finished = finished /\ Current.out = frames /\ Current.over = over
  BY DEF IInv, Good, Shape, Current
<1>2. ASSUME NEW ev \in Events, Poll(ev) PROVE IInv'
  <2>1. Follows(Current, ev) /\ Become(ProcessEvent(Current, ev))
    BY <1>2 DEF Poll
  <2>2. Good(ProcessEvent(Current, ev)) /\ Bounded(ProcessEvent(Current, ev))
    BY <1>1, <2>1, EventKeeps
  <2> QED
    BY <1>1, <2>1, <2>2, GoodBecomes
<1>3. ASSUME NEW ev1 \in Events, NEW ev2 \in Events, PollTwo(ev1, ev2) PROVE IInv'
  <2> DEFINE between == ProcessEvent(Current, ev1)
             after == ProcessEvent(between, ev2)
  <2>1. Follows(Current, ev1) /\ Follows(between, ev2) /\ Become(after)
    BY <1>3 DEF PollTwo
  <2>2. Good(between) /\ Bounded(between)
    BY <1>1, <2>1, EventKeeps
  <2> HIDE DEF between
  <2>3. Good(after) /\ Bounded(after)
    BY <1>1, <2>1, <2>2, EventKeeps
  <2> HIDE DEF after
  <2> QED
    BY <1>1, <2>1, <2>3, GoodBecomes
<1>4. ASSUME NEW st, Open(st), st.sent = st.got, Become(EndStream(st)) PROVE IInv'
  <2> DEFINE last == EndStream(st)
  <2>1. /\ st \in States /\ st.over = "no" /\ st.finished \in BOOLEAN
        /\ st.finished => st.got = Len(text) /\ st.sent = st.got
    BY <1>4 DEF Open, Good, Shape, States, Marked
  <2>2. last = Marker(st, "done", 0, 0, "done", st.finished)
    BY <2>1 DEF States, EndStream, Emit, Marker
  <2> HIDE DEF last
  <2>3. Fits(st, "done", "done", st.finished)
    BY <2>1 DEF Fits, FrameKinds, RawKinds
  <2>4. Good(last) /\ last.over = "done" /\ last.got = st.got /\ last.sent = st.sent
    BY <1>1, <1>4, <2>2, <2>3, MoreMarker
  <2>5. Bounded(last)
    BY <1>4, <2>4 DEF Bounded
  <2> QED
    BY <1>1, <1>4, <2>4, <2>5, GoodBecomes DEF last
<1>5. ASSUME over = "no"
      PROVE  LET flushed == Release(Current, TRUE)
             IN Open(flushed) /\ flushed.sent = flushed.got
  <2>1. Open(Current)
    BY <1>1, <1>5 DEF Open
  <2> QED
    BY <1>1, <2>1, ReleaseFacts
<1>6. ASSUME PollEnd PROVE IInv'
  <2>1. over = "no" /\ Become(EndStream(Release(Current, TRUE)))
    BY <1>6 DEF PollEnd
  <2> QED
    BY <1>4, <1>5, <2>1
<1>7. ASSUME NEW ev \in Events, PollEndWithin(ev) PROVE IInv'
  <2> DEFINE flushed == Release(Current, TRUE)
             tail == PassOn(flushed, ev)
  <2>1. over = "no" /\ Become(EndStream(tail))
    BY <1>1, <1>7 DEF PollEndWithin, Follows
  <2>2. Open(flushed) /\ flushed.sent = flushed.got
    BY <1>5, <2>1
  <2> HIDE DEF flushed
  <2>3. Open(tail) /\ tail.sent = tail.got
    BY <1>1, <2>2, PassOnKeeps
  <2> HIDE DEF tail
  <2> QED
    BY <1>4, <2>1, <2>3
<1>8. ASSUME PollError PROVE IInv'
  <2> DEFINE last == [Emit(Current, Frame("error", 0, 0)) EXCEPT !.over = "error"]
  <2>1. over = "no" /\ Become(last)
    BY <1>8 DEF PollError
  <2>2. /\ Current.finished \in BOOLEAN
        /\ Current.finished => Current.got = Len(text) /\ Current.sent = Current.got
    BY <1>1 DEF Good, States, Marked
  <2>3. last = Marker(Current, "error", 0, 0, "error", Current.finished)
    BY <1>1 DEF States, Emit, Marker
  <2> HIDE DEF last
  <2>4. Fits(Current, "error", "error", Current.finished)
    BY <2>2 DEF Fits, FrameKinds, RawKinds
  <2>5. Good(last) /\ last.over = "error"
    BY <1>1, <2>1, <2>3, <2>4, MoreMarker DEF Open
  <2>6. Bounded(last)
    BY <2>5 DEF Bounded
  <2> QED
    BY <1>1, <2>1, <2>5, <2>6, GoodBecomes
<1>9. CASE UNCHANGED vars
  BY <1>9 DEF vars, IInv, Good, Shape, Laid, Marked, Bounded, KindAt, Current
<1> QED
  BY <1>2, <1>3, <1>6, <1>7, <1>8, <1>9 DEF Next

-----------------------------------------------------------------------------
(* What follows from the invariant.                                        *)

\* The inductive invariant of a stream (stream_dlp.rs:30-182): what was sent is a
\* prefix of what came, laid out by the text frames, with the markers after it.
THEOREM Invariance == Spec => []IInv
<1> QED
  BY InitGood, StepGood, PTL DEF Spec

LEMMA TextAtIs == TextAt = KindAt(Current, "text") /\ Current.out = frames /\ Current.sent = sent
  BY DEF TextAt, KindAt, Current

\* stream_dlp.rs:184-223: the text frames give what was received once and in
\* order, and a stream that ends with [DONE] has withheld nothing.
THEOREM NothingIsLost == Spec => []NothingLost
<1>1. IInv => NothingLost
  <2> SUFFICES ASSUME IInv PROVE NothingLost
    OBVIOUS
  <2>1. /\ Good(Current) /\ Bounded(Current) /\ Current.got = got
        /\ Current.over = over /\ sent \in Nat /\ frames \in Seq(StreamFrames)
    BY TextAtIs DEF IInv, Good, Shape, States, Current
  <2>2. \A i \in TextAt : /\ frames[i].from \in Nat /\ frames[i].to \in Nat
                           /\ frames[i].masked \subseteq Spans
    <3>1. \A i \in DOMAIN frames : frames[i] \in StreamFrames
      BY <2>1
    <3>2. \A f \in StreamFrames : f.from \in Nat /\ f.to \in Nat /\ f.masked \subseteq Spans
      BY DEF StreamFrames
    <3> QED
      BY <3>1, <3>2 DEF TextAt
  <2>3. /\ \A i \in TextAt :
             /\ frames[i].from < frames[i].to /\ frames[i].to <= sent
             /\ \A f \in frames[i].masked : frames[i].from <= f.start /\ f.end <= frames[i].to
        /\ \A i, j \in TextAt : i < j => frames[i].to <= frames[j].from
        /\ \A x \in 0 .. sent - 1 : \E i \in TextAt : x \in InFrame(frames[i])
    BY <2>1, TextAtIs DEF Good, Laid
  <2>4. \A i \in TextAt : InFrame(frames[i]) \subseteq 0 .. sent - 1
    BY <2>1, <2>2, <2>3 DEF InFrame
  <2>5. UNION {InFrame(frames[i]) : i \in TextAt} = 0 .. sent - 1
    BY <2>3, <2>4, Zenon
  <2>6. \A i \in TextAt : \A f \in frames[i].masked : Positions(f) \subseteq InFrame(frames[i])
    <3> SUFFICES ASSUME NEW i \in TextAt, NEW f \in frames[i].masked, NEW x \in Positions(f)
                 PROVE  x \in InFrame(frames[i])
      OBVIOUS
    <3>1. f \in Spans
      BY <2>2
    <3> QED
      BY <2>2, <2>3, <3>1 DEF Spans, Positions, InFrame
  <2> QED
    BY <2>1, <2>3, <2>5, <2>6, TextAtIs DEF NothingLost, Bounded
<1> QED
  BY <1>1, Invariance, PTL

\* stream_dlp.rs:192-202: the text held back is shorter than the window and one
\* match, however long the reply and however it is cut.
THEOREM PendingIsBounded == Spec => []PendingBounded
<1>1. IInv => PendingBounded
  BY DEF IInv, Bounded, Current, PendingBounded
<1> QED
  BY <1>1, Invariance, PTL

-----------------------------------------------------------------------------
(* No match is shown, given DetectorsAssumption. A match that a reply may  *)
(* still turn out to have is looked at before it is complete: Masks is of  *)
(* the first n characters of the text, for any n that may be received.     *)

\* No match of the first n characters goes through the end of what was sent, and
\* the frames hide what they have of it.
Masks(st, n) ==
  \A f \in Findings(text, policies, 0, n) :
    /\ f.start < st.sent => f.end <= st.sent
    /\ \A i \in KindAt(st, "text") : InFrame(st.out[i]) \cap Positions(f) \subseteq Hidden(st.out[i])

Settled(st) ==
  \A n \in st.got .. Len(text) : st.over = "no" \/ n = st.got => Masks(st, n)

LEMMA PrefixSpans ==
  ASSUME text \in Texts, policies \in PolicySets, NEW n \in 0 .. Len(text),
         NEW f \in Findings(text, policies, 0, n)
  PROVE  /\ f.start \in Nat /\ f.end \in Nat /\ f.start < f.end /\ f.end <= n
         /\ f.end - f.start <= MaxMatch
<1>1. 0 \in 0 .. Len(text) /\ Len(text) \in Nat
  BY BoundsAssumption
<1>2. f \in Spans
  BY <1>1, SpansAssumption
<1> QED
  BY <1>1, <1>2, SpansAssumption DEF Spans

\* What is sent next hides what it has of a match: the match was there to be seen,
\* alone or in a wider one, and the cut goes through neither.
LEMMA CutMasks ==
  ASSUME text \in Texts, policies \in PolicySets, NEW st, Shape(st),
         NEW flush \in BOOLEAN,
         NEW n \in st.got .. Len(text), flush => n = st.got,
         NEW f \in Findings(text, policies, 0, n), st.sent <= f.start,
         f.start < Cut(st, flush, Findings(text, policies, st.sent, st.got))
  PROVE  LET spans == Findings(text, policies, st.sent, st.got)
             cut == Cut(st, flush, spans)
         IN \E g \in spans : g.end <= cut /\ g.start <= f.start /\ f.end <= g.end
<1> DEFINE spans == Findings(text, policies, st.sent, st.got)
           cut == Cut(st, flush, spans)
<1>1. /\ st.sent \in Nat /\ st.got \in Nat /\ st.sent <= st.got /\ st.got <= Len(text)
      /\ Len(text) \in Nat /\ n \in 0 .. Len(text)
  BY BoundsAssumption DEF Shape, States
<1>2. /\ f.start \in Nat /\ f.end \in Nat /\ f.start < f.end /\ f.end <= n
      /\ f.end - f.start <= MaxMatch
  BY <1>1, PrefixSpans
<1>3. /\ cut \in st.sent .. st.got
      /\ \A g \in spans : g.end <= cut \/ cut <= g.start
      /\ ~ flush => cut = st.sent \/ cut + HOLDBACK <= st.got
  BY CutFacts
<1>4. \A g \in spans : g.start \in Nat /\ g.end \in Nat
  BY PendingSpans
<1> HIDE DEF spans, cut
<1>5. f.start < cut
  BY DEF spans, cut
<1>6. st.got = n \/ f.end < st.got
  BY <1>1, <1>2, <1>3, <1>5, BoundsAssumption, DetectorsAssumption
<1>7. st.sent \in 0 .. f.start /\ st.got \in f.end .. n
  BY <1>1, <1>2, <1>6
<1>8. \E g \in spans : g.start <= f.start /\ f.end <= g.end
  BY <1>1, <1>6, <1>7, DetectorsAssumption DEF spans
<1>9. PICK g \in spans : g.start <= f.start /\ f.end <= g.end
  BY <1>8
<1>10. g.end <= cut
  BY <1>2, <1>3, <1>4, <1>5, <1>9
<1> QED
  BY <1>9, <1>10 DEF spans, cut

LEMMA ReleaseMasks ==
  ASSUME text \in Texts, policies \in PolicySets, NEW st, Open(st),
         NEW flush \in BOOLEAN,
         NEW n \in st.got .. Len(text), flush => n = st.got,
         Masks(st, n)
  PROVE  Masks(Release(st, flush), n)
<1> DEFINE spans == Findings(text, policies, st.sent, st.got)
           cut == Cut(st, flush, spans)
           settled == {f \in spans : f.end <= cut}
           fr == TextFrame(st.sent, cut, settled)
           new == Release(st, flush)
<1>1. /\ Shape(st) /\ st \in States /\ st.sent \in Nat /\ st.out \in Seq(StreamFrames)
      /\ Len(text) \in Nat /\ st.got \in Nat /\ n \in 0 .. Len(text)
  BY BoundsAssumption DEF Open, Good, Shape, States
<1>2. cut \in st.sent .. st.got
  BY <1>1, CutFacts
<1>3. settled \in SUBSET Spans
  BY <1>1, PendingSpans
<1>4. new = IF cut = st.sent THEN st
            ELSE [st EXCEPT !.sent = cut, !.out = Append(@, fr)]
  BY DEF Release
<1>5. \A f \in Findings(text, policies, 0, n) :
        st.sent <= f.start /\ f.start < cut =>
          \E g \in settled : g.start <= f.start /\ f.end <= g.end /\ g.end <= cut
  BY <1>1, CutMasks
<1>6. \A f \in Findings(text, policies, 0, n) :
        /\ f.start \in Nat /\ f.end \in Nat /\ f.start < f.end
  BY <1>1, PrefixSpans
<1> HIDE DEF spans, cut, settled, new
<1>7. CASE cut = st.sent
  BY <1>4, <1>7 DEF new
<1>8. CASE cut # st.sent
  <2>1. /\ fr \in StreamFrames /\ fr.kind = "text" /\ fr.from = st.sent /\ fr.to = cut
        /\ fr.masked = settled
    BY <1>1, <1>2, <1>3, TextFrameFacts
  <2> HIDE DEF fr
  <2>2. /\ new.out = Append(st.out, fr) /\ new.sent = cut
    BY <1>1, <1>4, <1>8 DEF States
  <2>3. /\ Len(st.out) \in Nat /\ DOMAIN st.out = 1 .. Len(st.out)
        /\ DOMAIN new.out = 1 .. Len(st.out) + 1 /\ new.out[Len(st.out) + 1] = fr
        /\ \A i \in 1 .. Len(st.out) : new.out[i] = st.out[i]
    BY <1>1, <2>1, <2>2, Appended
  <2>4. /\ KindAt(st, "text") \subseteq 1 .. Len(st.out)
        /\ KindAt(new, "text") = KindAt(st, "text") \cup {Len(st.out) + 1}
    BY <2>1, <2>3 DEF KindAt
  <2>5. \A g \in settled : g.start \in Nat /\ g.end \in Nat
    BY <1>3 DEF Spans
  <2> SUFFICES ASSUME NEW f \in Findings(text, policies, 0, n)
               PROVE  /\ f.start < cut => f.end <= cut
                      /\ \A i \in KindAt(new, "text") :
                           InFrame(new.out[i]) \cap Positions(f) \subseteq Hidden(new.out[i])
    BY <2>2 DEF Masks, new
  <2>6. /\ f.start < st.sent => f.end <= st.sent
        /\ \A i \in KindAt(st, "text") :
             InFrame(st.out[i]) \cap Positions(f) \subseteq Hidden(st.out[i])
    BY DEF Masks
  <2>7. f.start < cut => f.end <= cut
    BY <1>1, <1>2, <1>5, <1>6, <2>5, <2>6
  <2>8. InFrame(fr) \cap Positions(f) \subseteq Hidden(fr)
    <3> SUFFICES ASSUME NEW x \in InFrame(fr), x \in Positions(f) PROVE x \in Hidden(fr)
      OBVIOUS
    <3>1. st.sent <= x /\ x < cut /\ f.start <= x /\ x < f.end /\ x \in Int
      BY <1>1, <1>2, <1>6, <2>1 DEF InFrame, Positions
    <3>2. st.sent <= f.start /\ f.start < cut
      BY <1>1, <1>2, <1>6, <2>6, <3>1
    <3>3. PICK g \in settled : g.start <= f.start /\ f.end <= g.end
      BY <1>5, <3>2
    <3>4. x \in Positions(g)
      BY <1>6, <2>5, <3>1, <3>3 DEF Positions
    <3> QED
      BY <2>1, <3>4 DEF Hidden
  <2>9. ASSUME NEW i \in KindAt(new, "text")
        PROVE  InFrame(new.out[i]) \cap Positions(f) \subseteq Hidden(new.out[i])
    <3>1. CASE i = Len(st.out) + 1
      BY <2>3, <2>8, <3>1
    <3>2. CASE i \in KindAt(st, "text")
      <4>1. new.out[i] = st.out[i]
        BY <2>3, <2>4, <3>2
      <4> QED
        BY <2>6, <3>2, <4>1
    <3> QED
      BY <2>4, <3>1, <3>2
  <2> QED
    BY <2>7, <2>9
<1> QED
  BY <1>7, <1>8

LEMMA MarkerMasks ==
  ASSUME NEW st, Shape(st), text \in Texts,
         NEW kind, NEW from \in Nat, NEW to \in Nat, NEW ends, NEW finishes,
         Fits(st, kind, ends, finishes),
         NEW n, Masks(st, n)
  PROVE  Masks(Marker(st, kind, from, to, ends, finishes), n)
<1> DEFINE fr == Frame(kind, from, to)
           new == Marker(st, kind, from, to, ends, finishes)
<1>1. st \in States /\ st.out \in Seq(StreamFrames)
  BY DEF Shape, States
<1>2. fr \in StreamFrames /\ fr.kind # "text"
  BY DEF Fits, Frame, StreamFrames, FrameKinds, RawKinds
<1> HIDE DEF fr
<1>3. new.out = Append(st.out, fr) /\ new.sent = st.sent
  BY <1>1 DEF Marker, States, fr
<1> HIDE DEF new
<1>4. /\ DOMAIN st.out = 1 .. Len(st.out) /\ Len(st.out) \in Nat
      /\ DOMAIN new.out = 1 .. Len(st.out) + 1 /\ new.out[Len(st.out) + 1] = fr
      /\ \A i \in 1 .. Len(st.out) : new.out[i] = st.out[i]
  BY <1>1, <1>2, <1>3, Appended
<1>5. /\ KindAt(new, "text") = KindAt(st, "text")
      /\ \A i \in KindAt(st, "text") : new.out[i] = st.out[i]
  BY <1>2, <1>4 DEF KindAt
<1> QED
  BY <1>3, <1>5 DEF Masks, new

\* The settled states, as long as the stream is open.
OpenSettled(st) == \A n \in st.got .. Len(text) : Masks(st, n)

LEMMA TextSettles ==
  ASSUME text \in Texts, policies \in PolicySets, NEW st, Open(st), Bounded(st),
         OpenSettled(st), NEW ev \in Events, Follows(st, ev)
  PROVE  OpenSettled(ProcessText(st, ev))
<1> DEFINE more == [st EXCEPT !.got = @ + ev.n]
           new == ProcessText(st, ev)
<1>1. /\ st \in States /\ st.got \in Nat /\ ev.n \in Nat /\ st.got + ev.n <= Len(text)
      /\ Len(text) \in Nat
  BY EventFacts, BoundsAssumption DEF Open, Good, Shape, States, Follows
<1>2. CASE ev.content
  <2>1. Open(more) /\ more.sent = st.sent /\ more.out = st.out /\ more.got = st.got + ev.n
    BY Received
  <2>2. new = Release(more, FALSE)
    BY <1>2 DEF ProcessText
  <2>3. new.got = more.got
    BY <2>1, <2>2, ReleaseFacts
  <2> SUFFICES ASSUME NEW n \in new.got .. Len(text) PROVE Masks(new, n)
    BY DEF OpenSettled
  <2>4. n \in st.got .. Len(text) /\ n \in more.got .. Len(text)
    BY <1>1, <2>1, <2>3
  <2>5. Masks(more, n)
    <3>1. Masks(st, n)
      BY <2>4 DEF OpenSettled
    <3> QED
      BY <2>1, <3>1 DEF Masks, KindAt
  <2> HIDE DEF more, new
  <2>6. Masks(Release(more, FALSE), n)
    BY <2>1, <2>4, <2>5, ReleaseMasks
  <2> QED
    BY <2>2, <2>6
<1>3. CASE ~ ev.content
  BY <1>3 DEF ProcessText
<1> QED
  BY <1>2, <1>3

LEMMA FinishSettles ==
  ASSUME text \in Texts, policies \in PolicySets, NEW st, Open(st), Bounded(st),
         OpenSettled(st), NEW ev \in Events, ev.finish => st.got = Len(text)
  PROVE  OpenSettled(ProcessFinish(st, ev))
<1> DEFINE flushed == Release(st, TRUE)
           new == ProcessFinish(st, ev)
<1>1. /\ st \in States /\ st.got \in Nat /\ st.got <= Len(text) /\ Len(text) \in Nat
      /\ new.got = st.got
  BY FinishKeeps, BoundsAssumption DEF Open, Good, Shape, States
<1> SUFFICES ASSUME NEW n \in st.got .. Len(text) PROVE Masks(new, n)
  BY <1>1 DEF OpenSettled
<1>2. Masks(st, n)
  BY DEF OpenSettled
<1>3. CASE ev.finish
  <2>1. n = st.got
    BY <1>1, <1>3
  <2>2. Masks(flushed, n)
    BY <1>2, <2>1, ReleaseMasks
  <2>3. Open(flushed) /\ flushed.got = st.got /\ flushed.sent = st.got
    BY ReleaseFacts
  <2>4. flushed \in States /\ flushed.over = "no" /\ Shape(flushed)
    BY <2>3 DEF Open, Good, Shape
  <2>. PICK yes \in BOOLEAN : yes = TRUE
    OBVIOUS
  <2>5. new = Marker(flushed, "finish", 0, 0, "no", yes)
    BY <1>3, <2>4, Emitted DEF ProcessFinish
  <2> HIDE DEF flushed, new
  <2>6. Fits(flushed, "finish", "no", yes)
    BY <1>3, <2>3 DEF Fits, FrameKinds, RawKinds
  <2>7. 0 \in Nat
    OBVIOUS
  <2>8. Masks(Marker(flushed, "finish", 0, 0, "no", yes), n)
    BY <2>2, <2>4, <2>6, <2>7, MarkerMasks, Zenon
  <2> QED
    BY <2>5, <2>8
<1>4. CASE ~ ev.finish /\ ev.content
  BY <1>2, <1>4 DEF ProcessFinish
<1>5. CASE ~ ev.finish /\ ~ ev.content
  <2>1. /\ Shape(st) /\ st.over = "no" /\ st.finished \in BOOLEAN
        /\ st.finished => st.got = Len(text) /\ st.sent = st.got
    BY DEF Open, Good, Shape, States, Marked
  <2>2. new = Marker(st, "other", 0, 0, "no", st.finished)
    <3>1. Emit(st, Frame("other", 0, 0)) = Marker(st, "other", 0, 0, st.over, st.finished)
      BY <1>1, Emitted, Zenon
    <3>2. new = Emit(st, Frame("other", 0, 0))
      BY <1>5 DEF ProcessFinish
    <3> QED
      BY <2>1, <3>1, <3>2, Zenon
  <2> HIDE DEF new
  <2>3. Fits(st, "other", "no", st.finished)
    BY <2>1 DEF Fits, FrameKinds, RawKinds
  <2> QED
    BY <1>2, <2>1, <2>2, <2>3, MarkerMasks
<1> QED
  BY <1>3, <1>4, <1>5

\* The end of a stream after its text was flushed: only what was received counts.
LEMMA EndSettles ==
  ASSUME text \in Texts, policies \in PolicySets, NEW st, Open(st),
         Masks(st, st.got), NEW ends \in {"done", "error"},
         ends = "done" => st.sent = st.got
  PROVE  LET new == [Emit(st, Frame(ends, 0, 0)) EXCEPT !.over = ends]
         IN Settled(new) /\ new \in States
<1> DEFINE new == [Emit(st, Frame(ends, 0, 0)) EXCEPT !.over = ends]
<1>1. /\ st \in States /\ Shape(st) /\ st.finished \in BOOLEAN
      /\ st.finished => st.got = Len(text) /\ st.sent = st.got
  BY DEF Open, Good, Shape, States, Marked
<1>2. new = Marker(st, ends, 0, 0, ends, st.finished)
  BY <1>1 DEF States, Emit, Marker
<1>3. new.got = st.got /\ new.over = ends
  BY <1>1 DEF States, Emit
<1> HIDE DEF new
<1>4. Fits(st, ends, ends, st.finished)
  BY <1>1 DEF Fits, FrameKinds, RawKinds
<1>5. Masks(new, st.got)
  BY <1>1, <1>2, <1>4, MarkerMasks
<1>6. new \in States
  BY <1>1, <1>2, <1>4, MoreMarker DEF Good, Shape
<1> QED
  BY <1>3, <1>5, <1>6 DEF Settled, new

LEMMA EventSettles ==
  ASSUME text \in Texts, policies \in PolicySets, NEW st, Good(st), Bounded(st),
         Settled(st), NEW ev \in Events, Follows(st, ev)
  PROVE  Settled(ProcessEvent(st, ev))
<1>1. Open(st) /\ OpenSettled(st)
  BY DEF Open, Follows, Settled, OpenSettled
<1>2. CASE ev.done
  <2> DEFINE flushed == Release(st, TRUE)
  <2>1. Open(flushed) /\ flushed.got = st.got /\ flushed.sent = st.got
    BY <1>1, ReleaseFacts
  <2>2. st.got \in st.got .. Len(text)
    BY BoundsAssumption DEF Good, Shape, States
  <2>3. Masks(flushed, flushed.got)
    BY <1>1, <2>1, <2>2, ReleaseMasks DEF OpenSettled
  <2> HIDE DEF flushed
  <2>4. Settled([Emit(flushed, Frame("done", 0, 0)) EXCEPT !.over = "done"])
    BY <2>1, <2>3, EndSettles
  <2> QED
    BY <1>2, <2>4 DEF ProcessEvent, ProcessDone, EndStream, flushed
<1>3. CASE ~ ev.done
  <2> DEFINE mid == ProcessText(st, ev)
             new == ProcessFinish(mid, ev)
  <2>1. Open(mid) /\ Bounded(mid) /\ mid.got = st.got + ev.n /\ OpenSettled(mid)
    BY <1>1, TextKeeps, TextSettles
  <2>2. ev.finish => mid.got = Len(text)
    BY <2>1 DEF Follows
  <2> HIDE DEF mid
  <2>3. OpenSettled(new) /\ new.over = "no" /\ new.got = mid.got
    BY <2>1, <2>2, FinishKeeps, FinishSettles
  <2> QED
    BY <1>3, <2>3 DEF ProcessEvent, mid, OpenSettled, Settled
<1> QED
  BY <1>2, <1>3

\* The invariant of the masking.
MaskInv == IInv /\ Settled(Current)

LEMMA SettledBecomes ==
  ASSUME NEW st \in States, Settled(st), Become(st)
  PROVE  Settled(Current)'
  BY Becomes DEF Settled, Masks, KindAt

LEMMA StepMasks == MaskInv /\ [Next]_vars => MaskInv'
<1> SUFFICES ASSUME MaskInv, [Next]_vars PROVE Settled(Current)'
  BY StepGood DEF MaskInv
<1>1. /\ text \in Texts /\ policies \in PolicySets /\ Good(Current) /\ Bounded(Current)
      /\ Settled(Current) /\ Current \in States /\ Current.got = got /\ Current.over = over
  BY DEF MaskInv, IInv, Good, Shape, Current
<1>2. ASSUME NEW ev \in Events, Poll(ev) PROVE Settled(Current)'
  <2>1. Follows(Current, ev) /\ Become(ProcessEvent(Current, ev))
    BY <1>2 DEF Poll
  <2>2. Settled(ProcessEvent(Current, ev)) /\ ProcessEvent(Current, ev) \in States
    BY <1>1, <2>1, EventKeeps, EventSettles DEF Good, Shape
  <2> QED
    BY <2>1, <2>2, SettledBecomes
<1>3. ASSUME NEW ev1 \in Events, NEW ev2 \in Events, PollTwo(ev1, ev2)
      PROVE  Settled(Current)'
  <2> DEFINE between == ProcessEvent(Current, ev1)
             after == ProcessEvent(between, ev2)
  <2>1. Follows(Current, ev1) /\ Follows(between, ev2) /\ Become(after)
    BY <1>3 DEF PollTwo
  <2>2. Good(between) /\ Bounded(between) /\ Settled(between)
    BY <1>1, <2>1, EventKeeps, EventSettles
  <2> HIDE DEF between
  <2>3. Settled(after) /\ after \in States
    BY <1>1, <2>1, <2>2, EventKeeps, EventSettles DEF Good, Shape
  <2> HIDE DEF after
  <2> QED
    BY <2>1, <2>3, SettledBecomes
<1>4. ASSUME over = "no"
      PROVE  LET flushed == Release(Current, TRUE)
             IN /\ Open(flushed) /\ flushed.got = got /\ flushed.sent = got
                /\ Masks(flushed, got)
  <2>1. Open(Current) /\ got \in got .. Len(text)
    BY <1>1, <1>4, BoundsAssumption DEF Open, Good, Shape, States
  <2>2. Masks(Current, got)
    BY <1>1, <1>4, <2>1 DEF Settled
  <2> QED
    BY <1>1, <2>1, <2>2, ReleaseFacts, ReleaseMasks
<1>5. ASSUME NEW st, Open(st), st.got = got, st.sent = got, Masks(st, got),
             Become(EndStream(st))
      PROVE  Settled(Current)'
  <2>1. Settled(EndStream(st)) /\ EndStream(st) \in States
    BY <1>1, <1>5, EndSettles DEF EndStream
  <2> QED
    BY <1>5, <2>1, SettledBecomes
<1>6. ASSUME PollEnd PROVE Settled(Current)'
  <2>1. over = "no" /\ Become(EndStream(Release(Current, TRUE)))
    BY <1>6 DEF PollEnd
  <2> QED
    BY <1>4, <1>5, <2>1
<1>7. ASSUME NEW ev \in Events, PollEndWithin(ev) PROVE Settled(Current)'
  <2> DEFINE flushed == Release(Current, TRUE)
             tail == PassOn(flushed, ev)
  <2>1. over = "no" /\ Become(EndStream(tail))
    BY <1>1, <1>7 DEF PollEndWithin, Follows
  <2>2. Open(flushed) /\ flushed.got = got /\ flushed.sent = got /\ Masks(flushed, got)
    BY <1>4, <2>1
  <2> HIDE DEF flushed
  <2>3. /\ Open(tail) /\ tail.got = got /\ tail.sent = got
        /\ flushed.got + ev.n \in Nat /\ flushed.got \in Nat
        /\ tail = Marker(flushed, RawKind(ev), flushed.got, flushed.got + ev.n, "no",
                        flushed.finished)
        /\ Fits(flushed, RawKind(ev), "no", flushed.finished)
    BY <1>1, <2>2, PassOnKeeps
  <2>4. Masks(tail, got)
    <3>1. Shape(flushed)
      BY <2>2 DEF Open, Good
    <3> QED
      BY <1>1, <2>2, <2>3, <3>1, MarkerMasks
  <2> HIDE DEF tail
  <2> QED
    BY <1>5, <2>1, <2>3, <2>4
<1>8. ASSUME PollError PROVE Settled(Current)'
  <2> DEFINE last == [Emit(Current, Frame("error", 0, 0)) EXCEPT !.over = "error"]
  <2>1. over = "no" /\ Become(last)
    BY <1>8 DEF PollError
  <2>2. Open(Current) /\ Masks(Current, Current.got)
    <3>1. got \in got .. Len(text)
      BY <1>1, BoundsAssumption DEF Good, Shape, States
    <3> QED
      BY <1>1, <2>1, <3>1 DEF Open, Settled
  <2>3. Settled(last) /\ last \in States
    BY <1>1, <2>2, EndSettles
  <2> HIDE DEF last
  <2> QED
    BY <2>1, <2>3, SettledBecomes
<1>9. CASE UNCHANGED vars
  BY <1>1, <1>9 DEF vars, Settled, Masks, KindAt, Current
<1> QED
  BY <1>2, <1>3, <1>6, <1>7, <1>8, <1>9 DEF Next, MaskInv

LEMMA InitMasks == Init => Settled(Current)
<1> SUFFICES ASSUME Init PROVE Settled(Current)
  OBVIOUS
<1>1. /\ Current.got = 0 /\ Current.sent = 0 /\ Current.out = <<>>
      /\ text \in Texts /\ policies \in PolicySets
  BY DEF Init, Current
<1>2. KindAt(Current, "text") = {}
  BY <1>1 DEF KindAt
<1>3. ASSUME NEW n \in 0 .. Len(text), NEW f \in Findings(text, policies, 0, n)
      PROVE  ~ (f.start < 0)
  BY <1>1, <1>3, PrefixSpans
<1> QED
  BY <1>1, <1>2, <1>3 DEF Settled, Masks

LEMMA InitSettled == Init => MaskInv
  BY InitGood, InitMasks DEF MaskInv

\* The characters a client has as they are, by the frames.
ShownOf(st) == UNION {InFrame(st.out[i]) \ Hidden(st.out[i]) : i \in KindAt(st, "text")}

LEMMA SettledShows ==
  ASSUME text \in Texts, NEW st, Good(st), Settled(st),
         NEW f \in Findings(text, policies, 0, st.got)
  PROVE  Positions(f) \cap ShownOf(st) = {}
<1>1. st.got \in st.got .. Len(text)
  BY BoundsAssumption DEF Good, Shape, States
<1>2. Masks(st, st.got)
  BY <1>1 DEF Settled
<1>3. \A i \in KindAt(st, "text") :
        InFrame(st.out[i]) \cap Positions(f) \subseteq Hidden(st.out[i])
  BY <1>2 DEF Masks
<1> QED
  BY <1>3 DEF ShownOf

LEMMA CurrentShown ==
  /\ Shown = ShownOf(Current)
  /\ Current.got = got /\ Current.sent = sent /\ Current.finished = finished
  /\ Current.out = frames /\ Current.over = over
  BY DEF Shown, ShownOf, TextAt, KindAt, Current

LEMMA NothingShows == MaskInv => NoMatchShown
<1> SUFFICES ASSUME MaskInv, NEW f \in Findings(text, policies, 0, got)
             PROVE  Positions(f) \cap Shown = {}
  BY DEF NoMatchShown
<1> QED
  BY SettledShows, CurrentShown DEF MaskInv, IInv

\* stream_dlp.rs:184-223: however the reply is cut into events and chunks, no
\* character of a match of a redact policy in the text received so far has been
\* shown, for detectors as the comment at HOLDBACK has them (lines 18-20).
THEOREM NoMatchIsShown == Spec => []NoMatchShown
<1> QED
  BY InitSettled, StepMasks, NothingShows, PTL DEF Spec

-----------------------------------------------------------------------------
(* The stream keeps the promise of MaskedStream. What a poll did to the    *)
(* frames is to add some, so what the client had stays as it was.          *)

Grows(st, new) ==
  /\ st.got <= new.got /\ st.sent <= new.sent
  /\ st.finished => new.finished
  /\ Len(st.out) <= Len(new.out)
  /\ \A i \in 1 .. Len(st.out) : new.out[i] = st.out[i]

LEMMA StateFacts ==
  ASSUME NEW st \in States
  PROVE  /\ st.got \in Nat /\ st.sent \in Nat /\ st.finished \in BOOLEAN
         /\ st.out \in Seq(StreamFrames) /\ Len(st.out) \in Nat
         /\ DOMAIN st.out = 1 .. Len(st.out)
         /\ \A i \in DOMAIN st.out : st.out[i].from \in Nat /\ st.out[i].to \in Nat
<1>1. /\ st.got \in Nat /\ st.sent \in Nat /\ st.finished \in BOOLEAN
      /\ st.out \in Seq(StreamFrames)
  BY DEF States
<1>2. /\ Len(st.out) \in Nat /\ DOMAIN st.out = 1 .. Len(st.out)
      /\ \A i \in DOMAIN st.out : st.out[i] \in StreamFrames
  BY <1>1
<1>3. \A fr \in StreamFrames : fr.from \in Nat /\ fr.to \in Nat
  BY DEF StreamFrames
<1> QED
  BY <1>1, <1>2, <1>3

LEMMA GrowsOn ==
  ASSUME NEW a \in States, NEW b \in States, NEW c \in States, Grows(a, b), Grows(b, c)
  PROVE  Grows(a, c)
<1>1. /\ a.got \in Nat /\ b.got \in Nat /\ c.got \in Nat
      /\ a.sent \in Nat /\ b.sent \in Nat /\ c.sent \in Nat
      /\ Len(a.out) \in Nat /\ Len(b.out) \in Nat /\ Len(c.out) \in Nat
  BY StateFacts
<1>2. \A i \in 1 .. Len(a.out) : i \in 1 .. Len(b.out)
  BY <1>1 DEF Grows
<1>3. /\ a.got <= c.got /\ a.sent <= c.sent /\ Len(a.out) <= Len(c.out)
      /\ a.finished => c.finished
  BY <1>1 DEF Grows
<1>4. \A i \in 1 .. Len(a.out) : c.out[i] = a.out[i]
  BY <1>2 DEF Grows
<1> QED
  BY <1>3, <1>4 DEF Grows

LEMMA ReleaseGrows ==
  ASSUME text \in Texts, policies \in PolicySets, NEW st, Open(st),
         NEW flush \in BOOLEAN
  PROVE  Grows(st, Release(st, flush))
<1> DEFINE spans == Findings(text, policies, st.sent, st.got)
           cut == Cut(st, flush, spans)
           settled == {f \in spans : f.end <= cut}
           fr == TextFrame(st.sent, cut, settled)
           new == Release(st, flush)
<1>1. /\ Shape(st) /\ st \in States /\ st.got \in Nat /\ st.sent \in Nat
      /\ st.out \in Seq(StreamFrames) /\ Len(st.out) \in Nat
  BY StateFacts DEF Open, Good, Shape
<1>2. cut \in st.sent .. st.got
  BY <1>1, CutFacts
<1>3. settled \in SUBSET Spans
  BY <1>1, PendingSpans
<1>4. new = IF cut = st.sent THEN st
            ELSE [st EXCEPT !.sent = cut, !.out = Append(@, fr)]
  BY DEF Release
<1> HIDE DEF spans, cut, settled, new
<1>5. CASE cut = st.sent
  BY <1>1, <1>4, <1>5 DEF Grows, new
<1>6. CASE cut # st.sent
  <2>1. fr \in StreamFrames
    BY <1>1, <1>2, <1>3, TextFrameFacts
  <2> HIDE DEF fr
  <2>2. /\ new.out = Append(st.out, fr) /\ new.sent = cut /\ new.got = st.got
        /\ new.finished = st.finished
    BY <1>1, <1>4, <1>6 DEF States
  <2>3. /\ Len(new.out) = Len(st.out) + 1
        /\ \A i \in 1 .. Len(st.out) : new.out[i] = st.out[i]
    BY <1>1, <2>1, <2>2, Appended
  <2>4. Grows(st, new)
    BY <1>1, <1>2, <2>2, <2>3 DEF Grows
  <2> QED
    BY <2>4 DEF new
<1> QED
  BY <1>5, <1>6

LEMMA MarkerGrows ==
  ASSUME NEW st, Open(st), NEW kind, NEW from \in Nat, NEW to \in Nat, NEW ends,
         NEW finishes, Fits(st, kind, ends, finishes)
  PROVE  Grows(st, Marker(st, kind, from, to, ends, finishes))
<1> DEFINE fr == Frame(kind, from, to)
           new == Marker(st, kind, from, to, ends, finishes)
<1>1. /\ st \in States /\ st.got \in Nat /\ st.sent \in Nat
      /\ st.out \in Seq(StreamFrames) /\ Len(st.out) \in Nat
  BY StateFacts DEF Open, Good, Shape
<1>2. fr \in StreamFrames
  BY DEF Fits, Frame, StreamFrames, FrameKinds, RawKinds
<1> HIDE DEF fr
<1>3. /\ new.out = Append(st.out, fr) /\ new.sent = st.sent /\ new.got = st.got
      /\ new.finished = finishes
  BY <1>1 DEF Marker, States, fr
<1> HIDE DEF new
<1>4. /\ Len(new.out) = Len(st.out) + 1
      /\ \A i \in 1 .. Len(st.out) : new.out[i] = st.out[i]
  BY <1>1, <1>2, <1>3, Appended
<1>5. Grows(st, new)
  BY <1>1, <1>3, <1>4 DEF Grows, Fits
<1> QED
  BY <1>5 DEF new

LEMMA OpenFacts ==
  ASSUME NEW st, Open(st)
  PROVE  /\ st \in States /\ Shape(st) /\ st.over = "no" /\ st.finished \in BOOLEAN
         /\ st.finished => st.got = Len(text) /\ st.sent = st.got
  BY DEF Open, Good, Shape, States, Marked

LEMMA TextGrows ==
  ASSUME text \in Texts, policies \in PolicySets, NEW st, Open(st), Bounded(st),
         NEW ev \in Events, Follows(st, ev)
  PROVE  Grows(st, ProcessText(st, ev))
<1> DEFINE more == [st EXCEPT !.got = @ + ev.n]
<1>1. /\ st \in States /\ st.got \in Nat /\ st.sent \in Nat /\ Len(st.out) \in Nat
      /\ ev.n \in Nat /\ Open(ProcessText(st, ev))
  BY OpenFacts, StateFacts, EventFacts, TextKeeps
<1>2. CASE ev.content
  <2>1. /\ Open(more) /\ more.got = st.got + ev.n /\ more.sent = st.sent
        /\ more.out = st.out /\ more.finished = st.finished
    BY Received
  <2>2. ProcessText(st, ev) = Release(more, FALSE)
    BY <1>2 DEF ProcessText
  <2> HIDE DEF more
  <2>3. Grows(st, more)
    BY <1>1, <2>1 DEF Grows
  <2>4. Grows(more, Release(more, FALSE)) /\ more \in States
    BY <2>1, ReleaseGrows, OpenFacts
  <2> QED
    BY <1>1, <2>2, <2>3, <2>4, GrowsOn, OpenFacts
<1>3. CASE ~ ev.content
  <2>1. ProcessText(st, ev) = st
    BY <1>3 DEF ProcessText
  <2> QED
    BY <1>1, <2>1 DEF Grows
<1> QED
  BY <1>2, <1>3

LEMMA FinishGrows ==
  ASSUME text \in Texts, policies \in PolicySets, NEW st, Open(st), Bounded(st),
         NEW ev \in Events, ev.finish => st.got = Len(text)
  PROVE  Grows(st, ProcessFinish(st, ev))
<1> DEFINE flushed == Release(st, TRUE)
           new == ProcessFinish(st, ev)
<1>1. /\ st \in States /\ st.got \in Nat /\ st.sent \in Nat /\ Len(st.out) \in Nat
      /\ new \in States
  BY OpenFacts, StateFacts, FinishKeeps DEF Good, Shape
<1>2. CASE ev.finish
  <2>1. Open(flushed) /\ flushed.got = st.got /\ flushed.sent = st.got /\ Grows(st, flushed)
    BY ReleaseFacts, ReleaseGrows
  <2>2. flushed \in States /\ flushed.over = "no"
    BY <2>1, OpenFacts
  <2>3. PICK yes \in BOOLEAN : yes = TRUE
    OBVIOUS
  <2>4. new = Marker(flushed, "finish", 0, 0, "no", yes)
    BY <1>2, <2>2, <2>3, Emitted DEF ProcessFinish
  <2> HIDE DEF flushed, new
  <2>5. Fits(flushed, "finish", "no", yes)
    BY <1>2, <2>1, <2>3 DEF Fits, FrameKinds, RawKinds
  <2>6. 0 \in Nat
    OBVIOUS
  <2>7. Grows(flushed, Marker(flushed, "finish", 0, 0, "no", yes))
    BY <2>1, <2>5, <2>6, MarkerGrows, Zenon
  <2>8. Grows(st, new)
    BY <1>1, <2>1, <2>2, <2>4, <2>7, GrowsOn
  <2> QED
    BY <2>8 DEF new
<1>3. CASE ~ ev.finish /\ ev.content
  <2>1. new = st
    BY <1>3 DEF ProcessFinish
  <2> QED
    BY <1>1, <2>1 DEF Grows
<1>4. CASE ~ ev.finish /\ ~ ev.content
  <2>1. /\ st.over = "no" /\ st.finished \in BOOLEAN
        /\ st.finished => st.got = Len(text) /\ st.sent = st.got
    BY OpenFacts
  <2>2. new = Marker(st, "other", 0, 0, "no", st.finished)
    <3>1. Emit(st, Frame("other", 0, 0)) = Marker(st, "other", 0, 0, st.over, st.finished)
      BY <1>1, Emitted, Zenon
    <3>2. new = Emit(st, Frame("other", 0, 0))
      BY <1>4 DEF ProcessFinish
    <3> QED
      BY <2>1, <3>1, <3>2, Zenon
  <2> HIDE DEF new
  <2>3. Fits(st, "other", "no", st.finished)
    BY <2>1 DEF Fits, FrameKinds, RawKinds
  <2>4. 0 \in Nat
    OBVIOUS
  <2>5. Grows(st, Marker(st, "other", 0, 0, "no", st.finished))
    BY <2>3, <2>4, MarkerGrows, Zenon
  <2> QED
    BY <2>2, <2>5 DEF new
<1> QED
  BY <1>2, <1>3, <1>4

\* The end of a stream, after its text was flushed.
LEMMA EndGrows ==
  ASSUME NEW st, Open(st), NEW ends \in {"done", "error"}
  PROVE  Grows(st, [Emit(st, Frame(ends, 0, 0)) EXCEPT !.over = ends])
<1> DEFINE new == [Emit(st, Frame(ends, 0, 0)) EXCEPT !.over = ends]
<1>1. /\ st \in States /\ st.finished \in BOOLEAN /\ st.over = "no"
      /\ st.finished => st.got = Len(text) /\ st.sent = st.got
  BY OpenFacts
<1>2. new = Marker(st, ends, 0, 0, ends, st.finished)
  BY <1>1 DEF States, Emit, Marker
<1> HIDE DEF new
<1>3. Fits(st, ends, ends, st.finished)
  BY <1>1 DEF Fits, FrameKinds, RawKinds
<1>4. 0 \in Nat
  OBVIOUS
<1>5. Grows(st, Marker(st, ends, 0, 0, ends, st.finished))
  BY <1>3, <1>4, MarkerGrows, Zenon
<1> QED
  BY <1>2, <1>5 DEF new

LEMMA EventGrows ==
  ASSUME text \in Texts, policies \in PolicySets, NEW st, Good(st), Bounded(st),
         NEW ev \in Events, Follows(st, ev)
  PROVE  Grows(st, ProcessEvent(st, ev)) /\ ProcessEvent(st, ev).over \in {"no", "done"}
<1>1. Open(st) /\ st \in States
  BY OpenFacts DEF Open, Follows
<1>2. Good(ProcessEvent(st, ev)) /\ ProcessEvent(st, ev) \in States
  BY EventKeeps DEF Good, Shape
<1>3. CASE ev.done
  <2> DEFINE flushed == Release(st, TRUE)
             new == ProcessEvent(st, ev)
  <2>1. Open(flushed) /\ Grows(st, flushed) /\ flushed \in States
    BY <1>1, ReleaseFacts, ReleaseGrows, OpenFacts
  <2>2. new = [Emit(flushed, Frame("done", 0, 0)) EXCEPT !.over = "done"] /\ new = ProcessDone(st)
    BY <1>3 DEF ProcessEvent, ProcessDone, EndStream
  <2>3. new.over = "done"
    BY <1>1, <2>2, DoneKeeps
  <2> HIDE DEF flushed
  <2>4. Grows(flushed, new)
    BY <2>1, <2>2, EndGrows
  <2> HIDE DEF new
  <2>5. Grows(st, new)
    BY <1>1, <1>2, <2>1, <2>4, GrowsOn DEF new
  <2> QED
    BY <2>3, <2>5 DEF new
<1>4. CASE ~ ev.done
  <2> DEFINE mid == ProcessText(st, ev)
             new == ProcessFinish(mid, ev)
  <2>1. Open(mid) /\ Bounded(mid) /\ mid.got = st.got + ev.n /\ Grows(st, mid)
    BY <1>1, TextKeeps, TextGrows
  <2>2. ev.finish => mid.got = Len(text)
    BY <2>1 DEF Follows
  <2> HIDE DEF mid
  <2>3. new.over = "no" /\ new \in States /\ Grows(mid, new) /\ mid \in States
    BY <2>1, <2>2, FinishKeeps, FinishGrows, OpenFacts DEF Good, Shape
  <2>4. new = ProcessEvent(st, ev)
    BY <1>4 DEF ProcessEvent, mid
  <2> HIDE DEF new
  <2>5. Grows(st, new)
    BY <1>1, <2>1, <2>3, GrowsOn
  <2> QED
    BY <2>3, <2>4, <2>5
<1> QED
  BY <1>3, <1>4

LEMMA DoneIsState ==
  ASSUME text \in Texts, NEW st, Open(st), st.sent = st.got
  PROVE  [Emit(st, Frame("done", 0, 0)) EXCEPT !.over = "done"] \in States
<1> DEFINE new == [Emit(st, Frame("done", 0, 0)) EXCEPT !.over = "done"]
<1>1. /\ st \in States /\ st.over = "no" /\ st.finished \in BOOLEAN
      /\ st.finished => st.got = Len(text) /\ st.sent = st.got
  BY OpenFacts
<1>2. new = Marker(st, "done", 0, 0, "done", st.finished)
  BY <1>1 DEF States, Emit, Marker
<1> HIDE DEF new
<1>3. Fits(st, "done", "done", st.finished)
  BY <1>1 DEF Fits, FrameKinds, RawKinds
<1>4. Good(new)
  BY <1>2, <1>3, MoreMarker
<1> QED
  BY <1>4 DEF Good, Shape, new

\* What was given stays as it was: a character is in one text frame.
LEMMA ShownStays ==
  ASSUME NEW st, Good(st), NEW new, Good(new), Grows(st, new), NEW x \in 0 .. st.sent - 1
  PROVE  x \in ShownOf(st) <=> x \in ShownOf(new)
<1>1. /\ st \in States /\ new \in States /\ Laid(st) /\ Laid(new)
  BY DEF Good, Shape
<1>2. /\ DOMAIN st.out = 1 .. Len(st.out) /\ DOMAIN new.out = 1 .. Len(new.out)
      /\ Len(st.out) \in Nat /\ Len(new.out) \in Nat
      /\ \A i \in DOMAIN new.out : new.out[i].from \in Nat /\ new.out[i].to \in Nat
  BY <1>1, StateFacts
<1>3. \A i \in KindAt(st, "text") : i \in KindAt(new, "text") /\ new.out[i] = st.out[i]
  BY <1>2 DEF Grows, KindAt
<1>4. PICK i \in KindAt(st, "text") : x \in InFrame(st.out[i])
  BY <1>1 DEF Laid
<1>5. i \in KindAt(new, "text") /\ new.out[i] = st.out[i]
  BY <1>3, <1>4
<1>6. ASSUME NEW j \in KindAt(new, "text"), x \in InFrame(new.out[j]) PROVE j = i
  <2>1. /\ new.out[i].from <= x /\ x < new.out[i].to
        /\ new.out[j].from <= x /\ x < new.out[j].to
    <3>1. /\ i \in DOMAIN new.out /\ j \in DOMAIN new.out
      BY <1>5, <1>6 DEF KindAt
    <3> QED
      BY <1>2, <1>4, <1>5, <1>6, <3>1 DEF InFrame
  <2>2. i < j => new.out[i].to <= new.out[j].from
    BY <1>1, <1>5, <1>6 DEF Laid
  <2>3. j < i => new.out[j].to <= new.out[i].from
    BY <1>1, <1>5, <1>6 DEF Laid
  <2>4. /\ i \in Nat /\ j \in Nat /\ new.out[i].from \in Nat /\ new.out[i].to \in Nat
        /\ new.out[j].from \in Nat /\ new.out[j].to \in Nat /\ x \in Nat
    BY <1>2, <1>5, <1>6, <1>1, StateFacts DEF KindAt
  <2> QED
    BY <2>1, <2>2, <2>3, <2>4
<1>7. x \in ShownOf(new) <=> x \notin Hidden(new.out[i])
  BY <1>4, <1>5, <1>6 DEF ShownOf
<1>8. x \in ShownOf(st) <=> x \notin Hidden(st.out[i])
  BY <1>3, <1>4, <1>5, <1>6 DEF ShownOf
<1> QED
  BY <1>5, <1>7, <1>8
\* A step that adds frames is a step of the promise, or shows the client nothing new.
LEMMA GrowingKeepsPromise ==
  ASSUME MaskInv, over = "no",
         NEW st, Good(st), Bounded(st), Settled(st), Become(st), Grows(Current, st),
         st.over \in {"no", "done"}
           \/ (st.over = "error" /\ st.got = got /\ st.sent = sent /\ st.finished = finished)
  PROVE  Promise!Next \/ UNCHANGED Promise!vars
<1>1. /\ Good(Current) /\ Bounded(Current) /\ Current \in States /\ st \in States
      /\ text \in Texts /\ policies \in PolicySets
  BY DEF MaskInv, IInv, Good, Shape
<1>2. /\ got' = st.got /\ sent' = st.sent /\ finished' = st.finished /\ over' = st.over
      /\ text' = text /\ policies' = policies /\ Shown' = ShownOf(st)
  BY DEF Become, Shown, ShownOf, TextAt, KindAt
<1>3. /\ got \in Nat /\ sent \in Nat /\ got' \in Nat /\ sent' \in Nat
      /\ got <= got' /\ sent <= sent' /\ sent' <= got' /\ got' <= Len(text)
      /\ finished \in BOOLEAN /\ finished' \in BOOLEAN /\ finished => finished'
      /\ finished => got = Len(text) /\ sent = got
      /\ finished' => got' = Len(text) /\ sent' = got'
      /\ over' = "done" => sent' = got'
      /\ Len(text) \in Nat
  <2>1. /\ Current.got \in Nat /\ Current.sent \in Nat /\ Current.finished \in BOOLEAN
        /\ st.got \in Nat /\ st.sent \in Nat /\ st.finished \in BOOLEAN
    BY <1>1, StateFacts
  <2>2. /\ Current.finished => Current.got = Len(text) /\ Current.sent = Current.got
        /\ st.finished => st.got = Len(text) /\ st.sent = st.got
        /\ st.sent <= st.got /\ st.got <= Len(text)
        /\ st.over = "done" => st.sent = st.got
    BY <1>1 DEF Good, Shape, Marked, Bounded
  <2> QED
    BY <1>1, <1>2, <2>1, <2>2, CurrentShown, BoundsAssumption DEF Grows
<1>4. /\ View = [x \in 1 .. sent |-> IF x - 1 \in Shown THEN "plain" ELSE "masked"]
      /\ View' = [x \in 1 .. sent' |-> IF x - 1 \in Shown' THEN "plain" ELSE "masked"]
  BY DEF View
<1>5. Len(View) = sent /\ Len(View') = sent'
  BY <1>3, <1>4
<1>6. \A x \in 0 .. sent - 1 : x \in Shown <=> x \in Shown'
  BY <1>1, <1>2, CurrentShown, ShownStays
<1>7. \A i \in 1 .. sent : View'[i] = View[i]
  <2> SUFFICES ASSUME NEW i \in 1 .. sent PROVE View'[i] = View[i]
    OBVIOUS
  <2>1. i - 1 \in 0 .. sent - 1 /\ i \in 1 .. sent'
    BY <1>3
  <2> QED
    BY <1>4, <1>6, <2>1
<1>8. \A i \in 1 .. sent' :
        i - 1 \in Secrets(<<text, policies>>, got') => View'[i] = "masked"
  <2> SUFFICES ASSUME NEW i \in 1 .. sent', i - 1 \in Secrets(<<text, policies>>, got')
               PROVE  View'[i] = "masked"
    OBVIOUS
  <2>1. PICK f \in Findings(text, policies, 0, got') :
          f.action = "redact" /\ i - 1 \in Positions(f)
    BY DEF Secrets
  <2>2. Positions(f) \cap ShownOf(st) = {}
    BY <1>1, <1>2, <2>1, SettledShows
  <2>3. i - 1 \notin Shown'
    BY <1>2, <2>1, <2>2
  <2> QED
    BY <1>4, <2>3
<1>9. <<text, policies>>' = <<text, policies>> /\ ReplySize(<<text, policies>>) = Len(text)
  BY <1>2 DEF ReplySize
<1>10. ASSUME over' \in {"no", "done"} PROVE Promise!Give
  <2>1. got' \in got .. Len(text)
    BY <1>3
  <2> QED
    BY <1>3, <1>5, <1>7, <1>8, <1>9, <2>1 DEF Promise!Give
<1>11. CASE over' = "error"
  <2>1. Phase \in {"open", "finished"} /\ Phase' = "failed"
    BY <1>11 DEF Phase
  <2>2. got' = got /\ sent' = sent /\ over # "error"
    BY <1>2, <1>11
  <2>3. View' = View
    BY <1>3, <1>4, <1>7, <2>2
  <2> QED
    BY <1>9, <2>1, <2>2, <2>3 DEF Promise!Fail, Promise!Next
<1>12. CASE over' = "done"
  <2>1. Phase \in {"open", "finished"} /\ Phase' = "done"
    BY <1>12 DEF Phase
  <2> QED
    BY <1>3, <1>5, <1>10, <1>12, <2>1 DEF Promise!Close, Promise!Next
<1>13. CASE over' = "no" /\ finished
  <2>1. Phase' = Phase
    BY <1>3, <1>13 DEF Phase
  <2>2. got' = got /\ sent' = sent
    BY <1>3, <1>13
  <2>3. View' = View
    BY <1>4, <1>7, <2>2
  <2> QED
    BY <1>9, <2>1, <2>2, <2>3 DEF Promise!vars
<1>14. CASE over' = "no" /\ ~ finished /\ finished'
  <2>1. Phase = "open" /\ Phase' = "finished"
    BY <1>14 DEF Phase
  <2> QED
    BY <1>3, <1>5, <1>9, <1>10, <1>14, <2>1 DEF Promise!Finish, Promise!Next
<1>15. CASE over' = "no" /\ ~ finished /\ ~ finished'
  <2>1. Phase = "open" /\ Phase' = "open"
    BY <1>15 DEF Phase
  <2> QED
    BY <1>10, <1>15, <2>1 DEF Promise!Relay, Promise!Next
<1> QED
  BY <1>2, <1>3, <1>11, <1>12, <1>13, <1>14, <1>15

\* What the invariant says of the next state, of the record it comes from.
LEMMA BecameGood ==
  ASSUME MaskInv', NEW st \in States, Become(st)
  PROVE  Good(st) /\ Bounded(st) /\ Settled(st)
<1>1. Current' = st /\ text' = text /\ policies' = policies
  BY Becomes
<1>2. Good(Current)' /\ Bounded(Current)' /\ Settled(Current)'
  BY DEF MaskInv, IInv
<1>3. Shape(st)
  BY <1>1, <1>2 DEF Good, Shape
<1>4. Laid(st)
  BY <1>1, <1>2 DEF Good, Laid, KindAt
<1>5. Marked(st)
  BY <1>1, <1>2 DEF Good, Marked, KindAt
<1>6. Bounded(st)
  BY <1>1, <1>2 DEF Bounded
<1>7. Settled(st)
  BY <1>1, <1>2 DEF Settled, Masks, KindAt
<1> QED
  BY <1>3, <1>4, <1>5, <1>6, <1>7 DEF Good

LEMMA StepsKeepPromise ==
  ASSUME MaskInv, [Next]_vars
  PROVE  Promise!Next \/ UNCHANGED Promise!vars
<1>1. /\ text \in Texts /\ policies \in PolicySets /\ Good(Current) /\ Bounded(Current)
      /\ Settled(Current) /\ Current \in States
  BY DEF MaskInv, IInv, Good, Shape
<1>2. ASSUME NEW st \in States, Become(st), Grows(Current, st), over = "no",
             st.over \in {"no", "done"}
               \/ (st.over = "error" /\ st.got = got /\ st.sent = sent /\ st.finished = finished)
      PROVE  Promise!Next \/ UNCHANGED Promise!vars
  <2>1. MaskInv'
    BY StepMasks
  <2>2. Good(st) /\ Bounded(st) /\ Settled(st)
    BY <1>2, <2>1, BecameGood
  <2> QED
    BY <1>2, <2>2, GrowingKeepsPromise
<1>3. ASSUME NEW ev \in Events, Poll(ev) PROVE Promise!Next \/ UNCHANGED Promise!vars
  <2> DEFINE after == ProcessEvent(Current, ev)
  <2>1. Follows(Current, ev) /\ Become(after) /\ over = "no"
    BY <1>3, CurrentShown DEF Poll, Follows
  <2>2. Grows(Current, after) /\ after.over \in {"no", "done"} /\ after \in States
    BY <1>1, <2>1, EventGrows, EventKeeps DEF Good, Shape
  <2> HIDE DEF after
  <2> QED
    BY <1>2, <2>1, <2>2
<1>4. ASSUME NEW ev1 \in Events, NEW ev2 \in Events, PollTwo(ev1, ev2)
      PROVE  Promise!Next \/ UNCHANGED Promise!vars
  <2> DEFINE between == ProcessEvent(Current, ev1)
             after == ProcessEvent(between, ev2)
  <2>1. /\ Follows(Current, ev1) /\ Follows(between, ev2) /\ Become(after) /\ over = "no"
    BY <1>4, CurrentShown DEF PollTwo, Follows
  <2>2. /\ Good(between) /\ Bounded(between) /\ between \in States
        /\ Grows(Current, between)
    BY <1>1, <2>1, EventKeeps, EventGrows DEF Good, Shape
  <2> HIDE DEF between
  <2>3. /\ Grows(between, after) /\ after.over \in {"no", "done"} /\ after \in States
    BY <1>1, <2>1, <2>2, EventKeeps, EventGrows DEF Good, Shape
  <2> HIDE DEF after
  <2>4. Grows(Current, after)
    BY <1>1, <2>2, <2>3, GrowsOn
  <2> QED
    BY <1>2, <2>1, <2>3, <2>4
<1>5. ASSUME over = "no"
      PROVE  LET flushed == Release(Current, TRUE)
             IN /\ Open(flushed) /\ Grows(Current, flushed) /\ flushed.sent = flushed.got
                /\ flushed \in States
  <2>1. Open(Current)
    BY <1>1, <1>5, CurrentShown DEF Open
  <2> QED
    BY <1>1, <2>1, ReleaseFacts, ReleaseGrows, OpenFacts
<1>6. ASSUME NEW st \in States, Open(st), Grows(Current, st), st.sent = st.got,
             over = "no", Become(EndStream(st))
      PROVE  Promise!Next \/ UNCHANGED Promise!vars
  <2> DEFINE last == EndStream(st)
  <2>1. Grows(st, last)
    BY <1>6, EndGrows DEF EndStream
  <2>2. last.over = "done"
    BY <1>6 DEF EndStream, Emit, States
  <2>3. last \in States
    BY <1>1, <1>6, DoneIsState DEF EndStream
  <2>4. Become(last)
    BY <1>6
  <2> HIDE DEF last
  <2>5. Grows(Current, last)
    BY <1>1, <1>6, <2>1, <2>3, GrowsOn
  <2> QED
    BY <1>2, <1>6, <2>2, <2>3, <2>4, <2>5
<1>7. ASSUME PollEnd PROVE Promise!Next \/ UNCHANGED Promise!vars
  <2>1. over = "no" /\ Become(EndStream(Release(Current, TRUE)))
    BY <1>7 DEF PollEnd
  <2> QED
    BY <1>5, <1>6, <2>1
<1>8. ASSUME NEW ev \in Events, PollEndWithin(ev)
       PROVE  Promise!Next \/ UNCHANGED Promise!vars
  <2> DEFINE flushed == Release(Current, TRUE)
             tail == PassOn(flushed, ev)
  <2>1. over = "no" /\ Become(EndStream(tail))
    BY <1>8, CurrentShown DEF PollEndWithin, Follows
  <2>2. /\ Open(flushed) /\ Grows(Current, flushed) /\ flushed.sent = flushed.got
        /\ flushed \in States
    BY <1>5, <2>1
  <2> HIDE DEF flushed
  <2>3. /\ Open(tail) /\ tail.got = flushed.got /\ tail.sent = flushed.sent
        /\ flushed.got + ev.n \in Nat /\ flushed.got \in Nat
        /\ tail = Marker(flushed, RawKind(ev), flushed.got, flushed.got + ev.n, "no",
                        flushed.finished)
        /\ Fits(flushed, RawKind(ev), "no", flushed.finished)
    BY <1>1, <2>2, PassOnKeeps
  <2>4. Grows(flushed, tail)
    BY <2>2, <2>3, MarkerGrows
  <2> HIDE DEF tail
  <2>5. tail \in States /\ Grows(Current, tail)
    BY <1>1, <2>2, <2>3, <2>4, OpenFacts, GrowsOn
  <2> QED
    BY <1>6, <2>1, <2>2, <2>3, <2>5
<1>9. ASSUME PollError PROVE Promise!Next \/ UNCHANGED Promise!vars
  <2> DEFINE last == [Emit(Current, Frame("error", 0, 0)) EXCEPT !.over = "error"]
  <2>1. over = "no" /\ Become(last) /\ Open(Current)
    BY <1>1, <1>9, CurrentShown DEF PollError, Open
  <2>2. Grows(Current, last)
    BY <2>1, EndGrows
  <2>3. /\ last.over = "error" /\ last.got = got /\ last.sent = sent
        /\ last.finished = finished
    BY <1>1, CurrentShown DEF Emit, States
  <2>4. last \in States
    <3>1. Frame("error", 0, 0) \in StreamFrames
      BY DEF Frame, StreamFrames, FrameKinds, RawKinds
    <3>2. Append(Current.out, Frame("error", 0, 0)) \in Seq(StreamFrames)
      BY <1>1, <3>1, StateFacts, Appended
    <3> QED
      BY <1>1, <3>2 DEF States, Emit
  <2> HIDE DEF last
  <2> QED
    BY <1>2, <2>1, <2>2, <2>3, <2>4
<1>10. CASE UNCHANGED vars
  BY <1>10 DEF vars, Promise!vars, View, Phase, Shown, TextAt
<1> QED
  BY <1>3, <1>4, <1>7, <1>8, <1>9, <1>10 DEF Next

LEMMA InitPromised == Init => Promise!Init
<1> SUFFICES ASSUME Init PROVE Promise!Init
  OBVIOUS
<1>1. View = <<>> /\ Phase = "open" /\ got = 0 /\ <<text, policies>> \in Texts \X PolicySets
  BY DEF Init, View, Phase
<1> QED
  BY <1>1 DEF Promise!Init

\* stream_dlp.rs:1-12, 118-223: the stream is a MaskedStream, for any reply, policies,
\* events and window, and detectors as the comment at HOLDBACK has them.
THEOREM StreamKeepsPromise == Spec => MaskingPromised
<1>1. MaskInv /\ [Next]_vars => [Promise!Next]_(Promise!vars)
  BY StepsKeepPromise
<1> QED
  BY InitSettled, StepMasks, InitPromised, <1>1, PTL DEF Spec, MaskingPromised, Promise!Spec

-----------------------------------------------------------------------------
(* The markers, the raw frames at the end of a stream among them.          *)

\* Where raw frames may be: only before the [DONE] that ends a stream, with text
\* that was not received.
RawLast(st) ==
  \A i \in DOMAIN st.out : st.out[i].kind \in RawKinds =>
    /\ i + 1 = Len(st.out) /\ st.over = "done"
    /\ st.out[i].from = st.got /\ st.out[i].to <= Len(text)
NoRaw(st) == \A i \in DOMAIN st.out : st.out[i].kind \notin RawKinds

LEMMA OneMoreUnraw ==
  ASSUME NEW out \in Seq(StreamFrames), NEW fr \in StreamFrames, fr.kind \notin RawKinds,
         \A i \in DOMAIN out : out[i].kind \notin RawKinds
  PROVE  \A i \in DOMAIN Append(out, fr) : Append(out, fr)[i].kind \notin RawKinds
<1>1. /\ DOMAIN out = 1 .. Len(out) /\ DOMAIN Append(out, fr) = 1 .. Len(out) + 1
      /\ Append(out, fr)[Len(out) + 1] = fr /\ Len(out) \in Nat
      /\ \A i \in 1 .. Len(out) : Append(out, fr)[i] = out[i]
  BY Appended
<1> QED
  BY <1>1

LEMMA ReleaseUnraw ==
  ASSUME text \in Texts, policies \in PolicySets, NEW st, Open(st), NoRaw(st),
         NEW flush \in BOOLEAN
  PROVE  NoRaw(Release(st, flush))
<1> DEFINE spans == Findings(text, policies, st.sent, st.got)
           cut == Cut(st, flush, spans)
           settled == {f \in spans : f.end <= cut}
           fr == TextFrame(st.sent, cut, settled)
<1>1. st \in States /\ st.out \in Seq(StreamFrames) /\ st.sent \in Nat
  BY DEF Open, Good, Shape, States
<1>2. CASE cut = st.sent
  BY <1>2 DEF Release
<1>3. CASE cut # st.sent
  <2>1. cut \in Nat
    <3>1. cut \in st.sent .. st.got
      BY CutFacts DEF Open, Good
    <3> QED
      BY <1>1, <3>1
  <2>2. settled \in SUBSET Spans
    BY PendingSpans DEF Open, Good
  <2>3. fr \in StreamFrames /\ fr.kind \notin RawKinds
    BY <1>1, <2>1, <2>2, TextFrameFacts
  <2>4. Release(st, flush) = [st EXCEPT !.sent = cut, !.out = Append(@, fr)]
    BY <1>3 DEF Release
  <2> HIDE DEF fr
  <2>5. Release(st, flush).out = Append(st.out, fr)
    BY <1>1, <2>4 DEF States
  <2> QED
    BY <1>1, <2>3, <2>5, OneMoreUnraw DEF NoRaw
<1> QED
  BY <1>2, <1>3

LEMMA MarkerUnraw ==
  ASSUME NEW st \in States, NoRaw(st), NEW kind \in FrameKinds \ RawKinds,
         NEW ends, NEW finishes
  PROVE  NoRaw(Marker(st, kind, 0, 0, ends, finishes))
<1>1. Frame(kind, 0, 0) \in StreamFrames /\ Frame(kind, 0, 0).kind \notin RawKinds
  BY DEF Frame, StreamFrames
<1>2. st.out \in Seq(StreamFrames)
  BY DEF States
<1>3. Marker(st, kind, 0, 0, ends, finishes).out = Append(st.out, Frame(kind, 0, 0))
  BY DEF Marker, States
<1> QED
  BY <1>1, <1>2, <1>3, OneMoreUnraw DEF NoRaw

LEMMA EventUnraw ==
  ASSUME text \in Texts, policies \in PolicySets, NEW st, Good(st), Bounded(st), NoRaw(st),
         NEW ev \in Events, Follows(st, ev)
  PROVE  NoRaw(ProcessEvent(st, ev))
<1>1. Open(st)
  BY DEF Open, Follows
<1>2. CASE ev.done
  <2> DEFINE flushed == Release(st, TRUE)
  <2>1. Open(flushed) /\ NoRaw(flushed)
    BY <1>1, ReleaseFacts, ReleaseUnraw
  <2>2. flushed \in States
    BY <2>1 DEF Open, Good, Shape
  <2>3. ProcessEvent(st, ev) = [Emit(flushed, Frame("done", 0, 0)) EXCEPT !.over = "done"]
    BY <1>2 DEF ProcessEvent, ProcessDone, EndStream
  <2> HIDE DEF flushed
  <2>4. ProcessEvent(st, ev) = Marker(flushed, "done", 0, 0, "done", flushed.finished)
    BY <2>2, <2>3 DEF States, Emit, Marker
  <2> QED
    BY <2>1, <2>2, <2>4, MarkerUnraw DEF FrameKinds, RawKinds
<1>3. CASE ~ ev.done
  <2> DEFINE mid == ProcessText(st, ev)
             more == [st EXCEPT !.got = @ + ev.n]
             flushed == Release(mid, TRUE)
             new == ProcessFinish(mid, ev)
  <2>1. Open(mid) /\ NoRaw(mid)
    <3>1. Open(mid)
      BY <1>1, TextKeeps
    <3>2. CASE ev.content
      <4>1. Open(more) /\ more.out = st.out
        BY <1>1, Received
      <4>2. NoRaw(more)
        BY <4>1 DEF NoRaw
      <4>3. mid = Release(more, FALSE)
        BY <3>2 DEF ProcessText
      <4> HIDE DEF more, mid
      <4> QED
        BY <3>1, <4>1, <4>2, <4>3, ReleaseUnraw
    <3>3. CASE ~ ev.content
      BY <1>1, <3>3 DEF ProcessText
    <3> QED
      BY <3>1, <3>2, <3>3
  <2>2. mid \in States
    BY <2>1 DEF Open, Good, Shape
  <2>3. Open(flushed) /\ NoRaw(flushed)
    BY <2>1, ReleaseFacts, ReleaseUnraw
  <2>4. flushed \in States
    BY <2>3 DEF Open, Good, Shape
  <2>5. ProcessEvent(st, ev) = new
    BY <1>3 DEF ProcessEvent
  <2> HIDE DEF mid
  <2>6. CASE ev.finish
    <3>1. new = Marker(flushed, "finish", 0, 0, flushed.over, TRUE)
      BY <2>4, <2>6, Emitted DEF ProcessFinish
    <3> QED
      BY <2>3, <2>4, <2>5, <3>1, MarkerUnraw DEF FrameKinds, RawKinds
  <2>7. CASE ~ ev.finish /\ ev.content
    BY <2>1, <2>5, <2>7 DEF ProcessFinish
  <2>8. CASE ~ ev.finish /\ ~ ev.content
    <3>1. new = Emit(mid, Frame("other", 0, 0))
      BY <2>8 DEF ProcessFinish
    <3>2. new = Marker(mid, "other", 0, 0, mid.over, mid.finished)
      BY <2>2, <3>1 DEF States, Emit, Marker
    <3> QED
      BY <2>1, <2>2, <2>5, <3>2, MarkerUnraw DEF FrameKinds, RawKinds
  <2> QED
    BY <2>6, <2>7, <2>8
<1> QED
  BY <1>2, <1>3

\* After [DONE] there is nothing to come: raw frames are where the stream ended.
LEMMA StepRaw ==
  ASSUME IInv, RawLast(Current), [Next]_vars
  PROVE  RawLast(Current)'
<1>1. /\ text \in Texts /\ policies \in PolicySets /\ Good(Current) /\ Bounded(Current)
      /\ Current \in States /\ Current.over = over
  BY DEF IInv, Good, Shape, Current
<1>2. ASSUME over = "no" PROVE NoRaw(Current) /\ Open(Current)
  BY <1>1, <1>2 DEF RawLast, NoRaw, Open
<1>3. ASSUME NEW st \in States, NoRaw(st), Become(st) PROVE RawLast(Current)'
  BY <1>3, Becomes DEF RawLast, NoRaw
<1>4. ASSUME NEW ev \in Events, Poll(ev) PROVE RawLast(Current)'
  <2>1. Follows(Current, ev) /\ Become(ProcessEvent(Current, ev)) /\ over = "no"
    BY <1>1, <1>4 DEF Poll, Follows
  <2>2. NoRaw(ProcessEvent(Current, ev)) /\ ProcessEvent(Current, ev) \in States
    BY <1>1, <1>2, <2>1, EventUnraw, EventKeeps DEF Good, Shape
  <2> QED
    BY <1>3, <2>1, <2>2
<1>5. ASSUME NEW ev1 \in Events, NEW ev2 \in Events, PollTwo(ev1, ev2)
      PROVE  RawLast(Current)'
  <2> DEFINE between == ProcessEvent(Current, ev1)
             after == ProcessEvent(between, ev2)
  <2>1. Follows(Current, ev1) /\ Follows(between, ev2) /\ Become(after) /\ over = "no"
    BY <1>1, <1>5 DEF PollTwo, Follows
  <2>2. Good(between) /\ Bounded(between) /\ NoRaw(between)
    BY <1>1, <1>2, <2>1, EventKeeps, EventUnraw
  <2> HIDE DEF between
  <2>3. NoRaw(after) /\ after \in States
    BY <1>1, <2>1, <2>2, EventKeeps, EventUnraw DEF Good, Shape
  <2> HIDE DEF after
  <2> QED
    BY <1>3, <2>1, <2>3
<1>6. ASSUME over = "no"
      PROVE  LET flushed == Release(Current, TRUE)
             IN /\ Open(flushed) /\ flushed.got = Current.got /\ flushed.sent = flushed.got
                /\ flushed \in States /\ NoRaw(flushed)
  <2>1. Open(Current) /\ NoRaw(Current)
    BY <1>2, <1>6
  <2> QED
    BY <1>1, <2>1, ReleaseFacts, ReleaseUnraw DEF Open, Good, Shape
<1>7. ASSUME PollEnd PROVE RawLast(Current)'
  <2> DEFINE flushed == Release(Current, TRUE)
             last == EndStream(flushed)
  <2>1. over = "no" /\ Become(last)
    BY <1>7 DEF PollEnd
  <2>2. Open(flushed) /\ flushed.sent = flushed.got /\ flushed \in States /\ NoRaw(flushed)
    BY <1>6, <2>1
  <2> HIDE DEF flushed
  <2>3. last \in States
    BY <1>1, <2>2, DoneIsState DEF EndStream
  <2>4. NoRaw(last)
    <3>1. last = Marker(flushed, "done", 0, 0, "done", flushed.finished)
      BY <2>2 DEF States, EndStream, Emit, Marker
    <3> QED
      BY <2>2, <3>1, MarkerUnraw DEF FrameKinds, RawKinds
  <2> HIDE DEF last
  <2> QED
    BY <1>3, <2>1, <2>3, <2>4
<1>8. ASSUME NEW ev \in Events, PollEndWithin(ev) PROVE RawLast(Current)'
  <2> DEFINE flushed == Release(Current, TRUE)
             tail == PassOn(flushed, ev)
             last == EndStream(tail)
             raw == Frame(RawKind(ev), flushed.got, flushed.got + ev.n)
             done == Frame("done", 0, 0)
  <2>1. over = "no" /\ Become(last) /\ Current.got + ev.n <= Len(text)
    BY <1>1, <1>8 DEF PollEndWithin, Follows
  <2>2. /\ Open(flushed) /\ flushed.got = Current.got /\ flushed.sent = flushed.got
        /\ flushed \in States /\ NoRaw(flushed)
    BY <1>6, <2>1
  <2> HIDE DEF flushed
  <2>3. /\ Open(tail) /\ tail.got = flushed.got /\ tail.sent = flushed.sent
        /\ flushed.got + ev.n \in Nat /\ flushed.got \in Nat
    BY <1>1, <2>2, PassOnKeeps
  <2>4. /\ tail \in States /\ last \in States
    BY <1>1, <2>2, <2>3, DoneIsState DEF EndStream, Open, Good, Shape
  <2>5. /\ tail.out = Append(flushed.out, raw) /\ last.out = Append(tail.out, done)
        /\ last.over = "done" /\ last.got = tail.got
    BY <2>2, <2>4 DEF PassOn, EndStream, Emit, States
  <2>6. /\ raw \in StreamFrames /\ raw.from = flushed.got /\ raw.to = flushed.got + ev.n
        /\ done \in StreamFrames /\ done.kind \notin RawKinds
    BY <2>3 DEF Frame, StreamFrames, FrameKinds, RawKinds, RawKind
  <2> HIDE DEF raw, done, tail, last
  <2>7. flushed.out \in Seq(StreamFrames) /\ tail.out \in Seq(StreamFrames)
    BY <2>2, <2>4 DEF States
  <2>8. /\ Len(flushed.out) \in Nat /\ DOMAIN flushed.out = 1 .. Len(flushed.out)
        /\ Len(tail.out) = Len(flushed.out) + 1 /\ tail.out[Len(flushed.out) + 1] = raw
        /\ \A i \in 1 .. Len(flushed.out) : tail.out[i] = flushed.out[i]
    BY <2>5, <2>6, <2>7, Appended
  <2>9. /\ Len(last.out) = Len(tail.out) + 1 /\ DOMAIN last.out = 1 .. Len(tail.out) + 1
        /\ last.out[Len(tail.out) + 1] = done
        /\ \A i \in 1 .. Len(tail.out) : last.out[i] = tail.out[i]
    BY <2>5, <2>6, <2>7, Appended
  <2>10. \A i \in DOMAIN last.out : last.out[i].kind \in RawKinds =>
           /\ i + 1 = Len(last.out)
           /\ last.out[i].from = last.got /\ last.out[i].to <= Len(text)
    <3> SUFFICES ASSUME NEW i \in DOMAIN last.out, last.out[i].kind \in RawKinds
                 PROVE  /\ i + 1 = Len(last.out)
                        /\ last.out[i].from = last.got /\ last.out[i].to <= Len(text)
      OBVIOUS
    <3>1. i # Len(tail.out) + 1
      BY <2>6, <2>9
    <3>2. i \notin 1 .. Len(flushed.out)
      <4> SUFFICES ASSUME i \in 1 .. Len(flushed.out) PROVE FALSE
        OBVIOUS
      <4>1. last.out[i] = flushed.out[i]
        BY <2>8, <2>9
      <4> QED
        BY <2>2, <2>8, <4>1 DEF NoRaw
    <3>3. i = Len(flushed.out) + 1
      BY <2>8, <2>9, <3>1, <3>2
    <3>4. last.out[i] = raw
      BY <2>8, <2>9, <3>3
    <3> QED
      BY <2>1, <2>2, <2>3, <2>5, <2>6, <2>8, <2>9, <3>3, <3>4
  <2>11. Current' = last /\ text' = text
    BY <2>1, <2>4, Becomes
  <2> QED
    BY <2>5, <2>10, <2>11 DEF RawLast
<1>9. ASSUME PollError PROVE RawLast(Current)'
  <2> DEFINE last == [Emit(Current, Frame("error", 0, 0)) EXCEPT !.over = "error"]
  <2>1. over = "no" /\ Become(last)
    BY <1>9 DEF PollError
  <2>2. last = Marker(Current, "error", 0, 0, "error", Current.finished)
    BY <1>1 DEF States, Emit, Marker
  <2> HIDE DEF last
  <2>3. NoRaw(last)
    BY <1>1, <1>2, <2>1, <2>2, MarkerUnraw DEF FrameKinds, RawKinds
  <2>4. last \in States
    <3>1. Open(Current)
      BY <1>2, <2>1
    <3>2. /\ Current.finished \in BOOLEAN
          /\ Current.finished => Current.got = Len(text) /\ Current.sent = Current.got
      BY <1>1 DEF Good, States, Marked
    <3>3. Fits(Current, "error", "error", Current.finished)
      BY <3>2 DEF Fits, FrameKinds, RawKinds
    <3> QED
      BY <1>1, <2>2, <3>1, <3>3, MoreMarker DEF Good, Shape
  <2> QED
    BY <1>3, <2>1, <2>3, <2>4
<1>10. CASE UNCHANGED vars
  BY <1>10 DEF vars, RawLast, Current
<1> QED
  BY <1>4, <1>5, <1>7, <1>8, <1>9, <1>10 DEF Next

\* stream_dlp.rs:76-81, 125-134, 168-175: no text follows a frame that says finish,
\* a stream that ends well ends with the gateway's [DONE], and only an unterminated
\* [DONE] of the upstream's, passed on right before it, is a second one.
THEOREM MarkersAreLast == Spec => []MarkersComeLast
<1>1. Init => RawLast(Current)
  BY DEF Init, RawLast, Current
<1>2. IInv /\ RawLast(Current) => MarkersComeLast
  <2> SUFFICES ASSUME IInv, RawLast(Current) PROVE MarkersComeLast
    OBVIOUS
  <2>1. /\ Good(Current) /\ Current.out = frames /\ Current.over = over /\ Current.got = got
        /\ Len(frames) \in Nat /\ DOMAIN frames = 1 .. Len(frames)
        /\ got \in Nat /\ \A i \in DOMAIN frames : frames[i].to \in Nat
    <3>1. Current \in States
      BY DEF IInv, Good, Shape
    <3> QED
      BY <3>1, StateFacts DEF IInv, Current, States, StreamFrames
  <2>2. /\ KindAt(Current, "finish") # {} => got = Len(text)
        /\ \A i \in KindAt(Current, "finish"), j \in KindAt(Current, "text") : j < i
        /\ \A i \in DOMAIN frames :
             i \in KindAt(Current, "done") <=> i = Len(frames) /\ over = "done"
    BY <2>1 DEF Good, Marked
  <2>3. \A i \in DOMAIN frames : frames[i].kind = "done" <=> i = Len(frames) /\ over = "done"
    BY <2>1, <2>2 DEF KindAt
  <2>4. \A i \in DOMAIN frames : frames[i].kind \in RawKinds =>
          /\ i + 1 = Len(frames) /\ over = "done"
          /\ frames[i].from = got /\ frames[i].to <= Len(text)
    BY <2>1 DEF RawLast
  <2>5. ASSUME NEW i \in DOMAIN frames, NEW j \in DOMAIN frames, i < j,
               frames[i].kind \in {"finish", "raw finish"}, CarriesText(frames[j])
        PROVE  FALSE
    <3>0. i \in 1 .. Len(frames) /\ j \in 1 .. Len(frames) /\ i < j /\ Len(frames) \in Nat
      BY <2>1, <2>5
    <3>1. CASE frames[i].kind = "raw finish"
      <4>1. i + 1 = Len(frames) /\ over = "done"
        BY <2>4, <3>1 DEF RawKinds
      <4>2. j = Len(frames)
        BY <3>0, <4>1
      <4> QED
        BY <2>3, <2>5, <4>1, <4>2 DEF CarriesText
    <3>2. CASE frames[i].kind = "finish"
      <4>1. i \in KindAt(Current, "finish") /\ got = Len(text)
        BY <2>1, <2>2, <3>2 DEF KindAt
      <4>2. frames[j].kind # "text"
        <5> SUFFICES ASSUME frames[j].kind = "text" PROVE FALSE
          OBVIOUS
        <5>1. j \in KindAt(Current, "text")
          BY <2>1 DEF KindAt
        <5>2. j < i
          BY <2>2, <4>1, <5>1
        <5> QED
          BY <3>0, <5>2
      <4>3. frames[j].kind \in RawKinds /\ frames[j].from < frames[j].to
        BY <2>5, <4>2 DEF CarriesText, RawKinds
      <4> QED
        BY <2>1, <2>4, <4>1, <4>3, BoundsAssumption
    <3> QED
      BY <2>5, <3>1, <3>2
  <2>6. \A i \in DOMAIN frames :
          frames[i].kind = "raw done" => i + 1 = Len(frames) /\ over = "done"
    BY <2>4 DEF RawKinds
  <2> QED
    BY <2>3, <2>5, <2>6 DEF MarkersComeLast
<1> QED
  BY Invariance, <1>1, <1>2, StepRaw, PTL DEF Spec

-----------------------------------------------------------------------------
(* Induction and loops.                                                    *)

LEMMA LeastNat ==
  ASSUME NEW S \in SUBSET Nat, S # {}
  PROVE  \E m \in S : \A x \in S : m <= x
<1>1. PICK m \in S : \A y \in S : ~ (<<y, m>> \in OpToRel(<, Nat))
  BY WFMin, NatLessThanWellFounded
<1>2. \A y \in S : ~ (y < m)
  BY <1>1 DEF OpToRel
<1> QED
  BY <1>2

\* Induction over the turns of a loop.
LEMMA UpTo ==
  ASSUME NEW n \in Nat, NEW S, 0 \in S, \A k \in 1 .. n : k - 1 \in S => k \in S
  PROVE  \A k \in 0 .. n : k \in S
<1> SUFFICES ASSUME NEW k \in 0 .. n, k \notin S PROVE FALSE
  OBVIOUS
<1> DEFINE Bad == {i \in 0 .. n : i \notin S}
<1>1. Bad \in SUBSET Nat /\ Bad # {}
  OBVIOUS
<1> HIDE DEF Bad
<1>2. PICK m \in Bad : \A i \in Bad : m <= i
  BY <1>1, LeastNat
<1>3. m \in 0 .. n /\ m \notin S
  BY DEF Bad
<1>4. m \in 1 .. n /\ m - 1 \in 0 .. n
  BY <1>3
<1>5. m - 1 \in S
  BY <1>2, <1>4 DEF Bad
<1> QED
  BY <1>3, <1>4, <1>5

\* A loop over a sequence has a function from its turns to its values.
Runs(g, A, base, step, s) ==
  /\ g \in [0 .. Len(s) -> A]
  /\ g[0] = base
  /\ \A n \in 1 .. Len(s) : g[n] = step[<<g[n - 1], s[n]>>]

LEMMA FoldExists ==
  ASSUME NEW A, NEW B, NEW step \in [A \X B -> A], NEW base \in A, NEW s \in Seq(B)
  PROVE  \E g : Runs(g, A, base, step, s)
<1> DEFINE N == Len(s)
           G == [0 .. N -> A]
           Built(g, k) == g[0] = base /\ \A n \in 1 .. k : g[n] = step[<<g[n - 1], s[n]>>]
           S == {k \in 0 .. N : \E g \in G : Built(g, k)}
<1>1. N \in Nat /\ \A n \in 1 .. N : s[n] \in B
  OBVIOUS
<1>2. 0 \in S
  <2> DEFINE g == [n \in 0 .. N |-> base]
  <2>1. g \in G /\ Built(g, 0) /\ 0 \in 0 .. N
    BY <1>1
  <2> QED
    BY <2>1
<1>3. ASSUME NEW k \in 1 .. N, k - 1 \in S PROVE k \in S
  <2>1. PICK g \in G : Built(g, k - 1)
    BY <1>3
  <2> DEFINE v == step[<<g[k - 1], s[k]>>]
             h == [g EXCEPT ![k] = v]
  <2>2. k \in Nat /\ k - 1 \in 0 .. N /\ k \in 0 .. N /\ k # 0
    BY <1>1
  <2>3. v \in A
    BY <1>1, <2>2
  <2>4. h \in G
    BY <2>3
  <2>5. h[k] = v /\ \A n \in 0 .. N : n # k => h[n] = g[n]
    BY <2>2
  <2> HIDE DEF h, v
  <2>6. ASSUME NEW n \in 1 .. k PROVE h[n] = step[<<h[n - 1], s[n]>>]
    <3>1. n - 1 \in 0 .. N /\ n - 1 # k /\ n \in 0 .. N
      BY <1>1, <2>2
    <3>2. h[n - 1] = g[n - 1]
      BY <2>5, <3>1
    <3>3. CASE n = k
      BY <2>5, <3>2, <3>3 DEF v
    <3>4. CASE n # k
      <4>1. n \in 1 .. k - 1 /\ h[n] = g[n]
        BY <2>2, <2>5, <3>1, <3>4
      <4> QED
        BY <2>1, <3>2, <4>1
    <3> QED
      BY <3>3, <3>4
  <2>7. h[0] = base
    BY <1>1, <2>1, <2>2, <2>5
  <2> QED
    BY <2>2, <2>4, <2>6, <2>7
<1> HIDE DEF S, N
<1>3a. \A k \in 1 .. N : k - 1 \in S => k \in S
  BY <1>3
<1>4. \A k \in 0 .. N : k \in S
  BY <1>1, <1>2, <1>3a, UpTo
<1>4a. N \in S
  BY <1>1, <1>4
<1>5. PICK g \in G : Built(g, N)
  BY <1>4a DEF S
<1> QED
  BY <1>5 DEF N, Runs

-----------------------------------------------------------------------------
(* Merging, one turn and the loop.                                         *)

Found == Seq(Finding)

LEMMA FindingFacts ==
  ASSUME NEW f \in Finding
  PROVE  f.start \in Nat /\ f.end \in Nat /\ f.label \in Labels /\ f.action \in Actions
  BY DEF Finding

LEMMA StrongerFacts ==
  ASSUME NEW a \in Actions, NEW b \in Actions
  PROVE  /\ Stronger(a, b) \in Actions
         /\ Stronger(a, b) = "block" <=> a = "block" \/ b = "block"
         /\ Stronger(a, b) = "flag" <=> a = "flag" /\ b = "flag"
  BY DEF Actions, Stronger

\* A finding that begins in the last span extends it.
Extends(m, f) == m # <<>> /\ f.start < m[Len(m)].end

LEMMA AbsorbFacts ==
  ASSUME NEW m \in Found, NEW f \in Finding
  PROVE  LET a == Absorb(m, f) IN
         /\ a \in Found /\ a # <<>>
         /\ ~ Extends(m, f) =>
              /\ Len(a) = Len(m) + 1 /\ a[Len(a)] = f
              /\ \A i \in 1 .. Len(m) : a[i] = m[i]
         /\ Extends(m, f) =>
              /\ Len(a) = Len(m) /\ \A i \in 1 .. Len(m) - 1 : a[i] = m[i]
              /\ a[Len(a)].start = m[Len(m)].start /\ a[Len(a)].label = m[Len(m)].label
              /\ a[Len(a)].end = IF f.end > m[Len(m)].end THEN f.end ELSE m[Len(m)].end
              /\ a[Len(a)].action = Stronger(m[Len(m)].action, f.action)
<1> DEFINE a == Absorb(m, f)
<1>1. CASE ~ Extends(m, f)
  <2>1. a = Append(m, f)
    BY <1>1 DEF Absorb, Extends, Last
  <2> HIDE DEF a
  <2> QED
    BY <1>1, <2>1 DEF Found, a
<1>2. CASE Extends(m, f)
  <2> DEFINE last == m[Len(m)]
             end == IF f.end > last.end THEN f.end ELSE last.end
             v == [last EXCEPT !.end = end, !.action = Stronger(last.action, f.action)]
  <2>1. a = Append(Front(m), v)
    BY <1>2 DEF Absorb, Extends, Last
  <2>2. Len(m) \in Nat \ {0} /\ last \in Finding
    BY <1>2 DEF Found, Extends
  <2>3. /\ v \in Finding /\ v.start = last.start /\ v.label = last.label
        /\ v.end = end /\ v.action = Stronger(last.action, f.action)
    <3>1. end \in Nat /\ Stronger(last.action, f.action) \in Actions
      BY <2>2, FindingFacts, StrongerFacts
    <3> HIDE DEF end
    <3> QED
      BY <2>2, <3>1 DEF Finding
  <2>4. /\ Front(m) \in Found /\ Len(Front(m)) = Len(m) - 1
        /\ \A i \in 1 .. Len(m) - 1 : Front(m)[i] = m[i]
    <3> DEFINE n == Len(m) - 1
    <3>1. \A i \in 1 .. n : m[i] \in Finding
      BY DEF Found
    <3>2. n \in Nat /\ n \in Int /\ 1 \in Int /\ Front(m) = SubSeq(m, 1, n)
      BY <2>2 DEF Front
    <3> HIDE DEF n, last
    <3>3. /\ SubSeq(m, 1, n) \in Seq(Finding)
          /\ Len(SubSeq(m, 1, n)) = IF 1 <= n THEN n - 1 + 1 ELSE 0
          /\ \A i \in 1 .. n - 1 + 1 : SubSeq(m, 1, n)[i] = m[1 + i - 1]
      BY <3>1, <3>2, SubSeqProperties
    <3>4. \A i \in 1 .. n : 1 + i - 1 = i /\ i \in 1 .. n - 1 + 1
      BY <3>2
    <3>5. Len(SubSeq(m, 1, n)) = n
      BY <3>2, <3>3
    <3> QED
      BY <3>2, <3>3, <3>4, <3>5 DEF Found, n
  <2> HIDE DEF a, v, end
  <2>5. /\ a \in Found /\ a # <<>> /\ Len(a) = Len(m) /\ a[Len(a)] = v
        /\ \A i \in 1 .. Len(m) - 1 : a[i] = m[i]
    BY <2>1, <2>2, <2>3, <2>4 DEF Found
  <2> QED
    BY <1>2, <2>3, <2>5 DEF a, end
<1> QED
  BY <1>1, <1>2

LEMMA MergingEquation ==
  ASSUME NEW s \in Found
  PROVE  /\ Merging(s) \in [0 .. Len(s) -> Found]
         /\ Merging(s)[0] = <<>>
         /\ \A n \in 1 .. Len(s) : Merging(s)[n] = Absorb(Merging(s)[n - 1], s[n])
<1> DEFINE step == [p \in Found \X Finding |-> Absorb(p[1], p[2])]
           g == Merging(s)
<1>1. step \in [Found \X Finding -> Found]
  <2>1. \A p \in Found \X Finding : Absorb(p[1], p[2]) \in Found
    BY AbsorbFacts
  <2> QED
    BY <2>1
<1>2. \A m \in Found, f \in Finding : step[<<m, f>>] = Absorb(m, f)
  OBVIOUS
<1>3. <<>> \in Found /\ s \in Seq(Finding)
  BY DEF Found
<1>3a. Len(s) \in Nat /\ \A n \in 1 .. Len(s) : s[n] \in Finding
  BY <1>3
<1> HIDE DEF step
<1>4. PICK h : Runs(h, Found, <<>>, step, s)
  BY <1>1, <1>3, FoldExists
<1>5. \A n \in 0 .. Len(s) : h[n] = IF n = 0 THEN <<>> ELSE Absorb(h[n - 1], s[n])
  <2> SUFFICES ASSUME NEW n \in 0 .. Len(s), n # 0 PROVE h[n] = Absorb(h[n - 1], s[n])
    BY <1>4 DEF Runs
  <2>1. n - 1 \in 0 .. Len(s) /\ s[n] \in Finding /\ h[n - 1] \in Found
    BY <1>3a, <1>4 DEF Runs
  <2>2. h[n] = step[<<h[n - 1], s[n]>>]
    BY <1>3a, <1>4 DEF Runs
  <2> QED
    BY <1>2, <2>1, <2>2
<1>6. h = [n \in 0 .. Len(s) |-> IF n = 0 THEN <<>> ELSE Absorb(h[n - 1], s[n])]
  <2>1. h = [n \in 0 .. Len(s) |-> h[n]]
    BY <1>4 DEF Runs
  <2> QED
    BY <1>5, <2>1
<1>7. g = CHOOSE u : u = [n \in 0 .. Len(s) |-> IF n = 0 THEN <<>> ELSE Absorb(u[n - 1], s[n])]
  BY DEF Merging
<1> HIDE DEF g
<1>8. g = [n \in 0 .. Len(s) |-> IF n = 0 THEN <<>> ELSE Absorb(g[n - 1], s[n])]
  BY <1>6, <1>7
<1>9. g[0] = <<>> /\ \A n \in 1 .. Len(s) : g[n] = Absorb(g[n - 1], s[n])
  <2>1. \A n \in 0 .. Len(s) : g[n] = IF n = 0 THEN <<>> ELSE Absorb(g[n - 1], s[n])
    BY <1>8
  <2> QED
    BY <1>3a, <2>1
<1> DEFINE S == {k \in 0 .. Len(s) : g[k] \in Found}
<1>10. 0 \in S
  BY <1>3, <1>3a, <1>9
<1>11. \A k \in 1 .. Len(s) : k - 1 \in S => k \in S
  BY <1>3a, <1>9, AbsorbFacts
<1> HIDE DEF S
<1>12. \A k \in 0 .. Len(s) : k \in S
  BY <1>3a, <1>10, <1>11, UpTo
<1>13. g \in [0 .. Len(s) -> Found]
  BY <1>8, <1>12 DEF S
<1> QED
  BY <1>9, <1>13 DEF g

-----------------------------------------------------------------------------
(* Sorting.                                                                *)

LEMMA AheadFacts ==
  ASSUME NEW fs \in Found
  PROVE  /\ \A j \in 1 .. Len(fs) : Ahead(fs, j) \subseteq 1 .. Len(fs) /\ j \notin Ahead(fs, j)
         /\ \A i, j \in 1 .. Len(fs) : i # j => i \in Ahead(fs, j) \/ j \in Ahead(fs, i)
         /\ \A i, j \in 1 .. Len(fs) :
              i \in Ahead(fs, j) => ~ Before(fs[j], fs[i]) /\ Ahead(fs, i) \subseteq Ahead(fs, j)
<1> DEFINE N == 1 .. Len(fs)
<1>1. DOMAIN fs = N /\ \A i \in N : i \in Nat /\ fs[i] \in Finding
  BY DEF Found
<1>2. \A i \in N : fs[i].start \in Nat /\ fs[i].end \in Nat
  BY <1>1, FindingFacts
<1>3. \A i, j \in N : Before(fs[i], fs[j]) <=>
        fs[i].start < fs[j].start \/ (fs[i].start = fs[j].start /\ fs[i].end > fs[j].end)
  BY DEF Before
<1>4. \A i, j \in N : i \in Ahead(fs, j) <=>
        Before(fs[i], fs[j]) \/ (~ Before(fs[j], fs[i]) /\ i < j)
  BY <1>1 DEF Ahead
<1>5. \A j \in N : Ahead(fs, j) \subseteq N
  BY <1>1 DEF Ahead
<1> HIDE DEF N
<1>6. \A i \in N : ~ Before(fs[i], fs[i]) /\ i \notin Ahead(fs, i)
  BY <1>1, <1>2, <1>3, <1>4
<1>7. \A i, j \in N : i # j => i \in Ahead(fs, j) \/ j \in Ahead(fs, i)
  BY <1>1, <1>4
<1>8. \A i, j \in N : i \in Ahead(fs, j) => ~ Before(fs[j], fs[i])
  BY <1>2, <1>3, <1>4
<1>9. ASSUME NEW i \in N, NEW j \in N, i \in Ahead(fs, j), NEW k \in Ahead(fs, i)
      PROVE  k \in Ahead(fs, j)
  <2>1. k \in N /\ k \in Ahead(fs, i)
    BY <1>5, <1>9
  <2>2. /\ fs[i].start \in Nat /\ fs[j].start \in Nat /\ fs[k].start \in Nat
        /\ fs[i].end \in Nat /\ fs[j].end \in Nat /\ fs[k].end \in Nat
        /\ i \in Nat /\ j \in Nat /\ k \in Nat
    BY <1>1, <1>2, <2>1
  <2>3. Before(fs[i], fs[j]) \/ (~ Before(fs[j], fs[i]) /\ i < j)
    BY <1>4, <1>9
  <2>4. Before(fs[k], fs[i]) \/ (~ Before(fs[i], fs[k]) /\ k < i)
    BY <1>4, <2>1
  <2>5. Before(fs[k], fs[j]) \/ (~ Before(fs[j], fs[k]) /\ k < j)
    BY <1>3, <2>1, <2>2, <2>3, <2>4
  <2> QED
    BY <1>4, <2>1, <2>5
<1> QED
  BY <1>5, <1>6, <1>7, <1>8, <1>9 DEF N

\* The number of findings ahead is another for each finding, and there is one for
\* each number.
LEMMA RankFacts ==
  ASSUME NEW fs \in Found
  PROVE  /\ \A i, j \in 1 .. Len(fs) :
              i \in Ahead(fs, j) => Cardinality(Ahead(fs, i)) < Cardinality(Ahead(fs, j))
         /\ \A i, j \in 1 .. Len(fs) :
              Cardinality(Ahead(fs, i)) = Cardinality(Ahead(fs, j)) => i = j
         /\ \A n \in 1 .. Len(fs) : \E j \in 1 .. Len(fs) : Cardinality(Ahead(fs, j)) = n - 1
         /\ \A j \in 1 .. Len(fs) : Cardinality(Ahead(fs, j)) \in 0 .. Len(fs) - 1
<1> DEFINE n == Len(fs)
           N == 1 .. n
           rank == [j \in N |-> Cardinality(Ahead(fs, j))]
<1>1. n \in Nat /\ IsFiniteSet(N) /\ Cardinality(N) = n
  <2>1. n \in Nat
    BY DEF Found
  <2> HIDE DEF n
  <2>2. 1 \in Int /\ n \in Int
    BY <2>1
  <2>3. IsFiniteSet(1 .. n) /\ Cardinality(1 .. n) = IF 1 > n THEN 0 ELSE n - 1 + 1
    BY <2>2, FS_Interval
  <2>4. Cardinality(1 .. n) = n
    BY <2>1, <2>3
  <2> QED
    BY <2>1, <2>3, <2>4
<1>2. \A j \in N : Ahead(fs, j) \subseteq N /\ j \notin Ahead(fs, j)
  BY AheadFacts
<1>2a. /\ \A i, j \in N : i # j => i \in Ahead(fs, j) \/ j \in Ahead(fs, i)
       /\ \A i, j \in N : i \in Ahead(fs, j) => Ahead(fs, i) \subseteq Ahead(fs, j)
  BY AheadFacts
<1> HIDE DEF N, n
<1>3. ASSUME NEW j \in N
      PROVE  IsFiniteSet(Ahead(fs, j)) /\ Cardinality(Ahead(fs, j)) \in 0 .. n - 1
  <2> DEFINE T == Ahead(fs, j)
  <2>1. T \in SUBSET (N \ {j}) /\ T \in SUBSET N
    BY <1>2
  <2> HIDE DEF T
  <2>2. IsFiniteSet(N \ {j}) /\ Cardinality(N \ {j}) = n - 1
    BY <1>1, <1>3, FS_RemoveElement
  <2>3. IsFiniteSet(T) /\ Cardinality(T) <= n - 1
    BY <2>1, <2>2, FS_Subset
  <2>4. Cardinality(T) \in Nat
    BY <2>3, FS_CardinalityType
  <2> QED
    BY <1>1, <2>3, <2>4 DEF T
<1>4. ASSUME NEW i \in N, NEW j \in N, i \in Ahead(fs, j)
      PROVE  Cardinality(Ahead(fs, i)) < Cardinality(Ahead(fs, j))
  <2> DEFINE A == Ahead(fs, i)
             B == Ahead(fs, j)
  <2>1. A \in SUBSET B /\ A # B
    BY <1>2, <1>2a, <1>4
  <2>2. IsFiniteSet(B) /\ Cardinality(B) \in Nat /\ Cardinality(A) \in Nat
    BY <1>3
  <2> HIDE DEF A, B
  <2>3. Cardinality(A) <= Cardinality(B) /\ (Cardinality(B) = Cardinality(A) => B = A)
    BY <2>1, <2>2, FS_Subset
  <2> QED
    BY <2>1, <2>2, <2>3 DEF A, B
<1>5. \A i, j \in N : Cardinality(Ahead(fs, i)) = Cardinality(Ahead(fs, j)) => i = j
  <2> SUFFICES ASSUME NEW i \in N, NEW j \in N, i # j,
                      Cardinality(Ahead(fs, i)) = Cardinality(Ahead(fs, j))
               PROVE FALSE
    OBVIOUS
  <2>1. /\ Cardinality(Ahead(fs, i)) \in Nat
        /\ Cardinality(Ahead(fs, i)) < Cardinality(Ahead(fs, j))
             \/ Cardinality(Ahead(fs, j)) < Cardinality(Ahead(fs, i))
    BY <1>2a, <1>3, <1>4
  <2> QED
    BY <2>1
<1>6. rank \in Injection(N, 0 .. n - 1)
  <2>1. rank \in [N -> 0 .. n - 1]
    BY <1>3
  <2>2. \A i, j \in N : rank[i] = rank[j] => i = j
    BY <1>5
  <2> QED
    BY <2>1, <2>2 DEF Injection, IsInjective
<1>7. IsFiniteSet(0 .. n - 1) /\ Cardinality(0 .. n - 1) = n
  <2>1. 0 \in Int /\ n - 1 \in Int
    BY <1>1
  <2>2. /\ IsFiniteSet(0 .. n - 1)
        /\ Cardinality(0 .. n - 1) = IF 0 > n - 1 THEN 0 ELSE (n - 1) - 0 + 1
    BY <2>1, FS_Interval
  <2> QED
    BY <1>1, <2>2
<1> HIDE DEF rank
<1>8. rank \in Surjection(N, 0 .. n - 1)
  BY <1>1, <1>6, <1>7, FS_Injection
<1>9. \A k \in 0 .. n - 1 : \E j \in N : rank[j] = k
  BY <1>8 DEF Surjection
<1>10. ASSUME NEW k \in N PROVE \E j \in N : Cardinality(Ahead(fs, j)) = k - 1
  <2>1. k - 1 \in 0 .. n - 1
    BY <1>1 DEF N
  <2> QED
    BY <1>9, <2>1 DEF rank
<1> QED
  BY <1>3, <1>4, <1>5, <1>10 DEF N, n

\* Sorting loses and adds nothing, and nothing comes after what it should precede.
LEMMA SortFacts ==
  ASSUME NEW fs \in Found
  PROVE  LET s == SortFindings(fs) IN
         /\ s \in Found /\ Len(s) = Len(fs)
         /\ \A i, j \in 1 .. Len(fs) : i < j => ~ Before(s[j], s[i])
         /\ \A j \in 1 .. Len(fs) : \E n \in 1 .. Len(fs) : s[n] = fs[j]
         /\ \A n \in 1 .. Len(fs) : \E j \in 1 .. Len(fs) : s[n] = fs[j]
<1> DEFINE s == SortFindings(fs)
           N == 1 .. Len(fs)
           at(k) == CHOOSE j \in DOMAIN fs : Cardinality(Ahead(fs, j)) = k - 1
<1>1. Len(fs) \in Nat /\ DOMAIN fs = N /\ \A j \in N : fs[j] \in Finding
  BY DEF Found
<1>2. s = [k \in N |-> fs[at(k)]]
  BY <1>1 DEF SortFindings
<1>3. ASSUME NEW k \in N PROVE at(k) \in N /\ Cardinality(Ahead(fs, at(k))) = k - 1
  BY <1>1, RankFacts
<1> HIDE DEF at
<1>4. \A k \in N : s[k] = fs[at(k)]
  BY <1>2
<1>5. s \in [N -> Finding]
  BY <1>1, <1>2, <1>3
<1> HIDE DEF s
<1>6. s \in Found /\ Len(s) = Len(fs)
  BY <1>1, <1>5 DEF Found
<1>7. ASSUME NEW i \in N, NEW j \in N, i < j PROVE ~ Before(s[j], s[i])
  <2> DEFINE a == at(i)
             b == at(j)
  <2>1. /\ a \in N /\ b \in N
        /\ Cardinality(Ahead(fs, a)) = i - 1 /\ Cardinality(Ahead(fs, b)) = j - 1
    BY <1>3
  <2> HIDE DEF a, b
  <2>2. i \in Nat /\ j \in Nat
    BY <1>1
  <2>3. ~ (j - 1 < i - 1) /\ i - 1 # j - 1
    BY <1>7, <2>2
  <2>4. b \notin Ahead(fs, a) /\ a # b
    <3>1. b \in Ahead(fs, a) => Cardinality(Ahead(fs, b)) < Cardinality(Ahead(fs, a))
      BY <2>1, RankFacts
    <3> QED
      BY <2>1, <2>3, <3>1
  <2>5. a \in Ahead(fs, b)
    BY <2>1, <2>4, AheadFacts
  <2>6. ~ Before(fs[b], fs[a])
    BY <2>1, <2>5, AheadFacts
  <2> QED
    BY <1>4, <2>6 DEF a, b
<1>8. ASSUME NEW j \in N PROVE \E k \in N : s[k] = fs[j]
  <2> DEFINE k == Cardinality(Ahead(fs, j)) + 1
  <2>1. Cardinality(Ahead(fs, j)) \in 0 .. Len(fs) - 1
    BY RankFacts
  <2>2. k \in N /\ k - 1 = Cardinality(Ahead(fs, j))
    BY <1>1, <2>1
  <2>3. at(k) \in N /\ Cardinality(Ahead(fs, at(k))) = Cardinality(Ahead(fs, j))
    BY <1>3, <2>2
  <2>4. at(k) = j
    BY <2>3, RankFacts
  <2> QED
    BY <1>4, <2>2, <2>4
<1>9. \A k \in N : \E j \in N : s[k] = fs[j]
  BY <1>3, <1>4
<1> QED
  BY <1>6, <1>7, <1>8, <1>9 DEF s

-----------------------------------------------------------------------------
(* What the loop of dedupe_findings keeps true of the spans so far.        *)

Proper(fs) == \A i \in 1 .. Len(fs) : fs[i].start < fs[i].end
Sorted(s) == \A i, j \in 1 .. Len(s) : i < j => ~ Before(s[j], s[i])

Inside(f, x) == x.start <= f.start /\ f.end <= x.end
Members(s, n, x) == {k \in 1 .. n : Inside(s[k], x)}

\* The span x sums up the findings whose indices are K.
Sums(s, K, x) ==
  /\ \A b \in Bytes(x) : \E k \in K : b \in Bytes(s[k])
  /\ \A b \in Bytes(x) : b + 1 \in Bytes(x) =>
       \E k \in K : b \in Bytes(s[k]) /\ b + 1 \in Bytes(s[k])
  /\ \E k \in K : s[k].label = x.label /\ \A l \in K : k <= l
  /\ x.action = "block" <=> \E k \in K : s[k].action = "block"
  /\ x.action = "flag" <=> \A k \in K : s[k].action = "flag"

Clusters(s, n, m) ==
  /\ m \in Found /\ Proper(m)
  /\ \A i, j \in 1 .. Len(m) : i < j => m[i].end <= m[j].start
  /\ n > 0 => m # <<>> /\ m[Len(m)].start <= s[n].start
  /\ \A k \in 1 .. n : \E i \in 1 .. Len(m) : Inside(s[k], m[i])
  /\ \A i \in 1 .. Len(m) : Sums(s, Members(s, n, m[i]), m[i])

LEMMA BytesFacts ==
  ASSUME NEW f \in Finding, NEW b
  PROVE  b \in Bytes(f) <=> b \in Nat /\ f.start <= b /\ b < f.end
<1>1. f.start \in Nat /\ f.end \in Nat
  BY FindingFacts
<1> QED
  BY <1>1 DEF Bytes

\* A finding by itself.
LEMMA SumsOne ==
  ASSUME NEW s \in Found, NEW n \in 1 .. Len(s)
  PROVE  Sums(s, {n}, s[n])
<1> DEFINE f == s[n]
<1>1. n \in Nat
  BY DEF Found
<1>2. \A k \in {n} : k = n /\ s[k] = f
  OBVIOUS
<1>3. n \in {n} /\ s[n] = f /\ \A l \in {n} : n <= l
  BY <1>1
<1> HIDE DEF f
<1>4. \A b \in Bytes(f) : \E k \in {n} : b \in Bytes(s[k])
  BY <1>3
<1>5. \A b \in Bytes(f) : b + 1 \in Bytes(f) =>
        \E k \in {n} : b \in Bytes(s[k]) /\ b + 1 \in Bytes(s[k])
  BY <1>3
<1>6. \E k \in {n} : s[k].label = f.label /\ \A l \in {n} : k <= l
  BY <1>3
<1>7. f.action = "block" <=> \E k \in {n} : s[k].action = "block"
  BY <1>2, <1>3
<1>8. f.action = "flag" <=> \A k \in {n} : s[k].action = "flag"
  BY <1>2, <1>3
<1>9. Sums(s, {n}, f)
  BY <1>4, <1>5, <1>6, <1>7, <1>8 DEF Sums
<1> QED
  BY <1>9 DEF f

\* One more finding that begins in the span.
LEMMA SumsMore ==
  ASSUME NEW s \in Found, NEW n \in 1 .. Len(s), NEW K, K \subseteq 1 .. n - 1,
         NEW x \in Finding, NEW y \in Finding, Sums(s, K, x),
         x.start <= s[n].start, s[n].start < x.end,
         y.start = x.start, y.label = x.label,
         y.end = (IF s[n].end > x.end THEN s[n].end ELSE x.end),
         y.action = Stronger(x.action, s[n].action)
  PROVE  Sums(s, K \cup {n}, y)
<1> DEFINE f == s[n]
           J == K \cup {n}
<1>0. f \in Finding /\ n \in Nat
  BY DEF Found
<1>1. f \in Finding /\ n \in Nat /\ \A k \in K : k \in Nat /\ k < n
  <2>1. \A k \in 1 .. n - 1 : k \in Nat /\ k < n
    BY <1>0
  <2> QED
    BY <1>0, <2>1
<1>1a. \A k \in J : s[k] \in Finding
  BY DEF Found
<1>2. /\ f.start \in Nat /\ f.end \in Nat /\ x.start \in Nat /\ x.end \in Nat
      /\ f.action \in Actions /\ x.action \in Actions
      /\ x.start <= f.start /\ f.start < x.end
      /\ y.start = x.start /\ y.end = IF f.end > x.end THEN f.end ELSE x.end
  BY <1>1, FindingFacts
<1>3. \A b : b \in Bytes(f) <=> b \in Nat /\ f.start <= b /\ b < f.end
  BY <1>1, BytesFacts
<1>4. \A b : b \in Bytes(x) <=> b \in Nat /\ x.start <= b /\ b < x.end
  BY BytesFacts
<1>5. \A b : b \in Bytes(y) <=> b \in Nat /\ x.start <= b /\ b < y.end
  BY <1>2, BytesFacts
<1>6. n \in J /\ s[n] = f /\ \A k \in K : k \in J
  OBVIOUS
<1>7. y.action = Stronger(x.action, f.action) /\ y.label = x.label
  OBVIOUS
<1> HIDE DEF f, J
<1>8. ASSUME NEW b \in Bytes(y) PROVE \E k \in J : b \in Bytes(s[k])
  <2>1. b \in Bytes(x) \/ b \in Bytes(f)
    BY <1>2, <1>3, <1>4, <1>5, <1>8
  <2> QED
    BY <1>6, <2>1 DEF Sums
<1>9. ASSUME NEW b \in Bytes(y), b + 1 \in Bytes(y)
      PROVE  \E k \in J : b \in Bytes(s[k]) /\ b + 1 \in Bytes(s[k])
  <2>1. \/ b \in Bytes(x) /\ b + 1 \in Bytes(x)
        \/ b \in Bytes(f) /\ b + 1 \in Bytes(f)
    BY <1>2, <1>3, <1>4, <1>5, <1>9
  <2>2. CASE b \in Bytes(x) /\ b + 1 \in Bytes(x)
    BY <1>6, <2>2 DEF Sums
  <2>3. CASE b \in Bytes(f) /\ b + 1 \in Bytes(f)
    BY <1>6, <2>3
  <2> QED
    BY <2>1, <2>2, <2>3
<1>10. \E k \in J : s[k].label = y.label /\ \A l \in J : k <= l
  <2>1. PICK k \in K : s[k].label = x.label /\ \A l \in K : k <= l
    BY DEF Sums
  <2>2. \A l \in J : k <= l
    BY <1>1, <2>1 DEF J
  <2> QED
    BY <1>6, <1>7, <2>1, <2>2
<1>11. y.action = "block" <=> \E k \in J : s[k].action = "block"
  <2>1. y.action = "block" <=> x.action = "block" \/ f.action = "block"
    BY <1>2, <1>7, StrongerFacts
  <2>2. (\E k \in J : s[k].action = "block") <=>
          (\E k \in K : s[k].action = "block") \/ f.action = "block"
    BY <1>6 DEF J
  <2> QED
    BY <2>1, <2>2 DEF Sums
<1>12. y.action = "flag" <=> \A k \in J : s[k].action = "flag"
  <2>1. y.action = "flag" <=> x.action = "flag" /\ f.action = "flag"
    BY <1>2, <1>7, StrongerFacts
  <2>2. (\A k \in J : s[k].action = "flag") <=>
          (\A k \in K : s[k].action = "flag") /\ f.action = "flag"
    BY <1>6 DEF J
  <2> QED
    BY <2>1, <2>2 DEF Sums
<1> QED
  BY <1>8, <1>9, <1>10, <1>11, <1>12 DEF Sums, J

LEMMA ClustersStep ==
  ASSUME NEW s \in Found, Sorted(s), Proper(s), NEW n \in 1 .. Len(s), NEW m,
         Clusters(s, n - 1, m)
  PROVE  Clusters(s, n, Absorb(m, s[n]))
<1> DEFINE f == s[n]
           a == Absorb(m, f)
           L == Len(m)
<1>1. /\ f \in Finding /\ f = s[n] /\ n \in Nat /\ m \in Found /\ Proper(m) /\ L \in Nat
      /\ f.start \in Nat /\ f.end \in Nat /\ f.start < f.end
      /\ \A i \in 1 .. L : m[i] \in Finding
  <2>1. f \in Finding /\ n \in Nat /\ m \in Found /\ Proper(m) /\ L \in Nat /\ f.start < f.end
    BY DEF Found, Clusters, Proper
  <2> QED
    BY <2>1, FindingFacts DEF Found
<1>2. \A i \in 1 .. L : m[i].start \in Nat /\ m[i].end \in Nat /\ m[i].start < m[i].end
  BY <1>1, FindingFacts DEF Proper
<1>3. \A k \in 1 .. n - 1 :
        /\ s[k].start \in Nat /\ s[k].end \in Nat /\ s[k].start < s[k].end
        /\ s[k].start <= f.start
  <2> SUFFICES ASSUME NEW k \in 1 .. n - 1
               PROVE  /\ s[k].start \in Nat /\ s[k].end \in Nat /\ s[k].start < s[k].end
                      /\ s[k].start <= f.start
    OBVIOUS
  <2>1. k \in 1 .. Len(s) /\ k < n
    BY <1>1 DEF Found
  <2>2. s[k] \in Finding /\ s[k].start < s[k].end /\ ~ Before(f, s[k])
    BY <2>1 DEF Found, Sorted, Proper
  <2>3. s[k].start \in Nat /\ s[k].end \in Nat
    BY <2>2, FindingFacts
  <2> QED
    BY <1>1, <2>2, <2>3 DEF Before
<1>4. /\ \A i, j \in 1 .. L : i < j => m[i].end <= m[j].start
      /\ \A k \in 1 .. n - 1 : \E i \in 1 .. L : Inside(s[k], m[i])
      /\ \A i \in 1 .. L : Sums(s, Members(s, n - 1, m[i]), m[i])
  BY DEF Clusters
<1>4a. m # <<>> => L > 0 /\ m[L].start <= f.start
  <2> SUFFICES ASSUME m # <<>> PROVE L > 0 /\ m[L].start <= f.start
    OBVIOUS
  <2>1. L > 0 /\ L \in 1 .. L
    BY <1>1 DEF Found
  <2>2. PICK k \in Members(s, n - 1, m[L]) : TRUE
    BY <1>4, <2>1 DEF Sums
  <2>3. k \in 1 .. n - 1 /\ n > 1
    BY <1>1 DEF Members
  <2>4. n - 1 \in 1 .. n - 1 /\ m[L].start <= s[n - 1].start
    BY <1>1, <2>3 DEF Clusters
  <2> QED
    BY <1>1, <1>2, <1>3, <2>1, <2>4
<1>5. \A x : n \notin Members(s, n - 1, x) /\ Members(s, n - 1, x) \subseteq 1 .. n - 1
  BY <1>1 DEF Members
<1>6. \A x : Members(s, n, x) =
        Members(s, n - 1, x) \cup (IF Inside(f, x) THEN {n} ELSE {})
  BY <1>1 DEF Members
<1> HIDE DEF f, a, L
<1>7. CASE ~ Extends(m, f)
  <2>1. /\ a \in Found /\ a # <<>> /\ Len(a) = L + 1 /\ a[L + 1] = f
        /\ \A i \in 1 .. L : a[i] = m[i]
    BY <1>1, <1>7, AbsorbFacts DEF a, L
  <2>2. \A i \in 1 .. L : m[i].end <= f.start
    <3> SUFFICES ASSUME NEW i \in 1 .. L PROVE m[i].end <= f.start
      OBVIOUS
    <3>1. L \in 1 .. L /\ m # <<>>
      BY <1>1 DEF L
    <3>2. m[L].end <= f.start
      BY <1>1, <1>2, <1>7, <3>1 DEF Extends, L
    <3>3. i = L \/ m[i].end <= m[L].start
      BY <1>1, <1>4, <3>1
    <3> QED
      BY <1>1, <1>2, <3>1, <3>2, <3>3
  <2>3. \A i \in 1 .. L + 1 : i \in 1 .. L \/ i = L + 1
    BY <1>1
  <2>4. Proper(a)
    BY <1>1, <1>2, <2>1, <2>3 DEF Proper
  <2>5. \A i, j \in 1 .. Len(a) : i < j => a[i].end <= a[j].start
    <3> SUFFICES ASSUME NEW i \in 1 .. L + 1, NEW j \in 1 .. L + 1, i < j
                 PROVE  a[i].end <= a[j].start
      BY <2>1
    <3>1. i \in 1 .. L
      BY <1>1
    <3>2. CASE j = L + 1
      BY <2>1, <2>2, <3>1, <3>2
    <3>3. CASE j \in 1 .. L
      BY <1>4, <2>1, <3>1, <3>3
    <3> QED
      BY <2>3, <3>2, <3>3
  <2>6. a[Len(a)].start <= s[n].start
    BY <1>1, <2>1
  <2>7. ASSUME NEW k \in 1 .. n PROVE \E i \in 1 .. Len(a) : Inside(s[k], a[i])
    <3>1. CASE k = n
      <4>1. Inside(s[k], a[L + 1]) /\ L + 1 \in 1 .. Len(a)
        BY <1>1, <2>1, <3>1 DEF Inside
      <4> QED
        BY <4>1
    <3>2. CASE k # n
      <4>1. k \in 1 .. n - 1
        BY <1>1, <3>2
      <4>2. PICK i \in 1 .. L : Inside(s[k], m[i])
        BY <1>4, <4>1
      <4>3. i \in 1 .. Len(a) /\ a[i] = m[i]
        BY <1>1, <2>1
      <4> QED
        BY <4>2, <4>3
    <3> QED
      BY <3>1, <3>2
  <2>8. ASSUME NEW i \in 1 .. Len(a) PROVE Sums(s, Members(s, n, a[i]), a[i])
    <3>1. CASE i = L + 1
      <4>1. Members(s, n - 1, f) = {}
        <5> SUFFICES ASSUME NEW k \in 1 .. n - 1, Inside(s[k], f) PROVE FALSE
          BY DEF Members
        <5>1. PICK j \in 1 .. L : Inside(s[k], m[j])
          BY <1>4
        <5>2. s[k].end <= m[j].end /\ f.start <= s[k].start
          BY <5>1 DEF Inside
        <5>3. m[j].end <= f.start /\ m[j].end \in Nat
          BY <1>2, <2>2
        <5>4. s[k].start \in Nat /\ s[k].end \in Nat /\ s[k].start < s[k].end
          BY <1>3
        <5>5. f.start \in Nat
          BY <1>1
        <5> QED
          BY <5>2, <5>3, <5>4, <5>5
      <4>2. Inside(f, f)
        BY <1>1 DEF Inside
      <4>3. Members(s, n, f) = {n}
        BY <1>6, <4>1, <4>2
      <4> QED
        BY <1>1, <2>1, <3>1, <4>3, SumsOne
    <3>2. CASE i \in 1 .. L
      <4>1. ~ Inside(f, m[i])
        BY <1>1, <1>2, <2>2, <3>2 DEF Inside
      <4>2. Members(s, n, m[i]) = Members(s, n - 1, m[i])
        BY <1>6, <4>1
      <4> QED
        BY <1>4, <2>1, <3>2, <4>2
    <3> QED
      BY <2>1, <2>3, <3>1, <3>2
  <2> QED
    BY <2>1, <2>4, <2>5, <2>6, <2>7, <2>8 DEF Clusters, a, f
<1>8. CASE Extends(m, f)
  <2>1. /\ a \in Found /\ a # <<>> /\ Len(a) = L /\ \A i \in 1 .. L - 1 : a[i] = m[i]
        /\ a[L].start = m[L].start /\ a[L].label = m[L].label
        /\ a[L].end = IF f.end > m[L].end THEN f.end ELSE m[L].end
        /\ a[L].action = Stronger(m[L].action, f.action)
    BY <1>1, <1>8, AbsorbFacts DEF a, L
  <2>2. /\ L \in Nat /\ L > 0 /\ L \in 1 .. L /\ m[L].start <= f.start /\ f.start < m[L].end
        /\ a[L] \in Finding /\ m[L] \in Finding
    BY <1>1, <1>4a, <1>8, <2>1 DEF Extends, L, Found
  <2>3. \A i \in 1 .. L : i \in 1 .. L - 1 \/ i = L
    BY <2>2
  <2>4. /\ m[L].end <= a[L].end /\ f.end <= a[L].end /\ a[L].end \in Nat
        /\ a[L].start = m[L].start /\ m[L].start \in Nat /\ m[L].end \in Nat
        /\ m[L].start < a[L].end
    BY <1>1, <1>2, <2>1, <2>2
  <2>5. \A i \in 1 .. L - 1 : i \in 1 .. L /\ m[i].end <= m[L].start /\ a[i] = m[i]
    BY <1>4, <2>1, <2>2
  <2>6. Proper(a)
    <3> SUFFICES ASSUME NEW i \in 1 .. L PROVE a[i].start < a[i].end
      BY <2>1 DEF Proper
    <3> QED
      BY <1>2, <2>3, <2>4, <2>5
  <2>7. \A i, j \in 1 .. Len(a) : i < j => a[i].end <= a[j].start
    <3> SUFFICES ASSUME NEW i \in 1 .. L, NEW j \in 1 .. L, i < j
                 PROVE  a[i].end <= a[j].start
      BY <2>1
    <3>1. i \in 1 .. L - 1
      BY <2>2
    <3>2. CASE j = L
      BY <2>4, <2>5, <3>1, <3>2
    <3>3. CASE j \in 1 .. L - 1
      BY <1>4, <2>5, <3>1, <3>3
    <3> QED
      BY <2>3, <3>2, <3>3
  <2>8. a[Len(a)].start <= s[n].start
    BY <1>1, <2>1, <2>2, <2>4
  <2>9. ASSUME NEW k \in 1 .. n PROVE \E i \in 1 .. Len(a) : Inside(s[k], a[i])
    <3>1. CASE k = n
      <4>0. a[L].start <= f.start /\ f.end <= a[L].end
        BY <2>2, <2>4
      <4>1. Inside(s[k], a[L])
        BY <1>1, <3>1, <4>0 DEF Inside
      <4> QED
        BY <2>1, <2>2, <4>1
    <3>2. CASE k # n
      <4>1. k \in 1 .. n - 1
        BY <1>1, <3>2
      <4>2. PICK i \in 1 .. L : Inside(s[k], m[i])
        BY <1>4, <4>1
      <4>3. a[i].start = m[i].start /\ m[i].end <= a[i].end /\ a[i].end \in Nat
        <5>1. CASE i \in 1 .. L - 1
          <6>1. a[i] = m[i] /\ m[i].end \in Nat
            BY <1>2, <2>5, <5>1
          <6> QED
            BY <6>1
        <5>2. CASE i = L
          BY <2>4, <5>2
        <5> QED
          BY <2>3, <5>1, <5>2
      <4>4. s[k].end \in Nat /\ m[i].end \in Nat
        BY <1>2, <1>3, <4>1
      <4>5. m[i].start <= s[k].start /\ s[k].end <= m[i].end
        BY <4>2 DEF Inside
      <4>6. a[i].start <= s[k].start /\ s[k].end <= a[i].end
        BY <4>3, <4>4, <4>5
      <4>7. Inside(s[k], a[i])
        BY <4>6 DEF Inside
      <4> QED
        BY <2>1, <4>7
    <3> QED
      BY <3>1, <3>2
  <2>10. ASSUME NEW i \in 1 .. Len(a) PROVE Sums(s, Members(s, n, a[i]), a[i])
    <3>1. CASE i \in 1 .. L - 1
      <4>0. m[i].end <= m[L].start /\ m[i].end \in Nat /\ m[L].start \in Nat
        BY <1>2, <2>4, <2>5, <3>1
      <4>0a. m[L].start <= f.start /\ f.start < f.end /\ f.start \in Nat /\ f.end \in Nat
        BY <1>1, <2>2
      <4>0b. ~ (f.end <= m[i].end)
        BY <4>0, <4>0a
      <4>1. ~ Inside(f, m[i])
        BY <4>0b DEF Inside
      <4>2. Members(s, n, m[i]) = Members(s, n - 1, m[i])
        BY <1>6, <4>1
      <4> QED
        BY <1>4, <2>5, <3>1, <4>2
    <3>2. CASE i = L
      <4> DEFINE K == Members(s, n - 1, m[L])
      <4>1. Members(s, n - 1, a[L]) = K
        <5>1. ASSUME NEW k \in 1 .. n - 1, Inside(s[k], a[L]) PROVE Inside(s[k], m[L])
          <6>1. PICK j \in 1 .. L : Inside(s[k], m[j])
            BY <1>4
          <6>2. CASE j \in 1 .. L - 1
            <7>1. s[k].end <= m[j].end /\ m[j].end <= m[L].start /\ m[j].end \in Nat
              BY <1>2, <2>5, <6>1, <6>2 DEF Inside
            <7>2. m[L].start <= s[k].start
              BY <2>4, <5>1 DEF Inside
            <7> QED
              BY <1>3, <2>4, <7>1, <7>2
          <6> QED
            BY <2>3, <6>1, <6>2
        <5>2. ASSUME NEW k \in 1 .. n - 1, Inside(s[k], m[L]) PROVE Inside(s[k], a[L])
          BY <1>3, <2>4, <5>2 DEF Inside
        <5> QED
          BY <5>1, <5>2 DEF Members
      <4>2. Inside(f, a[L])
        BY <1>1, <2>2, <2>4 DEF Inside
      <4>3. Members(s, n, a[L]) = K \cup {n}
        BY <1>6, <4>1, <4>2
      <4>4. Sums(s, K, m[L]) /\ K \subseteq 1 .. n - 1
        BY <1>4, <1>5, <2>2
      <4> HIDE DEF K
      <4>5. Sums(s, K \cup {n}, a[L])
        BY <1>1, <2>1, <2>2, <4>4, SumsMore
      <4> QED
        BY <3>2, <4>3, <4>5
    <3> QED
      BY <2>1, <2>3, <3>1, <3>2
  <2> QED
    BY <2>1, <2>6, <2>7, <2>8, <2>9, <2>10 DEF Clusters, a, f
<1> QED
  BY <1>7, <1>8

LEMMA MergingKeeps ==
  ASSUME NEW s \in Found, Sorted(s), Proper(s)
  PROVE  Clusters(s, Len(s), Merging(s)[Len(s)])
<1> DEFINE g == Merging(s)
           S == {k \in 0 .. Len(s) : Clusters(s, k, g[k])}
<1>1. Len(s) \in Nat
  BY DEF Found
<1>2. g[0] = <<>> /\ \A n \in 1 .. Len(s) : g[n] = Absorb(g[n - 1], s[n])
  BY MergingEquation
<1> HIDE DEF g
<1>3. 0 \in S
  <2>1. Clusters(s, 0, <<>>)
    BY DEF Clusters, Found, Proper
  <2> QED
    BY <1>1, <1>2, <2>1
<1>4. ASSUME NEW k \in 1 .. Len(s), k - 1 \in S PROVE k \in S
  BY <1>1, <1>2, <1>4, ClustersStep
<1> HIDE DEF S
<1>5. \A k \in 1 .. Len(s) : k - 1 \in S => k \in S
  BY <1>4
<1>6. \A k \in 0 .. Len(s) : k \in S
  BY <1>1, <1>3, <1>5, UpTo
<1>7. Len(s) \in S
  BY <1>1, <1>6
<1> QED
  BY <1>7 DEF S, g

\* What dedupe_findings returns, in terms of its findings in some sorted order.
LEMMA DedupeClusters ==
  ASSUME NEW fs \in Found, Proper(fs)
  PROVE  \E s \in Found :
           /\ Sorted(s) /\ Proper(s) /\ ToSet(s) = ToSet(fs)
           /\ Clusters(s, Len(s), DedupeFindings(fs))
<1> DEFINE s == SortFindings(fs)
           N == 1 .. Len(fs)
<1>1. /\ s \in Found /\ Len(s) = Len(fs)
      /\ \A i, j \in N : i < j => ~ Before(s[j], s[i])
      /\ \A j \in N : \E n \in N : s[n] = fs[j]
      /\ \A n \in N : \E j \in N : s[n] = fs[j]
  BY SortFacts
<1>2. DedupeFindings(fs) = Merging(s)[Len(fs)]
  BY DEF DedupeFindings
<1> HIDE DEF s
<1>3. Sorted(s) /\ Proper(s)
  BY <1>1 DEF Sorted, Proper
<1>4. DOMAIN s = N /\ DOMAIN fs = N
  BY <1>1 DEF Found
<1>5. ToSet(s) = ToSet(fs)
  <2>1. ToSet(s) = {s[i] : i \in N} /\ ToSet(fs) = {fs[i] : i \in N}
    BY <1>4 DEF ToSet
  <2> HIDE DEF N
  <2>2. ASSUME NEW x \in ToSet(s) PROVE x \in ToSet(fs)
    <3>1. PICK i \in N : x = s[i]
      BY <2>1
    <3>2. PICK j \in N : s[i] = fs[j]
      BY <1>1
    <3> QED
      BY <2>1, <3>1, <3>2
  <2>3. ASSUME NEW x \in ToSet(fs) PROVE x \in ToSet(s)
    <3>1. PICK j \in N : x = fs[j]
      BY <2>1
    <3>2. PICK i \in N : s[i] = fs[j]
      BY <1>1
    <3> QED
      BY <2>1, <3>1, <3>2
  <2> QED
    BY <2>2, <2>3
<1>6. Clusters(s, Len(s), DedupeFindings(fs))
  BY <1>1, <1>2, <1>3, MergingKeeps
<1> QED
  BY <1>1, <1>3, <1>5, <1>6

LEMMA ElementsOf ==
  ASSUME NEW s \in Found
  PROVE  /\ \A f \in ToSet(s) : f \in Finding /\ \E k \in 1 .. Len(s) : f = s[k]
         /\ \A k \in 1 .. Len(s) : s[k] \in ToSet(s)
  BY DEF ToSet, Found

LEMMA InsideIsSubset ==
  ASSUME NEW f \in Finding, NEW x \in Finding, f.start < f.end
  PROVE  Inside(f, x) <=> Bytes(f) \subseteq Bytes(x)
<1>1. /\ f.start \in Nat /\ f.end \in Nat /\ x.start \in Nat /\ x.end \in Nat
  BY FindingFacts
<1>2. \A b : /\ b \in Bytes(f) <=> b \in Nat /\ f.start <= b /\ b < f.end
             /\ b \in Bytes(x) <=> b \in Nat /\ x.start <= b /\ b < x.end
  BY BytesFacts
<1>3. f.start \in Bytes(f) /\ f.end - 1 \in Bytes(f)
  BY <1>1, <1>2
<1>4. ASSUME Bytes(f) \subseteq Bytes(x) PROVE Inside(f, x)
  <2>1. x.start <= f.start /\ f.end - 1 < x.end
    BY <1>2, <1>3, <1>4
  <2> QED
    BY <1>1, <2>1 DEF Inside
<1>5. ASSUME Inside(f, x) PROVE Bytes(f) \subseteq Bytes(x)
  BY <1>1, <1>2, <1>5 DEF Inside
<1> QED
  BY <1>4, <1>5

\* dedupe_findings, for any findings: it joins what overlaps and nothing else.
THEOREM DedupeIsExact ==
  ASSUME NEW fs \in Found, Proper(fs)
  PROVE  ExactMerge(fs, DedupeFindings(fs))
<1> DEFINE merged == DedupeFindings(fs)
<1>1. PICK s \in Found : /\ Sorted(s) /\ Proper(s) /\ ToSet(s) = ToSet(fs)
                         /\ Clusters(s, Len(s), merged)
  BY DedupeClusters
<1> HIDE DEF merged
<1>2. /\ merged \in Found /\ Proper(merged)
      /\ \A i, j \in 1 .. Len(merged) : i < j => merged[i].end <= merged[j].start
      /\ \A k \in 1 .. Len(s) : \E i \in 1 .. Len(merged) : Inside(s[k], merged[i])
      /\ \A i \in 1 .. Len(merged) :
           Sums(s, Members(s, Len(s), merged[i]), merged[i])
  BY <1>1 DEF Clusters
<1>3. Len(merged) \in Nat
  BY <1>2 DEF Found
<1> DEFINE covered == UNION {Bytes(f) : f \in ToSet(fs)}
<1>4. \A i \in 2 .. Len(merged) : merged[i - 1].end <= merged[i].start
  <2> SUFFICES ASSUME NEW i \in 2 .. Len(merged) PROVE merged[i - 1].end <= merged[i].start
    OBVIOUS
  <2>1. i - 1 \in 1 .. Len(merged) /\ i \in 1 .. Len(merged) /\ i - 1 < i
    BY <1>3
  <2> QED
    BY <1>2, <2>1
<1>5. ASSUME NEW m \in ToSet(merged)
      PROVE  /\ \A b \in Bytes(m) : \E f \in ToSet(fs) : b \in Bytes(f)
             /\ \A b \in Bytes(m) : b + 1 \in Bytes(m) =>
                  \E f \in ToSet(fs) : b \in Bytes(f) /\ b + 1 \in Bytes(f)
  <2>1. PICK i \in 1 .. Len(merged) : m = merged[i]
    BY <1>2, ElementsOf
  <2>2. Sums(s, Members(s, Len(s), m), m)
    BY <1>2, <2>1
  <2>3. \A k \in Members(s, Len(s), m) : s[k] \in ToSet(fs)
    BY <1>1, ElementsOf DEF Members
  <2> QED
    BY <2>2, <2>3 DEF Sums
<1>6. ASSUME NEW f \in ToSet(fs)
      PROVE  \E m \in ToSet(merged) : Bytes(f) \subseteq Bytes(m)
  <2>1. PICK k \in 1 .. Len(s) : f = s[k]
    BY <1>1, ElementsOf
  <2>2. PICK i \in 1 .. Len(merged) : Inside(f, merged[i])
    BY <1>2, <2>1
  <2>3. f \in Finding /\ f.start < f.end /\ merged[i] \in Finding
    BY <1>1, <1>2, <2>1 DEF Proper, Found
  <2> QED
    BY <1>2, <2>2, <2>3, InsideIsSubset, ElementsOf
<1>7. UNION {Bytes(m) : m \in ToSet(merged)} = covered
  BY <1>5, <1>6
<1>8. ASSUME NEW b \in covered
      PROVE  (\E m \in ToSet(merged) : {b, b + 1} \subseteq Bytes(m))
               <=> (\E f \in ToSet(fs) : {b, b + 1} \subseteq Bytes(f))
  <2>1. ASSUME NEW m \in ToSet(merged), {b, b + 1} \subseteq Bytes(m)
        PROVE  \E f \in ToSet(fs) : {b, b + 1} \subseteq Bytes(f)
    <3>1. PICK f \in ToSet(fs) : b \in Bytes(f) /\ b + 1 \in Bytes(f)
      BY <1>5, <2>1
    <3> QED
      BY <3>1
  <2>2. ASSUME NEW f \in ToSet(fs), {b, b + 1} \subseteq Bytes(f)
        PROVE  \E m \in ToSet(merged) : {b, b + 1} \subseteq Bytes(m)
    BY <1>6, <2>2
  <2> QED
    BY <2>1, <2>2
<1> QED
  BY <1>4, <1>7, <1>8 DEF ExactMerge, merged

\* dedupe_findings, for any findings: a span has the strongest action and the
\* label of a finding that comes first.
THEOREM DedupeKeepsTheStrongest ==
  ASSUME NEW fs \in Found, Proper(fs), NEW m \in ToSet(DedupeFindings(fs))
  PROVE  Strongest(fs, m)
<1> DEFINE merged == DedupeFindings(fs)
<1>1. PICK s \in Found : /\ Sorted(s) /\ Proper(s) /\ ToSet(s) = ToSet(fs)
                         /\ Clusters(s, Len(s), merged)
  BY DedupeClusters
<1>2. /\ merged \in Found
      /\ \A i \in 1 .. Len(merged) :
           Sums(s, Members(s, Len(s), merged[i]), merged[i])
  BY <1>1 DEF Clusters
<1>3. PICK i \in 1 .. Len(merged) : m = merged[i]
  BY <1>2, ElementsOf
<1> DEFINE K == Members(s, Len(s), m)
           inside == {f \in ToSet(fs) : Bytes(f) \subseteq Bytes(m)}
           actions == {f.action : f \in inside}
<1>4. Sums(s, K, m) /\ m \in Finding
  BY <1>2, <1>3 DEF Found
<1>5. \A k \in 1 .. Len(s) : s[k] \in Finding /\ s[k].start < s[k].end
  BY <1>1 DEF Proper, Found
<1>6. \A k \in 1 .. Len(s) : k \in K <=> s[k] \in inside
  <2> SUFFICES ASSUME NEW k \in 1 .. Len(s) PROVE k \in K <=> s[k] \in inside
    OBVIOUS
  <2>1. k \in K <=> Inside(s[k], m)
    BY DEF Members
  <2>2. s[k] \in ToSet(fs)
    BY <1>1, ElementsOf
  <2> QED
    BY <1>4, <1>5, <2>1, <2>2, InsideIsSubset
<1>7. \A f \in inside : \E k \in 1 .. Len(s) : f = s[k]
  BY <1>1, ElementsOf
<1>8. K \subseteq 1 .. Len(s)
  BY DEF Members
<1> HIDE DEF K, inside, merged
<1>9. \A f \in inside : \E k \in K : f = s[k]
  BY <1>6, <1>7
<1>10. \A k \in K : s[k] \in inside
  BY <1>6, <1>8
<1>11. m.action = "block" <=> "block" \in actions
  <2>1. "block" \in actions <=> \E f \in inside : f.action = "block"
    OBVIOUS
  <2> QED
    BY <1>4, <1>9, <1>10, <2>1 DEF Sums
<1>12. m.action = "flag" <=> \A f \in inside : f.action = "flag"
  BY <1>4, <1>9, <1>10 DEF Sums
<1>13. "redact" \in actions <=> \E f \in inside : f.action = "redact"
  OBVIOUS
<1>14. m.action \in Actions /\ \A f \in inside : f.action \in Actions
  BY <1>4, <1>5, <1>7, FindingFacts
<1>15. m.action = (IF "block" \in actions THEN "block"
                   ELSE IF "redact" \in actions THEN "redact" ELSE "flag")
  <2>0. "block" \in actions <=> \E f \in inside : f.action = "block"
    OBVIOUS
  <2> HIDE DEF actions
  <2>1. CASE "block" \in actions
    BY <1>11, <2>1
  <2>2. CASE "block" \notin actions /\ "redact" \in actions
    BY <1>11, <1>12, <1>13, <1>14, <2>2 DEF Actions
  <2>3. CASE "block" \notin actions /\ "redact" \notin actions
    BY <1>12, <1>13, <1>14, <2>0, <2>3 DEF Actions
  <2> QED
    BY <2>1, <2>2, <2>3
<1>16. \E f \in inside : f.label = m.label /\ \A g \in inside : ~ Before(g, f)
  <2>1. PICK k \in K : s[k].label = m.label /\ \A l \in K : k <= l
    BY <1>4 DEF Sums
  <2>2. ASSUME NEW g \in inside PROVE ~ Before(g, s[k])
    <3>1. PICK l \in K : g = s[l]
      BY <1>9
    <3>2. k \in 1 .. Len(s) /\ l \in 1 .. Len(s) /\ k <= l
      BY <1>8, <2>1
    <3>3. s[k].start \in Nat /\ s[k].end \in Nat
      BY <1>5, <3>2, FindingFacts
    <3>4. CASE k = l
      BY <3>1, <3>3, <3>4 DEF Before
    <3>5. CASE k # l
      <4>1. k < l
        BY <3>2, <3>5 DEF Found
      <4> QED
        BY <1>1, <3>1, <3>2, <4>1 DEF Sorted
    <3> QED
      BY <3>4, <3>5
  <2> QED
    BY <1>10, <2>1, <2>2
<1> QED
  BY <1>15, <1>16 DEF Strongest, inside

-----------------------------------------------------------------------------
(* The sidecar's entities.                                                 *)

Entity == [start : Nat, end : Nat]

\* What the loop over the entities keeps true of the findings m, n entities on:
\* the old ones are in place and the others are entities that redact; each entity
\* overlaps one of them.
Admits(fs, es, n, m) ==
  /\ m \in Found /\ Len(fs) <= Len(m)
  /\ \A i \in 1 .. Len(fs) : m[i] = fs[i]
  /\ \A i \in Len(fs) + 1 .. Len(m) :
       /\ m[i].action = "redact"
       /\ \E k \in 1 .. n : m[i].start = es[k].start /\ m[i].end = es[k].end
  /\ \A k \in 1 .. n : \E i \in 1 .. Len(m) : SpansOverlap(es[k], m[i])

NerFinding(e) == [start |-> e.start, end |-> e.end, label |-> "ner", action |-> "redact"]

LEMMA NerFacts ==
  ASSUME NEW e \in Entity
  PROVE  /\ e.start \in Nat /\ e.end \in Nat /\ NerFinding(e) \in Finding
         /\ NerFinding(e).start = e.start /\ NerFinding(e).end = e.end
         /\ NerFinding(e).action = "redact"
<1>1. e.start \in Nat /\ e.end \in Nat
  BY DEF Entity
<1>2. "ner" \in Labels
  BY DEF Labels
<1>3. "redact" \in Actions
  BY DEF Actions
<1>4. NerFinding(e) \in Finding
  BY <1>1, <1>2, <1>3 DEF NerFinding, Finding
<1> QED
  BY <1>1, <1>4 DEF NerFinding

LEMMA AdmitTyped ==
  ASSUME NEW m \in Found, NEW e \in Entity
  PROVE  AdmitEntity(m, e) \in Found
<1> DEFINE f == NerFinding(e)
<1>1. f \in Finding
  BY NerFacts
<1>2. AdmitEntity(m, e) \in {m, Append(m, f)}
  BY DEF AdmitEntity, NerFinding
<1> HIDE DEF f
<1> QED
  BY <1>1, <1>2 DEF Found

LEMMA AdmittingEquation ==
  ASSUME NEW fs \in Found, NEW es \in Seq(Entity)
  PROVE  /\ Admitting(fs, es)[0] = fs
         /\ \A n \in 1 .. Len(es) :
              Admitting(fs, es)[n] = AdmitEntity(Admitting(fs, es)[n - 1], es[n])
<1> DEFINE step == [p \in Found \X Entity |-> AdmitEntity(p[1], p[2])]
           g == Admitting(fs, es)
<1>1. step \in [Found \X Entity -> Found]
  <2>1. \A p \in Found \X Entity : AdmitEntity(p[1], p[2]) \in Found
    BY AdmitTyped
  <2> QED
    BY <2>1
<1>2. \A m \in Found, e \in Entity : step[<<m, e>>] = AdmitEntity(m, e)
  OBVIOUS
<1>3. Len(es) \in Nat /\ \A n \in 1 .. Len(es) : es[n] \in Entity
  OBVIOUS
<1> HIDE DEF step
<1>4. PICK h : Runs(h, Found, fs, step, es)
  BY <1>1, FoldExists
<1>5. \A n \in 0 .. Len(es) : h[n] = IF n = 0 THEN fs ELSE AdmitEntity(h[n - 1], es[n])
  <2> SUFFICES ASSUME NEW n \in 0 .. Len(es), n # 0
               PROVE  h[n] = AdmitEntity(h[n - 1], es[n])
    BY <1>4 DEF Runs
  <2>1. n - 1 \in 0 .. Len(es) /\ es[n] \in Entity /\ h[n - 1] \in Found
    BY <1>3, <1>4 DEF Runs
  <2>2. h[n] = step[<<h[n - 1], es[n]>>]
    BY <1>3, <1>4 DEF Runs
  <2> QED
    BY <1>2, <2>1, <2>2
<1>6. h = [n \in 0 .. Len(es) |-> IF n = 0 THEN fs ELSE AdmitEntity(h[n - 1], es[n])]
  <2>1. h = [n \in 0 .. Len(es) |-> h[n]]
    BY <1>4 DEF Runs
  <2> QED
    BY <1>5, <2>1
<1>7. g = CHOOSE u :
        u = [n \in 0 .. Len(es) |-> IF n = 0 THEN fs ELSE AdmitEntity(u[n - 1], es[n])]
  BY DEF Admitting
<1> HIDE DEF g
<1>8. g = [n \in 0 .. Len(es) |-> IF n = 0 THEN fs ELSE AdmitEntity(g[n - 1], es[n])]
  BY <1>6, <1>7
<1>9. \A n \in 0 .. Len(es) : g[n] = IF n = 0 THEN fs ELSE AdmitEntity(g[n - 1], es[n])
  BY <1>8
<1> QED
  BY <1>3, <1>9 DEF g

LEMMA AdmitKeeps ==
  ASSUME NEW fs \in Found, NEW es \in Seq(Entity), NEW n \in 1 .. Len(es), NEW m,
         Admits(fs, es, n - 1, m), es[n].start < es[n].end
  PROVE  Admits(fs, es, n, AdmitEntity(m, es[n]))
<1> DEFINE e == es[n]
           f == NerFinding(e)
           a == AdmitEntity(m, e)
<1>1. /\ e \in Entity /\ e.start \in Nat /\ e.end \in Nat /\ e.start < e.end
      /\ n \in Nat /\ Len(fs) \in Nat /\ e = es[n]
      /\ f.start = e.start /\ f.end = e.end /\ f.action = "redact" /\ f \in Finding
  <2>1. e \in Entity /\ n \in Nat /\ Len(fs) \in Nat /\ e.start < e.end
    BY DEF Found
  <2> QED
    BY <2>1, NerFacts
<1>2. /\ m \in Found /\ Len(m) \in Nat /\ Len(fs) <= Len(m)
      /\ \A i \in 1 .. Len(fs) : m[i] = fs[i]
      /\ \A i \in Len(fs) + 1 .. Len(m) :
           /\ m[i].action = "redact"
           /\ \E k \in 1 .. n - 1 : m[i].start = es[k].start /\ m[i].end = es[k].end
      /\ \A k \in 1 .. n - 1 : \E i \in 1 .. Len(m) : SpansOverlap(es[k], m[i])
  <2>1. m \in Found
    BY DEF Admits
  <2>2. Len(m) \in Nat
    BY <2>1 DEF Found
  <2> QED
    BY <2>1, <2>2 DEF Admits
<1>3. a = IF \E i \in DOMAIN m : SpansOverlap(e, m[i]) THEN m ELSE Append(m, f)
  BY DEF AdmitEntity, NerFinding
<1>4. DOMAIN m = 1 .. Len(m) /\ \A k \in 1 .. n : k \in 1 .. n - 1 \/ k = n
  BY <1>1, <1>2 DEF Found
<1>5. \A k \in 1 .. n - 1 : k \in 1 .. n
  BY <1>1
<1> HIDE DEF e, f, a
<1>6. CASE \E i \in DOMAIN m : SpansOverlap(e, m[i])
  <2>1. a = m
    BY <1>3, <1>6
  <2>2. \A i \in Len(fs) + 1 .. Len(m) :
          /\ m[i].action = "redact"
          /\ \E k \in 1 .. n : m[i].start = es[k].start /\ m[i].end = es[k].end
    BY <1>2, <1>5
  <2>3. ASSUME NEW k \in 1 .. n PROVE \E i \in 1 .. Len(m) : SpansOverlap(es[k], m[i])
    <3>1. CASE k = n
      BY <1>1, <1>4, <1>6, <3>1
    <3>2. CASE k \in 1 .. n - 1
      BY <1>2, <3>2
    <3> QED
      BY <1>4, <3>1, <3>2
  <2>4. Admits(fs, es, n, m)
    BY <1>2, <2>2, <2>3 DEF Admits
  <2> QED
    BY <2>1, <2>4 DEF a, e
<1>7. CASE ~ \E i \in DOMAIN m : SpansOverlap(e, m[i])
  <2>1. a = Append(m, f)
    BY <1>3, <1>7
  <2>2. /\ a \in Found /\ Len(a) = Len(m) + 1 /\ a[Len(m) + 1] = f
        /\ \A i \in 1 .. Len(m) : a[i] = m[i]
    BY <1>1, <1>2, <2>1 DEF Found
  <2>3. \A i \in 1 .. Len(fs) : a[i] = fs[i]
    BY <1>1, <1>2, <2>2
  <2>4. ASSUME NEW i \in Len(fs) + 1 .. Len(a)
        PROVE  /\ a[i].action = "redact"
               /\ \E k \in 1 .. n : a[i].start = es[k].start /\ a[i].end = es[k].end
    <3>1. CASE i = Len(m) + 1
      BY <1>1, <2>2, <3>1
    <3>2. CASE i # Len(m) + 1
      <4>1. i \in Len(fs) + 1 .. Len(m) /\ i \in 1 .. Len(m)
        BY <1>1, <1>2, <2>2, <3>2
      <4>2. a[i] = m[i] /\ m[i].action = "redact"
        BY <1>2, <2>2, <4>1
      <4>3. PICK k \in 1 .. n - 1 : m[i].start = es[k].start /\ m[i].end = es[k].end
        BY <1>2, <4>1
      <4> QED
        BY <1>5, <4>2, <4>3
    <3> QED
      BY <3>1, <3>2
  <2>5. ASSUME NEW k \in 1 .. n PROVE \E i \in 1 .. Len(a) : SpansOverlap(es[k], a[i])
    <3>1. CASE k = n
      <4>1. SpansOverlap(es[k], a[Len(m) + 1])
        BY <1>1, <2>2, <3>1 DEF SpansOverlap
      <4>2. Len(m) + 1 \in 1 .. Len(a)
        BY <1>2, <2>2
      <4> QED
        BY <4>1, <4>2
    <3>2. CASE k \in 1 .. n - 1
      <4>1. PICK i \in 1 .. Len(m) : SpansOverlap(es[k], m[i])
        BY <1>2, <3>2
      <4>2. i \in 1 .. Len(a) /\ a[i] = m[i]
        BY <1>2, <2>2
      <4> QED
        BY <4>1, <4>2
    <3> QED
      BY <1>4, <3>1, <3>2
  <2> QED
    BY <1>1, <1>2, <2>2, <2>3, <2>4, <2>5 DEF Admits, a, e
<1> QED
  BY <1>6, <1>7

LEMMA WithEntitiesAdmits ==
  ASSUME NEW fs \in Found, NEW es \in Seq(Entity),
         \A k \in 1 .. Len(es) : es[k].start < es[k].end
  PROVE  Admits(fs, es, Len(es), WithEntities(fs, es))
<1> DEFINE g == Admitting(fs, es)
           S == {k \in 0 .. Len(es) : Admits(fs, es, k, g[k])}
<1>1. Len(es) \in Nat
  OBVIOUS
<1>2. g[0] = fs /\ \A n \in 1 .. Len(es) : g[n] = AdmitEntity(g[n - 1], es[n])
  BY AdmittingEquation
<1>3. WithEntities(fs, es) = g[Len(es)]
  BY DEF WithEntities
<1> HIDE DEF g
<1>4. 0 \in S
  <2>1. Len(fs) \in Nat
    BY DEF Found
  <2>2. Admits(fs, es, 0, fs)
    BY <2>1 DEF Admits
  <2> QED
    BY <1>1, <1>2, <2>2
<1>5. ASSUME NEW k \in 1 .. Len(es), k - 1 \in S PROVE k \in S
  BY <1>1, <1>2, <1>5, AdmitKeeps
<1> HIDE DEF S
<1>6. \A k \in 1 .. Len(es) : k - 1 \in S => k \in S
  BY <1>5
<1>7. \A k \in 0 .. Len(es) : k \in S
  BY <1>1, <1>4, <1>6, UpTo
<1>8. Len(es) \in S
  BY <1>1, <1>7
<1> QED
  BY <1>3, <1>8 DEF S

-----------------------------------------------------------------------------
(* Texts, and what their bytes are shown as.                               *)

Symbols == [kind : {"byte", "token"}, at : Nat, label : Labels \cup {""}]
Written == Seq(Symbols)

LEMMA SymbolFacts ==
  /\ \A b \in Nat : Byte(b) \in Symbols
  /\ \A label \in Labels : Token(label) \in Symbols
  /\ \A a, b : Byte(a) = Byte(b) => a = b
  /\ \A b, label : Byte(b) # Token(label)
<1>1. \A b \in Nat : Byte(b) \in Symbols
  BY DEF Byte, Symbols
<1>2. \A label \in Labels : Token(label) \in Symbols
  BY DEF Token, Symbols
<1>3. \A b : Byte(b).at = b /\ Byte(b).kind = "byte"
  BY DEF Byte
<1>4. \A label : Token(label).kind = "token"
  BY DEF Token
<1>5. ASSUME NEW a, NEW b, Byte(a) = Byte(b) PROVE a = b
  BY <1>3, <1>5
<1>6. ASSUME NEW b, NEW label, Byte(b) = Token(label) PROVE FALSE
  <2>1. Byte(b).kind = "byte" /\ Byte(b).kind = "token"
    BY <1>3, <1>4, <1>6
  <2> QED
    BY <2>1
<1> QED
  BY <1>1, <1>2, <1>5, <1>6

LEMMA Joined ==
  ASSUME NEW p \in Written, NEW q \in Written
  PROVE  /\ Len(p) \in Nat /\ Len(q) \in Nat
         /\ p \o q \in Written /\ Len(p \o q) = Len(p) + Len(q)
         /\ \A i \in 1 .. Len(p) + Len(q) :
              (p \o q)[i] = IF i <= Len(p) THEN p[i] ELSE q[i - Len(p)]
<1>1. p \in Seq(Symbols) /\ q \in Seq(Symbols)
  BY DEF Written
<1>2. Len(p) \in Nat /\ Len(q) \in Nat
  BY <1>1
<1>3. /\ p \o q \in Seq(Symbols) /\ Len(p \o q) = Len(p) + Len(q)
      /\ \A i \in 1 .. Len(p) + Len(q) :
           (p \o q)[i] = IF i <= Len(p) THEN p[i] ELSE q[i - Len(p)]
  BY <1>1, ConcatProperties
<1> QED
  BY <1>2, <1>3 DEF Written

\* The bytes from a up to c, as they are.
Plain(a, c) == [i \in 1 .. c - a |-> Byte(a + i - 1)]

LEMMA PlainFacts ==
  ASSUME NEW c \in Nat, NEW a \in 0 .. c
  PROVE  /\ Plain(a, c) \in Written /\ Len(Plain(a, c)) = c - a
         /\ \A i \in 1 .. c - a : Plain(a, c)[i] = Byte(a + i - 1)
<1>1. c - a \in Nat /\ \A i \in 1 .. c - a : a + i - 1 \in Nat
  OBVIOUS
<1>2. \A i \in 1 .. c - a : Byte(a + i - 1) \in Symbols
  BY <1>1, SymbolFacts
<1>3. Plain(a, c) \in [1 .. c - a -> Symbols]
  BY <1>2 DEF Plain
<1>4. \A i \in 1 .. c - a : Plain(a, c)[i] = Byte(a + i - 1)
  BY DEF Plain
<1> HIDE DEF Plain
<1>5. Plain(a, c) \in Written /\ Len(Plain(a, c)) = c - a
  BY <1>1, <1>3 DEF Written
<1> QED
  BY <1>4, <1>5

LEMMA PlainFirst ==
  ASSUME NEW c \in Nat, NEW a \in Nat, a < c
  PROVE  Plain(a, c) = <<Byte(a)>> \o Plain(a + 1, c)
<1> DEFINE one == <<Byte(a)>>
           rest == Plain(a + 1, c)
           whole == Plain(a, c)
<1>1. a \in 0 .. c /\ a + 1 \in 0 .. c
  OBVIOUS
<1>2. /\ whole \in Written /\ Len(whole) = c - a
      /\ \A i \in 1 .. c - a : whole[i] = Byte(a + i - 1)
  BY <1>1, PlainFacts
<1>3. /\ rest \in Written /\ Len(rest) = c - (a + 1)
      /\ \A i \in 1 .. c - (a + 1) : rest[i] = Byte((a + 1) + i - 1)
  BY <1>1, PlainFacts
<1>4. one \in Written /\ Len(one) = 1 /\ one[1] = Byte(a)
  <2>1. Byte(a) \in Symbols
    BY SymbolFacts
  <2> QED
    BY <2>1 DEF Written
<1> HIDE DEF one, rest, whole
<1>5. /\ one \o rest \in Written /\ Len(one \o rest) = c - a
      /\ \A i \in 1 .. c - a : (one \o rest)[i] = IF i <= 1 THEN one[i] ELSE rest[i - 1]
  <2> DEFINE both == one \o rest
  <2>1. /\ both \in Written /\ Len(both) = Len(one) + Len(rest)
        /\ \A i \in 1 .. Len(one) + Len(rest) :
             both[i] = IF i <= Len(one) THEN one[i] ELSE rest[i - Len(one)]
    BY <1>3, <1>4, Joined
  <2> HIDE DEF both
  <2>2. Len(one) + Len(rest) = c - a
    BY <1>3, <1>4
  <2>3. both \in Written /\ Len(both) = c - a
    BY <2>1, <2>2
  <2>4. \A i \in 1 .. c - a : both[i] = IF i <= 1 THEN one[i] ELSE rest[i - 1]
    BY <1>4, <2>1, <2>2
  <2> QED
    BY <2>3, <2>4 DEF both
<1>6. ASSUME NEW i \in 1 .. c - a PROVE (one \o rest)[i] = whole[i]
  <2>1. CASE i = 1
    <3>1. (one \o rest)[i] = Byte(a) /\ whole[i] = Byte(a + i - 1) /\ a + i - 1 = a
      BY <1>2, <1>4, <1>5, <2>1
    <3> QED
      BY <3>1
  <2>2. CASE i # 1
    <3>1. i - 1 \in 1 .. c - (a + 1) /\ ~ (i <= 1) /\ (a + 1) + (i - 1) - 1 = a + i - 1
      BY <2>2
    <3>2. (one \o rest)[i] = rest[i - 1] /\ rest[i - 1] = Byte((a + 1) + (i - 1) - 1)
      BY <1>3, <1>5, <3>1
    <3> QED
      BY <1>2, <3>1, <3>2
  <2> QED
    BY <2>1, <2>2
<1>7. one \o rest = whole
  BY <1>2, <1>5, <1>6, SeqEqual DEF Written
<1> QED
  BY <1>7 DEF one, rest, whole

\* What replace_range keeps of a text whose bytes up to c are as they were.
LEMMA PlainPrefix ==
  ASSUME NEW c \in Nat, NEW b \in 0 .. c, NEW t \in Written
  PROVE  SubSeq(Plain(0, c) \o t, 1, b) = Plain(0, b)
<1> DEFINE p == Plain(0, c)
           q == Plain(0, b)
           u == p \o t
           v == SubSeq(u, 1, b)
<1>1. /\ p \in Written /\ Len(p) = c - 0 /\ \A i \in 1 .. c - 0 : p[i] = Byte(0 + i - 1)
  BY PlainFacts
<1>2. /\ q \in Written /\ Len(q) = b - 0 /\ \A i \in 1 .. b - 0 : q[i] = Byte(0 + i - 1)
  BY PlainFacts
<1>3. b \in Nat /\ b \in Int /\ 1 \in Int /\ \A i \in 1 .. b : i \in 1 .. c - 0 /\ i \in 1 .. b - 0
  OBVIOUS
<1> HIDE DEF p, q
<1>4. \A i \in 1 .. b : u[i] = p[i] /\ p[i] \in Symbols
  BY <1>1, <1>3 DEF Written
<1> HIDE DEF u
<1>5. \A i \in 1 .. b : u[i] \in Symbols
  BY <1>4
<1>6. /\ v \in Seq(Symbols) /\ Len(v) = (IF 1 <= b THEN b - 1 + 1 ELSE 0)
      /\ \A i \in 1 .. b - 1 + 1 : v[i] = u[1 + i - 1]
  BY <1>3, <1>5, SubSeqProperties
<1> HIDE DEF v
<1>7. Len(v) = b /\ \A i \in 1 .. b : i \in 1 .. b - 1 + 1 /\ 1 + i - 1 = i
  BY <1>3, <1>6
<1>8. \A i \in 1 .. b : v[i] = q[i]
  <2> SUFFICES ASSUME NEW i \in 1 .. b PROVE v[i] = q[i]
    OBVIOUS
  <2>1. v[i] = u[i] /\ u[i] = p[i]
    BY <1>4, <1>6, <1>7
  <2> QED
    BY <1>1, <1>2, <1>3, <2>1
<1>9. Len(q) = b
  BY <1>2, <1>3
<1>10. v = q
  BY <1>2, <1>6, <1>7, <1>8, <1>9, SeqEqual DEF Written
<1> QED
  BY <1>10 DEF v, q, u, p

LEMMA PlainSuffix ==
  ASSUME NEW c \in Nat, NEW b \in 0 .. c, NEW t \in Written
  PROVE  SubSeq(Plain(0, c) \o t, b + 1, Len(Plain(0, c) \o t)) = Plain(b, c) \o t
<1> DEFINE p == Plain(0, c)
           q == Plain(b, c)
           u == p \o t
           n == Len(u)
           v == SubSeq(u, b + 1, n)
           w == q \o t
           T == Len(t)
<1>1. /\ p \in Written /\ Len(p) = c - 0 /\ \A i \in 1 .. c - 0 : p[i] = Byte(0 + i - 1)
  BY PlainFacts
<1>2. /\ q \in Written /\ Len(q) = c - b /\ \A i \in 1 .. c - b : q[i] = Byte(b + i - 1)
  BY PlainFacts
<1>3. b \in Nat /\ b <= c /\ T \in Nat
  BY DEF Written
<1>4. Len(p) = c
  BY <1>1
<1> HIDE DEF p, q
<1>5. /\ u \in Written /\ n = c + T
      /\ \A i \in 1 .. c + T : u[i] = IF i <= c THEN p[i] ELSE t[i - c]
  BY <1>1, <1>4, Joined
<1>6. /\ w \in Written /\ Len(w) = (c - b) + T
      /\ \A i \in 1 .. (c - b) + T : w[i] = IF i <= c - b THEN q[i] ELSE t[i - (c - b)]
  <2>1. /\ w \in Written /\ Len(w) = Len(q) + T
        /\ \A i \in 1 .. Len(q) + T : w[i] = IF i <= Len(q) THEN q[i] ELSE t[i - Len(q)]
    BY <1>2, Joined
  <2> HIDE DEF w, T
  <2>2. w \in Written /\ Len(w) = (c - b) + T
    BY <1>2, <2>1
  <2>3. \A i \in 1 .. (c - b) + T : w[i] = IF i <= c - b THEN q[i] ELSE t[i - (c - b)]
    BY <1>2, <2>1
  <2> QED
    BY <2>2, <2>3
<1>7. \A i \in 1 .. c + T : u[i] \in Symbols
  BY <1>5 DEF Written
<1> HIDE DEF u, w, T
<1>7a. n = c + T /\ n \in Int /\ b + 1 \in Int /\ \A i \in b + 1 .. n : u[i] \in Symbols
  BY <1>3, <1>5, <1>7
<1> HIDE DEF n
<1>8. /\ v \in Seq(Symbols) /\ Len(v) = (IF b + 1 <= n THEN n - (b + 1) + 1 ELSE 0)
      /\ \A i \in 1 .. n - (b + 1) + 1 : v[i] = u[(b + 1) + i - 1]
  BY <1>7a, SubSeqProperties
<1> HIDE DEF v
<1>9. Len(v) = (c - b) + T
  BY <1>3, <1>7a, <1>8
<1>10. ASSUME NEW i \in 1 .. (c - b) + T PROVE v[i] = w[i]
  <2>1. /\ i \in 1 .. n - (b + 1) + 1 /\ (b + 1) + i - 1 = b + i /\ b + i \in 1 .. c + T
    BY <1>3, <1>7a
  <2>2. v[i] = u[b + i] /\ u[b + i] = IF b + i <= c THEN p[b + i] ELSE t[b + i - c]
    BY <1>5, <1>8, <2>1
  <2>3. w[i] = IF i <= c - b THEN q[i] ELSE t[i - (c - b)]
    BY <1>6
  <2>4. CASE i <= c - b
    <3>1. b + i <= c /\ b + i \in 1 .. c - 0 /\ i \in 1 .. c - b /\ 0 + (b + i) - 1 = b + i - 1
      BY <1>3, <2>4
    <3>2. p[b + i] = Byte(0 + (b + i) - 1) /\ q[i] = Byte(b + i - 1)
      BY <1>1, <1>2, <3>1
    <3> QED
      BY <2>2, <2>3, <2>4, <3>1, <3>2
  <2>5. CASE ~ (i <= c - b)
    <3>1. ~ (b + i <= c) /\ b + i - c = i - (c - b)
      BY <1>3, <2>5
    <3> QED
      BY <2>2, <2>3, <2>5, <3>1
  <2> QED
    BY <2>4, <2>5
<1>11. v = w
  BY <1>6, <1>8, <1>9, <1>10, SeqEqual DEF Written
<1> QED
  BY <1>11 DEF v, w, n, u, p, q

\* Spans that can be cut out of one text.
ApartCuts(cuts) ==
  /\ cuts \subseteq Finding
  /\ \A f \in cuts : f.start < f.end
  /\ \A f, g \in cuts : f = g \/ f.end <= g.start \/ g.end <= f.start

LEMMA ShowsFacts ==
  ASSUME NEW cuts, ApartCuts(cuts), NEW b \in Nat
  PROVE  /\ Shows(cuts, b) \in Written
         /\ \A f \in cuts : b = f.start => Shows(cuts, b) = <<Token(f.label)>>
         /\ \A f \in cuts : f.start < b /\ b < f.end => Shows(cuts, b) = <<>>
         /\ (\A f \in cuts : b \notin Bytes(f)) => Shows(cuts, b) = <<Byte(b)>>
<1>1. /\ \A f \in cuts : f \in Finding /\ f.start < f.end /\ f.start \in Nat /\ f.end \in Nat
      /\ \A f, g \in cuts : f = g \/ f.end <= g.start \/ g.end <= f.start
  BY FindingFacts DEF ApartCuts
<1>2. \A f \in cuts : b \in Bytes(f) <=> f.start <= b /\ b < f.end
  BY <1>1, BytesFacts
<1>3. ASSUME NEW f \in cuts, b = f.start PROVE Shows(cuts, b) = <<Token(f.label)>>
  <2>1. \A g \in cuts : g.start = b => g = f
    BY <1>1, <1>3
  <2>2. (CHOOSE g \in cuts : g.start = b) = f
    BY <1>3, <2>1
  <2>3. \E g \in cuts : g.start = b
    BY <1>3
  <2> QED
    BY <2>2, <2>3 DEF Shows
<1>4. ASSUME NEW f \in cuts, f.start < b, b < f.end PROVE Shows(cuts, b) = <<>>
  <2>1. ~ \E g \in cuts : g.start = b
    BY <1>1, <1>4
  <2>2. \E g \in cuts : b \in Bytes(g)
    BY <1>1, <1>2, <1>4
  <2> QED
    BY <2>1, <2>2 DEF Shows
<1>5. ASSUME \A f \in cuts : b \notin Bytes(f) PROVE Shows(cuts, b) = <<Byte(b)>>
  <2>1. ~ \E g \in cuts : g.start = b
    BY <1>1, <1>2, <1>5
  <2> QED
    BY <1>5, <2>1 DEF Shows
<1>6. Shows(cuts, b) \in Written
  <2>1. CASE \A f \in cuts : b \notin Bytes(f)
    <3>1. Byte(b) \in Symbols
      BY SymbolFacts
    <3> QED
      BY <1>5, <2>1, <3>1 DEF Written
  <2>2. CASE \E f \in cuts : b \in Bytes(f)
    <3>1. PICK f \in cuts : f.start <= b /\ b < f.end
      BY <1>2, <2>2
    <3>2. CASE f.start = b
      <4>1. Token(f.label) \in Symbols
        BY <1>1, FindingFacts, SymbolFacts
      <4>2. Shows(cuts, b) = <<Token(f.label)>>
        BY <1>3, <3>2
      <4> QED
        BY <4>1, <4>2 DEF Written
    <3>3. CASE f.start # b
      <4>1. f.start < b
        BY <1>1, <3>1, <3>3
      <4>2. Shows(cuts, b) = <<>>
        BY <1>4, <3>1, <4>1
      <4> QED
        BY <4>2 DEF Written
    <3> QED
      BY <3>2, <3>3
  <2> QED
    BY <2>1, <2>2
<1> QED
  BY <1>3, <1>4, <1>5, <1>6

LEMMA ShowingEquation ==
  ASSUME NEW size \in Nat, NEW cuts, ApartCuts(cuts)
  PROVE  /\ Showing(size, cuts)[0] = <<>>
         /\ \A n \in 0 .. size : Showing(size, cuts)[n] \in Written
         /\ \A n \in 1 .. size :
              Showing(size, cuts)[n] = Shows(cuts, size - n) \o Showing(size, cuts)[n - 1]
<1> DEFINE turns == [n \in 1 .. size |-> n]
           step == [p \in Written \X (1 .. size) |-> Shows(cuts, size - p[2]) \o p[1]]
           g == Showing(size, cuts)
<1>1. step \in [Written \X (1 .. size) -> Written]
  <2> SUFFICES ASSUME NEW p \in Written \X (1 .. size)
               PROVE  Shows(cuts, size - p[2]) \o p[1] \in Written
    OBVIOUS
  <2>1. size - p[2] \in Nat /\ p[1] \in Written
    OBVIOUS
  <2>2. Shows(cuts, size - p[2]) \in Written
    BY <2>1, ShowsFacts
  <2> QED
    BY <2>1, <2>2, Joined
<1>2. \A t \in Written, n \in 1 .. size : step[<<t, n>>] = Shows(cuts, size - n) \o t
  OBVIOUS
<1>3. turns \in Seq(1 .. size) /\ Len(turns) = size /\ \A n \in 1 .. size : turns[n] = n
  OBVIOUS
<1>3a. <<>> \in Written
  BY DEF Written
<1> HIDE DEF step, turns
<1>4. PICK h : Runs(h, Written, <<>>, step, turns)
  BY <1>1, <1>3, <1>3a, FoldExists
<1>5. h \in [0 .. size -> Written]
  BY <1>3, <1>4 DEF Runs
<1>6. \A n \in 0 .. size : h[n] = IF n = 0 THEN <<>> ELSE Shows(cuts, size - n) \o h[n - 1]
  <2> SUFFICES ASSUME NEW n \in 0 .. size, n # 0
               PROVE  h[n] = Shows(cuts, size - n) \o h[n - 1]
    BY <1>4 DEF Runs
  <2>1. n - 1 \in 0 .. size /\ n \in 1 .. size /\ h[n - 1] \in Written
    BY <1>5
  <2>2. h[n] = step[<<h[n - 1], n>>]
    BY <1>3, <1>4, <2>1 DEF Runs
  <2> QED
    BY <1>2, <2>1, <2>2
<1>7. h = [n \in 0 .. size |-> IF n = 0 THEN <<>> ELSE Shows(cuts, size - n) \o h[n - 1]]
  <2>1. h = [n \in 0 .. size |-> h[n]]
    BY <1>5
  <2> QED
    BY <1>6, <2>1
<1>8. g = CHOOSE u :
        u = [n \in 0 .. size |-> IF n = 0 THEN <<>> ELSE Shows(cuts, size - n) \o u[n - 1]]
  BY DEF Showing
<1> HIDE DEF g
<1>9. g = [n \in 0 .. size |-> IF n = 0 THEN <<>> ELSE Shows(cuts, size - n) \o g[n - 1]]
  BY <1>7, <1>8
<1>10. \A n \in 0 .. size : g[n] = IF n = 0 THEN <<>> ELSE Shows(cuts, size - n) \o g[n - 1]
  BY <1>9
<1>11. g[0] = <<>> /\ \A n \in 1 .. size : g[n] = Shows(cuts, size - n) \o g[n - 1]
  <2>1. 0 \in 0 .. size /\ \A n \in 1 .. size : n \in 0 .. size /\ n # 0
    OBVIOUS
  <2>2. g[0] = <<>>
    BY <1>10, <2>1
  <2>3. ASSUME NEW n \in 1 .. size PROVE g[n] = Shows(cuts, size - n) \o g[n - 1]
    BY <1>10, <2>1
  <2> QED
    BY <2>2, <2>3
<1> DEFINE S == {k \in 0 .. size : g[k] \in Written}
<1>12. 0 \in S
  BY <1>3a, <1>11
<1>13. ASSUME NEW k \in 1 .. size, k - 1 \in S PROVE k \in S
  <2>1. size - k \in Nat /\ g[k - 1] \in Written /\ k \in 0 .. size
    BY <1>13
  <2>2. Shows(cuts, size - k) \in Written
    BY <2>1, ShowsFacts
  <2>3. Shows(cuts, size - k) \o g[k - 1] \in Written
    BY <2>1, <2>2, Joined
  <2> QED
    BY <1>11, <2>1, <2>3
<1> HIDE DEF S
<1>14. \A k \in 1 .. size : k - 1 \in S => k \in S
  BY <1>13
<1>15. \A k \in 0 .. size : k \in S
  BY <1>12, <1>14, UpTo
<1> QED
  BY <1>11, <1>15 DEF S, g

\* What byte a and the bytes after it are shown as.
Rest(size, cuts, a) == Showing(size, cuts)[size - a]

LEMMA RestFacts ==
  ASSUME NEW size \in Nat, NEW cuts, ApartCuts(cuts)
  PROVE  /\ Rest(size, cuts, size) = <<>>
         /\ \A a \in 0 .. size : Rest(size, cuts, a) \in Written
         /\ \A a \in 0 .. size : a < size =>
              Rest(size, cuts, a) = Shows(cuts, a) \o Rest(size, cuts, a + 1)
<1>1. size - size = 0 /\ \A a \in 0 .. size : size - a \in 0 .. size
  OBVIOUS
<1>2. Rest(size, cuts, size) = <<>>
  BY <1>1, ShowingEquation DEF Rest
<1>3. \A a \in 0 .. size : Rest(size, cuts, a) \in Written
  BY <1>1, ShowingEquation DEF Rest
<1>4. ASSUME NEW a \in 0 .. size, a < size
      PROVE  Rest(size, cuts, a) = Shows(cuts, a) \o Rest(size, cuts, a + 1)
  <2>1. size - a \in 1 .. size /\ size - (size - a) = a /\ (size - a) - 1 = size - (a + 1)
    BY <1>4
  <2>2. Showing(size, cuts)[size - a]
          = Shows(cuts, size - (size - a)) \o Showing(size, cuts)[(size - a) - 1]
    BY <2>1, ShowingEquation
  <2> QED
    BY <2>1, <2>2 DEF Rest
<1> QED
  BY <1>2, <1>3, <1>4

LEMMA EmptyJoins ==
  ASSUME NEW t \in Written
  PROVE  <<>> \o t = t /\ t \o <<>> = t
<1>1. t \in Seq(Symbols)
  BY DEF Written
<1> QED
  BY <1>1, ConcatEmptySeq

LEMMA JoinsAssociate ==
  ASSUME NEW p \in Written, NEW q \in Written, NEW t \in Written
  PROVE  (p \o q) \o t = p \o (q \o t)
<1>1. p \in Seq(Symbols) /\ q \in Seq(Symbols) /\ t \in Seq(Symbols)
  BY DEF Written
<1> QED
  BY <1>1, ConcatAssociative

\* Where nothing is cut the text is shown as it is.
LEMMA ShownPlain ==
  ASSUME NEW size \in Nat, NEW cuts, ApartCuts(cuts),
         NEW c \in 0 .. size, NEW a \in 0 .. c,
         \A b \in a .. c - 1 : \A f \in cuts : b \notin Bytes(f)
  PROVE  Rest(size, cuts, a) = Plain(a, c) \o Rest(size, cuts, c)
<1> DEFINE R(x) == Rest(size, cuts, x)
           n == c - a
           S == {k \in 0 .. n : R(c - k) = Plain(c - k, c) \o R(c)}
<1>1. n \in Nat /\ c \in Nat /\ a \in Nat /\ c - n = a /\ c - 0 = c
  OBVIOUS
<1>2. R(c) \in Written
  BY RestFacts
<1>3. Plain(c, c) = <<>>
  <2>1. c \in 0 .. c /\ c - c = 0
    BY <1>1
  <2>2. Plain(c, c) \in Written /\ Len(Plain(c, c)) = c - c
    BY <1>1, <2>1, PlainFacts
  <2> QED
    BY <2>1, <2>2 DEF Written
<1> HIDE DEF R, n
<1>4. 0 \in S
  <2>1. R(c) = Plain(c, c) \o R(c)
    BY <1>2, <1>3, EmptyJoins
  <2> QED
    BY <1>1, <2>1
<1>5. ASSUME NEW k \in 1 .. n, k - 1 \in S PROVE k \in S
  <2> DEFINE x == c - k
  <2>1. /\ x \in 0 .. size /\ x < size /\ x \in Nat /\ x < c /\ x \in a .. c - 1
        /\ x + 1 = c - (k - 1) /\ x + 1 \in 0 .. c /\ k \in 0 .. n
    BY <1>1 DEF n
  <2>2. Shows(cuts, x) = <<Byte(x)>>
    BY <2>1, ShowsFacts
  <2>3. R(x) = Shows(cuts, x) \o R(x + 1)
    BY <2>1, RestFacts DEF R
  <2>4. R(x + 1) = Plain(x + 1, c) \o R(c)
    BY <1>5, <2>1
  <2>5. Plain(x, c) = <<Byte(x)>> \o Plain(x + 1, c)
    BY <1>1, <2>1, PlainFirst
  <2>6. Plain(x + 1, c) \in Written /\ <<Byte(x)>> \in Written
    <3>1. Byte(x) \in Symbols
      BY <2>1, SymbolFacts
    <3>2. Plain(x + 1, c) \in Written
      BY <1>1, <2>1, PlainFacts
    <3> QED
      BY <3>1, <3>2 DEF Written
  <2> HIDE DEF x
  <2>7. R(x) = Plain(x, c) \o R(c)
    <3> DEFINE one == <<Byte(x)>>
               p == Plain(x + 1, c)
               t == R(c)
    <3>1. one \in Written /\ p \in Written /\ t \in Written
      BY <1>2, <2>6
    <3>2. R(x) = one \o (p \o t) /\ Plain(x, c) = one \o p
      BY <2>2, <2>3, <2>4, <2>5
    <3> HIDE DEF one, p
    <3>3. (one \o p) \o t = one \o (p \o t)
      BY <3>1, JoinsAssociate
    <3> QED
      BY <3>2, <3>3
  <2> QED
    BY <2>1, <2>7 DEF x
<1> HIDE DEF S
<1>6. \A k \in 1 .. n : k - 1 \in S => k \in S
  BY <1>5
<1>7. \A k \in 0 .. n : k \in S
  BY <1>1, <1>4, <1>6, UpTo
<1>8. n \in S
  BY <1>1, <1>7
<1> QED
  BY <1>1, <1>8 DEF S, R

\* A cut is shown as its token.
LEMMA ShownCut ==
  ASSUME NEW size \in Nat, NEW cuts, ApartCuts(cuts), NEW f \in cuts, f.end <= size
  PROVE  Rest(size, cuts, f.start) = <<Token(f.label)>> \o Rest(size, cuts, f.end)
<1> DEFINE R(x) == Rest(size, cuts, x)
           a == f.start
           c == f.end
           n == c - (a + 1)
           S == {k \in 0 .. n : R(c - k) = R(c)}
<1>1. a \in Nat /\ c \in Nat /\ a < c /\ c <= size
  BY FindingFacts DEF ApartCuts
<1>2. n \in Nat /\ c - n = a + 1 /\ c - 0 = c /\ a \in 0 .. size /\ a < size
  BY <1>1
<1>3. Shows(cuts, a) = <<Token(f.label)>>
  BY <1>1, ShowsFacts
<1>4. \A b \in Nat : a < b /\ b < c => Shows(cuts, b) = <<>>
  BY ShowsFacts
<1> HIDE DEF R, a, c, n
<1>5. 0 \in S
  BY <1>2
<1>6. ASSUME NEW k \in 1 .. n, k - 1 \in S PROVE k \in S
  <2> DEFINE x == c - k
  <2>1. /\ x \in 0 .. size /\ x < size /\ x \in Nat /\ a < x /\ x < c
        /\ x + 1 = c - (k - 1) /\ x + 1 \in 0 .. size /\ k \in 0 .. n
    BY <1>1 DEF n
  <2>2. Shows(cuts, x) = <<>>
    BY <1>4, <2>1
  <2>3. R(x) = Shows(cuts, x) \o R(x + 1) /\ R(x + 1) \in Written
    BY <2>1, RestFacts DEF R
  <2> HIDE DEF x
  <2>4. R(x) = R(x + 1)
    BY <2>2, <2>3, EmptyJoins
  <2>5. R(x) = R(c)
    BY <1>6, <2>1, <2>4
  <2> QED
    BY <2>1, <2>5 DEF x
<1> HIDE DEF S
<1>7. \A k \in 1 .. n : k - 1 \in S => k \in S
  BY <1>6
<1>8. \A k \in 0 .. n : k \in S
  BY <1>2, <1>5, <1>7, UpTo
<1>9. n \in S
  BY <1>2, <1>8
<1>10. R(a + 1) = R(c)
  BY <1>2, <1>9 DEF S
<1>11. R(a) = Shows(cuts, a) \o R(a + 1)
  BY <1>2, RestFacts DEF R
<1> QED
  BY <1>3, <1>10, <1>11 DEF R, a, c

-----------------------------------------------------------------------------
(* Applying the redactions.                                                *)

Apart(m) == \A i, j \in 1 .. Len(m) : i < j => m[i].end <= m[j].start
Within(m, size) == \A i \in 1 .. Len(m) : m[i].end <= size
Cuts(m) == {f \in ToSet(m) : f.action = "redact"}

\* What is in order already stays as it is.
LEMMA SortedStays ==
  ASSUME NEW m \in Found, Proper(m), Apart(m)
  PROVE  SortFindings(m) = m
<1> DEFINE N == 1 .. Len(m)
<1>1. Len(m) \in Nat /\ DOMAIN m = N /\ \A i \in N : m[i].start \in Nat /\ m[i].end \in Nat
  <2>1. \A i \in N : m[i] \in Finding
    BY DEF Found
  <2> QED
    BY <2>1, FindingFacts DEF Found
<1>2. \A i \in N : m[i].start < m[i].end
  BY DEF Proper
<1>3. \A i, j \in N : i < j => m[i].end <= m[j].start
  BY DEF Apart
<1>4. \A i, j \in N : i < j => Before(m[i], m[j]) /\ ~ Before(m[j], m[i])
  BY <1>1, <1>2, <1>3 DEF Before
<1>5. \A j \in N : Ahead(m, j) = 1 .. j - 1
  <2> SUFFICES ASSUME NEW j \in N, NEW i PROVE i \in Ahead(m, j) <=> i \in 1 .. j - 1
    OBVIOUS
  <2>1. i \in Ahead(m, j) <=>
          i \in N /\ (Before(m[i], m[j]) \/ (~ Before(m[j], m[i]) /\ i < j))
    BY <1>1 DEF Ahead
  <2>2. ~ Before(m[j], m[j])
    BY <1>1 DEF Before
  <2>3. i \in N => (i < j \/ i = j \/ j < i)
    BY <1>1
  <2>4. i \in Ahead(m, j) => i \in N /\ i < j
    BY <1>4, <2>1, <2>2, <2>3
  <2>5. i \in N /\ i < j => i \in Ahead(m, j)
    BY <1>4, <2>1
  <2>6. i \in 1 .. j - 1 <=> i \in N /\ i < j
    BY <1>1
  <2> QED
    BY <2>4, <2>5, <2>6
<1>6. \A j \in N : Cardinality(Ahead(m, j)) = j - 1
  <2> SUFFICES ASSUME NEW j \in N PROVE Cardinality(1 .. j - 1) = j - 1
    BY <1>5
  <2>1. j - 1 \in Int /\ 1 \in Int /\ j \in Nat /\ j >= 1
    BY <1>1
  <2>2. Cardinality(1 .. j - 1) = IF 1 > j - 1 THEN 0 ELSE (j - 1) - 1 + 1
    BY <2>1, FS_Interval
  <2> QED
    BY <2>1, <2>2
<1> DEFINE at(k) == CHOOSE j \in DOMAIN m : Cardinality(Ahead(m, j)) = k - 1
<1>7. ASSUME NEW n \in N PROVE at(n) = n
  <2>1. \A j \in N : Cardinality(Ahead(m, j)) = n - 1 <=> j = n
    BY <1>1, <1>6
  <2> QED
    BY <1>1, <2>1
<1>7a. SortFindings(m) = [n \in N |-> m[at(n)]]
  BY <1>1 DEF SortFindings
<1> HIDE DEF at
<1>8. SortFindings(m) = [n \in N |-> m[n]]
  BY <1>7, <1>7a
<1>9. m = [n \in N |-> m[n]]
  BY <1>1 DEF Found
<1> QED
  BY <1>8, <1>9

LEMMA CutsAreApart ==
  ASSUME NEW m \in Found, Proper(m), Apart(m)
  PROVE  ApartCuts(Cuts(m))
<1>1. \A f \in Cuts(m) : f \in Finding /\ \E k \in 1 .. Len(m) : f = m[k]
  BY ElementsOf DEF Cuts
<1>2. \A f \in Cuts(m) : f.start < f.end
  BY <1>1 DEF Proper
<1>3. ASSUME NEW f \in Cuts(m), NEW g \in Cuts(m)
      PROVE  f = g \/ f.end <= g.start \/ g.end <= f.start
  <2>1. PICK i \in 1 .. Len(m), j \in 1 .. Len(m) : f = m[i] /\ g = m[j]
    BY <1>1
  <2>2. i = j \/ i < j \/ j < i
    BY DEF Found
  <2> QED
    BY <2>1, <2>2 DEF Apart
<1> QED
  BY <1>1, <1>2, <1>3 DEF ApartCuts

Span == {f \in Finding : f.start < f.end}

LEMMA RedactTyped ==
  ASSUME NEW t \in Written, NEW f \in Span
  PROVE  Redact(t, f) \in Written
<1> DEFINE n == Len(t)
           a == f.start
           c == f.end + 1
           p == SubSeq(t, 1, a)
           q == SubSeq(t, c, n)
           one == <<Token(f.label)>>
<1>1. /\ n \in Nat /\ a \in Nat /\ f.end \in Nat /\ a < f.end /\ f.label \in Labels
      /\ \A i \in 1 .. n : t[i] \in Symbols
  <2>1. f \in Finding /\ f.start < f.end
    BY DEF Span
  <2> QED
    BY <2>1, FindingFacts DEF Written
<1>2. one \in Written
  <2>1. Token(f.label) \in Symbols
    BY <1>1, SymbolFacts
  <2> QED
    BY <2>1 DEF Written
<1>3. CASE f.end <= n
  <2>1. 1 \in Int /\ a \in Int /\ \A i \in 1 .. a : t[i] \in Symbols
    BY <1>1, <1>3
  <2>2. c \in Int /\ n \in Int /\ \A i \in c .. n : t[i] \in Symbols
    BY <1>1, <1>3
  <2> HIDE DEF a, c, n
  <2>3. p \in Seq(Symbols)
    BY <2>1, SubSeqProperties
  <2>4. q \in Seq(Symbols)
    BY <2>2, SubSeqProperties
  <2>5. p \in Written /\ q \in Written
    BY <2>3, <2>4 DEF Written
  <2> HIDE DEF p, q, one
  <2>6. p \o one \in Written
    BY <1>2, <2>5, Joined
  <2>7. (p \o one) \o q \in Written
    BY <2>5, <2>6, Joined
  <2>8. Redact(t, f) \in {t, (p \o one) \o q}
    BY DEF Redact, ReplaceRange, p, q, one, a, c, n
  <2> QED
    BY <2>7, <2>8
<1>4. CASE ~ (f.end <= n)
  BY <1>4 DEF Redact
<1> QED
  BY <1>3, <1>4

LEMMA RedactingEquation ==
  ASSUME NEW t \in Written, NEW s \in Found, Proper(s)
  PROVE  /\ Redacting(t, s)[0] = t
         /\ \A n \in 1 .. Len(s) :
              Redacting(t, s)[n] = Redact(Redacting(t, s)[n - 1], s[Len(s) + 1 - n])
<1> DEFINE L == Len(s)
           back == [n \in 1 .. L |-> s[L + 1 - n]]
           step == [p \in Written \X Span |-> Redact(p[1], p[2])]
           g == Redacting(t, s)
<1>1. step \in [Written \X Span -> Written]
  <2>1. \A p \in Written \X Span : Redact(p[1], p[2]) \in Written
    BY RedactTyped
  <2> QED
    BY <2>1
<1>2. \A u \in Written, f \in Span : step[<<u, f>>] = Redact(u, f)
  OBVIOUS
<1>3. back \in Seq(Span) /\ Len(back) = L /\ \A n \in 1 .. L : back[n] = s[L + 1 - n]
  <2>1. L \in Nat /\ \A i \in 1 .. L : s[i] \in Span
    BY DEF Found, Proper, Span
  <2> HIDE DEF L
  <2>2. \A n \in 1 .. L : L + 1 - n \in 1 .. L
    BY <2>1
  <2>3. back \in [1 .. L -> Span]
    BY <2>1, <2>2
  <2>4. \A n \in 1 .. L : back[n] = s[L + 1 - n]
    OBVIOUS
  <2> HIDE DEF back
  <2> QED
    BY <2>1, <2>3, <2>4
<1>3a. L \in Nat /\ \A n \in 1 .. L : back[n] \in Span
  <2>1. L \in Nat
    BY DEF Found
  <2> HIDE DEF back
  <2> QED
    BY <1>3, <2>1
<1> HIDE DEF step, back
<1>4. PICK h : Runs(h, Written, t, step, back)
  BY <1>1, <1>3, FoldExists
<1>5. h \in [0 .. L -> Written] /\ h[0] = t
  BY <1>3, <1>4 DEF Runs
<1>6. \A n \in 0 .. L : h[n] = IF n = 0 THEN t ELSE Redact(h[n - 1], s[L + 1 - n])
  <2> SUFFICES ASSUME NEW n \in 0 .. L, n # 0
               PROVE  h[n] = Redact(h[n - 1], s[L + 1 - n])
    BY <1>5
  <2>1. n - 1 \in 0 .. L /\ n \in 1 .. L
    BY <1>3a
  <2>2. h[n] = step[<<h[n - 1], back[n]>>]
    BY <1>3, <1>4, <2>1 DEF Runs
  <2>3. h[n - 1] \in Written /\ back[n] \in Span /\ back[n] = s[L + 1 - n]
    BY <1>3, <1>3a, <1>5, <2>1
  <2> QED
    BY <1>2, <2>2, <2>3
<1>7. h = [n \in 0 .. L |-> IF n = 0 THEN t ELSE Redact(h[n - 1], s[L + 1 - n])]
  <2>1. h = [n \in 0 .. L |-> h[n]]
    BY <1>5
  <2> QED
    BY <1>6, <2>1
<1>8. g = CHOOSE u :
        u = [n \in 0 .. L |-> IF n = 0 THEN t ELSE Redact(u[n - 1], s[L + 1 - n])]
  BY DEF Redacting
<1> HIDE DEF g, L
<1>9. g = [n \in 0 .. L |-> IF n = 0 THEN t ELSE Redact(g[n - 1], s[L + 1 - n])]
  BY <1>7, <1>8
<1>10. \A n \in 0 .. L : g[n] = IF n = 0 THEN t ELSE Redact(g[n - 1], s[L + 1 - n])
  BY <1>9
<1>11. 0 \in 0 .. L /\ \A n \in 1 .. L : n \in 0 .. L /\ n # 0
  BY <1>3a
<1>12. ASSUME NEW n \in 1 .. L PROVE g[n] = Redact(g[n - 1], s[L + 1 - n])
  BY <1>10, <1>11
<1> QED
  BY <1>10, <1>11, <1>12 DEF g, L

\* With nothing to cut.
LEMMA PlainSplits ==
  ASSUME NEW c \in Nat, NEW a \in 0 .. c
  PROVE  Plain(0, c) = Plain(0, a) \o Plain(a, c)
<1>1. ApartCuts({})
  BY DEF ApartCuts
<1>2. c \in 0 .. c /\ 0 \in 0 .. c /\ a \in 0 .. c /\ 0 \in 0 .. a /\ a \in Nat
  OBVIOUS
<1>3. Rest(c, {}, c) = <<>>
  BY <1>1, RestFacts
<1>4. Rest(c, {}, 0) = Plain(0, c) \o Rest(c, {}, c)
  BY <1>1, <1>2, ShownPlain
<1>5. Rest(c, {}, 0) = Plain(0, a) \o Rest(c, {}, a)
  BY <1>1, <1>2, ShownPlain
<1>6. Rest(c, {}, a) = Plain(a, c) \o Rest(c, {}, c)
  BY <1>1, <1>2, ShownPlain
<1>7. Plain(0, c) \in Written /\ Plain(a, c) \in Written
  BY <1>2, PlainFacts
<1>8. Plain(0, c) \o <<>> = Plain(0, c) /\ Plain(a, c) \o <<>> = Plain(a, c)
  BY <1>7, EmptyJoins
<1> QED
  BY <1>3, <1>4, <1>5, <1>6, <1>8

\* What replace_range does to a text that is still as it was up to c, for a span
\* that ends by then.
LEMMA ReplaceIs ==
  ASSUME NEW c \in Nat, NEW f \in Span, f.end <= c, NEW t \in Written
  PROVE  ReplaceRange(Plain(0, c) \o t, f)
           = Plain(0, f.start) \o (<<Token(f.label)>> \o (Plain(f.end, c) \o t))
<1> DEFINE u == Plain(0, c) \o t
           p == Plain(0, f.start)
           one == <<Token(f.label)>>
           q == Plain(f.end, c) \o t
           before == SubSeq(u, 1, f.start)
           after == SubSeq(u, f.end + 1, Len(u))
<1>1. f \in Finding /\ f.start < f.end
  BY DEF Span
<1>2. f.start \in Nat /\ f.end \in Nat /\ f.label \in Labels
  BY <1>1, FindingFacts
<1>3. f.start \in 0 .. c /\ f.end \in 0 .. c /\ 0 \in 0 .. f.start
  BY <1>1, <1>2
<1>4. before = p
  BY <1>3, PlainPrefix
<1>5. after = q
  BY <1>3, PlainSuffix
<1>6. one \in Written
  <2>1. Token(f.label) \in Symbols
    BY <1>2, SymbolFacts
  <2> QED
    BY <2>1 DEF Written
<1>7. p \in Written /\ Plain(f.end, c) \in Written
  BY <1>2, <1>3, PlainFacts
<1>8. q \in Written
  BY <1>7, Joined
<1>9. ReplaceRange(u, f) = (before \o one) \o after
  BY DEF ReplaceRange
<1> HIDE DEF before, after, u, p, one, q
<1>10. ReplaceRange(u, f) = (p \o one) \o q
  BY <1>4, <1>5, <1>9
<1>11. (p \o one) \o q = p \o (one \o q)
  <2>1. p \in Written /\ one \in Written /\ q \in Written
    BY <1>6, <1>7, <1>8
  <2> QED
    BY <2>1, JoinsAssociate, ZenonT(30)
<1> QED
  BY <1>10, <1>11 DEF u, p, one, q

\* One turn, from the right: what is right of the span is as it will be shown.
LEMMA RedactKeeps ==
  ASSUME NEW size \in Nat, NEW cuts, ApartCuts(cuts),
         NEW c \in 0 .. size, NEW f \in Span, f.end <= c,
         f.action = "redact" <=> f \in cuts,
         \A b \in f.end .. c - 1 : \A g \in cuts : b \notin Bytes(g),
         f \notin cuts => \A b \in f.start .. c - 1 : \A g \in cuts : b \notin Bytes(g)
  PROVE  Redact(Plain(0, c) \o Rest(size, cuts, c), f)
           = Plain(0, f.start) \o Rest(size, cuts, f.start)
<1> DEFINE R(x) == Rest(size, cuts, x)
           u == Plain(0, c) \o R(c)
<1>1. /\ f \in Finding /\ f.start \in Nat /\ f.end \in Nat /\ f.start < f.end
      /\ c \in Nat
  <2>1. f \in Finding /\ f.start < f.end
    BY DEF Span
  <2> QED
    BY <2>1, FindingFacts
<1>2. f.start \in 0 .. c /\ f.end \in 0 .. c /\ 0 \in 0 .. c
  BY <1>1
<1>3. R(c) \in Written
  BY RestFacts
<1>4. Plain(0, c) \in Written /\ Len(Plain(0, c)) = c - 0
  BY <1>1, <1>2, PlainFacts
<1>5. f.end <= Len(u)
  <2>1. Len(u) = Len(Plain(0, c)) + Len(R(c)) /\ Len(R(c)) \in Nat
    BY <1>3, <1>4, Joined
  <2> HIDE DEF u, R
  <2> QED
    BY <1>1, <1>4, <2>1
<1>6. CASE f \in cuts
  <2>1. Redact(u, f) = ReplaceRange(u, f)
    BY <1>5, <1>6 DEF Redact
  <2>2. ReplaceRange(u, f)
          = Plain(0, f.start) \o (<<Token(f.label)>> \o (Plain(f.end, c) \o R(c)))
    BY <1>1, <1>3, ReplaceIs
  <2>3. R(f.end) = Plain(f.end, c) \o R(c)
    BY <1>2, ShownPlain
  <2>4. R(f.start) = <<Token(f.label)>> \o R(f.end)
    <3>1. f.end <= size
      BY <1>1
    <3> QED
      BY <1>6, <3>1, ShownCut
  <2> QED
    BY <2>1, <2>2, <2>3, <2>4
<1>7. CASE f \notin cuts
  <2>1. Redact(u, f) = u
    BY <1>7 DEF Redact
  <2>2. R(f.start) = Plain(f.start, c) \o R(c)
    BY <1>2, <1>7, ShownPlain
  <2>3. Plain(0, c) = Plain(0, f.start) \o Plain(f.start, c)
    BY <1>1, <1>2, PlainSplits
  <2>4. Plain(0, f.start) \in Written /\ Plain(f.start, c) \in Written
    <3>1. 0 \in 0 .. f.start
      BY <1>1
    <3> QED
      BY <1>1, <1>2, <3>1, PlainFacts
  <2> DEFINE p == Plain(0, f.start)
             q == Plain(f.start, c)
             t == R(c)
  <2>5. p \in Written /\ q \in Written /\ t \in Written
    BY <1>3, <2>4
  <2>6. u = (p \o q) \o t /\ R(f.start) = q \o t
    BY <2>2, <2>3
  <2> HIDE DEF p, q, t, u
  <2>7. (p \o q) \o t = p \o (q \o t)
    BY <2>5, JoinsAssociate
  <2>8. Redact(u, f) = p \o R(f.start)
    BY <2>1, <2>6, <2>7
  <2> QED
    BY <2>8 DEF p, u
<1> QED
  BY <1>6, <1>7

\* apply_redactions, for any merged findings of a text: each cut is replaced by its
\* token and every other byte is shown as it is.
THEOREM RedactingIsExact ==
  ASSUME NEW size \in Nat, NEW m \in Found, Proper(m), Apart(m), Within(m, size)
  PROVE  ApplyRedactions(TextOf(size), m) = Showing(size, Cuts(m))[size]
<1> DEFINE L == Len(m)
           cuts == Cuts(m)
           R(x) == Rest(size, cuts, x)
           t == Plain(0, size)
           g == Redacting(t, m)
           from(n) == IF n = 0 THEN size ELSE m[L + 1 - n].start
           S == {n \in 0 .. L : from(n) \in 0 .. size /\ g[n] = Plain(0, from(n)) \o R(from(n))}
<1>1. /\ L \in Nat /\ \A i \in 1 .. L : m[i] \in Finding /\ m[i] \in Span /\ m[i] \in ToSet(m)
      /\ \A i \in 1 .. L : /\ m[i].start \in Nat /\ m[i].end \in Nat
                           /\ m[i].start < m[i].end /\ m[i].end <= size
      /\ \A i, j \in 1 .. L : i < j => m[i].end <= m[j].start
  <2>1. L \in Nat /\ \A i \in 1 .. L : m[i] \in Finding /\ m[i].start < m[i].end
    BY DEF Found, Proper
  <2>2. \A i \in 1 .. L : m[i] \in Span /\ m[i] \in ToSet(m)
    BY <2>1, ElementsOf DEF Span
  <2>3. \A i \in 1 .. L : m[i].start \in Nat /\ m[i].end \in Nat
    BY <2>1, FindingFacts
  <2> QED
    BY <2>1, <2>2, <2>3 DEF Apart, Within
<1>2. ApartCuts(cuts)
  BY CutsAreApart
<1>3. \A f \in cuts : \E k \in 1 .. L : f = m[k]
  BY ElementsOf DEF Cuts
<1>4. \A i \in 1 .. L : m[i].action = "redact" <=> m[i] \in cuts
  BY <1>1 DEF Cuts
<1>5. \A k \in 1 .. L : \A b : b \in Bytes(m[k]) <=> b \in Nat /\ m[k].start <= b /\ b < m[k].end
  BY <1>1, BytesFacts
<1>6. t \in Written /\ TextOf(size) = t
  <2>1. 0 \in 0 .. size /\ size - 0 = size
    OBVIOUS
  <2>2. Plain(0, size) \in Written
    BY <2>1, PlainFacts
  <2>3. \A i \in 1 .. size : 0 + i - 1 = i - 1
    OBVIOUS
  <2>4. Plain(0, size) = [i \in 1 .. size |-> Byte(i - 1)]
    BY <2>1, <2>3 DEF Plain
  <2> QED
    BY <2>2, <2>4 DEF TextOf
<1>7. g[0] = t /\ \A n \in 1 .. L : g[n] = Redact(g[n - 1], m[L + 1 - n])
  BY <1>6, RedactingEquation
<1>8. ApplyRedactions(TextOf(size), m) = g[L]
  BY <1>6, SortedStays DEF ApplyRedactions
<1> HIDE DEF g, L, cuts
<1>9. 0 \in S
  <2>1. t \o <<>> = t
    BY <1>6, EmptyJoins
  <2>2. R(size) = <<>>
    BY <1>2, RestFacts
  <2>3. from(0) = size /\ size \in 0 .. size /\ 0 \in 0 .. L
    BY <1>1
  <2> HIDE DEF R
  <2>4. g[0] = Plain(0, size) \o R(size)
    BY <1>7, <2>1, <2>2
  <2> HIDE DEF from
  <2> QED
    BY <2>3, <2>4
<1>10. ASSUME NEW n \in 1 .. L, n - 1 \in S PROVE n \in S
  <2> DEFINE c == from(n - 1)
             j == L + 1 - n
             f == m[j]
  <2>1. j \in 1 .. L /\ n # 0 /\ n \in 0 .. L
    BY <1>1
  <2>2. c \in 0 .. size /\ g[n - 1] = Plain(0, c) \o R(c)
    BY <1>10
  <2>3. f.end <= c /\ \A i \in 1 .. L : j < i => c <= m[i].start
    <3>1. CASE n - 1 = 0
      <4>1. c = size /\ \A i \in 1 .. L : ~ (j < i)
        BY <1>1, <3>1
      <4> QED
        BY <1>1, <2>1, <4>1
    <3>2. CASE n - 1 # 0
      <4> DEFINE l == L + 1 - (n - 1)
      <4>1. c = m[l].start
        BY <3>2
      <4>2. l \in 1 .. L /\ j < l /\ \A i \in 1 .. L : j < i => i = l \/ l < i
        BY <1>1, <3>2
      <4> HIDE DEF l, j
      <4>3. \A i \in 1 .. L : l < i => m[l].start <= m[i].start
        <5>1. \A i \in 1 .. L : l < i => m[l].start < m[l].end /\ m[l].end <= m[i].start
          BY <1>1, <4>2
        <5> QED
          BY <1>1, <4>2, <5>1
      <4> QED
        BY <1>1, <2>1, <4>1, <4>2, <4>3
    <3> QED
      BY <3>1, <3>2
  <2>4. /\ f \in Span /\ f \in Finding /\ f.start \in Nat /\ f.end \in Nat
        /\ f.start < f.end /\ c \in Nat
        /\ f.action = "redact" <=> f \in cuts
    BY <1>1, <1>4, <2>1, <2>2
  <2> HIDE DEF c, f, j
  <2>5. ASSUME NEW b \in f.start .. c - 1, NEW h \in cuts, b \in Bytes(h)
        PROVE  h = f /\ b < f.end
    <3>1. PICK k \in 1 .. L : h = m[k]
      BY <1>3
    <3>2. b \in Nat /\ m[k].start <= b /\ b < m[k].end /\ f.start <= b /\ b < c
      BY <1>5, <2>2, <2>4, <2>5, <3>1
    <3>3. k < j \/ k = j \/ j < k
      BY <1>1, <2>1
    <3>4. ~ (k < j)
      <4>1. k < j => m[k].end <= f.start
        BY <1>1, <2>1 DEF f
      <4> QED
        BY <1>1, <2>4, <3>2, <4>1
    <3>5. ~ (j < k)
      BY <1>1, <2>3, <2>4, <3>2
    <3> QED
      BY <3>1, <3>2, <3>3, <3>4, <3>5 DEF f
  <2>6. \A b \in f.end .. c - 1 : b \in f.start .. c - 1 /\ ~ (b < f.end)
    BY <2>4
  <2>7. \A b \in f.end .. c - 1 : \A h \in cuts : b \notin Bytes(h)
    BY <2>5, <2>6
  <2>8. f \notin cuts => \A b \in f.start .. c - 1 : \A h \in cuts : b \notin Bytes(h)
    BY <2>5
  <2>9. Redact(Plain(0, c) \o R(c), f) = Plain(0, f.start) \o R(f.start)
    BY <1>2, <2>2, <2>3, <2>4, <2>7, <2>8, RedactKeeps
  <2>10. from(n) = f.start
    BY <2>1 DEF f, j
  <2>11. g[n] = Redact(g[n - 1], f)
    BY <1>7 DEF f, j
  <2>12. f.start \in 0 .. size
    BY <2>2, <2>3, <2>4
  <2> HIDE DEF from
  <2> QED
    BY <2>1, <2>2, <2>9, <2>10, <2>11, <2>12
<1> HIDE DEF S
<1>11. \A n \in 1 .. L : n - 1 \in S => n \in S
  BY <1>10
<1>12. \A n \in 0 .. L : n \in S
  BY <1>1, <1>9, <1>11, UpTo
<1>13. L \in S
  BY <1>1, <1>12
<1> DEFINE a == from(L)
<1>14. a \in 0 .. size /\ g[L] = Plain(0, a) \o R(a)
  BY <1>13 DEF S
<1>15. \A k \in 1 .. L : a <= m[k].start
  <2>1. CASE L = 0
    BY <2>1
  <2>2. CASE L # 0
    <3>1. a = m[1].start /\ 1 \in 1 .. L
      <4>1. L + 1 - L = 1
        BY <1>1
      <4> QED
        BY <1>1, <2>2, <4>1
    <3>2. \A k \in 1 .. L : k = 1 \/ 1 < k
      BY <1>1
    <3>3. \A k \in 1 .. L : 1 < k => m[1].end <= m[k].start
      BY <1>1, <3>1
    <3> HIDE DEF a
    <3> QED
      BY <1>1, <3>1, <3>2, <3>3
  <2> QED
    BY <2>1, <2>2
<1> HIDE DEF a
<1>16. \A b \in 0 .. a - 1 : \A f \in cuts : b \notin Bytes(f)
  <2> SUFFICES ASSUME NEW b \in 0 .. a - 1, NEW f \in cuts, b \in Bytes(f) PROVE FALSE
    OBVIOUS
  <2>1. PICK k \in 1 .. L : f = m[k]
    BY <1>3
  <2>2. m[k].start <= b
    BY <1>5, <2>1
  <2> QED
    BY <1>1, <1>14, <1>15, <2>1, <2>2
<1>17. R(0) = Plain(0, a) \o R(a)
  <2>1. 0 \in 0 .. a
    BY <1>14
  <2> QED
    BY <1>2, <1>14, <1>16, <2>1, ShownPlain
<1>18. R(0) = Showing(size, cuts)[size]
  <2>1. size - 0 = size
    OBVIOUS
  <2> QED
    BY <2>1 DEF Rest
<1> QED
  BY <1>8, <1>14, <1>17, <1>18 DEF cuts

-----------------------------------------------------------------------------
(* The findings the regex pass collects.                                   *)

LEMMA FlattenTyped ==
  ASSUME NEW A, NEW ss \in Seq(Seq(A))
  PROVE  FlattenSeq(ss) \in Seq(A)
<1> DEFINE L == Len(ss)
           step == [p \in Seq(A) \X Seq(A) |-> p[1] \o p[2]]
           F(u) == [i \in 1 .. L |-> IF i = 1 THEN ss[i] ELSE u[i - 1] \o ss[i]]
           g == CHOOSE u : u = F(u)
<1>1. L \in Nat /\ \A i \in 1 .. L : ss[i] \in Seq(A)
  OBVIOUS
<1>2. <<>> \in Seq(A)
  OBVIOUS
<1>3. \A p, q \in Seq(A) : p \o q \in Seq(A)
  BY ConcatProperties
<1>4. step \in [Seq(A) \X Seq(A) -> Seq(A)]
  <2>1. \A p \in Seq(A) \X Seq(A) : p[1] \o p[2] \in Seq(A)
    BY <1>3
  <2> QED
    BY <2>1
<1>5. \A p, q \in Seq(A) : step[<<p, q>>] = p \o q
  OBVIOUS
<1> HIDE DEF step
<1>6. PICK h : Runs(h, Seq(A), <<>>, step, ss)
  BY <1>2, <1>4, FoldExists
<1>7. h \in [0 .. L -> Seq(A)] /\ h[0] = <<>>
  BY <1>6 DEF Runs
<1>8. \A n \in 1 .. L : h[n] = h[n - 1] \o ss[n]
  <2> SUFFICES ASSUME NEW n \in 1 .. L PROVE h[n] = h[n - 1] \o ss[n]
    OBVIOUS
  <2>1. n - 1 \in 0 .. L
    BY <1>1
  <2>2. h[n - 1] \in Seq(A) /\ ss[n] \in Seq(A)
    BY <1>1, <1>7, <2>1
  <2>3. h[n] = step[<<h[n - 1], ss[n]>>]
    BY <1>6 DEF Runs
  <2> QED
    BY <1>5, <2>2, <2>3
<1> DEFINE k == [i \in 1 .. L |-> h[i]]
<1>9. k = F(k)
  <2> SUFFICES ASSUME NEW i \in 1 .. L
               PROVE  h[i] = IF i = 1 THEN ss[i] ELSE k[i - 1] \o ss[i]
    OBVIOUS
  <2>1. CASE i = 1
    <3>0. 1 \in 1 .. L /\ 1 - 1 = 0
      BY <1>1, <2>1
    <3>1. h[1] = h[0] \o ss[1] /\ ss[1] \in Seq(A)
      BY <1>1, <1>8, <3>0
    <3>2. <<>> \o ss[1] = ss[1]
      BY <3>1, ConcatEmptySeq
    <3> QED
      BY <1>7, <2>1, <3>1, <3>2
  <2>2. CASE i # 1
    <3>1. i - 1 \in 1 .. L
      BY <1>1, <2>2
    <3>2. k[i - 1] = h[i - 1]
      BY <3>1
    <3> QED
      BY <1>8, <2>2, <3>2
  <2> QED
    BY <2>1, <2>2
<1>10. FlattenSeq(ss) = IF L = 0 THEN ss ELSE g[L]
  BY DEF FlattenSeq
<1> HIDE DEF k, F
<1>11. g = F(g)
  BY <1>9
<1> HIDE DEF g
<1>12. \A i \in 1 .. L : g[i] = IF i = 1 THEN ss[i] ELSE g[i - 1] \o ss[i]
  BY <1>11 DEF F
<1> DEFINE S == {n \in 0 .. L : n = 0 \/ g[n] \in Seq(A)}
<1> HIDE DEF L
<1>13. 0 \in S
  BY <1>1
<1>14. ASSUME NEW n \in 1 .. L, n - 1 \in S PROVE n \in S
  <2>1. n \in 0 .. L /\ ss[n] \in Seq(A)
    BY <1>1
  <2>2. CASE n = 1
    BY <1>12, <2>1, <2>2
  <2>3. CASE n # 1
    <3>1. g[n - 1] \in Seq(A)
      BY <1>14, <2>3
    <3>2. g[n] = g[n - 1] \o ss[n]
      BY <1>12, <2>3
    <3> QED
      BY <1>3, <2>1, <3>1, <3>2
  <2> QED
    BY <2>2, <2>3
<1> HIDE DEF S
<1>15. \A n \in 1 .. L : n - 1 \in S => n \in S
  BY <1>14
<1>16. \A n \in 0 .. L : n \in S
  BY <1>1, <1>13, <1>15, UpTo
<1>17. L \in S
  BY <1>1, <1>16
<1>18. CASE L = 0
  <2>1. ss = <<>>
    BY <1>18 DEF L
  <2> QED
    BY <1>2, <1>10, <1>18, <2>1
<1>19. CASE L # 0
  BY <1>10, <1>17, <1>19 DEF S
<1> QED
  BY <1>18, <1>19

Policy == [enabled : BOOLEAN, patterns : Seq(Patterns), action : Actions]

\* What the detectors may find in a text of `size` bytes.
MatchesIn(found, size) ==
  \A pattern \in DOMAIN found :
    /\ found[pattern] \in Seq([start : Nat, end : Nat])
    /\ \A i \in DOMAIN found[pattern] :
         found[pattern][i].start < found[pattern][i].end /\ found[pattern][i].end <= size

\* A finding of the text that an enabled policy asked for.
Asked(ps, size) ==
  {f \in Finding :
     /\ f.start < f.end /\ f.end <= size
     /\ \E i \in DOMAIN ps : /\ ps[i].enabled /\ f.action = ps[i].action
                             /\ f.label \in ToSet(ps[i].patterns)}

LEMMA FindingsOfAsked ==
  ASSUME NEW ps \in Seq(Policy), NEW size \in Nat, NEW found, MatchesIn(found, size),
         NEW i \in 1 .. Len(ps), ps[i].enabled, NEW j \in 1 .. Len(ps[i].patterns)
  PROVE  FindingsOf(ps[i], ps[i].patterns[j], found) \in Seq(Asked(ps, size))
<1> DEFINE p == ps[i]
           pattern == p.patterns[j]
           spans == found[pattern]
           A == Asked(ps, size)
<1>1. /\ p \in Policy /\ p.action \in Actions /\ p.patterns \in Seq(Patterns)
      /\ i \in DOMAIN ps /\ p.enabled
  <2>1. p \in Policy /\ i \in DOMAIN ps
    OBVIOUS
  <2> HIDE DEF p
  <2>2. p.action \in Actions /\ p.patterns \in Seq(Patterns)
    BY <2>1 DEF Policy
  <2> QED
    BY <2>1, <2>2 DEF p
<1>2. pattern \in Labels /\ pattern \in ToSet(p.patterns)
  BY <1>1 DEF Labels, ToSet
<1> HIDE DEF p, pattern
<1>3. CASE pattern \notin DOMAIN found
  BY <1>3 DEF FindingsOf, p, pattern
<1>4. CASE pattern \in DOMAIN found
  <2> DEFINE F(k) == [start |-> spans[k].start, end |-> spans[k].end,
                      label |-> pattern, action |-> p.action]
  <2>1. /\ spans \in Seq([start : Nat, end : Nat])
        /\ \A k \in DOMAIN spans : spans[k].start < spans[k].end /\ spans[k].end <= size
    BY <1>4 DEF MatchesIn
  <2>2. FindingsOf(p, pattern, found) = [k \in DOMAIN spans |-> F(k)]
    BY <1>4 DEF FindingsOf
  <2> HIDE DEF spans
  <2>3. DOMAIN spans = 1 .. Len(spans) /\ Len(spans) \in Nat
    BY <2>1
  <2>4. ASSUME NEW k \in DOMAIN spans PROVE F(k) \in A
    <3>1. spans[k] \in [start : Nat, end : Nat]
      <4>1. k \in 1 .. Len(spans)
        BY <2>3
      <4> QED
        BY <2>1, <4>1, ElementOfSeq
    <3>2. spans[k].start \in Nat /\ spans[k].end \in Nat
      BY <3>1
    <3>3. F(k) \in Finding
      BY <1>1, <1>2, <3>2 DEF Finding
    <3>4. /\ F(k).start = spans[k].start /\ F(k).end = spans[k].end
          /\ F(k).label = pattern /\ F(k).action = p.action
      OBVIOUS
    <3>4a. F(k).start < F(k).end /\ F(k).end <= size
      BY <2>1, <3>4
    <3> HIDE DEF F
    <3>5. ps[i].enabled /\ F(k).action = ps[i].action /\ F(k).label \in ToSet(ps[i].patterns)
      BY <1>1, <1>2, <3>4 DEF p
    <3> QED
      BY <1>1, <3>3, <3>4a, <3>5 DEF Asked
  <2> HIDE DEF F, A
  <2>5. [k \in DOMAIN spans |-> F(k)] \in Seq(A)
    BY <2>3, <2>4
  <2> QED
    BY <2>2, <2>5 DEF p, pattern, A
<1> QED
  BY <1>3, <1>4

LEMMA CollectAsked ==
  ASSUME NEW ps \in Seq(Policy), NEW size \in Nat, NEW found, MatchesIn(found, size)
  PROVE  CollectFindings(ps, found) \in Seq(Asked(ps, size))
<1> DEFINE A == Asked(ps, size)
           row(i) == [j \in DOMAIN ps[i].patterns |->
                        FindingsOf(ps[i], ps[i].patterns[j], found)]
           of(i) == IF ~ ps[i].enabled THEN <<>> ELSE FlattenSeq(row(i))
<1>1. DOMAIN ps = 1 .. Len(ps) /\ Len(ps) \in Nat
  OBVIOUS
<1>2. CollectFindings(ps, found) = FlattenSeq([i \in DOMAIN ps |-> of(i)])
  BY DEF CollectFindings
<1>3. ASSUME NEW i \in 1 .. Len(ps), ps[i].enabled PROVE FlattenSeq(row(i)) \in Seq(A)
  <2>1. ps[i].patterns \in Seq(Patterns)
    <3>1. ps[i] \in Policy
      OBVIOUS
    <3> QED
      BY <3>1 DEF Policy
  <2>2. /\ DOMAIN ps[i].patterns = 1 .. Len(ps[i].patterns)
        /\ Len(ps[i].patterns) \in Nat
    BY <2>1
  <2>3. \A j \in 1 .. Len(ps[i].patterns) :
          FindingsOf(ps[i], ps[i].patterns[j], found) \in Seq(A)
    BY <1>3, FindingsOfAsked
  <2> HIDE DEF A
  <2>4. row(i) \in Seq(Seq(A))
    BY <2>2, <2>3
  <2> HIDE DEF row
  <2> QED
    BY <2>4, FlattenTyped
<1>4. \A i \in 1 .. Len(ps) : of(i) \in Seq(A)
  BY <1>3
<1> HIDE DEF A, of
<1>5. [i \in DOMAIN ps |-> of(i)] \in Seq(Seq(A))
  BY <1>1, <1>4
<1>6. FlattenSeq([i \in DOMAIN ps |-> of(i)]) \in Seq(A)
  BY <1>5, FlattenTyped
<1> QED
  BY <1>2, <1>6 DEF A

LEMMA CollectFacts ==
  ASSUME NEW ps \in Seq(Policy), NEW size \in Nat, NEW found, MatchesIn(found, size)
  PROVE  LET fs == CollectFindings(ps, found) IN
         /\ fs \in Found /\ Proper(fs) /\ Within(fs, size)
         /\ \A f \in ToSet(fs) :
              \E i \in DOMAIN ps : /\ ps[i].enabled /\ f.action = ps[i].action
                                   /\ f.label \in ToSet(ps[i].patterns)
<1> DEFINE fs == CollectFindings(ps, found)
           A == Asked(ps, size)
<1>1. fs \in Seq(A)
  BY CollectAsked
<1> HIDE DEF fs
<1>2. Len(fs) \in Nat /\ \A k \in 1 .. Len(fs) : fs[k] \in A
  <2> HIDE DEF A
  <2> QED
    BY <1>1
<1>3. /\ A \subseteq Finding
      /\ \A f \in A : f.start < f.end /\ f.end <= size
      /\ \A f \in A : \E i \in DOMAIN ps : /\ ps[i].enabled /\ f.action = ps[i].action
                                           /\ f.label \in ToSet(ps[i].patterns)
  BY DEF Asked
<1> HIDE DEF A
<1>4. fs \in Found
  BY <1>1, <1>3 DEF Found
<1>5. Proper(fs) /\ Within(fs, size)
  BY <1>2, <1>3 DEF Proper, Within
<1>6. \A f \in ToSet(fs) : f \in A
  BY <1>2, <1>4, ElementsOf
<1> QED
  BY <1>3, <1>4, <1>5, <1>6 DEF fs

-----------------------------------------------------------------------------
(* Sizes, and the spans that merging gives.                                *)

LEMMA SizeFacts ==
  ASSUME NEW w \in Seq(1 .. 4)
  PROVE  Size(w) \in Nat /\ Len(w) <= Size(w)
<1> DEFINE L == Len(w)
           step == [p \in Nat \X (1 .. 4) |-> p[1] + p[2]]
           g == Offsets(w)
<1>1. L \in Nat /\ \A i \in 1 .. L : w[i] \in 1 .. 4
  OBVIOUS
<1>2. step \in [Nat \X (1 .. 4) -> Nat] /\ \A a \in Nat, b \in 1 .. 4 : step[<<a, b>>] = a + b
  OBVIOUS
<1> HIDE DEF step
<1>3. PICK h : Runs(h, Nat, 0, step, w)
  BY <1>2, FoldExists
<1>4. h \in [0 .. L -> Nat] /\ h[0] = 0
  BY <1>3 DEF Runs
<1>5. \A n \in 0 .. L : h[n] = IF n = 0 THEN 0 ELSE h[n - 1] + w[n]
  <2> SUFFICES ASSUME NEW n \in 0 .. L, n # 0 PROVE h[n] = h[n - 1] + w[n]
    BY <1>4
  <2>1. n - 1 \in 0 .. L /\ n \in 1 .. L
    BY <1>1
  <2>2. h[n] = step[<<h[n - 1], w[n]>>]
    BY <1>3, <2>1 DEF Runs
  <2>3. h[n - 1] \in Nat /\ w[n] \in 1 .. 4
    BY <1>1, <1>4, <2>1
  <2> QED
    BY <1>2, <2>2, <2>3
<1>6. h = [n \in 0 .. L |-> IF n = 0 THEN 0 ELSE h[n - 1] + w[n]]
  <2>1. h = [n \in 0 .. L |-> h[n]]
    BY <1>4
  <2> QED
    BY <1>5, <2>1
<1>7. g = CHOOSE u : u = [n \in 0 .. L |-> IF n = 0 THEN 0 ELSE u[n - 1] + w[n]]
  BY DEF Offsets
<1>8. Size(w) = g[L]
  BY DEF Size
<1> HIDE DEF g, L
<1>9. g = [n \in 0 .. L |-> IF n = 0 THEN 0 ELSE g[n - 1] + w[n]]
  BY <1>6, <1>7
<1>10. \A n \in 0 .. L : g[n] = IF n = 0 THEN 0 ELSE g[n - 1] + w[n]
  BY <1>9
<1> DEFINE S == {n \in 0 .. L : g[n] \in Nat /\ n <= g[n]}
<1>11. 0 \in S
  BY <1>1, <1>10
<1>12. ASSUME NEW n \in 1 .. L, n - 1 \in S PROVE n \in S
  <2>1. n \in 0 .. L /\ n # 0 /\ g[n - 1] \in Nat /\ n - 1 <= g[n - 1] /\ w[n] \in 1 .. 4
    BY <1>1, <1>12
  <2>2. g[n] = g[n - 1] + w[n]
    BY <1>10, <2>1
  <2> QED
    BY <2>1, <2>2
<1> HIDE DEF S
<1>13. \A n \in 1 .. L : n - 1 \in S => n \in S
  BY <1>12
<1>14. \A n \in 0 .. L : n \in S
  BY <1>1, <1>11, <1>13, UpTo
<1>15. L \in S
  BY <1>1, <1>14
<1> QED
  BY <1>8, <1>15 DEF S, L

LEMMA DedupeFacts ==
  ASSUME NEW fs \in Found, Proper(fs), NEW size \in Nat, Within(fs, size)
  PROVE  LET merged == DedupeFindings(fs) IN
         merged \in Found /\ Proper(merged) /\ Apart(merged) /\ Within(merged, size)
<1> DEFINE merged == DedupeFindings(fs)
<1>1. PICK s \in Found : /\ Sorted(s) /\ Proper(s) /\ ToSet(s) = ToSet(fs)
                         /\ Clusters(s, Len(s), merged)
  BY DedupeClusters
<1> HIDE DEF merged
<1>2. /\ merged \in Found /\ Proper(merged)
      /\ \A i, j \in 1 .. Len(merged) : i < j => merged[i].end <= merged[j].start
      /\ \A i \in 1 .. Len(merged) : Sums(s, Members(s, Len(s), merged[i]), merged[i])
  BY <1>1 DEF Clusters
<1>3. ASSUME NEW i \in 1 .. Len(merged) PROVE merged[i].end <= size
  <2>1. merged[i] \in Finding /\ merged[i].start < merged[i].end
    BY <1>2 DEF Proper, Found
  <2>2. merged[i].start \in Nat /\ merged[i].end \in Nat
    BY <2>1, FindingFacts
  <2> DEFINE b == merged[i].end - 1
  <2>3. b \in Nat /\ b + 1 = merged[i].end /\ b \in Bytes(merged[i])
    BY <2>1, <2>2, BytesFacts
  <2>4. PICK k \in 1 .. Len(s) : b \in Bytes(s[k])
    BY <1>2, <2>3 DEF Sums, Members
  <2>5. PICK l \in 1 .. Len(fs) : s[k] = fs[l]
    BY <1>1, ElementsOf
  <2>6. fs[l] \in Finding /\ fs[l].end <= size
    BY DEF Found, Within
  <2>7. fs[l].end \in Nat
    BY <2>6, FindingFacts
  <2>8. b < fs[l].end
    BY <2>4, <2>5, <2>6, BytesFacts
  <2> HIDE DEF b
  <2> QED
    BY <2>2, <2>3, <2>6, <2>7, <2>8
<1> QED
  BY <1>2, <1>3 DEF Apart, Within, merged

-----------------------------------------------------------------------------
(* What more findings do to what is masked.                                *)

LEMMA JoinedElements ==
  ASSUME NEW p \in Written, NEW q \in Written, NEW x, x \in ToSet(p \o q)
  PROVE  x \in ToSet(p) \/ x \in ToSet(q)
<1> DEFINE u == p \o q
<1>1. /\ Len(p) \in Nat /\ Len(q) \in Nat /\ u \in Written /\ Len(u) = Len(p) + Len(q)
      /\ \A i \in 1 .. Len(p) + Len(q) : u[i] = IF i <= Len(p) THEN p[i] ELSE q[i - Len(p)]
  BY Joined
<1>2. \A t \in Written : DOMAIN t = 1 .. Len(t)
  BY DEF Written
<1> HIDE DEF u
<1>3. PICK i \in 1 .. Len(p) + Len(q) : x = u[i]
  BY <1>1, <1>2 DEF ToSet, u
<1>4. CASE i <= Len(p)
  <2>1. i \in 1 .. Len(p) /\ x = p[i]
    BY <1>1, <1>3, <1>4
  <2> QED
    BY <1>2, <2>1 DEF ToSet
<1>5. CASE ~ (i <= Len(p))
  <2>1. i - Len(p) \in 1 .. Len(q) /\ x = q[i - Len(p)]
    BY <1>1, <1>3, <1>5
  <2> QED
    BY <1>2, <2>1 DEF ToSet
<1> QED
  BY <1>4, <1>5

\* A byte that is cut is nowhere in the text shown.
LEMMA CutIsMasked ==
  ASSUME NEW size \in Nat, NEW cuts, ApartCuts(cuts), NEW f \in cuts, NEW b \in Bytes(f)
  PROVE  Byte(b) \notin ToSet(Showing(size, cuts)[size])
<1> DEFINE g == Showing(size, cuts)
           S == {k \in 0 .. size : Byte(b) \notin ToSet(g[k])}
<1>1. /\ g[0] = <<>> /\ \A n \in 0 .. size : g[n] \in Written
      /\ \A n \in 1 .. size : g[n] = Shows(cuts, size - n) \o g[n - 1]
  BY ShowingEquation
<1>2. \A x \in cuts : x \in Finding /\ x.start < x.end /\ x.start \in Nat /\ x.end \in Nat
  BY FindingFacts DEF ApartCuts
<1>3. b \in Nat
  BY <1>2, BytesFacts
<1> HIDE DEF g
<1>4. 0 \in S
  <2>1. ToSet(<<>>) = {}
    BY DEF ToSet
  <2> QED
    BY <1>1, <2>1
<1>5. ASSUME NEW a \in Nat PROVE Byte(b) \notin ToSet(Shows(cuts, a))
  <2>0. \A y : ToSet(<<y>>) = {y}
    BY DEF ToSet
  <2>1. CASE \A x \in cuts : a \notin Bytes(x)
    <3>1. Shows(cuts, a) = <<Byte(a)>> /\ a # b
      BY <2>1, ShowsFacts
    <3>2. Byte(b) # Byte(a)
      BY <3>1, SymbolFacts
    <3> QED
      BY <2>0, <3>1, <3>2
  <2>2. CASE \E x \in cuts : a \in Bytes(x)
    <3>1. PICK x \in cuts : a \in Bytes(x)
      BY <2>2
    <3>2. x.start <= a /\ a < x.end
      BY <1>2, <3>1, BytesFacts
    <3>3. CASE a = x.start
      <4>1. Shows(cuts, a) = <<Token(x.label)>>
        BY <3>3, ShowsFacts
      <4>2. Byte(b) # Token(x.label)
        BY SymbolFacts
      <4> QED
        BY <2>0, <4>1, <4>2
    <3>4. CASE a # x.start
      <4>1. x.start < a
        BY <1>2, <3>2, <3>4
      <4>2. Shows(cuts, a) = <<>>
        BY <3>2, <4>1, ShowsFacts
      <4> QED
        BY <4>2 DEF ToSet
    <3> QED
      BY <3>3, <3>4
  <2> QED
    BY <2>1, <2>2
<1>6. ASSUME NEW k \in 1 .. size, k - 1 \in S PROVE k \in S
  <2>1. k \in 0 .. size /\ size - k \in Nat /\ k - 1 \in 0 .. size
    OBVIOUS
  <2>2. Shows(cuts, size - k) \in Written /\ g[k - 1] \in Written
    BY <1>1, <2>1, ShowsFacts
  <2>3. Byte(b) \notin ToSet(Shows(cuts, size - k)) /\ Byte(b) \notin ToSet(g[k - 1])
    BY <1>5, <1>6, <2>1
  <2>4. Byte(b) \notin ToSet(Shows(cuts, size - k) \o g[k - 1])
    BY <2>2, <2>3, JoinedElements
  <2> QED
    BY <1>1, <2>1, <2>4
<1> HIDE DEF S
<1>7. \A k \in 1 .. size : k - 1 \in S => k \in S
  BY <1>6
<1>8. \A k \in 0 .. size : k \in S
  BY <1>4, <1>7, UpTo
<1>9. size \in S
  BY <1>8
<1> QED
  BY <1>9 DEF S, g

\* What is merged stays together when there are more findings.
LEMMA MergesNest ==
  ASSUME NEW fs \in Found, Proper(fs), NEW gs \in Found, Proper(gs),
         ToSet(fs) \subseteq ToSet(gs), NEW x \in ToSet(DedupeFindings(fs))
  PROVE  \E m \in ToSet(DedupeFindings(gs)) : Bytes(x) \subseteq Bytes(m)
<1> DEFINE small == DedupeFindings(fs)
           large == DedupeFindings(gs)
<1>1. PICK s \in Found : /\ Sorted(s) /\ Proper(s) /\ ToSet(s) = ToSet(fs)
                         /\ Clusters(s, Len(s), small)
  BY DedupeClusters
<1>2. PICK t \in Found : /\ Sorted(t) /\ Proper(t) /\ ToSet(t) = ToSet(gs)
                         /\ Clusters(t, Len(t), large)
  BY DedupeClusters
<1> HIDE DEF small, large
<1>3. /\ small \in Found /\ Proper(small)
      /\ \A i \in 1 .. Len(small) : Sums(s, Members(s, Len(s), small[i]), small[i])
  BY <1>1 DEF Clusters
<1>4. /\ large \in Found
      /\ \A i, j \in 1 .. Len(large) : i < j => large[i].end <= large[j].start
      /\ \A k \in 1 .. Len(t) : \E i \in 1 .. Len(large) : Inside(t[k], large[i])
  BY <1>2 DEF Clusters
<1>5. PICK i \in 1 .. Len(small) : x = small[i]
  BY <1>3, ElementsOf DEF small
<1>6. x \in Finding /\ x.start < x.end /\ x.start \in Nat /\ x.end \in Nat
  <2>1. x \in Finding /\ x.start < x.end
    BY <1>3, <1>5 DEF Proper, Found
  <2> QED
    BY <2>1, FindingFacts
<1>7. Sums(s, Members(s, Len(s), x), x)
  BY <1>3, <1>5
<1>8. \A l \in 1 .. Len(large) : /\ large[l] \in Finding /\ large[l].start \in Nat
                                 /\ large[l].end \in Nat /\ large[l] \in ToSet(large)
  <2>1. \A l \in 1 .. Len(large) : large[l] \in Finding /\ large[l] \in ToSet(large)
    BY <1>4, ElementsOf DEF Found
  <2> QED
    BY <2>1, FindingFacts
<1>9. ASSUME NEW k \in 1 .. Len(s)
      PROVE  \E l \in 1 .. Len(large) : Bytes(s[k]) \subseteq Bytes(large[l])
  <2>1. PICK j \in 1 .. Len(t) : s[k] = t[j]
    BY <1>1, <1>2, ElementsOf
  <2>2. PICK l \in 1 .. Len(large) : Inside(t[j], large[l])
    BY <1>4
  <2>3. t[j] \in Finding /\ t[j].start < t[j].end
    BY <1>2 DEF Proper, Found
  <2> QED
    BY <1>8, <2>1, <2>2, <2>3, InsideIsSubset
<1>10. \A l \in 1 .. Len(large) : \A b : b \in Bytes(large[l]) <=>
         b \in Nat /\ large[l].start <= b /\ b < large[l].end
  BY <1>8, BytesFacts
<1>11. ASSUME NEW l \in 1 .. Len(large), NEW j \in 1 .. Len(large), NEW b,
              b \in Bytes(large[l]), b \in Bytes(large[j])
       PROVE  l = j
  <2>1. /\ b \in Nat /\ large[l].start <= b /\ b < large[l].end
        /\ large[j].start <= b /\ b < large[j].end
    BY <1>10, <1>11
  <2>2. l = j \/ l < j \/ j < l
    BY <1>4 DEF Found
  <2> QED
    BY <1>4, <1>8, <2>1, <2>2
<1>12. \A b : b \in Bytes(x) <=> b \in Nat /\ x.start <= b /\ b < x.end
  BY <1>6, BytesFacts
<1> DEFINE n == x.end - 1 - x.start
           S == {k \in 0 .. n : \E l \in 1 .. Len(large) :
                   x.start .. x.start + k \subseteq Bytes(large[l])}
<1>13. n \in Nat
  BY <1>6
<1>14. 0 \in S
  <2>1. x.start \in Bytes(x)
    BY <1>6, <1>12
  <2>2. PICK k \in 1 .. Len(s) : x.start \in Bytes(s[k])
    BY <1>7, <2>1 DEF Sums, Members
  <2>3. PICK l \in 1 .. Len(large) : x.start \in Bytes(large[l])
    BY <1>9, <2>2
  <2>4. x.start .. x.start + 0 \subseteq Bytes(large[l])
    BY <1>6, <2>3
  <2> QED
    BY <1>13, <2>4
<1>15. ASSUME NEW k \in 1 .. n, k - 1 \in S PROVE k \in S
  <2> DEFINE b == x.start + (k - 1)
  <2>0. b \in Nat /\ b + 1 \in Nat /\ b + 1 = x.start + k /\ k \in 0 .. n
        /\ x.start <= b /\ b + 1 < x.end /\ b \in x.start .. b
    BY <1>6
  <2>1. b \in Nat /\ b \in Bytes(x) /\ b + 1 \in Bytes(x) /\ b + 1 = x.start + k
        /\ k \in 0 .. n /\ b \in x.start .. b
    <3> HIDE DEF b, n
    <3> QED
      BY <1>6, <1>12, <2>0
  <2>2. PICK l \in 1 .. Len(large) : x.start .. b \subseteq Bytes(large[l])
    BY <1>15
  <2>3. PICK j \in 1 .. Len(s) : b \in Bytes(s[j]) /\ b + 1 \in Bytes(s[j])
    BY <1>7, <2>1 DEF Sums, Members
  <2>4. PICK i2 \in 1 .. Len(large) : b \in Bytes(large[i2]) /\ b + 1 \in Bytes(large[i2])
    BY <1>9, <2>3
  <2> HIDE DEF b
  <2>5. i2 = l
    BY <1>11, <2>1, <2>2, <2>4
  <2>6. \A y \in x.start .. b + 1 : y \in x.start .. b \/ y = b + 1
    BY <1>6, <2>1
  <2>7. x.start .. b + 1 \subseteq Bytes(large[l])
    BY <2>2, <2>4, <2>5, <2>6
  <2> QED
    BY <2>1, <2>7
<1> HIDE DEF S
<1>16. \A k \in 1 .. n : k - 1 \in S => k \in S
  BY <1>15
<1> HIDE DEF n
<1>17. \A k \in 0 .. n : k \in S
  BY <1>13, <1>14, <1>16, UpTo
<1>18. n \in S
  BY <1>13, <1>17
<1>19. PICK l \in 1 .. Len(large) : x.start .. x.start + n \subseteq Bytes(large[l])
  BY <1>18 DEF S
<1>20. Bytes(x) \subseteq x.start .. x.start + n
  BY <1>6, <1>12 DEF n
<1>21. Bytes(x) \subseteq Bytes(large[l])
  BY <1>19, <1>20
<1> QED
  BY <1>8, <1>21 DEF large

LEMMA CommonByte ==
  ASSUME NEW a \in Nat, NEW b \in Nat, NEW c \in Nat, NEW d \in Nat,
         a < b, c < d, a < d, c < b
  PROVE  \E x \in Nat : x \in a .. b - 1 /\ x \in c .. d - 1
<1>1. CASE a <= c
  <2>1. c \in a .. b - 1 /\ c \in c .. d - 1
    BY <1>1
  <2> QED
    BY <2>1
<1>2. CASE c <= a
  <2>1. a \in a .. b - 1 /\ a \in c .. d - 1
    BY <1>2
  <2> QED
    BY <2>1
<1> QED
  BY <1>1, <1>2

\* Entities leave what is there in place, block nothing, and each is covered.
LEMMA WithEntitiesFacts ==
  ASSUME NEW size \in Nat, NEW fs \in Found, Proper(fs), Within(fs, size),
         NEW es \in Seq(Entity),
         \A k \in 1 .. Len(es) : es[k].start < es[k].end /\ es[k].end <= size
  PROVE  LET m == WithEntities(fs, es) IN
         /\ m \in Found /\ Proper(m) /\ Within(m, size) /\ ToSet(fs) \subseteq ToSet(m)
         /\ Blocked(m) <=> Blocked(fs)
         /\ \A e \in ToSet(es) : \E f \in ToSet(m) : Bytes(e) \cap Bytes(f) # {}
<1> DEFINE m == WithEntities(fs, es)
<1>1. Admits(fs, es, Len(es), m)
  BY WithEntitiesAdmits
<1> HIDE DEF m
<1>2. /\ m \in Found /\ Len(fs) <= Len(m)
      /\ \A i \in 1 .. Len(fs) : m[i] = fs[i]
      /\ \A i \in Len(fs) + 1 .. Len(m) :
           /\ m[i].action = "redact"
           /\ \E k \in 1 .. Len(es) : m[i].start = es[k].start /\ m[i].end = es[k].end
      /\ \A k \in 1 .. Len(es) : \E i \in 1 .. Len(m) : SpansOverlap(es[k], m[i])
  BY <1>1 DEF Admits
<1>3. /\ Len(m) \in Nat /\ Len(fs) \in Nat
      /\ \A i \in 1 .. Len(m) : i \in 1 .. Len(fs) \/ i \in Len(fs) + 1 .. Len(m)
      /\ \A i \in 1 .. Len(fs) : i \in 1 .. Len(m)
  <2>1. Len(m) \in Nat /\ Len(fs) \in Nat
    BY <1>2 DEF Found
  <2> QED
    BY <1>2, <2>1
<1>4. Proper(m) /\ Within(m, size)
  <2> SUFFICES ASSUME NEW i \in 1 .. Len(m) PROVE m[i].start < m[i].end /\ m[i].end <= size
    BY DEF Proper, Within
  <2>1. CASE i \in 1 .. Len(fs)
    BY <1>2, <2>1 DEF Proper, Within
  <2>2. CASE i \in Len(fs) + 1 .. Len(m)
    BY <1>2, <2>2
  <2> QED
    BY <1>3, <2>1, <2>2
<1>5. ToSet(fs) \subseteq ToSet(m)
  <2> SUFFICES ASSUME NEW f \in ToSet(fs) PROVE f \in ToSet(m)
    OBVIOUS
  <2>1. PICK i \in 1 .. Len(fs) : f = fs[i]
    BY ElementsOf
  <2> QED
    BY <1>2, <1>3, <2>1, ElementsOf
<1>6. Blocked(m) <=> Blocked(fs)
  <2>1. DOMAIN m = 1 .. Len(m) /\ DOMAIN fs = 1 .. Len(fs)
    BY <1>2 DEF Found
  <2>2. ASSUME NEW i \in 1 .. Len(m), m[i].action = "block"
        PROVE  i \in 1 .. Len(fs) /\ fs[i].action = "block"
    BY <1>2, <1>3, <2>2
  <2>3. ASSUME NEW i \in 1 .. Len(fs), fs[i].action = "block"
        PROVE  i \in 1 .. Len(m) /\ m[i].action = "block"
    BY <1>2, <1>3, <2>3
  <2> QED
    BY <2>1, <2>2, <2>3 DEF Blocked
<1>7. ASSUME NEW e \in ToSet(es) PROVE \E f \in ToSet(m) : Bytes(e) \cap Bytes(f) # {}
  <2>1. PICK k \in 1 .. Len(es) : e = es[k]
    BY DEF ToSet
  <2>2. e \in Entity /\ e.start < e.end
    BY <2>1
  <2>3. e.start \in Nat /\ e.end \in Nat
    BY <2>2 DEF Entity
  <2>4. PICK i \in 1 .. Len(m) : SpansOverlap(e, m[i])
    BY <1>2, <2>1
  <2>5. m[i] \in Finding /\ m[i].start < m[i].end /\ m[i] \in ToSet(m)
    BY <1>2, <1>4, ElementsOf DEF Proper, Found
  <2>6. m[i].start \in Nat /\ m[i].end \in Nat
    BY <2>5, FindingFacts
  <2>7. e.start < m[i].end /\ m[i].start < e.end
    BY <2>4 DEF SpansOverlap
  <2>8. \E b \in Nat : b \in e.start .. e.end - 1 /\ b \in m[i].start .. m[i].end - 1
    BY <2>2, <2>3, <2>5, <2>6, <2>7, CommonByte
  <2>9. \E b \in Nat : b \in Bytes(e) /\ b \in Bytes(m[i])
    BY <2>8 DEF Bytes
  <2> QED
    BY <2>5, <2>9
<1> QED
  BY <1>2, <1>4, <1>5, <1>6, <1>7 DEF m

\* What some findings mask stays masked with more of them, unless one blocks.
LEMMA MaskedStaysMasked ==
  ASSUME NEW size \in Nat, NEW fs \in Found, Proper(fs), Within(fs, size),
         NEW gs \in Found, Proper(gs), Within(gs, size), ToSet(fs) \subseteq ToSet(gs),
         fs = gs \/ ~ Blocked(gs),
         NEW x \in ToSet(DedupeFindings(fs)), x.action = "redact", NEW b \in Bytes(x)
  PROVE  Byte(b) \notin ToSet(Showing(size, Cuts(DedupeFindings(gs)))[size])
<1> DEFINE merged == DedupeFindings(gs)
<1>1. merged \in Found /\ Proper(merged) /\ Apart(merged)
  BY DedupeFacts
<1>2. PICK m \in ToSet(merged) : Bytes(x) \subseteq Bytes(m) /\ m.action = "redact"
  <2>1. CASE fs = gs
    BY <2>1
  <2>2. CASE fs # gs
    <3>1. PICK m \in ToSet(merged) : Bytes(x) \subseteq Bytes(m)
      BY MergesNest
    <3> DEFINE inside(hs, y) == {f \in ToSet(hs) : Bytes(f) \subseteq Bytes(y)}
               actions(hs, y) == {f.action : f \in inside(hs, y)}
    <3>2. x.action = (IF "block" \in actions(fs, x) THEN "block"
                      ELSE IF "redact" \in actions(fs, x) THEN "redact" ELSE "flag")
      BY DedupeKeepsTheStrongest DEF Strongest
    <3>3. m.action = (IF "block" \in actions(gs, m) THEN "block"
                      ELSE IF "redact" \in actions(gs, m) THEN "redact" ELSE "flag")
      BY DedupeKeepsTheStrongest DEF Strongest
    <3>4. "redact" \in actions(fs, x)
      <4> HIDE DEF actions
      <4> QED
        BY <3>2
    <3>5. PICK f \in ToSet(fs) : f.action = "redact" /\ Bytes(f) \subseteq Bytes(x)
      BY <3>4
    <3>6. f \in inside(gs, m)
      BY <3>1, <3>5
    <3>7. "redact" \in actions(gs, m)
      BY <3>5, <3>6
    <3>8. "block" \notin actions(gs, m)
      <4>1. \A f2 \in ToSet(gs) : f2.action # "block"
        BY <2>2 DEF Blocked, ToSet
      <4> QED
        BY <4>1
    <3> HIDE DEF actions
    <3>9. m.action = "redact"
      BY <3>3, <3>7, <3>8
    <3> QED
      BY <3>1, <3>9
  <2> QED
    BY <2>1, <2>2
<1> HIDE DEF merged
<1>3. m \in Cuts(merged) /\ b \in Bytes(m)
  BY <1>2 DEF Cuts
<1>4. ApartCuts(Cuts(merged))
  BY <1>1, CutsAreApart
<1>5. Byte(b) \notin ToSet(Showing(size, Cuts(merged))[size])
  BY <1>3, <1>4, CutIsMasked
<1> QED
  BY <1>5 DEF merged

-----------------------------------------------------------------------------
(* One call.                                                               *)

Regex == CollectFindings(loaded, matches)

ScanIInv ==
  /\ widths \in TextWidths /\ matches \in Matches(widths) /\ loaded \in PolicyLists
  /\ pc \in {"start", "analyzing", "done", "panicked"}
  /\ pc = "start" => entities = <<>>
  /\ pc = "analyzing" => findings = Regex /\ ~ Blocked(Regex) /\ entities = <<>>
  /\ Done =>
       /\ result = [text |-> ApplyRedactions(TextOf(Size(widths)), DedupeFindings(findings)),
                    findings |-> DedupeFindings(findings), blocked |-> Blocked(findings)]
       /\ \/ findings = Regex /\ entities = <<>>
          \/ /\ ~ Blocked(Regex) /\ entities \in EntityLists(widths)
             /\ findings = WithEntities(Regex, entities)

\* What every call goes through.
THEOREM ScanInvariance == ScanSpec => []ScanIInv
<1>1. ScanInit => ScanIInv
  BY DEF ScanInit, ScanIInv, Done
<1>2. ScanIInv /\ [ScanNext]_scanVars => ScanIInv'
  <2> SUFFICES ASSUME ScanIInv, [ScanNext]_scanVars PROVE ScanIInv'
    OBVIOUS
  <2>1. ASSUME NEW fs, Conclude(fs)
        PROVE  /\ pc' \in {"done", "panicked"}
               /\ pc' = "done" =>
                    result' = [text |-> ApplyRedactions(TextOf(Size(widths)), DedupeFindings(fs)),
                               findings |-> DedupeFindings(fs), blocked |-> Blocked(fs)]
    BY <2>1 DEF Conclude
  <2>2. CASE RegexPass
    <3>1. /\ findings' = Regex /\ Regex' = Regex /\ entities' = <<>>
          /\ widths' = widths /\ matches' = matches /\ loaded' = loaded
      BY <2>2 DEF RegexPass, Regex, ScanIInv
    <3>2. CASE deep /\ ~ Blocked(findings')
      <4>1. pc' = "analyzing"
        BY <2>2, <3>2 DEF RegexPass
      <4> QED
        BY <3>1, <3>2, <4>1 DEF ScanIInv, Done
    <3>3. CASE ~ (deep /\ ~ Blocked(findings'))
      <4>1. Conclude(findings')
        BY <2>2, <3>3 DEF RegexPass
      <4>2. /\ pc' \in {"done", "panicked"}
            /\ pc' = "done" =>
                 result' = [text |-> ApplyRedactions(TextOf(Size(widths)),
                                                     DedupeFindings(findings')),
                            findings |-> DedupeFindings(findings'),
                            blocked |-> Blocked(findings')]
        BY <2>1, <4>1
      <4> QED
        BY <3>1, <4>2 DEF ScanIInv, Done
    <3> QED
      BY <3>2, <3>3
  <2>3. ASSUME NEW answer \in EntityLists(widths), SidecarAnswers(answer) PROVE ScanIInv'
    <3>1. /\ findings' = WithEntities(Regex, answer) /\ Regex' = Regex /\ entities' = answer
          /\ widths' = widths /\ matches' = matches /\ loaded' = loaded /\ ~ Blocked(Regex)
      BY <2>3 DEF SidecarAnswers, Regex, ScanIInv
    <3>2. Conclude(findings')
      BY <2>3 DEF SidecarAnswers
    <3>3. /\ pc' \in {"done", "panicked"}
          /\ pc' = "done" =>
               result' = [text |-> ApplyRedactions(TextOf(Size(widths)),
                                                   DedupeFindings(findings')),
                          findings |-> DedupeFindings(findings'),
                          blocked |-> Blocked(findings')]
      BY <2>1, <3>2
    <3> QED
      BY <3>1, <3>3 DEF ScanIInv, Done
  <2>4. CASE SidecarFails
    <3>1. /\ findings' = findings /\ findings = Regex /\ Regex' = Regex /\ entities' = <<>>
          /\ widths' = widths /\ matches' = matches /\ loaded' = loaded
      BY <2>4 DEF SidecarFails, Regex, ScanIInv
    <3>2. Conclude(findings)
      BY <2>4 DEF SidecarFails
    <3>3. /\ pc' \in {"done", "panicked"}
          /\ pc' = "done" =>
               result' = [text |-> ApplyRedactions(TextOf(Size(widths)),
                                                   DedupeFindings(findings)),
                          findings |-> DedupeFindings(findings),
                          blocked |-> Blocked(findings)]
      BY <2>1, <3>2
    <3> QED
      BY <3>1, <3>3 DEF ScanIInv, Done
  <2>5. CASE UNCHANGED scanVars
    BY <2>5 DEF scanVars, ScanIInv, Done, Regex
  <2> QED
    BY <2>2, <2>3, <2>4, <2>5 DEF ScanNext
<1> QED
  BY <1>1, <1>2, PTL DEF ScanSpec

\* What a call that is done has found.
LEMMA DoneFacts ==
  ASSUME ScanIInv, Done
  PROVE  /\ Size(widths) \in Nat
         /\ loaded \in Seq(Policy) /\ MatchesIn(matches, Size(widths))
         /\ Regex \in Found /\ Proper(Regex) /\ Within(Regex, Size(widths))
         /\ findings \in Found /\ Proper(findings) /\ Within(findings, Size(widths))
         /\ ToSet(Regex) \subseteq ToSet(findings)
         /\ Blocked(findings) <=> Blocked(Regex)
         /\ Regex = findings \/ ~ Blocked(findings)
         /\ \A e \in ToSet(entities) : \E f \in ToSet(findings) : Bytes(e) \cap Bytes(f) # {}
<1> DEFINE size == Size(widths)
<1>1. /\ widths \in TextWidths /\ matches \in Matches(widths) /\ loaded \in PolicyLists
      /\ \/ findings = Regex /\ entities = <<>>
         \/ /\ ~ Blocked(Regex) /\ entities \in EntityLists(widths)
            /\ findings = WithEntities(Regex, entities)
  BY DEF ScanIInv
<1>2. widths \in Seq(1 .. 4)
  BY <1>1, ScanAssumption
<1>3. size \in Nat /\ Len(widths) \in Nat /\ Len(widths) <= size
  BY <1>2, SizeFacts
<1>4. loaded \in Seq(Policy)
  BY <1>1, ScanAssumption DEF Policy
<1>5. MatchesIn(matches, size)
  BY <1>1, ScanAssumption DEF MatchesIn
<1> HIDE DEF size
<1>6. Regex \in Found /\ Proper(Regex) /\ Within(Regex, size)
  BY <1>3, <1>4, <1>5, CollectFacts DEF Regex
<1> HIDE DEF Regex
<1>7. CASE findings = Regex /\ entities = <<>>
  <2>1. ToSet(entities) = {}
    BY <1>7 DEF ToSet
  <2> QED
    BY <1>3, <1>4, <1>5, <1>6, <1>7, <2>1 DEF size
<1>8. CASE /\ ~ Blocked(Regex) /\ entities \in EntityLists(widths)
           /\ findings = WithEntities(Regex, entities)
  <2>1. /\ entities \in Seq([start : Nat, end : Nat])
        /\ \A k \in DOMAIN entities :
             entities[k].start < entities[k].end /\ entities[k].end <= Len(widths)
    BY <1>1, <1>8, SidecarAssumption
  <2>2. entities \in Seq(Entity) /\ DOMAIN entities = 1 .. Len(entities)
    BY <2>1 DEF Entity
  <2>3. ASSUME NEW k \in 1 .. Len(entities)
        PROVE  entities[k].start < entities[k].end /\ entities[k].end <= size
    <3>1. entities[k] \in Entity
      BY <2>2
    <3>2. entities[k].end \in Nat
      BY <3>1 DEF Entity
    <3> QED
      BY <1>3, <2>1, <2>2, <3>2
  <2>4. LET m == WithEntities(Regex, entities) IN
        /\ m \in Found /\ Proper(m) /\ Within(m, size) /\ ToSet(Regex) \subseteq ToSet(m)
        /\ Blocked(m) <=> Blocked(Regex)
        /\ \A e \in ToSet(entities) : \E f \in ToSet(m) : Bytes(e) \cap Bytes(f) # {}
    BY <1>3, <1>6, <2>2, <2>3, WithEntitiesFacts
  <2> QED
    BY <1>3, <1>4, <1>5, <1>6, <1>8, <2>4 DEF size
<1> QED
  BY <1>1, <1>7, <1>8

\* The merged findings of every result join what overlaps and nothing else.
THEOREM ScanMergesExactly == ScanSpec => []MergeIsExact
<1>1. ScanIInv => MergeIsExact
  <2> SUFFICES ASSUME ScanIInv, Done PROVE ExactMerge(findings, result.findings)
    BY DEF MergeIsExact
  <2>1. result.findings = DedupeFindings(findings)
    BY DEF ScanIInv
  <2>2. findings \in Found /\ Proper(findings)
    BY DoneFacts
  <2> QED
    BY <2>1, <2>2, DedupeIsExact
<1> QED
  BY <1>1, ScanInvariance, PTL

\* Each has the most protective action and a leftmost, widest label.
THEOREM ScanKeepsTheStrongest == ScanSpec => []MergeKeepsTheStrongest
<1>1. ScanIInv => MergeKeepsTheStrongest
  <2> SUFFICES ASSUME ScanIInv, Done, NEW m \in ToSet(result.findings)
               PROVE  Strongest(findings, m)
    BY DEF MergeKeepsTheStrongest
  <2>1. result.findings = DedupeFindings(findings)
    BY DEF ScanIInv
  <2>2. findings \in Found /\ Proper(findings)
    BY DoneFacts
  <2> QED
    BY <2>1, <2>2, DedupeKeepsTheStrongest
<1> QED
  BY <1>1, ScanInvariance, PTL

\* What the text of a result is.
LEMMA ResultText ==
  ASSUME ScanIInv, Done
  PROVE  result.text = Showing(Size(widths), Cuts(DedupeFindings(findings)))[Size(widths)]
<1> DEFINE merged == DedupeFindings(findings)
           size == Size(widths)
<1>1. result.text = ApplyRedactions(TextOf(size), merged)
  BY DEF ScanIInv
<1>2. size \in Nat /\ findings \in Found /\ Proper(findings) /\ Within(findings, size)
  BY DoneFacts
<1> HIDE DEF size
<1>3. merged \in Found /\ Proper(merged) /\ Apart(merged) /\ Within(merged, size)
  BY <1>2, DedupeFacts
<1> HIDE DEF merged
<1>4. ApplyRedactions(TextOf(size), merged) = Showing(size, Cuts(merged))[size]
  BY <1>2, <1>3, RedactingIsExact
<1> QED
  BY <1>1, <1>4 DEF merged, size

\* The text is the input with the merged redact spans replaced, and nothing else.
THEOREM ScanRedactsExactly == ScanSpec => []RedactionIsExact
<1>1. ScanIInv => RedactionIsExact
  <2> SUFFICES ASSUME ScanIInv, Done
               PROVE  result.text
                        = Showing(Size(widths), Cuts(result.findings))[Size(widths)]
    BY DEF RedactionIsExact, Cuts
  <2>1. result.findings = DedupeFindings(findings)
    BY DEF ScanIInv
  <2> QED
    BY <2>1, ResultText
<1> QED
  BY <1>1, ScanInvariance, PTL

\* The sidecar unmasks nothing, blocks nothing, and none of its entities is lost.
THEOREM TheSidecarOnlyAdds == ScanSpec => []SidecarOnlyAdds
<1>1. ScanIInv => SidecarOnlyAdds
  <2> SUFFICES ASSUME ScanIInv, Done
               PROVE  /\ result.blocked <=> Blocked(Regex)
                      /\ \A f \in ToSet(DedupeFindings(Regex)) :
                           f.action = "redact" => \A b \in Bytes(f) : Masked(b)
                      /\ \A e \in ToSet(entities) : \E f \in Raw : Bytes(e) \cap Bytes(f) # {}
    BY DEF SidecarOnlyAdds, Regex
  <2>1. /\ Size(widths) \in Nat
        /\ Regex \in Found /\ Proper(Regex) /\ Within(Regex, Size(widths))
        /\ findings \in Found /\ Proper(findings) /\ Within(findings, Size(widths))
        /\ ToSet(Regex) \subseteq ToSet(findings)
        /\ Blocked(findings) <=> Blocked(Regex)
        /\ Regex = findings \/ ~ Blocked(findings)
        /\ \A e \in ToSet(entities) : \E f \in ToSet(findings) : Bytes(e) \cap Bytes(f) # {}
    BY DoneFacts
  <2>2. result.blocked = Blocked(findings)
    BY DEF ScanIInv
  <2>3. ASSUME NEW f \in ToSet(DedupeFindings(Regex)), f.action = "redact", NEW b \in Bytes(f)
        PROVE  Masked(b)
    <3>1. Byte(b) \notin
            ToSet(Showing(Size(widths), Cuts(DedupeFindings(findings)))[Size(widths)])
      BY <2>1, <2>3, MaskedStaysMasked
    <3> QED
      BY <3>1, ResultText DEF Masked
  <2> QED
    BY <2>1, <2>2, <2>3 DEF Raw
<1> QED
  BY <1>1, ScanInvariance, PTL
=============================================================================
