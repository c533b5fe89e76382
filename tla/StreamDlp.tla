------------------------------ MODULE StreamDlp ------------------------------
(***************************************************************************)
(* Outbound DLP of a streamed response                                     *)
(* (services/gateway/src/stream_dlp.rs): the upstream's server-sent events *)
(* are re-emitted with the matches of their text masked, a tail of the     *)
(* text being held back so that a match cut by a chunk is not shown.       *)
(*                                                                         *)
(* The reply is the sequence `text`; what was received of it is the prefix *)
(* of length `got`, what was re-emitted the prefix of length `sent`, so    *)
(* `pending` of the code is the text between them. Frames name text by its *)
(* positions. Positions count characters of one byte each.                 *)
(***************************************************************************)
EXTENDS Naturals, Sequences

CONSTANTS
  Texts,             \* replies
  PolicySets,        \* what the policies make of each detector's matches
  Findings(_, _, _, _), \* dlp::scan of a text between two positions: its spans
  HOLDBACK,          \* the characters kept back
  MaxMatch,          \* length of the longest span
  MaxText,           \* bound on the characters of an event
  MaxFrames          \* bound on the frames of a stream

Spans == [start : Nat, end : Nat, action : {"redact", "flag", "block"}]

\* What a call of dlp::scan returns: spans inside the text it was given, apart
\* from each other (dedupe_findings) and not empty.
ASSUME SpansAssumption ==
  \A t \in Texts, p \in PolicySets : \A lo \in 0 .. Len(t) : \A hi \in lo .. Len(t) :
    /\ Findings(t, p, lo, hi) \subseteq Spans
    /\ \A f \in Findings(t, p, lo, hi) :
         /\ lo <= f.start /\ f.start < f.end /\ f.end <= hi
         /\ f.end - f.start <= MaxMatch
         /\ \A g \in Findings(t, p, lo, hi) : g = f \/ g.end <= f.start \/ f.end <= g.start

ASSUME BoundsAssumption ==
  /\ \A t \in Texts : Len(t) \in Nat
  /\ HOLDBACK \in Nat /\ MaxMatch \in Nat \ {0} /\ MaxText \in Nat

\* What the comment at HOLDBACK says of the detectors: no match is longer than
\* the window, one more character decides whether there is a match, and what
\* matched in the reply matches, alone or in a wider span, where text before or
\* after it is missing.
ASSUME DetectorsAssumption ==
  /\ MaxMatch <= HOLDBACK
  /\ \A t \in Texts, p \in PolicySets : \A n \in 0 .. Len(t) :
       \A f \in Findings(t, p, 0, n) : \A lo \in 0 .. f.start, hi \in f.end .. n :
         hi = n \/ f.end < hi =>
           \E g \in Findings(t, p, lo, hi) : g.start <= f.start /\ f.end <= g.end

VARIABLES
  text, policies,
  got, sent,         \* received and re-emitted characters
  finished,          \* has the upstream signalled its finish?
  frames,            \* what the client was sent
  over               \* "no", "done" or "error": has the stream ended?

vars == <<text, policies, got, sent, finished, frames, over>>

-----------------------------------------------------------------------------
(* Upstream events and downstream frames.                                  *)

\* Some text, no text ("") or no content at all, with a finish reason or not; or
\* the [DONE] marker.
Events ==
  {ev \in [content : BOOLEAN, n : 0 .. MaxText, finish : BOOLEAN, done : BOOLEAN] :
     /\ ~ ev.content => ev.n = 0
     /\ ev.done => ~ ev.content /\ ~ ev.finish}

TextFrame(from, to, masked) == [kind |-> "text", from |-> from, to |-> to, masked |-> masked]
Frame(kind, from, to) == [kind |-> kind, from |-> from, to |-> to, masked |-> {}]

-----------------------------------------------------------------------------
(* release: the settled prefix of the pending text, masked.                *)

\* Where the tail window begins (`flush_all` keeps none).
Target(st, flush) ==
  IF flush THEN st.got
  ELSE IF st.got > st.sent + HOLDBACK THEN st.got - HOLDBACK ELSE st.sent

\* A match across the target pulls the cut back to its start. The spans are
\* disjoint, so there is at most one.
CutThrough(st, flush, spans) == Target(st, flush)
CutWaits(st, flush, spans) ==
  LET target == Target(st, flush) IN
  IF \E f \in spans : f.start < target /\ f.end > target THEN st.sent ELSE target
Cut(st, flush, spans) ==
  LET target == Target(st, flush)
      across == {f \in spans : f.start < target /\ f.end > target}
  IN IF across = {} THEN target ELSE (CHOOSE f \in across : TRUE).start

Release(st, flush) ==
  LET spans == Findings(text, policies, st.sent, st.got)
      target == Cut(st, flush, spans)
      settled == {f \in spans : f.end <= target}
  IN IF target = st.sent THEN st
     ELSE [st EXCEPT !.sent = target,
                     !.out = Append(@, TextFrame(st.sent, target, settled))]

Emit(st, frame) == [st EXCEPT !.out = Append(@, frame)]

-----------------------------------------------------------------------------
(* process_event.                                                          *)

ProcessText(st, ev) ==
  IF ev.content THEN Release([st EXCEPT !.got = @ + ev.n], FALSE) ELSE st

Finish(st) == [Emit(st, Frame("finish", 0, 0)) EXCEPT !.finished = TRUE]

FinishBeforeFlush(st, ev) ==
  IF ev.finish THEN Finish(st)
  ELSE IF ev.content THEN st ELSE Emit(st, Frame("other", 0, 0))

ProcessFinish(st, ev) ==
  IF ev.finish THEN Finish(Release(st, TRUE))
  ELSE IF ev.content THEN st ELSE Emit(st, Frame("other", 0, 0))

EndStream(st) == [Emit(st, Frame("done", 0, 0)) EXCEPT !.over = "done"]

ProcessDoneDropsTail(st) == EndStream(st)
ProcessDone(st) == EndStream(Release(st, TRUE))

ProcessEvent(st, ev) ==
  IF ev.done THEN ProcessDone(st) ELSE ProcessFinish(ProcessText(st, ev), ev)

-----------------------------------------------------------------------------
(* redact_sse: one poll of the upstream.                                   *)

Init ==
  /\ text \in Texts
  /\ policies \in PolicySets
  /\ got = 0
  /\ sent = 0
  /\ finished = FALSE
  /\ frames = <<>>
  /\ over = "no"

Current ==
  [got |-> got, sent |-> sent, finished |-> finished, out |-> frames, over |-> over]

Become(st) ==
  /\ got' = st.got
  /\ sent' = st.sent
  /\ finished' = st.finished
  /\ frames' = st.out
  /\ over' = st.over
  /\ UNCHANGED <<text, policies>>

\* What the upstream may send next: its text in order, the finish with the last
\* of it, other frames at any time, [DONE] last and after a finish or not.
Follows(st, ev) ==
  /\ st.over = "no"
  /\ st.got + ev.n <= Len(text)
  /\ ev.finish => ~ st.finished /\ st.got + ev.n = Len(text)

\* A chunk completes an event, or two that are processed one after the other
\* before the next poll.
Poll(ev) ==
  /\ Len(frames) < MaxFrames
  /\ Follows(Current, ev)
  /\ Become(ProcessEvent(Current, ev))

PollTwo(ev1, ev2) ==
  LET between == ProcessEvent(Current, ev1) IN
  /\ Len(frames) < MaxFrames
  /\ Follows(Current, ev1)
  /\ Follows(between, ev2)
  /\ Become(ProcessEvent(between, ev2))

\* The upstream closes without [DONE]: the pending text is flushed and the stream
\* ended.
PollEnd ==
  /\ over = "no"
  /\ Become(EndStream(Release(Current, TRUE)))

\* It closes within an event, whatever that says: what came of the event has no
\* terminator and is passed on as it is, before the [DONE] of the gateway.
RawKind(ev) == IF ev.done THEN "raw done" ELSE IF ev.finish THEN "raw finish" ELSE "raw"
PassOn(st, ev) == Emit(st, Frame(RawKind(ev), st.got, st.got + ev.n))
PollEndWithin(ev) ==
  /\ Follows(Current, ev)
  /\ Become(EndStream(PassOn(Release(Current, TRUE), ev)))

\* The upstream fails: the stream ends with an error and the pending text is lost.
PollError ==
  /\ over = "no"
  /\ Become([Emit(Current, Frame("error", 0, 0)) EXCEPT !.over = "error"])

Next ==
  \/ \E ev \in Events : Poll(ev)
  \/ \E ev1, ev2 \in Events : PollTwo(ev1, ev2)
  \/ PollEnd
  \/ \E ev \in Events : PollEndWithin(ev)
  \/ PollError

Spec == Init /\ [][Next]_vars

-----------------------------------------------------------------------------
(* Properties.                                                             *)

TextAt == {i \in DOMAIN frames : frames[i].kind = "text"}
Positions(f) == f.start .. f.end - 1
InFrame(fr) == fr.from .. fr.to - 1
Hidden(fr) == UNION {Positions(f) : f \in fr.masked}

\* The characters the client was shown as they are.
Shown == UNION {InFrame(frames[i]) \ Hidden(frames[i]) : i \in TextAt}

\* However the reply is cut into events and chunks, no character of a match of
\* a redact policy in the text received so far has been shown: HOLDBACK and the
\* pull-back in `release` keep a match that straddles a cut whole.
NoMatchShown ==
  \A f \in Findings(text, policies, 0, got) :
    f.action = "redact" => Positions(f) \cap Shown = {}

\* The text frames give the received text once and in order, each masked span
\* lies inside its frame, and a stream that ends well has withheld nothing.
NothingLost ==
  /\ UNION {InFrame(frames[i]) : i \in TextAt} = 0 .. sent - 1
  /\ \A i, j \in TextAt : i < j => frames[i].to <= frames[j].from
  /\ \A i \in TextAt :
       /\ frames[i].from < frames[i].to
       /\ \A f \in frames[i].masked : Positions(f) \subseteq InFrame(frames[i])
  /\ over = "done" => sent = got

CarriesText(fr) == fr.kind \in {"text", "raw", "raw finish"} /\ fr.from < fr.to

\* A client that stops at a finish, or at the first [DONE], misses no text: none
\* comes after a frame that says finish, also one passed on raw, and a stream that
\* ends well ends with the gateway's [DONE]. The one other [DONE] there may be is
\* the upstream's, without its terminator, passed on right before it.
MarkersComeLast ==
  /\ \A i, j \in DOMAIN frames :
       frames[i].kind \in {"finish", "raw finish"} /\ i < j => ~ CarriesText(frames[j])
  /\ \A i \in DOMAIN frames : frames[i].kind = "done" <=> i = Len(frames) /\ over = "done"
  /\ \A i \in DOMAIN frames :
       frames[i].kind = "raw done" => i + 1 = Len(frames) /\ over = "done"

\* What is held back is bounded: the tail window and at most one match across
\* its edge, however long the reply.
PendingBounded == over = "no" => got - sent < HOLDBACK + MaxMatch

-----------------------------------------------------------------------------
(* What the stream promises.                                               *)

\* The text a client has, character by character, and what a redact policy wants
\* masked of the first n characters of a reply. (What PollEndWithin passes on is
\* no text that was received.)
View == [x \in 1 .. sent |-> IF x - 1 \in Shown THEN "plain" ELSE "masked"]
Phase ==
  CASE over = "error" -> "failed" [] over = "done" -> "done"
    [] over = "no" /\ finished -> "finished" [] OTHER -> "open"
ReplySize(r) == Len(r[1])
Secrets(r, n) ==
  UNION {Positions(f) : f \in {g \in Findings(r[1], r[2], 0, n) : g.action = "redact"}}

Promise == INSTANCE MaskedStream WITH
  Replies <- Texts \X PolicySets, Size <- ReplySize, Secret <- Secrets,
  reply <- <<text, policies>>, received <- got, view <- View, phase <- Phase

\* The stream keeps the promise: whatever a poll brings and however the frames are
\* cut, what the client has of the reply grows by its end only, no secret is in it,
\* a finish says that it is complete and [DONE] that nothing is held back.
MaskingPromised == Promise!Spec
=============================================================================
