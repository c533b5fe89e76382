------------------------------- MODULE Chunker -------------------------------
(***************************************************************************)
(* chunk_text (crates/embed/src/lib.rs): a text is cut into overlapping    *)
(* windows that end at whitespace where they can.                          *)
(*                                                                         *)
(* A text is a sequence of characters of which only "is it whitespace"     *)
(* matters; a piece of it is a span, from its first character up to the    *)
(* one after its last, counted from 0 as in the code.                      *)
(***************************************************************************)
EXTENDS Integers, Sequences, FiniteSetsExt

Characters == {"x", " "}

Larger(a, b) == IF a >= b THEN a ELSE b
Smaller(a, b) == IF a <= b THEN a ELSE b

Solid(text, i) == text[i + 1] # " "

\* trim: the span without the whitespace at its ends; <<lo, lo>> if it is blank.
Trimmed(text, lo, hi) ==
  LET solid == {i \in lo .. hi - 1 : Solid(text, i)}
  IN IF solid = {} THEN <<lo, lo>> ELSE <<Min(solid), Max(solid) + 1>>

\* The clamps on the arguments: a window has a character at least, and at most
\* half of it is repeated.
Window(maxChars) == Larger(maxChars, 1)
Keep(maxChars, overlap) == Smaller(overlap, Window(maxChars) \div 2)

\* Where the window that starts at `start` ends: at its last whitespace, unless
\* it reaches the end of the text or has none past its first character.
EndAtFirst(text, start, width) ==
  LET hardEnd == Smaller(start + width, Len(text))
      blanks == {i \in start + 1 .. hardEnd - 1 : ~ Solid(text, i)}
  IN IF hardEnd < Len(text) /\ blanks # {} THEN Min(blanks) ELSE hardEnd
End(text, start, width) ==
  LET hardEnd == Smaller(start + width, Len(text))
      blanks == {i \in start + 1 .. hardEnd - 1 : ~ Solid(text, i)}
  IN IF hardEnd < Len(text) /\ blanks # {} THEN Max(blanks) ELSE hardEnd

\* Where the next window starts.
AdvancePast(start, end, keep) == Larger(end + 1 - keep, start + 1)
Advance(start, end, keep) == Larger(end - keep, start + 1)

\* The chunk of a window: none if it is blank.
Piece(text, start, end) ==
  LET span == Trimmed(text, start, end)
  IN IF span[1] < span[2] THEN <<span>> ELSE <<>>

\* The loop, from each start on.
Cuts(text, width, keep) ==
  LET from[start \in 0 .. Len(text)] ==
        IF start = Len(text) THEN <<>>
        ELSE LET end == End(text, start, width) IN
             IF end = Len(text) THEN Piece(text, start, end)
             ELSE Piece(text, start, end) \o from[Advance(start, end, keep)]
  IN from

\* The spans are of the trimmed text.
Body(content) == LET t == Trimmed(content, 0, Len(content)) IN SubSeq(content, t[1] + 1, t[2])

ChunkText(content, maxChars, overlap) ==
  LET text == Body(content)
      width == Window(maxChars)
  IN IF text = <<>> THEN <<>>
     ELSE IF Len(text) <= width THEN <<<<0, Len(text)>>>>
     ELSE Cuts(text, width, Keep(maxChars, overlap))[0]

-----------------------------------------------------------------------------
(* What a list of chunks should be, with nothing of the loop.              *)

\* The words of a text: the longest spans without whitespace.
Words(text) ==
  {w \in (0 .. Len(text)) \X (0 .. Len(text)) :
     /\ w[1] < w[2]
     /\ \A i \in w[1] .. w[2] - 1 : Solid(text, i)
     /\ w[1] > 0 => ~ Solid(text, w[1] - 1)
     /\ w[2] < Len(text) => ~ Solid(text, w[2])}

Within(a, b) == b[1] <= a[1] /\ a[2] <= b[2]

\* No character is lost, no chunk is longer than the window, and a word that
\* fits in a window beside the whitespace before it is whole in some chunk.
CoversText(text, chunks, width) ==
  /\ \A k \in DOMAIN chunks : chunks[k][2] - chunks[k][1] <= width
  /\ \A w \in Words(text) :
       /\ \A i \in w[1] .. w[2] - 1 :
            \E k \in DOMAIN chunks : i \in chunks[k][1] .. chunks[k][2] - 1
       /\ w[2] - w[1] < width => \E k \in DOMAIN chunks : Within(w, chunks[k])

\* The word that follows the k-th chunk and the whitespace before it do not fit
\* in a window beside the overlap.
LongWordFollows(text, chunk, width, keep) ==
  \E w \in Words(text) :
    /\ chunk[2] < w[1]
    /\ \A i \in chunk[2] .. w[1] - 1 : ~ Solid(text, i)
    /\ w[2] - chunk[2] >= width - keep

\* Every chunk has text its predecessor has not, except before a word too long
\* to follow the overlap.
AddsText(text, chunks, width, keep) ==
  \A k \in 2 .. Len(chunks) :
    chunks[k][2] > chunks[k - 1][2] \/ LongWordFollows(text, chunks[k - 1], width, keep)
=============================================================================
