----------------------------- MODULE Rag_proofs -----------------------------
(***************************************************************************)
(* Proofs about the chunker, for every text and window, and about the      *)
(* knowledge base, for any requests, documents and answers of the service. *)
(*                                                                         *)
(* Induction over the loop of chunk_text is by a least counterexample: the *)
(* starts where a claim fails have a last one, as the loop only moves on.  *)
(***************************************************************************)
EXTENDS Rag, SequenceTheorems, FiniteSetTheorems, WellFoundedInduction, TLAPS

-----------------------------------------------------------------------------
(* Least and greatest elements.                                            *)

LEMMA LeastNat ==
  ASSUME NEW S \in SUBSET Nat, S # {}
  PROVE  \E m \in S : \A x \in S : m <= x
<1>1. PICK m \in S : \A y \in S : ~ (<<y, m>> \in OpToRel(<, Nat))
  BY WFMin, NatLessThanWellFounded
<1>2. \A y \in S : ~ (y < m)
  BY <1>1 DEF OpToRel
<1> QED
  BY <1>2

LEMMA GreatestNat ==
  ASSUME NEW n \in Nat, NEW S \in SUBSET (0 .. n), S # {}
  PROVE  \E m \in S : \A x \in S : x <= m
<1> DEFINE T == {n - i : i \in S}
<1>1. T \in SUBSET Nat /\ T # {}
  <2>1. \A i \in S : n - i \in Nat
    OBVIOUS
  <2>2. PICK i \in S : TRUE
    OBVIOUS
  <2>3. n - i \in T
    BY <2>2
  <2> QED
    BY <2>1, <2>3
<1> HIDE DEF T
<1>2. PICK y \in T : \A x \in T : y <= x
  BY <1>1, LeastNat
<1>3. PICK m \in S : y = n - m
  BY DEF T
<1>4. ASSUME NEW x \in S PROVE x <= m
  <2>1. n - x \in T
    BY DEF T
  <2> QED
    BY <1>2, <1>3, <2>1
<1> QED
  BY <1>4

LEMMA MinFacts ==
  ASSUME NEW S \in SUBSET Nat, S # {}
  PROVE  Min(S) \in S /\ \A x \in S : Min(S) <= x
  BY LeastNat DEF Min

LEMMA MaxFacts ==
  ASSUME NEW n \in Nat, NEW S \in SUBSET (0 .. n), S # {}
  PROVE  Max(S) \in S /\ \A x \in S : x <= Max(S)
<1>1. PICK m \in S : \A x \in S : x <= m
  BY GreatestNat
<1>2. \A x \in S : m >= x
  BY <1>1
<1>3. Max(S) \in S /\ \A x \in S : Max(S) >= x
  BY <1>2 DEF Max
<1> QED
  BY <1>3

-----------------------------------------------------------------------------
(* One window of the text.                                                 *)

SpanSet == Nat \X Nat
Spans == Seq(SpanSet)

\* A trimmed span keeps every solid character and begins and ends with one.
LEMMA TrimmedFacts ==
  ASSUME NEW text, NEW hi \in Nat, NEW lo \in 0 .. hi
  PROVE  LET t == Trimmed(text, lo, hi) IN
         /\ t \in SpanSet /\ lo <= t[1] /\ t[1] <= t[2] /\ t[2] <= hi
         /\ \A i \in lo .. hi - 1 : Solid(text, i) => t[1] <= i /\ i < t[2]
         /\ t[1] < t[2] => Solid(text, t[1]) /\ Solid(text, t[2] - 1)
<1> DEFINE solid == {i \in lo .. hi - 1 : Solid(text, i)}
           t == Trimmed(text, lo, hi)
<1>1. t = IF solid = {} THEN <<lo, lo>> ELSE <<Min(solid), Max(solid) + 1>>
  BY DEF Trimmed
<1>2. solid \in SUBSET (0 .. hi) /\ solid \in SUBSET Nat
  OBVIOUS
<1>3. \A i \in solid : lo <= i /\ i < hi /\ Solid(text, i)
  OBVIOUS
<1>4. \A i \in lo .. hi - 1 : Solid(text, i) => i \in solid
  OBVIOUS
<1> HIDE DEF solid, t
<1>5. CASE solid = {}
  <2>1. t = <<lo, lo>>
    BY <1>1, <1>5
  <2>2. t[1] = lo /\ t[2] = lo /\ t \in SpanSet
    BY <2>1 DEF SpanSet
  <2> QED
    BY <1>4, <1>5, <2>2 DEF t
<1>6. CASE solid # {}
  <2>1. /\ Min(solid) \in solid /\ \A x \in solid : Min(solid) <= x
        /\ Max(solid) \in solid /\ \A x \in solid : x <= Max(solid)
    BY <1>2, <1>6, MinFacts, MaxFacts
  <2> DEFINE a == Min(solid)
             b == Max(solid)
  <2>2. t = <<a, b + 1>>
    BY <1>1, <1>6
  <2>3. /\ a \in solid /\ b \in solid /\ a \in Nat /\ b \in Nat
        /\ \A x \in solid : a <= x /\ x <= b
    BY <1>2, <2>1
  <2> HIDE DEF a, b
  <2>4. t[1] = a /\ t[2] = b + 1 /\ t \in SpanSet /\ (b + 1) - 1 = b
    BY <2>2, <2>3 DEF SpanSet
  <2>5. lo <= a /\ b < hi /\ a <= b /\ Solid(text, a) /\ Solid(text, b)
    BY <1>3, <2>3
  <2>6. \A i \in lo .. hi - 1 : Solid(text, i) => a <= i /\ i < b + 1
    <3> SUFFICES ASSUME NEW i \in lo .. hi - 1, Solid(text, i) PROVE a <= i /\ i < b + 1
      OBVIOUS
    <3>1. a <= i /\ i <= b
      BY <1>4, <2>3
    <3> QED
      BY <2>3, <3>1
  <2> QED
    BY <2>3, <2>4, <2>5, <2>6 DEF t
<1> QED
  BY <1>5, <1>6

\* Where a window ends: at a whitespace, or whole when it has none inside.
LEMMA EndFacts ==
  ASSUME NEW text, Len(text) \in Nat, NEW start \in Nat, start < Len(text),
         NEW width \in Nat \ {0}
  PROVE  LET end == End(text, start, width) IN
         /\ end \in Nat /\ start < end /\ end <= Len(text) /\ end <= start + width
         /\ end < Len(text) =>
              \/ /\ ~ Solid(text, end) /\ end < start + width
                 /\ \A i \in end + 1 .. start + width - 1 : Solid(text, i)
              \/ /\ end = start + width
                 /\ \A i \in start + 1 .. end - 1 : Solid(text, i)
         /\ end < Len(text) => start + width < Len(text)
<1> DEFINE hardEnd == Smaller(start + width, Len(text))
           blanks == {i \in start + 1 .. hardEnd - 1 : ~ Solid(text, i)}
           end == End(text, start, width)
<1>1. end = IF hardEnd < Len(text) /\ blanks # {} THEN Max(blanks) ELSE hardEnd
  BY DEF End
<1>2. /\ hardEnd \in Nat /\ start < hardEnd /\ hardEnd <= Len(text)
      /\ hardEnd <= start + width
      /\ hardEnd < Len(text) => hardEnd = start + width
  BY DEF Smaller
<1>3. /\ blanks \in SUBSET (0 .. hardEnd)
      /\ \A i \in blanks : start < i /\ i < hardEnd /\ ~ Solid(text, i) /\ i \in Nat
      /\ \A i \in start + 1 .. hardEnd - 1 : ~ Solid(text, i) => i \in blanks
  BY <1>2
<1> HIDE DEF hardEnd, blanks, end
<1>4. CASE hardEnd < Len(text) /\ blanks # {}
  <2>1. Max(blanks) \in blanks /\ \A x \in blanks : x <= Max(blanks)
    BY <1>2, <1>3, <1>4, MaxFacts
  <2>2. /\ end \in blanks /\ \A x \in blanks : x <= end
        /\ end \in Nat /\ start < end /\ end < hardEnd /\ ~ Solid(text, end)
    BY <1>1, <1>3, <1>4, <2>1
  <2>3. ASSUME NEW i \in end + 1 .. hardEnd - 1 PROVE Solid(text, i)
    <3>1. i \in start + 1 .. hardEnd - 1 /\ ~ (i <= end)
      BY <1>2, <2>2
    <3> QED
      BY <1>3, <2>2, <3>1
  <2> QED
    BY <1>2, <1>4, <2>2, <2>3 DEF end
<1>5. CASE ~ (hardEnd < Len(text) /\ blanks # {})
  <2>1. end = hardEnd
    BY <1>1, <1>5
  <2>2. end < Len(text) => \A i \in start + 1 .. end - 1 : Solid(text, i)
    BY <1>3, <1>5, <2>1
  <2> QED
    BY <1>2, <2>1, <2>2 DEF end
<1> QED
  BY <1>4, <1>5

\* The next window starts after this one and not after its end, and repeats what
\* is to be kept at most.
LEMMA AdvanceFacts ==
  ASSUME NEW start \in Nat, NEW end \in Nat, start < end, NEW keep \in Nat
  PROVE  /\ Advance(start, end, keep) \in Nat
         /\ start < Advance(start, end, keep) /\ Advance(start, end, keep) <= end
         /\ end - keep <= Advance(start, end, keep)
  BY DEF Advance, Larger

-----------------------------------------------------------------------------
(* The loop is well defined.                                               *)

\* One turn of the loop of Cuts, given what the later turns return.
Turn(text, width, keep, from, start) ==
  IF start = Len(text) THEN <<>>
  ELSE IF End(text, start, width) = Len(text) THEN Piece(text, start, End(text, start, width))
  ELSE Piece(text, start, End(text, start, width))
         \o from[Advance(start, End(text, start, width), keep)]

Starts(text) == 0 .. Len(text)

LEMMA PieceTyped ==
  ASSUME NEW text, NEW end \in Nat, NEW start \in 0 .. end
  PROVE  Piece(text, start, end) \in Spans
<1> DEFINE t == Trimmed(text, start, end)
<1>1. t \in SpanSet
  BY TrimmedFacts
<1>2. Piece(text, start, end) = IF t[1] < t[2] THEN <<t>> ELSE <<>>
  BY DEF Piece
<1> HIDE DEF t
<1> QED
  BY <1>1, <1>2 DEF Spans

\* A turn returns chunks, and looks at later turns only.
LEMMA TurnTyped ==
  ASSUME NEW text, Len(text) \in Nat, NEW width \in Nat \ {0}, NEW keep \in Nat,
         NEW f, NEW s \in Starts(text),
         \A i \in Starts(text) : i > s => f[i] \in Spans
  PROVE  Turn(text, width, keep, f, s) \in Spans
<1>1. CASE s = Len(text)
  BY <1>1 DEF Turn, Spans
<1>2. CASE s # Len(text)
  <2> DEFINE end == End(text, s, width)
             next == Advance(s, end, keep)
  <2>1. s \in Nat /\ s < Len(text)
    BY <1>2 DEF Starts
  <2>2. end \in Nat /\ s < end /\ end <= Len(text)
    BY <2>1, EndFacts
  <2>3. next \in Nat /\ next <= end /\ s < next
    BY <2>1, <2>2, AdvanceFacts
  <2>4. Turn(text, width, keep, f, s) =
          IF end = Len(text) THEN Piece(text, s, end) ELSE Piece(text, s, end) \o f[next]
    BY <1>2 DEF Turn
  <2> HIDE DEF end, next
  <2>5. Piece(text, s, end) \in Spans
    BY <2>1, <2>2, PieceTyped
  <2>6. next \in Starts(text) /\ next > s
    BY <2>1, <2>2, <2>3 DEF Starts
  <2>7. f[next] \in Spans
    BY <2>6
  <2> QED
    BY <2>4, <2>5, <2>7 DEF Spans
<1> QED
  BY <1>1, <1>2

LEMMA TurnLooksAhead ==
  ASSUME NEW text, Len(text) \in Nat, NEW width \in Nat \ {0}, NEW keep \in Nat,
         NEW f, NEW g, NEW s \in Starts(text),
         \A i \in Starts(text) : i > s => f[i] = g[i]
  PROVE  Turn(text, width, keep, f, s) = Turn(text, width, keep, g, s)
<1>1. CASE s = Len(text)
  BY <1>1 DEF Turn
<1>2. CASE s # Len(text)
  <2> DEFINE end == End(text, s, width)
             next == Advance(s, end, keep)
  <2>1. s \in Nat /\ s < Len(text)
    BY <1>2 DEF Starts
  <2>2. end \in Nat /\ s < end /\ end <= Len(text)
    BY <2>1, EndFacts
  <2>3. next \in Nat /\ next <= end /\ s < next
    BY <2>1, <2>2, AdvanceFacts
  <2>4. f[next] = g[next]
    BY <2>1, <2>2, <2>3 DEF Starts
  <2> QED
    BY <1>2, <2>4 DEF Turn
<1> QED
  BY <1>1, <1>2

\* The function Cuts returns: at every start, a turn of the loop.
LEMMA CutsEquation ==
  ASSUME NEW text, Len(text) \in Nat, NEW width \in Nat \ {0}, NEW keep \in Nat
  PROVE  /\ Cuts(text, width, keep) \in [Starts(text) -> Spans]
         /\ \A s \in Starts(text) :
              Cuts(text, width, keep)[s] = Turn(text, width, keep, Cuts(text, width, keep), s)
<1> DEFINE n == Len(text)
           Good(f, m) == \A s \in m .. n : f[s] = Turn(text, width, keep, f, s)
           Candidates == [Starts(text) -> Spans]
           M == {m \in 0 .. n : \E f \in Candidates : Good(f, m)}
<1>1. n \in M
  <2> DEFINE f == [s \in Starts(text) |-> <<>>]
  <2>1. f \in Candidates
    BY DEF Spans
  <2>2. Turn(text, width, keep, f, n) = <<>>
    BY DEF Turn
  <2>3. n \in Starts(text)
    BY DEF Starts
  <2>4. f[n] = <<>>
    BY <2>3
  <2>5. \A s \in n .. n : s = n
    OBVIOUS
  <2>6. Good(f, n)
    BY <2>2, <2>4, <2>5
  <2> HIDE DEF f, Good
  <2> QED
    BY <2>1, <2>6
<1>2. PICK m \in M : \A x \in M : m <= x
  <2>1. M \in SUBSET Nat /\ M # {}
    BY <1>1
  <2> HIDE DEF M
  <2> QED
    BY <2>1, LeastNat
<1>3. PICK f \in Candidates : Good(f, m)
  BY <1>2
<1>4. m \in 0 .. n
  OBVIOUS
<1>5. m = 0
  <2> SUFFICES ASSUME m # 0 PROVE FALSE
    OBVIOUS
  <2>1. m - 1 \in 0 .. n /\ m - 1 \in Starts(text) /\ m \in Nat
    BY <1>4 DEF Starts
  <2> DEFINE v == Turn(text, width, keep, f, m - 1)
             g == [f EXCEPT ![m - 1] = v]
  <2>2. v \in Spans
    BY <2>1, TurnTyped
  <2>3. g \in Candidates
    BY <2>2
  <2>4. \A i \in Starts(text) : i # m - 1 => g[i] = f[i]
    OBVIOUS
  <2>5. g[m - 1] = v
    BY <2>1
  <2> HIDE DEF g, v
  <2>6. ASSUME NEW s \in (m - 1) .. n PROVE g[s] = Turn(text, width, keep, g, s)
    <3>1. s \in Starts(text)
      BY <2>1 DEF Starts
    <3>2. \A i \in Starts(text) : i > s => f[i] = g[i]
      BY <2>1, <2>4
    <3>3. Turn(text, width, keep, f, s) = Turn(text, width, keep, g, s)
      BY <3>1, <3>2, TurnLooksAhead
    <3>4. CASE s = m - 1
      BY <2>5, <3>3, <3>4 DEF v
    <3>5. CASE s # m - 1
      <4>1. s \in m .. n
        BY <2>1, <3>5
      <4> QED
        BY <1>3, <2>4, <3>1, <3>3, <3>5, <4>1
    <3> QED
      BY <3>4, <3>5
  <2>7. Good(g, m - 1)
    BY <2>6
  <2> HIDE DEF Good
  <2>8. m - 1 \in M
    BY <2>1, <2>3, <2>7
  <2>9. m <= m - 1
    BY <1>2, <2>8
  <2> QED
    BY <2>1, <2>9
<1>6. \A s \in Starts(text) : f[s] = Turn(text, width, keep, f, s)
  BY <1>3, <1>5 DEF Starts
<1>7. f = [s \in Starts(text) |-> Turn(text, width, keep, f, s)]
  BY <1>6
<1> DEFINE c == Cuts(text, width, keep)
<1>8. c = CHOOSE h : h = [s \in Starts(text) |-> Turn(text, width, keep, h, s)]
  BY DEF Cuts, Turn, Starts
<1> HIDE DEF c
<1>9. c = [s \in Starts(text) |-> Turn(text, width, keep, c, s)]
  BY <1>7, <1>8
<1>10. \A s \in Starts(text) : c[s] = Turn(text, width, keep, c, s)
  BY <1>9
<1>11. \A s \in Starts(text) : c[s] \in Spans
  <2> SUFFICES ASSUME NEW s \in Starts(text), c[s] \notin Spans PROVE FALSE
    OBVIOUS
  <2> DEFINE Bad == {i \in Starts(text) : c[i] \notin Spans}
  <2>1. Bad \in SUBSET (0 .. n) /\ Bad # {}
    BY DEF Starts
  <2> HIDE DEF Bad
  <2>2. PICK last \in Bad : \A i \in Bad : i <= last
    BY <2>1, GreatestNat
  <2>3. last \in Starts(text) /\ c[last] \notin Spans
    BY DEF Bad
  <2>4. \A i \in Starts(text) : i > last => i \notin Bad
    BY <2>2, <2>3 DEF Starts
  <2>5. \A i \in Starts(text) : i > last => c[i] \in Spans
    BY <2>4 DEF Bad
  <2> QED
    BY <1>10, <2>3, <2>5, TurnTyped
<1>12. c \in [Starts(text) -> Spans]
  BY <1>9, <1>11
<1> QED
  BY <1>10, <1>12 DEF c

-----------------------------------------------------------------------------
(* What the chunks cover.                                                  *)

Elements(list) == {list[k] : k \in DOMAIN list}

LEMMA ElementsOfBoth ==
  ASSUME NEW a \in Spans, NEW b \in Spans
  PROVE  Elements(a \o b) = Elements(a) \cup Elements(b)
<1> DEFINE c == a \o b
<1>1. /\ DOMAIN a = 1 .. Len(a) /\ DOMAIN b = 1 .. Len(b)
      /\ Len(a) \in Nat /\ Len(b) \in Nat
  BY DEF Spans
<1>2. /\ DOMAIN c = 1 .. Len(a) + Len(b)
      /\ \A k \in 1 .. Len(a) + Len(b) : c[k] = IF k <= Len(a) THEN a[k] ELSE b[k - Len(a)]
  BY DEF Spans
<1> HIDE DEF c
<1>3. ASSUME NEW k \in DOMAIN c PROVE c[k] \in Elements(a) \cup Elements(b)
  <2>1. CASE k <= Len(a)
    BY <1>1, <1>2, <2>1 DEF Elements
  <2>2. CASE ~ (k <= Len(a))
    <3>1. k - Len(a) \in DOMAIN b /\ c[k] = b[k - Len(a)]
      BY <1>1, <1>2, <2>2
    <3> QED
      BY <3>1 DEF Elements
  <2> QED
    BY <2>1, <2>2
<1>4. ASSUME NEW k \in DOMAIN a PROVE a[k] \in Elements(c)
  <2>1. k \in DOMAIN c /\ c[k] = a[k]
    BY <1>1, <1>2
  <2> QED
    BY <2>1 DEF Elements
<1>5. ASSUME NEW k \in DOMAIN b PROVE b[k] \in Elements(c)
  <2>1. k + Len(a) \in DOMAIN c /\ c[k + Len(a)] = b[k]
    BY <1>1, <1>2
  <2> QED
    BY <2>1 DEF Elements
<1> QED
  BY <1>3, <1>4, <1>5 DEF Elements, c

\* The chunk of the window at s, if it has one, and the chunks after it.
Own(text, width, s) ==
  LET span == Trimmed(text, s, End(text, s, width))
  IN IF span[1] < span[2] THEN {span} ELSE {}
Later(text, width, keep, s) ==
  LET end == End(text, s, width)
  IN IF end = Len(text) THEN {} ELSE Elements(Cuts(text, width, keep)[Advance(s, end, keep)])

\* What the loop returns from the window at s on.
LEMMA WindowFacts ==
  ASSUME NEW text, Len(text) \in Nat, NEW width \in Nat \ {0}, NEW keep \in Nat,
         NEW s \in Nat, s < Len(text)
  PROVE  LET from == Cuts(text, width, keep)
             end == End(text, s, width)
             next == Advance(s, end, keep)
         IN /\ end = Len(text) => from[s] = Piece(text, s, end)
            /\ end # Len(text) => /\ from[s] = Piece(text, s, end) \o from[next]
                                  /\ next \in Starts(text)
            /\ Elements(from[s]) = Own(text, width, s) \cup Later(text, width, keep, s)
<1> DEFINE from == Cuts(text, width, keep)
           end == End(text, s, width)
           span == Trimmed(text, s, end)
           next == Advance(s, end, keep)
           piece == IF span[1] < span[2] THEN <<span>> ELSE <<>>
<1>1. s \in Starts(text) /\ s # Len(text)
  BY DEF Starts
<1>2. end \in Nat /\ s < end /\ end <= Len(text)
  BY EndFacts
<1>3. next \in Nat /\ next <= end
  BY <1>2, AdvanceFacts
<1>4. next \in Starts(text)
  BY <1>2, <1>3 DEF Starts
<1>5. from[s] = IF end = Len(text) THEN piece ELSE piece \o from[next]
  BY <1>1, CutsEquation DEF Turn, Piece
<1>5a. piece = Piece(text, s, end)
  BY DEF Piece
<1>6. span \in SpanSet
  BY <1>2, TrimmedFacts
<1>7. from[next] \in Spans
  BY <1>4, CutsEquation
<1> HIDE DEF from, end, next, span
<1>8. piece \in Spans
  BY <1>6 DEF Spans
<1>9. Elements(piece) = IF span[1] < span[2] THEN {span} ELSE {}
  <2>1. CASE span[1] < span[2]
    <3>1. piece = <<span>>
      BY <2>1
    <3>2. DOMAIN piece = {1} /\ piece[1] = span
      BY <3>1
    <3> QED
      BY <2>1, <3>2 DEF Elements
  <2>2. CASE ~ (span[1] < span[2])
    <3>1. piece = <<>>
      BY <2>2
    <3>2. DOMAIN piece = {}
      BY <3>1
    <3> QED
      BY <2>2, <3>2 DEF Elements
  <2> QED
    BY <2>1, <2>2
<1> HIDE DEF piece
<1>10. Elements(piece \o from[next]) = Elements(piece) \cup Elements(from[next])
  BY <1>7, <1>8, ElementsOfBoth
<1>11. Elements(from[s]) =
         (IF span[1] < span[2] THEN {span} ELSE {})
           \cup (IF end = Len(text) THEN {} ELSE Elements(from[next]))
  BY <1>5, <1>9, <1>10
<1>12. /\ Own(text, width, s) = IF span[1] < span[2] THEN {span} ELSE {}
       /\ Later(text, width, keep, s) = IF end = Len(text) THEN {} ELSE Elements(from[next])
  BY DEF Own, Later, from, end, next, span
<1>13. Elements(from[s]) = Own(text, width, s) \cup Later(text, width, keep, s)
  BY <1>11, <1>12
<1> QED
  BY <1>4, <1>5, <1>13, <1>5a DEF from, end, next

\* The chunks of the text from s on.
CoversFrom(text, list, s, width) ==
  /\ \A x \in list :
       x \in SpanSet /\ s <= x[1] /\ x[2] <= Len(text) /\ x[2] - x[1] <= width
  /\ \A i \in s .. Len(text) - 1 :
       Solid(text, i) => \E x \in list : x[1] <= i /\ i < x[2]
  /\ \A w \in Words(text) :
       s <= w[1] /\ w[2] - w[1] < width => \E x \in list : Within(w, x)

LEMMA EveryStartCovers ==
  ASSUME NEW text, Len(text) \in Nat, NEW width \in Nat \ {0}, NEW keep \in Nat,
         NEW s \in Nat, s < Len(text),
         LET end == End(text, s, width)
             next == Advance(s, end, keep)
         IN end # Len(text) =>
              CoversFrom(text, Elements(Cuts(text, width, keep)[next]), next, width)
  PROVE  CoversFrom(text, Elements(Cuts(text, width, keep)[s]), s, width)
<1> DEFINE from == Cuts(text, width, keep)
           n == Len(text)
           end == End(text, s, width)
           span == Trimmed(text, s, end)
           next == Advance(s, end, keep)
           rest == IF end = n THEN {} ELSE Elements(from[next])
           all == Elements(from[s])
<1>1. /\ end \in Nat /\ s < end /\ end <= n /\ end <= s + width
      /\ end < n =>
           \/ /\ ~ Solid(text, end) /\ end < s + width
              /\ \A i \in end + 1 .. s + width - 1 : Solid(text, i)
           \/ /\ end = s + width
              /\ \A i \in s + 1 .. end - 1 : Solid(text, i)
  BY EndFacts
<1>2. next \in Nat /\ s < next /\ next <= end
  BY <1>1, AdvanceFacts
<1>3. /\ span \in SpanSet /\ s <= span[1] /\ span[1] <= span[2] /\ span[2] <= end
      /\ \A i \in s .. end - 1 : Solid(text, i) => span[1] <= i /\ i < span[2]
  BY <1>1, TrimmedFacts
<1>4. all = (IF span[1] < span[2] THEN {span} ELSE {}) \cup rest
  <2>1. all = Own(text, width, s) \cup Later(text, width, keep, s)
    BY WindowFacts
  <2> QED
    BY <2>1 DEF Own, Later
<1>5. end # n => CoversFrom(text, Elements(from[next]), next, width)
  OBVIOUS
<1>6. rest # {} => end # n
  OBVIOUS
<1>7. end # n => rest = Elements(from[next])
  OBVIOUS
<1> HIDE DEF from, end, span, next, rest, all
<1>8. span[1] \in Nat /\ span[2] \in Nat
  BY <1>3 DEF SpanSet
<1>9. /\ \A x \in rest : x \in SpanSet /\ next <= x[1] /\ x[2] <= n /\ x[2] - x[1] <= width
      /\ end # n =>
           /\ \A i \in next .. n - 1 : Solid(text, i) => \E x \in rest : x[1] <= i /\ i < x[2]
           /\ \A w \in Words(text) :
                next <= w[1] /\ w[2] - w[1] < width => \E x \in rest : Within(w, x)
  BY <1>5, <1>6, <1>7 DEF CoversFrom
<1>10. \A x \in all : x \in SpanSet /\ s <= x[1] /\ x[2] <= n /\ x[2] - x[1] <= width
  <2> SUFFICES ASSUME NEW x \in all
               PROVE  x \in SpanSet /\ s <= x[1] /\ x[2] <= n /\ x[2] - x[1] <= width
    OBVIOUS
  <2>1. CASE x = span
    BY <1>1, <1>3, <1>8, <2>1
  <2>2. CASE x \in rest
    <3>1. x \in SpanSet /\ next <= x[1] /\ x[2] <= n /\ x[2] - x[1] <= width
      BY <1>9, <2>2
    <3>2. x[1] \in Nat
      BY <3>1 DEF SpanSet
    <3> QED
      BY <1>2, <3>1, <3>2
  <2> QED
    BY <1>4, <2>1, <2>2
<1>11. ASSUME NEW i \in s .. n - 1, Solid(text, i)
       PROVE  \E x \in all : x[1] <= i /\ i < x[2]
  <2>1. CASE i < end
    <3>1. span[1] <= i /\ i < span[2]
      BY <1>1, <1>3, <1>11, <2>1
    <3>2. span \in all
      BY <1>4, <1>8, <3>1
    <3> QED
      BY <3>1, <3>2
  <2>2. CASE ~ (i < end)
    <3>1. end # n /\ i \in next .. n - 1
      BY <1>1, <1>2, <2>2
    <3> QED
      BY <1>4, <1>9, <1>11, <3>1
  <2> QED
    BY <2>1, <2>2
<1>12. ASSUME NEW w \in Words(text), s <= w[1], w[2] - w[1] < width
       PROVE  \E x \in all : Within(w, x)
  <2>1. /\ w[1] \in Nat /\ w[2] \in Nat /\ w[1] < w[2] /\ w[2] <= n
        /\ \A i \in w[1] .. w[2] - 1 : Solid(text, i)
        /\ w[1] > 0 => ~ Solid(text, w[1] - 1)
    BY DEF Words
  <2>2. CASE w[2] <= end
    <3>1. Solid(text, w[1]) /\ Solid(text, w[2] - 1)
      BY <2>1
    <3>2. w[1] \in s .. end - 1 /\ w[2] - 1 \in s .. end - 1
      BY <1>1, <1>12, <2>1, <2>2
    <3>3. span[1] <= w[1] /\ w[2] - 1 < span[2]
      BY <1>3, <3>1, <3>2
    <3>4. span \in all /\ Within(w, span)
      BY <1>4, <1>8, <2>1, <3>3 DEF Within
    <3> QED
      BY <3>4
  <2>3. CASE next <= w[1] /\ ~ (w[2] <= end)
    <3>1. end # n
      BY <1>1, <2>1, <2>3
    <3> QED
      BY <1>4, <1>9, <1>12, <2>3, <3>1
  <2>4. CASE w[1] < next /\ ~ (w[2] <= end)
    <3>1. end \in w[1] .. w[2] - 1 /\ end < n
      BY <1>1, <1>2, <2>1, <2>4
    <3>2. Solid(text, end)
      BY <2>1, <3>1
    <3>3. end = s + width /\ \A i \in s + 1 .. end - 1 : Solid(text, i)
      BY <1>1, <3>1, <3>2
    <3>4. w[1] <= s + 1
      <4> SUFFICES ASSUME w[1] > s + 1 PROVE FALSE
        BY <2>1
      <4>1. w[1] - 1 \in s + 1 .. end - 1
        BY <1>1, <1>2, <2>1, <2>4
      <4> QED
        BY <2>1, <3>3, <4>1
    <3> QED
      BY <1>12, <2>1, <2>4, <3>3, <3>4, <1>1
  <2> QED
    BY <1>2, <2>1, <2>2, <2>3, <2>4
<1> QED
  BY <1>10, <1>11, <1>12 DEF CoversFrom, all, from

LEMMA CutsCover ==
  ASSUME NEW text, Len(text) \in Nat, NEW width \in Nat \ {0}, NEW keep \in Nat,
         NEW s \in Starts(text)
  PROVE  CoversFrom(text, Elements(Cuts(text, width, keep)[s]), s, width)
<1> DEFINE from == Cuts(text, width, keep)
           Bad == {i \in Starts(text) : ~ CoversFrom(text, Elements(from[i]), i, width)}
<1> SUFFICES ASSUME Bad # {} PROVE FALSE
  OBVIOUS
<1>1. Bad \in SUBSET (0 .. Len(text))
  BY DEF Starts
<1> HIDE DEF Bad, from
<1>2. PICK last \in Bad : \A i \in Bad : i <= last
  BY <1>1, GreatestNat
<1>3. last \in Starts(text) /\ ~ CoversFrom(text, Elements(from[last]), last, width)
  BY DEF Bad
<1>4. CASE last = Len(text)
  <2>1. from[last] = <<>>
    BY <1>3, <1>4, CutsEquation DEF Turn, from
  <2>2. Elements(from[last]) = {}
    BY <2>1 DEF Elements
  <2>3. \A w \in Words(text) : ~ (Len(text) <= w[1])
    BY DEF Words
  <2>4. CoversFrom(text, {}, last, width)
    BY <1>4, <2>3 DEF CoversFrom
  <2> QED
    BY <1>3, <2>2, <2>4
<1>5. CASE last # Len(text)
  <2> DEFINE end == End(text, last, width)
             next == Advance(last, end, keep)
  <2>1. last \in Nat /\ last < Len(text)
    BY <1>3, <1>5 DEF Starts
  <2>2. end \in Nat /\ last < end /\ end <= Len(text)
    BY <2>1, EndFacts
  <2>3. next \in Nat /\ next <= end /\ last < next
    BY <2>1, <2>2, AdvanceFacts
  <2>4. next \in Starts(text) /\ ~ (next <= last)
    BY <2>1, <2>2, <2>3 DEF Starts
  <2>5. next \notin Bad
    BY <1>2, <2>4
  <2>6. CoversFrom(text, Elements(from[next]), next, width)
    BY <2>4, <2>5 DEF Bad
  <2>7. CoversFrom(text, Elements(from[last]), last, width)
    BY <2>1, <2>6, EveryStartCovers DEF from
  <2> QED
    BY <1>3, <2>7
<1> QED
  BY <1>4, <1>5

\* The clamps leave a window of a character at least, and less to repeat.
LEMMA ClampFacts ==
  ASSUME NEW maxChars \in Nat, NEW overlap \in Nat
  PROVE  /\ Window(maxChars) \in Nat \ {0} /\ Keep(maxChars, overlap) \in Nat
         /\ Keep(maxChars, overlap) < Window(maxChars)
  BY DEF Window, Keep, Larger, Smaller

\* A text that is trimmed: its last character is solid.
Trim(text) == text \in Seq(Characters) /\ (text # <<>> => Solid(text, Len(text) - 1))

LEMMA BodyIsTrim ==
  ASSUME NEW text \in Seq(Characters)
  PROVE  Trim(Body(text))
<1> DEFINE n == Len(text)
           t == Trimmed(text, 0, n)
           body == SubSeq(text, t[1] + 1, t[2])
<1>1. n \in Nat /\ 0 \in 0 .. n
  OBVIOUS
<1>2. /\ t \in SpanSet /\ 0 <= t[1] /\ t[1] <= t[2] /\ t[2] <= n
      /\ t[1] < t[2] => Solid(text, t[1]) /\ Solid(text, t[2] - 1)
  BY <1>1, TrimmedFacts
<1>3. Body(text) = body
  BY DEF Body
<1> HIDE DEF t
<1>4. t[1] \in Nat /\ t[2] \in Nat
  BY <1>2 DEF SpanSet
<1>5. \A i \in t[1] + 1 .. t[2] : text[i] \in Characters
  BY <1>2, <1>4
<1>6. /\ body \in Seq(Characters)
      /\ Len(body) = IF t[1] + 1 <= t[2] THEN t[2] - t[1] ELSE 0
      /\ \A i \in 1 .. t[2] - t[1] : body[i] = text[t[1] + i]
  <2>1. PICK a \in Nat, b \in Nat : a = t[1] /\ b = t[2]
    BY <1>4
  <2>2. a + 1 \in Int /\ b \in Int /\ \A i \in a + 1 .. b : text[i] \in Characters
    BY <1>5, <2>1
  <2> DEFINE sub == SubSeq(text, a + 1, b)
  <2>3. /\ sub \in Seq(Characters)
        /\ Len(sub) = IF a + 1 <= b THEN b - (a + 1) + 1 ELSE 0
        /\ \A i \in 1 .. b - (a + 1) + 1 : sub[i] = text[(a + 1) + i - 1]
    BY <2>2, SubSeqProperties
  <2>4. body = sub
    BY <2>1
  <2> HIDE DEF sub, body
  <2>5. \A i \in 1 .. b - a : i \in 1 .. b - (a + 1) + 1 /\ (a + 1) + i - 1 = a + i
    OBVIOUS
  <2>6. b - (a + 1) + 1 = b - a
    OBVIOUS
  <2> QED
    BY <2>1, <2>3, <2>4, <2>5, <2>6
<1> HIDE DEF body
<1>7. CASE t[1] < t[2]
  <2>1. Len(body) = t[2] - t[1] /\ body[Len(body)] = text[t[2]]
    BY <1>4, <1>6, <1>7
  <2>2. (t[2] - 1) + 1 = t[2] /\ (Len(body) - 1) + 1 = Len(body)
    BY <1>4, <2>1
  <2>3. text[t[2]] # " "
    BY <1>2, <1>7, <2>2 DEF Solid
  <2>4. Solid(body, Len(body) - 1)
    BY <2>1, <2>2, <2>3 DEF Solid
  <2> QED
    BY <1>3, <1>6, <2>4 DEF Trim
<1>8. CASE ~ (t[1] < t[2])
  <2>1. Len(body) = 0
    BY <1>2, <1>4, <1>6, <1>8
  <2>2. body = <<>>
    BY <1>6, <2>1
  <2> QED
    BY <1>3, <1>6, <2>2 DEF Trim
<1> QED
  BY <1>7, <1>8

\* The chunks of a document: spans that cover its text (embed/src/lib.rs:128-175),
\* whatever the document, the window and the overlap.
THEOREM ChunksCover ==
  ASSUME NEW doc \in Seq(Characters), NEW maxChars \in Nat, NEW overlap \in Nat
  PROVE  /\ ChunkText(doc, maxChars, overlap) \in Spans
         /\ CoversText(Body(doc), ChunkText(doc, maxChars, overlap), Window(maxChars))
<1> DEFINE text == Body(doc)
           n == Len(text)
           width == Window(maxChars)
           keep == Keep(maxChars, overlap)
           list == ChunkText(doc, maxChars, overlap)
<1>1. text \in Seq(Characters) /\ n \in Nat
  BY BodyIsTrim DEF Trim
<1>2. width \in Nat \ {0} /\ keep \in Nat
  BY ClampFacts
<1>3. list = IF text = <<>> THEN <<>>
             ELSE IF n <= width THEN <<<<0, n>>>>
             ELSE Cuts(text, width, keep)[0]
  BY DEF ChunkText
<1> HIDE DEF text, width, keep, list
<1>4. list \in Spans /\ CoversFrom(text, Elements(list), 0, width)
  <2>1. CASE text = <<>>
    <3>1. list = <<>> /\ n = 0
      BY <1>3, <2>1
    <3>2. Elements(list) = {} /\ list \in Spans
      BY <3>1 DEF Elements, Spans
    <3>3. \A w \in Words(text) : FALSE
      BY <3>1 DEF Words
    <3> QED
      BY <3>1, <3>2, <3>3 DEF CoversFrom
  <2>2. CASE text # <<>> /\ n <= width
    <3>1. list = <<<<0, n>>>>
      BY <1>3, <2>2
    <3>2. Elements(list) = {<<0, n>>} /\ <<0, n>> \in SpanSet /\ list \in Spans
      BY <1>1, <3>1 DEF Elements, Spans, SpanSet
    <3>3. \A w \in Words(text) : w[1] \in Nat /\ w[2] \in Nat /\ w[2] <= n
      BY <1>1 DEF Words
    <3>4. \A w \in Words(text) : Within(w, <<0, n>>)
      BY <3>3 DEF Within
    <3> QED
      BY <1>1, <2>2, <3>2, <3>4 DEF CoversFrom
  <2>3. CASE text # <<>> /\ ~ (n <= width)
    <3>1. list = Cuts(text, width, keep)[0] /\ 0 \in Starts(text)
      BY <1>1, <1>3, <2>3 DEF Starts
    <3> QED
      BY <1>1, <1>2, <3>1, CutsEquation, CutsCover
  <2> QED
    BY <2>1, <2>2, <2>3
<1>5. \A x \in Elements(list) : x[1] \in Nat /\ x[2] \in Nat /\ x[2] - x[1] <= width
  BY <1>4 DEF CoversFrom, SpanSet
<1>6. \A k \in DOMAIN list : list[k][2] - list[k][1] <= width
  BY <1>5 DEF Elements
<1>7. ASSUME NEW w \in Words(text), NEW i \in w[1] .. w[2] - 1
      PROVE  \E k \in DOMAIN list : i \in list[k][1] .. list[k][2] - 1
  <2>1. /\ w[1] \in Nat /\ w[2] \in Nat /\ w[2] <= n
        /\ Solid(text, i)
    BY <1>1 DEF Words
  <2>2. i \in 0 .. n - 1
    BY <1>1, <2>1
  <2>3. PICK x \in Elements(list) : x[1] <= i /\ i < x[2]
    BY <1>4, <2>1, <2>2 DEF CoversFrom
  <2>4. i \in x[1] .. x[2] - 1
    BY <1>5, <2>1, <2>3
  <2> QED
    BY <2>4 DEF Elements
<1>8. ASSUME NEW w \in Words(text), w[2] - w[1] < width
      PROVE  \E k \in DOMAIN list : Within(w, list[k])
  <2>1. 0 <= w[1]
    BY <1>1 DEF Words
  <2>2. PICK x \in Elements(list) : Within(w, x)
    BY <1>4, <1>8, <2>1 DEF CoversFrom
  <2> QED
    BY <2>2 DEF Elements
<1>9. CoversText(text, list, width)
  BY <1>6, <1>7, <1>8 DEF CoversText
<1> QED
  BY <1>4, <1>9 DEF text, width, list

-----------------------------------------------------------------------------
(* What a chunk adds to the one before it.                                 *)

\* A word that begins at a solid character with none before it.
LEMMA WordExists ==
  ASSUME NEW text, Len(text) \in Nat, NEW first \in Nat, first < Len(text),
         Solid(text, first), first > 0 => ~ Solid(text, first - 1)
  PROVE  \E w \in Words(text) : w[1] = first
<1> DEFINE n == Len(text)
           stops == {j \in first + 1 .. n : j < n => ~ Solid(text, j)}
           last == Min(stops)
<1>1. stops \in SUBSET Nat /\ n \in stops
  OBVIOUS
<1>2. \A j \in stops : first < j /\ j <= n /\ (j < n => ~ Solid(text, j))
  OBVIOUS
<1>3. \A j \in first + 1 .. n : j \notin stops => j < n /\ Solid(text, j)
  OBVIOUS
<1> HIDE DEF stops
<1>4. last \in stops /\ \A j \in stops : last <= j
  BY <1>1, MinFacts
<1> HIDE DEF last
<1>5. last \in Nat /\ first < last /\ last <= n /\ (last < n => ~ Solid(text, last))
  BY <1>1, <1>2, <1>4
<1>6. ASSUME NEW i \in first .. last - 1 PROVE Solid(text, i)
  <2>1. CASE i = first
    BY <2>1
  <2>2. CASE i # first
    <3>1. i \in first + 1 .. n /\ ~ (last <= i)
      BY <1>5, <2>2
    <3> QED
      BY <1>3, <1>4, <3>1
  <2> QED
    BY <2>1, <2>2
<1> DEFINE w == <<first, last>>
<1>7. w[1] = first /\ w[2] = last
  OBVIOUS
<1>8. w \in (0 .. n) \X (0 .. n)
  BY <1>5
<1> HIDE DEF w
<1>9. w \in Words(text)
  BY <1>5, <1>6, <1>7, <1>8 DEF Words
<1> QED
  BY <1>7, <1>9

\* The window at s ends at `end`, before a whitespace or because it is full, and
\* its text at `to`.
Ended(text, width, s, to, end) ==
  /\ end \in Nat /\ to \in Nat /\ s < end /\ end < Len(text) /\ to <= end
  /\ \A i \in to .. end - 1 : ~ Solid(text, i)
  /\ \/ ~ Solid(text, end)
     \/ end = s + width /\ \A i \in s + 1 .. end - 1 : Solid(text, i)

\* Where a later window has text of the one at s only, a long word follows.
LEMMA LongWord ==
  ASSUME NEW text \in Seq(Characters), Trim(text), NEW width \in Nat \ {0},
         NEW keep \in Nat, keep < width,
         NEW s \in Nat, NEW to, NEW end, Ended(text, width, s, to, end),
         NEW start \in Nat, s < start, end - keep <= start, start < Len(text),
         NEW stop, stop = End(text, start, width), stop < Len(text),
         \A i \in start .. stop - 1 : Solid(text, i) => i < to,
         \E i \in start .. stop - 1 : Solid(text, i),
         NEW span, span[2] = to
  PROVE  LongWordFollows(text, span, width, keep)
<1> DEFINE n == Len(text)
           later == {i \in to .. n - 1 : Solid(text, i)}
           first == Min(later)
<1>1. /\ end \in Nat /\ to \in Nat /\ s < end /\ end < n /\ to <= end /\ n \in Nat
      /\ \A i \in to .. end - 1 : ~ Solid(text, i)
      /\ \/ ~ Solid(text, end)
         \/ end = s + width /\ \A i \in s + 1 .. end - 1 : Solid(text, i)
  BY DEF Ended
<1>2. /\ stop \in Nat /\ start < stop /\ stop <= start + width /\ start + width < n
      /\ \/ /\ ~ Solid(text, stop) /\ stop < start + width
            /\ \A i \in stop + 1 .. start + width - 1 : Solid(text, i)
         \/ /\ stop = start + width
            /\ \A i \in start + 1 .. stop - 1 : Solid(text, i)
  BY <1>1, EndFacts
<1>3. start < to
  BY <1>1, <1>2
<1>4. end < start + width
  BY <1>1
<1>5. /\ ~ Solid(text, stop) /\ stop < start + width
      /\ \A i \in stop + 1 .. start + width - 1 : Solid(text, i)
  <2> SUFFICES ASSUME stop = start + width, \A i \in start + 1 .. stop - 1 : Solid(text, i)
               PROVE  FALSE
    BY <1>2
  <2>1. stop - 1 \in start + 1 .. stop - 1 /\ stop - 1 \in start .. stop - 1
    BY <1>1, <1>2, <1>3, <1>4
  <2>2. stop - 1 < to
    BY <2>1
  <2> QED
    BY <1>1, <1>2, <1>3, <1>4, <2>2
<1>6. end <= stop
  <2> SUFFICES ASSUME stop < end PROVE FALSE
    BY <1>1, <1>2
  <2>1. end \in stop + 1 .. start + width - 1
    BY <1>1, <1>2, <1>4
  <2>2. Solid(text, end)
    BY <1>5, <2>1
  <2>3. stop \in s + 1 .. end - 1
    BY <1>1, <1>2
  <2> QED
    BY <1>1, <1>5, <2>2, <2>3
<1>7. n - 1 \in later
  BY <1>1 DEF Trim
<1>8. later \in SUBSET Nat
  BY <1>1
<1>9. \A i \in later : to <= i /\ i < n /\ Solid(text, i)
  BY <1>1
<1>10. \A i \in to .. n - 1 : Solid(text, i) => i \in later
  OBVIOUS
<1> HIDE DEF later
<1>11. first \in later /\ \A i \in later : first <= i
  BY <1>7, <1>8, MinFacts
<1> HIDE DEF first
<1>12. first \in Nat /\ to <= first /\ first < n /\ Solid(text, first)
  BY <1>8, <1>9, <1>11
<1>13. stop < first
  <2> SUFFICES ASSUME first <= stop PROVE FALSE
    BY <1>2, <1>12
  <2>1. first # stop
    BY <1>5, <1>12
  <2>2. first \in start .. stop - 1
    BY <1>2, <1>3, <1>12, <2>1, <1>1
  <2> QED
    BY <1>12, <2>2, <1>1
<1>14. \A i \in to .. first - 1 : ~ Solid(text, i)
  <2> SUFFICES ASSUME NEW i \in to .. first - 1, Solid(text, i) PROVE FALSE
    OBVIOUS
  <2>1. i \in to .. n - 1 /\ ~ (first <= i)
    BY <1>1, <1>12
  <2> QED
    BY <1>10, <1>11, <2>1
<1>15. first - 1 \in to .. first - 1
  BY <1>1, <1>6, <1>2, <1>12, <1>13
<1>16. PICK w \in Words(text) : w[1] = first
  <2>1. ~ Solid(text, first - 1)
    BY <1>14, <1>15
  <2> QED
    BY <1>1, <1>12, <2>1, WordExists
<1>17. /\ w[2] \in Nat /\ first < w[2] /\ w[2] <= n
       /\ w[2] < n => ~ Solid(text, w[2])
  BY <1>1, <1>12, <1>16 DEF Words
<1>18. w[2] >= start + width
  <2> SUFFICES ASSUME w[2] < start + width PROVE FALSE
    BY <1>17
  <2>1. w[2] \in stop + 1 .. start + width - 1 /\ w[2] < n
    BY <1>2, <1>12, <1>13, <1>17
  <2> QED
    BY <1>5, <1>17, <2>1
<1>19. w[2] - to >= width - keep
  BY <1>1, <1>17, <1>18
<1>20. to < w[1]
  BY <1>1, <1>2, <1>6, <1>12, <1>13, <1>16
<1> QED
  BY <1>14, <1>16, <1>19, <1>20 DEF LongWordFollows

\* What is returned from a later start begins with text that the span has not.
AddsAfter(text, width, keep, span, list) ==
  list = <<>> \/ list[1][2] > span[2] \/ LongWordFollows(text, span, width, keep)

LEMMA PieceFirst ==
  ASSUME NEW span \in SpanSet, NEW rest \in Spans
  PROVE  /\ (<<span>> \o rest)[1] = span
         /\ <<>> \o rest = rest
         /\ Len(<<span>> \o rest) = Len(rest) + 1
         /\ \A k \in 2 .. Len(rest) + 1 : (<<span>> \o rest)[k] = rest[k - 1]
  BY DEF Spans

\* The turn at `start` adds text, if the one it goes on to does.
LEMMA TurnAdds ==
  ASSUME NEW text \in Seq(Characters), Trim(text), NEW width \in Nat \ {0},
         NEW keep \in Nat, keep < width,
         NEW s \in Nat, NEW span, NEW end, Ended(text, width, s, span[2], end),
         NEW start \in Nat, s < start, end - keep <= start, start < Len(text),
         LET stop == End(text, start, width) IN
           stop # Len(text) =>
             AddsAfter(text, width, keep, span,
                       Cuts(text, width, keep)[Advance(start, stop, keep)])
  PROVE  AddsAfter(text, width, keep, span, Cuts(text, width, keep)[start])
<1> DEFINE from == Cuts(text, width, keep)
           n == Len(text)
           stop == End(text, start, width)
           own == Trimmed(text, start, stop)
           next == Advance(start, stop, keep)
           piece == IF own[1] < own[2] THEN <<own>> ELSE <<>>
           to == span[2]
<1>1. n \in Nat /\ end \in Nat /\ to \in Nat /\ end < n /\ to <= end
  BY DEF Ended
<1>2. stop \in Nat /\ start < stop /\ stop <= n
  BY <1>1, EndFacts
<1>3. /\ own \in SpanSet /\ own[1] <= own[2]
      /\ \A i \in start .. stop - 1 : Solid(text, i) => own[1] <= i /\ i < own[2]
      /\ own[1] < own[2] => Solid(text, own[1]) /\ start <= own[1] /\ own[2] <= stop
  BY <1>2, TrimmedFacts
<1>4. /\ stop = n => from[start] = piece
      /\ stop # n => from[start] = piece \o from[next] /\ next \in Starts(text)
  <2>1. piece = Piece(text, start, stop)
    BY DEF Piece
  <2>2. start \in Starts(text) /\ start # n
    BY DEF Starts
  <2>3. from[start] = Turn(text, width, keep, from, start)
    BY <1>1, <2>2, CutsEquation
  <2>4. next \in Nat /\ next <= stop
    BY <1>2, AdvanceFacts
  <2>5. next \in Starts(text)
    BY <1>1, <1>2, <2>4 DEF Starts
  <2> HIDE DEF piece, from
  <2> QED
    BY <2>1, <2>2, <2>3, <2>5 DEF Turn
<1>5. next \in Starts(text) => from[next] \in Spans
  BY <1>1, CutsEquation
<1>6. stop # n => AddsAfter(text, width, keep, span, from[next])
  OBVIOUS
<1>7. stop < n /\ (\A i \in start .. stop - 1 : Solid(text, i) => i < to)
        /\ (\E i \in start .. stop - 1 : Solid(text, i))
          => LongWordFollows(text, span, width, keep)
  BY LongWord
<1> HIDE DEF from, stop, own, next, to
<1>8. own[1] \in Nat /\ own[2] \in Nat
  BY <1>3 DEF SpanSet
<1>9. own[1] < own[2] => from[start][1] = own
  <2>1. CASE stop = n
    BY <1>4, <2>1
  <2>2. CASE stop # n
    BY <1>3, <1>4, <1>5, <2>2, PieceFirst
  <2> QED
    BY <2>1, <2>2
<1>10. CASE \E i \in start .. stop - 1 : Solid(text, i) /\ ~ (i < to)
  <2>1. PICK i \in start .. stop - 1 : Solid(text, i) /\ ~ (i < to)
    BY <1>10
  <2>2. own[1] < own[2] /\ own[2] > to
    BY <1>1, <1>2, <1>3, <1>8, <2>1
  <2> QED
    BY <1>9, <2>2 DEF AddsAfter, from, to
<1>11. CASE \A i \in start .. stop - 1 : Solid(text, i) => i < to
  <2>1. stop # n
    <3> SUFFICES ASSUME stop = n PROVE FALSE
      OBVIOUS
    <3>1. Solid(text, n - 1)
      BY <1>1 DEF Trim
    <3> QED
      BY <1>1, <1>2, <1>11, <3>1
  <2>2. CASE own[1] < own[2]
    <3>1. own[1] \in start .. stop - 1 /\ Solid(text, own[1])
      BY <1>2, <1>3, <1>8, <2>2
    <3> QED
      BY <1>2, <1>7, <1>11, <2>1, <3>1, <1>1 DEF AddsAfter
  <2>3. CASE ~ (own[1] < own[2])
    <3>1. from[start] = <<>> \o from[next] /\ from[next] \in Spans
      BY <1>4, <1>5, <2>1, <2>3
    <3>2. from[start] = from[next]
      BY <3>1 DEF Spans
    <3> QED
      BY <1>6, <2>1, <3>2 DEF from
  <2> QED
    BY <2>2, <2>3
<1> QED
  BY <1>10, <1>11

LEMMA LaterAdds ==
  ASSUME NEW text \in Seq(Characters), Trim(text), NEW width \in Nat \ {0},
         NEW keep \in Nat, keep < width,
         NEW s \in Nat, NEW span, NEW end, Ended(text, width, s, span[2], end),
         NEW start \in Starts(text), s < start, end - keep <= start
  PROVE  AddsAfter(text, width, keep, span, Cuts(text, width, keep)[start])
<1> DEFINE from == Cuts(text, width, keep)
           Bad == {i \in Starts(text) : /\ s < i /\ end - keep <= i
                                        /\ ~ AddsAfter(text, width, keep, span, from[i])}
<1> SUFFICES ASSUME Bad # {} PROVE FALSE
  OBVIOUS
<1>1. Bad \in SUBSET (0 .. Len(text)) /\ end \in Nat /\ Len(text) \in Nat
  BY DEF Starts, Ended
<1> HIDE DEF Bad, from
<1>2. PICK last \in Bad : \A i \in Bad : i <= last
  BY <1>1, GreatestNat
<1>3. /\ last \in Starts(text) /\ s < last /\ end - keep <= last
      /\ ~ AddsAfter(text, width, keep, span, from[last])
  BY DEF Bad
<1>4. CASE last = Len(text)
  <2>1. from[last] = <<>>
    BY <1>1, <1>3, <1>4, CutsEquation DEF Turn, from
  <2> QED
    BY <1>3, <2>1 DEF AddsAfter
<1>5. CASE last # Len(text)
  <2> DEFINE stop == End(text, last, width)
             next == Advance(last, stop, keep)
  <2>1. last \in Nat /\ last < Len(text)
    BY <1>1, <1>3, <1>5 DEF Starts
  <2>2. stop \in Nat /\ last < stop /\ stop <= Len(text)
    BY <1>1, <2>1, EndFacts
  <2>3. next \in Nat /\ next <= stop /\ last < next
    BY <2>1, <2>2, AdvanceFacts
  <2>4. next \in Starts(text) /\ ~ (next <= last) /\ s < next /\ end - keep <= next
    BY <1>1, <1>3, <2>1, <2>2, <2>3 DEF Starts
  <2>5. next \notin Bad
    BY <1>2, <2>4
  <2>6. AddsAfter(text, width, keep, span, from[next])
    BY <2>4, <2>5 DEF Bad
  <2>7. AddsAfter(text, width, keep, span, from[last])
    BY <1>3, <2>1, <2>6, TurnAdds DEF from
  <2> QED
    BY <1>3, <2>7
<1> QED
  BY <1>4, <1>5

\* A turn keeps the promise for the whole list.
LEMMA TurnKeepsAdding ==
  ASSUME NEW text \in Seq(Characters), Trim(text), NEW width \in Nat \ {0},
         NEW keep \in Nat, keep < width, NEW s \in Nat, s < Len(text),
         LET end == End(text, s, width) IN
           end # Len(text) =>
             AddsText(text, Cuts(text, width, keep)[Advance(s, end, keep)], width, keep)
  PROVE  AddsText(text, Cuts(text, width, keep)[s], width, keep)
<1> DEFINE from == Cuts(text, width, keep)
           n == Len(text)
           end == End(text, s, width)
           span == Trimmed(text, s, end)
           next == Advance(s, end, keep)
           rest == from[next]
           piece == IF span[1] < span[2] THEN <<span>> ELSE <<>>
           list == from[s]
<1>1. n \in Nat
  OBVIOUS
<1>2. /\ end \in Nat /\ s < end /\ end <= n
      /\ end < n =>
           \/ ~ Solid(text, end)
           \/ end = s + width /\ \A i \in s + 1 .. end - 1 : Solid(text, i)
  BY <1>1, EndFacts
<1>3. next \in Nat /\ s < next /\ next <= end /\ end - keep <= next
  BY <1>2, AdvanceFacts
<1>4. /\ span \in SpanSet /\ s <= span[1] /\ span[1] <= span[2] /\ span[2] <= end
      /\ \A i \in s .. end - 1 : Solid(text, i) => span[1] <= i /\ i < span[2]
  BY <1>2, TrimmedFacts
<1>5. list = IF end = n THEN piece ELSE piece \o rest
  <2>1. piece = Piece(text, s, end)
    BY DEF Piece
  <2>2. s \in Starts(text) /\ s # n
    BY DEF Starts
  <2>3. list = Turn(text, width, keep, from, s)
    BY <1>1, <2>2, CutsEquation
  <2> HIDE DEF piece, from
  <2> QED
    BY <2>1, <2>2, <2>3 DEF Turn
<1>6. next \in Starts(text)
  BY <1>1, <1>2, <1>3 DEF Starts
<1>7. rest \in Spans
  BY <1>1, <1>6, CutsEquation
<1>8. end # n => AddsText(text, rest, width, keep)
  OBVIOUS
<1>9. \A other \in SpanSet : Ended(text, width, s, other[2], end)
                               => AddsAfter(text, width, keep, other, rest)
  BY <1>3, <1>6, LaterAdds
<1> HIDE DEF from, end, span, next, rest, list
<1>10. span[1] \in Nat /\ span[2] \in Nat
  BY <1>4 DEF SpanSet
<1>11. CASE end = n
  <2>1. list = piece /\ Len(list) <= 1
    BY <1>5, <1>11
  <2>2. Len(list) \in Nat
    BY <1>5, <1>11
  <2>3. \A k \in 2 .. Len(list) : FALSE
    BY <2>1, <2>2
  <2> QED
    BY <2>3 DEF AddsText, list, from
<1>12. CASE end # n /\ ~ (span[1] < span[2])
  <2>1. list = rest
    BY <1>5, <1>7, <1>12, <1>4, PieceFirst
  <2> QED
    BY <1>8, <1>12, <2>1 DEF list, from
<1>13. CASE end # n /\ span[1] < span[2]
  <2>1. list = <<span>> \o rest
    BY <1>5, <1>13
  <2>2. /\ list[1] = span /\ Len(list) = Len(rest) + 1 /\ Len(rest) \in Nat
        /\ \A k \in 2 .. Len(rest) + 1 : list[k] = rest[k - 1]
    BY <1>4, <1>7, <2>1, PieceFirst DEF Spans
  <2>3. end < n
    BY <1>1, <1>2, <1>13
  <2>4. \A i \in span[2] .. end - 1 : ~ Solid(text, i)
    <3> SUFFICES ASSUME NEW i \in span[2] .. end - 1, Solid(text, i) PROVE FALSE
      OBVIOUS
    <3>1. i \in s .. end - 1 /\ ~ (i < span[2])
      BY <1>2, <1>4, <1>10
    <3> QED
      BY <1>4, <3>1
  <2>5. Ended(text, width, s, span[2], end)
    BY <1>1, <1>2, <1>4, <1>10, <2>3, <2>4 DEF Ended
  <2>6. AddsAfter(text, width, keep, span, rest)
    BY <1>4, <1>9, <2>5
  <2>7. ASSUME NEW k \in 2 .. Len(list)
        PROVE  \/ list[k][2] > list[k - 1][2]
               \/ LongWordFollows(text, list[k - 1], width, keep)
    <3>1. CASE k = 2
      <4>1. list[k] = rest[1] /\ list[k - 1] = span /\ rest # <<>>
        <5>1. 2 \in 2 .. Len(rest) + 1 /\ 2 - 1 = 1
          BY <2>2, <3>1
        <5>2. rest # <<>>
          BY <2>2, <5>1
        <5> QED
          BY <2>2, <3>1, <5>1, <5>2
      <4> QED
        BY <2>6, <4>1 DEF AddsAfter
    <3>2. CASE k # 2
      <4>1. /\ k - 1 \in 2 .. Len(rest) /\ k \in 2 .. Len(rest) + 1
            /\ k - 1 \in 2 .. Len(rest) + 1
        BY <2>2, <3>2
      <4>2. list[k] = rest[k - 1] /\ list[k - 1] = rest[(k - 1) - 1]
        BY <2>2, <4>1
      <4> QED
        BY <1>8, <1>13, <4>1, <4>2 DEF AddsText
    <3> QED
      BY <3>1, <3>2
  <2> QED
    BY <2>7 DEF AddsText, list, from
<1> QED
  BY <1>11, <1>12, <1>13

LEMMA CutsAdd ==
  ASSUME NEW text \in Seq(Characters), Trim(text), NEW width \in Nat \ {0},
         NEW keep \in Nat, keep < width, NEW s \in Starts(text)
  PROVE  AddsText(text, Cuts(text, width, keep)[s], width, keep)
<1> DEFINE from == Cuts(text, width, keep)
           Bad == {i \in Starts(text) : ~ AddsText(text, from[i], width, keep)}
<1> SUFFICES ASSUME Bad # {} PROVE FALSE
  OBVIOUS
<1>1. Bad \in SUBSET (0 .. Len(text)) /\ Len(text) \in Nat
  BY DEF Starts
<1> HIDE DEF Bad, from
<1>2. PICK last \in Bad : \A i \in Bad : i <= last
  BY <1>1, GreatestNat
<1>3. last \in Starts(text) /\ ~ AddsText(text, from[last], width, keep)
  BY DEF Bad
<1>4. CASE last = Len(text)
  <2>1. from[last] = <<>>
    BY <1>1, <1>3, <1>4, CutsEquation DEF Turn, from
  <2>2. \A k \in 2 .. Len(from[last]) : FALSE
    BY <2>1
  <2> QED
    BY <1>3, <2>2 DEF AddsText
<1>5. CASE last # Len(text)
  <2> DEFINE stop == End(text, last, width)
             next == Advance(last, stop, keep)
  <2>1. last \in Nat /\ last < Len(text)
    BY <1>1, <1>3, <1>5 DEF Starts
  <2>2. stop \in Nat /\ last < stop /\ stop <= Len(text)
    BY <1>1, <2>1, EndFacts
  <2>3. next \in Nat /\ next <= stop /\ last < next
    BY <2>1, <2>2, AdvanceFacts
  <2>4. next \in Starts(text) /\ ~ (next <= last)
    BY <1>1, <2>1, <2>2, <2>3 DEF Starts
  <2>5. next \notin Bad
    BY <1>2, <2>4
  <2>6. AddsText(text, from[next], width, keep)
    BY <2>4, <2>5 DEF Bad
  <2>7. AddsText(text, from[last], width, keep)
    BY <2>1, <2>6, TurnKeepsAdding DEF from
  <2> QED
    BY <1>3, <2>7
<1> QED
  BY <1>4, <1>5

\* Every chunk of a document adds text to the one before it, except before a word
\* that does not fit beside the overlap (embed/src/lib.rs:170-171), whatever the
\* document, the window and the overlap.
THEOREM ChunksAdd ==
  ASSUME NEW doc \in Seq(Characters), NEW maxChars \in Nat, NEW overlap \in Nat
  PROVE  AddsText(Body(doc), ChunkText(doc, maxChars, overlap),
                  Window(maxChars), Keep(maxChars, overlap))
<1> DEFINE text == Body(doc)
           n == Len(text)
           width == Window(maxChars)
           keep == Keep(maxChars, overlap)
           list == ChunkText(doc, maxChars, overlap)
<1>1. text \in Seq(Characters) /\ n \in Nat /\ Trim(text)
  BY BodyIsTrim DEF Trim
<1>2. width \in Nat \ {0} /\ keep \in Nat /\ keep < width
  BY ClampFacts
<1>3. list = IF text = <<>> THEN <<>>
             ELSE IF n <= width THEN <<<<0, n>>>>
             ELSE Cuts(text, width, keep)[0]
  BY DEF ChunkText
<1> HIDE DEF text, width, keep, list
<1>4. CASE text = <<>>
  <2>1. list = <<>>
    BY <1>3, <1>4
  <2>2. \A k \in 2 .. Len(list) : FALSE
    BY <2>1
  <2> QED
    BY <2>2 DEF AddsText, text, width, keep, list
<1>5. CASE text # <<>> /\ n <= width
  <2>1. list = <<<<0, n>>>>
    BY <1>3, <1>5
  <2>2. \A k \in 2 .. Len(list) : FALSE
    BY <2>1
  <2> QED
    BY <2>2 DEF AddsText, text, width, keep, list
<1>6. CASE text # <<>> /\ ~ (n <= width)
  <2>1. list = Cuts(text, width, keep)[0] /\ 0 \in Starts(text)
    BY <1>1, <1>3, <1>6 DEF Starts
  <2>2. AddsText(text, list, width, keep)
    BY <1>1, <1>2, <2>1, CutsAdd
  <2> QED
    BY <2>2 DEF text, width, keep, list
<1> QED
  BY <1>4, <1>5, <1>6

-----------------------------------------------------------------------------
(* The order of the vectors.                                               *)

LEMMA Counting ==
  ASSUME NEW n \in Nat, NEW S, NEW f \in [1 .. n -> S],
         \A i, j \in 1 .. n : f[i] = f[j] => i = j,
         \A x \in S : \E i \in 1 .. n : f[i] = x
  PROVE  Cardinality(S) = n
<1>1. f \in Bijection(1 .. n, S)
  BY DEF Bijection, Injection, IsInjective, Surjection
<1>2. ExistsBijection(1 .. n, S)
  BY <1>1 DEF ExistsBijection
<1>3. IsFiniteSet(1 .. n) /\ Cardinality(1 .. n) = n
  BY FS_Interval
<1> QED
  BY <1>2, <1>3, FS_Bijection

\* The answers that come before the i-th in the order of sort_by_key.
Before(reply, i) ==
  {j \in DOMAIN reply : \/ reply[j].index < reply[i].index
                        \/ reply[j].index = reply[i].index /\ j < i}

LEMMA OrderedByRank ==
  ASSUME NEW reply \in Seq(EmbedDatum), NEW rank,
         \A i \in 1 .. Len(reply) : Cardinality(Before(reply, i)) = rank[i],
         NEW k \in 1 .. Len(reply), NEW i \in 1 .. Len(reply), rank[i] = k - 1,
         \A j \in 1 .. Len(reply) : rank[j] = k - 1 => j = i
  PROVE  Ordered(reply)[k] = reply[i]
<1>1. DOMAIN reply = 1 .. Len(reply)
  OBVIOUS
<1>2. Ordered(reply)[k] =
        reply[CHOOSE j \in DOMAIN reply : Cardinality(Before(reply, j)) = k - 1]
  BY <1>1 DEF Ordered, Before
<1>3. (CHOOSE j \in DOMAIN reply : Cardinality(Before(reply, j)) = k - 1) = i
  BY <1>1
<1> QED
  BY <1>2, <1>3

\* Whatever the order of the answers, the k-th vector is of the k-th input.
LEMMA OrderedIsTheirs ==
  ASSUME NEW n \in Nat, NEW reply, IsReply(reply, n), Len(reply) = n, NEW k \in 1 .. n
  PROVE  Ordered(reply)[k].of = k
<1>0. reply \in Seq(EmbedDatum)
  BY DEF IsReply
<1>1. reply \in Seq(EmbedDatum) /\ DOMAIN reply = 1 .. n
  BY <1>0
<1>1a. \/ /\ \A j \in 1 .. n : reply[j].of = reply[j].index + 1
          /\ \A i \in 0 .. n - 1 : \E j \in 1 .. n : reply[j].index = i
          /\ \A j, l \in 1 .. n : reply[j].index = reply[l].index => j = l
          /\ \A j \in 1 .. n : reply[j].index < n
       \/ \A j \in 1 .. n : reply[j].of = j /\ reply[j].index = 0
  BY DEF IsReply
<1>2. \A j \in 1 .. n : reply[j] \in EmbedDatum
  BY <1>1
<1>3. \A j \in 1 .. n : reply[j].index \in Nat /\ reply[j].of \in Nat
  BY <1>2 DEF EmbedDatum
<1>4. CASE \A j \in 1 .. n : reply[j].of = j /\ reply[j].index = 0
  <2> DEFINE rank == [i \in 1 .. n |-> i - 1]
  <2>1. ASSUME NEW i \in 1 .. n PROVE Cardinality(Before(reply, i)) = rank[i]
    <3>1. Before(reply, i) = 1 .. i - 1
      BY <1>1, <1>4 DEF Before
    <3>2. Cardinality(1 .. i - 1) = i - 1
      BY FS_Interval
    <3> QED
      BY <3>1, <3>2
  <2>2. rank[k] = k - 1 /\ \A j \in 1 .. n : rank[j] = k - 1 => j = k
    OBVIOUS
  <2> HIDE DEF rank
  <2>3. Ordered(reply)[k] = reply[k]
    BY <1>1, <2>1, <2>2, OrderedByRank
  <2> QED
    BY <1>4, <2>3
<1>5. CASE /\ \A j \in 1 .. n : reply[j].of = reply[j].index + 1
           /\ \A i \in 0 .. n - 1 : \E j \in 1 .. n : reply[j].index = i
           /\ \A j, l \in 1 .. n : reply[j].index = reply[l].index => j = l
           /\ \A j \in 1 .. n : reply[j].index < n
  <2> DEFINE rank == [i \in 1 .. n |-> reply[i].index]
  <2>1. ASSUME NEW i \in 1 .. n PROVE Cardinality(Before(reply, i)) = rank[i]
    <3> DEFINE m == reply[i].index
               B == Before(reply, i)
               f == [x \in 1 .. m |-> CHOOSE j \in 1 .. n : reply[j].index = x - 1]
    <3>1. m \in Nat /\ m < n
      BY <1>3, <1>5
    <3>2. \A j \in 1 .. n : j \in B <=> reply[j].index < m
      BY <1>1, <1>3, <1>5 DEF Before
    <3>3. B \subseteq 1 .. n
      BY <1>1 DEF Before
    <3>4. ASSUME NEW x \in 1 .. m
          PROVE  f[x] \in 1 .. n /\ reply[f[x]].index = x - 1
      <4>1. x - 1 \in 0 .. n - 1
        BY <3>1
      <4>2. \E j \in 1 .. n : reply[j].index = x - 1
        BY <1>5, <4>1
      <4> QED
        BY <4>2
    <3> HIDE DEF m, B
    <3>5. f = [x \in 1 .. m |-> f[x]]
      OBVIOUS
    <3> HIDE DEF f
    <3>6. \A x \in 1 .. m : f[x] \in B
      BY <3>1, <3>2, <3>4
    <3>7. f \in [1 .. m -> B]
      BY <3>5, <3>6
    <3>8. \A x, y \in 1 .. m : f[x] = f[y] => x = y
      BY <3>1, <3>4
    <3>9. ASSUME NEW j \in B PROVE \E x \in 1 .. m : f[x] = j
      <4>1. j \in 1 .. n /\ reply[j].index < m /\ reply[j].index \in Nat
        BY <1>3, <3>2, <3>3
      <4>2. reply[j].index + 1 \in 1 .. m /\ (reply[j].index + 1) - 1 = reply[j].index
        BY <3>1, <4>1
      <4> DEFINE x == reply[j].index + 1
      <4>3. f[x] \in 1 .. n /\ reply[f[x]].index = reply[j].index
        BY <3>4, <4>2
      <4>4. f[x] = j
        BY <1>5, <4>1, <4>3
      <4> QED
        BY <4>2, <4>4
    <3>10. Cardinality(B) = m
      BY <3>1, <3>7, <3>8, <3>9, Counting
    <3> QED
      BY <3>10 DEF B, m
  <2>2. PICK i \in 1 .. n : reply[i].index = k - 1
    <3>1. k - 1 \in 0 .. n - 1
      OBVIOUS
    <3> QED
      BY <1>5, <3>1
  <2>3. rank[i] = k - 1 /\ \A j \in 1 .. n : rank[j] = k - 1 => j = i
    BY <1>5, <2>2
  <2> HIDE DEF rank
  <2>4. Ordered(reply)[k] = reply[i]
    BY <1>1, <2>1, <2>3, OrderedByRank
  <2> QED
    BY <1>5, <2>2, <2>4
<1> QED
  BY <1>4, <1>5, <1>1a

-----------------------------------------------------------------------------
(* The inductive invariant of the knowledge base.                          *)

ChunksFor(r) == ChunkText(content[r], window[1], window[2])
Kept == documents \cup removed

Typed ==
  /\ window \in Windows /\ content \in Asked
  /\ pc \in [Requests -> Running \cup {"done", "failed"}]
  /\ chunks \in [Requests -> Spans]
  /\ vectors \in [Requests -> Seq(Nat)]
  /\ documents \subseteq Requests /\ removed \subseteq Requests

\* What a request holds at each await: the chunks of its content, a vector of
\* each of them in their order.
Holds(r) ==
  /\ pc[r] \in {"embedding", "inserting", "done"} \/ r \in Kept => chunks[r] = ChunksFor(r)
  /\ pc[r] \in {"inserting", "done"} \/ r \in Kept =>
       Len(vectors[r]) = Len(chunks[r]) /\ \A k \in 1 .. Len(chunks[r]) : vectors[r][k] = k
  /\ r \in Kept => pc[r] \in {"done", "failed"}
  /\ pc[r] = "done" => r \in Kept

\* The rows are what the requests whose document is there inserted.
RowsAreInserted ==
  /\ \A c \in rows : c.document \in documents /\ c \in Inserted(c.document)
  /\ \A d \in documents : Inserted(d) \subseteq rows

Told(e) == e[2] \in IF e[1] = "added document" THEN Kept ELSE removed
FeedIsTrue == \A e \in owed \cup activity : Told(e)

IInv == Typed /\ (\A r \in Requests : Holds(r)) /\ RowsAreInserted /\ FeedIsTrue

LEMMA InitIInv == Init => IInv
<1> SUFFICES ASSUME Init PROVE IInv
  OBVIOUS
<1>1. Typed
  BY DEF Init, Typed, Running, Spans
<1>2. ASSUME NEW r \in Requests PROVE Holds(r)
  BY DEF Init, Holds, Kept
<1>3. RowsAreInserted /\ FeedIsTrue
  BY DEF Init, RowsAreInserted, FeedIsTrue
<1> QED
  BY <1>1, <1>2, <1>3 DEF IInv

\* Nothing of what the invariant reads changes for a request that was left alone.
LEMMA HoldsStill ==
  ASSUME NEW r, Holds(r), pc'[r] = pc[r], chunks'[r] = chunks[r], vectors'[r] = vectors[r],
         content' = content, window' = window, (r \in Kept)' = (r \in Kept)
  PROVE  Holds(r)'
  BY DEF Holds, ChunksFor

LEMMA InsertedStill ==
  ASSUME NEW r, chunks'[r] = chunks[r], vectors'[r] = vectors[r]
  PROVE  Inserted(r)' = Inserted(r)
  BY DEF Inserted

LEMMA RowsStill ==
  ASSUME RowsAreInserted, rows' = rows, documents' = documents,
         \A r \in documents : chunks'[r] = chunks[r] /\ vectors'[r] = vectors[r]
  PROVE  RowsAreInserted'
<1>1. \A r \in documents : Inserted(r)' = Inserted(r)
  BY InsertedStill
<1>2. \A c \in rows : c.document \in documents /\ c \in Inserted(c.document)
  BY DEF RowsAreInserted
<1>3. \A d \in documents : Inserted(d) \subseteq rows
  BY DEF RowsAreInserted
<1>4. \A c \in rows : c \in Inserted(c.document)'
  BY <1>1, <1>2
<1>5. \A d \in documents : Inserted(d)' \subseteq rows
  BY <1>1, <1>3
<1> QED
  BY <1>2, <1>4, <1>5 DEF RowsAreInserted

LEMMA FeedStill ==
  ASSUME FeedIsTrue, Kept \subseteq Kept', removed \subseteq removed',
         owed' \cup activity' \subseteq owed \cup activity
  PROVE  FeedIsTrue'
  BY DEF FeedIsTrue, Told

LEMMA NextIInv == IInv /\ [Next]_vars => IInv'
<1> SUFFICES ASSUME IInv, [Next]_vars PROVE IInv'
  OBVIOUS
<1>1. Typed /\ (\A r \in Requests : Holds(r)) /\ RowsAreInserted /\ FeedIsTrue
  BY DEF IInv
<1>2. /\ window \in Windows /\ content \in Asked
      /\ pc \in [Requests -> Running \cup {"done", "failed"}]
      /\ chunks \in [Requests -> Spans] /\ vectors \in [Requests -> Seq(Nat)]
      /\ documents \subseteq Requests /\ removed \subseteq Requests
  BY <1>1 DEF Typed
<1>3. ASSUME NEW r \in Requests, Begin(r) PROVE IInv'
  <2>1. /\ pc[r] = "start" /\ pc' = [pc EXCEPT ![r] = "embedding"]
        /\ chunks' = [chunks EXCEPT ![r] = ChunksFor(r)]
        /\ window' = window /\ content' = content /\ vectors' = vectors
        /\ documents' = documents /\ rows' = rows /\ removed' = removed
        /\ owed' = owed /\ activity' = activity
    BY <1>3 DEF Begin, Goto, ChunksFor, request, store, feed
  <2>2. ChunksFor(r) \in Spans
    <3>1. content[r] \in Seq(Characters) /\ window[1] \in Nat /\ window[2] \in Nat
      BY <1>2, AskedAssumption, WindowsAssumption
    <3> QED
      BY <3>1, ChunksCover DEF ChunksFor
  <2>3. Typed'
    BY <1>2, <2>1, <2>2 DEF Typed, Running
  <2>4. r \notin Kept
    BY <1>1, <2>1 DEF Holds
  <2>5. Kept' = Kept
    BY <2>1 DEF Kept
  <2>6. ASSUME NEW q \in Requests PROVE Holds(q)'
    <3>1. CASE q # r
      <4>1. pc'[q] = pc[q] /\ chunks'[q] = chunks[q] /\ vectors'[q] = vectors[q]
        BY <1>2, <2>1, <3>1
      <4> QED
        BY <1>1, <2>1, <2>5, <4>1, HoldsStill
    <3>2. CASE q = r
      <4>1. pc'[q] = "embedding" /\ chunks'[q] = ChunksFor(r)
        BY <1>2, <2>1, <3>2
      <4>2. ChunksFor(q)' = ChunksFor(r)
        BY <2>1, <3>2 DEF ChunksFor
      <4> QED
        BY <2>4, <2>5, <3>2, <4>1, <4>2 DEF Holds
    <3> QED
      BY <3>1, <3>2
  <2>7. RowsAreInserted'
    <3>1. r \notin documents
      BY <2>4 DEF Kept
    <3>2. \A q \in documents : chunks'[q] = chunks[q] /\ vectors'[q] = vectors[q]
      BY <1>2, <2>1, <3>1
    <3> QED
      BY <1>1, <2>1, <3>2, RowsStill
  <2>8. FeedIsTrue'
    BY <1>1, <2>1, <2>5, FeedStill
  <2> QED
    BY <2>3, <2>6, <2>7, <2>8 DEF IInv

<1>4. ASSUME NEW r \in Requests, Embedded(r) PROVE IInv'
  <2> DEFINE n == Len(chunks[r])
  <2>1. /\ pc[r] = "embedding"
        /\ window' = window /\ content' = content /\ chunks' = chunks
        /\ documents' = documents /\ rows' = rows /\ removed' = removed
        /\ owed' = owed /\ activity' = activity
    BY <1>4 DEF Embedded, request, store, feed
  <2>2. PICK reply \in Replies(n) :
          IF CountMatches(r, reply)
          THEN /\ vectors' = [vectors EXCEPT ![r] = [k \in DOMAIN reply |-> Ordered(reply)[k].of]]
               /\ Goto(r, "inserting")
          ELSE vectors' = vectors /\ Goto(r, "failed")
    BY <1>4 DEF Embedded
  <2>3. r \notin Kept /\ chunks[r] = ChunksFor(r) /\ n \in Nat
    BY <1>1, <1>2, <2>1 DEF Holds, Spans
  <2>4. Kept' = Kept
    BY <2>1 DEF Kept
  <2>5. ASSUME NEW where \in {"inserting", "failed"}, pc' = [pc EXCEPT ![r] = where],
               NEW v \in Seq(Nat), vectors' = [vectors EXCEPT ![r] = v],
               where = "inserting" => Len(v) = n /\ \A k \in 1 .. n : v[k] = k
        PROVE  IInv'
    <3>1. Typed'
      <4>1. pc' \in [Requests -> Running \cup {"done", "failed"}]
        BY <1>2, <2>5 DEF Running
      <4>2. vectors' \in [Requests -> Seq(Nat)]
        BY <1>2, <2>5
      <4> QED
        BY <1>2, <2>1, <4>1, <4>2 DEF Typed
    <3>2. ASSUME NEW q \in Requests PROVE Holds(q)'
      <4>1. CASE q # r
        <5>1. pc'[q] = pc[q] /\ chunks'[q] = chunks[q] /\ vectors'[q] = vectors[q]
          BY <1>2, <2>1, <2>5, <4>1
        <5> QED
          BY <1>1, <2>1, <2>4, <5>1, HoldsStill
      <4>2. CASE q = r
        <5>1. pc'[q] = where /\ vectors'[q] = v /\ chunks'[q] = chunks[r]
          BY <1>2, <2>1, <2>5, <4>2
        <5>2. ChunksFor(q)' = chunks[r]
          BY <2>1, <2>3, <4>2 DEF ChunksFor
        <5> QED
          BY <2>3, <2>4, <2>5, <4>2, <5>1, <5>2 DEF Holds
      <4> QED
        BY <4>1, <4>2
    <3>3. RowsAreInserted'
      <4>1. r \notin documents
        BY <2>3 DEF Kept
      <4>2. \A q \in documents : chunks'[q] = chunks[q] /\ vectors'[q] = vectors[q]
        BY <1>2, <2>1, <2>5, <4>1
      <4> QED
        BY <1>1, <2>1, <4>2, RowsStill
    <3>4. FeedIsTrue'
      BY <1>1, <2>1, <2>4, FeedStill
    <3> QED
      BY <3>1, <3>2, <3>3, <3>4 DEF IInv
  <2>6. CASE CountMatches(r, reply)
    <3> DEFINE v == [k \in DOMAIN reply |-> Ordered(reply)[k].of]
    <3>1. IsReply(reply, n) /\ Len(reply) = n
      <4>1. n = Len(ChunkText(content[r], window[1], window[2]))
        BY <2>3 DEF ChunksFor
      <4>2. IsReply(reply, n)
        BY <1>2, <2>2, <4>1, RepliesAssumption
      <4> QED
        BY <2>6, <4>2 DEF CountMatches
    <3>2. DOMAIN reply = 1 .. n
      BY <3>1 DEF IsReply
    <3>3. \A k \in 1 .. n : Ordered(reply)[k].of = k
      BY <2>3, <3>1, OrderedIsTheirs
    <3>4. v = [k \in 1 .. n |-> k]
      BY <3>2, <3>3
    <3>5. v \in Seq(Nat) /\ Len(v) = n /\ \A k \in 1 .. n : v[k] = k
      BY <2>3, <3>4
    <3>6. vectors' = [vectors EXCEPT ![r] = v] /\ pc' = [pc EXCEPT ![r] = "inserting"]
      BY <2>2, <2>6 DEF Goto
    <3> HIDE DEF v
    <3> QED
      BY <2>5, <3>5, <3>6
  <2>7. CASE ~ CountMatches(r, reply)
    <3>1. vectors' = vectors /\ pc' = [pc EXCEPT ![r] = "failed"]
      BY <2>2, <2>7 DEF Goto
    <3>2. vectors[r] \in Seq(Nat) /\ vectors' = [vectors EXCEPT ![r] = vectors[r]]
      BY <1>2, <3>1
    <3> QED
      BY <2>5, <3>1, <3>2
  <2> QED
    BY <2>6, <2>7
<1>5. ASSUME NEW r \in Requests, Fails(r) PROVE IInv'
  <2>1. /\ pc[r] \in Running /\ pc' = [pc EXCEPT ![r] = "failed"]
        /\ window' = window /\ content' = content /\ chunks' = chunks /\ vectors' = vectors
        /\ documents' = documents /\ rows' = rows /\ removed' = removed
        /\ owed' = owed /\ activity' = activity
    BY <1>5 DEF Fails, Goto, request, store, feed
  <2>2. Typed'
    BY <1>2, <2>1 DEF Typed
  <2>3. r \notin Kept /\ Kept' = Kept
    BY <1>1, <2>1 DEF Holds, Kept, Running
  <2>4. ASSUME NEW q \in Requests PROVE Holds(q)'
    <3>1. CASE q # r
      <4>1. pc'[q] = pc[q]
        BY <1>2, <2>1, <3>1
      <4> QED
        BY <1>1, <2>1, <2>3, <4>1, HoldsStill
    <3>2. CASE q = r
      <4>1. pc'[q] = "failed"
        BY <1>2, <2>1, <3>2
      <4> QED
        BY <2>3, <3>2, <4>1 DEF Holds
    <3> QED
      BY <3>1, <3>2
  <2>5. RowsAreInserted'
    BY <1>1, <2>1, RowsStill
  <2>6. FeedIsTrue'
    BY <1>1, <2>1, <2>3, FeedStill
  <2> QED
    BY <2>2, <2>4, <2>5, <2>6 DEF IInv
<1>6. ASSUME NEW r \in Requests, Commit(r) PROVE IInv'
  <2>1. /\ pc[r] = "inserting"
        /\ window' = window /\ content' = content /\ chunks' = chunks /\ vectors' = vectors
        /\ documents' = documents \cup {r} /\ rows' = rows \cup Inserted(r)
        /\ removed' = removed /\ activity' = activity
    BY <1>6 DEF Commit, request
  <2>2. PICK where \in {"done", "failed"} :
          /\ pc' = [pc EXCEPT ![r] = where]
          /\ owed' \subseteq owed \cup {<<"added document", r>>}
    BY <1>6 DEF Commit, Goto
  <2>3. Typed'
    BY <1>2, <2>1, <2>2 DEF Typed
  <2>4. Kept' = Kept \cup {r}
    BY <2>1 DEF Kept
  <2>5. ASSUME NEW q \in Requests PROVE Holds(q)'
    <3>1. CASE q # r
      <4>1. pc'[q] = pc[q]
        BY <1>2, <2>2, <3>1
      <4>2. (q \in Kept') = (q \in Kept)
        BY <2>4, <3>1
      <4> QED
        BY <1>1, <2>1, <4>1, <4>2, HoldsStill
    <3>2. CASE q = r
      <4>1. pc'[q] = where
        BY <1>2, <2>2, <3>2
      <4>2. /\ chunks[r] = ChunksFor(r) /\ Len(vectors[r]) = Len(chunks[r])
            /\ \A k \in 1 .. Len(chunks[r]) : vectors[r][k] = k
        BY <1>1, <2>1 DEF Holds
      <4>3. ChunksFor(q)' = ChunksFor(r)
        BY <2>1, <3>2 DEF ChunksFor
      <4> QED
        BY <2>1, <2>4, <3>2, <4>1, <4>2, <4>3 DEF Holds
    <3> QED
      BY <3>1, <3>2
  <2>6. RowsAreInserted'
    <3>1. \A q : Inserted(q)' = Inserted(q)
      BY <2>1 DEF Inserted
    <3>2. \A c \in Inserted(r) : c.document = r
      BY DEF Inserted
    <3>3. ASSUME NEW c \in rows' PROVE c.document \in documents' /\ c \in Inserted(c.document)'
      <4>1. CASE c \in rows
        BY <1>1, <2>1, <3>1, <4>1 DEF RowsAreInserted
      <4>2. CASE c \in Inserted(r)
        BY <2>1, <3>1, <3>2, <4>2
      <4> QED
        BY <2>1, <4>1, <4>2
    <3>4. ASSUME NEW d \in documents' PROVE Inserted(d)' \subseteq rows'
      BY <1>1, <2>1, <3>1 DEF RowsAreInserted
    <3> QED
      BY <3>3, <3>4 DEF RowsAreInserted
  <2>7. FeedIsTrue'
    <3> SUFFICES ASSUME NEW e \in owed' \cup activity' PROVE Told(e)'
      BY DEF FeedIsTrue
    <3>1. CASE e \in owed \cup activity
      <4>1. Told(e)
        BY <1>1, <3>1 DEF FeedIsTrue
      <4> QED
        BY <2>1, <2>4, <4>1 DEF Told
    <3>2. CASE e = <<"added document", r>>
      BY <2>4, <3>2 DEF Told
    <3> QED
      BY <2>1, <2>2, <3>1, <3>2
  <2> QED
    BY <2>3, <2>5, <2>6, <2>7 DEF IInv

<1>7. ASSUME NEW d \in Requests, Delete(d) PROVE IInv'
  <2>1. /\ d \in documents /\ documents' = documents \ {d} /\ rows' = Cascade(d)
        /\ removed' = removed \cup {d} /\ owed' = owed \cup {<<"deleted document", d>>}
        /\ window' = window /\ content' = content /\ pc' = pc
        /\ chunks' = chunks /\ vectors' = vectors /\ activity' = activity
    BY <1>7 DEF Delete, request
  <2>2. Typed'
    BY <1>2, <2>1 DEF Typed
  <2>3. Kept' = Kept
    BY <2>1 DEF Kept
  <2>4. ASSUME NEW q \in Requests PROVE Holds(q)'
    BY <1>1, <2>1, <2>3, HoldsStill
  <2>5. RowsAreInserted'
    <3>1. \A q : Inserted(q)' = Inserted(q)
      BY <2>1 DEF Inserted
    <3>2. \A q : \A c \in Inserted(q) : c.document = q
      BY DEF Inserted
    <3>3. ASSUME NEW c \in rows' PROVE c.document \in documents' /\ c \in Inserted(c.document)'
      <4>1. c \in rows /\ c.document # d
        BY <2>1 DEF Cascade
      <4> QED
        BY <1>1, <2>1, <3>1, <4>1 DEF RowsAreInserted
    <3>4. ASSUME NEW q \in documents' PROVE Inserted(q)' \subseteq rows'
      <4>1. q \in documents /\ q # d
        BY <2>1
      <4>2. Inserted(q) \subseteq rows
        BY <1>1, <4>1 DEF RowsAreInserted
      <4>3. Inserted(q) \subseteq Cascade(d)
        BY <3>2, <4>1, <4>2 DEF Cascade
      <4> QED
        BY <2>1, <3>1, <4>3
    <3> QED
      BY <3>3, <3>4 DEF RowsAreInserted
  <2>6. FeedIsTrue'
    <3> SUFFICES ASSUME NEW e \in owed' \cup activity' PROVE Told(e)'
      BY DEF FeedIsTrue
    <3>1. CASE e \in owed \cup activity
      <4>1. Told(e)
        BY <1>1, <3>1 DEF FeedIsTrue
      <4> QED
        BY <2>1, <2>3, <4>1 DEF Told
    <3>2. CASE e = <<"deleted document", d>>
      BY <2>1, <3>2 DEF Told
    <3> QED
      BY <2>1, <3>1, <3>2
  <2> QED
    BY <2>2, <2>4, <2>5, <2>6 DEF IInv
<1>8. ASSUME NEW e \in Entries, Record(e) PROVE IInv'
  <2>1. /\ e \in owed /\ owed' = owed \ {e} /\ activity' \in {activity, activity \cup {e}}
        /\ window' = window /\ content' = content /\ pc' = pc
        /\ chunks' = chunks /\ vectors' = vectors
        /\ documents' = documents /\ rows' = rows /\ removed' = removed
    BY <1>8 DEF Record, request, store
  <2>2. Typed'
    BY <1>2, <2>1 DEF Typed
  <2>3. Kept' = Kept
    BY <2>1 DEF Kept
  <2>4. ASSUME NEW q \in Requests PROVE Holds(q)'
    BY <1>1, <2>1, <2>3, HoldsStill
  <2>5. RowsAreInserted'
    BY <1>1, <2>1, RowsStill
  <2>6. owed' \cup activity' \subseteq owed \cup activity
    BY <2>1
  <2>7. FeedIsTrue'
    BY <1>1, <2>1, <2>3, <2>6, FeedStill
  <2> QED
    BY <2>2, <2>4, <2>5, <2>7 DEF IInv
<1>9. CASE UNCHANGED vars
  <2>1. /\ window' = window /\ content' = content /\ pc' = pc
        /\ chunks' = chunks /\ vectors' = vectors
        /\ documents' = documents /\ rows' = rows /\ removed' = removed
        /\ owed' = owed /\ activity' = activity
    BY <1>9 DEF vars, request, store, feed
  <2>2. Typed'
    BY <1>2, <2>1 DEF Typed
  <2>3. Kept' = Kept
    BY <2>1 DEF Kept
  <2>4. ASSUME NEW q \in Requests PROVE Holds(q)'
    BY <1>1, <2>1, <2>3, HoldsStill
  <2>5. RowsAreInserted'
    BY <1>1, <2>1, RowsStill
  <2>6. FeedIsTrue'
    BY <1>1, <2>1, <2>3, FeedStill
  <2> QED
    BY <2>2, <2>4, <2>5, <2>6 DEF IInv
<1> QED
  BY <1>3, <1>4, <1>5, <1>6, <1>7, <1>8, <1>9 DEF Next

\* The invariant holds in every state the knowledge base reaches.
THEOREM Invariance == Spec => []IInv
<1>1. Init => IInv
  BY InitIInv
<1>2. IInv /\ [Next]_vars => IInv'
  BY NextIInv
<1> QED
  BY <1>1, <1>2, PTL DEF Spec

-----------------------------------------------------------------------------
(* What follows of it.                                                     *)

\* The rows of a document are one for each of its chunks, under its index.
LEMMA StoredIsChunks ==
  ASSUME IInv, NEW d \in documents
  PROVE  Len(Stored(d)) = Len(chunks[d]) /\ Stored(d) = chunks[d]
<1> DEFINE n == Len(chunks[d])
           Row(k) == [document |-> d, index |-> k - 1, span |-> chunks[d][k],
                      of |-> vectors[d][k]]
           S == ChunksOf(d)
<1>1. /\ d \in Requests /\ chunks[d] \in Spans /\ d \in Kept
      /\ Holds(d) /\ RowsAreInserted
  BY DEF IInv, Typed, Kept
<1>2. n \in Nat /\ chunks[d] \in [1 .. n -> SpanSet]
  BY <1>1 DEF Spans
<1>3. Len(vectors[d]) = n
  BY <1>1 DEF Holds
<1>4. Inserted(d) = {Row(k) : k \in 1 .. n}
  <2>1. Smaller(Len(chunks[d]), Len(vectors[d])) = n
    BY <1>2, <1>3 DEF Smaller
  <2> QED
    BY <2>1 DEF Inserted
<1>5. S = Inserted(d)
  <2>1. \A c \in Inserted(d) : c.document = d
    BY DEF Inserted
  <2> QED
    BY <1>1, <2>1 DEF RowsAreInserted, ChunksOf
<1>6. \A k \in 1 .. n : Row(k) \in S /\ Row(k).index = k - 1 /\ Row(k).span = chunks[d][k]
  BY <1>4, <1>5
<1>7. \A c \in S : \E k \in 1 .. n : c = Row(k)
  BY <1>4, <1>5
<1> HIDE DEF S, Row
<1>8. Cardinality(S) = n
  <2> DEFINE f == [k \in 1 .. n |-> Row(k)]
  <2>1. f \in [1 .. n -> S] /\ \A k \in 1 .. n : f[k] = Row(k)
    BY <1>6
  <2> HIDE DEF f
  <2>2. \A i, j \in 1 .. n : f[i] = f[j] => i = j
    <3> SUFFICES ASSUME NEW i \in 1 .. n, NEW j \in 1 .. n, f[i] = f[j] PROVE i = j
      OBVIOUS
    <3>1. i - 1 = j - 1
      BY <1>6, <2>1
    <3> QED
      BY <3>1
  <2>3. \A c \in S : \E k \in 1 .. n : f[k] = c
    BY <1>7, <2>1
  <2> QED
    BY <1>2, <2>1, <2>2, <2>3, Counting
<1>9. ASSUME NEW k \in 1 .. n
      PROVE  (CHOOSE c \in S : c.index = k - 1).span = chunks[d][k]
  <2> DEFINE c == CHOOSE x \in S : x.index = k - 1
  <2>1. c \in S /\ c.index = k - 1
    BY <1>6
  <2> HIDE DEF c
  <2>2. PICK j \in 1 .. n : c = Row(j)
    BY <1>7, <2>1
  <2>3. j - 1 = k - 1
    BY <1>6, <2>1, <2>2
  <2>4. j = k
    BY <2>3
  <2> QED
    BY <1>6, <2>2, <2>4 DEF c
<1>10. Stored(d) = [k \in 1 .. n |-> (CHOOSE c \in S : c.index = k - 1).span]
  BY <1>8 DEF Stored, S
<1>11. Stored(d) = [k \in 1 .. n |-> chunks[d][k]]
  BY <1>9, <1>10
<1>12. Stored(d) = chunks[d]
  BY <1>2, <1>11
<1> QED
  BY <1>12

\* A document is there with all its chunks or not at all, whatever failed.
THEOREM DocumentsAreWhole == Spec => []AllOrNothing
<1>1. IInv => AllOrNothing
  <2> SUFFICES ASSUME IInv PROVE AllOrNothing
    OBVIOUS
  <2>1. \A c \in rows : c.document \in documents
    BY DEF IInv, RowsAreInserted
  <2>2. \A d \in documents : Len(Stored(d)) = Len(chunks[d]) /\ Stored(d) = chunks[d]
    BY StoredIsChunks
  <2>3. \A r \in Requests : pc[r] = "done" => r \in documents \cup removed
    BY DEF IInv, Holds, Kept
  <2>4. \A e \in activity : e[2] \in IF e[1] = "added document" THEN documents \cup removed
                                                                ELSE removed
    BY DEF IInv, FeedIsTrue, Told, Kept
  <2> QED
    BY <2>1, <2>2, <2>3, <2>4 DEF AllOrNothing
<1> QED
  BY <1>1, Invariance, PTL

\* What is stored of a document is chunk_text of its content.
LEMMA StoredFacts ==
  ASSUME IInv, NEW d \in documents
  PROVE  /\ Stored(d) = ChunkText(content[d], window[1], window[2])
         /\ content[d] \in Seq(Characters) /\ window[1] \in Nat /\ window[2] \in Nat
<1>1. d \in Requests /\ window \in Windows /\ content \in Asked /\ chunks[d] = ChunksFor(d)
  BY DEF IInv, Typed, Holds, Kept
<1> QED
  BY <1>1, StoredIsChunks, AskedAssumption, WindowsAssumption DEF ChunksFor

\* What is stored of a document loses none of its text and keeps its words whole.
THEOREM StoredTextIsCovered == Spec => []StoredCoversText
<1>1. IInv => StoredCoversText
  BY StoredFacts, ChunksCover DEF StoredCoversText
<1> QED
  BY <1>1, Invariance, PTL

\* Every stored chunk adds text to the one before it, except before a long word.
THEOREM StoredChunksAdd == Spec => []ChunksAddText
<1>1. IInv => ChunksAddText
  BY StoredFacts, ChunksAdd DEF ChunksAddText
<1> QED
  BY <1>1, Invariance, PTL

\* Each stored chunk has the vector of its own text.
THEOREM VectorsBelong == Spec => []VectorsAreTheirs
<1>1. IInv => VectorsAreTheirs
  <2> SUFFICES ASSUME IInv, NEW c \in rows PROVE c.of = c.index + 1
    BY DEF VectorsAreTheirs
  <2> DEFINE d == c.document
  <2>1. d \in documents /\ c \in Inserted(d)
    BY DEF IInv, RowsAreInserted
  <2>2. /\ d \in Requests /\ chunks[d] \in Spans /\ Len(vectors[d]) = Len(chunks[d])
        /\ \A k \in 1 .. Len(chunks[d]) : vectors[d][k] = k
    BY <2>1 DEF IInv, Typed, Holds, Kept
  <2> HIDE DEF d
  <2>3. Smaller(Len(chunks[d]), Len(vectors[d])) = Len(chunks[d])
    BY <2>2 DEF Smaller
  <2>4. PICK k \in 1 .. Len(chunks[d]) : c.index = k - 1 /\ c.of = vectors[d][k]
    BY <2>1, <2>3 DEF Inserted
  <2> QED
    BY <2>2, <2>4
<1> QED
  BY <1>1, Invariance, PTL
=============================================================================
