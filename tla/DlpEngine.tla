------------------------------ MODULE DlpEngine ------------------------------
(***************************************************************************)
(* The pure part of the DLP engine (crates/dlp/src/lib.rs): how findings   *)
(* of several policies are collected, merged and applied to a text.        *)
(*                                                                         *)
(* A text is the sequence of its bytes, each named by its offset, and a    *)
(* span [start, end) is a pair of byte offsets. What the regexes match is  *)
(* an input: `matches` gives, for every pattern a detector exists for, its *)
(* matches from left to right.                                             *)
(***************************************************************************)
EXTENDS Naturals, Sequences, SequencesExt, FiniteSets

CONSTANT Patterns  \* what a policy may list; a finding bears the name of its pattern

Labels == Patterns \cup {"ner"}

Actions == {"redact", "block", "flag"}

\* A finding with the action of the policy that asked for it.
Finding == [start : Nat, end : Nat, label : Labels, action : Actions]

SpansOverlap(f, g) == f.start < g.end /\ g.start < f.end

StrongerLast(a, b) == b
Stronger(a, b) ==
  IF "block" \in {a, b} THEN "block" ELSE IF "redact" \in {a, b} THEN "redact" ELSE "flag"

\* The findings of the enabled policies, in the order of policies and patterns;
\* a pattern no detector knows is skipped.
FindingsOf(policy, pattern, matches) ==
  IF pattern \notin DOMAIN matches THEN <<>>
  ELSE [i \in DOMAIN matches[pattern] |->
          [start |-> matches[pattern][i].start, end |-> matches[pattern][i].end,
           label |-> pattern, action |-> policy.action]]

CollectFindings(policies, matches) ==
  FlattenSeq([i \in DOMAIN policies |->
    IF ~ policies[i].enabled THEN <<>>
    ELSE FlattenSeq([j \in DOMAIN policies[i].patterns |->
           FindingsOf(policies[i], policies[i].patterns[j], matches)])])

Blocked(findings) == \E i \in DOMAIN findings : findings[i].action = "block"

-----------------------------------------------------------------------------
(* The loops. Each is the function from the number of turns to the value   *)
(* after them.                                                             *)

\* An NER entity is always a redaction; one that overlaps a finding already
\* there is dropped.
AdmitEntity(findings, entity) ==
  IF \E i \in DOMAIN findings : SpansOverlap(entity, findings[i])
  THEN findings
  ELSE Append(findings, [start |-> entity.start, end |-> entity.end,
                         label |-> "ner", action |-> "redact"])

Admitting(findings, entities) ==
  LET after[n \in 0 .. Len(entities)] ==
        IF n = 0 THEN findings ELSE AdmitEntity(after[n - 1], entities[n])
  IN after

ReplaceByEntities(findings, entities) == Admitting(<<>>, entities)[Len(entities)]
WithEntities(findings, entities) == Admitting(findings, entities)[Len(entities)]

\* sort_by is stable: leftmost first, the widest first on a tie.
Before(f, g) == f.start < g.start \/ (f.start = g.start /\ f.end > g.end)

\* The findings that come before the j-th.
Ahead(fs, j) ==
  {i \in DOMAIN fs : Before(fs[i], fs[j]) \/ (~ Before(fs[j], fs[i]) /\ i < j)}

SortFindings(fs) ==
  [n \in DOMAIN fs |-> fs[CHOOSE j \in DOMAIN fs : Cardinality(Ahead(fs, j)) = n - 1]]

\* One more finding: it extends the last merged span when it overlaps it.
AbsorbLastEnd(merged, f) ==
  IF merged # <<>> /\ f.start < Last(merged).end
  THEN Append(Front(merged), [Last(merged) EXCEPT !.end = f.end,
                                                  !.action = Stronger(@, f.action)])
  ELSE Append(merged, f)

Absorb(merged, f) ==
  IF merged # <<>> /\ f.start < Last(merged).end
  THEN Append(Front(merged), [Last(merged) EXCEPT !.end = IF f.end > @ THEN f.end ELSE @,
                                                  !.action = Stronger(@, f.action)])
  ELSE Append(merged, f)

Merging(sorted) ==
  LET after[n \in 0 .. Len(sorted)] ==
        IF n = 0 THEN <<>> ELSE Absorb(after[n - 1], sorted[n])
  IN after

DedupeFindings(fs) == Merging(SortFindings(fs))[Len(fs)]

-----------------------------------------------------------------------------
(* Applying the redactions.                                                *)

Byte(b) == [kind |-> "byte", at |-> b, label |-> ""]
Token(label) == [kind |-> "token", at |-> 0, label |-> label]
TextOf(size) == [i \in 1 .. size |-> Byte(i - 1)]

ReplaceRange(text, f) ==
  SubSeq(text, 1, f.start) \o <<Token(f.label)>> \o SubSeq(text, f.end + 1, Len(text))

Redact(text, f) ==
  IF f.action = "redact" /\ f.end <= Len(text) THEN ReplaceRange(text, f) ELSE text

\* Right to left, so that the offsets still to be used stay valid.
Redacting(text, sorted) ==
  LET after[n \in 0 .. Len(sorted)] ==
        IF n = 0 THEN text ELSE Redact(after[n - 1], sorted[Len(sorted) + 1 - n])
  IN after

ApplyLeftToRight(text, fs) ==
  LET sorted == SortFindings(fs)
  IN Redacting(text, [i \in DOMAIN fs |-> sorted[Len(fs) + 1 - i]])[Len(fs)]
ApplyRedactions(text, fs) == Redacting(text, SortFindings(fs))[Len(fs)]

-----------------------------------------------------------------------------
(* What merging and redacting should give, with nothing of the loops.      *)

Bytes(f) == f.start .. f.end - 1

\* Spans in order and apart that cover what was matched; two bytes next to each
\* other are in one span exactly when one finding matched both.
ExactMerge(fs, merged) ==
  LET covered == UNION {Bytes(f) : f \in ToSet(fs)} IN
  /\ \A i \in 2 .. Len(merged) : merged[i - 1].end <= merged[i].start
  /\ UNION {Bytes(m) : m \in ToSet(merged)} = covered
  /\ \A b \in covered :
       (\E m \in ToSet(merged) : {b, b + 1} \subseteq Bytes(m))
         <=> (\E f \in ToSet(fs) : {b, b + 1} \subseteq Bytes(f))

\* A span has the most protective action of the findings in it, and the label of
\* a leftmost, widest one.
Strongest(fs, m) ==
  LET inside == {f \in ToSet(fs) : Bytes(f) \subseteq Bytes(m)}
      actions == {f.action : f \in inside}
  IN /\ m.action = (IF "block" \in actions THEN "block"
                    ELSE IF "redact" \in actions THEN "redact" ELSE "flag")
     /\ \E f \in inside : f.label = m.label /\ \A g \in inside : ~ Before(g, f)

\* What byte b of a text becomes: itself, the token of the span it begins, or
\* nothing inside a span.
Shows(cuts, b) ==
  IF \E m \in cuts : m.start = b THEN <<Token((CHOOSE m \in cuts : m.start = b).label)>>
  ELSE IF \E m \in cuts : b \in Bytes(m) THEN <<>> ELSE <<Byte(b)>>

\* The last n bytes of a text of `size` bytes, each as it is shown.
Showing(size, cuts) ==
  LET end[n \in 0 .. size] ==
        IF n = 0 THEN <<>> ELSE Shows(cuts, size - n) \o end[n - 1]
  IN end
=============================================================================
