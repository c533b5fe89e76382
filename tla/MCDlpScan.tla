------------------------------ MODULE MCDlpScan ------------------------------
(* DlpScan on short texts, two detectors and two policies.                 *)
EXTENDS DlpScan, TLC

Length == 4

MCPatterns == {"ssn", "email", "unknown"}

MCTexts == {<<1, 1, 1, 1>>, <<2, 1, 1, 1>>}

Spans(n) == {[start |-> s, end |-> e] : s \in 0 .. n - 1, e \in 1 .. n}
Proper(n) == {f \in Spans(n) : f.start < f.end}

\* The matches of one detector: apart from each other, left to right.
FindIter(S) == {<<>>} \cup {<<f>> : f \in S}
                 \cup {<<f, g>> : f \in S, g \in {h \in S : h.start > 1}}
InOrder(fs) == Len(fs) = 2 => fs[1].end <= fs[2].start

MCMatches(w) ==
  LET cuts == {f \in Proper(Size(w)) : {f.start, f.end} \subseteq CharBoundaries(w)}
      some == {fs \in FindIter(cuts) : InOrder(fs) /\ (Size(w) > Length => Len(fs) < 2)}
  IN [{"ssn", "email"} -> some]

Policy(on, patterns, action) == [enabled |-> on, patterns |-> patterns, action |-> action]

\* Two policies apart, two sharing a pattern, and a disabled one.
MCPolicyLists ==
  UNION {{<<Policy(TRUE, <<"ssn", "unknown">>, a), Policy(TRUE, <<"email">>, b)>>,
          <<Policy(TRUE, <<"ssn">>, a), Policy(a # b, <<"email", "ssn">>, b)>>} :
           a, b \in Actions}

MCEntityLists(w) ==
  {<<f>> : f \in Proper(Len(w))} \cup {<<[start |-> 0, end |-> 2], [start |-> 1, end |-> 4]>>}
=============================================================================
