----------------------------- MODULE MCStreamDlp -----------------------------
(* StreamDlp on short replies over an alphabet of digits, a key letter and *)
(* other text. The pair detector wants exactly two digits between word     *)
(* boundaries, as the number detectors of rules.rs do; the key detector a  *)
(* single letter.                                                          *)
EXTENDS StreamDlp, TLC

MCTexts ==
  [1 .. 5 -> {"d", "o"}] \cup {<<"k", "d", "d", "k", "o">>, <<"o", "k", "o", "d", "d">>}

MCPolicySets ==
  {[pair |-> "redact", key |-> "off"], [pair |-> "redact", key |-> "flag"],
   [pair |-> "flag", key |-> "redact"]}

Span(s, e, action) == [start |-> s, end |-> e, action |-> action]

MCFindings(t, p, lo, hi) ==
  LET digit(i) == i >= lo /\ i < hi /\ t[i + 1] = "d"
      pairs == {Span(s, s + 2, p.pair) :
                  s \in {i \in lo .. hi - 1 : digit(i) /\ digit(i + 1)
                           /\ ~ digit(i + 2) /\ (i = lo \/ ~ digit(i - 1))}}
      keys == {Span(s, s + 1, p.key) : s \in {i \in lo .. hi - 1 : t[i + 1] = "k"}}
  IN {f \in pairs \cup keys : f.action # "off"}
=============================================================================
