------------------------------- MODULE DlpScan -------------------------------
(***************************************************************************)
(* One call of scan_deep (crates/dlp/src/lib.rs) on one message: the regex *)
(* pass, the optional round trip to the Presidio sidecar, and the merged   *)
(* result. scan, the hot path, is the same call with no sidecar.           *)
(*                                                                         *)
(* The sidecar counts characters and the engine counts bytes; `widths`     *)
(* gives the bytes of each character of the text.                          *)
(***************************************************************************)
EXTENDS DlpEngine

CONSTANTS
  TextWidths,     \* texts: sequences of the byte widths of their characters
  Matches(_),     \* text -> what the detectors may match in it
  PolicyLists,    \* what load_policies may return
  EntityLists(_)  \* text -> sidecar answers: sequences of character spans

VARIABLES pc, widths, matches, loaded, deep, findings, entities, result

scanVars == <<pc, widths, matches, loaded, deep, findings, entities, result>>

\* The byte at which each character begins, and the one after the last.
Offsets(w) ==
  LET at[c \in 0 .. Len(w)] == IF c = 0 THEN 0 ELSE at[c - 1] + w[c] IN at
Size(w) == Offsets(w)[Len(w)]
CharBoundaries(w) == {Offsets(w)[c] : c \in 0 .. Len(w)}

\* UTF-8, what a policy row holds, and what find_iter returns: spans of the text
\* that are not empty, as no detector matches nothing.
ASSUME ScanAssumption ==
  /\ \A w \in TextWidths : w \in Seq(1 .. 4)
  /\ \A some \in PolicyLists :
       some \in Seq([enabled : BOOLEAN, patterns : Seq(Patterns), action : Actions])
  /\ \A w \in TextWidths : \A found \in Matches(w) : \A pattern \in DOMAIN found :
       /\ found[pattern] \in Seq([start : Nat, end : Nat])
       /\ \A i \in DOMAIN found[pattern] :
            found[pattern][i].start < found[pattern][i].end /\ found[pattern][i].end <= Size(w)

\* The sidecar's part: its spans are of the text it was sent, and not empty.
ASSUME SidecarAssumption ==
  \A w \in TextWidths : \A answer \in EntityLists(w) :
    /\ answer \in Seq([start : Nat, end : Nat])
    /\ \A i \in DOMAIN answer : answer[i].start < answer[i].end /\ answer[i].end <= Len(w)

NoResult == [text |-> <<>>, findings |-> <<>>, blocked |-> FALSE]

\* dedupe_findings, apply_redactions and the ScanResult (its findings keep their
\* action here); replace_range panics on an offset inside a character.
Conclude(fs) ==
  LET merged == DedupeFindings(fs)
      cut == {f \in ToSet(merged) : f.action = "redact"}
  IN IF \A f \in cut : {f.start, f.end} \subseteq CharBoundaries(widths)
     THEN /\ pc' = "done"
          /\ result' = [text |-> ApplyRedactions(TextOf(Size(widths)), merged),
                        findings |-> merged, blocked |-> Blocked(fs)]
     ELSE /\ pc' = "panicked"
          /\ UNCHANGED result

ScanInit ==
  /\ pc = "start"
  /\ widths \in TextWidths
  /\ matches \in Matches(widths)
  /\ loaded \in PolicyLists
  /\ deep \in BOOLEAN
  /\ findings = <<>>
  /\ entities = <<>>
  /\ result = NoResult

\* The regex pass; the sidecar is asked only when it can change the outcome.
RegexPass ==
  /\ pc = "start"
  /\ findings' = CollectFindings(loaded, matches)
  /\ IF deep /\ ~ Blocked(findings')
     THEN pc' = "analyzing" /\ UNCHANGED result
     ELSE Conclude(findings')
  /\ UNCHANGED <<widths, matches, loaded, deep, entities>>

\* analyze answers with the entities it is sure enough of.
SidecarAnswers(answer) ==
  /\ pc = "analyzing"
  /\ entities' = answer
  /\ findings' = WithEntities(findings, answer)
  /\ Conclude(findings')
  /\ UNCHANGED <<widths, matches, loaded, deep>>

\* It is down, slow or answers an error: the regex result stands.
SidecarFails ==
  /\ pc = "analyzing"
  /\ Conclude(findings)
  /\ UNCHANGED <<widths, matches, loaded, deep, findings, entities>>

ScanNext ==
  \/ RegexPass
  \/ \E answer \in EntityLists(widths) : SidecarAnswers(answer)
  \/ SidecarFails

ScanSpec == ScanInit /\ [][ScanNext]_scanVars

-----------------------------------------------------------------------------
(* Properties.                                                             *)

Masked(b) == Byte(b) \notin ToSet(result.text)
Raw == ToSet(findings)
Done == pc = "done"

\* Two bytes next to each other end in one merged span exactly when one finding
\* matched both: dedupe_findings joins what overlaps and nothing else, so the
\* spans it returns are disjoint, in order, and cover what was matched.
MergeIsExact == Done => ExactMerge(findings, result.findings)

\* A merged span takes the most protective action and the label of a leftmost,
\* widest finding in it, whatever the order of the policies.
MergeKeepsTheStrongest == Done => \A m \in ToSet(result.findings) : Strongest(findings, m)

\* The text returned is the input with every merged redact span replaced by one
\* token and every other byte in place: replacing from the right leaves no
\* offset stale.
RedactionIsExact ==
  LET cuts == {m \in ToSet(result.findings) : m.action = "redact"}
      size == Size(widths)
  IN Done => result.text = Showing(size, cuts)[size]

\* A failing sidecar changes nothing and an answering one only adds: what the
\* regex pass masks stays masked, the decision to block is the regexes', and an
\* entity is left out only where it overlaps a span that is there.
SidecarOnlyAdds ==
  Done =>
    LET regex == CollectFindings(loaded, matches) IN
    /\ result.blocked <=> Blocked(regex)
    /\ \A f \in ToSet(DedupeFindings(regex)) :
         f.action = "redact" => \A b \in Bytes(f) : Masked(b)
    /\ \A e \in ToSet(entities) : \E f \in Raw : Bytes(e) \cap Bytes(f) # {}

\* lib.rs:185-187 says of the sidecar's entities that they "never hard-block,
\* which avoids NER false positives killing legitimate requests": a call the
\* regexes do not block returns a result.
EntitiesNeverKill == Blocked(CollectFindings(loaded, matches)) \/ pc # "panicked"
=============================================================================
