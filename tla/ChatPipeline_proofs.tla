------------------------ MODULE ChatPipeline_proofs ------------------------
(***************************************************************************)
(* Proofs about ChatPipeline, for any requests, prompts, replies, policies *)
(* and any number of edits.                                                *)
(*                                                                         *)
(* The invariant speaks of one request at a time: a step changes one, so   *)
(* the others keep it (OneStep). The heart is ScanPasses, which alone      *)
(* establishes Clean; what leaves the handler later is what it made.       *)
(***************************************************************************)
EXTENDS ChatPipeline, FiniteSetTheorems, WellFoundedInduction, TLAPS

-----------------------------------------------------------------------------
(* Texts and messages.                                                     *)

LEMMA VerdictFacts ==
  ASSUME NEW text \in Texts, NEW pol \in Policies, NEW up \in BOOLEAN
  PROVE  /\ text.masked => Verdict(text, pol, up) = "none"
         /\ ~ text.masked /\ text.kind = "pii" => Verdict(text, pol, up) = pol.action
  BY DEF Verdict, Texts

\* A scan keeps what a text is about, and masks what a redact policy matches.
LEMMA ScannedFacts ==
  ASSUME NEW text \in Texts, NEW pol \in Policies, NEW up \in BOOLEAN
  PROVE  /\ Scanned(text, pol, up) \in Texts
         /\ Scanned(text, pol, up).kind = text.kind
         /\ text.kind = "pii" /\ pol.action = "redact" => Scanned(text, pol, up).masked
<1>1. /\ [text EXCEPT !.masked = TRUE] \in Texts
      /\ [text EXCEPT !.masked = TRUE].kind = text.kind
      /\ [text EXCEPT !.masked = TRUE].masked
  BY DEF Texts
<1>2. text.masked \in BOOLEAN
  BY DEF Texts
<1> QED
  BY <1>1, <1>2, VerdictFacts DEF Scanned

\* A nonempty set of positions has a last one.
LEMMA LastPosition ==
  ASSUME NEW n \in Nat, NEW S \in SUBSET (1 .. n), S # {}
  PROVE  Max(S) \in S
<1> DEFINE T == {n - i : i \in S}
<1>1. T \subseteq Nat /\ T # {}
  <2>1. \A i \in S : n - i \in Nat
    OBVIOUS
  <2>2. PICK i \in S : TRUE
    OBVIOUS
  <2>3. n - i \in T
    BY <2>2
  <2> QED
    BY <2>1, <2>3
<1> HIDE DEF T
<1>2. PICK x \in T : \A y \in T : ~ (<<y, x>> \in OpToRel(<, Nat))
  BY <1>1, WFMin, NatLessThanWellFounded
<1>3. \A y \in T : ~ (y < x)
  BY <1>1, <1>2 DEF OpToRel
<1>4. PICK i \in S : x = n - i
  BY DEF T
<1>5. \A j \in S : i >= j
  <2> SUFFICES ASSUME NEW j \in S PROVE i >= j
    OBVIOUS
  <2>1. n - j \in T
    BY DEF T
  <2> QED
    BY <1>3, <1>4, <2>1
<1> QED
  BY <1>5 DEF Max

\* The latest user message is one.
LEMMA QueryIsUsers ==
  ASSUME NEW msgs \in Seq(Messages), UserTurns(msgs) # {}
  PROVE  \E i \in DOMAIN msgs : msgs[i].role = "user" /\ Query(msgs) = msgs[i].text
<1>1. UserTurns(msgs) \in SUBSET (1 .. Len(msgs)) /\ Len(msgs) \in Nat
  BY DEF UserTurns
<1>2. Max(UserTurns(msgs)) \in UserTurns(msgs)
  BY <1>1, LastPosition
<1> QED
  BY <1>2 DEF UserTurns, Query

LEMMA TextsOfFacts ==
  ASSUME NEW msgs \in Seq(Messages)
  PROVE  /\ TextsOf(msgs) \in Seq(Texts)
         /\ (\A i \in DOMAIN msgs : msgs[i].from = "client") => PromptWithin(TextsOf(msgs), msgs)
<1>1. \A i \in 1 .. Len(msgs) : msgs[i].text \in Texts
  <2>1. \A i \in 1 .. Len(msgs) : msgs[i] \in Messages
    OBVIOUS
  <2> QED
    BY <2>1 DEF Messages
<1>2. TextsOf(msgs) \in Seq(Texts)
  BY <1>1 DEF TextsOf
<1>3. ASSUME \A i \in DOMAIN msgs : msgs[i].from = "client"
      PROVE  PromptWithin(TextsOf(msgs), msgs)
  <2>1. SubSeq(msgs, 0 + 1, Len(msgs)) = msgs
    OBVIOUS
  <2>2. \A i \in DOMAIN msgs : msgs[i].from = "client" <=> i > 0
    BY <1>3
  <2>3. TextsOf(msgs) = TextsOf(SubSeq(msgs, 0 + 1, Len(msgs)))
    BY <2>1, Zenon
  <2>4. 0 \in 0 .. 1
    OBVIOUS
  <2> QED
    BY <2>2, <2>3, <2>4, Zenon DEF PromptWithin
<1> QED
  BY <1>2, <1>3

\* The retrieved context comes before the client's messages and hides none.
LEMMA ContextPrepended ==
  ASSUME NEW msgs \in Seq(Messages), msgs # <<>>,
         \A i \in DOMAIN msgs : msgs[i].from = "client",
         NEW texts, PromptWithin(texts, msgs),
         NEW m \in Messages, m.from = "kb"
  PROVE  /\ <<m>> \o msgs \in Seq(Messages) \ {<<>>}
         /\ PromptWithin(texts, <<m>> \o msgs)
<1> DEFINE all == <<m>> \o msgs
<1>1. PICK context \in 0 .. 1 :
        /\ texts = TextsOf(SubSeq(msgs, context + 1, Len(msgs)))
        /\ \A i \in DOMAIN msgs : msgs[i].from = "client" <=> i > context
  BY DEF PromptWithin
<1>2. context = 0
  BY <1>1
<1>3. SubSeq(msgs, 0 + 1, Len(msgs)) = msgs
  OBVIOUS
<1>4. /\ all \in Seq(Messages) /\ Len(all) = Len(msgs) + 1
      /\ all[1] = m /\ \A i \in 2 .. Len(all) : all[i] = msgs[i - 1]
  OBVIOUS
<1> HIDE DEF all
<1>5. SubSeq(all, 1 + 1, Len(all)) = msgs
  <2> DEFINE rest == SubSeq(all, 2, Len(all))
  <2>1. rest \in Seq(Messages) /\ Len(rest) = Len(msgs) /\ \A i \in 1 .. Len(msgs) : rest[i] = all[i + 1]
    BY <1>4
  <2> HIDE DEF rest
  <2>2. \A i \in 1 .. Len(msgs) : rest[i] = msgs[i]
    <3> SUFFICES ASSUME NEW i \in 1 .. Len(msgs) PROVE rest[i] = msgs[i]
      OBVIOUS
    <3>1. rest[i] = all[i + 1]
      BY <2>1
    <3>2. i + 1 \in 2 .. Len(all) /\ (i + 1) - 1 = i
      BY <1>4
    <3> QED
      BY <1>4, <3>1, <3>2
  <2>3. rest = msgs
    <3>1. rest \in [1 .. Len(msgs) -> Messages] /\ msgs \in [1 .. Len(msgs) -> Messages]
      BY <2>1
    <3> QED
      BY <3>1, <2>2
  <2> QED
    BY <2>3 DEF rest
<1>6. \A i \in DOMAIN all : all[i].from = "client" <=> i > 1
  BY <1>4
<1>7. texts = TextsOf(SubSeq(all, 1 + 1, Len(all)))
  BY <1>1, <1>2, <1>3, <1>5, Zenon
<1>8. 1 \in 0 .. 1
  OBVIOUS
<1>9. PromptWithin(texts, all)
  BY <1>6, <1>7, <1>8, Zenon DEF PromptWithin
<1> QED
  BY <1>4, <1>9 DEF all

-----------------------------------------------------------------------------
(* One request at a time.                                                  *)

Same(q) ==
  /\ pc'[q] = pc[q] /\ local'[q] = local[q]
  /\ embedded'[q] = embedded[q] /\ sent'[q] = sent[q] /\ shown'[q] = shown[q]
  /\ logs'[q] = logs[q] /\ alerts'[q] = alerts[q] /\ notice'[q] = notice[q]
  /\ q \in unlogged' <=> q \in unlogged

LEMMA SameGood == ASSUME NEW q \in Requests, Good(q), Same(q) PROVE Good(q)'
<1> USE DEF Same
<1>1. Shape(q)'
  BY DEF Good, Shape
<1>2. Clean(q)' <=> Clean(q)
  BY DEF Clean, Sensitive
<1>3. Phase(q)'
  BY <1>2 DEF Good, Phase
<1>4. Outcome(q)'
  BY <1>2 DEF Good, Outcome, Tells, Explains, Sensitive
<1> QED
  BY <1>1, <1>3, <1>4 DEF Good

\* So a step of one request is a matter of that request.
LEMMA OneStep ==
  ASSUME IInv, Variables', NEW r \in Requests,
         \A q \in Requests \ {r} : Same(q), Good(r)'
  PROVE  IInv'
<1>1. \A q \in Requests : Good(q)'
  BY SameGood DEF IInv
<1> QED
  BY <1>1 DEF IInv

-----------------------------------------------------------------------------
(* The scan.                                                               *)

LEMMA EnterIInv ==
  ASSUME IInv, NEW r \in Requests, NEW prompt \in Prompts, Enter(r, prompt) PROVE IInv'
<1>1. Good(r) /\ pc[r] = "idle"
  BY DEF IInv, Enter
<1>2. Variables' /\ \A q \in Requests \ {r} : Same(q)
  BY DEF IInv, Variables, Enter, Goto, Same, orgVars, outsideVars, recordVars
<1>3. /\ pc'[r] = "policies"
      /\ local'[r] = [msgs |-> prompt.msgs, stream |-> prompt.stream, zero |-> zeroRetention,
                      pol |-> NoPolicies, redactions |-> 0, snapshot |-> Absent, reply |-> Absent]
      /\ UNCHANGED <<embedded, sent, shown, logs, alerts, notice, unlogged>>
  BY DEF IInv, Variables, Enter, Goto, outsideVars, recordVars
<1>4. prompt.msgs \in Seq(FromClient) \ {<<>>} /\ prompt.stream \in BOOLEAN
  BY ChatAssumption
<1>5. prompt.msgs \in Seq(Messages)
  BY <1>4 DEF FromClient
<1>6. local'[r] \in Locals
  <2>1. NoPolicies \in Policies
    BY DEF NoPolicies, Policies
  <2>2. zeroRetention \in BOOLEAN
    BY DEF IInv, Variables
  <2> QED
    BY <1>3, <1>4, <1>5, <2>1, <2>2 DEF Locals, Absent
<1>7. Shape(r)'
  BY <1>1, <1>3, <1>6 DEF Good, Shape
<1>8. Phase(r)'
  BY <1>1, <1>3, <1>4 DEF Good, Phase, BeforeScan, BeforeModel, AfterModel, OfBlocked
<1>9. Outcome(r)'
  BY <1>1, <1>3 DEF Good, Phase, Outcome, ToSet
<1> QED
  BY <1>2, <1>7, <1>8, <1>9, OneStep DEF Good

LEMMA LoadPoliciesIInv == ASSUME IInv, NEW r \in Requests, LoadPolicies(r) PROVE IInv'
<1>1. Good(r) /\ pc[r] = "policies"
  BY DEF IInv, LoadPolicies
<1>2. Variables' /\ \A q \in Requests \ {r} : Same(q)
  BY DEF IInv, Variables, LoadPolicies, Goto, Same, orgVars, outsideVars, recordVars
<1>3. PICK rows \in {policies, NoPolicies} : local' = [local EXCEPT ![r].pol = rows]
  BY DEF LoadPolicies
<1>4. /\ pc'[r] = "scan"
      /\ local'[r] = [local[r] EXCEPT !.pol = rows]
      /\ UNCHANGED <<embedded, sent, shown, logs, alerts, notice, unlogged>>
  BY <1>3 DEF IInv, Variables, LoadPolicies, Goto, outsideVars, recordVars
<1>5. rows \in Policies
  <2>1. policies \in Policies
    BY ChatAssumption DEF IInv, Variables
  <2>2. NoPolicies \in Policies
    BY DEF NoPolicies, Policies
  <2> QED
    BY <1>3, <2>1, <2>2
<1>6. /\ local[r] \in Locals /\ local'[r] \in Locals
      /\ local'[r].msgs = local[r].msgs /\ local'[r].reply = local[r].reply
  BY <1>1, <1>4, <1>5 DEF Good, Shape, Locals
<1>7. Shape(r)'
  BY <1>1, <1>4, <1>6 DEF Good, Shape
<1>8. Phase(r)'
  BY <1>1, <1>4, <1>6 DEF Good, Phase, BeforeScan, BeforeModel, AfterModel, OfBlocked
<1>9. Outcome(r)'
  BY <1>1, <1>4, <1>6 DEF Good, Phase, Outcome, ToSet, BeforeScan
<1> QED
  BY <1>2, <1>7, <1>8, <1>9, OneStep DEF Good

\* The messages after the scan.
LEMMA MaskedFacts ==
  ASSUME NEW r \in Requests, local[r] \in Locals,
         NEW up \in [DOMAIN local[r].msgs -> BOOLEAN]
  PROVE  LET msgs == local[r].msgs
             new == MaskedMsgs(r, up)
         IN /\ new \in Seq(Messages) /\ Len(new) = Len(msgs) /\ DOMAIN new = DOMAIN msgs
            /\ \A i \in DOMAIN msgs :
                 /\ new[i].role = msgs[i].role /\ new[i].from = msgs[i].from
                 /\ Checked(msgs[i]) => new[i].text = Scanned(msgs[i].text, local[r].pol, up[i])
<1> DEFINE msgs == local[r].msgs
           new == MaskedMsgs(r, up)
<1>1. msgs \in Seq(Messages) /\ local[r].pol \in Policies
  BY DEF Locals
<1>2. up \in [DOMAIN msgs -> BOOLEAN]
  OBVIOUS
<1>3. new = [i \in DOMAIN msgs |->
               IF Checked(msgs[i])
               THEN [msgs[i] EXCEPT !.text = Scanned(@, local[r].pol, up[i])] ELSE msgs[i]]
  BY DEF MaskedMsgs
<1> HIDE DEF new, msgs
<1>4. \A i \in DOMAIN msgs :
        /\ new[i] \in Messages /\ new[i].role = msgs[i].role /\ new[i].from = msgs[i].from
        /\ Checked(msgs[i]) => new[i].text = Scanned(msgs[i].text, local[r].pol, up[i])
  <2> SUFFICES ASSUME NEW i \in DOMAIN msgs
      PROVE /\ new[i] \in Messages /\ new[i].role = msgs[i].role /\ new[i].from = msgs[i].from
            /\ Checked(msgs[i]) => new[i].text = Scanned(msgs[i].text, local[r].pol, up[i])
    OBVIOUS
  <2>1. msgs[i] \in Messages /\ up[i] \in BOOLEAN
    BY <1>1, <1>2
  <2>2. msgs[i].text \in Texts
    BY <2>1 DEF Messages
  <2>3. Scanned(msgs[i].text, local[r].pol, up[i]) \in Texts
    BY <1>1, <2>1, <2>2, ScannedFacts
  <2>4. new[i] = IF Checked(msgs[i])
                 THEN [msgs[i] EXCEPT !.text = Scanned(msgs[i].text, local[r].pol, up[i])] ELSE msgs[i]
    BY <1>3
  <2> QED
    BY <2>1, <2>3, <2>4 DEF Messages
<1>5. DOMAIN new = 1 .. Len(msgs) /\ DOMAIN msgs = 1 .. Len(msgs)
  BY <1>1, <1>3
<1>6. new \in Seq(Messages) /\ Len(new) = Len(msgs)
  <2>1. new \in [1 .. Len(msgs) -> Messages]
    BY <1>3, <1>4, <1>5
  <2>2. Len(msgs) \in Nat
    BY <1>1
  <2> QED
    BY <2>1, <2>2
<1> QED
  BY <1>4, <1>5, <1>6 DEF new, msgs

LEMMA ScanPassesIInv == ASSUME IInv, NEW r \in Requests, ScanPasses(r) PROVE IInv'
<1> DEFINE msgs == local[r].msgs
<1>1. Good(r) /\ pc[r] = "scan" /\ local[r] \in Locals /\ msgs \in Seq(FromClient)
  BY DEF IInv, ScanPasses, Good, Shape, Phase, BeforeScan
<1>2. Variables' /\ \A q \in Requests \ {r} : Same(q)
  BY DEF IInv, Variables, ScanPasses, Goto, Same, orgVars, outsideVars, recordVars
<1>3. PICK up \in [DOMAIN msgs -> BOOLEAN] :
        /\ \A i \in DOMAIN msgs : ~ Blocks(r, i, up)
        /\ local' = [local EXCEPT ![r].msgs = MaskedMsgs(r, up),
                                 ![r].redactions = Found(r, up),
                                 ![r].snapshot = TextsOf(MaskedMsgs(r, up))]
  BY DEF ScanPasses, SnapshotOf
<1> DEFINE new == MaskedMsgs(r, up)
<1>4. /\ new \in Seq(Messages) /\ Len(new) = Len(msgs) /\ DOMAIN new = DOMAIN msgs
      /\ \A i \in DOMAIN msgs :
           /\ new[i].role = msgs[i].role /\ new[i].from = msgs[i].from
           /\ Checked(msgs[i]) => new[i].text = Scanned(msgs[i].text, local[r].pol, up[i])
  BY <1>1, MaskedFacts
<1>5. Found(r, up) \in Nat
  <2> DEFINE found == {i \in DOMAIN msgs : /\ Checked(msgs[i])
                                          /\ Verdict(msgs[i].text, local[r].pol, up[i]) # "none"}
  <2>1. DOMAIN msgs = 1 .. Len(msgs) /\ Len(msgs) \in Nat
    BY <1>1
  <2>2. IsFiniteSet(DOMAIN msgs)
    BY <2>1, FS_Interval
  <2>3. Cardinality(found) \in Nat
    <3>1. found \in SUBSET DOMAIN msgs
      OBVIOUS
    <3> HIDE DEF found
    <3> QED
      BY <2>2, <3>1, FS_Subset, FS_CardinalityType
  <2> QED
    BY <2>3 DEF Found
<1>6. TextsOf(new) \in Seq(Texts) /\ PromptWithin(TextsOf(new), new)
  <2>1. \A i \in DOMAIN new : new[i].from = "client"
    <3>1. \A i \in DOMAIN msgs : msgs[i] \in FromClient
      BY <1>1
    <3> HIDE DEF new, msgs
    <3> QED
      BY <1>4, <3>1 DEF FromClient
  <2> HIDE DEF new
  <2> QED
    BY <1>4, <2>1, TextsOfFacts
<1>7. /\ pc'[r] = AfterScan(r)
      /\ local'[r] = [local[r] EXCEPT !.msgs = new, !.redactions = Found(r, up), !.snapshot = TextsOf(new)]
      /\ UNCHANGED <<embedded, sent, shown, logs, alerts, notice, unlogged>>
  BY <1>3 DEF IInv, Variables, ScanPasses, Goto, outsideVars, recordVars
<1>8. /\ AfterScan(r) \in {"embed", "model"}
      /\ AfterScan(r) = "embed" => UserTurns(msgs) # {}
  BY DEF AfterScan
<1>9. \A i \in DOMAIN new : /\ new[i].from = "client"
                            /\ Checked(new[i]) => Checked(msgs[i])
  <2>1. \A i \in DOMAIN msgs : msgs[i] \in FromClient
    BY <1>1
  <2> HIDE DEF new, msgs
  <2> QED
    BY <1>4, <2>1 DEF FromClient, Checked
<1>10. UserTurns(new) = UserTurns(msgs)
  <2> HIDE DEF new, msgs
  <2> QED
    BY <1>4 DEF UserTurns
<1>11. ASSUME NEW i \in DOMAIN new, Checked(new[i]), new[i].text.kind = "pii"
       PROVE  /\ local[r].pol.action # "block"
              /\ local[r].pol.action = "redact" => new[i].text.masked
  <2>1. msgs[i] \in FromClient /\ Checked(msgs[i]) /\ up[i] \in BOOLEAN /\ local[r].pol \in Policies
    BY <1>1, <1>4, <1>9, <1>11 DEF Locals
  <2>2. msgs[i].text \in Texts /\ ~ msgs[i].text.masked
    BY <2>1 DEF FromClient, Messages
  <2>3. new[i].text = Scanned(msgs[i].text, local[r].pol, up[i])
    BY <1>4, <2>1
  <2>4. msgs[i].text.kind = "pii"
    BY <1>11, <2>1, <2>2, <2>3, ScannedFacts
  <2>5. Verdict(msgs[i].text, local[r].pol, up[i]) # "block"
    BY <1>3, <1>4, <2>1 DEF Blocks
  <2>6. local[r].pol.action # "block"
    BY <2>1, <2>2, <2>4, <2>5, VerdictFacts
  <2> QED
    BY <2>1, <2>2, <2>3, <2>4, <2>6, ScannedFacts
<1> HIDE DEF new
<1>12. /\ local'[r] \in Locals /\ local'[r].msgs = new /\ local'[r].snapshot = TextsOf(new)
       /\ local'[r].pol = local[r].pol /\ local'[r].reply = local[r].reply
  <2>1. new # <<>>
    BY <1>1, <1>4 DEF Locals
  <2> QED
    BY <1>1, <1>4, <1>5, <1>6, <1>7, <2>1 DEF Locals
<1>13. Clean(r)'
  BY <1>11, <1>12 DEF Clean, Sensitive
<1>14. Shape(r)'
  BY <1>1, <1>7, <1>12 DEF Good, Shape
<1>15. Phase(r)'
  BY <1>1, <1>6, <1>7, <1>8, <1>9, <1>10, <1>12, <1>13
     DEF Good, Phase, BeforeScan, BeforeModel, AfterModel, OfBlocked
<1>16. Outcome(r)'
  BY <1>1, <1>7, <1>12 DEF Good, Phase, Outcome, ToSet, BeforeScan
<1> QED
  BY <1>2, <1>14, <1>15, <1>16, OneStep DEF Good

LEMMA ScanBlocksIInv == ASSUME IInv, NEW r \in Requests, ScanBlocks(r) PROVE IInv'
<1>1. Good(r) /\ pc[r] = "scan" /\ local[r] \in Locals
  BY DEF IInv, ScanBlocks, Good, Shape
<1>2. Variables' /\ \A q \in Requests \ {r} : Same(q)
  BY DEF IInv, Variables, ScanBlocks, Goto, Same, orgVars, outsideVars, recordVars
<1>3. /\ pc'[r] = "logBlocked"
      /\ local'[r] = [local[r] EXCEPT !.redactions = 1]
      /\ UNCHANGED <<embedded, sent, shown, logs, alerts, notice, unlogged>>
  BY DEF IInv, Variables, ScanBlocks, Goto, outsideVars, recordVars
<1>4. local'[r] \in Locals /\ local'[r].reply = local[r].reply
  BY <1>1, <1>3 DEF Locals
<1>5. Shape(r)'
  BY <1>1, <1>3, <1>4 DEF Good, Shape
<1>6. Phase(r)'
  BY <1>1, <1>3 DEF Good, Phase, BeforeScan, BeforeModel, AfterModel, OfBlocked
<1>7. Outcome(r)'
  BY <1>1, <1>3, <1>4 DEF Good, Phase, Outcome, ToSet, BeforeScan
<1> QED
  BY <1>2, <1>5, <1>6, <1>7, OneStep DEF Good

-----------------------------------------------------------------------------
(* Rows and alerts.                                                        *)

LEMMA OneMore ==
  ASSUME NEW S, NEW s \in Seq(S), NEW e \in S
  PROVE  /\ Append(s, e) \in Seq(S) /\ Len(Append(s, e)) = Len(s) + 1
         /\ Append(s, e) # <<>>
         /\ \A x \in ToSet(Append(s, e)) : x \in ToSet(s) \/ x = e
<1> DEFINE t == Append(s, e)
<1>1. t \in Seq(S) /\ Len(t) = Len(s) + 1 /\ Len(s) \in Nat
  OBVIOUS
<1>2. \A i \in 1 .. Len(t) : t[i] = IF i <= Len(s) THEN s[i] ELSE e
  OBVIOUS
<1> HIDE DEF t
<1>3. \A i \in DOMAIN t : t[i] \in ToSet(s) \/ t[i] = e
  BY <1>1, <1>2 DEF ToSet
<1>4. t # <<>>
  BY <1>1
<1> QED
  BY <1>1, <1>3, <1>4 DEF ToSet, t

\* The row a request inserts tells of it.
LEMMA RowTells ==
  ASSUME NEW r \in Requests, Good(r), pc[r] \in {"logBlocked", "log"}
  PROVE  RowOf(r) \in Rows /\ Tells(RowOf(r), r)
<1>1. local[r] \in Locals /\ local[r].zero \in BOOLEAN /\ local[r].redactions \in Nat
      /\ local[r].snapshot \in Seq(Texts) /\ local[r].reply \in Texts \cup {Absent}
      /\ local[r].msgs \in Seq(Messages) /\ local[r].msgs # <<>>
  BY DEF Good, Shape, Locals
<1>2. Absent \in Seq(Texts)
  BY DEF Absent
<1>3. CASE pc[r] = "logBlocked"
  <2>1. RowOf(r) = [blocked |-> TRUE, redactions |-> local[r].redactions,
                    prompt |-> Absent, response |-> Absent]
    BY <1>3 DEF RowOf, BlockedRow, Row
  <2>2. sent[r] = <<>>
    BY <1>3 DEF Good, Phase, OfBlocked
  <2> QED
    BY <1>1, <1>2, <2>1, <2>2 DEF Rows, Tells
<1>4. CASE pc[r] = "log"
  <2>1. RowOf(r) = [blocked |-> FALSE, redactions |-> local[r].redactions,
                    prompt |-> Kept(r, local[r].snapshot), response |-> ReplyBody(r)]
    BY <1>4 DEF RowOf, ServedRow, Row
  <2>2. sent[r] = local[r].msgs /\ PromptWithin(local[r].snapshot, sent[r])
    BY <1>4 DEF Good, Phase, AfterModel
  <2>3. /\ Kept(r, local[r].snapshot) \in Seq(Texts) /\ ReplyBody(r) \in Texts \cup {Absent}
        /\ local[r].zero => Kept(r, local[r].snapshot) = Absent /\ ReplyBody(r) = Absent
        /\ ~ local[r].zero => Kept(r, local[r].snapshot) = local[r].snapshot
        /\ ReplyBody(r) # Absent => ReplyBody(r) = local[r].reply
    BY <1>1, <1>2 DEF Kept, ReplyBody
  <2> QED
    BY <1>1, <2>1, <2>2, <2>3 DEF Rows, Tells
<1> QED
  BY <1>3, <1>4

LEMMA LogUsageFacts ==
  ASSUME NEW r \in Requests, Good(r), DOMAIN logs = Requests,
         pc[r] \in {"logBlocked", "log"}, LogUsage(r)
  PROVE  /\ logs'[r] \in Seq(Rows) /\ Len(logs'[r]) <= 1
         /\ \A row \in ToSet(logs'[r]) : Tells(row, r)
         /\ r \notin unlogged' => logs'[r] # <<>>
         /\ DOMAIN logs' = Requests
         /\ \A q \in Requests \ {r} : logs'[q] = logs[q] /\ (q \in unlogged' <=> q \in unlogged)
<1>1. logs[r] \in Seq(Rows) /\ logs[r] = <<>> /\ Len(logs[r]) = 0
  BY DEF Good, Shape, Phase
<1>2. ToSet(logs[r]) = {}
  BY <1>1 DEF ToSet
<1>3. RowOf(r) \in Rows /\ Tells(RowOf(r), r)
  BY RowTells
<1>4. CASE AppendRow(r)
  <2>1. logs'[r] = Append(logs[r], RowOf(r))
    BY <1>4 DEF AppendRow
  <2> DEFINE longer == Append(logs[r], RowOf(r))
  <2>2. /\ longer \in Seq(Rows) /\ Len(longer) = 1 /\ longer # <<>>
        /\ \A row \in ToSet(longer) : row \in ToSet(logs[r]) \/ row = RowOf(r)
    <3>1. logs[r] \in Seq(Rows) /\ RowOf(r) \in Rows
      BY <1>1, <1>3
    <3>2. /\ longer \in Seq(Rows) /\ Len(longer) = Len(logs[r]) + 1 /\ longer # <<>>
          /\ \A row \in ToSet(longer) : row \in ToSet(logs[r]) \/ row = RowOf(r)
      BY <3>1, OneMore
    <3> QED
      BY <1>1, <3>2
  <2> HIDE DEF longer
  <2>3. /\ DOMAIN logs' = Requests
        /\ \A q \in Requests \ {r} : logs'[q] = logs[q]
    BY <1>4 DEF AppendRow
  <2>4. \A row \in ToSet(longer) : Tells(row, r)
    BY <1>2, <1>3, <2>2
  <2>5. \A q \in Requests \ {r} : q \in unlogged' <=> q \in unlogged
    BY DEF LogUsage, InsertRow, LoseRow
  <2> QED
    BY <2>1, <2>2, <2>3, <2>4, <2>5 DEF longer
<1>5. CASE LoseRow(r) /\ UNCHANGED logs
  BY <1>1, <1>2, <1>5 DEF LoseRow
<1> QED
  BY <1>4, <1>5 DEF LogUsage, InsertRow, LoseRow

\* The alert a request raises explains it.
LEMMA AlertExplains ==
  ASSUME NEW r \in Requests, Good(r), pc[r] \in {"alertBlocked", "alertMasked"}
  PROVE  AlertOf(r) \in Alerts /\ Explains(AlertOf(r), r)
<1>1. CASE pc[r] = "alertBlocked"
  <2>1. AlertOf(r) = [severity |-> "high", row |-> IF r \in unlogged THEN Absent ELSE Last(logs[r])]
    BY <1>1 DEF AlertOf
  <2>2. sent[r] = <<>>
    BY <1>1 DEF Good, Phase, OfBlocked
  <2>3. CASE r \in unlogged
    BY <2>1, <2>2, <2>3 DEF Alerts, Explains
  <2>4. CASE r \notin unlogged
    <3>1. logs[r] \in Seq(Rows) /\ logs[r] # <<>>
      BY <1>1, <2>4 DEF Good, Shape, Phase
    <3>2. Len(logs[r]) \in DOMAIN logs[r] /\ logs[r][Len(logs[r])] \in Rows
      BY <3>1
    <3>3. Last(logs[r]) \in ToSet(logs[r]) /\ Last(logs[r]) \in Rows
      BY <3>2 DEF Last, ToSet
    <3>4. Last(logs[r]).blocked
      BY <2>2, <3>3 DEF Good, Outcome, Tells
    <3> QED
      BY <2>1, <2>2, <2>4, <3>3, <3>4 DEF Alerts, Explains
  <2> QED
    BY <2>3, <2>4
<1>2. CASE pc[r] = "alertMasked"
  <2>1. AlertOf(r) = [severity |-> "medium", row |-> Absent]
    BY <1>2 DEF AlertOf
  <2>2. sent[r] # <<>> /\ local[r].redactions > 0
    BY <1>2 DEF Good, Shape, Phase, AfterModel, Locals
  <2> QED
    BY <2>1, <2>2 DEF Alerts, Explains
<1> QED
  BY <1>1, <1>2

LEMMA EmitAlertFacts ==
  ASSUME NEW r \in Requests, Good(r), DOMAIN alerts = Requests,
         pc[r] \in {"alertBlocked", "alertMasked"}, EmitAlert(r)
  PROVE  /\ alerts'[r] \in Seq(Alerts)
         /\ \A alert \in ToSet(alerts'[r]) : Explains(alert, r)
         /\ DOMAIN alerts' = Requests
         /\ \A q \in Requests \ {r} : alerts'[q] = alerts[q]
<1>1. alerts[r] \in Seq(Alerts) /\ \A alert \in ToSet(alerts[r]) : Explains(alert, r)
  BY DEF Good, Shape, Outcome
<1>2. AlertOf(r) \in Alerts /\ Explains(AlertOf(r), r)
  BY AlertExplains
<1>3. CASE alerts' = [alerts EXCEPT ![r] = Append(@, AlertOf(r))]
  <2>1. alerts'[r] = Append(alerts[r], AlertOf(r))
    BY <1>3
  <2> QED
    BY <1>1, <1>2, <1>3, <2>1, OneMore
<1>4. CASE UNCHANGED alerts
  BY <1>1, <1>4
<1> QED
  BY <1>3, <1>4 DEF EmitAlert

LEMMA LogBlockedIInv == ASSUME IInv, NEW r \in Requests, LogBlocked(r) PROVE IInv'
<1>1. Good(r) /\ pc[r] = "logBlocked" /\ LogUsage(r) /\ DOMAIN logs = Requests
  BY DEF IInv, Variables, LogBlocked
<1>2. /\ logs'[r] \in Seq(Rows) /\ Len(logs'[r]) <= 1
      /\ \A row \in ToSet(logs'[r]) : Tells(row, r)
      /\ r \notin unlogged' => logs'[r] # <<>>
      /\ DOMAIN logs' = Requests
      /\ \A q \in Requests \ {r} : logs'[q] = logs[q] /\ (q \in unlogged' <=> q \in unlogged)
  BY <1>1, LogUsageFacts
<1>3. /\ pc' = [pc EXCEPT ![r] = "alertBlocked"]
      /\ UNCHANGED <<policies, zeroRetention, edits, local, embedded, sent, shown, alerts, notice>>
  BY DEF LogBlocked, Goto, orgVars, outsideVars
<1>4. Variables' /\ \A q \in Requests \ {r} : Same(q)
  BY <1>2, <1>3 DEF IInv, Variables, Same
<1>5. pc'[r] = "alertBlocked"
  BY <1>3 DEF IInv, Variables
<1>6. Shape(r)'
  BY <1>1, <1>2, <1>3, <1>5 DEF Good, Shape
<1>7. Phase(r)'
  BY <1>1, <1>2, <1>3, <1>5 DEF Good, Phase, BeforeScan, BeforeModel, AfterModel, OfBlocked
<1>8. alerts[r] = <<>> /\ notice[r] = "none" /\ sent[r] = <<>> /\ embedded[r] = <<>> /\ shown[r] = Absent
  BY <1>1 DEF Good, Phase, OfBlocked
<1>9. Outcome(r)'
  <2>1. pc[r] # "idle" => ~ (local[r].reply # Absent)
    BY <1>1, <1>8 DEF Good, Outcome
  <2> QED
    BY <1>1, <1>2, <1>3, <1>5, <1>8, <2>1 DEF Outcome, Tells, ToSet
<1> QED
  BY <1>4, <1>6, <1>7, <1>9, OneStep DEF Good

LEMMA AlertBlockedIInv == ASSUME IInv, NEW r \in Requests, AlertBlocked(r) PROVE IInv'
<1>1. Good(r) /\ pc[r] = "alertBlocked" /\ EmitAlert(r) /\ DOMAIN alerts = Requests
  BY DEF IInv, Variables, AlertBlocked
<1>2. /\ alerts'[r] \in Seq(Alerts)
      /\ \A alert \in ToSet(alerts'[r]) : Explains(alert, r)
      /\ DOMAIN alerts' = Requests
      /\ \A q \in Requests \ {r} : alerts'[q] = alerts[q]
  BY <1>1, EmitAlertFacts
<1>3. /\ pc' = [pc EXCEPT ![r] = "blocked"] /\ notice' = [notice EXCEPT ![r] = "spawned"]
      /\ UNCHANGED <<policies, zeroRetention, edits, local, embedded, sent, shown, logs, unlogged>>
  BY DEF AlertBlocked, NotifyAlert, Goto, orgVars, outsideVars
<1>4. Variables' /\ \A q \in Requests \ {r} : Same(q)
  BY <1>2, <1>3 DEF IInv, Variables, Same
<1>5. pc'[r] = "blocked" /\ notice'[r] = "spawned"
  BY <1>3 DEF IInv, Variables
<1>6. Shape(r)'
  BY <1>1, <1>2, <1>3, <1>5 DEF Good, Shape
<1>7. Phase(r)'
  BY <1>1, <1>3, <1>5 DEF Good, Phase, BeforeScan, BeforeModel, AfterModel, OfBlocked
<1>8. Outcome(r)'
  <2>1. Clean(r)' <=> Clean(r)
    BY <1>3 DEF Clean, Sensitive
  <2> QED
    BY <1>1, <1>2, <1>3, <1>5, <2>1 DEF Good, Outcome, Tells, Explains, Sensitive
<1> QED
  BY <1>4, <1>6, <1>7, <1>8, OneStep DEF Good

-----------------------------------------------------------------------------
(* Retrieval and the model.                                                *)

LEMMA EmbedIInv == ASSUME IInv, NEW r \in Requests, Embed(r) PROVE IInv'
<1> DEFINE query == Query(local[r].msgs)
<1>1. Good(r) /\ pc[r] = "embed" /\ local[r] \in Locals /\ Clean(r)
  BY DEF IInv, Embed, Good, Shape, Phase, BeforeModel
<1>2. Variables' /\ \A q \in Requests \ {r} : Same(q)
  BY DEF IInv, Variables, Embed, Goto, Same, orgVars, recordVars
<1>3. /\ pc'[r] \in {"retrieve", "model"}
      /\ embedded'[r] = Append(embedded[r], query)
      /\ UNCHANGED <<local, sent, shown, logs, alerts, notice, unlogged>>
  BY DEF IInv, Variables, Embed, Goto, recordVars
<1>4. query \in Texts /\ ~ Sensitive(r, query)
  <2>1. local[r].msgs \in Seq(Messages) /\ UserTurns(local[r].msgs) # {}
    BY <1>1 DEF Good, Phase, Locals
  <2>2. PICK i \in DOMAIN local[r].msgs : local[r].msgs[i].role = "user" /\ query = local[r].msgs[i].text
    BY <2>1, QueryIsUsers
  <2>3. local[r].msgs[i] \in Messages /\ local[r].msgs[i].from = "client"
    BY <1>1, <2>1 DEF Good, Phase
  <2> QED
    BY <1>1, <2>2, <2>3 DEF Clean, Checked, Messages
<1> HIDE DEF query
<1>5. /\ embedded'[r] \in Seq(Texts)
      /\ \A text \in ToSet(embedded'[r]) : text \in ToSet(embedded[r]) \/ text = query
  BY <1>1, <1>3, <1>4, OneMore DEF Good, Shape
<1>6. \A text \in ToSet(embedded'[r]) : ~ Sensitive(r, text)
  <2>1. \A text \in ToSet(embedded[r]) : ~ Sensitive(r, text)
    BY <1>1 DEF Good, Outcome, ToSet
  <2> QED
    BY <1>4, <1>5, <2>1
<1>7. Clean(r)' /\ \A text : Sensitive(r, text)' <=> Sensitive(r, text)
  BY <1>1, <1>3 DEF Clean, Sensitive
<1>8. Shape(r)'
  BY <1>1, <1>3, <1>5 DEF Good, Shape
<1>9. Phase(r)'
  BY <1>1, <1>3, <1>7 DEF Good, Phase, BeforeScan, BeforeModel, AfterModel, OfBlocked
<1>10. Outcome(r)'
  BY <1>1, <1>3, <1>6, <1>7 DEF Good, Outcome, Tells, Explains
<1> QED
  BY <1>2, <1>8, <1>9, <1>10, OneStep DEF Good

LEMMA RetrieveIInv == ASSUME IInv, NEW r \in Requests, Retrieve(r) PROVE IInv'
<1> DEFINE msgs == local[r].msgs
<1>1. /\ Good(r) /\ pc[r] = "retrieve" /\ local[r] \in Locals /\ Clean(r)
      /\ PromptWithin(local[r].snapshot, msgs) /\ \A i \in DOMAIN msgs : msgs[i].from = "client"
      /\ msgs \in Seq(Messages) /\ msgs # <<>>
  BY DEF IInv, Retrieve, Good, Shape, Phase, BeforeModel, Locals
<1>2. Variables' /\ \A q \in Requests \ {r} : Same(q)
  BY DEF IInv, Variables, Retrieve, Goto, Same, orgVars, outsideVars, recordVars
<1>3. /\ pc'[r] = "model"
      /\ UNCHANGED <<embedded, sent, shown, logs, alerts, notice, unlogged>>
  BY DEF IInv, Variables, Retrieve, Goto, outsideVars, recordVars
<1> DEFINE ContextAdded ==
      /\ local'[r] \in Locals /\ local'[r].pol = local[r].pol /\ local'[r].reply = local[r].reply
      /\ local'[r].redactions = local[r].redactions /\ local'[r].zero = local[r].zero
      /\ PromptWithin(local'[r].snapshot, local'[r].msgs) /\ Clean(r)'
<1>4. ContextAdded
  <2>1. CASE UNCHANGED local
    BY <1>1, <2>1 DEF Clean, Sensitive
  <2>2. ASSUME NEW chunks \in Replies,
               local' = [local EXCEPT ![r].msgs = <<Message("system", "kb", chunks)>> \o @]
        PROVE  ContextAdded
    <3> DEFINE m == Message("system", "kb", chunks)
               all == <<m>> \o msgs
    <3>1. m \in Messages /\ m.from = "kb"
      BY ChatAssumption DEF Message, Messages
    <3> HIDE DEF m
    <3>2. local'[r] = [local[r] EXCEPT !.msgs = all]
      BY <2>2 DEF IInv, Variables, m
    <3>3. all \in Seq(Messages) \ {<<>>} /\ PromptWithin(local[r].snapshot, all)
      BY <1>1, <3>1, ContextPrepended
    <3>4. /\ DOMAIN all = 1 .. Len(msgs) + 1 /\ all[1] = m
          /\ \A i \in 2 .. Len(msgs) + 1 : i - 1 \in DOMAIN msgs /\ all[i] = msgs[i - 1]
      BY <1>1, <3>1
    <3> HIDE DEF all
    <3>5. \A i \in DOMAIN all : all[i].from = "client" => \E j \in DOMAIN msgs : all[i] = msgs[j]
      <4>1. Len(msgs) \in Nat
        BY <1>1
      <4>2. \A i \in 1 .. Len(msgs) + 1 : i = 1 \/ i \in 2 .. Len(msgs) + 1
        BY <4>1
      <4> QED
        BY <3>1, <3>4, <4>2
    <3>6. /\ local'[r] \in Locals /\ local'[r].msgs = all /\ local'[r].pol = local[r].pol
          /\ local'[r].reply = local[r].reply /\ local'[r].snapshot = local[r].snapshot
          /\ local'[r].redactions = local[r].redactions /\ local'[r].zero = local[r].zero
      BY <1>1, <3>2, <3>3 DEF Locals
    <3>7. Clean(r)'
      BY <1>1, <3>5, <3>6 DEF Clean, Sensitive
    <3> QED
      BY <3>3, <3>6, <3>7
  <2>3. UNCHANGED local \/ \E chunks \in Replies :
          local' = [local EXCEPT ![r].msgs = <<Message("system", "kb", chunks)>> \o @]
    BY DEF Retrieve
  <2> HIDE DEF ContextAdded
  <2> QED
    BY <2>1, <2>2, <2>3, Zenon
<1>5. Shape(r)'
  BY <1>1, <1>3, <1>4 DEF Good, Shape
<1>6. Phase(r)'
  BY <1>1, <1>3, <1>4 DEF Good, Phase, BeforeScan, BeforeModel, AfterModel, OfBlocked
<1>7. Outcome(r)'
  <2>1. sent[r] = <<>> /\ logs[r] = <<>> /\ alerts[r] = <<>> /\ notice[r] = "none"
    BY <1>1 DEF Good, Phase, BeforeModel
  <2>2. \A text : Sensitive(r, text)' <=> Sensitive(r, text)
    BY <1>4 DEF Sensitive
  <2> QED
    BY <1>1, <1>3, <1>4, <2>1, <2>2 DEF Good, Outcome, ToSet
<1> QED
  BY <1>2, <1>5, <1>6, <1>7, OneStep DEF Good

LEMMA CallModelIInv == ASSUME IInv, NEW r \in Requests, CallModel(r) PROVE IInv'
<1>1. Good(r) /\ pc[r] = "model" /\ local[r] \in Locals
  BY DEF IInv, CallModel, Good, Shape
<1>2. Variables' /\ \A q \in Requests \ {r} : Same(q)
  BY DEF IInv, Variables, CallModel, Goto, Same, orgVars, recordVars
<1>3. /\ pc'[r] = "reply" /\ sent'[r] = local[r].msgs
      /\ UNCHANGED <<local, embedded, shown, logs, alerts, notice, unlogged>>
  BY DEF IInv, Variables, CallModel, Goto, recordVars
<1>4. Clean(r)' <=> Clean(r)
  BY <1>3 DEF Clean, Sensitive
<1>5. Shape(r)'
  BY <1>1, <1>3 DEF Good, Shape, Locals
<1>6. Phase(r)'
  BY <1>1, <1>3, <1>4 DEF Good, Phase, BeforeScan, BeforeModel, AfterModel, OfBlocked
<1>7. Outcome(r)'
  <2>1. logs[r] = <<>> /\ alerts[r] = <<>> /\ notice[r] = "none" /\ local[r].reply = Absent /\ Clean(r)
    BY <1>1 DEF Good, Phase, BeforeModel
  <2> QED
    BY <1>1, <1>3, <1>4, <2>1 DEF Good, Outcome, ToSet, Sensitive
<1> QED
  BY <1>2, <1>5, <1>6, <1>7, OneStep DEF Good

LEMMA ModelFailsIInv == ASSUME IInv, NEW r \in Requests, ModelFails(r) PROVE IInv'
<1>1. Good(r) /\ pc[r] = "reply"
  BY DEF IInv, ModelFails
<1>2. Variables' /\ \A q \in Requests \ {r} : Same(q)
  BY DEF IInv, Variables, ModelFails, Goto, Same, orgVars, outsideVars, recordVars
<1>3. /\ pc'[r] = "failed"
      /\ UNCHANGED <<local, embedded, sent, shown, logs, alerts, notice, unlogged>>
  BY DEF IInv, Variables, ModelFails, Goto, outsideVars, recordVars
<1>4. Clean(r)' <=> Clean(r)
  BY <1>3 DEF Clean, Sensitive
<1>5. Shape(r)'
  BY <1>1, <1>3 DEF Good, Shape
<1>6. Phase(r)'
  BY <1>1, <1>3, <1>4 DEF Good, Phase, BeforeScan, BeforeModel, AfterModel, OfBlocked
<1>7. Outcome(r)'
  BY <1>1, <1>3, <1>4 DEF Good, Outcome, Tells, Explains, Sensitive
<1> QED
  BY <1>2, <1>5, <1>6, <1>7, OneStep DEF Good

\* What Reply and ReplyStream have in common.
Takes(r, text, up, n) ==
  /\ pc[r] = "reply" /\ pc' = [pc EXCEPT ![r] = "log"]
  /\ DOMAIN local' = Requests /\ \A q \in Requests \ {r} : local'[q] = local[q]
  /\ local'[r] = [local[r] EXCEPT !.reply = Scanned(text, local[r].pol, up), !.redactions = n]
  /\ UNCHANGED <<orgVars, outsideVars, recordVars>>

\* A reply, whole or streamed, is masked before anyone has it.
LEMMA ReplyArrives ==
  ASSUME IInv, NEW r \in Requests, NEW text \in Replies, NEW up \in BOOLEAN,
         NEW n \in Nat, Takes(r, text, up, n)
  PROVE  IInv'
<1> USE DEF Takes
<1>1. Good(r) /\ local[r] \in Locals
  BY DEF IInv, Good, Shape
<1>2. Variables' /\ \A q \in Requests \ {r} : Same(q)
  BY DEF IInv, Variables, Same, orgVars, outsideVars, recordVars
<1>3. pc'[r] = "log" /\ UNCHANGED <<embedded, sent, shown, logs, alerts, notice, unlogged>>
  BY DEF IInv, Variables, outsideVars, recordVars
<1> DEFINE reply == Scanned(text, local[r].pol, up)
<1>4. reply \in Texts /\ ~ Sensitive(r, reply)
  <2>1. text \in Texts /\ local[r].pol \in Policies
    BY <1>1, ChatAssumption DEF Locals
  <2> QED
    BY <2>1, ScannedFacts DEF Sensitive
<1> HIDE DEF reply
<1>5. /\ local'[r] \in Locals /\ local'[r].msgs = local[r].msgs /\ local'[r].pol = local[r].pol
      /\ local'[r].snapshot = local[r].snapshot /\ local'[r].reply = reply
  BY <1>1, <1>4 DEF Locals, reply
<1>6. (Clean(r)' <=> Clean(r)) /\ \A t : Sensitive(r, t)' <=> Sensitive(r, t)
  BY <1>5 DEF Clean, Sensitive
<1>7. /\ logs[r] = <<>> /\ alerts[r] = <<>> /\ notice[r] = "none"
      /\ sent[r] = local[r].msgs /\ sent[r] # <<>> /\ Clean(r) /\ shown[r] = Absent
  BY <1>1 DEF Good, Phase, Outcome, AfterModel, Locals
<1>8. Shape(r)'
  BY <1>1, <1>3, <1>5 DEF Good, Shape
<1>9. Phase(r)'
  BY <1>1, <1>3, <1>5, <1>6 DEF Good, Phase, BeforeScan, BeforeModel, AfterModel, OfBlocked
<1>10. Outcome(r)'
  BY <1>1, <1>3, <1>4, <1>5, <1>6, <1>7 DEF Good, Outcome, ToSet
<1> QED
  BY <1>2, <1>8, <1>9, <1>10, OneStep DEF Good

LEMMA ReplyIInv ==
  ASSUME IInv, NEW r \in Requests, NEW text \in Replies, NEW up \in BOOLEAN,
         Reply(r, text, up) \/ ReplyStream(r, text)
  PROVE  IInv'
<1>1. pc[r] = "reply" /\ local[r] \in Locals /\ local[r].redactions \in Nat
  BY DEF IInv, Good, Shape, Locals, Reply, ReplyStream
<1>2. CASE Reply(r, text, up)
  <2> DEFINE n == local[r].redactions + IF Verdict(text, local[r].pol, up) = "none" THEN 0 ELSE 1
  <2>1. n \in Nat
    BY <1>1
  <2>2. local'[r] = [local[r] EXCEPT !.reply = Scanned(text, local[r].pol, up), !.redactions = n]
    BY <1>2 DEF Reply, IInv, Variables
  <2>3. /\ DOMAIN local' = Requests /\ \A q \in Requests \ {r} : local'[q] = local[q]
        /\ pc' = [pc EXCEPT ![r] = "log"] /\ UNCHANGED <<orgVars, outsideVars, recordVars>>
    BY <1>2 DEF Reply, Goto, IInv, Variables
  <2> HIDE DEF n
  <2>4. Takes(r, text, up, n)
    BY <1>1, <2>2, <2>3 DEF Takes
  <2> QED
    BY <2>1, <2>4, ReplyArrives
<1>3. CASE ReplyStream(r, text)
  <2>1. local'[r] = [local[r] EXCEPT !.reply = Scanned(text, local[r].pol, FALSE)]
    BY <1>3 DEF ReplyStream, Streamed, IInv, Variables
  <2>2. local'[r] = [local[r] EXCEPT !.reply = Scanned(text, local[r].pol, FALSE),
                                     !.redactions = local[r].redactions]
    BY <1>1, <2>1 DEF Locals
  <2>3. /\ DOMAIN local' = Requests /\ \A q \in Requests \ {r} : local'[q] = local[q]
        /\ pc' = [pc EXCEPT ![r] = "log"] /\ UNCHANGED <<orgVars, outsideVars, recordVars>>
    BY <1>3 DEF ReplyStream, Goto, IInv, Variables
  <2>4. Takes(r, text, FALSE, local[r].redactions)
    BY <1>1, <2>2, <2>3 DEF Takes
  <2> QED
    BY <1>1, <2>4, ReplyArrives
<1> QED
  BY <1>2, <1>3

-----------------------------------------------------------------------------
(* The end of an exchange.                                                 *)

LEMMA LogServedIInv == ASSUME IInv, NEW r \in Requests, LogServed(r) PROVE IInv'
<1>1. /\ Good(r) /\ pc[r] = "log" /\ LogUsage(r) /\ DOMAIN logs = Requests
      /\ local[r] \in Locals
  BY DEF IInv, Variables, LogServed, Good, Shape
<1>2. /\ logs'[r] \in Seq(Rows) /\ Len(logs'[r]) <= 1
      /\ \A row \in ToSet(logs'[r]) : Tells(row, r)
      /\ r \notin unlogged' => logs'[r] # <<>>
      /\ DOMAIN logs' = Requests
      /\ \A q \in Requests \ {r} : logs'[q] = logs[q] /\ (q \in unlogged' <=> q \in unlogged)
  BY <1>1, LogUsageFacts
<1>3. UNCHANGED <<policies, zeroRetention, edits, local, embedded, sent, alerts, notice>>
  BY DEF LogServed, orgVars
<1>4. \/ /\ pc' = [pc EXCEPT ![r] = "alertMasked"] /\ UNCHANGED shown /\ local[r].redactions > 0
      \/ pc' = [pc EXCEPT ![r] = "served"] /\ shown' = [shown EXCEPT ![r] = local[r].reply]
  BY DEF LogServed, Answer, Goto
<1>5. Variables' /\ \A q \in Requests \ {r} : Same(q)
  BY <1>2, <1>3, <1>4 DEF IInv, Variables, Same
<1>6. \/ pc'[r] = "alertMasked" /\ shown'[r] = shown[r] /\ local[r].redactions > 0
      \/ pc'[r] = "served" /\ shown'[r] = local[r].reply
  BY <1>4 DEF IInv, Variables
<1>7. (Clean(r)' <=> Clean(r)) /\ \A t : Sensitive(r, t)' <=> Sensitive(r, t)
  BY <1>3 DEF Clean, Sensitive
<1>8. Shape(r)'
  BY <1>1, <1>2, <1>3, <1>6 DEF Good, Shape, Locals
<1>9. Phase(r)'
  BY <1>1, <1>2, <1>3, <1>6, <1>7 DEF Good, Phase, BeforeScan, BeforeModel, AfterModel, OfBlocked
<1>10. Outcome(r)'
  <2>1. alerts[r] = <<>> /\ notice[r] = "none"
    BY <1>1 DEF Good, Phase
  <2>2. shown'[r] # Absent => shown'[r] = local[r].reply
    BY <1>1, <1>6 DEF Good, Outcome
  <2>3. \A row \in ToSet(logs'[r]) : Tells(row, r)'
    BY <1>2, <1>3 DEF Tells
  <2> QED
    BY <1>1, <1>2, <1>3, <1>6, <1>7, <2>1, <2>2, <2>3 DEF Good, Outcome, ToSet
<1> QED
  BY <1>5, <1>8, <1>9, <1>10, OneStep DEF Good

LEMMA AlertMaskedIInv == ASSUME IInv, NEW r \in Requests, AlertMasked(r) PROVE IInv'
<1>1. /\ Good(r) /\ pc[r] = "alertMasked" /\ EmitAlert(r) /\ DOMAIN alerts = Requests
      /\ local[r] \in Locals /\ local[r].redactions > 0
  BY DEF IInv, Variables, AlertMasked, Good, Shape, Phase
<1>2. /\ alerts'[r] \in Seq(Alerts)
      /\ \A alert \in ToSet(alerts'[r]) : Explains(alert, r)
      /\ DOMAIN alerts' = Requests
      /\ \A q \in Requests \ {r} : alerts'[q] = alerts[q]
  BY <1>1, EmitAlertFacts
<1>3. /\ pc' = [pc EXCEPT ![r] = "served"] /\ notice' = [notice EXCEPT ![r] = "spawned"]
      /\ shown' = [shown EXCEPT ![r] = local[r].reply]
      /\ UNCHANGED <<policies, zeroRetention, edits, local, embedded, sent, logs, unlogged>>
  BY DEF AlertMasked, NotifyAlert, Answer, Goto, orgVars
<1>4. Variables' /\ \A q \in Requests \ {r} : Same(q)
  BY <1>2, <1>3 DEF IInv, Variables, Same
<1>5. pc'[r] = "served" /\ notice'[r] = "spawned" /\ shown'[r] = local[r].reply
  BY <1>3 DEF IInv, Variables
<1>6. (Clean(r)' <=> Clean(r)) /\ \A t : Sensitive(r, t)' <=> Sensitive(r, t)
  BY <1>3 DEF Clean, Sensitive
<1>7. Shape(r)'
  BY <1>1, <1>2, <1>3, <1>5 DEF Good, Shape, Locals
<1>8. Phase(r)'
  BY <1>1, <1>3, <1>5, <1>6 DEF Good, Phase, BeforeScan, BeforeModel, AfterModel, OfBlocked
<1>9. Outcome(r)'
  BY <1>1, <1>2, <1>3, <1>5, <1>6 DEF Good, Outcome, Tells, Explains
<1> QED
  BY <1>4, <1>7, <1>8, <1>9, OneStep DEF Good

LEMMA DispatchIInv == ASSUME IInv, NEW r \in Requests, Dispatch(r) PROVE IInv'
<1>1. Good(r) /\ notice[r] = "spawned"
  BY DEF IInv, Dispatch
<1>2. Variables' /\ \A q \in Requests \ {r} : Same(q)
  BY DEF IInv, Variables, Dispatch, Same, orgVars, outsideVars
<1>3. notice'[r] = "over" /\ UNCHANGED <<pc, local, embedded, sent, shown, logs, alerts, unlogged>>
  BY DEF IInv, Variables, Dispatch, outsideVars
<1>4. (Clean(r)' <=> Clean(r)) /\ \A t : Sensitive(r, t)' <=> Sensitive(r, t)
  BY <1>3 DEF Clean, Sensitive
<1>5. Shape(r)'
  BY <1>1, <1>3 DEF Good, Shape
<1>6. Phase(r)'
  BY <1>1, <1>3, <1>4 DEF Good, Phase
<1>7. Outcome(r)'
  BY <1>1, <1>3, <1>4 DEF Good, Outcome, Tells, Explains
<1> QED
  BY <1>2, <1>5, <1>6, <1>7, OneStep DEF Good

\* A handler that is dropped may leave a row or an alert, true all the same.
LEMMA DisconnectIInv == ASSUME IInv, NEW r \in Requests, Disconnect(r) PROVE IInv'
<1>1. Good(r) /\ pc[r] # "idle" /\ pc[r] \notin {"blocked", "served", "dropped"}
  BY DEF IInv, Disconnect
<1>2. /\ pc' = [pc EXCEPT ![r] = "dropped"]
      /\ UNCHANGED <<policies, zeroRetention, edits, local, embedded, sent, shown, notice>>
  BY DEF Disconnect, Goto, orgVars, outsideVars
<1>3. DOMAIN logs = Requests /\ DOMAIN alerts = Requests
  BY DEF IInv, Variables
<1>4. /\ logs'[r] \in Seq(Rows) /\ Len(logs'[r]) <= 1
      /\ \A row \in ToSet(logs'[r]) : Tells(row, r)
      /\ DOMAIN logs' = Requests
      /\ \A q \in Requests \ {r} : logs'[q] = logs[q] /\ (q \in unlogged' <=> q \in unlogged)
      /\ logs' = logs \/ alerts' = alerts
  <2>1. CASE pc[r] \in {"logBlocked", "log"} /\ LogUsage(r) /\ UNCHANGED alerts
    BY <1>1, <1>3, <2>1, LogUsageFacts
  <2>2. CASE UNCHANGED <<logs, unlogged>>
    BY <1>1, <1>3, <2>2 DEF Good, Shape, Outcome
  <2> QED
    BY <2>1, <2>2 DEF Disconnect
<1>5. /\ alerts'[r] \in Seq(Alerts)
      /\ \A alert \in ToSet(alerts'[r]) : Explains(alert, r)
      /\ DOMAIN alerts' = Requests
      /\ \A q \in Requests \ {r} : alerts'[q] = alerts[q]
      /\ logs' = logs \/ alerts'[r] = <<>>
  <2>1. CASE pc[r] \in {"alertBlocked", "alertMasked"} /\ EmitAlert(r) /\ UNCHANGED <<logs, unlogged>>
    BY <1>1, <1>3, <2>1, EmitAlertFacts
  <2>2. CASE UNCHANGED alerts
    <3>1. alerts[r] = <<>> /\ alerts[r] \in Seq(Alerts)
      BY <1>1 DEF Good, Phase, Shape
    <3> QED
      BY <1>3, <2>2, <3>1 DEF ToSet
  <2> QED
    BY <2>1, <2>2 DEF Disconnect
<1>6. Variables' /\ \A q \in Requests \ {r} : Same(q)
  BY <1>2, <1>4, <1>5 DEF IInv, Variables, Same
<1>7. pc'[r] = "dropped"
  BY <1>2 DEF IInv, Variables
<1>8. (Clean(r)' <=> Clean(r)) /\ \A t : Sensitive(r, t)' <=> Sensitive(r, t)
  BY <1>2 DEF Clean, Sensitive
<1>9. Shape(r)'
  BY <1>1, <1>2, <1>4, <1>5, <1>7 DEF Good, Shape
<1>10. Phase(r)'
  BY <1>1, <1>2, <1>7 DEF Good, Phase, BeforeScan, BeforeModel, AfterModel, OfBlocked
<1>11. Outcome(r)'
  <2>1. \A row \in ToSet(logs'[r]) : Tells(row, r)'
    BY <1>2, <1>4 DEF Tells
  <2>2. \A alert \in ToSet(alerts'[r]) : Explains(alert, r)'
    BY <1>2, <1>5 DEF Explains, ToSet
  <2>3. notice[r] = "none"
    BY <1>1 DEF Good, Phase
  <2> QED
    BY <1>1, <1>2, <1>4, <1>7, <1>8, <2>1, <2>2, <2>3 DEF Good, Outcome
<1> QED
  BY <1>6, <1>9, <1>10, <1>11, OneStep DEF Good

-----------------------------------------------------------------------------
(* The theorems.                                                           *)

\* An edit, or nothing, is a step of no request: a handler has its own copy of
\* what it loaded.
LEMMA EditsIInv ==
  ASSUME IInv,
         \/ \E rows \in PolicySets : EditPolicies(rows)
         \/ EditRetention
         \/ UNCHANGED vars
  PROVE  IInv'
<1>1. UNCHANGED <<pc, local, embedded, sent, shown, logs, alerts, notice, unlogged>>
  BY DEF EditPolicies, EditRetention, vars, outsideVars, recordVars
<1>2. policies' \in PolicySets /\ zeroRetention' \in BOOLEAN
  BY DEF EditPolicies, EditRetention, vars, orgVars, IInv, Variables
<1>3. Variables' /\ \A q \in Requests : Same(q)
  BY <1>1, <1>2 DEF IInv, Variables, Same
<1>4. \A q \in Requests : Good(q)'
  BY <1>3, SameGood DEF IInv
<1> QED
  BY <1>3, <1>4 DEF IInv

LEMMA InitIInv == Init => IInv
<1> SUFFICES ASSUME Init PROVE IInv
  OBVIOUS
<1>1. Variables
  BY DEF Init, Variables
<1>2. ASSUME NEW r \in Requests PROVE Good(r)
  <2>1. /\ pc[r] = "idle" /\ sent[r] = <<>> /\ embedded[r] = <<>> /\ shown[r] = Absent
        /\ logs[r] = <<>> /\ alerts[r] = <<>> /\ notice[r] = "none"
    BY DEF Init
  <2>2. Shape(r)
    BY <2>1 DEF Shape
  <2>3. Phase(r)
    BY <2>1 DEF Phase, BeforeScan, BeforeModel, AfterModel, OfBlocked
  <2>4. Outcome(r)
    BY <2>1 DEF Outcome, ToSet
  <2> QED
    BY <2>2, <2>3, <2>4 DEF Good
<1> QED
  BY <1>1, <1>2 DEF IInv

\* The invariant holds of every behaviour: one case per action.
THEOREM Invariance == Spec => []IInv
<1>1. IInv /\ [Next]_vars => IInv'
  <2> SUFFICES ASSUME IInv, [Next]_vars PROVE IInv'
    OBVIOUS
  <2>1. ASSUME NEW r \in Requests, Handle(r) PROVE IInv'
    BY <2>1, LoadPoliciesIInv, ScanPassesIInv, ScanBlocksIInv, LogBlockedIInv, AlertBlockedIInv,
       EmbedIInv, RetrieveIInv, CallModelIInv, LogServedIInv, AlertMaskedIInv DEF Handle
  <2>2. ASSUME NEW r \in Requests, NEW prompt \in Prompts, Enter(r, prompt) PROVE IInv'
    BY <2>2, EnterIInv
  <2>3. ASSUME NEW r \in Requests, NEW text \in Replies, NEW up \in BOOLEAN, Reply(r, text, up) PROVE IInv'
    BY <2>3, ReplyIInv
  <2>4. ASSUME NEW r \in Requests, NEW text \in Replies, ReplyStream(r, text) PROVE IInv'
    <3>1. TRUE \in BOOLEAN
      OBVIOUS
    <3> QED
      BY <2>4, <3>1, ReplyIInv
  <2>5. ASSUME NEW r \in Requests, ModelFails(r) \/ Dispatch(r) \/ Disconnect(r) PROVE IInv'
    BY <2>5, ModelFailsIInv, DispatchIInv, DisconnectIInv
  <2> QED
    BY <2>1, <2>2, <2>3, <2>4, <2>5, EditsIInv DEF Next
<1> QED
  BY InitIInv, <1>1, PTL DEF Spec

\* A text of a row's prompt is that of the message the model got at its place, and
\* the scan left no text of the client's user and system messages sensitive.
LEMMA PromptIsClean ==
  ASSUME NEW r \in Requests, Good(r), NEW row \in ToSet(logs[r]), NEW i \in DOMAIN row.prompt,
         Spoken(r, row.prompt, i).role \in {"user", "system"}
  PROVE  ~ Sensitive(r, row.prompt[i])
<1>1. Tells(row, r)
  BY DEF Good, Outcome
<1>2. ~ row.blocked /\ ~ local[r].zero
  BY <1>1 DEF Tells, Absent
<1>3. PromptWithin(row.prompt, sent[r]) /\ sent[r] # <<>> /\ sent[r] \in Seq(Messages)
  BY <1>1, <1>2 DEF Tells, Good, Shape
<1>4. sent[r] = local[r].msgs /\ Clean(r)
  BY <1>3 DEF Good, Outcome
<1> DEFINE msgs == sent[r]
<1>5. PICK context \in 0 .. 1 :
        /\ row.prompt = TextsOf(SubSeq(msgs, context + 1, Len(msgs)))
        /\ \A j \in DOMAIN msgs : msgs[j].from = "client" <=> j > context
  BY <1>3 DEF PromptWithin
<1> DEFINE part == SubSeq(msgs, context + 1, Len(msgs))
<1>6. /\ Len(msgs) \in Nat /\ Len(msgs) >= 1 /\ DOMAIN msgs = 1 .. Len(msgs)
      /\ Len(part) = Len(msgs) - context /\ DOMAIN part = 1 .. Len(msgs) - context
      /\ \A j \in 1 .. Len(msgs) - context : part[j] = msgs[context + j]
  BY <1>3, <1>5
<1>7. /\ DOMAIN row.prompt = 1 .. Len(msgs) - context
      /\ \A j \in 1 .. Len(msgs) - context : row.prompt[j] = msgs[context + j].text
  BY <1>5, <1>6 DEF TextsOf
<1>8. Len(row.prompt) = Len(msgs) - context
  <2>1. Len(msgs) - context \in Nat
    BY <1>5, <1>6
  <2>2. row.prompt \in Seq(Texts)
    <3>1. logs[r] \in Seq(Rows)
      BY DEF Good, Shape
    <3>2. row \in Rows
      BY <3>1 DEF ToSet
    <3> QED
      BY <3>2 DEF Rows
  <2> HIDE DEF msgs, part
  <2> QED
    BY <1>7, <2>1, <2>2
<1>9. i \in Nat /\ i >= 1 /\ context + i \in DOMAIN msgs /\ context + i > context
      /\ Len(msgs) - Len(row.prompt) + i = context + i
  <2>1. i \in 1 .. Len(msgs) - context
    BY <1>7
  <2> HIDE DEF msgs, part
  <2> QED
    BY <1>6, <1>8, <2>1
<1>10. msgs[context + i].from = "client" /\ Checked(msgs[context + i])
  BY <1>5, <1>9 DEF Spoken, Checked
<1>11. ~ Sensitive(r, msgs[context + i].text)
  BY <1>4, <1>9, <1>10 DEF Clean
<1> QED
  BY <1>7, <1>9, <1>11

\* Whatever a redact policy matches in a client's user and system texts or in the
\* model's reply is masked before the model, the embeddings endpoint, the client
\* or the audit row gets it (chat_completions of main.rs).
THEOREM OutsideIsMasked == Spec => []MaskedOutside
<1>1. IInv => MaskedOutside
  <2> SUFFICES ASSUME IInv, NEW r \in Requests
      PROVE /\ \A m \in ToSet(sent[r]) :
                  m.from = "client" /\ m.role \in {"user", "system"} => ~ Sensitive(r, m.text)
            /\ \A text \in ToSet(embedded[r]) : ~ Sensitive(r, text)
            /\ shown[r] # Absent => ~ Sensitive(r, shown[r])
            /\ \A row \in ToSet(logs[r]) :
                 /\ \A i \in DOMAIN row.prompt :
                      Spoken(r, row.prompt, i).role \in {"user", "system"} =>
                        ~ Sensitive(r, row.prompt[i])
                 /\ row.response # Absent => ~ Sensitive(r, row.response)
    BY DEF MaskedOutside
  <2>1. Good(r)
    BY DEF IInv
  <2>2. \A m \in ToSet(sent[r]) :
          m.from = "client" /\ m.role \in {"user", "system"} => ~ Sensitive(r, m.text)
    BY <2>1 DEF Good, Outcome, Clean, Checked, ToSet
  <2>3. \A text \in ToSet(embedded[r]) : ~ Sensitive(r, text)
    BY <2>1 DEF Good, Outcome, ToSet
  <2>4. pc[r] = "idle" => shown[r] = Absent /\ logs[r] = <<>>
    BY <2>1 DEF Good, Phase
  <2>5. shown[r] # Absent => ~ Sensitive(r, shown[r])
    BY <2>1, <2>4 DEF Good, Outcome
  <2>6. \A row \in ToSet(logs[r]) : row.response # Absent => ~ Sensitive(r, row.response)
    BY <2>1, <2>4 DEF Good, Outcome, Tells, ToSet
  <2>7. ASSUME NEW row \in ToSet(logs[r]), NEW i \in DOMAIN row.prompt,
               Spoken(r, row.prompt, i).role \in {"user", "system"}
        PROVE  ~ Sensitive(r, row.prompt[i])
    BY <2>1, <2>7, PromptIsClean
  <2> QED
    BY <2>2, <2>3, <2>5, <2>6, <2>7
<1> QED
  BY Invariance, <1>1, PTL

\* A prompt with a blocked text is neither sent, embedded nor stored, also when
\* an earlier message passed the scan (main.rs:132-157).
THEOREM BlockedStaysInside == Spec => []BlockedGoesNowhere
<1>1. IInv => BlockedGoesNowhere
  <2> SUFFICES ASSUME IInv, NEW r \in Requests, local[r] # Absent, pc[r] \notin {"policies", "scan"},
                      NEW m \in ToSet(local[r].msgs),
                      m.from = "client", m.role \in {"user", "system"},
                      m.text.kind = "pii", local[r].pol.action = "block"
      PROVE /\ sent[r] = <<>> /\ embedded[r] = <<>> /\ shown[r] = Absent
            /\ \A row \in ToSet(logs[r]) :
                 row.blocked /\ row.prompt = Absent /\ row.response = Absent
    BY DEF BlockedGoesNowhere
  <2>1. Good(r)
    BY DEF IInv
  <2>2. ~ Clean(r)
    BY DEF Clean, Checked, ToSet
  <2>3. sent[r] = <<>> /\ embedded[r] = <<>>
    BY <2>1, <2>2 DEF Good, Outcome
  <2>4. shown[r] = Absent
    BY <2>1, <2>3 DEF Good, Phase, Outcome
  <2>5. \A row \in ToSet(logs[r]) : row.blocked /\ row.prompt = Absent /\ row.response = Absent
    BY <2>1, <2>3 DEF Good, Outcome, Tells
  <2> QED
    BY <2>3, <2>4, <2>5
<1> QED
  BY Invariance, <1>1, PTL

\* The audit trail has a row, and one only, of each answered request it did not
\* fail to insert, and the row is what happened (log_usage of main.rs).
THEOREM AuditIsTrue == Spec => []AuditMatchesExchange
<1>1. IInv => AuditMatchesExchange
  <2> SUFFICES ASSUME IInv, NEW r \in Requests
      PROVE /\ pc[r] \in {"blocked", "served"} /\ r \notin unlogged => logs[r] # <<>>
            /\ Len(logs[r]) <= 1
            /\ \A row \in ToSet(logs[r]) :
                 /\ row.blocked <=> sent[r] = <<>>
                 /\ local[r].zero => row.prompt = Absent /\ row.response = Absent
                 /\ ~ row.blocked /\ ~ local[r].zero => PromptWithin(row.prompt, sent[r])
                 /\ row.response # Absent /\ shown[r] # Absent => row.response = shown[r]
    BY DEF AuditMatchesExchange
  <2>1. Good(r)
    BY DEF IInv
  <2> QED
    BY <2>1 DEF Good, Phase, Outcome, Tells
<1> QED
  BY Invariance, <1>1, PTL

\* Alerts are of what happened, and link the row of a blocked request or none.
THEOREM AlertsAreDue == Spec => []AlertsExplained
<1>1. IInv => AlertsExplained
  BY DEF IInv, Good, Outcome, Explains, AlertsExplained
<1> QED
  BY Invariance, <1>1, PTL
=============================================================================
