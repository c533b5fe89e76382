---------------------------- MODULE ChatPipeline ----------------------------
(***************************************************************************)
(* The gateway's handler (services/gateway/src/main.rs, chat_completions): *)
(* policies are loaded, the prompt scanned, context retrieved, the model   *)
(* called, its reply scanned, the call logged and alerted on. Requests     *)
(* interleave at the handler's awaits with each other and with an admin    *)
(* who edits the organisation. Any call may fail and a client may leave at *)
(* any await.                                                              *)
(*                                                                         *)
(* A text is a kind and whether its sensitive span is masked: "plain" has  *)
(* none, "pii" one the regex detectors know, "name" one only the NER       *)
(* sidecar knows. DlpEngine models the scan itself, StreamDlp the masking  *)
(* of a stream, QuotaGate what comes before the handler.                   *)
(***************************************************************************)
EXTENDS Naturals, Sequences, SequencesExt, FiniteSets

CONSTANTS
  Requests,     \* requests past the gate
  Prompts,      \* what clients send: messages, and is the reply streamed?
  Replies,      \* texts the model may answer and the knowledge base may hold
  PolicySets,   \* an organisation's policies, resolved
  MaxEdits      \* bound on the admin's edits

VARIABLES
  policies, zeroRetention, edits,  \* the organisation's rows and the edits made
  pc,        \* request -> the await it is at, or how it ended
  local,     \* request -> the handler's variables
  embedded,  \* request -> the texts the embeddings endpoint got
  sent,      \* request -> the messages the model got
  shown,     \* request -> the reply the client got
  logs,      \* request -> its rows in usage_logs
  alerts,    \* request -> its rows in risk_alerts
  notice,    \* request -> has the webhook task been spawned, has it ended?
  unlogged   \* ghost: the requests that did not learn the id of their row

orgVars == <<policies, zeroRetention, edits>>
outsideVars == <<embedded, sent, shown>>
recordVars == <<logs, alerts, notice, unlogged>>
vars == <<orgVars, pc, local, outsideVars, recordVars>>

-----------------------------------------------------------------------------
(* Texts, messages and policies.                                           *)

Text(kind, masked) == [kind |-> kind, masked |-> masked]
Message(role, from, text) == [role |-> role, from |-> from, text |-> text]
Absent == <<>>                                  \* NULL, or nothing yet
Texts == [kind : {"plain", "pii", "name"}, masked : BOOLEAN]
Messages ==
  [role : {"system", "user", "assistant"}, from : {"client", "kb"}, text : Texts]
Policies == [action : {"none", "flag", "redact", "block"}, deep : BOOLEAN, rag : BOOLEAN]

\* A client's text is not masked: a masked one is plain. A prompt without any
\* message is left out: `sent` could not tell it from no call to the model.
FromClient == {m \in Messages : m.from = "client" /\ ~ m.text.masked}

ASSUME ChatAssumption ==
  /\ Prompts \subseteq [msgs : Seq(FromClient) \ {<<>>}, stream : BOOLEAN]
  /\ Replies \subseteq Texts
  /\ PolicySets \subseteq Policies

NoPolicies == [action |-> "none", deep |-> FALSE, rag |-> FALSE]

\* What scan_deep makes of a text: the action of the policy that matches it.
\* `up` says whether the sidecar answers.
Verdict(text, pol, up) ==
  CASE text.masked -> "none"
    [] ~ text.masked /\ text.kind = "pii" -> pol.action
    [] ~ text.masked /\ text.kind = "name" /\ pol.deep /\ up -> "redact"
    [] OTHER -> "none"

Scanned(text, pol, up) ==
  IF Verdict(text, pol, up) = "redact" THEN [text EXCEPT !.masked = TRUE] ELSE text

\* A stream is scanned without the sidecar, when some policy redacts.
Streamed(text, pol) == Scanned(text, pol, FALSE)

-----------------------------------------------------------------------------
(* The inbound scan: user and system messages in order, until one blocks.  *)

Checked(m) == m.role \in {"user", "system"}

BlocksLastOnly(r, i, up) ==
  /\ \A j \in DOMAIN local[r].msgs : j > i => ~ Checked(local[r].msgs[j])
  /\ Checked(local[r].msgs[i])
  /\ Verdict(local[r].msgs[i].text, local[r].pol, up[i]) = "block"
Blocks(r, i, up) ==
  /\ Checked(local[r].msgs[i])
  /\ Verdict(local[r].msgs[i].text, local[r].pol, up[i]) = "block"

MaskedMsgs(r, up) ==
  LET msgs == local[r].msgs IN
  [i \in DOMAIN msgs |->
     IF Checked(msgs[i])
     THEN [msgs[i] EXCEPT !.text = Scanned(@, local[r].pol, up[i])] ELSE msgs[i]]

Found(r, up) ==
  Cardinality({i \in DOMAIN local[r].msgs :
     /\ Checked(local[r].msgs[i])
     /\ Verdict(local[r].msgs[i].text, local[r].pol, up[i]) # "none"})

TextsOf(msgs) == [i \in DOMAIN msgs |-> msgs[i].text]

\* The prompt the audit row will hold, taken after the scan.
SnapshotBefore(r, up) == TextsOf(local[r].msgs)
SnapshotOf(r, up) == TextsOf(MaskedMsgs(r, up))

\* The text embedded for retrieval: the latest user message.
UserTurns(msgs) == {i \in DOMAIN msgs : msgs[i].role = "user"}
Query(msgs) == msgs[Max(UserTurns(msgs))].text

-----------------------------------------------------------------------------
Init ==
  /\ policies \in PolicySets
  /\ zeroRetention \in BOOLEAN
  /\ edits = 0
  /\ pc = [r \in Requests |-> "idle"]
  /\ local = [r \in Requests |-> Absent]
  /\ embedded = [r \in Requests |-> <<>>]
  /\ sent = [r \in Requests |-> <<>>]
  /\ shown = [r \in Requests |-> Absent]
  /\ logs = [r \in Requests |-> <<>>]
  /\ alerts = [r \in Requests |-> <<>>]
  /\ notice = [r \in Requests |-> "none"]
  /\ unlogged = {}

Goto(r, step) == pc' = [pc EXCEPT ![r] = step]

\* The gate lets the request in; the retention setting is the one it read.
Enter(r, prompt) ==
  /\ pc[r] = "idle"
  /\ Goto(r, "policies")
  /\ local' = [local EXCEPT ![r] =
       [msgs |-> prompt.msgs, stream |-> prompt.stream, zero |-> zeroRetention,
        pol |-> NoPolicies, redactions |-> 0, snapshot |-> Absent,
        reply |-> Absent]]
  /\ UNCHANGED <<orgVars, outsideVars, recordVars>>

\* load_policies: a query that fails resolves to no policies at all.
LoadPolicies(r) ==
  /\ pc[r] = "policies"
  /\ \E rows \in {policies, NoPolicies} : local' = [local EXCEPT ![r].pol = rows]
  /\ Goto(r, "scan")
  /\ UNCHANGED <<orgVars, outsideVars, recordVars>>

AfterScan(r) ==
  IF local[r].pol.rag /\ UserTurns(local[r].msgs) # {} THEN "embed" ELSE "model"

ScanPasses(r) ==
  /\ pc[r] = "scan"
  /\ \E up \in [DOMAIN local[r].msgs -> BOOLEAN] :
       /\ \A i \in DOMAIN local[r].msgs : ~ Blocks(r, i, up)
       /\ local' = [local EXCEPT ![r].msgs = MaskedMsgs(r, up),
                                 ![r].redactions = Found(r, up),
                                 ![r].snapshot = SnapshotOf(r, up)]
  /\ Goto(r, AfterScan(r))
  /\ UNCHANGED <<orgVars, outsideVars, recordVars>>

\* The row counts the findings of the message that blocks.
ScanBlocks(r) ==
  /\ pc[r] = "scan"
  /\ \E i \in DOMAIN local[r].msgs, up \in [DOMAIN local[r].msgs -> BOOLEAN] :
       Blocks(r, i, up)
  /\ local' = [local EXCEPT ![r].redactions = 1]
  /\ Goto(r, "logBlocked")
  /\ UNCHANGED <<orgVars, outsideVars, recordVars>>

-----------------------------------------------------------------------------
(* Rows and alerts: an INSERT that fails is ignored, and so is one whose   *)
(* answer is lost although it stored the row.                              *)

Kept(r, body) == IF local[r].zero THEN Absent ELSE body

Row(r, blocked, prompt, response) ==
  [blocked |-> blocked, redactions |-> local[r].redactions,
   prompt |-> prompt, response |-> response]
ReplyBody(r) == IF local[r].stream THEN Absent ELSE Kept(r, local[r].reply)

BlockedRow(r) == Row(r, TRUE, Absent, Absent)
ServedRowOfMsgs(r) == Row(r, FALSE, Kept(r, TextsOf(local[r].msgs)), ReplyBody(r))
ServedRow(r) == Row(r, FALSE, Kept(r, local[r].snapshot), ReplyBody(r))

RowOfServed(r) == ServedRow(r)
RowOf(r) == IF pc[r] = "logBlocked" THEN BlockedRow(r) ELSE ServedRow(r)

AppendRow(r) == logs' = [logs EXCEPT ![r] = Append(@, RowOf(r))]
InsertRow(r) == AppendRow(r) /\ UNCHANGED unlogged
LoseRow(r) == unlogged' = unlogged \cup {r} /\ (AppendRow(r) \/ UNCHANGED logs)
LogUsage(r) == InsertRow(r) \/ LoseRow(r)

\* The alert of a blocked request links the row whose id log_usage returned, the
\* one of redactions links none.
AlertOfLastRow(r) ==
  [severity |-> IF pc[r] = "alertBlocked" THEN "high" ELSE "medium",
   row |-> IF logs[r] = <<>> THEN Absent ELSE Last(logs[r])]
AlertOf(r) ==
  IF pc[r] = "alertBlocked"
  THEN [severity |-> "high", row |-> IF r \in unlogged THEN Absent ELSE Last(logs[r])]
  ELSE [severity |-> "medium", row |-> Absent]

EmitAlert(r) ==
  \/ alerts' = [alerts EXCEPT ![r] = Append(@, AlertOf(r))]
  \/ UNCHANGED alerts

NotifyNothing(r) == UNCHANGED notice
NotifyAlert(r) == notice' = [notice EXCEPT ![r] = "spawned"]

LogBlocked(r) ==
  /\ pc[r] = "logBlocked"
  /\ LogUsage(r)
  /\ Goto(r, "alertBlocked")
  /\ UNCHANGED <<orgVars, local, outsideVars, alerts, notice>>

AlertBlocked(r) ==
  /\ pc[r] = "alertBlocked"
  /\ EmitAlert(r)
  /\ NotifyAlert(r)
  /\ Goto(r, "blocked")
  /\ UNCHANGED <<orgVars, local, outsideVars, logs, unlogged>>

-----------------------------------------------------------------------------
(* Retrieval: an error injects nothing.                                    *)

Embed(r) ==
  /\ pc[r] = "embed"
  /\ embedded' = [embedded EXCEPT ![r] = Append(@, Query(local[r].msgs))]
  /\ \E next \in {"retrieve", "model"} : Goto(r, next)
  /\ UNCHANGED <<orgVars, local, sent, shown, recordVars>>

\* The chunks found, if any, become the first message, as they were ingested.
Retrieve(r) ==
  /\ pc[r] = "retrieve"
  /\ \/ \E chunks \in Replies :
          local' = [local EXCEPT ![r].msgs = <<Message("system", "kb", chunks)>> \o @]
     \/ UNCHANGED local
  /\ Goto(r, "model")
  /\ UNCHANGED <<orgVars, outsideVars, recordVars>>

-----------------------------------------------------------------------------
(* The model.                                                              *)

CallModel(r) ==
  /\ pc[r] = "model"
  /\ sent' = [sent EXCEPT ![r] = local[r].msgs]
  /\ Goto(r, "reply")
  /\ UNCHANGED <<orgVars, local, embedded, shown, recordVars>>

\* `?` returns before anything is logged.
ModelFails(r) ==
  /\ pc[r] = "reply"
  /\ Goto(r, "failed")
  /\ UNCHANGED <<orgVars, local, outsideVars, recordVars>>

\* A whole reply is scanned; a block verdict on it changes nothing.
Reply(r, text, up) ==
  /\ pc[r] = "reply"
  /\ ~ local[r].stream
  /\ local' = [local EXCEPT
       ![r].reply = Scanned(text, local[r].pol, up),
       ![r].redactions = @ + IF Verdict(text, local[r].pol, up) = "none" THEN 0 ELSE 1]
  /\ Goto(r, "log")
  /\ UNCHANGED <<orgVars, outsideVars, recordVars>>

\* A stream is opened; its text goes through redact_sse after the handler ends.
ReplyStream(r, text) ==
  /\ pc[r] = "reply"
  /\ local[r].stream
  /\ local' = [local EXCEPT ![r].reply = Streamed(text, local[r].pol)]
  /\ Goto(r, "log")
  /\ UNCHANGED <<orgVars, outsideVars, recordVars>>

Answer(r) ==
  /\ shown' = [shown EXCEPT ![r] = local[r].reply]
  /\ Goto(r, "served")

LogServed(r) ==
  /\ pc[r] = "log"
  /\ LogUsage(r)
  /\ IF ~ local[r].stream /\ local[r].redactions > 0
     THEN Goto(r, "alertMasked") /\ UNCHANGED shown
     ELSE Answer(r)
  /\ UNCHANGED <<orgVars, local, embedded, sent, alerts, notice>>

AlertMasked(r) ==
  /\ pc[r] = "alertMasked"
  /\ EmitAlert(r)
  /\ NotifyAlert(r)
  /\ Answer(r)
  /\ UNCHANGED <<orgVars, local, embedded, sent, logs, unlogged>>

\* The spawned task posts to the installed integrations, whatever they answer.
Dispatch(r) ==
  /\ notice[r] = "spawned"
  /\ notice' = [notice EXCEPT ![r] = "over"]
  /\ UNCHANGED <<orgVars, pc, local, outsideVars, logs, alerts, unlogged>>

-----------------------------------------------------------------------------
(* The client leaves: the handler is dropped at its await. A row or alert  *)
(* on its way may still be inserted, a call to the model still be made.    *)

Disconnect(r) ==
  /\ \/ pc[r] \in {"policies", "scan", "embed", "retrieve", "model", "reply"}
        /\ UNCHANGED <<logs, alerts, unlogged>>
     \/ pc[r] \in {"logBlocked", "log"} /\ LogUsage(r) /\ UNCHANGED alerts
     \/ pc[r] \in {"alertBlocked", "alertMasked"} /\ EmitAlert(r) /\ UNCHANGED <<logs, unlogged>>
  /\ Goto(r, "dropped")
  /\ UNCHANGED <<orgVars, local, outsideVars, notice>>

\* policies.rs and settings.rs, by an admin of the organisation.
Edited == edits < MaxEdits /\ edits' = edits + 1

EditPolicies(rows) ==
  /\ Edited
  /\ policies' = rows
  /\ UNCHANGED <<zeroRetention, pc, local, outsideVars, recordVars>>

EditRetention ==
  /\ Edited
  /\ zeroRetention' = ~ zeroRetention
  /\ UNCHANGED <<policies, pc, local, outsideVars, recordVars>>

\* The steps a running handler takes by itself: the sidecar answers within its
\* timeout, and each database or embeddings call answers or fails.
Handle(r) ==
  \/ LoadPolicies(r)
  \/ ScanPasses(r) \/ ScanBlocks(r)
  \/ LogBlocked(r) \/ AlertBlocked(r)
  \/ Embed(r) \/ Retrieve(r) \/ CallModel(r)
  \/ LogServed(r) \/ AlertMasked(r)

Next ==
  \/ \E r \in Requests :
       \/ \E prompt \in Prompts : Enter(r, prompt)
       \/ Handle(r)
       \/ \E text \in Replies, up \in BOOLEAN : Reply(r, text, up)
       \/ \E text \in Replies : ReplyStream(r, text)
       \/ ModelFails(r)
       \/ Dispatch(r)
       \/ Disconnect(r)
  \/ \E rows \in PolicySets : EditPolicies(rows)
  \/ EditRetention

\* The runtime polls a task whose await is ready. The call to the model has no
\* timeout (upstream.rs), so nothing is assumed of it.
Fairness == \A r \in Requests : WF_vars(Handle(r)) /\ WF_vars(Dispatch(r))

Spec == Init /\ [][Next]_vars /\ Fairness

-----------------------------------------------------------------------------
(* Properties.                                                             *)

\* The text a policy in force for the request wants masked.
Sensitive(r, text) ==
  text.kind = "pii" /\ ~ text.masked /\ local[r].pol.action = "redact"

\* The message that text i of a row's prompt is of: the retrieved context, sent
\* before the client's messages, is in no row.
Spoken(r, prompt, i) == sent[r][Len(sent[r]) - Len(prompt) + i]

\* Wherever a client's user and system texts go (the model, the embeddings
\* endpoint, the prompt of the audit row) and what comes back of the model's,
\* streamed or not, a redact policy has masked it: the stages after the scan use
\* its result, however the admin edits the policies meanwhile.
MaskedOutside ==
  \A r \in Requests :
    /\ \A m \in ToSet(sent[r]) :
         m.from = "client" /\ m.role \in {"user", "system"} => ~ Sensitive(r, m.text)
    /\ \A text \in ToSet(embedded[r]) : ~ Sensitive(r, text)
    /\ shown[r] # Absent => ~ Sensitive(r, shown[r])
    /\ \A row \in ToSet(logs[r]) :
         /\ \A i \in DOMAIN row.prompt :
              Spoken(r, row.prompt, i).role \in {"user", "system"} =>
                ~ Sensitive(r, row.prompt[i])
         /\ row.response # Absent => ~ Sensitive(r, row.response)

\* A prompt with a blocked text anywhere in its user and system messages leaves
\* no trace but a bodiless row: no part of it is embedded, sent or stored, also
\* when an earlier message passed the scan.
BlockedGoesNowhere ==
  \A r \in Requests :
    local[r] # Absent /\ pc[r] \notin {"policies", "scan"} =>
      LET hit == \E m \in ToSet(local[r].msgs) :
                   /\ m.from = "client" /\ m.role \in {"user", "system"}
                   /\ m.text.kind = "pii" /\ local[r].pol.action = "block"
      IN hit => /\ sent[r] = <<>> /\ embedded[r] = <<>> /\ shown[r] = Absent
                /\ \A row \in ToSet(logs[r]) :
                     row.blocked /\ row.prompt = Absent /\ row.response = Absent

\* The messages of a client, of which these are the texts, are all of what was
\* sent but the retrieved context before them, if there is one.
PromptWithin(texts, msgs) ==
  \E context \in 0 .. 1 :
    /\ texts = TextsOf(SubSeq(msgs, context + 1, Len(msgs)))
    /\ \A i \in DOMAIN msgs : msgs[i].from = "client" <=> i > context

\* The audit row tells what happened: an answered request has one, and only one,
\* unless its INSERT failed or lost its answer, a row that says "blocked" is of a
\* request the model never got, any other holds the client's prompt as the model
\* got it, without the retrieved context, the reply as the client got it, and no
\* body under zero retention as the gate read it.
AuditMatchesExchange ==
  \A r \in Requests :
    /\ pc[r] \in {"blocked", "served"} /\ r \notin unlogged => logs[r] # <<>>
    /\ Len(logs[r]) <= 1
    /\ \A row \in ToSet(logs[r]) :
         /\ row.blocked <=> sent[r] = <<>>
         /\ local[r].zero => row.prompt = Absent /\ row.response = Absent
         /\ ~ row.blocked /\ ~ local[r].zero => PromptWithin(row.prompt, sent[r])
         /\ row.response # Absent /\ shown[r] # Absent => row.response = shown[r]

\* An alert is high exactly when the model did not get the request, and one that
\* links a row links that of a blocked request; nobody is notified of a request
\* the handler did not alert on.
AlertsExplained ==
  \A r \in Requests :
    /\ \A alert \in ToSet(alerts[r]) :
         /\ alert.severity = "high" <=> sent[r] = <<>>
         /\ alert.row # Absent => alert.row.blocked /\ alert.row \in ToSet(logs[r])
         /\ alert.severity = "medium" => local[r].redactions > 0
    /\ notice[r] # "none" => pc[r] = "blocked" \/ local[r].redactions > 0

\* A blocked request is brought to the attention of the organisation's
\* integrations, unless the client leaves before its alert is stored: neither a
\* failed INSERT nor the client's leaving afterwards stops the spawned task.
BlockedIsNotified ==
  \A r \in Requests :
    pc[r] = "logBlocked" ~> notice[r] = "over" \/ pc[r] = "dropped"

\* main.rs:160 says the audit snapshot "contains no raw PII".
SnapshotHasNoRawPii ==
  \A r \in Requests : \A row \in ToSet(logs[r]) :
    local[r].pol.action = "redact" =>
      \A text \in ToSet(row.prompt) : text.kind = "pii" => text.masked

-----------------------------------------------------------------------------
(* The inductive invariant behind the properties, of one request.          *)

Locals ==
  [msgs : Seq(Messages) \ {<<>>}, stream : BOOLEAN, zero : BOOLEAN, pol : Policies,
   redactions : Nat, snapshot : Seq(Texts), reply : Texts \cup {Absent}]

Rows ==
  [blocked : BOOLEAN, redactions : Nat, prompt : Seq(Texts), response : Texts \cup {Absent}]

Alerts == [severity : {"high", "medium"}, row : Rows \cup {Absent}]

\* Each variable keeps its shape; an idle request has no variables yet.
Shape(r) ==
  /\ pc[r] # "idle" => local[r] \in Locals
  /\ sent[r] \in Seq(Messages) /\ embedded[r] \in Seq(Texts)
  /\ shown[r] \in Texts \cup {Absent}
  /\ logs[r] \in Seq(Rows) /\ alerts[r] \in Seq(Alerts)
  /\ notice[r] \in {"none", "spawned", "over"}

\* What the scan establishes: no text of the client's that it reads is one the
\* policies block, or wants masking.
Clean(r) ==
  \A i \in DOMAIN local[r].msgs :
    LET m == local[r].msgs[i] IN
      m.from = "client" /\ Checked(m) =>
        ~ Sensitive(r, m.text) /\ ~ (m.text.kind = "pii" /\ local[r].pol.action = "block")

\* Where the handler is says what has left and what was recorded.
BeforeScan == {"policies", "scan"}
BeforeModel == {"embed", "retrieve", "model"}
OfBlocked == {"logBlocked", "alertBlocked", "blocked"}
AfterModel == {"reply", "log", "alertMasked", "served"}

Phase(r) ==
  /\ pc[r] \in {"idle"} \cup BeforeScan \cup OfBlocked =>
       sent[r] = <<>> /\ embedded[r] = <<>> /\ shown[r] = Absent
  /\ pc[r] \in {"idle", "logBlocked", "reply", "log"} \cup BeforeScan \cup BeforeModel => logs[r] = <<>>
  /\ pc[r] \notin {"blocked", "served", "dropped"} => alerts[r] = <<>>
  /\ pc[r] \notin {"blocked", "served"} => notice[r] = "none"
  /\ pc[r] \in BeforeScan => local[r].msgs \in Seq(FromClient)
  /\ pc[r] \in BeforeScan \cup BeforeModel \cup {"reply"} => local[r].reply = Absent
  /\ pc[r] \in BeforeModel \cup AfterModel => /\ Clean(r)
                                             /\ PromptWithin(local[r].snapshot, local[r].msgs)
  /\ pc[r] \in {"embed", "retrieve"} => \A i \in DOMAIN local[r].msgs : local[r].msgs[i].from = "client"
  /\ pc[r] = "embed" => UserTurns(local[r].msgs) # {}
  /\ pc[r] \in BeforeModel => sent[r] = <<>>
  /\ pc[r] \in AfterModel => sent[r] = local[r].msgs
  /\ pc[r] \in {"alertBlocked", "blocked", "alertMasked", "served"} /\ r \notin unlogged => logs[r] # <<>>
  /\ pc[r] = "alertMasked" => local[r].redactions > 0

\* What a row says of the request it is of.
Tells(row, r) ==
  /\ row.blocked <=> sent[r] = <<>>
  /\ row.blocked \/ local[r].zero => row.prompt = Absent /\ row.response = Absent
  /\ ~ row.blocked /\ ~ local[r].zero => PromptWithin(row.prompt, sent[r])
  /\ row.response # Absent => row.response = local[r].reply

\* What an alert says of it.
Explains(alert, r) ==
  /\ alert.severity = "high" <=> sent[r] = <<>>
  /\ alert.row # Absent => alert.row.blocked /\ alert.row \in ToSet(logs[r])
  /\ alert.severity = "medium" => local[r].redactions > 0

\* What is outside the handler was clean when it left, wherever the handler is now.
Outcome(r) ==
  /\ sent[r] # <<>> => sent[r] = local[r].msgs /\ Clean(r)
  /\ embedded[r] # <<>> => Clean(r) /\ \A text \in ToSet(embedded[r]) : ~ Sensitive(r, text)
  /\ pc[r] # "idle" /\ local[r].reply # Absent => sent[r] # <<>> /\ ~ Sensitive(r, local[r].reply)
  /\ shown[r] # Absent => shown[r] = local[r].reply
  /\ Len(logs[r]) <= 1
  /\ \A row \in ToSet(logs[r]) : Tells(row, r)
  /\ \A alert \in ToSet(alerts[r]) : Explains(alert, r)
  /\ notice[r] # "none" => pc[r] = "blocked" \/ local[r].redactions > 0

Good(r) == Shape(r) /\ Phase(r) /\ Outcome(r)

Variables ==
  /\ policies \in PolicySets /\ zeroRetention \in BOOLEAN
  /\ DOMAIN pc = Requests /\ DOMAIN local = Requests
  /\ DOMAIN embedded = Requests /\ DOMAIN sent = Requests /\ DOMAIN shown = Requests
  /\ DOMAIN logs = Requests /\ DOMAIN alerts = Requests /\ DOMAIN notice = Requests

IInv == Variables /\ \A r \in Requests : Good(r)
=============================================================================
