# Verification of safeguard-core

TLA+ specifications of the safeguard-core services, TLC runs that check them on
small instances and TLAPS proofs for every value of the constants. Paths are
relative to the repository; `middleware.rs`, `stream_dlp.rs`, `main.rs`, `db.rs`
and `upstream.rs` without a directory are those of `services/gateway/src`.

    tlc -workers 2 -config MCQuotaGate.cfg MCQuotaGate.tla     # one run
    tlapm QuotaGate_proofs.tla                                 # one proof module

`PROJECT.json` lists the runs with their properties, the source lines of every
definition, the hazards each property is for, and for each property a mutant: a
definition with a plausible bug in it (such as `OverLimitLax` beside
`OverLimit`) that makes the run fail when it takes the place of the original.

## 1. Inventory

| component | state | operations | interacts with | what is hard | what makes it correct |
|---|---|---|---|---|---|
| Gate: authentication and quota (`middleware.rs`, `crates/proto/src/plan.rs`) | Redis counter per organisation and UTC day, its expiry | `gate`: INCR, EXPIRE, compare, DECR, run the handler | Redis, `db.rs`, the dashboard's `quota` | requests interleave at awaits, lost Redis answers, dropped futures, midnight, overshoot and roll-back | limit kept, no early refusal, exact counter, dashboard agrees |
| DLP engine (`crates/dlp/src/lib.rs`, `presidio.rs`) | none; a call works on one text | `scan`, `scan_deep`, `dedupe_findings`, `apply_redactions` | Presidio sidecar | overlapping matches, stale offsets, bytes and characters, a failing sidecar | masked exactly what was matched; strongest action wins; sidecar only adds |
| Detectors and packs (`rules.rs`, `packs.rs`, `intl.rs`) | tables of regular expressions | `detectors` | engine, control plane | regular expressions | tested by example in the crate |
| Streamed responses (`stream_dlp.rs`) | raw bytes, pending text, end flags of one stream | `redact_sse`, `process_event`, `release` | upstream, engine | matches across events, ends and errors | no match shown, nothing lost, markers last, bounded buffer |
| Chat handler (`main.rs`, `db.rs`, `upstream.rs`) | locals of each request; rows of `usage_logs`, `risk_alerts` | `chat_completions`, `log_usage`, `emit_alert`, `notify_alert` | policies, engine, embeddings, model, notify | policy edits during a request, failing calls, clients that leave, detached tasks | what leaves is masked, a blocked prompt goes nowhere, rows and alerts tell what happened |
| Notify (`crates/notify`) | the targets of a running task | `dispatch`, `deliver` | Slack, Teams, webhooks; spawned by the gateway and by telemetry | slow or failing endpoints, settings edited meanwhile | every target tried once where the settings said, the task ends |
| Embeddings, chunker (`crates/embed`) | none | `embed`, `embed_one`, `chunk_text` | embeddings endpoint | windows that overlap and are pulled back, answers out of order | chunks cover the text and move on; a vector belongs to its chunk |
| Knowledge base (`routes/rag.rs`) | `rag_documents`, `rag_chunks`, activity | ingest, list, delete | embed, gateway retrieval | an ingest that fails half-way, a deletion beside it | a document's chunks are all or none |
| Start-up and registration (`control-plane/src/main.rs`, `auth.rs`) | orgs, users, policies | migrate with the seed, `bootstrap_admin`, `register` | Postgres, container restarts, the edits of administrators | two processes, a stop between statements, failed checks, an admin removed or demoted meanwhile | an admin row before serving, no default policy left out, starts go through |
| Members (`routes/users.rs`, `me.rs`, `auth.rs` invites) | users, invite token hashes | invite, resend, accept, role change, remove | mail, sessions | one-time tokens accepted, resent and revoked at once | the newest link is the only one; a used link is closed; nobody is left without one |
| API keys (`routes/keys.rs`, `me.rs`) | `api_keys` | create, revoke, deletion with a member | gateway, telemetry | a key revoked while requests that carry it run | a revoked key admits no later request |
| Sessions (`auth.rs`) | none: signed tokens their holders keep | login, refresh | all handlers | a token outlives changes of its user | – |
| Conversations (`routes/conversations.rs`) | conversations, messages | create, append, delete | zero-retention setting | setting read before the write, append racing delete | what is at rest obeys settings that held; writers are owners; a message that became a row stays |
| Policies, packs, settings (`routes/*.rs`) | policies, `orgs.zero_retention` | create, update, delete | gateway | edits under a running request | a request uses one reading |
| Extension policy and telemetry (`routes/extension.rs`, `telemetry.rs`) | `shadow_events`, `risk_alerts` | policy, ingest, discovery | browser extension, keys, notify | failing statements, clients that leave | only stored reports are told |
| Integrations (`routes/integrations.rs`) | `integrations` | install, uninstall, configure, test | notify | edits under a running dispatch | posts go where the settings said |
| Dashboard, logs, teams | rows | queries and row edits | all | little | aggregates match the rows |
| Schema (`infra/migrations`) | tables, unique keys | – | all | – | – |
| External: Postgres, Redis, Presidio, the model, embeddings | – | – | – | fail, delay | modelled by how the code uses them |

The hazards of each, at their lines, are under "hazards" in `PROJECT.json`.

## 2. Plan

Done, in this order (most important behaviour first):

1. `DailyBudget` (abstract) and `QuotaGate`, which implements it; `QuotaGate_proofs`.
2. `DlpEngine` (operators) and `DlpScan` (one call of the engine, with the sidecar).
3. `MaskedStream` (abstract) and `StreamDlp`, the streaming use of the engine, which
   implements it; `Dlp_proofs`, about it and `DlpScan`.
4. `ChatPipeline`, the handler that calls all of these; it uses abstractions of
   the gate (a request enters), the engine (a text's verdict) and the stream (a
   masked reply) that the modules above justify; `ChatPipeline_proofs`.
5. `Bootstrap` and `Bootstrap_proofs`.
6. `Members` and `Members_proofs`.
7. `Conversations` and `Conversations_proofs`.
8. `Chunker` (operators) and `Rag`, which ingests with it; `Rag_proofs`.
9. `ApiKeys` and `Telemetry`, which extends it: keys, integrations, a report's
   way through both and through the dispatch task; `Telemetry_proofs`.

Nothing of the plan is left open; what it leaves out is in section 7.

## 3. The modules

### DailyBudget, QuotaGate

`DailyBudget` says what the quota promises without saying how: a verdict for each
request, units of a budget, grant only while units are left, refuse only when
none is, and the two outcomes the code puts outside the budget because it fails
open (unmetered, wasted).

`QuotaGate` is `gate`. `pc[r]` is the await request `r` is at: `incr`, `expire`
and `decr` are the three Redis commands, `handler` is `next.run`, the other
values are ends. `quota` and `ttl` are Redis, `key[r]` and `count[r]` the locals
`rkey` and `count`. `Authenticate` reads the day before the first command, as the
code does, so a request may count in yesterday's window after `Midnight`.
`IncrFails`, `ExpireFails` and `DecrFails` are the ignored errors
(`unwrap_or(0)`, `let _`): the command took effect or not. `Disconnect` drops the
future at one of these awaits. `held`, `expired` and `faulted` are ghosts the
properties need.

Assumed: Redis is durable (`docker-compose.yml` turns its append-only file on)
and a request does not stay at a Redis command for an hour (`MayExpire`: the
expiry is 25 hours after the first request of the day). Without the second a
`DECR` after the expiry would make a new counter of -1. Plans do not change
while a window is counted.

`Shown` is what the dashboard reads (`routes/metrics.rs`). The comment of
`plan.rs` that the two services "never drift" is `DashboardAgrees`: during the
overshoot the dashboard shows more than the limit used, and so nothing left, and
never budget after a refusal.

### DlpEngine, DlpScan

`DlpEngine` has the functions of `lib.rs` as operators under their names. A text
is the sequence of its bytes, so that "what was masked" can be compared byte by
byte; what regular expressions match is an input, any list of matches of at least one
byte (no regular expression of `rules.rs` matches the empty text). The loops are
functions of the number of turns: `Admitting` takes the entities, `Merging` the sorted
findings, `Redacting` replaces from the right. `SortFindings` puts a finding after
those it counts ahead of it, which is what a stable sort does. `DlpScan` is one call:
`RegexPass`, then the sidecar's answer or failure, then `Conclude`. `scan` is the call
with `deep = FALSE`.

The properties compare with definitions that know nothing of sorting or loops:
`MergeIsExact` (`ExactMerge`) says two neighbouring bytes are in one span exactly when
one match has both, `MergeKeepsTheStrongest` (`Strongest`) looks at all findings in a
span at once, `RedactionIsExact` (`Showing`) rebuilds the text byte by byte.

The sidecar is external; it counts characters (its API's offsets are positions
in a decoded string) and `presidio.rs:69` hands them on as they are. `widths`
gives the bytes of each character, so the difference is in the model.

### MaskedStream, StreamDlp

`MaskedStream` says what a client is promised: its view is a prefix of the reply that
only grows, a character given earlier never becomes part of a secret, a finish means
that the reply is all there, an end without error that nothing received is held back.
It has no frames, window or cut. `StreamDlp` implements it (`MaskingPromised`): `View`
is the client's text, character by character, and `Phase` what it was told.

The reply is a sequence; `got` and `sent` delimit what the code calls `pending`.
`Poll` is a chunk that completes one event and `PollTwo` one that completes two,
`process_event` is `ProcessEvent`, `release` is `Release` with the tail window
(`Target`) and the pull-back (`Cut`). A content of "" runs `release` too; only an
event with neither content nor finish is passed on. `PollEnd` is the upstream that
closes without `[DONE]`, `PollEndWithin` the one that closes within an event, and
`PollError` its failure, which loses the pending text.
`Findings`, a constant operator, is what `dlp::scan` finds between two positions:
the run's definition depends on the ends of the scanned text, as detectors with
word boundaries do. The model assumes that the upstream sends its finish after its
text and `[DONE]` last, with a finish before it or not (`Follows`, external), and
abstracts the text inside frames the code passes on unread (other choices than the
first, invalid JSON).

What the engine is assumed to return is in two assumptions. `SpansAssumption` is
what `dedupe_findings` gives every caller (`DedupeIsExact`): spans inside the text
and apart. `DetectorsAssumption`, which only `NoMatchShown` needs, is the comment at
`HOLDBACK` made exact: no match is longer than the window ("comfortably covers"),
and a match of the received text is found, alone or in a wider span, when text
before it is missing and one character after it is there. A secret longer than the
window (a long address, a certificate) is outside it, and so is a detector that
finds something else in a text whose beginning was cut off, as one whose match may
begin where a longer run of digits was cut.

An event without a terminator is passed on raw at the end, unscanned
(`stream_dlp.rs:76-80`), whatever it says: text, a finish or `[DONE]` (the kinds of
`RawKind`), before the gateway's own `[DONE]`. `MarkersComeLast` is about these frames
too: text never follows a frame that says finish, and two `[DONE]` come only next to
each other, as the last two frames. `NoMatchShown` and `View` are of the text frames.

### ChatPipeline

`chat_completions` with one value of `pc[r]` for each await. `local[r]` has the
handler's variables, `embedded`, `sent` and `shown` what left the process, `logs`
and `alerts` its rows, `notice` the detached webhook task. Consecutive statements
without an await are one action: `ScanPasses` takes the scan of all messages with
the snapshot, `AlertBlocked` the alert, the spawn and the return. A text is a kind
(plain, known to the regexes, known to the sidecar only) and whether it is masked,
which is all the properties tell apart; `DlpEngine` and `StreamDlp` are checked to
mask it. Every call may fail the way the code handles it: the policy query
(no policies), the sidecar (per message), the embeddings call and the retrieval
(nothing injected), the model (`?` before any row), the `INSERT`s (ignored; a row
may be stored and its answer lost, in which case the alert links none). `unlogged` is
a ghost, the requests that did not learn the id of their row.
`Disconnect` drops the handler at an await: a row on its way may still arrive.
`EditPolicies` and `EditRetention` are an admin's requests to the control plane.

### Bootstrap

A process is down, migrating, checking for the admin, at one of the three kinds
of insert, or serving. `Stop` is a crash or an `expect` at any of these points;
`CheckFails` is `unwrap_or(false)`. The first migration that gets that far applies
`0002_seed.sql`, in every mode (`main.rs:64`): the Demo Org, an admin without a
password and a policy that is none of `DEFAULT_POLICIES` (`ApplySeed`; the key it
inserts has no part in this). Registration is one transaction in dev mode
(`RegisterDev`); in cloud mode the organisation is read in one statement (`FindOrg`)
and the member inserted in the next (`JoinOrg`), with everything else in between.

Administrators edit what the bootstrap left, also while another one runs:
`AddMember`, `ChangeRole` and `RemoveMember` of `routes/users.rs`, which let one
demote or remove the bootstrap's admin, and `DropPolicy`, a policy deleted or updated
so that it is no longer the default. Nothing is asked of the caller's row, since a
token outlives it. No token is ever issued for the Demo Org, so nobody edits it; what
its key admits is the gateway's.

The properties say what is left of two promises under all this. `AdminBeforeServing`:
a process that serves has an admin row to count on unless one was removed or demoted
while that process was up (`bereft`); a start that comes after mends it, with a new
organisation. `UnprotectedOnlyIfTorn`: a default policy is missing only if a bootstrap
has yet to insert it (`Unseeded`) or was interrupted before it (`torn`), or someone
dropped it (`dropped`); the Demo Org, which never had them, is left out. `torn`,
`dropped` and `bereft` are ghosts.

### Members

Invitations from both ends: `routes/users.rs` for the admin, `accept_invite` and
`change_password` of `auth.rs` for the member. `pc[r]` is the statement request
`r` is at: `issueFirst` and `issueAgain` before the transaction of
`issue_invite` (called by `create` and by `resend_invite`), `resolved` and
`verified` between the `SELECT` and the write of an acceptance and of a change of
password. Their first statement is the action that begins the request; a request
it refuses changes nothing and is no step. A password is named by the request
that sent it. `issued` lists the members in the order of their invites, so a
token is an index in it and a later invite has a greater one.

A transaction is one step: Postgres locks the rows it deletes or updates, and the
unique constraints of `0005_invites.sql` (one pending invite per user, cascading
deletion) hold at its commit. Two concurrent `issue_invite` of one member
serialise or one fails on that index; `IssueFails` is that failure, a lost
connection and a client that leaves. `Update` may set any of the three statuses,
as the code checks no transition. `stranded` is a ghost: members whose first
invite failed after their row was inserted (an admin can still re-invite them).

`resend_invite` looks for a missing password and issues later, so an acceptance
in between leaves a pending invite of a member who has one: the properties allow
it, and `LateRequestsFail` says what the two looks do guarantee.

### Conversations

`upsert`, `add_message` and `delete` of `routes/conversations.rs`, one action for
each statement. `asked[r]` is what a request asks for, chosen in `Init`: a user, a
conversation's id, a title or a message's id, a text. Ids are made by clients, so
two requests may name the same ones (a retry, a second device, a second account
on one device). `Begin` reads `zero_retention`, `Redact` the policies, `Guard` the
owner; the rows are written later, so an admin's `Edit` or a `Delete` may come in
between. The last statement of `add_message`, which sorts the list, writes
nothing the model has and is part of `Insert`. A blank title, stored as "New
chat", is a plain text here.

`lax[r]` is a ghost: what the settings allowed at some time while `r` ran.
`AtRestObeysSettings` is as much as the code guarantees: the comment at
`conversations.rs:230` ("never persist message bodies") is not true of a request
that read the setting before it was switched on. `OwnersOnly` has the exception
of a conversation deleted and its id taken between the guard and the `INSERT`.

An answer to a write may be lost (`Written`), so a client may send again what is
there. `wrote` is a ghost: the requests whose message came to be a row.
`AnsweredIsKept` says that such a row stays until its conversation is deleted, and
that an answered request has one, unless another request had one under the same id:
`ON CONFLICT (id) DO NOTHING` (`conversations.rs:265`) then drops the text and answers
as if it were stored. That is right of a retry and loses the text of a client that
uses an id twice.

### Chunker, Rag

`ChunkText` is `chunk_text` over texts of whitespace and other characters, its
loop (`Cuts`) a recursive function of the window's start. `CoversText` and `AddsText` say
what a list of chunks should be, knowing words and spans and nothing of the loop.
The code keeps a word whole only if it fits beside the whitespace before it, and
repeats text without adding any before a word that does not fit in a window beside
the overlap (it then moves on by one character at a time, `embed/src/lib.rs:171`);
both properties have these exceptions, which a run with either bound moved by one
refutes.

`Rag` has one action for each await of `ingest`: `Begin` chunks, `Embedded` takes
the service's answer (in any order, without indexes, with one missing), `Commit`
is the transaction, whose statements nobody else sees before, `Fails` any error
or client that leaves. An answer to COMMIT may be lost, so a stored document may
have been reported as failed. A vector is the position of the chunk it embeds,
so that `VectorsAreTheirs` can tell whose it is. `IsReply` is the contract of the
service (external): an answer with a vector per input gives each its input's index,
or has no indexes and is in order; a shorter or longer one may be anything. `Record` is `record_activity`,
whose failure is ignored; `Delete` is one statement with the cascade of
`0001_init.sql`.

### ApiKeys, Telemetry

`ApiKeys` has the rows of `users` and `api_keys` and the four statements that
change them; a key is named by its value and `generated` remembers the keys made,
so that `Ended` is the keys that were revoked or went with their owner.

`Telemetry` extends it. `pc[e]` is the await of `ingest` that report `e` is at,
`task[e]` the dispatch task it spawned, `todo[e]` the loop's remaining targets.
`Insert` and `InsertFails`, `RaiseAlert` and `Dropped` are the ways a statement may
end, with or without its effect. `LoadTargets` reads the settings once (an error
reads as no target); `Post` tries the next target, which accepts or does not.
`Install`, `Uninstall` and `Configure` are the statements of `integrations.rs`.
`Stop` ends the process: handlers and tasks are gone, rows stay. `dead`, `held` and
`steady` are ghosts: the keys that had ended when a report arrived, the targets
that were active at some time, or all the time, since.

A revoked key may still admit a report that had looked it up, and a target
uninstalled meanwhile may still be told: the properties say what is guaranteed.

## 4. The runs

| run | expects | instance | shows |
|---|---|---|---|
| quota | pass | 4 interchangeable requests, a limit of 2 and an unlimited organisation, 2 days, both kinds of fault | the limit, the counter, refusals, expiry, dashboard; refinement of `DailyBudget` |
| dlp | pass | texts of 4 characters, with and without one of two bytes, 2 detectors with up to 2 matches, 2 policies in 18 combinations, 11 answers of the sidecar or none | merging and redaction are exact; the sidecar only adds |
| dlp_panic | violation | the same | a character offset used as a byte offset panics, `lib.rs:185-187` |
| stream | pass | all replies of 5 characters over two letters and two more, HOLDBACK 2, matches up to 2, events of up to 2 characters (`MaxText`), chunks of up to 2 events, an end between events or within any | masking across cuts, nothing lost, markers; refinement of `MaskedStream` |
| chat | pass | 1 request, 3 prompts, 3 policy sets, 2 edits | what leaves is masked; rows and alerts |
| chat_snapshot | violation | the same | assistant turns are stored unscanned, `main.rs:160` |
| bootstrap | pass | 2 processes, 1 address, 2 policies, 2 attempts, 5 organisations, 2 faults, 1 edit | an admin row before serving, seeds, progress |
| members | pass | 2 interchangeable members, 4 interchangeable requests, 3 invites | the newest invite pends alone, nobody is left without one, an answered acceptance closes the invitation |
| conversations | pass | 2 interchangeable users, ids of conversations and of messages, 2 requests, 2 edits | stored text obeys the settings, writers are owners, answered messages stay |
| rag | pass | all documents of up to 8 characters with 6 windows, or 2 short ones; 4 kinds of answer of the service | stored whole or not at all, text covered, windows move on, own vectors |
| telemetry | pass | 1 report, 1 member, 1 key, 3 integrations of which 2 deliver, 2 URLs, 3 edits, 1 stop | dead keys, targets, notified events; a dispatch ends |
| invite_once | violation | as members | two overlapping acceptances of one link succeed, `users.rs:119-120` |

Why the bounds are enough. *quota*: two requests over a limit of two are needed
for an overshoot of two and a roll-back between two refusals; two days for a
request that counts in yesterday's window; the proofs remove all bounds. *dlp*:
three spans that chain, touch, contain and repeat each other fit in four
characters; merging looks at one neighbour only. *stream*: five characters hold a
match before, across and after the edge of the tail window and a release that
follows a pull-back, with `HOLDBACK = MaxMatch`, the tightest case. *chat*:
requests share only the organisation's rows, which `EditPolicies` and
`EditRetention` change as freely as another request could observe, so one request
is enough; the prompts have a sensitive system message, a blocking text after a
harmless one (streamed), an assistant turn and a name. *bootstrap*: two processes
race; two faults make two interrupted bootstraps, or a failed check and a stop;
`MaxOrgs = 5` is the Demo Org and as many as two processes with two faults can insert
(one each, one more after each fault); one edit removes or demotes an admin, or drops a
policy, at any point of a bootstrap, and the proof removes the bounds. *members*: four requests make a
member, a second invite and two acceptances, the longest interplay the
properties speak of; the proofs remove the bounds. *conversations*: each property relates a
row to its writer and one other request (the owner's, or one with the same id);
the two edits switch both settings, or one of them back and forth. *rag*: eight
characters hold three windows of the smallest widths, a word longer than a window,
runs of whitespace and a window pulled back beside each; two documents meet in the
tables and in the feed only. *telemetry*: reports share only keys and settings,
which the edits change as freely as another report's handler could observe (none
writes them); three edits make a key, end it and change a target, or uninstall,
configure and install; two targets give a loop in which one fails before the other.

Deadlock is not checked: requests end, scans and streams end, and a fully
started deployment with all addresses registered has nothing left to do.

Fairness. `ChatPipeline`: weak fairness of a handler's own steps, since the
runtime polls a ready task and each database, embeddings or sidecar call answers
or fails (the clients of the sidecar and of the embeddings have timeouts of 4 s and 20 s), and of the detached webhook
task (timeout 8 s). Nothing is assumed of the model's answer: `upstream.rs` sets
no timeout. So `BlockedIsNotified`, the liveness property, is of blocked
requests, which do not reach the model. `Bootstrap`: weak fairness of a process's
steps: `restart: unless-stopped` restarts it, and `MaxFaults` makes faults finite.
`Telemetry`: weak fairness of the dispatch task: the runtime polls it, the query
answers or fails and the client's timeout of 8 s ends a post; nothing is assumed of
handlers or clients. The other modules state safety only.

## 5. The findings

Each is a run that expects a violation; `PROJECT.json` has the quotes.

- *dlp_panic*: character offsets are used as byte offsets.
- *chat_snapshot*: assistant messages of the history go to the audit row (and to
  the model) as they came.
- *invite_once*: an acceptance does not look at the token again when it writes, so
  an overlapping one also succeeds and the later password stays.

Also met, with no run of its own:

- `bootstrap_admin` inserts the organisation, the admin and the policies in
  separate statements and takes the admin row as the sign that all is done, so a
  stop in between leaves an organisation without policies for good, against
  "protected from day one" (`auth.rs:231`, 565). `UnprotectedOnlyIfTorn` says that
  this and an administrator's edit are the only ways.
- A check for the admin that fails is read as "there is none" (`unwrap_or(false)`,
  `auth.rs:526`), so a start on a deployment that has its admin makes a second
  organisation and admin row (`CheckFails`; 512-513 call it idempotent).
- `0002_seed.sql:2` says "DO NOT load in production", and `main.rs:64` applies it at
  every first start, in every mode: each deployment has the Demo Org, with an API key
  the file gives in plain text and one policy instead of the default ones.
- `release` masks every finding whatever its action, so a flag policy masks
  streamed text as soon as a redact policy is enabled (`stream_dlp.rs:215`; lines
  10-11 say only redact policies affect the response).
- The tail the upstream leaves without a terminator is passed on unscanned
  (`stream_dlp.rs:90-93`; lines 5-7 say a match is caught before anything is sent).
  All of a reply whose lines end in CR LF goes this way, since only `\n\n` ends an
  event; an unterminated `[DONE]` is followed by a second one (`PollEndWithin`).
- A chunk that ends inside a multi-byte character is decoded lossily on both sides
  (`stream_dlp.rs:87`).
- An entity of the sidecar that partly overlaps a finding, even one of a flag
  policy, is dropped, and the rest of it stays readable (`lib.rs:184` says "always
  treated as redact", 189-191 mention the dropping).
- A streamed request with redactions is logged and served with no alert
  (`main.rs:206-243`; `IMPLEMENTATION.md:60` lists "redactions → medium").
- The note at `upstream.rs:53-54` ("outbound DLP is not applied to live-streamed
  tokens") is older than `stream_dlp.rs`.
- The key of an organisation goes with the member who created it: `api_keys.user_id`
  cascades whatever the scope (`0001_init.sql:45`), while `0006_api_key_scope.sql:1`
  calls such keys org-wide. `RemoveMember` has the code's behaviour.
- `keys.rs` lists and revokes personal keys with the others
  (`0006_api_key_scope.sql:2` says "visible only to them", `me.rs:116` "only the
  owner can revoke it").
- Before a long word `chunk_text` stores chunks that only repeat the one before
  (`embed/src/lib.rs:171`).
- Cloud registration joins the organisation of whichever admin row the query
  returns (`auth.rs:275`), one of two after a double bootstrap.
- A message whose id another request has used is answered and not stored
  (`conversations.rs:265`).

## 6. The proofs

`QuotaGate_proofs` (any finite set of requests, any organisations, plans and
days; assumptions: `QuotaAssumption`). The properties are not inductive as they
stand. The invariant `IInv` adds: `Bookkeeping`, where a request stands determines
what it saw and whether it holds a unit; `ExpiredIsPast`, only a past window with
no request at Redis has lost its counter; `OverMeansExhausted`, a request that saw
a count above the limit proves that the limit's worth of units is held by requests
within it. The step is a pigeonhole: the counter is the number of holders, so a
request whose INCR returns n is the n-th holder, and of n holders at most the
over-limit ones are not charged. One lemma per action preserves each conjunct;
`CounterExact`, `WithinLimit`, `RefusalsAreDue` and `DashboardIsRight` follow from
the invariant, `RefusalsAreFinal` and the refinement `GateImplementsBudget` from
the invariant and the steps (each step maps to one of `DailyBudget` or a stutter).
`ExpiryOwned` needs an induction of its own beside `IInv`.

`Bootstrap_proofs` (any finite set of processes and policies, any emails, bounds;
assumption `BootstrapAssumption`): `IInv` is typing, `Progress` (where a process
stands determines what it has inserted: one that seeds has inserted its admin, and so
there is an admin row unless it was up when one went) and the two safety properties.
An edit that takes an admin row puts every process that is up in `bereft`, so the
claim need only be kept of the processes it does not speak of; a start takes its
process out, and then has to pass the check or insert an admin before it serves. A
missing policy is followed from the organisation's row: a registration inserts both at
once, a bootstrap leaves it in `left` until it inserts it, and a stop moves what is
left to `torn`.

`Members_proofs` (any members and requests, any number of invites; assumption
`MembersAssumption`): `IInv` is typing, the two safety properties and `Closed`,
without which neither is inductive: who was invited has or had a row, so a new
row has no old token, and an answered acceptance has left its token used and its
member with a password until removal, which is final. A new invite is the
greatest token and replaces what is pending of its member; every other step only
takes invites out of the pending ones, and takes the last one of a member only
with a password in its place. `LateRequestsRefused` follows from `Closed`.

`ChatPipeline_proofs` (any requests, prompts, replies, policies and number of edits;
assumption `ChatAssumption`: a client's texts are not masked to begin with, and a
prompt has a message, since `sent` is empty until the model is called). A step
changes one request, so `IInv` is `Good(r)` of each by itself: its shape, `Phase`,
what has left and was recorded by the time the handler is at an await, and
`Outcome`, which says what the properties say wherever the handler is, also after
it was dropped. Both hang on `Clean`: no text of the client's that the scan reads is
one the policies block or want masked. `ScanPasses` establishes it, from the
verdict of each message; retrieval prepends a message that is not the client's; and
since the handler has its own copy of the policies no edit disturbs it.
`PromptIsClean` carries this to the audit row: a text of its prompt is that of the
message the model got at its place. `LastPosition` shows that the latest user message exists (by well-founded minimum),
so what is embedded is a text of the scan; `ContextPrepended` that the audit
snapshot is what the model got but for the context.

`Telemetry_proofs` (any reports, keys, members and integrations, any number of
edits and stops; assumption `TelemetryAssumption`, which makes what can be posted to
a finite set). `IInv` is typing, the two properties `PostsObeySettings` and
`NotifiedEventsAreStored`, and: `Admission`, keys only end (a key that has ended is
never made again, no statement takes a revocation back), so a key dead on arrival
finds no row; `Progress`, what a handler has written by the time it is at an await;
`Targeting`, while a report is in flight its ghosts `steady` and `held` enclose the
active targets, and what a task has tried and has left covers `steady`. Reading the
targets fixes an order of all of them (`OrderVisitsAll`), each post moves the head
from the rest to the tried (`HeadAndTail`), and an empty rest gives the property.

`Conversations_proofs` (any users, ids and requests, any number of edits;
assumption `ConversationsAssumption`). `IInv` is the four properties with:
`Progress`, a request past the guard owns its conversation or that was deleted
since (so another owner of the same id can only come after a deletion, which the
ghost `deleted` remembers); `Settings`, a running request has seen the settings of
now and what it holds obeys what it has seen; `Authorship`, a message carries the
id and conversation its request asked for, so what a deletion takes was sent there,
and what an `INSERT` finds under its id was asked for by a request with that id.

`Dlp_proofs`, on `StreamDlp` (any replies, policies, window and events of any size;
assumptions `SpansAssumption` and `BoundsAssumption`, and for the last theorem
`DetectorsAssumption`). A step is `process_event` on the locals of the stream, once
or twice, so the lemmas are about `Release`, `ProcessText`, `ProcessFinish` and
`ProcessDone` on a state and the invariant is carried through each. `IInv` says that
the text frames lie end to end over what was re-emitted, that a finish and `[DONE]`
come after the text and once, and that what is held back is shorter than the window
and one match (the pull-back goes to the start of one span). `NothingIsLost` and
`PendingIsBounded` follow from it; `MarkersAreLast` needs `RawLast` too, that raw
frames are only where the stream ended, right before its `[DONE]`, and carry text that
had not been received: after a finish, when all of the reply was, there is none. `NoMatchIsShown` adds `Settled`: of
what was received, and of every longer beginning of the reply, no match goes through
the cut and what the frames have of it is hidden. A match that goes through the
target of a release, whether the text it depends on is there or still to come, ends
before the last received character, so it is decided and the scan of the pending text
finds it or a wider span; the pull-back then cuts at that span's start, and as spans
are apart nothing else goes through there. `StreamKeepsPromise`, the refinement of
`MaskedStream`, needs besides what a step did to the past: every operator of
`process_event` only adds frames and moves the two positions forward (`Grows`), and a
character is in one text frame, so what the client had stays as it was (`ShownStays`);
`GrowingKeepsPromise` then names the step by what became of the stream's phase.

`Rag_proofs` (any requests, documents, windows and answers; assumptions
`AskedAssumption`, `WindowsAssumption`, `RepliesAssumption`). First `chunk_text` by
itself, for every document, window and overlap: `ChunksCover` and `ChunksAdd`. The
loop is a recursive function, whose equation is proved (`CutsEquation`) and not
taken: the least start from which some function satisfies it is 0. A claim about all
starts is then proved by the last start where it fails, since a turn looks at later
ones only (`TurnLooksAhead`, `AdvanceFacts`). A word that fits is whole because a
window that cuts it ends without a whitespace inside, so the word began with the
window and is longer than it; a chunk that adds nothing ends at a whitespace at or
past the end of the one before it with only solid characters up to its full width, so
the next word reaches past that (`LongWord`). Then the state machine: `IInv` is
typing, `Holds`, what a request holds at each await and that a stored document's
request is past its commit, `RowsAreInserted`, the rows are exactly those of the
documents that are there, and `FeedIsTrue`. `StoredIsChunks` counts the rows of a
document by a bijection, `OrderedIsTheirs` shows by counting what comes before each
answer that the stable sort by index puts every vector in its place. The four
properties of the run follow.

`Dlp_proofs`, on `DlpEngine` and `DlpScan` (any texts, policies, matches and answers;
assumptions `ScanAssumption`, what a policy row and `find_iter` give, and
`SidecarAssumption`, which is of the external sidecar: its spans are of the text it was
sent and not empty). First the functions by themselves. A loop's equation is proved
from its least counterexample (`FoldExists`), and a claim about all turns the same way
(`UpTo`).

- `DedupeIsExact`, `DedupeKeepsTheStrongest`: the rank of a finding, the number of those
  ahead of it, is a bijection (`RankFacts`), so sorting permutes (`SortFacts`). The loop
  keeps `Clusters`: the merged spans are apart, each is the chain of the sorted findings
  since the one that began it, and only the last may still grow, since what comes later
  begins later (`MergingKeeps`).
- `RedactingIsExact`: after n replacements from the right the text is its beginning, as
  it was, followed by the rest as it is shown (`RedactKeeps`), so the next span's offsets
  are still those of the input.
- `MergesNest`, for the sidecar: adding findings makes merged spans wider and never
  splits one, since the neighbours a finding joins stay joined. What the regexes mask is
  in such a span, of an action no weaker, and so masked in the result (`CutIsMasked`,
  `MaskedStaysMasked`).

`ScanIInv` says where a call stands: before the answer the findings are the regexes' and
block nothing, and a call that is done returned the merge and the redaction of the
findings it had. The four properties of the run follow. That spans lie on character
boundaries is no part of it: it is false (*dlp_panic*), and a call that panics returns
nothing.

Every invariant and action property of the passing runs is stated by a theorem; only
model-checked are the liveness properties `BlockedIsNotified`, `EventuallyServing` and
`DispatchEnds`, since liveness under fairness is beyond the provers.

## 7. Not modelled

Regular expressions and packs (data); headers, JSON, SQL text, token signatures
and password hashing; token counts and latency; aggregates of the dashboard and of
the discovery view; the client applications and extensions; the numbers of an
embedding.

The extension's policy (`routes/extension.rs`) is a query: the patterns of the enabled
policies and the strongest of their actions. What it means depends on the browser's
engine, which ignores the patterns it does not know (`extension.rs:59-61`) and is not in
this repository, so no claim is made that a browser is as strict as the gateway.

Sessions: `login` and `refresh` change no row but the activity feed's, and there is
no list of tokens. A token says what was true when its chain was issued (`refresh`
copies the role, `auth.rs:354`), and the code relates it to the rows no further, so
there is nothing to hold it to. Teams: three statements on rows that no handler
decides by; deletion detaches members by a foreign key. The test endpoint of
integrations reads and posts once and changes nothing. The forms of policies, rule
packs and settings are validation of one request; what a running request can see of
their edits is in `ChatPipeline` and `Conversations`.
