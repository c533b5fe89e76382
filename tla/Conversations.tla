---------------------------- MODULE Conversations ----------------------------
(***************************************************************************)
(* The chat app's history on the server                                    *)
(* (control-plane/src/routes/conversations.rs): a device renames a         *)
(* conversation or adds a message, retries, and deletes; an admin edits    *)
(* the DLP policies and the zero-retention setting meanwhile.              *)
(*                                                                         *)
(* Ids are made by the clients, so two requests may use the same one. Each *)
(* statement of a request is a step. One policy and one kind of sensitive  *)
(* text stand for all; DlpEngine models the scan.                          *)
(***************************************************************************)
EXTENDS Naturals, FiniteSets

CONSTANTS
  Users,      \* the users of an organisation
  Ids,        \* ids of conversations
  MessageIds, \* ids of messages
  Requests,   \* requests that write a title or a message, each made once
  MaxEdits    \* bound on the admin's edits

Title == "title"

ASSUME ConversationsAssumption == MaxEdits \in Nat /\ Title \notin MessageIds

VARIABLES
  asked,          \* request -> who asks, about which conversation, row and text
  policy,         \* the action of the enabled policy, or "off"
  zeroRetention,  \* orgs.zero_retention
  edits,          \* the edits made
  conversations,  \* rows of conversations
  messages,       \* rows of messages
  pc,             \* request -> the statement it is at, or how it ended
  body,           \* request -> its text as it will be stored
  deleted,        \* ghost: the ids of conversations deleted so far
  wrote,          \* ghost: requests whose message came to be a row
  lax             \* ghost: requests that ran while a setting allowed more

orgVars == <<policy, zeroRetention, edits>>
rowVars == <<conversations, messages>>
ghosts == <<deleted, wrote>>
vars == <<asked, orgVars, rowVars, pc, body, ghosts, lax>>

Policies == {"off", "flag", "redact", "block"}
Running == {"ensure", "guard", "redact", "save", "insert"}
Bodies == {"generic", "plain", "raw", "masked"}

Asked == [user : Users, conv : Ids, row : MessageIds \cup {Title},
          text : {"plain", "sensitive"}]

\* `by`, the request that wrote a title or a message, is not in the tables.
Conversation(id, user, title, by) == [id |-> id, user |-> user, title |-> title, by |-> by]
Message(id, conv, content, by) == [id |-> id, conv |-> conv, body |-> content, by |-> by]

Rows(id) == {k \in conversations : k.id = id}
Stored(id) == {m \in messages : m.id = id}

\* redact_for_store: every policy masks, whatever its action.
ScannedByAction(text, p) ==
  CASE text = "plain" -> "plain"
    [] text = "sensitive" /\ p = "redact" -> "masked"
    [] OTHER -> "raw"
Scanned(text, p) ==
  CASE text = "plain" -> "plain"
    [] text = "sensitive" /\ p # "off" -> "masked"
    [] OTHER -> "raw"

\* Which settings let a request store more than metadata, or raw text.
LaxSettings(p, zero) ==
  (IF p = "off" THEN {"policy"} ELSE {}) \cup (IF zero THEN {} ELSE {"retention"})

-----------------------------------------------------------------------------
Init ==
  /\ asked \in [Requests -> Asked]
  /\ policy \in Policies
  /\ zeroRetention \in BOOLEAN
  /\ edits = 0
  /\ conversations = {}
  /\ messages = {}
  /\ pc = [r \in Requests |-> "idle"]
  /\ body = [r \in Requests |-> "generic"]
  /\ deleted = {} /\ wrote = {}
  /\ lax = [r \in Requests |-> {}]

Goto(r, step) == pc' = [pc EXCEPT ![r] = step]

\* A write has taken effect, and its answer comes or is lost.
Written(r, step) == Goto(r, step) \/ Goto(r, "failed")

\* zero_retention: a title becomes a generic one, a message is not stored.
Begin(r) ==
  /\ pc[r] = "idle"
  /\ Goto(r, CASE zeroRetention /\ asked[r].row = Title -> "save"
               [] zeroRetention /\ asked[r].row # Title -> "skipped"
               [] ~ zeroRetention /\ asked[r].row = Title -> "redact"
               [] OTHER -> "ensure")
  /\ lax' = [lax EXCEPT ![r] = LaxSettings(policy, zeroRetention)]
  /\ UNCHANGED <<asked, orgVars, rowVars, body, ghosts>>

\* add_message makes the conversation if the client's PUT has not landed yet.
Ensure(r) ==
  /\ pc[r] = "ensure"
  /\ conversations' =
       IF Rows(asked[r].conv) # {} THEN conversations
       ELSE conversations \cup {Conversation(asked[r].conv, asked[r].user, "generic", r)}
  /\ Written(r, "guard")
  /\ UNCHANGED <<asked, orgVars, messages, body, ghosts, lax>>

OwnsAny(k, r) == TRUE
Owns(k, r) == k.user = asked[r].user

Guard(r) ==
  /\ pc[r] = "guard"
  /\ Goto(r, IF \E k \in Rows(asked[r].conv) : Owns(k, r) THEN "redact" ELSE "refused")
  /\ UNCHANGED <<asked, orgVars, rowVars, body, ghosts, lax>>

\* redact_for_store reads the policies and scans.
Redact(r) ==
  /\ pc[r] = "redact"
  /\ body' = [body EXCEPT ![r] = Scanned(asked[r].text, policy)]
  /\ Goto(r, IF asked[r].row = Title THEN "save" ELSE "insert")
  /\ UNCHANGED <<asked, orgVars, rowVars, ghosts, lax>>

\* upsert: a new conversation, or the new title of one's own; its owner stays.
Retitled(k, r) ==
  IF k.id = asked[r].conv /\ Owns(k, r)
  THEN Conversation(k.id, k.user, body[r], r) ELSE k

Save(r) ==
  /\ pc[r] = "save"
  /\ conversations' =
       IF Rows(asked[r].conv) = {}
       THEN conversations \cup {Conversation(asked[r].conv, asked[r].user, body[r], r)}
       ELSE {Retitled(k, r) : k \in conversations}
  /\ Written(r, "saved")
  /\ UNCHANGED <<asked, orgVars, messages, body, ghosts, lax>>

\* ON CONFLICT (id) DO NOTHING: the text of a taken id is dropped.
OverTaken(id, m) == (messages \ Stored(id)) \cup {m}
UnlessTaken(id, m) == IF Stored(id) # {} THEN messages ELSE messages \cup {m}

\* The message; its conversation must still be there for a new row.
Insert(r) ==
  LET id == asked[r].row IN
  /\ pc[r] = "insert"
  /\ Stored(id) # {} \/ Rows(asked[r].conv) # {}
  /\ messages' = UnlessTaken(id, Message(id, asked[r].conv, body[r], r))
  /\ Written(r, "added")
  /\ wrote' = wrote \cup {m.by : m \in messages'}
  /\ UNCHANGED <<asked, orgVars, conversations, body, deleted, lax>>

\* A statement fails without effect (for a message also because its conversation is
\* gone), or the client leaves before it.
Fails(r) ==
  /\ pc[r] \in Running
  /\ Goto(r, "failed")
  /\ UNCHANGED <<asked, orgVars, rowVars, body, ghosts, lax>>

\* What goes with a deleted conversation (ON DELETE CASCADE).
CascadeNothing(c) == {}
Cascade(c) == {m \in messages : m.conv = c}

Delete(u, c) ==
  /\ \E k \in Rows(c) : k.user = u
  /\ conversations' = conversations \ Rows(c)
  /\ messages' = messages \ Cascade(c)
  /\ deleted' = deleted \cup {c}
  /\ UNCHANGED <<asked, orgVars, pc, body, wrote, lax>>

Edit(p, zero) ==
  /\ edits < MaxEdits
  /\ <<p, zero>> # <<policy, zeroRetention>>
  /\ p = policy \/ zero = zeroRetention
  /\ policy' = p
  /\ zeroRetention' = zero
  /\ edits' = edits + 1
  /\ lax' = [r \in Requests |->
               IF pc[r] \in Running THEN lax[r] \cup LaxSettings(p, zero) ELSE lax[r]]
  /\ UNCHANGED <<asked, rowVars, pc, body, ghosts>>

Next ==
  \/ \E r \in Requests :
       Begin(r) \/ Ensure(r) \/ Guard(r) \/ Redact(r) \/ Save(r) \/ Insert(r) \/ Fails(r)
  \/ \E u \in Users, c \in Ids : Delete(u, c)
  \/ \E p \in Policies, zero \in BOOLEAN : Edit(p, zero)

Spec == Init /\ [][Next]_vars

-----------------------------------------------------------------------------
(* Properties.                                                             *)

\* Rows keep their shape, ids are unique, a message has its conversation.
TypeOK ==
  /\ asked \in [Requests -> Asked]
  /\ policy \in Policies /\ zeroRetention \in BOOLEAN /\ edits \in 0 .. MaxEdits
  /\ conversations \subseteq [id : Ids, user : Users, title : Bodies, by : Requests]
  /\ messages \subseteq [id : MessageIds, conv : Ids, body : Bodies, by : Requests]
  /\ pc \in [Requests -> Running \cup {"idle", "skipped", "refused", "saved", "added", "failed"}]
  /\ body \in [Requests -> Bodies]
  /\ deleted \subseteq Ids /\ wrote \subseteq Requests
  /\ lax \in [Requests -> SUBSET {"policy", "retention"}]
  /\ \A k, l \in conversations : k.id = l.id => k = l
  /\ \A m, n \in messages : m.id = n.id => m = n
  /\ \A m \in messages : Rows(m.conv) # {}

\* What a text at rest says of the settings while the request r, which stored it, ran.
Obeys(b, r) ==
  /\ b = "raw" => "policy" \in lax[r]
  /\ b # "generic" => "retention" \in lax[r]

\* Raw text is at rest only if no policy was enabled at some time while the
\* request that stored it ran, and any text at all only if zero retention was
\* off at some such time: a request never acts on settings older than itself.
AtRestObeysSettings ==
  /\ \A k \in conversations : Obeys(k.title, k.by)
  /\ \A m \in messages : Obeys(m.body, m.by)

\* A title was written by the owner of its conversation, and so was a message,
\* unless the conversation was deleted at some time: its id may then have been
\* taken by another user between the guard and the INSERT of a message.
OwnersOnly ==
  \A k \in conversations :
    /\ asked[k.by].user = k.user
    /\ \A m \in messages : m.conv = k.id =>
         asked[m.by].user = k.user \/ k.id \in deleted

\* A row that a message came to be stays until the conversation it was sent to is
\* deleted: retries, other requests with its id, renames and the deletion of other
\* conversations lose nothing. An answered message is such a row, or another
\* request had one with the same id (a retry of this message, or a client that uses
\* an id twice): only then is an answered text dropped with nothing deleted.
AnsweredIsKept ==
  /\ \A r \in wrote : (\E m \in messages : m.by = r) \/ asked[r].conv \in deleted
  /\ \A r \in Requests : pc[r] = "added" =>
       r \in wrote \/ \E q \in wrote \ {r} : asked[q].row = asked[r].row

-----------------------------------------------------------------------------
(* The inductive invariant behind the properties.                          *)

\* Where a request stands says what it has written, and that it passed the guard.
Progress ==
  \A r \in Requests :
    /\ pc[r] = "idle" => /\ body[r] = "generic"
                         /\ \A k \in conversations : k.by # r
                         /\ \A m \in messages : m.by # r
    /\ pc[r] \in {"ensure", "guard", "insert"} => asked[r].row # Title
    /\ pc[r] \in {"redact", "insert"} /\ asked[r].row # Title =>
         (\E k \in Rows(asked[r].conv) : Owns(k, r)) \/ asked[r].conv \in deleted

\* What a request holds obeys the settings it has run under, today's among them.
Settings ==
  \A r \in Requests :
    /\ pc[r] \in Running => LaxSettings(policy, zeroRetention) \subseteq lax[r]
    /\ pc[r] \in {"ensure", "guard", "redact"} => "retention" \in lax[r]
    /\ Obeys(body[r], r)

\* A message is the one its request asked for.
Authorship ==
  \A m \in messages : asked[m.by].row = m.id /\ asked[m.by].conv = m.conv

IInv == TypeOK /\ Progress /\ Settings /\ Authorship
          /\ AtRestObeysSettings /\ OwnersOnly /\ AnsweredIsKept
=============================================================================
