------------------------ MODULE Conversations_proofs ------------------------
(***************************************************************************)
(* Proofs about Conversations, for any users, ids, requests and edits.     *)
(*                                                                         *)
(* The argument: a request that passed the guard owns its conversation     *)
(* until that is deleted, whoever else writes; what a request holds obeys  *)
(* every setting it has run under; and a row keeps its id, so who finds an *)
(* id taken finds the row of a request that asked for the same one.        *)
(***************************************************************************)
EXTENDS Conversations, TLAPS

-----------------------------------------------------------------------------
(* Shapes.                                                                 *)

\* A new row has the shape of a row.
LEMMA NewRowsTyped ==
  ASSUME NEW id, NEW owner, NEW b, NEW r
  PROVE  /\ Conversation(id, owner, b, r).id = id
         /\ Conversation(id, owner, b, r).user = owner
         /\ Conversation(id, owner, b, r).title = b
         /\ Conversation(id, owner, b, r).by = r
         /\ id \in Ids /\ owner \in Users /\ b \in Bodies /\ r \in Requests =>
              Conversation(id, owner, b, r) \in [id : Ids, user : Users, title : Bodies, by : Requests]
         /\ Message(id, owner, b, r).id = id
         /\ Message(id, owner, b, r).conv = owner
         /\ Message(id, owner, b, r).body = b
         /\ Message(id, owner, b, r).by = r
         /\ id \in MessageIds /\ owner \in Ids /\ b \in Bodies /\ r \in Requests =>
              Message(id, owner, b, r) \in [id : MessageIds, conv : Ids, body : Bodies, by : Requests]
  BY DEF Conversation, Message

\* What a request asked for.
LEMMA AskedTyped ==
  ASSUME TypeOK, NEW r \in Requests
  PROVE  /\ asked[r].user \in Users /\ asked[r].conv \in Ids
         /\ asked[r].row \in MessageIds \cup {Title}
         /\ asked[r].text \in {"plain", "sensitive"}
  BY DEF TypeOK, Asked

\* A scan gives a body, raw only while no policy is on, and never "generic".
LEMMA ScanFacts ==
  ASSUME NEW text \in {"plain", "sensitive"}, NEW p \in Policies
  PROVE  Scanned(text, p) \in Bodies /\ (Scanned(text, p) = "raw" => p = "off")
  BY DEF Scanned, Bodies, Policies

-----------------------------------------------------------------------------
(* Steps that leave the rows alone.                                        *)

\* Such a step needs to keep the shapes, the standing of the requests and what
\* they hold; and answers nothing.
LEMMA QuietStep ==
  ASSUME IInv,
         UNCHANGED <<asked, conversations, messages, ghosts>>,
         policy' \in Policies, zeroRetention' \in BOOLEAN, edits' \in 0 .. MaxEdits,
         pc' \in [Requests -> Running \cup {"idle", "skipped", "refused", "saved", "added", "failed"}],
         body' \in [Requests -> Bodies],
         lax' \in [Requests -> SUBSET {"policy", "retention"}],
         \A r \in Requests : pc'[r] = "added" => pc[r] = "added",
         \A r \in Requests : pc[r] # "idle" => lax[r] \subseteq lax'[r],
         Progress', Settings'
  PROVE  IInv'
<1> USE DEF IInv
<1>1. TypeOK'
  BY DEF TypeOK, Rows, ghosts
<1>2. Authorship'
  BY DEF Authorship
<1>3. AtRestObeysSettings'
  <2>1. \A k \in conversations : k.by \in Requests /\ pc[k.by] # "idle"
    BY DEF TypeOK, Progress
  <2>2. \A m \in messages : m.by \in Requests /\ pc[m.by] # "idle"
    BY DEF TypeOK, Progress
  <2> QED
    BY <2>1, <2>2 DEF AtRestObeysSettings, Obeys
<1>4. OwnersOnly'
  BY DEF OwnersOnly, ghosts
<1>5. AnsweredIsKept'
  BY DEF AnsweredIsKept, ghosts
<1> QED
  BY <1>1, <1>2, <1>3, <1>4, <1>5

LEMMA BeginIInv == ASSUME IInv, NEW r \in Requests, Begin(r) PROVE IInv'
<1> USE DEF IInv
<1>1. /\ pc[r] = "idle"
      /\ pc' \in [Requests -> Running \cup {"idle", "skipped", "refused", "saved", "added", "failed"}]
      /\ \A q \in Requests \ {r} : pc'[q] = pc[q] /\ lax'[q] = lax[q]
      /\ pc'[r] \in {"save", "skipped", "redact", "ensure"}
      /\ pc'[r] = "redact" => asked[r].row = Title /\ ~ zeroRetention
      /\ pc'[r] = "ensure" => asked[r].row # Title /\ ~ zeroRetention
      /\ lax'[r] = LaxSettings(policy, zeroRetention)
      /\ lax' \in [Requests -> SUBSET {"policy", "retention"}]
      /\ UNCHANGED <<asked, policy, zeroRetention, edits, conversations, messages, body, ghosts>>
  BY DEF Begin, Goto, TypeOK, Running, LaxSettings, orgVars, rowVars
<1>2. Progress'
  BY <1>1 DEF Progress, Rows, Owns, ghosts
<1>3. Settings'
  BY <1>1 DEF Settings, Obeys, Progress, LaxSettings
<1> QED
  BY <1>1, <1>2, <1>3, QuietStep DEF TypeOK

LEMMA GuardIInv == ASSUME IInv, NEW r \in Requests, Guard(r) PROVE IInv'
<1> USE DEF IInv
<1>1. /\ pc[r] = "guard"
      /\ pc' \in [Requests -> Running \cup {"idle", "skipped", "refused", "saved", "added", "failed"}]
      /\ \A q \in Requests \ {r} : pc'[q] = pc[q]
      /\ pc'[r] \in {"redact", "refused"}
      /\ pc'[r] = "redact" => \E k \in Rows(asked[r].conv) : Owns(k, r)
      /\ UNCHANGED <<asked, policy, zeroRetention, edits, conversations, messages, body, ghosts, lax>>
  BY DEF Guard, Goto, TypeOK, Running, orgVars, rowVars
<1>2. Progress'
  BY <1>1 DEF Progress, Rows, Owns, ghosts
<1>3. Settings'
  BY <1>1 DEF Settings, Obeys, Running
<1> QED
  BY <1>1, <1>2, <1>3, QuietStep DEF TypeOK

LEMMA RedactIInv == ASSUME IInv, NEW r \in Requests, Redact(r) PROVE IInv'
<1> USE DEF IInv
<1>1. /\ pc[r] = "redact"
      /\ pc' \in [Requests -> Running \cup {"idle", "skipped", "refused", "saved", "added", "failed"}]
      /\ \A q \in Requests \ {r} : pc'[q] = pc[q] /\ body'[q] = body[q]
      /\ pc'[r] \in {"save", "insert"}
      /\ pc'[r] = "insert" => asked[r].row # Title
      /\ body'[r] = Scanned(asked[r].text, policy)
      /\ UNCHANGED <<asked, policy, zeroRetention, edits, conversations, messages, ghosts, lax>>
  BY DEF Redact, Goto, TypeOK, Running, orgVars, rowVars
<1>2. body' \in [Requests -> Bodies] /\ (body'[r] = "raw" => policy = "off")
  BY <1>1, AskedTyped, ScanFacts DEF Redact, TypeOK
<1>3. Progress'
  BY <1>1 DEF Progress, Rows, Owns, ghosts
<1>4. Settings'
  BY <1>1, <1>2 DEF Settings, Obeys, Running, LaxSettings
<1> QED
  BY <1>1, <1>2, <1>3, <1>4, QuietStep DEF TypeOK

LEMMA FailsIInv == ASSUME IInv, NEW r \in Requests, Fails(r) PROVE IInv'
<1> USE DEF IInv
<1>1. /\ pc[r] \in Running
      /\ pc' \in [Requests -> Running \cup {"idle", "skipped", "refused", "saved", "added", "failed"}]
      /\ \A q \in Requests \ {r} : pc'[q] = pc[q]
      /\ pc'[r] = "failed"
      /\ UNCHANGED <<asked, policy, zeroRetention, edits, conversations, messages, body, ghosts, lax>>
  BY DEF Fails, Goto, TypeOK, Running, orgVars, rowVars
<1>2. Progress'
  BY <1>1 DEF Progress, Rows, Owns, ghosts
<1>3. Settings'
  BY <1>1 DEF Settings, Obeys, Running
<1> QED
  BY <1>1, <1>2, <1>3, QuietStep DEF TypeOK

LEMMA EditIInv ==
  ASSUME IInv, NEW p \in Policies, NEW zero \in BOOLEAN, Edit(p, zero) PROVE IInv'
<1> USE DEF IInv
<1>1. /\ policy' = p /\ zeroRetention' = zero /\ edits' \in 0 .. MaxEdits
      /\ lax' = [r \in Requests |-> IF pc[r] \in Running THEN lax[r] \cup LaxSettings(p, zero)
                                                         ELSE lax[r]]
      /\ UNCHANGED <<asked, conversations, messages, pc, body, ghosts>>
  BY ConversationsAssumption DEF Edit, TypeOK, rowVars
<1>2. /\ lax' \in [Requests -> SUBSET {"policy", "retention"}]
      /\ \A r \in Requests : lax[r] \subseteq lax'[r]
  BY <1>1 DEF TypeOK, LaxSettings
<1>3. Progress'
  BY <1>1 DEF Progress, Rows, Owns, ghosts
<1>4. Settings'
  BY <1>1, <1>2 DEF Settings, Obeys, Running
<1> QED
  BY <1>1, <1>2, <1>3, <1>4, QuietStep DEF TypeOK

-----------------------------------------------------------------------------
(* Steps on the rows.                                                      *)

\* What they all leave alone, and how one request moves on.
Moves(r, where) ==
  /\ pc' \in [Requests -> Running \cup {"idle", "skipped", "refused", "saved", "added", "failed"}]
  /\ \A q \in Requests \ {r} : pc'[q] = pc[q]
  /\ pc'[r] \in {where, "failed"}
  /\ UNCHANGED <<asked, policy, zeroRetention, edits, body, deleted, lax>>

LEMMA MovesSettings ==
  ASSUME IInv, NEW r \in Requests, NEW where, Moves(r, where),
         pc[r] \in Running, where \notin {"ensure", "redact"},
         where = "guard" => pc[r] = "ensure"
  PROVE  Settings'
  BY DEF IInv, Settings, Obeys, Moves, Running

\* The conversation is made with a title that says nothing, for who asked.
LEMMA EnsureIInv == ASSUME IInv, NEW r \in Requests, Ensure(r) PROVE IInv'
<1> USE DEF IInv
<1> DEFINE new == Conversation(asked[r].conv, asked[r].user, "generic", r)
<1>1. pc[r] = "ensure" /\ Moves(r, "guard") /\ messages' = messages /\ wrote' = wrote
  BY DEF Ensure, Moves, Written, Goto, ghosts, TypeOK, Running, orgVars
<1>2. CASE Rows(asked[r].conv) # {}
  <2>1. conversations' = conversations
    BY <1>2 DEF Ensure
  <2>2. Progress'
    BY <1>1, <2>1 DEF Progress, Moves, Rows, Owns
  <2>3. Settings'
    BY <1>1, MovesSettings DEF Running
  <2> QED
    BY <1>1, <2>1, <2>2, <2>3, QuietStep DEF Moves, TypeOK, ghosts
<1>3. CASE Rows(asked[r].conv) = {}
  <2>1. conversations' = conversations \cup {new}
    BY <1>3 DEF Ensure
  <2>2. /\ new.id = asked[r].conv /\ new.user = asked[r].user /\ new.title = "generic" /\ new.by = r
        /\ new \in [id : Ids, user : Users, title : Bodies, by : Requests]
    BY AskedTyped, NewRowsTyped DEF Bodies
  <2> HIDE DEF new
  <2>3. \A k \in conversations : k.id # new.id
    BY <1>3, <2>2 DEF Rows
  <2>4. \A id : Rows(id) \subseteq Rows(id)'
    BY <2>1 DEF Rows
  <2>5. TypeOK'
    <3>1. \A k, l \in conversations' : k.id = l.id => k = l
      BY <2>1, <2>3 DEF TypeOK
    <3>2. \A m \in messages' : Rows(m.conv)' # {}
      BY <1>1, <2>4 DEF TypeOK
    <3> QED
      BY <1>1, <2>1, <2>2, <3>1, <3>2 DEF TypeOK, Moves
  <2>6. Progress'
    <3>1. \A q \in Requests : \A k \in Rows(asked[q].conv) : k \in Rows(asked[q].conv)' /\ (Owns(k, q) => Owns(k, q)')
      BY <1>1, <2>4 DEF Owns, Moves, Rows
    <3> QED
      BY <1>1, <2>1, <2>2, <3>1 DEF Progress, Moves
  <2>7. Settings'
    BY <1>1, MovesSettings DEF Running
  <2>8. Authorship' /\ AnsweredIsKept'
    BY <1>1 DEF Authorship, AnsweredIsKept, Moves
  <2>9. AtRestObeysSettings'
    BY <1>1, <2>1, <2>2 DEF AtRestObeysSettings, Obeys, Moves
  <2>10. OwnersOnly'
    <3>1. \A m \in messages : m.conv # new.id
      BY <2>2, <1>3 DEF TypeOK
    <3> QED
      BY <1>1, <2>1, <2>2, <3>1 DEF OwnersOnly, Moves
  <2> QED
    BY <2>5, <2>6, <2>7, <2>8, <2>9, <2>10
<1> QED
  BY <1>2, <1>3

\* The title replaces one of the same owner, or is of a new conversation.
LEMMA SaveIInv == ASSUME IInv, NEW r \in Requests, Save(r) PROVE IInv'
<1> USE DEF IInv
<1> DEFINE new == Conversation(asked[r].conv, asked[r].user, body[r], r)
<1>1. pc[r] = "save" /\ Moves(r, "saved") /\ messages' = messages /\ wrote' = wrote
  BY DEF Save, Moves, Written, Goto, ghosts, TypeOK, Running, orgVars
<1>2. Settings'
  BY <1>1, MovesSettings DEF Running
<1>3. /\ new.id = asked[r].conv /\ new.user = asked[r].user /\ new.title = body[r] /\ new.by = r
      /\ new \in [id : Ids, user : Users, title : Bodies, by : Requests]
  BY AskedTyped, NewRowsTyped DEF TypeOK
<1>4. \A k \in conversations : k.id = new.id /\ Owns(k, r) => Retitled(k, r) = new
  BY <1>3 DEF Retitled, Owns
<1> HIDE DEF new
<1>5. \A k \in conversations : Retitled(k, r) = IF k.id = new.id /\ k.user = new.user THEN new ELSE k
  BY <1>3, <1>4 DEF Retitled, Owns
<1>6. /\ \A k \in conversations' : k = new \/ (k \in conversations /\ (k.id # new.id \/ k.user # new.user))
      /\ \A k \in conversations : \E l \in conversations' : l.id = k.id /\ l.user = k.user
      /\ new \in conversations' =>
           \A k \in conversations : k.id = new.id => k.user = new.user
  <2>1. CASE Rows(asked[r].conv) = {}
    <3>1. conversations' = conversations \cup {new}
      BY <2>1 DEF Save, new
    <3>2. \A k \in conversations : k.id # new.id
      BY <1>3, <2>1 DEF Rows
    <3> QED
      BY <3>1, <3>2
  <2>2. CASE Rows(asked[r].conv) # {}
    <3>1. conversations' = {Retitled(k, r) : k \in conversations}
      BY <2>2 DEF Save
    <3>2. PICK old \in conversations : old.id = new.id
      BY <1>3, <2>2 DEF Rows
    <3>3. \A k \in conversations : k.id = new.id => k = old
      BY <3>2 DEF TypeOK
    <3>4. new \in conversations' => old.user = new.user
      <4>1. ASSUME NEW k \in conversations, Retitled(k, r) = new PROVE old.user = new.user
        BY <1>5, <3>3, <4>1
      <4> QED
        BY <3>1, <4>1
    <3> QED
      BY <1>5, <3>1, <3>3, <3>4
  <2> QED
    BY <2>1, <2>2
<1>7. TypeOK'
  <2>1. ASSUME NEW k \in conversations', NEW l \in conversations', k.id = l.id PROVE k = l
    BY <1>6, <2>1 DEF TypeOK
  <2>2. \A m \in messages' : Rows(m.conv)' # {}
    BY <1>1, <1>6 DEF TypeOK, Rows
  <2>3. conversations' \subseteq [id : Ids, user : Users, title : Bodies, by : Requests]
    BY <1>3, <1>6 DEF TypeOK
  <2> QED
    BY <1>1, <2>1, <2>2, <2>3 DEF TypeOK, Moves
<1>8. Progress'
  <2>1. ASSUME NEW q \in Requests, \E k \in Rows(asked[q].conv) : Owns(k, q)
        PROVE  \E k \in Rows(asked[q].conv)' : Owns(k, q)'
    <3>1. PICK k \in conversations : k.id = asked[q].conv /\ k.user = asked[q].user
      BY <2>1 DEF Rows, Owns
    <3>2. PICK l \in conversations' : l.id = k.id /\ l.user = k.user
      BY <1>6
    <3> QED
      BY <1>1, <3>1, <3>2 DEF Rows, Owns, Moves
  <2> QED
    BY <1>1, <1>3, <1>6, <2>1 DEF Progress, Moves
<1>9. Authorship' /\ AnsweredIsKept'
  BY <1>1 DEF Authorship, AnsweredIsKept, Moves
<1>10. AtRestObeysSettings'
  BY <1>1, <1>3, <1>6 DEF AtRestObeysSettings, Obeys, Moves, Settings
<1>11. OwnersOnly'
  <2>1. ASSUME new \in conversations', NEW m \in messages, m.conv = new.id
        PROVE  asked[m.by].user = new.user \/ new.id \in deleted
    <3>1. PICK k \in conversations : k.id = new.id
      BY <2>1 DEF TypeOK, Rows
    <3>2. k.user = new.user
      BY <1>6, <2>1, <3>1
    <3> QED
      BY <2>1, <3>1, <3>2 DEF OwnersOnly
  <2> QED
    BY <1>1, <1>3, <1>6, <2>1 DEF OwnersOnly, Moves
<1> QED
  BY <1>2, <1>7, <1>8, <1>9, <1>10, <1>11

\* The message is stored for the owner of its conversation, or its id was taken.
LEMMA InsertIInv == ASSUME IInv, NEW r \in Requests, Insert(r) PROVE IInv'
<1> USE DEF IInv
<1> DEFINE new == Message(asked[r].row, asked[r].conv, body[r], r)
<1>1. pc[r] = "insert" /\ Moves(r, "added") /\ conversations' = conversations
  BY DEF Insert, Moves, Written, Goto, TypeOK, Running, orgVars
<1>2. Settings'
  BY <1>1, MovesSettings DEF Running
<1>3. \/ Stored(asked[r].row) # {} /\ messages' = messages
      \/ /\ Stored(asked[r].row) = {} /\ Rows(asked[r].conv) # {}
         /\ messages' = messages \cup {new}
  BY DEF Insert, UnlessTaken
<1>4. /\ new.id = asked[r].row /\ new.conv = asked[r].conv /\ new.body = body[r] /\ new.by = r
      /\ new \in [id : MessageIds, conv : Ids, body : Bodies, by : Requests]
  <2>1. asked[r].row \in MessageIds
    BY <1>1, AskedTyped DEF Progress
  <2> QED
    BY <2>1, AskedTyped, NewRowsTyped DEF TypeOK
<1> HIDE DEF new
<1>5. /\ \A m \in messages' : m \in messages \/ (m = new /\ Stored(new.id) = {} /\ Rows(new.conv) # {})
      /\ messages \subseteq messages'
      /\ \E m \in messages' : m.id = asked[r].row
  BY <1>3, <1>4 DEF Stored
<1>6. TypeOK'
  <2>1. \A m, n \in messages' : m.id = n.id => m = n
    BY <1>5 DEF TypeOK, Stored
  <2>2. \A m \in messages' : Rows(m.conv)' # {}
    BY <1>1, <1>5 DEF TypeOK, Rows
  <2>3. messages' \subseteq [id : MessageIds, conv : Ids, body : Bodies, by : Requests]
    BY <1>4, <1>5 DEF TypeOK
  <2> QED
    BY <1>1, <2>1, <2>2, <2>3 DEF TypeOK, Moves, Insert
<1>7. Progress'
  <2>1. \A q \in Requests : /\ Rows(asked[q].conv)' = Rows(asked[q].conv)
                            /\ \A k : Owns(k, q)' = Owns(k, q)
    BY <1>1 DEF Rows, Owns, Moves
  <2> QED
    BY <1>1, <1>4, <1>5, <2>1 DEF Progress, Moves
<1>8. Authorship'
  BY <1>1, <1>4, <1>5 DEF Authorship, Moves
<1>9. AnsweredIsKept'
  <2>1. wrote' = wrote \cup {m.by : m \in messages'}
    BY DEF Insert
  <2>2. \A q \in wrote' : (\E m \in messages' : m.by = q) \/ asked[q].conv \in deleted
    BY <1>5, <2>1 DEF AnsweredIsKept
  <2>3. PICK m \in messages' : m.id = asked[r].row
    BY <1>5
  <2>4. m.by \in wrote' /\ asked[m.by].row = asked[r].row
    BY <1>1, <1>8, <2>1, <2>3 DEF Authorship, Moves
  <2> QED
    BY <1>1, <2>1, <2>2, <2>4 DEF AnsweredIsKept, Moves
<1>10. AtRestObeysSettings'
  BY <1>1, <1>4, <1>5 DEF AtRestObeysSettings, Obeys, Moves, Settings
<1>11. OwnersOnly'
  <2>1. \A k \in conversations : k.id = new.conv => asked[r].user = k.user \/ k.id \in deleted
    <3>1. (\E k \in Rows(asked[r].conv) : Owns(k, r)) \/ asked[r].conv \in deleted
      BY <1>1 DEF Progress
    <3> QED
      BY <3>1, <1>4 DEF Rows, Owns, TypeOK
  <2> QED
    BY <1>1, <1>4, <1>5, <2>1 DEF OwnersOnly, Moves
<1> QED
  BY <1>2, <1>6, <1>7, <1>8, <1>9, <1>10, <1>11

\* A conversation goes with its messages, and its id is remembered.
LEMMA DeleteIInv ==
  ASSUME IInv, NEW u \in Users, NEW c \in Ids, Delete(u, c) PROVE IInv'
<1> USE DEF IInv
<1>1. /\ deleted' = deleted \cup {c}
      /\ UNCHANGED <<asked, policy, zeroRetention, edits, pc, body, wrote, lax>>
  BY DEF Delete, orgVars
<1>2. /\ \A k : k \in conversations' <=> k \in conversations /\ k.id # c
      /\ \A m : m \in messages' <=> m \in messages /\ m.conv # c
  BY DEF Delete, Cascade, Rows
<1>3. TypeOK'
  <2>1. \A m \in messages' : Rows(m.conv)' # {}
    BY <1>2 DEF TypeOK, Rows
  <2>2. /\ \A k, l \in conversations' : k.id = l.id => k = l
        /\ \A m, n \in messages' : m.id = n.id => m = n
        /\ conversations' \subseteq conversations /\ messages' \subseteq messages
    BY <1>2 DEF TypeOK
  <2> QED
    BY <1>1, <2>1, <2>2 DEF TypeOK
<1>4. Progress'
  <2>1. ASSUME NEW q \in Requests, \E k \in Rows(asked[q].conv) : Owns(k, q), asked[q].conv # c
        PROVE  \E k \in Rows(asked[q].conv)' : Owns(k, q)'
    BY <1>1, <1>2, <2>1 DEF Rows, Owns
  <2> QED
    BY <1>1, <1>2, <2>1 DEF Progress
<1>5. Settings' /\ Authorship'
  BY <1>1, <1>2 DEF Settings, Obeys, Authorship
<1>6. AtRestObeysSettings' /\ OwnersOnly'
  BY <1>1, <1>2 DEF AtRestObeysSettings, Obeys, OwnersOnly
<1>7. AnsweredIsKept'
  <2>1. ASSUME NEW m \in messages
        PROVE  m \in messages' \/ asked[m.by].conv \in deleted'
    BY <1>1, <1>2 DEF Authorship
  <2> QED
    BY <1>1, <2>1 DEF AnsweredIsKept
<1> QED
  BY <1>3, <1>4, <1>5, <1>6, <1>7

LEMMA StutterIInv == IInv /\ UNCHANGED vars => IInv'
<1> SUFFICES ASSUME IInv, UNCHANGED vars PROVE IInv'
  OBVIOUS
<1> USE DEF IInv, vars, orgVars, rowVars, ghosts
<1>1. Progress' /\ Settings'
  BY DEF Progress, Settings, Obeys, Rows, Owns
<1> QED
  BY <1>1, QuietStep DEF TypeOK

LEMMA InitIInv == Init => IInv
<1> SUFFICES ASSUME Init PROVE IInv
  OBVIOUS
<1> USE DEF Init
<1>1. TypeOK
  BY ConversationsAssumption DEF TypeOK, Bodies, Rows
<1>2. Progress /\ Settings /\ Authorship
  BY DEF Progress, Settings, Obeys, Authorship, Running
<1>3. AtRestObeysSettings /\ OwnersOnly /\ AnsweredIsKept
  BY DEF AtRestObeysSettings, OwnersOnly, AnsweredIsKept
<1> QED
  BY <1>1, <1>2, <1>3 DEF IInv

-----------------------------------------------------------------------------
(* The theorems.                                                           *)

\* The invariant holds of every behaviour: one case per action.
THEOREM Invariance == Spec => []IInv
<1>1. IInv /\ [Next]_vars => IInv'
  BY BeginIInv, EnsureIInv, GuardIInv, RedactIInv, SaveIInv, InsertIInv, FailsIInv,
     DeleteIInv, EditIInv, StutterIInv DEF Next
<1> QED
  BY InitIInv, <1>1, PTL DEF Spec

\* Ids stay unique and no message is without its conversation, although clients
\* choose the ids and deletes come between the statements of an insert.
THEOREM RowsConsistent == Spec => []TypeOK
<1>1. IInv => TypeOK
  BY DEF IInv
<1> QED
  BY Invariance, <1>1, PTL

\* What is at rest obeys a setting that was in force while it was being stored
\* (redact_for_store and zero_retention of conversations.rs).
THEOREM StoredObeysSettings == Spec => []AtRestObeysSettings
<1>1. IInv => AtRestObeysSettings
  BY DEF IInv
<1> QED
  BY Invariance, <1>1, PTL

\* Nobody writes into the conversation of another, but for a message whose
\* conversation was deleted, and its id taken, behind the guard of add_message.
THEOREM OnlyOwnersWrite == Spec => []OwnersOnly
<1>1. IInv => OwnersOnly
  BY DEF IInv
<1> QED
  BY Invariance, <1>1, PTL

\* A message that came to be a row is lost only with the conversation it was sent
\* to; one that was answered is such a row, or another request had its id.
THEOREM AnswersAreKept == Spec => []AnsweredIsKept
<1>1. IInv => AnsweredIsKept
  BY DEF IInv
<1> QED
  BY Invariance, <1>1, PTL
=============================================================================
