--------------------------------- MODULE Rag ---------------------------------
(***************************************************************************)
(* The knowledge base (control-plane/src/routes/rag.rs): an admin ingests  *)
(* documents, which are cut into chunks, embedded by an external service   *)
(* and stored in one transaction, and deletes them.                        *)
(*                                                                         *)
(* A document is named by the request that ingests it; a vector by the     *)
(* position of the chunk it embeds. What reads the rows (list, search, the *)
(* gateway's retrieval) is one statement each and changes nothing.         *)
(***************************************************************************)
EXTENDS Chunker

CONSTANTS
  Requests,    \* requests to ingest a document
  Windows,     \* values of <<CHUNK_CHARS, CHUNK_OVERLAP>> to look at
  Asked,       \* what the requests may bring: request -> content
  Replies(_)   \* n -> what the embeddings service may answer to n inputs

ASSUME AskedAssumption == \A asked \in Asked : asked \in [Requests -> Seq(Characters)]
ASSUME WindowsAssumption == \A w \in Windows : w \in Nat \X Nat

\* An item of an answer; `of` stands for the vector.
EmbedDatum == [index : Nat, of : Nat]

\* The contract of the embeddings service: an answer with a vector per input
\* names the input of each by its index, or has no indexes (they default to 0)
\* and lists the vectors in the order of the inputs.
IsReply(reply, n) ==
  /\ reply \in Seq(EmbedDatum)
  /\ Len(reply) = n =>
       \/ /\ \A k \in 1 .. n : reply[k].of = reply[k].index + 1
          /\ \A i \in 0 .. n - 1 : \E k \in 1 .. n : reply[k].index = i
          /\ \A k, l \in 1 .. n : reply[k].index = reply[l].index => k = l
          /\ \A k \in 1 .. n : reply[k].index < n
       \/ \A k \in 1 .. n : reply[k].of = k /\ reply[k].index = 0

ASSUME RepliesAssumption ==
  \A asked \in Asked, r \in Requests, w \in Windows :
    LET n == Len(ChunkText(asked[r], w[1], w[2]))
    IN \A reply \in Replies(n) : IsReply(reply, n)

VARIABLES
  window,      \* the constants of the deployment
  content,     \* request -> the document it brings
  pc,          \* request -> the await it is at, or how it ended
  chunks,      \* request -> its local `chunks`
  vectors,     \* request -> its local `vectors`
  documents,   \* rows of rag_documents
  rows,        \* rows of rag_chunks
  owed,        \* activity entries of handlers that have yet to write them
  activity,    \* rows of activity
  removed      \* ghost: the documents deleted so far

request == <<window, content>>
store == <<documents, rows, removed>>
feed == <<owed, activity>>
vars == <<request, pc, chunks, vectors, store, feed>>

Running == {"start", "embedding", "inserting"}
Entries == {"added document", "deleted document"} \X Requests

Init ==
  /\ window \in Windows
  /\ content \in Asked
  /\ pc = [r \in Requests |-> "start"]
  /\ chunks = [r \in Requests |-> <<>>]
  /\ vectors = [r \in Requests |-> <<>>]
  /\ documents = {} /\ rows = {} /\ removed = {}
  /\ owed = {} /\ activity = {}

Goto(r, where) == pc' = [pc EXCEPT ![r] = where]

\* Validation and chunking, up to the call to the embeddings service; a blank
\* document is refused.
Begin(r) ==
  /\ pc[r] = "start"
  /\ Body(content[r]) # <<>>
  /\ chunks' = [chunks EXCEPT ![r] = ChunkText(content[r], window[1], window[2])]
  /\ Goto(r, "embedding")
  /\ UNCHANGED <<request, vectors, store, feed>>

\* embed puts the answer in the order of the provider's indexes; sort_by_key
\* keeps the order of equal ones (a provider that sends none).
AsAnswered(reply) == reply
Ordered(reply) ==
  LET before(i) == {j \in DOMAIN reply : \/ reply[j].index < reply[i].index
                                         \/ reply[j].index = reply[i].index /\ j < i}
  IN [k \in DOMAIN reply |->
        reply[CHOOSE i \in DOMAIN reply : Cardinality(before(i)) = k - 1]]

CountUnchecked(r, reply) == reply # <<>>
CountMatches(r, reply) == reply # <<>> /\ Len(reply) = Len(chunks[r])

\* The service answers, with all the vectors or not.
Embedded(r) ==
  /\ pc[r] = "embedding"
  /\ \E reply \in Replies(Len(chunks[r])) :
       IF CountMatches(r, reply)
       THEN /\ vectors' = [vectors EXCEPT ![r] = [k \in DOMAIN reply |-> Ordered(reply)[k].of]]
            /\ Goto(r, "inserting")
       ELSE /\ UNCHANGED vectors
            /\ Goto(r, "failed")
  /\ UNCHANGED <<request, chunks, store, feed>>

\* The INSERTs of a transaction: the chunks zipped with the vectors.
Inserted(r) ==
  {[document |-> r, index |-> k - 1, span |-> chunks[r][k], of |-> vectors[r][k]] :
     k \in 1 .. Smaller(Len(chunks[r]), Len(vectors[r]))}

\* The transaction commits; the handler then writes to the activity feed, unless
\* the answer to COMMIT was lost.
Commit(r) ==
  /\ pc[r] = "inserting"
  /\ documents' = documents \cup {r}
  /\ rows' = rows \cup Inserted(r)
  /\ \/ Goto(r, "done") /\ owed' = owed \cup {<<"added document", r>>}
     \/ Goto(r, "failed") /\ UNCHANGED owed
  /\ UNCHANGED <<request, chunks, vectors, removed, activity>>

\* Before the commit: a refusal, an error of the service or of a statement, or a
\* client that leaves. The transaction, if there is one, rolls back.
Fails(r) ==
  /\ pc[r] \in Running
  /\ Goto(r, "failed")
  /\ UNCHANGED <<request, chunks, vectors, store, feed>>

\* delete: one statement, and the foreign key takes the chunks along.
Cascade(d) == {c \in rows : c.document # d}
Delete(d) ==
  /\ d \in documents
  /\ documents' = documents \ {d}
  /\ rows' = Cascade(d)
  /\ removed' = removed \cup {d}
  /\ owed' = owed \cup {<<"deleted document", d>>}
  /\ UNCHANGED <<request, pc, chunks, vectors, activity>>

\* record_activity writes the entry, or fails, or its handler is dropped.
Record(e) ==
  /\ e \in owed
  /\ owed' = owed \ {e}
  /\ activity' \in {activity, activity \cup {e}}
  /\ UNCHANGED <<request, pc, chunks, vectors, store>>

Next ==
  \/ \E r \in Requests : Begin(r) \/ Embedded(r) \/ Commit(r) \/ Fails(r) \/ Delete(r)
  \/ \E e \in Entries : Record(e)

Spec == Init /\ [][Next]_vars

-----------------------------------------------------------------------------
(* Properties.                                                             *)

\* The chunks of a document in the order of chunk_index.
ChunksOf(d) == {c \in rows : c.document = d}
Stored(d) ==
  [k \in 1 .. Cardinality(ChunksOf(d)) |->
     (CHOOSE c \in ChunksOf(d) : c.index = k - 1).span]

\* A document is there with all its chunks or not at all, whatever failed: the
\* transaction of ingest (rag.rs:76-101), the check of the number of vectors
\* (72-74) and the cascade of delete. What was answered is there until it is
\* deleted, and the feed tells of what happened only.
AllOrNothing ==
  /\ \A c \in rows : c.document \in documents
  /\ \A d \in documents : Len(Stored(d)) = Len(chunks[d]) /\ Stored(d) = chunks[d]
  /\ \A r \in Requests : pc[r] = "done" => r \in documents \cup removed
  /\ \A e \in activity : e[2] \in IF e[1] = "added document" THEN documents \cup removed
                                                             ELSE removed

\* "breaking on whitespace so words aren't cut" (embed/src/lib.rs:128-130): what
\* is stored of a document loses none of its characters, keeps every word that
\* fits whole in some chunk, and no chunk is longer than the window.
StoredCoversText ==
  \A d \in documents : CoversText(Body(content[d]), Stored(d), Window(window[1]))

\* The window moves on (embed/src/lib.rs:170-171): a chunk that only repeats text
\* of the one before it is stored at most before a word that does not fit in a
\* window beside the overlap.
ChunksAddText ==
  \A d \in documents :
    AddsText(Body(content[d]), Stored(d), Window(window[1]), Keep(window[1], window[2]))

\* "returning a vector per input (order preserved)" (embed/src/lib.rs:69): each
\* stored chunk has the vector of its own text, in whatever order the service
\* lists its answers.
VectorsAreTheirs == \A c \in rows : c.of = c.index + 1
=============================================================================
