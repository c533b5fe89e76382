------------------------------- MODULE ApiKeys -------------------------------
(***************************************************************************)
(* The API keys of an organisation (control-plane/src/routes/keys.rs, and  *)
(* the personal ones of me.rs): created by a member, shown once, revoked,  *)
(* and deleted with the member who created them.                           *)
(*                                                                         *)
(* Every operation is one statement. A key is named by its value; a new    *)
(* key is a fresh one.                                                     *)
(***************************************************************************)
EXTENDS Naturals, FiniteSets

CONSTANTS
  Members,   \* the members of the organisation
  Keys       \* key values that may be generated

VARIABLES
  members,   \* rows of users
  apiKeys,   \* rows of api_keys
  generated  \* ghost: the keys generated so far; a random one is never repeated

keyVars == <<members, apiKeys, generated>>

KeyRow == [key : Keys, owner : Members, scope : {"org", "personal"}, revoked : BOOLEAN]

\* authenticate and resolve_org: WHERE key_hash = $1 AND revoked = FALSE.
LookupAny(k) == {row \in apiKeys : row.key = k}
Lookup(k) == {row \in apiKeys : row.key = k /\ ~ row.revoked}

\* The keys that were created and have ended since.
Ended == generated \ {row.key : row \in {x \in apiKeys : ~ x.revoked}}

KeysTypeOK ==
  /\ members \subseteq Members
  /\ apiKeys \subseteq KeyRow
  /\ generated \subseteq Keys

KeysInit ==
  /\ members = Members
  /\ apiKeys = {}
  /\ generated = {}

\* create of keys.rs and create_key of me.rs; the owner's row must be there
\* although a token outlives it.
CreateKey(u, k, scope) ==
  /\ u \in members
  /\ k \notin generated
  /\ generated' = generated \cup {k}
  /\ apiKeys' = apiKeys \cup {[key |-> k, owner |-> u, scope |-> scope, revoked |-> FALSE]}
  /\ UNCHANGED members

\* revoke of keys.rs: by a manager, any key of the organisation; revoke_key of
\* me.rs does the same to a personal key of its caller.
Revoke(k) ==
  /\ Lookup(k) # {}
  /\ apiKeys' = {[row EXCEPT !.revoked = @ \/ row.key = k] : row \in apiKeys}
  /\ UNCHANGED <<members, generated>>

\* delete of users.rs; api_keys.user_id cascades, whatever the key's scope.
RemoveMember(u) ==
  /\ u \in members
  /\ members' = members \ {u}
  /\ apiKeys' = {row \in apiKeys : row.owner # u}
  /\ UNCHANGED generated
=============================================================================
