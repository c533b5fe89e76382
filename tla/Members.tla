------------------------------- MODULE Members -------------------------------
(***************************************************************************)
(* Inviting members: an admin creates, re-invites, edits and removes them  *)
(* (control-plane/src/routes/users.rs), an invitee accepts the link with a *)
(* password, a member changes it (auth.rs).                                *)
(*                                                                         *)
(* Requests interleave between their statements; a transaction is one      *)
(* step, which commits or fails with nothing done. A request that is       *)
(* refused on its first statement is no step. What makes a password is the *)
(* request that sent it, so a request stands for the password in it.       *)
(***************************************************************************)
EXTENDS Naturals, Sequences, FiniteSets

CONSTANTS
  Members,      \* the rows of users there may be
  Requests,     \* requests, each one made once
  MaxInvites    \* bound on the invites issued

NoPassword == "null"

ASSUME MembersAssumption == MaxInvites \in Nat /\ NoPassword \notin Requests

VARIABLES
  status,     \* users: member -> its status, "none" before and "gone" after
  password,   \* users: member -> the request that set it, if any
  invites,    \* rows of invites
  issued,     \* the members invited so far; a token is an index in it
  expired,    \* the tokens past their expires_at
  pc,         \* request -> the statement it is at, or how it ended
  local,      \* request -> the member or the token it is about
  stranded    \* ghost: members whose first invite was not issued

userVars == <<status, password>>
inviteVars == <<invites, issued>>
vars == <<userVars, inviteVars, expired, pc, local, stranded>>

NoOne == 0
Statuses == {"invited", "active", "inactive"}
Exists(m) == status[m] \in Statuses

Invite(token, accepted) == [token |-> token, accepted |-> accepted]
Pending(m) == {i \in invites : ~ i.accepted /\ issued[i.token] = m}

\* What a new invite of a member replaces.
ReplacedOfAll(m) == {i \in invites : ~ i.accepted}
ReplacedExpired(m) == {i \in Pending(m) : i.token \in expired}
Replaced(m) == Pending(m)

-----------------------------------------------------------------------------
Init ==
  /\ status = [m \in Members |-> "none"]
  /\ password = [m \in Members |-> NoPassword]
  /\ invites = {}
  /\ issued = <<>>
  /\ expired = {}
  /\ pc = [r \in Requests |-> "idle"]
  /\ local = [r \in Requests |-> NoOne]
  /\ stranded = {}

Goto(r, step) == pc' = [pc EXCEPT ![r] = step]

Begin(r, step, about) ==
  /\ pc[r] = "idle"
  /\ Goto(r, step)
  /\ local' = [local EXCEPT ![r] = about]

\* create inserts the row and then issues its invite.
Create(r, m) ==
  /\ Begin(r, "issueFirst", m)
  /\ status[m] = "none"
  /\ status' = [status EXCEPT ![m] = "invited"]
  /\ UNCHANGED <<password, inviteVars, expired, stranded>>

\* resend_invite looks for a row without a password and then issues.
Resend(r, m) ==
  /\ Begin(r, "issueAgain", m)
  /\ Exists(m) /\ password[m] = NoPassword
  /\ UNCHANGED <<userVars, inviteVars, expired, stranded>>

\* issue_invite, one transaction: the pending invite of the member is replaced.
Issue(r) ==
  /\ pc[r] \in {"issueFirst", "issueAgain"}
  /\ Exists(local[r])
  /\ Len(issued) < MaxInvites
  /\ issued' = Append(issued, local[r])
  /\ invites' = (invites \ Replaced(local[r])) \cup {Invite(Len(issued) + 1, FALSE)}
  /\ Goto(r, "issued")
  /\ UNCHANGED <<userVars, expired, local, stranded>>

\* It fails (a lost connection, a concurrent invite of the member, its row
\* gone) or the client leaves: the row created before stays.
IssueFails(r) ==
  /\ pc[r] \in {"issueFirst", "issueAgain"}
  /\ Goto(r, "failed")
  /\ stranded' = IF pc[r] = "issueFirst" THEN stranded \cup {local[r]} ELSE stranded
  /\ UNCHANGED <<userVars, inviteVars, expired, local>>

-----------------------------------------------------------------------------
(* accept_invite: the token is resolved, the password hashed, then written. *)

ResolveInvite(r, token) ==
  /\ Begin(r, "resolved", token)
  /\ Invite(token, FALSE) \in invites
  /\ token \notin expired
  /\ UNCHANGED <<userVars, inviteVars, expired, stranded>>

StampNone(token) == invites
StampUpsert(token) == {i \in invites : i.token # token} \cup {Invite(token, TRUE)}
Stamp(token) ==
  {IF i.token = token THEN Invite(token, TRUE) ELSE i : i \in invites}

\* Both updates by their keys: a row that is gone is no error.
AcceptInvite(r) ==
  LET m == issued[local[r]] IN
  /\ pc[r] = "resolved"
  /\ password' = IF Exists(m) THEN [password EXCEPT ![m] = r] ELSE password
  /\ status' = IF Exists(m) THEN [status EXCEPT ![m] = "active"] ELSE status
  /\ invites' = Stamp(local[r])
  /\ Goto(r, "joined")
  /\ UNCHANGED <<issued, expired, local, stranded>>

\* change_password: the old one is verified against the row, then replaced.
VerifyOld(r, m) ==
  /\ Begin(r, "verified", m)
  /\ Exists(m) /\ password[m] # NoPassword
  /\ UNCHANGED <<userVars, inviteVars, expired, stranded>>

ChangePassword(r) ==
  LET m == local[r] IN
  /\ pc[r] = "verified"
  /\ password' = IF Exists(m) THEN [password EXCEPT ![m] = r] ELSE password
  /\ Goto(r, "changed")
  /\ UNCHANGED <<status, inviteVars, expired, local, stranded>>

WriteFails(r) ==
  /\ pc[r] \in {"resolved", "verified"}
  /\ Goto(r, "failed")
  /\ UNCHANGED <<userVars, inviteVars, expired, local, stranded>>

-----------------------------------------------------------------------------
(* One statement each: an admin edits or removes a member, time passes.    *)

Update(m, s) ==
  /\ Exists(m)
  /\ status' = [status EXCEPT ![m] = s]
  /\ UNCHANGED <<password, inviteVars, expired, pc, local, stranded>>

\* The invites of a removed member go with it (ON DELETE CASCADE).
Remove(m) ==
  /\ Exists(m)
  /\ status' = [status EXCEPT ![m] = "gone"]
  /\ password' = [password EXCEPT ![m] = NoPassword]
  /\ invites' = {i \in invites : issued[i.token] # m}
  /\ UNCHANGED <<issued, expired, pc, local, stranded>>

Expire(token) ==
  /\ Invite(token, FALSE) \in invites
  /\ expired' = expired \cup {token}
  /\ UNCHANGED <<userVars, inviteVars, pc, local, stranded>>

Next ==
  \/ \E r \in Requests :
       \/ \E m \in Members : Create(r, m) \/ Resend(r, m) \/ VerifyOld(r, m)
       \/ \E token \in 1 .. Len(issued) : ResolveInvite(r, token)
       \/ Issue(r) \/ IssueFails(r)
       \/ AcceptInvite(r) \/ ChangePassword(r) \/ WriteFails(r)
  \/ \E m \in Members : Remove(m) \/ \E s \in Statuses : Update(m, s)
  \/ \E token \in 1 .. Len(issued) : Expire(token)

Spec == Init /\ [][Next]_vars

-----------------------------------------------------------------------------
(* Properties.                                                             *)

Issuing == {"issueFirst", "issueAgain"}
AboutMember == Issuing \cup {"issued", "verified", "changed"}
AboutToken == {"resolved", "joined"}
Steps == {"idle", "failed"} \cup AboutMember \cup AboutToken
Tokens == 1 .. MaxInvites

\* Every variable keeps its shape, an invite is of a token that was issued, to a
\* member that exists, and a password was sent by a request that wrote one.
TypeOK ==
  /\ status \in [Members -> Statuses \cup {"none", "gone"}]
  /\ password \in [Members -> Requests \cup {NoPassword}]
  /\ issued \in Seq(Members) /\ Len(issued) <= MaxInvites
  /\ invites \subseteq [token : DOMAIN issued, accepted : BOOLEAN]
  /\ expired \subseteq DOMAIN issued
  /\ pc \in [Requests -> Steps]
  /\ local \in [Requests -> Members \cup Tokens \cup {NoOne}]
  /\ stranded \subseteq Members
  /\ \A r \in Requests : pc[r] \in AboutMember => local[r] \in Members
  /\ \A r \in Requests : pc[r] \in AboutToken => local[r] \in DOMAIN issued
  /\ \A i \in invites : Exists(issued[i.token])
  /\ \A m \in Members : password[m] # NoPassword => pc[password[m]] \in {"joined", "changed"}

\* A re-issued invite invalidates the ones before it (users.rs:182): what is
\* pending is the newest invite of its member, and so the only one, however
\* re-invitations and acceptances interleave.
NewestPends ==
  \A i \in invites : ~ i.accepted =>
    \A t \in DOMAIN issued : issued[t] = issued[i.token] => t <= i.token

\* A member without a password has an invite to set one, unless its first one is
\* being issued or failed to be: no acceptance, re-invitation or removal of
\* another member takes it away.
InvitedCanJoin ==
  \A m \in Members : Exists(m) /\ password[m] = NoPassword =>
    \/ Pending(m) # {}
    \/ \E r \in Requests : pc[r] = "issueFirst" /\ local[r] = m
    \/ m \in stranded

Joined(m) == {r \in Requests : pc[r] = "joined" /\ issued[local[r]] = m}

\* An acceptance, once answered, closes the invitation to whoever comes after: a
\* request that begins then neither resolves the same token nor re-invites the
\* member (while an overlapping one may still get through).
LateRequestsFail ==
  [][\A r \in Requests : pc[r] = "idle" =>
       /\ pc'[r] = "resolved" =>
            \A other \in Requests : pc[other] = "joined" => local[other] # local'[r]
       /\ pc'[r] = "issueAgain" => Joined(local'[r]) = {}]_vars

-----------------------------------------------------------------------------
(* The inductive invariant behind these.                                   *)

\* Who was invited has or had a row, and an answered acceptance has left its
\* token used and, while the row exists, a password.
Closed ==
  /\ \A t \in DOMAIN issued : status[issued[t]] # "none"
  /\ \A r \in Requests : pc[r] = "joined" =>
       /\ Invite(local[r], FALSE) \notin invites
       /\ Exists(issued[local[r]]) => password[issued[local[r]]] # NoPassword

IInv == TypeOK /\ NewestPends /\ InvitedCanJoin /\ Closed

\* users.rs:119-120 calls it "a one-time invite token": it lets one request set
\* a password.
InviteWorksOnce ==
  \A r, other \in Requests :
    {pc[r], pc[other]} = {"joined"} /\ local[r] = local[other] => r = other
=============================================================================
