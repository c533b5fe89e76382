--------------------------- MODULE Members_proofs ---------------------------
(***************************************************************************)
(* Proofs about Members, for any members and requests and any number of    *)
(* invites.                                                                *)
(*                                                                         *)
(* The argument: a new invite takes a token greater than all before it and *)
(* replaces what is pending of its member; what an acceptance writes is    *)
(* undone by nothing but the removal of the member, which is final.        *)
(***************************************************************************)
EXTENDS Members, TLAPS

\* The initial states satisfy the invariant: nobody was invited.
LEMMA InitIInv == Init => IInv
<1> SUFFICES ASSUME Init PROVE IInv
  OBVIOUS
<1> USE DEF Init
<1>1. TypeOK
  BY MembersAssumption
  DEF TypeOK, Steps, AboutMember, AboutToken, Issuing, Tokens, Exists, NoOne
<1>2. NewestPends /\ InvitedCanJoin /\ Closed
  BY DEF NewestPends, InvitedCanJoin, Closed, Exists, Statuses
<1> QED
  BY <1>1, <1>2 DEF IInv

\* The first statement of a re-invitation, an acceptance or a change of password
\* only reads.
LEMMA LookIInv ==
  ASSUME IInv, NEW r \in Requests,
         \/ \E m \in Members : Resend(r, m) \/ VerifyOld(r, m)
         \/ \E token \in 1 .. Len(issued) : ResolveInvite(r, token)
  PROVE  IInv'
<1> USE DEF IInv, TypeOK
<1>1. UNCHANGED <<status, password, invites, issued, expired, stranded>>
  BY DEF Resend, VerifyOld, ResolveInvite, userVars, inviteVars
<1>2. /\ pc[r] = "idle"
      /\ pc' = [pc EXCEPT ![r] = pc'[r]]
      /\ local' = [local EXCEPT ![r] = local'[r]]
      /\ \/ pc'[r] \in {"issueAgain", "verified"} /\ local'[r] \in Members
         \/ pc'[r] = "resolved" /\ local'[r] \in DOMAIN issued
  <2>1. CASE \E m \in Members : Resend(r, m) \/ VerifyOld(r, m)
    BY <2>1 DEF Resend, VerifyOld, Begin, Goto
  <2>2. CASE \E token \in 1 .. Len(issued) : ResolveInvite(r, token)
    <3>1. DOMAIN issued = 1 .. Len(issued)
      OBVIOUS
    <3> QED
      BY <2>2, <3>1 DEF ResolveInvite, Begin, Goto
  <2> QED
    BY <2>1, <2>2
<1>3. TypeOK'
  <2>1. DOMAIN issued \subseteq Tokens
    BY MembersAssumption DEF Tokens
  <2> QED
    BY <1>1, <1>2, <2>1
    DEF Exists, Steps, AboutMember, AboutToken, Issuing
<1>4. NewestPends'
  BY <1>1 DEF NewestPends
<1>5. InvitedCanJoin'
  BY <1>1, <1>2 DEF InvitedCanJoin, Pending, Exists
<1>6. Closed'
  BY <1>1, <1>2 DEF Closed, Exists
<1> QED
  BY <1>3, <1>4, <1>5, <1>6

\* A step that answers no acceptance keeps Closed if it keeps who was invited on
\* record and leaves a password with every member that has joined.
LEMMA ClosedKept ==
  ASSUME Closed, issued' = issued, invites' \subseteq invites,
         \A t \in DOMAIN issued : status'[issued[t]] # "none",
         \A q \in Requests : pc'[q] = "joined" =>
           /\ pc[q] = "joined" /\ local'[q] = local[q]
           /\ status'[issued[local[q]]] \in Statuses =>
                password'[issued[local[q]]] # NoPassword
  PROVE  Closed'
BY DEF Closed, Exists

\* The member of an answered acceptance, and its password while the row exists.
LEMMA JoinedMember ==
  ASSUME IInv, NEW q \in Requests, pc[q] = "joined"
  PROVE  /\ local[q] \in DOMAIN issued /\ issued[local[q]] \in Members
         /\ Exists(issued[local[q]]) => password[issued[local[q]]] # NoPassword
<1>1. local[q] \in DOMAIN issued
  BY DEF IInv, TypeOK, AboutToken
<1>2. issued[local[q]] \in Members
  <2>1. issued \in Seq(Members)
    BY DEF IInv, TypeOK
  <2> QED
    BY <1>1, <2>1
<1>3. Exists(issued[local[q]]) => password[issued[local[q]]] # NoPassword
  BY DEF IInv, Closed
<1> QED
  BY <1>1, <1>2, <1>3

\* A new row of users; its request goes on to issue the invite.
LEMMA CreateIInv ==
  ASSUME IInv, NEW r \in Requests, NEW m \in Members, Create(r, m)
  PROVE  IInv'
<1> USE DEF IInv, TypeOK, Create, Begin, Goto, inviteVars
<1>1. \A n \in Members : Exists(n)' <=> Exists(n) \/ n = m
  BY DEF Exists, Statuses
<1>2. ~ Exists(m)
  BY DEF Exists, Statuses
<1>3. TypeOK'
  BY <1>1 DEF Steps, AboutMember, AboutToken, Issuing, Statuses
<1>4. NewestPends'
  BY DEF NewestPends
<1>5. InvitedCanJoin'
  BY <1>1 DEF InvitedCanJoin, Pending
<1>6. Closed'
  <2>1. \A t \in DOMAIN issued : issued[t] # m
    BY DEF Closed
  <2>2. \A t \in DOMAIN issued : status'[issued[t]] # "none"
    BY DEF Closed
  <2>3. ASSUME NEW q \in Requests, pc'[q] = "joined"
        PROVE  /\ pc[q] = "joined" /\ local'[q] = local[q]
               /\ status'[issued[local[q]]] \in Statuses =>
                    password'[issued[local[q]]] # NoPassword
    <3>1. pc[q] = "joined" /\ local'[q] = local[q]
      BY <2>3
    <3>2. issued[local[q]] # m
      BY <2>1, <3>1, JoinedMember
    <3> QED
      BY <3>1, <3>2, JoinedMember DEF Exists
  <2> QED
    BY <2>2, <2>3, ClosedKept
<1> QED
  BY <1>3, <1>4, <1>5, <1>6

\* An invite is issued: the newest of its member, and its only pending one.
LEMMA IssueIInv ==
  ASSUME IInv, NEW r \in Requests, Issue(r)
  PROVE  IInv'
<1> USE DEF IInv, TypeOK, Issue, Goto, userVars
<1> DEFINE m == local[r]
           new == Len(issued) + 1
<1>1. m \in Members /\ Exists(m)
  BY DEF AboutMember, Issuing
<1>2. /\ Len(issued) \in Nat /\ DOMAIN issued = 1 .. Len(issued)
      /\ issued' \in Seq(Members) /\ Len(issued') = new
      /\ DOMAIN issued' = DOMAIN issued \cup {new}
      /\ issued'[new] = m /\ new \notin DOMAIN issued
      /\ \A t \in DOMAIN issued : issued'[t] = issued[t] /\ t < new
  BY <1>1
<1>3. /\ Invite(new, FALSE) \in invites'
      /\ \A i \in invites' : i = Invite(new, FALSE) \/ (i \in invites /\ i \notin Pending(m))
      /\ \A i \in invites : i \in invites' \/ i \in Pending(m)
  BY DEF Replaced
<1>4. TypeOK'
  <2>1. invites' \subseteq [token : DOMAIN issued', accepted : BOOLEAN]
    <3>1. Invite(new, FALSE) \in [token : DOMAIN issued', accepted : BOOLEAN]
      BY <1>2 DEF Invite
    <3>2. invites \subseteq [token : DOMAIN issued', accepted : BOOLEAN]
      BY <1>2
    <3> HIDE DEF m, new
    <3> QED
      BY <1>3, <3>1, <3>2
  <2>2. \A i \in invites' : Exists(issued'[i.token])
    BY <1>1, <1>2, <1>3 DEF Invite
  <2>3. /\ pc' \in [Requests -> Steps] /\ pc'[r] = "issued"
        /\ \A q \in Requests \ {r} : pc'[q] = pc[q]
    BY DEF Steps, AboutMember
  <2>4. new <= MaxInvites
    BY <1>2, MembersAssumption
  <2>5. \A q \in Requests : pc'[q] \in AboutToken => local[q] \in DOMAIN issued'
    BY <1>2, <2>3 DEF AboutToken
  <2>6. \A q \in Requests : pc'[q] \in AboutMember => local[q] \in Members
    BY <1>1, <2>3 DEF AboutMember
  <2>7. \A n \in Members :
          password[n] # NoPassword => pc'[password[n]] \in {"joined", "changed"}
    BY <2>3 DEF Issuing
  <2> QED
    BY <1>2, <2>1, <2>2, <2>3, <2>4, <2>5, <2>6, <2>7 DEF Exists
<1>5. NewestPends'
  <2> SUFFICES ASSUME NEW i \in invites', ~ i.accepted,
                      NEW t \in DOMAIN issued', issued'[t] = issued'[i.token]
               PROVE  t <= i.token
    BY DEF NewestPends
  <2>1. CASE i = Invite(new, FALSE)
    BY <1>2, <2>1 DEF Invite
  <2>2. CASE i \in invites /\ i \notin Pending(m)
    <3>1. i.token \in DOMAIN issued /\ issued[i.token] # m
      BY <2>2 DEF Pending
    <3>2. t \in DOMAIN issued /\ issued[t] = issued[i.token]
      BY <1>2, <3>1
    <3> QED
      BY <2>2, <3>2 DEF NewestPends
  <2> QED
    BY <1>3, <2>1, <2>2
<1>6. InvitedCanJoin'
  <2> SUFFICES ASSUME NEW n \in Members, Exists(n), password[n] = NoPassword
               PROVE  \/ Pending(n)' # {}
                      \/ \E q \in Requests : pc'[q] = "issueFirst" /\ local[q] = n
                      \/ n \in stranded
    BY DEF InvitedCanJoin, Exists
  <2>1. CASE n = m
    <3>1. Invite(new, FALSE) \in Pending(n)'
      BY <1>2, <1>3, <2>1 DEF Pending, Invite
    <3> QED
      BY <3>1
  <2>2. CASE n # m
    <3>1. Pending(n) \subseteq Pending(n)'
      BY <1>2, <1>3, <2>2 DEF Pending
    <3>2. \A q \in Requests : pc[q] = "issueFirst" /\ local[q] = n => pc'[q] = "issueFirst"
      BY <2>2
    <3> QED
      BY <3>1, <3>2 DEF InvitedCanJoin
  <2> QED
    BY <2>1, <2>2
<1>7. Closed'
  <2>1. \A t \in DOMAIN issued' : status[issued'[t]] # "none"
    BY <1>1, <1>2 DEF Closed, Exists, Statuses
  <2>2. ASSUME NEW q \in Requests, pc'[q] = "joined"
        PROVE  /\ Invite(local[q], FALSE) \notin invites'
               /\ Exists(issued'[local[q]]) => password[issued'[local[q]]] # NoPassword
    <3>1. pc[q] = "joined" /\ local[q] \in DOMAIN issued
      BY <2>2 DEF AboutToken
    <3>2. Invite(local[q], FALSE) # Invite(new, FALSE)
      BY <1>2, <3>1 DEF Invite
    <3> QED
      BY <1>2, <1>3, <3>1, <3>2 DEF Closed
  <2> QED
    BY <2>1, <2>2 DEF Closed, Exists
<1> QED
  BY <1>4, <1>5, <1>6, <1>7

\* A transaction that fails writes nothing.
LEMMA FailsIInv ==
  ASSUME IInv, NEW r \in Requests, IssueFails(r) \/ WriteFails(r)
  PROVE  IInv'
<1> USE DEF IInv, TypeOK
<1>1. UNCHANGED <<status, password, invites, issued, expired, local>>
  BY DEF IssueFails, WriteFails, userVars, inviteVars
<1>2. /\ pc[r] \in Issuing \cup {"resolved", "verified"}
      /\ pc' = [pc EXCEPT ![r] = "failed"]
      /\ stranded \subseteq stranded' /\ stranded' \subseteq stranded \cup {local[r]}
      /\ pc[r] = "issueFirst" => local[r] \in stranded'
      /\ pc[r] # "issueFirst" => stranded' = stranded
  BY DEF IssueFails, WriteFails, Issuing, Goto
<1>3. TypeOK'
  BY <1>1, <1>2 DEF Exists, Steps, AboutMember, AboutToken, Issuing
<1>4. NewestPends'
  BY <1>1 DEF NewestPends
<1>5. InvitedCanJoin'
  BY <1>1, <1>2 DEF InvitedCanJoin, Pending, Exists
<1>6. Closed'
  BY <1>1, <1>2 DEF Closed, Exists
<1> QED
  BY <1>3, <1>4, <1>5, <1>6

\* An acceptance stamps its token, of whatever member, and no other.
LEMMA StampFacts ==
  ASSUME TypeOK, NEW token
  PROVE  /\ Stamp(token) \subseteq [token : DOMAIN issued, accepted : BOOLEAN]
         /\ Invite(token, FALSE) \notin Stamp(token)
         /\ \A i \in Stamp(token) : ~ i.accepted => i \in invites
         /\ \A i \in Stamp(token) : \E j \in invites : j.token = i.token
         /\ \A i \in invites : i.token # token => i \in Stamp(token)
<1> USE DEF TypeOK, Invite
<1>1. \A i \in Stamp(token) :
        \/ i \in invites /\ i.token # token
        \/ /\ i = Invite(token, TRUE)
           /\ \E j \in invites : j.token = token
  BY DEF Stamp
<1>2. \A i \in invites : i.token # token => i \in Stamp(token)
  BY DEF Stamp
<1>3. ASSUME NEW i \in Stamp(token)
      PROVE  i \in [token : DOMAIN issued, accepted : BOOLEAN]
  <2>1. CASE i \in invites
    BY <2>1
  <2>2. CASE i = Invite(token, TRUE) /\ \E j \in invites : j.token = token
    <3>1. token \in DOMAIN issued
      BY <2>2
    <3> QED
      BY <2>2, <3>1
  <2> QED
    BY <1>1, <2>1, <2>2
<1>4. Stamp(token) \subseteq [token : DOMAIN issued, accepted : BOOLEAN]
  BY <1>3
<1> QED
  BY <1>1, <1>2, <1>4

\* An acceptance writes the password of the member, if there still is one.
LEMMA AcceptIInv ==
  ASSUME IInv, NEW r \in Requests, AcceptInvite(r)
  PROVE  IInv'
<1> USE DEF IInv, TypeOK, AcceptInvite, Goto
<1> DEFINE token == local[r]
           m == issued[token]
<1>1. token \in DOMAIN issued /\ m \in Members /\ r # NoPassword
  BY MembersAssumption DEF AboutToken
<1>2. /\ pc'[r] = "joined" /\ pc' \in [Requests -> Steps]
      /\ \A q \in Requests \ {r} : pc'[q] = pc[q]
  BY DEF Steps, AboutToken
<1>3. /\ \A n \in Members : Exists(n)' <=> Exists(n)
      /\ status' \in [Members -> Statuses \cup {"none", "gone"}]
      /\ \A n \in Members : status[n] # "none" => status'[n] # "none"
  BY <1>1 DEF Exists, Statuses
<1>4. /\ password' \in [Members -> Requests \cup {NoPassword}]
      /\ Exists(m) => password'[m] = r
      /\ \A n \in Members : n # m \/ ~ Exists(m) => password'[n] = password[n]
      /\ \A n \in Members : password[n] # NoPassword => password'[n] # NoPassword
  BY <1>1
<1>5. TypeOK'
  <2>1. invites' \subseteq [token : DOMAIN issued, accepted : BOOLEAN]
    BY StampFacts
  <2>2. \A i \in invites' : Exists(issued[i.token])'
    <3>1. \A i \in invites' : \E j \in invites : j.token = i.token
      BY StampFacts
    <3>2. \A i \in invites' : issued[i.token] \in Members
      BY <2>1
    <3> QED
      BY <1>3, <3>1, <3>2
  <2>3. \A n \in Members :
          password'[n] # NoPassword => pc'[password'[n]] \in {"joined", "changed"}
    BY <1>1, <1>2, <1>4
  <2>4. \A q \in Requests : pc'[q] \in AboutToken => local[q] \in DOMAIN issued
    BY <1>1, <1>2
  <2>5. \A q \in Requests : pc'[q] \in AboutMember => local[q] \in Members
    BY <1>2 DEF AboutMember, Issuing
  <2> QED
    BY <1>2, <1>3, <1>4, <2>1, <2>2, <2>3, <2>4, <2>5
<1>6. NewestPends'
  BY StampFacts DEF NewestPends
<1>7. InvitedCanJoin'
  <2> SUFFICES ASSUME NEW n \in Members, Exists(n)', password'[n] = NoPassword
               PROVE  \/ Pending(n)' # {}
                      \/ \E q \in Requests : pc'[q] = "issueFirst" /\ local[q] = n
                      \/ n \in stranded
    BY DEF InvitedCanJoin
  <2>1. Exists(n) /\ n # m /\ password[n] = NoPassword
    BY <1>1, <1>3, <1>4
  <2>2. Pending(n) \subseteq Pending(n)'
    BY <2>1, StampFacts DEF Pending
  <2>3. \A q \in Requests : pc[q] = "issueFirst" => pc'[q] = "issueFirst"
    BY <1>2
  <2> QED
    BY <2>1, <2>2, <2>3 DEF InvitedCanJoin
<1>8. Closed'
  <2>1. \A t \in DOMAIN issued : status'[issued[t]] # "none"
    BY <1>3 DEF Closed
  <2>2. ASSUME NEW q \in Requests, pc'[q] = "joined"
        PROVE  /\ Invite(local[q], FALSE) \notin invites'
               /\ Exists(issued[local[q]])' => password'[issued[local[q]]] # NoPassword
    <3>1. CASE q = r
      BY <1>1, <1>3, <1>4, <3>1, StampFacts
    <3>2. CASE q # r
      <4>1. pc[q] = "joined" /\ issued[local[q]] \in Members
        BY <1>2, <2>2, <3>2 DEF AboutToken
      <4>2. Invite(local[q], FALSE) \notin invites'
        BY <4>1, StampFacts DEF Closed, Invite
      <4> QED
        BY <1>3, <1>4, <4>1, <4>2 DEF Closed
    <3> QED
      BY <3>1, <3>2
  <2> QED
    BY <2>1, <2>2 DEF Closed
<1> QED
  BY <1>5, <1>6, <1>7, <1>8

\* A changed password takes the place of another, or of nothing when the row is
\* gone.
LEMMA ChangeIInv ==
  ASSUME IInv, NEW r \in Requests, ChangePassword(r)
  PROVE  IInv'
<1> USE DEF IInv, TypeOK, ChangePassword, Goto, inviteVars
<1>1. local[r] \in Members /\ r # NoPassword
  BY MembersAssumption DEF AboutMember
<1>2. /\ pc'[r] = "changed" /\ pc' \in [Requests -> Steps]
      /\ \A q \in Requests \ {r} : pc'[q] = pc[q]
  BY DEF Steps, AboutMember
<1>3. /\ password' \in [Members -> Requests \cup {NoPassword}]
      /\ \A n \in Members : password'[n] = password[n] \/ password'[n] = r
  BY <1>1
<1>4. TypeOK'
  BY <1>1, <1>2, <1>3 DEF Exists, AboutMember, AboutToken, Issuing
<1>5. NewestPends'
  BY DEF NewestPends
<1>6. InvitedCanJoin'
  BY <1>1, <1>2, <1>3 DEF InvitedCanJoin, Pending, Exists
<1>7. Closed'
  <2>1. \A q \in Requests : pc'[q] = "joined" => pc[q] = "joined"
    BY <1>2
  <2>2. \A n \in Members : password[n] # NoPassword => password'[n] # NoPassword
    BY <1>1, <1>3
  <2>3. \A q \in Requests :
          pc[q] = "joined" => local[q] \in DOMAIN issued /\ issued[local[q]] \in Members
    BY DEF AboutToken
  <2> QED
    BY <2>1, <2>2, <2>3 DEF Closed, Exists
<1> QED
  BY <1>4, <1>5, <1>6, <1>7

\* A removed row takes its invites along and never comes back.
LEMMA RemoveIInv ==
  ASSUME IInv, NEW m \in Members, Remove(m)
  PROVE  IInv'
<1> USE DEF IInv, TypeOK, Remove
<1>1. /\ \A n \in Members : Exists(n)' <=> Exists(n) /\ n # m
      /\ \A n \in Members : status[n] # "none" => status'[n] # "none"
  BY DEF Exists, Statuses
<1>2. \A n \in Members : n # m => password'[n] = password[n]
  OBVIOUS
<1>3. TypeOK'
  BY <1>1, <1>2, MembersAssumption
<1>4. NewestPends'
  BY DEF NewestPends
<1>5. InvitedCanJoin'
  BY <1>1, <1>2 DEF InvitedCanJoin, Pending
<1>6. Closed'
  <2>1. \A t \in DOMAIN issued : status'[issued[t]] # "none"
    BY <1>1 DEF Closed
  <2>2. ASSUME NEW q \in Requests, pc[q] = "joined"
        PROVE  status'[issued[local[q]]] \in Statuses =>
                 password'[issued[local[q]]] # NoPassword
    BY <1>1, <1>2, <2>2, JoinedMember DEF Exists
  <2> QED
    BY <1>1, <2>1, <2>2, ClosedKept
<1> QED
  BY <1>3, <1>4, <1>5, <1>6

\* An edit of the status, and the passing of time.
LEMMA EditIInv ==
  ASSUME IInv,
         \/ \E m \in Members, s \in Statuses : Update(m, s)
         \/ \E token \in 1 .. Len(issued) : Expire(token)
  PROVE  IInv'
<1> USE DEF IInv, TypeOK
<1>1. UNCHANGED <<password, invites, issued, pc, local, stranded>>
  BY DEF Update, Expire, userVars, inviteVars
<1>2. /\ status' \in [Members -> Statuses \cup {"none", "gone"}]
      /\ \A n \in Members : Exists(n)' <=> Exists(n)
      /\ \A n \in Members : status[n] # "none" => status'[n] # "none"
  BY DEF Update, Expire, Exists, Statuses, userVars
<1>3. expired' \subseteq DOMAIN issued
  <2>1. DOMAIN issued = 1 .. Len(issued) /\ expired \subseteq DOMAIN issued
    OBVIOUS
  <2>2. expired' = expired \/ \E token \in 1 .. Len(issued) : expired' = expired \cup {token}
    BY DEF Update, Expire
  <2> HIDE DEF IInv, TypeOK
  <2> QED
    BY <2>1, <2>2
<1>4. TypeOK'
  BY <1>1, <1>2, <1>3
<1>5. NewestPends' /\ InvitedCanJoin'
  BY <1>1, <1>2 DEF NewestPends, InvitedCanJoin, Pending
<1>6. Closed'
  <2>1. \A t \in DOMAIN issued : status'[issued[t]] # "none"
    BY <1>2 DEF Closed
  <2>2. ASSUME NEW q \in Requests, pc[q] = "joined"
        PROVE  status'[issued[local[q]]] \in Statuses =>
                 password'[issued[local[q]]] # NoPassword
    BY <1>1, <1>2, <2>2, JoinedMember DEF Exists
  <2> QED
    BY <1>1, <2>1, <2>2, ClosedKept
<1> QED
  BY <1>4, <1>5, <1>6

\* A stuttering step.
LEMMA StutterIInv == IInv /\ UNCHANGED vars => IInv'
<1> SUFFICES ASSUME IInv, UNCHANGED vars PROVE IInv'
  OBVIOUS
<1> USE DEF IInv, vars, userVars, inviteVars
<1>1. TypeOK'
  BY DEF TypeOK, Exists
<1>2. NewestPends' /\ InvitedCanJoin'
  BY DEF NewestPends, InvitedCanJoin, Pending, Exists
<1>3. Closed'
  BY DEF Closed, Exists
<1> QED
  BY <1>1, <1>2, <1>3

\* The invariant holds of every behaviour: one case per action.
THEOREM Invariance == Spec => []IInv
<1>1. IInv /\ [Next]_vars => IInv'
  BY LookIInv, CreateIInv, IssueIInv, FailsIInv, AcceptIInv, ChangeIInv, RemoveIInv,
     EditIInv, StutterIInv DEF Next
<1> QED
  BY InitIInv, <1>1, PTL DEF Spec

\* Type correctness: rows and tokens refer to each other, a stored password was
\* sent by a request that wrote one (users.rs and auth.rs).
THEOREM TypeCorrect == Spec => []TypeOK
<1>1. IInv => TypeOK
  BY DEF IInv
<1> QED
  BY Invariance, <1>1, PTL

\* However re-invitations and acceptances interleave, what is pending of a member
\* is its newest invite (issue_invite replaces the one before).
THEOREM NewestIsPending == Spec => []NewestPends
<1>1. IInv => NewestPends
  BY DEF IInv
<1> QED
  BY Invariance, <1>1, PTL

\* No member is left without a password and without an invite to set one, unless
\* its creation failed between its two statements (create in users.rs).
THEOREM CanJoin == Spec => []InvitedCanJoin
<1>1. IInv => InvitedCanJoin
  BY DEF IInv
<1> QED
  BY Invariance, <1>1, PTL

\* An answered acceptance closes the invitation to the requests that begin after
\* it (resolve_invite and resend_invite look before they write).
THEOREM LateRequestsRefused == Spec => LateRequestsFail
<1>1. ASSUME IInv, [Next]_vars, NEW r \in Requests, pc[r] = "idle"
      PROVE  /\ pc'[r] = "resolved" =>
                  \A other \in Requests : pc[other] = "joined" => local[other] # local'[r]
             /\ pc'[r] = "issueAgain" => Joined(local'[r]) = {}
  <2> USE <1>1 DEF IInv, TypeOK
  <2>1. ASSUME pc'[r] = "resolved"
        PROVE  Invite(local'[r], FALSE) \in invites
    BY <2>1 DEF Next, Create, Resend, VerifyOld, ResolveInvite, Issue, IssueFails,
                AcceptInvite, ChangePassword, WriteFails, Update, Remove, Expire, Begin,
                Goto, vars
  <2>2. ASSUME pc'[r] = "issueAgain"
        PROVE  Exists(local'[r]) /\ password[local'[r]] = NoPassword
    <3>1. CASE \E q \in Requests, m \in Members : Resend(q, m)
      BY <2>2, <3>1 DEF Resend, Begin, Goto
    <3>2. CASE ~ \E q \in Requests, m \in Members : Resend(q, m)
      BY <2>2, <3>2 DEF Next, Create, VerifyOld, ResolveInvite, Issue, IssueFails,
                        AcceptInvite, ChangePassword, WriteFails, Update, Remove, Expire,
                        Begin, Goto, vars
    <3> QED
      BY <3>1, <3>2
  <2> QED
    BY <2>1, <2>2 DEF Closed, Joined
<1>2. IInv /\ [Next]_vars =>
        [\A r \in Requests : pc[r] = "idle" =>
           /\ pc'[r] = "resolved" =>
                \A other \in Requests : pc[other] = "joined" => local[other] # local'[r]
           /\ pc'[r] = "issueAgain" => Joined(local'[r]) = {}]_vars
  BY <1>1
<1> QED
  BY Invariance, <1>2, PTL DEF Spec, LateRequestsFail
=============================================================================
