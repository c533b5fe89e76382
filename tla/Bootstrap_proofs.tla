-------------------------- MODULE Bootstrap_proofs --------------------------
(***************************************************************************)
(* Proofs about Bootstrap, for any number of processes, addresses, default *)
(* policies, stops, failed queries and edits.                              *)
(*                                                                         *)
(* The argument: only an edit takes a row away, and the ghosts bereft and  *)
(* dropped then keep what it took. A process leaves the inserts of its     *)
(* bootstrap by finishing them, or by stopping, which the ghost torn keeps.*)
(***************************************************************************)
EXTENDS Bootstrap, TLAPS

\* The initial states satisfy the invariant: there are no rows.
LEMMA InitIInv == Init => IInv
<1> SUFFICES ASSUME Init PROVE IInv
  OBVIOUS
<1> USE DEF Init
<1>1. TypeOK
  BY BootstrapAssumption DEF TypeOK, Steps, UserRows
<1>2. Progress /\ AdminBeforeServing /\ UnprotectedOnlyIfTorn
  BY DEF Progress, AdminBeforeServing, UnprotectedOnlyIfTorn, Missing
<1> QED
  BY <1>1, <1>2 DEF IInv

\* The seed of the migrations brings one organisation and takes nothing away.
LEMMA SeedAdds ==
  ASSUME TypeOK, ApplySeed \/ UNCHANGED dbVars
  PROVE  /\ orgs \subseteq orgs' /\ orgs' \subseteq orgs \cup {DemoOrg}
         /\ users \subseteq users' /\ policies \subseteq policies'
         /\ orgs' \subseteq OrgIds
         /\ users' \subseteq UserRows
         /\ policies' \subseteq OrgIds \X (DefaultPolicies \cup {DemoPolicy})
         /\ \A u \in users' : u.org \in orgs'
         /\ \A row \in policies' : row[1] \in orgs'
<1>1. CASE UNCHANGED dbVars
  BY <1>1 DEF TypeOK, dbVars
<1>2. CASE ApplySeed /\ DemoOrg \notin orgs
  <2>1. /\ orgs' = orgs \cup {DemoOrg}
        /\ users' = users \cup {User(DemoOrg, DemoEmail, "Admin")}
        /\ policies' = policies \cup {<<DemoOrg, DemoPolicy>>}
    BY <1>2 DEF ApplySeed
  <2>2. DemoOrg \in OrgIds
    BY BootstrapAssumption DEF DemoOrg, OrgIds
  <2>3. /\ User(DemoOrg, DemoEmail, "Admin") \in UserRows
        /\ User(DemoOrg, DemoEmail, "Admin").org = DemoOrg
    BY <2>2 DEF User, UserRows, Roles
  <2>4. /\ <<DemoOrg, DemoPolicy>> \in OrgIds \X (DefaultPolicies \cup {DemoPolicy})
        /\ <<DemoOrg, DemoPolicy>>[1] = DemoOrg
    BY <2>2
  <2> QED
    BY <2>1, <2>2, <2>3, <2>4 DEF TypeOK
<1>3. CASE ApplySeed /\ DemoOrg \in orgs
  BY <1>1, <1>3 DEF ApplySeed
<1> QED
  BY <1>1, <1>2, <1>3

\* The steps before the first insert of a bootstrap move one process to where it
\* may be.
LEMMA StartIInv ==
  ASSUME IInv, NEW p \in Processes,
         Start(p) \/ Migrate(p) \/ Check(p) \/ MigrateFails(p) \/ CheckFails(p)
  PROVE  IInv'
<1> USE DEF IInv, TypeOK
<1>1. /\ UNCHANGED <<mode, joining, edits, dropped, torn>>
      /\ ApplySeed \/ UNCHANGED dbVars
      /\ \A q \in Processes \ {p} :
           /\ pc'[q] = pc[q] /\ mine'[q] = mine[q] /\ attempt'[q] = attempt[q]
           /\ left'[q] = left[q]
           /\ q \in bereft' <=> q \in bereft
  BY DEF Start, Migrate, Check, MigrateFails, CheckFails, Goto, editVars
<1>2. /\ pc[p] \in {"down", "migrate", "check"}
      /\ pc'[p] \in {"down", "migrate", "check", "org", "serving"}
      /\ pc'[p] = "serving" => mode = "dev" \/ AdminExists
      /\ mode = "dev" => pc'[p] \in {"down", "migrate", "serving"}
  BY DEF Start, Migrate, Check, MigrateFails, CheckFails, Goto, AfterCheck, Progress
<1>3. TypeOK'
  <2>1. pc' \in [Processes -> Steps]
    BY <1>2 DEF Start, Migrate, Check, MigrateFails, CheckFails, Goto, Steps
  <2>2. /\ mine' \in [Processes -> OrgIds \cup {NoOrg}]
        /\ left' \in [Processes -> SUBSET DefaultPolicies]
    BY DEF Start, Migrate, Check, MigrateFails, CheckFails
  <2>3. attempt' \in [Processes -> 0 .. MaxAttempts]
    BY BootstrapAssumption
    DEF Start, Migrate, Check, MigrateFails, CheckFails, Progress
  <2>4. faults' \in 0 .. MaxFaults
    BY BootstrapAssumption
    DEF Start, Migrate, Check, MigrateFails, CheckFails, Fault
  <2>5. bereft' \subseteq Processes
    BY DEF Start, Migrate, Check, MigrateFails, CheckFails, editVars
  <2>6. joining' \in [Processes -> [Emails -> orgs' \cup {NoOrg}]]
    BY <1>1, SeedAdds
  <2> QED
    BY <1>1, <2>1, <2>2, <2>3, <2>4, <2>5, <2>6, SeedAdds
<1>4. Progress'
  <2>1. pc'[p] = "migrate" => attempt'[p] < MaxAttempts
    BY BootstrapAssumption
    DEF Start, Migrate, Check, MigrateFails, CheckFails, Goto, AfterCheck, Progress
  <2>2. AdminExists => AdminExists'
    BY <1>1, SeedAdds DEF AdminExists, AdminRows
  <2> QED
    BY <1>1, <1>2, <2>1, <2>2, SeedAdds DEF Progress
<1>5. AdminBeforeServing'
  BY <1>1, <1>2, SeedAdds DEF AdminBeforeServing, AdminExists, AdminRows
<1>6. UnprotectedOnlyIfTorn'
  <2>1. Missing' \subseteq Missing
    BY <1>1, SeedAdds DEF Missing
  <2>2. \A q \in Processes : Unseeded(q) \subseteq Unseeded(q)'
    BY <1>1, <1>2 DEF Unseeded
  <2> QED
    BY <1>1, <2>1, <2>2 DEF UnprotectedOnlyIfTorn
<1> QED
  BY <1>3, <1>4, <1>5, <1>6

\* The bootstrap's own organisation is being seeded from its first row on.
LEMMA InsertOrgIInv ==
  ASSUME IInv, NEW p \in Processes, InsertOrg(p)
  PROVE  IInv'
<1> USE DEF IInv, TypeOK
<1> FreshOrg \in OrgIds /\ orgs' = orgs \cup {FreshOrg}
  BY DEF InsertOrg, InsertOrgRow
<1>1. TypeOK'
  <2>1. joining' \in [Processes -> [Emails -> orgs' \cup {NoOrg}]]
    BY DEF InsertOrg
  <2> QED
    BY <2>1 DEF InsertOrg, Goto, Steps, editVars
<1>2. Progress'
  BY DEF Progress, InsertOrg, Goto, AdminExists, AdminRows, editVars
<1>3. AdminBeforeServing'
  BY DEF AdminBeforeServing, AdminExists, AdminRows, InsertOrg, Goto, editVars
<1>4. UnprotectedOnlyIfTorn'
  <2> SUFFICES ASSUME NEW row \in Missing'
               PROVE  row \in torn \cup dropped \/ \E q \in Processes : row \in Unseeded(q)'
    BY DEF UnprotectedOnlyIfTorn, InsertOrg, editVars
  <2>1. CASE row \in Missing
    <3>1. ASSUME NEW q \in Processes, row \in Unseeded(q) PROVE row \in Unseeded(q)'
      BY <3>1 DEF Unseeded, InsertOrg, Goto
    <3> QED
      BY <2>1, <3>1 DEF UnprotectedOnlyIfTorn
  <2>2. CASE row \notin Missing
    <3>1. row \in {FreshOrg} \X DefaultPolicies
      BY <2>2 DEF Missing, InsertOrg
    <3>2. pc'[p] = "user" /\ mine'[p] = FreshOrg /\ left'[p] = DefaultPolicies
      BY DEF InsertOrg, Goto
    <3> QED
      BY <3>1, <3>2 DEF Unseeded
  <2> QED
    BY <2>1, <2>2
<1> QED
  BY <1>1, <1>2, <1>3, <1>4

\* The admin row makes the admin exist, also for those who lost an earlier one.
LEMMA InsertAdminIInv ==
  ASSUME IInv, NEW p \in Processes, InsertAdmin(p)
  PROVE  IInv'
<1> USE DEF IInv, TypeOK
<1>1. mine[p] \in orgs
  BY DEF InsertAdmin, Progress
<1>2. User(mine[p], AdminEmail, "Admin") \in UserRows
  BY <1>1 DEF User, UserRows, Roles
<1>3. TypeOK'
  <2>1. User(mine[p], AdminEmail, "Admin").org \in orgs
    BY <1>1 DEF User
  <2> QED
    BY <1>2, <2>1 DEF InsertAdmin, Goto, Steps, editVars
<1>4. AdminExists'
  <2>1. User(mine[p], AdminEmail, "Admin") \in users'
    BY DEF InsertAdmin
  <2>2. /\ User(mine[p], AdminEmail, "Admin").email = AdminEmail
        /\ User(mine[p], AdminEmail, "Admin").role = "Admin"
    BY DEF User
  <2>3. User(mine[p], AdminEmail, "Admin") \in AdminRows'
    BY <2>1, <2>2 DEF AdminRows
  <2> QED
    BY <2>3 DEF AdminExists
<1>5. Progress' /\ AdminBeforeServing'
  BY <1>4 DEF Progress, AdminBeforeServing, InsertAdmin, Goto
<1>6. UnprotectedOnlyIfTorn'
  <2>1. \A q \in Processes : Unseeded(q)' = Unseeded(q)
    BY DEF Unseeded, InsertAdmin, Goto
  <2> QED
    BY <2>1 DEF UnprotectedOnlyIfTorn, Missing, InsertAdmin, editVars
<1> QED
  BY <1>3, <1>5, <1>6

\* A process serves after its seeds only when none is left.
LEMMA SeedNextIInv ==
  ASSUME IInv, NEW p \in Processes, SeedNext(p)
  PROVE  IInv'
<1> USE DEF IInv, TypeOK
<1>1. /\ mine[p] \in orgs
      /\ p \in bereft \/ AdminExists
      /\ mode # "dev"
  BY DEF SeedNext, Progress
<1>2. PICK done \in SUBSET left[p] :
        /\ policies' = policies \cup ({mine[p]} \X done)
        /\ left' = [left EXCEPT ![p] = @ \ done]
  <2>1. CASE left[p] = {}
    <3>1. policies' = policies /\ left' = left
      BY <2>1 DEF SeedNext
    <3>2. /\ policies' = policies \cup ({mine[p]} \X {})
          /\ left' = [left EXCEPT ![p] = @ \ {}]
      BY <3>1
    <3> QED
      BY <3>2
  <2>2. ASSUME NEW name \in left[p],
               policies' = policies \cup {<<mine[p], name>>},
               left' = [left EXCEPT ![p] = @ \ {name}]
        PROVE  \E done \in SUBSET left[p] :
                 /\ policies' = policies \cup ({mine[p]} \X done)
                 /\ left' = [left EXCEPT ![p] = @ \ done]
    <3>1. {<<mine[p], name>>} = {mine[p]} \X {name}
      OBVIOUS
    <3> QED
      BY <2>2, <3>1
  <2> QED
    BY <2>1, <2>2 DEF SeedNext
<1>3. /\ left'[p] = left[p] \ done
      /\ pc'[p] = IF left'[p] = {} THEN "serving" ELSE "seed"
      /\ \A q \in Processes \ {p} : pc'[q] = pc[q] /\ left'[q] = left[q]
      /\ UNCHANGED <<mode, orgs, users, mine, attempt, joining, faults, edits, dropped, bereft, torn>>
  BY <1>2 DEF SeedNext, Goto, AfterSeed, editVars
<1>4. TypeOK'
  <2>1. left' \in [Processes -> SUBSET DefaultPolicies]
    BY <1>2
  <2>2. policies' \subseteq OrgIds \X (DefaultPolicies \cup {DemoPolicy})
    BY <1>1, <1>2
  <2>3. \A row \in policies' : row[1] \in orgs
    BY <1>1, <1>2
  <2> QED
    BY <1>3, <2>1, <2>2, <2>3 DEF SeedNext, Goto, AfterSeed, Steps
<1>5. Progress' /\ AdminBeforeServing'
  BY <1>1, <1>3 DEF Progress, AdminBeforeServing, AdminExists, AdminRows, SeedNext
<1>6. UnprotectedOnlyIfTorn'
  <2> SUFFICES ASSUME NEW row \in Missing'
               PROVE  row \in torn \cup dropped \/ \E q \in Processes : row \in Unseeded(q)'
    BY <1>3 DEF UnprotectedOnlyIfTorn
  <2>1. row \in Missing
    BY <1>2, <1>3 DEF Missing
  <2>2. ASSUME NEW q \in Processes, row \in Unseeded(q) PROVE row \in Unseeded(q)'
    <3>1. CASE q # p
      BY <1>3, <2>2, <3>1 DEF Unseeded
    <3>2. CASE q = p
      <4>1. row \in {mine[p]} \X left[p] /\ pc[p] = "seed"
        BY <2>2, <3>2 DEF Unseeded, SeedNext
      <4>2. row \notin {mine[p]} \X done
        BY <1>2 DEF Missing
      <4>3. row \in {mine[p]} \X left'[p] /\ left'[p] # {}
        BY <1>3, <4>1, <4>2
      <4> QED
        BY <1>3, <3>2, <4>3 DEF Unseeded
    <3> QED
      BY <3>1, <3>2
  <2> QED
    BY <2>1, <2>2 DEF UnprotectedOnlyIfTorn
<1> QED
  BY <1>4, <1>5, <1>6

\* A process that stops between its inserts tears its organisation.
LEMMA StopIInv ==
  ASSUME IInv, NEW p \in Processes, Stop(p)
  PROVE  IInv'
<1> USE DEF IInv, TypeOK
<1>1. TypeOK'
  <2>1. faults' \in 0 .. MaxFaults
    BY BootstrapAssumption DEF Stop, Fault
  <2>2. torn' \subseteq Defaults
    BY DEF Stop, Unseeded, Defaults, Progress
  <2>3. joining' \in [Processes -> [Emails -> orgs' \cup {NoOrg}]]
    BY DEF Stop, dbVars
  <2> QED
    BY <2>1, <2>2, <2>3 DEF Stop, Goto, Steps, dbVars, editVars
<1>2. Progress'
  BY DEF Progress, Stop, Goto, dbVars, editVars, AdminExists, AdminRows
<1>3. AdminBeforeServing'
  BY DEF AdminBeforeServing, AdminExists, AdminRows, Stop, Goto, dbVars, editVars
<1>4. UnprotectedOnlyIfTorn'
  <2>1. \A q \in Processes : Unseeded(q) \subseteq Unseeded(q)' \cup torn'
    BY DEF Unseeded, Stop, Goto
  <2>2. Missing' = Missing /\ torn \subseteq torn' /\ dropped' = dropped
    BY DEF Stop, Missing, dbVars, editVars
  <2> QED
    BY <2>1, <2>2 DEF UnprotectedOnlyIfTorn
<1> QED
  BY <1>1, <1>2, <1>3, <1>4

\* A registration leaves no organisation without its policies.
LEMMA RegisterIInv ==
  ASSUME IInv, NEW p \in Processes, NEW email \in Emails,
         RegisterDev(email) \/ FindOrg(p, email) \/ JoinOrg(p, email)
  PROVE  IInv'
<1> USE DEF IInv, TypeOK
<1>1. CASE RegisterDev(email)
  <2> USE <1>1 DEF RegisterDev, startVars, editVars
  <2> FreshOrg \in OrgIds /\ orgs' = orgs \cup {FreshOrg}
    BY DEF InsertOrgRow
  <2>1. policies' = policies \cup ({FreshOrg} \X DefaultPolicies)
    BY DEF Seeded
  <2>2. /\ User(FreshOrg, email, "Admin") \in UserRows
        /\ User(FreshOrg, email, "Admin").org \in orgs'
    BY DEF User, UserRows, Roles
  <2>3. TypeOK'
    <3>1. \A row \in policies' : row[1] \in orgs'
      BY <2>1
    <3>2. policies' \subseteq OrgIds \X (DefaultPolicies \cup {DemoPolicy})
      BY <2>1
    <3>3. joining' \in [Processes -> [Emails -> orgs' \cup {NoOrg}]]
      OBVIOUS
    <3> QED
      BY <2>2, <3>1, <3>2, <3>3
  <2>4. Progress' /\ AdminBeforeServing'
    BY DEF Progress, AdminBeforeServing
  <2>5. UnprotectedOnlyIfTorn'
    <3>1. Missing' \subseteq Missing
      BY <2>1 DEF Missing
    <3> QED
      BY <3>1 DEF UnprotectedOnlyIfTorn, Unseeded
  <2> QED
    BY <2>3, <2>4, <2>5
<1>2. CASE FindOrg(p, email)
  <2> USE <1>2 DEF FindOrg, startVars, editVars, dbVars
  <2>1. joining' \in [Processes -> [Emails -> orgs' \cup {NoOrg}]]
    BY DEF AdminRows
  <2>2. TypeOK'
    BY <2>1
  <2>3. Progress' /\ AdminBeforeServing' /\ UnprotectedOnlyIfTorn'
    BY DEF Progress, AdminBeforeServing, AdminExists, AdminRows,
           UnprotectedOnlyIfTorn, Missing, Unseeded
  <2> QED
    BY <2>2, <2>3
<1>3. CASE JoinOrg(p, email)
  <2> USE <1>3 DEF JoinOrg, startVars, editVars
  <2> DEFINE org == joining[p][email]
  <2>1. org \in orgs
    <3>1. joining[p][email] \in orgs \cup {NoOrg}
      OBVIOUS
    <3> QED
      BY <3>1
  <2>2. /\ User(org, email, "User") \in UserRows
        /\ User(org, email, "User").org \in orgs
    BY <2>1 DEF User, UserRows, Roles
  <2>3. users' \in {users, users \cup {User(org, email, "User")}}
    OBVIOUS
  <2>4. TypeOK'
    <3>1. joining' \in [Processes -> [Emails -> orgs' \cup {NoOrg}]]
      OBVIOUS
    <3> QED
      BY <2>2, <2>3, <3>1
  <2>5. AdminExists => AdminExists'
    BY <2>3 DEF AdminExists, AdminRows
  <2>6. Progress' /\ AdminBeforeServing' /\ UnprotectedOnlyIfTorn'
    BY <2>5 DEF Progress, AdminBeforeServing, UnprotectedOnlyIfTorn, Missing, Unseeded
  <2> QED
    BY <2>4, <2>6
<1> QED
  BY <1>1, <1>2, <1>3

\* An edit that takes an admin row marks every process that is up.
LEMMA LosingMarks ==
  ASSUME IInv, NEW u \in users, Loses(u), UNCHANGED <<mode, pc>>,
         \A v \in users \ {u} : v \in users'
  PROVE  /\ bereft' \subseteq Processes
         /\ \A p \in Processes : pc[p] = "down" \/ p \in bereft' \/
              ((p \in bereft' <=> p \in bereft) /\ (AdminExists => AdminExists'))
<1>1. CASE u \in AdminRows
  BY <1>1 DEF Loses
<1>2. CASE u \notin AdminRows
  BY <1>2 DEF Loses, AdminExists, AdminRows, IInv, TypeOK
<1> QED
  BY <1>1, <1>2

\* An edit takes rows, which the ghosts keep.
LEMMA EditIInv == IInv /\ Edit => IInv'
<1> SUFFICES ASSUME IInv, Edit PROVE IInv'
  OBVIOUS
<1> USE DEF IInv, TypeOK
<1>1. UNCHANGED <<mode, orgs, startVars, joining, faults, torn>> /\ edits' \in 0 .. MaxEdits
  BY BootstrapAssumption DEF Edit, AddMember, RemoveMember, ChangeRole, DropPolicy, EditIn
<1>2. ASSUME UNCHANGED <<policies, dropped>>, bereft' \subseteq Processes,
             users' \subseteq UserRows, \A u \in users' : u.org \in orgs,
             \A p \in Processes : pc[p] = "down" \/ p \in bereft' \/
               ((p \in bereft' <=> p \in bereft) /\ (AdminExists => AdminExists'))
      PROVE  IInv'
  <2>1. TypeOK'
    BY <1>1, <1>2 DEF startVars
  <2>2. Progress' /\ AdminBeforeServing'
    BY <1>1, <1>2 DEF Progress, AdminBeforeServing, startVars
  <2>3. UnprotectedOnlyIfTorn'
    BY <1>1, <1>2 DEF UnprotectedOnlyIfTorn, Missing, Unseeded, startVars
  <2> QED
    BY <2>1, <2>2, <2>3
<1>3. ASSUME NEW org \in orgs, NEW email \in Emails \cup {AdminEmail}, NEW role \in Roles,
             AddMember(org, email, role)
      PROVE  IInv'
  <2>1. User(org, email, role) \in UserRows /\ User(org, email, role).org = org
    BY DEF User, UserRows
  <2> QED
    BY <1>2, <1>3, <2>1 DEF AddMember, AdminExists, AdminRows
<1>4. ASSUME NEW u \in users, NEW role \in Roles, ChangeRole(u, role) PROVE IInv'
  <2>1. /\ User(u.org, u.email, role) \in UserRows
        /\ User(u.org, u.email, role).org = u.org
    BY DEF User, UserRows
  <2>2. users' = (users \ {u}) \cup {User(u.org, u.email, role)} /\ Loses(u)
    BY <1>4 DEF ChangeRole
  <2>3. UNCHANGED <<policies, dropped>>
    BY <1>4 DEF ChangeRole
  <2> QED
    BY <1>1, <1>2, <2>1, <2>2, <2>3, LosingMarks DEF startVars
<1>5. ASSUME NEW u \in users, RemoveMember(u) PROVE IInv'
  <2>1. users' = users \ {u} /\ Loses(u) /\ UNCHANGED <<policies, dropped>>
    BY <1>5 DEF RemoveMember
  <2> QED
    BY <1>1, <1>2, <2>1, LosingMarks DEF startVars
<1>6. ASSUME NEW row \in policies, DropPolicy(row) PROVE IInv'
  <2>1. /\ policies' = policies \ {row} /\ dropped' = dropped \cup {row}
        /\ UNCHANGED <<users, bereft>>
    BY <1>6 DEF DropPolicy
  <2>2. TypeOK'
    BY <1>1, <2>1 DEF startVars
  <2>3. Progress' /\ AdminBeforeServing'
    BY <1>1, <2>1 DEF Progress, AdminBeforeServing, AdminExists, AdminRows, startVars
  <2>4. Missing' \subseteq Missing \cup {row}
    BY <1>1, <2>1 DEF Missing
  <2>5. UnprotectedOnlyIfTorn'
    BY <1>1, <2>1, <2>4 DEF UnprotectedOnlyIfTorn, Unseeded, startVars
  <2> QED
    BY <2>2, <2>3, <2>5
<1> QED
  BY <1>3, <1>4, <1>5, <1>6 DEF Edit

\* A stuttering step.
LEMMA StutterIInv == IInv /\ UNCHANGED vars => IInv'
BY DEF IInv, TypeOK, Progress, AdminBeforeServing, AdminExists, AdminRows,
       UnprotectedOnlyIfTorn, Missing, Unseeded, vars, dbVars, startVars, editVars

\* The invariant holds of every behaviour: one case per action.
THEOREM Invariance == Spec => []IInv
<1>1. IInv /\ [Next]_vars => IInv'
  BY StartIInv, InsertOrgIInv, InsertAdminIInv, SeedNextIInv, StopIInv, RegisterIInv,
     EditIInv, StutterIInv DEF Next, Step, Serve
<1> QED
  BY InitIInv, <1>1, PTL DEF Spec

\* Type correctness and referential integrity of the rows of each way an
\* organisation is made (the migrations, bootstrap_admin and register).
THEOREM TypeCorrect == Spec => []TypeOK
<1>1. IInv => TypeOK
  BY DEF IInv
<1> QED
  BY Invariance, <1>1, PTL

\* Whatever is stopped, fails or races, a process serves a deployment with
\* ADMIN_EMAIL without an admin row only if an administrator took the row away
\* while that process was up (main.rs awaits bootstrap_admin, users.rs deletes).
THEOREM AdminFirst == Spec => []AdminBeforeServing
<1>1. IInv => AdminBeforeServing
  BY DEF IInv
<1> QED
  BY Invariance, <1>1, PTL

\* Only an interrupted bootstrap or an administrator leaves an organisation that
\* someone set up without a default policy, and only those policies that the one
\* had yet to insert or the other dropped; registration never does.
THEOREM ProtectedUnlessTorn == Spec => []UnprotectedOnlyIfTorn
<1>1. IInv => UnprotectedOnlyIfTorn
  BY DEF IInv
<1> QED
  BY Invariance, <1>1, PTL
=============================================================================
