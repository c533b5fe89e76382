----------------------------- MODULE Bootstrap -----------------------------
(***************************************************************************)
(* How a control-plane process starts (control-plane/src/main.rs), how     *)
(* organisations come to be (bootstrap_admin and register of auth.rs, the  *)
(* seed of the migrations), and how administrators change the members and  *)
(* policies it left (routes/users.rs, routes/policies.rs).                 *)
(*                                                                         *)
(* Several processes may start on one database. Each may stop at any       *)
(* statement (a crash, a deployment, or an `expect` on a failed statement) *)
(* and is then restarted. Statements of the bootstrap commit one by one, a *)
(* registration in dev mode and a migration are one transaction each.      *)
(***************************************************************************)
EXTENDS Naturals, FiniteSets

CONSTANTS
  Processes,        \* control-plane processes
  Emails,           \* addresses people register with
  AdminEmail,       \* ADMIN_EMAIL
  DemoEmail,        \* the address of the Demo Org's admin (0002_seed.sql)
  DefaultPolicies,  \* DEFAULT_POLICIES
  DemoPolicy,       \* the Demo Org's policy (0002_seed.sql)
  MaxAttempts,      \* migration attempts of a start
  MaxOrgs,          \* bound on the organisations
  MaxFaults,        \* bound on stops and on failed queries
  MaxEdits          \* bound on the edits of administrators

ASSUME BootstrapAssumption ==
  /\ IsFiniteSet(Processes) /\ IsFiniteSet(DefaultPolicies)
  /\ DemoPolicy \notin DefaultPolicies
  /\ MaxAttempts \in Nat \ {0} /\ MaxOrgs \in Nat \ {0}
  /\ MaxFaults \in Nat /\ MaxEdits \in Nat

OrgIds == 1 .. MaxOrgs
NoOrg == 0
DemoOrg == 1
Modes == {"dev", "selfhosted", "cloud"}
Roles == {"Admin", "Manager", "User"}

VARIABLES
  mode,      \* the deployment's ControlPlaneMode
  orgs,      \* rows of orgs
  users,     \* rows of users
  policies,  \* rows of policies, as they were inserted
  pc,        \* process -> where its start-up is
  mine,      \* process -> the organisation it is bootstrapping
  left,      \* process -> the policies it has yet to insert there
  attempt,   \* process -> migration attempts made
  joining,   \* process, address -> the organisation a registration has read
  faults,    \* stops and failed queries so far
  edits,     \* administrators' edits so far
  \* ghosts
  torn,      \* policies that an interrupted bootstrap left out
  dropped,   \* policies that an administrator deleted or altered
  bereft     \* processes that ran when the admin was removed or demoted

dbVars == <<orgs, users, policies>>
startVars == <<pc, mine, left, attempt>>
editVars == <<edits, dropped, bereft>>
vars == <<mode, dbVars, startVars, joining, faults, editVars, torn>>

User(org, email, role) == [org |-> org, email |-> email, role |-> role]
Taken(org, email) == \E u \in users : u.org = org /\ u.email = email

AdminRows == {u \in users : u.email = AdminEmail /\ u.role = "Admin"}
AdminExists == AdminRows # {}

\* INSERT INTO orgs takes a fresh id.
FreshOrg == Cardinality(orgs) + 1
InsertOrgRow == FreshOrg \in OrgIds /\ orgs' = orgs \cup {FreshOrg}

-----------------------------------------------------------------------------
Init ==
  /\ mode \in Modes
  /\ orgs = {} /\ users = {} /\ policies = {}
  /\ pc = [p \in Processes |-> "down"]
  /\ mine = [p \in Processes |-> NoOrg]
  /\ left = [p \in Processes |-> {}]
  /\ attempt = [p \in Processes |-> 0]
  /\ joining = [p \in Processes |-> [e \in Emails |-> NoOrg]]
  /\ faults = 0 /\ edits = 0
  /\ torn = {} /\ dropped = {} /\ bereft = {}

Goto(p, step) == pc' = [pc EXCEPT ![p] = step]

Start(p) ==
  /\ pc[p] = "down"
  /\ Goto(p, "migrate")
  /\ mine' = [mine EXCEPT ![p] = NoOrg]
  /\ left' = [left EXCEPT ![p] = {}]
  /\ attempt' = [attempt EXCEPT ![p] = 0]
  /\ bereft' = bereft \ {p}
  /\ UNCHANGED <<mode, dbVars, joining, faults, edits, dropped, torn>>

\* The migrations, in every mode. The first time they bring the Demo Org; sqlx
\* skips what was applied.
ApplySeed ==
  IF DemoOrg \in orgs THEN UNCHANGED dbVars
  ELSE /\ orgs' = orgs \cup {DemoOrg}
       /\ users' = users \cup {User(DemoOrg, DemoEmail, "Admin")}
       /\ policies' = policies \cup {<<DemoOrg, DemoPolicy>>}

Migrate(p) ==
  /\ pc[p] = "migrate"
  /\ ApplySeed
  /\ Goto(p, IF mode = "dev" THEN "serving" ELSE "check")
  /\ UNCHANGED <<mode, mine, left, attempt, joining, faults, editVars, torn>>

Fault == faults < MaxFaults /\ faults' = faults + 1

\* An attempt fails before or after the seed's migration. The last one's failure
\* panics.
MigrateFails(p) ==
  /\ pc[p] = "migrate"
  /\ Fault
  /\ ApplySeed \/ UNCHANGED dbVars
  /\ attempt' = [attempt EXCEPT ![p] = @ + 1]
  /\ Goto(p, IF attempt[p] + 1 < MaxAttempts THEN "migrate" ELSE "down")
  /\ UNCHANGED <<mode, mine, left, joining, editVars, torn>>

\* bootstrap_admin: the check, and the inserts after it.
AfterCheckOfOrgs == IF orgs # {DemoOrg} THEN "serving" ELSE "org"
AfterCheckWaits ==
  IF ~ AdminExists THEN "org"
  ELSE IF \E u \in AdminRows, n \in DefaultPolicies : <<u.org, n>> \notin policies
       THEN "check" ELSE "serving"
AfterCheck == IF AdminExists THEN "serving" ELSE "org"

Check(p) ==
  /\ pc[p] = "check"
  /\ Goto(p, AfterCheck)
  /\ UNCHANGED <<mode, dbVars, mine, left, attempt, joining, faults, editVars, torn>>

\* `unwrap_or(false)`: a check that fails says there is no admin.
CheckFails(p) ==
  /\ pc[p] = "check"
  /\ Fault
  /\ Goto(p, "org")
  /\ UNCHANGED <<mode, dbVars, mine, left, attempt, joining, editVars, torn>>

InsertOrg(p) ==
  /\ pc[p] = "org"
  /\ InsertOrgRow
  /\ mine' = [mine EXCEPT ![p] = FreshOrg]
  /\ left' = [left EXCEPT ![p] = DefaultPolicies]
  /\ Goto(p, "user")
  /\ UNCHANGED <<mode, users, policies, attempt, joining, faults, editVars, torn>>

InsertAdmin(p) ==
  /\ pc[p] = "user"
  /\ users' = users \cup {User(mine[p], AdminEmail, "Admin")}
  /\ Goto(p, "seed")
  /\ UNCHANGED <<mode, orgs, policies, mine, left, attempt, joining, faults, editVars, torn>>

\* One INSERT a policy, then the process serves.
AfterSeedOne(rest) == "serving"
AfterSeed(rest) == IF rest = {} THEN "serving" ELSE "seed"

SeedNext(p) ==
  /\ pc[p] = "seed"
  /\ \/ left[p] = {} /\ UNCHANGED <<policies, left>>
     \/ \E name \in left[p] :
          /\ policies' = policies \cup {<<mine[p], name>>}
          /\ left' = [left EXCEPT ![p] = @ \ {name}]
  /\ Goto(p, AfterSeed(left'[p]))
  /\ UNCHANGED <<mode, orgs, users, mine, attempt, joining, faults, editVars, torn>>

\* What the bootstrap of p has yet to insert.
Unseeded(p) == IF pc[p] \in {"user", "seed"} THEN {mine[p]} \X left[p] ELSE {}

\* The process stops; a statement that fails stops it too. Its requests go with it.
Stop(p) ==
  /\ pc[p] # "down"
  /\ Fault
  /\ Goto(p, "down")
  /\ torn' = torn \cup Unseeded(p)
  /\ joining' = [joining EXCEPT ![p] = [e \in Emails |-> NoOrg]]
  /\ UNCHANGED <<mode, dbVars, mine, left, attempt, editVars>>

-----------------------------------------------------------------------------
(* register, by its mode; a self-hosted instance refuses.                  *)

Seeded(org) == {org} \X DefaultPolicies

RegisterDev(email) ==
  /\ mode = "dev"
  /\ InsertOrgRow
  /\ users' = users \cup {User(FreshOrg, email, "Admin")}
  /\ policies' = policies \cup Seeded(FreshOrg)
  /\ UNCHANGED <<mode, startVars, joining, faults, editVars, torn>>

\* In cloud mode the organisation is that of whichever admin row the query
\* returns; without one the answer is an error and nothing changes.
FindOrg(p, email) ==
  /\ mode = "cloud"
  /\ joining[p][email] = NoOrg
  /\ \E admin \in AdminRows : joining' = [joining EXCEPT ![p][email] = admin.org]
  /\ UNCHANGED <<mode, dbVars, startVars, faults, editVars, torn>>

\* An address already there is a conflict.
JoinOrg(p, email) ==
  LET org == joining[p][email] IN
  /\ org # NoOrg
  /\ users' = IF Taken(org, email) THEN users ELSE users \cup {User(org, email, "User")}
  /\ joining' = [joining EXCEPT ![p][email] = NoOrg]
  /\ UNCHANGED <<mode, orgs, policies, startVars, faults, editVars, torn>>

-----------------------------------------------------------------------------
(* Edits by members of an organisation. A token outlives its member's row, *)
(* so no row of the caller is asked for; nobody is a caller of the Demo    *)
(* Org, whose admin has no password.                                       *)

EditIn(org) == org \in orgs \ {DemoOrg} /\ edits < MaxEdits /\ edits' = edits + 1

\* The processes that ran while the admin's row went.
Loses(u) == bereft' = IF u \in AdminRows THEN {q \in Processes : pc[q] # "down"} ELSE bereft

AddMember(org, email, role) ==
  /\ EditIn(org)
  /\ ~ Taken(org, email)
  /\ users' = users \cup {User(org, email, role)}
  /\ UNCHANGED <<mode, orgs, policies, startVars, joining, faults, dropped, bereft, torn>>

ChangeRole(u, role) ==
  /\ EditIn(u.org)
  /\ role # u.role
  /\ users' = (users \ {u}) \cup {User(u.org, u.email, role)}
  /\ Loses(u)
  /\ UNCHANGED <<mode, orgs, policies, startVars, joining, faults, dropped, torn>>

RemoveMember(u) ==
  /\ EditIn(u.org)
  /\ users' = users \ {u}
  /\ Loses(u)
  /\ UNCHANGED <<mode, orgs, policies, startVars, joining, faults, dropped, torn>>

\* A policy deleted, or updated so that it is no longer the default it was.
DropPolicy(row) ==
  /\ EditIn(row[1])
  /\ policies' = policies \ {row}
  /\ dropped' = dropped \cup {row}
  /\ UNCHANGED <<mode, orgs, users, startVars, joining, faults, bereft, torn>>

Edit ==
  \/ \E org \in orgs, email \in Emails \cup {AdminEmail}, role \in Roles :
       AddMember(org, email, role)
  \/ \E u \in users : RemoveMember(u) \/ \E role \in Roles : ChangeRole(u, role)
  \/ \E row \in policies : DropPolicy(row)

Serve(p) ==
  /\ pc[p] = "serving"
  /\ \/ \E email \in Emails : RegisterDev(email) \/ FindOrg(p, email) \/ JoinOrg(p, email)
     \/ Edit

Step(p) ==
  \/ Start(p) \/ Migrate(p) \/ Check(p)
  \/ InsertOrg(p) \/ InsertAdmin(p) \/ SeedNext(p)

Next ==
  \E p \in Processes :
    \/ Step(p)
    \/ MigrateFails(p) \/ CheckFails(p) \/ Stop(p)
    \/ Serve(p)

\* The container runtime restarts what stopped (docker-compose.yml, `restart:
\* unless-stopped`), and a started process goes on.
Fairness == \A p \in Processes : WF_vars(Step(p))

Spec == Init /\ [][Next]_vars /\ Fairness

-----------------------------------------------------------------------------
(* Properties.                                                             *)

Steps == {"down", "migrate", "check", "org", "user", "seed", "serving"}
UserRows == [org : OrgIds, email : Emails \cup {AdminEmail, DemoEmail}, role : Roles]
Defaults == OrgIds \X DefaultPolicies

\* Every variable keeps its shape and every row refers to an organisation.
TypeOK ==
  /\ mode \in Modes
  /\ orgs \subseteq OrgIds
  /\ users \subseteq UserRows
  /\ policies \subseteq OrgIds \X (DefaultPolicies \cup {DemoPolicy})
  /\ pc \in [Processes -> Steps]
  /\ mine \in [Processes -> OrgIds \cup {NoOrg}]
  /\ left \in [Processes -> SUBSET DefaultPolicies]
  /\ attempt \in [Processes -> 0 .. MaxAttempts]
  /\ joining \in [Processes -> [Emails -> orgs \cup {NoOrg}]]
  /\ faults \in 0 .. MaxFaults /\ edits \in 0 .. MaxEdits
  /\ torn \subseteq Defaults
  /\ bereft \subseteq Processes
  /\ \A u \in users : u.org \in orgs
  /\ \A row \in policies : row[1] \in orgs

\* A process that serves in a deployment with ADMIN_EMAIL has an admin row to count
\* on (`register` in cloud mode answers 500 without one), whoever inserted it and
\* however often processes stopped on the way, unless the row was removed or demoted
\* while this very process was up: a start mends what edits before it took.
AdminBeforeServing ==
  \A p \in Processes :
    pc[p] = "serving" /\ mode # "dev" /\ p \notin bereft => AdminExists

\* Default policies that an organisation other than the Demo Org lacks.
Missing == {row \in (orgs \ {DemoOrg}) \X DefaultPolicies : row \notin policies}

\* A default policy is missing of an organisation only if its bootstrap has yet to
\* come to it or was interrupted before it, or an administrator dropped it:
\* registration leaves none out, and bootstraps that race, or that an administrator
\* edits at the same time, do not share or skip a seed.
UnprotectedOnlyIfTorn ==
  \A row \in Missing :
    row \in torn \cup dropped \/ \E p \in Processes : row \in Unseeded(p)

\* However often they are stopped and their migrations fail, all processes end
\* up serving (the number of faults being finite): no start waits on another.
EventuallyServing == <>[](\A p \in Processes : pc[p] = "serving")

-----------------------------------------------------------------------------
(* The inductive invariant behind the safety properties.                   *)

\* Where a process stands determines what it has inserted; in dev mode none
\* bootstraps.
Progress ==
  \A p \in Processes :
    /\ pc[p] = "migrate" => attempt[p] < MaxAttempts
    /\ pc[p] \in {"user", "seed"} => mine[p] \in orgs
    /\ pc[p] = "seed" => p \in bereft \/ AdminExists
    /\ mode = "dev" => pc[p] \in {"down", "migrate", "serving"}

IInv == TypeOK /\ Progress /\ AdminBeforeServing /\ UnprotectedOnlyIfTorn
=============================================================================
