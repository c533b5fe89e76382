-------------------------- MODULE Telemetry_proofs --------------------------
(***************************************************************************)
(* Proofs about Telemetry, for any reports, keys, members, integrations    *)
(* and any number of edits and stops.                                      *)
(*                                                                         *)
(* The argument: keys only end, so a key that had ended when a report came *)
(* finds no row when it is looked up; and what a task reads of the         *)
(* settings lies between the targets that were active all along and those  *)
(* that ever were, which the loop then visits one by one.                  *)
(***************************************************************************)
EXTENDS Telemetry, FiniteSetTheorems, TLAPS

-----------------------------------------------------------------------------
(* Targets and the orders of a loop.                                       *)

\* What can be posted to is a finite set of targets.
LEMMA ActiveInTyped ==
  ASSUME NEW some \in SUBSET Slugs, NEW at \in [Slugs -> Urls \cup {NoUrl}]
  PROVE  ActiveIn(some, at) \subseteq Targets /\ IsFiniteSet(ActiveIn(some, at))
<1> DEFINE S == {x \in some \cap Deliverable : at[x] # NoUrl}
<1>1. ActiveIn(some, at) \subseteq Targets
  BY TelemetryAssumption DEF ActiveIn, Targets
<1>2. IsFiniteSet(S)
  BY TelemetryAssumption, FS_Subset
<1>3. IsFiniteSet({<<s, at[s]>> : s \in S})
  <2> DEFINE T == {<<s, at[s]>> : s \in S}
             f == [s \in S |-> <<s, at[s]>>]
  <2>1. f \in Surjection(S, T)
    BY DEF Surjection
  <2> HIDE DEF f, T, S
  <2>2. IsFiniteSet(T)
    BY <1>2, <2>1, FS_Surjection
  <2> QED
    BY <2>2 DEF T
<1> QED
  BY <1>1, <1>3 DEF ActiveIn

\* An order visits every target of the set once.
LEMMA OrderVisitsAll ==
  ASSUME NEW S \in SUBSET Targets, IsFiniteSet(S), NEW order \in Orders(S)
  PROVE  /\ order \in Seq(Targets)
         /\ {order[i] : i \in DOMAIN order} = S
         /\ \A i, j \in DOMAIN order : order[i] = order[j] => i = j
         /\ order = <<>> => S = {}
<1>1. Cardinality(S) \in Nat
  BY FS_CardinalityType
<1>2. order \in [1 .. Cardinality(S) -> S]
  BY DEF Orders
<1>3. order \in Seq(S)
  BY <1>1, <1>2
<1>4. order \in Seq(Targets)
  BY <1>3
<1> QED
  BY <1>1, <1>2, <1>4 DEF Orders

\* The head of a list without repetitions and the rest of it.
LEMMA HeadAndTail ==
  ASSUME NEW s \in Seq(Targets), s # <<>>,
         \A i, j \in DOMAIN s : s[i] = s[j] => i = j
  PROVE  /\ Tail(s) \in Seq(Targets) /\ Head(s) \in Targets
         /\ {s[i] : i \in DOMAIN s} = {Head(s)} \cup {Tail(s)[i] : i \in DOMAIN Tail(s)}
         /\ Head(s) \notin {Tail(s)[i] : i \in DOMAIN Tail(s)}
         /\ \A i, j \in DOMAIN Tail(s) : Tail(s)[i] = Tail(s)[j] => i = j
<1>1. /\ Len(s) \in Nat \ {0}
      /\ DOMAIN s = 1 .. Len(s)
      /\ Tail(s) \in Seq(Targets) /\ Head(s) = s[1] /\ Head(s) \in Targets
      /\ DOMAIN Tail(s) = 1 .. Len(s) - 1
      /\ \A i \in 1 .. Len(s) - 1 : Tail(s)[i] = s[i + 1]
  OBVIOUS
<1>2. \A i \in 2 .. Len(s) : i - 1 \in 1 .. Len(s) - 1 /\ s[i] = Tail(s)[i - 1]
  BY <1>1
<1>3. {s[i] : i \in DOMAIN s} = {Head(s)} \cup {Tail(s)[i] : i \in DOMAIN Tail(s)}
  <2>1. ASSUME NEW i \in DOMAIN s
        PROVE  s[i] \in {Head(s)} \cup {Tail(s)[j] : j \in DOMAIN Tail(s)}
    <3>1. CASE i = 1
      BY <3>1, <1>1
    <3>2. CASE i \in 2 .. Len(s)
      <4>1. i - 1 \in DOMAIN Tail(s) /\ Tail(s)[i - 1] = s[i]
        BY <3>2, <1>1, <1>2
      <4> QED
        BY <4>1, Zenon
    <3> QED
      BY <3>1, <3>2, <1>1
  <2>2. ASSUME NEW i \in DOMAIN Tail(s)
        PROVE  Tail(s)[i] \in {s[j] : j \in DOMAIN s}
    BY <1>1
  <2>3. Head(s) \in {s[j] : j \in DOMAIN s}
    BY <1>1
  <2> QED
    BY <2>1, <2>2, <2>3
<1>4. \A i \in 1 .. Len(s) - 1 : Tail(s)[i] # Head(s)
  BY <1>1
<1>5. \A i, j \in 1 .. Len(s) - 1 : Tail(s)[i] = Tail(s)[j] => i = j
  BY <1>1
<1> QED
  BY <1>1, <1>3, <1>4, <1>5

-----------------------------------------------------------------------------
(* The initial states, and steps of the handler.                           *)

LEMMA InitIInv == Init => IInv
<1> SUFFICES ASSUME Init PROVE IInv
  OBVIOUS
<1> USE DEF Init, KeysInit
<1>1. TypeOK
  BY TelemetryAssumption DEF TypeOK, KeysTypeOK
<1>2. Admission /\ Progress
  BY DEF Admission, Progress
<1>3. Targeting
  BY DEF Targeting, InFlight, Running, Busy, Left
<1>4. NotifiedEventsAreStored /\ PostsObeySettings
  BY DEF NotifiedEventsAreStored, PostsObeySettings, Left
<1> QED
  BY <1>1, <1>2, <1>3, <1>4 DEF IInv

\* What is active now can be posted to.
LEMMA ActiveTyped == TypeOK => Active \subseteq Targets /\ IsFiniteSet(Active)
BY ActiveInTyped DEF TypeOK, Active

\* A report arrives: its ghosts are set to what holds now.
LEMMA ArriveIInv ==
  ASSUME IInv, NEW e \in Reports, Arrive(e)
  PROVE  IInv'
<1> USE DEF IInv
<1>1. /\ pc[e] = "idle" /\ pc' = [pc EXCEPT ![e] = "resolve"]
      /\ dead' = [dead EXCEPT ![e] = Ended]
      /\ held' = [held EXCEPT ![e] = Active] /\ steady' = [steady EXCEPT ![e] = Active]
      /\ UNCHANGED <<members, apiKeys, generated, asked, via, events, alerts, task, todo,
                     posts, unread, installed, url>>
  BY DEF Arrive, Goto, keyVars, dispatch, settings
<1>2. task[e] = "none" /\ e \notin events /\ posts[e] = {} /\ todo[e] = <<>>
  BY <1>1 DEF Progress, Targeting
<1>3. Ended' = Ended /\ Active' = Active
  BY <1>1 DEF Ended, Active
<1>4. TypeOK'
  BY <1>1, ActiveTyped DEF TypeOK, KeysTypeOK, Ended, Running
<1>5. Admission'
  BY <1>1, <1>2, <1>3 DEF Admission, TypeOK
<1>6. Progress'
  BY <1>1, <1>2 DEF Progress, TypeOK, Running
<1>7. Left(e) = {} /\ \A x \in Reports : Left(x)' = Left(x)
  BY <1>1, <1>2 DEF Left
<1>8. Targeting'
  BY <1>1, <1>2, <1>3, <1>7 DEF Targeting, TypeOK, InFlight, Running, Busy
<1>9. NotifiedEventsAreStored'
  BY <1>1 DEF NotifiedEventsAreStored
<1>10. PostsObeySettings'
  BY <1>1, <1>2, <1>7 DEF PostsObeySettings, TypeOK
<1> QED
  BY <1>4, <1>5, <1>6, <1>8, <1>9, <1>10

\* A step of a handler before it spawns a task changes no key, setting or ghost,
\* so of Targeting and PostsObeySettings nothing is to show.
LEMMA HandlerTargets ==
  ASSUME IInv, NEW e \in Reports, pc[e] \in Running,
         NEW where \in Running \cup {"answered", "failed"}, pc' = [pc EXCEPT ![e] = where],
         UNCHANGED <<task, todo, posts, unread, installed, url, held, steady>>
  PROVE  Targeting' /\ PostsObeySettings'
<1> USE DEF IInv
<1>1. Active' = Active /\ \A x \in Reports : Left(x)' = Left(x)
  BY DEF Active, Left
<1>2. \A x \in Reports : InFlight(x)' => InFlight(x)
  BY DEF InFlight, TypeOK
<1>3. Targeting'
  BY <1>1, <1>2 DEF Targeting
<1>4. PostsObeySettings'
  BY <1>1 DEF PostsObeySettings
<1> QED
  BY <1>3, <1>4

\* resolve_org: a key that is found had not ended, now or before.
LEMMA ResolveIInv ==
  ASSUME IInv, NEW e \in Reports, Resolve(e)
  PROVE  IInv'
<1> USE DEF IInv
<1> DEFINE known == Lookup(asked[e].key) # {}
           where == IF known \/ asked[e].token THEN "insert" ELSE "failed"
<1>1. /\ pc[e] = "resolve" /\ pc' = [pc EXCEPT ![e] = where]
      /\ via' = [via EXCEPT ![e] = IF known THEN asked[e].key ELSE NoKey]
      /\ UNCHANGED <<members, apiKeys, generated, asked, events, alerts, task, todo,
                     posts, unread, installed, url, dead, held, steady>>
  BY DEF Resolve, Goto, keyVars, dispatch, settings, seen
<1>2. e \notin events /\ e \notin alerts /\ task[e] = "none"
  BY <1>1 DEF Progress, Running
<1>3. known => asked[e].key \in Keys /\ asked[e].key \notin Ended
  BY DEF Lookup, Ended, TypeOK, KeysTypeOK, KeyRow
<1>4. Ended' = Ended /\ dead[e] \subseteq Ended /\ Ended \subseteq Keys
  BY <1>1 DEF Ended, Admission, TypeOK, KeysTypeOK
<1>5. via'[e] \notin dead[e] /\ (where = "insert" => via'[e] # NoKey \/ asked[e].token)
  BY <1>1, <1>3, <1>4, TelemetryAssumption DEF TypeOK
<1>6. TypeOK'
  BY <1>1, <1>3 DEF TypeOK, KeysTypeOK, Running
<1> HIDE DEF known
<1>7. Admission'
  BY <1>1, <1>2, <1>4, <1>5 DEF Admission, TypeOK
<1>8. Progress'
  BY <1>1, <1>2, <1>5 DEF Progress, TypeOK, Running
<1>9. Targeting' /\ PostsObeySettings'
  BY <1>1, HandlerTargets DEF Running
<1>10. NotifiedEventsAreStored'
  BY <1>1, <1>2 DEF NotifiedEventsAreStored, TypeOK
<1> QED
  BY <1>6, <1>7, <1>8, <1>9, <1>10

\* The event is stored, or may be although the request fails.
LEMMA InsertIInv ==
  ASSUME IInv, NEW e \in Reports, Insert(e) \/ InsertFails(e) \/ Dropped(e)
  PROVE  IInv'
<1> USE DEF IInv
<1>1. /\ pc[e] \in Running
      /\ pc' \in {[pc EXCEPT ![e] = where] : where \in {"alert", "answered", "failed"}}
      /\ pc'[e] = "alert" => e \in events' /\ asked[e].caught
      /\ events' \in {events, events \cup {e}} /\ alerts' \in {alerts, alerts \cup {e}}
      /\ e \in events' => e \in events \/ pc[e] = "insert"
      /\ e \in alerts' => e \in alerts \/ pc[e] = "alert"
      /\ UNCHANGED <<members, apiKeys, generated, asked, via, task, todo,
                     posts, unread, installed, url, dead, held, steady>>
  BY DEF Insert, InsertFails, AfterLost, Dropped, Goto, keyVars, dispatch, settings, seen,
         TypeOK, Running
<1>2. PICK where \in {"alert", "answered", "failed"} : pc' = [pc EXCEPT ![e] = where]
  BY <1>1
<1>3. task[e] = "none" /\ pc'[e] = where
  BY <1>1, <1>2 DEF Progress, TypeOK
<1>4. TypeOK'
  BY <1>1, <1>2 DEF TypeOK, KeysTypeOK, Running
<1>5. Ended' = Ended
  BY <1>1 DEF Ended
<1>6. Admission'
  BY <1>1, <1>2, <1>3, <1>5 DEF Admission, TypeOK
<1>7. Progress'
  BY <1>1, <1>2, <1>3 DEF Progress, TypeOK, Running
<1>8. Targeting' /\ PostsObeySettings'
  BY <1>1, <1>2, HandlerTargets DEF Running
<1>9. NotifiedEventsAreStored'
  BY <1>1, <1>2, <1>3 DEF NotifiedEventsAreStored, Progress
<1> QED
  BY <1>4, <1>6, <1>7, <1>8, <1>9

\* The alert may fail, the task is spawned all the same, of a stored event.
LEMMA RaiseAlertIInv ==
  ASSUME IInv, NEW e \in Reports, RaiseAlert(e)
  PROVE  IInv'
<1> USE DEF IInv
<1>1. /\ pc[e] = "alert" /\ pc' = [pc EXCEPT ![e] = "answered"]
      /\ task' = [task EXCEPT ![e] = "loading"]
      /\ alerts' \in {alerts, alerts \cup {e}}
      /\ UNCHANGED <<members, apiKeys, generated, asked, via, events, todo,
                     posts, unread, installed, url, dead, held, steady>>
  BY DEF RaiseAlert, Goto, keyVars, settings, seen
<1>2. /\ e \in events /\ asked[e].caught /\ task[e] = "none" /\ InFlight(e)
      /\ via[e] # NoKey \/ asked[e].token
  BY <1>1 DEF Progress, Running, InFlight
<1>3. Ended' = Ended /\ Active' = Active /\ \A x \in Reports : Left(x)' = Left(x)
  BY <1>1 DEF Ended, Active, Left
<1>4. TypeOK'
  BY <1>1 DEF TypeOK, KeysTypeOK, Running, Busy
<1>5. Admission'
  BY <1>1, <1>2, <1>3 DEF Admission, TypeOK
<1>6. Progress'
  BY <1>1, <1>2 DEF Progress, TypeOK, Running
<1>7. Targeting'
  BY <1>1, <1>2, <1>3 DEF Targeting, TypeOK, InFlight, Running, Busy
<1>8. NotifiedEventsAreStored'
  BY <1>1, <1>2 DEF NotifiedEventsAreStored, TypeOK
<1>9. PostsObeySettings'
  BY <1>1, <1>3 DEF PostsObeySettings, TypeOK
<1> QED
  BY <1>4, <1>5, <1>6, <1>7, <1>8, <1>9

-----------------------------------------------------------------------------
(* Steps of the task.                                                      *)

\* A task that moves on leaves the handler's part of the invariant alone.
LEMMA TaskLeavesHandler ==
  ASSUME IInv, NEW e \in Reports, task[e] \in Busy,
         NEW now \in Busy \cup {"over"}, task' = [task EXCEPT ![e] = now],
         UNCHANGED <<members, apiKeys, generated, asked, pc, via, events, alerts, dead>>
  PROVE  Admission' /\ Progress' /\ NotifiedEventsAreStored'
<1> USE DEF IInv
<1>1. Ended' = Ended
  BY DEF Ended
<1>2. Admission'
  BY <1>1 DEF Admission
<1>3. pc[e] \notin Running \cup {"idle"}
  BY DEF Progress, Busy
<1>4. Progress'
  BY <1>3 DEF Progress, TypeOK
<1>5. NotifiedEventsAreStored'
  BY DEF NotifiedEventsAreStored, TypeOK, Busy
<1> QED
  BY <1>2, <1>4, <1>5

\* The settings are read: what the loop will try is what is active now.
LEMMA LoadTargetsIInv ==
  ASSUME IInv, NEW e \in Reports, LoadTargets(e)
  PROVE  IInv'
<1> USE DEF IInv
<1>1. /\ task[e] = "loading" /\ InFlight(e) /\ posts[e] = {} /\ todo[e] = <<>>
      /\ steady[e] \subseteq Active /\ Active \subseteq held[e]
      /\ UNCHANGED <<members, apiKeys, generated, asked, pc, via, events, alerts, posts,
                     installed, url, dead, held, steady>>
  BY DEF LoadTargets, InFlight, Busy, Targeting, keyVars, handler, settings, seen
<1>2. Active' = Active /\ Active \subseteq Targets /\ IsFiniteSet(Active)
  BY <1>1, ActiveTyped DEF Active
<1>3. ASSUME NEW order \in Orders(Active),
             todo' = [todo EXCEPT ![e] = order],
             task' = [task EXCEPT ![e] = NextTask(order)],
             unread' = unread
      PROVE  IInv'
  <2>1. /\ order \in Seq(Targets)
        /\ {order[i] : i \in DOMAIN order} = Active
        /\ \A i, j \in DOMAIN order : order[i] = order[j] => i = j
        /\ order = <<>> => Active = {}
    BY <1>2, OrderVisitsAll
  <2>2. NextTask(order) \in {"over", "posting"} /\ task'[e] = NextTask(order)
    BY <1>3 DEF NextTask, TypeOK
  <2>3. Left(e)' = Active /\ \A x \in Reports \ {e} : Left(x)' = Left(x)
    BY <1>3, <2>1 DEF Left, TypeOK
  <2>4. TypeOK'
    BY <1>1, <1>3, <2>1, <2>2 DEF TypeOK, KeysTypeOK, Busy
  <2>5. Admission' /\ Progress' /\ NotifiedEventsAreStored'
    BY <1>1, <1>3, <2>2, TaskLeavesHandler DEF Busy
  <2>6. \A x \in Reports : InFlight(x)' => InFlight(x)
    BY <1>1, <1>3 DEF InFlight, TypeOK
  <2>7. Targeting'
    BY <1>1, <1>2, <1>3, <2>1, <2>2, <2>3, <2>6 DEF Targeting, TypeOK, NextTask
  <2>8. PostsObeySettings'
    BY <1>1, <1>3, <2>1, <2>2, <2>3 DEF PostsObeySettings, TypeOK, NextTask
  <2> QED
    BY <2>4, <2>5, <2>7, <2>8
<1>4. ASSUME task' = [task EXCEPT ![e] = "over"], unread' = unread \cup {e}, todo' = todo
      PROVE  IInv'
  <2>1. \A x \in Reports : Left(x)' = Left(x)
    BY <1>4 DEF Left
  <2>2. TypeOK'
    BY <1>1, <1>4 DEF TypeOK, KeysTypeOK
  <2>3. Admission' /\ Progress' /\ NotifiedEventsAreStored'
    BY <1>1, <1>4, TaskLeavesHandler DEF Busy
  <2>4. Targeting'
    BY <1>1, <1>2, <1>4, <2>1 DEF Targeting, TypeOK, InFlight, Busy
  <2>5. PostsObeySettings'
    BY <1>1, <1>4, <2>1 DEF PostsObeySettings, TypeOK
  <2> QED
    BY <2>2, <2>3, <2>4, <2>5
<1> QED
  BY <1>3, <1>4 DEF LoadTargets

\* A post moves the first of the remaining targets to the tried ones.
LEMMA PostIInv ==
  ASSUME IInv, NEW e \in Reports, Post(e)
  PROVE  IInv'
<1> USE DEF IInv
<1> DEFINE target == Head(todo[e])
           rest == Tail(todo[e])
           tail == {rest[i] : i \in DOMAIN rest}
<1>1. /\ task[e] = "posting"
      /\ posts' = [posts EXCEPT ![e] = @ \cup {target}]
      /\ todo' = [todo EXCEPT ![e] = rest]
      /\ task' = [task EXCEPT ![e] = NextTask(rest)]
      /\ UNCHANGED <<members, apiKeys, generated, asked, pc, via, events, alerts, unread,
                     installed, url, dead, held, steady>>
  BY DEF Post, AfterPost, keyVars, handler, settings, seen
<1>2. /\ todo[e] \in Seq(Targets) /\ todo[e] # <<>>
      /\ \A i, j \in DOMAIN todo[e] : todo[e][i] = todo[e][j] => i = j
      /\ steady[e] \subseteq posts[e] \cup Left(e) /\ Left(e) \subseteq held[e]
      /\ Left(e) \cap posts[e] = {}
  BY <1>1 DEF Targeting, PostsObeySettings, TypeOK
<1>3. /\ rest \in Seq(Targets) /\ target \in Targets
      /\ Left(e) = {target} \cup tail /\ target \notin tail
      /\ \A i, j \in DOMAIN rest : rest[i] = rest[j] => i = j
  BY <1>2, HeadAndTail DEF Left
<1>4. rest = <<>> => tail = {}
  OBVIOUS
<1>5. Left(e)' = tail /\ \A x \in Reports \ {e} : Left(x)' = Left(x)
  BY <1>1 DEF Left, TypeOK
<1>6. /\ todo'[e] = rest /\ posts'[e] = posts[e] \cup {target}
      /\ task'[e] = NextTask(rest) /\ NextTask(rest) \in {"over", "posting"}
      /\ NextTask(rest) = "over" <=> rest = <<>>
  BY <1>1 DEF TypeOK, NextTask
<1> HIDE DEF target, rest, tail
<1>7. TypeOK'
  BY <1>1, <1>3, <1>6 DEF TypeOK, KeysTypeOK, Busy
<1>8. Admission' /\ Progress' /\ NotifiedEventsAreStored'
  BY <1>1, <1>6, TaskLeavesHandler DEF Busy
<1>9. Active' = Active /\ \A x \in Reports : InFlight(x)' => InFlight(x)
  BY <1>1 DEF Active, InFlight, TypeOK, Busy
<1>10. \A x \in Reports \ {e} : task'[x] = task[x] /\ todo'[x] = todo[x] /\ posts'[x] = posts[x]
  BY <1>1 DEF TypeOK
<1>11. Targeting'
  BY <1>1, <1>2, <1>3, <1>5, <1>6, <1>9, <1>10 DEF Targeting
<1>12. PostsObeySettings'
  <2>1. /\ posts'[e] \subseteq held[e]
        /\ task'[e] = "over" => steady[e] \subseteq posts'[e]
        /\ Left(e)' \cap posts'[e] = {}
    BY <1>2, <1>3, <1>4, <1>5, <1>6 DEF PostsObeySettings
  <2> QED
    BY <1>1, <1>3, <1>5, <1>6, <1>10, <2>1 DEF PostsObeySettings
<1> QED
  BY <1>7, <1>8, <1>11, <1>12

-----------------------------------------------------------------------------
(* Steps of the admin and of the process.                                  *)

\* A statement on the integrations table: the ghosts of what is in flight follow.
LEMMA SetIntegrationsIInv ==
  ASSUME IInv, NEW now \in SUBSET Slugs, NEW at \in [Slugs -> Urls \cup {NoUrl}],
         SetIntegrations(now, at)
  PROVE  IInv'
<1> USE DEF IInv
<1> DEFINE new == ActiveIn(now, at)
<1>1. /\ installed' = now /\ url' = at
      /\ held' = [x \in Reports |-> held[x] \cup IF InFlight(x) THEN new ELSE {}]
      /\ steady' = [x \in Reports |-> steady[x] \cap IF InFlight(x) THEN new ELSE steady[x]]
      /\ UNCHANGED <<members, apiKeys, generated, asked, pc, via, events, alerts, task, todo,
                     posts, unread, dead>>
  BY DEF SetIntegrations, keyVars, handler, dispatch
<1>2. new \subseteq Targets /\ Active' = new
  BY <1>1, ActiveInTyped DEF Active
<1>3. Ended' = Ended /\ \A x \in Reports : Left(x)' = Left(x) /\ InFlight(x)' = InFlight(x)
  BY <1>1 DEF Ended, Left, InFlight
<1> HIDE DEF new
<1>4. \A x \in Reports :
        /\ held[x] \subseteq held'[x] /\ steady'[x] \subseteq steady[x]
        /\ InFlight(x) => new \subseteq held'[x] /\ steady'[x] \subseteq new
  BY <1>1
<1>5. TypeOK'
  BY <1>1, <1>2 DEF TypeOK, KeysTypeOK
<1>6. Admission' /\ Progress' /\ NotifiedEventsAreStored'
  BY <1>1, <1>3 DEF Admission, Progress, NotifiedEventsAreStored
<1>7. Targeting'
  BY <1>1, <1>2, <1>3, <1>4 DEF Targeting
<1>8. PostsObeySettings'
  BY <1>1, <1>3, <1>4 DEF PostsObeySettings
<1> QED
  BY <1>5, <1>6, <1>7, <1>8

\* install, uninstall and configure are such statements.
LEMMA SettingsIInv ==
  ASSUME IInv, NEW s \in Slugs,
         Install(s) \/ Uninstall(s) \/ \E u \in Urls : Configure(s, u)
  PROVE  IInv'
<1>1. installed \cup {s} \in SUBSET Slugs /\ installed \ {s} \in SUBSET Slugs
  BY DEF IInv, TypeOK
<1>2. url \in [Slugs -> Urls \cup {NoUrl}]
  BY DEF IInv, TypeOK
<1>3. CASE Install(s)
  BY <1>1, <1>2, <1>3, SetIntegrationsIInv DEF Install
<1>4. CASE Uninstall(s)
  BY <1>1, <1>2, <1>4, SetIntegrationsIInv DEF Uninstall
<1>5. ASSUME NEW u \in Urls, Configure(s, u) PROVE IInv'
  <2>1. [url EXCEPT ![s] = u] \in [Slugs -> Urls \cup {NoUrl}]
    BY <1>2
  <2> QED
    BY <1>1, <1>5, <2>1, SetIntegrationsIInv DEF Configure
<1> QED
  BY <1>3, <1>4, <1>5

\* Keys only end: a key that has ended is not made again, and no statement takes
\* a revocation back.
LEMMA KeysOnlyEnd ==
  ASSUME KeysTypeOK,
         \/ \E u \in Members, k \in Keys, scope \in {"org", "personal"} : CreateKey(u, k, scope)
         \/ \E k \in Keys : Revoke(k)
         \/ \E u \in Members : RemoveMember(u)
  PROVE  KeysTypeOK' /\ Ended \subseteq Ended'
<1> USE DEF KeysTypeOK, KeyRow
<1>1. ASSUME NEW u \in Members, NEW k \in Keys, NEW scope \in {"org", "personal"},
             CreateKey(u, k, scope)
      PROVE  KeysTypeOK' /\ Ended \subseteq Ended'
  <2> DEFINE new == [key |-> k, owner |-> u, scope |-> scope, revoked |-> FALSE]
  <2>1. /\ k \notin generated
        /\ generated' = generated \cup {k}
        /\ apiKeys' = apiKeys \cup {new}
        /\ members' = members
    BY <1>1 DEF CreateKey
  <2>2. new \in KeyRow /\ new.key = k
    BY Zenon
  <2> HIDE DEF new
  <2>3. KeysTypeOK'
    BY <2>1, <2>2
  <2>4. \A row \in apiKeys' : row \in apiKeys \/ row.key = k
    BY <2>1, <2>2
  <2>5. Ended \subseteq Ended'
    BY <2>1, <2>4 DEF Ended
  <2> QED
    BY <2>3, <2>5
<1>2. ASSUME NEW k \in Keys, Revoke(k)
      PROVE  KeysTypeOK' /\ Ended \subseteq Ended'
  <2>1. \A row \in apiKeys : /\ [row EXCEPT !.revoked = @ \/ row.key = k] \in KeyRow
                             /\ [row EXCEPT !.revoked = @ \/ row.key = k].key = row.key
                             /\ ~ [row EXCEPT !.revoked = @ \/ row.key = k].revoked => ~ row.revoked
    BY Zenon
  <2>2. generated' = generated /\ members' = members
    BY <1>2 DEF Revoke
  <2>3. \A new \in apiKeys' : /\ new \in KeyRow
                              /\ \E row \in apiKeys : new.key = row.key /\ (~ new.revoked => ~ row.revoked)
    BY <1>2, <2>1 DEF Revoke
  <2> QED
    BY <2>2, <2>3 DEF Ended
<1>3. ASSUME NEW u \in Members, RemoveMember(u)
      PROVE  KeysTypeOK' /\ Ended \subseteq Ended'
  BY <1>3 DEF RemoveMember, Ended
<1> QED
  BY <1>1, <1>2, <1>3

LEMMA EditKeysIInv == IInv /\ EditKeys => IInv'
<1> SUFFICES ASSUME IInv, EditKeys PROVE IInv'
  OBVIOUS
<1> USE DEF IInv
<1>1. KeysTypeOK' /\ Ended \subseteq Ended'
  BY KeysOnlyEnd DEF EditKeys, TypeOK
<1>2. UNCHANGED <<asked, pc, via, events, alerts, task, todo, posts, unread, installed, url,
                  dead, held, steady>>
  BY DEF EditKeys, handler, dispatch, settings, seen
<1>3. TypeOK'
  BY <1>1, <1>2 DEF TypeOK
<1>4. Admission'
  BY <1>1, <1>2 DEF Admission
<1>5. Progress' /\ NotifiedEventsAreStored'
  BY <1>2 DEF Progress, NotifiedEventsAreStored
<1>6. Active' = Active /\ \A x \in Reports : Left(x)' = Left(x) /\ InFlight(x)' = InFlight(x)
  BY <1>2 DEF Active, Left, InFlight
<1>7. Targeting' /\ PostsObeySettings'
  BY <1>2, <1>6 DEF Targeting, PostsObeySettings
<1> QED
  BY <1>3, <1>4, <1>5, <1>7

\* A stop leaves the rows, and nothing in flight.
LEMMA StopIInv == IInv /\ Stop => IInv'
<1> SUFFICES ASSUME IInv, Stop PROVE IInv'
  OBVIOUS
<1> USE DEF IInv
<1>1. /\ pc' = [x \in Reports |-> IF pc[x] \in Running THEN "failed" ELSE pc[x]]
      /\ task' = [x \in Reports |-> IF task[x] \in Busy THEN "lost" ELSE task[x]]
      /\ UNCHANGED <<members, apiKeys, generated, asked, via, events, alerts, todo, posts,
                     unread, installed, url, dead, held, steady>>
  BY DEF Stop, keyVars, settings, seen
<1>2. TypeOK'
  BY <1>1 DEF TypeOK, KeysTypeOK, Running, Busy
<1>3. Ended' = Ended /\ \A x \in Reports : Left(x)' = Left(x) /\ ~ InFlight(x)'
  BY <1>1 DEF Ended, Left, InFlight, Running, Busy
<1>4. Admission'
  BY <1>1, <1>3 DEF Admission, Running
<1>5. Progress'
  BY <1>1 DEF Progress, Running, Busy
<1>6. NotifiedEventsAreStored'
  BY <1>1 DEF NotifiedEventsAreStored, Busy
<1>7. Targeting'
  BY <1>1, <1>3 DEF Targeting, Busy
<1>8. PostsObeySettings'
  BY <1>1, <1>3 DEF PostsObeySettings, Busy
<1> QED
  BY <1>2, <1>4, <1>5, <1>6, <1>7, <1>8

LEMMA StutterIInv == IInv /\ UNCHANGED vars => IInv'
<1> SUFFICES ASSUME IInv, UNCHANGED vars PROVE IInv'
  OBVIOUS
<1> USE DEF IInv, vars, keyVars, handler, dispatch, settings, seen
<1>1. TypeOK'
  BY DEF TypeOK, KeysTypeOK
<1>2. Admission' /\ Progress' /\ NotifiedEventsAreStored'
  BY DEF Admission, Ended, Progress, NotifiedEventsAreStored
<1>3. Targeting' /\ PostsObeySettings'
  BY DEF Targeting, PostsObeySettings, Left, InFlight, Active
<1> QED
  BY <1>1, <1>2, <1>3

-----------------------------------------------------------------------------
(* The theorems.                                                           *)

\* The invariant holds of every behaviour: one case per action.
THEOREM Invariance == Spec => []IInv
<1>1. IInv /\ [Next]_vars => IInv'
  BY ArriveIInv, ResolveIInv, InsertIInv, RaiseAlertIInv, LoadTargetsIInv, PostIInv,
     SettingsIInv, EditKeysIInv, StopIInv, StutterIInv DEF Next, Task
<1> QED
  BY InitIInv, <1>1, PTL DEF Spec

\* Every variable keeps its shape, the rows of api_keys in particular.
THEOREM TypeCorrect == Spec => []TypeOK
<1>1. IInv => TypeOK
  BY DEF IInv
<1> QED
  BY Invariance, <1>1, PTL

\* A report is never stored by a key that was revoked, or had gone with its
\* owner, before the report came (resolve_org of telemetry.rs).
THEOREM RevokedKeysAreDead == Spec => []DeadKeysAdmitNothing
<1>1. IInv => DeadKeysAdmitNothing
  BY DEF IInv, TypeOK, Admission, DeadKeysAdmitNothing
<1> QED
  BY Invariance, <1>1, PTL

\* The loop of dispatch tells every target that stayed active, none twice, and
\* none that was not active at some time, however the settings change.
THEOREM DispatchObeysSettings == Spec => []PostsObeySettings
<1>1. IInv => PostsObeySettings
  BY DEF IInv
<1> QED
  BY Invariance, <1>1, PTL

\* ingest alerts and notifies of stored, admitted reports that caught something.
THEOREM OnlyStoredIsTold == Spec => []NotifiedEventsAreStored
<1>1. IInv => NotifiedEventsAreStored
  BY DEF IInv
<1> QED
  BY Invariance, <1>1, PTL
=============================================================================
