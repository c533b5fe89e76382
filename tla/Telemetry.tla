------------------------------ MODULE Telemetry ------------------------------
(***************************************************************************)
(* A report of the browser extension on its way through the control plane: *)
(* ingest of routes/telemetry.rs resolves the organisation by key or by    *)
(* token, stores the event, raises an alert and spawns dispatch of         *)
(* crates/notify, which posts to the integrations the organisation had     *)
(* installed when it read them (routes/integrations.rs edits them).        *)
(*                                                                         *)
(* Each await is a step. dispatch is the same task the gateway spawns for  *)
(* its own alerts (NotifyAlert of ChatPipeline). One organisation.         *)
(***************************************************************************)
EXTENDS ApiKeys, Sequences

CONSTANTS
  Reports,      \* requests to POST /api/telemetry, each made once
  NoKey,        \* the header is missing
  Slugs,        \* the catalog of integrations
  Deliverable,  \* those with a delivery URL: slack, teams, webhooks
  Urls, NoUrl,
  Setups,       \* states of the integrations table to begin with
  MaxEdits,     \* bound on edits of keys, members and integrations
  MaxStops      \* bound on stops of the process

ASSUME TelemetryAssumption ==
  /\ NoKey \notin Keys
  /\ NoUrl \notin Urls
  /\ Deliverable \subseteq Slugs /\ IsFiniteSet(Deliverable)
  /\ \A setup \in Setups : /\ setup.installed \subseteq Slugs
                            /\ setup.url \in [Slugs -> Urls \cup {NoUrl}]

VARIABLES
  asked,        \* report -> the key presented, a valid token or none, count > 0
  pc,           \* report -> the await its handler is at, or how it ended
  via,          \* report -> what admitted it
  events,       \* rows of shadow_events
  alerts,       \* rows of risk_alerts
  task,         \* report -> its dispatch task
  todo,         \* report -> the targets left of the task's loop
  posts,        \* report -> the targets posted to, whatever they answered
  installed,    \* integrations.installed
  url,          \* integrations.config->>'url'
  edits, stops,
  dead,         \* ghost: report -> the keys that had ended when it arrived
  held,         \* ghost: report -> targets that were active while it was in flight
  steady,       \* ghost: report -> targets active all the time since it arrived
  unread        \* ghost: reports whose task could not read the targets

handler == <<asked, pc, via, events, alerts>>
dispatch == <<task, todo, posts, unread>>
settings == <<installed, url>>
bounds == <<edits, stops>>
seen == <<dead, held, steady>>
vars == <<keyVars, handler, dispatch, settings, bounds, seen>>

Running == {"resolve", "insert", "alert"}
Busy == {"loading", "posting"}
InFlight(e) == pc[e] \in Running \/ task[e] \in Busy

\* load_targets: what is installed, can be delivered to and has a URL.
ActiveIn(some, at) == {<<s, at[s]>> : s \in {x \in some \cap Deliverable : at[x] # NoUrl}}
Active == ActiveIn(installed, url)

Init ==
  /\ KeysInit
  /\ asked \in [Reports -> [key : Keys \cup {NoKey}, token : BOOLEAN, caught : BOOLEAN]]
  /\ pc = [e \in Reports |-> "idle"]
  /\ via = [e \in Reports |-> NoKey]
  /\ events = {} /\ alerts = {}
  /\ task = [e \in Reports |-> "none"]
  /\ todo = [e \in Reports |-> <<>>]
  /\ posts = [e \in Reports |-> {}]
  /\ \E setup \in Setups : installed = setup.installed /\ url = setup.url
  /\ edits = 0 /\ stops = 0
  /\ dead = [e \in Reports |-> {}]
  /\ held = [e \in Reports |-> {}]
  /\ steady = [e \in Reports |-> {}]
  /\ unread = {}

Goto(e, where) == pc' = [pc EXCEPT ![e] = where]

-----------------------------------------------------------------------------
(* ingest.                                                                 *)

\* The request arrives.
Arrive(e) ==
  /\ pc[e] = "idle"
  /\ Goto(e, "resolve")
  /\ dead' = [dead EXCEPT ![e] = Ended]
  /\ held' = [held EXCEPT ![e] = Active]
  /\ steady' = [steady EXCEPT ![e] = Active]
  /\ UNCHANGED <<keyVars, asked, via, events, alerts, dispatch, settings, bounds>>

\* resolve_org: the key if it is known and not revoked, else the token.
Resolve(e) ==
  /\ pc[e] = "resolve"
  /\ LET known == Lookup(asked[e].key) # {} IN
       /\ via' = [via EXCEPT ![e] = IF known THEN asked[e].key ELSE NoKey]
       /\ Goto(e, IF known \/ asked[e].token THEN "insert" ELSE "failed")
  /\ UNCHANGED <<keyVars, asked, events, alerts, dispatch, settings, bounds, seen>>

\* INSERT INTO shadow_events; the rest is for events that caught something.
Insert(e) ==
  /\ pc[e] = "insert"
  /\ events' = events \cup {e}
  /\ Goto(e, IF asked[e].caught THEN "alert" ELSE "answered")
  /\ UNCHANGED <<keyVars, asked, via, alerts, dispatch, settings, bounds, seen>>

\* It fails, or its answer is lost: `?` ends the request.
AfterLostIgnored == "alert"
AfterLost == "failed"
InsertFails(e) ==
  /\ pc[e] = "insert"
  /\ events' \in {events, events \cup {e}}
  /\ Goto(e, AfterLost)
  /\ UNCHANGED <<keyVars, asked, via, alerts, dispatch, settings, bounds, seen>>

\* The alert's INSERT, whose failure is ignored; then the task is spawned and
\* the request is answered.
RaiseAlert(e) ==
  /\ pc[e] = "alert"
  /\ alerts' \in {alerts, alerts \cup {e}}
  /\ task' = [task EXCEPT ![e] = "loading"]
  /\ Goto(e, "answered")
  /\ UNCHANGED <<keyVars, asked, via, events, todo, posts, unread, settings, bounds, seen>>

\* The client leaves or the key cannot be looked up: the handler is dropped, and
\* a statement on its way may still take effect.
Dropped(e) ==
  /\ pc[e] \in Running
  /\ Goto(e, "failed")
  /\ \/ UNCHANGED <<events, alerts>>
     \/ pc[e] = "insert" /\ events' = events \cup {e} /\ UNCHANGED alerts
     \/ pc[e] = "alert" /\ alerts' = alerts \cup {e} /\ UNCHANGED events
  /\ UNCHANGED <<keyVars, asked, via, dispatch, settings, bounds, seen>>

-----------------------------------------------------------------------------
(* dispatch, a task of its own.                                            *)

NextTask(rest) == IF rest = <<>> THEN "over" ELSE "posting"

\* The orders in which a loop may visit a set.
Orders(S) ==
  {order \in [1 .. Cardinality(S) -> S] :
     /\ \A x \in S : \E i \in DOMAIN order : order[i] = x
     /\ \A i, j \in DOMAIN order : order[i] = order[j] => i = j}

\* The targets are read once, in any order; a failed query reads as none.
LoadTargets(e) ==
  /\ task[e] = "loading"
  /\ \/ \E order \in Orders(Active) :
          /\ todo' = [todo EXCEPT ![e] = order]
          /\ task' = [task EXCEPT ![e] = NextTask(order)]
          /\ UNCHANGED unread
     \/ /\ task' = [task EXCEPT ![e] = "over"]
        /\ unread' = unread \cup {e}
        /\ UNCHANGED todo
  /\ UNCHANGED <<keyVars, handler, posts, settings, bounds, seen>>

\* What is left after a target accepted the post, or refused it or timed out.
AfterPostGivesUp(target, rest, accepted) == IF accepted THEN rest ELSE <<>>
AfterPostRequeues(target, rest, accepted) == IF accepted THEN rest ELSE Append(rest, target)
AfterPost(target, rest, accepted) == rest

Post(e) ==
  /\ task[e] = "posting"
  /\ posts' = [posts EXCEPT ![e] = @ \cup {Head(todo[e])}]
  /\ \E accepted \in BOOLEAN :
       LET rest == AfterPost(Head(todo[e]), Tail(todo[e]), accepted) IN
         /\ todo' = [todo EXCEPT ![e] = rest]
         /\ task' = [task EXCEPT ![e] = NextTask(rest)]
  /\ UNCHANGED <<keyVars, handler, unread, settings, bounds, seen>>

-----------------------------------------------------------------------------
(* The admin, and the process.                                             *)

Edit == edits < MaxEdits /\ edits' = edits + 1 /\ UNCHANGED stops

\* A statement on the integrations table.
SetIntegrations(now, at) ==
  /\ Edit
  /\ installed' = now /\ url' = at
  /\ held' = [e \in Reports |-> held[e] \cup IF InFlight(e) THEN ActiveIn(now, at) ELSE {}]
  /\ steady' = [e \in Reports |-> steady[e] \cap IF InFlight(e) THEN ActiveIn(now, at)
                                                              ELSE steady[e]]
  /\ UNCHANGED <<keyVars, handler, dispatch, dead>>

\* install and uninstall keep the URL; configure also installs.
Install(s) == SetIntegrations(installed \cup {s}, url)
Uninstall(s) == SetIntegrations(installed \ {s}, url)
Configure(s, u) ==
  /\ s \in Deliverable
  /\ SetIntegrations(installed \cup {s}, [url EXCEPT ![s] = u])

EditKeys ==
  /\ Edit
  /\ \/ \E u \in Members, k \in Keys, scope \in {"org", "personal"} :
          CreateKey(u, k, scope)
     \/ \E k \in Keys : Revoke(k)
     \/ \E u \in Members : RemoveMember(u)
  /\ UNCHANGED <<handler, dispatch, settings, seen>>

\* The process stops with its handlers and tasks; nothing resumes them.
Stop ==
  /\ stops < MaxStops /\ stops' = stops + 1
  /\ pc' = [e \in Reports |-> IF pc[e] \in Running THEN "failed" ELSE pc[e]]
  /\ task' = [e \in Reports |-> IF task[e] \in Busy THEN "lost" ELSE task[e]]
  /\ UNCHANGED <<keyVars, asked, via, events, alerts, todo, posts, unread, settings, edits, seen>>

Task(e) == LoadTargets(e) \/ Post(e)

Next ==
  \/ \E e \in Reports : Arrive(e) \/ Resolve(e) \/ Insert(e) \/ InsertFails(e)
                          \/ RaiseAlert(e) \/ Dropped(e) \/ Task(e)
  \/ \E s \in Slugs : Install(s) \/ Uninstall(s) \/ \E u \in Urls : Configure(s, u)
  \/ EditKeys
  \/ Stop

\* A task is polled while it can go on: the query answers or fails, and a post
\* ends after the 8 s of http_client at the latest.
Spec == Init /\ [][Next]_vars /\ \A e \in Reports : WF_vars(Task(e))

-----------------------------------------------------------------------------
(* Properties.                                                             *)

\* A report that arrives after a key was revoked, or went with its owner, is
\* not stored on the strength of that key (telemetry.rs:28-38).
DeadKeysAdmitNothing == \A e \in events : via[e] \notin dead[e]

\* The targets a task has yet to try.
Left(e) == {todo[e][i] : i \in DOMAIN todo[e]}

\* What leaves for an integration goes where it was configured and installed at
\* some time since the report arrived; and a target that was active all that
\* time is tried, whatever the others answered, unless the targets could not be
\* read (notify/src/lib.rs:77-93, 119-130). None is tried twice.
PostsObeySettings ==
  \A e \in Reports :
    /\ posts[e] \subseteq held[e]
    /\ task[e] = "over" /\ e \notin unread => steady[e] \subseteq posts[e]
    /\ Left(e) \cap posts[e] = {}
    /\ \A i, j \in DOMAIN todo[e] : todo[e][i] = todo[e][j] => i = j

\* Nothing is told to the outside, and no alert is raised, of a report that was
\* refused, failed before it was stored, or caught nothing (telemetry.rs:86-90).
NotifiedEventsAreStored ==
  \A e \in Reports :
    e \in alerts \/ task[e] # "none" => /\ e \in events /\ asked[e].caught
                                        /\ via[e] # NoKey \/ asked[e].token

\* "a failing or slow endpoint never blocks" (notify/src/lib.rs:6-7): a spawned
\* task tries its targets and ends, unless the process stops.
DispatchEnds ==
  \A e \in Reports : task[e] = "loading" ~> task[e] \in {"over", "lost"}

-----------------------------------------------------------------------------
(* The inductive invariant behind the safety properties.                   *)

Targets == Deliverable \X Urls

\* Every variable keeps its shape.
TypeOK ==
  /\ KeysTypeOK
  /\ asked \in [Reports -> [key : Keys \cup {NoKey}, token : BOOLEAN, caught : BOOLEAN]]
  /\ pc \in [Reports -> Running \cup {"idle", "answered", "failed"}]
  /\ via \in [Reports -> Keys \cup {NoKey}]
  /\ events \subseteq Reports /\ alerts \subseteq Reports
  /\ task \in [Reports -> Busy \cup {"none", "over", "lost"}]
  /\ todo \in [Reports -> Seq(Targets)]
  /\ posts \in [Reports -> SUBSET Targets]
  /\ unread \subseteq Reports
  /\ installed \subseteq Slugs
  /\ url \in [Slugs -> Urls \cup {NoUrl}]
  /\ dead \in [Reports -> SUBSET Keys]
  /\ held \in [Reports -> SUBSET Targets]
  /\ steady \in [Reports -> SUBSET Targets]

\* A key that has ended stays so, and what passed resolve_org was not admitted
\* by one that had ended before.
Admission ==
  \A e \in Reports :
    /\ dead[e] \subseteq Ended
    /\ pc[e] \in {"insert", "alert"} \/ e \in events => via[e] \notin dead[e]

\* What a handler has written by the time it is at an await.
Progress ==
  \A e \in Reports :
    /\ pc[e] \in {"idle", "resolve"} => e \notin events /\ e \notin alerts
    /\ pc[e] \in Running \cup {"idle"} => task[e] = "none"
    /\ pc[e] \in {"insert", "alert"} \/ e \in events => via[e] # NoKey \/ asked[e].token
    /\ pc[e] = "alert" => e \in events /\ asked[e].caught

\* While a report is in flight its ghosts enclose the settings; a task has tried
\* or will try what was active all along.
Targeting ==
  \A e \in Reports :
    /\ InFlight(e) => steady[e] \subseteq Active /\ Active \subseteq held[e]
    /\ task[e] \in {"none", "loading"} => posts[e] = {} /\ todo[e] = <<>>
    /\ task[e] = "posting" => todo[e] # <<>> /\ steady[e] \subseteq posts[e] \cup Left(e)
    /\ Left(e) \subseteq held[e]

IInv == TypeOK /\ Admission /\ Progress /\ Targeting
          /\ NotifiedEventsAreStored /\ PostsObeySettings
=============================================================================
