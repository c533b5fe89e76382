----------------------------- MODULE DailyBudget -----------------------------
(***************************************************************************)
(* What the gateway promises about the daily request quota, with none of   *)
(* how it keeps the promise: every request gets one verdict, a unit of the *)
(* budget of its window is spent by a granted request, a request is        *)
(* granted only while units are left and refused only when none is.        *)
(*                                                                         *)
(* Two outcomes are outside the budget because the gate fails open: a      *)
(* request the store gave no answer for goes through unmetered (and may    *)
(* have spent a unit), and a client that goes away may waste a unit.       *)
(* QuotaGate implements this module with a shared counter that overshoots  *)
(* and is rolled back.                                                     *)
(***************************************************************************)
EXTENDS Naturals, FiniteSets

CONSTANTS
  Requests,     \* requests, each one made once
  Windows,      \* quota windows: one per organisation and UTC day
  Capped(_),    \* does the window's plan have a daily limit?
  Limit(_)      \* the limit of a capped window

VARIABLES
  spent,        \* window -> the requests that spent one of its units
  verdict       \* request -> what it was told

vars == <<spent, verdict>>

Verdicts == {"none", "granted", "unmetered", "refused"}

Exhausted(w) == Capped(w) /\ Cardinality(spent[w]) >= Limit(w)

Init ==
  /\ spent = [w \in Windows |-> {}]
  /\ verdict = [r \in Requests |-> "none"]

Spend(r, w) == spent' = [spent EXCEPT ![w] = @ \cup {r}]

Answer(r, v) ==
  /\ verdict[r] = "none"
  /\ verdict' = [verdict EXCEPT ![r] = v]

Grant(r, w) ==
  /\ ~ Exhausted(w)
  /\ Answer(r, "granted")
  /\ Spend(r, w)

Refuse(r, w) ==
  /\ Exhausted(w)
  /\ Answer(r, "refused")
  /\ UNCHANGED spent

\* The store did not answer: the request passes, its unit spent or not.
PassUnmetered(r, w) ==
  /\ Answer(r, "unmetered")
  /\ Spend(r, w) \/ UNCHANGED spent

\* The client left before it was told anything: its unit is spent for nothing.
Waste(r, w) ==
  /\ verdict[r] = "none"
  /\ Spend(r, w)
  /\ UNCHANGED verdict

Next ==
  \E r \in Requests, w \in Windows :
    Grant(r, w) \/ Refuse(r, w) \/ PassUnmetered(r, w) \/ Waste(r, w)

Spec == Init /\ [][Next]_vars
=============================================================================
