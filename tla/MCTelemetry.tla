----------------------------- MODULE MCTelemetry -----------------------------
(* One report, a key of one member, two integrations that deliver and one  *)
(* that does not; both start installed with a URL, or one without.         *)
EXTENDS Telemetry, TLC

CONSTANTS m1, k1, e1, slack, hooks, sheets, u1, u2

MCMembers == {m1}
MCKeys == {k1}
MCReports == {e1}
MCSlugs == {slack, hooks, sheets}
MCDeliverable == {slack, hooks}
MCUrls == {u1, u2}

Setup(on, slackUrl) ==
  [installed |-> on, url |-> (slack :> slackUrl) @@ (hooks :> u1) @@ (sheets :> NoUrl)]
MCSetups == {Setup({slack, hooks}, u1), Setup({slack, sheets}, NoUrl)}
=============================================================================
