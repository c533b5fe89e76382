---------------------------- MODULE MCQuotaGate ----------------------------
(* QuotaGate on a small instance: a capped and an uncapped organisation.   *)
EXTENDS QuotaGate, TLC

CONSTANTS free, big     \* organisations

MCPlanOf == free :> "free" @@ big :> "enterprise"
MCDailyLimit == [free |-> 2, team |-> 3]

MCSymmetry == Permutations(Requests)
=============================================================================
