------------------------------ MODULE MCMembers ------------------------------
(* Two members, four requests: enough for an invite, a re-invitation and   *)
(* two acceptances of one member, or for both members to be invited.       *)
EXTENDS Members, TLC

CONSTANTS m1, m2, r1, r2, r3, r4

MCMembers == {m1, m2}
MCRequests == {r1, r2, r3, r4}
MCSymmetry == Permutations(MCMembers) \cup Permutations(MCRequests)
=============================================================================
