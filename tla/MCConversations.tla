--------------------------- MODULE MCConversations ---------------------------
(* Two users who may use the same two ids of conversations and of messages *)
(* in two requests: each property relates no more than two of them.        *)
EXTENDS Conversations, TLC

CONSTANTS u1, u2, c1, c2, i1, i2, r1, r2

MCUsers == {u1, u2}
MCIds == {c1, c2}
MCMessageIds == {i1, i2}
MCRequests == {r1, r2}
MCSymmetry ==
  Permutations(MCUsers) \cup Permutations(MCIds)
    \cup Permutations(MCMessageIds) \cup Permutations(MCRequests)
=============================================================================
