-------------------------------- MODULE MCRag --------------------------------
(* One document of up to eight characters with every window, or two short  *)
(* ones; the service answers in order, in another order, without indexes,  *)
(* or with a vector missing.                                               *)
EXTENDS Rag, TLC

CONSTANTS r1, r2

MCRequests == {r1, r2}

Texts(n) == UNION {[1 .. k -> {"x", " "}] : k \in 0 .. n}
Blank == <<" ">>
MCAsked ==
  {(r1 :> t) @@ (r2 :> Blank) : t \in {u \in Texts(8) : Len(u) = 0 \/ u[1] = "x"}}
    \cup {(r1 :> t) @@ (r2 :> u) : t, u \in {<<"x", " ", "x">>, <<" ", "x", "x", "x", "x">>}}

MCWindows == {<<1, 0>>, <<2, 1>>, <<3, 1>>, <<4, 2>>, <<4, 3>>, <<5, 2>>}

Datum(index, k) == [index |-> index, of |-> k]
MCReplies(n) ==
  {[k \in 1 .. n |-> Datum(k - 1, k)], [k \in 1 .. n |-> Datum(n - k, n + 1 - k)],
   [k \in 1 .. n |-> Datum(0, k)], [k \in 1 .. n - 1 |-> Datum(k - 1, k)]}
=============================================================================
