------------------------------- MODULE MCRpc -------------------------------
(* Rpc on small instances. *)
EXTENDS Rpc, TLC

CONSTANTS a, b, r1, r2

Nodes  == {a, b}
TwoReq == {r1, r2}

\* A get and a set.
OneGet == {r1}

\* Both requests from a to b.
SameCaller == r1 :> a @@ r2 :> a
SameCallee == r1 :> b @@ r2 :> b

\* One request in each direction.
CrossCaller == r1 :> a @@ r2 :> b
CrossCallee == r1 :> b @@ r2 :> a
=============================================================================
