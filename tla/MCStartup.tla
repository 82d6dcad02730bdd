----------------------------- MODULE MCStartup -----------------------------
(* Startup on small instances. *)
EXTENDS Startup

CONSTANTS me, p, q, i1, i2, c1

ThreePods == {me, p, q}
Ips       == {i1, i2}
OneCaller == {c1}

\* The pod p has had the address of this node before it.
Reused == [x \in Pod |-> IF x = q THEN i2 ELSE i1]
=============================================================================
