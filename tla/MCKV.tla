-------------------------------- MODULE MCKV --------------------------------
(* KV on small instances. *)
EXTENDS KV, TLC

CONSTANTS n1, n2, n3, o1, o2, o3, NoTTL

Two   == {n1, n2}
Three == {n1, n2, n3}

\* The list of a quiet ring; those of one that n1 joins or leaves.
OnThree == {Three}
OneLess == {Three, {n2, n3}}
TwoLess == {Two, {n2}}

Calls    == {o1, o2, o3}
TwoCalls == {o1, o2}

SetGet       == {"set", "get"}
SetGetDelete == {"set", "get", "delete"}

Majority == {2}
OneOrTwo == {1, 2}

Forever  == {NoTTL}
ShortTtl == {NoTTL, 2}

NoSkew == [n \in Node |-> 0]
\* The clock of n1 is ahead.
OneAhead == [n \in Node |-> IF n = n1 THEN 1 ELSE 0]

ByCall   == Permutations(Op)
ButFirst == ByCall \cup Permutations(Node \ {n1})
=============================================================================
