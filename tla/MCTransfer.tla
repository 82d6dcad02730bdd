----------------------------- MODULE MCTransfer -----------------------------
(* Transfer on small instances. *)
EXTENDS Transfer

CONSTANTS k1, k2, k3, v1, t1, t2, NoTTL

ThreeKeys == {k1, k2, k3}
TwoKeys   == {k1, k2}
OneValue  == {v1}
TwoTokens == {t1, t2}

\* Two keys in the first token, one in the second.
TokenOf == [k \in Key |-> IF k = k3 THEN t2 ELSE t1]
Both    == <<t1, t2>>

MoveOrCopy == {"MoveData", "CopyData"}
=============================================================================
