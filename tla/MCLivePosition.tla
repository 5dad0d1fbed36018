--------------------------- MODULE MCLivePosition ---------------------------
(* The outline changes: an agenda point with a sub-point and an AOB row the *)
(* skip rules govern; the point may gain a second sub-point, and may be     *)
(* replaced by another one that takes both sub-points over.                 *)
EXTENDS LivePosition

CONSTANTS A, a1, a2, B, Z

MCSections == {A, a1, a2, B, Z}

Parents(S, f) == [s \in S |-> IF s \in DOMAIN f THEN f[s] ELSE None]
Under(p, S) == Parents(MCSections, [s \in S |-> p])

OneSub == [flat |-> <<A, a1, Z>>, parent |-> Under(A, {a1})]
TwoSubs == [flat |-> <<A, a1, a2, Z>>, parent |-> Under(A, {a1, a2})]
Replaced == [flat |-> <<B, a1, Z>>, parent |-> Under(B, {a1})]

MCOutlines == {OneSub, TwoSubs, Replaced}
=============================================================================
