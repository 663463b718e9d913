-------------------------------- MODULE MCOta ---------------------------------
(* Values for the runs of OtaUpdate.                                         *)
EXTENDS OtaUpdate

CONSTANTS u1, u2, v1, v2, v3, n1, n2, junk, torn, none

OneUrl == {u1}
TwoUrls == {u1, u2}
TwoVersions == {v1, v2}
ThreeVersions == {v1, v2, v3}
OneName == {n1}
TwoNames == {n1, n2}
NameOne == [u \in OneUrl |-> n1]
NamesTwo == [u \in TwoUrls |-> IF u = u1 THEN n1 ELSE n2]
SizesTwo == [v \in TwoVersions |-> IF v = v1 THEN 2 ELSE 1]
SizesThree == [v \in ThreeVersions |-> IF v = v3 THEN 1 ELSE 2]
=============================================================================
