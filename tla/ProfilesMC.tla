------------------------------ MODULE ProfilesMC ------------------------------
(* Small instances of Profiles: the default profile allows every server, the   *)
(* other ones none, and the requests are interchangeable.                      *)
EXTENDS Profiles, TLC

OneRestricted == {[v \in Value |-> IF v = Default THEN Server ELSE {}]}
Symmetry == Permutations(Req)
=============================================================================
