---------------------------- MODULE MCCANReceive ----------------------------
(***************************************************************************)
(* Small instances of the receive path: two frames, f1 of id {} and f2 of  *)
(* id {b1}, and filters for both or for f2 only.                           *)
(***************************************************************************)
EXTENDS CANReceiveDelivery

CONSTANTS f1, f2, o1, o2, b1, s1, s2

MCId == f1 :> {} @@ f2 :> {b1}

Everything == [can_id |-> {}, mask |-> {}]
OnlyB1     == [can_id |-> {b1}, mask |-> {b1}]
AllFilters == {Everything, OnlyB1}
OneFilter  == {OnlyB1}

Symmetry == Permutations({s1, s2}) \cup Permutations({o1, o2})
=============================================================================
