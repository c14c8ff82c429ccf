-------------------------- MODULE MCProviderRefresh --------------------------
(* A Provider that a reload turns from one special kind into the other. *)
EXTENDS ProviderRefresh

TwoSchedules == [s \in {"s1", "s2"} |-> IF s = "s1" THEN "sub2api" ELSE "new_api"]
=============================================================================
