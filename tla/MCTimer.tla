------------------------------ MODULE MCTimer -------------------------------
(* Instances of Timer for TLC. *)
EXTENDS Timer

MCDelay == {0, 1, 3}
AllPolicies == DestroyPolicy
DroppingPolicies == {"CANCEL_ON_DESTROY", "REMOVE_ON_DESTROY"}
=============================================================================
