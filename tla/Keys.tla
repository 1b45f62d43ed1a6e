-------------------------------- MODULE Keys --------------------------------
(* The events that an event list may be given, each by its key.             *)
EXTENDS EventKey

CONSTANT Key

ASSUME KeyAssumption ==
    /\ Key \subseteq [ts : Nat, uid : Nat]
    /\ \A a, b \in Key : a.uid = b.uid => a = b
=============================================================================
