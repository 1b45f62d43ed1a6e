------------------------ MODULE MCGrantedTimeWindow ------------------------
(* An instance of GrantedTimeWindow for TLC: three ranks in a row. *)
EXTENDS GrantedTimeWindow, TLC

CONSTANTS a, b, c, ab, bc

MCEnds == (ab :> {a, b}) @@ (bc :> {b, c})
MCLinkDelay == (ab :> 2) @@ (bc :> 1)
MCDelay == {1}
MCTxTime == {0}
MCBound == {20}
=============================================================================
