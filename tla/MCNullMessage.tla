--------------------------- MODULE MCNullMessage ---------------------------
(* Instances of NullMessage for TLC: three ranks in a row, with one link    *)
(* between any two neighbours; and two ranks with two links between them.   *)
EXTENDS NullMessage, TLC

CONSTANTS ab, bc

MCDelay == {0}

RowEnds == (ab :> {0, 1}) @@ (bc :> {1, 2})
RowLinkDelay == (ab :> 2) @@ (bc :> 1)
RowTxTime == (ab :> {1}) @@ (bc :> {1})
RowInterframeGap == (ab :> 1) @@ (bc :> 0)

PairEnds == (ab :> {0, 1}) @@ (bc :> {0, 1})
PairLinkDelay == (ab :> 2) @@ (bc :> 2)
PairTxTime == (ab :> {1}) @@ (bc :> {2})
PairInterframeGap == (ab :> 0) @@ (bc :> 0)
=============================================================================
