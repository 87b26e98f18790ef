--------------------------- MODULE MCDiscountedSize ---------------------------
(***************************************************************************)
(* DiscountedSize with WITNESS_SCALE_FACTOR = 4 and a 6-bit size_t, which  *)
(* holds every weight the sizes below produce, so only a read past the    *)
(* end of vtxoutwit can wrap it.                                          *)
(***************************************************************************)
EXTENDS DiscountedSize

MCW == 4
MCSizeBits == 6

(* Fee outputs are explicit; other outputs have either field committed.   *)
MCOutChoices ==
    {[fee |-> TRUE, assetCommit |-> FALSE, valueCommit |-> FALSE]}
    \cup [fee : {FALSE}, assetCommit : BOOLEAN, valueCommit : BOOLEAN]

(* A garbage read: nothing, a small size, or one past the weight.         *)
MCGarbageSizes == {0, 3, 60}

=============================================================================
