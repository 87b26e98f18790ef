---------------------------- MODULE MCFeesCoinbase ----------------------------
(***************************************************************************)
(* Instances of FeesCoinbase for TLC: CAmount of 4 bits (-8..7) and        *)
(* MAX_MONEY = 3, so that 2 * MAX_MONEY fits as it does in 64 bits and a   *)
(* handful of MAX_MONEY outputs reach the width.                           *)
(***************************************************************************)
EXTENDS FeesCoinbase

CONSTANTS A, B

MCMaxMoney == 3
MCIntBits == 4

Out(assetExp, asset, valueExp, amt, script) ==
    [assetExp |-> assetExp, asset |-> asset, valueExp |-> valueExp, amt |-> amt,
     script |-> script]

(* Fee outputs of every amount class (negative, zero, in range, above     *)
(* MAX_MONEY), in two assets, and outputs that are not fees.             *)
MCFeeOutChoices ==
    {Out(TRUE, A, TRUE, v, "empty") : v \in {-1, 0, 2, 3, 4}}
    \cup {Out(TRUE, B, TRUE, 2, "empty"),
          Out(FALSE, A, FALSE, 0, "empty"),
          Out(TRUE, A, TRUE, 2, "spendable")}

(* Coinbase outputs: explicit of every amount class and script, and       *)
(* outputs with a committed asset or value.                               *)
MCCbOutChoices ==
    {Out(TRUE, A, TRUE, v, s) : v \in {0, 1, 3, 4}, s \in {"spendable", "unspendable"}}
    \cup {Out(TRUE, B, TRUE, 1, "spendable"),
          Out(FALSE, A, TRUE, 1, "spendable"),
          Out(TRUE, A, FALSE, 1, "spendable")}

(* A coinbase of MAX_MONEY outputs of asset A, for the wrap of line 516.  *)
MCCbMaxOutputs == {Out(TRUE, A, TRUE, 3, "spendable")}

=============================================================================
