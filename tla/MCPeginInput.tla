---------------------------- MODULE MCPeginInput ----------------------------
(* Peg-in witnesses for TLC.  The amount item is 7, 8 or 9 bytes and its    *)
(* first bytes read as 0, 1, MAX_MONEY, MAX_MONEY + 1 or all ones (-1 as a  *)
(* CAmount); the asset item is 32 or 33 bytes; the genesis hash, claim      *)
(* script and the two proof items of a real peg-in take one value each.     *)
(* Every witness of 0 to 6 items is passed in.                              *)
EXTENDS PeginInput

CONSTANTS a1, g1, s1, tx1, pf1

MCAmountItems ==
    [len : {7, 8, 9}, word : {0, 1, MaxMoney, MaxMoney + 1, 2^AmountBits - 1}]

MCItems ==
    <<MCAmountItems,
      [len : {32, 33}, id : {a1}],
      {[len |-> 32, id |-> g1]},
      {[len |-> 22, id |-> s1]},
      {[len |-> 60, id |-> tx1]},
      {[len |-> 80, id |-> pf1]}>>

RECURSIVE MCStacks(_)
MCStacks(n) ==
    IF n = 0 THEN {<<>>}
    ELSE {Append(w, x) : w \in MCStacks(n - 1), x \in MCItems[n]}

MCWitnesses == UNION {MCStacks(n) : n \in 0..Len(MCItems)}
=============================================================================
