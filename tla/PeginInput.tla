------------------------------ MODULE PeginInput ------------------------------
(***************************************************************************)
(* GetPeginOutputFromWitness (src/script/pegins.cpp) composed with the    *)
(* step of VerifyAmounts (src/confidential_validation.cpp, lines 172-217) *)
(* that tallies the spent output of one input.  For a peg-in input the     *)
(* caller builds that spent output from the peg-in witness, so whatever    *)
(* the witness holds reaches the tally through this function.              *)
(*                                                                         *)
(* A witness is a sequence of stack items.  An item is a record of its     *)
(* byte length and what its bytes stand for: `word`, the little-endian     *)
(* value of its first min(len, 8) bytes, read as an AmountBits-bit word;   *)
(* `id`, the asset id, hash or script it carries.  CAmount is a signed     *)
(* integer of AmountBits bits (64 in the code) and MaxMoney scales with it.*)
(* The state is one call: the witness, the output it gave or the way the   *)
(* call ended, and the verdict of the tally.                               *)
(***************************************************************************)
EXTENDS Integers, Sequences

CONSTANTS
    AmountBits,   \* the width of CAmount in the model
    MaxMoney,     \* MAX_MONEY
    Witnesses,    \* the peg-in witness stacks the model passes in
    None          \* no output or verdict yet

ASSUME AmountBits \in Nat \ {0} /\ MaxMoney \in 1..(2^(AmountBits - 1) - 1)

VARIABLES
    witness,   \* pegin_witness.stack
    out,       \* the CTxOut returned, or how the call ended
    verdict,   \* what the input tally decided
    pc         \* "witness", "spent", "failed" or "tallied"

vars == <<witness, out, verdict, pc>>

(* How the call ends, and the CTxOut it returns: a confidential field is  *)
(* null or explicit.  A thrown exception or a failed assertion returns     *)
(* nothing.                                                                *)
Returned(asset, value, script) ==
    [end |-> "return", asset |-> asset, value |-> value, script |-> script]
Ended(how) ==
    [end |-> how, asset |-> [null |-> TRUE], value |-> [null |-> TRUE],
     script |-> None]

(* CTxOut(): a null asset and value.                                       *)
NullTxOut == Returned([null |-> TRUE], [null |-> TRUE], None)

(* stream >> value: the 8 bytes read as a two's-complement CAmount.        *)
AsCAmount(word) ==
    IF word >= 2^(AmountBits - 1) THEN word - 2^AmountBits ELSE word

(* MoneyRange.                                                             *)
MoneyRange(v) == 0 <= v /\ v <= MaxMoney

(* A reader that zero-fills a short amount item instead of throwing.       *)
GetPeginOutputZeroFill(stack) ==
    IF Len(stack) < 4 THEN NullTxOut
    ELSE IF stack[2].len # 32 THEN Ended("abort")
    ELSE Returned([explicit |-> stack[2].id],
                  [explicit |-> AsCAmount(stack[1].word)], stack[4].id)

(* GetPeginOutputFromWitness.  Fewer than four items give a null output.   *)
(* DataStream >> CAmount needs 8 bytes and throws on fewer; bytes past the *)
(* eighth are not read.  CAsset(stack[1]) builds a uint256 from the item,  *)
(* whose constructor asserts the item is 32 bytes.  The stream is read     *)
(* first, so a short amount throws before the asset is built.              *)
GetPeginOutputFromWitness(stack) ==
    IF Len(stack) < 4 THEN NullTxOut
    ELSE IF stack[1].len < 8 THEN Ended("throw")
    ELSE IF stack[2].len # 32 THEN Ended("abort")
    ELSE Returned([explicit |-> stack[2].id],
                  [explicit |-> AsCAmount(stack[1].word)], stack[4].id)

(* A tally that takes any explicit amount without MoneyRange.              *)
TallyInputNoMoneyRange(txout) ==
    IF "null" \in DOMAIN txout.value \/ "null" \in DOMAIN txout.asset THEN "valisnull"
    ELSE IF txout.value.explicit = 0 THEN "pedcommit"
    ELSE "committed"

(* The body of the input loop for an explicit spent output: a null value   *)
(* or asset fails; an explicit asset always gives a generator; an explicit *)
(* value must be in MoneyRange, and secp256k1_pedersen_commit fails on 0.  *)
TallyInput(txout) ==
    IF "null" \in DOMAIN txout.value \/ "null" \in DOMAIN txout.asset THEN "valisnull"
    ELSE IF ~MoneyRange(txout.value.explicit) THEN "moneyrange"
    ELSE IF txout.value.explicit = 0 THEN "pedcommit"
    ELSE "committed"

Init ==
    /\ witness \in Witnesses
    /\ out = None
    /\ verdict = None
    /\ pc = "witness"

(* The caller builds the spent output from the peg-in witness; an         *)
(* exception or a failed assertion ends the call before VerifyAmounts.     *)
GetPeginOutput ==
    /\ pc = "witness"
    /\ out' = GetPeginOutputFromWitness(witness)
    /\ pc' = IF out'.end = "return" THEN "spent" ELSE "failed"
    /\ UNCHANGED <<witness, verdict>>

(* VerifyAmounts tallies the spent output of the input.                    *)
Tally ==
    /\ pc = "spent"
    /\ verdict' = TallyInput(out)
    /\ pc' = "tallied"
    /\ UNCHANGED <<witness, out>>

Next == GetPeginOutput \/ Tally

Spec == Init /\ [][Next]_vars

TypeOK ==
    /\ pc \in {"witness", "spent", "failed", "tallied"}
    /\ verdict \in {None, "valisnull", "moneyrange", "pedcommit", "committed"}

(***************************************************************************)
(* A peg-in input enters the balance only for a witness that really holds *)
(* a peg-in: at least four items, an amount item of at least 8 bytes      *)
(* whose CAmount is in 1..MAX_MONEY, and a 32-byte asset; and every such  *)
(* witness does enter it.  A short witness, a short amount, a negative or *)
(* too large amount and a zero amount each stop the input, in              *)
(* GetPeginOutputFromWitness or in the tally.                              *)
(***************************************************************************)
PeginCommittedIffFunded ==
    pc \in {"failed", "tallied"} =>
        ((pc = "tallied" /\ verdict = "committed") <=>
            /\ Len(witness) >= 4
            /\ witness[1].len >= 8
            /\ witness[2].len = 32
            /\ AsCAmount(witness[1].word) \in 1..MaxMoney)
===============================================================================
