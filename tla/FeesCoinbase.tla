---------------------------- MODULE FeesCoinbase ----------------------------
(***************************************************************************)
(* Fee accounting and the coinbase amount check of                         *)
(* src/confidential_validation.cpp: HasValidFee (27-42), GetFeeMap (44-52) *)
(* and VerifyCoinbaseAmount (493-519), composed the way block validation   *)
(* uses them: a transaction's fees are accepted by HasValidFee, collected  *)
(* by GetFeeMap, and the coinbase may sweep no more than that fee map.     *)
(*                                                                         *)
(* One step is one loop iteration.  CAmount is a signed integer of IntBits *)
(* bits: a sum or difference is reduced to that width, the two's          *)
(* complement wrap the build produces for the undefined signed overflow.   *)
(* A model run scales MAX_MONEY and the width together, keeping           *)
(* 2 * MAX_MONEY below 2^(IntBits-1) as it is for 64 bits.                 *)
(*                                                                         *)
(* An output is [assetExp, asset, valueExp, amt, script]: whether nAsset   *)
(* and nValue are explicit, the explicit asset and amount (GetAsset(),     *)
(* GetAmount()), and the script: "empty" (CScript()), "spendable" or       *)
(* "unspendable" (OP_RETURN).                                              *)
(***************************************************************************)
EXTENDS Integers, Sequences, Functions

CONSTANTS
    Assets,         \* explicit asset ids (model values)
    MaxMoney,       \* MAX_MONEY
    IntBits,        \* the width of CAmount
    ElementsMode,   \* g_con_elementsmode
    FeeTxSizes,     \* the values tx.vout.size() of the fee-paying transaction may take
    FeeOutChoices,  \* the outputs that transaction may hold
    CbSizes,        \* the values the coinbase's vout.size() may take
    CbOutChoices,   \* the outputs the coinbase may hold
    CbWitSizes      \* the values the coinbase's vtxoutwit.size() may take

ASSUME /\ MaxMoney \in Nat \ {0}
       /\ IntBits \in Nat \ {0}
       /\ 2 * MaxMoney < 2^(IntBits - 1)
       /\ ElementsMode \in BOOLEAN

VARIABLES
    feeOuts,    \* tx.vout of the fee-paying transaction
    cbWits,     \* coinbase vtxoutwit: TRUE for an entry that IsNull()
    nCb,        \* coinbase vout.size()
    cbOuts,     \* the coinbase outputs read so far
    pc,         \* the function running, or "done"
    i,          \* its loop index
    totalFee,   \* HasValidFee's totalFee
    validFee,   \* HasValidFee's result
    feeMap,     \* GetFeeMap's fee, passed to VerifyCoinbaseAmount as mapFees
    remaining,  \* VerifyCoinbaseAmount's remaining
    cbResult    \* VerifyCoinbaseAmount's result

vars == <<feeOuts, cbWits, nCb, cbOuts, pc, i, totalFee, validFee, feeMap,
          remaining, cbResult>>

-----------------------------------------------------------------------------
(* A CAmount result of IntBits bits.                                      *)
Wrap(x) == ((x + 2^(IntBits - 1)) % 2^IntBits) - 2^(IntBits - 1)

MoneyRange(v) == 0 <= v /\ v <= MaxMoney

(* MoneyRange(const CAmountMap&): every entry is in range.  A map is a    *)
(* total function on Assets; an absent key reads as 0.                    *)
MoneyRangeMap(m) == \A a \in Assets : MoneyRange(m[a])

ZeroMap == [a \in Assets |-> 0]

(* CTxOut::IsFee(): an empty script paying an explicit asset and amount.  *)
IsFee(o) == o.script = "empty" /\ o.assetExp /\ o.valueExp

IsUnspendable(o) == o.script = "unspendable"

-----------------------------------------------------------------------------
Init ==
    /\ feeOuts \in UNION {[1..n -> FeeOutChoices] : n \in FeeTxSizes}
    /\ cbWits \in UNION {[1..n -> BOOLEAN] : n \in CbWitSizes}
    /\ nCb \in CbSizes
    /\ cbOuts = <<>>
    /\ pc = "hasvalidfee" /\ i = 1
    /\ totalFee = ZeroMap /\ validFee = FALSE
    /\ feeMap = ZeroMap /\ remaining = ZeroMap /\ cbResult = FALSE

(* Mutant: the running total is not checked against MoneyRange.         *)
HasValidFeeStepNoRunningCheck ==
    /\ pc = "hasvalidfee" /\ i <= Len(feeOuts)
    /\ LET o == feeOuts[i]
           total == [totalFee EXCEPT ![o.asset] = Wrap(@ + o.amt)]
       IN
       \/ /\ ~IsFee(o)
          /\ i' = i + 1 /\ UNCHANGED <<pc, totalFee, validFee>>
       \/ /\ IsFee(o)
          /\ o.amt = 0 \/ ~MoneyRange(o.amt)
          /\ pc' = "done" /\ validFee' = FALSE /\ UNCHANGED <<i, totalFee>>
       \/ /\ IsFee(o) /\ o.amt # 0 /\ MoneyRange(o.amt)
          /\ totalFee' = total
          /\ i' = i + 1 /\ UNCHANGED <<pc, validFee>>
    /\ UNCHANGED <<feeOuts, cbWits, nCb, cbOuts, feeMap, remaining, cbResult>>

(* Lines 29-39: one fee output must be non-zero and in range, and the     *)
(* running total of its asset must stay in range.                         *)
HasValidFeeStep ==
    /\ pc = "hasvalidfee" /\ i <= Len(feeOuts)
    /\ LET o == feeOuts[i]
           total == [totalFee EXCEPT ![o.asset] = Wrap(@ + o.amt)]
       IN
       \/ /\ ~IsFee(o)
          /\ i' = i + 1 /\ UNCHANGED <<pc, totalFee, validFee>>
       \/ /\ IsFee(o)
          /\ o.amt = 0 \/ ~MoneyRange(o.amt)
          /\ pc' = "done" /\ validFee' = FALSE /\ UNCHANGED <<i, totalFee>>
       \/ /\ IsFee(o) /\ o.amt # 0 /\ MoneyRange(o.amt)
          /\ totalFee' = total
          /\ IF MoneyRangeMap(total)
             THEN i' = i + 1 /\ UNCHANGED <<pc, validFee>>
             ELSE pc' = "done" /\ validFee' = FALSE /\ UNCHANGED i
    /\ UNCHANGED <<feeOuts, cbWits, nCb, cbOuts, feeMap, remaining, cbResult>>

(* Line 41: every output passed.  Block validation goes on to collect the *)
(* transaction's fees.                                                    *)
HasValidFeeReturn ==
    /\ pc = "hasvalidfee" /\ i > Len(feeOuts)
    /\ validFee' = TRUE
    /\ pc' = "getfeemap" /\ i' = 1
    /\ UNCHANGED <<feeOuts, cbWits, nCb, cbOuts, totalFee, feeMap, remaining, cbResult>>

(* Lines 46-50: a fee output adds its amount to its asset, unchecked.     *)
GetFeeMapStep ==
    /\ pc = "getfeemap" /\ i <= Len(feeOuts)
    /\ LET o == feeOuts[i] IN
       feeMap' = IF IsFee(o) THEN [feeMap EXCEPT ![o.asset] = Wrap(@ + o.amt)]
                 ELSE feeMap
    /\ i' = i + 1
    /\ UNCHANGED <<feeOuts, cbWits, nCb, cbOuts, pc, totalFee, validFee, remaining, cbResult>>

(* Line 51: the fee map is handed to the coinbase check.                  *)
GetFeeMapReturn ==
    /\ pc = "getfeemap" /\ i > Len(feeOuts)
    /\ pc' = "cbwitness"
    /\ UNCHANGED <<feeOuts, cbWits, nCb, cbOuts, i, totalFee, validFee, feeMap,
                   remaining, cbResult>>

(* Mutant: the output witnesses are not looked at.                      *)
CoinbaseWitnessesUnchecked ==
    /\ pc = "cbwitness"
    /\ remaining' = feeMap
    /\ pc' = "cboutput" /\ i' = 1 /\ UNCHANGED cbResult
    /\ UNCHANGED <<feeOuts, cbWits, nCb, cbOuts, totalFee, validFee, feeMap>>

(* Lines 497-503: no output witness may carry data; remaining starts as   *)
(* a copy of mapFees.                                                     *)
CoinbaseWitnesses ==
    /\ pc = "cbwitness"
    /\ \/ /\ \E k \in DOMAIN cbWits : ~cbWits[k]
          /\ pc' = "done" /\ cbResult' = FALSE /\ UNCHANGED <<i, remaining>>
       \/ /\ \A k \in DOMAIN cbWits : cbWits[k]
          /\ remaining' = feeMap
          /\ pc' = "cboutput" /\ i' = 1 /\ UNCHANGED cbResult
    /\ UNCHANGED <<feeOuts, cbWits, nCb, cbOuts, totalFee, validFee, feeMap>>

(* Mutant: the output loop runs one index past vout.size().             *)
CoinbaseOutputPastEnd ==
    /\ pc = "cboutput" /\ i <= nCb + 1
    /\ \E o \in CbOutChoices :
        /\ cbOuts' = Append(cbOuts, o)
        /\ \/ /\ \/ ~o.valueExp \/ ~o.assetExp
                 \/ ~MoneyRange(o.amt)
                 \/ ElementsMode /\ o.amt = 0 /\ ~IsUnspendable(o)
              /\ pc' = "done" /\ cbResult' = FALSE /\ UNCHANGED <<i, remaining>>
           \/ /\ o.valueExp /\ o.assetExp /\ MoneyRange(o.amt)
              /\ ~(ElementsMode /\ o.amt = 0 /\ ~IsUnspendable(o))
              /\ remaining' = [remaining EXCEPT ![o.asset] = Wrap(@ - o.amt)]
              /\ i' = i + 1 /\ UNCHANGED <<pc, cbResult>>
    /\ UNCHANGED <<feeOuts, cbWits, nCb, totalFee, validFee, feeMap>>

(* Lines 504-517: an output must be explicit, in range, and (in elements  *)
(* mode) not a spendable zero; its amount is subtracted from its asset.   *)
CoinbaseOutput ==
    /\ pc = "cboutput" /\ i <= nCb
    /\ \E o \in CbOutChoices :
        /\ cbOuts' = Append(cbOuts, o)
        /\ \/ /\ \/ ~o.valueExp \/ ~o.assetExp
                 \/ ~MoneyRange(o.amt)
                 \/ ElementsMode /\ o.amt = 0 /\ ~IsUnspendable(o)
              /\ pc' = "done" /\ cbResult' = FALSE /\ UNCHANGED <<i, remaining>>
           \/ /\ o.valueExp /\ o.assetExp /\ MoneyRange(o.amt)
              /\ ~(ElementsMode /\ o.amt = 0 /\ ~IsUnspendable(o))
              /\ remaining' = [remaining EXCEPT ![o.asset] = Wrap(@ - o.amt)]
              /\ i' = i + 1 /\ UNCHANGED <<pc, cbResult>>
    /\ UNCHANGED <<feeOuts, cbWits, nCb, totalFee, validFee, feeMap>>

(* Line 518: every asset's remainder must be in range.                    *)
CoinbaseReturn ==
    /\ pc = "cboutput" /\ i > nCb
    /\ cbResult' = MoneyRangeMap(remaining)
    /\ pc' = "done"
    /\ UNCHANGED <<feeOuts, cbWits, nCb, cbOuts, i, totalFee, validFee, feeMap, remaining>>

Next ==
    \/ HasValidFeeStep \/ HasValidFeeReturn
    \/ GetFeeMapStep \/ GetFeeMapReturn
    \/ CoinbaseWitnesses \/ CoinbaseOutput \/ CoinbaseReturn

Spec == Init /\ [][Next]_vars

-----------------------------------------------------------------------------
(* What spec section 4.F (and properties P3, P4) promise, over exact      *)
(* integers.                                                              *)

(* The fees a transaction pays in asset a: the sum of its fee outputs.    *)
ExactFee(outs, a) ==
    SumFunctionOnSet([k \in DOMAIN outs |-> outs[k].amt],
                     {k \in DOMAIN outs : IsFee(outs[k]) /\ outs[k].asset = a})

ExactFees(outs) == [a \in Assets |-> ExactFee(outs, a)]

(* Every fee output pays a non-zero amount in range, and every asset's    *)
(* running total stays in range; the summands being positive, the total   *)
(* bounds every running total.                                            *)
FeesValid(outs) ==
    /\ \A k \in DOMAIN outs : IsFee(outs[k]) => outs[k].amt \in 1..MaxMoney
    /\ MoneyRangeMap(ExactFees(outs))

(* A coinbase of which outs have been read sweeps at most fees: no        *)
(* output witness, every output explicit, in range and not a spendable    *)
(* zero, and, once all outputs are read, fees minus outputs in range for  *)
(* every asset.                                                           *)
CoinbaseOK(outs, wits, fees, complete) ==
    /\ \A k \in DOMAIN wits : wits[k]
    /\ \A k \in DOMAIN outs :
         /\ outs[k].assetExp /\ outs[k].valueExp /\ MoneyRange(outs[k].amt)
         /\ outs[k].amt = 0 => IsUnspendable(outs[k])
    /\ complete =>
         \A a \in Assets :
             MoneyRange(fees[a] - SumFunctionOnSet([k \in DOMAIN outs |-> outs[k].amt],
                                                   {k \in DOMAIN outs : outs[k].asset = a}))

-----------------------------------------------------------------------------
(* Properties.                                                            *)

IntRange == -(2^(IntBits - 1))..(2^(IntBits - 1) - 1)

TypeOK ==
    /\ pc \in {"hasvalidfee", "getfeemap", "cbwitness", "cboutput", "done"}
    /\ nCb \in CbSizes /\ Len(cbOuts) <= nCb
    /\ \A k \in DOMAIN cbOuts : cbOuts[k] \in CbOutChoices
    /\ totalFee \in [Assets -> IntRange]
    /\ feeMap \in [Assets -> IntRange]
    /\ remaining \in [Assets -> IntRange]
    /\ validFee \in BOOLEAN /\ cbResult \in BOOLEAN

(* HasValidFee accepts exactly the transactions whose fee outputs are     *)
(* non-zero and in range with per-asset totals in range, and then         *)
(* GetFeeMap, which checks nothing and adds in CAmount, returns the exact *)
(* per-asset totals: the running check of line 36 is what keeps its sums *)
(* from leaving MoneyRange.                                               *)
FeeAccountingExact ==
    /\ pc # "hasvalidfee" => (validFee <=> FeesValid(feeOuts))
    /\ pc \notin {"hasvalidfee", "getfeemap"} /\ validFee =>
         feeMap = ExactFees(feeOuts)

(* Once VerifyCoinbaseAmount has returned, it has accepted the coinbase   *)
(* exactly when the coinbase sweeps no more than the transaction's fees   *)
(* in any asset, with explicit, in-range, witness-free outputs (spec P4,  *)
(* 4.F), and it accepted only after reading every output.                 *)
CoinbaseVerdictMatchesSpec ==
    pc = "done" /\ validFee =>
        /\ cbResult = CoinbaseOK(cbOuts, cbWits, ExactFees(feeOuts), Len(cbOuts) = nCb)
        /\ cbResult => Len(cbOuts) = nCb

=============================================================================
