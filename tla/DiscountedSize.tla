---------------------------- MODULE DiscountedSize ----------------------------
(***************************************************************************)
(* GetDiscountedVirtualTransactionSize (src/policy/discount.h:17-35): the  *)
(* transaction weight, less the serialized output witness of every         *)
(* output whose asset and value are both committed, divided by             *)
(* WITNESS_SCALE_FACTOR and rounded up.  One step is one loop iteration.  *)
(*                                                                         *)
(* weight is a size_t of SizeBits bits: its arithmetic wraps.  The         *)
(* serialized sizes are inputs: baseSize (no witness), inWitSize (the      *)
(* input witnesses) and outWit (the size of each vtxoutwit entry).  The    *)
(* full size is their sum.  Reading vtxoutwit[i] past its end is undefined *)
(* behaviour; the model lets it yield any size in GarbageSizes.            *)
(***************************************************************************)
EXTENDS Integers, Sequences, Functions

CONSTANTS
    W,             \* WITNESS_SCALE_FACTOR
    SizeBits,      \* the width of size_t
    BaseSizes,     \* the values GetSerializeSize(tx, NO_WITNESS) may take
    InWitSizes,    \* the sizes the input witnesses may serialize to
    NumOuts,       \* the values tx.vout.size() may take
    OutChoices,    \* the [fee, assetCommit, valueCommit] records an output may be
    OutWitSizes,   \* the sizes a vtxoutwit entry may serialize to
    GarbageSizes   \* what a read past the end of vtxoutwit may yield

ASSUME /\ W \in Nat \ {0}
       /\ SizeBits \in Nat \ {0}
       /\ GarbageSizes \subseteq 0..(2^SizeBits - 1)

VARIABLES
    baseSize, inWitSize,
    outs,      \* tx.vout
    outWit,    \* the serialized size of each tx.witness.vtxoutwit entry
    pc,        \* "start", "loop", "done", or "abort" (an assert failed)
    i,         \* the loop index
    weight,
    result     \* the returned int64_t

vars == <<baseSize, inWitSize, outs, outWit, pc, i, weight, result>>

-----------------------------------------------------------------------------
(* Mutant: weight kept in a signed type, which never wraps.              *)
SizeTSigned(x) == x

(* size_t arithmetic.                                                     *)
SizeT(x) == x % 2^SizeBits

(* A size_t converted to int64_t on return.                               *)
ToInt64(x) == IF x < 2^(SizeBits - 1) THEN x ELSE x - 2^SizeBits

(* GetSerializeSize(tx, PROTOCOL_VERSION): the witness follows the rest.   *)
TotalSize(base, inw, ow) == base + inw + SumFunction(ow)

Init ==
    /\ baseSize \in BaseSizes
    /\ inWitSize \in InWitSizes
    /\ outs \in UNION {[1..n -> OutChoices] : n \in NumOuts}
    /\ outWit \in {<<>>} \cup [1..Len(outs) -> OutWitSizes]
    /\ pc = "start" /\ i = 1 /\ weight = 0 /\ result = 0

(* Line 19.                                                                *)
Weigh ==
    /\ pc = "start"
    /\ weight' = SizeT(SizeT(baseSize * (W - 1)) + TotalSize(baseSize, inWitSize, outWit))
    /\ pc' = "loop"
    /\ UNCHANGED <<baseSize, inWitSize, outs, outWit, i, result>>

(* Mutant: an output with either field committed gives back its witness. *)
DiscountOutputEitherCommitted ==
    /\ pc = "loop" /\ i <= Len(outs)
    /\ LET o == outs[i] IN
       \/ /\ o.fee \/ ~(o.assetCommit \/ o.valueCommit)
          /\ UNCHANGED weight
       \/ /\ ~o.fee /\ (o.assetCommit \/ o.valueCommit) /\ i <= Len(outWit)
          /\ weight' = SizeT(weight - outWit[i])
       \/ /\ ~o.fee /\ (o.assetCommit \/ o.valueCommit) /\ i > Len(outWit)
          /\ \E g \in GarbageSizes : weight' = SizeT(weight - g)
    /\ i' = i + 1
    /\ UNCHANGED <<baseSize, inWitSize, outs, outWit, pc, result>>

(* Lines 22-28: a confidential output that is not a fee gives back its    *)
(* output witness.                                                         *)
DiscountOutput ==
    /\ pc = "loop" /\ i <= Len(outs)
    /\ LET o == outs[i] IN
       \/ /\ o.fee \/ ~(o.assetCommit /\ o.valueCommit)
          /\ UNCHANGED weight
       \/ /\ ~o.fee /\ o.assetCommit /\ o.valueCommit /\ i <= Len(outWit)
          /\ weight' = SizeT(weight - outWit[i])
       \/ /\ ~o.fee /\ o.assetCommit /\ o.valueCommit /\ i > Len(outWit)
          /\ \E g \in GarbageSizes : weight' = SizeT(weight - g)
    /\ i' = i + 1
    /\ UNCHANGED <<baseSize, inWitSize, outs, outWit, pc, result>>

(* Mutant: the division rounds up one too many.                         *)
FinishOffByOne ==
    /\ pc = "loop" /\ i > Len(outs)
    /\ LET v == SizeT(weight + W) \div W IN
       \/ /\ weight = 0 \/ v = 0
          /\ pc' = "abort" /\ UNCHANGED result
       \/ /\ weight > 0 /\ v > 0
          /\ result' = ToInt64(v)
          /\ pc' = "done"
    /\ UNCHANGED <<baseSize, inWitSize, outs, outWit, i, weight>>

(* Lines 29-34: the asserts and the rounded-up division.                   *)
Finish ==
    /\ pc = "loop" /\ i > Len(outs)
    /\ LET v == SizeT(weight + W - 1) \div W IN
       \/ /\ weight = 0 \/ v = 0
          /\ pc' = "abort" /\ UNCHANGED result
       \/ /\ weight > 0 /\ v > 0
          /\ result' = ToInt64(v)
          /\ pc' = "done"
    /\ UNCHANGED <<baseSize, inWitSize, outs, outWit, i, weight>>

Next == Weigh \/ DiscountOutput \/ Finish

Spec == Init /\ [][Next]_vars

-----------------------------------------------------------------------------
(* Spec section 4.F over exact integers: the weight less the output       *)
(* witnesses of the non-fee outputs with committed asset and value,       *)
(* divided by WITNESS_SCALE_FACTOR and rounded up.                        *)
IsConfidential(o) == ~o.fee /\ o.assetCommit /\ o.valueCommit

SpecWeight(base, inw, os, ow) ==
    base * (W - 1) + TotalSize(base, inw, ow)
    - SumFunctionOnSet(ow, {k \in DOMAIN os : IsConfidential(os[k])})

CeilDiv(a, b) == (a + b - 1) \div b

(* vtxoutwit has an entry for every output, as deserializing a            *)
(* transaction with witness data makes it.                                *)
WitnessCoversOutputs == Len(outWit) = Len(outs)

-----------------------------------------------------------------------------
(* Properties.                                                            *)

TypeOK ==
    /\ pc \in {"start", "loop", "done", "abort"}
    /\ outs \in Seq(OutChoices) /\ outWit \in Seq(OutWitSizes)
    /\ i \in 1..(Len(outs) + 1)
    /\ weight \in 0..(2^SizeBits - 1)

(* For a transaction whose output witnesses are all present, the size_t   *)
(* computation never trips its asserts and returns the discounted vsize   *)
(* of spec 4.F, which never exceeds the undiscounted vsize.               *)
DiscountMatchesSpec ==
    WitnessCoversOutputs =>
        /\ pc # "abort"
        /\ pc = "done" =>
             /\ result = CeilDiv(SpecWeight(baseSize, inWitSize, outs, outWit), W)
             /\ result <= CeilDiv(baseSize * (W - 1) + TotalSize(baseSize, inWitSize, outWit), W)

=============================================================================
