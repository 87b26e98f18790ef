-------------------------- MODULE AmountsValidity --------------------------
(***************************************************************************)
(* What the amount verifier promises (spec.md sections 3 and 4.E), stated  *)
(* declaratively over the data of a transaction: which transactions are   *)
(* valid, and the proofs an honest wallet attaches to them.  VerifyAmounts *)
(* is checked against ValidRead.                                           *)
(*                                                                         *)
(* A transaction is given by                                               *)
(*   txin[k]     = [prevout, issuance]   tx.vin[k] (issuance = [nonce,      *)
(*                                        entropy, amount, keys])          *)
(*   prevouts[k] = [asset, value]        inputs[k], the spent output       *)
(*   inwit[k]    = [present, amountRP, keysRP]        tx.witness.vtxinwit  *)
(*   vout[j]     = [asset, value, nonce, script]      tx.vout[j]           *)
(*   outwit[j]   = [present, rangeproof, surjectionproof]  vtxoutwit       *)
(***************************************************************************)
EXTENDS ConfidentialData, SequencesExt

(* The generator of a spent output's or an output's asset field.          *)
GenOf(f) == IF IsExplicit(f) THEN GenerateGen(f.id) ELSE f.gen

(* The serialized asset commitment a range proof is bound to: explicit    *)
(* assets are serialized from their generator (spec 4.E step 7).          *)
AssetCommitmentBytes(f) ==
    IF IsExplicit(f) THEN SerializeGen(GenerateGen(f.id)) ELSE VchCommitment(f)

(* The pseudo-inputs input k contributes, in the consensus order of spec  *)
(* section 3: the input itself, the issued asset if nAmount is non-null,  *)
(* the reissuance token if nInflationKeys is non-null.  Each is a pair of *)
(* the generator it adds to the surjection targets and the amount it adds *)
(* to the left-hand side of the balance.                                  *)
PseudoInputs(t, p) ==
    LET iss == t.issuance
        Pseudo(f, asset) ==
            IF IssuanceIsNull(iss) \/ IsNull(f) THEN <<>>
            ELSE <<[gen |-> GenerateGen(asset), amt |-> f.amt]>>
    IN  <<[gen |-> GenOf(p.asset), amt |-> p.value.amt]>>
        \o Pseudo(iss.amount, IssuanceAssetID(t))
        \o Pseudo(iss.keys, IssuanceTokenID(t))

CanonicalPseudoInputs(txin, prevouts) ==
    FlattenSeq([k \in DOMAIN prevouts |-> PseudoInputs(txin[k], prevouts[k])])

(* The target-generator list a wallet builds surjection proofs over.      *)
CanonicalTargets(txin, prevouts) ==
    LET s == CanonicalPseudoInputs(txin, prevouts) IN [k \in DOMAIN s |-> s[k].gen]

(* The range proofs a witness may carry for a committed amount bound to   *)
(* an asset commitment and a script, restricted to the kinds a model run  *)
(* enumerates.                                                             *)
RangeProofsFor(val, assetCommitment, script, kinds) ==
    {p \in {EmptyProof, BadProof,
            [kind |-> "good", binding |-> <<val, assetCommitment, script>>]} :
        p.kind \in kinds}

IssuanceRangeProofs(val, assetID, kinds) ==
    RangeProofsFor(val, SerializeGen(GenerateGen(assetID)), EmptyScript, kinds)

OutputRangeProofs(o, kinds) ==
    RangeProofsFor(o.value, AssetCommitmentBytes(o.asset), o.script, kinds)

(* The surjection proofs a witness may carry for output o: a wallet can   *)
(* only prove that o's asset is that of some target.                       *)
OutputSurjectionProofs(o, targets, kinds) ==
    {p \in {EmptyProof, BadProof} : p.kind \in kinds}
    \cup {[kind |-> "good", targets |-> targets, index |-> k] :
            k \in {k \in DOMAIN targets :
                       /\ "good" \in kinds
                       /\ o.asset.tag \in {"explicit", "commit"}
                       /\ targets[k].asset = GenOf(o.asset).asset}}

-----------------------------------------------------------------------------
(* Validity, spec section 3 invariants 1-6 and section 4.E.               *)

ParsesAsGenerator(f) == f.tag \in {"explicit", "commit"}

(* A new-units or new-tokens amount of an issuance (4.E.1).               *)
IssuanceAmountOK(f, rp, assetID) ==
    \/ IsExplicit(f) /\ f.amt \in 1..MaxMoney /\ rp.kind = "empty"
    \/ f.tag = "commit"
       /\ RangeProofVerifies(rp, f, SerializeGen(GenerateGen(assetID)), EmptyScript)

IssuanceOK(t, p, w) ==
    LET iss == t.issuance IN
    /\ iss.nonce # NullNonce =>
         VchCommitment(p.asset)
           = SerializeGen(GenerateBlinded(IssuanceTokenID(t), iss.nonce))
    /\ IsValid(iss.amount) /\ IsValid(iss.keys)
    /\ ~IsNull(iss.keys) => iss.nonce = NullNonce
    /\ ~IsNull(iss.amount) =>
         w.present /\ IssuanceAmountOK(iss.amount, w.amountRP, IssuanceAssetID(t))
    /\ ~IsNull(iss.keys) =>
         w.present /\ IssuanceAmountOK(iss.keys, w.keysRP, IssuanceTokenID(t))

PrevoutOK(p) ==
    /\ ParsesAsGenerator(p.asset)
    /\ \/ IsExplicit(p.value) /\ p.value.amt \in 1..MaxMoney
       \/ p.value.tag = "commit"

OutputFieldsOK(o) ==
    /\ ParsesAsGenerator(o.asset)
    /\ o.value.tag \in {"explicit", "commit"}
    /\ NonceIsValid(o.nonce)
    /\ IsExplicit(o.value) =>
         MoneyRange(o.value.amt) /\ (o.value.amt = 0 => IsUnspendable(o.script))

OutputWitnessOK(o, w, targets) ==
    /\ o.value.tag = "commit" =>
         w.present /\ RangeProofVerifies(w.rangeproof, o.value,
                                         AssetCommitmentBytes(o.asset), o.script)
    /\ IsExplicit(o.value) => ~w.present \/ w.rangeproof.kind = "empty"
    /\ o.asset.tag = "commit" =>
         w.present /\ SurjectionProofVerifies(w.surjectionproof, targets, o.asset.gen)
    /\ IsExplicit(o.asset) => ~w.present \/ w.surjectionproof.kind = "empty"

(* Every asset's amounts balance: inputs and issued units on one side,    *)
(* outputs on the other.                                                  *)
Balanced(txin, prevouts, vout) ==
    LET ins == CanonicalPseudoInputs(txin, prevouts)
        lhs == [k \in DOMAIN ins |-> [asset |-> ins[k].gen.asset, amt |-> ins[k].amt]]
        rhs == [j \in DOMAIN vout |-> [asset |-> GenOf(vout[j].asset).asset,
                                       amt |-> vout[j].value.amt]]
    IN  PedersenVerifyTally(lhs, rhs)

(* Whether all of a transaction has been read: every spent output, every *)
(* output and every output's witness slot.                                *)
AllRead(nIn, nOut, prevouts, vout, outwit) ==
    Len(prevouts) = nIn /\ Len(vout) = nOut /\ DOMAIN outwit = 1..nOut

(* The verdict the verifier owes a transaction of which it has read       *)
(* prevouts, vout and the witnesses in inwit and outwit: every part read  *)
(* is valid and, once every input and output is read, the amounts         *)
(* balance.  A verifier that rejects must have read a defect.             *)
ValidRead(nIn, nOut, txin, prevouts, inwit, vout, outwit) ==
    LET complete == Len(prevouts) = nIn /\ Len(vout) = nOut
    IN
    /\ \A k \in DOMAIN prevouts :
         /\ PrevoutOK(prevouts[k])
         /\ ~IssuanceIsNull(txin[k].issuance) =>
              k \in DOMAIN inwit /\ IssuanceOK(txin[k], prevouts[k], inwit[k])
    /\ \A j \in DOMAIN vout : OutputFieldsOK(vout[j])
    /\ \A j \in DOMAIN outwit :
         OutputWitnessOK(vout[j], outwit[j], CanonicalTargets(txin, prevouts))
    /\ complete => Balanced(txin, prevouts, vout)

=============================================================================
