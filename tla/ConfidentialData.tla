-------------------------- MODULE ConfidentialData --------------------------
(***************************************************************************)
(* The data VerifyAmounts (src/confidential_validation.cpp) works on,      *)
(* abstracted to what its verdict depends on.                              *)
(*                                                                         *)
(* A confidential field (CConfidentialAsset, CConfidentialValue,           *)
(* CConfidentialNonce) is a record whose tag is the variant its prefix     *)
(* byte selects:                                                           *)
(*   "null"       empty vchCommitment                        (IsNull)      *)
(*   "explicit"   prefix 0x01, cleartext asset id or amount  (IsExplicit)  *)
(*   "commit"     commitment prefix, 32 bytes that are a curve point       *)
(*   "badcommit"  commitment prefix, 32 bytes that are not a curve point   *)
(*   "invalid"    any other prefix or size                   (!IsValid)    *)
(* An explicit field carries the asset id (id) or amount (amt); a          *)
(* committed asset field carries the generator it encodes (gen), a         *)
(* committed value field the amount it hides (amt).                        *)
(*                                                                         *)
(* A generator is [asset, blind]: the asset id it is derived from and the  *)
(* blinding factor applied to it.  A Pedersen value commitment is          *)
(* [asset, amt]: the asset of the generator it is made on and the amount;  *)
(* a value commitment made by a wallet is made on the generator of the     *)
(* asset field beside it, so parsing a committed value yields a point on   *)
(* that generator.  secp256k1_pedersen_verify_tally holds iff the amounts  *)
(* balance asset by asset (blinding factors are the prover's to balance).  *)
(***************************************************************************)
EXTENDS Integers, Sequences, FiniteSets, Functions

CONSTANTS
    BaseAssets,   \* asset ids that exist before the transaction (model values)
    Outpoints,    \* outpoints tx.vin[i].prevout may name (model values)
    Contracts,    \* issuance.assetEntropy of an initial issuance (model values)
    Blinds,       \* asset blinding factors; a reissuance nonce is one of them
    MaxMoney      \* MAX_MONEY

ASSUME MaxMoney \in Nat \ {0}

Unblinded == "unblinded"            \* generator made by secp256k1_generator_generate
NullNonce == "zero"                 \* assetBlindingNonce.IsNull(): all-zero nonce
EmptyScript == "emptyscript"        \* CScript()

(* The variants of a confidential field, primitives/confidential.h.       *)
IsNull(f)       == f.tag = "null"
IsExplicit(f)   == f.tag = "explicit"
IsCommitment(f) == f.tag \in {"commit", "badcommit"}
IsValid(f)      == f.tag # "invalid"

MoneyRange(v) == 0 <= v /\ v <= MaxMoney

(* A nonce field is valid, or carries a prefix IsValid() rejects.         *)
NonceIsValid(n) == n

(* CScript::IsUnspendable(): an OP_RETURN script provably burns.          *)
IsUnspendable(script) == script = "unspendable"

(* Asset ids derived from an issuance (issuance.cpp).  The hashes are     *)
(* modelled by injective tuples: distinct preimages give distinct ids.    *)
GenerateAssetEntropy(prevout, contract) == <<"entropy", prevout, contract>>
CalculateAsset(entropy) == <<"asset", entropy>>
CalculateReissuanceToken(entropy, confidential) == <<"token", entropy, confidential>>

(* The asset id and reissuance-token id of input txin's issuance:         *)
(* confidential_validation.cpp:247-258.  On an initial issuance the        *)
(* entropy is derived from the spent outpoint and the contract hash; on a  *)
(* reissuance assetEntropy already is the entropy.  The token id depends   *)
(* on whether nAmount is a commitment.                                     *)
IssuanceEntropy(txin) ==
    IF txin.issuance.nonce = NullNonce
    THEN GenerateAssetEntropy(txin.prevout, txin.issuance.entropy)
    ELSE txin.issuance.entropy

IssuanceAssetID(txin) == CalculateAsset(IssuanceEntropy(txin))

IssuanceTokenID(txin) ==
    CalculateReissuanceToken(IssuanceEntropy(txin), IsCommitment(txin.issuance.amount))

(* CAssetIssuance::IsNull(): neither new units nor new tokens.            *)
IssuanceIsNull(iss) == IsNull(iss.amount) /\ IsNull(iss.keys)

(* GetNumIssuances(tx) (issuance.cpp): the number of non-null nAmount and *)
(* nInflationKeys over the inputs that carry an issuance.                 *)
GetNumIssuances(txin) ==
    LET Count(k) == IF IssuanceIsNull(txin[k].issuance) THEN 0
                    ELSE (IF IsNull(txin[k].issuance.amount) THEN 0 ELSE 1)
                       + (IF IsNull(txin[k].issuance.keys) THEN 0 ELSE 1)
    IN  SumFunction([k \in DOMAIN txin |-> Count(k)])

(* secp256k1 generator operations.                                        *)
GenerateGen(asset) == [asset |-> asset, blind |-> Unblinded]
GenerateBlinded(asset, nonce) == [asset |-> asset, blind |-> nonce]

(* The 33 bytes of an asset field (vchCommitment), and the 33 bytes       *)
(* secp256k1_generator_serialize writes.  An explicit asset's bytes are   *)
(* 0x01 || id and never equal a serialized generator (prefix 0x0a/0x0b).  *)
VchCommitment(f) ==
    CASE f.tag = "explicit" -> <<"0x01", f.id>>
      [] f.tag = "commit"   -> <<"0x0a", f.gen>>
      [] OTHER              -> <<f.tag>>

SerializeGen(g) == <<"0x0a", g>>

(* secp256k1_pedersen_commit with an all-zero blinding factor fails only  *)
(* for a zero amount; the caller checks that first.                       *)
PedersenCommit(v, g) == [asset |-> g.asset, amt |-> v]

(* The amount of asset a that a vector of commitments holds.              *)
AmountOf(s, a) ==
    SumFunctionOnSet([k \in DOMAIN s |-> s[k].amt], {k \in DOMAIN s : s[k].asset = a})

(* secp256k1_pedersen_verify_tally: sum(in) - sum(out) is the zero point. *)
PedersenVerifyTally(ins, outs) ==
    \A a \in {c.asset : c \in Range(ins) \cup Range(outs)} :
        AmountOf(ins, a) = AmountOf(outs, a)

(* Proofs carried in the witness, as the verifier meets them: an empty    *)
(* vector, bytes no prover made for this data, or a proof a prover made   *)
(* for the data it names (a range proof for a binding of commitment,      *)
(* asset commitment and script; a surjection proof for a target list and  *)
(* the index of the target the output's asset comes from).                *)
EmptyProof == [kind |-> "empty"]
BadProof   == [kind |-> "bad"]

(* A witness slot beyond the end of vtxinwit or vtxoutwit.               *)
NoInWitness  == [present |-> FALSE, amountRP |-> EmptyProof, keysRP |-> EmptyProof]
NoOutWitness == [present |-> FALSE, rangeproof |-> EmptyProof, surjectionproof |-> EmptyProof]

(* secp256k1_rangeproof_verify: only a proof made for exactly this        *)
(* binding verifies, and none exists for an amount outside [0, 2^64).     *)
RangeProofVerifies(proof, val, assetCommitment, script) ==
    /\ proof.kind = "good"
    /\ proof.binding = <<val, assetCommitment, script>>
    /\ val.tag = "commit"
    /\ val.amt >= 0

(* secp256k1_surjectionproof_parse fails on an empty proof.               *)
SurjectionProofParses(proof) == proof.kind # "empty"

(* secp256k1_surjectionproof_verify: the proof was made over this target  *)
(* list and the output generator re-randomises the target it names.       *)
SurjectionProofVerifies(proof, targets, gen) ==
    /\ proof.kind = "good"
    /\ proof.targets = targets
    /\ proof.index \in DOMAIN targets
    /\ targets[proof.index].asset = gen.asset

=============================================================================
