--------------------------- MODULE MCVerifyAmounts ---------------------------
(***************************************************************************)
(* Instances of VerifyAmounts for TLC.  Each run binds the constants to    *)
(* one of the transaction families below: structural rejections of every  *)
(* kind of field, confidential transfers that must balance, and            *)
(* issuances and reissuances.                                              *)
(***************************************************************************)
EXTENDS VerifyAmounts

CONSTANTS A, B, o1, c1, b1

(* Confidential fields.                                                   *)
Null          == [tag |-> "null"]
Invalid       == [tag |-> "invalid"]
BadCommit     == [tag |-> "badcommit"]
ExpAsset(a)   == [tag |-> "explicit", id |-> a]
ComAsset(a, b) == [tag |-> "commit", gen |-> GenerateBlinded(a, b)]
ExpValue(v)   == [tag |-> "explicit", amt |-> v]
ComValue(v)   == [tag |-> "commit", amt |-> v]

NoIssuance == [nonce |-> NullNonce, entropy |-> c1, amount |-> Null, keys |-> Null]

MCMaxMoney == 2

(* The entropy of an initial issuance spending o1 with contract c1, and   *)
(* the ids it yields.                                                     *)
E1 == GenerateAssetEntropy(o1, c1)
Issued == CalculateAsset(E1)
Token(conf) == CalculateReissuanceToken(E1, conf)

-----------------------------------------------------------------------------
(* Family 1: one input and one output, every kind of field.               *)

StructIns == {[prevout |-> o1, issuance |-> NoIssuance]}

StructPrevouts ==
    [asset : {Null, BadCommit, ExpAsset(A), ComAsset(A, b1)},
     value : {Null, BadCommit, ExpValue(0), ExpValue(1), ExpValue(3), ComValue(1)}]

StructOutputs ==
    [asset : {Null, Invalid, BadCommit, ExpAsset(A), ComAsset(A, b1)},
     value : {Null, Invalid, BadCommit, ExpValue(0), ExpValue(1), ExpValue(3),
              ComValue(1)},
     nonce : BOOLEAN,
     script : {"spendable", "unspendable"}]

-----------------------------------------------------------------------------
(* Family 2: two inputs and two outputs of two assets, well formed; the   *)
(* amounts, the commitments and the proofs decide.  ComValue(-1) hides an *)
(* amount outside [0, 2^64) that balances the books only without a range *)
(* proof.                                                                 *)

TransferPrevouts ==
    [asset : {ExpAsset(A), ComAsset(B, b1)},
     value : {ExpValue(1), ComValue(1)}]

TransferOutputs ==
    [asset : {ExpAsset(A), ComAsset(A, b1), ComAsset(B, b1)},
     value : {ExpValue(1), ComValue(1), ComValue(3), ComValue(-1)},
     nonce : {TRUE},
     script : {"spendable"}]

-----------------------------------------------------------------------------
(* Family 3: one input carrying an initial issuance (outpoint o1,         *)
(* contract c1) or a reissuance of the asset it created, spending A or a  *)
(* reissuance token blinded by b1.                                        *)

Issue(amount, keys) ==
    [prevout |-> o1,
     issuance |-> [nonce |-> NullNonce, entropy |-> c1, amount |-> amount, keys |-> keys]]

Reissue(amount, keys) ==
    [prevout |-> o1,
     issuance |-> [nonce |-> b1, entropy |-> E1, amount |-> amount, keys |-> keys]]

IssuanceIns ==
    {Issue(a, k) : a \in {Null, Invalid, BadCommit, ExpValue(0), ExpValue(1), ComValue(1)},
                   k \in {Null, Invalid, ExpValue(1), ComValue(1)}}
    \cup {Reissue(a, k) : a \in {Null, ExpValue(1), ComValue(1)}, k \in {Null, ExpValue(1)}}

IssuancePrevouts ==
    [asset : {ExpAsset(A), ComAsset(Token(TRUE), b1), ComAsset(Token(FALSE), b1)},
     value : {ExpValue(1)}]

IssuanceOutputs ==
    {[asset |-> ExpAsset(A), value |-> ExpValue(1), nonce |-> TRUE, script |-> "spendable"]}
    \cup {[asset |-> ComAsset(x, b1), value |-> ComValue(1), nonce |-> TRUE,
           script |-> "spendable"] : x \in {Issued, Token(TRUE), Token(FALSE)}}

=====
