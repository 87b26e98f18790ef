----------------------------- MODULE BlockHeader -----------------------------
(***************************************************************************)
(* CBlockHeader::GetHash and the dynamic federation roots of               *)
(* src/primitives/block.cpp (lines 12-55 and 73-118).                      *)
(*                                                                         *)
(* A hash is a term: Sha256d(stream) for CHashWriter's GetHash over what   *)
(* was written to it, Node(l, r) for the inner hash of the fast Merkle     *)
(* tree, and Zero for uint256().  Two terms are equal exactly when they    *)
(* were built from equal inputs, which is what a collision-resistant hash  *)
(* gives; a property about hashes is then a property about which fields    *)
(* the code feeds to them.  Scripts, witnesses and hashes of the header    *)
(* are model values; nVersion is an integer of VersionBits bits, so the    *)
(* dynafed bit can be ORed into it.                                        *)
(*                                                                         *)
(* The state is the header a block producer holds and the two process     *)
(* globals the hash reads.  The producer proposes a header and signs it;  *)
(* both are inputs to the code, as deserialization would give them.        *)
(***************************************************************************)
EXTENDS Integers, Sequences, Bitwise

CONSTANTS
    VersionBits,   \* the width of nVersion in the model
    Versions,      \* values nVersion may take (the dynafed bit clear)
    Hashes,        \* values hashPrevBlock and hashMerkleRoot may take
    Times,         \* values nTime may take
    Heights,       \* values block_height may take
    PowFields,     \* values nBits and nNonce may take
    Scripts,       \* CScripts: challenges, signblockscripts, fedpeg programs
    Limits,        \* values m_signblock_witness_limit may take
    Extensions,    \* values m_extension_space may take
    ParamsChoices, \* the non-null DynaFedParams a dynafed header may carry
    Solutions,     \* values proof.solution may take once signed
    Witnesses,     \* values m_signblock_witness may take once signed
    None           \* an empty script, witness or unset field

ASSUME VersionBits \in Nat \ {0}

(* DYNAFED_HF_MASK: the top bit of nVersion.                              *)
DynafedHFMask == 2^(VersionBits - 1)

ASSUME Versions \subseteq 0..(DynafedHFMask - 1)

VARIABLES
    conHeight,     \* g_con_blockheightinheader
    signedBlocks,  \* g_signed_blocks
    header         \* the CBlockHeader held by the producer

vars == <<conHeight, signedBlocks, header>>

-----------------------------------------------------------------------------
(* Hashes as terms.                                                       *)

Zero == [op |-> "zero", args |-> <<>>]
Sha256d(stream) == [op |-> "sha256d", args |-> stream]
Node(l, r) == [op |-> "node", args |-> <<l, r>>]

(* ComputeFastMerkleRoot (consensus/merkle.cpp): adjacent hashes are      *)
(* paired level by level; an odd one out moves up unhashed.               *)
RECURSIVE FastMerkleRoot(_)
FastMerkleRoot(leaves) ==
    CASE Len(leaves) = 0 -> Zero
      [] Len(leaves) = 1 -> leaves[1]
      [] OTHER ->
           FastMerkleRoot([k \in 1..((Len(leaves) + 1) \div 2) |->
                             IF 2 * k <= Len(leaves)
                             THEN Node(leaves[2 * k - 1], leaves[2 * k])
                             ELSE leaves[2 * k - 1]])

(* (CHashWriter{0} << x).GetHash(): the hash of one serialized field.     *)
LeafHash(x) == Sha256d(<<x>>)

-----------------------------------------------------------------------------
(* DynaFedParamEntry: m_serialize_type 0 is null, 1 compact (the extra    *)
(* fields elided to m_elided_root), 2 full.                               *)
NullEntry ==
    [type |-> 0, signblockscript |-> None, witnessLimit |-> None,
     fedpegProgram |-> None, fedpegscript |-> None, extension |-> None,
     elidedRoot |-> None]

FullEntries ==
    [type : {2}, signblockscript : Scripts, witnessLimit : Limits,
     fedpegProgram : Scripts, fedpegscript : Scripts, extension : Extensions,
     elidedRoot : {None}]

(* DynaFedParamEntry::CalculateExtraRoot, lines 99-106.                   *)
CalculateExtraRoot(e) ==
    FastMerkleRoot(<<LeafHash(e.fedpegProgram), LeafHash(e.fedpegscript),
                     LeafHash(e.extension)>>)

(* DynaFedParamEntry::CalculateRoot, lines 73-97.                         *)
CalculateEntryRoot(e) ==
    IF e.type = 0 THEN Zero
    ELSE LET compactRoot == FastMerkleRoot(<<LeafHash(e.signblockscript),
                                             LeafHash(e.witnessLimit)>>)
             extraRoot   == CASE e.type = 1 -> e.elidedRoot
                              [] e.type = 2 -> CalculateExtraRoot(e)
                              [] OTHER      -> Zero
         IN  FastMerkleRoot(<<compactRoot, extraRoot>>)

(* DynaFedParams: the current and the proposed entry.  IsNull when both   *)
(* are null (primitives/block.h).                                         *)
ParamsIsNull(p) == p.current.type = 0 /\ p.proposed.type = 0

(* DynaFedParams::CalculateRoot, lines 108-118.                           *)
CalculateParamsRoot(p) ==
    IF ParamsIsNull(p) THEN Zero
    ELSE FastMerkleRoot(<<CalculateEntryRoot(p.current), CalculateEntryRoot(p.proposed)>>)

-----------------------------------------------------------------------------
(* nVersion | DYNAFED_HF_MASK.                                            *)
WithDynafedBit(v) == v | DynafedHFMask

(* Mutant: the whole CProof is written, solution included, as `s <<      *)
(* proof` does since SER_GETHASH was removed (the comment at line 20).   *)
GetHashWholeProof(h) ==
    LET isDyna == ~ParamsIsNull(h.dynafedParams)
        common == <<IF isDyna THEN WithDynafedBit(h.nVersion) ELSE h.nVersion,
                    h.hashPrevBlock, h.hashMerkleRoot, h.nTime>>
        legacy == (IF conHeight THEN <<h.blockHeight>> ELSE <<>>)
                  \o (IF signedBlocks THEN <<h.proof.challenge, h.proof.solution>>
                                      ELSE <<h.nBits, h.nNonce>>)
    IN  Sha256d(common \o (IF isDyna THEN <<h.blockHeight, h.dynafedParams>>
                                     ELSE legacy))

(* CBlockHeader::GetHash, lines 24-55: what is written to the CHashWriter *)
(* in each layout, then its double SHA256.                                 *)
GetHash(h) ==
    LET isDyna == ~ParamsIsNull(h.dynafedParams)
        common == <<IF isDyna THEN WithDynafedBit(h.nVersion) ELSE h.nVersion,
                    h.hashPrevBlock, h.hashMerkleRoot, h.nTime>>
        legacy == (IF conHeight THEN <<h.blockHeight>> ELSE <<>>)
                  \o (IF signedBlocks THEN <<h.proof.challenge>>
                                      ELSE <<h.nBits, h.nNonce>>)
    IN  Sha256d(common \o (IF isDyna THEN <<h.blockHeight, h.dynafedParams>>
                                     ELSE legacy))

-----------------------------------------------------------------------------
(* Headers as deserialization gives them (primitives/block.h): a dynafed  *)
(* header has a non-null current entry and no PoW fields or challenge; a  *)
(* legacy header carries block_height only under                          *)
(* g_con_blockheightinheader, and a challenge or nBits and nNonce by      *)
(* g_signed_blocks.  A proposed header is not yet signed.                 *)
DynafedHeaders ==
    [nVersion : Versions, hashPrevBlock : Hashes, hashMerkleRoot : Hashes,
     nTime : Times, blockHeight : Heights, nBits : {None}, nNonce : {None},
     proof : {[challenge |-> None, solution |-> None]},
     dynafedParams : ParamsChoices,
     signblockWitness : {None}]

LegacyHeaders ==
    [nVersion : Versions, hashPrevBlock : Hashes, hashMerkleRoot : Hashes,
     nTime : Times,
     blockHeight : IF conHeight THEN Heights ELSE {None},
     nBits : IF signedBlocks THEN {None} ELSE PowFields,
     nNonce : IF signedBlocks THEN {None} ELSE PowFields,
     proof : [challenge : IF signedBlocks THEN Scripts ELSE {None},
              solution : {None}],
     dynafedParams : {[current |-> NullEntry, proposed |-> NullEntry]},
     signblockWitness : {None}]

ProposedHeaders == DynafedHeaders \cup LegacyHeaders

IsDynafed(h) == ~ParamsIsNull(h.dynafedParams)

(* What a header says apart from its signature.                           *)
Content(h) == [h EXCEPT !.proof.solution = None, !.signblockWitness = None]

(* The globals are set once at startup, before any header is hashed.     *)
Init ==
    /\ conHeight \in BOOLEAN
    /\ signedBlocks \in BOOLEAN
    /\ header \in ProposedHeaders

(* The unsigned headers one edit away from h: one field changed, or the   *)
(* dynafed parameters switched on or off with the fields each layout      *)
(* carries.                                                               *)
Edits(h) ==
    LET c == Content(h) IN
    ProposedHeaders \cap
      ( {[c EXCEPT !.nVersion = v] : v \in Versions}
        \cup {[c EXCEPT !.hashPrevBlock = v] : v \in Hashes}
        \cup {[c EXCEPT !.hashMerkleRoot = v] : v \in Hashes}
        \cup {[c EXCEPT !.nTime = v] : v \in Times}
        \cup {[c EXCEPT !.blockHeight = v] : v \in Heights}
        \cup {[c EXCEPT !.nBits = v] : v \in PowFields}
        \cup {[c EXCEPT !.nNonce = v] : v \in PowFields}
        \cup {[c EXCEPT !.proof.challenge = v] : v \in Scripts}
        \cup {[c EXCEPT !.dynafedParams = p, !.nBits = None, !.nNonce = None,
                        !.proof.challenge = None, !.blockHeight = v] :
                 p \in ParamsChoices, v \in Heights}
        \cup {[c EXCEPT !.dynafedParams = [current |-> NullEntry, proposed |-> NullEntry],
                        !.nBits = b, !.nNonce = n, !.proof.challenge = ch,
                        !.blockHeight = v] :
                 b \in PowFields \cup {None}, n \in PowFields \cup {None},
                 ch \in Scripts \cup {None}, v \in Heights \cup {None}} )

(* The producer revises its header: a new nonce, time, parent, height,    *)
(* challenge or set of parameters.  The signature, if any, is dropped.   *)
Propose ==
    /\ \E h \in Edits(header) : header' = h
    /\ UNCHANGED <<conHeight, signedBlocks>>

(* The producer signs: a dynafed block through m_signblock_witness, a     *)
(* legacy signed block through proof.solution.                            *)
Sign ==
    /\ header.proof.solution = None /\ header.signblockWitness = None
    /\ \/ /\ IsDynafed(header)
          /\ \E w \in Witnesses : header' = [header EXCEPT !.signblockWitness = w]
       \/ /\ ~IsDynafed(header) /\ signedBlocks
          /\ \E s \in Solutions : header' = [header EXCEPT !.proof.solution = s]
    /\ UNCHANGED <<conHeight, signedBlocks>>

Next == Propose \/ Sign

Spec == Init /\ [][Next]_vars

-----------------------------------------------------------------------------
(* A full entry elided to its compact form, as a header carries it.       *)
Compact(e) ==
    [e EXCEPT !.type = 1, !.fedpegProgram = None, !.fedpegscript = None,
              !.extension = None, !.elidedRoot = CalculateExtraRoot(e)]

-----------------------------------------------------------------------------
(* Properties.                                                            *)

TypeOK ==
    /\ conHeight \in BOOLEAN /\ signedBlocks \in BOOLEAN
    /\ Content(header) \in ProposedHeaders
    /\ header.proof.solution \in Solutions \cup {None}
    /\ header.signblockWitness \in Witnesses \cup {None}

(* GetHash identifies a header up to its signature: a step that changes   *)
(* only the signature (solution or signblock witness) keeps the hash, so  *)
(* what was signed is still the block's hash, and a step that changes     *)
(* anything else the header says (version, parents, time, height,         *)
(* dynafed parameters, challenge, or nBits and nNonce) changes it, in     *)
(* each of the layouts the two globals and the dynafed bit select.        *)
HashIdentifiesHeader ==
    [][GetHash(header') = GetHash(header) <=> Content(header') = Content(header)]_vars

=============================================================================
