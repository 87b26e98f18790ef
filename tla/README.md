# TLA+ models of the confidential amount verifier

This directory holds TLA+ models of the confidential-transaction amount
verifier in `src/confidential_validation.cpp`, with the fee, discount,
peg-in, chain-type and block-header code beside it, the TLC configurations that
check them, and `PROJECT.json`. `PROJECT.json` lists:

- the components, with what is modelled;
- the runs;
- the mutants that show each property can fail;
- the map from every modelling definition to the source lines it translates;
- the findings;
- the hazards of the code.

## The system

The sources are seven files. Their parts and how they interact:

| Part | Source | What it does |
|---|---|---|
| Amount verifier | `VerifyAmounts`, `confidential_validation.cpp:144-491` | Walks the inputs, each followed by up to two issuance pseudo-inputs, then the outputs. It builds the left-hand and right-hand commitment vectors (`vpCommitsIn`, `vpCommitsOut`) as pointers into one reserved buffer `vData`. It collects the generators that surjection proofs are made over (`target_generators`). It then emits a balance check, one range check per committed output value, and one surjection check per committed output asset. |
| Issuance deriver | lines 240-280 | Computes the issued asset id and reissuance-token id from the outpoint and the entropy. On a reissuance it compares the spent asset commitment, byte for byte, with the token generator blinded by the nonce. |
| `VerifyIssuanceAmount` | lines 92-133 | Gives an issuance pseudo-input its commitment: it commits an explicit amount, or it range-checks and parses a committed one. |
| Check tasks | lines 54-77 | `CRangeCheck`, `CBalanceCheck` and `CSurjectionCheck`, each a unit that runs a curve-library verifier and records a `ScriptError`. |
| Dispatcher | `QueueCheck`, lines 80-89 | With a queue, it hands the check to the caller and returns OK. Without one, it runs the check at once and returns its error. |
| Fees and coinbase | `HasValidFee`, `GetFeeMap`, `VerifyCoinbaseAmount`, lines 27-52 and 493-519 | Per-asset fee totals, and the check that coinbase outputs only sweep fees. |
| Discounted virtual size | `policy/discount.h:17-35` | Weight minus the witnesses of confidential outputs, divided by the witness scale factor and rounded up. |
| Chain type names | `util/chaintype.h`, `util/chaintype.cpp:11-66` | `ChainType` to its name and back, through two tables kept by hand; `ChainTypeMetaFrom` builds the (type, name) pair a node runs under from a `-chain` name or from a type. |
| Peg-in output | `script/pegins.cpp:12-22` | Deserializes a peg-in witness into the output a peg-in input spends; that output then reaches the input tally of `VerifyAmounts`. |
| Block hashing | `primitives/block.cpp` | `CBlockHeader::GetHash` in the layout the globals `g_con_blockheightinheader`, `g_signed_blocks` and the dynafed parameters select, and the Merkle roots of dynafed parameter entries. |
| Simplicity program | `simplicity/schnorr0.c` | Constant data. |

The interaction that makes the verifier hard is the dispatcher. The same walk
either fails fast on the first failing check, or returns `true` with a queue
of checks that the caller (`CCheckQueue`, not among the sources) runs later,
in any order, stopping at the first failure. Everything the verdict depends
on must agree between the two modes. What is checked early and synchronously:

- the field tags, `MoneyRange`, zero amounts and missing witnesses;
- the reissuance token.

The rest is deferred, and its outcome is known only when the queue is drained.

State of one verification, and where the model keeps it:

| State in the code | Model variable |
|---|---|
| the transaction (`tx.vin`, issuances, vector sizes) | `txin`, `nIn`, `nOut`, `inWitLen`, `outWitLen` |
| the spent outputs `inputs` | `prevouts` |
| the witnesses | `inwit`, `outwit` |
| `vData`: the buffer it holds and its capacity | `vdata` |
| the heap buffers not yet freed | `live` |
| the caller still holding the transaction | `txLive` |
| `vpCommitsIn` / `vpCommitsOut` | `lhs` / `rhs` (the commitments they point to) |
| `target_generators` | `targets` |
| `assetID` / `assetTokenID` | `ids` |
| the loop being run and its index | `pc`, `i` |
| `*checks` | `queue` |
| the return value | `result` |
| the caller's outcome per queued check | `drained` |

## Modules

- **`ConfidentialData`** is the data the verifier reads. Its constants are `BaseAssets`, `Outpoints`, `Contracts`, `Blinds` and `MaxMoney`.
  - A confidential field is a record tagged `null`, `explicit`, `commit`, `badcommit` (commitment bytes that are not a curve point) or `invalid`.
  - A generator is `[asset, blind]`.
  - A Pedersen commitment is `[asset, amt]`, and the tally is per-asset equality of sums.
  - A proof is `empty`, `bad` (bytes no prover made for this data), or `good`, made by an honest prover for what it binds. For a range proof that is the commitment, asset commitment and script. For a surjection proof it is the target list and an index into it.
  - The hashes of `issuance.cpp` are injective tuples.
  - The curve library and the helpers of headers outside `src/` are modelled from the spec (`spec_modelled` in the map).
- **`AmountsValidity`** is the abstract specification: what the verifier promises, stated declaratively from spec sections 3 and 4.E.
  - The pseudo-inputs of an input, in consensus order.
  - The canonical target list an honest wallet proves against.
  - The honest proofs available for each field.
  - `ValidRead`: the verdict owed to a transaction given the parts of it the verifier has read.
- **`VerifyAmounts`** models the verifier itself. It has one action per loop iteration of `VerifyAmounts`; the input loop is split at its issuance part:
  - `VerifyInput` covers 173-238;
  - `DeriveIssuance` covers 240-280;
  - `IssueAmount` covers 282-305;
  - `IssueKeys` covers 307-337;
  - `VerifyOutput` covers 339-412;
  - `VerifyBalance` covers 414-421;
  - `VerifyRange` covers 423-451;
  - `VerifySurjection` covers 453-490.

  `RunQueuedCheck` is the caller draining the queue. The check tasks, the dispatcher and `VerifyIssuanceAmount` are operators. Each action keeps the code's early returns as disjuncts that set `result` to `FALSE` and stop.

  The transaction is the input of the call. `Init` fixes what the code reads before the walk: the sizes, the issuances (read by `GetNumIssuances` for the reserve), and the mode. Every other field is chosen by `\E`, at the step that first reads it, from the sets the run enumerates. So the state space holds only the transactions that reach each step. Witness proofs are drawn from the honest proofs for the data they are attached to, plus `empty` and `bad`.
  `VerifyAmounts` also models the storage of `vData`, which is where the code is fragile.
  - Buffers are numbered in allocation order. `ReserveBuffer` is the one `vData.reserve` allocates at line 155. `p = vData.data()` is taken from it at line 156 and only ever incremented, so every pointer in `vpCommitsIn` and `vpCommitsOut` leads into that buffer.
  - `PushCommit` is `vData.push_back` with the pointer push. At capacity the vector moves to a new buffer of twice the size and frees the old one.
  - `VerifyBalance` hands `vData` to `CBalanceCheck`. The check swaps the buffer into itself; that constructor is in the header, outside the sources. Queued, the check owns the buffer. Run inline, it frees the buffer when it is deleted.
  - `FreeFrame` is the destructor of `vData` when `VerifyAmounts` returns.
  - A balance check that reads through pointers into a freed buffer is undefined behaviour. `RunOutcomes` lets its tally pass or fail.
  - `CRangeCheck` keeps `&val` (line 425, and `&value` at line 121) and its range proof by reference: its record's `at` is `"tx"`, the caller's transaction. `ReleaseTx` is the batch that owns the transaction freeing it once it has the verdict (spec section 5: captured data must outlive the queue). A range check reading a freed value may pass or fail.
- **`BlockHeader`** models `CBlockHeader::GetHash` (`primitives/block.cpp:24-55`) and the dynafed roots (73-118).
  - A hash is a term built from what was written to it: `Sha256d(stream)`, `Node(l, r)` of the fast Merkle tree, and `Zero` for `uint256()`. Equal terms mean equal inputs, as a collision-resistant hash gives, so the properties are about which fields the code feeds in.
  - `GetHash` is the stream of each layout: the common prefix (with `DYNAFED_HF_MASK` ORed into `nVersion` for dynafed headers, through `Bitwise`), then height and parameters, or the optional height and the challenge or `nBits`/`nNonce`.
  - `CalculateEntryRoot`, `CalculateExtraRoot` and `CalculateParamsRoot` are the three root functions. `FastMerkleRoot` is `ComputeFastMerkleRoot` (in `consensus/merkle.cpp`, not among the sources), which pairs hashes level by level.
  - The state is the two globals, set once in `Init`, and the header a block producer holds. The producer edits one field at a time or switches dynafed on or off (`Propose`), and signs (`Sign`): through `m_signblock_witness` for a dynafed header, through `proof.solution` for a legacy signed one. The headers are those deserialization gives: a layout carries only its own fields.
- **`MCBlockHeader`** has a 2-bit `nVersion`, two values of every field, and dynafed entries that differ from each other in one field each.
- **`ChainTypeNames`** models `util/chaintype.h` and `util/chaintype.cpp`. `ChainTypeToString` and `ChainTypeFromString` are the two tables as functions (`:>` and `@@` of the TLC module); a `std::optional` is a set of at most one type. The state `meta` is the `ChainTypeMeta` a caller holds. It is a plain aggregate, so `Init` lets it be any (type, name) pair. `FromName` and `FromType` are calls of the two `ChainTypeMetaFrom` overloads; `derived` records that `meta` came from one.
- **`PeginInput`** models `GetPeginOutputFromWitness` (`script/pegins.cpp:12-22`) composed with the input tally of `VerifyAmounts` (lines 172-217), which is where the caller's spent output for a peg-in input goes.
  - A stack item is a record of its length and of what its bytes stand for: `word`, the little-endian value of its first eight bytes (or of all of them when shorter), and `id`, the asset, hash or script it carries.
  - `GetPeginOutputFromWitness` returns a null `CTxOut` below four items. `stream >> value` throws when the amount item is shorter than 8 bytes and ignores bytes past the eighth. `AsCAmount` reads the 8 bytes as a two's-complement `CAmount` of `AmountBits` bits. `CAsset(stack[1])` builds a `uint256`, whose constructor asserts a 32-byte item. An exception or assertion ends the call (`pc = "failed"`).
  - `TallyInput` is the loop body for an explicit spent output: null fields, `MoneyRange`, and the commitment that fails on zero.
- **`MCPeginInput`** passes in every witness of 0 to 6 items: the amount item is 7, 8 or 9 bytes and reads 0, 1, `MAX_MONEY`, `MAX_MONEY` + 1 or all ones; the asset item is 32 or 33 bytes.
- **`MCVerifyAmounts`** binds the constants and defines three families of transactions, one per passing run.

- **`FeesCoinbase`** models `HasValidFee`, `GetFeeMap` and `VerifyCoinbaseAmount` (lines 27-52 and 493-519), composed as block validation uses them: the fees of a transaction that `HasValidFee` accepts are collected by `GetFeeMap`, and the coinbase may sweep no more than that fee map. The caller's glue is modelled from the spec.
  - One action per loop iteration: `HasValidFeeStep`, `GetFeeMapStep`, `CoinbaseOutput`. The witness loop is the single action `CoinbaseWitnesses`, and each function's return is an action of its own.
  - `CAmount` is a signed integer of `IntBits` bits. `Wrap` reduces every sum and difference to that width: the two's-complement result the build produces for a signed overflow, which C++ leaves undefined.
  - A run scales `MAX_MONEY` and the width together. It keeps `2 * MaxMoney < 2^(IntBits-1)`, as holds for 64 bits, so the additions of `HasValidFee` cannot wrap, just as in the code.
  - The operators `ExactFees`, `FeesValid` and `CoinbaseOK` state spec 4.F and the properties P3 and P4 over exact integers.
- **`MCFeesCoinbase`** uses a 4-bit `CAmount` and `MAX_MONEY` = 3.
- **`DiscountedSize`** models `GetDiscountedVirtualTransactionSize` (`policy/discount.h:17-35`).
  - `Weigh` is line 19, `DiscountOutput` is one loop iteration, and `Finish` covers the two asserts and the rounded-up division.
  - The asserts lead to an `abort` state.
  - `weight` is a `size_t` of `SizeBits` bits, and the result is converted to `int64_t`.
  - The serialized sizes are inputs. The full size is the non-witness size plus the input and output witness sizes.
  - Reading `vtxoutwit[i]` past its end is undefined behaviour. It yields any size in `GarbageSizes`.
- **`MCDiscountedSize`** uses `WITNESS_SCALE_FACTOR` = 4 and a 6-bit `size_t`.

Possible further work is a refinement of the proof cache, should `CachingRangeProofChecker` ever be among the sources. An earlier refinement of `VerifyAmounts` to an abstract read-once, decide-once verdict was dropped: both halves held by the shape of the model (reads only extend, the failure flag only rises), and the rest repeated `VerdictMatchesSpec`. The equality of compact and full dynafed entry roots was dropped for the same reason: the compact form is built with the full form's extra root.

## Properties and runs

- **`TypeOK`** (structure run): the type invariant.
- **`VerdictMatchesSpec`** (structure, transfer and issuance runs). Once the call has returned and the caller has run what it needs of the queue, the verdict is `ValidRead` of what was read. A rejection must have read a defect, and an acceptance must have read the whole transaction and found it valid. This one property covers several hazards:
  - every early return rejects exactly the defect it reads;
  - inline and queued verification agree, whatever order the caller drains the queue in;
  - the pseudo-inputs reach the balance and the target list in the order honest surjection proofs are made over;
  - a reissuance spends its token;
  - explicit zero amounts behave as the spec's boundaries B1 and B2 say.
- **`CheckPointersValid`** (issuance run). Every pointer a check holds leads into live storage while the check may still run. For `CBalanceCheck` the pointers must be live when the check is built and stay live as long as a queued balance check is still to run. For `CRangeCheck`, `val` must point into the transaction, which the caller holds until it has the verdict, and not into a local of `VerifyAmounts`; this range part only checks where line 446 points against the caller's discipline, and the balance part carries the weight. It needs two parts of the code to agree:
  - the reserve of line 155, counted by `GetNumIssuances` before the walk, must make room for every push, since one push more moves `vData` and frees the pointed-to buffer (spec section 9);
  - the check must take the buffer over before the frame of `VerifyAmounts`, and `vData` with it, is destroyed.
- **`HashIdentifiesHeader`** (header run, an action property). A step that changes only the signature keeps the hash, so what was signed is still the block's hash. A step that changes anything else the header says changes the hash. This holds in every layout. The code's comment at line 22 names the trap: since `SER_GETHASH` was removed, `s << proof` would hash the solution too.
- **`MetaFromAgree`** (chaintype run). A meta returned by either `ChainTypeMetaFrom` overload parses back to itself from its name, and, unless its type is `CUSTOM`, equals the meta built from its type. The two overloads rest on a switch and an if-chain kept in step by hand; a case renamed or a branch lost in either one breaks this. `CUSTOM` is left out because `ChainTypeMetaFrom(CUSTOM)` names the chain `"custom"` whatever its name was, which the code does by design.
- **`PeginCommittedIffFunded`** (pegin run). A peg-in input reaches the balance exactly when its witness has at least four items, an amount item of at least 8 bytes whose `CAmount` is in 1..`MAX_MONEY`, and a 32-byte asset. A short witness, a short amount (an exception), a 33-byte asset (an assertion), a negative or too large amount, and zero each stop the input, either in `GetPeginOutputFromWitness` or in the tally. The check that stops a negative amount read from the witness is `MoneyRange` in `VerifyAmounts`, not the parser.
- **`FeeAccountingExact`** (fees run): `HasValidFee` accepts exactly the fees spec P3 calls valid. `GetFeeMap` of an accepted transaction, which checks nothing and adds in `CAmount`, is then the exact per-asset total. The property ties two functions together through the running check of line 36.
- **`CoinbaseVerdictMatchesSpec`** (fees run). Once `VerifyCoinbaseAmount` has returned, it has accepted exactly the coinbases that sweep at most the fees. Such a coinbase has explicit, in-range outputs, no spendable zero and no output witness (spec 4.F, P4). An acceptance must have read every output.
  - The fees run has at most two coinbase outputs, and there `remaining` cannot wrap: it is at least 0 - 2 * 3 = -6 > -8.
  - The violation run `coinbase_wrap` allows five outputs of `MAX_MONEY`. TLC finds the coinbase accepted with `remaining` = 1: -15 wraps to 1. With 64 bits the subtraction first overflows after about 4,400 outputs of `MAX_MONEY`, and lands back in `MoneyRange` after about 2^64 / `MAX_MONEY`, some 8,800 outputs. This is recorded as a finding.
- **`DiscountMatchesSpec`** (discount run). For a transaction with a witness entry per output, the `size_t` loop never trips its asserts. It returns spec 4.F's rounded-up discounted vsize, which is at most the undiscounted vsize. Transactions without output witnesses are explored, with any garbage size read, but not judged. Whether a caller can pass one is decided outside the sources (a hazard).
- **`TypeOK`** of `FeesCoinbase` and `DiscountedSize`, in the fees and discount runs.
- **`FailedCheckReportsItsKind`** (violation run `surjection_error`): a queued check that fails reports the `ScriptError` of its kind (spec section 7). TLC finds it violated. `CSurjectionCheck` never sets its error, so the caller reads `SCRIPT_ERR_UNKNOWN_ERROR`. This is recorded as a finding.

| Run | cfg | Transactions | Distinct states |
|---|---|---|---|
| structure | `MCVerifyAmounts_structure.cfg` | One input and one output. Every field kind: null, invalid, bad commitment, explicit 0, 1 and 3 (above `MaxMoney` = 2), committed. Nonce valid or not, script spendable or not. Proofs empty, bad or good. | 14,176 |
| transfer | `MCVerifyAmounts_transfer.cfg` | Two inputs and two outputs over assets A and B. Explicit and committed fields. A committed amount of -1 can balance the books but has no range proof. | 1,045,206 |
| issuance | `MCVerifyAmounts_issuance.cfg` | One input carrying an initial issuance (amount and keys each null, invalid, a bad commitment, explicit 0 or 1, or committed) or a reissuance (amount null, explicit or committed; keys null or explicit). It spends A or a token blinded by the right or the wrong flavour. Two or three outputs of A, the issued asset or a token. | 3,288,044 |
| header | `MCBlockHeader.cfg` | All four settings of the two globals. Legacy headers (PoW, or signed with challenge `s1` or `s2`, with or without height) and dynafed headers whose current entry is full (`f1`, `f2`), compact (`f1` elided) or elided to a stray root, and whose proposed entry is null or full (`f3`, `f4`). Every one-field edit, activation and deactivation, and signing. | 3,456 |
| chaintype | `ChainTypeNames.cfg` | Every (type, name) pair over the eight types and twelve names: the seven names `ChainTypeFromString` knows, `"custom"`, `"elementsregtest"`, `"testnet"`, `"Main"` and `""` | 108 |
| pegin | `MCPeginInput.cfg` | Every witness of 0-6 items over the items of `MCPeginInput`, with an 8-bit `CAmount` and `MAX_MONEY` = 3 | 438 |
| surjection_error | `MCVerifyAmounts_surjerror.cfg` | The structure family | violation |
| fees | `MCFeesCoinbase.cfg` | A fee-paying transaction of up to three outputs: fees of -1, 0, 2, 3 and 4 in asset A and 2 in B, plus non-fee outputs. A coinbase of up to two outputs: explicit 0, 1, 3 or 4, spendable or not, or with a committed field. Zero or one output witness, null or not. | 44,608 |
| discount | `MCDiscountedSize.cfg` | Up to three outputs: fee, explicit, half or fully confidential. Witness entries of size 0-2 for each output, or none at all. | 91,496 |
| coinbase_wrap | `MCFeesCoinbase_wrap.cfg` | No fees and a coinbase of up to five outputs of 3 in asset A | violation |

Every run lets the mode be inline or queued and lets the witness vectors be
shorter than the input and output vectors. Every action and every disjunct of
`Next` fires across the passing runs. All of these cases are reached:

- an initial issuance with both pseudo-inputs accepted in queue mode;
- an accepted reissuance;
- acceptances and rejections of every kind.

Why the bounds are enough:

- Each early return depends on one input or output at a time. The structure run covers each with every field kind.
- The balance and the surjection target list need two contributions of two assets, and the transfer run has them.
- A pseudo-input order matters only with at least two pseudo-inputs on an input. The reserve is exceeded, if ever, only with both issuance pseudo-inputs and more outputs than inputs. The issuance run covers both.
- `MaxMoney` = 2 keeps a value above it (3) and the boundary values 0 and 1 in range.
- For fees, two fee outputs of one asset are enough to exceed `MAX_MONEY` (2 + 2). A third output exercises a non-fee output between fees.
- For the header, a field left out of a layout shows as two headers that differ in that field alone. Two values per field and one-field edits reach every such pair in every layout. Entries `f1`-`f4` differ from `f1` in the extension space, the fedpeg script and the signblockscript, which are the leaves of both trees.
- For chain types, every name the code knows, the one it maps to `CUSTOM` by a different path (`"custom"`), and unknown names of the kinds users type.
- For peg-ins, lengths 7, 8 and 9 sit on both sides of the 8-byte read, and 32 and 33 on both sides of the asset's assertion. The amount words cover 0, 1, `MAX_MONEY`, one above it and the sign bit. Witnesses of 0-3 items sit below the size guard.
- For the discount, each output contributes independently. Three outputs cover every mix, and a witness-less transaction covers the out-of-bounds read.

Fairness. No run checks a liveness property. Every loop of `VerifyAmounts`, of the fee functions and of the discount is a bounded `for` loop, so termination under weak fairness would hold whatever the code did in the loop bodies, and a non-terminating loop is not a bug these loops can have. The caller stops once it has its verdict, so a terminal state is not a deadlock. The cfgs say `CHECK_DEADLOCK FALSE` for that reason. The pegin run models one call, which ends after the tally or at an exception, so it says the same.

Each property has a mutant (listed in `PROJECT.json`). The mutant replaces a mapped definition by a plausible bug, and TLC finds the property violated under the run's cfg:

- `NextInputPastEnd`: the input loop runs one index too far.
- `InputValueCommitsAllowsZero`: an explicit zero input is accepted.
- `RunCheckUnbound`: the range check ignores what a proof is bound to.
- `VerifyIssuanceAmountAllowsZero`: an issuance of zero units is accepted.
- `InitReserveWithoutIssuances`: `vData` is reserved for the inputs and outputs only, without the issuance pseudo-inputs. `vData` then moves, and the balance check reads freed storage.
- `VerifyBalanceCopiesStorage`: `CBalanceCheck` copies `vData` instead of taking its buffer over. A queued balance check then points into the frame's freed buffer.
- `RangeCheckOfCopy`: the range check points to a copy of the value local to `VerifyAmounts` (a dropped `&` at line 425). A queued range check then reads a dead local.
- `GetHashWholeProof`: the whole `CProof` is hashed, solution included (`HashIdentifiesHeader`).
- `ChainTypeToStringCaseSlip`: `LIQUID1TEST` is named `"liquidv1"` (`MetaFromAgree`). `ChainTypeFromStringMissingBranch`, an if-chain without `"liquidtestnet"`, breaks it too.
- `GetPeginOutputZeroFill`: a short amount item is read zero-filled instead of throwing (`PeginCommittedIffFunded`).
- `TallyInputNoMoneyRange`: the input tally takes an explicit amount without `MoneyRange` (`PeginCommittedIffFunded`).
- `HasValidFeeStepNoRunningCheck`: the fee total is not checked after each add.
- `CoinbaseWitnessesUnchecked`: coinbase output witnesses are ignored.
- `CoinbaseOutputPastEnd`: the coinbase output loop runs one index too far.
- `SizeTSigned`: the weight is a signed integer.
- `DiscountOutputEitherCommitted`: an output with either field committed is discounted.
- `FinishOffByOne`: the division rounds up one too many.

## What is not modelled

- **Curve library.** It is abstracted to its contract (spec section 6). Commitments hide amounts by value, and only honest proofs verify.
- **Proof cache** (`CachingRangeProofChecker` and friends). It is outside the sources. The model verifies proofs directly.
- **Lifetime of the curve context.** The static `CSecp256k1Init` frees the context at exit. Whether the caller stops its worker threads first is decided outside the sources, so this hazard has no property. The transaction's lifetime is modelled (`ReleaseTx`), with the caller's discipline taken from spec section 5.
- **Out-of-bounds addressing.** `&vchSurjectionproof[0]` of an empty proof is below the model's resolution. Parsing an empty proof fails.
- **Peg-in witness validation.** `IsValidPeginWitness` and the code that catches the exception a short amount throws are outside the sources. The model ends the call there. The bytes of the claim script and proof items are carried as opaque values.
- **Simplicity constant data** (`simplicity/schnorr0.c`). These are constant arrays with no operations.
- **Formatting.** `CProof::ToString` and `CBlock::ToString` are left out.
- **Setting the header globals.** The model sets `g_con_blockheightinheader` and `g_signed_blocks` once, before any hash. The code that sets them is outside the sources.
- **Chain type values outside the enum.** The `assert(false)` after the switch of `ChainTypeToString` is reached only by a value cast into `ChainType` from an integer, which no code among the sources does.
- **`g_con_elementsmode` = false.** `VerifyCoinbaseAmount` then accepts a spendable zero output, which spec 4.F does not foresee. The runs fix elements mode.
