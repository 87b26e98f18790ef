---------------------------- MODULE VerifyAmounts ----------------------------
(***************************************************************************)
(* VerifyAmounts (src/confidential_validation.cpp:144-491) with its check  *)
(* tasks (54-77), the dispatcher QueueCheck (80-89) and                   *)
(* VerifyIssuanceAmount (92-133), for one transaction, with or without a   *)
(* check queue, followed by the caller draining the queue.                 *)
(*                                                                         *)
(* One step is one loop iteration of the code (the input loop is split at  *)
(* its issuance part).  The transaction is an input of the call: the       *)
(* issuances, which GetNumIssuances reads before the walk, and the sizes   *)
(* of the vectors are fixed in Init; every other field is chosen, from the *)
(* sets the model run enumerates, by the step that first reads it.         *)
(***************************************************************************)
EXTENDS AmountsValidity, TLC

CONSTANTS
    NumIns,          \* the values tx.vin.size() may take
    NumOuts,         \* the values tx.vout.size() may take
    TxInChoices,     \* the [prevout, issuance] records tx.vin[i] may hold
    PrevoutChoices,  \* the [asset, value] records inputs[i] may hold
    OutputChoices,   \* the [asset, value, nonce, script] records tx.vout[i] may hold
    ProofKinds       \* the proof kinds witnesses may carry: "empty", "bad", "good"

VARIABLES
    mode,       \* "inline": checks == NULL; "queue": a queue is supplied
    nIn, nOut,  \* tx.vin.size(), tx.vout.size()
    inWitLen,   \* tx.witness.vtxinwit.size()
    outWitLen,  \* tx.witness.vtxoutwit.size()
    txin,       \* tx.vin
    txLive,     \* the caller still holds the transaction and its witness
    vdata,      \* vData: the buffer it holds and its capacity
    live,       \* the buffers allocated and not yet freed
    prevouts,   \* the spent outputs read so far
    inwit,      \* the input witnesses read so far
    vout,       \* the outputs read so far
    outwit,     \* the output witnesses read so far
    pc,         \* the loop VerifyAmounts is in, or "done" once it returned
    i,          \* the loop index
    ids,        \* assetID and assetTokenID of the current input's issuance
    lhs,        \* vpCommitsIn (the commitments they point to in vData)
    rhs,        \* vpCommitsOut
    targets,    \* target_generators
    queue,      \* *checks: the checks passed to the caller
    result,     \* the value VerifyAmounts returned
    drained     \* the caller's outcome for each queued check, once returned

txVars   == <<mode, nIn, nOut, inWitLen, outWitLen, txin, txLive>>
memVars  == <<vdata, live>>
readVars == <<prevouts, inwit, vout, outwit>>
walkVars == <<pc, i, ids, lhs, rhs, targets, queue, result, drained>>
vars     == <<txVars, memVars, readVars, walkVars>>

-----------------------------------------------------------------------------
(* The storage of vData.  A buffer is named by the order it was allocated *)
(* in; 0 is no buffer (an empty vector).  p = vData.data() is taken right *)
(* after the reserve of line 155 and only ever incremented, so every      *)
(* pointer in vpCommitsIn and vpCommitsOut points into the buffer that    *)
(* reserve allocated, whichever buffer vData holds later.                 *)
NoBuffer == [buf |-> 0, cap |-> 0]
ReserveBuffer == 1

(* vData.push_back(commit) and vpCommits.push_back(p++): at capacity the  *)
(* vector moves to a buffer twice as large and frees the one it had.      *)
PushCommit ==
    IF Len(lhs) + Len(rhs) < vdata.cap
    THEN UNCHANGED memVars
    ELSE /\ vdata' = [buf |-> vdata.buf + 1, cap |-> Max({1, 2 * vdata.cap})]
         /\ live' = (live \ {vdata.buf}) \cup {vdata.buf + 1}

(* VerifyAmounts returns: the destructor of vData frees what it holds.     *)
FreeFrame == vdata' = NoBuffer /\ live' = live \ {vdata.buf}

(* Whether what a range check's val points to still exists: "tx" is the  *)
(* caller's transaction; "copy" a local of VerifyAmounts, gone once an    *)
(* iteration, and at the latest the call, has ended.  Inline checks run   *)
(* within the iteration, queued ones only after the return.               *)
Alive(at) == IF at = "tx" THEN txLive ELSE pc # "done"

-----------------------------------------------------------------------------
(* Check tasks, confidential_validation.cpp:54-77.                        *)

(* Mutant: val bound to a copy of the output's value (a dropped & at     *)
(* line 425 or in VerifyIssuanceAmount's parameter).                      *)
RangeCheckOfCopy(val, proof, assetCommitment, script) ==
    [kind |-> "range", val |-> val, proof |-> proof, at |-> "copy",
     assetCommitment |-> assetCommitment, script |-> script]

(* CRangeCheck keeps &val and the range proof by reference: both point    *)
(* into the transaction (at); the asset commitment and script are copied. *)
RangeCheck(val, proof, assetCommitment, script) ==
    [kind |-> "range", val |-> val, proof |-> proof, at |-> "tx",
     assetCommitment |-> assetCommitment, script |-> script]

(* A balance check reads its commitments through vpCommitsIn and         *)
(* vpCommitsOut, which point into the reserved buffer (target).           *)
BalanceCheck(ins, outs) ==
    [kind |-> "balance", ins |-> ins, outs |-> outs, target |-> ReserveBuffer]

SurjectionCheck(proof, tags, gen) ==
    [kind |-> "surjection", proof |-> proof, tags |-> tags, gen |-> gen]

(* CCheck's constructor leaves error at SCRIPT_ERR_UNKNOWN_ERROR.         *)
CheckDefaultError == "UNKNOWN_ERROR"

(* The error a failing check of each kind sets.                           *)
CheckSetsError == [range |-> "RANGEPROOF", balance |-> "PEDERSEN_TALLY",
            surjection |-> CheckDefaultError]

(* Mutant: the range check accepts any proof a prover made, whatever it   *)
(* is bound to.                                                           *)
RunCheckUnbound(c) ==
    CASE c.kind = "range" ->
           LET ok == c.proof.kind = "good"
           IN  [ok |-> ok, error |-> IF ok THEN CheckDefaultError ELSE "RANGEPROOF"]
      [] c.kind = "balance" ->
           LET ok == PedersenVerifyTally(c.ins, c.outs)
           IN  [ok |-> ok, error |-> IF ok THEN CheckDefaultError ELSE "PEDERSEN_TALLY"]
      [] c.kind = "surjection" ->
           [ok |-> SurjectionProofVerifies(c.proof, c.tags, c.gen),
            error |-> CheckDefaultError]

(* operator()() of each check: whether it passes, and the error           *)
(* GetScriptError() reports afterwards.  CRangeCheck and CBalanceCheck    *)
(* set error when they fail; CSurjectionCheck never sets it.              *)
RunCheck(c) ==
    CASE c.kind = "range" ->
           LET ok == RangeProofVerifies(c.proof, c.val, c.assetCommitment, c.script)
           IN  [ok |-> ok, error |-> IF ok THEN CheckDefaultError ELSE "RANGEPROOF"]
      [] c.kind = "balance" ->
           LET ok == PedersenVerifyTally(c.ins, c.outs)
           IN  [ok |-> ok, error |-> IF ok THEN CheckDefaultError ELSE "PEDERSEN_TALLY"]
      [] c.kind = "surjection" ->
           [ok |-> SurjectionProofVerifies(c.proof, c.tags, c.gen),
            error |-> CheckDefaultError]

(* What running a check may yield.  A check whose pointers lead into     *)
(* freed storage reads whatever is there (undefined behaviour): it may    *)
(* pass or fail.                                                          *)
Dangling(c) ==
    \/ c.kind = "balance" /\ c.target \notin live
    \/ c.kind = "range" /\ ~Alive(c.at)

RunOutcomes(c) ==
    IF Dangling(c)
    THEN {[ok |-> TRUE, error |-> CheckDefaultError], [ok |-> FALSE, error |-> CheckSetsError[c.kind]]}
    ELSE {RunCheck(c)}

(* QueueCheck, with r the outcome of running c: with a queue the check is *)
(* appended and SCRIPT_ERR_OK returned; without one it is run and its     *)
(* error returned if it fails.                                            *)
Dispatch(c, r) ==
    IF mode = "queue"
    THEN [err |-> "OK", queue |-> Append(queue, c)]
    ELSE [err |-> IF r.ok THEN "OK" ELSE r.error, queue |-> queue]

QueueCheck(c) == Dispatch(c, RunCheck(c))

(* Mutant: an explicit issuance of zero units is not refused.            *)
VerifyIssuanceAmountAllowsZero(asset, value, rangeproof) ==
    LET gen == GenerateGen(asset)
        d   == QueueCheck(RangeCheck(value, rangeproof, SerializeGen(gen), EmptyScript))
    IN
    CASE IsExplicit(value) ->
           [ok |-> MoneyRange(value.amt) /\ rangeproof.kind = "empty",
            commit |-> PedersenCommit(value.amt, gen), gen |-> gen, queue |-> queue]
      [] IsCommitment(value) ->
           [ok |-> d.err = "OK" /\ value.tag = "commit",
            commit |-> IF value.tag = "commit" THEN PedersenCommit(value.amt, gen) ELSE <<>>,
            gen |-> gen, queue |-> d.queue]
      [] OTHER ->
           [ok |-> FALSE, commit |-> <<>>, gen |-> gen, queue |-> queue]

(* VerifyIssuanceAmount, lines 92-133: the commitment and generator of an *)
(* issuance pseudo-input, whether it is acceptable, and the queue after   *)
(* the range check it may dispatch.                                       *)
VerifyIssuanceAmount(asset, value, rangeproof) ==
    LET gen == GenerateGen(asset)
        d   == QueueCheck(RangeCheck(value, rangeproof, SerializeGen(gen), EmptyScript))
    IN
    CASE IsExplicit(value) ->
           [ok |-> MoneyRange(value.amt) /\ value.amt # 0 /\ rangeproof.kind = "empty",
            commit |-> PedersenCommit(value.amt, gen), gen |-> gen, queue |-> queue]
      [] IsCommitment(value) ->
           [ok |-> d.err = "OK" /\ value.tag = "commit",
            commit |-> IF value.tag = "commit" THEN PedersenCommit(value.amt, gen) ELSE <<>>,
            gen |-> gen, queue |-> d.queue]
      [] OTHER ->
           [ok |-> FALSE, commit |-> <<>>, gen |-> gen, queue |-> queue]

-----------------------------------------------------------------------------
(* Helpers of the walk.                                                   *)

(* The generator of an asset field parses: explicit ids always generate   *)
(* one (asserted); commitments parse unless not a point; null and invalid *)
(* fields fall to the else branch and are rejected.                       *)
GeneratorParses(f) == f.tag \in {"explicit", "commit"}

(* Mutant: an explicit zero input value is taken as a commitment.         *)
InputValueCommitsAllowsZero(v) ==
    \/ IsExplicit(v) /\ MoneyRange(v.amt)
    \/ v.tag = "commit"

(* An input value yields a commitment: explicit in MoneyRange and not     *)
(* zero (secp256k1_pedersen_commit fails on zero with zero blinds), or a  *)
(* commitment that parses.                                                *)
InputValueCommits(v) ==
    \/ IsExplicit(v) /\ MoneyRange(v.amt) /\ v.amt # 0
    \/ v.tag = "commit"

Return(b) ==
    /\ FreeFrame
    /\ pc' = "done"
    /\ result' = b
    /\ drained' = IF b THEN [k \in DOMAIN queue' |-> "pending"] ELSE <<>>

Reject == Return(FALSE) /\ UNCHANGED <<i, ids, lhs, rhs, targets>>

(* Mutant: the input loop runs one index past tx.vin.size().             *)
NextInputPastEnd ==
    IF i <= nIn THEN pc' = "input" /\ i' = i + 1
                ELSE pc' = "output" /\ i' = 1

(* The end of an input iteration: the next input, or the output loop.     *)
NextInput ==
    IF i < nIn THEN pc' = "input" /\ i' = i + 1
               ELSE pc' = "output" /\ i' = 1

-----------------------------------------------------------------------------
(* Mutant: vData reserved for the inputs and outputs only.               *)
InitReserveWithoutIssuances ==
    /\ mode \in {"inline", "queue"}
    /\ nIn \in NumIns
    /\ nOut \in NumOuts
    /\ inWitLen \in 0..nIn
    /\ outWitLen \in 0..nOut
    /\ txin \in [1..nIn -> TxInChoices]
    /\ txLive = TRUE
    /\ vdata = [buf |-> ReserveBuffer, cap |-> nIn + nOut]
    /\ live = {ReserveBuffer}
    /\ prevouts = <<>> /\ inwit = <<>> /\ vout = <<>> /\ outwit = <<>>
    /\ pc = "input" /\ i = 1
    /\ ids = [asset |-> <<>>, token |-> <<>>]
    /\ lhs = <<>> /\ rhs = <<>> /\ targets = <<>> /\ queue = <<>>
    /\ result = FALSE /\ drained = <<>>

(* Lines 144-171: the call's transaction, and vData reserved for          *)
(* vin + vout + GetNumIssuances(tx) commitments.                          *)
Init ==
    /\ mode \in {"inline", "queue"}
    /\ nIn \in NumIns
    /\ nOut \in NumOuts
    /\ inWitLen \in 0..nIn
    /\ outWitLen \in 0..nOut
    /\ txin \in [1..nIn -> TxInChoices]
    /\ txLive = TRUE
    /\ vdata = [buf |-> ReserveBuffer, cap |-> nIn + nOut + GetNumIssuances(txin)]
    /\ live = {ReserveBuffer}
    /\ prevouts = <<>> /\ inwit = <<>> /\ vout = <<>> /\ outwit = <<>>
    /\ pc = "input" /\ i = 1
    /\ ids = [asset |-> <<>>, token |-> <<>>]
    /\ lhs = <<>> /\ rhs = <<>> /\ targets = <<>> /\ queue = <<>>
    /\ result = FALSE /\ drained = <<>>

(* Lines 173-238: the spent output's generator and value commitment.      *)
VerifyInput ==
    /\ pc = "input"
    /\ \E p \in PrevoutChoices :
        /\ prevouts' = Append(prevouts, p)
        /\ \/ /\ ~(GeneratorParses(p.asset) /\ ~IsNull(p.value)
                   /\ InputValueCommits(p.value))
              /\ Reject /\ UNCHANGED queue
           \/ /\ GeneratorParses(p.asset) /\ ~IsNull(p.value)
              /\ InputValueCommits(p.value)
              /\ targets' = Append(targets, GenOf(p.asset))
              /\ lhs' = Append(lhs, PedersenCommit(p.value.amt, GenOf(p.asset)))
              /\ PushCommit
              /\ IF IssuanceIsNull(txin[i].issuance)
                 THEN NextInput
                 ELSE pc' = "issuance" /\ UNCHANGED i
              /\ UNCHANGED <<ids, rhs, queue, result, drained>>
    /\ UNCHANGED <<txVars, inwit, vout, outwit>>

(* Lines 240-280: the issued asset and token ids; a reissuance must spend *)
(* the token blinded by assetBlindingNonce, compared byte for byte.       *)
DeriveIssuance ==
    /\ pc = "issuance"
    /\ LET t   == txin[i]
           iss == t.issuance
           Wits == IF i > inWitLen THEN {NoInWitness}
                   ELSE {[present |-> TRUE, amountRP |-> a, keysRP |-> b] :
                           a \in IssuanceRangeProofs(iss.amount, IssuanceAssetID(t), ProofKinds),
                           b \in IssuanceRangeProofs(iss.keys, IssuanceTokenID(t), ProofKinds)}
       IN
       /\ \E wit \in Wits : inwit' = inwit @@ (i :> wit)
       /\ ids' = [asset |-> IssuanceAssetID(t), token |-> IssuanceTokenID(t)]
       /\ \/ /\ iss.nonce # NullNonce
             /\ VchCommitment(prevouts[i].asset)
                  # SerializeGen(GenerateBlinded(IssuanceTokenID(t), iss.nonce))
             /\ Return(FALSE) /\ UNCHANGED <<i, lhs, rhs, targets>>
          \/ /\ iss.nonce # NullNonce =>
                  VchCommitment(prevouts[i].asset)
                    = SerializeGen(GenerateBlinded(IssuanceTokenID(t), iss.nonce))
             /\ pc' = "amount"
             /\ UNCHANGED <<memVars, i, lhs, rhs, targets, result, drained>>
    /\ UNCHANGED <<txVars, prevouts, vout, outwit, queue>>

(* Lines 282-305: the pseudo-input of the newly issued units.             *)
IssueAmount ==
    /\ pc = "amount"
    /\ LET f == txin[i].issuance.amount
           r == VerifyIssuanceAmount(ids.asset, f, inwit[i].amountRP)
       IN
       \/ /\ ~IsValid(f) \/ (~IsNull(f) /\ ~inwit[i].present)
          /\ Reject /\ UNCHANGED queue
       \/ /\ IsValid(f) /\ IsNull(f)
          /\ pc' = "keys"
          /\ UNCHANGED <<memVars, i, lhs, targets, queue, result, drained>>
       \/ /\ IsValid(f) /\ ~IsNull(f) /\ inwit[i].present
          /\ queue' = r.queue
          /\ IF r.ok
             THEN /\ targets' = Append(targets, r.gen)
                  /\ lhs' = Append(lhs, r.commit)
                  /\ PushCommit
                  /\ pc' = "keys"
                  /\ UNCHANGED <<i, result, drained>>
             ELSE Reject
    /\ UNCHANGED <<txVars, readVars, ids, rhs>>

(* Lines 307-337: the pseudo-input of new reissuance tokens, which only   *)
(* an initial issuance may create.                                        *)
IssueKeys ==
    /\ pc = "keys"
    /\ LET f   == txin[i].issuance.keys
           r   == VerifyIssuanceAmount(ids.token, f, inwit[i].keysRP)
       IN
       \/ /\ \/ ~IsValid(f)
             \/ ~IsNull(f) /\ txin[i].issuance.nonce # NullNonce
             \/ ~IsNull(f) /\ ~inwit[i].present
          /\ Reject /\ UNCHANGED queue
       \/ /\ IsValid(f) /\ IsNull(f)
          /\ NextInput
          /\ UNCHANGED <<memVars, lhs, targets, queue, result, drained>>
       \/ /\ IsValid(f) /\ ~IsNull(f)
          /\ txin[i].issuance.nonce = NullNonce /\ inwit[i].present
          /\ queue' = r.queue
          /\ IF r.ok
             THEN /\ targets' = Append(targets, r.gen)
                  /\ lhs' = Append(lhs, r.commit)
                  /\ PushCommit
                  /\ NextInput
                  /\ UNCHANGED <<result, drained>>
             ELSE Reject
    /\ UNCHANGED <<txVars, readVars, ids, rhs>>

(* Lines 339-412: an output's generator and value commitment; an explicit *)
(* zero output is skipped if its script is unspendable.                   *)
VerifyOutput ==
    /\ pc = "output"
    /\ \E o \in OutputChoices :
        LET v == o.value
            ok == /\ IsValid(o.asset) /\ IsValid(v) /\ NonceIsValid(o.nonce)
                  /\ GeneratorParses(o.asset)
                  /\ \/ IsExplicit(v) /\ MoneyRange(v.amt)
                        /\ (v.amt = 0 => IsUnspendable(o.script))
                     \/ v.tag = "commit"
            skip == IsExplicit(v) /\ v.amt = 0
        IN
        /\ vout' = Append(vout, o)
        /\ \/ ~ok /\ Reject
           \/ /\ ok
              /\ IF skip THEN UNCHANGED <<rhs, memVars>>
                 ELSE rhs' = Append(rhs, PedersenCommit(v.amt, GenOf(o.asset))) /\ PushCommit
              /\ IF i < nOut THEN pc' = "output" /\ i' = i + 1
                             ELSE pc' = "balance" /\ i' = 1
              /\ UNCHANGED <<ids, lhs, targets, result, drained>>
    /\ UNCHANGED <<txVars, prevouts, inwit, outwit, queue>>

(* Mutant: CBalanceCheck copies vData instead of taking its buffer over. *)
VerifyBalanceCopiesStorage ==
    /\ pc = "balance"
    /\ LET c == BalanceCheck(lhs, rhs) IN
       \E r \in RunOutcomes(c) :
         LET d == Dispatch(c, r) IN
         /\ queue' = d.queue
         /\ IF d.err = "OK"
            THEN pc' = "range" /\ UNCHANGED <<memVars, result, drained>>
            ELSE Return(FALSE)
    /\ UNCHANGED <<txVars, readVars, i, ids, lhs, rhs, targets>>

(* Lines 414-421: the balance check over vpCommitsIn and vpCommitsOut.    *)
(* CBalanceCheck swaps vData and the pointer vectors into itself: queued, *)
(* it owns the buffer; run inline, it frees the buffer when deleted.      *)
VerifyBalance ==
    /\ pc = "balance"
    /\ LET c == BalanceCheck(lhs, rhs) IN
       \E r \in RunOutcomes(c) :
         LET d == Dispatch(c, r) IN
         /\ queue' = d.queue
         /\ IF d.err = "OK"
            THEN /\ pc' = "range"
                 /\ vdata' = NoBuffer
                 /\ live' = IF mode = "inline" THEN live \ {vdata.buf} ELSE live
                 /\ UNCHANGED <<result, drained>>
            ELSE Return(FALSE)
    /\ UNCHANGED <<txVars, readVars, i, ids, lhs, rhs, targets>>

(* Lines 423-451: the range proof of output i.  Its witness is read here  *)
(* first; an explicit amount must not carry a range proof.                *)
VerifyRange ==
    /\ pc = "range"
    /\ LET o == vout[i]
           Wits == IF i > outWitLen THEN {NoOutWitness}
                   ELSE {[present |-> TRUE, rangeproof |-> rp, surjectionproof |-> sp] :
                           rp \in OutputRangeProofs(o, ProofKinds),
                           sp \in OutputSurjectionProofs(o, CanonicalTargets(txin, prevouts),
                                                         ProofKinds)}
           Next1 == IF i < nOut THEN i' = i + 1 /\ UNCHANGED pc
                                ELSE pc' = "surjection" /\ i' = 1
       IN
       \E w \in Wits :
         /\ outwit' = outwit @@ (i :> w)
         /\ \/ /\ IsExplicit(o.value)
               /\ w.present /\ w.rangeproof.kind # "empty"
               /\ Reject /\ UNCHANGED queue
            \/ /\ IsExplicit(o.value)
               /\ ~(w.present /\ w.rangeproof.kind # "empty")
               /\ Next1 /\ UNCHANGED <<memVars, queue, result, drained>>
            \/ /\ ~IsExplicit(o.value) /\ ~w.present
               /\ Reject /\ UNCHANGED queue
            \/ /\ ~IsExplicit(o.value) /\ w.present
               /\ LET d == QueueCheck(RangeCheck(o.value, w.rangeproof,
                                                 AssetCommitmentBytes(o.asset), o.script))
                  IN /\ queue' = d.queue
                     /\ IF d.err = "OK" THEN Next1 /\ UNCHANGED <<memVars, result, drained>>
                                        ELSE Return(FALSE) /\ UNCHANGED i
    /\ UNCHANGED <<txVars, prevouts, inwit, vout, ids, lhs, rhs, targets>>

(* Lines 453-490: the surjection proof of output i against the whole of  *)
(* target_generators; after the last output VerifyAmounts returns true.  *)
VerifySurjection ==
    /\ pc = "surjection"
    /\ LET o == vout[i]
           w == outwit[i]
           Next1 == IF i < nOut THEN i' = i + 1 /\ UNCHANGED <<memVars, pc, result, drained>>
                                ELSE Return(TRUE) /\ UNCHANGED i
       IN
       \/ /\ IsExplicit(o.asset)
          /\ w.present /\ w.surjectionproof.kind # "empty"
          /\ Reject /\ UNCHANGED queue
       \/ /\ IsExplicit(o.asset)
          /\ ~(w.present /\ w.surjectionproof.kind # "empty")
          /\ UNCHANGED queue /\ Next1
       \/ /\ ~IsExplicit(o.asset)
          /\ \/ ~w.present
             \/ ~GeneratorParses(o.asset)
             \/ ~SurjectionProofParses(w.surjectionproof)
          /\ Reject /\ UNCHANGED queue
       \/ /\ ~IsExplicit(o.asset) /\ w.present /\ GeneratorParses(o.asset)
          /\ SurjectionProofParses(w.surjectionproof)
          /\ LET d == QueueCheck(SurjectionCheck(w.surjectionproof, targets, o.asset.gen))
             IN /\ queue' = d.queue
                /\ IF d.err = "OK" THEN Next1 ELSE Return(FALSE) /\ UNCHANGED i
    /\ UNCHANGED <<txVars, readVars, ids, lhs, rhs, targets>>

(* The caller runs the queued checks, in any order, and stops at the      *)
(* first that fails (spec section 5).                                     *)
Failed == \E k \in DOMAIN drained : drained[k] \notin {"pending", "OK"}

RunQueuedCheck ==
    /\ pc = "done" /\ result /\ ~Failed
    /\ \E k \in DOMAIN drained :
        /\ drained[k] = "pending"
        /\ \E r \in RunOutcomes(queue[k]) :
             drained' = [drained EXCEPT ![k] = IF r.ok THEN "OK" ELSE r.error]
    /\ UNCHANGED <<txVars, memVars, readVars, pc, i, ids, lhs, rhs, targets, queue, result>>

(* The enclosing batch frees the transaction once it has the verdict:    *)
(* the call rejected, a queued check failed (the rest are dropped), or    *)
(* all have run (spec section 5: captured data must outlive the queue).   *)
ReleaseTx ==
    /\ pc = "done" /\ txLive
    /\ ~result \/ Failed \/ \A k \in DOMAIN drained : drained[k] # "pending"
    /\ txLive' = FALSE
    /\ UNCHANGED <<mode, nIn, nOut, inWitLen, outWitLen, txin, memVars, readVars, walkVars>>

Next ==
    \/ VerifyInput \/ DeriveIssuance \/ IssueAmount \/ IssueKeys
    \/ VerifyOutput \/ VerifyBalance \/ VerifyRange \/ VerifySurjection
    \/ RunQueuedCheck \/ ReleaseTx

Spec == Init /\ [][Next]_vars

-----------------------------------------------------------------------------
(* The verdict, once the call has returned and the caller has run the     *)
(* queue as far as it needs to.                                           *)
Decided ==
    /\ pc = "done"
    /\ ~result \/ Failed \/ \A k \in DOMAIN drained : drained[k] # "pending"

Verdict == result /\ \A k \in DOMAIN drained : drained[k] = "OK"

-----------------------------------------------------------------------------
(* Properties.                                                            *)

ScriptErrors == {"OK", "UNKNOWN_ERROR", "RANGEPROOF", "PEDERSEN_TALLY", "SURJECTIONPROOF"}

TypeOK ==
    /\ mode \in {"inline", "queue"}
    /\ nIn \in NumIns /\ nOut \in NumOuts
    /\ txin \in [1..nIn -> TxInChoices]
    /\ pc \in {"input", "issuance", "amount", "keys", "output", "balance",
              "range", "surjection", "done"}
    /\ i \in 1..Max({nIn, nOut})
    /\ Len(prevouts) <= nIn /\ Len(vout) <= nOut
    /\ DOMAIN inwit \subseteq 1..nIn /\ DOMAIN outwit \subseteq 1..nOut
    /\ \A k \in DOMAIN queue : queue[k].kind \in {"range", "balance", "surjection"}
    /\ mode = "inline" => queue = <<>>
    /\ result \in BOOLEAN /\ txLive \in BOOLEAN
    /\ \A k \in DOMAIN drained : drained[k] \in ScriptErrors \cup {"pending"}

(* Whether called with a check queue or without, once VerifyAmounts has   *)
(* returned and the caller has run what it queued, a transaction is       *)
(* accepted exactly when it is valid (spec 3, 4.E): every early return of *)
(* the input, output, range and surjection loops rejects a defect, and    *)
(* no defect - unbalanced amounts, a proof bound to the wrong data, a     *)
(* pseudo-input missing or out of order - survives the checks.            *)
VerdictMatchesSpec ==
    Decided =>
        /\ Verdict = ValidRead(nIn, nOut, txin, prevouts, inwit, vout, outwit)
        /\ Verdict => AllRead(nIn, nOut, prevouts, vout, outwit)

(* Whether a queued check is still to run: the walk has not returned, or *)
(* it returned true and the caller, with no check failed, has not run it. *)
WillRun(k) ==
    \/ pc # "done"
    \/ k \in DOMAIN drained /\ drained[k] = "pending" /\ ~Failed

(* Every pointer a check holds leads into live storage when it may still  *)
(* be followed.  vpCommitsIn and vpCommitsOut, taken from vData.data()    *)
(* after the reserve of line 155, are live when the balance check is      *)
(* built (line 416) and while a queued one is still to run: the walk      *)
(* pushes no more commitments than GetNumIssuances let the reserve make   *)
(* room for, so vData never moves, and the check takes the buffer over    *)
(* before VerifyAmounts' frame, and with it vData, is destroyed.  The val *)
(* and range proof a CRangeCheck points to (lines 121, 446) are the       *)
(* transaction's own, which the batch holds until the checks are done.    *)
CheckPointersValid ==
    /\ pc = "balance" => ReserveBuffer \in live
    /\ \A k \in DOMAIN queue :
          WillRun(k) =>
            /\ queue[k].kind = "balance" => queue[k].target \in live
            /\ queue[k].kind = "range" => Alive(queue[k].at)

(* A queued check that fails reports the error of its kind (spec 7:      *)
(* RANGEPROOF, PEDERSEN_TALLY, SURJECTIONPROOF) to the caller that drains *)
(* the queue and reads GetScriptError().                                  *)
KindError == [range |-> "RANGEPROOF", balance |-> "PEDERSEN_TALLY",
              surjection |-> "SURJECTIONPROOF"]

FailedCheckReportsItsKind ==
    \A k \in DOMAIN drained :
        drained[k] \notin {"pending", "OK"} => drained[k] = KindError[queue[k].kind]

=============================================================================
