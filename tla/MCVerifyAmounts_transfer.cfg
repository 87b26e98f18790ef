\* Two inputs and two outputs of two assets: the amounts, commitments and proofs decide.
CONSTANTS
    A = A
    B = B
    o1 = o1
    c1 = c1
    b1 = b1
    BaseAssets = {A, B}
    Outpoints = {o1}
    Contracts = {c1}
    Blinds = {b1}
    MaxMoney <- MCMaxMoney
    NumIns = {2}
    NumOuts = {2}
    TxInChoices <- StructIns
    PrevoutChoices <- TransferPrevouts
    OutputChoices <- TransferOutputs
    ProofKinds = {"empty", "good"}

INIT Init
NEXT Next

INVARIANT VerdictMatchesSpec

\* A call of VerifyAmounts returns and the caller stops once it has its verdict.
CHECK_DEADLOCK FALSE
