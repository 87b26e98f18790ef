\* One input carrying an issuance or a reissuance, up to three outputs.
CONSTANTS
    A = A
    B = B
    o1 = o1
    c1 = c1
    b1 = b1
    BaseAssets = {A, B}
    Outpoints = {o1}
    Contracts = {c1}
    Blinds = {b1}
    MaxMoney <- MCMaxMoney
    NumIns = {1}
    NumOuts = {2, 3}
    TxInChoices <- IssuanceIns
    PrevoutChoices <- IssuancePrevouts
    OutputChoices <- IssuanceOutputs
    ProofKinds = {"empty", "good"}

INIT Init
NEXT Next

INVARIANT VerdictMatchesSpec
INVARIANT CheckPointersValid

\* A call of VerifyAmounts returns and the caller stops once it has its verdict.
CHECK_DEADLOCK FALSE
