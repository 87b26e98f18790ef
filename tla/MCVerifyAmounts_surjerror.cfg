\* The structure family, checked for the error a failing queued check reports.
CONSTANTS
    A = A
    B = B
    o1 = o1
    c1 = c1
    b1 = b1
    BaseAssets = {A, B}
    Outpoints = {o1}
    Contracts = {c1}
    Blinds = {b1}
    MaxMoney <- MCMaxMoney
    NumIns = {1}
    NumOuts = {1}
    TxInChoices <- StructIns
    PrevoutChoices <- StructPrevouts
    OutputChoices <- StructOutputs
    ProofKinds = {"empty", "bad", "good"}

INIT Init
NEXT Next

INVARIANT FailedCheckReportsItsKind

\* A call of VerifyAmounts returns and the caller stops once it has its verdict.
CHECK_DEADLOCK FALSE
