\* A transaction paying no fee and a coinbase of five MAX_MONEY outputs of
\* one asset: remaining goes below the 4-bit CAmount and wraps.
CONSTANTS
    A = A
    B = B
    Assets = {A, B}
    MaxMoney <- MCMaxMoney
    IntBits <- MCIntBits
    ElementsMode = TRUE
    FeeTxSizes = {0}
    FeeOutChoices <- MCFeeOutChoices
    CbSizes = {0, 1, 2, 3, 4, 5}
    CbOutChoices <- MCCbMaxOutputs
    CbWitSizes = {0}

INIT Init
NEXT Next

INVARIANT CoinbaseVerdictMatchesSpec

\* Block validation stops once it has the coinbase's verdict.
CHECK_DEADLOCK FALSE
