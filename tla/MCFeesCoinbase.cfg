\* A fee-paying transaction of up to three outputs and a coinbase of up to two:
\* every rejection of HasValidFee and VerifyCoinbaseAmount, and every sweep
\* that the 4-bit CAmount cannot wrap.
CONSTANTS
    A = A
    B = B
    Assets = {A, B}
    MaxMoney <- MCMaxMoney
    IntBits <- MCIntBits
    ElementsMode = TRUE
    FeeTxSizes = {0, 1, 2, 3}
    FeeOutChoices <- MCFeeOutChoices
    CbSizes = {0, 1, 2}
    CbOutChoices <- MCCbOutChoices
    CbWitSizes = {0, 1}

INIT Init
NEXT Next

INVARIANT TypeOK
INVARIANT FeeAccountingExact
INVARIANT CoinbaseVerdictMatchesSpec

\* Block validation stops once it has the coinbase's verdict.
CHECK_DEADLOCK FALSE
