\* Up to three outputs of every kind, witness entries of three sizes, or no
\* output witnesses at all.
CONSTANTS
    W <- MCW
    SizeBits <- MCSizeBits
    BaseSizes = {1, 2}
    InWitSizes = {0, 1}
    NumOuts = {0, 1, 2, 3}
    OutChoices <- MCOutChoices
    OutWitSizes = {0, 1, 2}
    GarbageSizes <- MCGarbageSizes

INIT Init
NEXT Next

INVARIANT TypeOK
INVARIANT DiscountMatchesSpec

\* The function returns or aborts; nothing runs after it.
CHECK_DEADLOCK FALSE
