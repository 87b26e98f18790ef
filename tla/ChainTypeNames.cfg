\* The seven names ChainTypeFromString knows, "custom", and four names it
\* does not: an Elements custom chain, Bitcoin's old testnet name, a
\* capitalised name and the empty string.
CONSTANTS
    ChainNames = {"main", "test", "signet", "regtest", "liquidv1",
                  "liquidv1test", "liquidtestnet", "custom",
                  "elementsregtest", "testnet", "Main", ""}

INIT Init
NEXT Next

INVARIANT MetaFromAgree
