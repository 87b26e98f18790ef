\* CAmount of 8 bits with MAX_MONEY 3, so the amounts around 0, MAX_MONEY
\* and the sign bit are all reached.  The model ends after the tally.
CONSTANTS
    a1 = a1
    g1 = g1
    s1 = s1
    tx1 = tx1
    pf1 = pf1
    None = None
    AmountBits = 8
    MaxMoney = 3
    Witnesses <- MCWitnesses

INIT Init
NEXT Next

INVARIANT PeginCommittedIffFunded
CHECK_DEADLOCK FALSE
