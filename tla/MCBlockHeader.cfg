\* Two values of each field, one signer value, nVersion of 2 bits; the
\* globals take all four combinations.
CONSTANTS
    s1 = s1
    s2 = s2
    x1 = x1
    x2 = x2
    l1 = l1
    r0 = r0
    None = None
    VersionBits = 2
    Versions = {0, 1}
    Hashes = {h1, h2}
    Times = {t1, t2}
    Heights = {n1, n2}
    PowFields = {p1, p2}
    Scripts <- MCScripts
    Limits = {l1}
    Extensions <- MCExtensions
    ParamsChoices <- MCParamsChoices
    Solutions = {sol1}
    Witnesses = {wit1}

INIT Init
NEXT Next

PROPERTY HashIdentifiesHeader
