CONSTANTS
    k1 = k1
    k2 = k2
    bad = bad
    e1 = e1
    e2 = e2
    e3 = e3
    g1 = g1
    g2 = g2
    Key <- MCKey
    GoodKey <- MCGoodKey
    Addr = {x, y}
    Entry = {e1, e2, e3}
    NoEntry = NoEntry
    Caller = {g1, g2}
    NoCipher = NoCipher
    MaxNonce = 1
SPECIFICATION Spec
SYMMETRY MCSymmetry
INVARIANT CipherInHand
