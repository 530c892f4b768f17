SPECIFICATION Spec
CONSTANTS
    m1 = m1  m2 = m2
    f1 = f1  f2 = f2  f3 = f3  f4 = f4
    NoFill = NoFill
    Market = {m1, m2}
    Fill = {f1, f2, f3, f4}
    Bought = {f1, f2, f4}
    MarketOf <- MCMarketOf
    Size <- MCSize
    c1 = c1 c2 = c2 c3 = c3
    Call = {c1, c2, c3}
    Threshold = 500
    MaxTime = 2
SYMMETRY CallSymmetry
CHECK_DEADLOCK FALSE
INVARIANTS
    TypeOK
    FillAndSnapshotTogether
    NeverOvercounted
    ExactUnlessRaced
    HedgesWereFilled
