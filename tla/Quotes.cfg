SPECIFICATION Spec
CONSTANTS
    Book <- MCBook
    Mid <- MCMid
    q1 = q1
    q2 = q2
    Quote = {q1, q2}
    Age = {900, 60000}
    Size = 100
    MaxMoves = 1
SYMMETRY QuoteSymmetry
CHECK_DEADLOCK FALSE
INVARIANTS
    TypeOK
    PlacedQuotesHoldTheirSpread
    RejectedQuotesAreExtreme
    OneSidedQuotesShow
PROPERTIES
    QuotesTakeNothing
