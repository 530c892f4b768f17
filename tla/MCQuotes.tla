------------------------------ MODULE MCQuotes ------------------------------
(* Markets in the middle and near both bounds: tighter than the minimum    *)
(* spread, at it, above it, at the maximum and beyond; and one-sided books. *)
(* The microprice is the best bid or lies near the middle of the book.     *)
EXTENDS Quotes, TLC

CONSTANTS q1, q2

QuoteSymmetry == Permutations(Quote)

BA(bid, ask) == [bid |-> bid, ask |-> ask]

MCBook ==
    {BA(NoBid, 10100), BA(10000, 10020), BA(9980, 10120), BA(8000, 12000),
     BA(380, 600), BA(200, 380), BA(19580, 19780)}

MCMid == UNION {{b.bid, (b.bid + b.ask) \div 2 + 1}
                    : b \in MCBook}
=============================================================================
