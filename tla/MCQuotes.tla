------------------------------ MODULE MCQuotes ------------------------------
(* QuoteManager on two levels of one side. *)
EXTENDS Quotes

\* Two levels, one level nearer the touch, and one away from it.
MCLadders == { <<2, 1>>, <<3>> }

\* ... and no quote at all.
MCLaddersAndNone == { <<2>>, <<>> }
=============================================================================
