--------------------------- MODULE MCMarketFile ---------------------------
(* The market file with two levels and four slots: enough for a bid to be  *)
(* first, last, in the middle or alone in its level, and for the free list *)
(* to hold several slots freed in any order.                               *)
EXTENDS MarketFile
CONSTANTS buyLow, sellLow, alice
MCLevel == {buyLow, sellLow}
MCUser  == {alice}
=============================================================================
