----------------------------- MODULE MCMarket -----------------------------
(* Two players, two resources and two prices.  Three bids may be in the    *)
(* market: enough for a bid to be filled in part, in full, across several  *)
(* bids, by its own owner and at a better price than it asked for.  The    *)
(* volatile resource both decays and can be destroyed by the spell, as     *)
(* crystal and ectrolium do; the other one does neither.  The shares of    *)
(* operations are larger than in the game so that both the rounding and    *)
(* the removal of a bid show on small quantities.                          *)
EXTENDS Market, TLC
CONSTANTS alice, bob, mineral, volatile, energy
MCUser     == {alice, bob}
MCResource == {mineral, volatile}
MCGood     == MCResource \cup {energy}
MCPercent  == {50}
Players    == Permutations(MCUser)

TradeStart == (energy :> 2) @@ (mineral :> 0) @@ (volatile :> 1)
TradeTotal == (energy :> 4) @@ (mineral :> 0) @@ (volatile :> 3)
=============================================================================
