-------------------------- MODULE MarketCooldownMC --------------------------
(* One market with its two outcomes. *)
EXTENDS MarketCooldown

CONSTANTS m1, yes, no

MCMarkets  == {m1}
MCTokens   == {yes, no}
MCMarketOf == [t \in MCTokens |-> m1]

=============================================================================
