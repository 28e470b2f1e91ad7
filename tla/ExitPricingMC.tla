---------------------------- MODULE ExitPricingMC ----------------------------
(* Bids for ExitPricing: none, a deep one, and a thin one above a gap; each way *)
(* to take a profit, with a stop or without.                               *)
EXTENDS ExitPricing

MCBidBooks == {<<>>, <<2, 2>>, <<3, 1>>}
MCSettings == {<<"maker", "fixed">>, <<"market", "percent">>, <<"market_always", "off">>}
MakerOnly == {<<"maker", "off">>}

=============================================================================
