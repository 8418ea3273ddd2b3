------------------------- MODULE MCMarketplaceKafka -------------------------
(* Instances of MarketplaceKafka: two events, two members, a queue of one.   *)
EXTENDS MarketplaceKafka, TLC

CONSTANTS e1, e2, c1, c2

TwoEvents == <<e1, e2>>
=============================================================================
