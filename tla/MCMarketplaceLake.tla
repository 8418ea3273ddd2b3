-------------------------- MODULE MCMarketplaceLake --------------------------
(* Two records of two events, in every class there is, and two Gold tables.  *)
EXTENDS MarketplaceLake

E1 == {[event |-> "e1", class |-> c] : c \in {"good", "rejected", "critical"}}
MCRecord == E1 \cup {[event |-> "e2", class |-> c] : c \in {"malformed", "insane"}}
MCGoldTables == <<"daily_sales", "funnel_metrics">>
=============================================================================
