--------------------------- MODULE MCTradePipeline ---------------------------
(***************************************************************************)
(* Instances of TradePipeline for TLC: two proposals of the strategist on  *)
(* two symbols, and one made by a resubmit, against the first.             *)
(***************************************************************************)
EXTENDS TradePipeline, TLC

CONSTANTS p1, p2, c1

MCSymbolOf == [p \in Proposals |-> IF p = p2 THEN "ETH" ELSE "BTC"]
MCSideOf   == [p \in Proposals |-> IF p = c1 THEN "short" ELSE "long"]
MCWant     == [p \in Proposals |-> IF p = c1 THEN 1 ELSE 2]
=============================================================================
