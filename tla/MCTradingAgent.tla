---------------------------- MODULE MCTradingAgent ----------------------------
(* Small instances of TradingAgent for TLC. *)
EXTENDS TradingAgent

\* One vertical.
OneSpread == {<<"c100", "c105">>}
===============================================================================
