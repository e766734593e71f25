------------------------------ MODULE MCBotRun ------------------------------
(* Two bots, and orders that meet: two prices to buy at, one to sell at. *)
EXTENDS BotRun

CONSTANTS b1, b2

MCBots == {b1, b2}
MCDrawn == {[type |-> "limit",  side |-> "buy",  price |-> 1],
            [type |-> "limit",  side |-> "buy",  price |-> 2],
            [type |-> "limit",  side |-> "sell", price |-> 1],
            [type |-> "market", side |-> "sell", price |-> 0],
            [type |-> "cancel", side |-> "buy",  price |-> 0]}
=============================================================================
