---------------------------- MODULE MCPaperEngine ----------------------------
(* Two symbols, so that a short's proceeds meet a long's budget; orders for  *)
(* both sides, one of them larger than the account can pay for; and candles *)
(* that gap through a stop, reach both levels, or double the price.         *)
EXTENDS PaperEngine

CONSTANTS BTC, ETH

Order(symbol, side, quantity, price, stop, take) ==
    [symbol |-> symbol, side |-> side, quantity |-> quantity, price |-> price,
     stop |-> stop, take |-> take]

MCOrders ==
    {Order(BTC, "long", 2, 2, 1, 3), Order(BTC, "short", 2, 2, 3, 1),
     Order(BTC, "long", 9, 4, 0, 0), Order(ETH, "short", 9, 1, 2, 0),
     Order(ETH, "long", 1, 2, 0, 4)}

Bar(open, high, low, close) == [open |-> open, high |-> high, low |-> low, close |-> close]

MCBars == {Bar(2, 3, 1, 2), Bar(1, 2, 1, 1), Bar(4, 5, 3, 5), Bar(0, 2, 2, 2)}
==============================================================================
