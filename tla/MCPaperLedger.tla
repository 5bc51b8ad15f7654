---------------------------- MODULE MCPaperLedger ----------------------------
(* Three calls in two processes: orders with one client order id, an order   *)
(* for the other side and a pipeline's fill without one, a candle, a read.   *)
EXTENDS PaperLedger

CONSTANTS BTC, Id1

Ask(kind, side, cid) == [kind |-> kind, sym |-> BTC, side |-> side, cid |-> cid]

MCCalls == {Ask("signal", "long", Id1), Ask("signal", "short", NoId), Ask("pipeline", "long", NoId),
            Ask("candle", "long", NoId), Ask("read", "long", NoId)}
==============================================================================
