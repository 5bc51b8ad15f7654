----------------------------- MODULE MCBacktest -----------------------------
(* The signals of a backtest and its simulation in one run: an initial      *)
(* state picks the one that moves.  Signals: up to six candles at three     *)
(* prices, every kind of answer.  Simulation:                               *)
(* Up to four candles between 1/2 and 4, signals with and without levels   *)
(* and a fixed entry, one candle with opposite signals.  With commission   *)
(* and slippage of a third, prices that are powers of two keep the         *)
(* fractions small; a short can lose more than all.                        *)
EXTENDS Backtest, Signals
VARIABLE part
allVars == <<backtestVars, signalVars, part>>

Bar(o, h, l, c) == [open |-> o, high |-> h, low |-> l, close |-> c]
Long  == [side |-> "long", entry |-> None, stop |-> None, target |-> None]
Short == [Long EXCEPT !.side = "short"]

MCBars == {Bar(Whole(1), Whole(2), Frac(1, 2), Whole(1)), Bar(Whole(2), Whole(4), Whole(2), Whole(4)),
           Bar(Whole(1), Whole(1), Frac(1, 2), Frac(1, 2))}
MCSignalLists ==
    {<<>>, <<Long>>, <<Short>>, <<Long, Short>>,
     <<[Long EXCEPT !.stop = Frac(1, 2), !.target = Whole(4)]>>,
     <<[Short EXCEPT !.stop = Whole(2), !.target = Frac(1, 2), !.entry = Whole(1)]>>}
MCThird == <<1, 3>>

Half == Frac(1, 2)
Quote(close, volume) ==
    [high |-> close, low |-> close, close |-> close, volume |-> Whole(volume)]
MCCandles == {Quote(Half, 1), [Quote(One, 1) EXCEPT !.high = Whole(2), !.low = Half],
              Quote(Whole(2), 3), Quote(Whole(2), 0)}
MCFifth == Frac(1, 5)
Says(confidence, direction, strategy) ==
    [kind |-> "object", data |-> [confidence |-> confidence, direction |-> direction,
                                  strategy |-> strategy, rationale |-> "why"]]
MCResponses ==
    {[kind |-> "empty"], [kind |-> "unavailable"], [kind |-> "list"], [kind |-> "object", data |-> [direction |-> "long"]],
     Says(<<>>, "flat", "neutral"), Says(<<150>>, "long", "unheard of"), Says(<<-1>>, "short", "momentum"),
     Says(<<80>>, "sideways", "breakout"), Says(Words, "long", "breakout")}

AllInit == part \in {"signals", "simulation"} /\ BacktestInit /\ SignalsInit
           /\ (part = "simulation" => hint = CHOOSE h \in Hints : TRUE)
           /\ (part = "signals" => bars = <<CHOOSE b \in Bars : TRUE>>)
AllNext ==
    /\ UNCHANGED part
    /\ \/ part = "signals" /\ SignalsNext /\ UNCHANGED backtestVars
       \/ part = "simulation" /\ BacktestNext /\ UNCHANGED signalVars
AllSpec == AllInit /\ [][AllNext]_allVars
=============================================================================
