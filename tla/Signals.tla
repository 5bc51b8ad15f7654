------------------------------ MODULE Signals ------------------------------
(* From candles to signals: the indicators (agents/indicators.py), the      *)
(* rules that turn them into a strategy and a side, what becomes of a       *)
(* model's answer (agents/quant.py), and the loop of POST /backtest/run     *)
(* that keeps the surer ones (backend/routers/backtest.py).  Prices are     *)
(* positive fractions, volumes may be zero.  Every period is a constant:    *)
(* the code's 12, 26, 9, 20, 50, 200 and 14 need as many candles.  The      *)
(* indicators are rounded before the rules compare them, and so they are    *)
(* here; expected returns, parameters and rationales are left out.          *)
(*                                                                          *)
(* An operator marked FAULTY is the next operator with a plausible bug,     *)
(* kept to show that a property notices it.                                 *)
EXTENDS Fractions, FiniteSets

CONSTANTS
    Candles, MaxCandles,       \* candles; bound: how many
    Fast, Slow, SignalSpan,    \* MACD: 12, 26, 9
    ShortSpan, MediumSpan, LongSpan,   \* averages: 20, 50, 200
    RsiSpan, AtrSpan,          \* 14, 14
    MinSpread,                 \* of the averages, for momentum: 0.005
    BandSquare,                \* std_multiplier squared: 4
    Grid,                      \* steps in a price of one: 10000, four decimals
    MinCandles,                \* MIN_CANDLES_REQUIRED: 200
    Hints,                     \* strategies asked for
    Responses                  \* what the model may answer

\* What is quoted has a price.
ASSUME QuotesAssumption ==
    \A c \in Candles :
      /\ c = [high |-> c.high, low |-> c.low, close |-> c.close, volume |-> c.volume]
      /\ \A field \in {"high", "low", "close"} : IsPositive(c[field])
ASSUME SpansAssumption ==
    /\ {Fast, Slow, SignalSpan, ShortSpan, MediumSpan, LongSpan, RsiSpan, AtrSpan} \subseteq Nat \ {0}
    /\ Fast <= Slow /\ MediumSpan <= LongSpan
    /\ BandSquare \in Nat /\ Grid \in Nat \ {0}

VARIABLES
    hint,       \* the strategy asked for
    candles,    \* the candles so far
    rules,      \* what the rules decide on them
    signals,    \* what the route keeps: the candle's number and the decision
    output      \* the quant agent's answer on these candles, or NoOutput
signalVars == <<hint, candles, rules, signals, output>>

NoValue == <<0, 0>>
NoOutput == [strategy |-> "none"]
Strategies == {"momentum", "mean_reversion", "trend_following", "breakout", "neutral"}

(* ------------------------------ rounding -------------------------------- *)
\* Python's round: the nearest number, the even one of two.
Nearest(n, d) ==
    n \div d + (IF 2 * (n % d) > d \/ (2 * (n % d) = d /\ (n \div d) % 2 = 1) THEN 1 ELSE 0)
Steps(x, grid) == Times(x, Whole(grid))
Rounded(x, grid) == Frac(Nearest(Steps(x, grid)[1], Steps(x, grid)[2]), grid)

(* ----------------------------- indicators ------------------------------- *)
\* _validate_prices: what is not positive is dropped.
Cleaned(prices) ==
    LET kept[n \in 0..Len(prices)] ==
            IF n = 0 THEN <<>>
            ELSE IF Below(Zero, prices[n]) THEN Append(kept[n - 1], prices[n]) ELSE kept[n - 1]
    IN  kept[Len(prices)]
Newest(seq, n) == SubSeq(seq, Len(seq) - n + 1, Len(seq))
Mean(seq) == Over(Total(seq), Whole(Len(seq)))
Column(window, field) == [n \in DOMAIN window |-> window[n][field]]

MeanOfNewest(p, span) == IF Len(p) < span THEN NoValue ELSE Mean(Newest(p, span))
Sma(prices, span) == MeanOfNewest(Cleaned(prices), span)

\* compute_ema: seeded with the mean of the first values.
Smoothed(p, span) ==
    LET ema[n \in 0..(Len(p) - span)] ==
            IF n = 0 THEN Mean(SubSeq(p, 1, span))
            ELSE Plus(ema[n - 1], Times(Minus(p[span + n], ema[n - 1]), Frac(2, span + 1)))
    IN  ema[Len(p) - span]
EmaOf(p, span) == IF Len(p) < span + 1 THEN NoValue ELSE Smoothed(p, span)
Ema(prices, span) == EmaOf(Cleaned(prices), span)

Changes(p) == [n \in 1..(Len(p) - 1) |-> Minus(p[n + 1], p[n])]
LatestChanges(p) == Newest(Changes(p), RsiSpan)
Risen(changes) ==
    Total([n \in DOMAIN changes |-> IF Below(Zero, changes[n]) THEN changes[n] ELSE Zero])
Fallen(changes) ==
    Total([n \in DOMAIN changes |-> IF Below(changes[n], Zero) THEN Neg(changes[n]) ELSE Zero])
RelativeStrength(gains, losses) ==
    IF losses = Zero THEN Whole(100) ELSE Times(Whole(100), Over(gains, Plus(gains, losses)))
Strength(p) == RelativeStrength(Risen(LatestChanges(p)), Fallen(LatestChanges(p)))
\* compute_rsi; prices that never fell give 100, also if they never rose.
RsiOf(p) ==
    IF Len(p) < RsiSpan + 1 THEN NoValue
    ELSE Rounded(Strength(p), 100)
Rsi(prices) == RsiOf(Cleaned(prices))

\* The MACD is rounded, the series that the signal line averages is not.
MacdLine(prices) == Minus(Ema(prices, Fast), Ema(prices, Slow))
\* FAULTY: the MACD is left as it is, next to a signal line that is rounded.
MacdUnrounded(prices) == MacdLine(prices)
Macd(prices) == Rounded(MacdLine(prices), Grid)
MacdSeries(prices) == [n \in 1..(Len(prices) - Slow) |-> MacdLine(SubSeq(prices, 1, Slow + n))]
\* compute_macd: the signal line is a compute_ema like those of the prices,
\* and so passes _validate_prices.
SeriesAverage(prices) ==
    IF Len(prices) < Slow + SignalSpan THEN NoValue ELSE Ema(MacdSeries(prices), SignalSpan)
RoundedLine(average) == IF average = NoValue THEN NoValue ELSE Rounded(average, Grid)
SignalLine(prices) == RoundedLine(SeriesAverage(prices))
\* The difference of two rounded numbers needs no rounding of its own.
AboveLine(macd, line) == IF line = NoValue THEN NoValue ELSE Minus(macd, line)
Histogram(prices) == AboveLine(Macd(prices), SignalLine(prices))

Square(x) == Times(x, x)
SquaresAround(recent, mean) == Mean([n \in DOMAIN recent |-> Square(Minus(recent[n], mean))])
Variance(recent) == SquaresAround(recent, Mean(recent))
\* compute_bollinger_bands: the band lies std_multiplier deviations away from
\* the mean.  It rounds to step n or nearer if it reaches half a step past n
\* at most; right there it goes to the even one of the steps.
Within(gap, recent, n) ==
    LET square == Times(Whole(BandSquare), Variance(recent)) IN
    AtMost(Zero, gap) /\ (Below(square, Square(gap)) \/ (square = Square(gap) /\ n % 2 = 0))
UpperAtMost(recent, n) == Within(Minus(Frac(2 * n + 1, 2 * Grid), Mean(recent)), recent, n)
LowerAtLeast(recent, n) == Within(Minus(Mean(recent), Frac(2 * n - 1, 2 * Grid)), recent, n)
StepBelow(price) == Steps(price, Grid)[1] \div Steps(price, Grid)[2]
StepAbove(price) == -((-Steps(price, Grid)[1]) \div Steps(price, Grid)[2])
\* price >= upper and price <= lower.
AtUpper(prices) ==
    Len(prices) >= ShortSpan /\ UpperAtMost(Newest(prices, ShortSpan), StepBelow(prices[Len(prices)]))
AtLower(prices) ==
    Len(prices) >= ShortSpan /\ LowerAtLeast(Newest(prices, ShortSpan), StepAbove(prices[Len(prices)]))

Larger(x, y) == IF Below(x, y) THEN y ELSE x
Apart(x, y) == IF Below(x, y) THEN Minus(y, x) ELSE Minus(x, y)
TrueRange(window, n) ==
    Larger(Minus(window[n].high, window[n].low),
           Larger(Apart(window[n].high, window[n - 1].close), Apart(window[n].low, window[n - 1].close)))
MeanRange(window) == Mean([n \in 1..AtrSpan |-> TrueRange(window, Len(window) - AtrSpan + n)])
\* compute_atr over the price, in per cent, is more than one.
Volatile(window) ==
    /\ Len(window) >= AtrSpan + 1
    /\ Below(window[Len(window)].close, Times(Whole(100), Rounded(MeanRange(window), Grid)))

\* compute_all_indicators: the trend.
TrendOf(price, medium, long) ==
    IF long = NoValue THEN "neutral"
    ELSE IF Below(long, medium) /\ Below(medium, price) THEN "bullish"
    ELSE IF Below(medium, long) /\ Below(price, medium) THEN "bearish" ELSE "neutral"
Trend(prices) == TrendOf(prices[Len(prices)], Sma(prices, MediumSpan), Sma(prices, LongSpan))

(* ------------------------------- the rules ------------------------------ *)
\* The distance of the averages; below a price of one it is not relative.
Spread(short, medium) == Over(Apart(short, medium), Larger(medium, One))
DetectMomentum(short, medium, rsi) ==
    /\ NoValue \notin {short, medium, rsi}
    /\ Below(MinSpread, Spread(short, medium))
    /\ AtMost(Whole(30), rsi) /\ AtMost(rsi, Whole(70))
DetectMeanReversion(rsi) == rsi # NoValue /\ (Below(rsi, Whole(30)) \/ Below(Whole(70), rsi))
DetectTrendFollowing(trend, histogram) ==
    /\ trend # "neutral" /\ histogram # NoValue
    /\ IF trend = "bullish" THEN Below(Zero, histogram) ELSE Below(histogram, Zero)
VolumeRatioAtLeast(volume, average, ratio) ==
    average # NoValue /\ AtMost(Times(ratio, average), volume)
DetectBreakout(window, prices) ==
    /\ VolumeRatioAtLeast(window[Len(window)].volume, Sma(Column(window, "volume"), ShortSpan), Frac(3, 2))
    /\ AtUpper(prices) \/ AtLower(prices)

Decision(strategy, isLong, confidence) ==
    [strategy |-> strategy, direction |-> IF isLong THEN "long" ELSE "short", confidence |-> confidence]
Bonus(window) == IF Volatile(window) THEN 5 ELSE 0
Momentum(window, short, medium) == Decision("momentum", Below(medium, short), 55 + Bonus(window))
\* 55 and half of what the RSI is below 70, or above 30, but 75 at most.
Extremity(extreme) == Plus(Whole(55), Over(Minus(Whole(70), extreme), Whole(2)))
AtMost75(sure) == IF Below(sure, Whole(75)) THEN sure[1] \div sure[2] ELSE 75
MeanReversion(rsi, oversold) ==
    Decision("mean_reversion", oversold,
             AtMost75(Extremity(IF oversold THEN rsi ELSE Minus(Whole(100), rsi))))
TrendFollowing(window, trend) == Decision("trend_following", trend = "bullish", 60 + Bonus(window))
\* An upper band that rounds to zero is taken for none.
Breakout(prices) ==
    Decision("breakout", ~AtUpper(prices) \/ UpperAtMost(Newest(prices, ShortSpan), 0), 60)
Neutral == [strategy |-> "neutral", direction |-> "flat", confidence |-> 20]

\* The strategies found, in the order they are asked for; the indicators are
\* computed once (compute_all_indicators).
Found(window, prices, short, medium, rsi, trend) ==
    (IF DetectMomentum(short, medium, rsi) THEN <<Momentum(window, short, medium)>> ELSE <<>>)
    \o (IF DetectMeanReversion(rsi) THEN <<MeanReversion(rsi, Below(rsi, Whole(30)))>> ELSE <<>>)
    \o (IF DetectTrendFollowing(trend, Histogram(prices)) THEN <<TrendFollowing(window, trend)>> ELSE <<>>)
    \o (IF DetectBreakout(window, prices) THEN <<Breakout(prices)>> ELSE <<>>)
HintedFirst(found, asked) ==
    LET hinted == {n \in DOMAIN found : found[n].strategy = asked}
        surest == {n \in DOMAIN found : \A m \in DOMAIN found : found[m].confidence <= found[n].confidence}
    IN  IF found = <<>> THEN Neutral ELSE found[IF hinted # {} THEN Min(hinted) ELSE Min(surest)]
\* _rule_based_quant: the strategy asked for if it is a candidate, or the
\* surest, the first one of equals.
RulesOn(window, prices, asked) ==
    HintedFirst(Found(window, prices, Sma(prices, ShortSpan), Sma(prices, MediumSpan),
                      Rsi(prices), Trend(prices)), asked)
Rules(window, asked) == RulesOn(window, Column(window, "close"), asked)

(* ------------------------- the model's answer --------------------------- *)
\* A number in an answer is <<n>>, and <<>> is NaN, which JSON may bring.
Words == <<0, 0>>
\* max(0, min(100, x)): Python's min keeps the 100 it is given first for NaN.
Clamped(number) ==
    IF number = <<>> \/ number[1] > 100 THEN 100 ELSE IF number[1] < 0 THEN 0 ELSE number[1]
Fallback(d) == [byModel |-> FALSE, failed |-> FALSE] @@ d
\* _parse_quant_response: anything but an object with the three fields and a
\* known direction falls back; words for a confidence raise out of the agent,
\* and so does JSON that is no object.
Parsed(r, d) ==
    IF r.kind \in {"empty", "garbled"} THEN Fallback(d)
    ELSE IF r.kind = "list" THEN [failed |-> TRUE]
    ELSE IF ~({"confidence", "direction", "rationale"} \subseteq DOMAIN r.data) THEN Fallback(d)
    ELSE IF r.data.direction \notin {"long", "short", "flat"} THEN Fallback(d)
    ELSE IF r.data.confidence = Words THEN [failed |-> TRUE]
    ELSE [byModel |-> TRUE, failed |-> FALSE,
          direction |-> r.data.direction, confidence |-> Clamped(r.data.confidence),
          strategy |-> IF r.data.strategy \in Strategies \ {"neutral"} THEN r.data.strategy
                                                                      ELSE d.strategy]

(* ------------------------------- the steps ------------------------------ *)
SignalsInit ==
    /\ hint \in Hints
    /\ candles = <<>> /\ rules = Neutral /\ signals = <<>> /\ output = NoOutput

\* "Only take signals above a basic confidence threshold".
Sure(d) == d.direction # "neutral" /\ d.confidence > 60
\* The loop of run_backtest over one more candle.
TakeCandle(candle) ==
    /\ Len(candles) < MaxCandles
    /\ candles' = Append(candles, candle)
    /\ rules' = Rules(candles', hint)
    /\ signals' = IF Len(candles') > MinCandles /\ Sure(rules')
                  THEN Append(signals, [at |-> Len(candles'), decision |-> rules']) ELSE signals
    /\ output' = NoOutput
    /\ UNCHANGED hint
\* _llm_quant: no model, or a router that gives up, leaves it to the rules.
Answered(r) == IF r.kind = "unavailable" THEN Fallback(rules) ELSE Parsed(r, rules)
\* QuantAgent.process on these candles, or on none, with the answer r.
Analyse(r) ==
    /\ output = NoOutput
    /\ output' = IF candles = <<>> THEN Fallback([Neutral EXCEPT !.confidence = 0]) ELSE Answered(r)
    /\ UNCHANGED <<hint, candles, rules, signals>>
SignalsNext == (\E candle \in Candles : TakeCandle(candle)) \/ (\E r \in Responses : Analyse(r))
SignalsSpec == SignalsInit /\ [][SignalsNext]_signalVars

(* ------------------------------ properties ------------------------------ *)
\* The RSI before it is rounded is as extreme as the side asks for.
Reverses(prices, isLong) ==
    LET exact == Strength(Cleaned(prices)) IN
    IF isLong THEN Below(exact, Whole(30)) ELSE Below(Whole(70), exact)
\* The MACD and its average, before they are rounded, lie as the side asks for.
Confirms(prices, isLong) ==
    LET macd == MacdLine(prices)
        average == SeriesAverage(prices)
    IN  average # NoValue /\ IF isLong THEN Below(average, macd) ELSE Below(macd, average)
\* The mean range before it is rounded is above one per cent of the price, but
\* for half a step of the grid.
Moves(window) ==
    Below(window[Len(window)].close, Plus(Times(Whole(100), MeanRange(window)), Frac(50, Grid)))
IsMeant(window, d) ==
    LET prices == Column(window, "close") IN
    \/ d.strategy = "mean_reversion" /\ Reverses(prices, d.direction = "long")
    \/ d.strategy = "trend_following" /\ Confirms(prices, d.direction = "long") /\ Moves(window)

\* Rounding loses signals and never makes one.  What the route keeps is either
\* the reversal of a move that is extreme before it is rounded, or a trend in a
\* moving market that the exact MACD confirms.  Momentum and breakouts are
\* never sure enough, whatever strategy is asked for.
SignalsAreMeant ==
    \A n \in DOMAIN signals :
        IsMeant(SubSeq(candles, 1, signals[n].at), signals[n].decision)

\* indicators.py:139: "signal": signal line; of the "full MACD series"
\* (indicators.py:152): the average of all of its values.
SignalLineIsOfTheSeries ==
    Len(candles) >= Slow + SignalSpan =>
        LET prices == Column(candles, "close") IN
        Len(MacdSeries(prices)) > SignalSpan /\ SignalLine(prices) # NoValue =>
            SignalLine(prices) = Rounded(Smoothed(MacdSeries(prices), SignalSpan), Grid)
=============================================================================
