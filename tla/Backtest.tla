------------------------------ MODULE Backtest ------------------------------
(***************************************************************************)
(* The simulation of trades over historical candles,                       *)
(* backtesting/engine.py, as POST /api/v1/backtest/run calls it.           *)
(*                                                                         *)
(* A step is one turn of the loop over the candles: candle i is checked    *)
(* against the levels of the open position, the signals mapped to it are   *)
(* taken, and the account is marked.  Candles and signals are chosen as    *)
(* the loop reaches them.  Money is exact: the engine's floats are         *)
(* fractions here, and the rounding of what it reports is left out.        *)
(*                                                                         *)
(* An operator marked FAULTY is the next operator with a plausible bug,    *)
(* kept to show that a property notices it.                                *)
(***************************************************************************)
EXTENDS Fractions, FiniteSets

CONSTANTS
    Bars,         \* candles: records of the prices open, high, low and close
    SignalLists,  \* the signals that may be mapped to one candle, in their order
    MaxBars,      \* bound on the candles of an input
    Capitals,     \* initial_capital of the input
    MinCapital,   \* MIN_CAPITAL
    Commission,   \* commission_pct
    Slippage      \* slippage_pct

None   == <<0, 0>>  \* no price

\* A short entry at slippage 1 divides by a price of zero: the run fails.
ASSUME RatesAssumption ==
    /\ MaxBars \in Nat \ {0} /\ Capitals \subseteq Int /\ MinCapital \in Nat \ {0}
    /\ IsFraction(Commission) /\ AtMost(Zero, Commission) /\ AtMost(Commission, One)
    /\ IsFraction(Slippage) /\ AtMost(Zero, Slippage) /\ Below(Slippage, One)

\* What is traded has a price; so have the levels of a signal, where it has them.
ASSUME PricesAssumption ==
    /\ \A b \in Bars : \A field \in {"open", "high", "low", "close"} : IsPositive(b[field])
    /\ \A list \in SignalLists :
         /\ list \in Seq(Range(list))
         /\ \A n \in DOMAIN list :
              /\ list[n].side \in {"long", "short"}
              /\ \A field \in {"entry", "stop", "target"} :
                   list[n][field] = None \/ IsPositive(list[n][field])

VARIABLES
    bars,     \* the candles so far; the last one is the next to be taken
    lists,    \* the signals taken at each candle
    capital,  \* initial_capital after its clamp
    account,  \* cash, the open position, the trades
    curve,    \* equity_curve
    done      \* the result is out

backtestVars == <<bars, lists, capital, account, curve, done>>

NoPosition == [side |-> "none", entry |-> None, quantity |-> Zero, from |-> 0,
               stop |-> None, target |-> None]
Up     == Plus(One, Slippage)
Down   == Minus(One, Slippage)
Flat(acc) == acc.position = NoPosition

BacktestInit ==
    /\ \E b \in Bars : bars = <<b>>
    /\ lists = <<>>
    /\ \E c \in Capitals : capital = Whole(IF c < MinCapital THEN MinCapital ELSE c)
    /\ account = [cash |-> capital, position |-> NoPosition, trades |-> <<>>]
    /\ curve = <<capital>>
    /\ done = FALSE

-----------------------------------------------------------------------------
(* Closing and opening *)

\* _cash_after_close.  (FAULTY: a short pays no commission.)
ShortClosesFree(p, exit) ==
    Times(p.quantity, IF p.side = "long" THEN Times(exit, Minus(One, Commission))
                      ELSE Minus(Plus(p.entry, p.entry), exit))
CashAfterClose(p, exit) ==
    Times(p.quantity, IF p.side = "long" THEN Times(exit, Minus(One, Commission))
                      ELSE Minus(Plus(p.entry, p.entry), Times(exit, Plus(One, Commission))))

\* The gain of a trade pays the commission of the exit, not that of the entry.
Pnl(p, exit) ==
    Times(p.quantity, Minus(IF p.side = "long" THEN Minus(exit, p.entry) ELSE Minus(p.entry, exit),
                            Times(exit, Commission)))

\* _close_position at candle i; the price is worse by the slippage.
Closed(acc, i, price, reason) ==
    LET p    == acc.position
        exit == Times(price, IF p.side = "long" THEN Down ELSE Up)
    IN  [cash     |-> CashAfterClose(p, exit),
         position |-> NoPosition,
         trades   |-> Append(acc.trades, [of |-> p, exit |-> exit, to |-> i,
                                          pnl |-> Pnl(p, exit), reason |-> reason])]

\* entry_index.  (FAULTY: the candle of the signal itself.)
SignalIndex(i) == i
EntryIndex(i) == i + 1

\* All of the cash goes into the position and its commission.
Opened(acc, i, open, signal) ==
    LET price == Times(IF signal.entry = None THEN open ELSE signal.entry,
                       IF signal.side = "long" THEN Up ELSE Down)
        size  == Over(acc.cash, Times(price, Plus(One, Commission)))
        cost  == Times(size, price)
    IN  [acc EXCEPT !.cash = Minus(@, Plus(cost, Times(cost, Commission))),
                    !.position = [side |-> signal.side, entry |-> price, quantity |-> size,
                                  from |-> EntryIndex(i), stop |-> signal.stop,
                                  target |-> signal.target]]

-----------------------------------------------------------------------------
(* One candle *)

Reaches(bar, price, above) ==
    IF above THEN AtMost(price, bar.high) ELSE AtMost(bar.low, price)

HitsTarget(p, bar) == p.target # None /\ Reaches(bar, p.target, p.side = "long")
HitsStop(p, bar)   == p.stop # None /\ Reaches(bar, p.stop, p.side = "short")

\* The target is looked at first, and either closes at its own price.
AfterLevels(acc, i, bar) ==
    IF Flat(acc) THEN acc
    ELSE IF HitsTarget(acc.position, bar) THEN Closed(acc, i, acc.position.target, "take_profit")
    ELSE IF HitsStop(acc.position, bar) THEN Closed(acc, i, acc.position.stop, "stop_loss")
    ELSE acc

\* One signal: one of the same side is ignored, one of the other side reverses.
Reversed(acc, i, bar) == Closed(acc, i, bar.close, "signal")

AfterSignal(acc, i, bar, open, signal) ==
    IF ~Flat(acc) /\ acc.position.side = signal.side THEN acc
    ELSE Opened(IF Flat(acc) THEN acc ELSE Reversed(acc, i, bar), i, open, signal)

\* The loop over the signals of a candle.
AfterSignals(acc, i, bar, open, signals) ==
    LET after[n \in 0..Len(signals)] ==
            IF n = 0 THEN acc ELSE AfterSignal(after[n - 1], i, bar, open, signals[n])
    IN  after[Len(signals)]

\* (FAULTY: on a candle with a signal the levels are not looked at.)
SignalsOrLevels(acc, i, bar, open, signals) ==
    IF signals = <<>> THEN AfterLevels(acc, i, bar)
    ELSE AfterSignals(acc, i, bar, open, signals)
\* The levels first, then the signals of the candle.
AfterCandle(acc, i, bar, open, signals) ==
    AfterSignals(AfterLevels(acc, i, bar), i, bar, open, signals)

\* _compute_equity
Equity(acc, bar) ==
    LET p == acc.position
    IN  IF Flat(acc) THEN acc.cash
        ELSE Plus(acc.cash, Times(p.quantity, IF p.side = "long" THEN bar.close
                                              ELSE Minus(Plus(p.entry, p.entry), bar.close)))

\* One turn of the loop, which needs the candle after this one.
Candle(next, signals) ==
    LET i   == Len(bars)
        bar == bars[i]
    IN  /\ ~done /\ i < MaxBars
        /\ bars' = Append(bars, next)
        /\ lists' = Append(lists, signals)
        /\ account' = AfterCandle(account, i, bar, next.open, signals)
        /\ curve' = Append(curve, Equity(account', bar))
        /\ UNCHANGED <<capital, done>>

\* No candle is left: what is open is closed at the last one, whose levels and
\* signals are not looked at, and takes the last place of the curve.
CloseOut ==
    LET i == Len(bars)
    IN  /\ ~done
        /\ done' = TRUE
        /\ IF Flat(account)
           THEN UNCHANGED <<account, curve>>
           ELSE /\ account' = Closed(account, i, bars[i].close, "signal")
                /\ curve' = [curve EXCEPT ![i] = account'.cash]
        /\ UNCHANGED <<bars, lists, capital>>

BacktestNext == CloseOut \/ \E next \in Bars, signals \in SignalLists : Candle(next, signals)

BacktestSpec == BacktestInit /\ [][BacktestNext]_backtestVars

-----------------------------------------------------------------------------
(* The report *)

Trades == account.trades
Winning(trades) == {k \in DOMAIN trades : Below(Zero, trades[k].pnl)}
Losing(trades)  == {k \in DOMAIN trades : Below(trades[k].pnl, Zero)}
\* The sum of the gains of some of the trades.
Gains(trades, some) == Total([k \in DOMAIN trades |-> IF k \in some THEN trades[k].pnl ELSE Zero])

\* How far a value is below a peak, as a fraction of it.
Fall(peak, value) == IF Below(Zero, peak) THEN Over(Minus(peak, value), peak) ELSE Zero
\* _compute_max_drawdown: the peak so far and the deepest fall from a peak.
\* (FAULTY: the peak stays the first value.)
FromStart(seen, value) ==
    [seen EXCEPT !.dd = IF Below(@, Fall(seen.peak, value)) THEN Fall(seen.peak, value) ELSE @]
Seen(seen, value) ==
    LET peak == IF Below(seen.peak, value) THEN value ELSE seen.peak
    IN  [peak |-> peak,
         dd   |-> IF Below(seen.dd, Fall(peak, value)) THEN Fall(peak, value) ELSE seen.dd]
MaxDrawdown(values) ==
    LET after[n \in 0..Len(values)] ==
            IF n = 0 THEN [peak |-> values[1], dd |-> Zero] ELSE Seen(after[n - 1], values[n])
    IN  IF Len(values) < 2 THEN Zero ELSE after[Len(values)].dd

\* _compute_metrics; the Sharpe and Sortino ratios are left out.
Metrics ==
    LET profit == Gains(Trades, Winning(Trades))
        loss   == Neg(Gains(Trades, Losing(Trades)))
        n      == Whole(Len(Trades))
        drop   == MaxDrawdown(curve)
        total  == Gains(Trades, DOMAIN Trades)
    IN  IF Trades = <<>> THEN [trades |-> 0, final |-> Last(curve), return |-> Zero]
        ELSE [trades     |-> Len(Trades),
              wins       |-> Cardinality(Winning(Trades)),
              losses     |-> Cardinality(Losing(Trades)),
              win_rate   |-> Over(Whole(Cardinality(Winning(Trades))), n),
              final      |-> Last(curve),
              return     |-> Minus(Over(Last(curve), capital), One),
              profit     |-> profit,
              loss       |-> loss,
              factor     |-> IF Below(Zero, loss) THEN Over(profit, loss)
                             ELSE IF Below(Zero, profit) THEN Whole(999) ELSE Zero,
              drawdown   |-> drop,
              expectancy |-> Over(total, n),
              recovery   |-> IF Below(Zero, drop) THEN Over(total, Times(drop, capital)) ELSE Zero]

-----------------------------------------------------------------------------
(* Properties *)

\* The cash is the capital and the gains of the trades, less the commission of
\* their entries, which no gain pays; an open position has taken all of it.
EntryCost(p) == Times(Times(p.quantity, p.entry), Commission)
Net(t) == Minus(t.pnl, EntryCost(t.of))
BooksReconcile ==
    IF Flat(account)
    THEN account.cash = Plus(capital, Total([k \in DOMAIN Trades |-> Net(Trades[k])]))
    ELSE account.cash = Zero

\* No position outlives a candle that reached its stop or its target, whatever
\* signals come with that candle, but on the last one; and a level closes a
\* position only on a candle that reached it.
Hit(p, bar) == HitsStop(p, bar) \/ HitsTarget(p, bar)
StopsHold ==
    /\ \A k \in DOMAIN Trades :
         LET t == Trades[k]
         IN  /\ \A i \in t.of.from .. t.to - 1 : ~Hit(t.of, bars[i])
             /\ t.reason = "stop_loss" => HitsStop(t.of, bars[t.to]) /\ ~HitsTarget(t.of, bars[t.to])
             /\ t.reason = "take_profit" => HitsTarget(t.of, bars[t.to])
             /\ t.reason = "signal" /\ t.of.from <= t.to /\ Hit(t.of, bars[t.to])
                  => done /\ t.to = Len(bars)
    /\ ~Flat(account) =>
         \A i \in account.position.from .. Len(bars) - 1 : ~Hit(account.position, bars[i])

\* Trades follow one another, none ends before it begins but where one candle
\* carries opposite signals, and each has a quantity unless an earlier one has
\* lost all that there was: a short by its price, a long by a commission of all.
Ruined(t) == IF t.of.side = "long" THEN Commission = One
             ELSE AtMost(Plus(t.of.entry, t.of.entry), Times(t.exit, Plus(One, Commission)))
TradesAreSound ==
    \A k \in DOMAIN Trades :
        LET t == Trades[k]
        IN  /\ t.of.from <= t.to \/ Len(lists[t.to]) > 1
            /\ k > 1 => Trades[k - 1].to < t.of.from
            /\ Below(Zero, t.of.quantity) \/ \E j \in 1 .. k - 1 : Ruined(Trades[j])

\* What is reported agrees with itself: gains less losses are the return and the
\* entries' commissions, and the drawdown is a fall of the curve below an earlier
\* value, no less deep than any fall to nothing or above.
ReportIsTrue ==
    done =>
      /\ Trades = <<>> => Metrics.final = capital
      /\ Trades # <<>> =>
           /\ Metrics.final = account.cash
           /\ Minus(Metrics.profit, Metrics.loss)
                = Plus(Times(Metrics.return, capital), Total([k \in DOMAIN Trades |-> EntryCost(Trades[k].of)]))
           /\ Metrics.wins + Metrics.losses <= Metrics.trades
           /\ \A i \in DOMAIN curve, j \in DOMAIN curve :
                i < j /\ Below(Zero, curve[i]) /\ AtMost(Zero, curve[j]) =>
                  AtMost(Over(Minus(curve[i], curve[j]), curve[i]), Metrics.drawdown)
           /\ Metrics.drawdown # Zero => \E i, j \in DOMAIN curve :
                i < j /\ Below(Zero, curve[i])
                /\ Over(Minus(curve[i], curve[j]), curve[i]) = Metrics.drawdown
=============================================================================
