----------------------------- MODULE PaperEngine -----------------------------
(***************************************************************************)
(* The accounting of the paper portfolio: paper_trading/engine.py, and     *)
(* what a save and a load through repository.py do to it.                  *)
(*                                                                         *)
(* Arithmetic is exact.  A price of a request or a candle is a number of   *)
(* ticks, a fill or a mark a number of 1/Scale ticks, an amount of money a *)
(* number of 1/Scale^2 ticks; rates are numbers of 1/Scale.  Quantities    *)
(* are whole lots: an order that is cut down to its budget gets as many as *)
(* the budget pays for.  Columns keep eight decimals, finer than a lot or  *)
(* a tick; the cents that the code rounds to are kept.                     *)
(*                                                                         *)
(* An operator marked FAULTY is the next operator with a plausible bug,    *)
(* kept to show that a property notices it.                                *)
(***************************************************************************)
EXTENDS Integers, Sequences, FiniteSetsExt

CONSTANTS
    Symbols,
    Capital,     \* initial_capital, in ticks
    Scale,       \* the precision of prices and rates
    Slippage,    \* _slippage_for, the same for all symbols
    Commission,  \* _commission_pct
    Borrow,      \* what a short pays per unit of time
    Funding,     \* what a long pays per unit of time
    Cent,        \* the money that round(x, 2) rounds to
    Orders,      \* the signals asked for
    Bars,        \* the candles seen
    MaxCalls,    \* bound on the calls made
    MaxTime      \* bound on the clock

Sides   == {"long", "short"}
NoLevel == 0  \* no stop_loss, take_profit or open_price

ASSUME ConstantsAssumption ==
    /\ {Scale, Cent, Capital} \subseteq Nat \ {0}
    /\ {Slippage, Commission, Borrow, Funding, MaxCalls, MaxTime} \subseteq Nat
    /\ Slippage < Scale /\ Commission < Scale
    /\ Orders \subseteq [symbol : Symbols, side : Sides, quantity : Nat \ {0},
                         price : Nat \ {0}, stop : Nat, take : Nat]
    /\ Bars \subseteq [open : Nat, high : Nat, low : Nat \ {0}, close : Nat \ {0}]

VARIABLES
    account,  \* the engine
    now,      \* the clock
    calls,    \* calls made; the n-th opens position n
    saves,    \* history: how often the cash balance was saved
    last      \* history: the last call and its answer

vars == <<account, now, calls, saves, last>>

Times == 0 .. MaxTime
Ids   == 1 .. MaxCalls
Reasons == {"signal", "stop_loss", "take_profit"}

Position == [id : Ids, symbol : Symbols, side : Sides, quantity : Nat \ {0},
             entry : Nat, entryAt : Times, stop : Nat, take : Nat,
             fee : Nat, margin : Nat, carry : Nat, accruedAt : Times]
Trade == [position : Position, exit : Nat, exitAt : Times, pnl : Int, reason : Reasons]

\* marks is _last_prices, curve is _equity_curve.
Account == [cash : Int, positions : SUBSET Position, trades : SUBSET Trade,
            marks : [Symbols -> Nat], curve : Seq(Int)]

NoCall == [kind |-> "none"]

TypeOK ==
    /\ account \in Account
    /\ now \in Times
    /\ calls \in 0 .. MaxCalls
    /\ saves \in Nat

-----------------------------------------------------------------------------
(* Amounts *)

Opening == Capital * Scale * Scale

\* An entry costs more than its price, and an exit brings less.
Paid(price)     == price * (Scale + Slippage)
Received(price) == price * (Scale - Slippage)

EntryFill(side, price) == IF side = "long" THEN Paid(price) ELSE Received(price)
ExitFill(side, price)  == IF side = "long" THEN Received(price) ELSE Paid(price)

Value(quantity, fill) == quantity * fill * Scale
Fee(quantity, fill)   == quantity * fill * Commission

CarryRate(side) == IF side = "short" THEN Borrow ELSE Funding

\* round(x, 2); which way a tie goes makes no difference here.
Rounded(x) == Cent * ((2 * x + Cent) \div (2 * Cent))

\* _compute_equity
Worth(p, marks) ==
    LET value == Value(p.quantity, marks[p.symbol])
    IN  (IF p.side = "long" THEN value ELSE -value) - p.carry
Equity(a) == a.cash + SumFunction([p \in a.positions |-> Worth(p, a.marks)])

MarginUsed(a) == SumFunction([p \in a.positions |-> p.margin])
FreeMargin(a) == Max({Equity(a) - MarginUsed(a), 0})

AddPoint(a) == [a EXCEPT !.curve = Append(@, Equity(a))]

Init ==
    /\ account = [cash |-> Opening, positions |-> {}, trades |-> {},
                  marks |-> [s \in Symbols |-> NoLevel], curve |-> <<Opening>>]
    /\ now = 0
    /\ calls = 0
    /\ saves = 0
    /\ last = NoCall

-----------------------------------------------------------------------------
(* Carry and exits *)

\* _accrue_position.  (FAULTY: an older time stamp sets the clock back.)
AccruedBackwards(p, when) ==
    [p EXCEPT !.carry = @ + p.quantity * p.entry * CarryRate(p.side)
                              * Max({when - p.accruedAt, 0}),
              !.accruedAt = when]
Accrued(p, when) ==
    IF when <= p.accruedAt THEN p
    ELSE [p EXCEPT !.carry = @ + p.quantity * p.entry * CarryRate(p.side)
                                   * (when - p.accruedAt),
                   !.accruedAt = when]

\* What the exit of p at this fill adds to the cash.  (FAULTY: a short's
\* carry is forgotten.)
ExitCashNoBorrow(p, fill) ==
    LET value == Value(p.quantity, fill)
    IN  IF p.side = "long" THEN value - Fee(p.quantity, fill) - p.carry
                           ELSE -(value + Fee(p.quantity, fill))
ExitCash(p, fill) ==
    LET value == Value(p.quantity, fill)
    IN  (IF p.side = "long" THEN value ELSE -value) - Fee(p.quantity, fill) - p.carry

Pnl(p, fill) ==
    LET gain == Value(p.quantity, fill) - Value(p.quantity, p.entry)
    IN  (IF p.side = "long" THEN gain ELSE -gain) - p.fee - Fee(p.quantity, fill) - p.carry

\* close_position
Closed(a, p, price, reason, when) ==
    LET held == Accrued(p, when)
        fill == ExitFill(p.side, price)
    IN  AddPoint([a EXCEPT
            !.cash = @ + ExitCash(held, fill),
            !.positions = @ \ {p},
            !.trades = @ \cup {[position |-> held, exit |-> fill, exitAt |-> when,
                                pnl |-> Rounded(Pnl(held, fill)), reason |-> reason]},
            !.marks[p.symbol] = NoLevel])

-----------------------------------------------------------------------------
(* execute_signal *)

In(a, symbol) == {p \in a.positions : p.symbol = symbol}

\* The account in which the order is funded: a position on the other side is
\* closed first.
Cleared(a, o) ==
    IF In(a, o.symbol) = {} THEN a
    ELSE Closed(a, CHOOSE p \in In(a, o.symbol) : TRUE, o.price, "signal", now)

\* buying_power pays for this many lots, commission included.  (FAULTY: a
\* short may use the cash, which holds the proceeds of other shorts.)
AffordableFromCash(a, o, lots) ==
    LET fill == EntryFill(o.side, o.price)
    IN  Value(lots, fill) + Fee(lots, fill) <= Max({a.cash, 0})
Affordable(a, o, lots) ==
    LET fill   == EntryFill(o.side, o.price)
        budget == IF o.side = "long" THEN Min({a.cash, FreeMargin(a)}) ELSE FreeMargin(a)
    IN  Value(lots, fill) + Fee(lots, fill) <= Max({budget, 0})

\* The most of the order that can be paid for is this many lots.
Granted(a, o, lots) ==
    /\ Affordable(a, o, lots)
    /\ lots = o.quantity \/ ~Affordable(a, o, lots + 1)

Opened(a, o, lots) ==
    LET fill  == EntryFill(o.side, o.price)
        value == Value(lots, fill)
        fee   == Fee(lots, fill)
    IN  AddPoint([a EXCEPT
            !.cash = (IF o.side = "long" THEN @ - value ELSE @ + value) - fee,
            !.positions = @ \cup
                {[id |-> calls + 1, symbol |-> o.symbol, side |-> o.side,
                  quantity |-> lots, entry |-> fill, entryAt |-> now,
                  stop |-> o.stop, take |-> o.take, fee |-> fee,
                  margin |-> IF o.side = "long" THEN 0 ELSE value,
                  carry |-> 0, accruedAt |-> now]},
            !.marks[o.symbol] = fill])

\* _restore_reversal_state: what a refused order leaves behind, field by field.
Undone(before, after) ==
    [after EXCEPT !.cash = before.cash,
                  !.positions = before.positions,
                  !.trades = @ \cap before.trades,
                  !.curve = SubSeq(@, 1, Len(before.curve)),
                  !.marks = before.marks]

Answered(kind, accepted, o, bar) ==
    /\ calls' = calls + 1
    /\ last' = [kind |-> kind, accepted |-> accepted, asked |-> o, bar |-> bar]

ExecuteSignal(o) ==
    /\ calls < MaxCalls
    /\ IF \E p \in In(account, o.symbol) : p.side = o.side
       THEN account' = account /\ Answered("signal", FALSE, o, NoCall)
       ELSE \E lots \in 0 .. o.quantity :
              /\ Granted(Cleared(account, o), o, lots)
              /\ account' = IF lots = 0 THEN Undone(account, Cleared(account, o))
                            ELSE Opened(Cleared(account, o), o, lots)
              /\ Answered("signal", lots # 0, o, NoCall)
    /\ UNCHANGED <<now, saves>>

-----------------------------------------------------------------------------
(* A candle: check_sl_tp, then mark_to_market *)

StopHit(p, bar) ==
    p.stop # NoLevel /\ IF p.side = "long" THEN bar.low <= p.stop ELSE bar.high >= p.stop
TakeHit(p, bar) ==
    p.take # NoLevel /\ IF p.side = "long" THEN bar.high >= p.take ELSE bar.low <= p.take

\* The stop's price: the open, if the candle opens beyond the stop.
StopPrice(p, bar) ==
    LET gap == bar.open # NoLevel
                 /\ IF p.side = "long" THEN bar.open <= p.stop ELSE bar.open >= p.stop
    IN  IF gap THEN bar.open ELSE p.stop

\* A candle that reaches both levels is taken to reach the stop first.
\* (FAULTY: the target first.)
ExitedTargetFirst(a, p, bar, when) ==
    CASE TakeHit(p, bar) -> Closed(a, p, p.take, "take_profit", when)
      [] ~TakeHit(p, bar) /\ StopHit(p, bar) ->
             Closed(a, p, StopPrice(p, bar), "stop_loss", when)
      [] OTHER -> a
Exited(a, p, bar, when) ==
    CASE StopHit(p, bar) -> Closed(a, p, StopPrice(p, bar), "stop_loss", when)
      [] TakeHit(p, bar) /\ ~StopHit(p, bar) -> Closed(a, p, p.take, "take_profit", when)
      [] OTHER -> a

Checked(a, symbol, bar, when) ==
    IF In(a, symbol) = {} THEN a
    ELSE Exited(a, CHOOSE p \in In(a, symbol) : TRUE, bar, when)

\* mark_to_market: carry accrues on every position, whatever the symbol.
Marked(a, symbol, price, when) ==
    LET accrued == [a EXCEPT !.positions = {Accrued(p, when) : p \in @}]
    IN  IF In(a, symbol) = {} THEN accrued
        ELSE AddPoint([accrued EXCEPT !.marks[symbol] = price * Scale])

\* The candle may be older than what was accrued already.
ProcessCandle(symbol, bar, when) ==
    /\ calls < MaxCalls
    /\ when <= now
    /\ account' = Marked(Checked(account, symbol, bar, when), symbol, bar.close, when)
    /\ Answered("candle", TRUE, [symbol |-> symbol, when |-> when], bar)
    /\ UNCHANGED <<now, saves>>

-----------------------------------------------------------------------------
(* Saving, loading and time *)

\* _update_portfolio saves the balance that get_summary rounded, and the next
\* hydrate loads it.  restore_state adds a point to the curve unless the last
\* one is within a cent.
Reload ==
    /\ calls < MaxCalls
    /\ LET loaded == [account EXCEPT !.cash = Rounded(@)]
           behind == account.curve[Len(account.curve)] - Equity(loaded)
       IN  account' = IF behind \in -Cent .. Cent THEN loaded ELSE AddPoint(loaded)
    /\ saves' = saves + 1
    /\ Answered("reload", TRUE, NoCall, NoCall)
    /\ UNCHANGED now

Tick ==
    /\ now < MaxTime
    /\ now' = now + 1
    /\ UNCHANGED <<account, calls, saves, last>>

Next ==
    \/ \E o \in Orders : ExecuteSignal(o)
    \/ \E s \in Symbols, bar \in Bars, when \in Times : ProcessCandle(s, bar, when)
    \/ Reload
    \/ Tick

Spec == Init /\ [][Next]_vars

-----------------------------------------------------------------------------
(* Properties *)

\* What the balance should be: the capital, the results of the closed trades,
\* and the entries of the open positions.
EntryCash(p) ==
    (IF p.side = "long" THEN -Value(p.quantity, p.entry) ELSE Value(p.quantity, p.entry)) - p.fee
ExpectedCash(a) ==
    Opening + SumFunction([t \in a.trades |-> t.pnl])
            + SumFunction([p \in a.positions |-> EntryCash(p)])

\* The balance reconciles with the trade history and the open positions, up to
\* half a cent for each rounded trade and each rounded save: fees, slippage and
\* carry are charged once, on whichever path a position was closed.
CashReconciles ==
    LET drift == account.cash - ExpectedCash(account)
        steps == saves + Cardinality(account.trades)
    IN  2 * drift <= Cent * steps /\ -2 * drift <= Cent * steps

\* An accepted order fits: the margin of all shorts is covered by the equity
\* after it, and a long was paid for with money that was there.  A refused one
\* leaves everything as it was, also when it closed a position to make room and
\* then could not be funded.
FilledOrUndone ==
    [][calls' # calls =>
        IF ~last'.accepted THEN account' = account
        ELSE last'.kind = "signal" =>
                /\ Equity(account') >= MarginUsed(account')
                /\ last'.asked.side = "long" => account'.cash >= 0]_vars

\* Carry is charged once for the time from entry to the last accrual, however
\* candles repeat, overlap or come late; a trade is charged for all of its
\* holding time.
CarryDue(p) == p.quantity * p.entry * CarryRate(p.side) * (p.accruedAt - p.entryAt)
CarryIsExact ==
    /\ \A p \in account.positions : p.carry = CarryDue(p)
    /\ \A t \in account.trades :
         t.position.carry = CarryDue(t.position) /\ t.exitAt <= t.position.accruedAt

\* A position is open once per symbol and closed once, and a symbol has a mark
\* exactly while it is held, so that no equity is computed from an old price.
BooksSound ==
    /\ \A p, q \in account.positions : p.symbol = q.symbol => p = q
    /\ \A t \in account.trades :
         /\ \A p \in account.positions : p.id # t.position.id
         /\ \A u \in account.trades : u.position.id = t.position.id => u = t
    /\ \A s \in Symbols : account.marks[s] # NoLevel <=> In(account, s) # {}

\* A candle that reaches the stop closes the position, and never better than at
\* the stop, whatever else the candle reaches.
StopsHold ==
    [][calls' # calls /\ last'.kind = "candle" =>
        \A p \in In(account, last'.asked.symbol) : StopHit(p, last'.bar) =>
            \E t \in account'.trades :
                /\ t.position.id = p.id
                /\ IF p.side = "long" THEN t.exit <= ExitFill("long", p.stop)
                                      ELSE t.exit >= ExitFill("short", p.stop)]_vars
=============================================================================
