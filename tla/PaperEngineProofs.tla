-------------------------- MODULE PaperEngineProofs --------------------------
(***************************************************************************)
(* Theorems of PaperEngine.  First the books and the carry, which are      *)
(* right whatever the equity is and however much of an order is granted;   *)
(* then, with the sums over positions and trades, the balance.             *)
(***************************************************************************)
EXTENDS PaperEngine, FoldLemmas, TLAPS

\* Everything but the curve is well typed.
AccountOK(a) ==
    /\ {"cash", "positions", "trades", "marks", "curve"} \subseteq DOMAIN a
    /\ a.cash \in Int
    /\ a.positions \in SUBSET Position
    /\ a.trades \in SUBSET Trade
    /\ a.marks \in [Symbols -> Nat]

\* Ids up to n were given out.
Named(a, n) ==
    /\ \A p, q \in a.positions : p.id = q.id => p = q
    /\ \A p \in a.positions : p.id <= n
    /\ \A t \in a.trades : t.position.id <= n

\* BooksSound and CarryIsExact of the account a.
Single(a) == \A p, q \in a.positions : p.symbol = q.symbol => p = q
ClosedOnce(a) ==
    \A t \in a.trades :
        /\ \A p \in a.positions : p.id # t.position.id
        /\ \A u \in a.trades : u.position.id = t.position.id => u = t
MarkedWhileHeld(a) == \A s \in Symbols : a.marks[s] # NoLevel <=> In(a, s) # {}
CarryExact(a) ==
    /\ \A p \in a.positions : p.carry = CarryDue(p)
    /\ \A t \in a.trades :
         t.position.carry = CarryDue(t.position) /\ t.exitAt <= t.position.accruedAt

Good(a, n) ==
    /\ AccountOK(a)
    /\ Named(a, n)
    /\ Single(a)
    /\ ClosedOnce(a)
    /\ MarkedWhileHeld(a)
    /\ CarryExact(a)

IInv ==
    /\ calls \in 0 .. MaxCalls
    /\ now \in Times
    /\ Good(account, calls)

-----------------------------------------------------------------------------
(* Arithmetic *)

LEMMA Products == ASSUME NEW x \in Nat, NEW y \in Nat
                  PROVE  /\ x * y \in Nat
                         /\ x # 0 /\ y # 0 => x * y # 0
  OBVIOUS

LEMMA Monotone == ASSUME NEW x \in Nat, NEW y \in Nat, NEW k \in Nat, x <= y
                  PROVE  x * k <= y * k
  OBVIOUS

LEMMA Distribute ==
  ASSUME NEW k \in Int, NEW a \in Int, NEW b \in Int, NEW c \in Int
  PROVE  k * (b - a) + k * (c - b) = k * (c - a)
  OBVIOUS

\* Fills are positive for positive prices, and grow with the price.
LEMMA Fills ==
  ASSUME NEW price \in Nat
  PROVE  /\ Paid(price) \in Nat /\ Received(price) \in Nat
         /\ price # 0 => Paid(price) # 0 /\ Received(price) # 0
         /\ \A side \in Sides : EntryFill(side, price) \in Nat /\ ExitFill(side, price) \in Nat
         /\ \A side \in Sides : price # 0 => EntryFill(side, price) # 0
<1>1. Scale + Slippage \in Nat \ {0} /\ Scale - Slippage \in Nat \ {0}
  BY ConstantsAssumption
<1>2. /\ price * (Scale + Slippage) \in Nat /\ price * (Scale - Slippage) \in Nat
      /\ price # 0 => /\ price * (Scale + Slippage) # 0
                      /\ price * (Scale - Slippage) # 0
  BY <1>1, Products
<1> QED BY <1>2 DEF Paid, Received, EntryFill, ExitFill, Sides

LEMMA FillsGrow ==
  ASSUME NEW x \in Nat, NEW y \in Nat, x <= y
  PROVE  Received(x) <= Received(y) /\ Paid(x) <= Paid(y)
<1>1. Scale + Slippage \in Nat /\ Scale - Slippage \in Nat
  BY ConstantsAssumption
<1> QED BY <1>1, Monotone DEF Received, Paid

LEMMA Amounts ==
  ASSUME NEW quantity \in Nat, NEW fill \in Nat
  PROVE  Value(quantity, fill) \in Nat /\ Fee(quantity, fill) \in Nat
<1>1. Scale \in Nat /\ Commission \in Nat
  BY ConstantsAssumption
<1>2. quantity * fill \in Nat
  BY Products
<1> QED BY <1>1, <1>2, Products DEF Value, Fee

LEMMA Cents == ASSUME NEW x \in Int PROVE Rounded(x) \in Int
<1>1. Cent \in Nat \ {0}
  BY ConstantsAssumption
<1>2. 2 * x + Cent \in Int /\ 2 * Cent \in Nat \ {0}
  BY <1>1
<1>3. (2 * x + Cent) \div (2 * Cent) \in Int
  BY <1>2
<1> QED BY <1>1, <1>3 DEF Rounded

-----------------------------------------------------------------------------
(* Accruing *)

LEMMA Accruing ==
  ASSUME NEW p \in Position, NEW when \in Times, p.carry = CarryDue(p)
  PROVE  LET r == Accrued(p, when)
         IN  /\ r \in Position
             /\ r.id = p.id /\ r.symbol = p.symbol /\ r.side = p.side
             /\ r.carry = CarryDue(r)
             /\ when <= r.accruedAt
<1>1. CASE when <= p.accruedAt
  BY <1>1 DEF Accrued
<1>2. CASE ~(when <= p.accruedAt)
  <2> DEFINE k == p.quantity * p.entry * CarryRate(p.side)
             r == [p EXCEPT !.carry = @ + k * (when - p.accruedAt), !.accruedAt = when]
  <2>1. Accrued(p, when) = r
    BY <1>2 DEF Accrued
  <2>2. /\ p.quantity \in Nat /\ p.entry \in Nat /\ p.carry \in Nat
        /\ p.accruedAt \in Nat /\ p.entryAt \in Nat /\ when \in Nat
    BY ConstantsAssumption DEF Position, Times
  <2>3. CarryRate(p.side) \in Nat
    BY ConstantsAssumption DEF CarryRate
  <2>4. k \in Nat
    BY <2>2, <2>3, Products
  <2>5. when - p.accruedAt \in Nat
    BY <1>2, <2>2
  <2>6. k * (when - p.accruedAt) \in Nat
    BY <2>4, <2>5, Products
  <2> HIDE DEF k
  <2> DEFINE due == p.carry + k * (when - p.accruedAt)
  <2>7. due \in Nat
    BY <2>2, <2>6
  <2> HIDE DEF due
  <2>8. r = [p EXCEPT !.carry = due, !.accruedAt = when]
    BY DEF due
  <2> HIDE DEF r
  <2>9. r \in Position
    BY <2>7, <2>8 DEF Position
  <2>10. /\ r.id = p.id /\ r.symbol = p.symbol /\ r.side = p.side
         /\ r.quantity = p.quantity /\ r.entry = p.entry /\ r.entryAt = p.entryAt
         /\ r.accruedAt = when /\ r.carry = due
    BY <2>8 DEF Position
  <2>11. p.carry = k * (p.accruedAt - p.entryAt)
    BY DEF CarryDue, k
  <2>12. due = k * (when - p.entryAt)
    BY <2>2, <2>4, <2>11, Distribute DEF due
  <2>13. CarryDue(r) = k * (when - p.entryAt)
    BY <2>10 DEF CarryDue, k
  <2> QED BY <2>1, <2>2, <2>9, <2>10, <2>12, <2>13
<1> QED BY <1>1, <1>2

-----------------------------------------------------------------------------
(* Changes of the account *)

\* The curve is free, and so is the cash.
LEMMA SameBooks ==
  ASSUME NEW a, NEW n \in Nat, Good(a, n), NEW b, DOMAIN b = DOMAIN a, b.cash \in Int,
         b.positions = a.positions, b.trades = a.trades, b.marks = a.marks
  PROVE  Good(b, n)
<1>1. AccountOK(b)
  BY DEF Good, AccountOK
<1>2. Named(b, n) /\ Single(b) /\ ClosedOnce(b) /\ CarryExact(b)
  BY DEF Good, Named, Single, ClosedOnce, CarryExact
<1>3. MarkedWhileHeld(b)
  BY DEF Good, MarkedWhileHeld, In
<1> QED BY <1>1, <1>2, <1>3 DEF Good

LEMMA Adding ==
  ASSUME NEW a, NEW n \in Nat, Good(a, n)
  PROVE  /\ Good(AddPoint(a), n)
         /\ AddPoint(a).positions = a.positions
         /\ AddPoint(a).trades = a.trades
<1>1. /\ DOMAIN AddPoint(a) = DOMAIN a
      /\ AddPoint(a).cash = a.cash /\ a.cash \in Int
      /\ AddPoint(a).positions = a.positions /\ AddPoint(a).trades = a.trades
      /\ AddPoint(a).marks = a.marks
  BY DEF Good, AccountOK, AddPoint
<1> QED BY <1>1, SameBooks

\* The new trade has the position's id, and nothing else has it.
LEMMA Closing ==
  ASSUME NEW a, NEW n \in Nat, Good(a, n),
         NEW p \in a.positions, NEW price \in Nat, NEW reason \in Reasons, NEW when \in Times
  PROVE  LET b == Closed(a, p, price, reason, when)
         IN  /\ Good(b, n)
             /\ b.positions = a.positions \ {p}
             /\ a.trades \subseteq b.trades
             /\ \E t \in b.trades :
                  t.position.id = p.id /\ t.exit = ExitFill(p.side, price)
<1> DEFINE held == Accrued(p, when)
           fill == ExitFill(p.side, price)
           t == [position |-> held, exit |-> fill, exitAt |-> when,
                 pnl |-> Rounded(Pnl(held, fill)), reason |-> reason]
           c == [a EXCEPT !.cash = @ + ExitCash(held, fill),
                          !.positions = @ \ {p},
                          !.trades = @ \cup {t},
                          !.marks[p.symbol] = NoLevel]
<1>1. Closed(a, p, price, reason, when) = AddPoint(c)
  BY DEF Closed
<1>2. p \in Position /\ p.carry = CarryDue(p)
  BY DEF Good, AccountOK, CarryExact
<1>3. /\ held \in Position
      /\ held.id = p.id /\ held.symbol = p.symbol /\ held.side = p.side
      /\ held.carry = CarryDue(held)
      /\ when <= held.accruedAt
  BY <1>2, Accruing
<1> HIDE DEF held
<1>4. fill \in Nat
  BY <1>2, Fills DEF Position
<1> HIDE DEF fill
<1>5. held.quantity \in Nat /\ held.entry \in Nat /\ held.carry \in Nat /\ held.fee \in Nat
  BY <1>3 DEF Position
<1>6. /\ Value(held.quantity, fill) \in Nat /\ Fee(held.quantity, fill) \in Nat
      /\ Value(held.quantity, held.entry) \in Nat
  BY <1>4, <1>5, Amounts
<1>7. ExitCash(held, fill) \in Int /\ Pnl(held, fill) \in Int
  BY <1>5, <1>6 DEF ExitCash, Pnl
<1>8. Rounded(Pnl(held, fill)) \in Int
  BY <1>7, Cents
<1>9. t \in Trade
  BY <1>3, <1>4, <1>8 DEF Trade
<1>10. t.position = held /\ t.exit = fill /\ t.exitAt = when
  OBVIOUS
<1> HIDE DEF t
<1>11. /\ DOMAIN c = DOMAIN a
       /\ c.cash = a.cash + ExitCash(held, fill)
       /\ c.positions = a.positions \ {p}
       /\ c.trades = a.trades \cup {t}
       /\ c.marks = [a.marks EXCEPT ![p.symbol] = NoLevel]
  BY DEF Good, AccountOK
<1> HIDE DEF c
<1>12. AccountOK(c)
  <2>1. c.marks \in [Symbols -> Nat]
    <3>1. a.marks \in [Symbols -> Nat] /\ NoLevel \in Nat
      BY DEF Good, AccountOK, NoLevel
    <3> QED BY <1>11, <3>1
  <2>2. c.cash \in Int
    BY <1>7, <1>11 DEF Good, AccountOK
  <2>3. c.positions \in SUBSET Position /\ c.trades \in SUBSET Trade
    BY <1>9, <1>11 DEF Good, AccountOK
  <2> QED BY <1>11, <2>1, <2>2, <2>3 DEF Good, AccountOK
<1>13. Named(c, n)
  BY <1>3, <1>10, <1>11 DEF Good, Named
<1>14. Single(c)
  BY <1>11 DEF Good, Single
<1>15. ClosedOnce(c)
  BY <1>3, <1>10, <1>11 DEF Good, Named, ClosedOnce
<1>16. MarkedWhileHeld(c)
  <2> SUFFICES ASSUME NEW s \in Symbols PROVE c.marks[s] # NoLevel <=> In(c, s) # {}
    BY DEF MarkedWhileHeld
  <2>1. CASE s = p.symbol
    <3>1. In(c, s) = {}
      BY <1>11, <2>1 DEF Good, Single, In
    <3>2. c.marks[s] = NoLevel
      BY <1>11, <2>1 DEF Good, AccountOK
    <3> QED BY <3>1, <3>2
  <2>2. CASE s # p.symbol
    <3>1. In(c, s) = In(a, s)
      BY <1>11, <2>2 DEF In
    <3>2. c.marks[s] = a.marks[s]
      BY <1>11, <2>2 DEF Good, AccountOK
    <3> QED BY <3>1, <3>2 DEF Good, MarkedWhileHeld
  <2> QED BY <2>1, <2>2
<1>17. CarryExact(c)
  BY <1>3, <1>10, <1>11 DEF Good, CarryExact
<1>18. Good(c, n)
  BY <1>12, <1>13, <1>14, <1>15, <1>16, <1>17 DEF Good
<1>19. t \in c.trades /\ t.position.id = p.id /\ t.exit = ExitFill(p.side, price)
  BY <1>3, <1>10, <1>11 DEF fill
<1> QED BY <1>1, <1>11, <1>18, <1>19, Adding

LEMMA Saving ==
  ASSUME NEW a, NEW n \in Nat, Good(a, n), NEW k \in Int
  PROVE  Good([a EXCEPT !.cash = k], n)
<1> DEFINE b == [a EXCEPT !.cash = k]
<1>1. /\ DOMAIN b = DOMAIN a
      /\ b.cash = k /\ b.positions = a.positions /\ b.trades = a.trades /\ b.marks = a.marks
  BY DEF Good, AccountOK
<1> HIDE DEF b
<1>2. Good(b, n)
  BY <1>1, SameBooks
<1> QED BY <1>2 DEF b

LEMMA Undoing ==
  ASSUME NEW a, NEW n \in Nat, Good(a, n), NEW b, Good(b, n), a.trades \subseteq b.trades
  PROVE  Good(Undone(a, b), n)
<1> DEFINE u == Undone(a, b)
<1>1. /\ DOMAIN u = DOMAIN b
      /\ u.cash = a.cash /\ a.cash \in Int
      /\ u.positions = a.positions
      /\ u.trades = a.trades
      /\ u.marks = a.marks
  BY DEF Good, AccountOK, Undone
<1> HIDE DEF u
<1>2. AccountOK(u)
  BY <1>1 DEF Good, AccountOK
<1>3. Named(u, n) /\ Single(u) /\ ClosedOnce(u) /\ CarryExact(u)
  BY <1>1 DEF Good, Named, Single, ClosedOnce, CarryExact
<1>4. MarkedWhileHeld(u)
  BY <1>1 DEF Good, MarkedWhileHeld, In
<1> QED BY <1>2, <1>3, <1>4 DEF Good, u

LEMMA NextId == ASSUME NEW a, NEW n \in Nat, Good(a, n) PROVE Good(a, n + 1)
<1>1. \A p \in a.positions : p.id \in Nat
  BY DEF Good, AccountOK, Position, Ids
<1>2. \A t \in a.trades : t.position.id \in Nat
  BY DEF Good, AccountOK, Trade, Position, Ids
<1>3. Named(a, n + 1)
  BY <1>1, <1>2 DEF Good, Named
<1> QED BY <1>3 DEF Good

LEMMA Clearing ==
  ASSUME NEW a, NEW n \in Nat, Good(a, n), now \in Times, NEW o \in Orders
  PROVE  /\ Good(Cleared(a, o), n)
         /\ In(Cleared(a, o), o.symbol) = {}
         /\ a.trades \subseteq Cleared(a, o).trades
<1>1. CASE In(a, o.symbol) = {}
  BY <1>1 DEF Cleared
<1>2. CASE In(a, o.symbol) # {}
  <2> DEFINE p == CHOOSE p \in In(a, o.symbol) : TRUE
  <2>1. p \in In(a, o.symbol)
    BY <1>2
  <2>2. Cleared(a, o) = Closed(a, p, o.price, "signal", now)
    BY <1>2 DEF Cleared
  <2> HIDE DEF p
  <2>3. p \in a.positions /\ p.symbol = o.symbol
    BY <2>1 DEF In
  <2>4. o.price \in Nat /\ "signal" \in Reasons
    BY ConstantsAssumption DEF Reasons
  <2>5. /\ Good(Cleared(a, o), n)
        /\ Cleared(a, o).positions = a.positions \ {p}
        /\ a.trades \subseteq Cleared(a, o).trades
    BY <2>2, <2>3, <2>4, Closing
  <2>6. In(Cleared(a, o), o.symbol) = {}
    BY <2>3, <2>5 DEF In, Good, Single
  <2> QED BY <2>5, <2>6
<1> QED BY <1>1, <1>2

LEMMA OpeningPosition ==
  ASSUME NEW a, calls \in Nat, calls < MaxCalls, Good(a, calls), now \in Times,
         NEW o \in Orders, In(a, o.symbol) = {}, NEW lots \in Nat \ {0}
  PROVE  Good(Opened(a, o, lots), calls + 1)
<1> DEFINE fill  == EntryFill(o.side, o.price)
           value == Value(lots, fill)
           fee   == Fee(lots, fill)
           margin == IF o.side = "long" THEN 0 ELSE value
           p == [id |-> calls + 1, symbol |-> o.symbol, side |-> o.side,
                 quantity |-> lots, entry |-> fill, entryAt |-> now,
                 stop |-> o.stop, take |-> o.take, fee |-> fee,
                 margin |-> margin, carry |-> 0, accruedAt |-> now]
           cash == (IF o.side = "long" THEN a.cash - value ELSE a.cash + value) - fee
           b == [a EXCEPT !.cash = (IF o.side = "long" THEN @ - value ELSE @ + value) - fee,
                          !.positions = @ \cup {p},
                          !.marks[o.symbol] = fill]
<1>1. Opened(a, o, lots) = AddPoint(b)
  BY DEF Opened
<1>2. /\ o.symbol \in Symbols /\ o.side \in Sides /\ o.price \in Nat \ {0}
      /\ o.stop \in Nat /\ o.take \in Nat
  BY ConstantsAssumption
<1>3. fill \in Nat \ {0}
  BY <1>2, Fills
<1> HIDE DEF fill
<1>4. value \in Nat /\ fee \in Nat
  BY <1>3, Amounts
<1> HIDE DEF value, fee
<1>5. margin \in Nat
  BY <1>4
<1> HIDE DEF margin
<1>6. calls + 1 \in Ids
  BY ConstantsAssumption DEF Ids
<1>7. p \in Position
  BY <1>2, <1>3, <1>4, <1>5, <1>6 DEF Position
<1>8. /\ p.id = calls + 1 /\ p.symbol = o.symbol /\ p.carry = 0
      /\ p.quantity = lots /\ p.entry = fill /\ p.side = o.side
      /\ p.accruedAt = now /\ p.entryAt = now
  OBVIOUS
<1> HIDE DEF p
<1>9. p.carry = CarryDue(p)
  <2>1. CarryRate(o.side) \in Nat
    BY ConstantsAssumption DEF CarryRate
  <2>2. lots * fill * CarryRate(o.side) \in Nat
    BY <1>3, <2>1, Products
  <2>3. now - now = 0
    BY ConstantsAssumption DEF Times
  <2>4. (lots * fill * CarryRate(o.side)) * 0 = 0
    BY <2>2
  <2> QED BY <1>8, <2>3, <2>4 DEF CarryDue
<1>10. /\ DOMAIN b = DOMAIN a
       /\ b.cash = cash
       /\ b.positions = a.positions \cup {p}
       /\ b.trades = a.trades
       /\ b.marks = [a.marks EXCEPT ![o.symbol] = fill]
  BY DEF Good, AccountOK
<1> HIDE DEF b
<1>11. AccountOK(b)
  <2>1. a.cash \in Int /\ a.marks \in [Symbols -> Nat]
    BY DEF Good, AccountOK
  <2>2. cash \in Int
    BY <1>4, <2>1
  <2>3. b.marks \in [Symbols -> Nat]
    BY <1>3, <1>10, <2>1
  <2> QED BY <1>7, <1>10, <2>2, <2>3 DEF Good, AccountOK
<1>12. /\ \A q \in a.positions : q.id \in Nat /\ q.id <= calls
       /\ \A t \in a.trades : t.position.id \in Nat /\ t.position.id <= calls
  BY DEF Good, Named, AccountOK, Trade, Position, Ids
<1>13. Named(b, calls + 1)
  BY <1>8, <1>10, <1>12 DEF Good, Named
<1>14. Single(b)
  BY <1>8, <1>10 DEF Good, Single, In
<1>15. ClosedOnce(b)
  BY <1>8, <1>10, <1>12 DEF Good, ClosedOnce
<1>16. MarkedWhileHeld(b)
  <2> SUFFICES ASSUME NEW s \in Symbols PROVE b.marks[s] # NoLevel <=> In(b, s) # {}
    BY DEF MarkedWhileHeld
  <2>1. CASE s = o.symbol
    <3>1. p \in In(b, s)
      BY <1>8, <1>10, <2>1 DEF In
    <3>2. b.marks[s] = fill
      BY <1>10, <2>1 DEF Good, AccountOK
    <3> QED BY <1>3, <3>1, <3>2 DEF NoLevel
  <2>2. CASE s # o.symbol
    <3>1. In(b, s) = In(a, s)
      BY <1>8, <1>10, <2>2 DEF In
    <3>2. b.marks[s] = a.marks[s]
      BY <1>10, <2>2 DEF Good, AccountOK
    <3> QED BY <3>1, <3>2 DEF Good, MarkedWhileHeld
  <2> QED BY <2>1, <2>2
<1>17. CarryExact(b)
  BY <1>9, <1>10 DEF Good, CarryExact
<1>18. Good(b, calls + 1)
  BY <1>11, <1>13, <1>14, <1>15, <1>16, <1>17 DEF Good
<1> QED BY <1>1, <1>18, Adding

LEMMA AccruingAll ==
  ASSUME NEW a, NEW n \in Nat, Good(a, n), NEW when \in Times
  PROVE  LET b == [a EXCEPT !.positions = {Accrued(p, when) : p \in @}]
         IN  /\ Good(b, n)
             /\ b.trades = a.trades
             /\ \A s \in Symbols : In(b, s) = {} <=> In(a, s) = {}
<1> DEFINE b == [a EXCEPT !.positions = {Accrued(p, when) : p \in @}]
<1>1. /\ DOMAIN b = DOMAIN a
      /\ b.cash = a.cash /\ b.trades = a.trades /\ b.marks = a.marks
      /\ b.positions = {Accrued(p, when) : p \in a.positions}
  BY DEF Good, AccountOK
<1> HIDE DEF b
<1>2. \A p \in a.positions :
        LET r == Accrued(p, when)
        IN  r \in Position /\ r.id = p.id /\ r.symbol = p.symbol /\ r.carry = CarryDue(r)
  BY Accruing DEF Good, AccountOK, CarryExact
<1>3. /\ \A p \in a.positions : \E r \in b.positions :
           r = Accrued(p, when) /\ r.id = p.id /\ r.symbol = p.symbol
      /\ \A r \in b.positions : \E p \in a.positions :
           /\ r = Accrued(p, when) /\ r.id = p.id /\ r.symbol = p.symbol
           /\ r \in Position /\ r.carry = CarryDue(r)
  BY <1>1, <1>2
<1>4. AccountOK(b)
  BY <1>1, <1>3 DEF Good, AccountOK
<1>5. Named(b, n)
  BY <1>1, <1>3 DEF Good, Named
<1>6. Single(b)
  BY <1>3 DEF Good, Single
<1>7. ClosedOnce(b)
  BY <1>1, <1>3 DEF Good, ClosedOnce
<1>8. \A s \in Symbols : In(b, s) = {} <=> In(a, s) = {}
  BY <1>3 DEF In
<1>9. MarkedWhileHeld(b)
  BY <1>1, <1>8 DEF Good, MarkedWhileHeld
<1>10. CarryExact(b)
  BY <1>1, <1>3 DEF Good, CarryExact
<1> QED BY <1>1, <1>4, <1>5, <1>6, <1>7, <1>8, <1>9, <1>10 DEF Good, b

LEMMA Marking ==
  ASSUME NEW a, NEW n \in Nat, Good(a, n), NEW s \in Symbols,
         NEW price \in Nat \ {0}, NEW when \in Times
  PROVE  /\ Good(Marked(a, s, price, when), n)
         /\ Marked(a, s, price, when).trades = a.trades
<1> DEFINE b == [a EXCEPT !.positions = {Accrued(p, when) : p \in @}]
           c == [b EXCEPT !.marks[s] = price * Scale]
<1>1. /\ Good(b, n) /\ b.trades = a.trades
      /\ In(b, s) = {} <=> In(a, s) = {}
  BY AccruingAll
<1>2. Marked(a, s, price, when) = IF In(a, s) = {} THEN b ELSE AddPoint(c)
  BY DEF Marked
<1> HIDE DEF b
<1>3. CASE In(a, s) = {}
  BY <1>1, <1>2, <1>3
<1>4. CASE In(a, s) # {}
  <2>1. price * Scale \in Nat \ {0}
    BY ConstantsAssumption, Products
  <2>2. /\ DOMAIN c = DOMAIN b
        /\ c.cash = b.cash /\ c.positions = b.positions /\ c.trades = b.trades
        /\ c.marks = [b.marks EXCEPT ![s] = price * Scale]
    BY <1>1 DEF Good, AccountOK
  <2> HIDE DEF c
  <2>3. AccountOK(c)
    <3>1. b.marks \in [Symbols -> Nat]
      BY <1>1 DEF Good, AccountOK
    <3>2. c.marks \in [Symbols -> Nat]
      BY <2>1, <2>2, <3>1
    <3> QED BY <1>1, <2>2, <3>2 DEF Good, AccountOK
  <2>4. Named(c, n) /\ Single(c) /\ ClosedOnce(c) /\ CarryExact(c)
    BY <1>1, <2>2 DEF Good, Named, Single, ClosedOnce, CarryExact
  <2>5. MarkedWhileHeld(c)
    <3> SUFFICES ASSUME NEW x \in Symbols PROVE c.marks[x] # NoLevel <=> In(c, x) # {}
      BY DEF MarkedWhileHeld
    <3>1. In(c, x) = In(b, x)
      BY <2>2 DEF In
    <3>2. CASE x = s
      BY <1>1, <1>4, <2>1, <2>2, <3>1, <3>2 DEF Good, AccountOK, NoLevel
    <3>3. CASE x # s
      BY <1>1, <2>2, <3>1, <3>3 DEF Good, AccountOK, MarkedWhileHeld
    <3> QED BY <3>2, <3>3
  <2>6. Good(c, n)
    BY <2>3, <2>4, <2>5 DEF Good
  <2> QED BY <1>1, <1>2, <1>4, <2>2, <2>6, Adding
<1> QED BY <1>3, <1>4

\* A trade of p that its stop allows.
StoppedOut(t, p) ==
    /\ t.position.id = p.id
    /\ IF p.side = "long" THEN t.exit <= ExitFill("long", p.stop)
                          ELSE t.exit >= ExitFill("short", p.stop)

LEMMA Stopping ==
  ASSUME NEW p \in Position, NEW bar \in Bars
  PROVE  /\ StopPrice(p, bar) \in Nat
         /\ IF p.side = "long"
            THEN ExitFill("long", StopPrice(p, bar)) <= ExitFill("long", p.stop)
            ELSE ExitFill("short", StopPrice(p, bar)) >= ExitFill("short", p.stop)
<1>1. p.stop \in Nat /\ bar.open \in Nat
  BY ConstantsAssumption DEF Position
<1>2. /\ StopPrice(p, bar) \in Nat
      /\ p.side = "long" => StopPrice(p, bar) <= p.stop
      /\ p.side # "long" => StopPrice(p, bar) >= p.stop
  BY <1>1 DEF StopPrice
<1>3. \A x \in Nat : Received(x) \in Nat /\ Paid(x) \in Nat
  BY Fills
<1> QED BY <1>1, <1>2, <1>3, FillsGrow DEF ExitFill

LEMMA Exiting ==
  ASSUME NEW a, NEW n \in Nat, Good(a, n), NEW p \in a.positions,
         NEW bar \in Bars, NEW when \in Times
  PROVE  /\ Good(Exited(a, p, bar, when), n)
         /\ StopHit(p, bar) => \E t \in Exited(a, p, bar, when).trades : StoppedOut(t, p)
<1> DEFINE b == Exited(a, p, bar, when)
<1>1. p \in Position /\ p.take \in Nat
  BY DEF Good, AccountOK, Position
<1>2. CASE StopHit(p, bar)
  <2>1. b = Closed(a, p, StopPrice(p, bar), "stop_loss", when)
    BY <1>2 DEF Exited
  <2>2. StopPrice(p, bar) \in Nat /\ "stop_loss" \in Reasons
    BY <1>1, Stopping DEF Reasons
  <2>3. /\ Good(b, n)
        /\ \E t \in b.trades :
             t.position.id = p.id /\ t.exit = ExitFill(p.side, StopPrice(p, bar))
    BY <2>1, <2>2, Closing
  <2>4. p.side = "long" \/ p.side = "short"
    BY <1>1 DEF Position, Sides
  <2> QED BY <1>1, <2>3, <2>4, Stopping DEF StoppedOut
<1>3. CASE ~StopHit(p, bar) /\ TakeHit(p, bar)
  <2>1. b = Closed(a, p, p.take, "take_profit", when)
    BY <1>3 DEF Exited
  <2> QED BY <1>1, <1>3, <2>1, Closing DEF Reasons
<1>4. CASE ~StopHit(p, bar) /\ ~TakeHit(p, bar)
  BY <1>4 DEF Exited
<1> QED BY <1>2, <1>3, <1>4

-----------------------------------------------------------------------------
(* Sums over the positions and the trades *)

\* The account is typed with its curve, and holds finitely many records.
Finite(a) == IsFiniteSet(a.positions) /\ IsFiniteSet(a.trades)
Solid(a)  == a \in Account /\ Finite(a)

Worths(a)  == [p \in a.positions |-> Worth(p, a.marks)]
Margins(a) == [p \in a.positions |-> p.margin]
Results(a) == [t \in a.trades |-> t.pnl]
Entries(a) == [p \in a.positions |-> EntryCash(p)]

LEMMA OpeningType == Opening \in Int
<1>1. Capital \in Nat /\ Scale \in Nat
  BY ConstantsAssumption
<1>2. Capital * Scale \in Nat
  BY <1>1, Products
<1> QED BY <1>1, <1>2, Products DEF Opening

LEMMA PositionAmounts ==
  ASSUME NEW p \in Position
  PROVE  /\ p.margin \in Int /\ EntryCash(p) \in Int
         /\ \A marks \in [Symbols -> Nat] : Worth(p, marks) \in Int
<1>1. /\ p.quantity \in Nat /\ p.entry \in Nat /\ p.fee \in Nat /\ p.carry \in Nat
      /\ p.margin \in Nat /\ p.symbol \in Symbols
  BY DEF Position
<1>2. Value(p.quantity, p.entry) \in Nat
  BY <1>1, Amounts
<1>3. ASSUME NEW marks \in [Symbols -> Nat] PROVE Worth(p, marks) \in Int
  <2>1. Value(p.quantity, marks[p.symbol]) \in Nat
    BY <1>1, Amounts
  <2> QED BY <1>1, <2>1 DEF Worth
<1> QED BY <1>1, <1>2, <1>3 DEF EntryCash

\* What is added up are integers, and so are the sums.
LEMMA TermsTyped ==
  ASSUME NEW a, AccountOK(a)
  PROVE  /\ DOMAIN Worths(a) = a.positions /\ \A p \in a.positions : Worths(a)[p] \in Int
         /\ DOMAIN Margins(a) = a.positions /\ \A p \in a.positions : Margins(a)[p] \in Int
         /\ DOMAIN Entries(a) = a.positions /\ \A p \in a.positions : Entries(a)[p] \in Int
         /\ DOMAIN Results(a) = a.trades /\ \A t \in a.trades : Results(a)[t] \in Int
<1>1. \A p \in a.positions :
        p.margin \in Int /\ EntryCash(p) \in Int /\ Worth(p, a.marks) \in Int
  BY PositionAmounts DEF AccountOK
<1>2. \A t \in a.trades : t.pnl \in Int
  BY DEF AccountOK, Trade
<1> QED BY <1>1, <1>2 DEF Worths, Margins, Entries, Results

LEMMA SumsTyped ==
  ASSUME NEW a, AccountOK(a), Finite(a)
  PROVE  /\ SumFunction(Worths(a)) \in Int /\ SumFunction(Margins(a)) \in Int
         /\ SumFunction(Entries(a)) \in Int /\ SumFunction(Results(a)) \in Int
<1>1. SumFunction(Worths(a)) \in Int
  BY TermsTyped, SumTyped DEF Finite
<1>2. SumFunction(Margins(a)) \in Int
  BY TermsTyped, SumTyped DEF Finite
<1>3. SumFunction(Entries(a)) \in Int
  BY TermsTyped, SumTyped DEF Finite
<1>4. SumFunction(Results(a)) \in Int
  BY TermsTyped, SumTyped DEF Finite
<1> QED BY <1>1, <1>2, <1>3, <1>4

LEMMA Totals ==
  ASSUME NEW a, AccountOK(a), Finite(a)
  PROVE  /\ Equity(a) = a.cash + SumFunction(Worths(a)) /\ Equity(a) \in Int
         /\ MarginUsed(a) = SumFunction(Margins(a)) /\ MarginUsed(a) \in Int
         /\ ExpectedCash(a) = Opening + SumFunction(Results(a)) + SumFunction(Entries(a))
         /\ ExpectedCash(a) \in Int
<1>1. /\ Equity(a) = a.cash + SumFunction(Worths(a))
      /\ MarginUsed(a) = SumFunction(Margins(a))
      /\ ExpectedCash(a) = Opening + SumFunction(Results(a)) + SumFunction(Entries(a))
  BY DEF Equity, Worths, MarginUsed, Margins, ExpectedCash, Results, Entries
<1>2. a.cash \in Int
  BY DEF AccountOK
<1> QED BY <1>1, <1>2, SumsTyped, OpeningType

\* One position more: b's are a's and p.
LEMMA OnePositionMore ==
  ASSUME NEW a, AccountOK(a), NEW b, AccountOK(b), Finite(b),
         NEW p \in b.positions, a.positions = b.positions \ {p}
  PROVE  /\ SumFunction(Entries(b)) = EntryCash(p) + SumFunction(Entries(a))
         /\ SumFunction(Margins(b)) = p.margin + SumFunction(Margins(a))
         /\ (\A q \in a.positions : a.marks[q.symbol] = b.marks[q.symbol])
              => SumFunction(Worths(b)) = Worth(p, b.marks) + SumFunction(Worths(a))
<1>1. IsFiniteSet(b.positions)
  BY DEF Finite
<1>2. SumFunction(Entries(b)) = EntryCash(p) + SumFunction(Entries(a))
  <2> DEFINE f == Entries(b)
             g == Entries(a)
  <2>1. /\ DOMAIN f = b.positions /\ \A x \in DOMAIN f : f[x] \in Int
        /\ DOMAIN g = DOMAIN f \ {p}
    BY TermsTyped
  <2>2. f[p] = EntryCash(p) /\ \A x \in DOMAIN g : g[x] = f[x]
    BY DEF Entries
  <2> HIDE DEF f, g
  <2>3. IsFiniteSet(DOMAIN f) /\ p \in DOMAIN f
    BY <1>1, <2>1
  <2>4. SumFunction(f) = f[p] + SumFunction(g)
    BY <2>1, <2>2, <2>3, SumSplit
  <2> QED BY <2>2, <2>4 DEF f, g
<1>3. SumFunction(Margins(b)) = p.margin + SumFunction(Margins(a))
  <2> DEFINE f == Margins(b)
             g == Margins(a)
  <2>1. /\ DOMAIN f = b.positions /\ \A x \in DOMAIN f : f[x] \in Int
        /\ DOMAIN g = DOMAIN f \ {p}
    BY TermsTyped
  <2>2. f[p] = p.margin /\ \A x \in DOMAIN g : g[x] = f[x]
    BY DEF Margins
  <2> HIDE DEF f, g
  <2>3. IsFiniteSet(DOMAIN f) /\ p \in DOMAIN f
    BY <1>1, <2>1
  <2>4. SumFunction(f) = f[p] + SumFunction(g)
    BY <2>1, <2>2, <2>3, SumSplit
  <2> QED BY <2>2, <2>4 DEF f, g
<1>4. ASSUME \A q \in a.positions : a.marks[q.symbol] = b.marks[q.symbol]
      PROVE  SumFunction(Worths(b)) = Worth(p, b.marks) + SumFunction(Worths(a))
  <2> DEFINE f == Worths(b)
             g == Worths(a)
  <2>1. /\ DOMAIN f = b.positions /\ \A x \in DOMAIN f : f[x] \in Int
        /\ DOMAIN g = DOMAIN f \ {p}
    BY TermsTyped
  <2>2. f[p] = Worth(p, b.marks) /\ \A x \in DOMAIN g : g[x] = f[x]
    BY <1>4 DEF Worths, Worth
  <2> HIDE DEF f, g
  <2>3. IsFiniteSet(DOMAIN f) /\ p \in DOMAIN f
    BY <1>1, <2>1
  <2>4. SumFunction(f) = f[p] + SumFunction(g)
    BY <2>1, <2>2, <2>3, SumSplit
  <2> QED BY <2>2, <2>4 DEF f, g
<1> QED BY <1>2, <1>3, <1>4

\* One trade more: b's are a's and t.
LEMMA OneTradeMore ==
  ASSUME NEW a, AccountOK(a), NEW b, AccountOK(b), Finite(b),
         NEW t \in b.trades, a.trades = b.trades \ {t}
  PROVE  /\ SumFunction(Results(b)) = t.pnl + SumFunction(Results(a))
         /\ Cardinality(b.trades) = Cardinality(a.trades) + 1
         /\ Cardinality(a.trades) \in Nat
<1>1. IsFiniteSet(b.trades)
  BY DEF Finite
<1> DEFINE f == Results(b)
           g == Results(a)
<1>2. /\ DOMAIN f = b.trades /\ \A x \in DOMAIN f : f[x] \in Int
      /\ DOMAIN g = DOMAIN f \ {t}
  BY TermsTyped
<1>3. f[t] = t.pnl /\ \A x \in DOMAIN g : g[x] = f[x]
  BY DEF Results
<1> HIDE DEF f, g
<1>4. IsFiniteSet(DOMAIN f) /\ t \in DOMAIN f
  BY <1>1, <1>2
<1>5. SumFunction(f) = f[t] + SumFunction(g)
  BY <1>2, <1>3, <1>4, SumSplit
<1>6. /\ Cardinality(a.trades) = Cardinality(b.trades) - 1
      /\ IsFiniteSet(a.trades)
  BY <1>1, FS_RemoveElement, FS_Subset
<1>7. Cardinality(b.trades) \in Nat /\ Cardinality(a.trades) \in Nat
  BY <1>1, <1>6, FS_CardinalityType
<1> QED BY <1>3, <1>5, <1>6, <1>7 DEF f, g

-----------------------------------------------------------------------------
(* The balance against what it should be *)

Drift(a) == a.cash - ExpectedCash(a)

\* Half a cent for each of the k saves and for each trade.
Balanced(a, k) ==
    /\ 2 * Drift(a) <= Cent * (k + Cardinality(a.trades))
    /\ -2 * Drift(a) <= Cent * (k + Cardinality(a.trades))

LEMMA SolidFacts ==
  ASSUME NEW a, Solid(a)
  PROVE  /\ AccountOK(a) /\ Finite(a) /\ a.curve \in Seq(Int)
         /\ DOMAIN a = {"cash", "positions", "trades", "marks", "curve"}
         /\ Cardinality(a.trades) \in Nat /\ Drift(a) \in Int
<1>1. /\ AccountOK(a) /\ a.curve \in Seq(Int) /\ a.cash \in Int
      /\ DOMAIN a = {"cash", "positions", "trades", "marks", "curve"}
  BY DEF Solid, Account, AccountOK
<1>2. Finite(a)
  BY DEF Solid
<1>3. Cardinality(a.trades) \in Nat
  BY <1>2, FS_CardinalityType DEF Finite
<1>4. Drift(a) \in Int
  BY <1>1, <1>2, Totals DEF Drift
<1> QED BY <1>1, <1>2, <1>3, <1>4

\* Rounding moves an amount by half a cent at most.
LEMMA RoundingError ==
  ASSUME NEW x \in Int
  PROVE  /\ Rounded(x) \in Int
         /\ 2 * (x - Rounded(x)) <= Cent /\ -2 * (x - Rounded(x)) <= Cent
<1> DEFINE q == (2 * x + Cent) \div (2 * Cent)
           r == (2 * x + Cent) % (2 * Cent)
<1>1. Cent \in Nat \ {0}
  BY ConstantsAssumption
<1>2. q \in Int /\ r \in 0 .. (2 * Cent - 1) /\ 2 * x + Cent = (2 * Cent) * q + r
  BY <1>1
<1>3. Rounded(x) = Cent * q
  BY DEF Rounded
<1> HIDE DEF q, r
<1>4. Cent * q \in Int /\ (2 * Cent) * q = 2 * (Cent * q)
  BY <1>1, <1>2
<1> DEFINE y == Cent * q
<1>5. y \in Int /\ 2 * x + Cent = 2 * y + r /\ Rounded(x) = y
  BY <1>2, <1>3, <1>4
<1> HIDE DEF y
<1> QED BY <1>1, <1>2, <1>5

\* One step more allows another half cent.
LEMMA OneStepMore ==
  ASSUME NEW n \in Nat, NEW d \in Int, NEW e \in Int,
         2 * d <= Cent * n, -2 * d <= Cent * n, 2 * e <= Cent, -2 * e <= Cent
  PROVE  2 * (d + e) <= Cent * (n + 1) /\ -2 * (d + e) <= Cent * (n + 1)
<1>1. Cent \in Nat
  BY ConstantsAssumption
<1>2. Cent * (n + 1) = Cent * n + Cent /\ Cent * n \in Nat
  BY <1>1
<1> DEFINE c == Cent * n
<1> HIDE DEF c
<1>3. c \in Nat /\ Cent * (n + 1) = c + Cent /\ 2 * d <= c /\ -2 * d <= c
  BY <1>2 DEF c
<1> QED BY <1>1, <1>3

\* Fields of an account that are not in a sum.
LEMMA SameSums ==
  ASSUME NEW a, NEW b, b.positions = a.positions, b.trades = a.trades
  PROVE  /\ ExpectedCash(b) = ExpectedCash(a)
         /\ MarginUsed(b) = MarginUsed(a)
         /\ b.marks = a.marks /\ b.cash = a.cash => Equity(b) = Equity(a)
  BY DEF ExpectedCash, MarginUsed, Equity

\* A point on the curve changes nothing else.
LEMMA Pointed ==
  ASSUME NEW a, Solid(a)
  PROVE  LET b == AddPoint(a)
         IN  /\ Solid(b)
             /\ b.cash = a.cash /\ b.positions = a.positions /\ b.trades = a.trades
             /\ b.marks = a.marks /\ b.curve = Append(a.curve, Equity(a))
             /\ Equity(b) = Equity(a) /\ MarginUsed(b) = MarginUsed(a)
             /\ Drift(b) = Drift(a)
             /\ \A k : Balanced(a, k) => Balanced(b, k)
<1> DEFINE b == AddPoint(a)
<1>1. Equity(a) \in Int
  BY SolidFacts, Totals
<1>2. /\ b.cash = a.cash /\ b.positions = a.positions /\ b.trades = a.trades
      /\ b.marks = a.marks /\ b.curve = Append(a.curve, Equity(a))
      /\ DOMAIN b = DOMAIN a
  BY DEF AddPoint, Solid, Account
<1>3. b \in Account
  <2> DEFINE c == Append(a.curve, Equity(a))
  <2>1. c \in Seq(Int)
    BY <1>1, SolidFacts
  <2>2. b = [a EXCEPT !.curve = c]
    BY DEF AddPoint
  <2> HIDE DEF c, b
  <2> QED BY <2>1, <2>2 DEF Solid, Account
<1> HIDE DEF b
<1>4. Solid(b)
  BY <1>2, <1>3 DEF Solid, Finite
<1>5. /\ Equity(b) = Equity(a) /\ MarginUsed(b) = MarginUsed(a)
      /\ ExpectedCash(b) = ExpectedCash(a)
  BY <1>2, SameSums
<1>6. Drift(b) = Drift(a)
  BY <1>2, <1>5 DEF Drift
<1>7. \A k : Balanced(a, k) => Balanced(b, k)
  BY <1>2, <1>6 DEF Balanced
<1> QED BY <1>2, <1>4, <1>5, <1>6, <1>7 DEF b

\* Accrual leaves what was paid at the entry alone.
LEMMA AccrualKeepsEntry ==
  ASSUME NEW p \in Position, NEW when
  PROVE  EntryCash(Accrued(p, when)) = EntryCash(p)
<1> DEFINE r == Accrued(p, when)
<1>1. r.side = p.side /\ r.quantity = p.quantity /\ r.entry = p.entry /\ r.fee = p.fee
  BY DEF Accrued, Position
<1> HIDE DEF r
<1>2. EntryCash(r) = EntryCash(p)
  BY <1>1 DEF EntryCash
<1> QED BY <1>2 DEF r

\* The result of a trade is what its exit brings and its entry had cost.
LEMMA ResultIsBothEnds ==
  ASSUME NEW p \in Position, NEW fill \in Nat
  PROVE  /\ Pnl(p, fill) = ExitCash(p, fill) + EntryCash(p)
         /\ ExitCash(p, fill) \in Int /\ Pnl(p, fill) \in Int
<1>1. p.quantity \in Nat /\ p.entry \in Nat /\ p.carry \in Nat /\ p.fee \in Nat
  BY DEF Position
<1>2. /\ Value(p.quantity, fill) \in Nat /\ Fee(p.quantity, fill) \in Nat
      /\ Value(p.quantity, p.entry) \in Nat
  BY <1>1, Amounts
<1> QED BY <1>1, <1>2 DEF ExitCash, EntryCash, Pnl

\* Closing moves the drift by the rounding of one result.
LEMMA ClosingBalance ==
  ASSUME NEW a, NEW n \in Nat, Good(a, n), Solid(a),
         NEW p \in a.positions, NEW price \in Nat, NEW reason \in Reasons, NEW when \in Times
  PROVE  LET b == Closed(a, p, price, reason, when)
         IN  /\ Solid(b)
             /\ \A k \in Nat : Balanced(a, k) => Balanced(b, k)
             /\ \E e \in Int : b.curve = Append(a.curve, e)
<1> DEFINE held == Accrued(p, when)
           fill == ExitFill(p.side, price)
           pnl == Pnl(held, fill)
           cash == a.cash + ExitCash(held, fill)
           t == [position |-> held, exit |-> fill, exitAt |-> when,
                 pnl |-> Rounded(Pnl(held, fill)), reason |-> reason]
           marks == [a.marks EXCEPT ![p.symbol] = NoLevel]
           c == [a EXCEPT !.cash = @ + ExitCash(held, fill),
                          !.positions = @ \ {p},
                          !.trades = @ \cup {t},
                          !.marks[p.symbol] = NoLevel]
<1>1. Closed(a, p, price, reason, when) = AddPoint(c)
  BY DEF Closed
<1>2. p \in Position /\ p.carry = CarryDue(p)
  BY DEF Good, AccountOK, CarryExact
<1>3. held \in Position /\ held.id = p.id /\ EntryCash(held) = EntryCash(p)
  BY <1>2, Accruing, AccrualKeepsEntry
<1> HIDE DEF held
<1>4. fill \in Nat
  BY <1>2, Fills DEF Position
<1> HIDE DEF fill
<1>5. /\ pnl = ExitCash(held, fill) + EntryCash(held)
      /\ ExitCash(held, fill) \in Int /\ pnl \in Int
      /\ EntryCash(held) \in Int
  BY <1>3, <1>4, ResultIsBothEnds, PositionAmounts
<1>6. Rounded(pnl) \in Int /\ 2 * (pnl - Rounded(pnl)) <= Cent /\ -2 * (pnl - Rounded(pnl)) <= Cent
  BY <1>5, RoundingError
<1>7. t \in Trade /\ t.position.id = p.id /\ t.pnl = Rounded(pnl)
  BY <1>3, <1>4, <1>6 DEF Trade
<1> HIDE DEF pnl, t
<1>8. a \in Account /\ a.cash \in Int /\ a.marks \in [Symbols -> Nat]
  BY DEF Solid, Account
<1>9. cash \in Int /\ marks \in [Symbols -> Nat]
  <2>1. cash \in Int
    BY <1>5, <1>8
  <2>2. marks \in [Symbols -> Nat]
    BY <1>8 DEF NoLevel
  <2> QED BY <2>1, <2>2
<1>10. /\ c.cash = cash /\ c.positions = a.positions \ {p} /\ c.trades = a.trades \cup {t}
       /\ c.marks = marks /\ c.curve = a.curve
  BY <1>8 DEF Account
<1>11. c = [a EXCEPT !.cash = cash, !.positions = a.positions \ {p},
                     !.trades = a.trades \cup {t}, !.marks = marks]
  BY <1>8 DEF Account
<1> HIDE DEF c, cash, marks
<1>12. c \in Account
  BY <1>7, <1>8, <1>9, <1>11 DEF Account
<1>13. IsFiniteSet(c.positions) /\ IsFiniteSet(c.trades)
  <2>1. IsFiniteSet(a.positions) /\ IsFiniteSet(a.trades)
    BY DEF Solid, Finite
  <2> QED BY <1>10, <2>1, FS_RemoveElement, FS_AddElement
<1>14. Solid(c)
  BY <1>12, <1>13 DEF Solid, Finite
<1>15. SumFunction(Entries(a)) = EntryCash(p) + SumFunction(Entries(c))
  BY <1>10, <1>14, SolidFacts, OnePositionMore
<1>16. t \notin a.trades
  BY <1>7 DEF Good, ClosedOnce
<1>17. /\ SumFunction(Results(c)) = t.pnl + SumFunction(Results(a))
       /\ Cardinality(c.trades) = Cardinality(a.trades) + 1
       /\ Cardinality(a.trades) \in Nat
  <2>1. t \in c.trades /\ a.trades = c.trades \ {t}
    BY <1>10, <1>16
  <2> QED BY <1>14, <2>1, SolidFacts, OneTradeMore
<1>18. Drift(c) = Drift(a) + (pnl - Rounded(pnl))
  <2>1. /\ ExpectedCash(a) = Opening + SumFunction(Results(a)) + SumFunction(Entries(a))
        /\ ExpectedCash(c) = Opening + SumFunction(Results(c)) + SumFunction(Entries(c))
    BY <1>14, SolidFacts, Totals
  <2>2. /\ SumFunction(Results(a)) \in Int /\ SumFunction(Entries(a)) \in Int
        /\ SumFunction(Results(c)) \in Int /\ SumFunction(Entries(c)) \in Int
        /\ Opening \in Int
    BY <1>14, SolidFacts, SumsTyped, OpeningType
  <2>3. c.cash = a.cash + ExitCash(held, fill)
    BY <1>10 DEF cash
  <2> QED BY <1>3, <1>5, <1>6, <1>7, <1>8, <1>15, <1>17, <2>1, <2>2, <2>3 DEF Drift
<1>19. ASSUME NEW k \in Nat, Balanced(a, k) PROVE Balanced(c, k)
  <2> DEFINE m == k + Cardinality(a.trades)
             d == Drift(a)
             e == pnl - Rounded(pnl)
  <2>1. /\ m \in Nat /\ d \in Int /\ e \in Int
        /\ 2 * d <= Cent * m /\ -2 * d <= Cent * m /\ 2 * e <= Cent /\ -2 * e <= Cent
    <3>1. m \in Nat /\ e \in Int
      BY <1>5, <1>6, <1>17
    <3>2. d \in Int
      BY SolidFacts
    <3>3. 2 * d <= Cent * m /\ -2 * d <= Cent * m
      BY <1>19 DEF Balanced
    <3>4. 2 * e <= Cent /\ -2 * e <= Cent
      BY <1>6
    <3> QED BY <3>1, <3>2, <3>3, <3>4
  <2>2. k + Cardinality(c.trades) = m + 1 /\ Drift(c) = d + e
    BY <1>17, <1>18
  <2> HIDE DEF m, d, e
  <2>3. 2 * (d + e) <= Cent * (m + 1) /\ -2 * (d + e) <= Cent * (m + 1)
    BY <2>1, OneStepMore
  <2> QED BY <2>2, <2>3 DEF Balanced
<1>20. /\ Solid(AddPoint(c))
       /\ AddPoint(c).curve = Append(c.curve, Equity(c))
       /\ \A k : Balanced(c, k) => Balanced(AddPoint(c), k)
  BY <1>14, Pointed
<1>21. Equity(c) \in Int
  BY <1>14, SolidFacts, Totals
<1> QED BY <1>1, <1>10, <1>19, <1>20, <1>21

\* What an entry costs is in the balance and in the entries: the drift stays.
LEMMA OpeningBalance ==
  ASSUME NEW a, calls \in Nat, calls < MaxCalls, Good(a, calls), Solid(a), now \in Times,
         NEW o \in Orders, In(a, o.symbol) = {}, NEW lots \in Nat \ {0},
         NEW value, value = Value(lots, EntryFill(o.side, o.price)),
         NEW fee, fee = Fee(lots, EntryFill(o.side, o.price))
  PROVE  LET b == Opened(a, o, lots)
         IN  /\ Solid(b)
             /\ \A k \in Nat : Balanced(a, k) => Balanced(b, k)
             /\ Equity(b) = Equity(a) - fee
             /\ MarginUsed(b) = MarginUsed(a) + (IF o.side = "long" THEN 0 ELSE value)
             /\ b.cash = (IF o.side = "long" THEN a.cash - value ELSE a.cash + value) - fee
             /\ value \in Nat /\ fee \in Nat /\ value + fee > 0
<1> DEFINE fill == EntryFill(o.side, o.price)
           margin == IF o.side = "long" THEN 0 ELSE value
           p == [id |-> calls + 1, symbol |-> o.symbol, side |-> o.side,
                 quantity |-> lots, entry |-> fill, entryAt |-> now,
                 stop |-> o.stop, take |-> o.take, fee |-> fee,
                 margin |-> margin, carry |-> 0, accruedAt |-> now]
           cash == (IF o.side = "long" THEN a.cash - value ELSE a.cash + value) - fee
           marks == [a.marks EXCEPT ![o.symbol] = fill]
           b == [a EXCEPT !.cash = (IF o.side = "long" THEN @ - value ELSE @ + value) - fee,
                          !.positions = @ \cup {p},
                          !.marks[o.symbol] = fill]
<1>1. Opened(a, o, lots) = AddPoint(b)
  BY DEF Opened
<1>2. /\ o.symbol \in Symbols /\ o.side \in Sides /\ o.price \in Nat \ {0}
      /\ o.stop \in Nat /\ o.take \in Nat
  BY ConstantsAssumption
<1>3. fill \in Nat \ {0}
  BY <1>2, Fills
<1>4. value = Value(lots, fill) /\ fee = Fee(lots, fill)
  OBVIOUS
<1> HIDE DEF fill
<1>5. value \in Nat /\ fee \in Nat
  BY <1>3, <1>4, Amounts
<1>6. value # 0
  <2>1. Scale \in Nat \ {0}
    BY ConstantsAssumption
  <2>2. lots * fill \in Nat \ {0}
    BY <1>3, Products
  <2> QED BY <1>4, <2>1, <2>2, Products DEF Value
<1>7. margin \in Nat /\ (o.side = "long" => margin = 0) /\ (o.side # "long" => margin = value)
  BY <1>5
<1> HIDE DEF margin
<1>8. calls + 1 \in Ids
  BY ConstantsAssumption DEF Ids
<1>9. p \in Position
  BY <1>2, <1>3, <1>5, <1>7, <1>8 DEF Position
<1>10. /\ p.id = calls + 1 /\ p.symbol = o.symbol /\ p.carry = 0 /\ p.fee = fee
       /\ p.quantity = lots /\ p.entry = fill /\ p.side = o.side /\ p.margin = margin
  OBVIOUS
<1> HIDE DEF p
<1>11. a \in Account /\ a.cash \in Int /\ a.marks \in [Symbols -> Nat]
  BY DEF Solid, Account
<1>12. cash \in Int
  BY <1>5, <1>11
<1>13. marks \in [Symbols -> Nat] /\ marks[o.symbol] = fill
  BY <1>2, <1>3, <1>11
<1>14. \A s \in Symbols : s # o.symbol => marks[s] = a.marks[s]
  BY <1>11
<1>15. /\ b.cash = cash /\ b.positions = a.positions \cup {p} /\ b.trades = a.trades
       /\ b.marks = marks
  BY <1>11 DEF Account
<1>16. b = [a EXCEPT !.cash = cash, !.positions = a.positions \cup {p}, !.marks = marks]
  BY <1>11 DEF Account
<1> HIDE DEF b, cash, marks
<1>17. b \in Account
  BY <1>9, <1>11, <1>12, <1>13, <1>16 DEF Account
<1>18. IsFiniteSet(b.positions) /\ IsFiniteSet(b.trades)
  <2>1. IsFiniteSet(a.positions) /\ IsFiniteSet(a.trades)
    BY DEF Solid, Finite
  <2> QED BY <1>15, <2>1, FS_AddElement
<1>19. Solid(b)
  BY <1>17, <1>18 DEF Solid, Finite
<1>20. \A q \in a.positions : q.symbol \in Symbols /\ q.symbol # o.symbol
  BY <1>11 DEF In, Account, Position
<1>21. p \in b.positions /\ a.positions = b.positions \ {p}
  BY <1>10, <1>15, <1>20
<1>22. \A q \in a.positions : a.marks[q.symbol] = b.marks[q.symbol]
  BY <1>14, <1>15, <1>20
<1>23. /\ SumFunction(Entries(b)) = EntryCash(p) + SumFunction(Entries(a))
       /\ SumFunction(Margins(b)) = margin + SumFunction(Margins(a))
       /\ SumFunction(Worths(b)) = Worth(p, b.marks) + SumFunction(Worths(a))
  BY <1>10, <1>19, <1>21, <1>22, SolidFacts, OnePositionMore
<1>24. /\ SumFunction(Entries(a)) \in Int /\ SumFunction(Margins(a)) \in Int
       /\ SumFunction(Worths(a)) \in Int
  BY SolidFacts, SumsTyped
<1>25. /\ EntryCash(p) = (IF o.side = "long" THEN -value ELSE value) - fee
       /\ Worth(p, b.marks) = IF o.side = "long" THEN value ELSE -value
  <2>1. Value(p.quantity, p.entry) = value /\ Value(p.quantity, b.marks[p.symbol]) = value
    BY <1>4, <1>10, <1>13, <1>15
  <2> QED BY <1>5, <1>10, <2>1 DEF EntryCash, Worth
<1>26. Equity(b) = Equity(a) - fee
  <2>1. /\ Equity(a) = a.cash + SumFunction(Worths(a))
        /\ Equity(b) = b.cash + SumFunction(Worths(b))
    BY <1>19, SolidFacts, Totals
  <2> QED BY <1>5, <1>11, <1>15, <1>23, <1>24, <1>25, <2>1 DEF cash
<1>27. MarginUsed(b) = MarginUsed(a) + margin
  <2>1. MarginUsed(a) = SumFunction(Margins(a)) /\ MarginUsed(b) = SumFunction(Margins(b))
    BY <1>19, SolidFacts, Totals
  <2> QED BY <1>7, <1>23, <1>24, <2>1
<1>28. Drift(b) = Drift(a)
  <2>1. /\ ExpectedCash(a) = Opening + SumFunction(Results(a)) + SumFunction(Entries(a))
        /\ ExpectedCash(b) = Opening + SumFunction(Results(b)) + SumFunction(Entries(b))
    BY <1>19, SolidFacts, Totals
  <2>2. Results(b) = Results(a)
    BY <1>15 DEF Results
  <2>3. SumFunction(Results(a)) \in Int /\ Opening \in Int
    BY SolidFacts, SumsTyped, OpeningType
  <2> QED BY <1>5, <1>11, <1>15, <1>23, <1>24, <1>25, <2>1, <2>2, <2>3 DEF cash, Drift
<1>29. \A k \in Nat : Balanced(a, k) => Balanced(b, k)
  BY <1>15, <1>28 DEF Balanced
<1>30. /\ Solid(AddPoint(b)) /\ AddPoint(b).cash = b.cash
       /\ Equity(AddPoint(b)) = Equity(b) /\ MarginUsed(AddPoint(b)) = MarginUsed(b)
       /\ \A k : Balanced(b, k) => Balanced(AddPoint(b), k)
  BY <1>19, Pointed
<1>31. value + fee > 0
  BY <1>5, <1>6
<1> QED BY <1>1, <1>5, <1>15, <1>26, <1>27, <1>29, <1>30, <1>31 DEF cash, margin

\* Carry that accrues is in no entry: the drift stays.
LEMMA AccruingBalance ==
  ASSUME NEW a, NEW n \in Nat, Good(a, n), Solid(a), NEW when \in Times
  PROVE  LET b == [a EXCEPT !.positions = {Accrued(p, when) : p \in @}]
         IN  /\ Solid(b)
             /\ \A k \in Nat : Balanced(a, k) => Balanced(b, k)
<1> DEFINE b == [a EXCEPT !.positions = {Accrued(p, when) : p \in @}]
           P == {Accrued(p, when) : p \in a.positions}
           m == [p \in a.positions |-> Accrued(p, when)]
<1>1. a \in Account /\ a.cash \in Int
  BY DEF Solid, Account
<1>2. \A p \in a.positions :
        /\ Accrued(p, when) \in Position /\ Accrued(p, when).id = p.id
        /\ EntryCash(Accrued(p, when)) = EntryCash(p)
  BY Accruing, AccrualKeepsEntry DEF Good, AccountOK, CarryExact
<1>3. b = [a EXCEPT !.positions = P]
  BY <1>1 DEF Account
<1>4. b.cash = a.cash /\ b.trades = a.trades /\ b.positions = P
  BY <1>1 DEF Account
<1>5. /\ \A p \in a.positions :
           /\ m[p] \in P /\ m[p] \in Position /\ m[p].id = p.id
           /\ EntryCash(m[p]) = EntryCash(p)
      /\ \A r \in P : \E p \in a.positions : r = m[p]
  BY <1>2
<1>6. \A p, q \in a.positions : m[p] = m[q] => p = q
  <2>1. \A p, q \in a.positions : p.id = q.id => p = q
    BY DEF Good, Named
  <2> SUFFICES ASSUME NEW p \in a.positions, NEW q \in a.positions, m[p] = m[q]
               PROVE  p.id = q.id
    BY <2>1
  <2> QED BY <1>5
<1>7. P = {m[p] : p \in a.positions}
  OBVIOUS
<1> HIDE DEF b, P, m
<1>8. P \in SUBSET Position
  BY <1>5
<1>9. b \in Account
  BY <1>1, <1>3, <1>8 DEF Account
<1>10. IsFiniteSet(a.positions) /\ IsFiniteSet(a.trades)
  BY DEF Solid, Finite
<1>11. IsFiniteSet(P)
  <2>1. m \in Surjection(a.positions, P)
    BY <1>5 DEF m, Surjection
  <2> QED BY <1>10, <2>1, FS_Surjection
<1>12. Solid(b)
  BY <1>4, <1>9, <1>10, <1>11 DEF Solid, Finite
<1>13. SumFunction(Entries(a)) = SumFunction(Entries(b))
  <2> DEFINE f == Entries(a)
             g == Entries(b)
  <2>1. /\ DOMAIN f = a.positions /\ \A x \in DOMAIN f : f[x] \in Int
        /\ DOMAIN g = P
    BY <1>4, <1>12, SolidFacts, TermsTyped
  <2>2. \A x \in DOMAIN f : m[x] \in DOMAIN g /\ g[m[x]] = f[x]
    BY <1>4, <1>5, <2>1 DEF Entries
  <2> HIDE DEF f, g
  <2>3. IsFiniteSet(DOMAIN f) /\ IsFiniteSet(DOMAIN g)
    BY <1>10, <1>11, <2>1
  <2>4. \A x, y \in DOMAIN f : m[x] = m[y] => x = y
    BY <1>6, <2>1
  <2>5. \A z \in DOMAIN g : \E x \in DOMAIN f : z = m[x]
    BY <1>5, <2>1
  <2>6. SumFunction(f) = SumFunction(g)
    BY <2>1, <2>2, <2>3, <2>4, <2>5, SumRenamed
  <2> QED BY <2>6 DEF f, g
<1>14. Drift(b) = Drift(a)
  <2>1. /\ ExpectedCash(a) = Opening + SumFunction(Results(a)) + SumFunction(Entries(a))
        /\ ExpectedCash(b) = Opening + SumFunction(Results(b)) + SumFunction(Entries(b))
    BY <1>12, SolidFacts, Totals
  <2>2. Results(b) = Results(a)
    BY <1>4 DEF Results
  <2> QED BY <1>4, <1>13, <2>1, <2>2 DEF Drift
<1>15. \A k \in Nat : Balanced(a, k) => Balanced(b, k)
  BY <1>4, <1>14 DEF Balanced
<1> QED BY <1>12, <1>15 DEF b

\* Neither is a mark.
LEMMA MarkingBalance ==
  ASSUME NEW a, NEW n \in Nat, Good(a, n), Solid(a), NEW s \in Symbols,
         NEW price \in Nat \ {0}, NEW when \in Times
  PROVE  LET b == Marked(a, s, price, when)
         IN  Solid(b) /\ \A k \in Nat : Balanced(a, k) => Balanced(b, k)
<1> DEFINE b == [a EXCEPT !.positions = {Accrued(p, when) : p \in @}]
           mark == price * Scale
           marks == [b.marks EXCEPT ![s] = mark]
           c == [b EXCEPT !.marks[s] = mark]
<1>1. Marked(a, s, price, when) = IF In(a, s) = {} THEN b ELSE AddPoint(c)
  BY DEF Marked
<1>2. Solid(b) /\ \A k \in Nat : Balanced(a, k) => Balanced(b, k)
  BY AccruingBalance
<1> HIDE DEF b
<1>3. mark \in Nat
  BY ConstantsAssumption, Products
<1> HIDE DEF mark
<1>4. b \in Account /\ b.marks \in [Symbols -> Nat]
  BY <1>2 DEF Solid, Account
<1>5. marks \in [Symbols -> Nat]
  BY <1>3, <1>4
<1>6. /\ c = [b EXCEPT !.marks = marks]
      /\ c.cash = b.cash /\ c.positions = b.positions /\ c.trades = b.trades
  BY <1>4 DEF Account
<1> HIDE DEF c, marks
<1>7. c \in Account
  BY <1>4, <1>5, <1>6 DEF Account
<1>8. Solid(c)
  BY <1>2, <1>6, <1>7 DEF Solid, Finite
<1>9. Drift(c) = Drift(b)
  BY <1>6, SameSums DEF Drift
<1>10. \A k \in Nat : Balanced(b, k) => Balanced(c, k)
  BY <1>6, <1>9 DEF Balanced
<1>11. Solid(AddPoint(c)) /\ \A k : Balanced(c, k) => Balanced(AddPoint(c), k)
  BY <1>8, Pointed
<1> QED BY <1>1, <1>2, <1>10, <1>11

\* A balance that is saved is rounded once more.
LEMMA SavingBalance ==
  ASSUME NEW a, Solid(a)
  PROVE  LET b == [a EXCEPT !.cash = Rounded(@)]
         IN  Solid(b) /\ \A k \in Nat : Balanced(a, k) => Balanced(b, k + 1)
<1> DEFINE b == [a EXCEPT !.cash = Rounded(@)]
           e == Rounded(a.cash) - a.cash
<1>1. a \in Account /\ a.cash \in Int
  BY DEF Solid, Account
<1>2. Rounded(a.cash) \in Int /\ e \in Int /\ 2 * e <= Cent /\ -2 * e <= Cent
  BY <1>1, ConstantsAssumption, RoundingError
<1>3. /\ b.cash = Rounded(a.cash) /\ b.positions = a.positions /\ b.trades = a.trades
      /\ b \in Account
  BY <1>1, <1>2 DEF Account
<1> HIDE DEF b
<1>4. Solid(b)
  BY <1>3 DEF Solid, Finite
<1>5. ExpectedCash(b) = ExpectedCash(a) /\ ExpectedCash(a) \in Int
  BY <1>3, SameSums, SolidFacts, Totals
<1>6. Drift(b) = Drift(a) + e
  BY <1>1, <1>2, <1>3, <1>5 DEF Drift
<1> HIDE DEF e
<1>7. ASSUME NEW k \in Nat, Balanced(a, k) PROVE Balanced(b, k + 1)
  <2> DEFINE m == k + Cardinality(a.trades)
             d == Drift(a)
  <2>1. m \in Nat /\ d \in Int /\ (k + 1) + Cardinality(b.trades) = m + 1
    BY <1>3, SolidFacts
  <2>2. 2 * d <= Cent * m /\ -2 * d <= Cent * m
    BY <1>7 DEF Balanced
  <2> HIDE DEF m, d
  <2>3. 2 * (d + e) <= Cent * (m + 1) /\ -2 * (d + e) <= Cent * (m + 1)
    BY <1>2, <2>1, <2>2, OneStepMore
  <2>4. Drift(b) = d + e
    BY <1>6 DEF d
  <2> QED BY <2>1, <2>3, <2>4 DEF Balanced
<1> QED BY <1>4, <1>7 DEF b

\* A reversal closes one position at most, which adds at most one point.
LEMMA ClearingBalance ==
  ASSUME NEW a, NEW n \in Nat, Good(a, n), Solid(a), now \in Times, NEW o \in Orders
  PROVE  LET b == Cleared(a, o)
         IN  /\ Solid(b)
             /\ \A k \in Nat : Balanced(a, k) => Balanced(b, k)
             /\ b = a \/ \E e \in Int : b.curve = Append(a.curve, e)
<1>1. CASE In(a, o.symbol) = {}
  BY <1>1 DEF Cleared
<1>2. CASE In(a, o.symbol) # {}
  <2> DEFINE p == CHOOSE p \in In(a, o.symbol) : TRUE
  <2>1. p \in In(a, o.symbol)
    BY <1>2
  <2>2. Cleared(a, o) = Closed(a, p, o.price, "signal", now)
    BY <1>2 DEF Cleared
  <2> HIDE DEF p
  <2>3. p \in a.positions /\ o.price \in Nat /\ "signal" \in Reasons
    BY <2>1, ConstantsAssumption DEF In, Reasons
  <2> QED BY <2>2, <2>3, ClosingBalance
<1> QED BY <1>1, <1>2

\* What is undone was as it is after, in every field.
LEMMA UndoneIsBefore ==
  ASSUME NEW a, Solid(a), NEW b, Solid(b), a.trades \subseteq b.trades,
         b = a \/ \E e \in Int : b.curve = Append(a.curve, e)
  PROVE  Undone(a, b) = a
<1>1. a \in Account /\ b \in Account /\ a.curve \in Seq(Int) /\ b.curve \in Seq(Int)
  BY DEF Solid, Account
<1> DEFINE c == SubSeq(b.curve, 1, Len(a.curve))
<1>2. c = a.curve
  <2>1. CASE b = a
    BY <1>1, <2>1
  <2>2. ASSUME NEW e \in Int, b.curve = Append(a.curve, e) PROVE c = a.curve
    BY <1>1, <2>2
  <2> QED BY <2>1, <2>2
<1>3. b.trades \cap a.trades = a.trades
  OBVIOUS
<1>4. Undone(a, b) = [b EXCEPT !.cash = a.cash, !.positions = a.positions,
                               !.trades = b.trades \cap a.trades,
                               !.curve = c, !.marks = a.marks]
  BY <1>1 DEF Undone, Account
<1> HIDE DEF c
<1> QED BY <1>1, <1>2, <1>3, <1>4 DEF Account

\* What a candle closes.
LEMMA CheckingBalance ==
  ASSUME NEW a, NEW n \in Nat, Good(a, n), Solid(a), NEW s \in Symbols,
         NEW bar \in Bars, NEW when \in Times
  PROVE  LET b == Checked(a, s, bar, when)
         IN  /\ Good(b, n) /\ Solid(b)
             /\ \A k \in Nat : Balanced(a, k) => Balanced(b, k)
<1>1. CASE In(a, s) = {}
  BY <1>1 DEF Checked
<1>2. CASE In(a, s) # {}
  <2> DEFINE p == CHOOSE p \in In(a, s) : TRUE
  <2>1. p \in In(a, s)
    BY <1>2
  <2>2. Checked(a, s, bar, when) = Exited(a, p, bar, when)
    BY <1>2 DEF Checked
  <2> HIDE DEF p
  <2>3. p \in a.positions /\ p \in Position /\ p.take \in Nat
    BY <2>1 DEF In, Good, AccountOK, Position
  <2>4. StopPrice(p, bar) \in Nat /\ "stop_loss" \in Reasons /\ "take_profit" \in Reasons
    BY <2>3, Stopping DEF Reasons
  <2>5. Good(Exited(a, p, bar, when), n)
    BY <2>3, Exiting
  <2>6. CASE StopHit(p, bar)
    <3>1. Exited(a, p, bar, when) = Closed(a, p, StopPrice(p, bar), "stop_loss", when)
      BY <2>6 DEF Exited
    <3> QED BY <2>2, <2>3, <2>4, <2>5, <3>1, ClosingBalance
  <2>7. CASE ~StopHit(p, bar) /\ TakeHit(p, bar)
    <3>1. Exited(a, p, bar, when) = Closed(a, p, p.take, "take_profit", when)
      BY <2>7 DEF Exited
    <3> QED BY <2>2, <2>3, <2>4, <2>5, <3>1, ClosingBalance
  <2>8. CASE ~StopHit(p, bar) /\ ~TakeHit(p, bar)
    <3>1. Exited(a, p, bar, when) = a
      BY <2>8 DEF Exited
    <3> QED BY <2>2, <3>1
  <2> QED BY <2>6, <2>7, <2>8
<1> QED BY <1>1, <1>2

\* The larger and the smaller of two.
LEMMA Larger == ASSUME NEW x \in Int, NEW y \in Int
                PROVE  Max({x, y}) = IF x >= y THEN x ELSE y
  BY DEF Max

LEMMA Smaller == ASSUME NEW x \in Int, NEW y \in Int
                 PROVE  Min({x, y}) = IF x <= y THEN x ELSE y
  BY DEF Min

\* An order that is granted fits into the cash and into the margin.
LEMMA OpeningFits ==
  ASSUME NEW a, calls \in Nat, calls < MaxCalls, Good(a, calls), Solid(a), now \in Times,
         NEW o \in Orders, In(a, o.symbol) = {}, NEW lots \in Nat \ {0}, Affordable(a, o, lots)
  PROVE  LET b == Opened(a, o, lots)
         IN  /\ Equity(b) >= MarginUsed(b)
             /\ o.side = "long" => b.cash >= 0
<1> DEFINE b == Opened(a, o, lots)
           value == Value(lots, EntryFill(o.side, o.price))
           fee == Fee(lots, EntryFill(o.side, o.price))
           free == FreeMargin(a)
           budget == IF o.side = "long" THEN Min({a.cash, free}) ELSE free
<1>1. /\ Equity(b) = Equity(a) - fee
      /\ MarginUsed(b) = MarginUsed(a) + (IF o.side = "long" THEN 0 ELSE value)
      /\ b.cash = (IF o.side = "long" THEN a.cash - value ELSE a.cash + value) - fee
      /\ value \in Nat /\ fee \in Nat /\ value + fee > 0
  BY OpeningBalance
<1>2. value + fee <= Max({budget, 0})
  BY DEF Affordable
<1> HIDE DEF b, value, fee
<1>3. Equity(a) \in Int /\ MarginUsed(a) \in Int /\ a.cash \in Int
  BY SolidFacts, Totals DEF AccountOK
<1>4. /\ free = IF Equity(a) - MarginUsed(a) >= 0 THEN Equity(a) - MarginUsed(a) ELSE 0
      /\ free \in Int
  BY <1>3, Larger DEF FreeMargin
<1> HIDE DEF free
<1>5. budget \in Int /\ budget <= free /\ (o.side = "long" => budget <= a.cash)
  BY <1>3, <1>4, Smaller
<1> HIDE DEF budget
<1>6. value + fee <= budget
  BY <1>1, <1>2, <1>5, Larger
<1>7. Equity(a) - MarginUsed(a) >= value + fee
  BY <1>1, <1>3, <1>4, <1>5, <1>6
<1>8. Equity(b) >= MarginUsed(b)
  BY <1>1, <1>3, <1>7
<1>9. o.side = "long" => b.cash >= 0
  BY <1>1, <1>3, <1>5, <1>6
<1> QED BY <1>8, <1>9 DEF b

-----------------------------------------------------------------------------
(* The invariant *)

LEMMA InitGood == Init => IInv
<1> SUFFICES ASSUME Init PROVE IInv
  OBVIOUS
<1>1. account = [cash |-> Opening, positions |-> {}, trades |-> {},
                 marks |-> [s \in Symbols |-> NoLevel], curve |-> <<Opening>>]
  BY DEF Init
<1>2. Opening \in Int
  <2>1. Capital \in Nat /\ Scale \in Nat
    BY ConstantsAssumption
  <2>2. Capital * Scale \in Nat
    BY <2>1, Products
  <2> QED BY <2>1, <2>2, Products DEF Opening
<1>3. AccountOK(account)
  BY <1>1, <1>2 DEF AccountOK, NoLevel
<1>4. Named(account, 0) /\ Single(account) /\ ClosedOnce(account) /\ CarryExact(account)
  BY <1>1 DEF Named, Single, ClosedOnce, CarryExact
<1>5. MarkedWhileHeld(account)
  BY <1>1 DEF MarkedWhileHeld, In
<1>6. calls = 0 /\ now = 0 /\ 0 \in 0 .. MaxCalls /\ 0 \in Times
  BY ConstantsAssumption DEF Init, Times
<1> QED BY <1>3, <1>4, <1>5, <1>6 DEF IInv, Good

LEMMA SignalGood ==
  ASSUME IInv, NEW o \in Orders, ExecuteSignal(o)
  PROVE  IInv'
<1>1. /\ calls \in Nat /\ calls < MaxCalls /\ calls' = calls + 1
      /\ now' = now /\ now \in Times /\ Good(account, calls)
  BY ConstantsAssumption DEF IInv, ExecuteSignal, Answered
<1>2. calls' \in 0 .. MaxCalls /\ now' \in Times
  BY <1>1, ConstantsAssumption
<1>3. Good(account, calls + 1)
  BY <1>1, NextId
<1>4. CASE account' = account
  BY <1>1, <1>2, <1>3, <1>4 DEF IInv
<1>5. /\ Good(Cleared(account, o), calls)
      /\ In(Cleared(account, o), o.symbol) = {}
      /\ account.trades \subseteq Cleared(account, o).trades
  BY <1>1, Clearing
<1>6. ASSUME NEW lots \in 0 .. o.quantity, lots # 0,
             account' = Opened(Cleared(account, o), o, lots)
      PROVE  IInv'
  <2>1. lots \in Nat \ {0}
    BY <1>6, ConstantsAssumption
  <2>2. Good(account', calls + 1)
    BY <1>1, <1>5, <1>6, <2>1, OpeningPosition
  <2> QED BY <1>1, <1>2, <2>2 DEF IInv
<1>7. CASE account' = Undone(account, Cleared(account, o))
  <2>1. Good(account', calls)
    BY <1>1, <1>5, <1>7, Undoing
  <2>2. Good(account', calls + 1)
    BY <1>1, <2>1, NextId
  <2> QED BY <1>1, <1>2, <2>2 DEF IInv
<1>8. \/ account' = account
      \/ account' = Undone(account, Cleared(account, o))
      \/ \E lots \in 0 .. o.quantity :
            lots # 0 /\ account' = Opened(Cleared(account, o), o, lots)
  BY DEF ExecuteSignal
<1> QED BY <1>4, <1>6, <1>7, <1>8

\* The candle's position is closed, if its stop is reached.
LEMMA CandleGood ==
  ASSUME IInv, NEW s \in Symbols, NEW bar \in Bars, NEW when \in Times,
         ProcessCandle(s, bar, when)
  PROVE  /\ IInv'
         /\ \A p \in In(account, s) : StopHit(p, bar) =>
               \E t \in account'.trades : StoppedOut(t, p)
<1>1. /\ calls \in Nat /\ calls < MaxCalls /\ calls' = calls + 1
      /\ now' = now /\ now \in Times /\ Good(account, calls)
  BY ConstantsAssumption DEF IInv, ProcessCandle, Answered
<1>2. calls' \in 0 .. MaxCalls /\ now' \in Times
  BY <1>1, ConstantsAssumption
<1> DEFINE b == Checked(account, s, bar, when)
<1>3. account' = Marked(b, s, bar.close, when)
  BY DEF ProcessCandle
<1>4. /\ Good(b, calls)
      /\ \A p \in In(account, s) : StopHit(p, bar) =>
            \E t \in b.trades : StoppedOut(t, p)
  <2>1. CASE In(account, s) = {}
    BY <1>1, <2>1 DEF Checked
  <2>2. CASE In(account, s) # {}
    <3> DEFINE p == CHOOSE p \in In(account, s) : TRUE
    <3>1. p \in In(account, s)
      BY <2>2
    <3>2. b = Exited(account, p, bar, when)
      BY <2>2 DEF Checked
    <3> HIDE DEF p, b
    <3>3. p \in account.positions
      BY <3>1 DEF In
    <3>4. \A q \in In(account, s) : q = p
      BY <1>1, <3>1 DEF In, Good, Single
    <3> QED BY <1>1, <3>2, <3>3, <3>4, Exiting
  <2> QED BY <2>1, <2>2
<1> HIDE DEF b
<1>5. bar.close \in Nat \ {0}
  BY ConstantsAssumption
<1>6. Good(account', calls) /\ account'.trades = b.trades
  BY <1>1, <1>3, <1>4, <1>5, Marking
<1>7. Good(account', calls + 1)
  BY <1>1, <1>6, NextId
<1> QED BY <1>1, <1>2, <1>4, <1>6, <1>7 DEF IInv

LEMMA ReloadGood ==
  ASSUME IInv, Reload
  PROVE  IInv'
<1>1. /\ calls \in Nat /\ calls < MaxCalls /\ calls' = calls + 1
      /\ now' = now /\ now \in Times /\ Good(account, calls)
  BY ConstantsAssumption DEF IInv, Reload, Answered
<1>2. calls' \in 0 .. MaxCalls /\ now' \in Times
  BY <1>1, ConstantsAssumption
<1> DEFINE loaded == [account EXCEPT !.cash = Rounded(@)]
<1>3. account.cash \in Int
  BY <1>1 DEF Good, AccountOK
<1>4. Good(loaded, calls)
  BY <1>1, <1>3, Cents, Saving
<1>5. account' = loaded \/ account' = AddPoint(loaded)
  BY DEF Reload
<1> HIDE DEF loaded
<1>6. Good(account', calls)
  BY <1>1, <1>4, <1>5, Adding
<1>7. Good(account', calls + 1)
  BY <1>1, <1>6, NextId
<1> QED BY <1>1, <1>2, <1>7 DEF IInv

LEMMA TickGood ==
  ASSUME IInv, Tick
  PROVE  IInv'
  BY ConstantsAssumption DEF IInv, Tick, Times

LEMMA NextGood ==
  ASSUME IInv, [Next]_vars
  PROVE  IInv'
<1>1. CASE UNCHANGED vars
  BY <1>1 DEF IInv, vars
<1> QED BY <1>1, SignalGood, CandleGood, ReloadGood, TickGood DEF Next

\* The books stay sound and carry exact, whatever the equity curve holds and
\* however many lots an order is granted.
THEOREM Inductive == Spec => []IInv
  BY InitGood, NextGood, PTL DEF Spec

\* One position per symbol, closed once, with a mark exactly while it is held
\* (execute_signal, close_position and mark_to_market).
THEOREM BooksStaySound == Spec => []BooksSound
<1>1. IInv => BooksSound
  BY DEF IInv, Good, Single, ClosedOnce, MarkedWhileHeld, BooksSound
<1> QED BY <1>1, Inductive, PTL

\* Each moment a position is held is charged once (_accrue_position).
THEOREM CarryStaysExact == Spec => []CarryIsExact
<1>1. IInv => CarryIsExact
  BY DEF IInv, Good, CarryExact, CarryIsExact
<1> QED BY <1>1, Inductive, PTL

\* A candle that reaches a stop closes the position, never better than at the
\* stop (check_sl_tp).
THEOREM StopsAreHeld == Spec => StopsHold
<1> DEFINE Held ==
      calls' # calls /\ last'.kind = "candle" =>
        \A p \in In(account, last'.asked.symbol) : StopHit(p, last'.bar) =>
            \E t \in account'.trades : StoppedOut(t, p)
<1>1. ASSUME IInv, [Next]_vars PROVE [Held]_vars
  <2>1. CASE UNCHANGED vars
    BY <2>1
  <2>2. ASSUME NEW o \in Orders, ExecuteSignal(o) PROVE last'.kind # "candle"
    BY <2>2 DEF ExecuteSignal, Answered
  <2>3. ASSUME NEW s \in Symbols, NEW bar \in Bars, NEW when \in Times,
               ProcessCandle(s, bar, when)
        PROVE  Held
    <3>1. last'.asked.symbol = s /\ last'.bar = bar
      BY <2>3 DEF ProcessCandle, Answered
    <3> QED BY <1>1, <2>3, <3>1, CandleGood
  <2>4. CASE Reload
    BY <2>4 DEF Reload, Answered
  <2>5. CASE Tick
    BY <2>5 DEF Tick
  <2> QED BY <1>1, <2>1, <2>2, <2>3, <2>4, <2>5 DEF Next
<1>2. Spec => [][Held]_vars
  BY <1>1, Inductive, PTL DEF Spec
<1> QED BY <1>2 DEF StopsHold, StoppedOut

-----------------------------------------------------------------------------
(* The balance *)

\* The strengthening of CashReconciles: the books of IInv say that a closed
\* position becomes one new trade, and that accrual merges no two positions.
BalanceInv ==
    /\ IInv
    /\ Solid(account)
    /\ saves \in Nat
    /\ Balanced(account, saves)

LEMMA InitBalance == Init => BalanceInv
<1> SUFFICES ASSUME Init PROVE BalanceInv
  OBVIOUS
<1>1. account = [cash |-> Opening, positions |-> {}, trades |-> {},
                 marks |-> [s \in Symbols |-> NoLevel], curve |-> <<Opening>>]
  BY DEF Init
<1>2. account \in Account
  <2>1. <<Opening>> \in Seq(Int) /\ Opening \in Int
    BY OpeningType
  <2>2. [s \in Symbols |-> NoLevel] \in [Symbols -> Nat]
    BY DEF NoLevel
  <2> QED BY <1>1, <2>1, <2>2 DEF Account
<1>3. /\ account.cash = Opening /\ account.positions = {} /\ account.trades = {}
  BY <1>1
<1>4. Solid(account) /\ Cardinality(account.trades) = 0
  BY <1>2, <1>3, FS_EmptySet DEF Solid, Finite
<1>5. SumFunction(Results(account)) = 0 /\ SumFunction(Entries(account)) = 0
  <2> DEFINE f == Results(account)
             g == Entries(account)
  <2>1. DOMAIN f = {} /\ DOMAIN g = {}
    BY <1>3, <1>4, SolidFacts, TermsTyped
  <2> HIDE DEF f, g
  <2>2. IsFiniteSet(DOMAIN f) /\ IsFiniteSet(DOMAIN g)
    BY <2>1, FS_EmptySet
  <2>3. (\A x \in DOMAIN f : f[x] \in Int) /\ (\A x \in DOMAIN g : g[x] \in Int)
    BY <2>1
  <2>4. SumFunction(f) = 0
    BY <2>1, <2>2, <2>3, SumTyped
  <2>5. SumFunction(g) = 0
    BY <2>1, <2>2, <2>3, SumTyped
  <2> QED BY <2>4, <2>5 DEF f, g
<1>6. Drift(account) = 0
  BY <1>3, <1>4, <1>5, SolidFacts, Totals, OpeningType DEF Drift
<1>7. saves = 0
  BY DEF Init
<1>8. Balanced(account, saves)
  BY <1>4, <1>6, <1>7, ConstantsAssumption DEF Balanced
<1> QED BY <1>4, <1>7, <1>8, InitGood DEF BalanceInv

\* What a refused order changes, and what an accepted one keeps to.
LEMMA SignalBalance ==
  ASSUME BalanceInv, NEW o \in Orders, ExecuteSignal(o)
  PROVE  /\ BalanceInv'
         /\ ~last'.accepted => account' = account
         /\ last'.accepted => /\ Equity(account') >= MarginUsed(account')
                              /\ o.side = "long" => account'.cash >= 0
         /\ last'.kind = "signal" /\ last'.asked = o
<1>1. IInv'
  BY SignalGood DEF BalanceInv
<1>2. /\ calls \in Nat /\ calls < MaxCalls /\ now \in Times /\ Good(account, calls)
      /\ Solid(account) /\ saves \in Nat /\ Balanced(account, saves) /\ saves' = saves
      /\ last'.kind = "signal" /\ last'.asked = o
  BY ConstantsAssumption DEF BalanceInv, IInv, ExecuteSignal, Answered
<1> DEFINE a == Cleared(account, o)
<1>3. /\ Good(a, calls) /\ Solid(a) /\ Balanced(a, saves)
      /\ In(a, o.symbol) = {} /\ account.trades \subseteq a.trades
      /\ a = account \/ \E e \in Int : a.curve = Append(account.curve, e)
  BY <1>2, Clearing, ClearingBalance
<1> HIDE DEF a
<1>4. CASE \E p \in In(account, o.symbol) : p.side = o.side
  <2>1. account' = account /\ last'.accepted = FALSE
    BY <1>4 DEF ExecuteSignal, Answered
  <2> QED BY <1>1, <1>2, <2>1 DEF BalanceInv
<1>5. CASE ~ \E p \in In(account, o.symbol) : p.side = o.side
  <2>1. PICK lots \in 0 .. o.quantity :
           /\ Granted(a, o, lots)
           /\ account' = IF lots = 0 THEN Undone(account, a) ELSE Opened(a, o, lots)
           /\ last'.accepted = (lots # 0)
    BY <1>5 DEF ExecuteSignal, Answered, a
  <2>2. CASE lots = 0
    <3>1. account' = account
      BY <1>2, <1>3, <2>1, <2>2, UndoneIsBefore
    <3> QED BY <1>1, <1>2, <2>1, <2>2, <3>1 DEF BalanceInv
  <2>3. CASE lots # 0
    <3>1. lots \in Nat \ {0} /\ Affordable(a, o, lots)
      BY <2>1, <2>3, ConstantsAssumption DEF Granted
    <3>2. account' = Opened(a, o, lots) /\ last'.accepted = TRUE
      BY <2>1, <2>3
    <3>3. Solid(account') /\ Balanced(account', saves)
      BY <1>2, <1>3, <3>1, <3>2, OpeningBalance
    <3>4. /\ Equity(account') >= MarginUsed(account')
          /\ o.side = "long" => account'.cash >= 0
      BY <1>2, <1>3, <3>1, <3>2, OpeningFits
    <3> QED BY <1>1, <1>2, <3>2, <3>3, <3>4 DEF BalanceInv
  <2> QED BY <2>2, <2>3
<1> QED BY <1>4, <1>5

LEMMA CandleBalance ==
  ASSUME BalanceInv, NEW s \in Symbols, NEW bar \in Bars, NEW when \in Times,
         ProcessCandle(s, bar, when)
  PROVE  BalanceInv'
<1>1. IInv'
  BY CandleGood DEF BalanceInv
<1>2. /\ calls \in Nat /\ Good(account, calls) /\ Solid(account)
      /\ saves \in Nat /\ Balanced(account, saves) /\ saves' = saves
  BY ConstantsAssumption DEF BalanceInv, IInv, ProcessCandle
<1> DEFINE b == Checked(account, s, bar, when)
<1>3. account' = Marked(b, s, bar.close, when)
  BY DEF ProcessCandle
<1>4. Good(b, calls) /\ Solid(b) /\ Balanced(b, saves)
  BY <1>2, CheckingBalance
<1> HIDE DEF b
<1>5. bar.close \in Nat \ {0}
  BY ConstantsAssumption
<1>6. Solid(account') /\ Balanced(account', saves)
  BY <1>2, <1>3, <1>4, <1>5, MarkingBalance
<1> QED BY <1>1, <1>2, <1>6 DEF BalanceInv

LEMMA ReloadBalance ==
  ASSUME BalanceInv, Reload
  PROVE  BalanceInv'
<1>1. IInv'
  BY ReloadGood DEF BalanceInv
<1>2. /\ Solid(account) /\ saves \in Nat /\ Balanced(account, saves) /\ saves' = saves + 1
  BY DEF BalanceInv, Reload
<1> DEFINE b == [account EXCEPT !.cash = Rounded(@)]
<1>3. account' = b \/ account' = AddPoint(b)
  BY DEF Reload
<1>4. Solid(b) /\ Balanced(b, saves + 1)
  BY <1>2, SavingBalance
<1> HIDE DEF b
<1>5. Solid(account') /\ Balanced(account', saves + 1)
  BY <1>3, <1>4, Pointed
<1> QED BY <1>1, <1>2, <1>5 DEF BalanceInv

LEMMA NextBalance ==
  ASSUME BalanceInv, [Next]_vars
  PROVE  BalanceInv'
<1>1. CASE UNCHANGED vars
  BY <1>1 DEF BalanceInv, IInv, vars
<1>2. CASE Tick
  <2>1. IInv'
    BY <1>2, TickGood DEF BalanceInv
  <2> QED BY <1>2, <2>1 DEF BalanceInv, Tick
<1> QED BY <1>1, <1>2, SignalBalance, CandleBalance, ReloadBalance DEF Next

\* The balance stays within its bound, for any number of positions and trades.
THEOREM BalanceInvariant == Spec => []BalanceInv
  BY InitBalance, NextBalance, PTL DEF Spec

\* The state keeps its type, the equity curve included: every equity is a whole
\* number of the smallest units of money (PaperTradingEngine's fields).
THEOREM TypeCorrect == Spec => []TypeOK
<1>1. BalanceInv => TypeOK
  BY DEF BalanceInv, IInv, Solid, TypeOK
<1> QED BY <1>1, BalanceInvariant, PTL

\* The balance is the capital, the trades' results and the entries of what is
\* held, within half a cent per rounding, however many positions were opened,
\* reversed, undone, stopped and saved (close_position, execute_signal,
\* restore_state).
THEOREM CashStaysReconciled == Spec => []CashReconciles
<1>1. BalanceInv => CashReconciles
  BY DEF BalanceInv, Balanced, Drift, CashReconciles
<1> QED BY <1>1, BalanceInvariant, PTL

\* An accepted order fits into the equity and the cash, a refused one changes
\* nothing at all (execute_signal and _restore_reversal_state).
THEOREM OrdersFillOrUndo == Spec => FilledOrUndone
<1> DEFINE Answer ==
      calls' # calls =>
        IF ~last'.accepted THEN account' = account
        ELSE last'.kind = "signal" =>
                /\ Equity(account') >= MarginUsed(account')
                /\ last'.asked.side = "long" => account'.cash >= 0
<1>1. ASSUME BalanceInv, [Next]_vars PROVE [Answer]_vars
  <2>1. CASE UNCHANGED vars
    BY <2>1
  <2>2. ASSUME NEW o \in Orders, ExecuteSignal(o) PROVE Answer
    BY <1>1, <2>2, SignalBalance
  <2>3. ASSUME NEW s \in Symbols, NEW bar \in Bars, NEW when \in Times,
               ProcessCandle(s, bar, when)
        PROVE  last'.accepted = TRUE /\ last'.kind = "candle"
    BY <2>3 DEF ProcessCandle, Answered
  <2>4. CASE Reload
    BY <2>4 DEF Reload, Answered
  <2>5. CASE Tick
    BY <2>5 DEF Tick
  <2> QED BY <1>1, <2>1, <2>2, <2>3, <2>4, <2>5 DEF Next
<1>2. Spec => [][Answer]_vars
  BY <1>1, BalanceInvariant, PTL DEF Spec
<1> QED BY <1>2 DEF FilledOrUndone
=============================================================================
