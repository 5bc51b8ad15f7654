----------------------------- MODULE Promotion -----------------------------
(* POST /api/v1/live/mode (backend/routers/live.py) and the paper record it *)
(* asks for (live_trading/engine.py, the gate in safety.py).  The record is *)
(* read by four statements, each of which sees what is committed when it    *)
(* starts, while the paper ledger goes on committing trades and marks and   *)
(* an operator may trip the kill switch.                                    *)
EXTENDS Integers, Sequences

CONSTANTS
    Operators,              \* requests at one time
    MinTrades, MinDays,     \* the gate's thresholds
    MaxDrawdown,
    MaxTrades               \* bound: trades the paper account closes
ASSUME PromotionAssumption ==
    MinTrades \in Nat \ {0} /\ MinDays \in Nat \ {0} /\ MaxDrawdown \in Nat

VARIABLES
    mode,                   \* ModeManager._mode
    killed,                 \* the kill switch
    record,                 \* what the tables hold, committed
    request,                \* each request: the mode it wants, what it has read
    seen                    \* history: what was so at some time during it
promotionVars == <<mode, killed, record, request, seen>>

Quiet == [at |-> "quiet"]
Nothing == [merit |-> FALSE, open |-> FALSE]

\* PromotionGate._failure_reason finds none.  A figure is the set of what is
\* known of it: without the database pnl and drawdown are unknown, and pass.
Passed(trades, days, pnl, drawdown) ==
    /\ trades >= MinTrades /\ days >= MinDays
    /\ \A d \in drawdown : d <= MaxDrawdown
    /\ \A p \in pnl : p >= 0
Merit(r) == Passed(r.trades, r.days, {r.pnl}, {r.drawdown})

PromotionInit ==
    /\ mode = "human_approval" /\ killed = FALSE
    /\ record = [trades |-> MinTrades - 1, days |-> MinDays - 1, pnl |-> 0, drawdown |-> 0]
    /\ request = [o \in Operators |-> Quiet]
    /\ seen = [o \in Operators |-> Nothing]

(* ------------------------- the paper ledger ----------------------------- *)
\* One ledger commit: a closed trade, on a day traded before or a new one,
\* with the drawdown the marks have come to; the equity curve is kept whole,
\* so its maximum never falls.
CloseTrade(newDays, profit, fall) ==
    /\ record.trades < MaxTrades
    /\ record' = [trades |-> record.trades + 1, days |-> record.days + newDays,
                  pnl |-> record.pnl + profit, drawdown |-> record.drawdown + fall]
    /\ UNCHANGED <<mode, killed, request>>
\* The mark of a bar.
Mark ==
    /\ record.drawdown <= MaxDrawdown
    /\ record' = [record EXCEPT !.drawdown = @ + 1]
    /\ UNCHANGED <<mode, killed, request>>
\* POST /kill and /arm.
KillOrArm == killed' = ~killed /\ UNCHANGED <<mode, record, request>>

(* --------------------------- POST /mode --------------------------------- *)
\* set_mode down to the record; back to human approval nothing else is asked.
AskMode(o, wanted) ==
    /\ request[o] = Quiet /\ ~killed
    /\ IF wanted = "human_approval"
       THEN mode' = wanted /\ UNCHANGED request
       ELSE /\ request' = [request EXCEPT ![o] = [at |-> "reading", wants |-> wanted, read |-> <<>>]]
            /\ UNCHANGED mode
    /\ UNCHANGED <<killed, record>>

\* Mutant: the profit is summed before the trades are counted.
ProfitFirst == <<"pnl", "trades", "days", "drawdown">>
\* The order of the statements in _query_paper_record_from_db.
Statements == <<"trades", "days", "pnl", "drawdown">>
ReadNext(o) ==
    LET got == request[o].read
        column == Statements[Len(got) + 1]
    IN  /\ request[o].at = "reading"
        /\ request' = [request EXCEPT
              ![o].read = Append(got, record[column]),
              ![o].at = IF Len(got) + 1 = Len(Statements) THEN "read" ELSE @]
        /\ UNCHANGED <<mode, killed, record>>
Figure(o, column) ==
    request[o].read[CHOOSE n \in DOMAIN Statements : Statements[n] = column]
\* PromotionGate.progress: its verdict on what was read.
Progress(o) ==
    Passed(Figure(o, "trades"), Figure(o, "days"), {Figure(o, "pnl")}, {Figure(o, "drawdown")})

\* The database fails: the counts in memory, which nothing ever sets, and no
\* figures; the gate refuses them.
QueryFails(o) ==
    /\ request[o].at = "reading"
    /\ ~Passed(0, 0, {}, {})
    /\ request' = [request EXCEPT ![o] = Quiet]
    /\ UNCHANGED <<mode, killed, record>>

\* paper_record's answer is in: 400, or the mode is set; the kill switch is
\* not asked again.
DecideMode(o) ==
    /\ request[o].at = "read"
    /\ mode' = IF Progress(o) THEN request[o].wants ELSE mode
    /\ request' = [request EXCEPT ![o] = Quiet]
    /\ UNCHANGED <<killed, record>>

(* -------------------------------- all ----------------------------------- *)
\* History: what each request under way has had before it at some time.
Watch ==
    seen' = [o \in Operators |->
        IF request'[o] = Quiet THEN Nothing
        ELSE [merit |-> seen[o].merit \/ Merit(record'), open |-> seen[o].open \/ ~killed']]
PromotionNext ==
    /\ \/ \E newDays \in {0, 1}, profit \in {-1, 1}, fall \in {0, 1} : CloseTrade(newDays, profit, fall)
       \/ Mark \/ KillOrArm
       \/ \E o \in Operators :
            \/ \E wanted \in {"human_approval", "semi", "auto"} : AskMode(o, wanted)
            \/ ReadNext(o) \/ QueryFails(o) \/ DecideMode(o)
    /\ Watch
PromotionSpec == PromotionInit /\ [][PromotionNext]_promotionVars

(* ------------------------------ properties ------------------------------ *)
\* The mode is raised only on a record that was good as a whole: although the
\* four figures are of four moments, at one moment during the request every
\* threshold was met together, and the switch was open at one.  It hangs on
\* the order of the statements: the profit, the one figure that goes both
\* ways, is read after the counts that only rise and before the drawdown.
RaisedOnMerit ==
    [][mode' # mode /\ mode' # "human_approval" =>
         \E o \in Operators : /\ request[o] # Quiet /\ request'[o] = Quiet
                              /\ request[o].wants = mode'
                              /\ seen[o].merit /\ seen[o].open]_promotionVars
=============================================================================
