# ARES AI: TLA+ models, checks and proofs

ARES AI runs a graph of agents that analyse a market, decide on a trade and
place it on paper or on an exchange. This directory holds TLA+ models of the
parts whose correctness depends on the order of steps: the kill switch, live
order placement and the gate before it, the paper ledger and its accounting, the
admission of analysis runs, a run of the pipeline from its request to its trade, the
routing of model calls, the requests that share rows and windows, and the simulation of
a backtest with the signals that feed it. TLC checks them on small instances and TLAPS
proves the main properties for every value of the constants.

Paths below are relative to the repository root. `PROJECT.json` maps every
definition to the lines it stands for, lists the runs, the faults each property
was seen to catch, the hazards and the findings.

## 1. Inventory

Two long-lived processes share PostgreSQL and Redis: the **API**
(`backend/`, FastAPI) and the **runner** (`scripts/run_live.py`). Each is one
asyncio event loop, so code between two awaits runs alone in its process and
anything of the other process can run between any two storage calls.

| Component | State | Operations | Talks to |
|---|---|---|---|
| Kill switch, `live_trading/safety.py` | Redis: active flag, arm token. Process: fail-closed latch, last token seen | `check`, `is_active`, `activate`, `auto_trigger`, `arm` | asked by engine, routes and runner |
| Live engine, `live_trading/engine.py`, `exchange/`, `backend/routers/live.py`, `agents/execution.py` | mode, `_running`, the connector's client and `_connected`; orders at the exchange | start, stop, set mode, kill, arm, `check_pre_trade`, `execute_signal`, `evaluate_drawdown` | kill switch, paper record (database), exchange |
| Paper ledger, `paper_trading/ledger.py`, `repository.py`, `worker.py` | cache (the engine), asyncio lock, advisory lock, tables portfolio, positions, trade_history, orders | execute, process candle, summaries, worker tick | database, paper engine |
| Paper engine, `paper_trading/engine.py` | balance, positions, trades, accrued carry | fills, reversals, SL/TP, marks, carry, equity | called by the ledger, and by pipelines directly |
| Supervisor pipeline, `agents/supervisor.py`, consensus, risk | the run state, node statuses, deadline | routing, required agents, merge, approval floor | every agent |
| Model routing, `agents/router.py`, `queue.py`, `circuit_breaker.py`, `client.py`, `local_gate.py` | windows, breaker states, semaphore | acquire, call, retry, fall back, record | model providers |
| Analysis control, `backend/services/analysis_control.py`, `routers/analysis.py` | slots per user, leases, token budget, stored runs | start, stream, background run, release, evict | supervisor pipeline |
| Promotion gate, `routers/live.py`, `live_trading/safety.py` | the paper record in the database, the mode | read four figures, decide, set the mode | kill switch, paper ledger's tables |
| Accounts, strategies, improvements, `backend/services/` | rows of users, strategies, reflection runs and improvement records | register, edit, finish a run, apply | database |
| Login limiter, `backend/core/login_rate_limit.py`, `rate_limit.py` | two tables of sliding windows, a bucket of requests | attempt, sweep, evict | login route |
| Backtest, `backtesting/engine.py`, `routers/backtest.py` | candles, signals, cash, one position, trades, curve | one turn of the loop per candle, metrics | quant's rules and indicators |
| Quant rules, `agents/quant.py`, `indicators.py` | none: candles in, a decision out | detect strategies, choose one, parse a model's answer | model routing |
| Market data, `backend/data/` | candles in the database; a cache that nothing wires up | fetch, store, range scan | data sources |

### What is hard in each, and what makes it correct

* **Kill switch.** `activate()` is three storage calls and `check()` up to six;
  other processes run between them, replies are lost, Redis goes away and can
  come back empty. Correct when an acknowledged trip blocks every later check of
  every process until a human re-arms, when a latch never opens by itself, and
  when one re-arm reaches every latched process that goes on being asked.
* **Live engine.** An order waits for the database between its checks and its
  placement; mode, connection and kill switch change meanwhile. Correct when what
  was checked is still true, or harmless, when the order goes out.
* **Paper ledger.** Load, change and persist spans many queries under two locks,
  one in the process and one in the database; any query can fail, a commit can
  succeed without its answer, a caller can try again in the other process.
  Correct when balance, positions and history agree after each commit, a client
  order id is filled once, callers are told the truth and no lock stays behind.
* **Paper engine.** A long sequence of fills, partial candles and carry must keep
  the equity identity; a reversal that fails half way must undo the exit.
* **Supervisor pipeline.** Any agent may fall back to rules, fail or never answer; the
  deadline may pass at any moment, two agents run at once, the caller may go away. Correct
  when no money moves but by two confident model answers and a bounded risk, when a
  retryable timeout leaves no decision behind, and when the status tells what ran.
* **Model routing.** Calls share rate queues, two breakers per model and the gate of the
  local model, and can be cancelled at any wait. Correct when no window holds more
  grants than its rate, when the gate's slots are conserved, when a tripped model is
  left alone, and when every call ends.
* **Analysis control.** A slot is held across a background task or a stream
  and must come back once; budgets are read before a wait. Correct when slots are
  conserved and returned, no window holds more starts than the budget, and a run that is
  over is never shown as running.
* **Promotion gate.** The paper record is read by four statements while trades close and
  marks are written. Correct when a raised mode was earned at one moment as a whole.
* **Accounts, strategies, improvements.** Requests read, wait and write at READ
  COMMITTED. Correct when registration closes for good, an edit loses nothing of
  one it did not overlap and never touches a promoted strategy, and the alerts of a run depend on
  the durable history alone.
* **Login limiter.** Two tiers of windows in bounded tables. Correct when nobody who
  keeps trying gets past a window, and nobody is refused by what others did.
* **Backtest and quant rules.** One candle can reach a level and carry opposite signals, a
  short can lose more than there is, averages are filtered. Correct when cash, trades,
  curve and metrics agree, no level is passed over, and every signal kept is one that the
  numbers call for before they are rounded.

## 2. Modules

| Module | What it is |
|---|---|
| `KillSwitchPromise` | abstract specification: what a caller may rely on |
| `KillSwitch` | `live_trading/safety.py`, one action per storage call |
| `LiveEngine` | order placement, routes and drawdown, built on the promise |
| `PaperLedger` | ledger and repository, one action per query |
| `PaperLedgerProofs` | its theorems |
| `PaperEngine` | the accounting of `paper_trading/engine.py`, in exact arithmetic |
| `PaperEngineProofs` | its theorems |
| `FoldLemmas` | induction over numbers and finite sets, recursion over numbers, and sums over sets, for the proofs |
| `Semaphore` | asyncio's semaphore, shared by the next two |
| `AnalysisControl` | admission of analysis runs, their leases and the store of states |
| `AnalysisControlProofs` | its theorems |
| `ModelRouting` | calls of models: queues, breakers, retries, the local gate |
| `ModelRoutingProofs` | its theorems |
| `Pipeline` | one run of the graph, with the consensus and risk rules and the approval |
| `PipelineProofs` | its theorems |
| `Promotion` | POST /mode and the paper record that it reads |
| `Trends` | the alerts that a run's history calls for, as operators |
| `Records` | registration, strategy edits and finished runs, statement by statement |
| `RequestsProofs` | the theorems of `Records`, `Promotion` and `LoginLimit` |
| `LoginLimit` | the two tiers of login windows and the route's bucket |
| `Fractions` | exact fractions, for what is divided |
| `Backtest` | the simulation of trades over candles |
| `Signals` | indicators, the quant's rules, a model's answer, the route's signals |
| `TradingProofs` | the theorems of `KillSwitch`, with the refinement of `KillSwitchPromise`, of `LiveEngine`, of `Fractions` and `Backtest`, and of `Signals` |
| `MC*` | the instances that TLC checks |

Composition: `KillSwitch` implements `KillSwitchPromise`, which `LiveEngine` uses;
`AnalysisControl` and `ModelRouting` are built on `Semaphore`; `Records` takes its alerts
from `Trends`; `Backtest` and `Signals` compute with `Fractions`. `MCRequests` and `MCBacktest` put
specifications that share no state into one run: the variable `part`, chosen at the start,
says which one moves, so that their state spaces add up.

### KillSwitch

`store` is the shared pair of Redis keys, `failClosed` and `observed` the fields
`_fail_closed` and `_observed_arm_epoch` of each process. `pc` names the next
storage call of the method a process is in: a check goes through `clear`,
`observe`, `publish`, `reobserve`, `active` and `reason`, an activation through
`set`, `setReason` and `setStamp`. Methods are synchronous, so a process is in one
at a time. A reply that is lost after Redis executed the command is the store
going down in the step that executes it. Tokens are numbered uuids that say
whether an `arm()` or a baseline published them. `newer` and `trip` are
history: who has not read the token since an arm, and how the last activation
ended. Left out: the in-memory mode without Redis, and the texts of reason and
time stamp.

### LiveEngine

Two engines, of the API and of the runner, with `mode`, `running`, and the
connector's `client` and `linked`. A task is one call of
`ExecutionAgent.process` or of `execute_signal`, with the stages at which it
awaits: `route` and `check` (the paper record, in the database) and `sent` (the
exchange). The kill switch appears as the promise: a check may block at any
time and passes only while no acknowledged trip is in force; `SwitchAsPromised`
says that the engine assumes no more than that, and `TradingProofs`
proves both this and that the switch delivers it. The composition is thus by specification:
`KillSwitch` implements `KillSwitchPromise`, `LiveEngine` uses it.

A connector may raise, or answer with a result whose status is `failed`, and may do either
after the exchange took the order. The engine takes every answer for a placed order and
returns it as executed (`live_trading/engine.py:434`, `:456`): what the caller is told of a failed
order depends on which of the two its connector does. The drawdown trip runs in the
runner (`engine.py:482`), whose connector is never connected; it stops the API process through the
kill switch, and leaves that process's mode and open orders as they are.

A start that is still connecting when the engine is stopped comes up after the stop: the later
of the two wins, in the code and in the model. Nothing in the repository promises that a stop is
final; `ConnectedIsRunning` says that the flag and the connection agree whichever comes last, and
does not exclude the late start.

The execution agent is the registered one, with its live engine. The supervisor
builds it again without (`agents/supervisor.py:648`), so today a pipeline does not reach the
live branch; direct callers of `execute_signal` and the agent as its tests
construct it do.

### PaperLedger

`books` stands for the tables portfolio, positions and trade_history,
`entries` for the entry orders with their client order ids, `holder` for the
advisory lock, `cache` for the engine of each process and `owner` for its asyncio
lock. `op` is the state of each call: the stage names the query it does next,
`row` is what its hydrate has read so far, `snapshot` what `restore_snapshot`
would put back, `closing` the positions it closes, `listed` those it writes as
open. A position is named by the call that opened it.

Abstractions, each of which keeps what the properties tell apart:

* The cash balance is the set of the entries and exits it accounts for. A lost
  update shows as a missing element, a double exit as two elements; amounts
  are left to the accounting of the engine.
* The engine may refuse any order (cash, limits) and a candle may close any of
  the open positions of its symbol.
* The paper account is seeded or not from the start.
* The commit of a transaction takes effect before its session's lock is
  released, or never. Cancellation of a call in mid-await is not modelled.
* `clean` is history. It turns false when a writer loses the advisory lock with its
  connection, or when a pipeline writes to the cache under a call that is changing
  it. `BooksBalance`, `AnswersAreTrue`, `CacheHoldsCommitted` and
  `WritesAreAtomic` are stated while it holds: after either event the code gives
  no guarantee, and TLC finds the loss when the condition is dropped.
  `OneFillPerId` and `LocksAreOwned` hold without it.

A read is three queries of a READ COMMITTED transaction without the writers' lock
(`paper_trading/repository.py:156`), so a commit in between shows a caller a balance and
positions of different moments; nothing stored is touched. A call that is
cancelled while it persists (`paper_trading/ledger.py:143`) is not caught by `except Exception`, and
keeps the changed cache until the next call loads it anew; that is not modelled. The
worker checks levels against the last candle of a tick only.

### PaperEngine

`account` is the engine: cash, positions, closed trades, last prices, equity
curve. `ExecuteSignal`, `ProcessCandle` (`check_sl_tp`, then `mark_to_market`) and
`Reload` (a save and the next hydrate) are whole calls, since the engine is
synchronous; how calls interleave is the ledger's matter. A fill or an exit of
`PaperLedger` is a change of `account` here.

Arithmetic is exact. Prices are whole ticks and rates whole parts of `Scale`, so a fill
is a multiple of 1/Scale and an amount of money one of 1/Scale²; nothing is
divided, except where the code rounds to cents: the balance in `Reload`, the result of a
trade in `Closed`. Quantities are whole lots, and an order above its budget gets as
many lots as the budget pays for, where the code computes a fraction. Requests and
candles carry positive numbers, as the code requires of them. A candle may be
older than the last accrual, repeat, gap over a stop or reach both
levels. Left out: the statistics of `get_summary` and `reset()`.

### AnalysisControl

A request goes from `new` to `over` through the points at which its task awaits. `sem`
is asyncio's semaphore with its queue; `leased` are the leases that are
not released; `started` gives the contents of `_run_times`; `store` the
retained sessions in order, what they show, and the latest. The wait for a
slot runs in a task of its own (`asyncio.wait_for` of Python 3.11, the version of the
Dockerfile), so a slot is granted (`Enter`, `Resume`) before the caller goes
on (`TakeUp`); a caller cancelled in between goes on. `Close` is the task's done
callback or the response's `aclose`, which release again. Left out: what a run computes,
metrics, changes of settings while the process runs.

An update of a session that was evicted while it runs puts it back as the newest
entry, which can evict a newer run and take over the display. The docstring at
`backend/services/analysis_control.py:106` says that a late update cannot
evict a newer run; that holds only for sessions that are still retained. It takes more
runs within one run's life than the store holds, so not the default settings.

### Pipeline

`node` is the node of the graph the run is at and `busy` says that it was entered, so that
time can pass between reading the deadline and the end of a stage. The agents'
outputs are `signal` (confidence, direction, and whether a model, the rules, missing data or
nobody gave it), `consensus`, `risk` and `execution`; `status` is
`state.pipeline_status` as sets, `written` what reached the database. `outcome` is history:
how each agent really ended, and what `status` is compared with. `Approvable`, `Log` and `Book` are
the approval that `POST /signal` signs and `POST /execute` checks again, any number of
times while the token lives (the order ids that limit it are the ledger's matter).

An agent with an implementation reports its success before it runs; a generic one, whose
prompt the supervisor sends to the model itself, after it. Deployments register all agents
with an implementation; the scripts leave only the news agent without, so `Deployments` ranges over
subsets of {"news"}. A generic risk agent would skip the backstop on its own claim
(`agents/risk.py:343`); no deployment has one, and it is not modelled. Nor is a graph without
model configurations. Percentages are whole numbers: the thresholds are compared with
a value below, at and above them. The limit on the size of a trade against the ledger's
equity, the vision nudge on the composite confidence and stop prices are left out.

`log_execution` runs after the graph and is not guarded (`agents/supervisor.py:926`): a database
that refuses a log row fails the run for its caller after a trade was placed (`LogFails`).

An agent's success is noted before it runs and not taken back when it fails
(`agents/supervisor.py:610`, `:688`), so a failed agent is in the lists of completed and of failed agents;
`StatusTellsWhatRan` states what the lists do say. Nothing gives a pipeline its candles, so its execution
stage declines; given candles, it trades on the engine through an agent built again without
ledger, live engine and session factory (`agents/supervisor.py:633`, `:648`), so no trade row is
written, where `docs/map/processes/analysis-pipeline.md:33` has one, and the ledger's locks
are passed by. `PaperLedger` keeps such a fill as `PipelineFill`.

### ModelRouting

A call is one `ModelRouter.execute`; its stages are its waits: in the line of a queue's
lock, asleep with that lock until a grant expires, in line for the gate of the local
model, at the model, pausing after a 429, backing off, and the same again for the one
corrective request. `breaker` is the router's breaker of a model and `client` the one
that `LLMClient` keeps besides it. Ages take the place of the clock and stop growing
where nothing depends on them. A task may be cancelled at every wait.

What the model shows and the repository does not promise otherwise: a refusal by the
client's own breaker counts as a failure of the router's; an error in a 200 answer counts
twice in the client; a connect timeout is not retried; one grant covers a call and all of
its retries (`agents/router.py:143`), so the requests sent can exceed the rate of grants
that `RateKept` bounds; the first caller of a model fixes the rate of its queue; the half-open
breaker lets every call through, where `agents/circuit_breaker.py:19` speaks of one. Left out:
prompts, answers' contents, statistics. The chat service has a router, queues and breakers of its
own, a second instance of this module that shares nothing with the first.

### Promotion

`record` holds the four figures as the tables have them, `request` what each POST
/mode has read of them so far, statement by statement in the order of
`_query_paper_record_from_db`. Trades close and marks are written in between; the counts and
the drawdown only rise, profit goes both ways. `seen` is history: whether, at some moment of the request,
the record was good as a whole and the kill switch open. `RaisedOnMerit` hangs on the order of the
statements. The kill switch is asked first and not again, so a mode can be raised
just after a kill (`routers/live.py:222`); orders are then stopped by the switch itself.

### Trends and Records

Each request or finishing run is a task with a database session of its own, and each statement a
step; rows are visible once committed, and an UPDATE waits for the row's lock. `get_db` commits
after the answer went out, so a caller can be told of an edit whose commit then fails
(`LoseStrategy`). Two overlapping registrations can each make an account
(`RegistrationCloses` says what is left: it closes for good after that), and two
overlapping edits can undo each other's fields (`EditsCompose`). `Trends` computes the alerts over
integers, without dividing. The execution rate is compared between the halves of the last
five runs, where a docstring of `agents/improvement.py` speaks of ten; ten are only needed for the
comparison to be made. Left out: improvement records' texts and priorities.

### LoginLimit

A table is the sequence of its buckets, the least recently used first, and a window
the sequence of its attempts' ages. `Login` is the whole of `check_and_record` behind the
request bucket of the route: sweep, narrow window, wide window. `tries` is history.
A full table drops windows, so `LimitKept` speaks of callers within what the table can
hold. The narrow window counts an attempt that the wide one then refuses, and
the refusal by the wide window tells the caller to retry after 0 seconds, as `retry_after` looks at
the narrow one alone (`backend/core/login_rate_limit.py:158`).

### Backtest and Signals

A step of `Backtest` is one turn of the loop over the candles, which are chosen as the
loop reaches them: levels first, then the signals of that candle, then the mark. Money is
exact, in `Fractions`. Left out: Sharpe and Sortino ratios, which need roots, and
the rounding of what `Backtest` reports. `Signals` takes candles one by one and keeps what the rules say, the route's
signals, and what becomes of a model's answer. Periods are constants: the code's 12, 26, 9,
20, 50, 200 and 14 would need as many candles; what depends on a period is only how many
candles are asked for. The indicators are rounded as in the code before the rules compare
them, half a step to the even one (`Rounded`); the step is a constant, the code's four decimals
would be a `Grid` of 10000, and the RSI has its two. `SignalsAreMeant` compares what is kept with the
indicators before they are rounded. Standard deviations are roots and stay squared: where a
band rounds to is decided by the square of its distance to the half step (`Within`).

Seen while modelling, and described here because no document says otherwise: the route
keeps signals above 60, while momentum says at most 60 and breakout exactly 60, so the
route trades neither, although momentum is its default; prices that never move give an RSI
of 100, and with it a mean-reversion short at 75; breakout goes against the break;
a confidence of NaN becomes 100, and one in words raises out of the agent; a model's direction is
combined with the rules' strategy if its own is unknown; no signal of the route has a stop or a
target; candles without volume are dropped from the average of volumes; below a price of one the
spread of the averages is not relative (`agents/quant.py:245`), and four decimals are many or few by the
price, so what is traded depends on the unit of the price: a cheap market loses signals to rounding.
`SignalsAreMeant` says that it gains none, but for half a step of the average range
against one per cent of the price.

## 3. Runs

| Run | Shows |
|---|---|
| `kill_switch` | Two processes, two tokens, outages with loss of contents: latches open only for a newer arm, one re-arm reaches all that go on being asked, the promise is implemented |
| `kill_local_trip` | violation: an arm from before an outage opens a latch |
| `live_engine` | Two tasks, two overlapping starts: which waiting orders may still go out, that what can reach the exchange is shown as running, that waiting orders drain after a kill |
| `live_order_after_kill` | violation: an order goes out after the kill |
| `paper_ledger` | Three calls in two processes: balance, uniqueness, truthful answers, atomic writes |
| `paper_engine` | Five calls on two symbols: the balance reconciles with history, carry is charged once, an order is filled within its means or undone, stops hold |
| `analysis_control` | Four requests: slots conserved, budget kept by callers that waited, states of finished runs marked, every slot returned |
| `pipeline` | One run with every answer on both sides of each threshold, with and without a deadline: money is gated, a deadline leaves nothing behind, the status is true, a run with a deadline ends |
| `model_routing` | Two calls over a local and a hosted model: rates kept, the gate's slots conserved, tripped models rest, a call ends |
| `backtest` | Every simulation over four candles and every signal over six: books, levels, trades and report agree, and what is kept is what the exact indicators mean |
| `macd_signal_line` | violation: the signal line leaves out the values of the series that are not positive |
| `requests` | Registration, edits, alerts, the promotion gate and logins: closed for good, nothing lost or thawed, trends durable, modes raised on merit, windows kept |

**Bounds.** `kill_switch`: two processes suffice for every race of one with
another; two tokens allow a baseline and an arm, an arm and a fresh baseline after a
flush, or an arm before and one after an outage. `live_engine`: two tasks, so that
one waits while the other runs through; two starts, so that a stop falls between
them. `paper_ledger`: three calls, so that a position can be opened, reversed and
retried, or a writer be overtaken by a reader and a second writer; two processes,
so that both locks matter; one symbol, since books of different symbols
share the balance only, and two opposite sides, with and without a client order
id. `paper_engine`: two symbols, so that margin and carry of one meet orders of the
other; five orders, among them reversals and one too large; four bars, among
them a gap and one that reaches stop and target; five calls, so that open, add,
reverse, mark and save fit in; a clock of two. `analysis_control`: two slots, so that one comes
free while another is granted; four requests, so that two wait and one
arrives; room for one state, so that running sessions are evicted; a budget of two in
a window of two units, with a clock that reaches its end. `pipeline`: confidences 75, 80 and
81, the most the quant's rules give, the threshold itself (which the market analyst's rules
reach) and one above; scores 30, 70 and 120, the base, the limit and a claim outside the scale; one
deadline and none, with a clock that passes it; two bookings, so that one approval is used
twice. `model_routing`: two calls, so that one holds what the other waits for; a local and
a hosted model, so that there is a gate and something to fall back to; every limit is
one, so that each is reached: one grant in a window, one waiter, one retry, one slot, breakers
that trip at the first failure. What a threshold above one adds, a count that a success takes
back to zero, is not exercised. `backtest`: three bars that rise, fall and reach both levels, over
four candles: open, reach a level, reverse and open again; commission and slippage of a
third, so that a short can lose everything; periods of one to four, so that each indicator has
values to move by; a grid of five steps in a price of one, where the code has 10000, so that
rounding to a step moves an indicator often. `requests`: two tasks; histories about to fill the window of the
analysis; two e-mails from two addresses, more pairs and more addresses than the
tables hold; three trades, with the thresholds at two and one. Its requests, e-mails and
addresses are symmetric: no other constant and no property picks out one, and the run has no
liveness. Elsewhere processes, tasks and calls are not declared symmetric: liveness is
checked with most of them, and the ledger's calls are numbered in the order they arrive.

**Deadlock** is checked in the runs of `KillSwitch`, `LiveEngine`, `PaperLedger` and `ModelRouting`: a restart,
a new call or a tick is always possible there, so the absence of deadlock alone shows
little; `LocksAreOwned` (proved), that no lock is held by a call that is over, `KillDrains` and
`FirstCallEnds` say what matters. `PaperEngine`, `AnalysisControl`, `Pipeline`, `Backtest` and the requests do stop, when
the calls and the clock are at their bounds or the run is over; `EverySlotComesBack` and
`DeadlinedRunsEnd` say that nothing is stuck by then.

**Fairness.** `KillSwitch`: none. `check()` runs once per order (`live_trading/engine.py:265`) and
nothing calls it on its own; the runner's loop only trips the switch. `RearmReachesCallers`
is about a process that is asked again and again, and says so in its premise, as it says
that Redis stays. `LiveEngine`: each await
of a task ends (WF), since the database and the exchange client have timeouts.
`AnalysisControl`: a run ends (WF), since calls of models have timeouts,
the deadline stops it before its next stage, and callbacks run; nothing is
assumed of those who wait. `Pipeline`: what is ready runs, and the clock goes on (WF); nothing
says that a stage which waits for a model ever ends, so `DeadlinedRunsEnd` rests on the
remaining time alone. The audit stages call no model and end (WF); the memory agent's call of
its vector store is assumed to return. `ModelRouting`: time passes and a call that can go on
does (WF), as requests time out in the HTTP client; tasks may stop calling and need not be
cancelled. `FirstCallEnds` is the same for the other call, since the two are alike. `PaperEngine` and `PaperLedger` state no liveness:
the engine runs only when called, and in the ledger a queue of writers on a polled
`pg_try_advisory_xact_lock` is not fair, and the code promises only that a call
gives up.

## 4. Proofs

All for any sets of processes, tasks and calls and any bounds, from the assumptions on
constants of each module alone. TLC checks the inductive invariants'
consequences on the instances above. Type invariants, and the simpler ones of the properties below
(`AckedTripIsStored`, `NoAllowAfterAck`, `AllowOnlyUnlatched`, `PaperOnly`, `LocksAreOwned`, `CacheHoldsCommitted`, `BooksSound`), are
theorems only: no run repeats them.

* **KillSwitch**: type correctness, `AckedTripIsStored`, `NoAllowAfterAck`,
  `AllowOnlyUnlatched`, `LatchClearsOnlyByNewerArm`, and that it implements
  `KillSwitchPromise`. The stored flag alone is not inductive: the invariant adds
  that a trip whose reason or time stamp is still being written has its flag
  stored or was taken back by an arm, that a token which differs from the
  observed one and is an arm's was published since the process last read it, and
  that a process past the last look at its latch is not latched.
* **LiveEngine**: type correctness, `PaperOnly`, `ConnectedIsRunning`,
  `OnlyEarlyOrdersAfterKill`, and `SwitchAsPromised`: every step is a
  step of `KillSwitchPromise` or leaves its state alone. The invariant adds
  that with live trading disabled no start and no task is under way
  (`WorkNeedsSetting`), that a connected engine is running (`LinkedIsRunning`), and that
  a task whose check passed before a kill is among `early` (`PassedIsEarly`).
* **PaperLedger**: type correctness, `LocksAreOwned`, `OneFillPerId`,
  `BooksBalance`, `AnswersAreTrue`, `CacheHoldsCommitted` and `WritesAreAtomic`.
  The invariant says what each stage of a call guarantees: a call past a lock owns
  it (`Locks`); a call that has not come in has left no trace (`Progress`); while `clean`
  holds, the rows read so far are the rows of `books`, the snapshot equals `books`,
  the cache is `books` with this one call applied, and the set to close was open
  (`Whole`); what was reported stays true (`Answers`); a free cache holds committed fills
  (`Caches`). `Whole` rests on mutual exclusion of the writers, and gives `WritesAreAtomic`:
  the books change only by `Fill` or `Exit` of their current value.

* **PaperEngine**: `BooksSound`, `CarryIsExact` and `StopsHold`, for any symbols,
  orders, candles and rates. The invariant adds that ids are given out once and
  in order (`Named`), which keeps a closed position from being confused with a later one,
  and that everything but the curve is well typed; it does not depend on what the
  equity is or how many lots an order is granted. Every change of the account is a
  lemma (`Closing`, `OpeningPosition`, `Undoing`, `AccruingAll`, `Marking`, `Saving`), and a
  call is their composition.

  On top of it `BalanceInv` gives type correctness (with the curve), `CashReconciles` and
  `FilledOrUndone`. It says that the sets of positions and trades are finite, that amounts are whole,
  and how far the balance may be from what trades and positions say (`Drift`): half a cent for each
  trade and each save. Opening, closing, charging carry and saving each move the balance and one
  of the two sums by the same amount, except for what a rounding adds; the lemmas of `FoldLemmas`
  about a sum that gains, loses or changes one member say by how much. The books of `IInv` are needed for
  it: a position that is closed becomes one new trade, and charging merges no two positions.

* **Pipeline**: type correctness, `GatesHold`, `DeadlineSparesDecisions` and
  `StatusTellsWhatRan`, for any confidences, scores, deadlines and bounds. The invariant
  says who can be confident enough (`Answers`), what each node has behind it (`Decisions`,
  `Ahead`), that a run which still has a deadline has no terminal decision
  behind it (`Deadlines`) and whose approval it is (`Approvals`). The status needs a second
  one: each agent runs once, at its own node (`Untouched`), and the lists
  agree with the history agent by agent (`Listed`), complete at the end (`Accounted`).
  `Listing` and `Skipping` are the lemmas about one report.

* **AnalysisControl**: type correctness, `SlotsConserved`, `BudgetHolds` and `StoreIsTrue`, for any
  number of requests, slots, runs and entries. `GateInv` counts the slots that are free,
  given to a woken waiter or held by a request at one of the stages that have one: the sum
  (`Slots`) is `MaxConcurrent`; `Counting`, `TakenKeeps`, `FreedKeeps`, `AbandonedKeeps` and `ResumedKeeps` are
  the lemmas about a slot that moves. `BudgetInv` says that no start lies in the future, so that a
  window which a new start falls into holds only what the check of the budget counted.
  `StoreInv` says of each stage what the store may show of the request.

* **ModelRouting**: type correctness, `RateKept`, `TrippedModelRests` and `GateConserved`, for any number of
  calls, any chains of models and any limits. Four invariants split the state, of which `ClientInv` only
  types the client's breakers. `RoutingInv` says where a call may be, and
  that who sleeps for a slot is the first in its line: nobody else is granted one there. `RateInv`
  rests on it: the ages of a queue are in order, and there may be one more than `rpm` of them only
  when the first has expired, which is what a sleeper waits for. `GateInv` counts the slots that are free or given
  to a waiter, and those in use, with the calls that hold one; each way to leave a model keeps the sum
  (`ReleaseSettles`, `LeavingSettles`, `AttemptSettles`). `TrippedModelRests` follows from what each step does to a
  breaker that rests (`Stepped`, `Tended`).

* **Promotion** (in `RequestsProofs`): `RaisedOnMerit`, for any number of operators, any thresholds and a record of any length.
  The invariant (`ReadIsOld`) relates what was read to the record as it is now: the counts read are lower
  bounds, and once the profit is read either the record was good at that moment or its drawdown is
  too deep for good.

* **Records** (in `RequestsProofs`): `RegistrationCloses`, `PromotedIsFrozen` and `EditsCompose`, for any number of requests, addresses
  and fields. The invariant says that an edit that has written holds the lock of a row that is still
  editable, and that a row read at the version of now has the fields of now.

  `TrendsSurvive` has an invariant of its own (`HistoryInv`): a session has one row from its insert to its
  commit (`RowsAreOwned`), and what came before a run that was analyzed alone is committed for good, while
  until its commit its session holds what that history calls for (`AloneIsAnalyzed`). `Durable`, the
  committed runs in order, is a recursive function of the length, and the lemmas about it are by
  induction on that.

* **LoginLimit** (in `RequestsProofs`): `LimitKept` and `RefusedOnlyWhenSpent`, for any names and addresses, any limits, windows,
  table sizes and sweep intervals. The invariant (`LoginInv`) says that each table is sound for the log
  of tries (`Sound`): its keys are distinct and in the order of their last use, the ages of a bucket are in
  order and no more than the limit, each live attempt of a bucket is one counted try of its key, and
  each counted try is one of them or has been followed by more keys than the table has room
  for. Both theorems follow from that matching. Pruning, sweeping, evicting, fetching, recording and ageing
  each keep it, for a table and a log in general; the two limits are the two instances.

* **Backtest** (in `TradingProofs`): `BooksReconcile`, `StopsHold`, `TradesAreSound` and `ReportIsTrue`, for any candles with
  positive prices, any lists of signals, any commission from 0 to 1, any slippage from 0 up to 1 and any capital.
  The invariant (`BacktestIInv`) adds to the books (`Books`, which while a position is open
  say what it took at its entry) three things. `SignHolds`: there is cash, or a position with a quantity, until a trade
  has lost all. A short closed above twice its entry leaves negative cash and so negative quantities
  afterwards, so the sign has to be carried along with the trade that explains it. `TradesHold`: where each trade and the open position
  stand among the candles (`History`, `OpenHolds`), so that the candles between entry and exit are known not to have hit a
  level although the levels are tested one candle at a time. `CurveHolds`: how long the curve is, and that
  once nothing is open its last value is the cash.
  One candle is the composition of lemmas about an account in general: `LevelsKeep` for stop and target,
  `SignalKeeps` for one signal, `CandleKeeps` for a list of them by induction on its length, with `Closing`, `Opening` and
  their `...Books`, `...History` and `...Signs` below.
  The report needs what the folds compute: `DrawdownIsDeepest` for the running peak, `GainsSplit` for the
  two sums, `WinsAndLosses` for the two counts.

  `Fractions` are pairs in lowest terms, compared by equality. `Gcd` is the algorithm of Euclid, a recursive
  function, so first it is shown to divide both arguments and to be a combination of them; then that
  equal quotients in lowest terms are the same pair (`SameValue`). From there on a fraction
  is reasoned about through `Value(x, a, b)`, x is a/b: each operation gives the value one expects
  (`PlusValue`, `TimesValue`, `OverValue`, `BelowValue`, ...), and a law of fractions is an identity
  of polynomials over the integers. `CostsCancel`, `BoughtReturns`, `SoldReturns` and
  `CashIsSpent` are the laws the books need.

* **Signals** (in `TradingProofs`): `SignalsAreMeant`, for any candles with positive prices and any volumes, any periods of
  which the fast one is at most the slow one and the medium at most the long one, any grid, model answers and hints.
  Rounding to the nearest, and to the even one of two, never turns the order of two numbers around
  (`NearestMonotone`, `RoundedMonotone`); it leaves whole numbers alone (`RoundedWhole`), so the limits of the RSI
  and the zero of the histogram stay where they are; and it adds half a step at most (`RoundedNear`), which is what the
  average range may lack. That needs the indicators to be fractions in the first place:
  the averages by induction on the number of prices (`CleanedTyped`, `SmoothedEases`), and then the RSI, the MACD
  with its series and the ranges (`StrengthTyped`, `AverageTyped`, `MeanRangeTyped`). `ReversalIsMeant` and `TrendIsMeant` are about the two
  rules that can be sure, `RulesAreSound` about all four and the choice among them, whose surest exists
  by induction. The invariant (`SignalsInv`) adds that a signal's candle is one of those taken, so that what
  it was taken on has only got successors since.

**Induction.** The library's induction theorems take an operator, which these provers cannot
instantiate. `FoldLemmas` states induction over numbers and over finite sets for a set instead, that of the
numbers (or subsets) with the property, and derives it from the least element of a set of naturals. A
recursive function `f[n \in 0..N]` is a CHOOSE of a solution of its equation: a first induction shows
that there is one (`RecursionExists`, for the sums, the signals of a candle, the drawdown, the cleaned prices and the averages), and a second one proves what it computes. `SumFunction` of the community modules is such a fold.

**Model-checked only.** The liveness properties (`RearmReachesCallers`,
`KillDrains`, `EverySlotComesBack`, `DeadlinedRunsEnd`, `FirstCallEnds`): liveness under fairness is
outside this prover, and so is `RearmReachesCallers`, which needs none. Every other property of the passing runs, invariant, action property or refinement, has a theorem.

## 5. Findings

1. `kill_local_trip`: a process that read its last token before an arm, and whose
   own trip failed during an outage, unlatches at the next check although
   nobody armed after the trip (`live_trading/safety.py:216`).
2. `live_order_after_kill`: the kill switch is read first, then the checks wait for
   the database, then the order goes out (`live_trading/engine.py:265`). The window
   is exactly the orders whose check passed before the kill
   (`OnlyEarlyOrdersAfterKill`, proved).
3. `macd_signal_line`: the signal line is averaged by the function that averages prices, which
   drops what is not positive (`agents/indicators.py:154`), so in a falling market the line is
   that of the rises before it, or missing.

What was seen without a run of its own is described with its module in section 2: a failed
order reported as executed, a summary torn by a commit, a fill that leaves no row, a
failed agent that is also listed as completed, a second caller through a half-open breaker.

## 6. Plan

What is left, in this order.

1. An abstract gate, a counter of slots, that both users of `Semaphore` refine.
2. A larger instance of `ModelRouting`, with a threshold of two and a third call.
3. `MarketCache`, when a cache is wired up.

## 7. Not modelled

The market data cache, since nothing gives the ingestor one; its range scan
(`backend/data/cache.py:98`) reads one page of keys. Data source adapters, other connectors and the web front end (I/O);
tokens and roles (stateless checks); schema and deployment. Of the agents, prompts and texts, candlestick
patterns and the Kronos model; settings and chat history are rows written by their
key. Every component that is partly modelled says in `PROJECT.json` what is left out of it.
