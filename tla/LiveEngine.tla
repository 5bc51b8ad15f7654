----------------------------- MODULE LiveEngine -----------------------------
(***************************************************************************)
(* Live order placement: live_trading/engine.py and the code around it.    *)
(*                                                                         *)
(* Two processes own a LiveTradingEngine each: the API, whose routes       *)
(* (backend/routers/live.py) start and stop it and change its mode, and    *)
(* the runner (scripts/run_live.py), whose poll loop evaluates the         *)
(* drawdown.  Both run agent pipelines that end in ExecutionAgent.process. *)
(* A process runs one coroutine at a time, so the code between two awaits  *)
(* is one action here; between two actions anything else may run.          *)
(*                                                                         *)
(* The kill switch is the one KillSwitchPromise describes: a check may     *)
(* block at any time (storage trouble) and passes only while no            *)
(* acknowledged trip is in force.  A query for the paper record has any    *)
(* answer: the record changes, and a database error falls back to an empty *)
(* one, which fails the promotion gate.                                    *)
(*                                                                         *)
(* The execution agent is the one the processes construct and register,    *)
(* with its live engine (backend/routers/analysis.py, run_live.py, and     *)
(* tests/test_agents/test_execution_live_routing.py).  The supervisor      *)
(* builds it again without one (agents/supervisor.py:648): the README's    *)
(* findings say what follows.                                              *)
(*                                                                         *)
(* An operator marked FAULTY is the next operator with a plausible bug,    *)
(* kept to show that a property notices it.                                *)
(***************************************************************************)
EXTENDS Naturals

CONSTANTS
    Tasks,      \* the calls of ExecutionAgent.process or execute_signal
    MaxStarts   \* bound on POST /start requests inside exchange.connect()

ASSUME StartsAssumption == MaxStarts \in Nat \ {0}

Engines == {"api", "runner"}
Modes   == {"human", "semi", "auto"}
Raised  == {"semi", "auto"}

VARIABLES
    killed,    \* shared: an acknowledged trip is in force
    enabled,   \* settings.live_trading_enabled, the same in both processes
    mode,      \* mode_manager.mode of each engine
    running,   \* _running of each engine
    client,    \* the connector holds a client object
    linked,    \* the connector's _connected
    starts,    \* POST /start requests inside exchange.connect()
    raising,   \* POST /mode requests waiting for the paper record, by target
    task,      \* the pipelines and direct callers
    order,     \* external: what the exchange has of each task's last order
    early      \* history: tasks whose kill check passed before the last kill

engines    == <<mode, running, client, linked>>
routes     == <<starts, raising>>
engineVars == <<killed, enabled, engines, routes, task, order, early>>

\* route: ExecutionAgent waits for the paper record; check: check_pre_trade
\* does; sent: create_order waits for the exchange.
Stages   == {"idle", "route", "check", "sent"}
Outcomes == {"none", "paper", "refused", "executed"}
TaskState == [stage : Stages, engine : Engines, approved : BOOLEAN,
              killOk : BOOLEAN, modeOk : BOOLEAN, outcome : Outcomes]

\* A task that is over, with what it reported.
Idle(outcome) == [stage |-> "idle", engine |-> "api", approved |-> FALSE,
                  killOk |-> FALSE, modeOk |-> FALSE, outcome |-> outcome]

EngineTypeOK ==
    /\ killed \in BOOLEAN
    /\ enabled \in BOOLEAN
    /\ mode \in [Engines -> Modes]
    /\ running \in [Engines -> BOOLEAN]
    /\ client \in [Engines -> BOOLEAN]
    /\ linked \in [Engines -> BOOLEAN]
    /\ starts \in 0 .. MaxStarts
    /\ raising \subseteq Raised
    /\ task \in [Tasks -> TaskState]
    /\ order \in [Tasks -> {"none", "open", "cancelled"}]
    /\ early \subseteq Tasks

EngineInit ==
    /\ killed = FALSE
    /\ enabled \in BOOLEAN
    /\ mode = [e \in Engines |-> "human"]
    /\ running = [e \in Engines |-> FALSE]
    /\ client = [e \in Engines |-> FALSE]
    /\ linked = [e \in Engines |-> FALSE]
    /\ starts = 0
    /\ raising = {}
    /\ task = [t \in Tasks |-> Idle("none")]
    /\ order = [t \in Tasks |-> "none"]
    /\ early = {}

-----------------------------------------------------------------------------
(* What the code reads *)

\* exchange.is_connected
Connected(e) == client[e] /\ linked[e]

\* The answers of KillSwitch.check() and is_active.
Answers == {v \in {"allow", "block"} : v = "allow" => ~killed}

\* mode_manager.requires_approval() and no approval_id, read at the moment the
\* order would go out.
ApprovalNeeded(t) == ~task[t].approved /\ mode[task[t].engine] = "human"

\* _raise_if_blocked over the four results, the mode result filtered out when
\* an approval_id came with the order; the promotion gate may fail at any time.
\* (FAULTY: a kill result that no exception is mapped to falls through.)
MustBlockButKill(t) ==
    \/ ~task[t].modeOk /\ ~task[t].approved
    \/ ~Connected(task[t].engine)
MustBlock(t) ==
    \/ ~task[t].killOk
    \/ ~task[t].modeOk /\ ~task[t].approved
    \/ ~Connected(task[t].engine)

-----------------------------------------------------------------------------
(* ExecutionAgent.process and LiveTradingEngine.execute_signal *)

Finish(t, outcome) == task' = [task EXCEPT ![t] = Idle(outcome)]

\* check_pre_trade up to its await: the kill switch, then the mode.  (FAULTY:
\* the kill switch is asked after the wait, and the answer assumed until then.)
BeginChecksUnasked(t, e, approved) ==
    task' = [task EXCEPT ![t] = [stage |-> "check", engine |-> e, approved |-> approved,
                killOk |-> TRUE, modeOk |-> mode[e] # "human", outcome |-> "none"]]
BeginChecks(t, e, approved) ==
    \E v \in Answers :
        task' = [task EXCEPT ![t] = [stage |-> "check", engine |-> e, approved |-> approved,
                    killOk |-> v = "allow", modeOk |-> mode[e] # "human", outcome |-> "none"]]

\* A caller of execute_signal, with or without an approval_id: the paper-only
\* backstop comes before the checks.
CallEngine(t, e, approved) ==
    /\ task[t].stage = "idle"
    /\ IF enabled THEN BeginChecks(t, e, approved) ELSE Finish(t, "refused")
    /\ order' = [order EXCEPT ![t] = "none"]
    /\ UNCHANGED <<killed, enabled, engines, routes, early>>

\* A pipeline reaches the execution agent: live only if the engine runs.
StartPipeline(t, e) ==
    /\ task[t].stage = "idle"
    /\ IF enabled /\ running[e] /\ Connected(e)
       THEN task' = [task EXCEPT ![t] = [Idle("none") EXCEPT !.stage = "route", !.engine = e]]
       ELSE Finish(t, "paper")
    /\ order' = [order EXCEPT ![t] = "none"]
    /\ UNCHANGED <<killed, enabled, engines, routes, early>>

\* The paper record arrived: AUTO and promoted go live, the rest is paper.
RouteOrder(t) ==
    /\ task[t].stage = "route"
    /\ \/ mode[task[t].engine] = "auto" /\ BeginChecks(t, task[t].engine, FALSE)
       \/ Finish(t, "paper")
    /\ UNCHANGED <<killed, enabled, engines, routes, order, early>>

\* check_pre_trade resumes; nothing waits between its end and create_order.
RefuseOrder(t) ==
    /\ task[t].stage = "check"
    /\ Finish(t, "refused")
    /\ early' = early \ {t}
    /\ UNCHANGED <<killed, enabled, engines, routes, order>>

\* The order leaves; the exchange takes it or does not.
PlaceOrder(t) ==
    /\ task[t].stage = "check"
    /\ ~ApprovalNeeded(t) /\ ~MustBlock(t)
    /\ task' = [task EXCEPT ![t] = [Idle("none") EXCEPT !.stage = "sent",
                                                       !.engine = task[t].engine]]
    /\ order' \in {order, [order EXCEPT ![t] = "open"]}
    /\ early' = early \ {t}
    /\ UNCHANGED <<killed, enabled, engines, routes>>

\* create_order returned: with the exchange's answer, or, as Binance turns
\* errors into a result, with status "failed" whatever happened.
ReceiveOrder(t) ==
    /\ task[t].stage = "sent"
    /\ Finish(t, "executed")
    /\ UNCHANGED <<killed, enabled, engines, routes, order, early>>

\* create_order raised: not connected, or another connector's error, before or
\* after the exchange took the order.
OrderError(t) ==
    /\ task[t].stage = "sent"
    /\ Finish(t, "refused")
    /\ UNCHANGED <<killed, enabled, engines, routes, order, early>>

-----------------------------------------------------------------------------
(* The routes of the API *)

\* The route and start() both ask the setting.
MayStart == enabled /\ ~running["api"]

\* POST /start up to exchange.connect(): a new client, nothing verified yet.
StartEngine ==
    /\ MayStart
    /\ starts < MaxStarts
    /\ starts' = starts + 1
    /\ client' = [client EXCEPT !["api"] = TRUE]
    /\ UNCHANGED <<killed, enabled, mode, running, linked, raising, task, order, early>>

\* connect() returned True, and start() sets _running.
StartSucceeds ==
    /\ starts > 0
    /\ starts' = starts - 1
    /\ linked' = [linked EXCEPT !["api"] = TRUE]
    /\ running' = [running EXCEPT !["api"] = TRUE]
    /\ UNCHANGED <<killed, enabled, mode, client, raising, task, order, early>>

StartFails ==
    /\ starts > 0
    /\ starts' = starts - 1
    /\ UNCHANGED <<killed, enabled, engines, raising, task, order, early>>

\* disconnect() drops the client.  (FAULTY: only _running is reset.)
KeepLink   == UNCHANGED <<client, linked>>
Disconnect ==
    /\ client' = [client EXCEPT !["api"] = FALSE]
    /\ linked' = [linked EXCEPT !["api"] = FALSE]

\* POST /stop
StopEngine ==
    /\ running["api"]
    /\ Disconnect
    /\ running' = [running EXCEPT !["api"] = FALSE]
    /\ UNCHANGED <<killed, enabled, mode, routes, task, order, early>>

\* POST /mode: asks the kill switch first.  Human approval is set at once, the
\* other modes wait for the paper record.
RequestMode(m) ==
    /\ "allow" \in Answers
    /\ mode' = IF m = "human" THEN [mode EXCEPT !["api"] = m] ELSE mode
    /\ raising' = IF m \in Raised /\ enabled THEN raising \union {m} ELSE raising
    /\ UNCHANGED <<killed, enabled, running, client, linked, starts, task, order, early>>

\* The paper record arrived: the mode changes if the gate passes.
FinishMode(m) ==
    /\ m \in raising
    /\ raising' = raising \ {m}
    /\ mode' \in {mode, [mode EXCEPT !["api"] = m]}
    /\ UNCHANGED <<killed, enabled, running, client, linked, starts, task, order, early>>

\* A trip that is acknowledged: POST /kill, or auto_trigger below.
TripEngines ==
    /\ killed' = TRUE
    /\ early' = early \union {t \in Tasks : task[t].stage = "check" /\ task[t].killOk}

Kill == TripEngines /\ UNCHANGED <<enabled, engines, routes, task, order>>

\* POST /arm, or the store lost the flag.
Release ==
    /\ killed' = FALSE
    /\ UNCHANGED <<enabled, engines, routes, task, order, early>>

-----------------------------------------------------------------------------
(* The runner's poll loop and the environment *)

\* evaluate_drawdown over the threshold: auto_trigger reaches the store or only
\* latches this process; this engine falls back to human approval and cancels
\* the open orders if it is connected.
EvaluateDrawdown(e) ==
    /\ TripEngines \/ UNCHANGED <<killed, early>>
    /\ mode' = [mode EXCEPT ![e] = "human"]
    /\ order' = [t \in Tasks |-> IF Connected(e) /\ order[t] = "open" THEN "cancelled"
                                                                      ELSE order[t]]
    /\ UNCHANGED <<enabled, running, client, linked, routes, task>>

\* A process restarts: its requests and pipelines are gone, orders stay.
RestartEngine(e) ==
    /\ mode' = [mode EXCEPT ![e] = "human"]
    /\ running' = [running EXCEPT ![e] = FALSE]
    /\ client' = [client EXCEPT ![e] = FALSE]
    /\ linked' = [linked EXCEPT ![e] = FALSE]
    /\ starts' = IF e = "api" THEN 0 ELSE starts
    /\ raising' = IF e = "api" THEN {} ELSE raising
    /\ task' = [t \in Tasks |-> IF task[t].stage # "idle" /\ task[t].engine = e
                                THEN Idle("none") ELSE task[t]]
    /\ early' = {t \in early : task[t].engine # e}
    /\ UNCHANGED <<killed, enabled, order>>

TaskStep(t) == RouteOrder(t) \/ RefuseOrder(t) \/ PlaceOrder(t) \/ ReceiveOrder(t) \/ OrderError(t)

EngineNext ==
    \/ \E t \in Tasks, e \in Engines :
          StartPipeline(t, e) \/ \E approved \in BOOLEAN : CallEngine(t, e, approved)
    \/ \E t \in Tasks : TaskStep(t)
    \/ StartEngine \/ StartSucceeds \/ StartFails \/ StopEngine
    \/ \E m \in Modes : RequestMode(m) \/ FinishMode(m)
    \/ Kill \/ Release \/ EvaluateDrawdown("runner")
    \/ \E e \in Engines : RestartEngine(e)

\* Every await of a task ends: the database and the exchange client have
\* timeouts.
EngineFairness == \A t \in Tasks : WF_engineVars(TaskStep(t))

EngineSpec == EngineInit /\ [][EngineNext]_engineVars
FairEngine == EngineSpec /\ EngineFairness

-----------------------------------------------------------------------------
(* Properties *)

\* The step in which the order of t goes to the exchange.
Places(t) == task[t].stage = "check" /\ task'[t].stage = "sent"

\* The engine is built on what the kill switch promises, and on no more: the
\* answers its orders carry are answers the promise allows.
Switch == INSTANCE KillSwitchPromise WITH Procs <- Tasks,
    verdict <- [t \in Tasks |-> IF task[t].killOk THEN "allow" ELSE "block"]
SwitchAsPromised == Switch!Spec

\* An order that goes out while a trip is in force had passed its kill check
\* before that trip: the wait for the paper record is the whole window.
OnlyEarlyOrdersAfterKill == [][\A t \in Tasks : Places(t) /\ killed => t \in early]_engineVars

\* An engine that can reach the exchange is one that reports it is running,
\* through overlapping starts and stops: stopping it cuts the connection.  A
\* start that is still connecting when the engine is stopped sets both again.
ConnectedIsRunning == \A e \in Engines : Connected(e) => running[e]

\* With live trading disabled no engine runs and no order exists.
PaperOnly ==
    ~enabled => /\ \A e \in Engines : ~running[e]
                /\ \A t \in Tasks : order[t] = "none"

\* Liveness: a kill that stays in force drains the orders on their way.
KillDrains == <>[]killed => <>[](\A t \in Tasks : task[t].stage # "sent")

\* Stated by docs/01-SPEC.md and the KillSwitch docstring and not kept: a kill
\* halts live order placement immediately.
KillHaltsOrders == [][\A t \in Tasks : Places(t) => ~killed]_engineVars
=============================================================================
