------------------------------ MODULE Pipeline ------------------------------
(***************************************************************************)
(* One run of the analysis pipeline, from the request to the trade:        *)
(* agents/supervisor.py (the graph), agents/consensus.py, agents/risk.py,  *)
(* what agents/market_analyst.py and agents/quant.py may answer,           *)
(* agents/execution.py as the supervisor builds it, and the approval that  *)
(* POST /signal issues and POST /execute checks again                      *)
(* (backend/routers/analysis.py, backend/routers/trading.py).              *)
(*                                                                         *)
(* A stage is entered (the deadline is read) and finished in two steps;    *)
(* time passes in between.  An agent is registered with an implementation, *)
(* or generic: then the supervisor sends its prompt to the model itself    *)
(* (the scripts run the news agent so).  Prompts, rationales, latencies    *)
(* and the text of errors are left out.                                    *)
(*                                                                         *)
(* An operator marked FAULTY is the next operator with a plausible bug,    *)
(* kept to show that a property notices it.                                *)
(***************************************************************************)
EXTENDS Naturals, Sequences

CONSTANTS
    Confidences,   \* the confidences tried, in percent
    RiskScores,    \* the risk scores tried; a model may claim any number
    Timeouts,      \* the values of timeout_seconds
    Deployments,   \* sets of agents registered without an implementation
    TokenLife,     \* approval_token_expire_minutes
    MaxBookings,   \* bound on the trades booked with one approval
    MaxTime,       \* bound on the clock
    None           \* no deadline, no approval

ASSUME ConstantsAssumption ==
    /\ Confidences \subseteq 0 .. 100
    /\ RiskScores \subseteq Nat
    /\ Timeouts \subseteq Nat
    /\ Deployments \subseteq SUBSET {"news"}
    /\ {TokenLife, MaxBookings, MaxTime} \subseteq Nat
    /\ None \notin Nat

RequiredConfidence == 80
MaxRiskScore       == 70
BaseScore          == 30   \* the risk score without market data

PipelineOrder == <<"market_analyst", "quant", "news", "vision", "consensus",
                   "risk", "execution", "journal", "reflection", "memory">>
Agents == {PipelineOrder[i] : i \in DOMAIN PipelineOrder}

\* the agents that come before a in PIPELINE_ORDER
Before(a) == {PipelineOrder[i] : i \in {j \in DOMAIN PipelineOrder :
                 \A k \in 1 .. j : PipelineOrder[k] # a}}

Audits == {"journal", "reflection", "memory"}
Stages == {"analysis", "quant", "news", "risk", "execution"} \cup Audits
Nodes  == Stages \cup {"supervisor", "consensus", "log", "end"}

\* the graph's unconditional edges; "log" is log_execution, after the graph
Successor == [analysis |-> "quant", quant |-> "news", news |-> "consensus",
              execution |-> "journal", journal |-> "reflection",
              reflection |-> "memory", memory |-> "log"]

VARIABLES
    run,       \* what was asked: execute_trades, candles given, agents generic
    node,      \* the node of the graph the run is at
    busy,      \* that node has been entered
    deadline,  \* state.deadline_monotonic
    now,       \* the clock
    signal,    \* the outputs of the market analyst and of the quant
    consensus, \* the consensus engine's answer
    risk,      \* the risk agent's output
    execution, \* what the execution agent did
    status,    \* state.pipeline_status
    outcome,   \* how each agent really ended (history)
    written,   \* the rows the run left in the database
    result,    \* how the run ended for its caller
    approval,  \* when the issued approval token expires
    bookings   \* trades booked by POST /execute with it

vars == <<run, node, busy, deadline, now, signal, consensus, risk, execution,
          status, outcome, written, result, approval, bookings>>
graphVars  == <<run, written, approval, bookings>>
outputVars == <<signal, consensus, risk, execution>>

-----------------------------------------------------------------------------
(* What the agents answer.                                                 *)

Directions == {"long", "short", "flat"}
Signals == [confidence : 0 .. 100, direction : Directions,
            by : {"model", "rules", "nothing", "nobody"}]

NoSignal == [confidence |-> 0, direction |-> "flat", by |-> "nobody"]
NoData   == [confidence |-> 0, direction |-> "flat", by |-> "nothing"]

ModelSignals == [confidence : Confidences, direction : Directions, by : {"model"}]

\* What the rules of an agent may answer: they cap their own confidence.
RuleSignals(cap, flatCap) ==
    {s \in [confidence : Confidences, direction : Directions, by : {"rules"}] :
        s.confidence <= IF s.direction = "flat" THEN flatCap ELSE cap}

MarketRules == RuleSignals(80, 60)
QuantRules  == RuleSignals(75, 20)

MarketSignals == ModelSignals \cup MarketRules \cup {NoData}
QuantSignals  == ModelSignals \cup QuantRules \cup {NoData}

\* FAULTY: the threshold read as "at least", as the risk agent's own fallback has it.
AgreeAtLeast(m, q) ==
    /\ m # NoSignal /\ q # NoSignal
    /\ m.confidence >= RequiredConfidence /\ q.confidence >= RequiredConfidence
    /\ m.direction = q.direction
    /\ m.direction \in {"long", "short"}

\* ConsensusEngine.evaluate: approved.
Agree(m, q) ==
    /\ m # NoSignal /\ q # NoSignal
    /\ m.confidence > RequiredConfidence /\ q.confidence > RequiredConfidence
    /\ m.direction = q.direction
    /\ m.direction \in {"long", "short"}

\* sized: max_position_size is a positive number
Risks == [approved : BOOLEAN, score : 0 .. 100, sized : BOOLEAN]
NoRisk == [approved |-> FALSE, score |-> 100, sized |-> FALSE]

\* A risk score as it is kept, at most 100.
Clamped(score) == IF score > 100 THEN 100 ELSE score

\* Without a price the rules know no volatility, and no size.
RiskByRules(agreed, score, priced) ==
    IF agreed
    THEN LET s == IF priced THEN Clamped(score) ELSE BaseScore
         IN [approved |-> s <= MaxRiskScore, score |-> s, sized |-> priced]
    ELSE NoRisk

\* The model's claim counts only within the threshold the rules apply.
RiskByModel(agreed, claim, score, sized) ==
    IF agreed
    THEN LET s == Clamped(score)
         IN [approved |-> claim /\ s <= MaxRiskScore, score |-> s, sized |-> sized]
    ELSE NoRisk

RiskOutputs(agreed) ==
    {RiskByRules(agreed, s, b) : s \in RiskScores, b \in BOOLEAN}
        \cup {RiskByModel(agreed, c, s, b) : c \in BOOLEAN, s \in RiskScores, b \in BOOLEAN}

-----------------------------------------------------------------------------
(* The status the run reports.                                             *)

Statuses == [completed : SUBSET (Agents \cup {"supervisor"}),
             failed : SUBSET Agents, skipped : SUBSET Agents]

\* FAULTY: nobody infers which nodes the graph went around.
MergeNoInference(st, done, broken, infer) ==
    [completed |-> st.completed \cup done,
     failed    |-> st.failed \cup broken,
     skipped   |-> st.skipped \ (st.completed \cup done \cup st.failed \cup broken)]

\* _merge_pipeline_status, of one agent that is in done or in broken.
Merge(st, done, broken, infer) ==
    LET comp == st.completed \cup done
        fail == st.failed \cup broken
        prior == IF infer THEN UNION {Before(a) : a \in done \cup broken} ELSE {}
    IN  [completed |-> comp, failed |-> fail,
         skipped |-> (st.skipped \cup prior) \ (comp \cup fail)]

Generic(a) == a \in run.generic

\* An agent's update of the status when it returns an output.
Succeeded(a) ==
    IF Generic(a) THEN [status EXCEPT !.completed = @ \cup {a}]
    ELSE Merge(status, {a}, {}, TRUE)

\* An agent's update when it fails: the implementation's success, prepared
\* before the call, is not taken back.
Broke(a) ==
    IF Generic(a) THEN [status EXCEPT !.failed = @ \cup {a}]
    ELSE [Merge(status, {a}, {}, TRUE) EXCEPT !.failed = status.failed \cup {a}]

\* _analysis_and_vision_node: one status of two.
Joined(s, t) ==
    LET comp == s.completed \cup t.completed
        fail == s.failed \cup t.failed
    IN  [completed |-> comp, failed |-> fail,
         skipped |-> (s.skipped \cup t.skipped) \ (comp \cup fail)]

How == {"not run", "done", "broken"}
Ended(ok) == IF ok THEN "done" ELSE "broken"

-----------------------------------------------------------------------------

TypeOK ==
    /\ run \in [execute : BOOLEAN, candles : BOOLEAN, generic : Deployments]
    /\ node \in Nodes /\ busy \in BOOLEAN
    /\ deadline \in Nat \cup {None} /\ now \in Nat
    /\ signal \in [market_analyst : Signals, quant : Signals]
    /\ consensus \in {"none", "approved", "rejected"}
    /\ risk \in Risks
    /\ execution \in {"none", "rejected", "unfilled", "executed"}
    /\ status \in Statuses
    /\ outcome \in [Agents -> How]
    /\ written \subseteq {"trade", "journal"}
    /\ result \in {"running", "completed", "deadline", "failed", "cancelled"}
    /\ approval \in Nat \cup {None} /\ bookings \in Nat

\* run() and run_analysis(): only run() can be given candles, and it executes.
Init ==
    /\ run \in {r \in [execute : BOOLEAN, candles : BOOLEAN, generic : Deployments] :
                  r.candles => r.execute}
    /\ node = "supervisor" /\ busy = FALSE
    /\ now = 0
    /\ deadline \in Timeouts \cup {None}
    /\ signal = [market_analyst |-> NoSignal, quant |-> NoSignal]
    /\ consensus = "none" /\ risk = NoRisk /\ execution = "none"
    /\ status = [completed |-> {}, failed |-> {}, skipped |-> {}]
    /\ outcome = [a \in Agents |-> "not run"]
    /\ written = {}
    /\ result = "running"
    /\ approval = None /\ bookings = 0

At(n) == result = "running" /\ node = n
In(n) == At(n) /\ busy

Expired == deadline # None /\ now >= deadline

\* _supervisor_entry
Supervise ==
    /\ At("supervisor")
    /\ status' = [completed |-> {"supervisor"}, failed |-> {}, skipped |-> {}]
    /\ node' = "analysis"
    /\ UNCHANGED <<graphVars, busy, deadline, now, outputVars, outcome, result>>

\* FAULTY: the journal is held to the deadline as the other stages are.
OutlivesNobody(s) == FALSE

\* The stage whose deadline is cleared before it is read.
Outlives(s) == s = "journal"

\* _raise_if_deadline_expired, before a stage.
Refuse(s) ==
    /\ At(s) /\ ~busy
    /\ Expired /\ ~Outlives(s)
    /\ result' = "deadline"
    /\ UNCHANGED <<graphVars, node, busy, deadline, now, outputVars, status, outcome>>

\* node_fn up to the call of the agent.
Enter(s) ==
    /\ At(s) /\ ~busy
    /\ ~Expired \/ Outlives(s)
    /\ busy' = TRUE
    /\ deadline' = IF s \in {"execution", "journal"} THEN None ELSE deadline
    /\ UNCHANGED <<graphVars, node, now, outputVars, status, outcome, result>>

Leave(n) == busy' = FALSE /\ node' = n

\* The vision agent's update of the status, seen or not: a failure of its own
\* never reaches the run, and it infers nothing about the nodes before it.
Vision(seen) == IF seen THEN Merge(status, {"vision"}, {}, FALSE)
                ELSE Merge(status, {}, {"vision"}, FALSE)

\* _analysis_and_vision_node: the vision agent never waits and never fails
\* the node; its output is advisory and only its status is kept.
Analyze ==
    /\ In("analysis") /\ Leave("quant")
    /\ \E s \in MarketSignals \cup {NoSignal}, seen \in BOOLEAN :
        LET ok == s # NoSignal
        IN  /\ signal' = [signal EXCEPT !.market_analyst = s]
            /\ status' = Joined(IF ok THEN Succeeded("market_analyst")
                                ELSE Broke("market_analyst"), Vision(seen))
            /\ outcome' = [outcome EXCEPT !["market_analyst"] = Ended(ok),
                                          !["vision"] = Ended(seen)]
    /\ UNCHANGED <<graphVars, deadline, now, consensus, risk, execution, result>>

\* What every other agent leaves behind when its call ends.
Report(a, ok) ==
    /\ status' = IF ok THEN Succeeded(a) ELSE Broke(a)
    /\ outcome' = [outcome EXCEPT ![a] = Ended(ok)]

Quantify ==
    /\ In("quant") /\ Leave(Successor["quant"])
    /\ \E s \in QuantSignals \cup {NoSignal} :
        /\ signal' = [signal EXCEPT !.quant = s]
        /\ Report("quant", s # NoSignal)
    /\ UNCHANGED <<graphVars, deadline, now, consensus, risk, execution, result>>

\* How a generic agent may end: the model's answer to its prompt is put into
\* the agent's schema, and may be empty, no JSON, or not what the schema asks.
Parses(a) == IF Generic(a) THEN BOOLEAN ELSE {TRUE}

\* The news agent answers neutral news to whatever goes wrong.
ReadNews ==
    /\ In("news") /\ Leave(Successor["news"])
    /\ \E ok \in Parses("news") : Report("news", ok)
    /\ UNCHANGED <<graphVars, deadline, now, outputVars, result>>

\* _consensus_node_fn and _route_from_consensus: no wait and no deadline.
Decide ==
    /\ At("consensus")
    /\ consensus' = IF Agree(signal.market_analyst, signal.quant) THEN "approved" ELSE "rejected"
    /\ node' = IF consensus' = "approved" THEN "risk" ELSE "journal"
    /\ Report("consensus", TRUE)
    /\ UNCHANGED <<graphVars, busy, deadline, now, signal, risk, execution, result>>

\* The risk agent, or its failure, and _route_from_risk.
AssessRisk ==
    /\ In("risk")
    /\ \E r \in RiskOutputs(consensus = "approved") \cup {NoRisk}, ok \in BOOLEAN :
        /\ ~ok => r = NoRisk
        /\ risk' = r
        /\ Report("risk", ok)
        /\ Leave(IF r.approved /\ run.execute THEN "execution" ELSE "journal")
    /\ UNCHANGED <<graphVars, deadline, now, signal, consensus, execution, result>>

\* What _execute_agent_impl hands to the agent it builds for the run, out of
\* what the agent was registered with: neither the ledger nor a session.
Rebuilt == [execution |-> {"engine"}, journal |-> {}]

Row(a, name) == IF Rebuilt[a] \cap {"ledger", "session"} = {} THEN {} ELSE {name}

\* ExecutionAgent.process reaches the paper engine.
Tradable ==
    /\ run.candles
    /\ risk.approved /\ risk.sized
    /\ signal.market_analyst # NoSignal /\ signal.market_analyst.direction # "flat"

\* ExecutionAgent.process; filled: the engine accepts the signal.
Execute ==
    /\ In("execution") /\ Leave(Successor["execution"])
    /\ \E filled, ok \in BOOLEAN :
        /\ filled => Tradable /\ ok
        /\ execution' = CASE filled -> "executed"
                          [] ok /\ Tradable /\ ~filled -> "unfilled"
                          [] ok /\ ~Tradable -> "rejected"
                          [] OTHER -> "none"
        /\ written' = IF filled THEN written \cup Row("execution", "trade") ELSE written
        /\ Report("execution", ok)
    /\ UNCHANGED <<run, approval, bookings, deadline, now, signal, consensus, risk, result>>

\* The journal, the reflection and the memory agent.
Audit(a) ==
    /\ In(a) /\ Leave(Successor[a])
    /\ \E ok \in BOOLEAN :
        /\ Report(a, ok)
        /\ written' = IF ok /\ a = "journal" THEN written \cup Row(a, a) ELSE written
    /\ UNCHANGED <<run, approval, bookings, deadline, now, outputVars, result>>

\* _trade_approval_from_state
Approvable ==
    /\ signal.market_analyst # NoSignal /\ signal.quant # NoSignal
    /\ consensus = "approved" /\ risk.approved
    /\ signal.market_analyst.direction \in {"long", "short"}
    /\ signal.quant.direction = signal.market_analyst.direction

\* log_execution and the hook, whose failures are swallowed; then POST
\* /signal issues an approval for a run that was not to execute, unless it
\* has no key to sign with.
Log ==
    /\ At("log")
    /\ node' = "end" /\ result' = "completed"
    /\ approval' \in {None} \cup IF Approvable /\ ~run.execute THEN {now + TokenLife} ELSE {}
    /\ UNCHANGED <<run, busy, deadline, now, outputVars, status, outcome, written, bookings>>

\* The log's database refuses a row: the whole run fails for its caller.
LogFails ==
    /\ At("log")
    /\ result' = "failed"
    /\ UNCHANGED <<graphVars, node, busy, deadline, now, outputVars, status, outcome>>

\* FAULTY: the remaining time bounds only the supervisor's own model calls.
BoundedIfGeneric(s) == s \in run.generic

\* The stages that run under the time that remains; without a deadline there
\* is none.
Bounded(s) == s \notin {"execution"} /\ deadline # None

\* The remaining time runs out and asyncio.timeout cancels the stage.
CutOff(s) ==
    /\ In(s) /\ Bounded(s) /\ Expired
    /\ result' = "deadline"
    /\ UNCHANGED <<graphVars, node, busy, deadline, now, outputVars, status, outcome>>

\* The stages that let a TimeoutError of their own out: those that wait for a
\* model, but for the news agent, which catches it.
LetsTimeoutOut(s) == s \in {"analysis", "quant", "risk"} \cup run.generic

\* Such a timeout is the run's deadline only if no time remains.
OwnTimeout(s) ==
    /\ In(s) /\ LetsTimeoutOut(s)
    /\ result' = IF Expired THEN "deadline" ELSE "failed"
    /\ UNCHANGED <<graphVars, node, busy, deadline, now, outputVars, status, outcome>>

\* The caller goes away: a closed stream, a process that stops.
Cancel ==
    /\ result = "running"
    /\ result' = "cancelled"
    /\ UNCHANGED <<graphVars, node, busy, deadline, now, outputVars, status, outcome>>

\* POST /execute with the approval, and the ledger accepts the trade.
Book ==
    /\ approval # None /\ now <= approval /\ bookings < MaxBookings
    /\ Agree(signal.market_analyst, signal.quant)
    /\ risk.approved /\ risk.score <= MaxRiskScore /\ risk.sized
    /\ bookings' = bookings + 1
    /\ UNCHANGED <<run, node, busy, deadline, now, outputVars, status, outcome,
                   written, result, approval>>

Tick ==
    /\ result = "running" \/ approval # None
    /\ now < MaxTime
    /\ now' = now + 1
    /\ UNCHANGED <<graphVars, node, busy, deadline, outputVars, status, outcome, result>>

Stage(s) == Refuse(s) \/ Enter(s) \/ CutOff(s) \/ OwnTimeout(s)

Next ==
    \/ Supervise \/ Decide
    \/ \E s \in Stages : Stage(s)
    \/ Analyze \/ Quantify \/ ReadNews \/ AssessRisk \/ Execute
    \/ \E a \in Audits : Audit(a)
    \/ Log \/ LogFails \/ Cancel \/ Book \/ Tick

Spec == Init /\ [][Next]_vars

\* The event loop runs what is ready and the clock goes on; a stage that waits
\* for a model may never answer, one that calls no model does.
FairSpec ==
    /\ Spec
    /\ WF_vars(Supervise \/ Decide \/ Execute \/ Log) /\ WF_vars(Tick)
    /\ \A s \in Stages : WF_vars(Refuse(s) \/ Enter(s)) /\ WF_vars(CutOff(s))
    /\ \A a \in Audits : WF_vars(Audit(a))

-----------------------------------------------------------------------------
(* Properties.                                                             *)

\* The execution stage has begun, or somebody holds or has used an approval.
Committed ==
    \/ outcome["execution"] # "not run"
    \/ node = "execution" /\ busy
    \/ approval # None
    \/ bookings > 0

\* No trade, and no approval of one, but by two confident model answers that
\* agree on a side, and a risk within the limit: an agent that fell back to its
\* rules, found no data or failed never moves money (consensus.py:150-156,
\* risk.py's backstop, market_analyst.py's and quant.py's caps, trading.py:172).
GatesHold ==
    Committed =>
        /\ consensus = "approved"
        /\ signal.market_analyst.by = "model" /\ signal.quant.by = "model"
        /\ signal.market_analyst.direction = signal.quant.direction
        /\ signal.quant.direction # "flat"
        /\ risk.approved /\ risk.score <= MaxRiskScore
        /\ (approval # None \/ bookings > 0) => ~run.execute

\* A caller told to retry, because the deadline passed, never left a trade or
\* a terminal decision behind (supervisor.py:58-67, 369-385).
DeadlineSparesDecisions ==
    result = "deadline" =>
        /\ outcome["execution"] = "not run" /\ written = {}
        /\ consensus # "rejected"
        /\ outcome["risk"] # "not run" => risk.approved /\ run.execute
        /\ \A a \in Audits : outcome[a] = "not run"

\* The status a finished run reports tells what ran: failures are those that
\* happened, and the nodes skipped are those the graph went around
\* (supervisor.py:391-437, GET /agents/status).
StatusTellsWhatRan ==
    result = "completed" =>
        /\ status.failed = {a \in Agents : outcome[a] = "broken"}
        /\ status.skipped = {a \in Agents : outcome[a] = "not run"}
        /\ {a \in Agents : outcome[a] = "done"} \subseteq status.completed

\* A run with a deadline ends, whichever model never answers
\* (supervisor.py:233-262, 658-668).
DeadlinedRunsEnd == (deadline # None) ~> (result # "running")
=============================================================================
