--------------------------- MODULE PipelineProofs ---------------------------
(***************************************************************************)
(* What a run of the pipeline guarantees, for any confidences, risk scores,*)
(* deadlines and bounds.  Inv says what each node of the graph has behind  *)
(* it and what the deadline still allows.                                  *)
(***************************************************************************)
EXTENDS Pipeline, TLAPS

-----------------------------------------------------------------------------
(* The inductive invariant.                                                *)

\* The nodes before a decision.
Early == {"supervisor", "analysis", "quant", "news", "consensus"}

\* Only a model's answer can be confident enough.
Answers ==
    \A s \in {signal.market_analyst, signal.quant} :
        s.confidence > RequiredConfidence => s.by = "model"

\* What has been decided where the run is.
Decisions ==
    /\ node \in Early => consensus = "none"
    /\ consensus = "approved" => Agree(signal.market_analyst, signal.quant)
    /\ node \in Early \cup {"risk"} => ~risk.approved /\ outcome["risk"] = "not run"
    /\ node = "risk" => consensus = "approved"
    /\ risk.approved => consensus = "approved" /\ risk.score <= MaxRiskScore
    /\ node = "execution" => risk.approved /\ run.execute
    /\ outcome["execution"] # "not run" => risk.approved

\* What lies behind each node.
Ahead ==
    /\ node \in Early \cup {"risk", "execution"} => outcome["execution"] = "not run"
    /\ node \in Early \cup {"risk", "execution", "journal"} =>
          \A a \in Audits : outcome[a] = "not run"
    /\ node \in {"supervisor", "consensus", "log", "end"} => ~busy
    /\ result = "completed" => node = "end"
    /\ written = {}

\* A run that has a deadline has no terminal decision behind it.
Deadlines ==
    /\ node = "execution" /\ busy => deadline = None
    /\ node = "journal" /\ busy => deadline = None
    /\ node \in {"reflection", "memory", "log", "end"} => deadline = None
    /\ outcome["execution"] # "not run" => deadline = None
    /\ result = "deadline" => deadline # None /\ node # "journal"

\* An approval is that of a finished run which was not to execute.
Approvals ==
    /\ approval # None => result = "completed" /\ Approvable /\ ~run.execute
    /\ bookings > 0 => approval # None

Inv == TypeOK /\ Answers /\ Decisions /\ Ahead /\ Deadlines /\ Approvals

-----------------------------------------------------------------------------
(* What the agents may answer.                                             *)

LEMMA SignalTypes ==
    /\ NoSignal \in Signals
    /\ \A s \in MarketSignals \cup QuantSignals \cup {NoSignal} :
          s \in Signals /\ (s.confidence > RequiredConfidence => s.by = "model")
<1>1. NoSignal \in Signals /\ NoData \in Signals
  BY DEF NoSignal, NoData, Signals, Directions
<1>2. \A s \in ModelSignals : s \in Signals /\ s.by = "model"
  BY ConstantsAssumption DEF ModelSignals, Signals
<1>3. ASSUME NEW s \in MarketRules \cup QuantRules
      PROVE  s \in Signals /\ s.confidence <= 80
  <2>1. s \in [confidence : Confidences, direction : Directions, by : {"rules"}]
    BY <1>3 DEF MarketRules, QuantRules, RuleSignals
  <2>2. s \in Signals
    BY <2>1, ConstantsAssumption DEF Signals
  <2>3. s.confidence <= 80 \/ s.confidence <= 60 \/ s.confidence <= 75 \/ s.confidence <= 20
    BY <1>3 DEF MarketRules, QuantRules, RuleSignals
  <2>. QED
    BY <2>2, <2>3 DEF Signals
<1>. QED
  BY <1>1, <1>2, <1>3
     DEF MarketSignals, QuantSignals, RequiredConfidence, Signals, NoSignal, NoData

LEMMA RiskTypes ==
    /\ NoRisk \in Risks /\ ~NoRisk.approved
    /\ \A b \in BOOLEAN : \A r \in RiskOutputs(b) :
          r \in Risks /\ (r.approved => b /\ r.score <= MaxRiskScore)
<1>1. NoRisk \in Risks /\ ~NoRisk.approved
  BY DEF NoRisk, Risks
<1>2. \A s \in Nat : Clamped(s) \in 0 .. 100
  BY DEF Clamped
<1>3. ASSUME NEW ok, NEW s \in 0 .. 100, NEW sized \in BOOLEAN, ok \in BOOLEAN,
             ok => s <= MaxRiskScore
      PROVE  LET r == [approved |-> ok, score |-> s, sized |-> sized]
             IN  r \in Risks /\ (r.approved => r.score <= MaxRiskScore)
  BY <1>3, Zenon DEF Risks
<1>4. ASSUME NEW b \in BOOLEAN, NEW s \in RiskScores, NEW z \in BOOLEAN
      PROVE  LET r == RiskByRules(b, s, z)
             IN  r \in Risks /\ (r.approved => b /\ r.score <= MaxRiskScore)
  <2>. DEFINE t == IF z THEN Clamped(s) ELSE BaseScore
  <2>1. t \in 0 .. 100
    BY <1>2, ConstantsAssumption DEF BaseScore
  <2>2. (t <= MaxRiskScore) \in BOOLEAN
    OBVIOUS
  <2>. HIDE DEF t
  <2>3. LET r == [approved |-> t <= MaxRiskScore, score |-> t, sized |-> z]
        IN  r \in Risks /\ (r.approved => r.score <= MaxRiskScore)
    BY <1>3, <2>1, <2>2, Zenon
  <2>. QED
    BY <1>1, <2>3, Zenon DEF RiskByRules, t
<1>5. ASSUME NEW b \in BOOLEAN, NEW c \in BOOLEAN, NEW s \in RiskScores, NEW z \in BOOLEAN
      PROVE  LET r == RiskByModel(b, c, s, z)
             IN  r \in Risks /\ (r.approved => b /\ r.score <= MaxRiskScore)
  <2>. DEFINE t == Clamped(s)
              ok == c /\ t <= MaxRiskScore
  <2>1. t \in 0 .. 100
    BY <1>2, ConstantsAssumption
  <2>2. ok \in BOOLEAN /\ (ok => t <= MaxRiskScore)
    OBVIOUS
  <2>. HIDE DEF t, ok
  <2>3. LET r == [approved |-> ok, score |-> t, sized |-> z]
        IN  r \in Risks /\ (r.approved => r.score <= MaxRiskScore)
    BY <1>3, <2>1, <2>2, Zenon
  <2>. QED
    BY <1>1, <2>3, Zenon DEF RiskByModel, t, ok
<1>6. ASSUME NEW b \in BOOLEAN, NEW r \in RiskOutputs(b)
      PROVE  r \in Risks /\ (r.approved => b /\ r.score <= MaxRiskScore)
  <2>. PICK c \in BOOLEAN, s \in RiskScores, z \in BOOLEAN :
              r = RiskByRules(b, s, z) \/ r = RiskByModel(b, c, s, z)
    <3>1. CASE \E s \in RiskScores, z \in BOOLEAN : r = RiskByRules(b, s, z)
      BY <3>1
    <3>2. CASE \E c \in BOOLEAN, s \in RiskScores, z \in BOOLEAN : r = RiskByModel(b, c, s, z)
      BY <3>2
    <3>. QED
      BY <1>6, <3>1, <3>2 DEF RiskOutputs
  <2>. QED
    BY <1>4, <1>5, Zenon
<1>. QED
  BY <1>1, <1>6

-----------------------------------------------------------------------------
(* The status stays well typed.                                            *)

LEMMA AgentNames ==
    Agents = {"market_analyst", "quant", "news", "vision", "consensus",
              "risk", "execution", "journal", "reflection", "memory"}
  BY DEF Agents, PipelineOrder

LEMMA StatusTypes ==
    ASSUME NEW st \in Statuses, NEW done \in SUBSET Agents, NEW broken \in SUBSET Agents,
           NEW infer \in BOOLEAN
    PROVE  Merge(st, done, broken, infer) \in Statuses
<1>1. \A a : Before(a) \subseteq Agents
  BY DEF Before, Agents
<1>2. UNION {Before(a) : a \in done \cup broken} \subseteq Agents
  BY <1>1
<1>. QED
  BY <1>2 DEF Merge, Statuses

LEMMA ReportTypes ==
    ASSUME status \in Statuses, NEW a \in Agents
    PROVE  Succeeded(a) \in Statuses /\ Broke(a) \in Statuses
<1>1. Merge(status, {a}, {}, TRUE) \in Statuses
  BY StatusTypes
<1>2. /\ [status EXCEPT !.completed = @ \cup {a}] \in Statuses
      /\ [status EXCEPT !.failed = @ \cup {a}] \in Statuses
      /\ [Merge(status, {a}, {}, TRUE) EXCEPT !.failed = status.failed \cup {a}] \in Statuses
  BY <1>1 DEF Statuses
<1>. QED
  BY <1>1, <1>2 DEF Succeeded, Broke

LEMMA JoinTypes ==
    ASSUME NEW s \in Statuses, NEW t \in Statuses
    PROVE  Joined(s, t) \in Statuses
  BY DEF Joined, Statuses

\* An agent's report keeps the status and the history typed, and writes of
\* nobody else.
LEMMA Reporting ==
    ASSUME TypeOK, NEW a \in Agents, NEW ok \in BOOLEAN, Report(a, ok)
    PROVE  /\ status' \in Statuses
           /\ outcome' \in [Agents -> How]
           /\ \A b \in Agents \ {a} : outcome'[b] = outcome[b]
           /\ outcome'[a] # "not run"
<1>1. Ended(ok) \in How /\ Ended(ok) # "not run"
  BY DEF Ended, How
<1>2. status' \in Statuses
  BY ReportTypes DEF Report, TypeOK
<1>. QED
  BY <1>1, <1>2 DEF Report, TypeOK

-----------------------------------------------------------------------------
(* Init and the steps.                                                     *)

LEMMA InitInv == Init => Inv
<1>. SUFFICES ASSUME Init PROVE Inv
  OBVIOUS
<1>1. /\ NoSignal.confidence = 0 /\ NoSignal \in Signals
      /\ NoRisk \in Risks /\ ~NoRisk.approved
  BY SignalTypes, RiskTypes DEF NoSignal
<1>0. /\ signal.market_analyst = NoSignal /\ signal.quant = NoSignal
      /\ consensus = "none" /\ risk = NoRisk /\ node = "supervisor" /\ written = {}
      /\ result = "running" /\ approval = None /\ busy = FALSE
      /\ \A a \in Agents : outcome[a] = "not run"
  BY DEF Init
<1>2. TypeOK
  BY <1>1, ConstantsAssumption, AgentNames DEF TypeOK, Init, Nodes, Stages, Statuses, How
<1>3. Answers
  <2>1. NoSignal.confidence > RequiredConfidence => NoSignal.by = "model"
    BY SignalTypes
  <2>. QED
    BY <1>0, <2>1, Zenon DEF Answers
<1>4. Decisions
  BY <1>0, <1>1, AgentNames DEF Decisions
<1>5. Ahead
  BY <1>0, <1>1, AgentNames DEF Ahead, Early, Audits
<1>6. Deadlines
  BY <1>0, <1>1, AgentNames DEF Deadlines
<1>7. Approvals
  <2>1. bookings = 0
    BY DEF Init
  <2>2. ~(bookings > 0)
    BY <2>1
  <2>. QED
    BY <1>0, <2>2, Zenon DEF Approvals
<1>. QED
  BY <1>2, <1>3, <1>4, <1>5, <1>6, <1>7 DEF Inv

\* One action each, by what it leaves alone.
LEMMA StepInv == Inv /\ [Next]_vars => Inv'
<1>. SUFFICES ASSUME Inv, [Next]_vars PROVE Inv'
  OBVIOUS
<1>. USE AgentNames DEF Inv, graphVars, outputVars, At, In, Audits, Early
<1>1. CASE Supervise
  <2>1. TypeOK'
    BY <1>1 DEF TypeOK, Nodes, Stages, Statuses, Supervise
  <2>2. Answers'
    BY <1>1 DEF TypeOK, Answers, Supervise
  <2>3. Decisions'
    BY <1>1 DEF TypeOK, Answers, Decisions, Supervise
  <2>4. Ahead'
    BY <1>1 DEF TypeOK, Ahead, Supervise
  <2>5. Deadlines'
    BY <1>1 DEF TypeOK, Decisions, Ahead, Deadlines, Supervise
  <2>6. Approvals'
    BY <1>1 DEF TypeOK, Approvals, Approvable, Supervise
  <2>. QED
    BY <2>1, <2>2, <2>3, <2>4, <2>5, <2>6
<1>2. ASSUME NEW s \in Stages, Refuse(s) PROVE Inv'
  <2>1. TypeOK'
    BY <1>2 DEF TypeOK, Nodes, Stages, Statuses, Refuse, Expired, Outlives
  <2>2. Answers'
    BY <1>2 DEF TypeOK, Answers, Refuse, Expired, Outlives
  <2>3. Decisions'
    BY <1>2 DEF TypeOK, Answers, Decisions, Refuse, Expired, Outlives
  <2>4. Ahead'
    BY <1>2 DEF TypeOK, Ahead, Refuse, Expired, Outlives
  <2>5. Deadlines'
    BY <1>2 DEF TypeOK, Decisions, Ahead, Deadlines, Refuse, Expired, Outlives
  <2>6. Approvals'
    BY <1>2 DEF TypeOK, Approvals, Approvable, Refuse, Expired, Outlives
  <2>. QED
    BY <2>1, <2>2, <2>3, <2>4, <2>5, <2>6
<1>3. ASSUME NEW s \in Stages, Enter(s) PROVE Inv'
  <2>1. TypeOK'
    BY <1>3 DEF TypeOK, Nodes, Stages, Statuses, Enter
  <2>2. Answers'
    BY <1>3 DEF TypeOK, Answers, Enter
  <2>3. Decisions'
    BY <1>3 DEF TypeOK, Answers, Decisions, Enter
  <2>4. Ahead'
    BY <1>3 DEF TypeOK, Ahead, Enter, Stages
  <2>5. Deadlines'
    BY <1>3 DEF TypeOK, Decisions, Ahead, Deadlines, Enter
  <2>6. Approvals'
    BY <1>3 DEF TypeOK, Approvals, Approvable, Enter
  <2>. QED
    BY <2>1, <2>2, <2>3, <2>4, <2>5, <2>6
<1>4. ASSUME NEW s \in Stages, CutOff(s) PROVE Inv'
  <2>1. TypeOK'
    BY <1>4 DEF TypeOK, Nodes, Stages, Statuses, CutOff, Bounded
  <2>2. Answers'
    BY <1>4 DEF TypeOK, Answers, CutOff, Bounded
  <2>3. Decisions'
    BY <1>4 DEF TypeOK, Answers, Decisions, CutOff, Bounded
  <2>4. Ahead'
    BY <1>4 DEF TypeOK, Ahead, CutOff, Bounded
  <2>5. Deadlines'
    BY <1>4 DEF TypeOK, Decisions, Ahead, Deadlines, CutOff, Bounded
  <2>6. Approvals'
    BY <1>4 DEF TypeOK, Approvals, Approvable, CutOff, Bounded
  <2>. QED
    BY <2>1, <2>2, <2>3, <2>4, <2>5, <2>6
<1>5. ASSUME NEW s \in Stages, OwnTimeout(s) PROVE Inv'
  <2>1. TypeOK'
    BY <1>5 DEF TypeOK, Nodes, Stages, Statuses, OwnTimeout, LetsTimeoutOut, Expired
  <2>2. Answers'
    BY <1>5 DEF TypeOK, Answers, OwnTimeout, LetsTimeoutOut, Expired
  <2>3. Decisions'
    BY <1>5 DEF TypeOK, Answers, Decisions, OwnTimeout, LetsTimeoutOut, Expired
  <2>4. Ahead'
    BY <1>5 DEF TypeOK, Ahead, OwnTimeout, LetsTimeoutOut, Expired
  <2>5. Deadlines'
    BY <1>5 DEF TypeOK, Decisions, Ahead, Deadlines, OwnTimeout, LetsTimeoutOut, Expired
  <2>6. Approvals'
    BY <1>5 DEF TypeOK, Approvals, Approvable, OwnTimeout, LetsTimeoutOut, Expired
  <2>. QED
    BY <2>1, <2>2, <2>3, <2>4, <2>5, <2>6
<1>6. CASE Cancel
  <2>1. TypeOK'
    BY <1>6 DEF TypeOK, Nodes, Stages, Statuses, Cancel
  <2>2. Answers'
    BY <1>6 DEF TypeOK, Answers, Cancel
  <2>3. Decisions'
    BY <1>6 DEF TypeOK, Answers, Decisions, Cancel
  <2>4. Ahead'
    BY <1>6 DEF TypeOK, Ahead, Cancel
  <2>5. Deadlines'
    BY <1>6 DEF TypeOK, Decisions, Ahead, Deadlines, Cancel
  <2>6. Approvals'
    BY <1>6 DEF TypeOK, Approvals, Approvable, Cancel
  <2>. QED
    BY <2>1, <2>2, <2>3, <2>4, <2>5, <2>6
<1>7. CASE Tick
  <2>1. TypeOK'
    BY <1>7 DEF TypeOK, Nodes, Stages, Statuses, Tick
  <2>2. Answers'
    BY <1>7 DEF TypeOK, Answers, Tick
  <2>3. Decisions'
    BY <1>7 DEF TypeOK, Answers, Decisions, Tick
  <2>4. Ahead'
    BY <1>7 DEF TypeOK, Ahead, Tick
  <2>5. Deadlines'
    BY <1>7 DEF TypeOK, Decisions, Ahead, Deadlines, Tick
  <2>6. Approvals'
    BY <1>7 DEF TypeOK, Approvals, Approvable, Tick
  <2>. QED
    BY <2>1, <2>2, <2>3, <2>4, <2>5, <2>6
<1>8. CASE Log
  <2>1. TypeOK'
    BY <1>8, ConstantsAssumption DEF TypeOK, Nodes, Stages, Statuses, Log
  <2>2. Answers'
    BY <1>8 DEF TypeOK, Answers, Log
  <2>3. Decisions'
    BY <1>8 DEF TypeOK, Answers, Decisions, Log
  <2>4. Ahead'
    BY <1>8 DEF TypeOK, Ahead, Log
  <2>5. Deadlines'
    BY <1>8 DEF TypeOK, Decisions, Ahead, Deadlines, Log
  <2>6. Approvals'
    BY <1>8 DEF TypeOK, Approvals, Approvable, Log
  <2>. QED
    BY <2>1, <2>2, <2>3, <2>4, <2>5, <2>6
<1>9. CASE LogFails
  <2>1. TypeOK'
    BY <1>9 DEF TypeOK, Nodes, Stages, Statuses, LogFails
  <2>2. Answers'
    BY <1>9 DEF TypeOK, Answers, LogFails
  <2>3. Decisions'
    BY <1>9 DEF TypeOK, Answers, Decisions, LogFails
  <2>4. Ahead'
    BY <1>9 DEF TypeOK, Ahead, LogFails
  <2>5. Deadlines'
    BY <1>9 DEF TypeOK, Decisions, Ahead, Deadlines, LogFails
  <2>6. Approvals'
    BY <1>9 DEF TypeOK, Approvals, Approvable, LogFails
  <2>. QED
    BY <2>1, <2>2, <2>3, <2>4, <2>5, <2>6
<1>10. CASE Book
  <2>1. TypeOK'
    BY <1>10 DEF TypeOK, Nodes, Stages, Statuses, Book
  <2>2. Answers'
    BY <1>10 DEF TypeOK, Answers, Book
  <2>3. Decisions'
    BY <1>10 DEF TypeOK, Answers, Decisions, Book
  <2>4. Ahead'
    BY <1>10 DEF TypeOK, Ahead, Book
  <2>5. Deadlines'
    BY <1>10 DEF TypeOK, Decisions, Ahead, Deadlines, Book
  <2>6. Approvals'
    BY <1>10 DEF TypeOK, Approvals, Approvable, Book
  <2>. QED
    BY <2>1, <2>2, <2>3, <2>4, <2>5, <2>6
<1>11. CASE Decide
  <2>0. /\ status' \in Statuses /\ outcome' \in [Agents -> How]
        /\ \A b \in Agents \ {"consensus"} : outcome'[b] = outcome[b]
    BY <1>11, Reporting DEF Decide
  <2>1. TypeOK'
    BY <1>11, <2>0 DEF TypeOK, Nodes, Stages, Decide
  <2>2. Answers'
    BY <1>11, <2>0 DEF TypeOK, Answers, Decide
  <2>3. Decisions'
    BY <1>11, <2>0 DEF TypeOK, Answers, Decisions, Decide
  <2>4. Ahead'
    BY <1>11, <2>0 DEF TypeOK, Ahead, Decide
  <2>5. Deadlines'
    BY <1>11, <2>0 DEF TypeOK, Decisions, Ahead, Deadlines, Decide
  <2>6. Approvals'
    BY <1>11, <2>0 DEF TypeOK, Approvals, Decide
  <2>. QED
    BY <2>1, <2>2, <2>3, <2>4, <2>5, <2>6
<1>12. CASE ReadNews
  <2>0. /\ status' \in Statuses /\ outcome' \in [Agents -> How]
        /\ \A b \in Agents \ {"news"} : outcome'[b] = outcome[b]
    BY <1>12, Reporting DEF ReadNews, Parses
  <2>1. TypeOK'
    BY <1>12, <2>0 DEF TypeOK, Nodes, Stages, ReadNews, Leave, Successor
  <2>2. Answers'
    BY <1>12, <2>0 DEF TypeOK, Answers, ReadNews, Leave, Successor
  <2>3. Decisions'
    BY <1>12, <2>0 DEF TypeOK, Answers, Decisions, ReadNews, Leave, Successor
  <2>4. Ahead'
    BY <1>12, <2>0 DEF TypeOK, Ahead, ReadNews, Leave, Successor
  <2>5. Deadlines'
    BY <1>12, <2>0 DEF TypeOK, Decisions, Ahead, Deadlines, ReadNews, Leave, Successor
  <2>6. Approvals'
    BY <1>12, <2>0 DEF TypeOK, Approvals, ReadNews, Leave, Successor
  <2>. QED
    BY <2>1, <2>2, <2>3, <2>4, <2>5, <2>6
<1>13. CASE Quantify
  <2>0. /\ status' \in Statuses /\ outcome' \in [Agents -> How]
        /\ \A b \in Agents \ {"quant"} : outcome'[b] = outcome[b]
    BY <1>13, Reporting DEF Quantify
  <2>a. PICK s \in QuantSignals \cup {NoSignal} : signal' = [signal EXCEPT !.quant = s]
    BY <1>13 DEF Quantify
  <2>b. s \in Signals /\ (s.confidence > RequiredConfidence => s.by = "model")
    BY SignalTypes
  <2>1. TypeOK'
    BY <1>13, <2>0, <2>a, <2>b DEF TypeOK, Nodes, Stages, Quantify, Leave, Successor
  <2>2. Answers'
    BY <1>13, <2>0, <2>a, <2>b DEF TypeOK, Answers, Quantify, Leave, Successor
  <2>3. Decisions'
    BY <1>13, <2>0, <2>a, <2>b DEF TypeOK, Answers, Decisions, Quantify, Leave, Successor
  <2>4. Ahead'
    <3>1. node = "quant" /\ node' = "news" /\ busy' = FALSE
          /\ written' = written /\ result' = "running"
      BY <1>13 DEF Quantify, Leave, Successor
    <3>. QED
      BY <2>0, <3>1 DEF Ahead
  <2>5. Deadlines'
    BY <1>13, <2>0, <2>a, <2>b DEF TypeOK, Decisions, Ahead, Deadlines, Quantify, Leave, Successor
  <2>6. Approvals'
    BY <1>13, <2>0, <2>a, <2>b DEF TypeOK, Approvals, Quantify, Leave, Successor
  <2>. QED
    BY <2>1, <2>2, <2>3, <2>4, <2>5, <2>6
<1>14. CASE Analyze
  <2>a. PICK s \in MarketSignals \cup {NoSignal}, seen \in BOOLEAN :
           LET ok == s # NoSignal
           IN  /\ signal' = [signal EXCEPT !.market_analyst = s]
               /\ status' = Joined(IF ok THEN Succeeded("market_analyst")
                                   ELSE Broke("market_analyst"), Vision(seen))
               /\ outcome' = [outcome EXCEPT !["market_analyst"] = Ended(ok),
                                             !["vision"] = Ended(seen)]
    BY <1>14 DEF Analyze
  <2>b. s \in Signals /\ (s.confidence > RequiredConfidence => s.by = "model")
    BY SignalTypes
  <2>c. status' \in Statuses
    <3>1. /\ Merge(status, {"vision"}, {}, FALSE) \in Statuses
          /\ Merge(status, {}, {"vision"}, FALSE) \in Statuses
      BY StatusTypes DEF TypeOK
    <3>2. Succeeded("market_analyst") \in Statuses /\ Broke("market_analyst") \in Statuses
      BY ReportTypes DEF TypeOK
    <3>3. Vision(seen) \in Statuses
      BY <3>1 DEF Vision
    <3>. QED
      BY <2>a, <3>2, <3>3, JoinTypes
  <2>0. /\ outcome' \in [Agents -> How]
        /\ \A b \in Agents \ {"market_analyst", "vision"} : outcome'[b] = outcome[b]
    BY <2>a DEF TypeOK, Ended, How
  <2>d. signal' = [signal EXCEPT !.market_analyst = s]
    BY <2>a
  <2>1. TypeOK'
    BY <1>14, <2>0, <2>b, <2>c, <2>d DEF TypeOK, Nodes, Stages, Analyze, Leave
  <2>2. Answers'
    BY <1>14, <2>0, <2>b, <2>c, <2>d DEF TypeOK, Answers, Analyze, Leave
  <2>3. Decisions'
    BY <1>14, <2>0, <2>b, <2>c, <2>d DEF TypeOK, Answers, Decisions, Analyze, Leave
  <2>4. Ahead'
    <3>1. node = "analysis" /\ node' = "quant" /\ busy' = FALSE
          /\ written' = written /\ result' = "running"
      BY <1>14 DEF Analyze, Leave
    <3>2. outcome'["execution"] = "not run" /\ \A a \in Audits : outcome'[a] = "not run"
      BY <2>0, <3>1 DEF Ahead
    <3>. QED
      BY <3>1, <3>2 DEF Ahead
  <2>5. Deadlines'
    BY <1>14, <2>0, <2>b, <2>c, <2>d DEF TypeOK, Decisions, Ahead, Deadlines, Analyze, Leave
  <2>6. Approvals'
    BY <1>14, <2>0, <2>b, <2>c, <2>d DEF TypeOK, Approvals, Analyze, Leave
  <2>. QED
    BY <2>1, <2>2, <2>3, <2>4, <2>5, <2>6
<1>15. CASE AssessRisk
  <2>0. /\ status' \in Statuses /\ outcome' \in [Agents -> How]
        /\ \A b \in Agents \ {"risk"} : outcome'[b] = outcome[b]
    BY <1>15, Reporting DEF AssessRisk
  <2>a. /\ risk' \in RiskOutputs(consensus = "approved") \cup {NoRisk}
        /\ busy' = FALSE
        /\ node' = IF risk'.approved /\ run.execute THEN "execution" ELSE "journal"
    BY <1>15 DEF AssessRisk, Leave
  <2>b. /\ risk' \in Risks
        /\ risk'.approved => consensus = "approved" /\ risk'.score <= MaxRiskScore
    BY <2>a, RiskTypes
  <2>1. TypeOK'
    BY <1>15, <2>0, <2>a, <2>b DEF TypeOK, Nodes, Stages, AssessRisk
  <2>2. Answers'
    BY <1>15, <2>0, <2>a, <2>b DEF TypeOK, Answers, AssessRisk
  <2>3. Decisions'
    BY <1>15, <2>0, <2>a, <2>b DEF TypeOK, Answers, Decisions, AssessRisk
  <2>4. Ahead'
    <3>1. node = "risk" /\ written' = written /\ result' = "running"
      BY <1>15 DEF AssessRisk
    <3>2. node' \in {"execution", "journal"} /\ busy' = FALSE
      BY <2>a
    <3>. QED
      BY <2>0, <3>1, <3>2 DEF Ahead
  <2>5. Deadlines'
    BY <1>15, <2>0, <2>a, <2>b DEF TypeOK, Decisions, Ahead, Deadlines, AssessRisk
  <2>6. Approvals'
    BY <1>15, <2>0, <2>a, <2>b DEF TypeOK, Approvals, AssessRisk
  <2>. QED
    BY <2>1, <2>2, <2>3, <2>4, <2>5, <2>6
<1>16. CASE Execute
  <2>0. /\ status' \in Statuses /\ outcome' \in [Agents -> How]
        /\ \A b \in Agents \ {"execution"} : outcome'[b] = outcome[b]
    BY <1>16, Reporting DEF Execute
  <2>a. written' = {}
    BY <1>16 DEF Execute, Ahead, Row, Rebuilt
  <2>b. execution' \in {"none", "rejected", "unfilled", "executed"}
    BY <1>16 DEF Execute
  <2>1. TypeOK'
    BY <1>16, <2>0, <2>a, <2>b DEF TypeOK, Nodes, Stages, Execute, Leave, Successor
  <2>2. Answers'
    BY <1>16, <2>0, <2>a, <2>b DEF TypeOK, Answers, Execute, Leave, Successor
  <2>3. Decisions'
    BY <1>16, <2>0, <2>a, <2>b DEF TypeOK, Answers, Decisions, Execute, Leave, Successor
  <2>4. Ahead'
    BY <1>16, <2>0, <2>a, <2>b DEF TypeOK, Ahead, Execute, Leave, Successor
  <2>5. Deadlines'
    BY <1>16, <2>0, <2>a, <2>b DEF TypeOK, Decisions, Ahead, Deadlines, Execute, Leave, Successor
  <2>6. Approvals'
    BY <1>16, <2>0, <2>a, <2>b DEF TypeOK, Approvals, Execute, Leave, Successor
  <2>. QED
    BY <2>1, <2>2, <2>3, <2>4, <2>5, <2>6
<1>17. ASSUME NEW a \in Audits, Audit(a) PROVE Inv'
  <2>0. /\ status' \in Statuses /\ outcome' \in [Agents -> How]
        /\ \A b \in Agents \ {a} : outcome'[b] = outcome[b]
    BY <1>17, Reporting DEF Audit
  <2>a. Row("journal", "journal") = {}
    BY DEF Row, Rebuilt
  <2>b. written' = {}
    BY <1>17, <2>a DEF Audit, Ahead
  <2>c. /\ node = a /\ busy' = FALSE /\ UNCHANGED <<deadline, result>>
        /\ \/ a = "journal" /\ node' = "reflection"
           \/ a = "reflection" /\ node' = "memory"
           \/ a = "memory" /\ node' = "log"
    BY <1>17 DEF Audit, Leave, Successor
  <2>1. TypeOK'
    BY <1>17, <2>0, <2>b, <2>c DEF TypeOK, Nodes, Stages, Audit
  <2>2. Answers'
    BY <1>17, <2>0, <2>b, <2>c DEF TypeOK, Answers, Audit
  <2>3. Decisions'
    BY <1>17, <2>0, <2>b, <2>c DEF TypeOK, Answers, Decisions, Audit
  <2>4. Ahead'
    BY <1>17, <2>0, <2>b, <2>c DEF TypeOK, Ahead, Audit
  <2>5. Deadlines'
    BY <1>17, <2>0, <2>b, <2>c DEF TypeOK, Decisions, Ahead, Deadlines, Audit
  <2>6. Approvals'
    BY <1>17, <2>0, <2>b, <2>c DEF TypeOK, Approvals, Audit
  <2>. QED
    BY <2>1, <2>2, <2>3, <2>4, <2>5, <2>6
<1>18. CASE UNCHANGED vars
  <2>1. TypeOK' /\ Answers'
    BY <1>18 DEF vars, TypeOK, Answers
  <2>2. Decisions'
    BY <1>18 DEF vars, Decisions, Agree
  <2>3. Ahead' /\ Deadlines'
    BY <1>18 DEF vars, Ahead, Deadlines
  <2>4. Approvals'
    BY <1>18 DEF vars, Approvals, Approvable
  <2>. QED
    BY <2>1, <2>2, <2>3, <2>4
<1>. QED
  BY <1>1, <1>2, <1>3, <1>4, <1>5, <1>6, <1>7, <1>8, <1>9, <1>10, <1>11, <1>12, <1>13, <1>14,
     <1>15, <1>16, <1>17, <1>18 DEF Next, Stage

LEMMA Invariant == Spec => []Inv
<1>. QED
  BY InitInv, StepInv, PTL DEF Spec

-----------------------------------------------------------------------------
(* The theorems.                                                           *)

\* The run's state stays well typed: confidences and risk scores stay within
\* their scales whatever a model claims.
THEOREM TypeCorrect == Spec => []TypeOK
<1>1. Inv => TypeOK
  BY DEF Inv
<1>. QED
  BY Invariant, <1>1, PTL

\* Money moves only by two confident model answers that agree on a side and
\* a risk within the limit, for any confidences and scores.
THEOREM MoneyIsGated == Spec => []GatesHold
<1>1. Inv => GatesHold
  <2>. SUFFICES ASSUME Inv, Committed PROVE GatesHold
    BY DEF GatesHold
  <2>1. consensus = "approved" /\ risk.approved /\ risk.score <= MaxRiskScore
    BY DEF Inv, Committed, Decisions, Approvals, Approvable
  <2>2. Agree(signal.market_analyst, signal.quant)
    BY <2>1 DEF Inv, Decisions
  <2>3. approval # None \/ bookings > 0 => ~run.execute
    BY DEF Inv, Approvals
  <2>. QED
    BY <2>1, <2>2, <2>3 DEF Inv, Answers, Agree, GatesHold
<1>. QED
  BY Invariant, <1>1, PTL

\* A run that ends at its deadline has decided nothing, for any deadline.
THEOREM DeadlineIsClean == Spec => []DeadlineSparesDecisions
<1>1. Inv => DeadlineSparesDecisions
  <2>. SUFFICES ASSUME Inv, result = "deadline" PROVE DeadlineSparesDecisions
    BY DEF DeadlineSparesDecisions
  <2>1. node \in Early \cup {"risk", "execution"}
    BY DEF Inv, TypeOK, Deadlines, Nodes, Stages, Audits, Early
  <2>2. written = {} /\ outcome["execution"] = "not run"
    BY <2>1 DEF Inv, Ahead
  <2>3. \A a \in Audits : outcome[a] = "not run"
    BY <2>1 DEF Inv, Ahead
  <2>4. consensus # "rejected"
    BY <2>1 DEF Inv, Decisions
  <2>5. outcome["risk"] # "not run" => risk.approved /\ run.execute
    BY <2>1 DEF Inv, Decisions
  <2>. QED
    BY <2>2, <2>3, <2>4, <2>5 DEF DeadlineSparesDecisions
<1>. QED
  BY Invariant, <1>1, PTL

-----------------------------------------------------------------------------
(* The status a run reports.                                               *)

\* Each agent runs once, at its own node.
Untouched ==
    /\ node \in {"supervisor", "analysis"} =>
          outcome["market_analyst"] = "not run" /\ outcome["vision"] = "not run"
    /\ node \in {"supervisor", "analysis", "quant"} => outcome["quant"] = "not run"
    /\ node \in {"supervisor", "analysis", "quant", "news"} => outcome["news"] = "not run"
    /\ node \in Early => outcome["consensus"] = "not run"
    /\ node \in Early \cup {"risk"} => outcome["risk"] = "not run"
    /\ node \in Early \cup {"risk", "execution"} => outcome["execution"] = "not run"
    /\ node \in Early \cup {"risk", "execution", "journal"} => outcome["journal"] = "not run"
    /\ node \in Early \cup {"risk", "execution", "journal", "reflection"} =>
          outcome["reflection"] = "not run"
    /\ node \in Early \cup {"risk", "execution"} \cup Audits => outcome["memory"] = "not run"

\* The lists, agent by agent.
Listed ==
    \A a \in Agents :
        /\ a \in status.failed <=> outcome[a] = "broken"
        /\ outcome[a] = "done" => a \in status.completed
        /\ a \in status.completed \cup status.failed => outcome[a] # "not run"
        /\ a \in status.skipped => outcome[a] = "not run"

\* The news agent, which may be generic, infers nobody's skipping and is never
\* taken for skipped; at the end every agent is in a list.
Accounted ==
    /\ node \in {"supervisor", "analysis", "quant", "news"} => "news" \notin status.skipped
    /\ node \in {"log", "end"} =>
          Agents \subseteq status.completed \cup status.failed \cup status.skipped

StatusInv == Untouched /\ Listed /\ Accounted

\* What a report does to the lists, agent by agent.
LEMMA Listing ==
    ASSUME TypeOK, Listed, NEW a \in Agents, NEW ok \in BOOLEAN, Report(a, ok),
           outcome[a] = "not run", ~Generic(a) \/ a \notin status.skipped
    PROVE  Listed'
<1>1. outcome' = [outcome EXCEPT ![a] = Ended(ok)]
  BY DEF Report
<1>2. /\ status.completed \subseteq status'.completed
      /\ status'.completed \subseteq status.completed \cup {a}
      /\ ok => a \in status'.completed
      /\ ok => status'.failed = status.failed
      /\ ~ok => status'.failed = status.failed \cup {a}
      /\ \A b \in status'.skipped : b \notin status'.completed \cup status'.failed
  <2>1. CASE Generic(a)
    BY <2>1 DEF Report, Succeeded, Broke, TypeOK, Statuses, Listed
  <2>2. CASE ~Generic(a)
    <3>. DEFINE m == Merge(status, {a}, {}, TRUE)
    <3>1. /\ m.completed = status.completed \cup {a}
          /\ m.failed = status.failed
          /\ \A b \in m.skipped : b \notin m.completed \cup m.failed
      BY DEF Merge
    <3>2. m \in Statuses
      BY StatusTypes DEF TypeOK
    <3>3. status' = IF ok THEN m ELSE [m EXCEPT !.failed = status.failed \cup {a}]
      BY <2>2, Zenon DEF Report, Succeeded, Broke
    <3>. HIDE DEF m
    <3>4. CASE ok
      BY <3>1, <3>3, <3>4
    <3>5. CASE ~ok
      <4>1. /\ status'.completed = m.completed
            /\ status'.skipped = m.skipped
            /\ status'.failed = status.failed \cup {a}
        BY <3>2, <3>3, <3>5 DEF Statuses
      <4>. QED
        BY <3>1, <3>5, <4>1
    <3>. QED
      BY <3>4, <3>5
  <2>. QED
    BY <2>1, <2>2
<1>3. ASSUME NEW b \in Agents
      PROVE  /\ b \in status'.failed <=> outcome'[b] = "broken"
             /\ outcome'[b] = "done" => b \in status'.completed
             /\ b \in status'.completed \cup status'.failed => outcome'[b] # "not run"
             /\ b \in status'.skipped => outcome'[b] = "not run"
  <2>1. CASE b = a
    <3>1. outcome'[b] = IF ok THEN "done" ELSE "broken"
      BY <1>1, <2>1 DEF TypeOK, Ended
    <3>2. a \notin status.failed
      BY DEF Listed
    <3>. QED
      BY <1>2, <2>1, <3>1, <3>2
  <2>2. CASE b # a
    <3>1. outcome'[b] = outcome[b] /\ outcome[b] \in How
      BY <1>1, <2>2 DEF TypeOK
    <3>2. /\ b \in status'.completed <=> b \in status.completed
          /\ b \in status'.failed <=> b \in status.failed
      <4>1. b \in status'.completed <=> b \in status.completed
        BY <1>2, <2>2
      <4>2. b \in status'.failed <=> b \in status.failed
        BY <1>2, <2>2
      <4>. QED
        BY <4>1, <4>2
    <3>. QED
      BY <1>2, <3>1, <3>2 DEF Listed, How
  <2>. QED
    BY <2>1, <2>2
<1>. QED
  BY <1>3 DEF Listed

LEMMA Order ==
    /\ "news" \notin Before("market_analyst") /\ "news" \notin Before("quant")
    /\ Agents \ {"memory"} \subseteq Before("memory")
<1>1. /\ DOMAIN PipelineOrder = 1 .. 10
      /\ PipelineOrder[1] = "market_analyst" /\ PipelineOrder[2] = "quant"
      /\ PipelineOrder[3] = "news" /\ PipelineOrder[4] = "vision"
      /\ PipelineOrder[5] = "consensus" /\ PipelineOrder[6] = "risk"
      /\ PipelineOrder[7] = "execution" /\ PipelineOrder[8] = "journal"
      /\ PipelineOrder[9] = "reflection" /\ PipelineOrder[10] = "memory"
  BY DEF PipelineOrder
<1>2. \A i \in 1 .. 10 : PipelineOrder[i] = "news" => i = 3
  BY <1>1
<1>3. "news" \notin Before("market_analyst") /\ "news" \notin Before("quant")
  BY <1>1, <1>2 DEF Before
<1>4. \A i \in 1 .. 10 : PipelineOrder[i] = "memory" => i = 10
  BY <1>1
<1>5. ASSUME NEW a \in Agents \ {"memory"}
      PROVE  a \in Before("memory")
  <2>1. PICK i \in 1 .. 10 : a = PipelineOrder[i]
    BY <1>1 DEF Agents
  <2>2. i # 10
    BY <1>1, <2>1
  <2>3. \A k \in 1 .. i : PipelineOrder[k] # "memory"
    BY <1>4, <2>2
  <2>. QED
    BY <1>1, <2>1, <2>3 DEF Before
<1>. QED
  BY <1>3, <1>5

\* Which agents an implementation's report takes for skipped.
LEMMA Skipping ==
    ASSUME TypeOK, NEW a \in Agents, NEW ok \in BOOLEAN, Report(a, ok), ~Generic(a)
    PROVE  /\ status'.skipped \subseteq status.skipped \cup Before(a)
           /\ Before(a) \cup {a} \subseteq
                 status'.completed \cup status'.failed \cup status'.skipped
<1>. DEFINE m == Merge(status, {a}, {}, TRUE)
<1>0. UNION {Before(b) : b \in {a} \cup {}} = Before(a)
  OBVIOUS
<1>1. /\ m.completed = status.completed \cup {a}
      /\ m.failed = status.failed
      /\ m.skipped = (status.skipped \cup Before(a)) \ (m.completed \cup m.failed)
  BY <1>0 DEF Merge
<1>2. m \in Statuses
  BY StatusTypes DEF TypeOK
<1>3. status' = IF ok THEN m ELSE [m EXCEPT !.failed = status.failed \cup {a}]
  BY Zenon DEF Report, Succeeded, Broke
<1>. HIDE DEF m
<1>4. /\ status'.completed = m.completed /\ status'.skipped = m.skipped
      /\ m.failed \subseteq status'.failed
  BY <1>1, <1>2, <1>3 DEF Statuses
<1>. QED
  BY <1>1, <1>4

LEMMA StatusInit == Init => StatusInv
<1>. SUFFICES ASSUME Init PROVE StatusInv
  OBVIOUS
<1>1. /\ \A a \in Agents : outcome[a] = "not run"
      /\ status = [completed |-> {}, failed |-> {}, skipped |-> {}]
      /\ node = "supervisor"
  BY DEF Init
<1>2. Untouched
  BY <1>1, AgentNames DEF Untouched
<1>3. Listed
  BY <1>1 DEF Listed
<1>4. Accounted
  BY <1>1 DEF Accounted
<1>. QED
  BY <1>2, <1>3, <1>4 DEF StatusInv

\* Only what ends an agent's turn touches the lists.
LEMMA StatusStep == Inv /\ StatusInv /\ [Next]_vars => StatusInv'
<1>. SUFFICES ASSUME Inv, StatusInv, [Next]_vars PROVE StatusInv'
  OBVIOUS
<1>. USE AgentNames DEF Inv, StatusInv, At, In, Audits, Early
<1>1. CASE UNCHANGED <<status, outcome, node>>
  BY <1>1 DEF Untouched, Listed, Accounted
<1>2. ASSUME \/ \E s \in Stages : Stage(s)
             \/ LogFails \/ Cancel \/ Book \/ Tick \/ UNCHANGED vars
      PROVE  StatusInv'
  BY <1>1, <1>2
     DEF Stage, Refuse, Enter, CutOff, OwnTimeout, LogFails, Cancel, Book, Tick, vars
<1>3. CASE Supervise
  <2>1. Untouched'
    BY <1>3 DEF Supervise, Untouched
  <2>2. Listed'
    BY <1>3 DEF Supervise, Untouched, Listed
  <2>3. Accounted'
    BY <1>3 DEF Supervise, Accounted
  <2>. QED
    BY <2>1, <2>2, <2>3
<1>4. CASE Log
  <2>1. status' = status /\ outcome' = outcome /\ node = "log" /\ node' = "end"
    BY <1>4 DEF Log
  <2>2. Untouched'
    BY <2>1 DEF Untouched
  <2>3. Listed'
    BY <2>1 DEF Listed
  <2>4. Accounted'
    BY <2>1 DEF Accounted
  <2>. QED
    BY <2>2, <2>3, <2>4
<1>5. ASSUME NEW a \in Agents, NEW ok \in BOOLEAN, Report(a, ok),
             node = a,
             \/ a = "quant" /\ node' = "news"
             \/ a = "news" /\ node' = "consensus"
             \/ a = "consensus" /\ node' \in {"risk", "journal"}
             \/ a = "risk" /\ node' \in {"execution", "journal"}
             \/ a = "execution" /\ node' = "journal"
             \/ a = "journal" /\ node' = "reflection"
             \/ a = "reflection" /\ node' = "memory"
             \/ a = "memory" /\ node' = "log"
      PROVE  StatusInv'
  <2>1. \A b \in Agents \ {a} : outcome'[b] = outcome[b]
    BY <1>5, Reporting
  <2>2. Untouched'
    BY <1>5, <2>1 DEF Untouched
  <2>3. Generic(a) => a = "news"
    BY ConstantsAssumption DEF Generic, TypeOK
  <2>4. outcome[a] = "not run"
    BY <1>5 DEF Untouched
  <2>5. Listed'
    BY <1>5, <2>3, <2>4, Listing DEF Accounted
  <2>6. Accounted'
    <3>1. CASE a = "quant"
      BY <1>5, <2>3, <3>1, Skipping, Order DEF Accounted
    <3>2. CASE a = "memory"
      BY <1>5, <2>3, <3>2, Skipping, Order DEF Accounted
    <3>3. CASE a \notin {"quant", "memory"}
      BY <1>5, <3>3 DEF Accounted
    <3>. QED
      BY <3>1, <3>2, <3>3
  <2>. QED
    BY <2>2, <2>5, <2>6
<1>6. ASSUME Decide \/ Quantify \/ ReadNews \/ AssessRisk \/ Execute \/ \E a \in Audits : Audit(a)
      PROVE  StatusInv'
  <2>1. CASE Decide
    BY <1>5, <2>1 DEF Decide
  <2>2. CASE Quantify
    BY <1>5, <2>2 DEF Quantify, Leave, Successor
  <2>3. CASE ReadNews
    BY <1>5, <2>3 DEF ReadNews, Parses, Leave, Successor
  <2>4. CASE AssessRisk
    BY <1>5, <2>4 DEF AssessRisk, Leave
  <2>5. CASE Execute
    BY <1>5, <2>5 DEF Execute, Leave, Successor
  <2>6. ASSUME NEW a \in Audits, Audit(a) PROVE StatusInv'
    BY <1>5, <2>6 DEF Audit, Leave, Successor
  <2>. QED
    BY <1>6, <2>1, <2>2, <2>3, <2>4, <2>5, <2>6
<1>7. CASE Analyze
  <2>. DEFINE ma == "market_analyst"
              m == Merge(status, {ma}, {}, TRUE)
  <2>1. PICK ok \in BOOLEAN, seen \in BOOLEAN :
          /\ status' = Joined(IF ok THEN Succeeded(ma) ELSE Broke(ma), Vision(seen))
          /\ outcome' = [outcome EXCEPT ![ma] = Ended(ok), !["vision"] = Ended(seen)]
    <3>1. PICK s \in MarketSignals \cup {NoSignal}, z \in BOOLEAN :
            /\ status' = Joined(IF s # NoSignal THEN Succeeded(ma) ELSE Broke(ma), Vision(z))
            /\ outcome' = [outcome EXCEPT ![ma] = Ended(s # NoSignal), !["vision"] = Ended(z)]
      BY <1>7, Zenon DEF Analyze
    <3>2. (s # NoSignal) \in BOOLEAN
      OBVIOUS
    <3>. QED
      BY <3>1, <3>2, Zenon
  <2>2. ~Generic(ma)
    BY ConstantsAssumption DEF Generic, TypeOK
  <2>3. /\ m.completed = status.completed \cup {ma}
        /\ m.failed = status.failed
        /\ m.skipped \subseteq status.skipped \cup Before(ma)
    <3>1. UNION {Before(b) : b \in {ma} \cup {}} = Before(ma)
      OBVIOUS
    <3>. QED
      BY <3>1 DEF Merge
  <2>4. m \in Statuses
    BY StatusTypes DEF TypeOK
  <2>5. /\ seen => /\ Vision(seen).completed = status.completed \cup {"vision"}
                   /\ Vision(seen).failed = status.failed
        /\ ~seen => /\ Vision(seen).completed = status.completed
                    /\ Vision(seen).failed = status.failed \cup {"vision"}
        /\ Vision(seen).skipped \subseteq status.skipped
    <3>1. CASE seen
      BY <3>1 DEF Merge, Vision
    <3>2. CASE ~seen
      BY <3>2 DEF Merge, Vision
    <3>. QED
      BY <3>1, <3>2
  <2>6. (IF ok THEN Succeeded(ma) ELSE Broke(ma)) =
           IF ok THEN m ELSE [m EXCEPT !.failed = status.failed \cup {ma}]
    BY <2>2, Zenon DEF Succeeded, Broke
  <2>. HIDE DEF m
  <2>7. /\ status'.completed = status.completed \cup {ma} \cup Vision(seen).completed
        /\ ok => status'.failed = status.failed \cup Vision(seen).failed
        /\ ~ok => status'.failed = status.failed \cup {ma} \cup Vision(seen).failed
        /\ status'.skipped \subseteq status.skipped \cup Before(ma)
        /\ \A b \in status'.skipped : b \notin status'.completed \cup status'.failed
    <3>1. CASE ok
      BY <2>1, <2>3, <2>5, <2>6, <3>1 DEF Joined
    <3>2. CASE ~ok
      <4>1. LET n == [m EXCEPT !.failed = status.failed \cup {ma}]
            IN  /\ n.completed = m.completed /\ n.skipped = m.skipped
                /\ n.failed = status.failed \cup {ma}
        BY <2>4 DEF Statuses
      <4>. QED
        BY <2>1, <2>3, <2>5, <2>6, <3>2, <4>1 DEF Joined
    <3>. QED
      BY <3>1, <3>2
  <2>8. outcome[ma] = "not run" /\ outcome["vision"] = "not run"
    BY <1>7 DEF Analyze, Untouched
  <2>9. /\ outcome'[ma] = Ended(ok) /\ outcome'["vision"] = Ended(seen)
         /\ \A b \in Agents \ {ma, "vision"} : outcome'[b] = outcome[b]
    BY <2>1 DEF TypeOK
  <2>10. Untouched'
    BY <1>7, <2>9 DEF Analyze, Leave, Untouched
  <2>11. Accounted'
    BY <1>7, <2>7, Order DEF Analyze, Leave, Accounted
  <2>12. Listed'
    <3>1. ASSUME NEW b \in Agents
          PROVE  /\ b \in status'.failed <=> outcome'[b] = "broken"
                 /\ outcome'[b] = "done" => b \in status'.completed
                 /\ b \in status'.completed \cup status'.failed => outcome'[b] # "not run"
                 /\ b \in status'.skipped => outcome'[b] = "not run"
      <4>1. CASE b = ma
        BY <2>5, <2>7, <2>8, <2>9, <4>1 DEF Listed, Ended
      <4>2. CASE b = "vision"
        BY <2>5, <2>7, <2>8, <2>9, <4>2 DEF Listed, Ended
      <4>3. CASE b \notin {ma, "vision"}
        <5>1. b \in status'.completed <=> b \in status.completed
          BY <2>5, <2>7, <4>3
        <5>2. b \in status'.failed <=> b \in status.failed
          <6>1. CASE ok
            BY <2>5, <2>7, <4>3, <6>1
          <6>2. CASE ~ok
            BY <2>5, <2>7, <4>3, <6>2
          <6>. QED
            BY <6>1, <6>2
        <5>3. outcome'[b] = outcome[b] /\ outcome[b] \in How
          BY <2>9, <4>3 DEF TypeOK
        <5>. QED
          BY <2>7, <5>1, <5>2, <5>3 DEF Listed, How
      <4>. QED
        BY <4>1, <4>2, <4>3
    <3>. QED
      BY <3>1 DEF Listed
  <2>. QED
    BY <2>10, <2>11, <2>12
<1>. QED
  BY <1>2, <1>3, <1>4, <1>6, <1>7 DEF Next

\* What a finished run reports tells what ran: failures and skipped nodes
\* exactly, and no success is missing, for any answers of the agents.
THEOREM StatusIsTrue == Spec => []StatusTellsWhatRan
<1>1. Inv /\ StatusInv => StatusTellsWhatRan
  <2>. SUFFICES ASSUME Inv, StatusInv, result = "completed" PROVE StatusTellsWhatRan
    BY DEF StatusTellsWhatRan
  <2>1. node = "end"
    BY DEF Inv, Ahead
  <2>. QED
    BY <2>1 DEF StatusTellsWhatRan, Inv, StatusInv, Listed, Accounted, TypeOK, Statuses
<1>. QED
  BY Invariant, StatusInit, StatusStep, <1>1, PTL DEF Spec

=============================================================================
