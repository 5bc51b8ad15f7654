------------------------------ MODULE Trends ------------------------------
(* What agents/improvement.py reads from past runs: the alerts a run       *)
(* raises, given the runs before it.  A run is a record of whether a trade *)
(* was executed, how accurate the confidence was (in points) and the set   *)
(* of its suggestions; "error" stands for those that name an error.        *)
EXTENDS Integers, Sequences, FiniteSets, SequencesExt

CONSTANTS
    MinRuns,          \* MIN_RUNS_FOR_ANALYSIS (5)
    HistorySize       \* runs looked at, HISTORY_LIMIT and history_size (100)

ASSUME TrendAssumption ==
    MinRuns \in Nat \ {0, 1} /\ HistorySize \in Nat /\ HistorySize >= 2 * MinRuns

Latest(history, n) ==
    IF Len(history) <= n THEN history ELSE SubSeq(history, Len(history) - n + 1, Len(history))

Executed(history) == Cardinality({n \in DOMAIN history : history[n].executed})
Accuracy(history) == FoldSeq(LAMBDA run, sum : sum + run.accuracy, 0, history)
\* The first half, and the rest, which is the longer one.
Older(history) == SubSeq(history, 1, Len(history) \div 2)
Newer(history) == SubSeq(history, Len(history) \div 2 + 1, Len(history))

\* By how much the average fell from one half to the other, given the sums of
\* both and multiplied by both lengths.
Fall(old, new, history) == old * Len(Newer(history)) - new * Len(Older(history))
Halves(history) == Len(Older(history)) * Len(Newer(history))

\* _check_execution_rate_trend: the last MinRuns runs, halved; 15 percent.
RateFell(history) ==
    /\ Len(history) >= 2 * MinRuns
    /\ LET recent == Latest(history, MinRuns)
       IN  100 * Fall(Executed(Older(recent)), Executed(Newer(recent)), recent) > 15 * Halves(recent)
\* _check_confidence_accuracy_trend: the whole window, halved; 10 points.
AccuracyFell(history) ==
    /\ Len(history) >= 2 * MinRuns
    /\ Fall(Accuracy(Older(history)), Accuracy(Newer(history)), history) > 10 * Halves(history)
\* _check_error_rate: this run and the two before it.
ErrorsPersist(history) ==
    \A n \in DOMAIN Latest(history, 3) : "error" \in Latest(history, 3)[n].hints
\* _check_suggestion_overlap: this run and the four before it.
HintRepeats(history) ==
    \E hint \in history[Len(history)].hints :
        \A n \in DOMAIN Latest(history, 5) : hint \in Latest(history, 5)[n].hints

Alerts(history) ==
    {alert \in {"rate", "accuracy", "errors", "repeated"} :
        /\ Len(history) >= MinRuns
        /\ \/ alert = "rate" /\ RateFell(history)
           \/ alert = "accuracy" /\ AccuracyFell(history)
           \/ alert = "errors" /\ ErrorsPersist(history)
           \/ alert = "repeated" /\ HintRepeats(history)}

\* StrategyImprovementEngine.analyze with the history the database gave: no
\* more than HistorySize runs, this one last.
Analyze(past, run) == Alerts(Latest(Append(past, run), HistorySize))
=============================================================================
