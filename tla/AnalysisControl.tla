--------------------------- MODULE AnalysisControl ---------------------------
(***************************************************************************)
(* Admission of analysis runs and the store of their states:               *)
(* backend/services/analysis_control.py and its callers in                 *)
(* backend/routers/analysis.py.                                            *)
(*                                                                         *)
(* A request is one call of POST /analyze (background), GET                *)
(* /analyze/stream (stream) or POST /signal (signal), numbered as they     *)
(* come in; its number is also its session id.  An action is what one task *)
(* does between two awaits.  The wait for the semaphore runs in a task of  *)
(* its own, so that a slot is first granted and then taken up.             *)
(*                                                                         *)
(* An operator marked FAULTY is the next operator with a plausible bug,    *)
(* kept to show that a property notices it.                                *)
(***************************************************************************)
EXTENDS Semaphore

CONSTANTS
    Endpoints,      \* the endpoints called
    MaxConcurrent,  \* analysis_max_concurrent
    MaxRuns,        \* analysis_max_runs_per_hour
    Window,         \* budget_window_seconds
    MaxEntries,     \* analysis_state_cache_size
    MaxRequests,    \* bound on the requests
    MaxTime         \* bound on the clock

ASSUME ConstantsAssumption ==
    /\ Endpoints \subseteq {"background", "stream", "signal"}
    /\ {MaxConcurrent, MaxRuns, Window, MaxEntries} \subseteq Nat \ {0}
    /\ {MaxRequests, MaxTime} \subseteq Nat

Requests == 1 .. MaxRequests
NoKind   == "none"  \* not come in yet
Times    == 0 .. MaxTime
None     == 0   \* no request
Never    == -1  \* no start

VARIABLES
    stage,    \* how far each request is
    kind,     \* the endpoint of each request
    sem,      \* the semaphore: free slots, who waits, and whom it has woken
    inUse,    \* _in_use
    leased,   \* requests whose lease is out: _released is false
    started,  \* when each run was recorded in _run_times
    store,    \* the order of the retained sessions, what they show, the latest
    now       \* the clock

gateVars == <<sem, inUse, leased, started>>
vars == <<stage, kind, sem, inUse, leased, started, store, now>>

Stages == {"new", "asking", "waiting", "granted", "accepted", "running",
           "closing", "ended", "over"}
Shown  == {"nothing", "pending", "partial", "final"}

TypeOK ==
    /\ stage \in [Requests -> Stages]
    /\ kind \in [Requests -> Endpoints \cup {NoKind}]
    /\ sem \in [free : 0 .. MaxConcurrent, waiters : Seq(Requests), woken : SUBSET Requests]
    /\ inUse \in 0 .. MaxConcurrent
    /\ leased \subseteq Requests
    /\ started \in [Requests -> Times \cup {Never}]
    /\ store \in [order : Seq(Requests), shows : [Requests -> Shown],
                  latest : Requests \cup {None}]
    /\ Len(store.order) <= MaxEntries
    /\ now \in Times

Init ==
    /\ stage = [r \in Requests |-> "new"]
    /\ kind = [r \in Requests |-> NoKind]
    /\ sem = NewSemaphore(MaxConcurrent)
    /\ inUse = 0
    /\ leased = {}
    /\ started = [r \in Requests |-> Never]
    /\ store = [order |-> <<>>, shows |-> [r \in Requests |-> "nothing"], latest |-> None]
    /\ now = 0

-----------------------------------------------------------------------------
(* The store of states *)

\* put: what is evicted is no longer shown, and the display moves on from it.
Put(st, r, shown, makeLatest) ==
    LET order  == IF Contains(st.order, r) THEN st.order ELSE Append(st.order, r)
        kept   == IF Len(order) > MaxEntries THEN Tail(order) ELSE order
        latest == IF makeLatest \/ st.latest = None THEN r ELSE st.latest
    IN  [order  |-> kept,
         shows  |-> [s \in Requests |-> IF ~Contains(kept, s) THEN "nothing"
                                        ELSE IF s = r THEN shown ELSE st.shows[s]],
         latest |-> IF Contains(kept, latest) THEN latest ELSE Last(kept)]

\* _mark_terminal and _mark_completed: only a retained session is marked.
Marked(st, r) == IF Contains(st.order, r) THEN Put(st, r, "final", FALSE) ELSE st

-----------------------------------------------------------------------------
(* The gate *)

\* _check_budget
BudgetSpent ==
    Cardinality({r \in Requests : started[r] # Never /\ started[r] > now - Window}) >= MaxRuns

\* The rest of try_start and acquire, and the placeholder that the route puts.
Admit(r, next) ==
    /\ inUse' = inUse + 1
    /\ leased' = leased \cup {r}
    /\ started' = [started EXCEPT ![r] = now]
    /\ store' = Put(store, r, "pending", TRUE)
    /\ stage' = [stage EXCEPT ![r] = next]

Refuse(r) ==
    /\ stage' = [stage EXCEPT ![r] = "over"]
    /\ UNCHANGED <<inUse, leased, started, store>>

\* AnalysisLease.release, which may be called again.  (FAULTY: each call
\* releases.)
ReleaseEachTime(r) ==
    /\ leased' = leased \ {r}
    /\ inUse' = inUse - 1
    /\ sem' = Freed(sem)
Release(r) ==
    IF r \in leased
    THEN leased' = leased \ {r} /\ inUse' = inUse - 1 /\ sem' = Freed(sem)
    ELSE UNCHANGED <<leased, inUse, sem>>

Arrive(r, kinds) ==
    /\ stage[r] = "new" /\ \A q \in 1 .. r - 1 : stage[q] # "new"
    /\ \E k \in kinds \cap Endpoints : kind' = [kind EXCEPT ![r] = k]

\* Whether try_start turns a call down.
Busy == Locked(sem)

\* What analyze and analyze_stream do with a slot: the placeholder, and the
\* task or the response that will run.
Accept(r) == Admit(r, "accepted") /\ sem' = Taken(sem)

\* analyze and analyze_stream, up to the response.
TryStart(r) ==
    /\ Arrive(r, {"background", "stream"})
    /\ IF BudgetSpent \/ Busy THEN Refuse(r) /\ UNCHANGED sem ELSE Accept(r)
    /\ UNCHANGED now

\* signal asks for a slot: acquire, up to wait_for.
Ask(r) ==
    /\ Arrive(r, {"signal"})
    /\ stage' = [stage EXCEPT ![r] = IF BudgetSpent THEN "over" ELSE "asking"]
    /\ UNCHANGED <<gateVars, store, now>>

\* The inner task tries the semaphore.
Enter(r) ==
    /\ stage[r] = "asking"
    /\ IF Locked(sem)
       THEN /\ sem' = Queued(sem, r)
            /\ stage' = [stage EXCEPT ![r] = "waiting"]
       ELSE /\ sem' = Taken(sem)
            /\ stage' = [stage EXCEPT ![r] = "granted"]
    /\ UNCHANGED <<kind, inUse, leased, started, store, now>>

\* The inner task goes on after it was woken; a free slot is passed on.
Resume(r) ==
    /\ stage[r] = "waiting"
    /\ r \in sem.woken
    /\ sem' = Resumed(sem, r)
    /\ stage' = [stage EXCEPT ![r] = "granted"]
    /\ UNCHANGED <<kind, inUse, leased, started, store, now>>

\* The wait times out, or the caller is cancelled: a slot that has come in
\* between is passed on.
GiveUp(r) ==
    /\ stage[r] \in {"asking", "waiting"}
    /\ sem' = Abandoned(sem, r)
    /\ Refuse(r)
    /\ UNCHANGED <<kind, now>>

\* acquire after the wait: the budget is read again.  (FAULTY: it is not.)
NotReadAgain == FALSE
SpentMeanwhile == BudgetSpent
TakeUp(r) ==
    /\ stage[r] = "granted"
    /\ IF SpentMeanwhile
       THEN Refuse(r) /\ sem' = Freed(sem)
       ELSE Admit(r, "running") /\ UNCHANGED sem
    /\ UNCHANGED <<kind, now>>

-----------------------------------------------------------------------------
(* Runs *)

\* The background task, or the body of the response, starts.
Begin(r) ==
    /\ stage[r] = "accepted"
    /\ stage' = [stage EXCEPT ![r] = "running"]
    /\ UNCHANGED <<kind, gateVars, store, now>>

\* A stage of the pipeline is done; signal waits for all of them.
Update(r) ==
    /\ stage[r] = "running"
    /\ kind[r] # "signal"
    /\ store' = Put(store, r, "partial", FALSE)
    /\ UNCHANGED <<stage, kind, gateVars, now>>

AfterRun(r) == IF kind[r] = "signal" THEN "over" ELSE "ended"

\* The run completes, fails, is cancelled or loses its client, and is marked;
\* a signal that completes puts its whole state.
EndRun(r) ==
    /\ stage[r] = "running"
    /\ \/ store' = Marked(store, r)
       \/ kind[r] = "signal" /\ store' = Put(store, r, "final", FALSE)
    /\ Release(r)
    /\ stage' = [stage EXCEPT ![r] = AfterRun(r)]
    /\ UNCHANGED <<kind, started, now>>

\* A stream fails or times out, and has one more event to send.
FailStream(r) ==
    /\ stage[r] = "running"
    /\ kind[r] = "stream"
    /\ store' = Marked(store, r)
    /\ stage' = [stage EXCEPT ![r] = "closing"]
    /\ UNCHANGED <<kind, gateVars, now>>

\* The event is sent, or the client has left.
EndStream(r) ==
    /\ stage[r] = "closing"
    /\ Release(r)
    /\ stage' = [stage EXCEPT ![r] = "ended"]
    /\ UNCHANGED <<kind, started, store, now>>

\* _on_done and aclose.  A run that was cancelled before it started is marked
\* here.  (FAULTY: the mark, or the slot, is left to the run itself.)
ClosedUnmarked(st, r) == st
Closed(st, r) == IF stage[r] = "accepted" THEN Marked(st, r) ELSE st

ReleaseByRunOnly(r) ==
    IF stage[r] # "accepted" THEN Release(r) ELSE UNCHANGED <<leased, inUse, sem>>
ReleaseAtClose(r) == Release(r)

Close(r) ==
    /\ stage[r] \in {"accepted", "ended"}
    /\ ReleaseAtClose(r)
    /\ store' = Closed(store, r)
    /\ stage' = [stage EXCEPT ![r] = "over"]
    /\ UNCHANGED <<kind, started, now>>

Tick ==
    /\ now < MaxTime
    /\ now' = now + 1
    /\ UNCHANGED <<stage, kind, gateVars, store>>

\* What ends a run or takes up its end.
End(r) == EndRun(r) \/ EndStream(r) \/ Close(r)

Next ==
    \/ Tick
    \/ \E r \in Requests :
         \/ TryStart(r) \/ Ask(r) \/ Enter(r) \/ Resume(r) \/ GiveUp(r) \/ TakeUp(r)
         \/ Begin(r) \/ Update(r) \/ FailStream(r) \/ End(r)

Spec == Init /\ [][Next]_vars

\* A run is over after a while: the calls of models have timeouts, the deadline
\* stops the run before its next stage, and callbacks run.
Fairness == \A r \in Requests : WF_vars(End(r))

FairSpec == Spec /\ Fairness

-----------------------------------------------------------------------------
(* Properties *)

\* Slots are neither lost nor multiplied: each is free, on its way to a woken
\* or granted waiter, or out on a lease, so no more than MaxConcurrent
\* pipelines run at once.
Holders == sem.woken \cup {r \in Requests : stage[r] = "granted"} \cup leased
SlotsConserved ==
    /\ sem.free + Cardinality(Holders) = MaxConcurrent
    /\ inUse = Cardinality(leased)
    /\ {r \in Requests : stage[r] \in {"accepted", "running", "closing"}} = leased

\* No window of time holds more starts than the budget, although a waiting
\* caller was admitted long before it starts.
BudgetHolds ==
    \A t \in Times :
        Cardinality({r \in Requests : started[r] # Never /\ started[r] \in t - Window + 1 .. t})
            <= MaxRuns

\* What the store shows is true: a retained run that is over is shown as over,
\* however it ended, and the display points to a retained run if there is one.
StoreIsTrue ==
    /\ \A r \in Requests : stage[r] \in {"closing", "ended", "over"} =>
         store.shows[r] \in {"nothing", "final"}
    /\ store.order # <<>> => Contains(store.order, store.latest)

\* Every slot comes back, also from a run that never began.
EverySlotComesBack ==
    \A r \in Requests : r \in leased ~> r \notin leased
=============================================================================
