------------------------------ MODULE Records ------------------------------
(* Requests that read rows, wait, and write by what they read: the one     *)
(* account (routers/auth.py, services/user_service.py), an edit of a saved *)
(* strategy (services/strategy_service.py) and the history of finished     *)
(* runs (services/improvement_service.py).  Each has a database session of *)
(* its own; PostgreSQL runs it at READ COMMITTED, so a statement sees what *)
(* was committed when it starts and an UPDATE waits for the row's lock.    *)
(* get_db commits once the answer is on its way.                           *)
EXTENDS Trends

CONSTANTS
    Tasks,            \* requests and finishing runs at one time
    Emails,
    Fields, Values,   \* what an edit may set: name, config, ... and to what
    Histories,        \* the runs the database may hold at first
    Runs,             \* what a finished run may be like
    MaxRequests,      \* bound: requests made
    NoTask
ASSUME RecordsAssumption ==
    NoTask \notin Tasks /\ Values # {} /\ Histories \subseteq Seq(Runs)

VARIABLES
    users,            \* e-mails with a row
    strategy,         \* the row of one strategy
    holder,           \* who holds that row's lock
    runs,             \* reflection_runs by created_at, the uncommitted ones too
    improvements,     \* improvement_records, committed
    task,             \* each session: what it has read and what it waits for
    made              \* requests made so far
vars == <<users, strategy, holder, runs, improvements, task, made>>
strategyRow == <<strategy, holder>>
history == <<runs, improvements>>

Idle == [at |-> "idle"]
Editable == {"draft", "paused"}
Statuses == Editable \cup {"live", "deleted"}

Init ==
    /\ users \in {{}} \cup {{e} : e \in Emails}
    /\ strategy \in [fields : {[f \in Fields |-> CHOOSE v \in Values : TRUE]},
                     version : {1}, status : {"draft", "live"}]
    /\ holder = NoTask
    /\ runs \in {[n \in DOMAIN h |-> [run |-> h[n], by |-> NoTask, alone |-> FALSE]] : h \in Histories}
    /\ improvements = {}
    /\ task = [t \in Tasks |-> Idle]
    /\ made = 0

Start(t, state) ==
    /\ task[t] = Idle /\ made < MaxRequests
    /\ made' = made + 1
    /\ task' = [task EXCEPT ![t] = state]
Goes(t, state) == task' = [task EXCEPT ![t] = state] /\ UNCHANGED made
At(t, place) == task[t].at = place
Moved(t, place) == Goes(t, [task[t] EXCEPT !.at = place])

(* ---------------------------- registration ------------------------------ *)
\* Mutant: only a taken address is refused.
OpenToOthers(e) == e \notin users
\* count_users: closed once anyone has registered.
Open(e) == users = {}
\* register_user, up to there.
Register(t, e) ==
    /\ Start(t, IF Open(e) THEN [at |-> "counted", email |-> e] ELSE Idle)
    /\ UNCHANGED <<users, strategyRow, history>>
\* get_by_email.
GetByEmail(t) ==
    /\ At(t, "counted")
    /\ IF task[t].email \in users THEN Goes(t, Idle) ELSE Moved(t, "absent")
    /\ UNCHANGED <<users, strategyRow, history>>
\* create_user commits at once; the unique column refuses a row that is there.
CreateUser(t) ==
    /\ At(t, "absent")
    /\ users' = users \cup {task[t].email}
    /\ Goes(t, Idle)
    /\ UNCHANGED <<strategyRow, history>>

(* ------------------------- an edit of a strategy ------------------------- *)
\* Mutant: what the caller left out is set to the default.
MergedWithDefaults(row, sent) ==
    [f \in Fields |-> IF f \in DOMAIN sent THEN sent[f] ELSE CHOOSE v \in Values : TRUE]
\* Every column is written: those the caller sent, and the others as read.
Merged(row, sent) == [f \in Fields |-> IF f \in DOMAIN sent THEN sent[f] ELSE row.fields[f]]
Edits == UNION {[S -> Values] : S \in SUBSET Fields}

\* update_strategy, the first SELECT: 404 or 409, or the row is remembered.
ReadStrategy(t, sent) ==
    /\ Start(t, IF strategy.status \in Editable
                THEN [at |-> "read", row |-> strategy, sent |-> sent] ELSE Idle)
    /\ UNCHANGED <<users, strategyRow, history>>
\* Mutant: the UPDATE does not ask for the status again.
TakenAnyhow(t) == holder' = t /\ Moved(t, "written")
\* _UPDATE takes the row if it is still editable; if not, the row is read
\* again for the answer, 404 or 409.
Taken(t) ==
    IF strategy.status \in Editable THEN holder' = t /\ Moved(t, "written")
    ELSE Goes(t, Idle) /\ UNCHANGED holder
WriteStrategy(t) ==
    /\ At(t, "read") /\ holder = NoTask
    /\ Taken(t)
    /\ UNCHANGED <<users, strategy, history>>
\* get_db, after the answer: the commit.
CommitStrategy(t) ==
    /\ At(t, "written")
    /\ strategy' = [strategy EXCEPT !.fields = Merged(task[t].row, task[t].sent), !.version = @ + 1]
    /\ holder' = NoTask
    /\ Goes(t, Idle)
    /\ UNCHANGED <<users, history>>
\* The commit fails, or the connection is lost: nothing is kept.
LoseStrategy(t) ==
    /\ At(t, "written")
    /\ holder' = NoTask
    /\ Goes(t, Idle)
    /\ UNCHANGED <<users, strategy, history>>
\* The lifecycle is not in this code's hands: an operator changes the status.
SetStatus(s) ==
    /\ holder = NoTask /\ s # strategy.status /\ strategy.status # "deleted"
    /\ strategy' = [strategy EXCEPT !.status = s]
    /\ UNCHANGED <<users, holder, history, task, made>>

(* -------------------------- a finished run ------------------------------ *)
Committed == {n \in DOMAIN runs : runs[n].by = NoTask}
MineAt(t) == CHOOSE n \in DOMAIN runs : runs[n].by = t

\* _insert_reflection_run: created_at is the time its transaction began.
FinishRun(t, run) ==
    /\ Start(t, [at |-> "inserted"])
    /\ runs' = Append(runs, [run |-> run, by |-> t, alone |-> FALSE])
    /\ UNCHANGED <<users, strategyRow, improvements>>

\* Of the first n runs the committed ones, oldest first.
Durable[n \in 0..Len(runs)] ==
    IF n = 0 THEN <<>>
    ELSE IF runs[n].by = NoTask THEN Append(Durable[n - 1], runs[n].run) ELSE Durable[n - 1]

\* Mutant: the run is not left out of its own history.
PastWithMine(t) == Latest(Append(Durable[Len(runs)], runs[MineAt(t)].run), HistorySize)
\* _load_history without this run: the newest committed ones, oldest first.
Past(t) == Latest(Durable[Len(runs)], HistorySize)
\* The history is read and analyzed; the records wait for the commit.
AnalyzeRun(t) ==
    /\ At(t, "inserted")
    /\ Goes(t, [at |-> "analyzed", alerts |-> Analyze(Past(t), runs[MineAt(t)].run)])
    /\ runs' = [runs EXCEPT ![MineAt(t)].alone = Committed = DOMAIN runs \ {MineAt(t)}
                                              /\ MineAt(t) = Len(runs)]
    /\ UNCHANGED <<users, strategyRow, improvements>>
CommitRun(t) ==
    /\ At(t, "analyzed")
    /\ improvements' = improvements \cup
          {[of |-> MineAt(t), alert |-> a, applied |-> FALSE] : a \in task[t].alerts}
    /\ runs' = [runs EXCEPT ![MineAt(t)].by = NoTask]
    /\ Goes(t, Idle)
    /\ UNCHANGED <<users, strategyRow>>
\* A failure, or the five seconds are over: rolled back, and swallowed.
GiveUp(t) ==
    /\ task[t].at \in {"inserted", "analyzed"}
    /\ runs' = [n \in 1..(Len(runs) - 1) |-> IF n < MineAt(t) THEN runs[n] ELSE runs[n + 1]]
    /\ improvements' = {[i EXCEPT !.of = IF @ > MineAt(t) THEN @ - 1 ELSE @] : i \in improvements}
    /\ Goes(t, Idle)
    /\ UNCHANGED <<users, strategyRow>>
\* apply_record: once applied, it stays so.
Apply(i) ==
    /\ improvements' = (improvements \ {i}) \cup {[i EXCEPT !.applied = TRUE]}
    /\ ~i.applied
    /\ UNCHANGED <<users, strategyRow, runs, task, made>>

Next ==
    \/ \E t \in Tasks :
         \/ \E e \in Emails : Register(t, e)
         \/ GetByEmail(t) \/ CreateUser(t)
         \/ \E sent \in Edits : ReadStrategy(t, sent)
         \/ WriteStrategy(t) \/ CommitStrategy(t) \/ LoseStrategy(t)
         \/ \E run \in Runs : FinishRun(t, run)
         \/ AnalyzeRun(t) \/ CommitRun(t) \/ GiveUp(t)
    \/ \E s \in Statuses : SetStatus(s)
    \/ \E i \in improvements : Apply(i)
Spec == Init /\ [][Next]_vars

(* ------------------------------ properties ------------------------------ *)
\* Registration is a one-time bootstrap: once there is an account and no
\* registration is between its count and its insert, there never is another
\* one, nor such a registration.  (Two that overlap may each make an account.)
Closed == users # {} /\ \A t \in Tasks : task[t].at \notin {"counted", "absent"}
RegistrationCloses == [][Closed => Closed' /\ users' = users]_vars

\* A strategy that has left draft and paused is never changed by an edit,
\* also by one that read it before; only an operator makes it editable again.
PromotedIsFrozen ==
    [][strategy.status \notin Editable /\ strategy'.status \notin Editable =>
         strategy'.fields = strategy.fields /\ strategy'.version = strategy.version]_vars

\* Every edit makes a new version, and takes back what another one set only if
\* it read the row before that one was committed: the fields a caller leaves
\* out are otherwise as they were.
EditsCompose ==
    [][\A t \in Tasks : CommitStrategy(t) =>
         /\ strategy'.version = strategy.version + 1
         /\ strategy.version = task[t].row.version =>
              \A f \in Fields \ DOMAIN task[t].sent : strategy'.fields[f] = strategy.fields[f]]_vars

\* Trends survive restarts and other workers: a run that no other one
\* overlapped has, once committed, exactly the alerts that the whole history
\* up to it calls for, whichever process analyzed the runs before it.
TrendsSurvive ==
    \A n \in Committed : runs[n].alone =>
        {i.alert : i \in {j \in improvements : j.of = n}} =
        Alerts(Latest([k \in 1..n |-> runs[k].run], HistorySize))
=============================================================================
