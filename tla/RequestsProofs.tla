--------------------------- MODULE RequestsProofs ---------------------------
(* The requests that share rows of the database: the one account, the edits *)
(* of a strategy, the history of finished runs, the gate of POST /mode, and   *)
(* the limits of POST /auth/login.                                           *)
EXTENDS Records, Promotion, LoginLimit, FoldLemmas, SequenceTheorems, TLAPS

-----------------------------------------------------------------------------
(* Records: the one account and the edits of a strategy, for any number of  *)
(* requests, addresses and fields.  A request between its statements holds  *)
(* what it has read; the invariant says what that still means: a row read   *)
(* at the version of now has the fields of now, and an edit that has        *)
(* written holds the row's lock over a strategy that can still be edited.   *)
Rows == [fields : [Fields -> Values], version : Nat, status : Statuses]
Registering == [at : {"counted", "absent"}, email : Emails]
Editing == [at : {"read", "written"}, row : Rows, sent : Edits]
Finishing ==
    {[at |-> "inserted"]}
      \cup [at : {"analyzed"}, alerts : SUBSET {"rate", "accuracy", "errors", "repeated"}]
Sessions == {Idle} \cup Registering \cup Editing \cup Finishing

RecordsTypeOK ==
    /\ strategy \in Rows
    /\ holder \in Tasks \cup {NoTask}
    /\ task \in [Tasks -> Sessions]
\* A lock is held by an edit that has written, over an editable strategy.
LockIsHeld ==
    \A t \in Tasks : At(t, "written") => holder = t /\ strategy.status \in Editable
\* A row read at the version of now has the fields of now.
ReadIsKnown ==
    \A t \in Tasks : task[t].at \in {"read", "written"} =>
        /\ task[t].row.version <= strategy.version
        /\ task[t].row.version = strategy.version => task[t].row.fields = strategy.fields
RecordsInv == RecordsTypeOK /\ LockIsHeld /\ ReadIsKnown

\* What a session is, by the place it is at.
LEMMA SessionPlaces ==
    ASSUME NEW s \in Sessions
    PROVE  /\ s.at \in {"idle", "counted", "absent", "read", "written", "inserted", "analyzed"}
           /\ s.at = "idle" <=> s = Idle
           /\ s.at \in {"counted", "absent"} => s \in Registering
           /\ s.at \in {"read", "written"} => s \in Editing
  BY DEF Sessions, Idle, Registering, Editing, Finishing

LEMMA AlertNames ==
    ASSUME NEW past, NEW run
    PROVE  Analyze(past, run) \in SUBSET {"rate", "accuracy", "errors", "repeated"}
<1>1. \A h : Alerts(h) \subseteq {"rate", "accuracy", "errors", "repeated"}
  BY DEF Alerts
<1> QED
  BY <1>1 DEF Analyze

\* A session that goes somewhere else leaves the others where they are.
LEMMA OneGoes ==
    ASSUME RecordsTypeOK, NEW t \in Tasks, NEW state \in Sessions,
           task' = [task EXCEPT ![t] = state]
    PROVE  /\ task' \in [Tasks -> Sessions] /\ task'[t] = state
           /\ \A q \in Tasks \ {t} : task'[q] = task[q]
  BY DEF RecordsTypeOK

\* What a step does to the sessions that are neither registering nor editing.
LEMMA IdleSessions ==
    /\ Idle \in Sessions /\ Idle.at = "idle"
    /\ [at |-> "inserted"] \in Sessions
  BY DEF Sessions, Idle, Finishing

\* The invariant survives a session that goes to a place where it holds no row.
LEMMA GoesRowless ==
    ASSUME RecordsInv, NEW t \in Tasks, NEW state \in Sessions,
           task' = [task EXCEPT ![t] = state], state.at \notin {"read", "written"},
           UNCHANGED strategyRow
    PROVE  RecordsInv'
<1>1. /\ task' \in [Tasks -> Sessions] /\ task'[t] = state
      /\ \A q \in Tasks \ {t} : task'[q] = task[q]
  BY OneGoes DEF RecordsInv
<1>2. RecordsTypeOK'
  BY <1>1 DEF RecordsInv, RecordsTypeOK, strategyRow
<1>3. LockIsHeld'
  BY <1>1 DEF RecordsInv, LockIsHeld, At, strategyRow
<1>4. ReadIsKnown'
  BY <1>1 DEF RecordsInv, ReadIsKnown, strategyRow
<1> QED
  BY <1>2, <1>3, <1>4 DEF RecordsInv

LEMMA RecordsInitInv == Init => RecordsInv
<1> SUFFICES ASSUME Init PROVE RecordsInv
  OBVIOUS
<1>1. (CHOOSE v \in Values : TRUE) \in Values
  BY RecordsAssumption
<1>2. [f \in Fields |-> CHOOSE v \in Values : TRUE] \in [Fields -> Values]
  BY <1>1
<1>3. strategy \in Rows
  BY <1>2 DEF Init, Rows, Statuses, Editable
<1>4. task \in [Tasks -> Sessions] /\ \A t \in Tasks : task[t].at = "idle"
  BY IdleSessions DEF Init
<1> QED
  BY <1>3, <1>4 DEF Init, RecordsInv, RecordsTypeOK, LockIsHeld, ReadIsKnown, At

\* The steps of a registration, and of a finished run, hold no row.
LEMMA RowlessSteps ==
    ASSUME RecordsInv, NEW t \in Tasks,
           \/ \E e \in Emails : Register(t, e)
           \/ GetByEmail(t) \/ CreateUser(t)
           \/ \E run \in Runs : FinishRun(t, run)
           \/ AnalyzeRun(t) \/ CommitRun(t) \/ GiveUp(t)
    PROVE  RecordsInv' /\ UNCHANGED strategyRow
<1>1. RecordsTypeOK /\ task[t] \in Sessions
  BY DEF RecordsInv, RecordsTypeOK
<1>2. ASSUME NEW e \in Emails, Register(t, e)
      PROVE  RecordsInv' /\ UNCHANGED strategyRow
  <2>1. [at |-> "counted", email |-> e] \in Sessions
    BY DEF Sessions, Registering
  <2> DEFINE state == IF Open(e) THEN [at |-> "counted", email |-> e] ELSE Idle
  <2>2. state \in Sessions /\ state.at \notin {"read", "written"}
    BY <2>1, IdleSessions
  <2>3. task' = [task EXCEPT ![t] = state] /\ UNCHANGED strategyRow
    BY <1>2 DEF Register, Start
  <2> QED
    BY <2>2, <2>3, GoesRowless
<1>3. ASSUME GetByEmail(t)
      PROVE  RecordsInv' /\ UNCHANGED strategyRow
  <2>1. task[t] \in Registering
    BY <1>1, <1>3, SessionPlaces DEF GetByEmail, At
  <2>2. [task[t] EXCEPT !.at = "absent"] \in Sessions /\ [task[t] EXCEPT !.at = "absent"].at = "absent"
    BY <2>1 DEF Registering, Sessions
  <2>3. \/ task' = [task EXCEPT ![t] = Idle]
        \/ task' = [task EXCEPT ![t] = [task[t] EXCEPT !.at = "absent"]]
    BY <1>3 DEF GetByEmail, Goes, Moved
  <2>4. UNCHANGED strategyRow
    BY <1>3 DEF GetByEmail
  <2> QED
    BY <2>2, <2>3, <2>4, IdleSessions, GoesRowless
<1>4. ASSUME CreateUser(t) \/ CommitRun(t) \/ GiveUp(t)
      PROVE  RecordsInv' /\ UNCHANGED strategyRow
  <2>1. task' = [task EXCEPT ![t] = Idle] /\ UNCHANGED strategyRow
    BY <1>4 DEF CreateUser, CommitRun, GiveUp, Goes
  <2> QED
    BY <2>1, IdleSessions, GoesRowless
<1>5. ASSUME NEW run \in Runs, FinishRun(t, run)
      PROVE  RecordsInv' /\ UNCHANGED strategyRow
  <2>1. task' = [task EXCEPT ![t] = [at |-> "inserted"]] /\ UNCHANGED strategyRow
    BY <1>5 DEF FinishRun, Start
  <2> QED
    BY <2>1, IdleSessions, GoesRowless
<1>6. ASSUME AnalyzeRun(t)
      PROVE  RecordsInv' /\ UNCHANGED strategyRow
  <2> DEFINE alerts == Analyze(Past(t), runs[MineAt(t)].run)
  <2>1. alerts \in SUBSET {"rate", "accuracy", "errors", "repeated"}
    BY AlertNames
  <2>2. task' = [task EXCEPT ![t] = [at |-> "analyzed", alerts |-> alerts]] /\ UNCHANGED strategyRow
    BY <1>6 DEF AnalyzeRun, Goes
  <2> HIDE DEF alerts
  <2>3. [at |-> "analyzed", alerts |-> alerts] \in Sessions
    BY <2>1 DEF Sessions, Finishing
  <2> QED
    BY <2>2, <2>3, GoesRowless
<1> QED
  BY <1>2, <1>3, <1>4, <1>5, <1>6

\* The steps of an edit.
LEMMA EditSteps ==
    ASSUME RecordsInv, NEW t \in Tasks,
           \/ \E sent \in Edits : ReadStrategy(t, sent)
           \/ WriteStrategy(t) \/ CommitStrategy(t) \/ LoseStrategy(t)
    PROVE  RecordsInv'
<1>1. RecordsTypeOK /\ LockIsHeld /\ ReadIsKnown /\ task[t] \in Sessions
  BY DEF RecordsInv, RecordsTypeOK
<1>2. ASSUME NEW sent \in Edits, ReadStrategy(t, sent)
      PROVE  RecordsInv'
  <2>1. CASE strategy.status \notin Editable
    <3>1. task' = [task EXCEPT ![t] = Idle] /\ UNCHANGED strategyRow
      BY <1>2, <2>1 DEF ReadStrategy, Start
    <3> QED
      BY <3>1, IdleSessions, GoesRowless
  <2>2. CASE strategy.status \in Editable
    <3> DEFINE state == [at |-> "read", row |-> strategy, sent |-> sent]
    <3>1. task' = [task EXCEPT ![t] = state] /\ UNCHANGED strategyRow
      BY <1>2, <2>2 DEF ReadStrategy, Start
    <3>2. state \in Sessions
      BY <1>1 DEF RecordsTypeOK, Sessions, Editing
    <3>3. /\ task' \in [Tasks -> Sessions] /\ task'[t] = state
          /\ \A q \in Tasks \ {t} : task'[q] = task[q]
      BY <1>1, <3>1, <3>2, OneGoes
    <3>4. RecordsTypeOK'
      BY <1>1, <3>1, <3>3 DEF RecordsTypeOK, strategyRow
    <3>5. LockIsHeld'
      BY <1>1, <3>1, <3>3 DEF LockIsHeld, At, strategyRow
    <3>6. ReadIsKnown'
      <4>1. strategy.version \in Nat
        BY <1>1 DEF RecordsTypeOK, Rows
      <4> QED
        BY <1>1, <3>1, <3>3, <4>1 DEF ReadIsKnown, strategyRow
    <3> QED
      BY <3>4, <3>5, <3>6 DEF RecordsInv
  <2> QED
    BY <2>1, <2>2
<1>3. ASSUME WriteStrategy(t)
      PROVE  RecordsInv'
  <2>1. At(t, "read") /\ holder = NoTask /\ UNCHANGED strategy
    BY <1>3 DEF WriteStrategy
  <2>2. task[t] \in Editing
    BY <1>1, <2>1, SessionPlaces DEF At
  <2>3. CASE strategy.status \notin Editable
    <3>1. task' = [task EXCEPT ![t] = Idle] /\ UNCHANGED strategyRow
      BY <1>3, <2>3 DEF WriteStrategy, Taken, Goes, strategyRow
    <3> QED
      BY <3>1, IdleSessions, GoesRowless
  <2>4. CASE strategy.status \in Editable
    <3> DEFINE state == [task[t] EXCEPT !.at = "written"]
    <3>1. task' = [task EXCEPT ![t] = state] /\ holder' = t
      BY <1>3, <2>4 DEF WriteStrategy, Taken, Moved, Goes
    <3>2. /\ state \in Sessions /\ state.at = "written"
          /\ state.row = task[t].row /\ state.sent = task[t].sent
      BY <2>2 DEF Sessions, Editing
    <3>3. /\ task' \in [Tasks -> Sessions] /\ task'[t] = state
          /\ \A q \in Tasks \ {t} : task'[q] = task[q]
      BY <1>1, <3>1, <3>2, OneGoes
    <3>4. RecordsTypeOK'
      BY <1>1, <2>1, <3>1, <3>3 DEF RecordsTypeOK
    <3>5. \A q \in Tasks \ {t} : ~At(q, "written")
      BY <1>1, <2>1, RecordsAssumption DEF LockIsHeld
    <3>6. LockIsHeld'
      BY <2>1, <2>4, <3>1, <3>3, <3>5 DEF LockIsHeld, At
    <3>7. ReadIsKnown'
      <4>1. /\ strategy' = strategy /\ task[t].at = "read"
        BY <2>1 DEF At
      <4>2. /\ task'[t].row.version <= strategy.version
            /\ task'[t].row.version = strategy.version =>
                 task'[t].row.fields = strategy.fields
        BY <1>1, <3>2, <3>3, <4>1 DEF ReadIsKnown
      <4>3. ASSUME NEW q \in Tasks \ {t}, task'[q].at \in {"read", "written"}
            PROVE  /\ task'[q].row.version <= strategy.version
                   /\ task'[q].row.version = strategy.version =>
                        task'[q].row.fields = strategy.fields
        BY <1>1, <3>3, <4>3 DEF ReadIsKnown
      <4> QED
        BY <4>1, <4>2, <4>3 DEF ReadIsKnown
    <3> QED
      BY <3>4, <3>6, <3>7 DEF RecordsInv
  <2> QED
    BY <2>3, <2>4
<1>4. ASSUME CommitStrategy(t)
      PROVE  RecordsInv'
  <2>1. /\ At(t, "written") /\ holder' = NoTask /\ task' = [task EXCEPT ![t] = Idle]
        /\ strategy' = [strategy EXCEPT !.fields = Merged(task[t].row, task[t].sent),
                                        !.version = @ + 1]
    BY <1>4 DEF CommitStrategy, Goes
  <2>2. task[t] \in Editing
    BY <1>1, <2>1, SessionPlaces DEF At
  <2>3. Merged(task[t].row, task[t].sent) \in [Fields -> Values]
    <3>1. task[t].row.fields \in [Fields -> Values] /\ task[t].sent \in Edits
      BY <2>2 DEF Editing, Rows
    <3>2. \A f \in DOMAIN task[t].sent : task[t].sent[f] \in Values
      BY <3>1 DEF Edits
    <3> QED
      BY <3>1, <3>2 DEF Merged
  <2>4. /\ strategy' \in Rows /\ strategy'.version = strategy.version + 1
        /\ strategy'.status = strategy.status /\ strategy.version \in Nat
    <3>1. PICK merged \in [Fields -> Values] :
             strategy' = [strategy EXCEPT !.fields = merged, !.version = @ + 1]
      BY <2>1, <2>3
    <3>2. strategy.version \in Nat /\ strategy.version + 1 \in Nat
      BY <1>1 DEF RecordsTypeOK, Rows
    <3> QED
      BY <1>1, <3>1, <3>2 DEF RecordsTypeOK, Rows
  <2>5. /\ task' \in [Tasks -> Sessions] /\ task'[t] = Idle
        /\ \A q \in Tasks \ {t} : task'[q] = task[q]
    BY <1>1, <2>1, IdleSessions, OneGoes
  <2>6. RecordsTypeOK'
    BY <2>1, <2>4, <2>5 DEF RecordsTypeOK
  <2>7. \A q \in Tasks \ {t} : ~At(q, "written")
    BY <1>1, <2>1 DEF LockIsHeld
  <2>8. LockIsHeld'
    BY <2>5, <2>7, IdleSessions DEF LockIsHeld, At
  <2>9. ReadIsKnown'
    <3> SUFFICES ASSUME NEW q \in Tasks, task'[q].at \in {"read", "written"}
                 PROVE  /\ task'[q].row.version <= strategy'.version
                        /\ task'[q].row.version # strategy'.version
      BY DEF ReadIsKnown
    <3>1. q # t /\ task'[q] = task[q]
      BY <2>5, IdleSessions
    <3>2. task[q] \in Editing
      BY <1>1, <3>1, SessionPlaces DEF RecordsTypeOK
    <3>3. task[q].row.version \in Nat /\ task[q].row.version <= strategy.version
      BY <1>1, <3>1, <3>2 DEF ReadIsKnown, Editing, Rows
    <3> QED
      BY <2>4, <3>1, <3>3
  <2> QED
    BY <2>6, <2>8, <2>9 DEF RecordsInv
<1>5. ASSUME LoseStrategy(t)
      PROVE  RecordsInv'
  <2>1. /\ At(t, "written") /\ holder' = NoTask /\ task' = [task EXCEPT ![t] = Idle]
        /\ UNCHANGED strategy
    BY <1>5 DEF LoseStrategy, Goes
  <2>2. /\ task' \in [Tasks -> Sessions] /\ task'[t] = Idle
        /\ \A q \in Tasks \ {t} : task'[q] = task[q]
    BY <1>1, <2>1, IdleSessions, OneGoes
  <2>3. \A q \in Tasks \ {t} : ~At(q, "written")
    BY <1>1, <2>1 DEF LockIsHeld
  <2>4. RecordsTypeOK'
    BY <1>1, <2>1, <2>2 DEF RecordsTypeOK
  <2>5. LockIsHeld'
    BY <2>2, <2>3, IdleSessions DEF LockIsHeld, At
  <2>6. ReadIsKnown'
    BY <1>1, <2>1, <2>2, IdleSessions DEF ReadIsKnown
  <2> QED
    BY <2>4, <2>5, <2>6 DEF RecordsInv
<1> QED
  BY <1>2, <1>3, <1>4, <1>5

LEMMA RecordsNextInv ==
    ASSUME RecordsInv, [Next]_vars
    PROVE  RecordsInv'
<1>1. CASE UNCHANGED vars
  BY <1>1 DEF RecordsInv, RecordsTypeOK, LockIsHeld, ReadIsKnown, At, vars
<1>2. ASSUME NEW s \in Statuses, SetStatus(s)
      PROVE  RecordsInv'
  <2>1. /\ holder = NoTask /\ UNCHANGED <<holder, task>>
        /\ strategy' = [strategy EXCEPT !.status = s]
    BY <1>2 DEF SetStatus
  <2>2. /\ strategy' \in Rows /\ strategy'.version = strategy.version
        /\ strategy'.fields = strategy.fields
    BY <2>1 DEF RecordsInv, RecordsTypeOK, Rows
  <2>3. RecordsTypeOK'
    BY <2>1, <2>2 DEF RecordsInv, RecordsTypeOK
  <2>4. LockIsHeld'
    BY <2>1, RecordsAssumption DEF RecordsInv, LockIsHeld, At
  <2>5. ReadIsKnown'
    BY <2>1, <2>2 DEF RecordsInv, ReadIsKnown
  <2> QED
    BY <2>3, <2>4, <2>5 DEF RecordsInv
<1>3. ASSUME NEW i \in improvements, Apply(i)
      PROVE  RecordsInv'
  BY <1>3 DEF Apply, RecordsInv, RecordsTypeOK, LockIsHeld, ReadIsKnown, At, strategyRow
<1> QED
  BY <1>1, <1>2, <1>3, RowlessSteps, EditSteps DEF Next

\* The inductive invariant of the requests: who holds the strategy's lock, and
\* what a row that was read still means.
THEOREM RecordsInvariant == Spec => []RecordsInv
  BY RecordsInitInv, RecordsNextInv, PTL DEF Spec

\* Whatever a session does, an account is made only by one that found no
\* account of that address after it had found none at all.
LEMMA ClosedStays ==
    ASSUME RecordsInv, [Next]_vars, Closed
    PROVE  Closed' /\ users' = users
<1>1. /\ RecordsTypeOK /\ users # {}
      /\ \A t \in Tasks : ~At(t, "counted") /\ ~At(t, "absent")
  BY DEF RecordsInv, Closed, At
<1>2. ASSUME NEW t \in Tasks, NEW state \in Sessions, state.at \notin {"counted", "absent"},
             task' = [task EXCEPT ![t] = state], UNCHANGED users
      PROVE  Closed' /\ users' = users
  <2>1. /\ task'[t] = state /\ \A q \in Tasks \ {t} : task'[q] = task[q]
    BY <1>1, <1>2, OneGoes
  <2> QED
    BY <1>1, <1>2, <2>1 DEF Closed, At
<1>3. ASSUME UNCHANGED <<users, task>>
      PROVE  Closed' /\ users' = users
  BY <1>3 DEF Closed
<1>4. ASSUME NEW t \in Tasks,
             \/ \E e \in Emails : Register(t, e)
             \/ CommitRun(t) \/ GiveUp(t) \/ CommitStrategy(t) \/ LoseStrategy(t)
      PROVE  Closed' /\ users' = users
  <2>1. task' = [task EXCEPT ![t] = Idle] /\ UNCHANGED users
    BY <1>1, <1>4 DEF Register, Open, Start, CommitRun, GiveUp, CommitStrategy, LoseStrategy, Goes
  <2> QED
    BY <1>2, <2>1, IdleSessions
<1>5. ASSUME NEW t \in Tasks,
             (\E run \in Runs : FinishRun(t, run)) \/ AnalyzeRun(t)
      PROVE  Closed' /\ users' = users
  <2>1. PICK state : task' = [task EXCEPT ![t] = state] /\ state.at \in {"inserted", "analyzed"}
    <3> DEFINE analyzed == [at |-> "analyzed", alerts |-> Analyze(Past(t), runs[MineAt(t)].run)]
               inserted == [at |-> "inserted"]
    <3>1. task' = [task EXCEPT ![t] = inserted] \/ task' = [task EXCEPT ![t] = analyzed]
      BY <1>5 DEF FinishRun, Start, AnalyzeRun, Goes
    <3>2. inserted.at = "inserted" /\ analyzed.at = "analyzed"
      OBVIOUS
    <3> HIDE DEF inserted, analyzed
    <3> QED
      BY <3>1, <3>2
  <2>2. UNCHANGED users
    BY <1>5 DEF FinishRun, AnalyzeRun
  <2> QED
    BY <1>1, <2>1, <2>2 DEF Closed, At, RecordsTypeOK
<1>6. ASSUME NEW t \in Tasks, NEW sent \in Edits, ReadStrategy(t, sent)
      PROVE  Closed' /\ users' = users
  <2>1. PICK state : task' = [task EXCEPT ![t] = state] /\ state.at \in {"idle", "read"}
    <3> DEFINE read == [at |-> "read", row |-> strategy, sent |-> sent]
    <3>1. task' = [task EXCEPT ![t] = Idle] \/ task' = [task EXCEPT ![t] = read]
      BY <1>6 DEF ReadStrategy, Start
    <3>2. read.at = "read"
      OBVIOUS
    <3> HIDE DEF read
    <3> QED
      BY <3>1, <3>2, IdleSessions
  <2>2. UNCHANGED users
    BY <1>6 DEF ReadStrategy
  <2> QED
    BY <1>1, <2>1, <2>2 DEF Closed, At, RecordsTypeOK
<1>7. ASSUME NEW t \in Tasks, WriteStrategy(t)
      PROVE  Closed' /\ users' = users
  <2>1. task[t] \in Editing
    BY <1>1, <1>7, SessionPlaces DEF RecordsTypeOK, WriteStrategy, At
  <2>2. [task[t] EXCEPT !.at = "written"].at = "written"
    BY <2>1 DEF Editing
  <2>3. PICK state : task' = [task EXCEPT ![t] = state] /\ state.at \in {"idle", "written"}
    BY <1>7, <2>2, IdleSessions DEF WriteStrategy, Taken, Moved, Goes
  <2>4. UNCHANGED users
    BY <1>7 DEF WriteStrategy
  <2> QED
    BY <1>1, <2>3, <2>4 DEF Closed, At, RecordsTypeOK
<1>8. ASSUME NEW t \in Tasks
      PROVE  ~GetByEmail(t) /\ ~CreateUser(t)
  BY <1>1 DEF GetByEmail, CreateUser
<1>9. ASSUME NEW s \in Statuses, SetStatus(s)
      PROVE  UNCHANGED <<users, task>>
  BY <1>9 DEF SetStatus
<1>10. ASSUME NEW i \in improvements, Apply(i)
       PROVE  UNCHANGED <<users, task>>
  BY <1>10 DEF Apply
<1>11. UNCHANGED vars => UNCHANGED <<users, task>>
  BY DEF vars
<1> QED
  BY <1>3, <1>4, <1>5, <1>6, <1>7, <1>8, <1>9, <1>10, <1>11 DEF Next

\* Registration is a one-time bootstrap, for any number of requests and
\* addresses: once there is an account and no registration is under way, no
\* step ever makes another account.
THEOREM RegistrationStaysClosed == Spec => RegistrationCloses
<1>1. RecordsInv /\ [Next]_vars => [Closed => Closed' /\ users' = users]_vars
  BY ClosedStays
<1> QED
  BY <1>1, RecordsInvariant, PTL DEF Spec, RegistrationCloses

\* An edit changes the row only under the lock, and so only while the status
\* allows it: nobody changes what a strategy does while it is not editable.
THEOREM PromotedStaysFrozen == Spec => PromotedIsFrozen
<1>1. ASSUME RecordsInv, [Next]_vars, strategy.status \notin Editable, strategy'.status \notin Editable
      PROVE  strategy'.fields = strategy.fields /\ strategy'.version = strategy.version
  <2>1. strategy \in Rows /\ \A t \in Tasks : ~CommitStrategy(t)
    BY <1>1 DEF RecordsInv, RecordsTypeOK, LockIsHeld, CommitStrategy
  <2>2. CASE UNCHANGED strategy
    BY <2>2
  <2>3. CASE \E s \in Statuses : SetStatus(s)
    BY <2>1, <2>3 DEF SetStatus, Rows
  <2>4. CASE UNCHANGED vars
    BY <2>4 DEF vars
  <2>5. ASSUME NEW t \in Tasks, \/ \E sent \in Edits : ReadStrategy(t, sent)
                               \/ WriteStrategy(t) \/ LoseStrategy(t)
        PROVE  UNCHANGED strategy
    BY <2>5 DEF ReadStrategy, WriteStrategy, LoseStrategy, strategyRow
  <2>6. ASSUME NEW i \in improvements, Apply(i)
        PROVE  UNCHANGED strategy
    BY <2>6 DEF Apply, strategyRow
  <2> QED
    BY <1>1, <2>1, <2>2, <2>3, <2>4, <2>5, <2>6, RowlessSteps DEF Next, strategyRow
<1>2. RecordsInv /\ [Next]_vars =>
        [strategy.status \notin Editable /\ strategy'.status \notin Editable =>
           strategy'.fields = strategy.fields /\ strategy'.version = strategy.version]_vars
  BY <1>1
<1> QED
  BY <1>2, RecordsInvariant, PTL DEF Spec, PromotedIsFrozen

\* Each edit makes a new version, and sets a field its caller left out only
\* over an edit that was committed after it had read the row.
THEOREM EditsAlwaysCompose == Spec => EditsCompose
<1>1. ASSUME RecordsInv, NEW t \in Tasks, CommitStrategy(t)
      PROVE  /\ strategy'.version = strategy.version + 1
             /\ strategy.version = task[t].row.version =>
                  \A f \in Fields \ DOMAIN task[t].sent : strategy'.fields[f] = strategy.fields[f]
  <2> DEFINE merged == Merged(task[t].row, task[t].sent)
  <2>1. /\ strategy \in Rows /\ At(t, "written")
        /\ strategy' = [strategy EXCEPT !.fields = merged, !.version = @ + 1]
    BY <1>1 DEF RecordsInv, RecordsTypeOK, CommitStrategy
  <2>2. \A f \in Fields \ DOMAIN task[t].sent : merged[f] = task[t].row.fields[f]
    BY DEF Merged
  <2> HIDE DEF merged
  <2>3. strategy'.version = strategy.version + 1 /\ strategy'.fields = merged
    BY <2>1 DEF Rows
  <2>4. strategy.version = task[t].row.version => task[t].row.fields = strategy.fields
    BY <1>1, <2>1 DEF RecordsInv, ReadIsKnown, At
  <2> QED
    BY <2>2, <2>3, <2>4
<1>2. RecordsInv /\ [Next]_vars =>
        [\A t \in Tasks : CommitStrategy(t) =>
           /\ strategy'.version = strategy.version + 1
           /\ strategy.version = task[t].row.version =>
                \A f \in Fields \ DOMAIN task[t].sent : strategy'.fields[f] = strategy.fields[f]]_vars
  BY <1>1
<1> QED
  BY <1>2, RecordsInvariant, PTL DEF Spec, EditsCompose

-----------------------------------------------------------------------------
(* Records: the history of the finished runs.  A run that is analyzed when  *)
(* every other one is committed is last, and stays behind them: what it was *)
(* analyzed against is what is before it for good.                          *)

\* What the newest runs of a history are when the history was cut before.
LEMMA LatestOfAppend ==
    ASSUME NEW S, NEW h \in Seq(S), NEW x \in S
    PROVE  Latest(Append(Latest(h, HistorySize), x), HistorySize) = Latest(Append(h, x), HistorySize)
<1> DEFINE H == HistorySize  n == Len(h)
<1>1. H \in Nat \ {0} /\ n \in Nat
  BY TrendAssumption
<1>2. CASE n < H
  BY <1>1, <1>2 DEF Latest
<1>3. CASE n >= H
  <2>1. /\ Append(h, x) \in Seq(S) /\ Len(Append(h, x)) = n + 1
        /\ \A k \in 1..n : Append(h, x)[k] = h[k]
        /\ Append(h, x)[n + 1] = x
    OBVIOUS
  <2>2. Latest(Append(h, x), H) = SubSeq(Append(h, x), n + 2 - H, n + 1)
    BY <1>1, <1>3, <2>1 DEF Latest
  <2> DEFINE old == Latest(h, H)
  <2>3. /\ old \in Seq(S) /\ Len(old) = H
        /\ \A k \in 1..H : old[k] = h[n - H + k]
    <3>1. CASE n = H
      BY <1>1, <3>1 DEF Latest
    <3>2. CASE n > H
      <4>1. old = SubSeq(h, n - H + 1, n)
        BY <1>1, <3>2 DEF Latest
      <4> QED
        BY <1>1, <3>2, <4>1
    <3> QED
      BY <1>1, <1>3, <3>1, <3>2
  <2> HIDE DEF old
  <2>4. /\ Append(old, x) \in Seq(S) /\ Len(Append(old, x)) = H + 1
        /\ \A k \in 1..H : Append(old, x)[k] = old[k]
        /\ Append(old, x)[H + 1] = x
    BY <2>3
  <2>5. Latest(Append(old, x), H) = SubSeq(Append(old, x), 2, H + 1)
    BY <1>1, <2>4 DEF Latest
  <2> DEFINE a == SubSeq(Append(old, x), 2, H + 1)
             b == SubSeq(Append(h, x), n + 2 - H, n + 1)
  <2>6. /\ a \in Seq(S) /\ Len(a) = H
        /\ \A k \in 1..H : a[k] = Append(old, x)[k + 1]
    BY <1>1, <2>4
  <2>7. /\ b \in Seq(S) /\ Len(b) = H
        /\ \A k \in 1..H : b[k] = Append(h, x)[n + 1 - H + k]
    BY <1>1, <1>3, <2>1
  <2>8. \A k \in 1..H : a[k] = b[k]
    <3> SUFFICES ASSUME NEW k \in 1..H PROVE a[k] = b[k]
      OBVIOUS
    <3> HIDE DEF a, b
    <3>1. CASE k = H
      BY <1>1, <1>3, <3>1, <2>1, <2>4, <2>6, <2>7
    <3>2. CASE k < H
      <4>1. k + 1 \in 1..H /\ n + 1 - H + k \in 1..n
        BY <1>1, <1>3, <3>2
      <4>2. a[k] = h[n - H + (k + 1)]
        BY <2>3, <2>4, <2>6, <4>1
      <4>3. b[k] = h[n + 1 - H + k]
        BY <2>1, <2>7, <4>1
      <4> QED
        BY <1>1, <4>2, <4>3
    <3> QED
      BY <1>1, <3>1, <3>2
  <2> HIDE DEF a, b
  <2>9. a = b
    BY <2>6, <2>7, <2>8, SeqEqual
  <2> QED
    BY <2>2, <2>5, <2>9 DEF a, b, old
<1> QED
  BY <1>1, <1>2, <1>3

\* What a run of the history is, and what the runs up to the n-th call for.
RunRows == [run : Runs, by : Tasks \cup {NoTask}, alone : BOOLEAN]
Prefix(n) == [k \in 1..n |-> runs[k].run]
CalledFor(n) == Alerts(Latest(Prefix(n), HistorySize))
RunAt(t) == task[t].at \in {"inserted", "analyzed"}
RecordsOf(n) == {i.alert : i \in {j \in improvements : j.of = n}}

HistoryTypeOK ==
    /\ runs \in Seq(RunRows)
    /\ \A i \in improvements :
         i \in [of : Committed, alert : {"rate", "accuracy", "errors", "repeated"}, applied : BOOLEAN]
\* A session has a row of its own from its insert to its commit, and only one.
RowsAreOwned ==
    /\ \A t \in Tasks : RunAt(t) <=> \E n \in DOMAIN runs : runs[n].by = t
    /\ \A m, n \in DOMAIN runs : runs[m].by = runs[n].by /\ runs[m].by # NoTask => m = n
\* Whatever came before a run that was analyzed alone is committed, for good,
\* and until its commit its session holds what that history calls for.
AloneIsAnalyzed ==
    \A n \in DOMAIN runs : runs[n].alone =>
        /\ \A k \in 1..(n - 1) : runs[k].by = NoTask
        /\ runs[n].by # NoTask => /\ task[runs[n].by].at = "analyzed"
                                  /\ task[runs[n].by].alerts = CalledFor(n)
HistoryInv == HistoryTypeOK /\ RowsAreOwned /\ AloneIsAnalyzed /\ TrendsSurvive

\* The rows of the history.
LEMMA RowOfRuns ==
    ASSUME runs \in Seq(RunRows)
    PROVE  /\ Len(runs) \in Nat /\ DOMAIN runs = 1..Len(runs)
           /\ \A n \in DOMAIN runs : /\ runs[n] \in RunRows /\ runs[n].run \in Runs
                                     /\ runs[n].by \in Tasks \cup {NoTask}
                                     /\ runs[n].alone \in BOOLEAN
<1>1. DOMAIN runs = 1..Len(runs) /\ \A n \in DOMAIN runs : runs[n] \in RunRows
  OBVIOUS
<1> QED
  BY <1>1 DEF RunRows

LEMMA HistoryInit == Init => HistoryInv
<1> SUFFICES ASSUME Init PROVE HistoryInv
  OBVIOUS
<1>1. PICK h \in Histories :
         runs = [n \in DOMAIN h |-> [run |-> h[n], by |-> NoTask, alone |-> FALSE]]
  BY DEF Init
<1>2. h \in Seq(Runs)
  BY <1>1, RecordsAssumption
<1>3. /\ DOMAIN runs = 1..Len(h) /\ Len(h) \in Nat
      /\ \A n \in DOMAIN runs : /\ runs[n] \in RunRows
                                /\ runs[n].by = NoTask /\ ~runs[n].alone
  BY <1>1, <1>2, RecordsAssumption DEF RunRows
<1>4. runs \in [1..Len(h) -> RunRows]
  BY <1>1, <1>2, <1>3
<1>5. runs \in Seq(RunRows)
  BY <1>3, <1>4
<1>6. improvements = {} /\ \A t \in Tasks : task[t].at = "idle"
  BY DEF Init, Idle
<1>7. RowsAreOwned
  BY <1>3, <1>6, RecordsAssumption DEF RowsAreOwned, RunAt
<1> QED
  BY <1>3, <1>5, <1>6, <1>7 DEF HistoryInv, HistoryTypeOK, AloneIsAnalyzed, TrendsSurvive, Committed

\* A session that is not finishing a run, and does not begin to, leaves the
\* history as it is.
LEMMA OtherSessions ==
    ASSUME HistoryInv, UNCHANGED history,
           \A t \in Tasks : task'[t] = task[t] \/ (~RunAt(t) /\ ~RunAt(t)')
    PROVE  HistoryInv'
<1>1. runs' = runs /\ improvements' = improvements
  BY DEF history
<1>2. /\ Committed' = Committed /\ TrendsSurvive'
      /\ \A n : CalledFor(n)' = CalledFor(n)
  BY <1>1 DEF Committed, TrendsSurvive, HistoryInv, CalledFor, Prefix
<1>3. HistoryTypeOK'
  BY <1>1, <1>2 DEF HistoryInv, HistoryTypeOK
<1>4. RowsAreOwned'
  BY <1>1 DEF HistoryInv, RowsAreOwned, RunAt
<1>5. AloneIsAnalyzed'
  <2> SUFFICES ASSUME NEW n \in DOMAIN runs, runs[n].alone
               PROVE  /\ \A k \in 1..(n - 1) : runs[k].by = NoTask
                      /\ runs[n].by # NoTask => /\ task'[runs[n].by].at = "analyzed"
                                                /\ task'[runs[n].by].alerts = CalledFor(n)
    BY <1>1, <1>2 DEF AloneIsAnalyzed
  <2>1. /\ \A k \in 1..(n - 1) : runs[k].by = NoTask
        /\ runs[n].by # NoTask => /\ task[runs[n].by].at = "analyzed"
                                  /\ task[runs[n].by].alerts = CalledFor(n)
    BY DEF HistoryInv, AloneIsAnalyzed
  <2>2. runs[n].by \in Tasks \cup {NoTask}
    BY RowOfRuns DEF HistoryInv, HistoryTypeOK
  <2>3. runs[n].by # NoTask => task'[runs[n].by] = task[runs[n].by]
    BY <2>1, <2>2 DEF RunAt
  <2> QED
    BY <2>1, <2>3
<1> QED
  BY <1>2, <1>3, <1>4, <1>5 DEF HistoryInv

\* The row a session is finishing.
LEMMA MyRow ==
    ASSUME HistoryInv, NEW t \in Tasks, RunAt(t)
    PROVE  /\ MineAt(t) \in DOMAIN runs /\ MineAt(t) \in 1..Len(runs) /\ runs[MineAt(t)].by = t
           /\ \A n \in DOMAIN runs : runs[n].by = t => n = MineAt(t)
<1>1. \E n \in DOMAIN runs : runs[n].by = t
  BY DEF HistoryInv, RowsAreOwned
<1>2. MineAt(t) \in DOMAIN runs /\ runs[MineAt(t)].by = t
  BY <1>1 DEF MineAt
<1>3. t # NoTask
  BY RecordsAssumption
<1>4. DOMAIN runs = 1..Len(runs)
  BY DEF HistoryInv, HistoryTypeOK
<1>5. \A n \in DOMAIN runs : runs[n].by = t => n = MineAt(t)
  BY <1>2, <1>3 DEF HistoryInv, RowsAreOwned
<1> QED
  BY <1>2, <1>4, <1>5

\* The committed runs, when all but the last of them are.
LEMMA PastOfLast ==
    ASSUME runs \in Seq(RunRows), Len(runs) # 0, \A k \in 1..(Len(runs) - 1) : runs[k].by = NoTask,
           runs[Len(runs)].by # NoTask
    PROVE  Durable[Len(runs)] = Prefix(Len(runs) - 1)
<1> DEFINE L == Len(runs)
           Step(f, n) == IF n = 0 THEN <<>>
                         ELSE IF runs[n].by = NoTask THEN Append(f[n - 1], runs[n].run) ELSE f[n - 1]
           Grown(f) == f = [n \in 0..L |-> Step(f, n)]
           g == [n \in 0..L |-> IF n = L THEN Prefix(n - 1) ELSE Prefix(n)]
<1>1. L \in Nat \ {0}
  OBVIOUS
<1>2. \A n \in 0..L : Prefix(n) \in Seq(Runs) /\ Len(Prefix(n)) = n
  <2>1. \A k \in 1..L : runs[k].run \in Runs
    BY RowOfRuns
  <2> QED
    BY <2>1 DEF Prefix
<1>3. Prefix(0) = <<>>
  BY <1>2
<1>4. \A n \in 1..L : Append(Prefix(n - 1), runs[n].run) = Prefix(n)
  <2> SUFFICES ASSUME NEW n \in 1..L
               PROVE  Append(Prefix(n - 1), runs[n].run) = Prefix(n)
    OBVIOUS
  <2> DEFINE a == Append(Prefix(n - 1), runs[n].run)
  <2>1. n - 1 \in 0..L /\ n \in 0..L /\ runs[n].run \in Runs
    BY <1>1, RowOfRuns
  <2>2. Prefix(n - 1) \in Seq(Runs) /\ Len(Prefix(n - 1)) = n - 1
    BY <1>2, <2>1
  <2>3. /\ a \in Seq(Runs) /\ Len(a) = n
        /\ \A k \in 1..n : a[k] = runs[k].run
    <3>1. /\ a \in Seq(Runs) /\ Len(a) = n /\ a[n] = runs[n].run
          /\ \A k \in 1..(n - 1) : a[k] = Prefix(n - 1)[k]
      BY <2>1, <2>2
    <3>2. \A k \in 1..(n - 1) : Prefix(n - 1)[k] = runs[k].run
      BY DEF Prefix
    <3> QED
      BY <3>1, <3>2
  <2> HIDE DEF a
  <2>4. \A k \in 1..n : Prefix(n)[k] = runs[k].run
    BY DEF Prefix
  <2>5. Prefix(n) \in Seq(Runs) /\ Len(Prefix(n)) = n
    BY <1>2, <2>1
  <2>6. a = Prefix(n)
    BY <2>3, <2>4, <2>5, SeqEqual
  <2> QED
    BY <2>6 DEF a
<1>5. Grown(g)
  <2> SUFFICES \A n \in 0..L : g[n] = Step(g, n)
    OBVIOUS
  <2> SUFFICES ASSUME NEW n \in 0..L PROVE g[n] = Step(g, n)
    OBVIOUS
  <2>1. CASE n = 0
    BY <1>1, <1>3, <2>1
  <2>2. CASE n \in 1..(L - 1)
    <3>1. g[n] = Prefix(n) /\ g[n - 1] = Prefix(n - 1) /\ runs[n].by = NoTask
      BY <1>1, <2>2
    <3>2. Append(Prefix(n - 1), runs[n].run) = Prefix(n)
      BY <1>4, <2>2
    <3>3. n # 0
      BY <2>2
    <3> HIDE DEF g
    <3> QED
      BY <3>1, <3>2, <3>3
  <2>3. CASE n = L
    BY <1>1, <2>3
  <2> QED
    BY <1>1, <2>1, <2>2, <2>3
<1>6. Durable = CHOOSE f : Grown(f)
  BY DEF Durable
<1>7. Grown(Durable)
  <2> HIDE DEF Grown
  <2> QED
    BY <1>5, <1>6
<1>8. \A n \in 0..L : Durable[n] = Step(Durable, n)
  BY <1>7
<1> DEFINE T == {n \in Nat : n < L => Durable[n] = Prefix(n)}
<1>9. 0 \in T
  BY <1>1, <1>3, <1>8
<1>10. ASSUME NEW n \in Nat, n \in T PROVE n + 1 \in T
  <2> SUFFICES ASSUME n + 1 < L PROVE Durable[n + 1] = Prefix(n + 1)
    OBVIOUS
  <2>1. n + 1 \in 0..L /\ n + 1 \in 1..(L - 1) /\ n + 1 # 0 /\ n + 1 - 1 = n /\ n + 1 \in 1..L
    BY <1>1
  <2>2. Durable[n + 1] = Append(Durable[n], runs[n + 1].run)
    <3>1. runs[n + 1].by = NoTask
      BY <2>1
    <3>2. Durable[n + 1] = Step(Durable, n + 1)
      BY <1>8, <2>1
    <3> HIDE DEF L
    <3>3. Step(Durable, n + 1) = Append(Durable[n + 1 - 1], runs[n + 1].run)
      BY <2>1, <3>1
    <3> QED
      BY <2>1, <3>2, <3>3
  <2>3. Durable[n] = Prefix(n)
    BY <1>10, <1>1
  <2>4. Append(Prefix(n + 1 - 1), runs[n + 1].run) = Prefix(n + 1)
    BY <1>4, <2>1
  <2> QED
    BY <2>1, <2>2, <2>3, <2>4
<1> HIDE DEF T
<1>11. \A n \in Nat : n \in T
  BY <1>9, <1>10, Induction
<1>12. Durable[L - 1] = Prefix(L - 1)
  BY <1>1, <1>11 DEF T
<1>13. L \in 0..L /\ L # 0
  BY <1>1
<1>14. Durable[L] = Durable[L - 1]
  BY <1>8, <1>13
<1> QED
  BY <1>12, <1>14

\* A step that only adds runs, or only changes what is not read, keeps what the
\* runs before call for.
LEMMA SamePrefix ==
    ASSUME NEW n \in Nat, \A k \in 1..n : runs'[k].run = runs[k].run
    PROVE  CalledFor(n)' = CalledFor(n)
<1>1. Prefix(n)' = Prefix(n)
  BY DEF Prefix
<1> QED
  BY <1>1 DEF CalledFor

\* A run that is inserted is the last one, and not analyzed yet.
LEMMA FinishRunHistory ==
    ASSUME HistoryInv, task \in [Tasks -> Sessions],
           NEW t \in Tasks, NEW run \in Runs, FinishRun(t, run)
    PROVE  HistoryInv'
<1> DEFINE row == [run |-> run, by |-> t, alone |-> FALSE]
           L == Len(runs)
<1>1. /\ task[t].at = "idle" /\ task' = [task EXCEPT ![t] = [at |-> "inserted"]]
      /\ runs' = Append(runs, row) /\ improvements' = improvements
  BY DEF FinishRun, Start, Idle
<1>2. row \in RunRows /\ row.by = t /\ ~row.alone
  BY DEF RunRows
<1>3. runs \in Seq(RunRows) /\ L \in Nat /\ DOMAIN runs = 1..L
  BY RowOfRuns DEF HistoryInv, HistoryTypeOK
<1> HIDE DEF row
<1>4. /\ runs' \in Seq(RunRows) /\ Len(runs') = L + 1 /\ DOMAIN runs' = 1..(L + 1)
      /\ runs'[L + 1] = row /\ \A n \in 1..L : runs'[n] = runs[n]
  BY <1>1, <1>2, <1>3
<1>5. /\ task'[t].at = "inserted" /\ ~RunAt(t) /\ RunAt(t)'
      /\ \A q \in Tasks \ {t} : task'[q] = task[q] /\ (RunAt(q)' <=> RunAt(q))
  BY <1>1 DEF RunAt
<1>6. \A n \in 1..L : runs[n].by # t
  BY <1>3, <1>5 DEF HistoryInv, RowsAreOwned
<1>7. t # NoTask
  BY RecordsAssumption
<1>8. Committed' = Committed
  BY <1>2, <1>3, <1>4, <1>7 DEF Committed
<1>9. HistoryTypeOK'
  BY <1>1, <1>4, <1>8 DEF HistoryInv, HistoryTypeOK
<1>10. RowsAreOwned'
  <2>1. ASSUME NEW q \in Tasks
        PROVE  RunAt(q)' <=> \E n \in DOMAIN runs' : runs'[n].by = q
    <3>1. CASE q = t
      BY <1>2, <1>3, <1>4, <1>5, <3>1
    <3>2. CASE q # t
      <4>1. RunAt(q)' <=> \E n \in 1..L : runs[n].by = q
        BY <1>3, <1>5, <3>2 DEF HistoryInv, RowsAreOwned
      <4>2. \A n \in 1..(L + 1) : n \in 1..L \/ n = L + 1
        BY <1>3
      <4>3. \A n \in 1..L : n \in 1..(L + 1)
        BY <1>3
      <4> QED
        BY <1>2, <1>4, <3>2, <4>1, <4>2, <4>3
    <3> QED
      BY <3>1, <3>2
  <2>2. ASSUME NEW m \in 1..(L + 1), NEW n \in 1..(L + 1),
               runs'[m].by = runs'[n].by, runs'[m].by # NoTask
        PROVE  m = n
    <3>1. (m \in 1..L \/ m = L + 1) /\ (n \in 1..L \/ n = L + 1)
      BY <1>3
    <3>2. CASE m \in 1..L /\ n \in 1..L
      BY <1>3, <1>4, <2>2, <3>2 DEF HistoryInv, RowsAreOwned
    <3>3. CASE (m \in 1..L /\ n = L + 1) \/ (n \in 1..L /\ m = L + 1)
      BY <1>2, <1>4, <1>6, <2>2, <3>3
    <3> QED
      BY <3>1, <3>2, <3>3
  <2> QED
    BY <1>4, <2>1, <2>2 DEF RowsAreOwned
<1>11. \A n \in 1..L : CalledFor(n)' = CalledFor(n)
  <2> SUFFICES ASSUME NEW n \in 1..L PROVE CalledFor(n)' = CalledFor(n)
    OBVIOUS
  <2>1. n \in Nat /\ \A k \in 1..n : runs'[k].run = runs[k].run
    BY <1>3, <1>4
  <2> QED
    BY <2>1, SamePrefix
<1>12. AloneIsAnalyzed'
  <2> SUFFICES ASSUME NEW n \in 1..(L + 1), runs'[n].alone
               PROVE  /\ \A k \in 1..(n - 1) : runs'[k].by = NoTask
                      /\ runs'[n].by # NoTask => /\ task'[runs'[n].by].at = "analyzed"
                                                 /\ task'[runs'[n].by].alerts = CalledFor(n)'
    BY <1>4 DEF AloneIsAnalyzed
  <2>1. n \in 1..L
    BY <1>2, <1>3, <1>4
  <2>2. /\ \A k \in 1..(n - 1) : runs[k].by = NoTask
        /\ runs[n].by # NoTask => /\ task[runs[n].by].at = "analyzed"
                                  /\ task[runs[n].by].alerts = CalledFor(n)
    BY <1>3, <1>4, <2>1 DEF HistoryInv, AloneIsAnalyzed
  <2>3. \A k \in 1..(n - 1) : runs'[k].by = NoTask
    BY <1>3, <1>4, <2>1, <2>2
  <2>4. runs[n].by # NoTask => task'[runs[n].by] = task[runs[n].by]
    <3>1. runs[n].by \in Tasks \cup {NoTask}
      BY <1>3, <2>1, RowOfRuns
    <3> QED
      BY <1>5, <1>6, <2>1, <3>1
  <2> QED
    BY <1>4, <1>11, <2>1, <2>2, <2>3, <2>4
<1>13. TrendsSurvive'
  <2>1. \A n \in Committed' : n \in Committed /\ n \in 1..L /\ runs'[n] = runs[n]
    BY <1>3, <1>4, <1>8 DEF Committed
  <2>2. \A n \in Committed' : CalledFor(n)' = CalledFor(n)
    BY <1>11, <2>1
  <2> QED
    BY <1>1, <2>1, <2>2 DEF HistoryInv, TrendsSurvive, CalledFor, Prefix
<1> QED
  BY <1>9, <1>10, <1>12, <1>13 DEF HistoryInv

\* A session that ends one way or the other is not finishing a run any more.
LEMMA Ends ==
    ASSUME task \in [Tasks -> Sessions], NEW t \in Tasks, NEW state,
           task' = [task EXCEPT ![t] = state]
    PROVE  /\ task'[t] = state
           /\ \A q \in Tasks \ {t} : task'[q] = task[q] /\ (RunAt(q)' <=> RunAt(q))
  BY DEF RunAt

LEMMA AnalyzeRunHistory ==
    ASSUME HistoryInv, task \in [Tasks -> Sessions], NEW t \in Tasks, AnalyzeRun(t)
    PROVE  HistoryInv'
<1> DEFINE m == MineAt(t)
           L == Len(runs)
           isAlone == Committed = DOMAIN runs \ {m} /\ m = L
           alerts == Analyze(Past(t), runs[m].run)
           row == [runs[m] EXCEPT !.alone = isAlone]
<1>1. /\ task[t].at = "inserted" /\ task' = [task EXCEPT ![t] = [at |-> "analyzed", alerts |-> alerts]]
      /\ runs' = [runs EXCEPT ![m] = row] /\ improvements' = improvements
  BY DEF AnalyzeRun, At, Goes
<1>2. /\ RunAt(t) /\ m \in 1..L /\ runs[m].by = t
      /\ \A n \in DOMAIN runs : runs[n].by = t => n = m
  BY <1>1, MyRow DEF RunAt
<1>3. runs \in Seq(RunRows) /\ L \in Nat /\ DOMAIN runs = 1..L /\ runs[m] \in RunRows
  BY <1>2, RowOfRuns DEF HistoryInv, HistoryTypeOK
<1>4. /\ row \in RunRows /\ row.by = t /\ row.run = runs[m].run /\ row.alone = isAlone
  <2> HIDE DEF isAlone, m
  <2>1. isAlone \in BOOLEAN
    BY DEF isAlone
  <2> QED
    BY <1>2, <1>3, <2>1 DEF RunRows
<1> HIDE DEF row, m, alerts
<1>5. /\ runs' \in Seq(RunRows) /\ Len(runs') = L /\ DOMAIN runs' = 1..L
      /\ runs'[m] = row /\ \A n \in 1..L : n # m => runs'[n] = runs[n]
  <2>1. row \in RunRows /\ m \in 1..Len(runs)
    BY <1>2, <1>4
  <2>2. /\ [runs EXCEPT ![m] = row] \in Seq(RunRows) /\ Len([runs EXCEPT ![m] = row]) = L
        /\ \A j \in 1..L : [runs EXCEPT ![m] = row][j] = IF j = m THEN row ELSE runs[j]
    BY <1>3, <2>1, ExceptSeq
  <2>3. DOMAIN [runs EXCEPT ![m] = row] = 1..L
    BY <1>3
  <2> QED
    BY <1>1, <1>2, <2>2, <2>3
<1>6. \A n \in 1..L : runs'[n].run = runs[n].run /\ runs'[n].by = runs[n].by
  BY <1>2, <1>4, <1>5
<1>7. /\ task'[t].at = "analyzed" /\ task'[t].alerts = alerts /\ RunAt(t)'
      /\ \A q \in Tasks \ {t} : task'[q] = task[q] /\ (RunAt(q)' <=> RunAt(q))
  BY <1>1, Ends DEF RunAt
<1>8. t # NoTask
  BY RecordsAssumption
<1>9. Committed' = Committed
  BY <1>3, <1>5, <1>6 DEF Committed
<1>10. HistoryTypeOK'
  BY <1>1, <1>5, <1>9 DEF HistoryInv, HistoryTypeOK
<1>11. RowsAreOwned'
  <2>1. \A q \in Tasks : RunAt(q)' <=> RunAt(q)
    BY <1>2, <1>7
  <2>2. RowsAreOwned
    BY DEF HistoryInv
  <2> QED
    BY <1>3, <1>5, <1>6, <2>1, <2>2 DEF RowsAreOwned
<1>12. \A n \in 1..L : CalledFor(n)' = CalledFor(n)
  <2> SUFFICES ASSUME NEW n \in 1..L PROVE CalledFor(n)' = CalledFor(n)
    OBVIOUS
  <2>1. n \in Nat /\ \A k \in 1..n : runs'[k].run = runs[k].run
    BY <1>3, <1>6
  <2> QED
    BY <2>1, SamePrefix
<1>13. AloneIsAnalyzed'
  <2> SUFFICES ASSUME NEW n \in 1..L, runs'[n].alone
               PROVE  /\ \A k \in 1..(n - 1) : runs'[k].by = NoTask
                      /\ runs'[n].by # NoTask => /\ task'[runs'[n].by].at = "analyzed"
                                                 /\ task'[runs'[n].by].alerts = CalledFor(n)'
    BY <1>5 DEF AloneIsAnalyzed
  <2>0. \A k \in 1..(n - 1) : k \in 1..L /\ runs'[k].by = runs[k].by
    BY <1>3, <1>6
  <2>1. CASE n # m
    <3>1. /\ \A k \in 1..(n - 1) : runs[k].by = NoTask
          /\ runs[n].by # NoTask => /\ task[runs[n].by].at = "analyzed"
                                    /\ task[runs[n].by].alerts = CalledFor(n)
      BY <1>3, <1>5, <2>1 DEF HistoryInv, AloneIsAnalyzed
    <3>2. runs[n].by # NoTask => task'[runs[n].by] = task[runs[n].by]
      <4>1. runs[n].by \in Tasks \cup {NoTask}
        BY <1>3, RowOfRuns
      <4> QED
        BY <1>2, <1>3, <1>7, <2>1, <4>1
    <3> QED
      BY <1>6, <1>12, <2>0, <3>1, <3>2
  <2>2. CASE n = m
    <3>1. isAlone
      BY <1>4, <1>5, <2>2
    <3>2. m = L /\ L # 0 /\ \A k \in 1..(L - 1) : runs[k].by = NoTask
      BY <1>2, <1>3, <3>1 DEF Committed
    <3>3. Durable[L] = Prefix(L - 1)
      <4>1. runs[L].by # NoTask
        BY <1>2, <1>8, <3>2
      <4> QED
        BY <1>3, <3>2, <4>1, PastOfLast
    <3>4. alerts = Alerts(Latest(Append(Latest(Prefix(L - 1), HistorySize), runs[L].run), HistorySize))
      BY <3>2, <3>3 DEF alerts, Analyze, Past
    <3>5. \A k \in 1..L : runs[k].run \in Runs
      BY <1>3, RowOfRuns
    <3>6. /\ Prefix(L - 1) \in Seq(Runs) /\ Len(Prefix(L - 1)) = L - 1
          /\ Prefix(L) \in Seq(Runs) /\ Len(Prefix(L)) = L
          /\ runs[L].run \in Runs
      BY <1>3, <3>2, <3>5 DEF Prefix
    <3>7. Append(Prefix(L - 1), runs[L].run) = Prefix(L)
      <4> DEFINE a == Append(Prefix(L - 1), runs[L].run)
      <4>1. a \in Seq(Runs) /\ Len(a) = L /\ a[L] = runs[L].run
        BY <3>2, <3>6, <1>3
      <4>2. \A k \in 1..(L - 1) : a[k] = Prefix(L - 1)[k]
        BY <3>2, <3>6, <1>3
      <4>3. \A k \in 1..(L - 1) : a[k] = runs[k].run
        BY <4>2 DEF Prefix
      <4>4. \A k \in 1..L : Prefix(L)[k] = runs[k].run
        BY DEF Prefix
      <4>5. \A k \in 1..L : k = L \/ k \in 1..(L - 1)
        <5>1. L \in Nat
          BY <1>3
        <5> HIDE DEF L
        <5> QED
          BY <5>1
      <4> HIDE DEF a
      <4>6. \A k \in 1..Len(a) : a[k] = Prefix(L)[k]
        BY <4>1, <4>3, <4>4, <4>5
      <4>7. a = Prefix(L)
        BY <4>1, <4>6, <3>6, SeqEqual
      <4> QED
        BY <4>7 DEF a
    <3>8. alerts = CalledFor(L)
      BY <3>4, <3>6, <3>7, LatestOfAppend DEF CalledFor
    <3>9. CalledFor(n)' = CalledFor(L)
      BY <1>12, <2>2, <3>2
    <3> QED
      BY <1>2, <1>6, <1>7, <2>0, <2>2, <3>2, <3>8, <3>9
  <2> QED
    BY <2>1, <2>2
<1>14. TrendsSurvive'
  <2>1. \A n \in Committed' : n \in Committed /\ n \in 1..L /\ n # m
    BY <1>2, <1>3, <1>8, <1>9 DEF Committed
  <2>2. \A n \in Committed' : CalledFor(n)' = CalledFor(n) /\ runs'[n] = runs[n]
    BY <1>5, <1>12, <2>1
  <2> QED
    BY <1>1, <2>1, <2>2 DEF HistoryInv, TrendsSurvive, CalledFor, Prefix
<1> QED
  BY <1>10, <1>11, <1>13, <1>14 DEF HistoryInv

LEMMA CommitRunHistory ==
    ASSUME HistoryInv, task \in [Tasks -> Sessions], NEW t \in Tasks, CommitRun(t)
    PROVE  HistoryInv'
<1> DEFINE m == MineAt(t)
           L == Len(runs)
           row == [runs[m] EXCEPT !.by = NoTask]
           added == {[of |-> m, alert |-> a, applied |-> FALSE] : a \in task[t].alerts}
<1>1. /\ task[t].at = "analyzed" /\ task' = [task EXCEPT ![t] = Idle]
      /\ runs' = [runs EXCEPT ![m] = row] /\ improvements' = improvements \cup added
  BY DEF CommitRun, At, Goes
<1>2. /\ RunAt(t) /\ m \in 1..L /\ runs[m].by = t
      /\ \A n \in DOMAIN runs : runs[n].by = t => n = m
  BY <1>1, MyRow DEF RunAt
<1>3. runs \in Seq(RunRows) /\ L \in Nat /\ DOMAIN runs = 1..L /\ runs[m] \in RunRows
  BY <1>2, RowOfRuns DEF HistoryInv, HistoryTypeOK
<1>4. /\ row \in RunRows /\ row.by = NoTask /\ row.run = runs[m].run /\ row.alone = runs[m].alone
  <2> HIDE DEF m
  <2> QED
    BY <1>3 DEF RunRows
<1>5. task[t].alerts \in SUBSET {"rate", "accuracy", "errors", "repeated"}
  <2>1. task[t] \in Sessions
    OBVIOUS
  <2> QED
    BY <1>1, <2>1 DEF Sessions, Idle, Registering, Editing, Finishing
<1> HIDE DEF row, m
<1>6. /\ runs' \in Seq(RunRows) /\ Len(runs') = L /\ DOMAIN runs' = 1..L
      /\ runs'[m] = row /\ \A n \in 1..L : n # m => runs'[n] = runs[n]
  <2>1. row \in RunRows /\ m \in 1..Len(runs)
    BY <1>2, <1>4
  <2>2. /\ [runs EXCEPT ![m] = row] \in Seq(RunRows) /\ Len([runs EXCEPT ![m] = row]) = L
        /\ \A j \in 1..L : [runs EXCEPT ![m] = row][j] = IF j = m THEN row ELSE runs[j]
    BY <1>3, <2>1, ExceptSeq
  <2>3. DOMAIN [runs EXCEPT ![m] = row] = 1..L
    BY <1>3
  <2> QED
    BY <1>1, <1>2, <2>2, <2>3
<1>7. /\ \A n \in 1..L : runs'[n].run = runs[n].run /\ runs'[n].alone = runs[n].alone
      /\ \A n \in 1..L : runs[n].by = NoTask => runs'[n].by = NoTask
  BY <1>2, <1>4, <1>6
<1>8. /\ ~RunAt(t)'
      /\ \A q \in Tasks \ {t} : task'[q] = task[q] /\ (RunAt(q)' <=> RunAt(q))
  BY <1>1, Ends DEF RunAt, Idle
<1>9. t # NoTask
  BY RecordsAssumption
<1>10. Committed' = Committed \cup {m} /\ m \notin Committed
  BY <1>2, <1>3, <1>4, <1>6, <1>9 DEF Committed
<1>11. HistoryTypeOK'
  <2>1. ASSUME NEW i \in improvements'
        PROVE  i \in [of : Committed', alert : {"rate", "accuracy", "errors", "repeated"},
                      applied : BOOLEAN]
    <3>1. CASE i \in improvements
      BY <1>10, <3>1 DEF HistoryInv, HistoryTypeOK
    <3>2. CASE i \in added
      <4>1. PICK a \in task[t].alerts : i = [of |-> m, alert |-> a, applied |-> FALSE]
        BY <3>2
      <4>2. a \in {"rate", "accuracy", "errors", "repeated"} /\ m \in Committed'
        BY <1>5, <1>10
      <4> QED
        BY <4>1, <4>2
    <3> QED
      BY <1>1, <3>1, <3>2
  <2> QED
    BY <1>6, <2>1 DEF HistoryTypeOK
<1>12. RowsAreOwned'
  <2>1. ASSUME NEW q \in Tasks
        PROVE  RunAt(q)' <=> \E n \in 1..L : runs'[n].by = q
    <3>1. CASE q = t
      BY <1>2, <1>3, <1>4, <1>6, <1>8, <1>9, <3>1
    <3>2. CASE q # t
      <4>1. RunAt(q)' <=> \E n \in 1..L : runs[n].by = q
        BY <1>3, <1>8, <3>2 DEF HistoryInv, RowsAreOwned
      <4>2. q # NoTask
        BY RecordsAssumption
      <4>3. \A n \in 1..L : runs[n].by = q <=> runs'[n].by = q
        BY <1>2, <1>4, <1>6, <3>2, <4>2
      <4> QED
        BY <4>1, <4>3
    <3> QED
      BY <3>1, <3>2
  <2>2. ASSUME NEW k \in 1..L, NEW n \in 1..L, runs'[k].by = runs'[n].by, runs'[k].by # NoTask
        PROVE  k = n
    <3>1. k # m /\ n # m
      BY <1>4, <1>6, <2>2
    <3> QED
      BY <1>3, <1>6, <2>2, <3>1 DEF HistoryInv, RowsAreOwned
  <2> QED
    BY <1>6, <2>1, <2>2 DEF RowsAreOwned
<1>13. \A n \in 1..L : CalledFor(n)' = CalledFor(n)
  <2> SUFFICES ASSUME NEW n \in 1..L PROVE CalledFor(n)' = CalledFor(n)
    OBVIOUS
  <2>1. n \in Nat /\ \A k \in 1..n : runs'[k].run = runs[k].run
    BY <1>3, <1>7
  <2> QED
    BY <2>1, SamePrefix
<1>14. AloneIsAnalyzed'
  <2> SUFFICES ASSUME NEW n \in 1..L, runs'[n].alone
               PROVE  /\ \A k \in 1..(n - 1) : runs'[k].by = NoTask
                      /\ runs'[n].by # NoTask => /\ task'[runs'[n].by].at = "analyzed"
                                                 /\ task'[runs'[n].by].alerts = CalledFor(n)'
    BY <1>6 DEF AloneIsAnalyzed
  <2>1. /\ \A k \in 1..(n - 1) : runs[k].by = NoTask
        /\ runs[n].by # NoTask => /\ task[runs[n].by].at = "analyzed"
                                  /\ task[runs[n].by].alerts = CalledFor(n)
    BY <1>3, <1>7 DEF HistoryInv, AloneIsAnalyzed
  <2>2. \A k \in 1..(n - 1) : k \in 1..L /\ runs'[k].by = NoTask
    BY <1>3, <1>7, <2>1
  <2>3. CASE n = m
    BY <1>4, <1>6, <2>2, <2>3
  <2>4. CASE n # m
    <3>1. runs'[n] = runs[n] /\ CalledFor(n)' = CalledFor(n)
      BY <1>6, <1>13, <2>4
    <3>2. runs[n].by # NoTask => task'[runs[n].by] = task[runs[n].by]
      <4>1. runs[n].by \in Tasks \cup {NoTask}
        BY <1>3, RowOfRuns
      <4> QED
        BY <1>2, <1>3, <1>8, <2>4, <4>1
    <3> QED
      BY <2>1, <2>2, <3>1, <3>2
  <2> QED
    BY <2>3, <2>4
<1>15. TrendsSurvive'
  <2> SUFFICES ASSUME NEW n \in Committed', runs'[n].alone
               PROVE  RecordsOf(n)' = CalledFor(n)'
    BY DEF TrendsSurvive, RecordsOf, CalledFor, Prefix
  <2>1. n \in 1..L
    BY <1>3, <1>2, <1>10 DEF Committed
  <2>2. CalledFor(n)' = CalledFor(n) /\ runs[n].alone
    BY <1>7, <1>13, <2>1
  <2>3. CASE n = m
    <3>1. \A i \in improvements : i.of # m
      BY <1>10 DEF HistoryInv, HistoryTypeOK
    <3>2. \A j : j \in improvements' /\ j.of = n <=> j \in added
      BY <1>1, <2>3, <3>1
    <3>3. {j \in improvements' : j.of = n} = added
      BY <1>1, <3>2
    <3>4. RecordsOf(n)' = {j.alert : j \in added}
      BY <3>3 DEF RecordsOf
    <3>5. \A a \in task[t].alerts : [of |-> m, alert |-> a, applied |-> FALSE] \in added
      OBVIOUS
    <3>6. {j.alert : j \in added} = task[t].alerts
      <4>1. \A j \in added : j.alert \in task[t].alerts
        OBVIOUS
      <4>2. \A a \in task[t].alerts : \E j \in added : j.alert = a
        BY <3>5
      <4> HIDE DEF added
      <4> QED
        BY <4>1, <4>2
    <3>7. task[t].alerts = CalledFor(m)
      BY <1>2, <1>3, <1>9, <2>2, <2>3 DEF HistoryInv, AloneIsAnalyzed
    <3> QED
      BY <2>2, <2>3, <3>4, <3>6, <3>7
  <2>4. CASE n # m
    <3>1. \A j : j \in improvements' /\ j.of = n <=> j \in improvements /\ j.of = n
      BY <1>1, <2>4
    <3>2. RecordsOf(n)' = RecordsOf(n)
      BY <3>1 DEF RecordsOf
    <3>3. n \in Committed
      BY <1>10, <2>4
    <3>4. RecordsOf(n) = CalledFor(n)
      BY <2>2, <3>3 DEF HistoryInv, TrendsSurvive, RecordsOf, CalledFor, Prefix
    <3> QED
      BY <2>2, <3>2, <3>4
  <2> QED
    BY <2>3, <2>4
<1> QED
  BY <1>11, <1>12, <1>14, <1>15 DEF HistoryInv

LEMMA ApplyHistory ==
    ASSUME HistoryInv, NEW i \in improvements, Apply(i)
    PROVE  HistoryInv'
<1> DEFINE new == [i EXCEPT !.applied = TRUE]
<1>1. improvements' = (improvements \ {i}) \cup {new} /\ UNCHANGED <<runs, task>>
  BY DEF Apply
<1>2. i \in [of : Committed, alert : {"rate", "accuracy", "errors", "repeated"}, applied : BOOLEAN]
  BY DEF HistoryInv, HistoryTypeOK
<1>3. /\ new \in [of : Committed, alert : {"rate", "accuracy", "errors", "repeated"}, applied : BOOLEAN]
      /\ new.of = i.of /\ new.alert = i.alert
  BY <1>2
<1> HIDE DEF new
<1>4. Committed' = Committed /\ \A n : CalledFor(n)' = CalledFor(n)
  BY <1>1 DEF Committed, CalledFor, Prefix
<1>5. HistoryTypeOK'
  BY <1>1, <1>3, <1>4 DEF HistoryInv, HistoryTypeOK
<1>6. RowsAreOwned'
  BY <1>1 DEF HistoryInv, RowsAreOwned, RunAt
<1>7. AloneIsAnalyzed'
  BY <1>1, <1>4 DEF HistoryInv, AloneIsAnalyzed
<1>8. \A n : RecordsOf(n)' = RecordsOf(n)
  <2> SUFFICES ASSUME NEW n PROVE RecordsOf(n)' = RecordsOf(n)
    OBVIOUS
  <2> DEFINE old == {j \in improvements : j.of = n}
             now == {j \in improvements' : j.of = n}
  <2>1. \A j \in old : \E k \in now : k.alert = j.alert
    BY <1>1, <1>3
  <2>2. \A k \in now : \E j \in old : k.alert = j.alert
    BY <1>1, <1>3
  <2> HIDE DEF old, now
  <2>3. {j.alert : j \in old} = {k.alert : k \in now}
    BY <2>1, <2>2
  <2> QED
    BY <2>3 DEF RecordsOf, old, now
<1>9. TrendsSurvive'
  <2>1. \A n \in Committed : runs[n].alone => RecordsOf(n) = CalledFor(n)
    BY DEF HistoryInv, TrendsSurvive, RecordsOf, CalledFor, Prefix
  <2>2. \A n \in Committed' : runs'[n].alone => RecordsOf(n)' = CalledFor(n)'
    BY <1>1, <1>4, <1>8, <2>1
  <2> QED
    BY <2>2 DEF TrendsSurvive, RecordsOf, CalledFor, Prefix
<1> QED
  BY <1>5, <1>6, <1>7, <1>9 DEF HistoryInv

LEMMA GiveUpHistory ==
    ASSUME HistoryInv, task \in [Tasks -> Sessions], NEW t \in Tasks, GiveUp(t)
    PROVE  HistoryInv'
<1> DEFINE m == MineAt(t)
           L == Len(runs)
           Left(n) == IF n < m THEN runs[n] ELSE runs[n + 1]
           Shifted(i) == [i EXCEPT !.of = IF @ > m THEN @ - 1 ELSE @]
           left == [n \in 1..(L - 1) |-> Left(n)]
<1>1. /\ RunAt(t) /\ task' = [task EXCEPT ![t] = Idle] /\ runs' = left
      /\ improvements' = {Shifted(i) : i \in improvements}
  BY DEF GiveUp, RunAt, Goes
<1>2. /\ m \in 1..L /\ runs[m].by = t
      /\ \A n \in DOMAIN runs : runs[n].by = t => n = m
  BY <1>1, MyRow
<1>3. runs \in Seq(RunRows) /\ L \in Nat /\ DOMAIN runs = 1..L
  BY RowOfRuns DEF HistoryInv, HistoryTypeOK
<1>4. t # NoTask /\ m \notin Committed
  BY <1>2, RecordsAssumption DEF Committed
<1>5. /\ ~RunAt(t)'
      /\ \A q \in Tasks \ {t} : task'[q] = task[q] /\ (RunAt(q)' <=> RunAt(q))
  BY <1>1, Ends DEF RunAt, Idle
<1> HIDE DEF m
<1>6. /\ runs' \in Seq(RunRows) /\ Len(runs') = L - 1 /\ DOMAIN runs' = 1..(L - 1)
      /\ \A n \in 1..(L - 1) : runs'[n] = Left(n)
  <2>1. L - 1 \in Nat
    BY <1>2, <1>3
  <2>2. \A n \in 1..(L - 1) : Left(n) \in RunRows
    BY <1>2, <1>3
  <2>3. left \in [1..(L - 1) -> RunRows]
    BY <2>2
  <2>4. left \in Seq(RunRows) /\ Len(left) = L - 1
    BY <2>1, <2>3
  <2> QED
    BY <1>1, <2>1, <2>4
\* Which run is where now.
<1>7. /\ \A n \in 1..(L - 1) : n < m => n \in 1..L /\ runs'[n] = runs[n]
      /\ \A n \in 1..(L - 1) : ~(n < m) => n + 1 \in 1..L /\ n + 1 > m /\ runs'[n] = runs[n + 1]
      /\ \A n \in 1..L : n < m => n \in 1..(L - 1)
      /\ \A n \in 1..L : n > m => n - 1 \in 1..(L - 1) /\ ~(n - 1 < m) /\ n - 1 + 1 = n
  <2>1. m \in Nat /\ L \in Nat /\ 1 <= m /\ m <= L
    BY <1>2, <1>3
  <2> HIDE DEF L
  <2>2. ASSUME NEW n \in 1..(L - 1), n < m
        PROVE  n \in 1..L /\ runs'[n] = runs[n]
    <3>1. runs'[n] = Left(n)
      BY <1>6
    <3> QED
      BY <2>1, <2>2, <3>1
  <2>3. ASSUME NEW n \in 1..(L - 1), ~(n < m)
        PROVE  n + 1 \in 1..L /\ n + 1 > m /\ runs'[n] = runs[n + 1]
    <3>1. runs'[n] = Left(n)
      BY <1>6
    <3>2. n + 1 \in 1..L /\ n + 1 > m
      BY <2>1, <2>3
    <3> QED
      BY <2>3, <3>1, <3>2
  <2>4. /\ \A n \in 1..L : n < m => n \in 1..(L - 1)
        /\ \A n \in 1..L : n > m => n - 1 \in 1..(L - 1) /\ ~(n - 1 < m) /\ n - 1 + 1 = n
    BY <2>1
  <2> QED
    BY <2>2, <2>3, <2>4
<1> HIDE DEF L
\* A run that was analyzed alone came before the one that gives up.
<1>8. \A n \in 1..L : runs[n].alone => n = m \/ n < m
  <2> SUFFICES ASSUME NEW n \in 1..L, runs[n].alone, n > m PROVE FALSE
    BY <1>2, <1>3
  <2>1. m \in 1..(n - 1)
    BY <1>2, <1>3
  <2> QED
    BY <1>2, <1>3, <1>4, <2>1 DEF HistoryInv, AloneIsAnalyzed
<1>9. \A n \in 1..(L - 1) : runs'[n].alone => n < m
  BY <1>2, <1>3, <1>7, <1>8
<1>10. \A n \in Committed : /\ n \in 1..L
                            /\ n < m => n \in Committed'
                            /\ n > m => n - 1 \in Committed'
                            /\ n # m
  BY <1>2, <1>3, <1>4, <1>6, <1>7 DEF Committed
<1>11. HistoryTypeOK'
  <2>1. ASSUME NEW i \in improvements
        PROVE  Shifted(i) \in [of : Committed', alert : {"rate", "accuracy", "errors", "repeated"},
                               applied : BOOLEAN]
    <3>1. i \in [of : Committed, alert : {"rate", "accuracy", "errors", "repeated"}, applied : BOOLEAN]
      BY DEF HistoryInv, HistoryTypeOK
    <3> DEFINE of == IF i.of > m THEN i.of - 1 ELSE i.of
    <3>2. i.of \in Committed
      BY <3>1
    <3>3. of \in Committed'
      BY <1>2, <1>3, <1>10, <3>2
    <3> HIDE DEF of
    <3>4. [i EXCEPT !.of = of] \in [of : Committed', alert : {"rate", "accuracy", "errors", "repeated"},
                                    applied : BOOLEAN]
      BY <3>1, <3>3
    <3> QED
      BY <3>4 DEF of
  <2> HIDE DEF Shifted
  <2> QED
    BY <1>1, <1>6, <2>1 DEF HistoryTypeOK
<1>12. RowsAreOwned'
  <2>1. ASSUME NEW q \in Tasks
        PROVE  RunAt(q)' <=> \E n \in 1..(L - 1) : runs'[n].by = q
    <3>1. CASE q = t
      <4>1. ASSUME NEW n \in 1..(L - 1) PROVE runs'[n].by # t
        <5>1. \A k \in 1..L : k # m => runs[k].by # t
          BY <1>2, <1>3
        <5>2. CASE n < m
          <6>1. n \in 1..L /\ runs'[n] = runs[n] /\ n # m
            BY <1>2, <1>7, <5>2
          <6> QED
            BY <5>1, <6>1
        <5>3. CASE ~(n < m)
          <6>1. n + 1 \in 1..L /\ runs'[n] = runs[n + 1] /\ n + 1 # m
            BY <1>2, <1>7, <5>3
          <6> QED
            BY <5>1, <6>1
        <5> QED
          BY <5>2, <5>3
      <4> QED
        BY <1>5, <3>1, <4>1
    <3>2. CASE q # t
      <4>1. RunAt(q)' <=> \E n \in 1..L : runs[n].by = q
        BY <1>3, <1>5, <3>2 DEF HistoryInv, RowsAreOwned
      <4>2. ASSUME NEW n \in 1..L, runs[n].by = q
            PROVE  \E k \in 1..(L - 1) : runs'[k].by = q
        <5>1. n < m \/ n > m
          BY <1>2, <1>3, <3>2, <4>2
        <5>2. CASE n < m
          BY <1>7, <4>2, <5>2
        <5>3. CASE n > m
          <6>1. n - 1 \in 1..(L - 1) /\ runs'[n - 1] = runs[n]
            BY <1>7, <5>3
          <6> QED
            BY <4>2, <6>1
        <5> QED
          BY <5>1, <5>2, <5>3
      <4>3. ASSUME NEW k \in 1..(L - 1), runs'[k].by = q
            PROVE  \E n \in 1..L : runs[n].by = q
        BY <1>7, <4>3
      <4> QED
        BY <4>1, <4>2, <4>3
    <3> QED
      BY <3>1, <3>2
  <2>2. ASSUME NEW k \in 1..(L - 1), NEW n \in 1..(L - 1),
               runs'[k].by = runs'[n].by, runs'[k].by # NoTask
        PROVE  k = n
    <3> DEFINE was(j) == IF j < m THEN j ELSE j + 1
    <3>1. \A j \in 1..(L - 1) : was(j) \in 1..L /\ runs'[j] = runs[was(j)]
      BY <1>7
    <3>2. was(k) = was(n)
      <4> HIDE DEF was
      <4> QED
        BY <1>3, <2>2, <3>1 DEF HistoryInv, RowsAreOwned
    <3> QED
      BY <1>2, <1>3, <3>2
  <2> QED
    BY <1>6, <2>1, <2>2 DEF RowsAreOwned
<1>13. \A n \in 1..(L - 1) : n < m => CalledFor(n)' = CalledFor(n)
  <2> SUFFICES ASSUME NEW n \in 1..(L - 1), n < m PROVE CalledFor(n)' = CalledFor(n)
    OBVIOUS
  <2>1. n \in Nat /\ \A k \in 1..n : k \in 1..(L - 1) /\ k < m
    BY <1>2, <1>3
  <2>2. \A k \in 1..n : runs'[k].run = runs[k].run
    BY <1>7, <2>1
  <2> QED
    BY <2>1, <2>2, SamePrefix
<1>14. AloneIsAnalyzed'
  <2> SUFFICES ASSUME NEW n \in 1..(L - 1), runs'[n].alone
               PROVE  /\ \A k \in 1..(n - 1) : runs'[k].by = NoTask
                      /\ runs'[n].by # NoTask => /\ task'[runs'[n].by].at = "analyzed"
                                                 /\ task'[runs'[n].by].alerts = CalledFor(n)'
    BY <1>6 DEF AloneIsAnalyzed
  <2>1. n < m /\ n \in 1..L /\ runs'[n] = runs[n] /\ CalledFor(n)' = CalledFor(n)
    BY <1>7, <1>9, <1>13
  <2>2. /\ \A k \in 1..(n - 1) : runs[k].by = NoTask
        /\ runs[n].by # NoTask => /\ task[runs[n].by].at = "analyzed"
                                  /\ task[runs[n].by].alerts = CalledFor(n)
    BY <1>3, <2>1 DEF HistoryInv, AloneIsAnalyzed
  <2>3. \A k \in 1..(n - 1) : k \in 1..(L - 1) /\ k < m
    BY <1>2, <1>3, <2>1
  <2>4. runs[n].by # NoTask => task'[runs[n].by] = task[runs[n].by]
    <3>1. runs[n].by \in Tasks \cup {NoTask} /\ n # m
      BY <1>2, <1>3, <2>1, RowOfRuns
    <3> QED
      BY <1>2, <1>3, <1>5, <2>1, <3>1
  <2> QED
    BY <1>7, <2>1, <2>2, <2>3, <2>4
<1>15. TrendsSurvive'
  <2> SUFFICES ASSUME NEW n \in Committed', runs'[n].alone
               PROVE  RecordsOf(n)' = CalledFor(n)'
    BY DEF TrendsSurvive, RecordsOf, CalledFor, Prefix
  <2>1. n \in 1..(L - 1)
    BY <1>6 DEF Committed
  <2>2. n < m /\ n \in 1..L /\ runs'[n] = runs[n] /\ CalledFor(n)' = CalledFor(n)
    BY <1>7, <1>9, <1>13, <2>1
  <2>3. n \in Committed
    BY <1>3, <1>6, <2>1, <2>2 DEF Committed
  <2>4. RecordsOf(n) = CalledFor(n)
    BY <2>2, <2>3 DEF HistoryInv, TrendsSurvive, RecordsOf, CalledFor, Prefix
  <2>5. ASSUME NEW i \in improvements
        PROVE  /\ Shifted(i).alert = i.alert
               /\ Shifted(i).of = n <=> i.of = n
    <3>1. i \in [of : Committed, alert : {"rate", "accuracy", "errors", "repeated"}, applied : BOOLEAN]
      BY DEF HistoryInv, HistoryTypeOK
    <3>2. i.of \in 1..L /\ i.of # m
      BY <1>10, <3>1
    <3> DEFINE of == IF i.of > m THEN i.of - 1 ELSE i.of
    <3>3. of = n <=> i.of = n
      BY <1>2, <1>3, <2>2, <3>2
    <3> HIDE DEF of
    <3>4. [i EXCEPT !.of = of].alert = i.alert /\ [i EXCEPT !.of = of].of = of
      BY <3>1
    <3> QED
      BY <3>3, <3>4 DEF of
  <2> HIDE DEF Shifted
  <2> DEFINE old == {j \in improvements : j.of = n}
             now == {j \in improvements' : j.of = n}
  <2>6. \A j \in old : \E k \in now : k.alert = j.alert
    BY <1>1, <2>5
  <2>7. \A k \in now : \E j \in old : k.alert = j.alert
    BY <1>1, <2>5
  <2> HIDE DEF old, now
  <2>8. {j.alert : j \in old} = {k.alert : k \in now}
    BY <2>6, <2>7
  <2>9. RecordsOf(n)' = RecordsOf(n)
    BY <2>8 DEF RecordsOf, old, now
  <2> QED
    BY <2>2, <2>4, <2>9
<1> QED
  BY <1>11, <1>12, <1>14, <1>15 DEF HistoryInv
LEMMA HistoryNext ==
    ASSUME HistoryInv, RecordsInv, [Next]_vars
    PROVE  HistoryInv'
<1>1. task \in [Tasks -> Sessions]
  BY DEF RecordsInv, RecordsTypeOK
<1>2. CASE UNCHANGED vars
  BY <1>2, OtherSessions DEF vars, history
<1>3. ASSUME NEW t \in Tasks,
             \/ \E e \in Emails : Register(t, e)
             \/ GetByEmail(t) \/ CreateUser(t)
             \/ \E sent \in Edits : ReadStrategy(t, sent)
             \/ WriteStrategy(t) \/ CommitStrategy(t) \/ LoseStrategy(t)
      PROVE  HistoryInv'
  <2>1. UNCHANGED history
    BY <1>3 DEF Register, GetByEmail, CreateUser, ReadStrategy, WriteStrategy,
                CommitStrategy, LoseStrategy
  <2>2. /\ task[t].at \in {"idle", "counted", "absent", "read", "written"}
        /\ \E state : /\ task' = [task EXCEPT ![t] = state]
                      /\ state.at \in {"idle", "counted", "absent", "read", "written"}
    <3>1. ASSUME NEW e \in Emails, Register(t, e)
          PROVE  /\ task[t].at = "idle"
                 /\ \E state : /\ task' = [task EXCEPT ![t] = state]
                               /\ state.at \in {"idle", "counted"}
      <4> DEFINE state == IF Open(e) THEN [at |-> "counted", email |-> e] ELSE Idle
      <4>1. task[t].at = "idle" /\ task' = [task EXCEPT ![t] = state]
        BY <3>1 DEF Register, Start, Idle
      <4>2. state.at \in {"idle", "counted"}
        BY DEF Idle
      <4> QED
        BY <4>1, <4>2
    <3>2. CASE GetByEmail(t)
      <4>1. task[t] \in Registering /\ task[t].at = "counted"
        BY <1>1, <3>2, SessionPlaces DEF GetByEmail, At
      <4>2. [task[t] EXCEPT !.at = "absent"].at = "absent"
        BY <4>1 DEF Registering
      <4> QED
        BY <3>2, <4>1, <4>2 DEF GetByEmail, Goes, Moved, Idle
    <3>3. CASE CreateUser(t) \/ CommitStrategy(t) \/ LoseStrategy(t)
      BY <3>3 DEF CreateUser, CommitStrategy, LoseStrategy, At, Goes, Idle
    <3>4. ASSUME NEW sent \in Edits, ReadStrategy(t, sent)
          PROVE  /\ task[t].at = "idle"
                 /\ \E state : /\ task' = [task EXCEPT ![t] = state]
                               /\ state.at \in {"idle", "read"}
      <4> DEFINE state == IF strategy.status \in Editable
                          THEN [at |-> "read", row |-> strategy, sent |-> sent] ELSE Idle
      <4>1. task[t].at = "idle" /\ task' = [task EXCEPT ![t] = state]
        BY <3>4 DEF ReadStrategy, Start, Idle
      <4>2. state.at \in {"idle", "read"}
        BY DEF Idle
      <4> QED
        BY <4>1, <4>2
    <3>5. CASE WriteStrategy(t)
      <4>1. task[t] \in Editing /\ task[t].at = "read"
        BY <1>1, <3>5, SessionPlaces DEF WriteStrategy, At
      <4>2. [task[t] EXCEPT !.at = "written"].at = "written"
        BY <4>1 DEF Editing
      <4> QED
        BY <3>5, <4>1, <4>2 DEF WriteStrategy, Taken, Goes, Moved, Idle
    <3> QED
      BY <1>3, <3>1, <3>2, <3>3, <3>4, <3>5
  <2>3. \A q \in Tasks : task'[q] = task[q] \/ (~RunAt(q) /\ ~RunAt(q)')
    BY <1>1, <2>2 DEF RunAt
  <2> QED
    BY <2>1, <2>3, OtherSessions
<1>4. ASSUME NEW s \in Statuses, SetStatus(s) PROVE HistoryInv'
  BY <1>4, OtherSessions DEF SetStatus
<1> QED
  BY <1>1, <1>2, <1>3, <1>4, FinishRunHistory, AnalyzeRunHistory, CommitRunHistory,
     GiveUpHistory, ApplyHistory DEF Next

\* Trends survive restarts and other workers, for any number of tasks and any
\* history: a run that nothing overlapped has, once committed, the alerts of the
\* whole history up to it.
THEOREM TrendsAlwaysSurvive == Spec => []TrendsSurvive
<1>1. Init => RecordsInv /\ HistoryInv
  BY RecordsInitInv, HistoryInit
<1>2. RecordsInv /\ HistoryInv /\ [Next]_vars => (RecordsInv /\ HistoryInv)'
  BY RecordsNextInv, HistoryNext
<1>3. RecordsInv /\ HistoryInv => TrendsSurvive
  BY DEF HistoryInv
<1> QED
  BY <1>1, <1>2, <1>3, PTL DEF Spec

-----------------------------------------------------------------------------
(* Promotion: the gate of POST /mode, for any number of operators, any      *)
(* thresholds and a paper account of any length.  What a request has read   *)
(* relates to the record as it is now: the counts only rise, so what was    *)
(* read of them is a lower bound; the drawdown only rises, so once the      *)
(* profit is read either the record was good at that moment or its drawdown *)
(* is too deep for good.                                                    *)
Verdicts == [merit : BOOLEAN, open : BOOLEAN]
Requests ==
    {Quiet} \cup [at : {"reading", "read"}, wants : {"semi", "auto"}, read : Seq(Int)]
PromotionTypeOK ==
    /\ mode \in {"human_approval", "semi", "auto"}
    /\ killed \in BOOLEAN
    /\ record \in [trades : Nat, days : Nat, pnl : Int, drawdown : Nat]
    /\ request \in [Operators -> Requests]
    /\ seen \in [Operators -> Verdicts]

\* The first three figures read pass the gate.
CountsPass(got) == got[1] >= MinTrades /\ got[2] >= MinDays /\ got[3] >= 0
\* What a request under way has read, against the record and its history.
ReadIsOld(o) ==
    LET got == request[o].read IN
    /\ seen[o].open
    /\ Len(got) <= 4 /\ (request[o].at = "read" <=> Len(got) = 4)
    /\ Len(got) >= 1 => got[1] <= record.trades
    /\ Len(got) >= 2 => got[2] <= record.days
    /\ Len(got) >= 3 /\ CountsPass(got) => seen[o].merit \/ record.drawdown > MaxDrawdown
    /\ Len(got) = 4 /\ CountsPass(got) /\ got[4] <= MaxDrawdown => seen[o].merit
PromotionInv ==
    /\ PromotionTypeOK
    /\ \A o \in Operators : request[o].at # "quiet" => ReadIsOld(o)

\* A request is at rest exactly when it says so.
LEMMA QuietIsQuiet ==
    ASSUME NEW r \in Requests
    PROVE  r = Quiet <=> r.at = "quiet"
  BY DEF Requests, Quiet

\* Where the gate finds its four figures in what was read.
LEMMA FigurePlaces ==
    ASSUME NEW o
    PROVE  /\ Figure(o, "trades") = request[o].read[1]
           /\ Figure(o, "days") = request[o].read[2]
           /\ Figure(o, "pnl") = request[o].read[3]
           /\ Figure(o, "drawdown") = request[o].read[4]
<1>1. /\ DOMAIN Statements = 1..4 /\ Statements[1] = "trades" /\ Statements[2] = "days"
      /\ Statements[3] = "pnl" /\ Statements[4] = "drawdown"
  BY DEF Statements
<1>2. (CHOOSE n \in DOMAIN Statements : Statements[n] = "trades") = 1
  BY <1>1
<1>3. (CHOOSE n \in DOMAIN Statements : Statements[n] = "days") = 2
  BY <1>1
<1>4. (CHOOSE n \in DOMAIN Statements : Statements[n] = "pnl") = 3
  BY <1>1
<1>5. (CHOOSE n \in DOMAIN Statements : Statements[n] = "drawdown") = 4
  BY <1>1
<1> QED
  BY <1>2, <1>3, <1>4, <1>5 DEF Figure

\* The gate passes only figures that meet every threshold.
LEMMA ProgressMeans ==
    ASSUME NEW o
    PROVE  Progress(o) <=> CountsPass(request[o].read) /\ request[o].read[4] <= MaxDrawdown
  BY FigurePlaces DEF Progress, Passed, CountsPass

\* A good record, threshold by threshold.
LEMMA MeritMeans ==
    ASSUME NEW r
    PROVE  Merit(r) <=> /\ r.trades >= MinTrades /\ r.days >= MinDays
                        /\ r.drawdown <= MaxDrawdown /\ r.pnl >= 0
  BY DEF Merit, Passed

\* The statement that is next returns the column as it is now.
LEMMA NextFigure ==
    ASSUME NEW k \in 0..3, PromotionTypeOK
    PROVE  /\ record[Statements[k + 1]] \in Int
           /\ k = 0 => record[Statements[k + 1]] = record.trades
           /\ k = 1 => record[Statements[k + 1]] = record.days
           /\ k = 2 => record[Statements[k + 1]] = record.pnl
           /\ k = 3 => record[Statements[k + 1]] = record.drawdown
<1>1. CASE k = 0  BY <1>1 DEF Statements, PromotionTypeOK
<1>2. CASE k = 1  BY <1>2 DEF Statements, PromotionTypeOK
<1>3. CASE k = 2  BY <1>3 DEF Statements, PromotionTypeOK
<1>4. CASE k = 3  BY <1>4 DEF Statements, PromotionTypeOK
<1> QED
  BY <1>1, <1>2, <1>3, <1>4

\* The fields of a record of two.
LEMMA TwoFields ==
    ASSUME NEW m, NEW n, NEW s, s = [merit |-> m, open |-> n]
    PROVE  s.merit = m /\ s.open = n
  OBVIOUS

\* The history of a request that is under way after the step.
LEMMA WatchMeans ==
    ASSUME PromotionTypeOK, Watch, request' \in [Operators -> Requests],
           NEW o \in Operators, request'[o].at # "quiet"
    PROVE  /\ seen'[o].merit <=> seen[o].merit \/ Merit(record')
           /\ seen'[o].open <=> seen[o].open \/ ~killed'
<1>1. request'[o] # Quiet
  BY QuietIsQuiet
<1>2. seen'[o] = [merit |-> seen[o].merit \/ Merit(record'), open |-> seen[o].open \/ ~killed']
  BY <1>1 DEF Watch
<1>3. /\ seen'[o].merit = (seen[o].merit \/ Merit(record'))
      /\ seen'[o].open = (seen[o].open \/ ~killed')
  BY <1>2, TwoFields, ZenonT(60)
<1>4. seen'[o].merit <=> seen[o].merit \/ Merit(record')
  BY <1>3, ZenonT(60)
<1>5. seen'[o].open <=> seen[o].open \/ ~killed'
  BY <1>3, ZenonT(60)
<1> QED
  BY <1>4, <1>5, ZenonT(60)

\* Whatever the step, the history stays well typed.
LEMMA WatchTypes ==
    ASSUME PromotionTypeOK, Watch
    PROVE  seen' \in [Operators -> Verdicts]
<1>1. \A o \in Operators : (seen[o].merit \/ Merit(record')) \in BOOLEAN
                        /\ (seen[o].open \/ ~killed') \in BOOLEAN
  BY Zenon
<1>2. Nothing \in Verdicts
  BY DEF Nothing, Verdicts
<1>3. ASSUME NEW o \in Operators
      PROVE  [merit |-> seen[o].merit \/ Merit(record'), open |-> seen[o].open \/ ~killed'] \in Verdicts
  BY <1>1, Zenon DEF Verdicts
<1> QED
  BY <1>2, <1>3, Zenon DEF Watch

\* A step of the ledger or of the switch: what was read stays a lower bound.
LEMMA LedgerKeepsReadings ==
    ASSUME PromotionInv, Watch, UNCHANGED request,
           record' \in [trades : Nat, days : Nat, pnl : Int, drawdown : Nat],
           record.trades <= record'.trades, record.days <= record'.days,
           record.drawdown <= record'.drawdown,
           NEW o \in Operators, request'[o].at # "quiet"
    PROVE  ReadIsOld(o)'
<1> DEFINE got == request[o].read
<1>1. PromotionTypeOK /\ ReadIsOld(o)
  BY DEF PromotionInv
<1>2. request[o] \in [at : {"reading", "read"}, wants : {"semi", "auto"}, read : Seq(Int)]
  BY <1>1, QuietIsQuiet DEF PromotionTypeOK, Requests
<1>3. got \in Seq(Int) /\ got' = got
  BY <1>2
<1>4. (seen[o].merit => seen'[o].merit) /\ (seen[o].open => seen'[o].open)
  BY <1>1, WatchMeans DEF PromotionTypeOK
<1>5. Len(got) >= 1 => got[1] \in Int
  BY <1>3
<1>6. Len(got) >= 2 => got[2] \in Int
  BY <1>3
<1>7. record.trades \in Nat /\ record.days \in Nat /\ record.drawdown \in Nat
      /\ record'.trades \in Nat /\ record'.days \in Nat /\ record'.drawdown \in Nat
  BY <1>1 DEF PromotionTypeOK
<1>8. record.drawdown > MaxDrawdown => record'.drawdown > MaxDrawdown
  BY <1>7, PromotionAssumption
<1> HIDE DEF got
<1>9. (Len(got) >= 1 => got[1] <= record'.trades) /\ (Len(got) >= 2 => got[2] <= record'.days)
  <2>1. (Len(got) >= 1 => got[1] <= record.trades) /\ (Len(got) >= 2 => got[2] <= record.days)
    BY <1>1, Zenon DEF ReadIsOld, got
  <2> QED
    BY <2>1, <1>5, <1>6, <1>7
<1>10. /\ seen[o].open /\ Len(got) <= 4 /\ (request[o].at = "read" <=> Len(got) = 4)
       /\ Len(got) >= 3 /\ CountsPass(got) => seen[o].merit \/ record.drawdown > MaxDrawdown
       /\ Len(got) = 4 /\ CountsPass(got) /\ got[4] <= MaxDrawdown => seen[o].merit
  BY <1>1 DEF ReadIsOld, got
<1>11. /\ seen'[o].open /\ Len(got) <= 4 /\ (request[o].at = "read" <=> Len(got) = 4)
       /\ Len(got) >= 1 => got[1] <= record'.trades
       /\ Len(got) >= 2 => got[2] <= record'.days
       /\ Len(got) >= 3 /\ CountsPass(got) => seen'[o].merit \/ record'.drawdown > MaxDrawdown
       /\ Len(got) = 4 /\ CountsPass(got) /\ got[4] <= MaxDrawdown => seen'[o].merit
  BY <1>4, <1>8, <1>9, <1>10, Zenon
<1>12. CountsPass(got)' <=> CountsPass(got)
  BY <1>3 DEF CountsPass
<1> QED
  BY <1>3, <1>11, <1>12 DEF ReadIsOld, got

\* A step that leaves the record and the request of o alone.
LEMMA OtherKeepsReadings ==
    ASSUME PromotionInv, Watch, UNCHANGED <<record, killed>>, request' \in [Operators -> Requests],
           NEW o \in Operators, request'[o] = request[o], request'[o].at # "quiet"
    PROVE  ReadIsOld(o)'
<1>1. PromotionTypeOK /\ ReadIsOld(o)
  BY DEF PromotionInv
<1>2. (seen[o].merit => seen'[o].merit) /\ (seen[o].open => seen'[o].open)
  BY <1>1, WatchMeans
<1> DEFINE got == request[o].read
<1>3. /\ seen[o].open /\ Len(got) <= 4 /\ (request[o].at = "read" <=> Len(got) = 4)
      /\ Len(got) >= 1 => got[1] <= record.trades
      /\ Len(got) >= 2 => got[2] <= record.days
      /\ Len(got) >= 3 /\ CountsPass(got) => seen[o].merit \/ record.drawdown > MaxDrawdown
      /\ Len(got) = 4 /\ CountsPass(got) /\ got[4] <= MaxDrawdown => seen[o].merit
  BY <1>1 DEF ReadIsOld
<1>4. got' = got
  OBVIOUS
<1>5. CountsPass(got)' <=> CountsPass(got)
  BY <1>4 DEF CountsPass
<1> HIDE DEF got
<1>6. /\ seen'[o].open /\ Len(got) <= 4 /\ (request[o].at = "read" <=> Len(got) = 4)
      /\ Len(got) >= 1 => got[1] <= record.trades
      /\ Len(got) >= 2 => got[2] <= record.days
      /\ Len(got) >= 3 /\ CountsPass(got) => seen'[o].merit \/ record.drawdown > MaxDrawdown
      /\ Len(got) = 4 /\ CountsPass(got) /\ got[4] <= MaxDrawdown => seen'[o].merit
  BY <1>2, <1>3, Zenon
<1> QED
  BY <1>4, <1>5, <1>6 DEF ReadIsOld, got

\* One more figure: the profit completes a good record unless its drawdown is
\* too deep, and the drawdown that comes last tells whether it is.
LEMMA ReadNextIsOld ==
    ASSUME PromotionInv, Watch, NEW o \in Operators, ReadNext(o)
    PROVE  request' \in [Operators -> Requests] /\ ReadIsOld(o)'
<1> DEFINE got == request[o].read
           more == request'[o].read
           figure == record[Statements[Len(got) + 1]]
<1>1. PromotionTypeOK /\ ReadIsOld(o) /\ request[o].at = "reading"
  BY DEF PromotionInv, ReadNext
<1>2. request[o] \in [at : {"reading", "read"}, wants : {"semi", "auto"}, read : Seq(Int)]
  BY <1>1, QuietIsQuiet DEF PromotionTypeOK, Requests
<1>3. PICK n \in 0..3 : Len(got) = n
  <2>1. Len(got) <= 4 /\ (request[o].at = "read" <=> Len(got) = 4)
    BY <1>1, Zenon DEF ReadIsOld
  <2>2. Len(got) \in Nat
    BY <1>2
  <2>3. \A k \in Nat : k <= 4 /\ k # 4 => k \in 0..3
    OBVIOUS
  <2> QED
    BY <1>1, <2>1, <2>2, <2>3, Zenon
<1>4. /\ figure \in Int
      /\ n = 0 => figure = record.trades
      /\ n = 1 => figure = record.days
      /\ n = 2 => figure = record.pnl
      /\ n = 3 => figure = record.drawdown
  BY <1>1, <1>3, NextFigure
<1>5. Len(Statements) = 4
  BY DEF Statements
<1>6. request' = [request EXCEPT
          ![o].read = Append(got, figure), ![o].at = IF n + 1 = 4 THEN "read" ELSE @]
  BY <1>3, <1>5 DEF ReadNext
<1>7. got \in Seq(Int) /\ Append(got, figure) \in Seq(Int)
  BY <1>2, <1>4
<1> HIDE DEF figure
<1>8. /\ more = Append(got, figure)
      /\ request'[o].at = IF n + 1 = 4 THEN "read" ELSE "reading"
      /\ request'[o].wants = request[o].wants
  BY <1>1, <1>2, <1>6 DEF PromotionTypeOK
<1>9. request' \in [Operators -> Requests]
  BY <1>1, <1>2, <1>6, <1>7 DEF PromotionTypeOK, Requests
<1> HIDE DEF got, more
<1>10. /\ Len(more) = n + 1 /\ more[n + 1] = figure
       /\ \A k \in 1..n : more[k] = got[k] /\ got[k] \in Int
  BY <1>3, <1>4, <1>7, <1>8
<1>11. record.trades \in Nat /\ record.days \in Nat /\ record.pnl \in Int /\ record.drawdown \in Nat
       /\ UNCHANGED <<killed, record>>
  BY <1>1 DEF PromotionTypeOK, ReadNext
<1>12. /\ seen'[o].merit <=> seen[o].merit \/ Merit(record)
       /\ seen'[o].open <=> seen[o].open \/ ~killed
  BY <1>1, <1>8, <1>9, <1>11, WatchMeans
<1>13. /\ seen[o].open
       /\ n >= 1 => got[1] <= record.trades
       /\ n >= 2 => got[2] <= record.days
       /\ n >= 3 /\ CountsPass(got) => seen[o].merit \/ record.drawdown > MaxDrawdown
  BY <1>1, <1>3, Zenon DEF ReadIsOld, got
<1>14. more[1] <= record.trades /\ (n >= 1 => more[2] <= record.days)
  BY <1>4, <1>10, <1>11, <1>13
<1>15. n = 2 /\ CountsPass(more) => Merit(record) \/ record.drawdown > MaxDrawdown
  <2> SUFFICES ASSUME n = 2, CountsPass(more), record.drawdown <= MaxDrawdown
               PROVE  Merit(record)
    BY <1>11, PromotionAssumption
  <2>1. more[3] = record.pnl /\ more[1] \in Int /\ more[2] \in Int
    BY <1>4, <1>10
  <2>2. record.trades >= MinTrades /\ record.days >= MinDays /\ record.pnl >= 0
    BY <1>11, <1>14, <2>1, PromotionAssumption DEF CountsPass
  <2> QED
    BY <2>2, MeritMeans
<1>16. n = 3 /\ CountsPass(more) => seen[o].merit \/ record.drawdown > MaxDrawdown
  <2> SUFFICES ASSUME n = 3, CountsPass(more)
               PROVE  seen[o].merit \/ record.drawdown > MaxDrawdown
    OBVIOUS
  <2>1. more[1] = got[1] /\ more[2] = got[2] /\ more[3] = got[3]
    BY <1>10
  <2>2. n >= 3 /\ CountsPass(got)
    BY <2>1 DEF CountsPass
  <2> QED
    BY <1>13, <2>2, Zenon
<1>17. n = 3 => more[4] = record.drawdown
  BY <1>4, <1>10
<1>18. /\ n + 1 <= 4 /\ (request'[o].at = "read" <=> n + 1 = 4)
       /\ n + 1 >= 2 => n >= 1
       /\ n + 1 >= 3 => n = 2 \/ n = 3
       /\ n + 1 = 4 => n = 3
  BY <1>8
<1>19. n + 1 >= 3 /\ CountsPass(more) => seen'[o].merit \/ record.drawdown > MaxDrawdown
  BY <1>12, <1>15, <1>16, <1>18, Zenon
<1>20. n + 1 = 4 /\ CountsPass(more) /\ more[4] <= MaxDrawdown => seen'[o].merit
  <2>1. n = 3 /\ more[4] <= MaxDrawdown => ~(record.drawdown > MaxDrawdown)
    BY <1>11, <1>17, PromotionAssumption
  <2> QED
    BY <2>1, <1>12, <1>16, <1>18, Zenon
<1>21. seen'[o].open
  BY <1>12, <1>13, Zenon
<1>22. /\ seen'[o].open
       /\ Len(more) <= 4 /\ (request'[o].at = "read" <=> Len(more) = 4)
       /\ Len(more) >= 1 => more[1] <= record.trades
       /\ Len(more) >= 2 => more[2] <= record.days
       /\ Len(more) >= 3 /\ CountsPass(more) => seen'[o].merit \/ record.drawdown > MaxDrawdown
       /\ Len(more) = 4 /\ CountsPass(more) /\ more[4] <= MaxDrawdown => seen'[o].merit
  BY <1>10, <1>14, <1>18, <1>19, <1>20, <1>21, Zenon
<1> QED
  BY <1>9, <1>11, <1>22 DEF ReadIsOld, CountsPass, more

\* A request begins while the switch is open, with nothing read.
LEMMA AskModeIsOld ==
    ASSUME PromotionInv, Watch, NEW o \in Operators, NEW wanted \in {"semi", "auto"},
           AskMode(o, wanted)
    PROVE  /\ request' \in [Operators -> Requests]
           /\ \A p \in Operators \ {o} : request'[p] = request[p]
           /\ ReadIsOld(o)'
<1>1. PromotionTypeOK
  BY DEF PromotionInv
<1>2. /\ request' = [request EXCEPT ![o] = [at |-> "reading", wants |-> wanted, read |-> <<>>]]
      /\ ~killed' /\ UNCHANGED record
  BY DEF AskMode
<1>3. [at |-> "reading", wants |-> wanted, read |-> <<>>] \in Requests
  BY DEF Requests
<1>4. /\ request' \in [Operators -> Requests]
      /\ \A p \in Operators \ {o} : request'[p] = request[p]
      /\ request'[o].at = "reading" /\ request'[o].read = <<>>
  BY <1>1, <1>2, <1>3 DEF PromotionTypeOK
<1>5. seen'[o].open
  BY <1>1, <1>2, <1>4, WatchMeans
<1>6. \A n \in Nat : n = 0 => n <= 4 /\ ~(n >= 1) /\ ~(n >= 2) /\ ~(n >= 3) /\ n # 4
  OBVIOUS
<1>7. Len(request'[o].read) = 0
  BY <1>4
<1> QED
  BY <1>4, <1>5, <1>6, <1>7 DEF ReadIsOld

LEMMA PromotionInitInv == PromotionInit => PromotionInv
<1> SUFFICES ASSUME PromotionInit PROVE PromotionInv
  OBVIOUS
<1>1. Nothing \in Verdicts /\ Quiet \in Requests
  BY DEF Nothing, Verdicts, Requests
<1>2. MinTrades - 1 \in Nat /\ MinDays - 1 \in Nat
  BY PromotionAssumption
<1>3. record \in [trades : Nat, days : Nat, pnl : Int, drawdown : Nat]
  BY <1>2 DEF PromotionInit
<1>4. PromotionTypeOK
  BY <1>1, <1>3 DEF PromotionInit, PromotionTypeOK
<1>5. \A o \in Operators : request[o].at = "quiet"
  BY DEF PromotionInit, Quiet
<1> QED
  BY <1>4, <1>5 DEF PromotionInv

LEMMA PromotionNextInv ==
    ASSUME PromotionInv, PromotionNext
    PROVE  PromotionInv'
<1>1. PromotionTypeOK /\ Watch
  BY DEF PromotionInv, PromotionNext
<1>2. seen' \in [Operators -> Verdicts]
  BY <1>1, WatchTypes
<1>3. ASSUME NEW newDays \in {0, 1}, NEW profit \in {-1, 1}, NEW fall \in {0, 1},
             CloseTrade(newDays, profit, fall)
      PROVE  PromotionInv'
  <2>1. /\ record' \in [trades : Nat, days : Nat, pnl : Int, drawdown : Nat]
        /\ record.trades <= record'.trades /\ record.days <= record'.days
        /\ record.drawdown <= record'.drawdown /\ UNCHANGED <<mode, killed, request>>
    BY <1>1, <1>3 DEF PromotionTypeOK, CloseTrade
  <2> QED
    BY <1>1, <1>2, <2>1, LedgerKeepsReadings DEF PromotionInv, PromotionTypeOK
<1>4. ASSUME Mark
      PROVE  PromotionInv'
  <2>1. /\ record' \in [trades : Nat, days : Nat, pnl : Int, drawdown : Nat]
        /\ record.trades <= record'.trades /\ record.days <= record'.days
        /\ record.drawdown <= record'.drawdown /\ UNCHANGED <<mode, killed, request>>
    BY <1>1, <1>4 DEF PromotionTypeOK, Mark
  <2> QED
    BY <1>1, <1>2, <2>1, LedgerKeepsReadings DEF PromotionInv, PromotionTypeOK
<1>5. ASSUME KillOrArm
      PROVE  PromotionInv'
  <2>1. killed' \in BOOLEAN /\ UNCHANGED <<mode, record, request>>
    BY <1>5 DEF KillOrArm
  <2>2. /\ record' \in [trades : Nat, days : Nat, pnl : Int, drawdown : Nat]
        /\ record.trades <= record'.trades /\ record.days <= record'.days
        /\ record.drawdown <= record'.drawdown
    BY <1>1, <2>1 DEF PromotionTypeOK
  <2> QED
    BY <1>1, <1>2, <2>1, <2>2, LedgerKeepsReadings DEF PromotionInv, PromotionTypeOK
<1>6. ASSUME NEW o \in Operators, NEW wanted \in {"human_approval", "semi", "auto"}, AskMode(o, wanted)
      PROVE  PromotionInv'
  <2>1. CASE wanted = "human_approval"
    <3>1. UNCHANGED <<killed, record, request>> /\ mode' = "human_approval"
      BY <1>6, <2>1 DEF AskMode
    <3> QED
      BY <1>1, <1>2, <3>1, OtherKeepsReadings DEF PromotionInv, PromotionTypeOK
  <2>2. CASE wanted # "human_approval"
    <3>1. UNCHANGED <<mode, killed, record>>
      BY <1>6, <2>2 DEF AskMode
    <3>2. /\ request' \in [Operators -> Requests] /\ ReadIsOld(o)'
          /\ \A p \in Operators \ {o} : request'[p] = request[p]
      BY <1>1, <1>6, <2>2, AskModeIsOld
    <3> QED
      BY <1>1, <1>2, <3>1, <3>2, OtherKeepsReadings DEF PromotionInv, PromotionTypeOK
  <2> QED
    BY <2>1, <2>2
<1>7. ASSUME NEW o \in Operators, ReadNext(o)
      PROVE  PromotionInv'
  <2>1. UNCHANGED <<mode, killed, record>> /\ \A p \in Operators \ {o} : request'[p] = request[p]
    BY <1>1, <1>7 DEF ReadNext, PromotionTypeOK
  <2>2. request' \in [Operators -> Requests] /\ ReadIsOld(o)'
    BY <1>1, <1>7, ReadNextIsOld
  <2> QED
    BY <1>1, <1>2, <2>1, <2>2, OtherKeepsReadings DEF PromotionInv, PromotionTypeOK
<1>8. ASSUME NEW o \in Operators, QueryFails(o) \/ DecideMode(o)
      PROVE  PromotionInv'
  <2>1. Quiet \in Requests /\ Quiet.at = "quiet"
    BY DEF Requests, Quiet
  <2>2. /\ request' = [request EXCEPT ![o] = Quiet] /\ UNCHANGED <<killed, record>>
        /\ request[o].at # "quiet"
    BY <1>8 DEF QueryFails, DecideMode
  <2>3. /\ request' \in [Operators -> Requests] /\ request'[o].at = "quiet"
        /\ \A p \in Operators \ {o} : request'[p] = request[p]
    BY <1>1, <2>1, <2>2 DEF PromotionTypeOK
  <2>4. request[o].wants \in {"semi", "auto"}
    BY <1>1, <2>2, QuietIsQuiet DEF PromotionTypeOK, Requests
  <2>5. mode' \in {"human_approval", "semi", "auto"}
    BY <1>1, <1>8, <2>4 DEF PromotionTypeOK, QueryFails, DecideMode
  <2> QED
    BY <1>1, <1>2, <2>2, <2>3, <2>5, OtherKeepsReadings DEF PromotionInv, PromotionTypeOK
<1> QED
  BY <1>3, <1>4, <1>5, <1>6, <1>7, <1>8 DEF PromotionNext

\* The inductive invariant of POST /mode: what a request has read, against
\* the record as it is now and as it has been (the counts and the drawdown of
\* the paper record only rise).
THEOREM PromotionInvariant == PromotionSpec => []PromotionInv
<1>1. PromotionInv /\ UNCHANGED promotionVars => PromotionInv'
  BY DEF PromotionInv, PromotionTypeOK, ReadIsOld, CountsPass, promotionVars
<1> QED
  BY <1>1, PromotionInitInv, PromotionNextInv, PTL DEF PromotionSpec

\* A request that raises the mode had the whole record good at some moment.
LEMMA DecidesOnMerit ==
    ASSUME PromotionInv, NEW o \in Operators, DecideMode(o), mode' # mode
    PROVE  /\ request[o] # Quiet /\ request'[o] = Quiet /\ request[o].wants = mode'
           /\ seen[o].merit /\ seen[o].open
<1>1. PromotionTypeOK /\ request[o].at = "read"
  BY DEF PromotionInv, DecideMode
<1>2. ReadIsOld(o)
  BY <1>1 DEF PromotionInv
<1>3. Progress(o) /\ mode' = request[o].wants /\ request' = [request EXCEPT ![o] = Quiet]
  BY DEF DecideMode
<1>4. CountsPass(request[o].read) /\ request[o].read[4] <= MaxDrawdown
  BY <1>3, ProgressMeans
<1>5. seen[o].merit /\ seen[o].open
  BY <1>1, <1>2, <1>4, Zenon DEF ReadIsOld
<1> QED
  BY <1>1, <1>3, <1>5 DEF Quiet, PromotionTypeOK

\* AUTO and SEMI are reached only on a record that met every threshold at one
\* moment of the request, with the switch open at one: for any number of
\* requests, any thresholds and any history of the paper account, although the
\* four figures are of four moments.
THEOREM RaisedOnMeritHolds == PromotionSpec => RaisedOnMerit
<1>1. ASSUME PromotionInv, PromotionNext, mode' # mode, mode' # "human_approval"
      PROVE  \E o \in Operators : /\ request[o] # Quiet /\ request'[o] = Quiet
                                  /\ request[o].wants = mode'
                                  /\ seen[o].merit /\ seen[o].open
  <2>1. PICK o \in Operators : DecideMode(o)
    BY <1>1 DEF PromotionNext, CloseTrade, Mark, KillOrArm, AskMode, ReadNext, QueryFails
  <2> QED
    BY <1>1, <2>1, DecidesOnMerit
<1>2. PromotionInv /\ [PromotionNext]_promotionVars =>
        [mode' # mode /\ mode' # "human_approval" =>
           \E o \in Operators : /\ request[o] # Quiet /\ request'[o] = Quiet
                                /\ request[o].wants = mode'
                                /\ seen[o].merit /\ seen[o].open]_promotionVars
  BY <1>1
<1> QED
  BY <1>2, PromotionInvariant, PTL DEF PromotionSpec, RaisedOnMerit

-----------------------------------------------------------------------------
(* LoginLimit: the two limits of a login, for any number of names and      *)
(* addresses, any limits, windows and room in the tables.  Each limit is   *)
(* reasoned about on its own, as a table of buckets beside a log of the    *)
(* tries it has seen; the narrow limit and the wide one are two instances. *)
(* The invariant is that the table is sound for its log: the buckets are   *)
(* in the order of their last use, every live attempt of a bucket is one   *)
(* counted try of its key, and every counted try is one of them or has     *)
(* been followed by more keys than the table has room for.  From it follow *)
(* both that a limit is kept and that nobody is refused without reason.    *)

\* An entry of a limit's log: who tried, how long ago, whether this limit was
\* asked, and whether it let the try pass.
Entries(S) == [key : S, age : Nat, used : BOOLEAN, counted : BOOLEAN]
Buckets(S, window) == [key : S, ages : Seq(0..window)]
Sorted(ages) == \A i, j \in DOMAIN ages : i < j => ages[i] >= ages[j]
Before(t, a, b) == \E i, j \in DOMAIN t : i < j /\ t[i].key = a /\ t[j].key = b
Has(t, k) == \E i \in DOMAIN t : t[i].key = k
AgesOf(t, k) == IF Has(t, k) THEN t[CHOOSE i \in DOMAIN t : t[i].key = k].ages ELSE <<>>

\* The tries that a limit counts against a key, and the keys that tried since one.
Counted(log, k, window) ==
    {n \in DOMAIN log : log[n].counted /\ log[n].key = k /\ log[n].age < window}
SeenSince(log, n) == {log[m].key : m \in {m \in DOMAIN log : m >= n}}
Crowded(log, n, cap) == Cardinality(SeenSince(log, n)) > cap
Live(ages, window) == {j \in DOMAIN ages : ages[j] < window}
\* Each live attempt of a window is one counted try, of its age, and each counted
\* try is one of them, or more keys than the table has room for have tried since.
Matches(c, ages, log, k, window, cap) ==
    /\ \A j \in Live(ages, window) : c[j] \in Counted(log, k, window) /\ log[c[j]].age = ages[j]
    /\ \A i, j \in Live(ages, window) : c[i] = c[j] => i = j
    /\ \A n \in Counted(log, k, window) :
          Crowded(log, n, cap) \/ \E j \in Live(ages, window) : c[j] = n
Kept(ages, log, k, window, cap) == \E c : Matches(c, ages, log, k, window, cap)
\* The buckets are in the order of their last use, and their keys differ.
InOrder(t, log) ==
    \A a, b : Before(t, a, b) =>
        /\ a # b
        /\ \A n \in DOMAIN log : log[n].used /\ log[n].key = a =>
             \E m \in DOMAIN log : m > n /\ log[m].used /\ log[m].key = b
WellAged(ages, limit) == Len(ages) <= limit /\ Sorted(ages)
Table(t, S, limit, window) ==
    /\ t \in Seq(Buckets(S, window))
    /\ \A i \in DOMAIN t : WellAged(t[i].ages, limit)
Sound(t, log, S, limit, window, cap) ==
    /\ Table(t, S, limit, window)
    /\ InOrder(t, log)
    /\ \A k \in S : Kept(AgesOf(t, k), log, k, window, cap)
Logged(log, S) ==
    /\ log \in Seq(Entries(S))
    /\ \A i, j \in DOMAIN log : i < j => log[i].age >= log[j].age
    /\ \A n \in DOMAIN log : log[n].counted => log[n].used

\* What pruning takes from the front.
LEMMA GoneIs ==
    ASSUME NEW ages \in Seq(Nat), NEW window \in Nat
    PROVE  /\ Gone(ages, window) \in 0..Len(ages)
           /\ \A j \in 1..Gone(ages, window) : ages[j] >= window
           /\ Gone(ages, window) < Len(ages) => ages[Gone(ages, window) + 1] < window
<1> DEFINE Good(n) == /\ \A j \in 1..n : ages[j] >= window
                      /\ n < Len(ages) => ages[n + 1] < window
           Stops == {n \in 0..Len(ages) : n < Len(ages) => ages[n + 1] < window}
<1>1. Len(ages) \in Nat /\ \A j \in 1..Len(ages) : ages[j] \in Nat
  OBVIOUS
<1>2. Stops \in SUBSET Nat /\ Len(ages) \in Stops
  BY <1>1
<1>3. PICK m \in Stops : \A k \in Stops : m <= k
  BY <1>2, LeastExists
<1>4. \A j \in 1..m : ages[j] >= window
  <2> SUFFICES ASSUME NEW j \in 1..m, ~(ages[j] >= window) PROVE FALSE
    OBVIOUS
  <2>1. j - 1 \in 0..Len(ages) /\ j - 1 + 1 = j /\ j \in 1..Len(ages) /\ ~(m <= j - 1)
    BY <1>1, <1>3
  <2>2. j - 1 \in Stops
    BY <1>1, <2>1
  <2> QED
    BY <1>3, <2>1, <2>2
<1>5. \E g \in 0..Len(ages) : Good(g)
  BY <1>3, <1>4
<1>6. Gone(ages, window) = CHOOSE n \in 0..Len(ages) : Good(n)
  BY DEF Gone
<1> HIDE DEF Good
<1>7. Gone(ages, window) \in 0..Len(ages) /\ Good(Gone(ages, window))
  BY <1>5, <1>6
<1> QED
  BY <1>7 DEF Good

LEMMA PrunedIs ==
    ASSUME NEW window \in Nat, NEW limit \in Nat, NEW ages \in Seq(0..window), WellAged(ages, limit)
    PROVE  /\ Gone(ages, window) \in 0..Len(ages)
           /\ Pruned(ages, window) \in Seq(0..window)
           /\ Len(Pruned(ages, window)) = Len(ages) - Gone(ages, window)
           /\ DOMAIN Pruned(ages, window) = 1..(Len(ages) - Gone(ages, window))
           /\ \A j \in DOMAIN Pruned(ages, window) :
                /\ Pruned(ages, window)[j] = ages[j + Gone(ages, window)]
                /\ Pruned(ages, window)[j] < window
                /\ j + Gone(ages, window) \in Live(ages, window)
           /\ \A j \in Live(ages, window) : /\ j - Gone(ages, window) \in DOMAIN Pruned(ages, window)
                                            /\ j - Gone(ages, window) + Gone(ages, window) = j
           /\ WellAged(Pruned(ages, window), limit)
<1> DEFINE g == Gone(ages, window)
           p == Pruned(ages, window)
           L == Len(ages)
<1>1. L \in Nat /\ DOMAIN ages = 1..L /\ \A j \in 1..L : ages[j] \in 0..window
  OBVIOUS
<1>2. ages \in Seq(Nat)
  <2>1. 0..window \subseteq Nat
    OBVIOUS
  <2> QED
    BY <2>1, SeqMonotonic
<1>3. /\ g \in 0..L /\ \A j \in 1..g : ages[j] >= window
      /\ g < L => ages[g + 1] < window
  BY <1>2, GoneIs
<1> HIDE DEF g
<1>4. p = SubSeq(ages, g + 1, L)
  BY DEF Pruned, g
<1>5. g + 1 \in Int /\ L \in Int /\ \A i \in (g + 1)..L : ages[i] \in 0..window
  BY <1>1, <1>3
<1> HIDE DEF L, p
<1>6. /\ p \in Seq(0..window)
      /\ Len(p) = IF g + 1 <= L THEN L - (g + 1) + 1 ELSE 0
      /\ \A i \in 1..(L - (g + 1) + 1) : p[i] = ages[g + 1 + i - 1]
  BY <1>4, <1>5, SubSeqProperties
<1>7. /\ Len(p) = L - g
      /\ \A i \in 1..(L - g) : p[i] = ages[i + g]
  BY <1>1, <1>3, <1>6
<1>8. DOMAIN p = 1..(L - g)
  BY <1>6, <1>7
<1>9. \A j \in 1..(L - g) : j + g \in 1..L
  BY <1>1, <1>3
<1>10. ASSUME NEW j \in 1..(L - g) PROVE p[j] < window /\ j + g \in Live(ages, window)
  <2>1. g < L /\ ages[g + 1] < window /\ g + 1 \in 1..L /\ j + g \in 1..L
    BY <1>1, <1>3
  <2>2. ages[j + g] <= ages[g + 1]
    <3>1. CASE j = 1
      BY <1>1, <1>3, <2>1, <3>1
    <3>2. CASE j # 1
      <4>1. g + 1 < j + g
        BY <1>1, <1>3, <3>2
      <4> QED
        BY <1>1, <2>1, <4>1 DEF WellAged, Sorted
    <3> QED
      BY <3>1, <3>2
  <2>3. ages[j + g] \in 0..window /\ ages[g + 1] \in 0..window
    BY <1>1, <2>1
  <2> QED
    BY <1>1, <1>7, <2>1, <2>2, <2>3 DEF Live
<1>11. \A j \in Live(ages, window) : j - g \in 1..(L - g) /\ j - g + g = j
  <2> SUFFICES ASSUME NEW j \in 1..L, ages[j] < window
               PROVE  j - g \in 1..(L - g) /\ j - g + g = j
    BY <1>1 DEF Live
  <2>1. ages[j] \in Nat /\ ~(j \in 1..g)
    BY <1>1, <1>3
  <2> QED
    BY <1>1, <1>3, <2>1
<1>12. WellAged(p, limit)
  <2>1. Len(p) <= limit
    BY <1>1, <1>3, <1>7 DEF WellAged, L
  <2>2. ASSUME NEW i \in 1..(L - g), NEW j \in 1..(L - g), i < j PROVE p[i] >= p[j]
    <3>1. i + g \in 1..L /\ j + g \in 1..L /\ i + g < j + g
      BY <1>1, <1>3, <2>2
    <3> QED
      BY <1>1, <1>7, <3>1 DEF WellAged, Sorted
  <2> QED
    BY <1>8, <2>1, <2>2 DEF WellAged, Sorted
<1> QED
  BY <1>3, <1>6, <1>7, <1>8, <1>9, <1>10, <1>11, <1>12 DEF g, p, L

\* Pruning takes no live attempt.
LEMMA KeptPruned ==
    ASSUME NEW window \in Nat, NEW limit \in Nat, NEW ages \in Seq(0..window), WellAged(ages, limit),
           NEW log, NEW k, NEW cap, Kept(ages, log, k, window, cap)
    PROVE  Kept(Pruned(ages, window), log, k, window, cap)
<1> DEFINE g == Gone(ages, window)
           p == Pruned(ages, window)
<1>1. PICK c : Matches(c, ages, log, k, window, cap)
  BY DEF Kept
<1>2. /\ \A j \in DOMAIN p : p[j] = ages[j + g] /\ j + g \in Live(ages, window)
      /\ \A j \in Live(ages, window) : j - g \in DOMAIN p /\ j - g + g = j
      /\ \A j \in DOMAIN p : p[j] < window /\ j \in Int
      /\ g \in Int
  BY PrunedIs
<1> HIDE DEF g, p
<1> DEFINE d == [j \in DOMAIN p |-> c[j + g]]
<1>3. Live(p, window) = DOMAIN p
  BY <1>2 DEF Live
<1>4. \A j \in DOMAIN p : d[j] \in Counted(log, k, window) /\ log[d[j]].age = p[j]
  BY <1>1, <1>2 DEF Matches
<1>5. \A i, j \in DOMAIN p : d[i] = d[j] => i = j
  <2> SUFFICES ASSUME NEW i \in DOMAIN p, NEW j \in DOMAIN p, d[i] = d[j] PROVE i = j
    OBVIOUS
  <2>1. i + g = j + g
    BY <1>1, <1>2 DEF Matches
  <2> QED
    BY <1>2, <2>1
<1>6. \A n \in Counted(log, k, window) : Crowded(log, n, cap) \/ \E j \in DOMAIN p : d[j] = n
  <2> SUFFICES ASSUME NEW n \in Counted(log, k, window), ~Crowded(log, n, cap)
               PROVE  \E j \in DOMAIN p : d[j] = n
    OBVIOUS
  <2>1. PICK j \in Live(ages, window) : c[j] = n
    BY <1>1 DEF Matches
  <2>2. j - g \in DOMAIN p /\ d[j - g] = n
    BY <1>2, <2>1
  <2> QED
    BY <2>2
<1> HIDE DEF d
<1>7. Matches(d, p, log, k, window, cap)
  BY <1>3, <1>4, <1>5, <1>6 DEF Matches
<1> QED
  BY <1>7 DEF Kept, p

\* A table that was swept: which bucket of the old one each bucket is.
FromTable(s, t, n, h, window) ==
    /\ DOMAIN s = 1..Len(s)
    /\ h \in [DOMAIN s -> 1..n]
    /\ \A i, j \in DOMAIN s : i < j => h[i] < h[j]
    /\ \A i \in DOMAIN s : s[i].key = t[h[i]].key /\ s[i].ages = Pruned(t[h[i]].ages, window)
    /\ \A j \in 1..n : Pruned(t[j].ages, window) # <<>> => \E i \in DOMAIN s : h[i] = j

LEMMA TableIs ==
    ASSUME NEW S, NEW limit \in Nat, NEW window \in Nat, NEW t, Table(t, S, limit, window)
    PROVE  /\ Len(t) \in Nat /\ DOMAIN t = 1..Len(t)
           /\ \A i \in DOMAIN t : /\ t[i] \in Buckets(S, window) /\ t[i].key \in S
                                  /\ t[i].ages \in Seq(0..window) /\ WellAged(t[i].ages, limit)
<1>1. DOMAIN t = 1..Len(t) /\ \A i \in DOMAIN t : t[i] \in Buckets(S, window)
  BY DEF Table
<1> QED
  BY <1>1 DEF Buckets, Table

LEMMA PrunedBucket ==
    ASSUME NEW S, NEW limit \in Nat, NEW window \in Nat,
           NEW b \in Buckets(S, window), WellAged(b.ages, limit)
    PROVE  LET p == [b EXCEPT !.ages = Pruned(@, window)]
           IN  /\ p \in Buckets(S, window) /\ WellAged(p.ages, limit)
               /\ p.key = b.key /\ p.ages = Pruned(b.ages, window)
<1> DEFINE a == Pruned(b.ages, window)
<1>1. b.ages \in Seq(0..window)
  BY DEF Buckets
<1>2. a \in Seq(0..window) /\ WellAged(a, limit)
  BY <1>1, PrunedIs
<1> HIDE DEF a
<1>3. [b EXCEPT !.ages = a] \in Buckets(S, window)
  BY <1>2 DEF Buckets
<1>4. [b EXCEPT !.ages = a].key = b.key /\ [b EXCEPT !.ages = a].ages = a
  BY DEF Buckets
<1> QED
  BY <1>2, <1>3, <1>4 DEF a

\* One bucket of the table more: it is dropped if nothing of it is left.
LEMMA SweptStep ==
    ASSUME NEW S, NEW limit \in Nat, NEW window \in Nat, NEW t, Table(t, S, limit, window),
           NEW n \in 1..Len(t), NEW s, Table(s, S, limit, window),
           NEW h, FromTable(s, t, n - 1, h, window),
           NEW b, b = [t[n] EXCEPT !.ages = Pruned(@, window)],
           NEW r, r = IF b.ages = <<>> THEN s ELSE Append(s, b)
    PROVE  Table(r, S, limit, window) /\ \E g : FromTable(r, t, n, g, window)
<1> DEFINE L == Len(s)
<1>1. n \in Int /\ n >= 1 /\ L \in Nat /\ DOMAIN s = 1..L
  BY TableIs
<1>2. /\ t[n] \in Buckets(S, window) /\ WellAged(t[n].ages, limit)
  BY TableIs
<1>3. /\ b \in Buckets(S, window) /\ WellAged(b.ages, limit)
      /\ b.key = t[n].key /\ b.ages = Pruned(t[n].ages, window)
  BY <1>2, PrunedBucket
<1>4. /\ h \in [1..L -> 1..(n - 1)]
      /\ \A i, j \in 1..L : i < j => h[i] < h[j]
      /\ \A i \in 1..L : s[i].key = t[h[i]].key /\ s[i].ages = Pruned(t[h[i]].ages, window)
      /\ \A j \in 1..(n - 1) : Pruned(t[j].ages, window) # <<>> => \E i \in 1..L : h[i] = j
  BY <1>1 DEF FromTable
<1>5. CASE b.ages = <<>>
  <2>1. r = s
    BY <1>5
  <2>2. h \in [1..L -> 1..n]
    BY <1>1, <1>4
  <2>3. ASSUME NEW j \in 1..n, Pruned(t[j].ages, window) # <<>>
        PROVE  \E i \in 1..L : h[i] = j
    <3>1. j # n
      BY <1>3, <1>5, <2>3
    <3>2. j \in 1..(n - 1)
      BY <1>1, <3>1
    <3> QED
      BY <1>4, <2>3, <3>2
  <2>4. FromTable(r, t, n, h, window)
    BY <1>1, <1>4, <2>1, <2>2, <2>3 DEF FromTable
  <2> QED
    BY <2>1, <2>4
<1>6. CASE b.ages # <<>>
  <2> DEFINE g == [i \in 1..(L + 1) |-> IF i = L + 1 THEN n ELSE h[i]]
  <2>1. r = Append(s, b) /\ s \in Seq(Buckets(S, window))
    BY <1>6 DEF Table
  <2>2. /\ r \in Seq(Buckets(S, window)) /\ Len(r) = L + 1 /\ DOMAIN r = 1..(L + 1)
        /\ r[L + 1] = b /\ \A i \in 1..L : r[i] = s[i]
    BY <1>1, <1>3, <2>1
  <2>3. \A i \in 1..(L + 1) : i = L + 1 \/ i \in 1..L
    BY <1>1
  <2>4. Table(r, S, limit, window)
    BY <1>3, <2>2, <2>3, TableIs DEF Table
  <2>5. g \in [1..(L + 1) -> 1..n]
    BY <1>1, <1>4, <2>3
  <2>6. g[L + 1] = n /\ \A i \in 1..L : g[i] = h[i]
    BY <1>1
  <2> HIDE DEF g, L
  <2>7. \A i, j \in 1..(L + 1) : i < j => g[i] < g[j]
    <3> SUFFICES ASSUME NEW i \in 1..(L + 1), NEW j \in 1..(L + 1), i < j PROVE g[i] < g[j]
      OBVIOUS
    <3>1. i \in 1..L
      BY <1>1, <2>3
    <3>2. h[i] \in 1..(n - 1)
      BY <1>4, <3>1
    <3>3. CASE j = L + 1
      BY <1>1, <2>6, <3>1, <3>2, <3>3
    <3>4. CASE j \in 1..L
      BY <1>4, <2>6, <3>1, <3>4
    <3> QED
      BY <2>3, <3>3, <3>4
  <2>8. ASSUME NEW i \in 1..(L + 1)
        PROVE  r[i].key = t[g[i]].key /\ r[i].ages = Pruned(t[g[i]].ages, window)
    <3>1. CASE i = L + 1
      <4>1. r[i] = b /\ g[i] = n
        BY <2>2, <2>6, <3>1
      <4> QED
        BY <1>3, <4>1
    <3>2. CASE i \in 1..L
      <4>1. r[i] = s[i] /\ g[i] = h[i]
        BY <2>2, <2>6, <3>2
      <4> QED
        BY <1>4, <3>2, <4>1
    <3> QED
      BY <2>3, <3>1, <3>2
  <2>9. ASSUME NEW j \in 1..n, Pruned(t[j].ages, window) # <<>>
        PROVE  \E i \in 1..(L + 1) : g[i] = j
    <3>1. CASE j = n
      BY <1>1, <2>6, <3>1
    <3>2. CASE j # n
      <4>1. j \in 1..(n - 1)
        BY <1>1, <3>2
      <4>2. PICK i \in 1..L : h[i] = j
        BY <1>4, <2>9, <4>1
      <4>3. i \in 1..(L + 1)
        BY <1>1
      <4> QED
        BY <2>6, <4>2, <4>3
    <3> QED
      BY <3>1, <3>2
  <2>10. FromTable(r, t, n, g, window)
    BY <2>2, <2>5, <2>7, <2>8, <2>9 DEF FromTable
  <2> QED
    BY <2>4, <2>10
<1> QED
  BY <1>5, <1>6

LEMMA SweptIs ==
    ASSUME NEW S, NEW limit \in Nat, NEW window \in Nat, NEW t, Table(t, S, limit, window)
    PROVE  /\ Table(Swept(t, window), S, limit, window)
           /\ \E h : FromTable(Swept(t, window), t, Len(t), h, window)
<1> DEFINE L == Len(t)
           Bucket(n) == [t[n] EXCEPT !.ages = Pruned(@, window)]
           Step(f, n) == IF n = 0 THEN <<>>
                         ELSE IF Bucket(n).ages = <<>> THEN f[n - 1] ELSE Append(f[n - 1], Bucket(n))
           Grown(f) == f = [n \in 0..L |-> Step(f, n)]
           kept == CHOOSE f : Grown(f)
           Solved(f, n) == \A k \in 0..n : f[k] = Step(f, k)
           T == {n \in Nat : \E f : Solved(f, n)}
           Good == {n \in Nat : n <= L => /\ Table(kept[n], S, limit, window)
                                          /\ \E h : FromTable(kept[n], t, n, h, window)}
<1>1. Swept(t, window) = kept[L]
  BY DEF Swept
<1>2. L \in Nat
  BY TableIs
<1> HIDE DEF Bucket
<1>3. 0 \in T
  <2> DEFINE f == [k \in {0} |-> <<>>]
  <2>1. \A k \in 0..0 : k = 0
    OBVIOUS
  <2>2. Solved(f, 0)
    BY <2>1
  <2> HIDE DEF Solved
  <2> QED
    BY <2>2
<1>4. ASSUME NEW n \in Nat, n \in T PROVE n + 1 \in T
  <2>1. PICK f : Solved(f, n)
    BY <1>4
  <2> DEFINE g == [k \in 0..(n + 1) |-> IF k = n + 1 THEN Step(f, k) ELSE f[k]]
  <2>2. \A k \in 0..n : g[k] = f[k]
    OBVIOUS
  <2>3. g[n + 1] = Step(f, n + 1)
    OBVIOUS
  <2> HIDE DEF g
  <2>4. ASSUME NEW k \in 0..(n + 1) PROVE g[k] = Step(g, k)
    <3>1. k # 0 => k - 1 \in 0..n
      OBVIOUS
    <3>2. Step(g, k) = Step(f, k)
      BY <2>2, <3>1
    <3>3. k = n + 1 \/ k \in 0..n
      OBVIOUS
    <3> HIDE DEF Step
    <3> QED
      BY <2>1, <2>2, <2>3, <3>2, <3>3
  <2>5. Solved(g, n + 1)
    BY <2>4
  <2> HIDE DEF Solved
  <2> QED
    BY <2>5
<1>5. L \in T
  <2> HIDE DEF T, L
  <2> QED
    BY <1>2, <1>3, <1>4, Induction
<1>6. PICK f : Solved(f, L)
  BY <1>5
<1>7. Grown([k \in 0..L |-> f[k]])
  <2> DEFINE g == [k \in 0..L |-> f[k]]
  <2>1. \A k \in 0..L : g[k] = f[k]
    OBVIOUS
  <2>2. \A k \in 0..L : k # 0 => k - 1 \in 0..L
    BY <1>2
  <2> HIDE DEF L
  <2>3. \A k \in 0..L : Step(g, k) = Step(f, k)
    BY <2>1, <2>2
  <2> HIDE DEF Step
  <2>4. g = [k \in 0..L |-> Step(g, k)]
    BY <1>6, <2>3
  <2> QED
    BY <2>4
<1>8. Grown(kept)
  <2> HIDE DEF Grown
  <2> QED
    BY <1>7
<1>9. \A k \in 0..L : kept[k] = Step(kept, k)
  <2> HIDE DEF kept, Step
  <2> QED
    BY <1>8
<1> HIDE DEF kept
<1>10. 0 \in Good
  <2>1. kept[0] = <<>>
    BY <1>2, <1>9
  <2>2. Table(<<>>, S, limit, window)
    BY DEF Table
  <2> DEFINE h == [i \in {} |-> 0]
  <2>3. FromTable(<<>>, t, 0, h, window)
    <3>1. DOMAIN <<>> = {} /\ 1..Len(<<>>) = {} /\ 1..0 = {}
      OBVIOUS
    <3>2. h \in [{} -> {}]
      OBVIOUS
    <3> QED
      BY <3>1, <3>2 DEF FromTable
  <2> QED
    BY <2>1, <2>2, <2>3
<1>11. ASSUME NEW n \in Nat, n \in Good PROVE n + 1 \in Good
  <2> SUFFICES ASSUME n + 1 <= L
               PROVE  /\ Table(kept[n + 1], S, limit, window)
                      /\ \E h : FromTable(kept[n + 1], t, n + 1, h, window)
    OBVIOUS
  <2>1. Table(kept[n], S, limit, window) /\ \E h : FromTable(kept[n], t, n, h, window)
    BY <1>2, <1>11
  <2>2. PICK h : FromTable(kept[n], t, n, h, window)
    BY <2>1
  <2> DEFINE m == n + 1
             b == [t[m] EXCEPT !.ages = Pruned(@, window)]
             r == IF b.ages = <<>> THEN kept[n] ELSE Append(kept[n], b)
  <2>3. m \in 1..Len(t) /\ m - 1 = n /\ m \in 0..L /\ m # 0
    BY <1>2
  <2>4. kept[m] = r
    <3>1. kept[m] = Step(kept, m)
      BY <1>9, <2>3
    <3> HIDE DEF m
    <3> QED
      BY <2>3, <3>1 DEF Bucket
  <2>5. FromTable(kept[n], t, m - 1, h, window)
    BY <2>2, <2>3
  <2> HIDE DEF m, b, r
  <2>6. Table(r, S, limit, window) /\ \E g : FromTable(r, t, m, g, window)
    BY <2>1, <2>3, <2>5, SweptStep DEF b, r
  <2> QED
    BY <2>4, <2>6 DEF m
<1>12. L \in Good
  <2> HIDE DEF Good, L
  <2> QED
    BY <1>2, <1>10, <1>11, Induction
<1> QED
  BY <1>1, <1>2, <1>12

\* A key has one bucket.
KeysDiffer(t) == \A i, j \in DOMAIN t : t[i].key = t[j].key => i = j

\* The window of a key is that of its bucket, and empty without one.
LEMMA AgesAt ==
    ASSUME NEW t, KeysDiffer(t)
    PROVE  /\ \A i \in DOMAIN t : Has(t, t[i].key) /\ AgesOf(t, t[i].key) = t[i].ages
           /\ \A k : ~Has(t, k) => AgesOf(t, k) = <<>>
<1>1. ASSUME NEW i \in DOMAIN t PROVE Has(t, t[i].key) /\ AgesOf(t, t[i].key) = t[i].ages
  <2>1. Has(t, t[i].key)
    BY DEF Has
  <2> DEFINE j == CHOOSE j \in DOMAIN t : t[j].key = t[i].key
  <2>2. j \in DOMAIN t /\ t[j].key = t[i].key
    OBVIOUS
  <2>3. j = i
    BY <2>2 DEF KeysDiffer
  <2>4. AgesOf(t, t[i].key) = t[j].ages
    BY <2>1 DEF AgesOf
  <2> QED
    BY <2>1, <2>3, <2>4
<1>2. \A k : ~Has(t, k) => AgesOf(t, k) = <<>>
  BY DEF AgesOf
<1> QED
  BY <1>1, <1>2

LEMMA AgesType ==
    ASSUME NEW S, NEW limit \in Nat, NEW window \in Nat, NEW t, Table(t, S, limit, window),
           KeysDiffer(t), NEW k
    PROVE  AgesOf(t, k) \in Seq(0..window) /\ WellAged(AgesOf(t, k), limit)
<1>1. CASE Has(t, k)
  <2>1. PICK i \in DOMAIN t : t[i].key = k
    BY <1>1 DEF Has
  <2>2. AgesOf(t, k) = t[i].ages
    BY <2>1, AgesAt
  <2> QED
    <3>1. t[i].ages \in Seq(0..window) /\ WellAged(t[i].ages, limit)
      BY <2>1, TableIs
    <3> QED
      BY <2>2, <3>1
<1>2. CASE ~Has(t, k)
  <2>1. AgesOf(t, k) = <<>>
    BY <1>2, AgesAt
  <2> QED
    BY <2>1 DEF WellAged, Sorted
<1> QED
  BY <1>1, <1>2

LEMMA InOrderDiffer ==
    ASSUME NEW S, NEW limit \in Nat, NEW window \in Nat, NEW t, Table(t, S, limit, window),
           \A a, b : Before(t, a, b) => a # b
    PROVE  KeysDiffer(t)
<1> SUFFICES ASSUME NEW i \in DOMAIN t, NEW j \in DOMAIN t, t[i].key = t[j].key, i # j
             PROVE  FALSE
  BY DEF KeysDiffer
<1>1. i \in Int /\ j \in Int
  BY TableIs
<1>2. i < j \/ j < i
  BY <1>1
<1>3. Before(t, t[i].key, t[i].key)
  BY <1>2 DEF Before
<1> QED
  BY <1>3

LEMMA PrunedEmpty ==
    ASSUME NEW window \in Nat
    PROVE  Pruned(<<>>, window) = <<>>
<1>1. <<>> \in Seq(0..window) /\ WellAged(<<>>, 0) /\ Len(<<>>) = 0
  BY DEF WellAged, Sorted
<1>2. Len(Pruned(<<>>, window)) = 0 - Gone(<<>>, window) /\ Gone(<<>>, window) \in 0..0
      /\ Pruned(<<>>, window) \in Seq(0..window)
  BY <1>1, PrunedIs
<1> QED
  BY <1>2, EmptySeq

\* A sweep keeps the order, and prunes: who has no bucket left had no live attempt.
LEMMA SweptKeeps ==
    ASSUME NEW S, NEW limit \in Nat, NEW window \in Nat, NEW t, Table(t, S, limit, window),
           KeysDiffer(t)
    PROVE  LET s == Swept(t, window)
           IN  /\ Table(s, S, limit, window) /\ KeysDiffer(s)
               /\ \A a, b : Before(s, a, b) => Before(t, a, b)
               /\ \A k : Has(s, k) => Has(t, k)
               /\ \A k : AgesOf(s, k) = Pruned(AgesOf(t, k), window)
<1> DEFINE s == Swept(t, window)
           L == Len(t)
<1>1. Table(s, S, limit, window) /\ \E h : FromTable(s, t, L, h, window)
  BY SweptIs
<1>2. PICK h : FromTable(s, t, L, h, window)
  BY <1>1
<1>3. L \in Nat /\ DOMAIN t = 1..L /\ Len(s) \in Nat /\ DOMAIN s = 1..Len(s)
  BY <1>1, TableIs
<1> HIDE DEF s
<1>4. /\ \A i \in DOMAIN s : h[i] \in DOMAIN t /\ s[i].key = t[h[i]].key
                             /\ s[i].ages = Pruned(t[h[i]].ages, window)
      /\ \A i, j \in DOMAIN s : i < j => h[i] < h[j]
      /\ \A j \in DOMAIN t : Pruned(t[j].ages, window) # <<>> => \E i \in DOMAIN s : h[i] = j
  BY <1>2, <1>3 DEF FromTable
<1>5. \A a, b : Before(s, a, b) => Before(t, a, b)
  BY <1>4 DEF Before
<1>6. \A k : Has(s, k) => Has(t, k)
  BY <1>4 DEF Has
<1>7. KeysDiffer(s)
  <2> SUFFICES ASSUME NEW i \in DOMAIN s, NEW j \in DOMAIN s, s[i].key = s[j].key, i # j
               PROVE  FALSE
    BY DEF KeysDiffer
  <2>1. h[i] = h[j]
    BY <1>4 DEF KeysDiffer
  <2>2. i < j \/ j < i
    BY <1>3
  <2>3. h[i] \in Int
    BY <1>3, <1>4
  <2> QED
    BY <1>4, <2>1, <2>2, <2>3
<1>8. ASSUME NEW k PROVE AgesOf(s, k) = Pruned(AgesOf(t, k), window)
  <2>1. CASE Has(s, k)
    <3>1. PICK i \in DOMAIN s : s[i].key = k
      BY <2>1 DEF Has
    <3>2. AgesOf(s, k) = s[i].ages
      BY <1>7, <3>1, AgesAt
    <3>3. AgesOf(t, k) = t[h[i]].ages
      BY <1>4, <3>1, AgesAt
    <3> QED
      BY <1>4, <3>1, <3>2, <3>3
  <2>2. CASE ~Has(s, k) /\ Has(t, k)
    <3>1. PICK j \in DOMAIN t : t[j].key = k
      BY <2>2 DEF Has
    <3>2. AgesOf(t, k) = t[j].ages
      BY <3>1, AgesAt
    <3>3. \A i \in DOMAIN s : h[i] # j
      BY <1>4, <2>2, <3>1 DEF Has
    <3>4. Pruned(t[j].ages, window) = <<>>
      BY <1>4, <3>3
    <3>5. AgesOf(s, k) = <<>>
      BY <1>7, <2>2, AgesAt
    <3> QED
      BY <3>2, <3>4, <3>5
  <2>3. CASE ~Has(t, k)
    <3>1. AgesOf(s, k) = <<>> /\ AgesOf(t, k) = <<>>
      BY <1>6, <1>7, <2>3, AgesAt
    <3> QED
      BY <3>1, PrunedEmpty
  <2> QED
    BY <2>1, <2>2, <2>3
<1> QED
  BY <1>1, <1>5, <1>6, <1>7, <1>8 DEF s

\* The end of a table keeps the order of the whole, and its buckets.
LEMMA EndKeeps ==
    ASSUME NEW S, NEW limit \in Nat, NEW window \in Nat, NEW t, Table(t, S, limit, window),
           KeysDiffer(t), NEW d \in 0..Len(t)
    PROVE  LET s == SubSeq(t, d + 1, Len(t))
           IN  /\ Table(s, S, limit, window) /\ KeysDiffer(s) /\ Len(s) = Len(t) - d
               /\ \A a, b : Before(s, a, b) => Before(t, a, b)
               /\ \A k : Has(s, k) => Has(t, k) /\ AgesOf(s, k) = AgesOf(t, k)
               /\ \A k : Has(t, k) /\ ~Has(s, k) => \A b : Has(s, b) => Before(t, k, b)
<1> DEFINE L == Len(t)
           s == SubSeq(t, d + 1, L)
<1>1. /\ L \in Nat /\ DOMAIN t = 1..L /\ d \in 0..L /\ t \in Seq(Buckets(S, window))
      /\ \A i \in 1..L : WellAged(t[i].ages, limit)
  BY TableIs DEF Table
<1>2. /\ s \in Seq(Buckets(S, window)) /\ Len(s) = L - d /\ DOMAIN s = 1..(L - d)
      /\ \A i \in 1..(L - d) : s[i] = t[i + d] /\ i + d \in 1..L
  <2>1. d + 1 \in Int /\ L \in Int /\ \A i \in (d + 1)..L : t[i] \in Buckets(S, window)
    BY <1>1
  <2> HIDE DEF L
  <2>2. /\ s \in Seq(Buckets(S, window))
        /\ Len(s) = IF d + 1 <= L THEN L - (d + 1) + 1 ELSE 0
        /\ \A i \in 1..(L - (d + 1) + 1) : s[i] = t[d + 1 + i - 1]
    BY <2>1, SubSeqProperties
  <2>3. Len(s) = L - d /\ \A i \in 1..(L - d) : s[i] = t[i + d] /\ i + d \in 1..L
    BY <1>1, <2>2
  <2> QED
    BY <2>2, <2>3
<1> HIDE DEF s, L
<1>3. Table(s, S, limit, window)
  BY <1>1, <1>2 DEF Table
<1>4. KeysDiffer(s)
  <2> SUFFICES ASSUME NEW i \in 1..(L - d), NEW j \in 1..(L - d), s[i].key = s[j].key
               PROVE  i = j
    BY <1>2 DEF KeysDiffer
  <2>1. i + d = j + d
    <3>1. /\ i + d \in DOMAIN t /\ j + d \in DOMAIN t
          /\ t[i + d].key = t[j + d].key
      BY <1>1, <1>2
    <3> QED
      BY <3>1 DEF KeysDiffer
  <2> QED
    BY <1>1, <2>1
<1>5. \A a, b : Before(s, a, b) => Before(t, a, b)
  <2> SUFFICES ASSUME NEW a, NEW b, NEW i \in 1..(L - d), NEW j \in 1..(L - d),
                      i < j, s[i].key = a, s[j].key = b
               PROVE  Before(t, a, b)
    BY <1>2 DEF Before
  <2>1. i + d < j + d /\ i + d \in 1..L /\ j + d \in 1..L
    BY <1>1, <1>2
  <2> QED
    BY <1>1, <1>2, <2>1 DEF Before
<1>6. ASSUME NEW k, Has(s, k) PROVE Has(t, k) /\ AgesOf(s, k) = AgesOf(t, k)
  <2>1. PICK i \in 1..(L - d) : s[i].key = k
    BY <1>2, <1>6 DEF Has
  <2>2. i + d \in DOMAIN t /\ t[i + d] = s[i]
    BY <1>1, <1>2
  <2>3. AgesOf(s, k) = s[i].ages
    BY <1>2, <1>4, <2>1, AgesAt
  <2> QED
    BY <2>1, <2>2, <2>3, AgesAt
<1>7. ASSUME NEW k, Has(t, k), ~Has(s, k), NEW b, Has(s, b) PROVE Before(t, k, b)
  <2>1. PICK i \in 1..L : t[i].key = k
    BY <1>1, <1>7 DEF Has
  <2>2. PICK j \in 1..(L - d) : s[j].key = b
    BY <1>2, <1>7 DEF Has
  <2>3. i <= d
    <3> SUFFICES ASSUME i > d PROVE FALSE
      BY <1>1
    <3>1. i - d \in 1..(L - d) /\ i - d + d = i
      BY <1>1
    <3>2. s[i - d].key = k
      BY <1>2, <2>1, <3>1
    <3> QED
      BY <1>2, <1>7, <3>1, <3>2 DEF Has
  <2>4. i < j + d /\ j + d \in 1..L /\ t[j + d].key = b
    BY <1>1, <1>2, <2>2, <2>3
  <2> QED
    BY <1>1, <2>1, <2>4 DEF Before
<1> QED
  BY <1>2, <1>3, <1>4, <1>5, <1>6, <1>7 DEF s, L

\* A full table is swept and, if need be, loses its first buckets: whoever loses a
\* live attempt was used before everyone who is left.
LEMMA EvictedKeeps ==
    ASSUME NEW S, NEW limit \in Nat, NEW window \in Nat, NEW cap \in Nat \ {0},
           NEW t, Table(t, S, limit, window), KeysDiffer(t)
    PROVE  LET e == EvictedToCap(t, cap, window)
           IN  /\ Table(e, S, limit, window) /\ KeysDiffer(e)
               /\ \A a, b : Before(e, a, b) => Before(t, a, b)
               /\ \A k : Has(e, k) => Has(t, k)
               /\ \A k : \/ AgesOf(e, k) = AgesOf(t, k)
                         \/ AgesOf(e, k) = Pruned(AgesOf(t, k), window)
                         \/ /\ AgesOf(e, k) = <<>> /\ ~Has(e, k)
                            /\ Len(e) = cap - 1
                            /\ \A b : Has(e, b) => Before(t, k, b)
<1> DEFINE e == EvictedToCap(t, cap, window)
           s == Swept(t, window)
<1>1. /\ Table(s, S, limit, window) /\ KeysDiffer(s)
      /\ \A a, b : Before(s, a, b) => Before(t, a, b)
      /\ \A k : Has(s, k) => Has(t, k)
      /\ \A k : AgesOf(s, k) = Pruned(AgesOf(t, k), window)
  BY SweptKeeps
<1>2. e = IF Len(t) < cap THEN t ELSE IF Len(s) < cap THEN s
          ELSE SubSeq(s, Len(s) - cap + 2, Len(s))
  BY DEF EvictedToCap
<1> HIDE DEF s, e
<1>3. CASE e = t
  BY <1>3 DEF e
<1>4. CASE e = s
  BY <1>1, <1>4 DEF e
<1>5. CASE e = SubSeq(s, Len(s) - cap + 2, Len(s)) /\ ~(Len(s) < cap)
  <2> DEFINE d == Len(s) - cap + 1
  <2>1. d \in 0..Len(s) /\ d + 1 = Len(s) - cap + 2 /\ Len(s) - d = cap - 1
    BY <1>1, <1>5, TableIs
  <2> HIDE DEF d
  <2>2. e = SubSeq(s, d + 1, Len(s))
    BY <1>5, <2>1
  <2>3. /\ Table(e, S, limit, window) /\ KeysDiffer(e) /\ Len(e) = Len(s) - d
        /\ \A a, b : Before(e, a, b) => Before(s, a, b)
        /\ \A k : Has(e, k) => Has(s, k) /\ AgesOf(e, k) = AgesOf(s, k)
        /\ \A k : Has(s, k) /\ ~Has(e, k) => \A b : Has(e, b) => Before(s, k, b)
    <3> DEFINE r == SubSeq(s, d + 1, Len(s))
    <3>1. Table(s, S, limit, window) /\ KeysDiffer(s) /\ d \in 0..Len(s)
      BY <1>1, <2>1
    <3>2. /\ Table(r, S, limit, window) /\ KeysDiffer(r) /\ Len(r) = Len(s) - d
          /\ \A a, b : Before(r, a, b) => Before(s, a, b)
          /\ \A k : Has(r, k) => Has(s, k) /\ AgesOf(r, k) = AgesOf(s, k)
          /\ \A k : Has(s, k) /\ ~Has(r, k) => \A b : Has(r, b) => Before(s, k, b)
      BY <3>1, EndKeeps
    <3> QED
      BY <2>2, <3>2
  <2>4. ASSUME NEW k
        PROVE  \/ AgesOf(e, k) = Pruned(AgesOf(t, k), window)
               \/ /\ AgesOf(e, k) = <<>> /\ ~Has(e, k)
                  /\ Len(e) = cap - 1
                  /\ \A b : Has(e, b) => Before(t, k, b)
    <3>1. CASE Has(e, k)
      BY <1>1, <2>3, <3>1
    <3>2. CASE ~Has(e, k)
      <4>1. AgesOf(e, k) = <<>>
        BY <2>3, <3>2, AgesAt
      <4>2. CASE Has(s, k)
        BY <1>1, <2>1, <2>3, <3>2, <4>1, <4>2
      <4>3. CASE ~Has(s, k)
        <5>1. AgesOf(s, k) = <<>>
          BY <1>1, <4>3, AgesAt
        <5> QED
          BY <1>1, <4>1, <5>1
      <4> QED
        BY <4>2, <4>3
    <3> QED
      BY <3>1, <3>2
  <2> QED
    BY <1>1, <2>3, <2>4 DEF e
<1> QED
  BY <1>2, <1>3, <1>4, <1>5

\* What a table with the bucket of a key at its end keeps of another one.
OrderKept(f, t, key) == \A a, b : Before(f, a, b) => a # key /\ (b = key \/ Before(t, a, b))
OthersKept(f, t, key) == \A k : k # key => AgesOf(f, k) = AgesOf(t, k)

\* A bucket that is put at the end of a table without one of its key.
LEMMA PutAtEnd ==
    ASSUME NEW S, NEW limit \in Nat, NEW window \in Nat,
           NEW t, Table(t, S, limit, window), KeysDiffer(t),
           NEW x \in Buckets(S, window), WellAged(x.ages, limit), ~Has(t, x.key)
    PROVE  LET f == Append(t, x)
           IN  /\ Table(f, S, limit, window) /\ KeysDiffer(f)
               /\ Len(f) = Len(t) + 1 /\ Len(f) \in DOMAIN f /\ f[Len(f)] = x
               /\ AgesOf(f, x.key) = x.ages
               /\ OrderKept(f, t, x.key) /\ OthersKept(f, t, x.key)
<1> DEFINE L == Len(t)
           f == Append(t, x)
<1>1. /\ L \in Nat /\ DOMAIN t = 1..L /\ t \in Seq(Buckets(S, window))
      /\ \A i \in 1..L : WellAged(t[i].ages, limit)
  BY TableIs DEF Table
<1>2. /\ f \in Seq(Buckets(S, window)) /\ Len(f) = L + 1 /\ DOMAIN f = 1..(L + 1)
      /\ f[L + 1] = x /\ \A i \in 1..L : f[i] = t[i]
  BY <1>1
<1> HIDE DEF L, f
<1>3. \A i \in 1..(L + 1) : i = L + 1 \/ i \in 1..L
  BY <1>1
<1>4. Table(f, S, limit, window)
  BY <1>1, <1>2, <1>3 DEF Table
<1>5. \A i \in 1..L : f[i].key # x.key
  BY <1>1, <1>2 DEF Has
<1>6. KeysDiffer(f)
  <2> SUFFICES ASSUME NEW i \in 1..(L + 1), NEW j \in 1..(L + 1), f[i].key = f[j].key
               PROVE  i = j
    BY <1>2 DEF KeysDiffer
  <2>1. CASE i \in 1..L /\ j \in 1..L
    BY <1>1, <1>2, <2>1 DEF KeysDiffer
  <2>2. CASE i = L + 1 \/ j = L + 1
    BY <1>2, <1>3, <1>5, <2>2
  <2> QED
    BY <1>3, <2>1, <2>2
<1>7. L + 1 \in DOMAIN f /\ AgesOf(f, x.key) = x.ages
  <2>1. L + 1 \in DOMAIN f
    BY <1>1, <1>2
  <2> QED
    BY <1>2, <1>6, <2>1, AgesAt
<1>8. ASSUME NEW a, NEW b, Before(f, a, b)
      PROVE  a # x.key /\ (b = x.key \/ Before(t, a, b))
  <2>1. PICK i \in 1..(L + 1), j \in 1..(L + 1) : i < j /\ f[i].key = a /\ f[j].key = b
    BY <1>2, <1>8 DEF Before
  <2>2. i \in 1..L
    BY <1>1, <2>1
  <2>3. a # x.key /\ t[i].key = a
    BY <1>2, <1>5, <2>1, <2>2
  <2>4. CASE j = L + 1
    BY <1>2, <2>1, <2>3, <2>4
  <2>5. CASE j \in 1..L
    BY <1>1, <1>2, <2>1, <2>2, <2>3, <2>5 DEF Before
  <2> QED
    BY <1>3, <2>3, <2>4, <2>5
<1>9. \A k : Has(f, k) <=> (Has(t, k) \/ k = x.key)
  <2> SUFFICES ASSUME NEW k PROVE Has(f, k) <=> (Has(t, k) \/ k = x.key)
    OBVIOUS
  <2>1. Has(f, k) <=> \E i \in 1..(L + 1) : f[i].key = k
    BY <1>2 DEF Has
  <2>2. Has(t, k) <=> \E i \in 1..L : t[i].key = k
    BY <1>1 DEF Has
  <2>3. \A i \in 1..L : i \in 1..(L + 1)
    BY <1>1
  <2> QED
    BY <1>2, <1>3, <1>7, <2>1, <2>2, <2>3
<1>10. ASSUME NEW k, k # x.key PROVE AgesOf(f, k) = AgesOf(t, k)
  <2>1. CASE Has(t, k)
    <3>1. PICK i \in 1..L : t[i].key = k
      BY <1>1, <2>1 DEF Has
    <3>2. i \in DOMAIN f /\ f[i] = t[i] /\ i \in DOMAIN t
      BY <1>1, <1>2
    <3> QED
      BY <1>6, <3>1, <3>2, AgesAt
  <2>2. CASE ~Has(t, k)
    BY <1>6, <1>9, <1>10, <2>2, AgesAt
  <2> QED
    BY <2>1, <2>2
<1> QED
  BY <1>2, <1>4, <1>6, <1>7, <1>8, <1>10 DEF L, f, OrderKept, OthersKept

\* A table that one bucket was taken out of.
LEMMA TakenOut ==
    ASSUME NEW S, NEW limit \in Nat, NEW window \in Nat,
           NEW t, Table(t, S, limit, window), KeysDiffer(t), NEW n \in DOMAIN t,
           NEW r, r = RemoveAt(t, n)
    PROVE  /\ Table(r, S, limit, window) /\ KeysDiffer(r) /\ ~Has(r, t[n].key)
           /\ \A a, b : Before(r, a, b) => Before(t, a, b)
           /\ \A k : k # t[n].key => AgesOf(r, k) = AgesOf(t, k)
<1> DEFINE L == Len(t)
           Was(i) == IF i < n THEN i ELSE i + 1
<1>1. /\ L \in Nat /\ DOMAIN t = 1..L /\ t \in Seq(Buckets(S, window)) /\ n \in 1..L
      /\ \A i \in 1..L : WellAged(t[i].ages, limit)
  BY TableIs DEF Table
<1>2. /\ r \in Seq(Buckets(S, window)) /\ Len(r) = L - 1 /\ DOMAIN r = 1..(L - 1)
      /\ \A i \in 1..(L - 1) : r[i] = t[Was(i)]
  <2> DEFINE p == SubSeq(t, 1, n - 1)
             q == SubSeq(t, n + 1, L)
  <2>1. \A i \in 1..L : t[i] \in Buckets(S, window)
    BY <1>1
  <2> HIDE DEF L
  <2>2. /\ p \in Seq(Buckets(S, window)) /\ Len(p) = n - 1
        /\ \A i \in 1..(n - 1) : p[i] = t[i]
    <3>1. 1 \in Int /\ n - 1 \in Int /\ \A i \in 1..(n - 1) : t[i] \in Buckets(S, window)
      BY <1>1, <2>1
    <3>2. /\ p \in Seq(Buckets(S, window))
          /\ Len(p) = IF 1 <= n - 1 THEN n - 1 - 1 + 1 ELSE 0
          /\ \A i \in 1..(n - 1 - 1 + 1) : p[i] = t[1 + i - 1]
      BY <3>1, SubSeqProperties
    <3> HIDE DEF p
    <3> QED
      BY <1>1, <3>2
  <2>3. /\ q \in Seq(Buckets(S, window)) /\ Len(q) = L - n
        /\ \A i \in 1..(L - n) : q[i] = t[n + i]
    <3>1. n + 1 \in Int /\ L \in Int /\ \A i \in (n + 1)..L : t[i] \in Buckets(S, window)
      BY <1>1, <2>1
    <3>2. /\ q \in Seq(Buckets(S, window))
          /\ Len(q) = IF n + 1 <= L THEN L - (n + 1) + 1 ELSE 0
          /\ \A i \in 1..(L - (n + 1) + 1) : q[i] = t[n + 1 + i - 1]
      BY <3>1, SubSeqProperties
    <3> HIDE DEF q
    <3>3. Len(q) = L - n
      BY <1>1, <3>2
    <3>4. \A i \in 1..(L - n) : i \in 1..(L - (n + 1) + 1) /\ n + 1 + i - 1 = n + i
      BY <1>1
    <3> QED
      BY <3>2, <3>3, <3>4
  <2>4. r = p \o q
    BY DEF RemoveAt, L
  <2> HIDE DEF p, q
  <2>5. /\ r \in Seq(Buckets(S, window)) /\ Len(r) = Len(p) + Len(q)
        /\ \A i \in 1..(Len(p) + Len(q)) : r[i] = IF i <= Len(p) THEN p[i] ELSE q[i - Len(p)]
    <3>1. p \in Seq(Buckets(S, window)) /\ q \in Seq(Buckets(S, window))
      BY <2>2, <2>3
    <3>2. /\ p \o q \in Seq(Buckets(S, window)) /\ Len(p \o q) = Len(p) + Len(q)
          /\ \A i \in 1..(Len(p) + Len(q)) :
               (p \o q)[i] = IF i <= Len(p) THEN p[i] ELSE q[i - Len(p)]
      BY <3>1, ConcatProperties
    <3> QED
      BY <2>4, <3>2
  <2>6. Len(r) = L - 1
    BY <1>1, <2>2, <2>3, <2>5
  <2>7. ASSUME NEW i \in 1..(L - 1) PROVE r[i] = t[Was(i)]
    <3>1. CASE i < n
      <4>1. i \in 1..(n - 1) /\ i <= Len(p) /\ i \in 1..(Len(p) + Len(q))
        BY <1>1, <2>2, <2>3, <3>1
      <4> QED
        BY <2>2, <2>5, <3>1, <4>1
    <3>2. CASE ~(i < n)
      <4>1. /\ ~(i <= Len(p)) /\ i \in 1..(Len(p) + Len(q))
            /\ i - Len(p) \in 1..(L - n) /\ n + (i - Len(p)) = i + 1
        BY <1>1, <2>2, <2>3, <3>2
      <4> QED
        BY <2>3, <2>5, <3>2, <4>1
    <3> QED
      BY <3>1, <3>2
  <2>8. DOMAIN r = 1..(L - 1)
    BY <2>5, <2>6
  <2> QED
    BY <2>5, <2>6, <2>7, <2>8
<1> HIDE DEF L
<1>3. /\ \A i \in 1..(L - 1) : Was(i) \in 1..L /\ Was(i) # n
      /\ \A i, j \in 1..(L - 1) : i < j => Was(i) < Was(j)
      /\ \A i, j \in 1..(L - 1) : Was(i) = Was(j) => i = j
      /\ \A m \in 1..L : m # n => \E i \in 1..(L - 1) : Was(i) = m
  <2>1. ASSUME NEW m \in 1..L, m # n PROVE \E i \in 1..(L - 1) : Was(i) = m
    <3>1. CASE m < n
      <4>1. m \in 1..(L - 1) /\ Was(m) = m
        BY <1>1, <3>1
      <4> QED
        BY <4>1
    <3>2. CASE m > n
      <4>1. m - 1 \in 1..(L - 1) /\ Was(m - 1) = m
        BY <1>1, <3>2
      <4> QED
        BY <4>1
    <3> QED
      BY <1>1, <2>1, <3>1, <3>2
  <2> QED
    BY <1>1, <2>1
<1> HIDE DEF Was
<1>4. Table(r, S, limit, window)
  BY <1>1, <1>2, <1>3 DEF Table
<1>5. KeysDiffer(r)
  BY <1>1, <1>2, <1>3 DEF KeysDiffer
<1>6. ~Has(r, t[n].key)
  BY <1>1, <1>2, <1>3 DEF Has, KeysDiffer
<1>7. \A a, b : Before(r, a, b) => Before(t, a, b)
  BY <1>1, <1>2, <1>3 DEF Before
<1>8. ASSUME NEW k, k # t[n].key PROVE AgesOf(r, k) = AgesOf(t, k)
  <2>1. CASE Has(t, k)
    <3>1. PICK m \in 1..L : t[m].key = k
      BY <1>1, <2>1 DEF Has
    <3>2. PICK i \in 1..(L - 1) : Was(i) = m
      BY <1>3, <1>8, <3>1
    <3>3. i \in DOMAIN r /\ r[i] = t[m] /\ m \in DOMAIN t
      BY <1>1, <1>2, <3>1, <3>2
    <3> QED
      BY <1>5, <3>1, <3>3, AgesAt
  <2>2. CASE ~Has(t, k)
    <3>1. ~Has(r, k)
      BY <1>1, <1>2, <1>3, <2>2 DEF Has
    <3> QED
      BY <1>5, <2>2, <3>1, AgesAt
  <2> QED
    BY <2>1, <2>2
<1> QED
  BY <1>4, <1>5, <1>6, <1>7, <1>8

\* A table has as many keys as buckets.
LEMMA KeysOfTable ==
    ASSUME NEW S, NEW limit \in Nat, NEW window \in Nat, NEW t, Table(t, S, limit, window),
           KeysDiffer(t)
    PROVE  \E B : /\ IsFiniteSet(B) /\ Cardinality(B) = Len(t)
                  /\ \A b : b \in B <=> Has(t, b)
<1> DEFINE B == {t[i].key : i \in DOMAIN t}
           D == 1..Len(t)
           f == [i \in D |-> t[i].key]
<1>1. Len(t) \in Nat /\ DOMAIN t = D
  BY TableIs
<1>2. \A b : b \in B <=> Has(t, b)
  BY DEF Has
<1>3. IsFiniteSet(D) /\ Cardinality(D) = Len(t)
  <2> DEFINE n == Len(t)
  <2>1. 1 \in Int /\ n \in Int
    BY <1>1
  <2> HIDE DEF n
  <2>2. IsFiniteSet(1..n) /\ Cardinality(1..n) = IF 1 > n THEN 0 ELSE n - 1 + 1
    BY <2>1, FS_Interval
  <2> QED
    BY <1>1, <2>2 DEF n
<1>4. f \in [D -> B] /\ \A b \in B : \E i \in D : f[i] = b
  BY <1>1
<1>5. \A i, j \in D : f[i] = f[j] => i = j
  BY <1>1 DEF KeysDiffer
<1> HIDE DEF f, B, D
<1>6. f \in Surjection(D, B) /\ f \in Injection(D, B)
  BY <1>4, <1>5 DEF Surjection, Injection, IsInjective
<1>7. IsFiniteSet(B) /\ Cardinality(B) = Cardinality(D)
  BY <1>3, <1>6, FS_Surjection
<1> QED
  BY <1>2, <1>3, <1>7

\* What becomes of the others' windows: only those used least recently are dropped.
KeptOrDropped(f, t, key, window, cap) ==
    \A k : k # key =>
        \/ AgesOf(f, k) = AgesOf(t, k)
        \/ AgesOf(f, k) = Pruned(AgesOf(t, k), window)
        \/ /\ AgesOf(f, k) = <<>>
           /\ \E B : /\ IsFiniteSet(B) /\ Cardinality(B) = cap - 1
                     /\ k \notin B /\ key \notin B
                     /\ \A b \in B : Before(t, k, b)

\* The bucket in hand: the key's own, at the end of the table; whoever is not in
\* the table any more was used before everyone who is left.
LEMMA FetchedIs ==
    ASSUME NEW S, NEW limit \in Nat, NEW window \in Nat, NEW cap \in Nat \ {0},
           NEW t, Table(t, S, limit, window), KeysDiffer(t), NEW key \in S,
           NEW f, f = Fetched(t, key, cap, window)
    PROVE  /\ Table(f, S, limit, window) /\ KeysDiffer(f)
           /\ Len(f) \in DOMAIN f /\ f[Len(f)].key = key
           /\ f[Len(f)].ages = AgesOf(t, key) /\ AgesOf(f, key) = AgesOf(t, key)
           /\ OrderKept(f, t, key) /\ KeptOrDropped(f, t, key, window, cap)
<1>1. CASE Has(t, key)
  <2> DEFINE n == CHOOSE n \in DOMAIN t : t[n].key = key
             r == RemoveAt(t, n)
  <2>1. n \in DOMAIN t /\ t[n].key = key
    BY <1>1 DEF Has
  <2>2. f = Append(r, t[n])
    BY <1>1 DEF Fetched, Has
  <2> HIDE DEF n
  <2>3. /\ Table(r, S, limit, window) /\ KeysDiffer(r) /\ ~Has(r, key)
        /\ \A a, b : Before(r, a, b) => Before(t, a, b)
        /\ \A k : k # key => AgesOf(r, k) = AgesOf(t, k)
    BY <2>1, TakenOut
  <2>4. t[n] \in Buckets(S, window) /\ WellAged(t[n].ages, limit) /\ t[n].ages = AgesOf(t, key)
    BY <2>1, TableIs, AgesAt
  <2> HIDE DEF r
  <2>5. /\ Table(f, S, limit, window) /\ KeysDiffer(f)
        /\ Len(f) = Len(r) + 1 /\ Len(f) \in DOMAIN f /\ f[Len(f)] = t[n]
        /\ AgesOf(f, t[n].key) = t[n].ages
        /\ OrderKept(f, r, t[n].key) /\ OthersKept(f, r, t[n].key)
    <3> DEFINE x == t[n]
    <3>1. /\ Table(r, S, limit, window) /\ KeysDiffer(r)
          /\ x \in Buckets(S, window) /\ WellAged(x.ages, limit) /\ ~Has(r, x.key)
          /\ f = Append(r, x)
      BY <2>1, <2>2, <2>3, <2>4
    <3> HIDE DEF x
    <3>2. /\ Table(f, S, limit, window) /\ KeysDiffer(f)
          /\ Len(f) = Len(r) + 1 /\ Len(f) \in DOMAIN f /\ f[Len(f)] = x
          /\ AgesOf(f, x.key) = x.ages
          /\ OrderKept(f, r, x.key) /\ OthersKept(f, r, x.key)
      <4> DEFINE g == Append(r, x)
      <4>1. /\ Table(g, S, limit, window) /\ KeysDiffer(g)
            /\ Len(g) = Len(r) + 1 /\ Len(g) \in DOMAIN g /\ g[Len(g)] = x
            /\ AgesOf(g, x.key) = x.ages
            /\ OrderKept(g, r, x.key) /\ OthersKept(g, r, x.key)
        BY <3>1, PutAtEnd
      <4> HIDE DEF g
      <4>2. f = g
        BY <3>1 DEF g
      <4> QED
        BY <4>1, <4>2
    <3> QED
      BY <3>2 DEF x
  <2> QED
    BY <2>1, <2>3, <2>4, <2>5 DEF OrderKept, OthersKept, KeptOrDropped
<1>2. CASE ~Has(t, key)
  <2> DEFINE e == EvictedToCap(t, cap, window)
             x == [key |-> key, ages |-> <<>>]
  <2>1. f = Append(e, x)
    BY <1>2 DEF Fetched, Has
  <2>2. /\ Table(e, S, limit, window) /\ KeysDiffer(e)
        /\ \A a, b : Before(e, a, b) => Before(t, a, b)
        /\ \A k : Has(e, k) => Has(t, k)
        /\ \A k : \/ AgesOf(e, k) = AgesOf(t, k)
                  \/ AgesOf(e, k) = Pruned(AgesOf(t, k), window)
                  \/ /\ AgesOf(e, k) = <<>> /\ ~Has(e, k)
                     /\ Len(e) = cap - 1
                     /\ \A b : Has(e, b) => Before(t, k, b)
    BY EvictedKeeps
  <2> HIDE DEF e
  <2>3. x \in Buckets(S, window) /\ x.key = key /\ x.ages = <<>> /\ WellAged(x.ages, limit)
    BY DEF Buckets, WellAged, Sorted
  <2> HIDE DEF x
  <2>4. ~Has(e, x.key)
    BY <1>2, <2>2, <2>3
  <2>5. /\ Table(f, S, limit, window) /\ KeysDiffer(f)
        /\ Len(f) = Len(e) + 1 /\ Len(f) \in DOMAIN f /\ f[Len(f)] = x
        /\ AgesOf(f, x.key) = x.ages
        /\ OrderKept(f, e, x.key) /\ OthersKept(f, e, x.key)
    <3>1. /\ Table(e, S, limit, window) /\ KeysDiffer(e)
          /\ x \in Buckets(S, window) /\ WellAged(x.ages, limit) /\ ~Has(e, x.key)
          /\ f = Append(e, x)
      BY <2>1, <2>2, <2>3, <2>4 DEF x
    <3> QED
      <4> DEFINE g == Append(e, x)
      <4>1. /\ Table(g, S, limit, window) /\ KeysDiffer(g)
            /\ Len(g) = Len(e) + 1 /\ Len(g) \in DOMAIN g /\ g[Len(g)] = x
            /\ AgesOf(g, x.key) = x.ages
            /\ OrderKept(g, e, x.key) /\ OthersKept(g, e, x.key)
        BY <3>1, PutAtEnd
      <4> HIDE DEF g
      <4>2. f = g
        BY <3>1 DEF g
      <4> QED
        BY <4>1, <4>2
  <2>6. AgesOf(t, key) = <<>>
    BY <1>2, AgesAt
  <2>7. PICK B : IsFiniteSet(B) /\ Cardinality(B) = Len(e) /\ \A b : b \in B <=> Has(e, b)
    BY <2>2, KeysOfTable
  <2>8. ASSUME NEW k, k # key
        PROVE  \/ AgesOf(f, k) = AgesOf(t, k)
               \/ AgesOf(f, k) = Pruned(AgesOf(t, k), window)
               \/ /\ AgesOf(f, k) = <<>>
                  /\ \E C : /\ IsFiniteSet(C) /\ Cardinality(C) = cap - 1
                            /\ k \notin C /\ key \notin C
                            /\ \A b \in C : Before(t, k, b)
    <3>1. AgesOf(f, k) = AgesOf(e, k)
      BY <2>3, <2>5, <2>8 DEF OthersKept
    <3>2. CASE /\ AgesOf(e, k) = <<>> /\ ~Has(e, k)
               /\ Len(e) = cap - 1
               /\ \A b : Has(e, b) => Before(t, k, b)
      <4>1. /\ IsFiniteSet(B) /\ Cardinality(B) = cap - 1
            /\ k \notin B /\ key \notin B
            /\ \A b \in B : Before(t, k, b)
        BY <2>3, <2>4, <2>7, <3>2
      <4> QED
        BY <3>1, <3>2, <4>1
    <3> QED
      BY <2>2, <3>1, <3>2
  <2> QED
    BY <2>2, <2>3, <2>5, <2>6, <2>8 DEF OrderKept, KeptOrDropped
<1> QED
  BY <1>1, <1>2

\* What a log consists of.
LEMMA LogIs ==
    ASSUME NEW S, NEW log, Logged(log, S)
    PROVE  /\ Len(log) \in Nat /\ DOMAIN log = 1..Len(log)
           /\ \A n \in DOMAIN log : /\ log[n] \in Entries(S) /\ log[n].key \in S /\ log[n].age \in Nat
                                    /\ log[n].used \in BOOLEAN /\ log[n].counted \in BOOLEAN
<1>1. DOMAIN log = 1..Len(log) /\ \A n \in DOMAIN log : log[n] \in Entries(S)
  BY DEF Logged
<1> QED
  BY <1>1 DEF Entries, Logged

LEMMA SeenIsFinite ==
    ASSUME NEW S, NEW log, Logged(log, S), NEW n
    PROVE  IsFiniteSet(SeenSince(log, n))
<1> DEFINE D == {m \in DOMAIN log : m >= n}
           f == [m \in D |-> log[m].key]
<1>1. IsFiniteSet(DOMAIN log)
  <2> DEFINE L == Len(log)
  <2>1. 1 \in Int /\ L \in Int /\ DOMAIN log = 1..L
    BY LogIs
  <2> HIDE DEF L
  <2> QED
    BY <2>1, FS_Interval
<1>2. IsFiniteSet(D)
  BY <1>1, FS_Subset
<1>3. f \in [D -> SeenSince(log, n)] /\ \A b \in SeenSince(log, n) : \E m \in D : f[m] = b
  BY DEF SeenSince
<1> HIDE DEF D, f
<1>4. f \in Surjection(D, SeenSince(log, n))
  BY <1>3 DEF Surjection
<1> QED
  BY <1>2, <1>4, FS_Surjection

\* One try more: the log, and what it counts.
LEMMA LogAppended ==
    ASSUME NEW S, NEW log, Logged(log, S),
           NEW x \in Entries(S), x.age = 0, x.counted => x.used
    PROVE  LET new == Append(log, x)
               L == Len(log)
           IN  /\ Logged(new, S) /\ Len(new) = L + 1 /\ DOMAIN new = 1..(L + 1)
               /\ new[L + 1] = x /\ \A n \in DOMAIN log : new[n] = log[n] /\ n \in DOMAIN new
               /\ \A n \in DOMAIN new : n = L + 1 \/ n \in DOMAIN log
               /\ \A n \in DOMAIN log : n # L + 1 /\ n < L + 1
<1> DEFINE new == Append(log, x)
           L == Len(log)
<1>1. L \in Nat /\ DOMAIN log = 1..L /\ log \in Seq(Entries(S))
  BY LogIs DEF Logged
<1>2. /\ new \in Seq(Entries(S)) /\ Len(new) = L + 1 /\ DOMAIN new = 1..(L + 1)
      /\ new[L + 1] = x /\ \A n \in 1..L : new[n] = log[n]
  BY <1>1
<1> HIDE DEF new, L
<1>3. \A n \in 1..(L + 1) : n = L + 1 \/ n \in 1..L
  BY <1>1
<1>4. \A n \in 1..L : n # L + 1 /\ n < L + 1 /\ n \in 1..(L + 1)
  BY <1>1
<1>5. \A i, j \in 1..(L + 1) : i < j => new[i].age >= new[j].age
  <2> SUFFICES ASSUME NEW i \in 1..(L + 1), NEW j \in 1..(L + 1), i < j
               PROVE  new[i].age >= new[j].age
    OBVIOUS
  <2>1. i \in 1..L
    BY <1>1
  <2>2. log[i].age \in Nat /\ new[i] = log[i]
    BY <1>1, <1>2, <2>1, LogIs
  <2>3. CASE j = L + 1
    BY <1>2, <2>2, <2>3
  <2>4. CASE j \in 1..L
    BY <1>1, <1>2, <2>1, <2>4 DEF Logged
  <2> QED
    BY <1>3, <2>3, <2>4
<1>6. \A n \in 1..(L + 1) : new[n].counted => new[n].used
  BY <1>1, <1>2, <1>3 DEF Logged
<1>7. Logged(new, S)
  BY <1>2, <1>5, <1>6 DEF Logged
<1> QED
  BY <1>1, <1>2, <1>3, <1>4, <1>7 DEF new, L

\* More tries do not undo a crowd.
LEMMA CrowdedStays ==
    ASSUME NEW S, NEW log, Logged(log, S),
           NEW x \in Entries(S), x.age = 0, x.counted => x.used,
           NEW n \in DOMAIN log, NEW cap \in Nat, Crowded(log, n, cap)
    PROVE  Crowded(Append(log, x), n, cap)
<1> DEFINE new == Append(log, x)
<1>1. Logged(new, S) /\ \A m \in DOMAIN log : new[m] = log[m] /\ m \in DOMAIN new
  BY LogAppended
<1> HIDE DEF new
<1>2. SeenSince(log, n) \subseteq SeenSince(new, n)
  BY <1>1 DEF SeenSince
<1>3. IsFiniteSet(SeenSince(log, n)) /\ IsFiniteSet(SeenSince(new, n))
  BY <1>1, SeenIsFinite
<1>4. /\ Cardinality(SeenSince(log, n)) <= Cardinality(SeenSince(new, n))
      /\ Cardinality(SeenSince(log, n)) \in Nat /\ Cardinality(SeenSince(new, n)) \in Nat
  BY <1>2, <1>3, FS_Subset, FS_CardinalityType
<1>5. Cardinality(SeenSince(log, n)) > cap
  BY DEF Crowded
<1>6. Cardinality(SeenSince(new, n)) > cap
  BY <1>4, <1>5
<1> QED
  BY <1>6 DEF new, Crowded

\* A try that is not counted against a key does not change what is kept of it.
LEMMA KeptByOthers ==
    ASSUME NEW S, NEW log, Logged(log, S),
           NEW x \in Entries(S), x.age = 0, x.counted => x.used,
           NEW cap \in Nat, NEW window \in Nat, NEW k, ~(x.counted /\ x.key = k),
           NEW ages, Kept(ages, log, k, window, cap)
    PROVE  Kept(ages, Append(log, x), k, window, cap)
<1> DEFINE new == Append(log, x)
           L == Len(log)
<1>1. /\ new[L + 1] = x /\ \A n \in DOMAIN log : new[n] = log[n] /\ n \in DOMAIN new
      /\ \A n \in DOMAIN new : n = L + 1 \/ n \in DOMAIN log
  BY LogAppended
<1>2. \A n \in DOMAIN log : Crowded(log, n, cap) => Crowded(new, n, cap)
  BY CrowdedStays
<1> HIDE DEF new, L
<1>3. Counted(new, k, window) = Counted(log, k, window)
  BY <1>1 DEF Counted
<1>4. PICK c : Matches(c, ages, log, k, window, cap)
  BY DEF Kept
<1>5. \A n \in Counted(log, k, window) : n \in DOMAIN log /\ new[n] = log[n]
  BY <1>1 DEF Counted
<1>6. Matches(c, ages, new, k, window, cap)
  BY <1>2, <1>3, <1>4, <1>5 DEF Matches
<1> QED
  BY <1>6 DEF Kept, new

\* A try that is counted, and recorded in the window.
LEMMA KeptRecorded ==
    ASSUME NEW S, NEW log, Logged(log, S),
           NEW x \in Entries(S), x.age = 0, x.counted, x.used,
           NEW cap \in Nat, NEW window \in Nat \ {0},
           NEW ages \in Seq(0..window), Kept(ages, log, x.key, window, cap)
    PROVE  Kept(Append(ages, 0), Append(log, x), x.key, window, cap)
<1> DEFINE new == Append(log, x)
           L == Len(log)
           k == x.key
           N == Len(ages)
           more == Append(ages, 0)
<1>1. /\ new[L + 1] = x /\ L + 1 \in DOMAIN new
      /\ \A n \in DOMAIN log : new[n] = log[n] /\ n \in DOMAIN new
      /\ \A n \in DOMAIN new : n = L + 1 \/ n \in DOMAIN log
      /\ \A n \in DOMAIN log : n # L + 1
  <2>1. Len(log) \in Nat
    BY LogIs
  <2>2. x.counted => x.used
    OBVIOUS
  <2>3. /\ new[L + 1] = x /\ DOMAIN new = 1..(L + 1)
        /\ \A n \in DOMAIN log : new[n] = log[n] /\ n \in DOMAIN new
        /\ \A n \in DOMAIN new : n = L + 1 \/ n \in DOMAIN log
        /\ \A n \in DOMAIN log : n # L + 1 /\ n < L + 1
    BY <2>2, LogAppended
  <2> HIDE DEF new
  <2> QED
    BY <2>1, <2>3
<1>2. \A n \in DOMAIN log : Crowded(log, n, cap) => Crowded(new, n, cap)
  BY CrowdedStays
<1> HIDE DEF new, L, k
<1>3. Counted(new, k, window) = Counted(log, k, window) \cup {L + 1}
  BY <1>1 DEF Counted, k
<1>4. PICK c : Matches(c, ages, log, k, window, cap)
  BY DEF Kept, k
<1>5. \A n \in Counted(log, k, window) : n \in DOMAIN log /\ new[n] = log[n] /\ n # L + 1
  BY <1>1 DEF Counted
<1>6. /\ N \in Nat /\ DOMAIN ages = 1..N /\ DOMAIN more = 1..(N + 1)
      /\ more[N + 1] = 0 /\ \A j \in 1..N : more[j] = ages[j]
  BY DEF more, N
<1> HIDE DEF more, N
<1> DEFINE d == [j \in 1..(N + 1) |-> IF j = N + 1 THEN L + 1 ELSE c[j]]
<1>7. /\ \A j \in 1..(N + 1) : j = N + 1 \/ j \in 1..N
      /\ \A j \in 1..N : j # N + 1 /\ j \in 1..(N + 1)
      /\ N + 1 \in 1..(N + 1)
  BY <1>6
<1>8. d[N + 1] = L + 1 /\ \A j \in 1..N : d[j] = c[j]
  BY <1>7
<1> HIDE DEF d
<1>9. /\ Live(more, window) = Live(ages, window) \cup {N + 1}
      /\ \A j \in Live(ages, window) : j \in 1..N
  BY <1>6, <1>7 DEF Live
<1>10. \A j \in Live(more, window) : d[j] \in Counted(new, k, window) /\ new[d[j]].age = more[j]
  <2> SUFFICES ASSUME NEW j \in Live(more, window)
               PROVE  d[j] \in Counted(new, k, window) /\ new[d[j]].age = more[j]
    OBVIOUS
  <2>1. CASE j = N + 1
    BY <1>1, <1>3, <1>6, <1>8, <2>1
  <2>2. CASE j \in Live(ages, window)
    BY <1>3, <1>4, <1>5, <1>6, <1>8, <1>9, <2>2 DEF Matches
  <2> QED
    BY <1>9, <2>1, <2>2
<1>11. \A i, j \in Live(more, window) : d[i] = d[j] => i = j
  <2> SUFFICES ASSUME NEW i \in Live(more, window), NEW j \in Live(more, window), d[i] = d[j]
               PROVE  i = j
    OBVIOUS
  <2>1. \A m \in Live(ages, window) : d[m] = c[m] /\ d[m] # L + 1
    BY <1>4, <1>5, <1>8, <1>9 DEF Matches
  <2>2. CASE i \in Live(ages, window) /\ j \in Live(ages, window)
    BY <1>4, <2>1, <2>2 DEF Matches
  <2>3. CASE i = N + 1 \/ j = N + 1
    BY <1>8, <1>9, <2>1, <2>3
  <2> QED
    BY <1>9, <2>2, <2>3
<1>12. \A n \in Counted(new, k, window) :
          Crowded(new, n, cap) \/ \E j \in Live(more, window) : d[j] = n
  <2> SUFFICES ASSUME NEW n \in Counted(new, k, window), ~Crowded(new, n, cap)
               PROVE  \E j \in Live(more, window) : d[j] = n
    OBVIOUS
  <2>1. CASE n = L + 1
    BY <1>8, <1>9, <2>1
  <2>2. CASE n \in Counted(log, k, window)
    <3>1. ~Crowded(log, n, cap)
      BY <1>2, <1>5, <2>2
    <3>2. PICK j \in Live(ages, window) : c[j] = n
      BY <1>4, <2>2, <3>1 DEF Matches
    <3> QED
      BY <1>8, <1>9, <3>2
  <2> QED
    BY <1>3, <2>1, <2>2
<1>13. Matches(d, more, new, k, window, cap)
  BY <1>10, <1>11, <1>12 DEF Matches
<1> QED
  BY <1>13 DEF Kept, new, more, k

\* A window that was dropped: more keys than there is room for have tried since
\* each of its tries, those that were in the table behind it and the new one.
LEMMA KeptDropped ==
    ASSUME NEW S, NEW log, Logged(log, S),
           NEW x \in Entries(S), x.age = 0, x.counted => x.used,
           NEW cap \in Nat \ {0}, NEW window \in Nat, NEW k, k # x.key,
           NEW t, InOrder(t, log),
           NEW B, IsFiniteSet(B), Cardinality(B) = cap - 1, k \notin B, x.key \notin B,
           \A b \in B : Before(t, k, b)
    PROVE  Kept(<<>>, Append(log, x), k, window, cap)
<1> DEFINE new == Append(log, x)
           L == Len(log)
<1>1. /\ Logged(new, S) /\ new[L + 1] = x /\ L + 1 \in DOMAIN new
      /\ \A n \in DOMAIN log : new[n] = log[n] /\ n \in DOMAIN new
      /\ \A n \in DOMAIN new : n = L + 1 \/ n \in DOMAIN log
      /\ \A n \in DOMAIN log : n < L + 1 /\ n \in Int
  <2>1. Len(log) \in Nat /\ DOMAIN log = 1..Len(log)
    BY LogIs
  <2>2. /\ Logged(new, S) /\ new[L + 1] = x /\ DOMAIN new = 1..(L + 1)
        /\ \A n \in DOMAIN log : new[n] = log[n] /\ n \in DOMAIN new
        /\ \A n \in DOMAIN new : n = L + 1 \/ n \in DOMAIN log
        /\ \A n \in DOMAIN log : n # L + 1 /\ n < L + 1
    BY LogAppended
  <2> HIDE DEF new
  <2> QED
    BY <2>1, <2>2
<1>2. L \in Nat
  BY LogIs
<1> HIDE DEF new, L
<1>3. ASSUME NEW n \in Counted(new, k, window) PROVE Crowded(new, n, cap)
  <2>1. n \in DOMAIN log /\ new[n] = log[n] /\ log[n].key = k /\ log[n].used
    BY <1>1 DEF Counted, Logged
  <2>2. ASSUME NEW b \in B PROVE b \in SeenSince(new, n)
    <3>1. PICK m \in DOMAIN log : m > n /\ log[m].key = b
      BY <2>1, <2>2 DEF InOrder
    <3>2. m \in DOMAIN new /\ m >= n /\ new[m].key = b
      BY <1>1, <2>1, <3>1
    <3> QED
      BY <3>2 DEF SeenSince
  <2>3. k \in SeenSince(new, n)
    <3>1. n \in DOMAIN new /\ n >= n /\ new[n].key = k
      BY <1>1, <2>1
    <3> QED
      BY <3>1 DEF SeenSince
  <2>4. x.key \in SeenSince(new, n)
    <3>1. L + 1 >= n
      BY <1>1, <1>2, <2>1
    <3> QED
      BY <1>1, <3>1 DEF SeenSince
  <2> DEFINE C == B \cup {k}
             D == C \cup {x.key}
             y == x.key
  <2>5. IsFiniteSet(C) /\ Cardinality(C) = Cardinality(B) + 1
    BY FS_AddElement
  <2>6. IsFiniteSet(D) /\ Cardinality(D) = Cardinality(C) + 1
    <3>1. x.key \notin C
      OBVIOUS
    <3> HIDE DEF C
    <3> QED
      BY <2>5, <3>1, FS_AddElement
  <2>7. Cardinality(D) = cap + 1
    BY <2>5, <2>6
  <2>8. D \subseteq SeenSince(new, n)
    BY <2>2, <2>3, <2>4
  <2>9. IsFiniteSet(SeenSince(new, n))
    BY <1>1, SeenIsFinite
  <2> HIDE DEF D
  <2>10. /\ Cardinality(D) <= Cardinality(SeenSince(new, n))
         /\ Cardinality(SeenSince(new, n)) \in Nat
    BY <2>8, <2>9, FS_Subset, FS_CardinalityType
  <2>11. Cardinality(SeenSince(new, n)) > cap
    BY <2>7, <2>10
  <2> QED
    BY <2>11 DEF Crowded
<1>4. Live(<<>>, window) = {}
  BY DEF Live
<1>5. Matches(<<>>, <<>>, new, k, window, cap)
  BY <1>3, <1>4 DEF Matches
<1> QED
  BY <1>5 DEF Kept, new

\* The order of the buckets, when the bucket of the new try is moved to the end.
LEMMA OrderRecorded ==
    ASSUME NEW S, NEW log, Logged(log, S),
           NEW x \in Entries(S), x.age = 0, x.used,
           NEW t, InOrder(t, log), NEW f, OrderKept(f, t, x.key)
    PROVE  InOrder(f, Append(log, x))
<1> DEFINE new == Append(log, x)
           L == Len(log)
<1>1. /\ new[L + 1] = x /\ L + 1 \in DOMAIN new
      /\ \A n \in DOMAIN log : new[n] = log[n] /\ n \in DOMAIN new
      /\ \A n \in DOMAIN new : n = L + 1 \/ n \in DOMAIN log
      /\ \A n \in DOMAIN log : n < L + 1
  <2>1. Len(log) \in Nat /\ (x.counted => x.used)
    BY LogIs
  <2>2. /\ new[L + 1] = x /\ DOMAIN new = 1..(L + 1)
        /\ \A n \in DOMAIN log : new[n] = log[n] /\ n \in DOMAIN new
        /\ \A n \in DOMAIN new : n = L + 1 \/ n \in DOMAIN log
        /\ \A n \in DOMAIN log : n # L + 1 /\ n < L + 1
    BY <2>1, LogAppended
  <2> HIDE DEF new
  <2> QED
    BY <2>1, <2>2
<1>2. L \in Nat /\ DOMAIN log = 1..L
  BY LogIs
<1> HIDE DEF new, L
<1>3. ASSUME NEW a, NEW b, Before(f, a, b),
             NEW n \in DOMAIN new, new[n].used, new[n].key = a
      PROVE  \E m \in DOMAIN new : m > n /\ new[m].used /\ new[m].key = b
  <2>1. a # x.key /\ (b = x.key \/ Before(t, a, b))
    BY <1>3 DEF OrderKept
  <2>2. n \in DOMAIN log /\ log[n].used /\ log[n].key = a
    BY <1>1, <1>3, <2>1
  <2>3. CASE b = x.key
    <3>1. L + 1 > n
      BY <1>1, <1>2, <2>2
    <3> QED
      BY <1>1, <2>3, <3>1
  <2>4. CASE Before(t, a, b)
    <3>1. PICK m \in DOMAIN log : m > n /\ log[m].used /\ log[m].key = b
      BY <2>2, <2>4 DEF InOrder
    <3> QED
      BY <1>1, <3>1
  <2> QED
    BY <2>1, <2>3, <2>4
<1>4. \A a, b : Before(f, a, b) => a # b
  BY DEF OrderKept, InOrder
<1> QED
  BY <1>3, <1>4 DEF InOrder, new

\* A try that the limit is not asked about leaves the order alone.
LEMMA OrderUnasked ==
    ASSUME NEW S, NEW log, Logged(log, S),
           NEW x \in Entries(S), x.age = 0, ~x.used, ~x.counted,
           NEW t, InOrder(t, log)
    PROVE  InOrder(t, Append(log, x))
<1> DEFINE new == Append(log, x)
           L == Len(log)
<1>1. /\ new[L + 1] = x
      /\ \A n \in DOMAIN log : new[n] = log[n] /\ n \in DOMAIN new
      /\ \A n \in DOMAIN new : n = L + 1 \/ n \in DOMAIN log
  BY LogAppended
<1> HIDE DEF new, L
<1>2. ASSUME NEW a, NEW b, Before(t, a, b),
             NEW n \in DOMAIN new, new[n].used, new[n].key = a
      PROVE  \E m \in DOMAIN new : m > n /\ new[m].used /\ new[m].key = b
  <2>1. n \in DOMAIN log /\ log[n].used /\ log[n].key = a
    BY <1>1, <1>2
  <2>2. PICK m \in DOMAIN log : m > n /\ log[m].used /\ log[m].key = b
    BY <1>2, <2>1 DEF InOrder
  <2> QED
    BY <1>1, <2>2
<1> QED
  BY <1>2 DEF InOrder, new

LEMMA OrderOfPart ==
    ASSUME NEW log, NEW t, InOrder(t, log), NEW s, \A a, b : Before(s, a, b) => Before(t, a, b)
    PROVE  InOrder(s, log)
<1> QED
  BY DEF InOrder

\* What a sound table says of its keys, its order and its windows.
LEMMA SoundIs ==
    ASSUME NEW S, NEW limit \in Nat, NEW window \in Nat, NEW cap, NEW t, NEW log,
           Sound(t, log, S, limit, window, cap)
    PROVE  /\ Table(t, S, limit, window) /\ InOrder(t, log) /\ KeysDiffer(t)
           /\ \A k \in S : /\ AgesOf(t, k) \in Seq(0..window) /\ WellAged(AgesOf(t, k), limit)
                           /\ Kept(AgesOf(t, k), log, k, window, cap)
<1>1. /\ Table(t, S, limit, window) /\ InOrder(t, log)
      /\ \A k \in S : Kept(AgesOf(t, k), log, k, window, cap)
  BY DEF Sound
<1>2. \A a, b : Before(t, a, b) => a # b
  BY <1>1 DEF InOrder
<1>3. KeysDiffer(t)
  BY <1>1, <1>2, InOrderDiffer
<1>4. \A k \in S : AgesOf(t, k) \in Seq(0..window) /\ WellAged(AgesOf(t, k), limit)
  BY <1>1, <1>3, AgesType
<1> QED
  BY <1>1, <1>3, <1>4

\* A sweep keeps a table sound.
LEMMA SweptSound ==
    ASSUME NEW S, NEW limit \in Nat, NEW window \in Nat, NEW cap, NEW t, NEW log,
           Sound(t, log, S, limit, window, cap)
    PROVE  Sound(Swept(t, window), log, S, limit, window, cap)
<1> DEFINE s == Swept(t, window)
<1>1. /\ Table(t, S, limit, window) /\ InOrder(t, log) /\ KeysDiffer(t)
      /\ \A k \in S : /\ AgesOf(t, k) \in Seq(0..window) /\ WellAged(AgesOf(t, k), limit)
                      /\ Kept(AgesOf(t, k), log, k, window, cap)
  BY SoundIs
<1>2. /\ Table(s, S, limit, window)
      /\ \A a, b : Before(s, a, b) => Before(t, a, b)
      /\ \A k : AgesOf(s, k) = Pruned(AgesOf(t, k), window)
  <2>1. Table(t, S, limit, window) /\ KeysDiffer(t)
    BY <1>1
  <2>2. /\ Table(s, S, limit, window) /\ KeysDiffer(s)
        /\ \A a, b : Before(s, a, b) => Before(t, a, b)
        /\ \A k : Has(s, k) => Has(t, k)
        /\ \A k : AgesOf(s, k) = Pruned(AgesOf(t, k), window)
    BY <2>1, SweptKeeps
  <2> QED
    BY <2>2
<1> HIDE DEF s
<1>3. InOrder(s, log)
  BY <1>1, <1>2, OrderOfPart
<1>4. \A k \in S : Kept(AgesOf(s, k), log, k, window, cap)
  BY <1>1, <1>2, KeptPruned
<1> QED
  BY <1>2, <1>3, <1>4 DEF Sound, s

\* A try that the limit is not asked about keeps its table sound.
LEMMA UnaskedSound ==
    ASSUME NEW S, NEW limit \in Nat, NEW window \in Nat, NEW cap \in Nat, NEW t, NEW log,
           Sound(t, log, S, limit, window, cap), Logged(log, S),
           NEW x \in Entries(S), x.age = 0, ~x.used, ~x.counted
    PROVE  Sound(t, Append(log, x), S, limit, window, cap)
<1>1. InOrder(t, Append(log, x))
  BY OrderUnasked DEF Sound
<1>2. ASSUME NEW k \in S PROVE Kept(AgesOf(t, k), Append(log, x), k, window, cap)
  <2>1. Kept(AgesOf(t, k), log, k, window, cap)
    BY DEF Sound
  <2> QED
    BY <2>1, KeptByOthers
<1> QED
  BY <1>1, <1>2 DEF Sound

\* What recording an attempt makes of a window.
LEMMA AttemptedIs ==
    ASSUME NEW limit \in Nat, NEW window \in Nat, NEW ages \in Seq(0..window), WellAged(ages, limit)
    PROVE  /\ Attempted(ages, limit, window) \in Seq(0..window)
           /\ WellAged(Attempted(ages, limit, window), limit)
           /\ Attempted(ages, limit, window) = IF HasRoom(ages, limit, window)
                                               THEN Append(Pruned(ages, window), 0)
                                               ELSE Pruned(ages, window)
<1> DEFINE p == Pruned(ages, window)
           N == Len(p)
<1>1. p \in Seq(0..window) /\ WellAged(p, limit)
  BY PrunedIs
<1>2. Attempted(ages, limit, window) = IF HasRoom(ages, limit, window) THEN Append(p, 0) ELSE p
  BY DEF Attempted, HasRoom
<1>3. HasRoom(ages, limit, window) <=> N < limit
  BY DEF HasRoom
<1> HIDE DEF p
<1>4. CASE N < limit
  <2> DEFINE q == Append(p, 0)
  <2>1. /\ N \in Nat /\ DOMAIN p = 1..N /\ q \in Seq(0..window) /\ Len(q) = N + 1
        /\ DOMAIN q = 1..(N + 1) /\ q[N + 1] = 0 /\ \A j \in 1..N : q[j] = p[j] /\ p[j] \in 0..window
    BY <1>1
  <2> HIDE DEF q, N
  <2>2. Len(q) <= limit
    BY <1>4, <2>1
  <2>3. ASSUME NEW i \in 1..(N + 1), NEW j \in 1..(N + 1), i < j PROVE q[i] >= q[j]
    <3>1. i \in 1..N
      BY <2>1, <2>3
    <3>2. q[i] = p[i] /\ p[i] \in 0..window
      BY <2>1, <3>1
    <3>3. CASE j = N + 1
      BY <2>1, <3>2, <3>3
    <3>4. CASE j # N + 1
      <4>1. j \in 1..N
        BY <2>1, <3>4
      <4> QED
        BY <1>1, <2>1, <2>3, <3>1, <4>1 DEF WellAged, Sorted
    <3> QED
      BY <3>3, <3>4
  <2>4. WellAged(q, limit)
    BY <2>1, <2>2, <2>3 DEF WellAged, Sorted
  <2> QED
    BY <1>2, <1>3, <1>4, <2>1, <2>4 DEF q, p
<1>5. CASE ~(N < limit)
  <2> HIDE DEF N
  <2> QED
    BY <1>1, <1>2, <1>3, <1>5 DEF p
<1> QED
  BY <1>4, <1>5

\* The attempt is recorded in the last bucket, and nothing else changes.
LEMMA RecordedIs ==
    ASSUME NEW S, NEW limit \in Nat, NEW window \in Nat,
           NEW f, Table(f, S, limit, window), KeysDiffer(f), Len(f) \in DOMAIN f,
           NEW r, r = RecordedLast(f, limit, window)
    PROVE  /\ Table(r, S, limit, window)
           /\ \A a, b : Before(r, a, b) <=> Before(f, a, b)
           /\ AgesOf(r, f[Len(f)].key) = Attempted(LastAges(f), limit, window)
           /\ \A k : k # f[Len(f)].key => AgesOf(r, k) = AgesOf(f, k)
<1> DEFINE N == Len(f)
           b == f[N]
           c == [b EXCEPT !.ages = Attempted(@, limit, window)]
<1>1. /\ N \in Nat /\ DOMAIN f = 1..N /\ N \in 1..N /\ f \in Seq(Buckets(S, window))
      /\ \A i \in 1..N : WellAged(f[i].ages, limit)
      /\ b \in Buckets(S, window) /\ b.ages \in Seq(0..window) /\ WellAged(b.ages, limit)
  BY TableIs DEF Table
<1>2. r = [f EXCEPT ![N] = c]
  BY DEF RecordedLast
<1>3. c \in Buckets(S, window) /\ c.key = b.key /\ c.ages = Attempted(b.ages, limit, window)
      /\ WellAged(c.ages, limit)
  <2> DEFINE d == Attempted(b.ages, limit, window)
  <2>1. d \in Seq(0..window) /\ WellAged(d, limit)
    BY <1>1, AttemptedIs
  <2>2. c = [b EXCEPT !.ages = d]
    OBVIOUS
  <2> HIDE DEF d, c, b
  <2>3. [b EXCEPT !.ages = d] \in Buckets(S, window)
    BY <1>1, <2>1 DEF Buckets
  <2>4. [b EXCEPT !.ages = d].key = b.key /\ [b EXCEPT !.ages = d].ages = d
    BY <1>1 DEF Buckets
  <2> QED
    BY <2>1, <2>2, <2>3, <2>4 DEF d
<1> HIDE DEF c
<1>4. /\ r \in Seq(Buckets(S, window)) /\ DOMAIN r = 1..N /\ r[N] = c
      /\ \A i \in 1..N : i # N => r[i] = f[i]
  <2> HIDE DEF N, b
  <2>1. r \in Seq(Buckets(S, window)) /\ Len(r) = Len(f)
    BY <1>1, <1>2, <1>3
  <2> QED
    BY <1>1, <1>2, <2>1
<1>5. \A i \in 1..N : r[i].key = f[i].key
  BY <1>3, <1>4
<1>6. \A i \in 1..N : WellAged(r[i].ages, limit)
  BY <1>1, <1>3, <1>4
<1>7. Table(r, S, limit, window)
  BY <1>4, <1>6 DEF Table
<1>8. KeysDiffer(r)
  BY <1>1, <1>4, <1>5 DEF KeysDiffer
<1>9. \A m, n : Before(r, m, n) <=> Before(f, m, n)
  <2> SUFFICES ASSUME NEW m, NEW n PROVE Before(r, m, n) <=> Before(f, m, n)
    OBVIOUS
  <2>1. Before(r, m, n) <=> \E i, j \in 1..N : i < j /\ r[i].key = m /\ r[j].key = n
    BY <1>4 DEF Before
  <2>2. Before(f, m, n) <=> \E i, j \in 1..N : i < j /\ f[i].key = m /\ f[j].key = n
    BY <1>1 DEF Before
  <2> HIDE DEF N, b
  <2> QED
    BY <1>5, <2>1, <2>2
<1>10. AgesOf(r, b.key) = Attempted(LastAges(f), limit, window)
  BY <1>1, <1>3, <1>4, <1>8, AgesAt DEF LastAges
<1>11. ASSUME NEW k, k # b.key PROVE AgesOf(r, k) = AgesOf(f, k)
  <2>1. CASE Has(f, k)
    <3>1. PICK i \in 1..N : f[i].key = k
      BY <1>1, <2>1 DEF Has
    <3>2. i # N /\ r[i] = f[i]
      BY <1>4, <1>11, <3>1
    <3>3. i \in DOMAIN f /\ i \in DOMAIN r
      BY <1>1, <1>4
    <3>4. AgesOf(f, k) = f[i].ages
      BY <3>1, <3>3, AgesAt
    <3>5. AgesOf(r, k) = r[i].ages
      BY <1>8, <3>1, <3>2, <3>3, AgesAt
    <3> QED
      BY <3>2, <3>4, <3>5
  <2>2. CASE ~Has(f, k)
    <3>1. ~Has(r, k)
      BY <1>1, <1>4, <1>5, <2>2 DEF Has
    <3> QED
      BY <1>8, <2>2, <3>1, AgesAt
  <2> QED
    BY <2>1, <2>2
<1> QED
  BY <1>7, <1>9, <1>10, <1>11

\* A try that the limit is asked about.
LEMMA TrySound ==
    ASSUME NEW S, NEW limit \in Nat, NEW window \in Nat \ {0}, NEW cap \in Nat \ {0},
           NEW t, NEW log, Sound(t, log, S, limit, window, cap), Logged(log, S),
           NEW x \in Entries(S), x.age = 0, x.used,
           NEW f, f = Fetched(t, x.key, cap, window),
           x.counted <=> HasRoom(LastAges(f), limit, window)
    PROVE  Sound(RecordedLast(f, limit, window), Append(log, x), S, limit, window, cap)
<1> DEFINE r == RecordedLast(f, limit, window)
           new == Append(log, x)
           y == x.key
<1>1. /\ Table(t, S, limit, window) /\ InOrder(t, log) /\ KeysDiffer(t)
      /\ \A k \in S : /\ AgesOf(t, k) \in Seq(0..window) /\ WellAged(AgesOf(t, k), limit)
                      /\ Kept(AgesOf(t, k), log, k, window, cap)
  BY SoundIs
<1>2. y \in S /\ x.counted \in BOOLEAN
  BY DEF Entries
<1>3. f = Fetched(t, y, cap, window)
  OBVIOUS
<1> HIDE DEF y
<1>4. /\ Table(f, S, limit, window) /\ KeysDiffer(f)
      /\ Len(f) \in DOMAIN f /\ f[Len(f)].key = y
      /\ f[Len(f)].ages = AgesOf(t, y) /\ AgesOf(f, y) = AgesOf(t, y)
      /\ OrderKept(f, t, y) /\ KeptOrDropped(f, t, y, window, cap)
  <2>1. Table(t, S, limit, window) /\ KeysDiffer(t)
    BY <1>1
  <2> QED
    BY <1>2, <1>3, <2>1, FetchedIs
<1>5. /\ Table(r, S, limit, window)
      /\ \A a, b : Before(r, a, b) <=> Before(f, a, b)
      /\ AgesOf(r, y) = Attempted(LastAges(f), limit, window)
      /\ \A k : k # y => AgesOf(r, k) = AgesOf(f, k)
  <2>1. /\ AgesOf(r, f[Len(f)].key) = Attempted(LastAges(f), limit, window)
        /\ \A k : k # f[Len(f)].key => AgesOf(r, k) = AgesOf(f, k)
        /\ Table(r, S, limit, window)
        /\ \A a, b : Before(r, a, b) <=> Before(f, a, b)
    <3>1. Table(f, S, limit, window) /\ KeysDiffer(f) /\ Len(f) \in DOMAIN f
      BY <1>4
    <3> QED
      BY <3>1, RecordedIs
  <2> QED
    BY <1>4, <2>1
<1>6. LastAges(f) = AgesOf(t, y)
  BY <1>4 DEF LastAges
<1> HIDE DEF r
<1>7. InOrder(r, new)
  <2>1. OrderKept(r, t, x.key)
    BY <1>4, <1>5 DEF OrderKept, y
  <2> QED
    BY <1>1, <2>1, OrderRecorded
<1>8. Kept(AgesOf(r, y), new, y, window, cap)
  <2> DEFINE a == AgesOf(t, y)
             p == Pruned(a, window)
  <2>1. a \in Seq(0..window) /\ WellAged(a, limit) /\ Kept(a, log, y, window, cap)
    BY <1>1, <1>2
  <2> HIDE DEF a
  <2>2. p \in Seq(0..window) /\ Kept(p, log, y, window, cap)
    BY <2>1, PrunedIs, KeptPruned
  <2>3. AgesOf(r, y) = IF x.counted THEN Append(p, 0) ELSE p
    BY <1>2, <1>5, <1>6, <2>1, AttemptedIs DEF a
  <2> HIDE DEF p
  <2>4. CASE x.counted
    <3>1. Kept(p, log, x.key, window, cap)
      BY <2>2 DEF y
    <3>2. Kept(Append(p, 0), new, x.key, window, cap)
      BY <2>2, <2>4, <3>1, KeptRecorded
    <3> QED
      BY <2>3, <2>4, <3>2 DEF y
  <2>5. CASE ~x.counted
    <3>1. Kept(p, new, y, window, cap)
      BY <2>2, <2>5, KeptByOthers
    <3> QED
      BY <2>3, <2>5, <3>1
  <2> QED
    BY <2>4, <2>5
<1>9. ASSUME NEW k \in S, k # y PROVE Kept(AgesOf(r, k), new, k, window, cap)
  <2>1. AgesOf(r, k) = AgesOf(f, k)
    BY <1>5, <1>9
  <2>2. AgesOf(t, k) \in Seq(0..window) /\ WellAged(AgesOf(t, k), limit)
        /\ Kept(AgesOf(t, k), log, k, window, cap)
    BY <1>1
  <2>3. k # x.key /\ (x.counted => x.used)
    BY <1>9 DEF y
  <2>4. CASE AgesOf(f, k) = AgesOf(t, k)
    BY <2>1, <2>2, <2>3, <2>4, KeptByOthers
  <2>5. CASE AgesOf(f, k) = Pruned(AgesOf(t, k), window)
    <3> DEFINE p == Pruned(AgesOf(t, k), window)
    <3>1. Kept(p, log, k, window, cap)
      BY <2>2, KeptPruned
    <3> HIDE DEF p
    <3>2. Kept(p, new, k, window, cap)
      BY <2>3, <3>1, KeptByOthers
    <3> QED
      BY <2>1, <2>5, <3>2 DEF p
  <2>6. CASE /\ AgesOf(f, k) = <<>>
             /\ \E B : /\ IsFiniteSet(B) /\ Cardinality(B) = cap - 1
                       /\ k \notin B /\ y \notin B
                       /\ \A b \in B : Before(t, k, b)
    <3>1. PICK B : /\ IsFiniteSet(B) /\ Cardinality(B) = cap - 1
                   /\ k \notin B /\ x.key \notin B
                   /\ \A b \in B : Before(t, k, b)
      BY <2>6 DEF y
    <3>2. Kept(<<>>, new, k, window, cap)
      BY <1>1, <2>3, <3>1, KeptDropped
    <3> QED
      BY <2>1, <2>6, <3>2
  <2> QED
    BY <1>4, <1>9, <2>4, <2>5, <2>6 DEF KeptOrDropped
<1>10. \A k \in S : Kept(AgesOf(r, k), new, k, window, cap)
  BY <1>8, <1>9
<1> QED
  BY <1>5, <1>7, <1>10 DEF Sound, r

\* The log one tick later, without the first d tries, which are past the window.
OneTickOlder(new, log, d, window) ==
    /\ d \in 0..Len(log) /\ DOMAIN new = 1..(Len(log) - d)
    /\ \A n \in DOMAIN new :
          /\ new[n].key = log[n + d].key /\ new[n].age = log[n + d].age + 1
          /\ new[n].used = log[n + d].used /\ new[n].counted = log[n + d].counted
    /\ \A n \in 1..d : log[n].age + 1 >= window
OlderAges(ages, window) == [j \in DOMAIN ages |-> IF ages[j] < window THEN ages[j] + 1 ELSE ages[j]]

LEMMA OlderIs ==
    ASSUME NEW S, NEW log, Logged(log, S), NEW new, NEW d, NEW window, OneTickOlder(new, log, d, window)
    PROVE  /\ Len(log) \in Nat /\ DOMAIN log = 1..Len(log) /\ d \in 0..Len(log) /\ d \in Int
           /\ \A n \in DOMAIN new : n \in Int /\ n + d \in DOMAIN log
           /\ \A m \in DOMAIN log : m \in Int /\ (m \in 1..d \/ m - d \in DOMAIN new) /\ m - d + d = m
           /\ \A n \in DOMAIN new :
                /\ new[n].key = log[n + d].key /\ new[n].age = log[n + d].age + 1
                /\ new[n].used = log[n + d].used /\ new[n].counted = log[n + d].counted
                /\ log[n + d].age \in Nat
<1> DEFINE L == Len(log)
<1>1. L \in Nat /\ DOMAIN log = 1..L /\ \A m \in DOMAIN log : log[m].age \in Nat
  BY LogIs
<1>2. /\ d \in 0..L /\ DOMAIN new = 1..(L - d)
      /\ \A n \in DOMAIN new :
          /\ new[n].key = log[n + d].key /\ new[n].age = log[n + d].age + 1
          /\ new[n].used = log[n + d].used /\ new[n].counted = log[n + d].counted
  BY DEF OneTickOlder
<1> HIDE DEF L
<1>3. \A n \in 1..(L - d) : n \in Int /\ n + d \in 1..L
  BY <1>1, <1>2
<1>4. \A m \in 1..L : m \in Int /\ (m \in 1..d \/ m - d \in 1..(L - d)) /\ m - d + d = m
  BY <1>1, <1>2
<1>5. d \in Int
  BY <1>1, <1>2
<1> QED
  BY <1>1, <1>2, <1>3, <1>4, <1>5 DEF L

\* A tick keeps the order of the buckets.
LEMMA AgedOrder ==
    ASSUME NEW S, NEW log, Logged(log, S), NEW new, NEW d, NEW window, OneTickOlder(new, log, d, window),
           NEW t, InOrder(t, log), NEW s, \A a, b : Before(s, a, b) => Before(t, a, b)
    PROVE  InOrder(s, new)
<1>1. ASSUME NEW a, NEW b, Before(s, a, b),
             NEW n \in DOMAIN new, new[n].used, new[n].key = a
      PROVE  \E m \in DOMAIN new : m > n /\ new[m].used /\ new[m].key = b
  <2>1. /\ n \in Int /\ n \in 1..(Len(log) - d) /\ n + d \in DOMAIN log /\ d \in Int /\ d >= 0
        /\ log[n + d].used /\ log[n + d].key = a
    BY <1>1, OlderIs DEF OneTickOlder
  <2>2. Before(t, a, b)
    BY <1>1
  <2>3. PICK m \in DOMAIN log : m > n + d /\ log[m].used /\ log[m].key = b
    BY <2>1, <2>2 DEF InOrder
  <2>4. m \in Int /\ ~(m \in 1..d) /\ m - d > n
    BY <2>1, <2>3, OlderIs
  <2>5. m - d \in DOMAIN new /\ m - d + d = m
    BY <2>4, OlderIs
  <2>6. new[m - d].used /\ new[m - d].key = b
    BY <2>3, <2>5, OlderIs
  <2> QED
    BY <2>4, <2>5, <2>6
<1>2. \A a, b : Before(s, a, b) => a # b
  BY DEF InOrder
<1> QED
  BY <1>1, <1>2 DEF InOrder

\* What is left of the log has the crowds it had.
LEMMA AgedCrowded ==
    ASSUME NEW S, NEW log, Logged(log, S), NEW new, NEW d, NEW window, OneTickOlder(new, log, d, window),
           NEW n \in DOMAIN new, NEW cap, Crowded(log, n + d, cap)
    PROVE  Crowded(new, n, cap)
<1>1. n \in Int /\ d \in Int /\ d >= 0 /\ n >= 1
  BY OlderIs DEF OneTickOlder
<1>2. ASSUME NEW m \in DOMAIN log, m >= n + d
      PROVE  \E i \in DOMAIN new : i >= n /\ new[i].key = log[m].key
  <2>1. m \in Int /\ ~(m \in 1..d) /\ m - d >= n
    BY <1>1, <1>2, OlderIs
  <2>2. m - d \in DOMAIN new /\ m - d + d = m
    BY <2>1, OlderIs
  <2>3. new[m - d].key = log[m].key
    BY <2>2, OlderIs
  <2> QED
    BY <2>1, <2>2, <2>3
<1>3. ASSUME NEW i \in DOMAIN new, i >= n
      PROVE  \E m \in DOMAIN log : m >= n + d /\ log[m].key = new[i].key
  <2>1. i \in Int /\ i + d \in DOMAIN log /\ i + d >= n + d /\ log[i + d].key = new[i].key
    BY <1>1, <1>3, OlderIs
  <2> QED
    BY <2>1
<1>4. \A b : b \in SeenSince(log, n + d) => b \in SeenSince(new, n)
  BY <1>2 DEF SeenSince
<1>5. \A b : b \in SeenSince(new, n) => b \in SeenSince(log, n + d)
  BY <1>3 DEF SeenSince
<1>6. SeenSince(log, n + d) = SeenSince(new, n)
  BY <1>4, <1>5
<1> QED
  BY <1>6 DEF Crowded

\* The live attempts of a window age with the tries they are.
LEMMA AgedKept ==
    ASSUME NEW S, NEW log, Logged(log, S), NEW new, NEW d, NEW window \in Nat,
           OneTickOlder(new, log, d, window),
           NEW cap, NEW k, NEW ages \in Seq(0..window), Kept(ages, log, k, window, cap)
    PROVE  Kept(OlderAges(ages, window), new, k, window, cap)
<1> DEFINE old == OlderAges(ages, window)
<1>1. PICK c : Matches(c, ages, log, k, window, cap)
  BY DEF Kept
<1>2. /\ \A j \in DOMAIN ages : ages[j] \in 0..window /\ ages[j] \in Nat
      /\ DOMAIN old = DOMAIN ages
      /\ \A j \in DOMAIN ages : old[j] = IF ages[j] < window THEN ages[j] + 1 ELSE ages[j]
  BY DEF OlderAges
<1> HIDE DEF old
<1>3. ASSUME NEW j \in Live(old, window)
      PROVE  /\ j \in Live(ages, window) /\ old[j] = ages[j] + 1
             /\ c[j] \in Counted(log, k, window) /\ c[j] \in DOMAIN log
             /\ log[c[j]].age = ages[j] /\ c[j] - d \in DOMAIN new
             /\ c[j] - d + d = c[j] /\ c[j] - d \in Counted(new, k, window)
             /\ new[c[j] - d].age = old[j]
  <2>1. j \in DOMAIN ages /\ old[j] < window
    BY <1>2, <1>3 DEF Live
  <2>2. ages[j] < window /\ old[j] = ages[j] + 1
    BY <1>2, <2>1
  <2>3. j \in Live(ages, window)
    BY <2>1, <2>2 DEF Live
  <2>4. c[j] \in Counted(log, k, window) /\ log[c[j]].age = ages[j]
    BY <1>1, <2>3 DEF Matches
  <2>5. c[j] \in DOMAIN log /\ log[c[j]].counted /\ log[c[j]].key = k
    BY <2>4 DEF Counted
  <2>6. ~(c[j] \in 1..d)
    <3> SUFFICES ASSUME c[j] \in 1..d PROVE FALSE
      OBVIOUS
    <3>1. log[c[j]].age + 1 >= window
      BY DEF OneTickOlder
    <3> QED
      BY <1>2, <2>1, <2>2, <2>4, <3>1
  <2>7. c[j] - d \in DOMAIN new /\ c[j] - d + d = c[j]
    BY <2>5, <2>6, OlderIs
  <2>8. /\ new[c[j] - d].key = k /\ new[c[j] - d].counted
        /\ new[c[j] - d].age = log[c[j]].age + 1
    BY <2>5, <2>7, OlderIs
  <2>9. new[c[j] - d].age = old[j]
    BY <2>2, <2>4, <2>8
  <2>10. c[j] - d \in Counted(new, k, window)
    BY <2>1, <2>7, <2>8, <2>9 DEF Counted
  <2> QED
    BY <2>2, <2>3, <2>4, <2>5, <2>7, <2>9, <2>10
<1> DEFINE e == [j \in DOMAIN ages |-> c[j] - d]
<1>4. \A j \in Live(old, window) : e[j] = c[j] - d
  BY <1>2 DEF Live
<1> HIDE DEF e
<1>5. \A j \in Live(old, window) : e[j] \in Counted(new, k, window) /\ new[e[j]].age = old[j]
  BY <1>3, <1>4
<1>6. \A i, j \in Live(old, window) : e[i] = e[j] => i = j
  <2> SUFFICES ASSUME NEW i \in Live(old, window), NEW j \in Live(old, window), e[i] = e[j]
               PROVE  i = j
    OBVIOUS
  <2>1. c[i] = c[j]
    <3>1. c[i] - d + d = c[i] /\ c[j] - d + d = c[j] /\ c[i] - d = c[j] - d
      BY <1>3, <1>4
    <3> QED
      BY <3>1
  <2> QED
    BY <1>1, <1>3, <2>1 DEF Matches
<1>7. \A n \in Counted(new, k, window) : Crowded(new, n, cap) \/ \E j \in Live(old, window) : e[j] = n
  <2> SUFFICES ASSUME NEW n \in Counted(new, k, window), ~Crowded(new, n, cap)
               PROVE  \E j \in Live(old, window) : e[j] = n
    OBVIOUS
  <2>1. n \in DOMAIN new /\ new[n].counted /\ new[n].key = k /\ new[n].age < window
    BY DEF Counted
  <2>2. /\ n \in Int /\ d \in Int /\ n + d \in DOMAIN log /\ log[n + d].counted /\ log[n + d].key = k
        /\ new[n].age = log[n + d].age + 1 /\ log[n + d].age \in Nat
    BY <2>1, OlderIs
  <2>3. log[n + d].age < window
    BY <2>1, <2>2
  <2>4. n + d \in Counted(log, k, window)
    BY <2>2, <2>3 DEF Counted
  <2>5. ~Crowded(log, n + d, cap)
    BY <2>1, AgedCrowded
  <2>6. PICK j \in Live(ages, window) : c[j] = n + d
    BY <1>1, <2>4, <2>5 DEF Matches
  <2>7. log[n + d].age = ages[j] /\ j \in DOMAIN ages
    BY <1>1, <2>6 DEF Matches, Live
  <2>8. old[j] = new[n].age /\ j \in Live(old, window)
    BY <1>2, <2>1, <2>2, <2>3, <2>7 DEF Live
  <2>9. e[j] = n
    BY <1>4, <2>2, <2>6, <2>8
  <2> QED
    BY <2>8, <2>9
<1>8. Matches(e, old, new, k, window, cap)
  BY <1>5, <1>6, <1>7 DEF Matches
<1> QED
  BY <1>8 DEF Kept, old

LEMMA OlderAgesType ==
    ASSUME NEW limit \in Nat, NEW window \in Nat, NEW ages \in Seq(0..window), WellAged(ages, limit)
    PROVE  OlderAges(ages, window) \in Seq(0..window) /\ WellAged(OlderAges(ages, window), limit)
<1> DEFINE old == OlderAges(ages, window)
           N == Len(ages)
<1>1. N \in Nat /\ DOMAIN ages = 1..N /\ \A j \in 1..N : ages[j] \in 0..window
  OBVIOUS
<1>2. /\ old = [j \in 1..N |-> IF ages[j] < window THEN ages[j] + 1 ELSE ages[j]]
      /\ \A j \in 1..N : old[j] \in 0..window
  BY <1>1 DEF OlderAges
<1>3. N <= limit /\ \A i, j \in 1..N : i < j => ages[i] >= ages[j]
  BY <1>1 DEF WellAged, Sorted
<1> HIDE DEF N, old
<1>4. old \in Seq(0..window) /\ Len(old) = N /\ DOMAIN old = 1..N
  <2>1. old \in [1..N -> 0..window]
    BY <1>2
  <2> QED
    BY <1>1, <2>1
<1>5. \A i, j \in 1..N : i < j => old[i] >= old[j]
  BY <1>1, <1>2, <1>3
<1> QED
  BY <1>3, <1>4, <1>5 DEF WellAged, Sorted, old

\* A tick keeps a table sound.
LEMMA AgedSound ==
    ASSUME NEW S, NEW log, Logged(log, S), NEW new, NEW d, NEW window \in Nat,
           OneTickOlder(new, log, d, window), NEW limit \in Nat, NEW cap,
           NEW t, Sound(t, log, S, limit, window, cap)
    PROVE  Sound(Aged(t, window), new, S, limit, window, cap)
<1> DEFINE s == Aged(t, window)
           N == Len(t)
<1>1. /\ Table(t, S, limit, window) /\ InOrder(t, log) /\ KeysDiffer(t)
      /\ \A k \in S : /\ AgesOf(t, k) \in Seq(0..window) /\ WellAged(AgesOf(t, k), limit)
                      /\ Kept(AgesOf(t, k), log, k, window, cap)
  BY SoundIs
<1>2. /\ N \in Nat /\ DOMAIN t = 1..N
      /\ \A i \in DOMAIN t : /\ t[i] \in Buckets(S, window) /\ t[i].key \in S
                             /\ t[i].ages \in Seq(0..window) /\ WellAged(t[i].ages, limit)
  BY <1>1, TableIs
<1>3. DOMAIN s = DOMAIN t
  BY DEF Aged
<1>4. ASSUME NEW i \in DOMAIN t
      PROVE  /\ s[i] \in Buckets(S, window) /\ s[i].key = t[i].key
             /\ s[i].ages = OlderAges(t[i].ages, window) /\ WellAged(s[i].ages, limit)
  <2> DEFINE a == OlderAges(t[i].ages, window)
             b == t[i]
  <2>1. a \in Seq(0..window) /\ WellAged(a, limit)
    BY <1>2, OlderAgesType
  <2>2. s[i] = [b EXCEPT !.ages = a]
    BY DEF Aged, OlderAges
  <2>3. b \in Buckets(S, window)
    BY <1>2
  <2> HIDE DEF a, b, s
  <2>4. [b EXCEPT !.ages = a] \in Buckets(S, window)
    BY <2>1, <2>3 DEF Buckets
  <2>5. [b EXCEPT !.ages = a].key = b.key /\ [b EXCEPT !.ages = a].ages = a
    BY <2>3 DEF Buckets
  <2> QED
    BY <2>1, <2>2, <2>4, <2>5 DEF a, b
<1>5. Table(s, S, limit, window)
  <2>1. s \in [1..N -> Buckets(S, window)]
    BY <1>2, <1>3, <1>4 DEF Aged
  <2>2. s \in Seq(Buckets(S, window))
    BY <1>2, <2>1
  <2> HIDE DEF s
  <2> QED
    BY <1>3, <1>4, <2>2 DEF Table
<1> HIDE DEF s, N
<1>6. \A a, b : Before(s, a, b) => Before(t, a, b)
  <2> SUFFICES ASSUME NEW a, NEW b, Before(s, a, b) PROVE Before(t, a, b)
    OBVIOUS
  <2>1. PICK i \in DOMAIN t, j \in DOMAIN t : i < j /\ s[i].key = a /\ s[j].key = b
    BY <1>3 DEF Before
  <2>2. t[i].key = a /\ t[j].key = b
    BY <1>4, <2>1
  <2> QED
    BY <2>1, <2>2 DEF Before
<1>7. InOrder(s, new)
  BY <1>1, <1>6, AgedOrder
<1>8. KeysDiffer(s)
  BY <1>1, <1>3, <1>4 DEF KeysDiffer
<1>9. ASSUME NEW k \in S PROVE AgesOf(s, k) = OlderAges(AgesOf(t, k), window)
  <2>1. CASE Has(t, k)
    <3>1. PICK i \in DOMAIN t : t[i].key = k
      BY <2>1 DEF Has
    <3>2. AgesOf(t, k) = t[i].ages
      BY <1>1, <3>1, AgesAt
    <3>3. AgesOf(s, k) = s[i].ages
      BY <1>3, <1>4, <1>8, <3>1, AgesAt
    <3> QED
      BY <1>4, <3>1, <3>2, <3>3
  <2>2. CASE ~Has(t, k)
    <3>1. ~Has(s, k)
      BY <1>3, <1>4, <2>2 DEF Has
    <3>2. AgesOf(s, k) = <<>> /\ AgesOf(t, k) = <<>>
      BY <1>1, <1>8, <2>2, <3>1, AgesAt
    <3>3. OlderAges(<<>>, window) = <<>>
      BY DEF OlderAges
    <3> QED
      BY <3>2, <3>3
  <2> QED
    BY <2>1, <2>2
<1>10. \A k \in S : Kept(AgesOf(s, k), new, k, window, cap)
  BY <1>1, <1>9, AgedKept
<1> QED
  BY <1>5, <1>7, <1>10 DEF Sound, s

LEMMA CountedIsFinite ==
    ASSUME NEW S, NEW log, Logged(log, S), NEW k, NEW window
    PROVE  IsFiniteSet(Counted(log, k, window)) /\ Cardinality(Counted(log, k, window)) \in Nat
<1> DEFINE L == Len(log)
<1>1. 1 \in Int /\ L \in Int /\ DOMAIN log = 1..L
  BY LogIs
<1> HIDE DEF L
<1>2. IsFiniteSet(DOMAIN log)
  BY <1>1, FS_Interval
<1>3. Counted(log, k, window) \in SUBSET DOMAIN log
  BY DEF Counted
<1>4. IsFiniteSet(Counted(log, k, window))
  BY <1>2, <1>3, FS_Subset
<1> QED
  BY <1>4, FS_CardinalityType

\* The keys of the tries within the window.
KeysWithin(log, window) == {log[n].key : n \in {n \in DOMAIN log : log[n].age < window}}

LEMMA KeysWithinFinite ==
    ASSUME NEW S, NEW log, Logged(log, S), NEW window
    PROVE  IsFiniteSet(KeysWithin(log, window)) /\ Cardinality(KeysWithin(log, window)) \in Nat
<1>1. KeysWithin(log, window) \in SUBSET SeenSince(log, 1)
  <2>1. \A n \in DOMAIN log : n >= 1
    BY LogIs
  <2> QED
    BY <2>1 DEF KeysWithin, SeenSince
<1>2. IsFiniteSet(SeenSince(log, 1))
  BY SeenIsFinite
<1>3. IsFiniteSet(KeysWithin(log, window))
  BY <1>1, <1>2, FS_Subset
<1> QED
  BY <1>3, FS_CardinalityType

\* More tries get past a limit only when its table could not hold all who tried.
LEMMA OverrunMeansCrowded ==
    ASSUME NEW S, NEW limit \in Nat, NEW window \in Nat, NEW cap \in Nat, NEW t, NEW log,
           Sound(t, log, S, limit, window, cap), Logged(log, S), NEW k \in S,
           Cardinality(Counted(log, k, window)) > limit
    PROVE  Cardinality(KeysWithin(log, window)) > cap
<1> DEFINE a == AgesOf(t, k)
           C == Counted(log, k, window)
           M == Live(a, window)
           N == Len(a)
<1>1. a \in Seq(0..window) /\ WellAged(a, limit) /\ Kept(a, log, k, window, cap)
  BY SoundIs
<1>2. PICK c : Matches(c, a, log, k, window, cap)
  BY <1>1 DEF Kept
<1>3. IsFiniteSet(M) /\ Cardinality(M) <= limit /\ Cardinality(M) \in Nat
  <2>1. N \in Nat /\ DOMAIN a = 1..N /\ N <= limit
    BY <1>1 DEF WellAged
  <2> HIDE DEF a, N
  <2>2. IsFiniteSet(1..N) /\ Cardinality(1..N) = IF 1 > N THEN 0 ELSE N - 1 + 1
    <3>1. 1 \in Int /\ N \in Int
      BY <2>1
    <3> QED
      BY <3>1, FS_Interval
  <2>3. M \in SUBSET (1..N)
    BY <2>1 DEF Live
  <2>4. IsFiniteSet(M) /\ Cardinality(M) <= Cardinality(1..N)
    BY <2>2, <2>3, FS_Subset
  <2>5. Cardinality(M) \in Nat
    BY <2>4, FS_CardinalityType
  <2>6. Cardinality(1..N) = N
    BY <2>1, <2>2
  <2> HIDE DEF M
  <2> QED
    BY <2>1, <2>4, <2>5, <2>6
<1> HIDE DEF a, N
<1>4. \E n \in C : Crowded(log, n, cap)
  <2> SUFFICES ASSUME \A n \in C : ~Crowded(log, n, cap) PROVE FALSE
    OBVIOUS
  <2> DEFINE e == [j \in M |-> c[j]]
  <2>1. \A n \in C : \E j \in M : e[j] = n
    BY <1>2 DEF Matches
  <2>2. e \in [M -> C]
    BY <1>2 DEF Matches
  <2> HIDE DEF e, M, C
  <2>3. e \in Surjection(M, C)
    BY <2>1, <2>2 DEF Surjection
  <2>4. Cardinality(C) <= Cardinality(M)
    BY <1>3, <2>3, FS_Surjection
  <2>5. Cardinality(C) \in Nat /\ Cardinality(C) > limit
    BY CountedIsFinite DEF C
  <2> QED
    BY <1>3, <2>4, <2>5
<1>5. PICK n \in C : Crowded(log, n, cap)
  BY <1>4
<1>6. n \in DOMAIN log /\ log[n].age < window
  BY DEF Counted
<1>7. SeenSince(log, n) \in SUBSET KeysWithin(log, window)
  <2>1. ASSUME NEW m \in DOMAIN log, m >= n PROVE log[m].age < window
    <3>1. m = n \/ n < m
      BY <1>6, <2>1, LogIs
    <3>2. CASE n < m
      <4>1. log[n].age >= log[m].age
        BY <1>6, <3>2 DEF Logged
      <4>2. log[n].age \in Nat /\ log[m].age \in Nat
        BY <1>6, LogIs
      <4> QED
        BY <1>6, <4>1, <4>2
    <3> QED
      BY <1>6, <3>1, <3>2
  <2> QED
    BY <2>1 DEF SeenSince, KeysWithin
<1>8. IsFiniteSet(KeysWithin(log, window)) /\ Cardinality(KeysWithin(log, window)) \in Nat
  BY KeysWithinFinite
<1>9. Cardinality(SeenSince(log, n)) <= Cardinality(KeysWithin(log, window))
  BY <1>7, <1>8, FS_Subset
<1>10. Cardinality(SeenSince(log, n)) \in Nat
  BY SeenIsFinite, FS_CardinalityType
<1>11. Cardinality(SeenSince(log, n)) > cap
  BY <1>5 DEF Crowded
<1> QED
  BY <1>8, <1>9, <1>10, <1>11

\* A window is full only when the limit's tries of its key are spent.
LEMMA FullMeansSpent ==
    ASSUME NEW S, NEW limit \in Nat, NEW window \in Nat, NEW cap, NEW t, NEW log,
           Sound(t, log, S, limit, window, cap), Logged(log, S), NEW k \in S,
           ~HasRoom(AgesOf(t, k), limit, window)
    PROVE  Cardinality(Counted(log, k, window)) >= limit
<1> DEFINE a == AgesOf(t, k)
           p == Pruned(a, window)
           C == Counted(log, k, window)
           N == Len(p)
<1>1. a \in Seq(0..window) /\ WellAged(a, limit) /\ Kept(a, log, k, window, cap)
  BY SoundIs
<1> HIDE DEF a
<1>2. /\ p \in Seq(0..window) /\ \A j \in DOMAIN p : p[j] < window
      /\ Kept(p, log, k, window, cap)
  BY <1>1, PrunedIs, KeptPruned
<1>3. ~(N < limit)
  BY DEF HasRoom, a
<1>4. N \in Nat /\ DOMAIN p = 1..N
  BY <1>2
<1> HIDE DEF p
<1>5. PICK c : Matches(c, p, log, k, window, cap)
  BY <1>2 DEF Kept
<1> HIDE DEF N
<1>6. Live(p, window) = 1..N
  BY <1>2, <1>4 DEF Live
<1> DEFINE e == [j \in 1..N |-> c[j]]
           D == 1..N
<1>7. e \in [D -> C] /\ \A i, j \in D : e[i] = e[j] => i = j
  BY <1>5, <1>6 DEF Matches
<1>8. IsFiniteSet(D) /\ Cardinality(D) = IF 1 > N THEN 0 ELSE N - 1 + 1
  <2>1. 1 \in Int /\ N \in Int
    BY <1>4
  <2> QED
    BY <2>1, FS_Interval
<1> HIDE DEF e, D, C
<1>9. e \in Injection(D, C)
  BY <1>7 DEF Injection, IsInjective
<1>10. IsFiniteSet(C) /\ Cardinality(C) \in Nat
  BY CountedIsFinite DEF C
<1>11. Cardinality(D) <= Cardinality(C)
  BY <1>9, <1>10, FS_Injection
<1>12. Cardinality(D) = N
  BY <1>4, <1>8
<1> QED
  BY <1>3, <1>4, <1>10, <1>11, <1>12 DEF C

Tries == [email : Names, ip : Ips, age : Nat, verdict : {"email_ip", "ip_only", "let_in"}]
History(h) ==
    /\ h \in Seq(Tries)
    /\ \A m, n \in DOMAIN h : m < n => h[m].age >= h[n].age
\* What the narrow limit has seen of the history: every try asks it.
NarrowEntry(r) ==
    [key |-> <<r.email, r.ip>>, age |-> r.age, used |-> TRUE, counted |-> r.verdict # "email_ip"]
\* What the wide limit has seen: the tries that the narrow one let pass ask it.
WideEntry(r) ==
    [key |-> r.ip, age |-> r.age, used |-> r.verdict # "email_ip", counted |-> r.verdict = "let_in"]
NarrowLog(h) == [n \in DOMAIN h |-> NarrowEntry(h[n])]
WideLog(h) == [n \in DOMAIN h |-> WideEntry(h[n])]
NarrowSound == Sound(emailTable, NarrowLog(tries), Names \X Ips, EmailLimit, EmailWindow, MaxEmailBuckets)
WideSound == Sound(ipTable, WideLog(tries), Ips, IpLimit, IpWindow, MaxIpBuckets)
LoginInv == History(tries) /\ NarrowSound /\ WideSound

\* The entries of both logs, of one login.
LEMMA EntryTypes ==
    ASSUME NEW r \in Tries
    PROVE  /\ NarrowEntry(r) \in Entries(Names \X Ips) /\ WideEntry(r) \in Entries(Ips)
           /\ NarrowEntry(r).key = <<r.email, r.ip>> /\ NarrowEntry(r).age = r.age
           /\ NarrowEntry(r).used = TRUE /\ NarrowEntry(r).counted = (r.verdict # "email_ip")
           /\ WideEntry(r).key = r.ip /\ WideEntry(r).age = r.age
           /\ WideEntry(r).used = (r.verdict # "email_ip")
           /\ WideEntry(r).counted = (r.verdict = "let_in")
<1>1. /\ r.email \in Names /\ r.ip \in Ips /\ r.age \in Nat
      /\ (r.verdict # "email_ip") \in BOOLEAN /\ (r.verdict = "let_in") \in BOOLEAN
  BY DEF Tries
<1>2. <<r.email, r.ip>> \in Names \X Ips
  BY <1>1
<1>3. NarrowEntry(r) \in Entries(Names \X Ips)
  <2> DEFINE k == <<r.email, r.ip>>
             K == Names \X Ips
  <2>1. k \in K
    BY <1>2
  <2>2. NarrowEntry(r) = [key |-> k, age |-> r.age, used |-> TRUE, counted |-> r.verdict # "email_ip"]
    BY DEF NarrowEntry
  <2> HIDE DEF k, K
  <2>3. NarrowEntry(r) \in Entries(K)
    BY <1>1, <2>1, <2>2 DEF Entries
  <2> QED
    BY <2>3 DEF K
<1>4. WideEntry(r) \in Entries(Ips)
  BY <1>1 DEF WideEntry, Entries
<1> QED
  BY <1>3, <1>4 DEF NarrowEntry, WideEntry

LEMMA HistoryIs ==
    ASSUME NEW h, History(h)
    PROVE  /\ Len(h) \in Nat /\ DOMAIN h = 1..Len(h)
           /\ \A n \in DOMAIN h : h[n] \in Tries /\ h[n].age \in Nat
           /\ Logged(NarrowLog(h), Names \X Ips) /\ Logged(WideLog(h), Ips)
           /\ Len(NarrowLog(h)) = Len(h) /\ Len(WideLog(h)) = Len(h)
<1> DEFINE N == Len(h)
<1>1. /\ N \in Nat /\ DOMAIN h = 1..N /\ \A n \in DOMAIN h : h[n] \in Tries
  BY DEF History
<1>2. \A n \in DOMAIN h : h[n].age \in Nat /\ h[n].verdict \in {"email_ip", "ip_only", "let_in"}
  BY <1>1 DEF Tries
<1> HIDE DEF N
<1>3. ASSUME NEW S, NEW log, DOMAIN log = DOMAIN h, log = [n \in DOMAIN h |-> log[n]],
             \A n \in DOMAIN h : log[n] \in Entries(S) /\ log[n].age = h[n].age
                                 /\ (log[n].counted => log[n].used)
      PROVE  Logged(log, S) /\ Len(log) = N
  <2>1. log \in [1..N -> Entries(S)]
    BY <1>1, <1>3
  <2>2. log \in Seq(Entries(S)) /\ Len(log) = N
    BY <1>1, <2>1
  <2>3. \A m, n \in DOMAIN log : m < n => log[m].age >= log[n].age
    BY <1>3 DEF History
  <2> QED
    BY <1>3, <2>2, <2>3 DEF Logged
<1>4. Logged(NarrowLog(h), Names \X Ips) /\ Len(NarrowLog(h)) = N
  <2> DEFINE log == NarrowLog(h)
             K == Names \X Ips
  <2>1. DOMAIN log = DOMAIN h /\ log = [n \in DOMAIN h |-> log[n]]
        /\ \A n \in DOMAIN h : log[n] = NarrowEntry(h[n])
    BY DEF NarrowLog
  <2>2. \A n \in DOMAIN h : /\ log[n] \in Entries(K) /\ log[n].age = h[n].age
                            /\ (log[n].counted => log[n].used)
    BY <1>1, <2>1, EntryTypes
  <2> HIDE DEF log, K
  <2>3. Logged(log, K) /\ Len(log) = N
    BY <1>3, <2>1, <2>2
  <2> QED
    BY <2>3 DEF log, K
<1>5. Logged(WideLog(h), Ips) /\ Len(WideLog(h)) = N
  <2> DEFINE log == WideLog(h)
  <2>1. DOMAIN log = DOMAIN h /\ log = [n \in DOMAIN h |-> log[n]]
        /\ \A n \in DOMAIN h : log[n] = WideEntry(h[n])
    BY DEF WideLog
  <2>2. \A n \in DOMAIN h : /\ log[n] \in Entries(Ips) /\ log[n].age = h[n].age
                            /\ (log[n].counted => log[n].used)
    BY <1>1, <1>2, <2>1, EntryTypes
  <2> HIDE DEF log
  <2>3. Logged(log, Ips) /\ Len(log) = N
    BY <1>3, <2>1, <2>2
  <2> QED
    BY <2>3 DEF log
<1> QED
  BY <1>1, <1>2, <1>4, <1>5 DEF N

\* One login more.
LEMMA HistoryAppended ==
    ASSUME NEW h, History(h), NEW r \in Tries, r.age = 0
    PROVE  /\ History(Append(h, r))
           /\ NarrowLog(Append(h, r)) = Append(NarrowLog(h), NarrowEntry(r))
           /\ WideLog(Append(h, r)) = Append(WideLog(h), WideEntry(r))
<1> DEFINE N == Len(h)
           g == Append(h, r)
<1>1. /\ N \in Nat /\ DOMAIN h = 1..N /\ h \in Seq(Tries)
      /\ \A n \in DOMAIN h : h[n] \in Tries /\ h[n].age \in Nat
      /\ Len(NarrowLog(h)) = N /\ Len(WideLog(h)) = N
  BY HistoryIs DEF History
<1>2. /\ g \in Seq(Tries) /\ DOMAIN g = 1..(N + 1) /\ g[N + 1] = r
      /\ \A n \in 1..N : g[n] = h[n]
  BY <1>1
<1> HIDE DEF g, N
<1>3. \A n \in 1..(N + 1) : n = N + 1 \/ n \in 1..N
  BY <1>1
<1>4. \A m, n \in 1..(N + 1) : m < n => g[m].age >= g[n].age
  <2> SUFFICES ASSUME NEW m \in 1..(N + 1), NEW n \in 1..(N + 1), m < n
               PROVE  g[m].age >= g[n].age
    OBVIOUS
  <2>1. m \in 1..N
    BY <1>1
  <2>2. g[m] = h[m] /\ h[m].age \in Nat
    BY <1>1, <1>2, <2>1
  <2>3. CASE n = N + 1
    BY <1>2, <2>2, <2>3
  <2>4. CASE n \in 1..N
    BY <1>1, <1>2, <2>1, <2>4 DEF History
  <2> QED
    BY <1>3, <2>3, <2>4
<1>5. History(g)
  BY <1>2, <1>4 DEF History
<1>6. NarrowLog(g) = Append(NarrowLog(h), NarrowEntry(r))
  <2> DEFINE log == NarrowLog(h)
             x == NarrowEntry(r)
             K == Names \X Ips
  <2>1. log \in Seq(Entries(K)) /\ x \in Entries(K)
    BY HistoryIs, EntryTypes DEF Logged
  <2>2. Len(log) = N /\ \A n \in 1..N : log[n] = NarrowEntry(h[n])
    BY <1>1 DEF NarrowLog
  <2> HIDE DEF log, x, K
  <2>5. Append(log, x) = [n \in 1..(N + 1) |-> IF n = N + 1 THEN x ELSE log[n]]
    <3> DEFINE more == Append(log, x)
    <3>1. more \in Seq(Entries(K)) /\ Len(more) = N + 1
          /\ more[N + 1] = x /\ \A n \in 1..N : more[n] = log[n]
      BY <2>1, <2>2, AppendProperties
    <3> HIDE DEF more
    <3>2. more = [n \in 1..(N + 1) |-> more[n]]
      BY <3>1
    <3>3. \A n \in 1..(N + 1) : more[n] = IF n = N + 1 THEN x ELSE log[n]
      BY <1>3, <3>1
    <3> QED
      BY <3>2, <3>3 DEF more
  <2>3. NarrowLog(g) = [n \in 1..(N + 1) |-> NarrowEntry(g[n])]
    BY <1>2 DEF NarrowLog
  <2>4. \A n \in 1..(N + 1) : NarrowEntry(g[n]) = IF n = N + 1 THEN x ELSE log[n]
    BY <1>2, <1>3, <2>2 DEF x
  <2> QED
    BY <2>3, <2>4, <2>5 DEF log, x
<1>7. WideLog(g) = Append(WideLog(h), WideEntry(r))
  <2> DEFINE log == WideLog(h)
             x == WideEntry(r)
             K == Ips
  <2>1. log \in Seq(Entries(K)) /\ x \in Entries(K)
    BY HistoryIs, EntryTypes DEF Logged
  <2>2. Len(log) = N /\ \A n \in 1..N : log[n] = WideEntry(h[n])
    BY <1>1 DEF WideLog
  <2> HIDE DEF log, x, K
  <2>5. Append(log, x) = [n \in 1..(N + 1) |-> IF n = N + 1 THEN x ELSE log[n]]
    <3> DEFINE more == Append(log, x)
    <3>1. more \in Seq(Entries(K)) /\ Len(more) = N + 1
          /\ more[N + 1] = x /\ \A n \in 1..N : more[n] = log[n]
      BY <2>1, <2>2, AppendProperties
    <3> HIDE DEF more
    <3>2. more = [n \in 1..(N + 1) |-> more[n]]
      BY <3>1
    <3>3. \A n \in 1..(N + 1) : more[n] = IF n = N + 1 THEN x ELSE log[n]
      BY <1>3, <3>1
    <3> QED
      BY <3>2, <3>3 DEF more
  <2>3. WideLog(g) = [n \in 1..(N + 1) |-> WideEntry(g[n])]
    BY <1>2 DEF WideLog
  <2>4. \A n \in 1..(N + 1) : WideEntry(g[n]) = IF n = N + 1 THEN x ELSE log[n]
    BY <1>2, <1>3, <2>2 DEF x
  <2> QED
    BY <2>3, <2>4, <2>5 DEF log, x
<1> QED
  BY <1>5, <1>6, <1>7 DEF g

LEMMA LimitsAreNumbers ==
    /\ EmailLimit \in Nat /\ IpLimit \in Nat
    /\ EmailWindow \in Nat \ {0} /\ IpWindow \in Nat \ {0}
    /\ MaxEmailBuckets \in Nat \ {0} /\ MaxIpBuckets \in Nat \ {0}
    /\ Longest \in Nat /\ EmailWindow <= Longest /\ IpWindow <= Longest
<1>1. /\ EmailLimit \in Nat /\ IpLimit \in Nat
      /\ EmailWindow \in Nat \ {0} /\ IpWindow \in Nat \ {0}
      /\ MaxEmailBuckets \in Nat \ {0} /\ MaxIpBuckets \in Nat \ {0}
  BY LimitAssumption
<1> QED
  BY <1>1 DEF Longest

\* One tick: what is forgotten of the history is past both windows.
LEMMA HistoryTicks ==
    ASSUME NEW h, History(h), NEW g, NEW o,
           o = [n \in DOMAIN h |-> [h[n] EXCEPT !.age = @ + 1]], g = Recent(o)
    PROVE  /\ History(g)
           /\ \E d : /\ OneTickOlder(NarrowLog(g), NarrowLog(h), d, EmailWindow)
                     /\ OneTickOlder(WideLog(g), WideLog(h), d, IpWindow)
<1> DEFINE N == Len(h)
           ages == [n \in DOMAIN o |-> o[n].age]
           d == Gone(ages, Longest)
<1>1. /\ N \in Nat /\ DOMAIN h = 1..N /\ \A n \in 1..N : h[n] \in Tries /\ h[n].age \in Nat
      /\ Len(NarrowLog(h)) = N /\ Len(WideLog(h)) = N
  BY HistoryIs
<1>2. DOMAIN o = 1..N /\ \A n \in 1..N : /\ o[n] \in Tries /\ o[n].age = h[n].age + 1
                                         /\ o[n].email = h[n].email /\ o[n].ip = h[n].ip
                                         /\ o[n].verdict = h[n].verdict
  <2> HIDE DEF N
  <2>1. DOMAIN o = 1..N /\ \A n \in 1..N : o[n] = [h[n] EXCEPT !.age = h[n].age + 1]
    BY <1>1
  <2>2. ASSUME NEW n \in 1..N
        PROVE  /\ o[n] \in Tries /\ o[n].age = h[n].age + 1
               /\ o[n].email = h[n].email /\ o[n].ip = h[n].ip /\ o[n].verdict = h[n].verdict
    <3> DEFINE b == h[n]
               a == b.age + 1
    <3>1. b \in Tries /\ a \in Nat /\ o[n] = [b EXCEPT !.age = a]
      BY <1>1, <2>1
    <3> HIDE DEF a, b
    <3>2. [b EXCEPT !.age = a] \in Tries /\ [b EXCEPT !.age = a].age = a
          /\ [b EXCEPT !.age = a].email = b.email /\ [b EXCEPT !.age = a].ip = b.ip
          /\ [b EXCEPT !.age = a].verdict = b.verdict
      BY <3>1 DEF Tries
    <3> QED
      BY <3>1, <3>2 DEF a, b
  <2> QED
    BY <2>1, <2>2
<1> HIDE DEF N
<1>3. o \in Seq(Tries) /\ Len(o) = N
  <2>1. o \in [1..N -> Tries]
    BY <1>1, <1>2
  <2> QED
    BY <1>1, <2>1
<1>4. ages \in Seq(Nat) /\ Len(ages) = N /\ \A n \in 1..N : ages[n] = o[n].age
  <2>1. ages \in [1..N -> Nat] /\ \A n \in 1..N : ages[n] = o[n].age
    BY <1>1, <1>2
  <2> HIDE DEF ages
  <2>2. ages \in Seq(Nat) /\ Len(ages) = N
    BY <1>1, <2>1
  <2> QED
    BY <2>1, <2>2
<1>5. g = SubSeq(o, d + 1, N)
  BY <1>3 DEF Recent
<1> HIDE DEF ages
<1>6. d \in 0..N /\ \A n \in 1..d : ages[n] >= Longest
  BY <1>4, LimitsAreNumbers, GoneIs
<1> HIDE DEF d
<1>0. N \in Nat /\ d \in 0..N /\ d \in Nat
  BY <1>1, <1>6
<1>7. /\ g \in Seq(Tries) /\ DOMAIN g = 1..(N - d) /\ Len(g) = N - d
      /\ \A n \in 1..(N - d) : g[n] = o[n + d] /\ n + d \in 1..N
  <2>0. d + 1 \in Int /\ N \in Int /\ \A i \in (d + 1)..N : i \in 1..N
    BY <1>0
  <2>1. \A i \in (d + 1)..N : o[i] \in Tries
    BY <1>2, <2>0
  <2>2. /\ SubSeq(o, d + 1, N) \in Seq(Tries)
        /\ Len(SubSeq(o, d + 1, N)) = IF d + 1 <= N THEN N - (d + 1) + 1 ELSE 0
        /\ \A i \in 1..(N - (d + 1) + 1) : SubSeq(o, d + 1, N)[i] = o[d + 1 + i - 1]
    <3> DEFINE q == o
               k == d + 1
               S == Tries
    <3>1. k \in Int /\ N \in Int /\ \A i \in k..N : q[i] \in S
      BY <2>0, <2>1
    <3> HIDE DEF q, k, S
    <3>2. /\ SubSeq(q, k, N) \in Seq(S)
          /\ Len(SubSeq(q, k, N)) = IF k <= N THEN N - k + 1 ELSE 0
          /\ \A i \in 1..(N - k + 1) : SubSeq(q, k, N)[i] = q[k + i - 1]
      BY <3>1, SubSeqProperties
    <3> QED
      BY <3>2 DEF q, k, S
  <2>3. Len(g) = N - d
    BY <1>0, <1>5, <2>2
  <2>4. \A i \in 1..(N - d) : i + d \in 1..N /\ d + 1 + i - 1 = i + d /\ i \in 1..(N - (d + 1) + 1)
    BY <1>0
  <2>5. \A i \in 1..(N - d) : g[i] = o[i + d] /\ i + d \in 1..N
    BY <1>5, <2>2, <2>4
  <2>6. g \in Seq(Tries)
    BY <1>5, <2>2
  <2>7. DOMAIN g = 1..(N - d)
    BY <2>3, <2>6
  <2> QED
    BY <2>3, <2>5, <2>6, <2>7
<1>8. ASSUME NEW m \in 1..(N - d), NEW n \in 1..(N - d), m < n PROVE g[m].age >= g[n].age
  <2>1. m + d \in 1..N /\ n + d \in 1..N /\ m + d < n + d
    BY <1>0, <1>8
  <2>2. h[m + d].age >= h[n + d].age
    BY <1>1, <2>1 DEF History
  <2>3. /\ g[m].age = h[m + d].age + 1 /\ g[n].age = h[n + d].age + 1
        /\ h[m + d].age \in Nat /\ h[n + d].age \in Nat
    BY <1>1, <1>2, <1>7, <2>1
  <2> QED
    BY <2>2, <2>3
<1>9. History(g)
  BY <1>7, <1>8 DEF History
<1>10. ASSUME NEW n \in 1..d PROVE n \in 1..N /\ h[n].age + 1 >= EmailWindow /\ h[n].age + 1 >= IpWindow
  <2>1. n \in 1..N
    BY <1>1, <1>6
  <2>2. h[n].age + 1 >= Longest
    BY <1>2, <1>4, <1>6, <2>1
  <2> QED
    BY <1>1, <2>1, <2>2, LimitsAreNumbers
<1>11. OneTickOlder(NarrowLog(g), NarrowLog(h), d, EmailWindow)
  <2> DEFINE new == NarrowLog(g)
             log == NarrowLog(h)
  <2>1. /\ DOMAIN new = 1..(N - d) /\ \A n \in 1..(N - d) : new[n] = NarrowEntry(g[n])
        /\ \A n \in 1..N : log[n] = NarrowEntry(h[n])
    BY <1>1, <1>7 DEF NarrowLog
  <2> HIDE DEF new, log
  <2>2. ASSUME NEW n \in 1..(N - d)
        PROVE  /\ new[n].key = log[n + d].key /\ new[n].age = log[n + d].age + 1
               /\ new[n].used = log[n + d].used /\ new[n].counted = log[n + d].counted
    <3> DEFINE m == n + d
    <3>1. m \in 1..N /\ g[n] = o[m]
      BY <1>7
    <3> DEFINE a == o[m]
               b == h[m]
    <3>2. new[n] = NarrowEntry(a) /\ log[m] = NarrowEntry(b) /\ a \in Tries /\ b \in Tries
      BY <1>1, <1>2, <2>1, <3>1
    <3>3. a.age = b.age + 1 /\ a.email = b.email /\ a.ip = b.ip /\ a.verdict = b.verdict
      BY <1>2, <3>1
    <3> HIDE DEF a, b, m
    <3>4. /\ NarrowEntry(a).key = NarrowEntry(b).key /\ NarrowEntry(a).age = NarrowEntry(b).age + 1
          /\ NarrowEntry(a).used = NarrowEntry(b).used /\ NarrowEntry(a).counted = NarrowEntry(b).counted
      BY <3>3 DEF NarrowEntry, WideEntry
    <3> QED
      BY <3>2, <3>4 DEF m
  <2>3. ASSUME NEW n \in 1..d PROVE log[n].age + 1 >= EmailWindow
    <3>1. n \in 1..N /\ h[n].age + 1 >= EmailWindow
      BY <1>10
    <3>2. log[n].age = h[n].age
      BY <1>1, <2>1, <3>1, EntryTypes
    <3> QED
      BY <3>1, <3>2
  <2>4. Len(log) = N
    BY <1>1 DEF log
  <2> QED
    BY <1>6, <2>1, <2>2, <2>3, <2>4 DEF OneTickOlder, new, log
<1>12. OneTickOlder(WideLog(g), WideLog(h), d, IpWindow)
  <2> DEFINE new == WideLog(g)
             log == WideLog(h)
  <2>1. /\ DOMAIN new = 1..(N - d) /\ \A n \in 1..(N - d) : new[n] = WideEntry(g[n])
        /\ \A n \in 1..N : log[n] = WideEntry(h[n])
    BY <1>1, <1>7 DEF WideLog
  <2> HIDE DEF new, log
  <2>2. ASSUME NEW n \in 1..(N - d)
        PROVE  /\ new[n].key = log[n + d].key /\ new[n].age = log[n + d].age + 1
               /\ new[n].used = log[n + d].used /\ new[n].counted = log[n + d].counted
    <3> DEFINE m == n + d
    <3>1. m \in 1..N /\ g[n] = o[m]
      BY <1>7
    <3> DEFINE a == o[m]
               b == h[m]
    <3>2. new[n] = WideEntry(a) /\ log[m] = WideEntry(b) /\ a \in Tries /\ b \in Tries
      BY <1>1, <1>2, <2>1, <3>1
    <3>3. a.age = b.age + 1 /\ a.email = b.email /\ a.ip = b.ip /\ a.verdict = b.verdict
      BY <1>2, <3>1
    <3> HIDE DEF a, b, m
    <3>4. /\ WideEntry(a).key = WideEntry(b).key /\ WideEntry(a).age = WideEntry(b).age + 1
          /\ WideEntry(a).used = WideEntry(b).used /\ WideEntry(a).counted = WideEntry(b).counted
      BY <3>3 DEF NarrowEntry, WideEntry
    <3> QED
      BY <3>2, <3>4 DEF m
  <2>3. ASSUME NEW n \in 1..d PROVE log[n].age + 1 >= IpWindow
    <3>1. n \in 1..N /\ h[n].age + 1 >= IpWindow
      BY <1>10
    <3>2. log[n].age = h[n].age
      BY <1>1, <2>1, <3>1, EntryTypes
    <3> QED
      BY <3>1, <3>2
  <2>4. Len(log) = N
    BY <1>1 DEF log
  <2> QED
    BY <1>6, <2>1, <2>2, <2>3, <2>4 DEF OneTickOlder, new, log
<1> QED
  BY <1>9, <1>11, <1>12

LEMMA EmptyTableSound ==
    ASSUME NEW S, NEW limit \in Nat, NEW window, NEW cap
    PROVE  Sound(<<>>, <<>>, S, limit, window, cap)
<1>1. Table(<<>>, S, limit, window)
  BY DEF Table
<1>2. InOrder(<<>>, <<>>)
  BY DEF InOrder, Before
<1>3. ASSUME NEW k PROVE Kept(AgesOf(<<>>, k), <<>>, k, window, cap)
  <2>1. AgesOf(<<>>, k) = <<>>
    BY DEF AgesOf, Has
  <2>2. Live(<<>>, window) = {} /\ Counted(<<>>, k, window) = {}
    BY DEF Live, Counted
  <2>3. Matches(<<>>, <<>>, <<>>, k, window, cap)
    BY <2>2 DEF Matches
  <2> QED
    BY <2>1, <2>3 DEF Kept
<1> QED
  BY <1>1, <1>2, <1>3 DEF Sound

LEMMA LoginStarts == LoginInit => LoginInv
<1> SUFFICES ASSUME LoginInit PROVE LoginInv
  OBVIOUS
<1>1. tries = <<>> /\ emailTable = <<>> /\ ipTable = <<>>
  BY DEF LoginInit
<1>2. History(tries) /\ NarrowLog(tries) = <<>> /\ WideLog(tries) = <<>>
  BY <1>1 DEF History, NarrowLog, WideLog
<1> QED
  BY <1>1, <1>2, LimitsAreNumbers, EmptyTableSound DEF LoginInv, NarrowSound, WideSound

\* The tables that a call works on: swept or not.
LEMMA SweptAtSound ==
    ASSUME NEW S, NEW limit \in Nat, NEW window \in Nat, NEW cap, NEW t, NEW log,
           Sound(t, log, S, limit, window, cap)
    PROVE  Sound(SweptAt(t, window), log, S, limit, window, cap)
<1>1. Sound(Swept(t, window), log, S, limit, window, cap)
  BY SweptSound
<1> QED
  BY <1>1 DEF SweptAt

\* A login keeps both tables sound: the wide limit is asked only after the narrow one.
LEMMA LoginKeeps ==
    ASSUME LoginInv, NEW e \in Names, NEW i \in Ips, Login(e, i)
    PROVE  LoginInv'
<1> DEFINE last == [email |-> e, ip |-> i, age |-> 0, verdict |-> Verdict(e, i)]
           nx == NarrowEntry(last)
           wx == WideEntry(last)
           K == Names \X Ips
           key == <<e, i>>
           et == SweptAt(emailTable, EmailWindow)
           it == SweptAt(ipTable, IpWindow)
           ef == EmailTableAt(e, i)
           if == IpTableAt(i)
<1>1. History(tries) /\ NarrowSound /\ WideSound
  BY DEF LoginInv
<1>2. /\ tries' = Append(tries, last)
      /\ emailTable' = RecordedLast(ef, EmailLimit, EmailWindow)
      /\ ipTable' = IF NarrowHasRoom(e, i) THEN RecordedLast(if, IpLimit, IpWindow) ELSE it
  BY DEF Login, CheckAndRecord
<1>3. /\ last \in Tries /\ last.age = 0 /\ last.email = e /\ last.ip = i
      /\ last.verdict = Verdict(e, i)
      /\ last.verdict # "email_ip" <=> NarrowHasRoom(e, i)
      /\ last.verdict = "let_in" <=> NarrowHasRoom(e, i) /\ WideHasRoom(i)
  BY DEF Verdict, Tries
<1>4. /\ ef = Fetched(et, key, MaxEmailBuckets, EmailWindow)
      /\ if = Fetched(it, i, MaxIpBuckets, IpWindow)
      /\ NarrowHasRoom(e, i) <=> HasRoom(LastAges(ef), EmailLimit, EmailWindow)
      /\ WideHasRoom(i) <=> HasRoom(LastAges(if), IpLimit, IpWindow)
  BY DEF EmailTableAt, IpTableAt, NarrowHasRoom, WideHasRoom
<1> HIDE DEF last, et, it, ef, if
<1>5. /\ History(Append(tries, last))
      /\ NarrowLog(Append(tries, last)) = Append(NarrowLog(tries), nx)
      /\ WideLog(Append(tries, last)) = Append(WideLog(tries), wx)
  BY <1>1, <1>3, HistoryAppended
<1>6. /\ nx \in Entries(K) /\ nx.key = key /\ nx.age = 0 /\ nx.used
      /\ nx.counted <=> last.verdict # "email_ip"
  BY <1>3, EntryTypes
<1>7. /\ wx \in Entries(Ips) /\ wx.key = i /\ wx.age = 0
      /\ wx.used <=> last.verdict # "email_ip"
      /\ wx.counted <=> last.verdict = "let_in"
  BY <1>3, EntryTypes
<1> HIDE DEF nx, wx
<1>8. Logged(NarrowLog(tries), K) /\ Logged(WideLog(tries), Ips)
  BY <1>1, HistoryIs
<1>9. NarrowSound'
  <2> DEFINE log == NarrowLog(tries)
             r == RecordedLast(ef, EmailLimit, EmailWindow)
  <2> HIDE DEF K, key
  <2>1. Sound(emailTable, log, K, EmailLimit, EmailWindow, MaxEmailBuckets)
    BY <1>1 DEF NarrowSound, K
  <2>2. Sound(et, log, K, EmailLimit, EmailWindow, MaxEmailBuckets)
    BY <2>1, LimitsAreNumbers, SweptAtSound DEF et
  <2>3. ef = Fetched(et, nx.key, MaxEmailBuckets, EmailWindow)
    BY <1>4, <1>6
  <2>4. nx.counted <=> HasRoom(LastAges(ef), EmailLimit, EmailWindow)
    BY <1>3, <1>4, <1>6
  <2> HIDE DEF log
  <2>5. Sound(r, Append(log, nx), K, EmailLimit, EmailWindow, MaxEmailBuckets)
    BY <1>6, <1>8, <2>2, <2>3, <2>4, LimitsAreNumbers, TrySound DEF log
  <2>6. emailTable' = r /\ NarrowLog(tries)' = Append(log, nx)
    BY <1>2, <1>5 DEF log, NarrowLog
  <2> HIDE DEF r
  <2> QED
    BY <2>5, <2>6 DEF NarrowSound, K
<1>10. WideSound'
  <2> DEFINE log == WideLog(tries)
             r == RecordedLast(if, IpLimit, IpWindow)
  <2>1. Sound(ipTable, log, Ips, IpLimit, IpWindow, MaxIpBuckets)
    BY <1>1 DEF WideSound
  <2>2. Sound(it, log, Ips, IpLimit, IpWindow, MaxIpBuckets)
    BY <2>1, LimitsAreNumbers, SweptAtSound DEF it
  <2>3. WideLog(tries)' = Append(log, wx)
    BY <1>2, <1>5 DEF log, WideLog
  <2> HIDE DEF log
  <2>4. CASE NarrowHasRoom(e, i)
    <3>1. if = Fetched(it, wx.key, MaxIpBuckets, IpWindow) /\ wx.used
      BY <1>3, <1>4, <1>7, <2>4
    <3>2. wx.counted <=> HasRoom(LastAges(if), IpLimit, IpWindow)
      BY <1>3, <1>4, <1>7, <2>4
    <3>3. Sound(r, Append(log, wx), Ips, IpLimit, IpWindow, MaxIpBuckets)
      BY <1>7, <1>8, <2>2, <3>1, <3>2, LimitsAreNumbers, TrySound DEF log
    <3>4. ipTable' = r
      BY <1>2, <2>4
    <3> HIDE DEF r
    <3> QED
      BY <2>3, <3>3, <3>4 DEF WideSound
  <2>5. CASE ~NarrowHasRoom(e, i)
    <3>1. ~wx.used /\ ~wx.counted
      BY <1>3, <1>7, <2>5
    <3>2. Sound(it, Append(log, wx), Ips, IpLimit, IpWindow, MaxIpBuckets)
      BY <1>7, <1>8, <2>2, <3>1, LimitsAreNumbers, UnaskedSound DEF log
    <3>3. ipTable' = it
      BY <1>2, <2>5
    <3> QED
      BY <2>3, <3>2, <3>3 DEF WideSound
  <2> QED
    BY <2>4, <2>5
<1>11. History(tries)'
  <2>1. History(tries)' <=> History(tries')
    BY DEF History
  <2> QED
    BY <1>2, <1>5, <2>1
<1> QED
  BY <1>9, <1>10, <1>11 DEF LoginInv

LEMMA TickKeeps ==
    ASSUME LoginInv, Tick
    PROVE  LoginInv'
<1> DEFINE o == [n \in DOMAIN tries |-> [tries[n] EXCEPT !.age = @ + 1]]
           g == Recent(o)
<1>1. History(tries) /\ NarrowSound /\ WideSound
  BY DEF LoginInv
<1>2. /\ tries' = g
      /\ emailTable' = Aged(emailTable, EmailWindow)
      /\ ipTable' = Aged(ipTable, IpWindow)
  BY DEF Tick
<1>3. /\ History(g)
      /\ \E d : /\ OneTickOlder(NarrowLog(g), NarrowLog(tries), d, EmailWindow)
                /\ OneTickOlder(WideLog(g), WideLog(tries), d, IpWindow)
  BY <1>1, HistoryTicks
<1> HIDE DEF o, g
<1>4. PICK d : /\ OneTickOlder(NarrowLog(g), NarrowLog(tries), d, EmailWindow)
               /\ OneTickOlder(WideLog(g), WideLog(tries), d, IpWindow)
  BY <1>3
<1>5. Logged(NarrowLog(tries), Names \X Ips) /\ Logged(WideLog(tries), Ips)
  BY <1>1, HistoryIs
<1>6. Sound(Aged(emailTable, EmailWindow), NarrowLog(g), Names \X Ips, EmailLimit, EmailWindow,
            MaxEmailBuckets)
  <2> DEFINE K == Names \X Ips
  <2>1. Logged(NarrowLog(tries), K)
        /\ Sound(emailTable, NarrowLog(tries), K, EmailLimit, EmailWindow, MaxEmailBuckets)
    BY <1>1, <1>5 DEF NarrowSound
  <2> HIDE DEF K
  <2>2. Sound(Aged(emailTable, EmailWindow), NarrowLog(g), K, EmailLimit, EmailWindow,
              MaxEmailBuckets)
    BY <1>4, <2>1, LimitsAreNumbers, AgedSound
  <2> QED
    BY <2>2 DEF K
<1>7. Sound(Aged(ipTable, IpWindow), WideLog(g), Ips, IpLimit, IpWindow, MaxIpBuckets)
  BY <1>1, <1>4, <1>5, LimitsAreNumbers, AgedSound DEF WideSound
<1>8. NarrowLog(tries)' = NarrowLog(g) /\ WideLog(tries)' = WideLog(g)
  BY <1>2 DEF NarrowLog, WideLog
<1>9. History(tries)'
  <2>1. History(tries)' <=> History(tries')
    BY DEF History
  <2> QED
    BY <1>2, <1>3, <2>1
<1>10. NarrowSound' /\ WideSound'
  BY <1>2, <1>6, <1>7, <1>8 DEF NarrowSound, WideSound
<1> QED
  BY <1>9, <1>10 DEF LoginInv

LEMMA LoginStaysSound == LoginSpec => []LoginInv
<1>1. LoginInit => LoginInv
  BY LoginStarts
<1>2. LoginInv /\ [LoginNext]_loginVars => LoginInv'
  <2> SUFFICES ASSUME LoginInv, [LoginNext]_loginVars PROVE LoginInv'
    OBVIOUS
  <2>1. CASE Tick
    BY <2>1, TickKeeps
  <2>2. ASSUME NEW e \in Names, NEW i \in Ips, Login(e, i) PROVE LoginInv'
    BY <2>2, LoginKeeps
  <2>3. CASE UNCHANGED loginVars
    BY <2>3 DEF LoginInv, NarrowSound, WideSound, History, NarrowLog, WideLog, loginVars
  <2> QED
    BY <2>1, <2>2, <2>3 DEF LoginNext
<1> QED
  BY <1>1, <1>2, PTL DEF LoginSpec

\* The tries of a history, and the logs of the two limits.
LEMMA CountsAgree ==
    ASSUME History(tries)
    PROVE  /\ \A e \in Names, i \in Ips :
                PastNarrow(OfPair(e, i, EmailWindow)) = Counted(NarrowLog(tries), <<e, i>>, EmailWindow)
           /\ \A i \in Ips : LetIn(OfIp(i, IpWindow)) = Counted(WideLog(tries), i, IpWindow)
           /\ {<<tries[n].email, tries[n].ip>> : n \in Within(EmailWindow)}
                = KeysWithin(NarrowLog(tries), EmailWindow)
           /\ {tries[n].ip : n \in Within(IpWindow)} = KeysWithin(WideLog(tries), IpWindow)
<1> DEFINE nl == NarrowLog(tries)
           wl == WideLog(tries)
<1>1. /\ DOMAIN nl = DOMAIN tries /\ DOMAIN wl = DOMAIN tries
      /\ \A n \in DOMAIN tries : tries[n] \in Tries
      /\ \A n \in DOMAIN tries : nl[n] = NarrowEntry(tries[n]) /\ wl[n] = WideEntry(tries[n])
  BY HistoryIs DEF NarrowLog, WideLog
<1> HIDE DEF nl, wl
<1>2. \A n \in DOMAIN tries :
        /\ nl[n].key = <<tries[n].email, tries[n].ip>> /\ nl[n].age = tries[n].age
        /\ nl[n].counted = (tries[n].verdict # "email_ip")
        /\ wl[n].key = tries[n].ip /\ wl[n].age = tries[n].age
        /\ wl[n].counted = (tries[n].verdict = "let_in")
  BY <1>1 DEF NarrowEntry, WideEntry
<1>3. ASSUME NEW e \in Names, NEW i \in Ips
      PROVE  PastNarrow(OfPair(e, i, EmailWindow)) = Counted(nl, <<e, i>>, EmailWindow)
  <2>1. \A n \in DOMAIN tries :
          nl[n].key = <<e, i>> <=> tries[n].email = e /\ tries[n].ip = i
    BY <1>2
  <2>2. \A n \in DOMAIN tries :
          nl[n].age = tries[n].age /\ (nl[n].counted <=> tries[n].verdict # "email_ip")
    BY <1>2
  <2>3. \A n : n \in PastNarrow(OfPair(e, i, EmailWindow))
                 <=> n \in Counted(nl, <<e, i>>, EmailWindow)
    BY <1>1, <2>1, <2>2 DEF PastNarrow, OfPair, Within, Counted
  <2> QED
    BY <2>3 DEF PastNarrow, OfPair, Within, Counted
<1>4. ASSUME NEW i \in Ips PROVE LetIn(OfIp(i, IpWindow)) = Counted(wl, i, IpWindow)
  BY <1>1, <1>2 DEF LetIn, OfIp, Within, Counted
<1>5. {<<tries[n].email, tries[n].ip>> : n \in Within(EmailWindow)} = KeysWithin(nl, EmailWindow)
  <2>1. Within(EmailWindow) = {n \in DOMAIN nl : nl[n].age < EmailWindow}
    BY <1>1, <1>2 DEF Within
  <2>2. \A n \in Within(EmailWindow) : nl[n].key = <<tries[n].email, tries[n].ip>>
    BY <1>2 DEF Within
  <2> QED
    BY <2>1, <2>2 DEF KeysWithin
<1>6. {tries[n].ip : n \in Within(IpWindow)} = KeysWithin(wl, IpWindow)
  BY <1>1, <1>2 DEF Within, KeysWithin
<1> QED
  BY <1>3, <1>4, <1>5, <1>6 DEF nl, wl

LEMMA SoundKeepsLimit == LoginInv => LimitKept
<1> SUFFICES ASSUME LoginInv PROVE LimitKept
  OBVIOUS
<1>1. History(tries) /\ NarrowSound /\ WideSound
  BY DEF LoginInv
<1>2. Logged(NarrowLog(tries), Names \X Ips) /\ Logged(WideLog(tries), Ips)
  BY <1>1, HistoryIs
<1>3. ASSUME NEW e \in Names, NEW i \in Ips,
             Cardinality(PastNarrow(OfPair(e, i, EmailWindow))) > EmailLimit
      PROVE  Cardinality({<<tries[n].email, tries[n].ip>> : n \in Within(EmailWindow)}) > MaxEmailBuckets
  <2> DEFINE K == Names \X Ips
             k == <<e, i>>
             log == NarrowLog(tries)
  <2>1. k \in K /\ Logged(log, K)
        /\ Sound(emailTable, log, K, EmailLimit, EmailWindow, MaxEmailBuckets)
        /\ Cardinality(Counted(log, k, EmailWindow)) > EmailLimit
    BY <1>1, <1>2, <1>3, CountsAgree DEF NarrowSound
  <2> HIDE DEF K, k, log
  <2>2. Cardinality(KeysWithin(log, EmailWindow)) > MaxEmailBuckets
    BY <2>1, LimitsAreNumbers, OverrunMeansCrowded
  <2> QED
    BY <1>1, <2>2, CountsAgree DEF log
<1>4. ASSUME NEW i \in Ips, Cardinality(LetIn(OfIp(i, IpWindow))) > IpLimit
      PROVE  Cardinality({tries[n].ip : n \in Within(IpWindow)}) > MaxIpBuckets
  <2> DEFINE log == WideLog(tries)
  <2>1. Logged(log, Ips) /\ Sound(ipTable, log, Ips, IpLimit, IpWindow, MaxIpBuckets)
        /\ Cardinality(Counted(log, i, IpWindow)) > IpLimit
    BY <1>1, <1>2, <1>4, CountsAgree DEF WideSound
  <2> HIDE DEF log
  <2>2. Cardinality(KeysWithin(log, IpWindow)) > MaxIpBuckets
    BY <2>1, LimitsAreNumbers, OverrunMeansCrowded
  <2> QED
    BY <1>1, <2>2, CountsAgree DEF log
<1> QED
  BY <1>3, <1>4 DEF LimitKept

\* More logins than a limit get past its window, within the window's span, only
\* if in that span more pairs (addresses) tried than the table has room for: for
\* any number of names and addresses, any limits, windows and table sizes, and
\* whatever the sweeps and the evictions drop.
THEOREM LimitAlwaysKept == LoginSpec => []LimitKept
<1> QED
  BY LoginStaysSound, SoundKeepsLimit, PTL

\* What a full window in hand says of the swept table, and of the log.
LEMMA RefusedMeansSpent ==
    ASSUME NEW S, NEW limit \in Nat, NEW window \in Nat \ {0}, NEW cap \in Nat \ {0},
           NEW t, NEW log, Sound(t, log, S, limit, window, cap), Logged(log, S), NEW k \in S,
           NEW f, f = Fetched(SweptAt(t, window), k, cap, window),
           ~HasRoom(LastAges(f), limit, window)
    PROVE  Cardinality(Counted(log, k, window)) >= limit
<1> DEFINE s == SweptAt(t, window)
<1>1. Sound(s, log, S, limit, window, cap)
  BY SweptAtSound
<1> HIDE DEF s
<1>2. Table(s, S, limit, window) /\ KeysDiffer(s)
  BY <1>1, SoundIs
<1>3. f = Fetched(s, k, cap, window)
  BY DEF s
<1>4. f[Len(f)].ages = AgesOf(s, k)
  <2>1. ASSUME NEW g, g = Fetched(s, k, cap, window)
        PROVE  g[Len(g)].ages = AgesOf(s, k)
    <3>1. Table(s, S, limit, window) /\ KeysDiffer(s)
      BY <1>2
    <3>2. /\ Table(g, S, limit, window) /\ KeysDiffer(g)
          /\ Len(g) \in DOMAIN g /\ g[Len(g)].key = k
          /\ g[Len(g)].ages = AgesOf(s, k) /\ AgesOf(g, k) = AgesOf(s, k)
          /\ OrderKept(g, s, k) /\ KeptOrDropped(g, s, k, window, cap)
      BY <2>1, <3>1, FetchedIs
    <3> QED
      BY <3>2
  <2> QED
    BY <1>3, <2>1
<1>5. ~HasRoom(AgesOf(s, k), limit, window)
  BY <1>4 DEF LastAges
<1> QED
  BY <1>1, <1>5, FullMeansSpent

\* check_and_record refuses only a pair, or an address, that has used up its own
\* limit within the span: no one else's tries, no sweep and no eviction makes a
\* window look fuller than it is.
THEOREM RefusalsAreDue == LoginSpec => RefusedOnlyWhenSpent
<1>1. ASSUME LoginInv, NEW e \in Names, NEW i \in Ips, Login(e, i)
      PROVE  LET last == tries'[Len(tries')] IN
             /\ last.verdict = "email_ip" => Cardinality(PastNarrow(OfPair(e, i, EmailWindow))) >= EmailLimit
             /\ last.verdict = "ip_only" => Cardinality(LetIn(OfIp(i, IpWindow))) >= IpLimit
  <2> DEFINE r == [email |-> e, ip |-> i, age |-> 0, verdict |-> Verdict(e, i)]
  <2>1. History(tries) /\ NarrowSound /\ WideSound /\ tries' = Append(tries, r)
    BY <1>1 DEF LoginInv, Login, CheckAndRecord
  <2>2. tries'[Len(tries')] = r
    <3>1. tries \in Seq(Tries) /\ r \in Tries
      BY <2>1 DEF History, Verdict, Tries
    <3> HIDE DEF r
    <3> QED
      BY <2>1, <3>1
  <2>3. Logged(NarrowLog(tries), Names \X Ips) /\ Logged(WideLog(tries), Ips)
    BY <2>1, HistoryIs
  <2>4. r.verdict = "email_ip" => Cardinality(PastNarrow(OfPair(e, i, EmailWindow))) >= EmailLimit
    <3> SUFFICES ASSUME r.verdict = "email_ip"
                 PROVE  Cardinality(PastNarrow(OfPair(e, i, EmailWindow))) >= EmailLimit
      OBVIOUS
    <3> DEFINE K == Names \X Ips
               k == <<e, i>>
               f == EmailTableAt(e, i)
               log == NarrowLog(tries)
    <3>1. f = Fetched(SweptAt(emailTable, EmailWindow), k, MaxEmailBuckets, EmailWindow)
          /\ ~HasRoom(LastAges(f), EmailLimit, EmailWindow)
      BY DEF EmailTableAt, Verdict, NarrowHasRoom
    <3>2. k \in K /\ Logged(log, K)
          /\ Sound(emailTable, log, K, EmailLimit, EmailWindow, MaxEmailBuckets)
      BY <2>1, <2>3 DEF NarrowSound
    <3> HIDE DEF K, k, f, log
    <3>3. Cardinality(Counted(log, k, EmailWindow)) >= EmailLimit
      BY <3>1, <3>2, LimitsAreNumbers, RefusedMeansSpent
    <3> QED
      BY <2>1, <3>3, CountsAgree DEF log, k
  <2>5. r.verdict = "ip_only" => Cardinality(LetIn(OfIp(i, IpWindow))) >= IpLimit
    <3> SUFFICES ASSUME r.verdict = "ip_only"
                 PROVE  Cardinality(LetIn(OfIp(i, IpWindow))) >= IpLimit
      OBVIOUS
    <3> DEFINE f == IpTableAt(i)
               log == WideLog(tries)
    <3>1. f = Fetched(SweptAt(ipTable, IpWindow), i, MaxIpBuckets, IpWindow)
          /\ ~HasRoom(LastAges(f), IpLimit, IpWindow)
      BY DEF IpTableAt, Verdict, WideHasRoom
    <3>2. Logged(log, Ips) /\ Sound(ipTable, log, Ips, IpLimit, IpWindow, MaxIpBuckets)
      BY <2>1, <2>3 DEF WideSound
    <3> HIDE DEF f, log
    <3>3. Cardinality(Counted(log, i, IpWindow)) >= IpLimit
      BY <3>1, <3>2, LimitsAreNumbers, RefusedMeansSpent
    <3> QED
      BY <2>1, <3>3, CountsAgree DEF log
  <2> HIDE DEF r
  <2> QED
    BY <2>2, <2>4, <2>5
<1>2. LoginInv /\ [LoginNext]_loginVars =>
        [\A e \in Names, i \in Ips : Login(e, i) =>
           LET last == tries'[Len(tries')] IN
           /\ last.verdict = "email_ip" => Cardinality(PastNarrow(OfPair(e, i, EmailWindow))) >= EmailLimit
           /\ last.verdict = "ip_only" => Cardinality(LetIn(OfIp(i, IpWindow))) >= IpLimit]_loginVars
  BY <1>1
<1> QED
  BY <1>2, LoginStaysSound, PTL DEF LoginSpec, RefusedOnlyWhenSpent
=============================================================================
