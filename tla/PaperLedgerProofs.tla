-------------------------- MODULE PaperLedgerProofs --------------------------
(***************************************************************************)
(* Proofs about PaperLedger, for any processes, any number of calls and    *)
(* any requests.                                                           *)
(*                                                                         *)
(* The inductive invariant says what the two locks are for: a call under   *)
(* way owns the cache lock of its process; and, while nothing has got      *)
(* between a writer and its locks, the writer holds the advisory lock from *)
(* its first query on, so what it loads, then caches and then persists is  *)
(* exactly the books with its own change.                                  *)
(***************************************************************************)
EXTENDS PaperLedger, TLAPS

Flight == {"locking", "portfolio", "positions", "trades", "check", "load", "write"}
InFlight(o) == op[o].stage \in Flight

Locks ==
    /\ \A p \in Procs : owner[p] # NoOp => op[owner[p]].proc = p /\ InFlight(owner[p])
    /\ \A o \in Ops : InFlight(o) => owner[op[o].proc] = o
    /\ holder # NoOp => InFlight(holder)

Progress ==
    /\ \A o \in Ops :
         /\ op[o].stage \in {"positions", "trades", "write"} => seeded
         /\ op[o].stage \in {"check", "load", "write"} => op[o].call.kind # "read"
         /\ op[o].stage = "check" => op[o].call.kind = "signal"
         /\ op[o].stage \notin {"new", "done"} => op[o].call.kind # "pipeline"
         /\ op[o].stage # "done" => op[o].result = "none"
    /\ \A e \in entries : op[e].stage = "done"

\* A write that is past the advisory lock.
Writes(o) == InFlight(o) /\ op[o].stage # "locking" /\ op[o].call.kind # "read"

\* The cache of o's process holds the books with o's change.
Pending(o) ==
    IF op[o].call.kind = "candle"
    THEN /\ op[o].closing \in SUBSET Held(books, op[o].call)
         /\ cache[op[o].proc] = Exit(books, op[o].closing, o)
    ELSE /\ op[o].closing = Held(books, op[o].call)
         /\ cache[op[o].proc] = Fill(books, o, op[o].call)

Mirror(o) ==
    /\ op[o].stage \in {"positions", "trades"} =>
         op[o].row.ins = books.ins /\ op[o].row.outs = books.outs
    /\ op[o].stage = "trades" => op[o].row.open = books.open
    /\ op[o].stage = "check" => cache[op[o].proc] = books
    /\ op[o].stage \in {"load", "write"} => Pending(o)
    /\ op[o].stage = "write" => op[o].listed = cache[op[o].proc].open

\* On record, or filled by a pipeline that is over.
Known(a) == a \in entries \/ (op[a].call.kind = "pipeline" /\ op[a].stage = "done")

Whole ==
    /\ \A o \in Ops : Writes(o) => holder = o
    /\ Balanced(books)
    /\ books.ins \subseteq entries
    /\ \A o \in Ops : Writes(o) /\ seeded => Mirror(o)

Answers ==
    \A o \in Ops : op[o].call.kind = "signal" =>
        /\ op[o].result = "accepted" => o \in entries /\ o \in books.ins
        /\ op[o].result \in {"refused", "conflict"} => o \notin entries \cup books.ins
        /\ op[o].result = "conflict" => Used(op[o].call.cid)

Caches ==
    /\ \A o \in Ops : op[o].row.ins \subseteq entries
    /\ \A o \in Ops : \A a \in op[o].snapshot.ins : Known(a)
    /\ \A p \in Procs : \A a \in cache[p].ins :
         Known(a) \/ (op[a].proc = p /\ op[a].stage \in {"load", "write"})

IInv ==
    /\ TypeOK
    /\ Locks
    /\ Progress
    /\ OneFillPerId
    /\ clean => Whole /\ Answers /\ Caches

-----------------------------------------------------------------------------
(* Types *)

LEMMA OpsFacts == NoOp \notin Ops /\ Ops \subseteq Nat
  BY ConstantsAssumption DEF Ops, NoOp

LEMMA ExitType ==
  ASSUME NEW b \in Book, NEW o \in Ops, NEW gone \in SUBSET Ops
  PROVE  Exit(b, gone, o) \in Book
<1> DEFINE out == gone \X {o}
<1>1. out \in SUBSET (Ops \X Ops)
  OBVIOUS
<1>2. Exit(b, gone, o) = [b EXCEPT !.open = @ \ gone, !.trades = @ \cup out, !.outs = @ \cup out]
  BY DEF Exit
<1> HIDE DEF out
<1> QED
  BY <1>1, <1>2 DEF Book

LEMMA BookFacts ==
  ASSUME NEW b \in Book, NEW o \in Ops, NEW c \in Calls
  PROVE  /\ Held(b, c) \in SUBSET Ops /\ Held(b, c) \subseteq b.open
         /\ \A gone \in SUBSET Held(b, c) : Exit(b, gone, o) \in Book
         /\ Fill(b, o, c) \in Book
<1>1. Held(b, c) \in SUBSET Ops /\ Held(b, c) \subseteq b.open
  BY DEF Held, Book
<1>2. \A gone \in SUBSET Held(b, c) : Exit(b, gone, o) \in Book
  BY <1>1, ExitType
<1>3. Exit(b, Held(b, c), o) \in Book
  BY <1>2
<1>4. Fill(b, o, c) \in Book
  BY <1>3 DEF Fill, Book
<1> QED
  BY <1>1, <1>2, <1>4

LEMMA EmptyType == Empty \in Book
  BY DEF Empty, Book

\* What the steps of a call do to its record.
LEMMA OpUpdates ==
  ASSUME NEW s \in OpState
  PROVE  /\ \A st \in Stages : [s EXCEPT !.stage = st] \in OpState
         /\ \A st \in Stages, r \in Results :
              [s EXCEPT !.stage = st, !.result = r] \in OpState
         /\ \A st \in Stages, b \in Book : [s EXCEPT !.stage = st, !.row = b] \in OpState
         /\ \A st \in Stages, l \in SUBSET Ops :
              [s EXCEPT !.stage = st, !.listed = l] \in OpState
         /\ \A st \in Stages, a, b \in Book, g \in SUBSET Ops :
              [s EXCEPT !.stage = st, !.snapshot = a, !.closing = g, !.row = b] \in OpState
<1>1. \A st \in Stages : [s EXCEPT !.stage = st] \in OpState
  BY DEF OpState
<1>2. \A st \in Stages, r \in Results :
        [s EXCEPT !.stage = st, !.result = r] \in OpState
  BY DEF OpState
<1>3. \A st \in Stages, b \in Book : [s EXCEPT !.stage = st, !.row = b] \in OpState
  BY DEF OpState
<1>4. \A st \in Stages, l \in SUBSET Ops :
        [s EXCEPT !.stage = st, !.listed = l] \in OpState
  BY DEF OpState
<1>5. \A st \in Stages, a, b \in Book, g \in SUBSET Ops :
        [s EXCEPT !.stage = st, !.snapshot = a, !.closing = g, !.row = b] \in OpState
  BY DEF OpState
<1> QED
  BY <1>1, <1>2, <1>3, <1>4, <1>5

LEMMA IdleType ==
  ASSUME NEW p \in Procs, NEW c \in Calls
  PROVE  Idle(p, c) \in OpState
  BY EmptyType DEF Idle, OpState, Stages, Results

LEMMA LeaveType ==
  ASSUME TypeOK, NEW o \in Ops, NEW r \in Results, Leave(o, r)
  PROVE  /\ op' \in [Ops -> OpState]
         /\ owner' \in [Procs -> Ops \cup {NoOp}]
         /\ holder' \in Ops \cup {NoOp}
<1>1. op[o] \in OpState /\ op[o].proc \in Procs /\ op[o].call \in Calls
  BY DEF TypeOK, OpState
<1>2. Idle(op[o].proc, op[o].call) \in OpState
  BY <1>1, IdleType
<1>3. [Idle(op[o].proc, op[o].call) EXCEPT !.stage = "done", !.result = r] \in OpState
  BY <1>2, OpUpdates DEF Stages
<1> QED
  BY <1>1, <1>3 DEF Leave, TypeOK, Freed

LEMMA OpFacts ==
  ASSUME TypeOK, NEW o \in Ops
  PROVE  op[o] \in OpState /\ op[o].proc \in Procs /\ op[o].call \in Calls
  BY DEF TypeOK, OpState

LEMMA PersistType ==
  ASSUME TypeOK, NEW o \in Ops, NEW b \in Book, NEW changed \in Book,
         NEW gone \in SUBSET Ops, Persist(o, b, changed, gone)
  PROVE  /\ op' \in [Ops -> OpState]
         /\ owner' \in [Procs -> Ops \cup {NoOp}]
         /\ holder' \in Ops \cup {NoOp}
         /\ cache' \in [Procs -> Book]
<1>1. [op[o] EXCEPT !.stage = "load", !.snapshot = b, !.closing = gone, !.row = Empty] \in OpState
  BY OpFacts, OpUpdates, EmptyType DEF Stages
<1> QED
  BY <1>1, OpFacts DEF Persist, TypeOK

LEMMA TradeType ==
  ASSUME TypeOK, NEW o \in Ops, NEW b \in Book, Trade(o, b)
  PROVE  /\ op' \in [Ops -> OpState]
         /\ owner' \in [Procs -> Ops \cup {NoOp}]
         /\ holder' \in Ops \cup {NoOp}
         /\ cache' \in [Procs -> Book]
<1>1. CASE Reject(o, b)
  BY <1>1, LeaveType, OpFacts DEF Reject, Results, TypeOK
<1>2. CASE Persist(o, b, Fill(b, o, op[o].call), Held(b, op[o].call))
  BY <1>2, OpFacts, PersistType, BookFacts
<1> QED
  BY <1>1, <1>2 DEF Trade

LEMMA HydratedType ==
  ASSUME TypeOK, NEW o \in Ops, NEW b \in Book, Hydrated(o, b)
  PROVE  /\ op' \in [Ops -> OpState]
         /\ owner' \in [Procs -> Ops \cup {NoOp}]
         /\ holder' \in Ops \cup {NoOp}
         /\ cache' \in [Procs -> Book]
<1> DEFINE Out == /\ op' \in [Ops -> OpState]
                  /\ owner' \in [Procs -> Ops \cup {NoOp}]
                  /\ holder' \in Ops \cup {NoOp}
                  /\ cache' \in [Procs -> Book]
<1>1. ASSUME Trade(o, b) PROVE Out
  BY <1>1, TradeType
<1>2. ASSUME ProcessCandle(o, b) PROVE Out
  <2>1. PICK gone \in SUBSET Held(b, op[o].call) : Persist(o, b, Exit(b, gone, o), gone)
    BY <1>2 DEF ProcessCandle
  <2>2. Exit(b, gone, o) \in Book /\ gone \in SUBSET Ops
    BY OpFacts, BookFacts
  <2> QED
    BY <2>1, <2>2, PersistType
<1>3. ASSUME Serve(o, b) PROVE Out
  BY <1>3, LeaveType, OpFacts DEF Serve, Results, TypeOK
<1>4. ASSUME cache' = [cache EXCEPT ![op[o].proc] = b],
             op' = [op EXCEPT ![o] = [@ EXCEPT !.stage = "check", !.row = Empty]],
             UNCHANGED <<holder, owner>>
      PROVE  Out
  <2>1. [op[o] EXCEPT !.stage = "check", !.row = Empty] \in OpState
    BY OpFacts, OpUpdates, EmptyType DEF Stages
  <2> QED
    BY OpFacts, <1>4, <2>1 DEF TypeOK
<1> QED
  BY <1>1, <1>2, <1>3, <1>4 DEF Hydrated

\* A step of one call that leaves the locks alone.
LEMMA StageType ==
  ASSUME TypeOK, NEW o \in Ops, NEW s \in OpState, op' = [op EXCEPT ![o] = s],
         UNCHANGED <<seeded, books, entries, cache, clean>>,
         owner' \in [Procs -> Ops \cup {NoOp}], holder' \in Ops \cup {NoOp}
  PROVE  TypeOK'
  BY DEF TypeOK

LEMMA RestoredType ==
  ASSUME TypeOK, NEW o \in Ops
  PROVE  Restored(o) \in [Procs -> Book]
  BY OpFacts DEF TypeOK, OpState, Restored

LEMMA WrittenType ==
  ASSUME TypeOK, NEW o \in Ops
  PROVE  Written(o) \in Book
<1>1. op[o].closing \X {o} \in SUBSET (Ops \X Ops)
  BY OpFacts DEF OpState
<1>2. cache[op[o].proc] \in Book /\ books \in Book
  BY OpFacts DEF TypeOK
<1> QED
  BY <1>1, <1>2, OpFacts DEF Written, Book, OpState

LEMMA TypeInit == Init => TypeOK
<1> SUFFICES ASSUME Init PROVE TypeOK
  OBVIOUS
<1>1. (CHOOSE p \in Procs : TRUE) \in Procs /\ (CHOOSE c \in Calls : TRUE) \in Calls
  BY ConstantsAssumption
<1>2. Idle(CHOOSE p \in Procs : TRUE, CHOOSE c \in Calls : TRUE) \in OpState
  BY <1>1, IdleType
<1> QED
  BY <1>2 DEF Init, TypeOK, Book, Empty

LEMMA TypeNext == TypeOK /\ [Next]_vars => TypeOK'
<1> SUFFICES ASSUME TypeOK, [Next]_vars PROVE TypeOK'
  OBVIOUS
<1>u. CASE UNCHANGED vars
  BY <1>u DEF TypeOK, vars
<1>1. ASSUME NEW o \in Ops, Submit(o) PROVE TypeOK'
  <2>1. PICK p \in Procs, c \in Calls :
           op' = [op EXCEPT ![o] = [Idle(p, c) EXCEPT !.stage = "queued"]]
    BY <1>1 DEF Submit
  <2>2. [Idle(p, c) EXCEPT !.stage = "queued"] \in OpState
    BY IdleType, OpUpdates DEF Stages
  <2> QED
    BY <1>1, <2>1, <2>2, StageType DEF Submit, TypeOK
<1>2. ASSUME NEW o \in Ops, EnterCache(o) PROVE TypeOK'
  <2> DEFINE s == IF op[o].call.kind = "read" THEN "portfolio" ELSE "locking"
  <2>1. [op[o] EXCEPT !.stage = s] \in OpState
    BY OpFacts, OpUpdates DEF Stages
  <2>2. op' = [op EXCEPT ![o] = [op[o] EXCEPT !.stage = s]]
    BY <1>2 DEF EnterCache
  <2>3. owner' \in [Procs -> Ops \cup {NoOp}] /\ holder' \in Ops \cup {NoOp}
    BY <1>2 DEF EnterCache, TypeOK
  <2> QED
    BY <1>2, <2>1, <2>2, <2>3, StageType DEF EnterCache
<1>3. ASSUME NEW o \in Ops, TakeWriterLock(o) PROVE TypeOK'
  <2>1. [op[o] EXCEPT !.stage = "portfolio"] \in OpState
    BY OpFacts, OpUpdates DEF Stages
  <2> QED
    BY <1>3, <2>1, StageType DEF TakeWriterLock, TypeOK
<1>4. ASSUME NEW o \in Ops, LoadPortfolio(o) PROVE TypeOK'
  <2>1. [Empty EXCEPT !.ins = books.ins, !.outs = books.outs] \in Book
    BY DEF TypeOK, Book, Empty
  <2>2. [op[o] EXCEPT !.stage = "positions",
                      !.row = [Empty EXCEPT !.ins = books.ins, !.outs = books.outs]] \in OpState
    BY <2>1, OpFacts, OpUpdates DEF Stages
  <2>3. op' = [op EXCEPT ![o] = [op[o] EXCEPT !.stage = "positions",
                      !.row = [Empty EXCEPT !.ins = books.ins, !.outs = books.outs]]]
    BY <1>4 DEF LoadPortfolio, TypeOK
  <2> QED
    BY <1>4, <2>2, <2>3, StageType DEF LoadPortfolio, TypeOK
<1>5. ASSUME NEW o \in Ops, LoadPositions(o) PROVE TypeOK'
  <2>1. [op[o].row EXCEPT !.open = books.open] \in Book
    BY OpFacts DEF TypeOK, OpState, Book
  <2>2. [op[o] EXCEPT !.stage = "trades", !.row = [op[o].row EXCEPT !.open = books.open]] \in OpState
    BY <2>1, OpFacts, OpUpdates DEF Stages
  <2>3. op' = [op EXCEPT ![o] = [op[o] EXCEPT !.stage = "trades",
                                             !.row = [op[o].row EXCEPT !.open = books.open]]]
    BY <1>5 DEF LoadPositions, TypeOK, OpState
  <2> QED
    BY <1>5, <2>2, <2>3, StageType DEF LoadPositions, TypeOK
<1>6. ASSUME NEW o \in Ops, FindUnseeded(o) \/ LoadTrades(o) PROVE TypeOK'
  <2>1. [op[o].row EXCEPT !.trades = books.trades] \in Book /\ cache[op[o].proc] \in Book
    BY OpFacts DEF TypeOK, OpState, Book
  <2>2. PICK b \in Book : Hydrated(o, b)
    BY <1>6, <2>1 DEF FindUnseeded, LoadTrades
  <2> QED
    BY <1>6, <2>2, HydratedType DEF FindUnseeded, LoadTrades, TypeOK
<1>7. ASSUME NEW o \in Ops, CheckOrderId(o) PROVE TypeOK'
  <2>1. cache[op[o].proc] \in Book
    BY OpFacts DEF TypeOK
  <2>2. CASE Leave(o, "conflict") /\ UNCHANGED cache
    BY <1>7, <2>2, LeaveType DEF CheckOrderId, TypeOK, Results
  <2>3. CASE Trade(o, cache[op[o].proc])
    BY <1>7, <2>1, <2>3, TradeType DEF CheckOrderId, TypeOK
  <2> QED
    BY <1>7, <2>2, <2>3 DEF CheckOrderId
<1>8. ASSUME NEW o \in Ops, ListPositions(o) PROVE TypeOK'
  <2>1. cache[op[o].proc].open \in SUBSET Ops
    BY OpFacts DEF TypeOK, Book
  <2>2. [op[o] EXCEPT !.stage = "write", !.listed = cache[op[o].proc].open] \in OpState
    BY <2>1, OpFacts, OpUpdates DEF Stages
  <2>3. op' = [op EXCEPT ![o] = [op[o] EXCEPT !.stage = "write", !.listed = cache[op[o].proc].open]]
    BY <1>8 DEF ListPositions, TypeOK
  <2> QED
    BY <1>8, <2>2, <2>3, StageType DEF ListPositions, TypeOK
<1>9. ASSUME NEW o \in Ops, GiveUp(o) \/ QueryFails(o) PROVE TypeOK'
  BY <1>9, LeaveType DEF GiveUp, QueryFails, TypeOK, Results
<1>10. ASSUME NEW o \in Ops, PersistUnseeded(o) \/ CommitConflicts(o) \/ PersistFails(o)
       PROVE TypeOK'
  BY <1>10, LeaveType, RestoredType DEF PersistUnseeded, CommitConflicts, PersistFails, TypeOK, Results
<1>11. ASSUME NEW o \in Ops, Commit(o) PROVE TypeOK'
  <2>1. books' \in Book /\ entries' \subseteq Ops
    BY <1>11, WrittenType DEF Commit, TypeOK
  <2>2. cache' \in [Procs -> Book]
    BY <1>11, RestoredType DEF Commit, TypeOK
  <2>3. PICK r \in Results : Leave(o, r)
    BY <1>11 DEF Commit, Results
  <2> QED
    BY <1>11, <2>1, <2>2, <2>3, LeaveType DEF Commit, TypeOK
<1>12. ASSUME NEW o \in Ops, PipelineFill(o) PROVE TypeOK'
  <2>1. PICK p \in Procs, c \in Calls :
          /\ cache' = [cache EXCEPT ![p] = Fill(@, o, c)]
          /\ op' = [op EXCEPT ![o] = [Idle(p, c) EXCEPT !.stage = "done", !.result = "accepted"]]
    BY <1>12 DEF PipelineFill
  <2>2. [Idle(p, c) EXCEPT !.stage = "done", !.result = "accepted"] \in OpState
    BY IdleType, OpUpdates DEF Stages, Results
  <2>3. Fill(cache[p], o, c) \in Book
    BY BookFacts DEF TypeOK
  <2>4. clean' \in BOOLEAN
    BY <1>12 DEF PipelineFill, TypeOK
  <2> QED
    BY <1>12, <2>1, <2>2, <2>3, <2>4 DEF PipelineFill, TypeOK
<1>13. ASSUME NEW o \in Ops, LoseLock(o) PROVE TypeOK'
  BY <1>13 DEF LoseLock, TypeOK
<1>14. ASSUME NEW p \in Procs, Restart(p) PROVE TypeOK'
  <2>1. Empty \in Book
    BY DEF Empty, Book
  <2>2. \A o \in Ops : [Idle(p, op[o].call) EXCEPT !.stage = "done", !.result = "error"] \in OpState
    BY IdleType, OpFacts, OpUpdates DEF Stages, Results
  <2> QED
    BY <1>14, <2>1, <2>2 DEF Restart, TypeOK
<1> QED
  BY <1>u, <1>1, <1>2, <1>3, <1>4, <1>5, <1>6, <1>7, <1>8, <1>9, <1>10, <1>11, <1>12, <1>13, <1>14
  DEF Next, CallStep

-----------------------------------------------------------------------------
(* What a step of a call may do to its record and to the locks *)

\* The call goes on: it keeps the cache lock and may take the advisory lock.
Advance(o, s) ==
    /\ op' = [op EXCEPT ![o] = s]
    /\ s.proc = op[o].proc /\ s.call = op[o].call /\ s.result = op[o].result
    /\ s.stage \in Flight
    /\ s.stage \in {"positions", "trades", "write"} => seeded
    /\ s.stage \in {"check", "load", "write"} => s.call.kind # "read"
    /\ s.stage = "check" => s.call.kind = "signal"
    /\ owner' = owner
    /\ IF op[o].stage = "locking" THEN holder = NoOp /\ holder' = o ELSE holder' = holder

LEMMA CallKind ==
  ASSUME TypeOK, NEW o \in Ops
  PROVE  op[o].call.kind \in Kinds /\ (op[o].call.cid # NoId => op[o].call.kind = "signal")
  BY OpFacts, ConstantsAssumption

LEMMA LeaveEffect ==
  ASSUME TypeOK, NEW o \in Ops, NEW r \in Results, Leave(o, r)
  PROVE  /\ op'[o].stage = "done" /\ op'[o].result = r
         /\ op'[o].proc = op[o].proc /\ op'[o].call = op[o].call
         /\ op'[o].row = Empty /\ op'[o].snapshot = Empty
         /\ \A a \in Ops \ {o} : op'[a] = op[a]
         /\ owner'[op[o].proc] = NoOp
         /\ \A p \in Procs \ {op[o].proc} : owner'[p] = owner[p]
         /\ holder' = IF holder = o THEN NoOp ELSE holder
<1> DEFINE s == [Idle(op[o].proc, op[o].call) EXCEPT !.stage = "done", !.result = r]
<1>1. /\ s.stage = "done" /\ s.result = r /\ s.proc = op[o].proc /\ s.call = op[o].call
      /\ s.row = Empty /\ s.snapshot = Empty
  BY DEF Idle
<1>2. op' = [op EXCEPT ![o] = s]
  BY DEF Leave
<1> HIDE DEF s
<1>3. op'[o] = s /\ \A a \in Ops \ {o} : op'[a] = op[a]
  BY <1>2 DEF TypeOK
<1>4. /\ owner'[op[o].proc] = NoOp
      /\ \A p \in Procs \ {op[o].proc} : owner'[p] = owner[p]
      /\ holder' = IF holder = o THEN NoOp ELSE holder
  BY OpFacts DEF Leave, Freed, TypeOK
<1> QED
  BY <1>1, <1>3, <1>4

LEMMA PersistAdvances ==
  ASSUME TypeOK, NEW o \in Ops, NEW b \in Book, NEW changed \in Book, NEW gone \in SUBSET Ops,
         op[o].call.kind # "read", op[o].stage # "locking", Persist(o, b, changed, gone)
  PROVE  \E s \in OpState : Advance(o, s)
<1> DEFINE s == [op[o] EXCEPT !.stage = "load", !.snapshot = b, !.closing = gone, !.row = Empty]
<1>1. s \in OpState
  BY OpFacts, OpUpdates, EmptyType DEF Stages
<1>2. s.proc = op[o].proc /\ s.call = op[o].call /\ s.result = op[o].result /\ s.stage = "load"
  BY OpFacts DEF OpState
<1>3. op' = [op EXCEPT ![o] = s] /\ UNCHANGED <<holder, owner>>
  BY DEF Persist
<1> HIDE DEF s
<1> QED
  BY <1>1, <1>2, <1>3 DEF Advance, Flight

\* Where the step after the cache was loaded can lead.
LEMMA HydratedCases ==
  ASSUME TypeOK, NEW o \in Ops, NEW b \in Book, Hydrated(o, b)
  PROVE  \/ /\ cache' = [cache EXCEPT ![op[o].proc] = b]
            /\ \/ Leave(o, "refused")
               \/ Leave(o, "accepted") /\ op[o].call.kind = "read"
         \/ /\ op[o].call.kind = "candle"
            /\ \E gone \in SUBSET Held(b, op[o].call) : Persist(o, b, Exit(b, gone, o), gone)
         \/ /\ op[o].call.kind = "signal"
            /\ ~SameSide(b, op[o].call)
            /\ Persist(o, b, Fill(b, o, op[o].call), Held(b, op[o].call))
         \/ /\ op[o].call.kind = "signal"
            /\ cache' = [cache EXCEPT ![op[o].proc] = b]
            /\ op' = [op EXCEPT ![o] = [@ EXCEPT !.stage = "check", !.row = Empty]]
            /\ UNCHANGED <<holder, owner>>
  BY DEF Hydrated, Serve, ProcessCandle, Trade, Reject

LEMMA HydratedSteps ==
  ASSUME TypeOK, NEW o \in Ops, NEW b \in Book, Hydrated(o, b), op[o].stage # "locking"
  PROVE  (\E r \in Results : Leave(o, r)) \/ (\E s \in OpState : Advance(o, s))
<1>1. ASSUME NEW gone \in SUBSET Held(b, op[o].call),
             op[o].call.kind = "candle", Persist(o, b, Exit(b, gone, o), gone)
      PROVE  \E s \in OpState : Advance(o, s)
  <2>1. gone \in SUBSET Ops /\ Exit(b, gone, o) \in Book
    BY OpFacts, BookFacts
  <2> QED
    BY <1>1, <2>1, PersistAdvances
<1>2. ASSUME op[o].call.kind = "signal",
             Persist(o, b, Fill(b, o, op[o].call), Held(b, op[o].call))
      PROVE  \E s \in OpState : Advance(o, s)
  <2>1. Held(b, op[o].call) \in SUBSET Ops /\ Fill(b, o, op[o].call) \in Book
    BY OpFacts, BookFacts
  <2> QED
    BY <1>2, <2>1, PersistAdvances
<1>3. ASSUME op[o].call.kind = "signal",
             op' = [op EXCEPT ![o] = [@ EXCEPT !.stage = "check", !.row = Empty]],
             UNCHANGED <<holder, owner>>
      PROVE  \E s \in OpState : Advance(o, s)
  <2> DEFINE s == [op[o] EXCEPT !.stage = "check", !.row = Empty]
  <2>1. s \in OpState
    BY OpFacts, OpUpdates, EmptyType DEF Stages
  <2>2. s.proc = op[o].proc /\ s.call = op[o].call /\ s.result = op[o].result /\ s.stage = "check"
    BY OpFacts DEF OpState
  <2>3. op' = [op EXCEPT ![o] = s]
    BY <1>3
  <2> HIDE DEF s
  <2> QED
    BY <1>3, <2>1, <2>2, <2>3 DEF Advance, Flight
<1> QED
  BY <1>1, <1>2, <1>3, HydratedCases DEF Results

\* A step of a call past the cache lock ends the call or takes it further.
LEMMA FlightSteps ==
  ASSUME TypeOK, Progress, NEW o \in Ops, CallStep(o)
  PROVE  \/ EnterCache(o)
         \/ /\ InFlight(o)
            /\ (\E r \in Results : Leave(o, r)) \/ (\E s \in OpState : Advance(o, s))
<1> DEFINE Out == InFlight(o) /\ ((\E r \in Results : Leave(o, r))
                                  \/ (\E s \in OpState : Advance(o, s)))
<1>1. ASSUME GiveUp(o) \/ QueryFails(o) \/ PersistUnseeded(o) \/ CommitConflicts(o)
             \/ PersistFails(o) \/ Commit(o)
      PROVE  Out
  BY <1>1 DEF GiveUp, QueryFails, PersistUnseeded, CommitConflicts, PersistFails, Commit,
              InFlight, Flight, Results
<1>2. ASSUME TakeWriterLock(o) PROVE Out
  <2> DEFINE s == [op[o] EXCEPT !.stage = "portfolio"]
  <2>1. s \in OpState
    BY OpFacts, OpUpdates DEF Stages
  <2>2. s.proc = op[o].proc /\ s.call = op[o].call /\ s.result = op[o].result /\ s.stage = "portfolio"
    BY OpFacts DEF OpState
  <2>3. op' = [op EXCEPT ![o] = s]
    BY <1>2 DEF TakeWriterLock
  <2> HIDE DEF s
  <2> QED
    BY <1>2, <2>1, <2>2, <2>3 DEF TakeWriterLock, LockFree, Advance, Flight, InFlight
<1>3. ASSUME LoadPortfolio(o) PROVE Out
  <2> DEFINE row == [Empty EXCEPT !.ins = books.ins, !.outs = books.outs]
             s == [op[o] EXCEPT !.stage = "positions", !.row = row]
  <2>1. row \in Book
    BY DEF TypeOK, Book, Empty
  <2>2. op' = [op EXCEPT ![o] = s]
    BY <1>3 DEF LoadPortfolio
  <2> HIDE DEF row
  <2>3. s \in OpState
    BY <2>1, OpFacts, OpUpdates DEF Stages
  <2>4. s.proc = op[o].proc /\ s.call = op[o].call /\ s.result = op[o].result /\ s.stage = "positions"
    BY OpFacts DEF OpState
  <2> HIDE DEF s
  <2> QED
    BY <1>3, <2>2, <2>3, <2>4 DEF LoadPortfolio, Advance, Flight, InFlight
<1>4. ASSUME LoadPositions(o) PROVE Out
  <2> DEFINE row == [op[o].row EXCEPT !.open = books.open]
             s == [op[o] EXCEPT !.stage = "trades", !.row = row]
  <2>1. row \in Book
    BY OpFacts DEF TypeOK, OpState, Book
  <2>2. op' = [op EXCEPT ![o] = s]
    BY <1>4, OpFacts DEF LoadPositions, OpState
  <2> HIDE DEF row
  <2>3. s \in OpState
    BY <2>1, OpFacts, OpUpdates DEF Stages
  <2>4. s.proc = op[o].proc /\ s.call = op[o].call /\ s.result = op[o].result /\ s.stage = "trades"
    BY OpFacts DEF OpState
  <2>5. seeded
    BY <1>4 DEF LoadPositions, Progress
  <2> HIDE DEF s
  <2> QED
    BY <1>4, <2>2, <2>3, <2>4, <2>5 DEF LoadPositions, Advance, Flight, InFlight
<1>5. ASSUME FindUnseeded(o) \/ LoadTrades(o) PROVE Out
  <2>1. [op[o].row EXCEPT !.trades = books.trades] \in Book /\ cache[op[o].proc] \in Book
    BY OpFacts DEF TypeOK, OpState, Book
  <2>2. PICK b \in Book : Hydrated(o, b)
    BY <1>5, <2>1 DEF FindUnseeded, LoadTrades
  <2>3. InFlight(o) /\ op[o].stage # "locking"
    BY <1>5 DEF FindUnseeded, LoadTrades, InFlight, Flight
  <2> QED
    BY <2>2, <2>3, HydratedSteps
<1>6. ASSUME CheckOrderId(o) PROVE Out
  <2> DEFINE b == cache[op[o].proc]
  <2>1. b \in Book /\ InFlight(o) /\ op[o].call.kind = "signal" /\ op[o].stage # "locking"
    BY <1>6, OpFacts DEF TypeOK, CheckOrderId, InFlight, Flight, Progress
  <2>2. CASE Leave(o, "conflict") \/ Reject(o, b)
    BY <2>1, <2>2 DEF Reject, Results
  <2>3. CASE Persist(o, b, Fill(b, o, op[o].call), Held(b, op[o].call))
    <3>1. Held(b, op[o].call) \in SUBSET Ops /\ Fill(b, o, op[o].call) \in Book
      BY <2>1, OpFacts, BookFacts
    <3> HIDE DEF b
    <3> QED
      BY <2>1, <2>3, <3>1, PersistAdvances
  <2> QED
    BY <1>6, <2>2, <2>3 DEF CheckOrderId, Trade
<1>7. ASSUME ListPositions(o) PROVE Out
  <2> DEFINE l == cache[op[o].proc].open
             s == [op[o] EXCEPT !.stage = "write", !.listed = l]
  <2>1. l \in SUBSET Ops
    BY OpFacts DEF TypeOK, Book
  <2>2. op' = [op EXCEPT ![o] = s]
    BY <1>7 DEF ListPositions
  <2> HIDE DEF l
  <2>3. s \in OpState
    BY <2>1, OpFacts, OpUpdates DEF Stages
  <2>4. s.proc = op[o].proc /\ s.call = op[o].call /\ s.result = op[o].result /\ s.stage = "write"
    BY OpFacts DEF OpState
  <2>5. s.call.kind # "read" /\ seeded
    BY <1>7, <2>4 DEF ListPositions, Progress
  <2> HIDE DEF s
  <2> QED
    BY <1>7, <2>2, <2>3, <2>4, <2>5 DEF ListPositions, Advance, Flight, InFlight
<1> QED
  BY <1>1, <1>2, <1>3, <1>4, <1>5, <1>6, <1>7 DEF CallStep

-----------------------------------------------------------------------------
(* The locks *)

LEMMA LeaveLocks ==
  ASSUME TypeOK, Locks, NEW o \in Ops, NEW r \in Results, InFlight(o), Leave(o, r)
  PROVE  Locks'
<1>1. /\ op'[o].stage = "done" /\ op'[o].proc = op[o].proc
      /\ \A a \in Ops \ {o} : op'[a] = op[a]
      /\ owner'[op[o].proc] = NoOp
      /\ \A p \in Procs \ {op[o].proc} : owner'[p] = owner[p]
      /\ holder' = IF holder = o THEN NoOp ELSE holder
  BY LeaveEffect
<1>2. owner \in [Procs -> Ops \cup {NoOp}] /\ holder \in Ops \cup {NoOp}
  BY DEF TypeOK
<1>3. (\A p \in Procs : owner[p] # NoOp => op[owner[p]].proc = p /\ InFlight(owner[p]))'
  BY <1>1, <1>2, OpFacts DEF Locks, InFlight, Flight
<1>4. (\A a \in Ops : InFlight(a) => owner[op[a].proc] = a)'
  BY <1>1, <1>2, OpFacts DEF Locks, InFlight, Flight
<1>5. (holder # NoOp => InFlight(holder))'
  BY <1>1, <1>2 DEF Locks, InFlight
<1> QED
  BY <1>3, <1>4, <1>5 DEF Locks

LEMMA AdvanceLocks ==
  ASSUME TypeOK, Locks, NEW o \in Ops, NEW s \in OpState, InFlight(o), Advance(o, s)
  PROVE  Locks'
<1>1. op'[o] = s /\ \A a \in Ops \ {o} : op'[a] = op[a]
  BY DEF Advance, TypeOK
<1>2. owner \in [Procs -> Ops \cup {NoOp}] /\ holder \in Ops \cup {NoOp}
  BY DEF TypeOK
<1>3. s.proc = op[o].proc /\ s.stage \in Flight /\ owner' = owner /\ holder' \in {holder, o}
  BY DEF Advance
<1> QED
  BY <1>1, <1>2, <1>3, OpFacts DEF Locks, InFlight

\* A step that takes no call past the cache lock, or out of it, and no lock.
LEMMA QuietLocks ==
  ASSUME TypeOK, Locks, UNCHANGED <<owner, holder>>,
         \A a \in Ops : op'[a] = op[a] \/ (~InFlight(a) /\ op'[a].stage \notin Flight)
  PROVE  Locks'
<1>1. owner \in [Procs -> Ops \cup {NoOp}] /\ holder \in Ops \cup {NoOp}
  BY DEF TypeOK
<1> QED
  BY <1>1, OpFacts DEF Locks, InFlight

LEMMA LocksNext ==
  ASSUME TypeOK, Locks, Progress, [Next]_vars
  PROVE  Locks'
<1>1. owner \in [Procs -> Ops \cup {NoOp}] /\ holder \in Ops \cup {NoOp}
  BY DEF TypeOK
<1>u. CASE UNCHANGED vars
  BY <1>u DEF vars, Locks, InFlight
<1>2. ASSUME NEW o \in Ops, CallStep(o) PROVE Locks'
  <2>1. CASE EnterCache(o)
    <3>1. op[o].stage = "queued" /\ owner[op[o].proc] = NoOp /\ holder' = holder
      BY <2>1 DEF EnterCache
    <3>2. op'[o].stage \in Flight /\ op'[o].proc = op[o].proc
      BY <2>1, OpFacts DEF EnterCache, TypeOK, OpState, Flight
    <3>3. /\ \A a \in Ops \ {o} : op'[a] = op[a]
          /\ owner'[op[o].proc] = o
          /\ \A p \in Procs \ {op[o].proc} : owner'[p] = owner[p]
      BY <2>1, OpFacts DEF EnterCache, TypeOK
    <3>4. ~InFlight(o) /\ o # NoOp
      BY <3>1, OpsFacts DEF InFlight, Flight
    <3>5. (\A p \in Procs : owner[p] # NoOp => op[owner[p]].proc = p /\ InFlight(owner[p]))'
      BY <1>1, <3>2, <3>3, <3>4, OpFacts DEF Locks, InFlight
    <3>6. (\A a \in Ops : InFlight(a) => owner[op[a].proc] = a)'
      BY <1>1, <3>1, <3>2, <3>3, <3>4, OpFacts, OpsFacts DEF Locks, InFlight
    <3>7. (holder # NoOp => InFlight(holder))'
      BY <1>1, <3>1, <3>2, <3>3 DEF Locks, InFlight
    <3> QED
      BY <3>5, <3>6, <3>7 DEF Locks
  <2> QED
    BY <1>2, <2>1, FlightSteps, LeaveLocks, AdvanceLocks
<1>3. ASSUME NEW o \in Ops, Submit(o) PROVE Locks'
  <2>1. PICK p \in Procs, c \in Calls :
          op' = [op EXCEPT ![o] = [Idle(p, c) EXCEPT !.stage = "queued"]]
    BY <1>3 DEF Submit
  <2>2. op'[o].stage = "queued" /\ \A a \in Ops \ {o} : op'[a] = op[a]
    BY <2>1 DEF TypeOK, Idle
  <2>3. ~InFlight(o)
    BY <1>3 DEF Submit, Arrives, InFlight, Flight
  <2> QED
    BY <1>3, <2>2, <2>3, QuietLocks DEF Submit, Flight
<1>4. ASSUME NEW o \in Ops, PipelineFill(o) PROVE Locks'
  <2>1. PICK p \in Procs, c \in Calls :
          op' = [op EXCEPT ![o] = [Idle(p, c) EXCEPT !.stage = "done", !.result = "accepted"]]
    BY <1>4 DEF PipelineFill
  <2>2. op'[o].stage = "done" /\ \A a \in Ops \ {o} : op'[a] = op[a]
    BY <2>1 DEF TypeOK, Idle
  <2>3. ~InFlight(o)
    BY <1>4 DEF PipelineFill, Arrives, InFlight, Flight
  <2> QED
    BY <1>4, <2>2, <2>3, QuietLocks DEF PipelineFill, Flight
<1>5. ASSUME NEW o \in Ops, LoseLock(o) PROVE Locks'
  BY <1>5 DEF LoseLock, Locks, InFlight
<1>6. ASSUME NEW p \in Procs, Restart(p) PROVE Locks'
  <2>1. \A a \in Ops : /\ op[a].proc = p => op'[a].stage \notin Flight
                       /\ op[a].proc # p => op'[a] = op[a]
                       /\ op'[a].proc = op[a].proc
    BY <1>6, OpFacts DEF Restart, Idle, Flight, OpState, Stages
  <2>2. owner'[p] = NoOp /\ \A q \in Procs \ {p} : owner'[q] = owner[q]
    BY <1>6 DEF Restart, TypeOK
  <2>3. holder' # NoOp => holder' = holder /\ op[holder].proc # p
    BY <1>1, <1>6 DEF Restart
  <2>4. (\A q \in Procs : owner[q] # NoOp => op[owner[q]].proc = q /\ InFlight(owner[q]))'
    BY <1>1, <2>1, <2>2 DEF Locks, InFlight
  <2>5. (\A a \in Ops : InFlight(a) => owner[op[a].proc] = a)'
    BY <2>1, <2>2, OpFacts DEF Locks, InFlight
  <2>6. (holder # NoOp => InFlight(holder))'
    BY <1>1, <2>1, <2>3 DEF Locks, InFlight
  <2> QED
    BY <2>4, <2>5, <2>6 DEF Locks
<1> QED
  BY <1>u, <1>2, <1>3, <1>4, <1>5, <1>6 DEF Next

-----------------------------------------------------------------------------
(* What a call may ask and when it may be on record *)

LEMMA LeaveProgress ==
  ASSUME TypeOK, Progress, NEW o \in Ops, NEW r \in Results, Leave(o, r), UNCHANGED seeded,
         entries' \subseteq entries \cup {o}
  PROVE  Progress'
<1>1. op'[o].stage = "done" /\ \A a \in Ops \ {o} : op'[a] = op[a]
  BY LeaveEffect
<1>2. entries \subseteq Ops
  BY DEF TypeOK
<1> QED
  BY <1>1, <1>2 DEF Progress

LEMMA AdvanceProgress ==
  ASSUME TypeOK, Progress, NEW o \in Ops, NEW s \in OpState, InFlight(o), Advance(o, s),
         UNCHANGED <<seeded, entries>>
  PROVE  Progress'
<1>1. op'[o] = s /\ \A a \in Ops \ {o} : op'[a] = op[a]
  BY DEF Advance, TypeOK
<1>2. /\ s.stage \in {"positions", "trades", "write"} => seeded
      /\ s.stage \in {"check", "load", "write"} => s.call.kind # "read"
      /\ s.stage = "check" => s.call.kind = "signal"
      /\ s.call = op[o].call /\ s.result = op[o].result
  BY DEF Advance
<1>3. op[o].call.kind # "pipeline" /\ op[o].result = "none" /\ op[o].stage # "done"
  BY DEF InFlight, Flight, Progress
<1>4. entries \subseteq Ops /\ o \notin entries
  BY <1>3 DEF TypeOK, Progress
<1> QED
  BY <1>1, <1>2, <1>3, <1>4 DEF Progress

\* Only a commit changes the orders on record, and only by its own call.
LEMMA EntriesStep ==
  ASSUME TypeOK, NEW o \in Ops, CallStep(o)
  PROVE  /\ UNCHANGED <<seeded, clean>>
         /\ ~Commit(o) => UNCHANGED <<books, entries>>
         /\ Commit(o) => entries' \subseteq entries \cup {o} /\ \E r \in Results : Leave(o, r)
<1>1. Commit(o) => entries' \subseteq entries \cup {o} /\ \E r \in Results : Leave(o, r)
  BY DEF Commit, Results
<1> QED
  BY <1>1 DEF CallStep, EnterCache, TakeWriterLock, GiveUp, LoadPortfolio, FindUnseeded, LoadPositions,
     LoadTrades, CheckOrderId, ListPositions, PersistUnseeded, Commit, CommitConflicts, QueryFails,
     PersistFails

LEMMA EnterEffect ==
  ASSUME TypeOK, NEW o \in Ops, EnterCache(o)
  PROVE  /\ op[o].stage = "queued" /\ op'[o].stage \in {"portfolio", "locking"}
         /\ op[o].call.kind # "read" => op'[o].stage = "locking"
         /\ op'[o] = [op[o] EXCEPT !.stage = op'[o].stage]
         /\ op'[o].proc = op[o].proc /\ op'[o].call = op[o].call /\ op'[o].result = op[o].result
         /\ \A a \in Ops \ {o} : op'[a] = op[a]
<1> DEFINE st == IF op[o].call.kind = "read" THEN "portfolio" ELSE "locking"
           s == [op[o] EXCEPT !.stage = st]
<1>1. s.stage = st /\ s = [op[o] EXCEPT !.stage = s.stage]
      /\ s.proc = op[o].proc /\ s.call = op[o].call /\ s.result = op[o].result
  BY OpFacts DEF OpState
<1>2. op' = [op EXCEPT ![o] = s]
  BY DEF EnterCache
<1> HIDE DEF s
<1>3. op'[o] = s /\ \A a \in Ops \ {o} : op'[a] = op[a]
  BY <1>2 DEF TypeOK
<1> QED
  BY <1>1, <1>3 DEF EnterCache

LEMMA NewEffect ==
  ASSUME TypeOK, NEW o \in Ops, NEW p \in Procs, NEW c \in Calls,
         NEW st \in Stages, NEW r \in Results,
         op' = [op EXCEPT ![o] = [Idle(p, c) EXCEPT !.stage = st, !.result = r]]
  PROVE  /\ op'[o].stage = st /\ op'[o].result = r /\ op'[o].proc = p /\ op'[o].call = c
         /\ op'[o].row = Empty /\ op'[o].snapshot = Empty
         /\ \A a \in Ops \ {o} : op'[a] = op[a]
  BY DEF Idle, TypeOK

LEMMA SubmitEffect ==
  ASSUME TypeOK, NEW o \in Ops, Submit(o)
  PROVE  /\ op[o].stage = "new" /\ op'[o].stage = "queued" /\ op'[o].result = "none"
         /\ op'[o].call.kind # "pipeline"
         /\ op'[o].row = Empty /\ op'[o].snapshot = Empty
         /\ \A a \in Ops \ {o} : op'[a] = op[a]
<1>1. PICK p \in Procs, c \in Calls :
        c.kind # "pipeline" /\ op' = [op EXCEPT ![o] = [Idle(p, c) EXCEPT !.stage = "queued"]]
  BY DEF Submit
<1> DEFINE s == [Idle(p, c) EXCEPT !.stage = "queued"]
<1>2. s.stage = "queued" /\ s.result = "none" /\ s.call = c /\ s.row = Empty /\ s.snapshot = Empty
  BY DEF Idle
<1>3. op' = [op EXCEPT ![o] = s]
  BY <1>1
<1> HIDE DEF s
<1>4. op'[o] = s /\ \A a \in Ops \ {o} : op'[a] = op[a]
  BY <1>3 DEF TypeOK
<1> QED
  BY <1>1, <1>2, <1>4 DEF Submit, Arrives

LEMMA RestartEffect ==
  ASSUME TypeOK, NEW p \in Procs, Restart(p), NEW o \in Ops
  PROVE  /\ op'[o].proc = op[o].proc /\ op'[o].call = op[o].call
         /\ \/ op'[o] = op[o] /\ (op[o].proc # p \/ op[o].stage \in {"new", "done"})
            \/ /\ op[o].proc = p /\ op[o].stage \notin {"new", "done"}
               /\ op'[o].stage = "done" /\ op'[o].result = "error"
               /\ op'[o].row = Empty /\ op'[o].snapshot = Empty
<1> DEFINE s == [Idle(p, op[o].call) EXCEPT !.stage = "done", !.result = "error"]
<1>1. s.stage = "done" /\ s.result = "error" /\ s.proc = p /\ s.call = op[o].call
      /\ s.row = Empty /\ s.snapshot = Empty
  BY DEF Idle
<1>2. op'[o] = IF op[o].proc = p /\ op[o].stage \notin {"new", "done"} THEN s ELSE op[o]
  BY DEF Restart
<1> HIDE DEF s
<1> QED
  BY <1>1, <1>2

LEMMA ProgressNext ==
  ASSUME TypeOK, Progress, [Next]_vars
  PROVE  Progress'
<1>1. entries \subseteq Ops
  BY DEF TypeOK
<1>u. CASE UNCHANGED vars
  BY <1>u DEF vars, Progress
<1>2. ASSUME NEW o \in Ops, CallStep(o) PROVE Progress'
  <2>1. CASE EnterCache(o)
    <3>1. UNCHANGED <<seeded, entries>>
      BY <2>1 DEF EnterCache
    <3>2. /\ op[o].stage = "queued" /\ op'[o].stage \in {"portfolio", "locking"}
          /\ op'[o].call = op[o].call /\ op'[o].result = op[o].result
          /\ \A a \in Ops \ {o} : op'[a] = op[a]
      BY <2>1, EnterEffect
    <3> QED
      BY <1>1, <3>1, <3>2 DEF Progress
  <2>2. CASE Commit(o)
    BY <1>2, <2>2, EntriesStep, LeaveProgress
  <2>3. CASE ~Commit(o) /\ ~EnterCache(o)
    BY <1>2, <2>3, EntriesStep, FlightSteps, LeaveProgress, AdvanceProgress
  <2> QED
    BY <2>1, <2>2, <2>3
<1>3. ASSUME NEW o \in Ops, Submit(o) PROVE Progress'
  <2>1. UNCHANGED <<seeded, entries>>
    BY <1>3 DEF Submit
  <2>2. /\ op[o].stage = "new" /\ op'[o].stage = "queued" /\ op'[o].result = "none"
        /\ op'[o].call.kind # "pipeline" /\ \A a \in Ops \ {o} : op'[a] = op[a]
    BY <1>3, SubmitEffect
  <2> QED
    BY <1>1, <2>1, <2>2 DEF Progress
<1>4. ASSUME NEW o \in Ops, PipelineFill(o) PROVE Progress'
  <2>1. PICK p \in Procs, c \in Calls :
          op' = [op EXCEPT ![o] = [Idle(p, c) EXCEPT !.stage = "done", !.result = "accepted"]]
    BY <1>4 DEF PipelineFill
  <2>2. op[o].stage = "new" /\ UNCHANGED <<seeded, entries>>
    BY <1>4 DEF PipelineFill, Arrives
  <2>3. op'[o].stage = "done" /\ \A a \in Ops \ {o} : op'[a] = op[a]
    BY <2>1, NewEffect DEF Stages, Results
  <2> QED
    BY <1>1, <2>2, <2>3 DEF Progress
<1>5. ASSUME NEW o \in Ops, LoseLock(o) PROVE Progress'
  BY <1>5 DEF LoseLock, Progress
<1>6. ASSUME NEW p \in Procs, Restart(p) PROVE Progress'
  <2>1. UNCHANGED <<seeded, entries>>
    BY <1>6 DEF Restart
  <2> QED
    BY <1>1, <1>6, <2>1, RestartEffect DEF Progress
<1> QED
  BY <1>u, <1>2, <1>3, <1>4, <1>5, <1>6 DEF Next

\* What a call asks for does not change once it has come in.
LEMMA CallKept ==
  ASSUME TypeOK, Progress, [Next]_vars, NEW a \in Ops, op[a].stage # "new"
  PROVE  op'[a].call = op[a].call /\ op'[a].proc = op[a].proc /\ op'[a].stage # "new"
         /\ (op[a].stage = "done" => op'[a] = op[a])
<1>u. CASE UNCHANGED vars
  BY <1>u DEF vars
<1>2. ASSUME NEW o \in Ops, CallStep(o) PROVE op'[a].call = op[a].call /\ op'[a].proc = op[a].proc
         /\ op'[a].stage # "new" /\ (op[a].stage = "done" => op'[a] = op[a])
  <2>1. CASE EnterCache(o)
    BY <2>1, EnterEffect
  <2>2. ASSUME NEW r \in Results, InFlight(o), Leave(o, r)
        PROVE  op'[a].call = op[a].call /\ op'[a].proc = op[a].proc
         /\ op'[a].stage # "new" /\ (op[a].stage = "done" => op'[a] = op[a])
    BY <2>2, LeaveEffect DEF InFlight, Flight
  <2>3. ASSUME NEW s \in OpState, InFlight(o), Advance(o, s)
        PROVE  op'[a].call = op[a].call /\ op'[a].proc = op[a].proc
         /\ op'[a].stage # "new" /\ (op[a].stage = "done" => op'[a] = op[a])
    BY <2>3 DEF Advance, InFlight, Flight, TypeOK
  <2> QED
    BY <1>2, <2>1, <2>2, <2>3, FlightSteps
<1>3. ASSUME NEW o \in Ops, Submit(o) PROVE op'[a] = op[a]
  BY <1>3, SubmitEffect
<1>4. ASSUME NEW o \in Ops, PipelineFill(o) PROVE op'[a] = op[a]
  BY <1>4 DEF PipelineFill, Arrives, TypeOK
<1>5. ASSUME NEW o \in Ops, LoseLock(o) PROVE op'[a] = op[a]
  BY <1>5 DEF LoseLock
<1>6. ASSUME NEW p \in Procs, Restart(p)
      PROVE  op'[a].call = op[a].call /\ op'[a].proc = op[a].proc
         /\ op'[a].stage # "new" /\ (op[a].stage = "done" => op'[a] = op[a])
  BY <1>6, RestartEffect
<1> QED
  BY <1>u, <1>2, <1>3, <1>4, <1>5, <1>6 DEF Next

LEMMA OneFillNext ==
  ASSUME TypeOK, Progress, OneFillPerId, [Next]_vars
  PROVE  OneFillPerId'
<1>1. \A e \in entries : e \in Ops /\ op'[e].call = op[e].call
  BY CallKept DEF TypeOK, Progress
<1>2. CASE UNCHANGED entries
  BY <1>1, <1>2 DEF OneFillPerId
<1>3. ASSUME NEW o \in Ops, Commit(o) PROVE OneFillPerId'
  <2>1. op'[o].call = op[o].call /\ entries' \subseteq entries \cup {o} /\ ~Duplicate(o)
    BY <1>3, CallKept DEF Commit
  <2>2. \A e \in entries : op[o].call.cid # NoId => op[e].call.cid # op[o].call.cid
    BY <2>1 DEF Duplicate
  <2> QED
    BY <1>1, <2>1, <2>2 DEF OneFillPerId
<1>4. UNCHANGED entries \/ \E o \in Ops : Commit(o)
  BY EntriesStep DEF Next, vars, Submit, PipelineFill, LoseLock, Restart
<1> QED
  BY <1>2, <1>3, <1>4

-----------------------------------------------------------------------------
(* The books *)

\* The positions on record keep their symbol and side.
LEMMA HeldKept ==
  ASSUME TypeOK, Progress, [Next]_vars, NEW b \in Book, b.open \subseteq entries, NEW c \in Calls
  PROVE  Held(b, c)' = Held(b, c)
<1>1. \A a \in b.open : op'[a].call = op[a].call
  BY CallKept DEF TypeOK, Progress
<1> QED
  BY <1>1 DEF Held

LEMMA BalancedKept ==
  ASSUME TypeOK, Progress, [Next]_vars, NEW b \in Book, b.open \subseteq entries, Balanced(b)
  PROVE  Balanced(b)'
<1>1. \A a \in b.open : op'[a].call = op[a].call
  BY CallKept DEF TypeOK, Progress
<1> QED
  BY <1>1 DEF Balanced, Closed

LEMMA ClosedExit ==
  ASSUME NEW b \in Book, NEW o \in Ops, NEW gone \in SUBSET b.open
  PROVE  /\ Closed(Exit(b, gone, o)) = Closed(b) \cup gone
         /\ Exit(b, gone, o).open = b.open \ gone
         /\ Exit(b, gone, o).trades = b.trades \cup (gone \X {o})
         /\ Exit(b, gone, o).outs = b.outs \cup (gone \X {o})
         /\ Exit(b, gone, o).ins = b.ins
<1>1. /\ Exit(b, gone, o).open = b.open \ gone
      /\ Exit(b, gone, o).trades = b.trades \cup (gone \X {o})
      /\ Exit(b, gone, o).outs = b.outs \cup (gone \X {o})
      /\ Exit(b, gone, o).ins = b.ins
  BY DEF Exit, Book
<1>2. Closed(Exit(b, gone, o)) = {t[1] : t \in b.trades \cup (gone \X {o})}
  BY <1>1 DEF Closed
<1>3. \A g \in gone : <<g, o>> \in gone \X {o} /\ <<g, o>>[1] = g
  OBVIOUS
<1>4. \A t \in gone \X {o} : t[1] \in gone
  OBVIOUS
<1>5. {t[1] : t \in b.trades \cup (gone \X {o})} = {t[1] : t \in b.trades} \cup gone
  BY <1>3, <1>4
<1> QED
  BY <1>1, <1>2, <1>5 DEF Closed

LEMMA BalancedExit ==
  ASSUME TypeOK, NEW b \in Book, Balanced(b), NEW o \in Ops, NEW gone \in SUBSET b.open
  PROVE  Balanced(Exit(b, gone, o))
<1> DEFINE e == Exit(b, gone, o)
<1>1. /\ Closed(e) = Closed(b) \cup gone /\ e.open = b.open \ gone
      /\ e.trades = b.trades \cup (gone \X {o}) /\ e.outs = b.outs \cup (gone \X {o})
      /\ e.ins = b.ins
  BY ClosedExit
<1>2. /\ b.ins = b.open \cup Closed(b) /\ b.outs = b.trades /\ b.open \cap Closed(b) = {}
      /\ \A t, u \in b.trades : t[1] = u[1] => t = u
      /\ \A a, c \in b.open : op[a].call.sym = op[c].call.sym => a = c
  BY DEF Balanced
<1>3. \A t \in b.trades : t[1] \in Closed(b)
  BY DEF Closed
<1>4. \A t \in gone \X {o} : t = <<t[1], o>> /\ t[1] \in gone
  OBVIOUS
<1> HIDE DEF e
<1>5. \A t, u \in e.trades : t[1] = u[1] => t = u
  BY <1>1, <1>2, <1>3, <1>4
<1>6. /\ e.ins = e.open \cup Closed(e) /\ e.outs = e.trades /\ e.open \cap Closed(e) = {}
      /\ \A a, c \in e.open : op[a].call.sym = op[c].call.sym => a = c
  BY <1>1, <1>2
<1> QED
  BY <1>5, <1>6 DEF Balanced, e

LEMMA FillFields ==
  ASSUME NEW b \in Book, NEW o \in Ops, NEW c \in Calls
  PROVE  LET e == Exit(b, Held(b, c), o) IN
         /\ Fill(b, o, c).ins = b.ins \cup {o} /\ Fill(b, o, c).open = e.open \cup {o}
         /\ Fill(b, o, c).trades = e.trades /\ Fill(b, o, c).outs = e.outs
         /\ Closed(Fill(b, o, c)) = Closed(e)
<1> DEFINE e == Exit(b, Held(b, c), o)
<1>1. e \in Book /\ e.ins = b.ins
  BY BookFacts, ClosedExit
<1>2. Fill(b, o, c) = [e EXCEPT !.ins = @ \cup {o}, !.open = @ \cup {o}]
  BY DEF Fill
<1> HIDE DEF e
<1>3. /\ Fill(b, o, c).ins = b.ins \cup {o} /\ Fill(b, o, c).open = e.open \cup {o}
      /\ Fill(b, o, c).trades = e.trades /\ Fill(b, o, c).outs = e.outs
  BY <1>1, <1>2 DEF Book
<1> QED
  BY <1>3 DEF Closed, e

LEMMA BalancedFill ==
  ASSUME TypeOK, NEW b \in Book, Balanced(b), NEW o \in Ops, o \notin b.ins
  PROVE  Balanced(Fill(b, o, op[o].call))
<1> DEFINE c == op[o].call
           e == Exit(b, Held(b, c), o)
           f == Fill(b, o, c)
<1>1. c \in Calls /\ Held(b, c) \in SUBSET b.open
  BY OpFacts, BookFacts
<1>2. Balanced(e) /\ e.ins = b.ins /\ e.open = b.open \ Held(b, c)
  BY <1>1, BalancedExit, ClosedExit
<1>3. f.ins = b.ins \cup {o} /\ f.open = e.open \cup {o} /\ f.trades = e.trades /\ f.outs = e.outs
      /\ Closed(f) = Closed(e)
  BY <1>1, FillFields
<1>4. \A a \in e.open : op[a].call.sym # op[o].call.sym
  BY <1>2 DEF Held
<1>5. /\ e.ins = e.open \cup Closed(e) /\ e.outs = e.trades /\ e.open \cap Closed(e) = {}
      /\ \A t, u \in e.trades : t[1] = u[1] => t = u
      /\ \A a, d \in e.open : op[a].call.sym = op[d].call.sym => a = d
  BY <1>2 DEF Balanced
<1> HIDE DEF e, f
<1>6. \A a, d \in f.open : op[a].call.sym = op[d].call.sym => a = d
  BY <1>3, <1>4, <1>5
<1>7. /\ f.ins = f.open \cup Closed(f) /\ f.outs = f.trades /\ f.open \cap Closed(f) = {}
      /\ \A t, u \in f.trades : t[1] = u[1] => t = u
  BY <1>2, <1>3, <1>5
<1> QED
  BY <1>6, <1>7 DEF Balanced, f

\* What is written is what the cache holds.
LEMMA WrittenIsCache ==
  ASSUME TypeOK, NEW o \in Ops, Pending(o), op[o].listed = cache[op[o].proc].open,
         Balanced(books), o \notin books.ins
  PROVE  Written(o) = cache[op[o].proc]
<1> DEFINE now == cache[op[o].proc]
           gone == op[o].closing
<1>1. books \in Book /\ op[o].call \in Calls /\ now \in Book
  BY OpFacts DEF TypeOK
<1>2. gone \in SUBSET books.open
  BY <1>1, BookFacts DEF Pending
<1>3. now.open \in {books.open \ gone, (books.open \ gone) \cup {o}}
      /\ now.trades = books.trades \cup (gone \X {o})
  BY <1>1, <1>2, ClosedExit, FillFields DEF Pending
<1>4. o \notin books.open
  BY DEF Balanced
<1>5. (books.open \cup now.open) \ gone = now.open
  BY <1>2, <1>3, <1>4
<1>6. Written(o) = [ins |-> now.ins, outs |-> now.outs, open |-> now.open, trades |-> now.trades]
  BY <1>3, <1>5 DEF Written
<1> QED
  BY <1>1, <1>6 DEF Book

-----------------------------------------------------------------------------
(* A writer alone with the books *)

LEMMA Alone ==
  ASSUME Whole, NEW a \in Ops, NEW b \in Ops, Writes(a), Writes(b)
  PROVE  a = b
  BY DEF Whole

\* A step of one call leaves the caches of the other processes alone.
LEMMA HydratedCache ==
  ASSUME TypeOK, NEW o \in Ops, NEW b \in Book, Hydrated(o, b)
  PROVE  \A q \in Procs \ {op[o].proc} : cache'[q] = cache[q]
<1>1. \E x : cache' = [cache EXCEPT ![op[o].proc] = x]
  BY HydratedCases DEF Persist
<1> QED
  BY <1>1 DEF TypeOK

LEMMA CacheSteps ==
  ASSUME TypeOK, NEW o \in Ops, CallStep(o)
  PROVE  \A q \in Procs \ {op[o].proc} : cache'[q] = cache[q]
<1>1. CASE \/ EnterCache(o) \/ TakeWriterLock(o) \/ GiveUp(o) \/ LoadPortfolio(o)
           \/ LoadPositions(o) \/ ListPositions(o) \/ QueryFails(o)
  BY <1>1 DEF EnterCache, TakeWriterLock, GiveUp, LoadPortfolio, LoadPositions, ListPositions, QueryFails
<1>2. CASE FindUnseeded(o) \/ LoadTrades(o)
  <2>1. [op[o].row EXCEPT !.trades = books.trades] \in Book /\ cache[op[o].proc] \in Book
    BY OpFacts DEF TypeOK, OpState, Book
  <2> QED
    BY <1>2, <2>1, HydratedCache DEF FindUnseeded, LoadTrades
<1>3. CASE CheckOrderId(o)
  <2>1. \E x : cache' = cache \/ cache' = [cache EXCEPT ![op[o].proc] = x]
    BY <1>3 DEF CheckOrderId, Trade, Reject, Persist
  <2> QED
    BY <2>1 DEF TypeOK
<1>4. CASE PersistUnseeded(o) \/ Commit(o) \/ CommitConflicts(o) \/ PersistFails(o)
  <2>1. cache' = cache \/ cache' = [cache EXCEPT ![op[o].proc] = op[o].snapshot]
    BY <1>4 DEF PersistUnseeded, Commit, CommitConflicts, PersistFails, Restored
  <2> QED
    BY <2>1 DEF TypeOK
<1> QED
  BY <1>1, <1>2, <1>3, <1>4 DEF CallStep

LEMMA BooksFacts ==
  ASSUME TypeOK, Whole
  PROVE  /\ books \in Book /\ books.open \subseteq entries /\ books.ins \subseteq entries
         /\ Balanced(books)
  BY DEF TypeOK, Whole, Balanced

\* A writer that takes no step keeps its view, when no one touches its cache.
LEMMA MirrorKept ==
  ASSUME TypeOK, Locks, Progress, Whole, [Next]_vars, NEW a \in Ops, op'[a] = op[a], Mirror(a),
         UNCHANGED books, Changing(a) => cache'[op[a].proc] = cache[op[a].proc]
  PROVE  Mirror(a)'
<1>1. op[a].call \in Calls /\ books \in Book /\ books.open \subseteq entries
  BY OpFacts, BooksFacts
<1>2. Held(books, op[a].call)' = Held(books, op[a].call)
  <2>1. \A x \in books.open : op'[x].call = op[x].call
    BY <1>1, CallKept DEF TypeOK, Progress
  <2> QED
    BY <2>1 DEF Held
<1>3. Fill(books, a, op[a].call)' = Fill(books, a, op[a].call)
  BY <1>2 DEF Fill, Exit
<1>4. ASSUME op[a].stage \in {"load", "write"} PROVE Pending(a)'
  <2>1. Pending(a) /\ cache'[op[a].proc] = cache[op[a].proc]
    BY <1>4 DEF Mirror, Changing
  <2> QED
    BY <1>2, <1>3, <2>1 DEF Pending, Exit
<1>5. Changing(a) => (cache[op[a].proc])' = cache[op[a].proc]
  OBVIOUS
<1> QED
  BY <1>4, <1>5 DEF Mirror, Changing

\* The books after a commit are the books before it with the one change.
LEMMA CommitBooks ==
  ASSUME TypeOK, Locks, Progress, Whole, NEW o \in Ops, Commit(o)
  PROVE  /\ o \notin books.ins /\ o \notin entries
         /\ books' = cache[op[o].proc] /\ books' \in Book
         /\ \/ /\ op[o].call.kind # "candle" /\ books' = Fill(books, o, op[o].call)
               /\ books'.ins = books.ins \cup {o} /\ entries' = entries \cup {o}
            \/ /\ op[o].call.kind = "candle"
               /\ \E gone \in SUBSET Held(books, op[o].call) : books' = Exit(books, gone, o)
               /\ books'.ins = books.ins
<1>1. op[o].stage = "write" /\ seeded /\ Writes(o)
  BY DEF Commit, Progress, Writes, InFlight, Flight
<1>2. Pending(o) /\ op[o].listed = cache[op[o].proc].open
  BY <1>1 DEF Whole, Mirror
<1>3. o \notin books.ins /\ o \notin entries
  BY <1>1, BooksFacts DEF Progress
<1>4. books' = cache[op[o].proc]
  BY <1>2, <1>3, BooksFacts, WrittenIsCache DEF Commit
<1>5. books' \in Book /\ op[o].call \in Calls /\ books \in Book
  BY <1>4, OpFacts DEF TypeOK
<1>6. CASE op[o].call.kind = "candle"
  <2>1. op[o].closing \in SUBSET Held(books, op[o].call) /\ books' = Exit(books, op[o].closing, o)
    BY <1>2, <1>4, <1>6 DEF Pending
  <2>2. op[o].closing \in SUBSET books.open
    BY <1>5, <2>1, BookFacts
  <2>3. books'.ins = books.ins
    BY <1>5, <2>1, <2>2, ClosedExit
  <2> QED
    BY <1>3, <1>4, <1>5, <1>6, <2>1, <2>3
<1>7. CASE op[o].call.kind # "candle"
  <2>1. books' = Fill(books, o, op[o].call)
    BY <1>2, <1>4, <1>7 DEF Pending
  <2>2. books'.ins = books.ins \cup {o} /\ o \in books'.open
    BY <1>5, <2>1, FillFields
  <2>3. entries' = entries \cup {o}
    BY <1>2, <1>4, <2>2 DEF Commit
  <2> QED
    BY <1>3, <1>4, <1>5, <1>7, <2>1, <2>2, <2>3
<1> QED
  BY <1>6, <1>7

\* Nothing but a commit changes the books.
LEMMA BooksStep ==
  ASSUME TypeOK, [Next]_vars
  PROVE  UNCHANGED <<books, entries>> \/ \E o \in Ops : Commit(o)
  BY EntriesStep DEF Next, vars, Submit, PipelineFill, LoseLock, Restart

LEMMA BalancedNext ==
  ASSUME TypeOK, Locks, Progress, Whole, [Next]_vars
  PROVE  Balanced(books)' /\ books'.ins \subseteq entries' /\ entries \subseteq entries'
<1>1. CASE UNCHANGED <<books, entries>>
  <2>1. \A a \in books.open : op'[a].call = op[a].call
    BY BooksFacts, CallKept DEF TypeOK, Progress
  <2> QED
    BY <1>1, <2>1, BooksFacts DEF Balanced, Closed
<1>2. ASSUME NEW o \in Ops, Commit(o) PROVE Balanced(books)' /\ books'.ins \subseteq entries'
                                            /\ entries \subseteq entries'
  <2>1. op[o].call \in Calls /\ books \in Book /\ books' \in Book /\ o \notin books.ins
    BY <1>2, OpFacts, BooksFacts, CommitBooks
  <2>2. entries \subseteq entries' /\ books'.ins \subseteq entries'
    BY <1>2, CommitBooks, BooksFacts DEF Commit
  <2>3. ASSUME NEW gone \in SUBSET Held(books, op[o].call), books' = Exit(books, gone, o)
        PROVE  /\ books'.ins = books'.open \cup Closed(books') /\ books'.outs = books'.trades
               /\ books'.open \cap Closed(books') = {}
               /\ \A t, u \in books'.trades : t[1] = u[1] => t = u
               /\ \A a, c \in books'.open : op[a].call.sym = op[c].call.sym => a = c
    <3>1. gone \in SUBSET books.open
      BY <2>1, BookFacts
    <3>2. Balanced(Exit(books, gone, o))
      BY <2>1, <3>1, BooksFacts, BalancedExit
    <3> QED
      BY <2>3, <3>2 DEF Balanced, Closed
  <2>4. ASSUME books' = Fill(books, o, op[o].call)
        PROVE  /\ books'.ins = books'.open \cup Closed(books') /\ books'.outs = books'.trades
               /\ books'.open \cap Closed(books') = {}
               /\ \A t, u \in books'.trades : t[1] = u[1] => t = u
               /\ \A a, c \in books'.open : op[a].call.sym = op[c].call.sym => a = c
    <3>1. Balanced(Fill(books, o, op[o].call))
      BY <2>1, BooksFacts, BalancedFill
    <3> QED
      BY <2>4, <3>1 DEF Balanced, Closed
  <2>5. \A a \in books'.open : op'[a].call = op[a].call
    <3>1. books'.open \subseteq entries \cup {o}
      BY <1>2, <2>3, <2>4, CommitBooks, BooksFacts
    <3>2. op[o].stage # "new" /\ entries \subseteq Ops
      BY <1>2 DEF Commit, TypeOK
    <3> QED
      BY <3>1, <3>2, CallKept DEF Progress
  <2> QED
    BY <1>2, <2>2, <2>3, <2>4, <2>5, CommitBooks DEF Balanced, Closed
<1> QED
  BY <1>1, <1>2, BooksStep

\* Starting to persist a change of the books themselves.
LEMMA PersistMirror ==
  ASSUME TypeOK, Locks, Progress, Whole, [Next]_vars, NEW o \in Ops, UNCHANGED books,
         NEW gone, NEW changed \in Book, Persist(o, books, changed, gone),
         \/ /\ op[o].call.kind = "candle" /\ gone \in SUBSET Held(books, op[o].call)
            /\ changed = Exit(books, gone, o)
         \/ /\ op[o].call.kind # "candle" /\ gone = Held(books, op[o].call)
            /\ changed = Fill(books, o, op[o].call)
  PROVE  Mirror(o)'
<1> DEFINE s == [op[o] EXCEPT !.stage = "load", !.snapshot = books, !.closing = gone, !.row = Empty]
<1>1. s.stage = "load" /\ s.closing = gone /\ s.call = op[o].call /\ s.proc = op[o].proc
  BY OpFacts DEF OpState
<1>2. op' = [op EXCEPT ![o] = s]
  BY DEF Persist
<1> HIDE DEF s
<1>3. op'[o] = s
  BY <1>2 DEF TypeOK
<1>4. cache'[op[o].proc] = changed
  BY OpFacts DEF Persist, TypeOK
<1>5. Held(books, op[o].call)' = Held(books, op[o].call)
  <2>1. \A x \in books.open : op'[x].call = op[x].call
    BY BooksFacts, CallKept DEF TypeOK, Progress
  <2> QED
    BY <1>1, <1>3, <2>1 DEF Held
<1>6. Fill(books, o, op[o].call)' = Fill(books, o, op[o].call)
  BY <1>1, <1>3, <1>5 DEF Fill, Exit
<1>7. Pending(o)'
  BY <1>1, <1>3, <1>4, <1>5, <1>6 DEF Pending, Exit
<1> QED
  BY <1>1, <1>3, <1>7 DEF Mirror

\* The call comes to see the books as they are.
LEMMA HydratedMirror ==
  ASSUME TypeOK, Locks, Progress, Whole, [Next]_vars, NEW o \in Ops, UNCHANGED books,
         Hydrated(o, books), Writes(o)'
  PROVE  Mirror(o)'
<1>1. op[o].call \in Calls /\ books \in Book
  BY OpFacts DEF TypeOK
<1>2. ASSUME NEW r \in Results, Leave(o, r) PROVE FALSE
  BY <1>2, LeaveEffect DEF Writes, InFlight, Flight
<1>3. ASSUME op[o].call.kind = "candle", NEW gone \in SUBSET Held(books, op[o].call),
             Persist(o, books, Exit(books, gone, o), gone)
      PROVE  Mirror(o)'
  <2>1. Exit(books, gone, o) \in Book
    BY <1>1, BookFacts
  <2> QED
    BY <1>3, <2>1, PersistMirror
<1>4. ASSUME op[o].call.kind = "signal",
             Persist(o, books, Fill(books, o, op[o].call), Held(books, op[o].call))
      PROVE  Mirror(o)'
  <2>1. Fill(books, o, op[o].call) \in Book
    BY <1>1, BookFacts
  <2> QED
    BY <1>4, <2>1, PersistMirror
<1>5. ASSUME cache' = [cache EXCEPT ![op[o].proc] = books],
             op' = [op EXCEPT ![o] = [@ EXCEPT !.stage = "check", !.row = Empty]]
      PROVE  Mirror(o)'
  <2> DEFINE s == [op[o] EXCEPT !.stage = "check", !.row = Empty]
  <2>1. s.stage = "check" /\ s.proc = op[o].proc
    BY OpFacts DEF OpState
  <2>2. op' = [op EXCEPT ![o] = s]
    BY <1>5
  <2> HIDE DEF s
  <2>3. op'[o] = s
    BY <2>2 DEF TypeOK
  <2>4. cache'[op[o].proc] = books
    BY <1>5, OpFacts DEF TypeOK
  <2> QED
    BY <2>1, <2>3, <2>4 DEF Mirror
<1> QED
  BY <1>1, <1>2, <1>3, <1>4, <1>5, HydratedCases DEF Results

LEMMA OwnMirror ==
  ASSUME TypeOK, Locks, Progress, Whole, [Next]_vars, NEW o \in Ops, CallStep(o), seeded, Writes(o)'
  PROVE  Mirror(o)'
<1>1. ASSUME NEW r \in Results, Leave(o, r) PROVE FALSE
  BY <1>1, LeaveEffect DEF Writes, InFlight, Flight
<1>2. CASE EnterCache(o)
  BY <1>2, EnterEffect DEF Writes, Mirror
<1>3. CASE TakeWriterLock(o)
  <2>1. op'[o].stage = "portfolio"
    BY <1>3, OpFacts DEF TakeWriterLock, TypeOK, OpState
  <2> QED
    BY <2>1 DEF Mirror
<1>4. CASE LoadPortfolio(o)
  <2> DEFINE row == [Empty EXCEPT !.ins = books.ins, !.outs = books.outs]
             s == [op[o] EXCEPT !.stage = "positions", !.row = row]
  <2>1. row.ins = books.ins /\ row.outs = books.outs
    BY DEF Empty
  <2>2. s.stage = "positions" /\ s.row = row
    BY OpFacts DEF OpState
  <2>3. op' = [op EXCEPT ![o] = s] /\ UNCHANGED books
    BY <1>4 DEF LoadPortfolio
  <2> HIDE DEF row, s
  <2>4. op'[o] = s
    BY <2>3 DEF TypeOK
  <2> QED
    BY <2>1, <2>2, <2>3, <2>4 DEF Mirror
<1>5. CASE LoadPositions(o)
  <2> DEFINE row == [op[o].row EXCEPT !.open = books.open]
             s == [op[o] EXCEPT !.stage = "trades", !.row = row]
  <2>1. row.ins = op[o].row.ins /\ row.outs = op[o].row.outs /\ row.open = books.open
    BY OpFacts DEF OpState, Book
  <2>2. op' = [op EXCEPT ![o] = s] /\ UNCHANGED books /\ op[o].stage = "positions"
    BY <1>5, OpFacts DEF LoadPositions, OpState
  <2> HIDE DEF row
  <2>3. s.stage = "trades" /\ s.row = row /\ s.call = op[o].call
    BY OpFacts DEF OpState
  <2> HIDE DEF s
  <2>4. op'[o] = s
    BY <2>2 DEF TypeOK
  <2>5. Writes(o)
    BY <2>2, <2>3, <2>4 DEF Writes, InFlight, Flight
  <2>6. row.ins = books.ins /\ row.outs = books.outs
    BY <2>1, <2>2, <2>5 DEF Whole, Mirror
  <2> QED
    BY <2>1, <2>2, <2>3, <2>4, <2>6 DEF Mirror
<1>6. CASE FindUnseeded(o)
  BY <1>6 DEF FindUnseeded
<1>7. CASE LoadTrades(o)
  <2>1. op[o].stage = "trades" /\ UNCHANGED books
    BY <1>7 DEF LoadTrades
  <2>2. op'[o].call = op[o].call
    BY <2>1, CallKept
  <2>3. Writes(o)
    BY <2>1, <2>2 DEF Writes, InFlight, Flight
  <2>4. op[o].row.ins = books.ins /\ op[o].row.outs = books.outs /\ op[o].row.open = books.open
    BY <2>1, <2>3 DEF Whole, Mirror
  <2>5. op[o].row \in Book /\ books \in Book
    BY OpFacts DEF OpState, TypeOK
  <2>6. [op[o].row EXCEPT !.trades = books.trades] = books
    BY <2>4, <2>5 DEF Book
  <2> QED
    BY <1>7, <2>1, <2>6, HydratedMirror DEF LoadTrades
<1>8. CASE CheckOrderId(o)
  <2>1. op[o].stage = "check" /\ UNCHANGED books /\ op[o].call.kind = "signal"
    BY <1>8 DEF CheckOrderId, Progress
  <2>2. cache[op[o].proc] = books
    BY <2>1 DEF Writes, InFlight, Flight, Whole, Mirror
  <2>3. Persist(o, books, Fill(books, o, op[o].call), Held(books, op[o].call))
    BY <1>1, <1>8, <2>2 DEF CheckOrderId, Trade, Reject, Results
  <2>4. Fill(books, o, op[o].call) \in Book
    BY OpFacts, BookFacts DEF TypeOK
  <2> QED
    BY <2>1, <2>3, <2>4, PersistMirror
<1>9. CASE ListPositions(o)
  <2> DEFINE l == cache[op[o].proc].open
             s == [op[o] EXCEPT !.stage = "write", !.listed = l]
  <2>1. /\ s.stage = "write" /\ s.listed = l /\ s.call = op[o].call /\ s.proc = op[o].proc
        /\ s.closing = op[o].closing
    BY OpFacts DEF OpState
  <2>2. /\ op' = [op EXCEPT ![o] = s] /\ UNCHANGED <<books, cache>> /\ op[o].stage = "load"
    BY <1>9 DEF ListPositions
  <2> HIDE DEF s
  <2>3. op'[o] = s
    BY <2>2 DEF TypeOK
  <2>4. Pending(o)
    BY <2>1, <2>2, <2>3 DEF Writes, InFlight, Flight, Whole, Mirror
  <2>5. Held(books, op[o].call)' = Held(books, op[o].call)
    <3>1. \A x \in books.open : op'[x].call = op[x].call
      BY BooksFacts, CallKept DEF TypeOK, Progress
    <3> QED
      BY <2>1, <2>2, <2>3, <3>1 DEF Held
  <2>6. Fill(books, o, op[o].call)' = Fill(books, o, op[o].call)
    BY <2>1, <2>2, <2>3, <2>5 DEF Fill, Exit
  <2>7. /\ op'[o].call = op[o].call /\ op'[o].closing = op[o].closing
        /\ cache'[op'[o].proc] = cache[op[o].proc] /\ books' = books
    BY <2>1, <2>2, <2>3
  <2>8. ASSUME op[o].call.kind = "candle" PROVE Pending(o)'
    BY <2>4, <2>5, <2>7, <2>8 DEF Pending, Exit
  <2>9. ASSUME op[o].call.kind # "candle" PROVE Pending(o)'
    BY <2>4, <2>5, <2>6, <2>7, <2>9 DEF Pending
  <2> QED
    BY <2>1, <2>2, <2>3, <2>8, <2>9 DEF Mirror
<1>10. CASE GiveUp(o) \/ QueryFails(o) \/ PersistUnseeded(o) \/ CommitConflicts(o)
            \/ PersistFails(o) \/ Commit(o)
  BY <1>1, <1>10 DEF GiveUp, QueryFails, PersistUnseeded, CommitConflicts, PersistFails, Commit, Results
<1> QED
  BY <1>2, <1>3, <1>4, <1>5, <1>6, <1>7, <1>8, <1>9, <1>10 DEF CallStep

LEMMA WholeNext ==
  ASSUME TypeOK, Locks, Progress, Whole, [Next]_vars, clean'
  PROVE  Whole'
<1>1. Balanced(books)' /\ books'.ins \subseteq entries'
  BY BalancedNext
<1>s. seeded' = seeded
  BY EntriesStep DEF Next, vars, Submit, PipelineFill, LoseLock, Restart
<1>2. ASSUME NEW a \in Ops, Writes(a), op'[a] = op[a], holder' = holder, UNCHANGED books,
             Changing(a) => cache'[op[a].proc] = cache[op[a].proc]
      PROVE  holder' = a /\ (seeded => Mirror(a)')
  BY <1>2, MirrorKept DEF Whole
<1>3. ASSUME NEW o \in Ops, CallStep(o), NEW a \in Ops, Writes(a)'
      PROVE  holder' = a /\ (seeded => Mirror(a)')
  <2>1. CASE a = o
    <3>1. CASE EnterCache(o)
      BY <1>3, <2>1, <3>1, EnterEffect DEF Writes, InFlight, Flight
    <3>2. ASSUME NEW r \in Results, Leave(o, r) PROVE FALSE
      BY <1>3, <2>1, <3>2, LeaveEffect DEF Writes, InFlight, Flight
    <3>3. ASSUME NEW s \in OpState, InFlight(o), Advance(o, s) PROVE holder' = o
      <4>1. op'[o] = s
        BY <3>3 DEF Advance, TypeOK
      <4>2. op[o].call.kind # "read"
        BY <1>3, <2>1, <3>3, <4>1 DEF Advance, Writes
      <4> QED
        BY <3>3, <4>2 DEF Advance, Writes, Whole
    <3> QED
      BY <1>3, <2>1, <3>1, <3>2, <3>3, FlightSteps, OwnMirror
  <2>2. CASE a # o
    <3>1. op'[a] = op[a] /\ Writes(a) /\ holder = a
      <4>1. op'[a] = op[a]
        <5>1. ASSUME NEW s \in OpState, Advance(o, s) PROVE op'[a] = op[a]
          BY <2>2, <5>1 DEF Advance, TypeOK
        <5> QED
          BY <1>3, <2>2, <5>1, FlightSteps, EnterEffect, LeaveEffect
      <4> QED
        BY <1>3, <4>1 DEF Writes, InFlight, Whole
    <3>2. holder' = holder /\ ~(InFlight(o) /\ op[o].proc = op[a].proc)
      <4>1. CASE EnterCache(o)
        BY <4>1 DEF EnterCache, InFlight, Flight
      <4>2. ASSUME InFlight(o) PROVE op[o].proc # op[a].proc
        BY <2>2, <3>1, <4>2 DEF Locks, Writes
      <4>3. ASSUME NEW r \in Results, Leave(o, r) PROVE holder' = holder
        BY <2>2, <3>1, <4>3, LeaveEffect
      <4>4. ASSUME NEW s \in OpState, Advance(o, s) PROVE holder' = holder
        BY <3>1, <4>4, OpsFacts DEF Advance
      <4> QED
        BY <1>3, <4>1, <4>2, <4>3, <4>4, FlightSteps
    <3>3. cache'[op[a].proc] = cache[op[a].proc]
      <4>1. CASE EnterCache(o)
        BY <4>1 DEF EnterCache
      <4>2. CASE InFlight(o)
        BY <1>3, <3>2, <4>2, OpFacts, CacheSteps
      <4> QED
        BY <1>3, <4>1, <4>2, FlightSteps
    <3>4. UNCHANGED books
      <4>1. ~Writes(o)
        BY <2>2, <3>1, Alone
      <4>2. ~Commit(o)
        BY <4>1 DEF Commit, Writes, InFlight, Flight, Progress
      <4> QED
        BY <1>3, <4>2, EntriesStep
    <3> QED
      BY <1>2, <3>1, <3>2, <3>3, <3>4
  <2> QED
    BY <2>1, <2>2
<1>4. ASSUME NEW o \in Ops, Submit(o), NEW a \in Ops, Writes(a)'
      PROVE  holder' = a /\ (seeded => Mirror(a)')
  <2>1. op'[o].stage = "queued" /\ \A x \in Ops \ {o} : op'[x] = op[x]
    BY <1>4, SubmitEffect
  <2>2. a # o /\ op'[a] = op[a] /\ Writes(a)
    BY <1>4, <2>1 DEF Writes, InFlight, Flight
  <2> QED
    BY <1>2, <1>4, <2>2 DEF Submit
<1>5. ASSUME NEW o \in Ops, PipelineFill(o), NEW a \in Ops, Writes(a)'
      PROVE  holder' = a /\ (seeded => Mirror(a)')
  <2>1. PICK p \in Procs, c \in Calls :
          /\ cache' = [cache EXCEPT ![p] = Fill(@, o, c)]
          /\ op' = [op EXCEPT ![o] = [Idle(p, c) EXCEPT !.stage = "done", !.result = "accepted"]]
          /\ clean' = (clean /\ ~\E w \in Ops : owner[p] = w /\ Changing(w))
    BY <1>5 DEF PipelineFill
  <2>2. op'[o].stage = "done" /\ \A x \in Ops \ {o} : op'[x] = op[x]
    BY <2>1, NewEffect DEF Stages, Results
  <2>3. a # o /\ op'[a] = op[a] /\ Writes(a)
    BY <1>5, <2>2 DEF Writes, InFlight, Flight
  <2>4. Changing(a) => op[a].proc # p
    BY <2>1, <2>3 DEF Locks, Writes
  <2>5. Changing(a) => cache'[op[a].proc] = cache[op[a].proc]
    BY <2>1, <2>4, OpFacts DEF TypeOK
  <2> QED
    BY <1>2, <1>5, <2>3, <2>5 DEF PipelineFill
<1>6. ASSUME NEW o \in Ops, LoseLock(o) PROVE FALSE
  BY <1>6 DEF LoseLock
<1>7. ASSUME NEW p \in Procs, Restart(p), NEW a \in Ops, Writes(a)'
      PROVE  holder' = a /\ (seeded => Mirror(a)')
  <2>1. op'[a] = op[a] /\ Writes(a) /\ op[a].proc # p
    BY <1>7, RestartEffect DEF Writes, InFlight, Flight
  <2>2. holder = a
    BY <2>1 DEF Whole
  <2>3. holder' = holder /\ UNCHANGED books
    BY <1>7, <2>1, <2>2 DEF Restart
  <2>4. cache'[op[a].proc] = cache[op[a].proc]
    BY <1>7, <2>1, OpFacts DEF Restart, TypeOK
  <2> QED
    BY <1>2, <2>1, <2>3, <2>4
<1>8. ASSUME UNCHANGED vars, NEW a \in Ops, Writes(a)'
      PROVE  holder' = a /\ (seeded => Mirror(a)')
  <2>1. Writes(a)
    BY <1>8 DEF vars, Writes, InFlight
  <2> QED
    BY <1>2, <1>8, <2>1 DEF vars
<1>9. \A a \in Ops : Writes(a)' => holder' = a /\ (seeded => Mirror(a)')
  BY <1>3, <1>4, <1>5, <1>6, <1>7, <1>8 DEF Next
<1> QED
  BY <1>1, <1>s, <1>9 DEF Whole

-----------------------------------------------------------------------------
(* What the caller is told *)

Answer(o) ==
    op[o].call.kind = "signal" =>
        /\ op[o].result = "accepted" => o \in entries /\ o \in books.ins
        /\ op[o].result \in {"refused", "conflict"} => o \notin entries \cup books.ins
        /\ op[o].result = "conflict" => Used(op[o].call.cid)

\* The books take in the fill of the call that commits and no other.
LEMMA InsGrow ==
  ASSUME TypeOK, Locks, Progress, Whole, [Next]_vars
  PROVE  entries \subseteq entries' /\ books.ins \subseteq books'.ins
<1>1. CASE UNCHANGED <<books, entries>>
  BY <1>1
<1>2. ASSUME NEW o \in Ops, Commit(o)
      PROVE  entries \subseteq entries' /\ books.ins \subseteq books'.ins
  BY <1>2, CommitBooks DEF Commit
<1> QED
  BY <1>1, <1>2, BooksStep

LEMMA InsStep ==
  ASSUME TypeOK, Locks, Progress, Whole, [Next]_vars, NEW a \in Ops, ~Commit(a)
  PROVE  (a \in entries' => a \in entries) /\ (a \in books'.ins => a \in books.ins)
<1>1. CASE UNCHANGED <<books, entries>>
  BY <1>1
<1>2. ASSUME NEW o \in Ops, Commit(o), o # a
      PROVE  (a \in entries' => a \in entries) /\ (a \in books'.ins => a \in books.ins)
  BY <1>2, CommitBooks DEF Commit
<1> QED
  BY <1>1, <1>2, BooksStep

LEMMA UsedKept ==
  ASSUME TypeOK, Progress, [Next]_vars, entries \subseteq entries', NEW cid, Used(cid)
  PROVE  \E e \in entries' : op'[e].call.cid = cid
<1>1. PICK e \in entries : op[e].call.cid = cid
  BY DEF Used
<1>2. op'[e].call = op[e].call /\ e \in entries'
  BY <1>1, CallKept DEF TypeOK, Progress
<1> QED
  BY <1>1, <1>2

\* A call that takes no step is still answered rightly.
LEMMA AnswerKept ==
  ASSUME TypeOK, Locks, Progress, Whole, [Next]_vars, NEW a \in Ops, op'[a] = op[a],
         ~Commit(a), Answer(a)
  PROVE  Answer(a)'
<1>1. /\ entries \subseteq entries' /\ books.ins \subseteq books'.ins
      /\ a \in entries' => a \in entries
      /\ a \in books'.ins => a \in books.ins
  BY InsStep, InsGrow
<1>2. Used(op[a].call.cid) => Used(op[a].call.cid)'
  BY <1>1, UsedKept DEF Used
<1> QED
  BY <1>1, <1>2 DEF Answer

LEMMA OwnAnswer ==
  ASSUME TypeOK, Locks, Progress, Whole, [Next]_vars, NEW o \in Ops, CallStep(o)
  PROVE  Answer(o)'
<1>1. ASSUME NEW s \in OpState, InFlight(o), Advance(o, s) PROVE Answer(o)'
  <2>1. op'[o] = s /\ s.result = "none"
    BY <1>1 DEF Advance, TypeOK, InFlight, Flight, Progress
  <2> QED
    BY <2>1 DEF Answer
<1>2. CASE EnterCache(o)
  <2>1. op'[o].result = "none"
    BY <1>2, EnterEffect DEF Progress
  <2> QED
    BY <2>1 DEF Answer
<1>3. CASE Commit(o)
  <2>1. op'[o].call = op[o].call /\ op'[o].result \in {"accepted", "error"}
    BY <1>3, LeaveEffect DEF Commit, Results
  <2>2. op[o].call.kind = "signal" => o \in entries' /\ o \in books'.ins
    BY <1>3, CommitBooks
  <2> QED
    BY <2>1, <2>2 DEF Answer
<1>4. ASSUME NEW r \in Results, InFlight(o), Leave(o, r), ~Commit(o),
             r = "accepted" => op[o].call.kind # "signal",
             r = "conflict" => Used(op[o].call.cid)
      PROVE  Answer(o)'
  <2>1. op'[o].call = op[o].call /\ op'[o].result = r
    BY <1>4, LeaveEffect
  <2>2. o \notin entries /\ o \notin books.ins
    BY <1>4, BooksFacts DEF InFlight, Flight, Progress
  <2>3. o \notin entries' /\ o \notin books'.ins /\ entries \subseteq entries'
    BY <1>4, <2>2, InsStep, InsGrow
  <2>4. Used(op[o].call.cid) => Used(op[o].call.cid)'
    BY <2>1, <2>3, UsedKept DEF Used
  <2> QED
    BY <1>4, <2>1, <2>3, <2>4 DEF Answer
<1>5. CASE FindUnseeded(o) \/ LoadTrades(o)
  <2>1. [op[o].row EXCEPT !.trades = books.trades] \in Book /\ cache[op[o].proc] \in Book
    BY OpFacts DEF TypeOK, OpState, Book
  <2>2. PICK b \in Book : Hydrated(o, b)
    BY <1>5, <2>1 DEF FindUnseeded, LoadTrades
  <2>3. InFlight(o) /\ op[o].stage \notin {"write", "locking"} /\ ~Commit(o)
    BY <1>5 DEF FindUnseeded, LoadTrades, InFlight, Flight, Commit
  <2>4. ASSUME NEW r \in {"accepted", "refused"}, Leave(o, r),
               r = "accepted" => op[o].call.kind = "read"
        PROVE  Answer(o)'
    BY <1>4, <2>3, <2>4 DEF Results
  <2>5. ASSUME ~\E r \in Results : Leave(o, r) PROVE Answer(o)'
    BY <1>1, <2>2, <2>3, <2>5, HydratedSteps
  <2>6. ASSUME NEW r \in Results, Leave(o, r) PROVE r = op'[o].result
    BY <2>6, LeaveEffect
  <2>7. CASE \E r \in Results : Leave(o, r)
    <3>1. Leave(o, "refused") \/ (Leave(o, "accepted") /\ op[o].call.kind = "read")
      <4>1. op'[o].stage = "done"
        BY <2>7, LeaveEffect
      <4>2. ASSUME NEW s \in OpState, Advance(o, s) PROVE FALSE
        BY <4>1, <4>2 DEF Advance, Flight, TypeOK
      <4>3. ASSUME op[o].call.kind = "candle", NEW gone \in SUBSET Held(b, op[o].call),
                   Persist(o, b, Exit(b, gone, o), gone)
            PROVE  FALSE
        <5>1. gone \in SUBSET Ops /\ Exit(b, gone, o) \in Book
          BY OpFacts, BookFacts
        <5> QED
          BY <2>3, <4>2, <4>3, <5>1, PersistAdvances
      <4>4. ASSUME op[o].call.kind = "signal",
                   Persist(o, b, Fill(b, o, op[o].call), Held(b, op[o].call))
            PROVE  FALSE
        <5>1. Held(b, op[o].call) \in SUBSET Ops /\ Fill(b, o, op[o].call) \in Book
          BY OpFacts, BookFacts
        <5> QED
          BY <2>3, <4>2, <4>4, <5>1, PersistAdvances
      <4>5. ASSUME op' = [op EXCEPT ![o] = [@ EXCEPT !.stage = "check", !.row = Empty]]
            PROVE  FALSE
        <5> DEFINE s == [op[o] EXCEPT !.stage = "check", !.row = Empty]
        <5>1. s.stage = "check"
          BY OpFacts DEF OpState
        <5>2. op' = [op EXCEPT ![o] = s]
          BY <4>5
        <5> HIDE DEF s
        <5> QED
          BY <4>1, <5>1, <5>2 DEF TypeOK
      <4> QED
        BY <2>2, <4>3, <4>4, <4>5, HydratedCases
    <3> QED
      BY <2>4, <3>1
  <2> QED
    BY <2>5, <2>7
<1>6. CASE CheckOrderId(o)
  <2>1. InFlight(o) /\ op[o].stage = "check" /\ ~Commit(o) /\ op[o].call.kind = "signal"
    BY <1>6 DEF CheckOrderId, InFlight, Flight, Commit, Progress
  <2>2. CASE Leave(o, "conflict") /\ Used(op[o].call.cid)
    BY <1>4, <2>1, <2>2 DEF Results
  <2>3. CASE Leave(o, "refused")
    BY <1>4, <2>1, <2>3 DEF Results
  <2>4. CASE Persist(o, cache[op[o].proc], Fill(cache[op[o].proc], o, op[o].call),
                     Held(cache[op[o].proc], op[o].call))
    <3> DEFINE b == cache[op[o].proc]
    <3>1. b \in Book
      BY OpFacts DEF TypeOK
    <3>2. Held(b, op[o].call) \in SUBSET Ops /\ Fill(b, o, op[o].call) \in Book
      BY <3>1, OpFacts, BookFacts
    <3> HIDE DEF b
    <3>3. Persist(o, b, Fill(b, o, op[o].call), Held(b, op[o].call))
      BY <2>4 DEF b
    <3> QED
      BY <1>1, <2>1, <3>1, <3>2, <3>3, PersistAdvances
  <2> QED
    BY <1>6, <2>2, <2>3, <2>4 DEF CheckOrderId, Trade, Reject
<1>7. CASE GiveUp(o) \/ QueryFails(o) \/ PersistUnseeded(o) \/ PersistFails(o)
  <2>1. \E r \in {"refused", "error"} : InFlight(o) /\ Leave(o, r)
    BY <1>7 DEF GiveUp, QueryFails, PersistUnseeded, PersistFails, InFlight, Flight
  <2> QED
    BY <1>3, <1>4, <2>1 DEF Results
<1>8. CASE CommitConflicts(o)
  <2>1. InFlight(o) /\ Leave(o, "conflict") /\ Used(op[o].call.cid)
    BY <1>8 DEF CommitConflicts, InFlight, Flight, Duplicate, Used
  <2> QED
    BY <1>3, <1>4, <2>1 DEF Results
<1>9. CASE TakeWriterLock(o) \/ LoadPortfolio(o) \/ LoadPositions(o) \/ ListPositions(o)
  <2>1. \/ op' = [op EXCEPT ![o].stage = "portfolio"]
        \/ op' = [op EXCEPT ![o] = [@ EXCEPT !.stage = "positions",
                     !.row = [Empty EXCEPT !.ins = books.ins, !.outs = books.outs]]]
        \/ op' = [op EXCEPT ![o] = [@ EXCEPT !.stage = "trades", !.row.open = books.open]]
        \/ op' = [op EXCEPT ![o] = [@ EXCEPT !.stage = "write",
                                            !.listed = cache[op[o].proc].open]]
    BY <1>9 DEF TakeWriterLock, LoadPortfolio, LoadPositions, ListPositions
  <2>2. ASSUME NEW st, NEW row, NEW l,
               op' = [op EXCEPT ![o].stage = st] \/ op' = [op EXCEPT ![o] = [@ EXCEPT !.stage = st, !.row = row]]
               \/ op' = [op EXCEPT ![o] = [@ EXCEPT !.stage = st, !.row.open = row]]
               \/ op' = [op EXCEPT ![o] = [@ EXCEPT !.stage = st, !.listed = l]]
        PROVE  op'[o].result = op[o].result
    BY <2>2, OpFacts DEF TypeOK, OpState
  <2>3. op'[o].result = op[o].result
    BY <2>1, <2>2
  <2>4. op[o].stage # "done"
    BY <1>9 DEF TakeWriterLock, LoadPortfolio, LoadPositions, ListPositions
  <2> QED
    BY <2>3, <2>4 DEF Progress, Answer
<1> QED
  BY <1>2, <1>3, <1>5, <1>6, <1>7, <1>8, <1>9 DEF CallStep

LEMMA AnswersNext ==
  ASSUME TypeOK, Locks, Progress, Whole, Answers, [Next]_vars
  PROVE  Answers'
<1>a. \A a \in Ops : Answer(a)
  BY DEF Answers, Answer
<1>1. ASSUME NEW a \in Ops, op'[a] = op[a], ~Commit(a) PROVE Answer(a)'
  BY <1>a, <1>1, AnswerKept
<1>2. ASSUME NEW a \in Ops, op'[a].result \in {"none", "error"} \/ op'[a].call.kind # "signal"
      PROVE  Answer(a)'
  BY <1>2 DEF Answer
<1>3. ASSUME NEW o \in Ops, CallStep(o), NEW a \in Ops PROVE Answer(a)'
  <2>1. CASE a # o
    <3>1. op'[a] = op[a]
      <4>1. ASSUME NEW s \in OpState, Advance(o, s) PROVE op'[a] = op[a]
        BY <2>1, <4>1 DEF Advance, TypeOK
      <4> QED
        BY <1>3, <2>1, <4>1, FlightSteps, EnterEffect, LeaveEffect
    <3>2. ASSUME Commit(a) PROVE FALSE
      <4>1. op[a].stage = "write" /\ \E r \in Results : Leave(a, r)
        BY <3>2 DEF Commit, Results
      <4> QED
        BY <3>1, <4>1, LeaveEffect
    <3> QED
      BY <1>1, <3>1, <3>2
  <2> QED
    BY <1>3, <2>1, OwnAnswer
<1>4. ASSUME NEW o \in Ops, Submit(o), NEW a \in Ops PROVE Answer(a)'
  <2>1. /\ op[o].stage = "new" /\ op'[o].result = "none" /\ UNCHANGED <<books, entries>>
        /\ \A x \in Ops \ {o} : op'[x] = op[x]
    BY <1>4, SubmitEffect DEF Submit
  <2>2. CASE a = o
    BY <1>2, <2>1, <2>2
  <2>3. CASE a # o
    <3>1. Answer(a) /\ op'[a] = op[a]
      BY <1>a, <2>1, <2>3
    <3>2. Used(op[a].call.cid) => Used(op[a].call.cid)'
      BY <2>1, <3>1, UsedKept DEF Used
    <3> QED
      BY <2>1, <3>1, <3>2 DEF Answer
  <2> QED
    BY <2>2, <2>3
<1>5. ASSUME NEW o \in Ops, PipelineFill(o), NEW a \in Ops PROVE Answer(a)'
  <2>1. PICK p \in Procs, c \in Calls :
          /\ c.kind = "pipeline"
          /\ op' = [op EXCEPT ![o] = [Idle(p, c) EXCEPT !.stage = "done", !.result = "accepted"]]
    BY <1>5 DEF PipelineFill
  <2> DEFINE s == [Idle(p, c) EXCEPT !.stage = "done", !.result = "accepted"]
  <2>s. s.call = c
    BY DEF Idle
  <2>t. op' = [op EXCEPT ![o] = s]
    BY <2>1
  <2> HIDE DEF s
  <2>2. op'[o].call = c /\ \A x \in Ops \ {o} : op'[x] = op[x]
    BY <2>s, <2>t DEF TypeOK
  <2>3. CASE a = o
    BY <1>2, <2>1, <2>2, <2>3
  <2>4. CASE a # o
    <3>1. Answer(a) /\ op'[a] = op[a] /\ UNCHANGED <<books, entries>>
      BY <1>5, <1>a, <2>2, <2>4 DEF PipelineFill
    <3>2. Used(op[a].call.cid) => Used(op[a].call.cid)'
      BY <3>1, UsedKept DEF Used
    <3> QED
      BY <3>1, <3>2 DEF Answer
  <2> QED
    BY <2>3, <2>4
<1>6. ASSUME UNCHANGED <<books, entries, op>>, NEW a \in Ops PROVE Answer(a)'
  BY <1>6, <1>a DEF Answer, Used
<1>7. ASSUME NEW p \in Procs, Restart(p), NEW a \in Ops PROVE Answer(a)'
  <2>1. CASE op'[a].result = "error"
    BY <1>2, <2>1
  <2>2. CASE op'[a] = op[a]
    <3>1. UNCHANGED <<books, entries>>
      BY <1>7 DEF Restart
    <3>2. Used(op[a].call.cid) => Used(op[a].call.cid)'
      BY <2>2, <3>1, UsedKept DEF Used
    <3> QED
      BY <1>a, <2>2, <3>1, <3>2 DEF Answer
  <2> QED
    BY <1>7, <2>1, <2>2, RestartEffect
<1>8. UNCHANGED vars \/ (\E o \in Ops : LoseLock(o)) => UNCHANGED <<books, entries, op>>
  BY DEF vars, LoseLock
<1>9. \A a \in Ops : Answer(a)'
  BY <1>3, <1>4, <1>5, <1>6, <1>7, <1>8 DEF Next
<1> QED
  BY <1>9 DEF Answers, Answer

-----------------------------------------------------------------------------
(* What the caches hold *)

LEMMA KnownKept ==
  ASSUME TypeOK, Progress, [Next]_vars, entries \subseteq entries', NEW a \in Ops, Known(a)
  PROVE  a \in entries' \/ (op'[a].call.kind = "pipeline" /\ op'[a].stage = "done")
  BY CallKept DEF Known

\* In the cache of a call under way, only the call's own change is not known.
LEMMA OwnCache ==
  ASSUME TypeOK, Locks, Caches, NEW o \in Ops, InFlight(o), NEW a \in cache[op[o].proc].ins
  PROVE  a \in Ops /\ (Known(a) \/ (a = o /\ op[o].stage \in {"load", "write"}))
<1>1. a \in Ops
  BY OpFacts DEF TypeOK, Book
<1>2. ASSUME op[a].proc = op[o].proc, op[a].stage \in {"load", "write"} PROVE a = o
  BY <1>1, <1>2 DEF Locks, InFlight, Flight
<1> QED
  BY <1>1, <1>2, OpFacts DEF Caches

LEMMA CachesStep ==
  ASSUME TypeOK, Progress, Caches, [Next]_vars, entries \subseteq entries', NEW o \in Ops,
         \A a \in Ops \ {o} : op'[a] = op[a],
         \A q \in Procs \ {op[o].proc} : cache'[q] = cache[q],
         op'[o].row.ins \subseteq entries',
         \A a \in op'[o].snapshot.ins : a \in Ops /\ Known(a),
         op'[o].proc = op[o].proc,
         \A a \in cache'[op[o].proc].ins :
            a \in Ops /\ (Known(a) \/ (a = o /\ (op'[o].stage \in {"load", "write"} \/ o \in entries')))
  PROVE  Caches'
<1>1. \A a \in Ops : Known(a) => Known(a)'
  BY KnownKept DEF Known
<1>2. (\A x \in Ops : op[x].row.ins \subseteq entries)'
  BY DEF Caches
<1>3. (\A x \in Ops : \A a \in op[x].snapshot.ins : Known(a))'
  <2>1. \A x \in Ops : \A a \in op[x].snapshot.ins : a \in Ops
    BY OpFacts DEF OpState, Book
  <2> QED
    BY <1>1, <2>1 DEF Caches
<1>4. ASSUME NEW q \in Procs, NEW a \in cache'[q].ins
      PROVE  Known(a)' \/ (op'[a].proc = q /\ op'[a].stage \in {"load", "write"})
  <2>1. CASE q = op[o].proc
    <3>1. a \in Ops /\ (Known(a) \/ (a = o /\ (op'[o].stage \in {"load", "write"} \/ o \in entries')))
      BY <1>4, <2>1
    <3> QED
      BY <1>1, <2>1, <3>1 DEF Known
  <2>2. CASE q # op[o].proc
    <3>1. a \in cache[q].ins /\ a \in Ops
      BY <1>4, <2>2 DEF TypeOK, Book
    <3>2. Known(a) \/ (op[a].proc = q /\ op[a].stage \in {"load", "write"})
      BY <3>1 DEF Caches
    <3> QED
      BY <1>1, <2>2, <3>1, <3>2
  <2> QED
    BY <2>1, <2>2
<1> QED
  BY <1>2, <1>3, <1>4 DEF Caches

\* The call is over: the cache is as it was, or holds what is known.
LEMMA LeaveCaches ==
  ASSUME TypeOK, Locks, Progress, Whole, Caches, [Next]_vars, NEW o \in Ops, CallStep(o), InFlight(o),
         NEW r \in Results, Leave(o, r),
         \/ cache' = cache /\ op[o].stage \notin {"load", "write"}
         \/ \A a \in cache'[op[o].proc].ins : a \in Ops /\ Known(a)
  PROVE  Caches'
<1>1. /\ op'[o].row.ins = {} /\ op'[o].snapshot.ins = {} /\ op'[o].proc = op[o].proc
      /\ \A a \in Ops \ {o} : op'[a] = op[a]
  BY LeaveEffect DEF Empty
<1>2. \A a \in cache'[op[o].proc].ins : a \in Ops /\ Known(a)
  BY OwnCache
<1>3. entries \subseteq entries'
  BY InsGrow
<1>4. \A q \in Procs \ {op[o].proc} : cache'[q] = cache[q]
  BY CacheSteps
<1> QED
  BY <1>1, <1>2, <1>3, <1>4, CachesStep

LEMMA PersistCaches ==
  ASSUME TypeOK, Locks, Progress, Whole, Caches, [Next]_vars, NEW o \in Ops, CallStep(o), InFlight(o),
         NEW b \in Book, NEW changed, NEW gone, Persist(o, b, changed, gone),
         \A a \in b.ins : Known(a), changed.ins \subseteq b.ins \cup {o}
  PROVE  Caches'
<1> DEFINE s == [op[o] EXCEPT !.stage = "load", !.snapshot = b, !.closing = gone, !.row = Empty]
<1>1. s.stage = "load" /\ s.snapshot = b /\ s.row = Empty /\ s.proc = op[o].proc
  BY OpFacts DEF OpState
<1>2. op' = [op EXCEPT ![o] = s]
  BY DEF Persist
<1> HIDE DEF s
<1>3. op'[o] = s /\ \A a \in Ops \ {o} : op'[a] = op[a]
  BY <1>2 DEF TypeOK
<1>4. cache'[op[o].proc] = changed
  BY OpFacts DEF Persist, TypeOK
<1>5. \A a \in b.ins : a \in Ops
  BY DEF Book
<1>6. /\ op'[o].row.ins \subseteq entries'
      /\ \A a \in op'[o].snapshot.ins : a \in Ops /\ Known(a)
      /\ op'[o].proc = op[o].proc /\ op'[o].stage = "load"
  BY <1>1, <1>3, <1>5 DEF Empty
<1>7. \A a \in cache'[op[o].proc].ins : a \in Ops /\ (Known(a) \/ a = o)
  BY <1>4, <1>5
<1>8. entries \subseteq entries'
  BY InsGrow
<1>9. \A q \in Procs \ {op[o].proc} : cache'[q] = cache[q]
  BY CacheSteps
<1> QED
  BY <1>3, <1>6, <1>7, <1>8, <1>9, CachesStep

LEMMA ChangedIns ==
  ASSUME TypeOK, NEW o \in Ops, NEW b \in Book
  PROVE  /\ Fill(b, o, op[o].call).ins \subseteq b.ins \cup {o}
         /\ \A gone \in SUBSET Held(b, op[o].call) : Exit(b, gone, o).ins \subseteq b.ins \cup {o}
<1>1. op[o].call \in Calls
  BY OpFacts
<1>2. \A gone \in SUBSET Held(b, op[o].call) : gone \in SUBSET b.open
  BY <1>1, BookFacts
<1> QED
  BY <1>1, <1>2, FillFields, ClosedExit

LEMMA HydratedCaches ==
  ASSUME TypeOK, Locks, Progress, Whole, Caches, [Next]_vars, NEW o \in Ops, CallStep(o), InFlight(o),
         NEW b \in Book, Hydrated(o, b), \A a \in b.ins : Known(a)
  PROVE  Caches'
<1>1. \A a \in b.ins : a \in Ops
  BY DEF Book
<1>2. ASSUME NEW r \in Results, cache' = [cache EXCEPT ![op[o].proc] = b], Leave(o, r) PROVE Caches'
  <2>1. cache'[op[o].proc] = b
    BY <1>2, OpFacts DEF TypeOK
  <2> QED
    BY <1>1, <1>2, <2>1, LeaveCaches
<1>3. ASSUME NEW gone \in SUBSET Held(b, op[o].call), Persist(o, b, Exit(b, gone, o), gone)
      PROVE  Caches'
  BY <1>3, ChangedIns, PersistCaches
<1>4. ASSUME Persist(o, b, Fill(b, o, op[o].call), Held(b, op[o].call)) PROVE Caches'
  BY <1>4, ChangedIns, PersistCaches
<1>5. ASSUME cache' = [cache EXCEPT ![op[o].proc] = b],
             op' = [op EXCEPT ![o] = [@ EXCEPT !.stage = "check", !.row = Empty]]
      PROVE  Caches'
  <2> DEFINE s == [op[o] EXCEPT !.stage = "check", !.row = Empty]
  <2>1. s.row = Empty /\ s.snapshot = op[o].snapshot /\ s.proc = op[o].proc
    BY OpFacts DEF OpState
  <2>2. op' = [op EXCEPT ![o] = s]
    BY <1>5
  <2> HIDE DEF s
  <2>3. op'[o] = s /\ \A a \in Ops \ {o} : op'[a] = op[a]
    BY <2>2 DEF TypeOK
  <2>4. \A a \in op[o].snapshot.ins : a \in Ops /\ Known(a)
    BY OpFacts DEF OpState, Book, Caches
  <2>5. op'[o].row.ins \subseteq entries' /\ op'[o].proc = op[o].proc
        /\ \A a \in op'[o].snapshot.ins : a \in Ops /\ Known(a)
    BY <2>1, <2>3, <2>4 DEF Empty
  <2>6. cache'[op[o].proc] = b
    BY <1>5, OpFacts DEF TypeOK
  <2>7. entries \subseteq entries'
    BY InsGrow
  <2>8. \A q \in Procs \ {op[o].proc} : cache'[q] = cache[q]
    BY CacheSteps
  <2> QED
    BY <1>1, <2>3, <2>5, <2>6, <2>7, <2>8, CachesStep
<1> QED
  BY <1>2, <1>3, <1>4, <1>5, HydratedCases DEF Results

LEMMA OwnCaches ==
  ASSUME TypeOK, Locks, Progress, Whole, Caches, [Next]_vars, NEW o \in Ops, CallStep(o)
  PROVE  Caches'
<1>1. entries \subseteq entries'
  BY InsGrow
<1>2. \A q \in Procs \ {op[o].proc} : cache'[q] = cache[q]
  BY CacheSteps
<1>3. /\ op[o].row.ins \subseteq entries
      /\ \A a \in op[o].snapshot.ins : a \in Ops /\ Known(a)
  BY OpFacts DEF OpState, Book, Caches
<1>4. ASSUME InFlight(o), op[o].stage \notin {"load", "write"}
      PROVE  \A a \in cache[op[o].proc].ins : a \in Ops /\ Known(a)
  BY <1>4, OwnCache
<1>5. CASE EnterCache(o)
  <2> DEFINE s == [op[o] EXCEPT !.stage = op'[o].stage]
  <2>1. op'[o] = s /\ \A a \in Ops \ {o} : op'[a] = op[a]
    BY <1>5, EnterEffect
  <2>2. s.row = op[o].row /\ s.snapshot = op[o].snapshot /\ s.proc = op[o].proc
    BY OpFacts DEF OpState
  <2> HIDE DEF s
  <2>3. cache' = cache /\ owner[op[o].proc] = NoOp
    BY <1>5 DEF EnterCache
  <2>4. \A a \in cache[op[o].proc].ins : a \in Ops /\ Known(a)
    <3>1. \A a \in Ops : op[a].stage \in {"load", "write"} => op[a].proc # op[o].proc
      BY <2>3, OpsFacts DEF Locks, InFlight, Flight
    <3>2. \A a \in cache[op[o].proc].ins : a \in Ops
      BY OpFacts DEF TypeOK, Book
    <3> QED
      BY <3>1, <3>2, OpFacts DEF Caches
  <2> QED
    BY <1>1, <1>2, <1>3, <2>1, <2>2, <2>3, <2>4, CachesStep
<1>6. CASE GiveUp(o) \/ QueryFails(o)
  <2>1. /\ InFlight(o) /\ op[o].stage \notin {"load", "write"} /\ cache' = cache
        /\ \E r \in Results : Leave(o, r)
    BY <1>6 DEF GiveUp, QueryFails, InFlight, Flight, Results
  <2> QED
    BY <2>1, LeaveCaches
<1>7. CASE TakeWriterLock(o) \/ LoadPortfolio(o) \/ LoadPositions(o) \/ ListPositions(o)
  <2>1. \/ op' = [op EXCEPT ![o] = [@ EXCEPT !.stage = "portfolio"]]
        \/ op' = [op EXCEPT ![o] = [@ EXCEPT !.stage = "write",
                                            !.listed = cache[op[o].proc].open]]
        \/ op' = [op EXCEPT ![o] = [@ EXCEPT !.stage = "positions",
                     !.row = [Empty EXCEPT !.ins = books.ins, !.outs = books.outs]]]
        \/ op' = [op EXCEPT ![o] = [@ EXCEPT !.stage = "trades", !.row.open = books.open]]
    BY <1>7, OpFacts DEF TakeWriterLock, LoadPortfolio, LoadPositions, ListPositions
  <2>2. cache' = cache /\ InFlight(o)
    BY <1>7 DEF TakeWriterLock, LoadPortfolio, LoadPositions, ListPositions, InFlight, Flight
  <2>3. ASSUME NEW s, op' = [op EXCEPT ![o] = s], s.row.ins \subseteq entries,
               s.snapshot = op[o].snapshot, s.proc = op[o].proc,
               op[o].stage \in {"load", "write"} => s.stage \in {"load", "write"}
        PROVE  Caches'
    <3>1. op'[o] = s /\ \A a \in Ops \ {o} : op'[a] = op[a]
      BY <2>3 DEF TypeOK
    <3>2. \A a \in cache'[op[o].proc].ins : a \in Ops /\ (Known(a) \/ (a = o /\ op'[o].stage \in {"load", "write"}))
      BY <2>2, <2>3, <3>1, OwnCache
    <3> QED
      BY <1>1, <1>2, <1>3, <2>3, <3>1, <3>2, CachesStep
  <2>4. ASSUME NEW st, NEW l, op' = [op EXCEPT ![o] = [@ EXCEPT !.stage = st, !.listed = l]],
               st \in {"load", "write"}
        PROVE  Caches'
    <3> DEFINE s == [op[o] EXCEPT !.stage = st, !.listed = l]
    <3>1. s.stage = st /\ s.row = op[o].row /\ s.snapshot = op[o].snapshot /\ s.proc = op[o].proc
      BY OpFacts DEF OpState
    <3>2. op' = [op EXCEPT ![o] = s]
      BY <2>4
    <3> HIDE DEF s
    <3> QED
      BY <1>3, <2>3, <2>4, <3>1, <3>2
  <2>5. ASSUME NEW st, NEW row, op' = [op EXCEPT ![o] = [@ EXCEPT !.stage = st, !.row = row]],
               row.ins \subseteq entries, op[o].stage \notin {"load", "write"}
        PROVE  Caches'
    <3> DEFINE s == [op[o] EXCEPT !.stage = st, !.row = row]
    <3>1. s.stage = st /\ s.row = row /\ s.snapshot = op[o].snapshot /\ s.proc = op[o].proc
      BY OpFacts DEF OpState
    <3>2. op' = [op EXCEPT ![o] = s]
      BY <2>5
    <3> HIDE DEF s
    <3> QED
      BY <2>3, <2>5, <3>1, <3>2
  <2>6. CASE ListPositions(o)
    BY <2>4, <2>6 DEF ListPositions
  <2>7. CASE TakeWriterLock(o)
    <3> DEFINE s == [op[o] EXCEPT !.stage = "portfolio"]
    <3>1. s.row = op[o].row /\ s.snapshot = op[o].snapshot /\ s.proc = op[o].proc
      BY OpFacts DEF OpState
    <3>2. op' = [op EXCEPT ![o] = s] /\ op[o].stage = "locking"
      BY <2>7 DEF TakeWriterLock
    <3> HIDE DEF s
    <3> QED
      BY <1>3, <2>3, <3>1, <3>2
  <2>8. CASE LoadPortfolio(o)
    <3> DEFINE row == [Empty EXCEPT !.ins = books.ins, !.outs = books.outs]
    <3>1. row.ins = books.ins
      BY DEF Empty
    <3>2. op' = [op EXCEPT ![o] = [@ EXCEPT !.stage = "positions", !.row = row]]
          /\ op[o].stage = "portfolio"
      BY <2>8 DEF LoadPortfolio
    <3> HIDE DEF row
    <3> QED
      BY <2>5, <3>1, <3>2, BooksFacts
  <2>9. CASE LoadPositions(o)
    <3> DEFINE row == [op[o].row EXCEPT !.open = books.open]
    <3>1. row.ins = op[o].row.ins
      BY OpFacts DEF OpState, Book
    <3>2. op' = [op EXCEPT ![o] = [@ EXCEPT !.stage = "trades", !.row = row]]
          /\ op[o].stage = "positions"
      BY <2>9, OpFacts DEF LoadPositions, OpState
    <3> HIDE DEF row
    <3> QED
      BY <1>3, <2>5, <3>1, <3>2
  <2> QED
    BY <1>7, <2>6, <2>7, <2>8, <2>9
<1>8. CASE FindUnseeded(o)
  <2>1. InFlight(o) /\ op[o].stage \notin {"load", "write"} /\ Hydrated(o, cache[op[o].proc])
    BY <1>8 DEF FindUnseeded, InFlight, Flight
  <2>2. cache[op[o].proc] \in Book
    BY OpFacts DEF TypeOK
  <2> QED
    BY <1>4, <2>1, <2>2, HydratedCaches
<1>9. CASE LoadTrades(o)
  <2> DEFINE b == [op[o].row EXCEPT !.trades = books.trades]
  <2>1. b \in Book /\ b.ins = op[o].row.ins
    BY OpFacts DEF TypeOK, OpState, Book
  <2>2. InFlight(o) /\ Hydrated(o, b)
    BY <1>9 DEF LoadTrades, InFlight, Flight
  <2> HIDE DEF b
  <2>3. \A a \in b.ins : Known(a)
    BY <1>3, <2>1 DEF Known
  <2> QED
    BY <2>1, <2>2, <2>3, HydratedCaches
<1>10. CASE CheckOrderId(o)
  <2> DEFINE b == cache[op[o].proc]
  <2>1. b \in Book /\ InFlight(o) /\ op[o].stage \notin {"load", "write"}
    BY <1>10, OpFacts DEF TypeOK, CheckOrderId, InFlight, Flight
  <2>2. \A a \in b.ins : a \in Ops /\ Known(a)
    BY <1>4, <2>1
  <2>3. CASE Leave(o, "conflict") /\ UNCHANGED cache
    BY <2>1, <2>3, LeaveCaches DEF Results
  <2>4. CASE Leave(o, "refused") /\ cache' = [cache EXCEPT ![op[o].proc] = b]
    <3>1. cache'[op[o].proc] = b
      BY <2>4, OpFacts DEF TypeOK
    <3> QED
      BY <2>1, <2>2, <2>4, <3>1, LeaveCaches DEF Results
  <2>5. CASE Persist(o, b, Fill(b, o, op[o].call), Held(b, op[o].call))
    <3> HIDE DEF b
    <3> QED
      BY <2>1, <2>2, <2>5, ChangedIns, PersistCaches
  <2> QED
    BY <1>10, <2>3, <2>4, <2>5 DEF CheckOrderId, Trade, Reject
<1>11. ASSUME InFlight(o), cache' = Restored(o), NEW r \in Results, Leave(o, r) PROVE Caches'
  <2>1. cache'[op[o].proc] = op[o].snapshot
    BY <1>11, OpFacts DEF Restored, TypeOK
  <2> QED
    BY <1>3, <1>11, <2>1, LeaveCaches
<1>12. CASE PersistUnseeded(o) \/ CommitConflicts(o) \/ PersistFails(o)
  <2>1. InFlight(o) /\ cache' = Restored(o) /\ \E r \in Results : Leave(o, r)
    BY <1>12 DEF PersistUnseeded, CommitConflicts, PersistFails, InFlight, Flight, Results
  <2> QED
    BY <1>11, <2>1
<1>13. CASE Commit(o)
  <2>1. InFlight(o) /\ op[o].stage = "write"
    BY <1>13 DEF Commit, InFlight, Flight
  <2>2. CASE cache' = Restored(o) /\ Leave(o, "error")
    BY <1>11, <2>1, <2>2 DEF Results
  <2>3. CASE cache' = cache /\ Leave(o, "accepted")
    <3>1. /\ op'[o].row.ins = {} /\ op'[o].snapshot.ins = {} /\ op'[o].proc = op[o].proc
          /\ \A a \in Ops \ {o} : op'[a] = op[a]
      BY <2>3, LeaveEffect DEF Empty, Results
    <3>2. o \in cache[op[o].proc].ins => o \in entries'
      BY <1>13, CommitBooks
    <3>3. \A a \in cache'[op[o].proc].ins : a \in Ops /\ (Known(a) \/ (a = o /\ o \in entries'))
      BY <2>1, <2>3, <3>2, OwnCache
    <3> QED
      BY <1>1, <1>2, <3>1, <3>3, CachesStep
  <2> QED
    BY <1>13, <2>2, <2>3 DEF Commit
<1> QED
  BY <1>5, <1>6, <1>7, <1>8, <1>9, <1>10, <1>12, <1>13 DEF CallStep

LEMMA CachesNext ==
  ASSUME TypeOK, Locks, Progress, Whole, Caches, [Next]_vars
  PROVE  Caches'
<1>1. entries \subseteq entries'
  BY InsGrow
<1>k. \A a \in Ops : Known(a) => Known(a)'
  BY <1>1, KnownKept DEF Known
<1>2. \A q \in Procs : \A a \in cache[q].ins : a \in Ops
  BY DEF TypeOK, Book
<1>3. \A x \in Ops : \A a \in op[x].snapshot.ins : a \in Ops
  BY OpFacts DEF OpState, Book
<1>e. Empty.ins = {}
  BY DEF Empty
<1>4. ASSUME NEW o \in Ops, Submit(o) PROVE Caches'
  <2>1. /\ op[o].stage = "new" /\ op'[o].row.ins = {} /\ op'[o].snapshot.ins = {}
        /\ UNCHANGED cache
        /\ \A a \in Ops \ {o} : op'[a] = op[a]
    <3>1. UNCHANGED cache
      BY <1>4 DEF Submit
    <3> QED
      BY <1>4, <1>e, <3>1, SubmitEffect
  <2> QED
    BY <1>1, <1>k, <1>2, <1>3, <2>1 DEF Caches
<1>5. ASSUME NEW o \in Ops, PipelineFill(o) PROVE Caches'
  <2>1. PICK p \in Procs, c \in Calls :
          /\ c.kind = "pipeline"
          /\ cache' = [cache EXCEPT ![p] = Fill(cache[p], o, c)]
          /\ op' = [op EXCEPT ![o] = [Idle(p, c) EXCEPT !.stage = "done", !.result = "accepted"]]
    BY <1>5 DEF PipelineFill
  <2> DEFINE s == [Idle(p, c) EXCEPT !.stage = "done", !.result = "accepted"]
  <2>2. s.call = c /\ s.stage = "done" /\ s.row = Empty /\ s.snapshot = Empty
    BY DEF Idle
  <2>3. op' = [op EXCEPT ![o] = s]
    BY <2>1
  <2> HIDE DEF s
  <2>4. /\ op'[o].call.kind = "pipeline" /\ op'[o].stage = "done"
        /\ op'[o].row.ins = {} /\ op'[o].snapshot.ins = {}
        /\ \A a \in Ops \ {o} : op'[a] = op[a]
    <3>1. op'[o] = s /\ \A a \in Ops \ {o} : op'[a] = op[a]
      BY <2>3 DEF TypeOK
    <3> QED
      BY <1>e, <2>1, <2>2, <3>1
  <2>5. /\ cache'[p].ins = cache[p].ins \cup {o}
        /\ \A q \in Procs \ {p} : cache'[q] = cache[q]
    <3>1. cache[p] \in Book
      BY DEF TypeOK
    <3> QED
      BY <2>1, <3>1, FillFields DEF TypeOK
  <2>6. op[o].stage = "new"
    BY <1>5 DEF PipelineFill, Arrives
  <2>7. (\A x \in Ops : op[x].row.ins \subseteq entries)'
    BY <1>1, <2>4 DEF Caches
  <2>8. (\A x \in Ops : \A a \in op[x].snapshot.ins : Known(a))'
    BY <1>k, <1>3, <2>4 DEF Caches
  <2>9. ASSUME NEW q \in Procs, NEW a \in cache'[q].ins
        PROVE  Known(a)' \/ (op'[a].proc = q /\ op'[a].stage \in {"load", "write"})
    <3>1. CASE a = o
      BY <2>4, <3>1 DEF Known
    <3>2. CASE a # o
      <4>1. a \in cache[q].ins /\ a \in Ops
        BY <1>2, <2>5, <2>9, <3>2
      <4> QED
        BY <1>k, <2>4, <3>2, <4>1 DEF Caches
    <3> QED
      BY <3>1, <3>2
  <2> QED
    BY <2>7, <2>8, <2>9 DEF Caches
<1>6. ASSUME NEW p \in Procs, Restart(p) PROVE Caches'
  <2>1. \A x \in Ops : /\ op'[x].proc = op[x].proc
                       /\ op'[x] = op[x] \/ (/\ op'[x].row.ins = {} /\ op'[x].snapshot.ins = {}
                                              /\ op[x].proc = p)
    BY <1>6, RestartEffect DEF Empty
  <2>2. cache'[p].ins = {} /\ \A q \in Procs \ {p} : cache'[q] = cache[q]
    BY <1>6 DEF Restart, TypeOK, Empty
  <2> QED
    BY <1>1, <1>k, <1>2, <1>3, <2>1, <2>2 DEF Caches
<1>7. CASE UNCHANGED <<entries, cache, op>>
  BY <1>7 DEF Caches, Known
<1>8. UNCHANGED vars \/ (\E o \in Ops : LoseLock(o)) => UNCHANGED <<entries, cache, op>>
  BY DEF vars, LoseLock
<1> QED
  BY <1>4, <1>5, <1>6, <1>7, <1>8, OwnCaches DEF Next

-----------------------------------------------------------------------------
(* The theorems *)

LEMMA Start == Init => IInv
<1> SUFFICES ASSUME Init PROVE IInv
  OBVIOUS
<1>1. TypeOK
  BY TypeInit
<1>2. (CHOOSE p \in Procs : TRUE) \in Procs /\ (CHOOSE c \in Calls : TRUE) \in Calls
  BY ConstantsAssumption
<1>3. \A o \in Ops : /\ op[o].stage = "new" /\ op[o].result = "none"
                     /\ op[o].row = Empty /\ op[o].snapshot = Empty
  BY DEF Init, Idle
<1>4. books = Empty /\ entries = {} /\ holder = NoOp
      /\ cache = [p \in Procs |-> Empty] /\ owner = [p \in Procs |-> NoOp]
  BY DEF Init
<1>5. Locks /\ Progress /\ OneFillPerId
  BY <1>3, <1>4 DEF Locks, Progress, InFlight, Flight, OneFillPerId
<1>6. Balanced(books)
  BY <1>4 DEF Balanced, Closed, Empty
<1>7. Whole
  BY <1>3, <1>4, <1>6 DEF Whole, Writes, InFlight, Flight, Empty
<1>8. Answers
  BY <1>3 DEF Answers
<1>9. Caches
  BY <1>3, <1>4 DEF Caches, Empty
<1> QED
  BY <1>1, <1>5, <1>7, <1>8, <1>9 DEF IInv

LEMMA Step == IInv /\ [Next]_vars => IInv'
<1> SUFFICES ASSUME IInv, [Next]_vars PROVE IInv'
  OBVIOUS
<1>1. TypeOK /\ Locks /\ Progress /\ OneFillPerId /\ (clean => Whole /\ Answers /\ Caches)
  BY DEF IInv
<1>2. TypeOK' /\ Locks' /\ Progress' /\ OneFillPerId'
  BY <1>1, TypeNext, LocksNext, ProgressNext, OneFillNext
<1>3. clean' => clean
  BY <1>1, EntriesStep DEF Next, vars, Submit, PipelineFill, LoseLock, Restart, TypeOK
<1>4. clean' => Whole' /\ Answers' /\ Caches'
  BY <1>1, <1>3, WholeNext, AnswersNext, CachesNext
<1> QED
  BY <1>2, <1>4 DEF IInv

\* The locks, and the view a writer has of the books under them, are as IInv
\* says in every state: what all the theorems below rest on.
THEOREM Inductive == Spec => []IInv
  BY Start, Step, PTL DEF Spec

\* The type invariant, for every set of processes, calls and requests.
THEOREM TypeCorrect == Spec => []TypeOK
<1>1. IInv => TypeOK
  BY DEF IInv
<1> QED
  BY <1>1, Inductive, PTL

\* No failure, refusal or restart leaves a lock behind: a held lock has a call
\* under way that will let it go (_writer_lock's two "async with" blocks).
THEOREM LocksHeld == Spec => []LocksAreOwned
<1>1. IInv => LocksAreOwned
  <2> SUFFICES ASSUME IInv PROVE LocksAreOwned
    OBVIOUS
  <2>1. owner \in [Procs -> Ops \cup {NoOp}] /\ holder \in Ops \cup {NoOp} /\ Locks
    BY DEF IInv, TypeOK
  <2> QED
    BY <2>1 DEF Locks, LocksAreOwned, InFlight, Flight
<1> QED
  BY <1>1, Inductive, PTL

\* A client order id opens one position at most, whatever happens to the locks.
THEOREM FillsOnce == Spec => []OneFillPerId
<1>1. IInv => OneFillPerId
  BY DEF IInv
<1> QED
  BY <1>1, Inductive, PTL

\* The balance, the open positions and the history agree after every commit,
\* while the advisory lock holds and no pipeline reaches into a write.
THEOREM BooksAgree == Spec => []BooksBalance
<1>1. IInv => BooksBalance
  BY DEF IInv, Whole, BooksBalance
<1> QED
  BY <1>1, Inductive, PTL

\* What a caller is told of its order is true of the database.
THEOREM AnswersHold == Spec => []AnswersAreTrue
<1>1. IInv => AnswersAreTrue
  BY DEF IInv, Answers, AnswersAreTrue
<1> QED
  BY <1>1, Inductive, PTL

\* Between calls a cache holds committed fills, and those of pipelines.
THEOREM CacheCommitted == Spec => []CacheHoldsCommitted
<1>1. IInv => CacheHoldsCommitted
  <2> SUFFICES ASSUME IInv, clean, NEW p \in Procs, owner[p] = NoOp, NEW a \in cache[p].ins
               PROVE  a \in entries \/ op[a].call.kind = "pipeline"
    BY DEF CacheHoldsCommitted
  <2>1. a \in Ops /\ Locks /\ Caches
    BY DEF IInv, TypeOK, Book
  <2>2. ~(op[a].proc = p /\ op[a].stage \in {"load", "write"})
    BY <2>1, OpsFacts DEF Locks, InFlight, Flight
  <2> QED
    BY <2>1, <2>2 DEF Caches, Known
<1> QED
  BY <1>1, Inductive, PTL

\* The writes of all processes take effect one after the other: each commit
\* applies one call to the books as they are.
THEOREM Serialised == Spec => WritesAreAtomic
<1>1. IInv /\ [Next]_vars =>
        [clean /\ books' # books =>
          \E o \in Ops : \/ books' = Fill(books, o, op[o].call)
                         \/ \E gone \in SUBSET Held(books, op[o].call) :
                               books' = Exit(books, gone, o)]_vars
  <2> SUFFICES ASSUME IInv, [Next]_vars, clean, books' # books
               PROVE  \E o \in Ops : \/ books' = Fill(books, o, op[o].call)
                                     \/ \E gone \in SUBSET Held(books, op[o].call) :
                                           books' = Exit(books, gone, o)
    OBVIOUS
  <2>1. TypeOK /\ Locks /\ Progress /\ Whole
    BY DEF IInv
  <2>2. PICK o \in Ops : Commit(o)
    BY <2>1, BooksStep
  <2> QED
    BY <2>1, <2>2, CommitBooks
<1> QED
  BY <1>1, Inductive, PTL DEF Spec, WritesAreAtomic

==============================================================================
