----------------------------- MODULE PaperLedger -----------------------------
(***************************************************************************)
(* The durable paper ledger: paper_trading/ledger.py and repository.py.    *)
(*                                                                         *)
(* Each process (API, runner) keeps a cache, its PaperTradingEngine, in    *)
(* front of one database.  A write takes the process's cache lock and then *)
(* the database's advisory lock, loads the books, changes the cache and    *)
(* persists it in one transaction; a read takes the cache lock only.       *)
(* Every query is a step of its own: other calls run between two of them,  *)
(* each may fail, and each step up to the next await is one action.        *)
(*                                                                         *)
(* The supervisor builds the pipeline's execution agent again for each run *)
(* and gives it the engine alone, neither ledger nor session factory       *)
(* (agents/supervisor.py:648), so the fill of a pipeline that was given    *)
(* candles (Supervisor.run(candles=...)) changes the cache with no lock    *)
(* and no persistence: PipelineFill.                                       *)
(*                                                                         *)
(* A position is named by the call that opened it.  The cash balance is    *)
(* the set of the entries and the exits it accounts for; prices, sizes,    *)
(* marks and carry are the concern of the engine's own accounting.         *)
(*                                                                         *)
(* An operator marked FAULTY is the next operator with a plausible bug,    *)
(* kept to show that a property notices it.                                *)
(***************************************************************************)
EXTENDS Naturals

CONSTANTS
    Procs,   \* the processes with a ledger
    MaxOps,  \* bound on the calls made
    Calls,   \* what a call may ask for
    NoId     \* no client_order_id

Ops  == 1 .. MaxOps  \* the calls, numbered as they come in
NoOp == 0

Kinds == {"signal", "candle", "read", "pipeline"}

ASSUME ConstantsAssumption ==
    /\ MaxOps \in Nat
    /\ Procs # {} /\ Calls # {}
    /\ \A c \in Calls : c.kind \in Kinds /\ (c.cid # NoId => c.kind = "signal")

VARIABLES
    seeded,   \* the database holds the paper account
    books,    \* external: the tables portfolio, positions and trade_history
    entries,  \* external: the table orders, by the call of each entry order
    holder,   \* external: the call that holds the advisory lock
    cache,    \* the engine of each process
    owner,    \* the call that holds the cache lock of each process
    op,       \* what each call is doing
    clean     \* history: nothing has got between a writer and its locks

vars == <<seeded, books, entries, holder, cache, owner, op, clean>>

\* ins and outs: what the cash balance accounts for.  A trade, like an exit in
\* outs, is a position and the call that closed it.
Book == [ins : SUBSET Ops, outs : SUBSET (Ops \X Ops),
         open : SUBSET Ops, trades : SUBSET (Ops \X Ops)]
Empty == [ins |-> {}, outs |-> {}, open |-> {}, trades |-> {}]

\* queued, locking: waiting for the cache lock, for the advisory lock;
\* portfolio, positions, trades: loading them; check: looking for the client
\* order id; load, write: persisting, before and after the open positions are
\* listed.
Stages  == {"new", "queued", "locking", "portfolio", "positions", "trades",
            "check", "load", "write", "done"}
\* accepted: done; refused: nothing done; error: whatever was done, the caller
\* does not know (503 but not busy, or no answer).
Results == {"none", "accepted", "refused", "conflict", "error"}
OpState == [stage : Stages, proc : Procs, call : Calls, row : Book,
            snapshot : Book, listed : SUBSET Ops, closing : SUBSET Ops,
            result : Results]

TypeOK ==
    /\ seeded \in BOOLEAN
    /\ books \in Book
    /\ entries \subseteq Ops
    /\ holder \in Ops \cup {NoOp}
    /\ cache \in [Procs -> Book]
    /\ owner \in [Procs -> Ops \cup {NoOp}]
    /\ op \in [Ops -> OpState]
    /\ clean \in BOOLEAN

\* A call with nothing under way.
Idle(p, c) == [stage |-> "new", proc |-> p, call |-> c, row |-> Empty,
               snapshot |-> Empty, listed |-> {}, closing |-> {}, result |-> "none"]

Init ==
    /\ seeded \in BOOLEAN
    /\ books = Empty
    /\ entries = {}
    /\ holder = NoOp
    /\ cache = [p \in Procs |-> Empty]
    /\ owner = [p \in Procs |-> NoOp]
    /\ op = [o \in Ops |-> Idle(CHOOSE p \in Procs : TRUE, CHOOSE c \in Calls : TRUE)]
    /\ clean = TRUE

-----------------------------------------------------------------------------
(* The engine *)

\* close_position, for several positions.
Exit(b, gone, o) ==
    [b EXCEPT !.open = @ \ gone, !.trades = @ \cup (gone \X {o}),
              !.outs = @ \cup (gone \X {o})]

\* The open position in the symbol that call c asks for.
Held(b, c) == {a \in b.open : op[a].call.sym = c.sym}

\* execute_signal, accepted: a reversal closes the position that is there.
Fill(b, o, c) ==
    [Exit(b, Held(b, c), o) EXCEPT !.ins = @ \cup {o}, !.open = @ \cup {o}]

\* ... refused when the symbol is held on the same side.
SameSide(b, c) == \E a \in Held(b, c) : op[a].call.side = c.side

-----------------------------------------------------------------------------
(* The locks *)

Used(cid) == \E e \in entries : op[e].call.cid = cid

\* The cache lock after the call.
Freed(o) == NoOp

\* Leaving both "async with" blocks; rolling back the lock's transaction frees
\* the advisory lock, if the call still holds it.
Leave(o, result) ==
    /\ op' = [op EXCEPT ![o] = [Idle(@.proc, @.call) EXCEPT !.stage = "done",
                                                            !.result = result]]
    /\ owner' = [owner EXCEPT ![op[o].proc] = Freed(o)]
    /\ holder' = IF holder = o THEN NoOp ELSE holder

\* The next call to come in is o.
Arrives(o) == op[o].stage = "new" /\ \A a \in 1 .. o - 1 : op[a].stage # "new"

\* A request comes in: POST /execute, the worker's tick, a poll of the runner, a read.
Submit(o) ==
    /\ Arrives(o)
    /\ \E p \in Procs, c \in Calls :
         /\ c.kind # "pipeline"
         /\ op' = [op EXCEPT ![o] = [Idle(p, c) EXCEPT !.stage = "queued"]]
    /\ UNCHANGED <<seeded, books, entries, holder, cache, owner, clean>>

EnterCache(o) ==
    /\ op[o].stage = "queued"
    /\ owner[op[o].proc] = NoOp
    /\ owner' = [owner EXCEPT ![op[o].proc] = o]
    /\ op' = [op EXCEPT ![o].stage =
                IF op[o].call.kind = "read" THEN "portfolio" ELSE "locking"]
    /\ UNCHANGED <<seeded, books, entries, holder, cache, clean>>

\* pg_try_advisory_xact_lock.  (FAULTY: taken while another writer holds it.)
LockFreeAlways == TRUE
LockFree == holder = NoOp

TakeWriterLock(o) ==
    /\ op[o].stage = "locking"
    /\ LockFree
    /\ holder' = o
    /\ op' = [op EXCEPT ![o].stage = "portfolio"]
    /\ UNCHANGED <<seeded, books, entries, cache, owner, clean>>

\* PaperLedgerBusyError at the deadline.
GiveUp(o) ==
    /\ op[o].stage = "locking"
    /\ ~LockFree
    /\ Leave(o, "refused")
    /\ UNCHANGED <<seeded, books, entries, cache, clean>>

-----------------------------------------------------------------------------
(* The engine under a call *)

\* From now on the cache holds b and a change of it, not yet persisted.
Persist(o, b, changed, gone) ==
    /\ cache' = [cache EXCEPT ![op[o].proc] = changed]
    /\ op' = [op EXCEPT ![o] = [@ EXCEPT !.stage = "load", !.snapshot = b,
                                         !.closing = gone, !.row = Empty]]
    /\ UNCHANGED <<holder, owner>>

\* The engine may refuse for lack of cash; a refusal restores the snapshot.
Reject(o, b) ==
    /\ cache' = [cache EXCEPT ![op[o].proc] = b]
    /\ Leave(o, "refused")

Trade(o, b) ==
    \/ Reject(o, b)
    \/ /\ ~SameSide(b, op[o].call)
       /\ Persist(o, b, Fill(b, o, op[o].call), Held(b, op[o].call))

\* check_sl_tp closes what the candle reaches, mark_to_market marks the rest.
ProcessCandle(o, b) ==
    \E gone \in SUBSET Held(b, op[o].call) : Persist(o, b, Exit(b, gone, o), gone)

Serve(o, b) ==
    /\ cache' = [cache EXCEPT ![op[o].proc] = b]
    /\ Leave(o, "accepted")

\* The cache holds b: what the call does up to its next await.
Hydrated(o, b) ==
    \/ op[o].call.kind = "read" /\ Serve(o, b)
    \/ op[o].call.kind = "candle" /\ ProcessCandle(o, b)
    \/ op[o].call.kind = "signal" /\ op[o].call.cid = NoId /\ Trade(o, b)
    \/ /\ op[o].call.kind = "signal" /\ op[o].call.cid # NoId
       /\ cache' = [cache EXCEPT ![op[o].proc] = b]
       /\ op' = [op EXCEPT ![o] = [@ EXCEPT !.stage = "check", !.row = Empty]]
       /\ UNCHANGED <<holder, owner>>

LoadPortfolio(o) ==
    /\ op[o].stage = "portfolio"
    /\ seeded
    /\ op' = [op EXCEPT ![o] = [@ EXCEPT !.stage = "positions",
                  !.row = [Empty EXCEPT !.ins = books.ins, !.outs = books.outs]]]
    /\ UNCHANGED <<seeded, books, entries, holder, cache, owner, clean>>

\* hydrate returns False: the cache is left as it is.
FindUnseeded(o) ==
    /\ op[o].stage = "portfolio"
    /\ ~seeded
    /\ Hydrated(o, cache[op[o].proc])
    /\ UNCHANGED <<seeded, books, entries, clean>>

LoadPositions(o) ==
    /\ op[o].stage = "positions"
    /\ op' = [op EXCEPT ![o] = [@ EXCEPT !.stage = "trades", !.row.open = books.open]]
    /\ UNCHANGED <<seeded, books, entries, holder, cache, owner, clean>>

LoadTrades(o) ==
    /\ op[o].stage = "trades"
    /\ Hydrated(o, [op[o].row EXCEPT !.trades = books.trades])
    /\ UNCHANGED <<seeded, books, entries, clean>>

CheckOrderId(o) ==
    /\ op[o].stage = "check"
    /\ \/ /\ Used(op[o].call.cid)
          /\ Leave(o, "conflict")
          /\ UNCHANGED cache
       \/ /\ ~Used(op[o].call.cid)
          /\ Trade(o, cache[op[o].proc])
    /\ UNCHANGED <<seeded, books, entries, clean>>

-----------------------------------------------------------------------------
(* Persisting *)

\* restore_snapshot after a failed write.
Restored(o) == [cache EXCEPT ![op[o].proc] = op[o].snapshot]

ListPositions(o) ==
    /\ op[o].stage = "load"
    /\ seeded
    /\ op' = [op EXCEPT ![o] = [@ EXCEPT !.stage = "write",
                                         !.listed = cache[op[o].proc].open]]
    /\ UNCHANGED <<seeded, books, entries, holder, cache, owner, clean>>

PersistUnseeded(o) ==
    /\ op[o].stage = "load"
    /\ ~seeded
    /\ cache' = Restored(o)
    /\ Leave(o, "error")
    /\ UNCHANGED <<seeded, books, entries, clean>>

\* The unique index on client_order_id.  (FAULTY: no such index.)
NeverDuplicate(o) == FALSE
Duplicate(o) ==
    /\ op[o].call.cid # NoId
    /\ \E e \in entries : op[e].call.cid = op[o].call.cid

\* What the transaction makes of the tables: the listed positions are upserted
\* as open, the closed ones closed, and the balance is the cache's.  (FAULTY:
\* the balance of before the fill.)
WrittenStale(o) ==
    [ins |-> op[o].snapshot.ins, outs |-> op[o].snapshot.outs,
     open |-> (books.open \cup op[o].listed) \ op[o].closing,
     trades |-> books.trades \cup (op[o].closing \X {o})]
Written(o) ==
    LET now == cache[op[o].proc] IN
    [ins |-> now.ins, outs |-> now.outs,
     open |-> (books.open \cup op[o].listed) \ op[o].closing,
     trades |-> books.trades \cup (op[o].closing \X {o})]

\* The rest of the transaction and its commit.  The caller may miss the answer.
Commit(o) ==
    /\ op[o].stage = "write"
    /\ ~Duplicate(o)
    /\ books' = Written(o)
    /\ entries' = entries \cup (op[o].listed \cap {o})
    /\ \/ cache' = cache /\ Leave(o, "accepted")
       \/ cache' = Restored(o) /\ Leave(o, "error")
    /\ UNCHANGED <<seeded, clean>>

CommitConflicts(o) ==
    /\ op[o].stage = "write"
    /\ Duplicate(o)
    /\ cache' = Restored(o)
    /\ Leave(o, "conflict")
    /\ UNCHANGED <<seeded, books, entries, clean>>

\* Any query, or the commit, fails.
QueryFails(o) ==
    /\ op[o].stage \in {"locking", "portfolio", "positions", "trades", "check"}
    /\ Leave(o, "error")
    /\ UNCHANGED <<seeded, books, entries, cache, clean>>

PersistFails(o) ==
    /\ op[o].stage \in {"load", "write"}
    /\ cache' = Restored(o)
    /\ Leave(o, "error")
    /\ UNCHANGED <<seeded, books, entries, clean>>

-----------------------------------------------------------------------------
(* What goes past the locks *)

\* The call owns the cache lock and its changes of the cache are under way.
Changing(o) == op[o].stage \in {"check", "load", "write"}

PipelineFill(o) ==
    /\ Arrives(o)
    /\ \E p \in Procs, c \in Calls :
         /\ c.kind = "pipeline"
         /\ ~SameSide(cache[p], c)
         /\ cache' = [cache EXCEPT ![p] = Fill(@, o, c)]
         /\ op' = [op EXCEPT ![o] = [Idle(p, c) EXCEPT !.stage = "done",
                                                       !.result = "accepted"]]
         /\ clean' = (clean /\ ~\E w \in Ops : owner[p] = w /\ Changing(w))
    /\ UNCHANGED <<seeded, books, entries, holder, owner>>

\* The connection that holds the advisory lock breaks; the writer goes on.
LoseLock(o) ==
    /\ holder = o
    /\ holder' = NoOp
    /\ clean' = FALSE
    /\ UNCHANGED <<seeded, books, entries, cache, owner, op>>

\* The process dies, and its connections with it, and starts again.
Restart(p) ==
    /\ cache' = [cache EXCEPT ![p] = Empty]
    /\ owner' = [owner EXCEPT ![p] = NoOp]
    /\ holder' = IF \E o \in Ops : holder = o /\ op[o].proc = p THEN NoOp ELSE holder
    /\ op' = [o \in Ops |->
                IF op[o].proc = p /\ op[o].stage \notin {"new", "done"}
                THEN [Idle(p, op[o].call) EXCEPT !.stage = "done", !.result = "error"]
                ELSE op[o]]
    /\ UNCHANGED <<seeded, books, entries, clean>>

-----------------------------------------------------------------------------
CallStep(o) ==
    \/ EnterCache(o) \/ TakeWriterLock(o) \/ GiveUp(o)
    \/ LoadPortfolio(o) \/ FindUnseeded(o) \/ LoadPositions(o) \/ LoadTrades(o)
    \/ CheckOrderId(o) \/ ListPositions(o) \/ PersistUnseeded(o)
    \/ Commit(o) \/ CommitConflicts(o) \/ QueryFails(o) \/ PersistFails(o)

Next ==
    \/ \E o \in Ops : Submit(o) \/ CallStep(o) \/ PipelineFill(o) \/ LoseLock(o)
    \/ \E p \in Procs : Restart(p)

Spec == Init /\ [][Next]_vars

-----------------------------------------------------------------------------
(* Properties *)

Closed(b) == {t[1] : t \in b.trades}

\* The balance accounts for what the positions and the history show, and
\* every position was closed once and is not open as well.
Balanced(b) ==
    /\ b.ins = b.open \cup Closed(b)
    /\ b.outs = b.trades
    /\ b.open \cap Closed(b) = {}
    /\ \A t, u \in b.trades : t[1] = u[1] => t = u
    /\ \A a, c \in b.open : op[a].call.sym = op[c].call.sym => a = c

\* Two writers never overwrite each other: the balance, the open positions and
\* the trade history agree after every commit, whatever failed, was lost, was
\* tried again or died before it.  (ledger.py: hydrate, mutate and persist
\* under both locks.)
BooksBalance == clean => Balanced(books)

\* A client order id opens at most one position, also when the advisory lock
\* is lost under the first writer.  (The pre-check and the unique index.)
OneFillPerId ==
    \A a, b \in entries :
        op[a].call.cid = op[b].call.cid /\ op[a].call.cid # NoId => a = b

\* An accepted order is on record, a refused one or one that found the ledger
\* busy is not, and a conflict means that another call used the id.
AnswersAreTrue ==
    clean => \A o \in Ops : op[o].call.kind = "signal" =>
        /\ op[o].result = "accepted" => o \in entries /\ o \in books.ins
        /\ op[o].result \in {"refused", "conflict"} =>
             o \notin entries \cup books.ins
        /\ op[o].result = "conflict" => Used(op[o].call.cid)

\* Between calls the cache holds no fill that was not committed, a pipeline's
\* excepted.  (restore_snapshot on every failure.)
CacheHoldsCommitted ==
    clean => \A p \in Procs : owner[p] = NoOp =>
        \A a \in cache[p].ins : a \in entries \/ op[a].call.kind = "pipeline"

\* A lock is held only by a call that is under way: no failure, refusal or
\* restart leaves one behind, so a later call never waits for nobody.
LocksAreOwned ==
    /\ \A p \in Procs : owner[p] # NoOp =>
         op[owner[p]].proc = p /\ op[owner[p]].stage \notin {"new", "queued", "done"}
    /\ holder # NoOp => owner[op[holder].proc] = holder

\* Every commit applies one call to the books as they are at that moment: the
\* ledger behaves as if writes happened one after the other.
WritesAreAtomic ==
    [][clean /\ books' # books =>
        \E o \in Ops : \/ books' = Fill(books, o, op[o].call)
                       \/ \E gone \in SUBSET Held(books, op[o].call) :
                             books' = Exit(books, gone, o)]_vars
=============================================================================
