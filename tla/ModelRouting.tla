---------------------------- MODULE ModelRouting ----------------------------
(***************************************************************************)
(* Calls of language models: agents/router.py with its request queues      *)
(* (queue.py), circuit breakers (circuit_breaker.py), retries (retry.py),  *)
(* the gate of the local model (local_gate.py) and the client with a       *)
(* breaker of its own (client.py).                                         *)
(*                                                                         *)
(* A call is one execute() of a task; tasks call again and again.  It goes *)
(* along the chain of models until one answers.  An action is what a call  *)
(* does between two awaits.  Ages replace the clock: an age grows with     *)
(* each Tick up to the value from which nothing depends on it any more.    *)
(* Waits much shorter than a tick (the stagger of a queue, the back-off of *)
(* a retry, the pause after a 429, the wait for the gate) end at any time. *)
(*                                                                         *)
(* An operator marked FAULTY is the next operator with a plausible bug,    *)
(* kept to show that a property notices it.                                *)
(***************************************************************************)
EXTENDS Semaphore

CONSTANTS
    Calls,            \* the tasks that call models
    Chain,            \* the chain of models of each call, its primary first
    LocalModels,      \* models of the local server
    Screened,         \* models whose 200 answers the client searches for an error
    Rpm,              \* rpm: requests in a window
    MaxQueued,        \* max_queued
    MaxRetries,       \* max_retries
    MaxLocal,         \* local_llm_max_concurrent
    Threshold,        \* consecutive_threshold
    ClientThreshold,  \* failures that open the client's breaker
    Window,           \* 60 seconds, in ticks
    Rest,             \* reset_seconds, in ticks
    ClientRest        \* 60 seconds, in ticks

Models == UNION {{Chain[c][i] : i \in DOMAIN Chain[c]} : c \in Calls}

ASSUME ConstantsAssumption ==
    /\ Chain \in [Calls -> Seq(Models)] /\ \A c \in Calls : IsInjective(Chain[c])
    /\ LocalModels \subseteq Models /\ Screened \subseteq Models
    /\ {Rpm, MaxLocal, Threshold, ClientThreshold, Window, Rest, ClientRest} \subseteq Nat \ {0}
    /\ {MaxQueued, MaxRetries} \subseteq Nat /\ IsFiniteSet(Calls)

VARIABLES
    call,     \* how far each call is: stage, position in the chain, attempt
    line,     \* who waits for the lock of each queue; the first one holds it
    slots,    \* _slots of each queue: the ages of what was granted
    breaker,  \* the router's breakers: state, failures in a row, age of a trip
    client,   \* the client's breakers: failures and the age of the last one
    gate,     \* the semaphore of the local gate
    inUse     \* _in_use of the local gate

vars == <<call, line, slots, breaker, client, gate, inUse>>

Capped(n, cap) == IF n > cap THEN cap ELSE n

\* Stages of a call: in line for a slot or asleep until one expires, in line
\* for the gate, waiting for the model, pausing after a refusal, backing off;
\* the "re-" stages are those of the one corrective request.
InLine    == {"line", "asleep", "reline", "reasleep"}
Holding   == {"sent", "pausing", "backoff", "resent", "repausing"} \cup {"reline", "reasleep"}
Stages    == {"idle", "gate"} \cup InLine \cup Holding

Idle      == [stage |-> "idle", at |-> 0, try |-> 0]
Model(c)  == Chain[c][call[c].at]
IsLocal(m) == m \in LocalModels

TypeOK ==
    /\ call \in [Calls -> [stage : Stages, at : Nat, try : 0 .. MaxRetries + 1]]
    /\ \A c \in Calls : call[c].stage # "idle" => call[c].at \in DOMAIN Chain[c] /\ call[c].try # 0
    /\ line \in [Models -> Seq(Calls)]
    /\ slots \in [Models -> Seq(0 .. Window)]
    /\ breaker \in [Models -> [st : {"closed", "open", "half"}, fails : 0 .. Threshold,
                               age : 0 .. Rest]]
    /\ client \in [Models -> [fails : 0 .. ClientThreshold, age : 0 .. ClientRest]]
    /\ gate \in [free : 0 .. MaxLocal, waiters : Seq(Calls), woken : SUBSET Calls]
    /\ inUse \in 0 .. MaxLocal

Init ==
    /\ call = [c \in Calls |-> Idle]
    /\ line = [m \in Models |-> <<>>]
    /\ slots = [m \in Models |-> <<>>]
    /\ breaker = [m \in Models |-> [st |-> "closed", fails |-> 0, age |-> 0]]
    /\ client = [m \in Models |-> [fails |-> 0, age |-> 0]]
    /\ gate = NewSemaphore(MaxLocal)
    /\ inUse = 0

-----------------------------------------------------------------------------
(* Circuit breakers *)

\* check: a trip that is old enough lets calls through again.
Checked(b) == IF b.st = "open" /\ b.age >= Rest THEN [b EXCEPT !.st = "half", !.age = 0] ELSE b

\* record_failure
Failed(b) ==
    LET fails == Capped(b.fails + 1, Threshold)
    IN  [st |-> IF b.st = "half" \/ fails = Threshold THEN "open" ELSE b.st,
         fails |-> fails, age |-> 0]

\* record_success, which leaves an open breaker open.  (FAULTY: it closes it.)
SucceededCloses(b) == [b EXCEPT !.fails = 0, !.st = "closed", !.age = 0]
Succeeded(b) == [b EXCEPT !.fails = 0, !.st = IF @ = "half" THEN "closed" ELSE @]

\* _check_circuit_breaker of the client, which keeps its count.
ClientOpen(k) == k.fails = ClientThreshold /\ k.age < ClientRest

ClientFailed(k, n) == [fails |-> Capped(k.fails + n, ClientThreshold), age |-> 0]

\* What chat_completion records: an error in a 200 answer of a provider that is
\* searched for one counts twice, one of another provider is a success.
Heard(k, m, answer) ==
    CASE answer \in {"valid", "invalid"} -> [fails |-> 0, age |-> 0]
      [] answer = "envelope" -> IF m \in Screened THEN ClientFailed(k, 2)
                                ELSE [fails |-> 0, age |-> 0]
      [] OTHER -> ClientFailed(k, 1)

-----------------------------------------------------------------------------
(* The steps that a call strings together *)

\* The number that pending calls must exceed for a queue to be full.
Full(q) == Len(q) > MaxQueued

\* The loop of execute from position i on, with breakers b and lines q: the
\* first model whose breaker and queue let the call in, or the end of it.
GoOn(c, i, b, q) ==
    LET able == {j \in i .. Len(Chain[c]) : Checked(b[Chain[c][j]]).st # "open" /\ ~Full(q[Chain[c][j]])}
        last == IF able = {} THEN Len(Chain[c]) ELSE Min(able)
        seen == {Chain[c][j] : j \in i .. last}
    IN  /\ breaker' = [m \in Models |-> IF m \in seen THEN Checked(b[m]) ELSE b[m]]
        /\ IF able = {}
           THEN call' = [call EXCEPT ![c] = Idle] /\ line' = q
           ELSE /\ call' = [call EXCEPT ![c] = [stage |-> "line", at |-> last, try |-> 1]]
                /\ line' = [q EXCEPT ![Chain[c][last]] = Append(@, c)]

\* release of the gate, at the end of the try block.  (FAULTY: only the count.)
ReleaseLost(m, s, n) ==
    /\ gate' = s
    /\ inUse' = IF IsLocal(m) THEN n - 1 ELSE n
Release(m, s, n) ==
    /\ gate' = IF IsLocal(m) THEN Freed(s) ELSE s
    /\ inUse' = IF IsLocal(m) THEN n - 1 ELSE n

KeepGate(s, n) == gate' = s /\ inUse' = n

\* Attempt n at the model at position i, with lines q, gate s and count u: the
\* breaker is asked, the client's too, and the request goes out.  A refusal by
\* the client is a failure that is not tried again.
Attempt(c, i, n, q, s, u) ==
    LET m == Chain[c][i]
        b == Checked(breaker[m])
    IN  IF b.st = "open"
        THEN GoOn(c, i + 1, [breaker EXCEPT ![m] = b], q) /\ Release(m, s, u)
        ELSE IF ClientOpen(client[m])
        THEN GoOn(c, i + 1, [breaker EXCEPT ![m] = Failed(b)], q) /\ Release(m, s, u)
        ELSE /\ call' = [call EXCEPT ![c] = [stage |-> "sent", at |-> i, try |-> n]]
             /\ breaker' = [breaker EXCEPT ![m] = b]
             /\ line' = q
             /\ KeepGate(s, u)

\* Attempt number call[c].try has failed and its failure is b: a retry if one is
\* left and the failure allows it, the next model otherwise.
AttemptFails(c, retryable) ==
    LET m == Model(c)
        b == [breaker EXCEPT ![m] = Failed(@)]
    IN  IF retryable /\ call[c].try <= MaxRetries
        THEN /\ call' = [call EXCEPT ![c].stage = "backoff"]
             /\ breaker' = b
             /\ UNCHANGED <<line, gate, inUse>>
        ELSE GoOn(c, call[c].at + 1, b, line) /\ Release(m, gate, inUse)

\* The corrective request goes out; the router's breaker is not asked, and a
\* failure is not recorded with it.
Correct(c, q) ==
    IF ClientOpen(client[Model(c)])
    THEN GoOn(c, call[c].at + 1, breaker, q) /\ Release(Model(c), gate, inUse)
    ELSE /\ call' = [call EXCEPT ![c].stage = "resent"]
         /\ line' = q
         /\ UNCHANGED <<breaker, gate, inUse>>

\* The corrective request has failed, or was never made: the next model.
CorrectionFails(c) ==
    GoOn(c, call[c].at + 1, breaker, line) /\ Release(Model(c), gate, inUse)

-----------------------------------------------------------------------------
(* The queue of a model *)

\* execute
Execute(c) ==
    /\ call[c].stage = "idle"
    /\ GoOn(c, 1, breaker, line)
    /\ UNCHANGED <<slots, client, gate, inUse>>

\* The slots of the window.  They are in the order they were granted, so these
\* are the end of the list.
Fits(ages) ==
    LET live == {k \in DOMAIN ages : ages[k] < Window}
    IN  IF live = {} THEN <<>> ELSE SubSeq(ages, Min(live), Len(ages))

\* A slot is granted to the first in line, and its call goes on: to the local
\* gate, to the attempt, or to the correction.
Granted(c, ages) ==
    LET m == Model(c)
        q == [line EXCEPT ![m] = Tail(@)]
    IN  /\ slots' = [slots EXCEPT ![m] = Append(ages, 0)]
        /\ UNCHANGED client
        /\ IF call[c].stage \in {"reline", "reasleep"}
           THEN Correct(c, q)
           ELSE IF ~IsLocal(m)
           THEN Attempt(c, call[c].at, 1, q, gate, inUse)
           ELSE IF ~Locked(gate)
           THEN Attempt(c, call[c].at, 1, q, Taken(gate), inUse + 1)
           ELSE /\ gate' = Queued(gate, c)
                /\ call' = [call EXCEPT ![c].stage = "gate"]
                /\ line' = q
                /\ UNCHANGED <<breaker, inUse>>

First(c) == line[Model(c)] # <<>> /\ Head(line[Model(c)]) = c

\* _wait_for_slot with room in the window.
Grant(c) ==
    /\ call[c].stage \in {"line", "reline"}
    /\ First(c)
    /\ LET ages == Fits(slots[Model(c)])
       IN  Len(ages) < Rpm /\ Granted(c, ages)

\* ... and without: it sleeps, and keeps the lock.
FallAsleep(c) ==
    /\ call[c].stage \in {"line", "reline"}
    /\ First(c)
    /\ LET ages == Fits(slots[Model(c)])
       IN  /\ Len(ages) >= Rpm
           /\ slots' = [slots EXCEPT ![Model(c)] = ages]
    /\ call' = [call EXCEPT ![c].stage = IF @ = "line" THEN "asleep" ELSE "reasleep"]
    /\ UNCHANGED <<line, breaker, client, gate, inUse>>

\* The oldest slot has expired: the new one is added without another look.
\* (FAULTY: the sleeper is woken at any time.)
RestedAnyhow(ages) == TRUE
Rested(ages) == \E k \in DOMAIN ages : ages[k] >= Window

WakeUp(c) ==
    /\ call[c].stage \in {"asleep", "reasleep"}
    /\ Rested(slots[Model(c)])
    /\ Granted(c, slots[Model(c)])

-----------------------------------------------------------------------------
(* The local gate *)

\* A woken call takes its slot and makes its attempt.
TakeGate(c) ==
    /\ call[c].stage = "gate"
    /\ c \in gate.woken
    /\ Attempt(c, call[c].at, 1, line, Resumed(gate, c), inUse + 1)
    /\ UNCHANGED <<slots, client>>

\* The wait times out: the model is busy, which no breaker counts.
GateBusy(c) ==
    /\ call[c].stage = "gate"
    /\ gate' = Abandoned(gate, c)
    /\ GoOn(c, call[c].at + 1, breaker, line)
    /\ UNCHANGED <<slots, client, inUse>>

-----------------------------------------------------------------------------
(* Answers *)

Answers == {"valid", "invalid", "envelope", "refused", "transient", "fatal"}

Hears(c, answer) == client' = [client EXCEPT ![Model(c)] = Heard(@, Model(c), answer)]

Done(c) == call' = [call EXCEPT ![c] = Idle]

\* An answer in the form that was asked for ends the call.
Succeed(c) ==
    /\ call[c].stage = "sent"
    /\ Hears(c, "valid")
    /\ breaker' = [breaker EXCEPT ![Model(c)] = Succeeded(@)]
    /\ Done(c)
    /\ Release(Model(c), gate, inUse)
    /\ UNCHANGED <<line, slots>>

\* An answer in another form is a success to both breakers; a corrective request
\* needs a slot of its own.
Malformed(c) ==
    LET m == Model(c)
        b == [breaker EXCEPT ![m] = Succeeded(@)]
    IN  /\ call[c].stage = "sent"
        /\ Hears(c, "invalid")
        /\ IF Full(line[m])
           THEN GoOn(c, call[c].at + 1, b, line) /\ Release(m, gate, inUse)
           ELSE /\ call' = [call EXCEPT ![c].stage = "reline"]
                /\ line' = [line EXCEPT ![m] = Append(@, c)]
                /\ breaker' = b
                /\ UNCHANGED <<gate, inUse>>
        /\ UNCHANGED slots

\* 429, 503 or 529: the client counts a failure and pauses.
Refused(c) ==
    /\ call[c].stage \in {"sent", "resent"}
    /\ Hears(c, "refused")
    /\ call' = [call EXCEPT ![c].stage = IF @ = "sent" THEN "pausing" ELSE "repausing"]
    /\ UNCHANGED <<line, slots, breaker, gate, inUse>>

\* The pause ends and the error is raised; 529 is not tried again.
PauseEnds(c) ==
    /\ \/ /\ call[c].stage = "pausing"
          /\ \E retryable \in BOOLEAN : AttemptFails(c, retryable)
       \/ call[c].stage = "repausing" /\ CorrectionFails(c)
    /\ UNCHANGED <<slots, client>>

\* Another error status, a broken connection, a timeout, an error envelope.
Fail(c) ==
    /\ call[c].stage = "sent"
    /\ \E answer \in {"transient", "fatal", "envelope"} :
         Hears(c, answer) /\ AttemptFails(c, answer = "transient")
    /\ UNCHANGED slots

BackoffEnds(c) ==
    /\ call[c].stage = "backoff"
    /\ Attempt(c, call[c].at, call[c].try + 1, line, gate, inUse)
    /\ UNCHANGED <<slots, client>>

\* The corrective request is answered: as asked, or once more not.
CorrectionAnswered(c) ==
    /\ call[c].stage = "resent"
    /\ \E answer \in Answers \ {"refused"} :
         /\ Hears(c, answer)
         /\ IF answer = "valid"
            THEN Done(c) /\ Release(Model(c), gate, inUse) /\ UNCHANGED <<line, breaker>>
            ELSE CorrectionFails(c)
    /\ UNCHANGED slots

-----------------------------------------------------------------------------
(* Cancellation and time *)

\* The task is cancelled where it waits (the deadline of the run, a client that
\* left): it leaves the line and the gate, and nothing is recorded.  (FAULTY: a
\* woken waiter keeps its slot; a sleeper keeps the lock.)
GateLeftWoken(c) == gate' = Without(gate, c) /\ UNCHANGED inUse
GateLeft(c) == gate' = Abandoned(gate, c) /\ UNCHANGED inUse

LineLeftLocked(c) ==
    line' = IF call[c].stage \in {"asleep", "reasleep"} THEN line
            ELSE [line EXCEPT ![Model(c)] = Left(@, c)]
LineLeft(c) == line' = [line EXCEPT ![Model(c)] = Left(@, c)]

Cancel(c) ==
    /\ call[c].stage # "idle"
    /\ Done(c)
    /\ LineLeft(c)
    /\ IF call[c].stage = "gate" THEN GateLeft(c)
       ELSE IF call[c].stage \in Holding THEN Release(Model(c), gate, inUse)
       ELSE UNCHANGED <<gate, inUse>>
    /\ UNCHANGED <<slots, breaker, client>>

\* Ages that nothing depends on stay.
Tick ==
    /\ slots' = [m \in Models |-> [k \in DOMAIN slots[m] |-> Capped(slots[m][k] + 1, Window)]]
    /\ breaker' = [m \in Models |-> IF breaker[m].st = "open"
                                    THEN [breaker[m] EXCEPT !.age = Capped(@ + 1, Rest)]
                                    ELSE breaker[m]]
    /\ client' = [m \in Models |-> IF client[m].fails = ClientThreshold
                                   THEN [client[m] EXCEPT !.age = Capped(@ + 1, ClientRest)]
                                   ELSE client[m]]
    /\ UNCHANGED <<call, line, gate, inUse>>

\* What a call does once it is under way.
Proceed(c) ==
    \/ Grant(c) \/ FallAsleep(c) \/ WakeUp(c) \/ TakeGate(c) \/ GateBusy(c)
    \/ Succeed(c) \/ Malformed(c) \/ Refused(c) \/ PauseEnds(c) \/ Fail(c)
    \/ BackoffEnds(c) \/ CorrectionAnswered(c)

Next == Tick \/ \E c \in Calls : Execute(c) \/ Proceed(c) \/ Cancel(c)

Spec == Init /\ [][Next]_vars

\* Time passes, the event loop runs what can run, and a request is answered or
\* times out in the HTTP client.  Tasks may stop calling, and need not be cancelled.
Fairness == WF_vars(Tick) /\ \A c \in Calls : WF_vars(Proceed(c))

FairSpec == Spec /\ Fairness

-----------------------------------------------------------------------------
(* Properties *)

\* A queue keeps its rate: no window of time holds more than rpm grants, although
\* the grant after a sleep does not look at the window again.
RateKept ==
    \A m \in Models : Cardinality({k \in DOMAIN slots[m] : slots[m][k] < Window}) <= Rpm

\* A model whose breaker tripped is left alone for reset_seconds: whatever calls
\* that were under way bring home, also a late success, and however many probes
\* were let through, it stays open until then, and no attempt is sent to it.
TrippedModelRests ==
    [][\A m \in Models : breaker[m].st = "open" /\ breaker[m].age < Rest =>
         /\ breaker'[m].st = "open"
         /\ \A c \in Calls : call'[c].stage = "sent" /\ call'[c] # call[c] =>
                Chain[c][call'[c].at] # m]_vars

\* The gate of the local model neither loses nor multiplies slots, whether its
\* holders succeed, fall back, correct themselves or are cancelled, so that no
\* more than max_concurrent calls are at the local models.
GateHolders == {c \in Calls : call[c].stage \in Holding /\ IsLocal(Model(c))}
GateConserved ==
    /\ gate.free + Cardinality(gate.woken) + inUse = MaxLocal
    /\ inUse = Cardinality(GateHolders)

\* Every call ends with an answer or without one, however many others share its
\* queues and its gate.
CallEnds(c) == call[c].stage # "idle" ~> call[c].stage = "idle"
EveryCallEnds == \A c \in Calls : CallEnds(c)
=============================================================================
