------------------------------ MODULE Semaphore ------------------------------
(***************************************************************************)
(* asyncio.Semaphore of Python 3.11, as the admission gate of analysis     *)
(* runs and the gate of the local model use it: a record of the free       *)
(* slots, the tasks that wait in their order, and those of them that were  *)
(* woken, each with a slot of its own, and have not gone on yet.           *)
(***************************************************************************)
EXTENDS Integers, SequencesExt

NewSemaphore(n) == [free |-> n, waiters |-> <<>>, woken |-> {}]

Locked(s) == s.free = 0 \/ s.waiters # <<>>

Taken(s) == [s EXCEPT !.free = @ - 1]

\* A task gets in line.
Queued(s, t) == [free |-> s.free, waiters |-> Append(s.waiters, t), woken |-> s.woken]

\* The first waiter that was not woken yet gets a slot.
Unwoken(s) == {k \in DOMAIN s.waiters : s.waiters[k] \notin s.woken}
FirstUnwoken(s) == CHOOSE k \in Unwoken(s) : \A n \in Unwoken(s) : k <= n
WakeNext(s) ==
    IF Unwoken(s) = {} THEN s
    ELSE [Taken(s) EXCEPT !.woken = @ \cup {s.waiters[FirstUnwoken(s)]}]

Freed(s) == WakeNext([s EXCEPT !.free = @ + 1])

\* t is in the line once, if it is in it.
Left(line, t) ==
    LET place == CHOOSE k \in DOMAIN line : line[k] = t
    IN  IF ~Contains(line, t) THEN line
        ELSE [k \in 1 .. Len(line) - 1 |-> IF k < place THEN line[k] ELSE line[k + 1]]
Without(s, t) == [free |-> s.free, waiters |-> Left(s.waiters, t), woken |-> s.woken \ {t}]

\* A woken task goes on; a free slot is passed on.
Resumed(s, t) ==
    LET left == Without(s, t)
    IN  IF left.free > 0 THEN WakeNext(left) ELSE left

\* A waiting task is cancelled: a slot it was woken with is passed on.
Abandoned(s, t) == IF t \in s.woken THEN Freed(Without(s, t)) ELSE Without(s, t)
=============================================================================
