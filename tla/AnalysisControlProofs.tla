----------------------- MODULE AnalysisControlProofs -----------------------
(* The gate and the store of analysis runs, for any number of requests, of  *)
(* slots and of retained states.  The slots are counted with the semaphore: *)
(* each of its operations keeps the sum of the slots that are free, that    *)
(* are on their way to a woken waiter and that are held.                    *)
EXTENDS AnalysisControl, FoldLemmas, TLAPS

-----------------------------------------------------------------------------
(* The semaphore *)

InLine(s) == {s.waiters[k] : k \in 1 .. Len(s.waiters)}
SemaphoreOK(s) ==
    /\ s \in [free : Nat, waiters : Seq(Requests), woken : SUBSET Requests]
    /\ \A k, n \in 1 .. Len(s.waiters) : s.waiters[k] = s.waiters[n] => k = n
    /\ s.woken \subseteq InLine(s)

\* The slots that s accounts for, when those of the set held have one.
Slots(s, held) == s.free + Cardinality(s.woken \cup held)

\* A free slot goes to a waiter that was not woken, or stays free.
LEMMA WakeNextFacts ==
    ASSUME NEW s, SemaphoreOK(s), s.free > 0
    PROVE  /\ SemaphoreOK(WakeNext(s))
           /\ WakeNext(s).waiters = s.waiters
           /\ \/ WakeNext(s).free = s.free /\ WakeNext(s).woken = s.woken
              \/ \E w \in InLine(s) \ s.woken :
                    /\ WakeNext(s).free = s.free - 1
                    /\ WakeNext(s).woken = s.woken \cup {w}
<1>1. CASE Unwoken(s) = {}
  BY <1>1 DEF WakeNext
<1>2. CASE Unwoken(s) # {}
  <2>1. Unwoken(s) \in SUBSET Nat /\ Unwoken(s) \subseteq 1 .. Len(s.waiters)
    BY DEF Unwoken, SemaphoreOK
  <2>2. FirstUnwoken(s) \in Unwoken(s)
    BY <1>2, <2>1, LeastExists DEF FirstUnwoken
  <2> DEFINE w == s.waiters[FirstUnwoken(s)]
  <2>3. w \in InLine(s) \ s.woken /\ w \in Requests
    BY <2>1, <2>2 DEF Unwoken, InLine, SemaphoreOK
  <2> HIDE DEF w
  <2>4. WakeNext(s) = [Taken(s) EXCEPT !.woken = @ \cup {w}]
    BY <1>2 DEF WakeNext, w
  <2>5. WakeNext(s) = [free |-> s.free - 1, waiters |-> s.waiters, woken |-> s.woken \cup {w}]
    BY <2>4 DEF SemaphoreOK, Taken
  <2>6. SemaphoreOK(WakeNext(s))
    BY <2>3, <2>5 DEF SemaphoreOK, InLine
  <2> QED
    BY <2>3, <2>5, <2>6
<1> QED
  BY <1>1, <1>2

LEMMA FreedFacts ==
    ASSUME NEW s, SemaphoreOK(s)
    PROVE  /\ SemaphoreOK(Freed(s))
           /\ Freed(s).waiters = s.waiters
           /\ \/ Freed(s).free = s.free + 1 /\ Freed(s).woken = s.woken
              \/ \E w \in InLine(s) \ s.woken :
                    Freed(s).free = s.free /\ Freed(s).woken = s.woken \cup {w}
<1> DEFINE more == [s EXCEPT !.free = @ + 1]
<1>1. more = [free |-> s.free + 1, waiters |-> s.waiters, woken |-> s.woken]
  BY DEF SemaphoreOK
<1>2. SemaphoreOK(more) /\ more.free > 0 /\ InLine(more) = InLine(s)
  BY <1>1 DEF SemaphoreOK, InLine
<1>3. more.free - 1 = s.free
  BY <1>1 DEF SemaphoreOK
<1> HIDE DEF more
<1>4. Freed(s) = WakeNext(more)
  BY DEF Freed, more
<1> QED
  BY <1>1, <1>2, <1>3, <1>4, WakeNextFacts

\* Who leaves the line was in it once.
LEMMA WithoutFacts ==
    ASSUME NEW s, SemaphoreOK(s), NEW t \in Requests
    PROVE  /\ SemaphoreOK(Without(s, t))
           /\ Without(s, t).free = s.free
           /\ Without(s, t).woken = s.woken \ {t}
           /\ InLine(Without(s, t)) = InLine(s) \ {t}
<1> DEFINE line == s.waiters
           place == CHOOSE k \in DOMAIN line : line[k] = t
           rest == [k \in 1 .. Len(line) - 1 |-> IF k < place THEN line[k] ELSE line[k + 1]]
<1>1. /\ line \in Seq(Requests) /\ Len(line) \in Nat /\ DOMAIN line = 1 .. Len(line)
      /\ \A k, n \in 1 .. Len(line) : line[k] = line[n] => k = n
      /\ s.woken \subseteq InLine(s) /\ s.free \in Nat /\ s.woken \subseteq Requests
  BY DEF SemaphoreOK
<1>2. Without(s, t) = [free |-> s.free, waiters |-> Left(line, t), woken |-> s.woken \ {t}]
  BY DEF Without
<1>3. CASE ~Contains(line, t)
  <2>1. Left(line, t) = line
    BY <1>3 DEF Left
  <2>2. t \notin InLine(s)
    BY <1>3 DEF Contains, InLine
  <2>3. InLine(Without(s, t)) = InLine(s)
    BY <1>2, <2>1 DEF InLine
  <2> QED
    BY <1>1, <1>2, <2>1, <2>2, <2>3 DEF SemaphoreOK
<1>4. CASE Contains(line, t)
  <2>1. PICK p \in 1 .. Len(line) : line[p] = t
    BY <1>4 DEF Contains
  <2>2. place \in 1 .. Len(line) /\ line[place] = t
    BY <1>1, <2>1
  <2>3. Left(line, t) = rest
    BY <1>4 DEF Left
  <2> HIDE DEF place
  <2>4. /\ rest \in Seq(Requests) /\ Len(rest) = Len(line) - 1
        /\ \A k \in 1 .. Len(line) - 1 : rest[k] = IF k < place THEN line[k] ELSE line[k + 1]
    BY <1>1, <2>1
  <2> HIDE DEF rest
  <2> DEFINE from(k) == IF k < place THEN k ELSE k + 1
  <2>f. ASSUME NEW k \in 1 .. Len(rest)
        PROVE  from(k) \in 1 .. Len(line) /\ from(k) # place /\ rest[k] = line[from(k)]
    BY <1>1, <2>2, <2>4
  <2>i. \A k, n \in 1 .. Len(rest) : from(k) = from(n) => k = n
    BY <1>1, <2>2, <2>4
  <2> HIDE DEF from
  <2>5. \A k, n \in 1 .. Len(rest) : rest[k] = rest[n] => k = n
    <3>1. ASSUME NEW k \in 1 .. Len(rest), NEW n \in 1 .. Len(rest), rest[k] = rest[n]
          PROVE  k = n
      <4>1. line[from(k)] = line[from(n)]
        BY <2>f, <3>1
      <4>2. from(k) = from(n)
        BY <1>1, <2>f, <4>1
      <4> QED
        BY <2>i, <4>2
    <3> QED
      BY <3>1
  <2>6. ASSUME NEW k \in 1 .. Len(rest)
        PROVE  rest[k] \in InLine(s) /\ rest[k] # t
    <3>1. from(k) \in 1 .. Len(line) /\ from(k) # place /\ rest[k] = line[from(k)]
      BY <2>f
    <3>2. rest[k] # line[place]
      BY <1>1, <2>2, <3>1
    <3>3. line[from(k)] \in InLine(s)
      BY <3>1 DEF InLine
    <3> QED
      BY <2>2, <3>1, <3>2, <3>3
  <2>7. \A x \in InLine(s) \ {t} : \E k \in 1 .. Len(rest) : rest[k] = x
    <3> SUFFICES ASSUME NEW k \in 1 .. Len(line), line[k] # t
                 PROVE  \E n \in 1 .. Len(rest) : rest[n] = line[k]
      BY DEF InLine
    <3>1. k # place
      BY <2>2
    <3>2. CASE k < place
      BY <1>1, <2>2, <2>4, <3>2
    <3>3. CASE k > place
      <4>1. k - 1 \in 1 .. Len(rest) /\ ~(k - 1 < place) /\ (k - 1) + 1 = k
        BY <1>1, <2>2, <2>4, <3>3
      <4> QED
        BY <2>4, <4>1
    <3> QED
      BY <1>1, <2>2, <3>1, <3>2, <3>3
  <2>8. InLine(Without(s, t)) = {rest[k] : k \in 1 .. Len(rest)}
    BY <1>2, <2>3 DEF InLine
  <2>9. InLine(Without(s, t)) = InLine(s) \ {t}
    BY <2>6, <2>7, <2>8
  <2> DEFINE n == [free |-> s.free, waiters |-> rest, woken |-> s.woken \ {t}]
  <2>10. n = Without(s, t)
    BY <1>2, <2>3
  <2>11. n \in [free : Nat, waiters : Seq(Requests), woken : SUBSET Requests]
    BY <1>1, <2>4
  <2>12. n.woken \subseteq InLine(Without(s, t))
    BY <1>1, <2>9
  <2>13. SemaphoreOK(n)
    BY <2>5, <2>10, <2>11, <2>12 DEF SemaphoreOK
  <2>14. n.free = s.free /\ n.woken = s.woken \ {t}
    OBVIOUS
  <2> HIDE DEF n
  <2> QED
    BY <2>9, <2>10, <2>13, <2>14
<1> QED
  BY <1>3, <1>4

LEMMA RequestsAreFinite == IsFiniteSet(Requests)
  BY FS_Interval, ConstantsAssumption DEF Requests

LEMMA Counting ==
    ASSUME NEW S \in SUBSET Requests, NEW x \in Requests, NEW y \in Requests
    PROVE  /\ IsFiniteSet(S) /\ Cardinality(S) \in Nat
           /\ x \notin S => Cardinality(S \cup {x}) = Cardinality(S) + 1
           /\ x \in S => Cardinality(S \ {x}) = Cardinality(S) - 1
           /\ x \in S /\ y \notin S => Cardinality((S \ {x}) \cup {y}) = Cardinality(S)
<1>1. IsFiniteSet(Requests)
  BY RequestsAreFinite
<1>2. IsFiniteSet(S) /\ Cardinality(S) \in Nat
  BY <1>1, FS_Subset, FS_CardinalityType
<1>3. x \notin S => Cardinality(S \cup {x}) = Cardinality(S) + 1
  BY <1>2, FS_AddElement
<1>4. /\ IsFiniteSet(S \ {x})
      /\ x \in S => Cardinality(S \ {x}) = Cardinality(S) - 1
  BY <1>2, FS_RemoveElement
<1>5. x \in S /\ y \notin S => Cardinality((S \ {x}) \cup {y}) = Cardinality(S)
  <2> SUFFICES ASSUME x \in S, y \notin S
               PROVE  Cardinality((S \ {x}) \cup {y}) = Cardinality(S)
    OBVIOUS
  <2>1. Cardinality((S \ {x}) \cup {y}) = Cardinality(S \ {x}) + 1
    BY <1>4, FS_AddElement
  <2> QED
    BY <1>2, <1>4, <2>1
<1> QED
  BY <1>2, <1>3, <1>4, <1>5

LEMMA LinesAreRequests ==
    ASSUME NEW s, SemaphoreOK(s)
    PROVE  /\ InLine(s) \in SUBSET Requests /\ s.woken \in SUBSET Requests
           /\ s.woken \subseteq InLine(s) /\ s.free \in Nat
  BY DEF SemaphoreOK, InLine

\* A free slot is taken by one who had none.
LEMMA TakenKeeps ==
    ASSUME NEW s, SemaphoreOK(s), ~Locked(s),
           NEW held \in SUBSET Requests, NEW r \in Requests, r \notin held
    PROVE  /\ SemaphoreOK(Taken(s)) /\ Taken(s).waiters = s.waiters
           /\ Slots(Taken(s), held \cup {r}) = Slots(s, held)
<1>1. s.free > 0 /\ s.waiters = <<>> /\ s.free \in Nat
  BY DEF Locked, SemaphoreOK
<1>2. Taken(s) = [free |-> s.free - 1, waiters |-> s.waiters, woken |-> s.woken]
  BY DEF Taken, SemaphoreOK
<1>3. SemaphoreOK(Taken(s))
  BY <1>1, <1>2 DEF SemaphoreOK, InLine
<1>4. s.woken = {}
  BY <1>1 DEF SemaphoreOK, InLine
<1>5. /\ Cardinality(held \cup {r}) = Cardinality(held) + 1
      /\ Cardinality(held) \in Nat
  BY Counting
<1>6. s.woken \cup held = held /\ Taken(s).woken \cup (held \cup {r}) = held \cup {r}
  BY <1>2, <1>4
<1>7. Slots(Taken(s), held \cup {r}) = (s.free - 1) + Cardinality(held \cup {r})
  BY <1>2, <1>6 DEF Slots
<1>8. Slots(s, held) = s.free + Cardinality(held)
  BY <1>6 DEF Slots
<1>9. Slots(Taken(s), held \cup {r}) = Slots(s, held)
  BY <1>1, <1>5, <1>7, <1>8
<1> QED
  BY <1>2, <1>3, <1>9

\* A slot that is given up is free again, or a waiter's.
LEMMA FreedKeeps ==
    ASSUME NEW s, SemaphoreOK(s), NEW held \in SUBSET Requests,
           held \cap InLine(s) = {}, NEW r \in held
    PROVE  /\ SemaphoreOK(Freed(s)) /\ Freed(s).waiters = s.waiters
           /\ Slots(Freed(s), held \ {r}) = Slots(s, held)
<1> DEFINE all == s.woken \cup held
<1>1. /\ s.woken \subseteq InLine(s) /\ s.free \in Nat /\ InLine(s) \in SUBSET Requests
      /\ all \in SUBSET Requests /\ r \in Requests /\ r \in all /\ r \notin s.woken
  BY LinesAreRequests
<1>2. CASE Freed(s).free = s.free + 1 /\ Freed(s).woken = s.woken
  <2>1. Freed(s).woken \cup (held \ {r}) = all \ {r}
    BY <1>1, <1>2
  <2>2. Cardinality(all \ {r}) = Cardinality(all) - 1 /\ Cardinality(all) \in Nat
    BY <1>1, Counting
  <2> HIDE DEF all
  <2>3. s.free + 1 + (Cardinality(all) - 1) = s.free + Cardinality(all)
    BY <1>1, <2>2
  <2> QED
    BY <1>2, <2>1, <2>2, <2>3, FreedFacts DEF Slots, all
<1>3. ASSUME NEW w \in InLine(s) \ s.woken,
             Freed(s).free = s.free /\ Freed(s).woken = s.woken \cup {w}
      PROVE  Slots(Freed(s), held \ {r}) = Slots(s, held)
  <2>1. w \notin held /\ w \in Requests /\ w \notin all
    BY <1>1
  <2>2. Freed(s).woken \cup (held \ {r}) = (all \ {r}) \cup {w}
    BY <1>1, <1>3, <2>1
  <2>3. Cardinality((all \ {r}) \cup {w}) = Cardinality(all)
    BY <1>1, <2>1, Counting
  <2> QED
    BY <1>3, <2>2, <2>3 DEF Slots
<1> QED
  BY <1>2, <1>3, FreedFacts

\* A waiter leaves the line, and passes on a slot that it was woken with.
LEMMA AbandonedKeeps ==
    ASSUME NEW s, SemaphoreOK(s), NEW held \in SUBSET Requests,
           held \cap InLine(s) = {}, NEW r \in Requests, r \notin held
    PROVE  /\ SemaphoreOK(Abandoned(s, r)) /\ InLine(Abandoned(s, r)) = InLine(s) \ {r}
           /\ Slots(Abandoned(s, r), held) = Slots(s, held)
<1> DEFINE left == Without(s, r)
<1>1. /\ SemaphoreOK(left) /\ left.free = s.free /\ left.woken = s.woken \ {r}
      /\ InLine(left) = InLine(s) \ {r}
  BY WithoutFacts
<1> HIDE DEF left
<1>2. CASE r \notin s.woken
  <2>1. Abandoned(s, r) = left /\ s.woken \ {r} = s.woken
    BY <1>2 DEF Abandoned, left
  <2> QED
    BY <1>1, <2>1 DEF Slots
<1>3. CASE r \in s.woken
  <2>1. Abandoned(s, r) = Freed(left)
    BY <1>3 DEF Abandoned, left
  <2> DEFINE with == held \cup {r}
  <2>2. with \in SUBSET Requests /\ with \cap InLine(left) = {} /\ r \in with /\ with \ {r} = held
    BY <1>1
  <2> HIDE DEF with
  <2>3. /\ SemaphoreOK(Freed(left)) /\ Freed(left).waiters = left.waiters
        /\ Slots(Freed(left), with \ {r}) = Slots(left, with)
    BY <1>1, <2>2, FreedKeeps
  <2>4. left.woken \cup with = s.woken \cup held
    BY <1>1, <1>3 DEF with
  <2>5. Slots(left, with) = Slots(s, held)
    BY <1>1, <2>4 DEF Slots
  <2>6. InLine(Freed(left)) = InLine(left)
    BY <2>3 DEF InLine
  <2> QED
    BY <1>1, <2>1, <2>2, <2>3, <2>5, <2>6
<1> QED
  BY <1>2, <1>3

\* A woken waiter takes up its slot; a free one wakes the next.
LEMMA ResumedKeeps ==
    ASSUME NEW s, SemaphoreOK(s), NEW held \in SUBSET Requests,
           held \cap InLine(s) = {}, NEW r \in s.woken
    PROVE  /\ SemaphoreOK(Resumed(s, r)) /\ InLine(Resumed(s, r)) = InLine(s) \ {r}
           /\ Slots(Resumed(s, r), held \cup {r}) = Slots(s, held)
<1> DEFINE left == Without(s, r)
           with == held \cup {r}
<1>1. r \in Requests /\ r \in InLine(s)
  BY LinesAreRequests
<1>2. /\ SemaphoreOK(left) /\ left.free = s.free /\ left.woken = s.woken \ {r}
      /\ InLine(left) = InLine(s) \ {r}
  BY <1>1, WithoutFacts
<1> HIDE DEF left
<1>3. left.woken \cup with = s.woken \cup held
  BY <1>2
<1>4. Slots(left, with) = Slots(s, held)
  BY <1>2, <1>3 DEF Slots
<1>5. with \in SUBSET Requests /\ with \cap InLine(left) = {}
  BY <1>1, <1>2
<1> HIDE DEF with
<1>6. CASE ~(left.free > 0)
  <2>1. Resumed(s, r) = left
    BY <1>6 DEF Resumed, left
  <2> QED
    BY <1>2, <1>4, <2>1 DEF with
<1>7. CASE left.free > 0
  <2> DEFINE next == WakeNext(left)
             all == left.woken \cup with
  <2>1. Resumed(s, r) = next
    BY <1>7 DEF Resumed, left
  <2>2. /\ SemaphoreOK(next) /\ next.waiters = left.waiters
        /\ \/ next.free = left.free /\ next.woken = left.woken
           \/ \E w \in InLine(left) \ left.woken :
                 next.free = left.free - 1 /\ next.woken = left.woken \cup {w}
    BY <1>2, <1>7, WakeNextFacts
  <2> HIDE DEF next
  <2>3. ASSUME next.free = left.free /\ next.woken = left.woken
        PROVE  Slots(next, with) = Slots(left, with)
    BY <2>3 DEF Slots
  <2>4. ASSUME NEW w \in InLine(left) \ left.woken,
               next.free = left.free - 1 /\ next.woken = left.woken \cup {w}
        PROVE  Slots(next, with) = Slots(left, with)
    <3>1. /\ all \in SUBSET Requests /\ w \in Requests /\ w \notin all /\ left.free \in Nat
      BY <1>2, <1>5, LinesAreRequests
    <3>2. next.woken \cup with = all \cup {w}
      BY <2>4
    <3>3. Cardinality(all \cup {w}) = Cardinality(all) + 1 /\ Cardinality(all) \in Nat
      BY <3>1, Counting
    <3> HIDE DEF all
    <3>4. left.free - 1 + (Cardinality(all) + 1) = left.free + Cardinality(all)
      BY <3>1, <3>3
    <3> QED
      BY <2>4, <3>2, <3>3, <3>4 DEF Slots, all
  <2>5. InLine(next) = InLine(left)
    BY <2>2 DEF InLine
  <2>6. Slots(next, with) = Slots(left, with)
    BY <2>2, <2>3, <2>4
  <2> QED
    BY <1>2, <1>4, <2>1, <2>2, <2>5, <2>6 DEF with
<1> QED
  BY <1>6, <1>7

-----------------------------------------------------------------------------
(* The gate *)

Among(stages) == {r \in Requests : stage[r] \in stages}
AtWork  == Among({"accepted", "running", "closing"})
Slotted == Among({"granted", "accepted", "running", "closing"})
Waiting == Among({"waiting"})

ControlTypeOK ==
    /\ stage \in [Requests -> Stages]
    /\ kind \in [Requests -> Endpoints \cup {NoKind}]
    /\ started \in [Requests -> Times \cup {Never}]
    /\ now \in Times

\* Who has a slot, and that none is lost or made.
GateInv ==
    /\ SemaphoreOK(sem)
    /\ InLine(sem) \subseteq Waiting
    /\ leased = AtWork
    /\ inUse = Cardinality(leased)
    /\ Slots(sem, Slotted) = MaxConcurrent

LEMMA StageMoves ==
    ASSUME stage \in [Requests -> Stages], NEW r \in Requests, NEW v \in Stages,
           stage' = [stage EXCEPT ![r] = v]
    PROVE  /\ stage' \in [Requests -> Stages]
           /\ AtWork' = IF v \in {"accepted", "running", "closing"}
                        THEN AtWork \cup {r} ELSE AtWork \ {r}
           /\ Slotted' = IF v \in {"granted", "accepted", "running", "closing"}
                         THEN Slotted \cup {r} ELSE Slotted \ {r}
           /\ Waiting' = IF v = "waiting" THEN Waiting \cup {r} ELSE Waiting \ {r}
<1>1. stage' \in [Requests -> Stages] /\ stage'[r] = v /\ \A q \in Requests \ {r} : stage'[q] = stage[q]
  OBVIOUS
<1>2. ASSUME NEW set
      PROVE  Among(set)' = IF v \in set THEN Among(set) \cup {r} ELSE Among(set) \ {r}
  <2>1. Among(set)' = {q \in Requests : stage'[q] \in set}
    BY DEF Among
  <2> QED
    BY <1>1, <2>1 DEF Among
<1>3. AtWork' = IF v \in {"accepted", "running", "closing"}
                THEN AtWork \cup {r} ELSE AtWork \ {r}
  BY <1>2 DEF AtWork
<1>4. Slotted' = IF v \in {"granted", "accepted", "running", "closing"}
                 THEN Slotted \cup {r} ELSE Slotted \ {r}
  BY <1>2 DEF Slotted
<1>5. Waiting' = IF v = "waiting" THEN Waiting \cup {r} ELSE Waiting \ {r}
  BY <1>2 DEF Waiting
<1> QED
  BY <1>1, <1>3, <1>4, <1>5

LEMMA GateFacts ==
    ASSUME GateInv
    PROVE  /\ SemaphoreOK(sem) /\ sem.woken \subseteq InLine(sem) /\ sem.free \in Nat
           /\ Slotted \in SUBSET Requests /\ Slotted \cap InLine(sem) = {}
           /\ leased \subseteq Slotted /\ leased \in SUBSET Requests
           /\ Cardinality(leased) \in Nat
<1>1. Slotted \in SUBSET Requests /\ Waiting \cap Slotted = {} /\ AtWork \subseteq Slotted
  BY DEF Slotted, Waiting, AtWork, Among
<1>2. leased \in SUBSET Requests /\ leased \subseteq Slotted
  BY <1>1 DEF GateInv
<1>3. Cardinality(leased) \in Nat
  <2>1. CASE leased = {}
    BY <2>1, FS_EmptySet
  <2>2. CASE leased # {}
    BY <1>2, <2>2, Counting
  <2> QED
    BY <2>1, <2>2
<1> QED
  BY <1>1, <1>2, <1>3, LinesAreRequests DEF GateInv

\* A caller that has no slot leaves, without one.
LEMMA Refusal ==
    ASSUME ControlTypeOK, GateInv, NEW r \in Requests, Refuse(r), r \notin AtWork
    PROVE  /\ leased' = AtWork' /\ inUse' = Cardinality(leased')
           /\ Slotted' = Slotted \ {r} /\ Waiting' = Waiting \ {r}
<1>1. /\ stage' = [stage EXCEPT ![r] = "over"] /\ "over" \in Stages
      /\ stage \in [Requests -> Stages]
  BY DEF Refuse, Stages, ControlTypeOK
<1>2. AtWork' = AtWork \ {r} /\ Slotted' = Slotted \ {r} /\ Waiting' = Waiting \ {r}
  BY <1>1, StageMoves
<1> QED
  BY <1>2 DEF Refuse, GateInv

\* A caller is admitted: it has a lease.
LEMMA Admission ==
    ASSUME ControlTypeOK, GateInv, NEW r \in Requests, r \notin AtWork, r \notin Waiting,
           NEW v \in {"accepted", "running"}, Admit(r, v)
    PROVE  /\ leased' = AtWork' /\ inUse' = Cardinality(leased')
           /\ Slotted' = Slotted \cup {r} /\ Waiting' = Waiting
<1>1. /\ stage' = [stage EXCEPT ![r] = v] /\ v \in Stages
      /\ stage \in [Requests -> Stages]
  BY DEF Admit, Stages, ControlTypeOK
<1>2. AtWork' = AtWork \cup {r} /\ Slotted' = Slotted \cup {r} /\ Waiting' = Waiting \ {r}
  BY <1>1, StageMoves
<1>3. Cardinality(leased \cup {r}) = Cardinality(leased) + 1
  BY GateFacts, Counting DEF GateInv
<1> QED
  BY <1>2, <1>3 DEF Admit, GateInv

\* A run gives its lease back, the first time that it is asked to.
LEMMA Return ==
    ASSUME ControlTypeOK, GateInv, NEW r \in leased, Release(r),
           NEW v \in {"ended", "over"}, stage' = [stage EXCEPT ![r] = v]
    PROVE  GateInv'
<1>1. v \in Stages /\ stage \in [Requests -> Stages] /\ r \in Requests /\ r \in Slotted /\ r \notin Waiting
  BY DEF ControlTypeOK, Stages, GateInv, AtWork, Slotted, Waiting, Among
<1> DEFINE to == v
<1>2. to \in Stages /\ stage' = [stage EXCEPT ![r] = to] /\ to # "waiting"
      /\ to \notin {"granted", "accepted", "running", "closing"}
      /\ to \notin {"accepted", "running", "closing"}
  BY <1>1
<1> HIDE DEF to
<1>3. AtWork' = AtWork \ {r} /\ Slotted' = Slotted \ {r} /\ Waiting' = Waiting \ {r}
  BY <1>1, <1>2, StageMoves
<1>4. leased' = leased \ {r} /\ inUse' = inUse - 1 /\ sem' = Freed(sem)
  BY DEF Release
<1>5. Cardinality(leased \ {r}) = Cardinality(leased) - 1
  BY <1>1, GateFacts, Counting
<1>6. /\ SemaphoreOK(Freed(sem)) /\ Freed(sem).waiters = sem.waiters
      /\ Slots(Freed(sem), Slotted \ {r}) = Slots(sem, Slotted)
  BY <1>1, GateFacts, FreedKeeps
<1>7. SemaphoreOK(sem)' /\ Slots(sem, Slotted)' = MaxConcurrent
  BY <1>3, <1>4, <1>6 DEF GateInv, SemaphoreOK, InLine, Slots
<1>8. InLine(sem)' \subseteq Waiting'
  BY <1>1, <1>3, <1>4, <1>6 DEF GateInv, InLine
<1>9. leased' = AtWork' /\ inUse' = Cardinality(leased)'
  BY <1>3, <1>4, <1>5 DEF GateInv
<1> QED
  BY <1>7, <1>8, <1>9 DEF GateInv

\* A caller joins the line.
LEMMA QueuedKeeps ==
    ASSUME NEW s, SemaphoreOK(s), NEW r \in Requests, r \notin InLine(s), NEW held
    PROVE  /\ SemaphoreOK(Queued(s, r)) /\ InLine(Queued(s, r)) = InLine(s) \cup {r}
           /\ Slots(Queued(s, r), held) = Slots(s, held)
<1> DEFINE line == Append(s.waiters, r)
           t == Queued(s, r)
<1>1. /\ s.waiters \in Seq(Requests) /\ Len(s.waiters) \in Nat /\ s.free \in Nat
      /\ s.woken \in SUBSET Requests /\ s.woken \subseteq InLine(s)
      /\ \A k, n \in 1 .. Len(s.waiters) : s.waiters[k] = s.waiters[n] => k = n
      /\ \A k \in 1 .. Len(s.waiters) : s.waiters[k] # r
  BY DEF SemaphoreOK, InLine
<1>2. /\ line \in Seq(Requests) /\ Len(line) = Len(s.waiters) + 1
      /\ line[Len(s.waiters) + 1] = r
      /\ \A k \in 1 .. Len(s.waiters) : line[k] = s.waiters[k]
  BY <1>1
<1>3. t = [free |-> s.free, waiters |-> line, woken |-> s.woken]
  BY DEF Queued
<1> HIDE DEF line, t
<1>4. /\ t \in [free : Nat, waiters : Seq(Requests), woken : SUBSET Requests]
      /\ t.free = s.free /\ t.waiters = line /\ t.woken = s.woken
  BY <1>1, <1>2, <1>3
<1>5. InLine(t) = InLine(s) \cup {r}
  <2>1. \A k \in 1 .. Len(line) : line[k] \in InLine(s) \cup {r}
    BY <1>1, <1>2 DEF InLine
  <2>2. \A k \in 1 .. Len(s.waiters) : k \in 1 .. Len(line) /\ line[k] = s.waiters[k]
    BY <1>1, <1>2
  <2>3. Len(s.waiters) + 1 \in 1 .. Len(line)
    BY <1>1, <1>2
  <2>4. InLine(t) = {line[k] : k \in 1 .. Len(line)}
    BY <1>4, Zenon DEF InLine
  <2>5. \A x \in InLine(s) : \E k \in 1 .. Len(line) : line[k] = x
    BY <2>2, Zenon DEF InLine
  <2>6. \E k \in 1 .. Len(line) : line[k] = r
    BY <1>2, <2>3, Zenon
  <2> QED
    BY <2>1, <2>4, <2>5, <2>6, Zenon
<1>6. \A k, n \in 1 .. Len(line) : line[k] = line[n] => k = n
  BY <1>1, <1>2
<1>7. SemaphoreOK(t)
  <2>1. \A k, n \in 1 .. Len(t.waiters) : t.waiters[k] = t.waiters[n] => k = n
    BY <1>4, <1>6, Zenon
  <2>2. t.woken \subseteq InLine(t)
    BY <1>1, <1>4, <1>5, Zenon
  <2> QED
    BY <1>4, <2>1, <2>2, Zenon DEF SemaphoreOK
<1> QED
  BY <1>4, <1>5, <1>7 DEF Slots, t

\* What is left to show when the leases are as they should be.
LEMMA SlotsMove ==
    ASSUME leased' = AtWork', inUse' = Cardinality(leased'),
           NEW s, sem' = s, SemaphoreOK(s), InLine(s) \subseteq Waiting',
           NEW held, Slotted' = held, Slots(s, held) = MaxConcurrent
    PROVE  GateInv'
  BY DEF GateInv, SemaphoreOK, InLine, Slots

LEMMA TypeStep ==
    ASSUME ControlTypeOK, [Next]_vars
    PROVE  ControlTypeOK'
<1>1. CASE UNCHANGED vars
  BY <1>1 DEF ControlTypeOK, vars
<1>2. CASE Tick
  BY <1>2, ConstantsAssumption DEF Tick, ControlTypeOK, Times, gateVars
<1>3. ASSUME NEW r \in Requests,
             \/ TryStart(r) \/ Ask(r) \/ Enter(r) \/ Resume(r) \/ GiveUp(r) \/ TakeUp(r)
             \/ Begin(r) \/ Update(r) \/ FailStream(r) \/ End(r)
      PROVE  ControlTypeOK'
  <2>1. \E v \in Stages : stage' = [stage EXCEPT ![r] = v]
    <3>1. stage[r] \in Stages /\ [stage EXCEPT ![r] = stage[r]] = stage
      BY DEF ControlTypeOK
    <3> QED
      BY <1>3, <3>1 DEF TryStart, Ask, Enter, Resume, GiveUp, TakeUp, Begin, Update, FailStream,
         End, EndRun, EndStream, Close, AfterRun, Refuse, Accept, Admit, Stages
  <2>2. \E k \in Endpoints \cup {NoKind} : kind' = [kind EXCEPT ![r] = k]
    <3>1. kind[r] \in Endpoints \cup {NoKind} /\ [kind EXCEPT ![r] = kind[r]] = kind
      BY DEF ControlTypeOK
    <3> QED
      BY <1>3, <3>1 DEF TryStart, Ask, Enter, Resume, GiveUp, TakeUp, Begin, Update, FailStream,
         End, EndRun, EndStream, Close, Arrive
  <2>3. \E t \in Times \cup {Never} : started' = [started EXCEPT ![r] = t]
    <3>1. started[r] \in Times \cup {Never} /\ [started EXCEPT ![r] = started[r]] = started
          /\ now \in Times
      BY DEF ControlTypeOK
    <3> QED
      BY <1>3, <3>1 DEF TryStart, Ask, Enter, Resume, GiveUp, TakeUp, Begin, Update, FailStream,
         End, EndRun, EndStream, Close, Refuse, Accept, Admit, gateVars
  <2>4. now' = now
    BY <1>3 DEF TryStart, Ask, Enter, Resume, GiveUp, TakeUp, Begin, Update, FailStream,
       End, EndRun, EndStream, Close
  <2> QED
    BY <2>1, <2>2, <2>3, <2>4 DEF ControlTypeOK
<1> QED
  BY <1>1, <1>2, <1>3 DEF Next

LEMMA GateStep ==
    ASSUME ControlTypeOK, GateInv, Next
    PROVE  GateInv'
<1>1. /\ SemaphoreOK(sem) /\ InLine(sem) \subseteq Waiting /\ leased = AtWork
      /\ Slots(sem, Slotted) = MaxConcurrent /\ inUse = Cardinality(leased)
      /\ Slotted \in SUBSET Requests /\ Slotted \cap InLine(sem) = {}
      /\ stage \in [Requests -> Stages]
  BY GateFacts DEF GateInv, ControlTypeOK
<1>2. ASSUME NEW r \in Requests
      PROVE  /\ r \in AtWork <=> stage[r] \in {"accepted", "running", "closing"}
             /\ r \in Slotted <=> stage[r] \in {"granted", "accepted", "running", "closing"}
             /\ r \in Waiting <=> stage[r] = "waiting"
  BY DEF AtWork, Slotted, Waiting, Among
<1>3. CASE UNCHANGED <<stage, gateVars>>
  <2>1. AtWork' = AtWork /\ Slotted' = Slotted /\ Waiting' = Waiting /\ sem' = sem
        /\ leased' = leased /\ inUse' = inUse
    BY <1>3 DEF gateVars, AtWork, Slotted, Waiting, Among
  <2> QED
    BY <1>1, <2>1, SlotsMove
<1>4. CASE Tick
  BY <1>3, <1>4 DEF Tick
<1>5. ASSUME NEW r \in Requests, TryStart(r)
      PROVE  GateInv'
  <2>1. stage[r] = "new"
    BY <1>5 DEF TryStart, Arrive
  <2>2. r \notin AtWork /\ r \notin Slotted /\ r \notin Waiting
    BY <1>2, <2>1
  <2>3. CASE Refuse(r) /\ UNCHANGED sem
    BY <1>1, <2>2, <2>3, Refusal, SlotsMove
  <2>4. CASE ~Locked(sem) /\ Accept(r)
    <3>1. Admit(r, "accepted") /\ sem' = Taken(sem)
      BY <2>4 DEF Accept
    <3>2. /\ leased' = AtWork' /\ inUse' = Cardinality(leased')
          /\ Slotted' = Slotted \cup {r} /\ Waiting' = Waiting
      BY <2>2, <3>1, Admission
    <3>3. /\ SemaphoreOK(Taken(sem)) /\ Taken(sem).waiters = sem.waiters
          /\ Slots(Taken(sem), Slotted \cup {r}) = Slots(sem, Slotted)
      BY <1>1, <2>2, <2>4, TakenKeeps
    <3>4. InLine(Taken(sem)) = InLine(sem)
      BY <3>3 DEF InLine
    <3> QED
      BY <1>1, <3>1, <3>2, <3>3, <3>4, SlotsMove
  <2> QED
    BY <1>5, <2>3, <2>4 DEF TryStart, Busy
<1>6. ASSUME NEW r \in Requests, Ask(r)
      PROVE  GateInv'
  <2>1. stage[r] = "new" /\ sem' = sem /\ leased' = leased /\ inUse' = inUse
    BY <1>6 DEF Ask, Arrive, gateVars
  <2>2. PICK v \in {"over", "asking"} : stage' = [stage EXCEPT ![r] = v]
    BY <1>6 DEF Ask
  <2>3. v \in Stages /\ v # "waiting" /\ v \notin {"accepted", "running", "closing"}
        /\ v \notin {"granted", "accepted", "running", "closing"}
    BY DEF Stages
  <2>4. AtWork' = AtWork \ {r} /\ Slotted' = Slotted \ {r} /\ Waiting' = Waiting \ {r}
    BY <1>1, <2>2, <2>3, StageMoves
  <2>5. AtWork' = AtWork /\ Slotted' = Slotted /\ Waiting' = Waiting
    BY <1>2, <2>1, <2>4
  <2> QED
    BY <1>1, <2>1, <2>5, SlotsMove
<1>7. ASSUME NEW r \in Requests, Enter(r)
      PROVE  GateInv'
  <2>1. stage[r] = "asking" /\ leased' = leased /\ inUse' = inUse
    BY <1>7 DEF Enter
  <2>2. r \notin AtWork /\ r \notin Slotted /\ r \notin Waiting /\ r \notin InLine(sem)
    BY <1>1, <1>2, <2>1
  <2>3. CASE Locked(sem)
    <3>1. sem' = Queued(sem, r) /\ stage' = [stage EXCEPT ![r] = "waiting"] /\ "waiting" \in Stages
      BY <1>7, <2>3 DEF Enter, Stages
    <3>2. AtWork' = AtWork \ {r} /\ Slotted' = Slotted \ {r} /\ Waiting' = Waiting \cup {r}
      BY <1>1, <3>1, StageMoves
    <3>3. AtWork' = AtWork /\ Slotted' = Slotted
      BY <2>2, <3>2
    <3>4. /\ SemaphoreOK(Queued(sem, r)) /\ InLine(Queued(sem, r)) = InLine(sem) \cup {r}
          /\ Slots(Queued(sem, r), Slotted) = Slots(sem, Slotted)
      BY <1>1, <2>2, QueuedKeeps
    <3> QED
      BY <1>1, <2>1, <3>1, <3>2, <3>3, <3>4, SlotsMove
  <2>4. CASE ~Locked(sem)
    <3>1. sem' = Taken(sem) /\ stage' = [stage EXCEPT ![r] = "granted"] /\ "granted" \in Stages
      BY <1>7, <2>4 DEF Enter, Stages
    <3>2. AtWork' = AtWork \ {r} /\ Slotted' = Slotted \cup {r} /\ Waiting' = Waiting \ {r}
      BY <1>1, <3>1, StageMoves
    <3>3. AtWork' = AtWork /\ Waiting' = Waiting
      BY <2>2, <3>2
    <3>4. /\ SemaphoreOK(Taken(sem)) /\ Taken(sem).waiters = sem.waiters
          /\ Slots(Taken(sem), Slotted \cup {r}) = Slots(sem, Slotted)
      BY <1>1, <2>2, <2>4, TakenKeeps
    <3>5. InLine(Taken(sem)) = InLine(sem)
      BY <3>4 DEF InLine
    <3> QED
      BY <1>1, <2>1, <3>1, <3>2, <3>3, <3>4, <3>5, SlotsMove
  <2> QED
    BY <2>3, <2>4
<1>8. ASSUME NEW r \in Requests, Resume(r)
      PROVE  GateInv'
  <2>1. /\ stage[r] = "waiting" /\ r \in sem.woken /\ sem' = Resumed(sem, r)
        /\ stage' = [stage EXCEPT ![r] = "granted"] /\ "granted" \in Stages
        /\ leased' = leased /\ inUse' = inUse
    BY <1>8 DEF Resume, Stages
  <2>2. AtWork' = AtWork \ {r} /\ Slotted' = Slotted \cup {r} /\ Waiting' = Waiting \ {r}
    BY <1>1, <2>1, StageMoves
  <2>3. AtWork' = AtWork
    BY <1>2, <2>1, <2>2
  <2>4. /\ SemaphoreOK(Resumed(sem, r)) /\ InLine(Resumed(sem, r)) = InLine(sem) \ {r}
        /\ Slots(Resumed(sem, r), Slotted \cup {r}) = Slots(sem, Slotted)
    BY <1>1, <2>1, ResumedKeeps
  <2> QED
    BY <1>1, <2>1, <2>2, <2>3, <2>4, SlotsMove
<1>9. ASSUME NEW r \in Requests, GiveUp(r)
      PROVE  GateInv'
  <2>1. stage[r] \in {"asking", "waiting"} /\ Refuse(r) /\ sem' = Abandoned(sem, r)
    BY <1>9 DEF GiveUp
  <2>2. r \notin AtWork /\ r \notin Slotted
    BY <1>2, <2>1
  <2>3. /\ leased' = AtWork' /\ inUse' = Cardinality(leased')
        /\ Slotted' = Slotted \ {r} /\ Waiting' = Waiting \ {r}
    BY <2>1, <2>2, Refusal
  <2>4. Slotted' = Slotted
    BY <2>2, <2>3
  <2>5. /\ SemaphoreOK(Abandoned(sem, r)) /\ InLine(Abandoned(sem, r)) = InLine(sem) \ {r}
        /\ Slots(Abandoned(sem, r), Slotted) = Slots(sem, Slotted)
    BY <1>1, <2>2, AbandonedKeeps
  <2> QED
    BY <1>1, <2>1, <2>3, <2>4, <2>5, SlotsMove
<1>10. ASSUME NEW r \in Requests, TakeUp(r)
       PROVE  GateInv'
  <2>1. stage[r] = "granted"
    BY <1>10 DEF TakeUp
  <2>2. r \notin AtWork /\ r \in Slotted /\ r \notin Waiting
    BY <1>2, <2>1
  <2>3. CASE Refuse(r) /\ sem' = Freed(sem)
    <3>1. /\ leased' = AtWork' /\ inUse' = Cardinality(leased')
          /\ Slotted' = Slotted \ {r} /\ Waiting' = Waiting \ {r}
      BY <2>2, <2>3, Refusal
    <3>2. /\ SemaphoreOK(Freed(sem)) /\ Freed(sem).waiters = sem.waiters
          /\ Slots(Freed(sem), Slotted \ {r}) = Slots(sem, Slotted)
      BY <1>1, <2>2, FreedKeeps
    <3>3. InLine(Freed(sem)) = InLine(sem) /\ Waiting' = Waiting
      BY <2>2, <3>1, <3>2 DEF InLine
    <3> QED
      BY <1>1, <2>3, <3>1, <3>2, <3>3, SlotsMove
  <2>4. CASE Admit(r, "running") /\ UNCHANGED sem
    <3>1. /\ leased' = AtWork' /\ inUse' = Cardinality(leased')
          /\ Slotted' = Slotted \cup {r} /\ Waiting' = Waiting
      BY <2>2, <2>4, Admission
    <3>2. Slotted' = Slotted
      BY <2>2, <3>1
    <3> QED
      BY <1>1, <2>4, <3>1, <3>2, SlotsMove
  <2> QED
    BY <1>10, <2>3, <2>4 DEF TakeUp
<1>11. ASSUME NEW r \in AtWork, NEW v \in {"running", "closing"},
              stage' = [stage EXCEPT ![r] = v], UNCHANGED gateVars
       PROVE  GateInv'
  <2>1. /\ r \in Requests /\ v \in Stages /\ v # "waiting" /\ v \in {"accepted", "running", "closing"}
        /\ v \in {"granted", "accepted", "running", "closing"} /\ r \in Slotted /\ r \notin Waiting
    BY <1>2 DEF Stages, AtWork, Among
  <2>2. AtWork' = AtWork \cup {r} /\ Slotted' = Slotted \cup {r} /\ Waiting' = Waiting \ {r}
    BY <1>1, <1>11, <2>1, StageMoves
  <2>3. AtWork' = AtWork /\ Slotted' = Slotted /\ Waiting' = Waiting
        /\ sem' = sem /\ leased' = leased /\ inUse' = inUse
    BY <1>11, <2>1, <2>2 DEF gateVars
  <2> QED
    BY <1>1, <2>3, SlotsMove
<1>12. ASSUME NEW r \in Requests, Begin(r) \/ FailStream(r)
       PROVE  GateInv'
  BY <1>2, <1>11, <1>12 DEF Begin, FailStream
<1>13. ASSUME NEW r \in Requests, Update(r)
       PROVE  GateInv'
  BY <1>3, <1>13 DEF Update
<1>14. ASSUME NEW r \in Requests, EndRun(r) \/ EndStream(r)
       PROVE  GateInv'
  <2>1. r \in leased /\ Release(r)
    BY <1>1, <1>2, <1>14 DEF EndRun, EndStream
  <2>2. \E v \in {"ended", "over"} : stage' = [stage EXCEPT ![r] = v]
    BY <1>14 DEF EndRun, EndStream, AfterRun
  <2> QED
    BY <2>1, <2>2, Return
<1>15. ASSUME NEW r \in Requests, Close(r)
       PROVE  GateInv'
  <2>1. Release(r) /\ stage' = [stage EXCEPT ![r] = "over"] /\ "over" \in Stages
    BY <1>15 DEF Close, ReleaseAtClose, Stages
  <2>2. CASE r \in leased
    BY <2>1, <2>2, Return
  <2>3. CASE r \notin leased
    <3>1. sem' = sem /\ leased' = leased /\ inUse' = inUse
      BY <2>1, <2>3 DEF Release
    <3>2. r \notin AtWork /\ r \notin Slotted /\ r \notin Waiting
      BY <1>1, <1>2, <1>15, <2>3 DEF Close
    <3>3. AtWork' = AtWork \ {r} /\ Slotted' = Slotted \ {r} /\ Waiting' = Waiting \ {r}
      BY <1>1, <2>1, StageMoves
    <3>4. AtWork' = AtWork /\ Slotted' = Slotted /\ Waiting' = Waiting
      BY <3>2, <3>3
    <3> QED
      BY <1>1, <3>1, <3>4, SlotsMove
  <2> QED
    BY <2>2, <2>3
<1> QED
  BY <1>4, <1>5, <1>6, <1>7, <1>8, <1>9, <1>10, <1>12, <1>13, <1>14, <1>15 DEF Next, End

-----------------------------------------------------------------------------
(* The budget *)

StartedIn(t) == {r \in Requests : started[r] # Never /\ started[r] \in t - Window + 1 .. t}
Recent == {r \in Requests : started[r] # Never /\ started[r] > now - Window}
BudgetInv ==
    /\ \A t \in Times : Cardinality(StartedIn(t)) <= MaxRuns
    /\ \A r \in Requests : started[r] <= now

\* A start falls into the windows that end now or later, and all that such a
\* window holds is recent: the check of the budget counted it.
LEMMA AdmitKeepsBudget ==
    ASSUME ControlTypeOK, BudgetInv, ~BudgetSpent, now' = now,
           NEW r \in Requests, started' = [started EXCEPT ![r] = now]
    PROVE  BudgetInv'
<1>1. /\ now \in Nat /\ Window \in Nat /\ Window > 0 /\ MaxRuns \in Nat /\ MaxTime \in Nat
      /\ \A q \in Requests : started[q] \in Int
      /\ \A t \in Times : t \in Nat
      /\ started \in [Requests -> Times \cup {Never}]
  BY ConstantsAssumption DEF ControlTypeOK, Times, Never
<1>2. \A q \in Requests : started'[q] = IF q = r THEN now ELSE started[q]
  BY <1>1
<1>3. Recent \in SUBSET Requests /\ Cardinality(Recent) \in Nat /\ IsFiniteSet(Recent)
  BY Counting DEF Recent
<1>4. Cardinality(Recent) < MaxRuns
  BY <1>1, <1>3 DEF BudgetSpent, Recent
<1>5. ASSUME NEW t \in Times
      PROVE  Cardinality(StartedIn(t)') <= MaxRuns
  <2>1. StartedIn(t)' = {q \in Requests : started'[q] # Never /\ started'[q] \in t - Window + 1 .. t}
    BY DEF StartedIn
  <2>2. StartedIn(t) \in SUBSET Requests /\ Cardinality(StartedIn(t)) <= MaxRuns
    BY DEF StartedIn, BudgetInv
  <2>3. CASE now \in t - Window + 1 .. t
    <3>1. t \in Nat /\ t - Window + 1 <= now /\ now <= t
      BY <1>1, <2>3
    <3>2. \A q \in StartedIn(t) : q \in Recent
      BY <1>1, <3>1 DEF StartedIn, Recent
    <3>3. StartedIn(t)' \subseteq Recent \cup {r}
      BY <1>2, <2>1, <3>2 DEF StartedIn
    <3>4. /\ IsFiniteSet(Recent \cup {r})
          /\ Cardinality(Recent \cup {r}) = Cardinality(Recent) \/ Cardinality(Recent \cup {r}) = Cardinality(Recent) + 1
      BY <1>3, FS_AddElement
    <3>5. /\ Cardinality(StartedIn(t)') <= Cardinality(Recent \cup {r})
          /\ IsFiniteSet(StartedIn(t)')
      BY <3>3, <3>4, FS_Subset
    <3>6. Cardinality(StartedIn(t)') \in Nat
      BY <3>5, FS_CardinalityType
    <3> QED
      BY <1>1, <1>3, <1>4, <3>4, <3>5, <3>6
  <2>4. CASE now \notin t - Window + 1 .. t
    <3>1. StartedIn(t)' \subseteq StartedIn(t)
      BY <1>2, <2>1, <2>4 DEF StartedIn
    <3>2. IsFiniteSet(StartedIn(t)) /\ Cardinality(StartedIn(t)) \in Nat
      BY <2>2, Counting
    <3>3. /\ Cardinality(StartedIn(t)') <= Cardinality(StartedIn(t))
          /\ IsFiniteSet(StartedIn(t)')
      BY <3>1, <3>2, FS_Subset
    <3>4. Cardinality(StartedIn(t)') \in Nat
      BY <3>3, FS_CardinalityType
    <3> QED
      BY <1>1, <2>2, <3>2, <3>3, <3>4
  <2> QED
    BY <2>3, <2>4
<1>6. \A q \in Requests : started'[q] <= now'
  BY <1>1, <1>2 DEF BudgetInv
<1> QED
  BY <1>5, <1>6 DEF BudgetInv

LEMMA BudgetStep ==
    ASSUME ControlTypeOK, BudgetInv, Next
    PROVE  BudgetInv'
<1>1. CASE started' = started /\ now' \in {now, now + 1}
  <2>1. \A t \in Times : StartedIn(t)' = StartedIn(t)
    BY <1>1 DEF StartedIn
  <2>2. \A r \in Requests : started[r] \in Int /\ started[r] <= now /\ now \in Nat
    BY ConstantsAssumption DEF ControlTypeOK, Times, Never, BudgetInv
  <2>3. \A r \in Requests : started'[r] <= now'
    BY <1>1, <2>2
  <2> QED
    BY <2>1, <2>3 DEF BudgetInv
<1>2. CASE Tick
  BY <1>1, <1>2 DEF Tick, gateVars
<1>3. ASSUME NEW r \in Requests, TryStart(r)
      PROVE  BudgetInv'
  <2>1. now' = now
    BY <1>3 DEF TryStart
  <2>2. CASE Refuse(r)
    BY <1>1, <2>1, <2>2 DEF Refuse
  <2>3. CASE ~BudgetSpent /\ Accept(r)
    BY <2>1, <2>3, AdmitKeepsBudget DEF Accept, Admit
  <2> QED
    BY <1>3, <2>2, <2>3 DEF TryStart
<1>4. ASSUME NEW r \in Requests, TakeUp(r)
      PROVE  BudgetInv'
  <2>1. now' = now
    BY <1>4 DEF TakeUp
  <2>2. CASE Refuse(r)
    BY <1>1, <2>1, <2>2 DEF Refuse
  <2>3. CASE ~BudgetSpent /\ Admit(r, "running")
    BY <2>1, <2>3, AdmitKeepsBudget DEF Admit
  <2> QED
    BY <1>4, <2>2, <2>3 DEF TakeUp, SpentMeanwhile
<1>5. ASSUME NEW r \in Requests,
             \/ Ask(r) \/ Enter(r) \/ Resume(r) \/ GiveUp(r)
             \/ Begin(r) \/ Update(r) \/ FailStream(r) \/ End(r)
      PROVE  BudgetInv'
  <2>1. started' = started /\ now' = now
    BY <1>5 DEF Ask, Enter, Resume, GiveUp, Begin, Update, FailStream,
       End, EndRun, EndStream, Close, Refuse, gateVars
  <2> QED
    BY <1>1, <2>1
<1> QED
  BY <1>2, <1>3, <1>4, <1>5 DEF Next

-----------------------------------------------------------------------------
(* The store of states *)

StoreOK(st) ==
    /\ st \in [order : Seq(Requests), shows : [Requests -> Shown], latest : Requests \cup {None}]
    /\ Len(st.order) <= MaxEntries
    /\ st.order # <<>> => Contains(st.order, st.latest)
    /\ \A r \in Requests : ~Contains(st.order, r) => st.shows[r] = "nothing"

Before == {"new", "asking", "waiting", "granted"}
After  == {"closing", "ended", "over"}
ShowsTrue(at, shown) ==
    /\ at \in Before => shown = "nothing"
    /\ at \in After => shown \in {"nothing", "final"}
StoreInv == StoreOK(store) /\ \A r \in Requests : ShowsTrue(stage[r], store.shows[r])

\* What put leaves behind: r as it was put, the others as they were, and any of
\* them perhaps no more.
LEMMA PutFacts ==
    ASSUME NEW st, StoreOK(st), NEW r \in Requests, NEW shown \in Shown, NEW first \in BOOLEAN
    PROVE  /\ StoreOK(Put(st, r, shown, first))
           /\ Put(st, r, shown, first).shows[r] \in {"nothing", shown}
           /\ \A q \in Requests \ {r} :
                 Put(st, r, shown, first).shows[q] \in {"nothing", st.shows[q]}
<1> DEFINE order == IF Contains(st.order, r) THEN st.order ELSE Append(st.order, r)
           kept == IF Len(order) > MaxEntries THEN Tail(order) ELSE order
           latest == IF first \/ st.latest = None THEN r ELSE st.latest
           shows == [s \in Requests |-> IF ~Contains(kept, s) THEN "nothing"
                                        ELSE IF s = r THEN shown ELSE st.shows[s]]
           now_latest == IF Contains(kept, latest) THEN latest ELSE Last(kept)
<1>1. /\ st.order \in Seq(Requests) /\ Len(st.order) <= MaxEntries /\ Len(st.order) \in Nat
      /\ st.shows \in [Requests -> Shown] /\ st.latest \in Requests \cup {None}
      /\ MaxEntries \in Nat /\ MaxEntries > 0
  BY ConstantsAssumption DEF StoreOK
<1>2. order \in Seq(Requests) /\ Len(order) \in 1 .. MaxEntries + 1
  <2>1. CASE Contains(st.order, r)
    BY <1>1, <2>1 DEF Contains
  <2>2. CASE ~Contains(st.order, r)
    <3>1. order = Append(st.order, r)
      BY <2>2
    <3> QED
      BY <1>1, <3>1
  <2> QED
    BY <2>1, <2>2
<1> HIDE DEF order
<1>3. kept \in Seq(Requests) /\ Len(kept) \in 1 .. MaxEntries
  <2>1. CASE Len(order) > MaxEntries
    <3>1. kept = Tail(order) /\ order # <<>>
      BY <1>1, <1>2, <2>1
    <3>2. Tail(order) \in Seq(Requests) /\ Len(Tail(order)) = Len(order) - 1
      BY <1>2, <3>1
    <3> QED
      BY <1>1, <1>2, <2>1, <3>1, <3>2
  <2>2. CASE ~(Len(order) > MaxEntries)
    BY <1>1, <1>2, <2>2
  <2> QED
    BY <2>1, <2>2
<1> HIDE DEF kept
<1>4. Contains(kept, Last(kept)) /\ Last(kept) \in Requests
  <2>1. Last(kept) = kept[Len(kept)] /\ Len(kept) \in 1 .. Len(kept)
    BY <1>3 DEF Last
  <2> QED
    BY <1>3, <2>1 DEF Contains
<1>5. Contains(kept, now_latest) /\ now_latest \in Requests \cup {None}
  BY <1>1, <1>4
<1>6. /\ shows \in [Requests -> Shown] /\ shows[r] \in {"nothing", shown}
      /\ \A q \in Requests \ {r} : shows[q] \in {"nothing", st.shows[q]}
      /\ \A q \in Requests : ~Contains(kept, q) => shows[q] = "nothing"
  BY <1>1 DEF Shown
<1>7. Put(st, r, shown, first) = [order |-> kept, shows |-> shows, latest |-> now_latest]
  BY DEF Put, kept, order
<1> HIDE DEF shows, now_latest
<1>8. StoreOK(Put(st, r, shown, first))
  BY <1>3, <1>5, <1>6, <1>7 DEF StoreOK
<1> QED
  BY <1>6, <1>7, <1>8

\* What a mark leaves behind, when the run it marks shows any state.
LEMMA MarkedFacts ==
    ASSUME NEW st, StoreOK(st), NEW r \in Requests
    PROVE  /\ StoreOK(Marked(st, r)) /\ Marked(st, r).shows[r] \in {"nothing", "final"}
           /\ \A q \in Requests \ {r} : Marked(st, r).shows[q] \in {"nothing", st.shows[q]}
<1>1. CASE Contains(st.order, r)
  <2>1. Marked(st, r) = Put(st, r, "final", FALSE) /\ "final" \in Shown
    BY <1>1 DEF Marked, Shown
  <2> DEFINE put == Put(st, r, "final", FALSE)
  <2>2. /\ StoreOK(put) /\ put.shows[r] \in {"nothing", "final"}
        /\ \A q \in Requests \ {r} : put.shows[q] \in {"nothing", st.shows[q]}
    BY <2>1, PutFacts
  <2>3. Marked(st, r) = put
    BY <2>1
  <2> HIDE DEF put
  <2> QED
    BY <2>2, <2>3
<1>2. CASE ~Contains(st.order, r)
  <2>1. Marked(st, r) = st
    BY <1>2 DEF Marked
  <2>2. st.shows[r] = "nothing"
    BY <1>2 DEF StoreOK
  <2> QED
    BY <2>1, <2>2
<1> QED
  BY <1>1, <1>2

\* One request moves on, and the store with it.
LEMMA StoreMoves ==
    ASSUME ControlTypeOK, StoreInv, NEW r \in Requests, NEW v \in Stages,
           stage' = [stage EXCEPT ![r] = v],
           NEW st, store' = st, StoreOK(st), ShowsTrue(v, st.shows[r]),
           \A q \in Requests \ {r} : st.shows[q] \in {"nothing", store.shows[q]}
    PROVE  StoreInv'
<1>1. stage'[r] = v /\ \A q \in Requests \ {r} : stage'[q] = stage[q]
  BY DEF ControlTypeOK
<1>2. \A q \in Requests : ShowsTrue(stage[q], store.shows[q])
  BY DEF StoreInv
<1>3. \A q \in Requests \ {r} : ShowsTrue(stage'[q], st.shows[q])
  BY <1>1, <1>2 DEF ShowsTrue
<1>4. \A q \in Requests : ShowsTrue(stage'[q], st.shows[q])
  BY <1>1, <1>3
<1> QED
  BY <1>4 DEF StoreInv, ShowsTrue, StoreOK

LEMMA StoreStep ==
    ASSUME ControlTypeOK, StoreInv, Next
    PROVE  StoreInv'
<1>1. /\ StoreOK(store) /\ \A q \in Requests : ShowsTrue(stage[q], store.shows[q])
      /\ stage \in [Requests -> Stages]
  BY DEF StoreInv, ControlTypeOK
<1>2. ASSUME UNCHANGED <<stage, store>>
      PROVE  StoreInv'
  BY <1>1, <1>2 DEF StoreInv, StoreOK, ShowsTrue
\* A caller that has not been admitted shows nothing, wherever it goes.
<1>3. ASSUME NEW r \in Requests, stage[r] \in Before, NEW v \in Stages,
             stage' = [stage EXCEPT ![r] = v], store' = store
      PROVE  StoreInv'
  <2>1. ShowsTrue(v, store.shows[r])
    BY <1>1, <1>3 DEF ShowsTrue
  <2> QED
    BY <1>1, <1>3, <2>1, StoreMoves
<1>4. ASSUME NEW r \in Requests, stage[r] \in Before, NEW v \in {"accepted", "running"}, Admit(r, v)
      PROVE  StoreInv'
  <2>1. /\ store' = Put(store, r, "pending", TRUE) /\ stage' = [stage EXCEPT ![r] = v]
        /\ v \in Stages /\ "pending" \in Shown
    BY <1>4 DEF Admit, Stages, Shown
  <2>2. ShowsTrue(v, Put(store, r, "pending", TRUE).shows[r])
    BY DEF ShowsTrue, Before, After
  <2> QED
    BY <1>1, <2>1, <2>2, PutFacts, StoreMoves
<1>5. ASSUME NEW r \in Requests, NEW v \in Stages, v \notin Before,
             stage' = [stage EXCEPT ![r] = v], store' = Marked(store, r)
      PROVE  StoreInv'
  <2>1. ShowsTrue(v, Marked(store, r).shows[r])
    BY <1>1, <1>5, MarkedFacts DEF ShowsTrue
  <2> QED
    BY <1>1, <1>5, <2>1, MarkedFacts, StoreMoves
<1>6. CASE Tick
  BY <1>2, <1>6 DEF Tick
<1>7. ASSUME NEW r \in Requests, TryStart(r)
      PROVE  StoreInv'
  <2>1. stage[r] \in Before
    BY <1>7 DEF TryStart, Arrive, Before
  <2>2. CASE Refuse(r)
    BY <1>3, <2>1, <2>2 DEF Refuse, Stages
  <2>3. CASE Accept(r)
    BY <1>4, <2>1, <2>3 DEF Accept
  <2> QED
    BY <1>7, <2>2, <2>3 DEF TryStart
<1>8. ASSUME NEW r \in Requests, Ask(r) \/ Enter(r) \/ Resume(r) \/ GiveUp(r)
      PROVE  StoreInv'
  <2>1. stage[r] \in Before /\ store' = store
    BY <1>8 DEF Ask, Arrive, Enter, Resume, GiveUp, Refuse, Before
  <2>2. \E v \in Stages : stage' = [stage EXCEPT ![r] = v]
    BY <1>8 DEF Ask, Enter, Resume, GiveUp, Refuse, Stages
  <2> QED
    BY <1>3, <2>1, <2>2
<1>9. ASSUME NEW r \in Requests, TakeUp(r)
      PROVE  StoreInv'
  <2>1. stage[r] \in Before
    BY <1>9 DEF TakeUp, Before
  <2>2. CASE Refuse(r)
    BY <1>3, <2>1, <2>2 DEF Refuse, Stages
  <2>3. CASE Admit(r, "running")
    BY <1>4, <2>1, <2>3
  <2> QED
    BY <1>9, <2>2, <2>3 DEF TakeUp
<1>10. ASSUME NEW r \in Requests, Begin(r)
       PROVE  StoreInv'
  <2>1. /\ stage' = [stage EXCEPT ![r] = "running"] /\ store' = store /\ "running" \in Stages
        /\ ShowsTrue("running", store.shows[r])
    BY <1>10 DEF Begin, Stages, ShowsTrue, Before, After
  <2> QED
    BY <1>1, <2>1, StoreMoves
<1>11. ASSUME NEW r \in Requests, Update(r)
       PROVE  StoreInv'
  <2>1. /\ stage[r] = "running" /\ stage' = stage /\ store' = Put(store, r, "partial", FALSE)
        /\ "partial" \in Shown /\ "running" \in Stages
    BY <1>11 DEF Update, Shown, Stages
  <2>2. stage' = [stage EXCEPT ![r] = "running"]
    BY <1>1, <2>1
  <2>3. ShowsTrue("running", Put(store, r, "partial", FALSE).shows[r])
    BY DEF ShowsTrue, Before, After
  <2> QED
    BY <1>1, <2>1, <2>2, <2>3, PutFacts, StoreMoves
<1>12. ASSUME NEW r \in Requests, EndRun(r)
       PROVE  StoreInv'
  <2>1. PICK v \in {"over", "ended"} : stage' = [stage EXCEPT ![r] = v]
    BY <1>12 DEF EndRun, AfterRun
  <2>2. v \in Stages /\ v \notin Before /\ "final" \in Shown
    BY DEF Stages, Before, Shown
  <2>3. CASE store' = Marked(store, r)
    BY <1>5, <2>1, <2>2, <2>3
  <2>4. CASE store' = Put(store, r, "final", FALSE)
    <3>1. ShowsTrue(v, Put(store, r, "final", FALSE).shows[r])
      BY <1>1, <2>2, PutFacts DEF ShowsTrue
    <3> QED
      BY <1>1, <2>1, <2>2, <2>4, <3>1, PutFacts, StoreMoves
  <2> QED
    BY <1>12, <2>3, <2>4 DEF EndRun
<1>13. ASSUME NEW r \in Requests, FailStream(r)
       PROVE  StoreInv'
  BY <1>5, <1>13 DEF FailStream, Stages, Before
<1>14. ASSUME NEW r \in Requests, stage[r] \in After, NEW v \in After,
              stage' = [stage EXCEPT ![r] = v], store' = store
       PROVE  StoreInv'
  <2>1. v \in Stages /\ ShowsTrue(v, store.shows[r])
    BY <1>1, <1>14 DEF Stages, ShowsTrue, Before, After
  <2> QED
    BY <1>1, <1>14, <2>1, StoreMoves
<1>15. ASSUME NEW r \in Requests, EndStream(r)
       PROVE  StoreInv'
  BY <1>14, <1>15 DEF EndStream, After
<1>16. ASSUME NEW r \in Requests, Close(r)
       PROVE  StoreInv'
  <2>1. CASE stage[r] = "accepted"
    BY <1>5, <1>16, <2>1 DEF Close, Closed, Stages, Before
  <2>2. CASE stage[r] = "ended"
    BY <1>14, <1>16, <2>2 DEF Close, Closed, After
  <2> QED
    BY <1>16, <2>1, <2>2 DEF Close
<1> QED
  BY <1>6, <1>7, <1>8, <1>9, <1>10, <1>11, <1>12, <1>13, <1>15, <1>16 DEF Next, End

-----------------------------------------------------------------------------
(* Theorems *)

ControlInv == ControlTypeOK /\ GateInv /\ BudgetInv /\ StoreInv

LEMMA ControlStarts ==
    ASSUME Init
    PROVE  ControlInv
<1>1. /\ stage = [r \in Requests |-> "new"] /\ kind = [r \in Requests |-> NoKind]
      /\ sem = [free |-> MaxConcurrent, waiters |-> <<>>, woken |-> {}]
      /\ inUse = 0 /\ leased = {} /\ started = [r \in Requests |-> Never] /\ now = 0
      /\ store = [order |-> <<>>, shows |-> [r \in Requests |-> "nothing"], latest |-> None]
      /\ MaxConcurrent \in Nat /\ MaxTime \in Nat /\ MaxRuns \in Nat /\ MaxEntries \in Nat
  BY ConstantsAssumption DEF Init, NewSemaphore
<1>2. ControlTypeOK
  BY <1>1 DEF ControlTypeOK, Stages, Times
<1>3. GateInv
  <2>1. AtWork = {} /\ Slotted = {} /\ InLine(sem) = {} /\ sem.woken = {} /\ sem.free = MaxConcurrent
    BY <1>1 DEF AtWork, Slotted, Among, InLine
  <2>2. SemaphoreOK(sem)
    BY <1>1 DEF SemaphoreOK, InLine
  <2>3. Slots(sem, Slotted) = MaxConcurrent
    BY <1>1, <2>1, FS_EmptySet DEF Slots
  <2> QED
    BY <1>1, <2>1, <2>2, <2>3, FS_EmptySet DEF GateInv
<1>4. BudgetInv
  <2>1. \A t \in Times : StartedIn(t) = {}
    BY <1>1 DEF StartedIn
  <2>2. \A r \in Requests : started[r] <= now
    BY <1>1 DEF Never
  <2>3. \A t \in Times : Cardinality(StartedIn(t)) <= MaxRuns
    <3>1. Cardinality({}) = 0 /\ 0 <= MaxRuns
      BY <1>1, FS_EmptySet
    <3> QED
      BY <2>1, <3>1
  <2> QED
    BY <2>2, <2>3 DEF BudgetInv
<1>5. StoreInv
  BY <1>1 DEF StoreInv, StoreOK, ShowsTrue, Shown, None, After
<1> QED
  BY <1>2, <1>3, <1>4, <1>5 DEF ControlInv

LEMMA ControlStep ==
    ASSUME ControlInv, [Next]_vars
    PROVE  ControlInv'
<1>1. CASE Next
  BY <1>1, TypeStep, GateStep, BudgetStep, StoreStep DEF ControlInv
<1>2. CASE UNCHANGED vars
  <2>1. ControlTypeOK' /\ StoreInv'
    BY <1>2 DEF vars, ControlInv, ControlTypeOK, StoreInv, StoreOK, ShowsTrue
  <2>2. GateInv'
    BY <1>2 DEF vars, ControlInv, GateInv, SemaphoreOK, InLine, Slots, AtWork, Slotted, Waiting, Among
  <2>3. BudgetInv'
    BY <1>2 DEF vars, ControlInv, BudgetInv, StartedIn
  <2> QED
    BY <2>1, <2>2, <2>3 DEF ControlInv
<1> QED
  BY <1>1, <1>2

\* Whatever requests wait, give up, are cancelled or close twice, the state is
\* typed, the slots add up, the windows hold no more than the budget and the
\* store shows what is so.
THEOREM ControlInvariant == Spec => []ControlInv
<1>1. Init => ControlInv
  BY ControlStarts
<1>2. ControlInv /\ [Next]_vars => ControlInv'
  BY ControlStep
<1> QED
  BY <1>1, <1>2, PTL DEF Spec

LEMMA HoldersAreSlots ==
    ASSUME ControlInv
    PROVE  /\ Holders = sem.woken \cup Slotted
           /\ Cardinality(Holders) \in Nat /\ Cardinality(leased) \in Nat
           /\ Cardinality(leased) <= Cardinality(Holders)
<1>1. leased = AtWork /\ sem.woken \in SUBSET Requests
  BY LinesAreRequests DEF ControlInv, GateInv
<1>2. Holders = sem.woken \cup Slotted
  BY <1>1 DEF Holders, AtWork, Slotted, Among
<1>3. Holders \in SUBSET Requests /\ leased \in SUBSET Holders
  BY <1>1, <1>2 DEF AtWork, Slotted, Among
<1>4. IsFiniteSet(Holders)
  BY <1>3, RequestsAreFinite, FS_Subset
<1>5. IsFiniteSet(leased) /\ Cardinality(leased) <= Cardinality(Holders)
  BY <1>3, <1>4, FS_Subset
<1>6. Cardinality(Holders) \in Nat /\ Cardinality(leased) \in Nat
  BY <1>4, <1>5, FS_CardinalityType
<1> QED
  BY <1>2, <1>5, <1>6

\* The state stays well typed; no more leases are out than there are slots.
THEOREM ControlTyped == Spec => []TypeOK
<1>1. ControlInv => TypeOK
  <2> SUFFICES ASSUME ControlInv
               PROVE  TypeOK
    OBVIOUS
  <2>1. /\ sem.free + Cardinality(Holders) = MaxConcurrent /\ inUse = Cardinality(leased)
        /\ sem.free \in Nat /\ MaxConcurrent \in Nat
    BY HoldersAreSlots, LinesAreRequests, ConstantsAssumption DEF ControlInv, GateInv, Slots
  <2>2. sem.free \in 0 .. MaxConcurrent /\ inUse \in 0 .. MaxConcurrent
    BY <2>1, HoldersAreSlots
  <2>3. sem \in [free : 0 .. MaxConcurrent, waiters : Seq(Requests), woken : SUBSET Requests]
    BY <2>2 DEF ControlInv, GateInv, SemaphoreOK
  <2>4. leased \subseteq Requests
    BY DEF ControlInv, GateInv, AtWork, Among
  <2> QED
    BY <2>2, <2>3, <2>4 DEF TypeOK, ControlInv, ControlTypeOK, StoreInv, StoreOK
<1> QED
  BY <1>1, ControlInvariant, PTL

\* No slot is lost or made, through timeouts, cancellations and double releases.
THEOREM SlotsAreConserved == Spec => []SlotsConserved
<1>1. ControlInv => SlotsConserved
  <2> SUFFICES ASSUME ControlInv
               PROVE  SlotsConserved
    OBVIOUS
  <2>1. leased = AtWork /\ inUse = Cardinality(leased)
        /\ sem.free + Cardinality(sem.woken \cup Slotted) = MaxConcurrent
    BY DEF ControlInv, GateInv, Slots
  <2> QED
    BY <2>1, HoldersAreSlots DEF SlotsConserved, AtWork, Among
<1> QED
  BY <1>1, ControlInvariant, PTL

\* No window of time holds more starts than the budget, although callers wait
\* between the two checks of it.
THEOREM BudgetIsKept == Spec => []BudgetHolds
<1>1. ControlInv => BudgetHolds
  BY DEF ControlInv, BudgetInv, BudgetHolds, StartedIn
<1> QED
  BY <1>1, ControlInvariant, PTL

\* A retained run that is over is shown as over, and the display points to a
\* retained run.
THEOREM StoreStaysTrue == Spec => []StoreIsTrue
<1>1. ControlInv => StoreIsTrue
  BY DEF ControlInv, StoreInv, StoreOK, ShowsTrue, After, StoreIsTrue
<1> QED
  BY <1>1, ControlInvariant, PTL
=============================================================================
