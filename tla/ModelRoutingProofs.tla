------------------------- MODULE ModelRoutingProofs -------------------------
(* Calls of language models, for any number of calls, any chains of models  *)
(* and any limits.  Three invariants, each with its own part of the state:  *)
(* where the calls are and what the breakers are; the slots of the queues,  *)
(* with those who sleep for one; the slots of the local gate.               *)
EXTENDS ModelRouting, FoldLemmas, TLAPS

BreakerStates ==
    [st : {"closed", "open", "half"}, fails : 0 .. Threshold, age : 0 .. Rest]
CallStates == [stage : Stages, at : Nat, try : 0 .. MaxRetries + 1]
Lines == [Models -> Seq(Calls)]

\* Where a call may be: at a model of its chain, and at the gate of a local one;
\* who backs off has a retry left.
Placed(c, r) ==
    /\ r \in CallStates
    /\ r.stage # "idle" => r.at \in DOMAIN Chain[c] /\ r.try # 0
    /\ r.stage = "backoff" => r.try <= MaxRetries
    /\ r.stage = "gate" => IsLocal(Chain[c][r.at])
\* Who sleeps for a slot is the first in line for it.
Asleep == {"asleep", "reasleep"}
RoutingInv ==
    /\ call \in [Calls -> CallStates]
    /\ \A c \in Calls : Placed(c, call[c])
    /\ line \in Lines
    /\ \A c \in Calls : call[c].stage \in Asleep => First(c)
    /\ breaker \in [Models -> BreakerStates]

\* A breaker that tripped and is not old enough to be probed.
Rests(b) == b.st = "open" /\ b.age < Rest

LEMMA Retries == MaxRetries \in Nat /\ 0 \in 0 .. MaxRetries + 1 /\ 1 \in 1 .. MaxRetries + 1
  BY ConstantsAssumption

LEMMA ChainFacts ==
    ASSUME NEW c \in Calls
    PROVE  /\ Chain[c] \in Seq(Models) /\ Len(Chain[c]) \in Nat
           /\ DOMAIN Chain[c] = 1 .. Len(Chain[c])
           /\ \A i \in DOMAIN Chain[c] : Chain[c][i] \in Models
  BY ConstantsAssumption

LEMMA MinIsLeast ==
    ASSUME NEW S \in SUBSET Nat, S # {}
    PROVE  Min(S) \in S /\ \A n \in S : Min(S) <= n
  BY LeastExists DEF Min

\* What a breaker goes through leaves it a breaker, and a resting one resting.
LEMMA BreakerFacts ==
    ASSUME NEW b \in BreakerStates
    PROVE  /\ Checked(b) \in BreakerStates /\ Failed(b) \in BreakerStates
           /\ Succeeded(b) \in BreakerStates
           /\ Rests(b) => Checked(b) = b /\ Rests(Failed(b)) /\ Rests(Succeeded(b))
           /\ Rests(b) => Checked(b).st = "open"
<1>1. /\ Threshold \in Nat /\ Rest \in Nat /\ Rest > 0
      /\ 0 \in 0 .. Threshold /\ 0 \in 0 .. Rest
  BY ConstantsAssumption
<1>2. Checked(b) \in BreakerStates
  BY <1>1 DEF Checked, BreakerStates
<1>3. Capped(b.fails + 1, Threshold) \in 0 .. Threshold
  BY <1>1 DEF Capped, BreakerStates
<1>4. Failed(b) \in BreakerStates
  BY <1>1, <1>3 DEF Failed, BreakerStates
<1>5. Succeeded(b) \in BreakerStates
  BY <1>1 DEF Succeeded, BreakerStates
<1>6. Rests(b) => Checked(b) = b
  BY <1>1 DEF Rests, Checked, BreakerStates
<1>7. Rests(b) => Rests(Failed(b))
  BY <1>1 DEF Rests, Failed
<1>8. Rests(b) => Rests(Succeeded(b))
  BY DEF Rests, Succeeded, BreakerStates
<1> QED
  BY <1>2, <1>4, <1>5, <1>6, <1>7, <1>8 DEF Rests

-----------------------------------------------------------------------------
(* What a step of a call does to the calls, the lines and the breakers *)

\* The breakers are as they should be, and those that rested still rest.
Tended(bs) ==
    /\ bs \in [Models -> BreakerStates]
    /\ \A m \in Models : Rests(breaker[m]) => Rests(bs[m])

\* A call is elsewhere: idle, or last in the line of a model of its chain.
Moved(c, r, q) ==
    /\ r.stage \in {"idle", "line"} /\ Placed(c, r)
    /\ call' = [call EXCEPT ![c] = r]
    /\ line' \in Lines
    /\ \A m \in Models : line'[m] = q[m] \/ line'[m] = Append(q[m], c)

LEMMA GoOnFacts ==
    ASSUME NEW c \in Calls, NEW i \in Nat, i > 0, NEW b, Tended(b), NEW q \in Lines,
           GoOn(c, i, b, q)
    PROVE  Tended(breaker') /\ \E r : Moved(c, r, q)
<1> DEFINE able == {j \in i .. Len(Chain[c]) :
                      Checked(b[Chain[c][j]]).st # "open" /\ ~Full(q[Chain[c][j]])}
           last == IF able = {} THEN Len(Chain[c]) ELSE Min(able)
           seen == {Chain[c][j] : j \in i .. last}
<1>1. breaker' = [m \in Models |-> IF m \in seen THEN Checked(b[m]) ELSE b[m]]
  BY DEF GoOn
<1>2. IF able = {}
      THEN call' = [call EXCEPT ![c] = Idle] /\ line' = q
      ELSE /\ call' = [call EXCEPT ![c] = [stage |-> "line", at |-> last, try |-> 1]]
           /\ line' = [q EXCEPT ![Chain[c][last]] = Append(@, c)]
  BY DEF GoOn
<1> HIDE DEF seen
<1>3. Tended(breaker')
  <2>1. \A m \in Models : b[m] \in BreakerStates /\ Checked(b[m]) \in BreakerStates
                          /\ (Rests(b[m]) => Rests(Checked(b[m])))
    BY BreakerFacts DEF Tended
  <2> QED
    BY <1>1, <2>1 DEF Tended
<1>4. CASE able = {}
  <2>1. Idle \in CallStates /\ Idle.stage = "idle"
    BY Retries DEF Idle, CallStates, Stages
  <2>2. Moved(c, Idle, q)
    BY <1>2, <1>4, <2>1 DEF Moved, Placed
  <2> QED
    BY <1>3, <2>2
<1>5. CASE able # {}
  <2>1. able \in SUBSET Nat /\ able \subseteq DOMAIN Chain[c]
    BY ChainFacts
  <2>2. last \in able
    BY <1>5, <2>1, MinIsLeast
  <2>3. last \in DOMAIN Chain[c] /\ last \in Nat /\ Chain[c][last] \in Models
    BY <2>1, <2>2, ChainFacts
  <2> DEFINE r == [stage |-> "line", at |-> last, try |-> 1]
  <2>4. call' = [call EXCEPT ![c] = r] /\ line' = [q EXCEPT ![Chain[c][last]] = Append(@, c)]
    BY <1>2, <1>5
  <2> HIDE DEF last, able
  <2>5. Placed(c, r) /\ r.stage = "line"
    BY <2>3, Retries DEF Placed, CallStates, Stages, InLine
  <2> HIDE DEF r
  <2>6. line' \in Lines /\ \A m \in Models : line'[m] = q[m] \/ line'[m] = Append(q[m], c)
    BY <2>3, <2>4 DEF Lines
  <2>7. Moved(c, r, q)
    BY <2>4, <2>5, <2>6 DEF Moved
  <2> QED
    BY <1>3, <2>7
<1> QED
  BY <1>4, <1>5

\* An attempt is made, at a model that does not rest, or the call moves on.
LEMMA AttemptFacts ==
    ASSUME RoutingInv, NEW c \in Calls, NEW i \in DOMAIN Chain[c], NEW n \in 1 .. MaxRetries + 1,
           NEW q \in Lines, NEW s, NEW u, Attempt(c, i, n, q, s, u)
    PROVE  /\ Tended(breaker')
           /\ \/ /\ call' = [call EXCEPT ![c] = [stage |-> "sent", at |-> i, try |-> n]]
                 /\ ~Rests(breaker[Chain[c][i]])
                 /\ line' = q /\ gate' = s /\ inUse' = u
              \/ (\E r : Moved(c, r, q)) /\ Release(Chain[c][i], s, u)
<1> DEFINE m == Chain[c][i]
           b == Checked(breaker[m])
<1>1. i \in Nat /\ i > 0 /\ i + 1 \in Nat /\ i + 1 > 0 /\ m \in Models
  BY ChainFacts
<1>2. breaker[m] \in BreakerStates
  BY <1>1 DEF RoutingInv
<1>3. /\ b \in BreakerStates /\ Failed(b) \in BreakerStates
      /\ Rests(breaker[m]) => b = breaker[m] /\ Rests(Failed(b)) /\ b.st = "open"
  BY <1>2, BreakerFacts
<1>4. Tended([breaker EXCEPT ![m] = b]) /\ Tended([breaker EXCEPT ![m] = Failed(b)])
  BY <1>1, <1>3 DEF Tended, RoutingInv
<1>5. \/ GoOn(c, i + 1, [breaker EXCEPT ![m] = b], q) /\ Release(m, s, u)
      \/ GoOn(c, i + 1, [breaker EXCEPT ![m] = Failed(b)], q) /\ Release(m, s, u)
      \/ /\ call' = [call EXCEPT ![c] = [stage |-> "sent", at |-> i, try |-> n]]
         /\ breaker' = [breaker EXCEPT ![m] = b] /\ b.st # "open"
         /\ line' = q /\ gate' = s /\ inUse' = u
  BY DEF Attempt, KeepGate
<1> HIDE DEF b, m
<1>6. ASSUME NEW bs, Tended(bs), GoOn(c, i + 1, bs, q)
      PROVE  Tended(breaker') /\ \E r : Moved(c, r, q)
  BY <1>1, <1>6, GoOnFacts
<1> QED
  BY <1>3, <1>4, <1>5, <1>6 DEF m

\* The call c may go elsewhere while the others stay: the lines q are lines, and
\* who sleeps is first in line.
Ready(c, q) ==
    /\ q \in Lines
    /\ \A d \in Calls \ {c} :
          call[d].stage \in Asleep => q[Model(d)] # <<>> /\ Head(q[Model(d)]) = d

\* A whole step of the call c, which leaves it at r.
Stepped(c, r) ==
    /\ Placed(c, r) /\ call' = [call EXCEPT ![c] = r]
    /\ r.stage = "sent" => ~Rests(breaker[Chain[c][r.at]])
    /\ r.stage \in Asleep => r.at = call[c].at /\ First(c) /\ line' = line
    /\ Ready(c, line')
    /\ Tended(breaker')

LEMMA CallFacts ==
    ASSUME RoutingInv, NEW c \in Calls
    PROVE  /\ Placed(c, call[c]) /\ call[c] \in CallStates /\ call[c].at \in Nat
           /\ call[c].stage # "idle" =>
                /\ call[c].at \in DOMAIN Chain[c] /\ Model(c) \in Models
                /\ call[c].at > 0 /\ call[c].at + 1 \in Nat /\ call[c].at + 1 > 0
           /\ Ready(c, line)
           /\ Tended(breaker)
<1>1. Placed(c, call[c]) /\ call[c] \in CallStates /\ call[c].at \in Nat
  BY DEF RoutingInv, Placed, CallStates
<1>2. call[c].stage # "idle" => call[c].at \in DOMAIN Chain[c]
  BY <1>1 DEF Placed
<1>3. call[c].stage # "idle" => Model(c) \in Models /\ call[c].at > 0
  BY <1>2, ChainFacts DEF Model
<1>4. Ready(c, line)
  BY DEF RoutingInv, Ready, First
<1>5. Tended(breaker)
  BY DEF RoutingInv, Tended
<1> QED
  BY <1>1, <1>2, <1>3, <1>4, <1>5

LEMMA SteppedKeeps ==
    ASSUME RoutingInv, NEW c \in Calls, NEW r, Stepped(c, r)
    PROVE  RoutingInv'
<1>1. r \in CallStates /\ call' \in [Calls -> CallStates] /\ call'[c] = r
      /\ \A d \in Calls \ {c} : call'[d] = call[d]
  BY DEF RoutingInv, Stepped, Placed
<1>2. \A d \in Calls : Placed(d, call'[d])
  BY <1>1 DEF RoutingInv, Stepped
<1>3. line' \in Lines
  BY DEF Stepped, Ready
<1>4. breaker' \in [Models -> BreakerStates]
  BY DEF Stepped, Tended
<1>5. ASSUME NEW d \in Calls, call'[d].stage \in Asleep
      PROVE  line'[Chain[d][call'[d].at]] # <<>> /\ Head(line'[Chain[d][call'[d].at]]) = d
  <2>1. CASE d = c
    BY <1>1, <1>5, <2>1 DEF Stepped, First, Model
  <2>2. CASE d # c
    BY <1>1, <1>5, <2>2 DEF Stepped, Ready, Model
  <2> QED
    BY <2>1, <2>2
<1> QED
  BY <1>1, <1>2, <1>3, <1>4, <1>5 DEF RoutingInv, First, Model

\* Going on from lines that are ready is a step.
LEMMA MovedSteps ==
    ASSUME RoutingInv, NEW c \in Calls, NEW q, Ready(c, q), NEW r, Moved(c, r, q),
           Tended(breaker')
    PROVE  Stepped(c, r)
<1>1. /\ r.stage \in {"idle", "line"} /\ Placed(c, r) /\ call' = [call EXCEPT ![c] = r]
      /\ line' \in Lines /\ q \in Lines
      /\ \A m \in Models : line'[m] = q[m] \/ line'[m] = Append(q[m], c)
  BY DEF Moved, Ready
<1>2. ASSUME NEW d \in Calls \ {c}, call[d].stage \in Asleep
      PROVE  line'[Model(d)] # <<>> /\ Head(line'[Model(d)]) = d
  <2> DEFINE m == Model(d)
  <2>1. m \in Models
    BY <1>2, CallFacts DEF Asleep
  <2>2. q[m] # <<>> /\ Head(q[m]) = d
    BY <1>2 DEF Ready
  <2> HIDE DEF m
  <2>3. q[m] \in Seq(Calls)
    BY <1>1, <2>1 DEF Lines
  <2>4. Append(q[m], c) # <<>> /\ Head(Append(q[m], c)) = Head(q[m])
    BY <2>2, <2>3
  <2>5. line'[m] # <<>> /\ Head(line'[m]) = d
    BY <1>1, <2>1, <2>2, <2>4
  <2> QED
    BY <2>5 DEF m
<1> QED
  BY <1>1, <1>2 DEF Stepped, Ready, Asleep

\* Staying at the model in another stage.
LEMMA Restaged ==
    ASSUME RoutingInv, NEW c \in Calls, call[c].stage # "idle",
           NEW x \in Stages, x \notin {"sent", "gate"} \cup Asleep,
           x = "backoff" => call[c].try <= MaxRetries,
           call' = [call EXCEPT ![c].stage = x], Ready(c, line'), Tended(breaker')
    PROVE  \E r : Stepped(c, r) /\ r.stage = x /\ r.at = call[c].at
<1> DEFINE r == [call[c] EXCEPT !.stage = x]
<1>1. call' = [call EXCEPT ![c] = r]
  OBVIOUS
<1>2. r \in CallStates /\ r.stage = x /\ r.at = call[c].at /\ r.try = call[c].try
  BY CallFacts DEF CallStates
<1> HIDE DEF r
<1>3. Placed(c, r)
  BY <1>2, CallFacts DEF Placed
<1> QED
  BY <1>1, <1>2, <1>3 DEF Stepped

\* The lines after the first one got its slot.
Served(c) == [line EXCEPT ![Model(c)] = Tail(@)]

LEMMA LineFacts ==
    ASSUME RoutingInv, NEW c \in Calls, call[c].stage # "idle"
    PROVE  /\ First(c) => Ready(c, Served(c))
           /\ Ready(c, [line EXCEPT ![Model(c)] = Append(@, c)])
           /\ Ready(c, [line EXCEPT ![Model(c)] = Left(@, c)])
<1> DEFINE m == Model(c)
<1>1. m \in Models /\ line \in Lines /\ line[m] \in Seq(Calls)
  BY CallFacts DEF RoutingInv, Lines
<1>2. ASSUME NEW s \in Seq(Calls),
             \A d \in Calls \ {c} : line[m] # <<>> /\ Head(line[m]) = d => s # <<>> /\ Head(s) = d
      PROVE  Ready(c, [line EXCEPT ![m] = s])
  <2> DEFINE q == [line EXCEPT ![m] = s]
  <2>1. q \in Lines /\ q[m] = s /\ \A n \in Models \ {m} : q[n] = line[n]
    BY <1>1 DEF Lines
  <2> HIDE DEF q, m
  <2>2. ASSUME NEW d \in Calls \ {c}, call[d].stage \in Asleep
        PROVE  q[Model(d)] # <<>> /\ Head(q[Model(d)]) = d
    <3>1. Model(d) \in Models /\ line[Model(d)] # <<>> /\ Head(line[Model(d)]) = d
      BY <2>2, CallFacts DEF RoutingInv, First, Asleep
    <3> QED
      BY <1>2, <2>1, <3>1
  <2>3. Ready(c, q)
    BY <2>1, <2>2 DEF Ready
  <2> QED
    BY <2>3 DEF q
<1> HIDE DEF m
<1>3. First(c) => Ready(c, Served(c))
  <2> SUFFICES ASSUME First(c) PROVE Ready(c, [line EXCEPT ![m] = Tail(line[m])])
    BY DEF Served, m
  <2>1. line[m] # <<>> /\ Head(line[m]) = c
    BY DEF First, m
  <2>2. Tail(line[m]) \in Seq(Calls)
    BY <1>1, <2>1
  <2> QED
    BY <1>2, <2>1, <2>2
<1>4. Ready(c, [line EXCEPT ![m] = Append(line[m], c)])
  <2>1. /\ Append(line[m], c) \in Seq(Calls) /\ Append(line[m], c) # <<>>
        /\ line[m] # <<>> => Head(Append(line[m], c)) = Head(line[m])
    <3> DEFINE t == line[m]
    <3>1. t \in Seq(Calls)
      BY <1>1
    <3> HIDE DEF t
    <3>2. Append(t, c) \in Seq(Calls) /\ Len(Append(t, c)) = Len(t) + 1 /\ Len(t) \in Nat
      BY <3>1
    <3>3. ASSUME t # <<>>
          PROVE  Head(Append(t, c)) = Head(t)
      BY <3>1, <3>3
    <3>4. Append(t, c) # <<>>
      BY <3>2
    <3> QED
      BY <3>2, <3>3, <3>4 DEF t
  <2> QED
    BY <1>2, <2>1
<1>5. Ready(c, [line EXCEPT ![m] = Left(line[m], c)])
  <2> DEFINE s == line[m]
             place == CHOOSE k \in DOMAIN s : s[k] = c
             rest == [k \in 1 .. Len(s) - 1 |-> IF k < place THEN s[k] ELSE s[k + 1]]
  <2>1. CASE ~Contains(s, c)
    <3>1. Left(s, c) = s
      BY <2>1 DEF Left
    <3> QED
      BY <1>1, <1>2, <3>1
  <2>2. CASE Contains(s, c)
    <3>1. PICK p \in 1 .. Len(s) : s[p] = c
      BY <2>2 DEF Contains
    <3>2. s \in Seq(Calls) /\ Len(s) \in Nat /\ DOMAIN s = 1 .. Len(s)
      BY <1>1
    <3>3. place \in 1 .. Len(s) /\ s[place] = c
      BY <3>1, <3>2
    <3>4. Left(s, c) = rest
      BY <2>2 DEF Left
    <3> HIDE DEF place, s
    <3>5. /\ rest \in Seq(Calls) /\ Len(rest) = Len(s) - 1
          /\ \A k \in 1 .. Len(s) - 1 : rest[k] = IF k < place THEN s[k] ELSE s[k + 1]
      BY <3>1, <3>2
    <3> HIDE DEF rest
    <3>6. ASSUME NEW d \in Calls \ {c}, s # <<>>, Head(s) = d
          PROVE  rest # <<>> /\ Head(rest) = d
      <4>1. s[1] = d /\ place # 1
        BY <3>2, <3>3, <3>6
      <4>2. 1 < place /\ 1 \in 1 .. Len(s) - 1
        BY <3>2, <3>3, <4>1
      <4> QED
        BY <3>2, <3>5, <4>1, <4>2
    <3> QED
      BY <1>2, <3>4, <3>5, <3>6 DEF s
  <2> QED
    BY <2>1, <2>2
<1> QED
  BY <1>3, <1>4, <1>5 DEF m

\* The steps that a granted slot leads to.
LEMMA AttemptSteps ==
    ASSUME RoutingInv, NEW c \in Calls, call[c].stage # "idle",
           NEW n \in 1 .. MaxRetries + 1, NEW q, Ready(c, q), NEW s, NEW u, Attempt(c, call[c].at, n, q, s, u)
    PROVE  \E r : Stepped(c, r) /\ r.stage \in {"idle", "line", "sent"}
<1> DEFINE i == call[c].at
<1>1. i \in DOMAIN Chain[c] /\ i \in Nat /\ Model(c) = Chain[c][i] /\ q \in Lines
  BY CallFacts DEF Model, Ready
<1> HIDE DEF i
<1>2. Attempt(c, i, n, q, s, u)
  BY DEF i
<1>3. /\ Tended(breaker')
      /\ \/ /\ call' = [call EXCEPT ![c] = [stage |-> "sent", at |-> i, try |-> n]]
            /\ ~Rests(breaker[Chain[c][i]])
            /\ line' = q
         \/ \E r : Moved(c, r, q)
  BY <1>1, <1>2, AttemptFacts
<1>4. ASSUME NEW r, Moved(c, r, q)
      PROVE  Stepped(c, r) /\ r.stage \in {"idle", "line", "sent"}
  BY <1>3, <1>4, MovedSteps DEF Moved
<1>5. ASSUME call' = [call EXCEPT ![c] = [stage |-> "sent", at |-> i, try |-> n]],
             ~Rests(breaker[Chain[c][i]]), line' = q
      PROVE  \E r : Stepped(c, r) /\ r.stage \in {"idle", "line", "sent"}
  <2> DEFINE r == [stage |-> "sent", at |-> i, try |-> n]
  <2>1. Placed(c, r) /\ r.stage = "sent" /\ r.at = i
    BY <1>1, Retries DEF Placed, CallStates, Stages, Holding
  <2>2. call' = [call EXCEPT ![c] = r]
    BY <1>5
  <2> HIDE DEF r
  <2>3. Stepped(c, r)
    BY <1>3, <1>5, <2>1, <2>2 DEF Stepped, Asleep
  <2> QED
    BY <2>1, <2>3
<1> QED
  BY <1>3, <1>4, <1>5

LEMMA GoOnSteps ==
    ASSUME RoutingInv, NEW c \in Calls, NEW i \in Nat, i > 0, NEW b, Tended(b),
           NEW q, Ready(c, q), GoOn(c, i, b, q)
    PROVE  \E r : Stepped(c, r) /\ r.stage \in {"idle", "line"}
<1>1. Tended(breaker') /\ \E r : Moved(c, r, q)
  BY GoOnFacts DEF Ready
<1> QED
  BY <1>1, MovedSteps DEF Moved

LEMMA GrantedSteps ==
    ASSUME RoutingInv, NEW c \in Calls, call[c].stage \in InLine, First(c),
           NEW ages, Granted(c, ages)
    PROVE  \E r : Stepped(c, r) /\ r.stage \notin Asleep
<1>1. /\ call[c].stage # "idle" /\ Ready(c, Served(c)) /\ Model(c) \in Models /\ Tended(breaker)
      /\ call[c].at + 1 \in Nat /\ call[c].at + 1 > 0
  BY CallFacts, LineFacts DEF InLine
<1>2. CASE Correct(c, Served(c))
  <2>1. CASE GoOn(c, call[c].at + 1, breaker, Served(c))
    BY <1>1, <2>1, GoOnSteps DEF Asleep
  <2>2. CASE /\ call' = [call EXCEPT ![c].stage = "resent"] /\ line' = Served(c)
             /\ UNCHANGED breaker
    <3>1. Ready(c, line') /\ Tended(breaker')
      BY <1>1, <2>2 DEF Tended
    <3>2. "resent" \in Stages /\ "resent" \notin {"sent", "gate"} \cup Asleep
      BY DEF Stages, Holding, Asleep
    <3>3. \E r : Stepped(c, r) /\ r.stage = "resent"
      BY <1>1, <2>2, <3>1, <3>2, Restaged
    <3> QED
      BY <3>3 DEF Asleep
  <2> QED
    BY <1>2, <2>1, <2>2 DEF Correct
<1>3. ASSUME NEW s, NEW u, Attempt(c, call[c].at, 1, Served(c), s, u)
      PROVE  \E r : Stepped(c, r) /\ r.stage \notin Asleep
  BY <1>1, <1>3, AttemptSteps, Retries DEF Asleep
<1>4. CASE /\ IsLocal(Model(c)) /\ call' = [call EXCEPT ![c].stage = "gate"]
           /\ line' = Served(c) /\ UNCHANGED breaker
  <2> DEFINE r == [call[c] EXCEPT !.stage = "gate"]
  <2>1. call' = [call EXCEPT ![c] = r]
    BY <1>4
  <2>2. r \in CallStates /\ r.stage = "gate" /\ r.at = call[c].at /\ r.try = call[c].try
    BY CallFacts DEF CallStates, Stages
  <2> HIDE DEF r
  <2>3. Placed(c, r)
    BY <1>1, <1>4, <2>2, CallFacts DEF Placed, Model
  <2>4. Stepped(c, r)
    BY <1>1, <1>4, <2>1, <2>2, <2>3 DEF Stepped, Asleep, Tended
  <2> QED
    BY <2>2, <2>4 DEF Asleep
<1> QED
  BY <1>2, <1>3, <1>4 DEF Granted, Served

\* What an answer does to the breaker of its model.
LEMMA TendedAt ==
    ASSUME RoutingInv, NEW m \in Models
    PROVE  /\ Tended([breaker EXCEPT ![m] = Failed(@)])
           /\ Tended([breaker EXCEPT ![m] = Succeeded(@)])
<1>1. breaker \in [Models -> BreakerStates] /\ breaker[m] \in BreakerStates
  BY DEF RoutingInv
<1>2. ASSUME NEW b \in BreakerStates, Rests(breaker[m]) => Rests(b)
      PROVE  Tended([breaker EXCEPT ![m] = b])
  BY <1>1, <1>2 DEF Tended
<1> QED
  BY <1>1, <1>2, BreakerFacts

\* A failed attempt: a retry, or the next model.
LEMMA AttemptFailsSteps ==
    ASSUME RoutingInv, NEW c \in Calls, call[c].stage # "idle", NEW retryable,
           AttemptFails(c, retryable)
    PROVE  \E r : Stepped(c, r) /\ r.stage \notin Asleep
<1> DEFINE b == [breaker EXCEPT ![Model(c)] = Failed(@)]
<1>1. /\ Tended(b) /\ Ready(c, line) /\ call[c].at + 1 \in Nat /\ call[c].at + 1 > 0
  BY CallFacts, TendedAt
<1>2. \/ /\ call' = [call EXCEPT ![c].stage = "backoff"] /\ breaker' = b /\ line' = line
         /\ call[c].try <= MaxRetries
      \/ GoOn(c, call[c].at + 1, b, line)
  BY DEF AttemptFails
<1> HIDE DEF b
<1>3. CASE /\ call' = [call EXCEPT ![c].stage = "backoff"] /\ breaker' = b /\ line' = line
           /\ call[c].try <= MaxRetries
  <2>1. Ready(c, line') /\ Tended(breaker')
    BY <1>1, <1>3 DEF Tended
  <2>2. "backoff" \in Stages /\ "backoff" \notin {"sent", "gate"} \cup Asleep
    BY DEF Stages, Holding, Asleep
  <2>3. \E r : Stepped(c, r) /\ r.stage = "backoff"
    BY <1>3, <2>1, <2>2, Restaged
  <2> QED
    BY <2>3 DEF Asleep
<1>4. CASE GoOn(c, call[c].at + 1, b, line)
  BY <1>1, <1>4, GoOnSteps DEF Asleep
<1> QED
  BY <1>2, <1>3, <1>4

\* The call is over.
LEMMA DoneSteps ==
    ASSUME RoutingInv, NEW c \in Calls, Done(c), Ready(c, line'), Tended(breaker')
    PROVE  \E r : Stepped(c, r) /\ r.stage \notin Asleep
<1>1. Placed(c, Idle) /\ Idle.stage = "idle"
  BY Retries DEF Idle, Placed, CallStates, Stages
<1>2. Stepped(c, Idle)
  BY <1>1 DEF Stepped, Done, Asleep
<1> QED
  BY <1>1, <1>2 DEF Asleep

\* All a call can do but fall asleep.
LEMMA CallSteps ==
    ASSUME RoutingInv, NEW c \in Calls,
           \/ Execute(c) \/ Cancel(c) \/ Grant(c) \/ WakeUp(c) \/ TakeGate(c) \/ GateBusy(c)
           \/ Succeed(c) \/ Malformed(c) \/ Refused(c) \/ PauseEnds(c) \/ Fail(c)
           \/ BackoffEnds(c) \/ CorrectionAnswered(c)
    PROVE  \E r : Stepped(c, r) /\ r.stage \notin Asleep
<1> DEFINE goal == \E r : Stepped(c, r) /\ r.stage \notin Asleep
           m == Model(c)
           next == call[c].at + 1
<1>1. Ready(c, line) /\ Tended(breaker)
  BY CallFacts
<1>2. call[c].stage # "idle" => m \in Models /\ next \in Nat /\ next > 0
  BY CallFacts
<1>3. ASSUME NEW i \in Nat, i > 0, NEW b, Tended(b), GoOn(c, i, b, line)
      PROVE  goal
  BY <1>1, <1>3, GoOnSteps DEF Asleep
<1>4. ASSUME NEW x \in Stages, x \notin {"sent", "gate", "backoff"} \cup Asleep,
             call[c].stage # "idle",
             call' = [call EXCEPT ![c].stage = x], Ready(c, line'), Tended(breaker')
      PROVE  goal
  BY <1>4, Restaged
<1>5. UNCHANGED line => Ready(c, line')
  BY <1>1
<1>6. UNCHANGED breaker => Tended(breaker')
  BY <1>1 DEF Tended
<1>7. CASE Execute(c)
  BY <1>1, <1>3, <1>7 DEF Execute
<1>8. CASE Cancel(c)
  <2>1. call[c].stage # "idle" /\ Done(c) /\ LineLeft(c) /\ UNCHANGED breaker
    BY <1>8 DEF Cancel
  <2>2. Ready(c, line')
    BY <2>1, LineFacts DEF LineLeft
  <2> QED
    BY <1>6, <2>1, <2>2, DoneSteps
<1>9. CASE Grant(c)
  BY <1>9, GrantedSteps DEF Grant, InLine
<1>10. CASE WakeUp(c)
  <2>1. First(c) /\ call[c].stage \in InLine
    BY <1>10 DEF WakeUp, RoutingInv, Asleep, InLine
  <2> QED
    BY <1>10, <2>1, GrantedSteps DEF WakeUp
<1>11. CASE TakeGate(c)
  <2>1. Attempt(c, call[c].at, 1, line, Resumed(gate, c), inUse + 1) /\ call[c].stage # "idle"
    BY <1>11 DEF TakeGate
  <2> QED
    BY <1>1, <2>1, AttemptSteps, Retries DEF Asleep
<1>12. CASE GateBusy(c)
  BY <1>1, <1>2, <1>3, <1>12 DEF GateBusy
<1>13. CASE Succeed(c)
  <2>1. call[c].stage # "idle" /\ Done(c) /\ UNCHANGED line
        /\ breaker' = [breaker EXCEPT ![m] = Succeeded(@)]
    BY <1>13 DEF Succeed
  <2> HIDE DEF m
  <2>2. Tended(breaker')
    BY <1>2, <2>1, TendedAt DEF Tended
  <2> QED
    BY <1>5, <2>1, <2>2, DoneSteps
<1>14. CASE Malformed(c)
  <2> DEFINE b == [breaker EXCEPT ![m] = Succeeded(@)]
  <2>1. Tended(b) /\ call[c].stage # "idle"
    BY <1>2, <1>14, TendedAt DEF Malformed
  <2>2. \/ GoOn(c, next, b, line)
        \/ /\ call' = [call EXCEPT ![c].stage = "reline"]
           /\ line' = [line EXCEPT ![m] = Append(@, c)] /\ breaker' = b
    BY <1>14 DEF Malformed
  <2> HIDE DEF b
  <2>3. CASE GoOn(c, next, b, line)
    BY <1>2, <1>3, <2>1, <2>3
  <2>4. CASE /\ call' = [call EXCEPT ![c].stage = "reline"]
             /\ line' = [line EXCEPT ![m] = Append(@, c)] /\ breaker' = b
    <3>1. Ready(c, line')
      BY <2>1, <2>4, LineFacts
    <3>2. Tended(breaker')
      BY <2>1, <2>4 DEF Tended
    <3>3. "reline" \in Stages /\ "reline" \notin {"sent", "gate", "backoff"} \cup Asleep
      BY DEF Stages, InLine, Asleep
    <3> QED
      BY <1>4, <2>1, <2>4, <3>1, <3>2, <3>3
  <2> QED
    BY <2>2, <2>3, <2>4
<1>15. CASE Refused(c)
  <2>1. /\ call[c].stage # "idle" /\ UNCHANGED <<line, breaker>>
        /\ \E x \in {"pausing", "repausing"} : call' = [call EXCEPT ![c].stage = x]
    BY <1>15 DEF Refused
  <2>2. \A x \in {"pausing", "repausing"} : x \in Stages /\ x \notin {"sent", "gate", "backoff"} \cup Asleep
    BY DEF Stages, Holding, Asleep
  <2> QED
    BY <1>4, <1>5, <1>6, <2>1, <2>2
<1>16. CASE PauseEnds(c)
  <2>1. call[c].stage # "idle"
    BY <1>16 DEF PauseEnds
  <2>2. CASE CorrectionFails(c)
    BY <1>1, <1>2, <1>3, <2>1, <2>2 DEF CorrectionFails
  <2>3. ASSUME NEW retryable, AttemptFails(c, retryable)
        PROVE  goal
    BY <2>1, <2>3, AttemptFailsSteps
  <2> QED
    BY <1>16, <2>2, <2>3 DEF PauseEnds
<1>17. CASE Fail(c)
  <2>1. call[c].stage # "idle"
    BY <1>17 DEF Fail
  <2>2. PICK answer : AttemptFails(c, answer = "transient")
    BY <1>17 DEF Fail
  <2> QED
    BY <2>1, <2>2, AttemptFailsSteps
<1>18. CASE BackoffEnds(c)
  <2>1. /\ call[c].stage # "idle" /\ call[c].try + 1 \in 1 .. MaxRetries + 1
        /\ Attempt(c, call[c].at, call[c].try + 1, line, gate, inUse)
    BY <1>18, CallFacts, Retries DEF BackoffEnds, CallStates, Placed
  <2> QED
    BY <1>1, <2>1, AttemptSteps DEF Asleep
<1>19. CASE CorrectionAnswered(c)
  <2>1. call[c].stage # "idle"
    BY <1>19 DEF CorrectionAnswered
  <2>2. CASE Done(c) /\ UNCHANGED <<line, breaker>>
    BY <1>5, <1>6, <2>2, DoneSteps
  <2>3. CASE CorrectionFails(c)
    BY <1>1, <1>2, <1>3, <2>1, <2>3 DEF CorrectionFails
  <2> QED
    BY <1>19, <2>2, <2>3 DEF CorrectionAnswered
<1> QED
  BY <1>7, <1>8, <1>9, <1>10, <1>11, <1>12, <1>13, <1>14, <1>15, <1>16, <1>17, <1>18, <1>19

LEMMA FallAsleepSteps ==
    ASSUME RoutingInv, NEW c \in Calls, FallAsleep(c)
    PROVE  \E r : Stepped(c, r) /\ r.stage \in Asleep
<1> DEFINE x == IF call[c].stage = "line" THEN "asleep" ELSE "reasleep"
           r == [call[c] EXCEPT !.stage = x]
<1>1. /\ call[c].stage # "idle" /\ First(c) /\ UNCHANGED <<line, breaker>>
      /\ call' = [call EXCEPT ![c].stage = x]
  BY DEF FallAsleep
<1>2. call' = [call EXCEPT ![c] = r]
  BY <1>1
<1>3. x \in Asleep /\ x \in Stages /\ x \notin {"sent", "gate", "idle", "backoff"}
  BY DEF Asleep, Stages, InLine, Holding
<1> HIDE DEF x
<1>4. r \in CallStates /\ r.stage = x /\ r.at = call[c].at /\ r.try = call[c].try
  BY <1>3, CallFacts DEF CallStates
<1> HIDE DEF r
<1>5. Placed(c, r)
  BY <1>1, <1>3, <1>4, CallFacts DEF Placed
<1>6. Ready(c, line') /\ Tended(breaker')
  BY <1>1, CallFacts DEF Tended
<1>7. Stepped(c, r)
  BY <1>1, <1>2, <1>3, <1>4, <1>5, <1>6 DEF Stepped
<1> QED
  BY <1>3, <1>4, <1>7

LEMMA AnyStep ==
    ASSUME RoutingInv, NEW c \in Calls, Execute(c) \/ Proceed(c) \/ Cancel(c)
    PROVE  \E r : Stepped(c, r)
  BY CallSteps, FallAsleepSteps DEF Proceed

LEMMA RoutingInit == Init => RoutingInv
<1> SUFFICES ASSUME Init PROVE RoutingInv
  OBVIOUS
<1>1. /\ call = [c \in Calls |-> Idle] /\ line = [m \in Models |-> <<>>]
      /\ breaker = [m \in Models |-> [st |-> "closed", fails |-> 0, age |-> 0]]
  BY DEF Init
<1>2. Idle \in CallStates /\ Idle.stage = "idle" /\ Idle.stage \notin Asleep
  BY Retries DEF Idle, CallStates, Stages, Asleep
<1>3. call \in [Calls -> CallStates] /\ \A c \in Calls : call[c] = Idle
  BY <1>1, <1>2
<1>4. line \in Lines /\ breaker \in [Models -> BreakerStates]
  BY <1>1, ConstantsAssumption DEF Lines, BreakerStates
<1> QED
  BY <1>2, <1>3, <1>4 DEF RoutingInv, Placed

LEMMA RoutingTick ==
    ASSUME RoutingInv, Tick
    PROVE  RoutingInv' /\ \A m \in Models : breaker'[m].st = breaker[m].st
<1>1. /\ UNCHANGED <<call, line>> /\ Rest \in Nat
      /\ breaker' = [m \in Models |-> IF breaker[m].st = "open"
                                      THEN [breaker[m] EXCEPT !.age = Capped(@ + 1, Rest)]
                                      ELSE breaker[m]]
  BY ConstantsAssumption DEF Tick
<1>2. ASSUME NEW m \in Models
      PROVE  breaker'[m] \in BreakerStates /\ breaker'[m].st = breaker[m].st
  <2>1. breaker[m] \in BreakerStates
    BY DEF RoutingInv
  <2>2. Capped(breaker[m].age + 1, Rest) \in 0 .. Rest
    BY <1>1, <2>1 DEF Capped, BreakerStates
  <2> QED
    BY <1>1, <2>1, <2>2 DEF BreakerStates
<1>3. breaker' \in [Models -> BreakerStates]
  BY <1>1, <1>2
<1> QED
  BY <1>1, <1>2, <1>3 DEF RoutingInv, First, Model

LEMMA RoutingStays == RoutingInv /\ UNCHANGED vars => RoutingInv'
  BY DEF vars, RoutingInv, First, Model

LEMMA RoutingNext == RoutingInv /\ [Next]_vars => RoutingInv'
<1>1. ASSUME RoutingInv, NEW c \in Calls, Execute(c) \/ Proceed(c) \/ Cancel(c)
      PROVE  RoutingInv'
  BY <1>1, AnyStep, SteppedKeeps
<1> QED
  BY <1>1, RoutingTick, RoutingStays DEF Next

\* Calls are at models of their chains, who sleeps for a slot is first in its
\* line, and lines and breakers keep their form.
THEOREM RoutingInvariant == Spec => []RoutingInv
  BY RoutingInit, RoutingNext, PTL DEF Spec

\* A model whose breaker tripped stays open for reset_seconds and gets no
\* attempt, whatever the calls under way bring home.
THEOREM TrippedModelRestsHolds == Spec => TrippedModelRests
<1> DEFINE Quiet == \A m \in Models : breaker[m].st = "open" /\ breaker[m].age < Rest =>
                      /\ breaker'[m].st = "open"
                      /\ \A c \in Calls : call'[c].stage = "sent" /\ call'[c] # call[c] =>
                             Chain[c][call'[c].at] # m
<1>1. ASSUME RoutingInv, NEW c \in Calls, Execute(c) \/ Proceed(c) \/ Cancel(c)
      PROVE  Quiet
  <2>1. PICK r : Stepped(c, r)
    BY <1>1, AnyStep
  <2>2. call'[c] = r /\ \A d \in Calls \ {c} : call'[d] = call[d]
    BY <1>1, <2>1 DEF Stepped, RoutingInv
  <2>3. \A m \in Models : Rests(breaker[m]) => breaker'[m].st = "open"
    BY <2>1 DEF Stepped, Tended, Rests
  <2>4. ASSUME NEW m \in Models, Rests(breaker[m]), NEW d \in Calls,
               call'[d].stage = "sent", call'[d] # call[d]
        PROVE  Chain[d][call'[d].at] # m
    BY <2>1, <2>2, <2>4 DEF Stepped
  <2> QED
    BY <2>3, <2>4 DEF Rests
<1>2. ASSUME RoutingInv, Tick
      PROVE  Quiet
  BY <1>2, RoutingTick DEF Tick
<1>3. UNCHANGED vars => Quiet
  BY DEF vars
<1>4. RoutingInv /\ [Next]_vars => [Quiet]_vars
  BY <1>1, <1>2, <1>3 DEF Next
<1> QED
  BY <1>4, RoutingInvariant, PTL DEF Spec, TrippedModelRests

-----------------------------------------------------------------------------
(* The rate of the queues *)

\* The ages of the slots of a queue, the oldest first.  After a sleep there may be
\* one too many, of which the first has expired.
Sound(ages) ==
    /\ ages \in Seq(0 .. Window)
    /\ \A j, k \in 1 .. Len(ages) : j <= k => ages[j] >= ages[k]
    /\ Len(ages) <= Rpm \/ (Len(ages) = Rpm + 1 /\ ages[1] = Window)
RateInv ==
    /\ slots \in [Models -> Seq(0 .. Window)]
    /\ \A m \in Models : Sound(slots[m])
    /\ \A c \in Calls : call[c].stage \in Asleep => Len(slots[Model(c)]) <= Rpm

LEMMA Numbers == Rpm \in Nat /\ Window \in Nat /\ Window > 0
  BY ConstantsAssumption

LEMMA FitsFacts ==
    ASSUME NEW ages, Sound(ages)
    PROVE  Sound(Fits(ages)) /\ Len(Fits(ages)) <= Rpm
<1> DEFINE live == {k \in DOMAIN ages : ages[k] < Window}
           first == Min(live)
           rest == SubSeq(ages, first, Len(ages))
<1>1. /\ Len(ages) \in Nat /\ DOMAIN ages = 1 .. Len(ages) /\ Rpm \in Nat /\ Window \in Nat
      /\ ages \in Seq(0 .. Window)
  BY Numbers DEF Sound
<1>2. CASE live = {}
  <2>1. Fits(ages) = <<>>
    BY <1>2 DEF Fits
  <2> DEFINE none == Fits(ages)
  <2>2. none \in Seq(0 .. Window) /\ Len(none) = 0
    BY <2>1
  <2> HIDE DEF none
  <2>3. \A j, k \in 1 .. Len(none) : j <= k => none[j] >= none[k]
    BY <2>2
  <2>4. Len(none) <= Rpm
    BY <1>1, <2>2
  <2>5. Sound(none)
    BY <2>2, <2>3, <2>4 DEF Sound
  <2> QED
    BY <2>4, <2>5 DEF none
<1>3. CASE live # {}
  <2>1. live \in SUBSET Nat
    BY <1>1
  <2>2. first \in live
    BY <1>3, <2>1, MinIsLeast
  <2>3. Fits(ages) = rest
    BY <1>3 DEF Fits
  <2>4. first \in 1 .. Len(ages) /\ ages[first] < Window
    BY <1>1, <2>2
  <2> HIDE DEF first, live
  <2>5. /\ rest \in Seq(0 .. Window) /\ Len(rest) = Len(ages) - first + 1
        /\ \A k \in 1 .. Len(rest) : rest[k] = ages[first + k - 1]
    BY <1>1, <2>4
  <2> HIDE DEF rest
  <2>6. \A j, k \in 1 .. Len(rest) : j <= k => rest[j] >= rest[k]
    <3> TAKE j, k \in 1 .. Len(rest)
    <3> HAVE j <= k
    <3>1. /\ first + j - 1 \in 1 .. Len(ages) /\ first + k - 1 \in 1 .. Len(ages)
          /\ first + j - 1 <= first + k - 1
      BY <1>1, <2>4, <2>5
    <3>2. ages[first + j - 1] >= ages[first + k - 1]
      BY <3>1 DEF Sound
    <3> QED
      BY <2>5, <3>2
  <2>7. Len(rest) <= Rpm
    <3>1. CASE Len(ages) <= Rpm
      BY <1>1, <2>4, <2>5, <3>1
    <3>2. CASE Len(ages) = Rpm + 1 /\ ages[1] = Window
      <4>1. first # 1
        BY <1>1, <2>4, <3>2
      <4> QED
        BY <1>1, <2>4, <2>5, <3>2, <4>1
    <3> QED
      BY <3>1, <3>2 DEF Sound
  <2> QED
    BY <2>3, <2>5, <2>6, <2>7 DEF Sound
<1> QED
  BY <1>2, <1>3

\* A slot is added to a window with room, or after one that has expired.
LEMMA GrantFacts ==
    ASSUME NEW ages, Sound(ages), Len(ages) <= Rpm, Len(ages) < Rpm \/ Rested(ages)
    PROVE  Sound(Append(ages, 0))
<1> DEFINE more == Append(ages, 0)
           n == Len(ages)
<1>1. n \in Nat /\ DOMAIN ages = 1 .. n /\ Rpm \in Nat /\ Window \in Nat
      /\ ages \in Seq(0 .. Window) /\ \A k \in 1 .. n : ages[k] \in 0 .. Window
  BY Numbers DEF Sound
<1>2. /\ more \in Seq(0 .. Window) /\ Len(more) = n + 1 /\ more[n + 1] = 0
      /\ \A k \in 1 .. n : more[k] = ages[k]
  BY <1>1
<1> HIDE DEF more
<1>3. \A j, k \in 1 .. Len(more) : j <= k => more[j] >= more[k]
  <2> TAKE j, k \in 1 .. Len(more)
  <2> HAVE j <= k
  <2>1. CASE k = n + 1
    <3>1. more[j] \in 0 .. Window
      BY <1>1, <1>2
    <3> QED
      BY <1>1, <1>2, <2>1, <3>1
  <2>2. CASE k # n + 1
    <3>1. j \in 1 .. n /\ k \in 1 .. n
      BY <1>1, <1>2, <2>2
    <3>2. ages[j] >= ages[k]
      BY <3>1 DEF Sound
    <3> QED
      BY <1>2, <3>1, <3>2
  <2> QED
    BY <2>1, <2>2
<1>4. Len(more) <= Rpm \/ (Len(more) = Rpm + 1 /\ more[1] = Window)
  <2>1. CASE n < Rpm
    BY <1>1, <1>2, <2>1
  <2>2. CASE n = Rpm
    <3> Rested(ages)
      BY <1>1, <2>2
    <3>1. PICK k \in 1 .. n : ages[k] >= Window
      BY <1>1 DEF Rested
    <3>2. 1 \in 1 .. n /\ ages[1] >= ages[k]
      <4>1. 1 \in 1 .. n /\ 1 <= k
        BY <1>1, <3>1
      <4> QED
        BY <3>1, <4>1 DEF Sound
    <3>3. ages[1] = Window
      <4>1. ages[1] \in 0 .. Window /\ ages[k] \in 0 .. Window
        BY <1>1, <3>1, <3>2
      <4> QED
        BY <1>1, <3>1, <3>2, <4>1
    <3> QED
      BY <1>2, <2>2, <3>2, <3>3
  <2>3. n < Rpm \/ n = Rpm
    <3>1. n \in Nat /\ Rpm \in Nat /\ n <= Rpm
      BY <1>1
    <3> HIDE DEF n
    <3> QED
      BY <3>1
  <2> QED
    BY <2>1, <2>2, <2>3
<1> QED
  BY <1>2, <1>3, <1>4 DEF Sound, more

LEMMA TickFacts ==
    ASSUME NEW ages, Sound(ages), NEW older,
           older = [k \in DOMAIN ages |-> Capped(ages[k] + 1, Window)]
    PROVE  Sound(older) /\ Len(older) = Len(ages)
<1>1. /\ Len(ages) \in Nat /\ DOMAIN ages = 1 .. Len(ages) /\ Rpm \in Nat
      /\ Window \in Nat /\ Window > 0 /\ \A k \in 1 .. Len(ages) : ages[k] \in 0 .. Window
  BY Numbers DEF Sound
<1>2. \A a \in 0 .. Window : Capped(a + 1, Window) \in 0 .. Window
  BY <1>1 DEF Capped
<1>3. \A a, b \in 0 .. Window : a >= b => Capped(a + 1, Window) >= Capped(b + 1, Window)
  BY <1>1 DEF Capped
<1>4. /\ older = [k \in 1 .. Len(ages) |-> Capped(ages[k] + 1, Window)]
      /\ \A k \in 1 .. Len(ages) : older[k] = Capped(ages[k] + 1, Window)
  BY <1>1
<1>5. older \in Seq(0 .. Window) /\ Len(older) = Len(ages)
  BY <1>1, <1>2, <1>4
<1>6. \A j, k \in 1 .. Len(ages) : j <= k => older[j] >= older[k]
  BY <1>1, <1>3, <1>4 DEF Sound
<1>7. Len(ages) = Rpm + 1 /\ ages[1] = Window => older[1] = Window
  BY <1>1, <1>4 DEF Capped
<1> QED
  BY <1>5, <1>6, <1>7 DEF Sound

\* A window holds no more than Rpm slots that have not expired.
LEMMA LiveBound ==
    ASSUME NEW ages, Sound(ages)
    PROVE  Cardinality({k \in DOMAIN ages : ages[k] < Window}) <= Rpm
<1> DEFINE live == {k \in DOMAIN ages : ages[k] < Window}
<1>1. /\ Len(ages) \in Nat /\ DOMAIN ages = 1 .. Len(ages) /\ Rpm \in Nat
  BY Numbers DEF Sound
<1>2. ASSUME NEW a \in Nat, NEW b \in Nat, a > 0, b <= Rpm + a - 1, a <= b + 1,
             live \subseteq a .. b
      PROVE  Cardinality(live) <= Rpm
  <2>1. IsFiniteSet(a .. b) /\ Cardinality(a .. b) = (IF a > b THEN 0 ELSE b - a + 1)
    BY FS_Interval
  <2>2. Cardinality(live) <= Cardinality(a .. b) /\ Cardinality(live) \in Nat
    BY <1>2, <2>1, FS_Subset, FS_CardinalityType
  <2> QED
    BY <1>1, <1>2, <2>1, <2>2
<1>3. CASE Len(ages) <= Rpm
  <2>1. live \subseteq 1 .. Len(ages)
    BY <1>1
  <2> QED
    BY <1>1, <1>2, <1>3, <2>1
<1>4. CASE Len(ages) = Rpm + 1 /\ ages[1] = Window
  <2>1. live \subseteq 2 .. Rpm + 1
    BY <1>1, <1>4, Numbers
  <2> QED
    BY <1>1, <1>2, <1>4, <2>1
<1> QED
  BY <1>3, <1>4 DEF Sound

LEMMA RateInit == Init => RateInv
<1> SUFFICES ASSUME Init PROVE RateInv
  OBVIOUS
<1>1. slots = [m \in Models |-> <<>>] /\ call = [c \in Calls |-> Idle]
  BY DEF Init
<1>2. \A c \in Calls : call[c].stage \notin Asleep
  BY <1>1 DEF Idle, Asleep
<1>3. \A s : s = <<>> => Sound(s)
  <2> SUFFICES ASSUME NEW s, s = <<>> PROVE Sound(s)
    OBVIOUS
  <2>1. s \in Seq(0 .. Window) /\ Len(s) = 0
    OBVIOUS
  <2>2. \A j, k \in 1 .. Len(s) : j <= k => s[j] >= s[k]
    BY <2>1
  <2>3. Len(s) <= Rpm
    BY <2>1, Numbers
  <2> QED
    BY <2>1, <2>2, <2>3 DEF Sound
<1>4. slots \in [Models -> Seq(0 .. Window)] /\ \A m \in Models : Sound(slots[m])
  BY <1>1, <1>3
<1> QED
  BY <1>2, <1>4 DEF RateInv

LEMMA RateTick ==
    ASSUME RateInv, RoutingInv, Tick
    PROVE  RateInv'
<1>1. /\ slots' = [m \in Models |-> [k \in DOMAIN slots[m] |-> Capped(slots[m][k] + 1, Window)]]
      /\ UNCHANGED call
  BY DEF Tick
<1>2. ASSUME NEW m \in Models
      PROVE  Sound(slots'[m]) /\ Len(slots'[m]) = Len(slots[m])
  <2>1. slots'[m] = [k \in DOMAIN slots[m] |-> Capped(slots[m][k] + 1, Window)]
    BY <1>1
  <2>2. Sound(slots[m])
    BY DEF RateInv
  <2> QED
    BY <2>1, <2>2, TickFacts
<1>3. slots' \in [Models -> Seq(0 .. Window)]
  <2>1. \A m \in Models : slots'[m] \in Seq(0 .. Window)
    BY <1>2 DEF Sound
  <2>2. slots' = [m \in Models |-> slots'[m]]
    BY <1>1
  <2> QED
    BY <2>1, <2>2
<1>4. \A c \in Calls : call[c].stage \in Asleep => Model(c) \in Models
  BY CallFacts DEF Asleep
<1>5. \A c \in Calls : call[c].stage \in Asleep => Len(slots'[Model(c)]) <= Rpm
  BY <1>2, <1>4 DEF RateInv
<1> QED
  BY <1>1, <1>2, <1>3, <1>5 DEF RateInv, Model

\* A step of the first in line, which sets the slots of its queue.
LEMMA SlotSteps ==
    ASSUME RateInv, RoutingInv, NEW c \in Calls, NEW r, Stepped(c, r),
           call[c].stage # "idle", First(c), NEW ages, Sound(ages),
           slots' = [slots EXCEPT ![Model(c)] = ages],
           r.stage \in Asleep => Len(ages) <= Rpm
    PROVE  RateInv'
<1> DEFINE m == Model(c)
<1>1. m \in Models /\ slots'[m] = ages /\ \A n \in Models \ {m} : slots'[n] = slots[n]
  BY CallFacts DEF RateInv
<1>2. slots' \in [Models -> Seq(0 .. Window)] /\ \A n \in Models : Sound(slots'[n])
  BY <1>1 DEF RateInv, Sound
<1>3. call'[c] = r /\ \A d \in Calls \ {c} : call'[d] = call[d]
  BY DEF Stepped, RoutingInv
<1>4. ASSUME NEW d \in Calls, call'[d].stage \in Asleep
      PROVE  Len(slots'[Chain[d][call'[d].at]]) <= Rpm
  <2>1. CASE d = c
    <3>1. Chain[c][call'[c].at] = m /\ r.stage \in Asleep
      BY <1>3, <1>4, <2>1 DEF Stepped, Model
    <3> HIDE DEF m
    <3> QED
      BY <1>1, <2>1, <3>1
  <2>2. CASE d # c
    <3>1. call[d].stage \in Asleep /\ Chain[d][call'[d].at] = Model(d)
      BY <1>3, <1>4, <2>2 DEF Model
    <3>2. Model(d) \in Models /\ First(d)
      BY <3>1, CallFacts DEF RoutingInv, Asleep
    <3>3. Model(d) # m
      BY <2>2, <3>2 DEF First
    <3> HIDE DEF m
    <3> QED
      BY <1>1, <3>1, <3>2, <3>3 DEF RateInv
  <2> QED
    BY <2>1, <2>2
<1> QED
  BY <1>2, <1>4 DEF RateInv, Model

LEMMA RateStep ==
    ASSUME RateInv, RoutingInv, NEW c \in Calls, Execute(c) \/ Proceed(c) \/ Cancel(c)
    PROVE  RateInv'
<1>1. CASE Grant(c)
  <2> DEFINE ages == Fits(slots[Model(c)])
  <2>1. call[c].stage # "idle" /\ First(c) /\ Len(ages) < Rpm
        /\ slots' = [slots EXCEPT ![Model(c)] = Append(ages, 0)]
    BY <1>1 DEF Grant, Granted
  <2>2. Sound(ages) /\ Len(ages) <= Rpm
    BY <2>1, CallFacts, FitsFacts DEF RateInv
  <2> HIDE DEF ages
  <2>3. Sound(Append(ages, 0))
    BY <2>1, <2>2, GrantFacts
  <2>4. PICK r : Stepped(c, r) /\ r.stage \notin Asleep
    BY <1>1, CallSteps
  <2> QED
    BY <2>1, <2>3, <2>4, SlotSteps
<1>2. CASE WakeUp(c)
  <2> DEFINE ages == slots[Model(c)]
  <2>1. call[c].stage \in Asleep /\ Rested(ages)
        /\ slots' = [slots EXCEPT ![Model(c)] = Append(ages, 0)]
    BY <1>2 DEF WakeUp, Granted, Asleep
  <2>2. call[c].stage # "idle" /\ First(c) /\ Len(ages) <= Rpm /\ Sound(ages)
    BY <2>1, CallFacts DEF RateInv, RoutingInv, Asleep
  <2> HIDE DEF ages
  <2>3. Sound(Append(ages, 0))
    BY <2>1, <2>2, GrantFacts
  <2>4. PICK r : Stepped(c, r) /\ r.stage \notin Asleep
    BY <1>2, CallSteps
  <2> QED
    BY <2>1, <2>2, <2>3, <2>4, SlotSteps
<1>3. CASE FallAsleep(c)
  <2> DEFINE ages == Fits(slots[Model(c)])
  <2>1. call[c].stage # "idle" /\ First(c) /\ slots' = [slots EXCEPT ![Model(c)] = ages]
    BY <1>3 DEF FallAsleep
  <2>2. Sound(ages) /\ Len(ages) <= Rpm
    BY <2>1, CallFacts, FitsFacts DEF RateInv
  <2> HIDE DEF ages
  <2>3. PICK r : Stepped(c, r)
    BY <1>3, FallAsleepSteps
  <2> QED
    BY <2>1, <2>2, <2>3, SlotSteps
<1>4. CASE \/ Execute(c) \/ Cancel(c) \/ TakeGate(c) \/ GateBusy(c) \/ Succeed(c)
           \/ Malformed(c) \/ Refused(c) \/ PauseEnds(c) \/ Fail(c) \/ BackoffEnds(c)
           \/ CorrectionAnswered(c)
  <2>1. UNCHANGED slots
    BY <1>4 DEF Execute, Cancel, TakeGate, GateBusy, Succeed, Malformed, Refused, PauseEnds,
                Fail, BackoffEnds, CorrectionAnswered
  <2>2. PICK r : Stepped(c, r) /\ r.stage \notin Asleep
    BY <1>4, CallSteps
  <2>3. call'[c] = r /\ \A d \in Calls \ {c} : call'[d] = call[d]
    BY <2>2 DEF Stepped, RoutingInv
  <2>4. \A d \in Calls : call'[d].stage \in Asleep => call'[d] = call[d]
    BY <2>2, <2>3
  <2> QED
    BY <2>1, <2>4 DEF RateInv, Model
<1> QED
  BY <1>1, <1>2, <1>3, <1>4 DEF Proceed

LEMMA RateNext == RateInv /\ RoutingInv /\ [Next]_vars => RateInv'
<1>1. RateInv /\ UNCHANGED vars => RateInv'
  BY DEF vars, RateInv, Model
<1> QED
  BY <1>1, RateTick, RateStep DEF Next

\* No window of time holds more than rpm grants of a queue, although the grant
\* after a sleep does not look at the window again.
THEOREM RateIsKept == Spec => []RateKept
<1>1. RateInv => RateKept
  BY LiveBound DEF RateInv, RateKept
<1> QED
  BY <1>1, RateInit, RateNext, RoutingInvariant, PTL DEF Spec

-----------------------------------------------------------------------------
(* The gate of the local model *)

\* A semaphore, and the slots that it has to give or has given to who waits.
Gate(s) ==
    /\ s \in [free : Nat, waiters : Seq(Calls), woken : SUBSET Calls]
Slots(s) == s.free + Cardinality(s.woken)

LEMMA Counting ==
    ASSUME NEW S \in SUBSET Calls
    PROVE  /\ IsFiniteSet(S) /\ Cardinality(S) \in Nat
           /\ \A x \in Calls \ S : Cardinality(S \cup {x}) = Cardinality(S) + 1
           /\ \A x \in S : Cardinality(S \ {x}) = Cardinality(S) - 1
<1>1. IsFiniteSet(S) /\ Cardinality(S) \in Nat
  BY ConstantsAssumption, FS_Subset, FS_CardinalityType
<1> QED
  BY <1>1, FS_AddElement, FS_RemoveElement

LEMMA FreedFacts ==
    ASSUME NEW s, Gate(s)
    PROVE  Gate(Freed(s)) /\ Slots(Freed(s)) = Slots(s) + 1
<1> DEFINE more == [s EXCEPT !.free = @ + 1]
<1>1. /\ more = [free |-> s.free + 1, waiters |-> s.waiters, woken |-> s.woken]
      /\ s.free \in Nat /\ s.free + 1 \in Nat /\ s.waiters \in Seq(Calls) /\ s.woken \in SUBSET Calls
  BY DEF Gate
<1>2. /\ Gate(more) /\ more.free = s.free + 1 /\ more.woken = s.woken
      /\ more.waiters = s.waiters
  BY <1>1 DEF Gate
<1> HIDE DEF more
<1>3. Freed(s) = WakeNext(more)
  BY DEF Freed, more
<1>4. Cardinality(s.woken) \in Nat
  BY <1>1, Counting
<1>5. CASE Unwoken(more) = {}
  <2>1. Freed(s) = more
    BY <1>3, <1>5 DEF WakeNext
  <2> QED
    BY <1>1, <1>2, <1>4, <2>1 DEF Slots
<1>6. CASE Unwoken(more) # {}
  <2>1. Unwoken(more) \in SUBSET Nat /\ Unwoken(more) \subseteq DOMAIN s.waiters
    BY <1>1, <1>2 DEF Unwoken
  <2>2. FirstUnwoken(more) \in Unwoken(more)
    BY <1>6, <2>1, MinIsLeast DEF FirstUnwoken
  <2> DEFINE w == more.waiters[FirstUnwoken(more)]
  <2>3. w \in Calls \ s.woken
    BY <1>1, <1>2, <2>1, <2>2 DEF Unwoken
  <2> HIDE DEF w
  <2>4. Freed(s) = [Taken(more) EXCEPT !.woken = @ \cup {w}]
    BY <1>3, <1>6 DEF WakeNext, w
  <2>5. Freed(s) = [free |-> s.free, waiters |-> s.waiters, woken |-> s.woken \cup {w}]
    <3>1. Taken(more) = [free |-> more.free - 1, waiters |-> more.waiters, woken |-> more.woken]
      BY <1>2 DEF Gate, Taken
    <3>2. more.free - 1 = s.free
      BY <1>1, <1>2
    <3> QED
      BY <1>2, <2>4, <3>1, <3>2
  <2>6. Cardinality(s.woken \cup {w}) = Cardinality(s.woken) + 1
    BY <1>1, <2>3, Counting
  <2>7. s.woken \cup {w} \in SUBSET Calls
    BY <1>1, <2>3
  <2>8. Gate(Freed(s))
    BY <1>1, <2>5, <2>7 DEF Gate
  <2>9. Freed(s).free = s.free /\ Freed(s).woken = s.woken \cup {w}
    BY <2>5
  <2>10. Slots(Freed(s)) = s.free + (Cardinality(s.woken) + 1)
    BY <2>6, <2>9 DEF Slots
  <2>11. Slots(Freed(s)) = Slots(s) + 1
    BY <1>1, <1>4, <2>10 DEF Slots
  <2> QED
    BY <2>8, <2>11
<1> QED
  BY <1>5, <1>6

LEMMA TakenFacts ==
    ASSUME NEW s, Gate(s), ~Locked(s)
    PROVE  Gate(Taken(s)) /\ Slots(Taken(s)) = Slots(s) - 1
<1>1. s.free \in Nat /\ s.free # 0 /\ s.woken \in SUBSET Calls
  BY DEF Gate, Locked
<1>2. Taken(s) = [free |-> s.free - 1, waiters |-> s.waiters, woken |-> s.woken]
  BY DEF Gate, Taken
<1>3. Cardinality(s.woken) \in Nat
  BY <1>1, Counting
<1>4. s.free - 1 \in Nat
  BY <1>1
<1>5. Gate(Taken(s))
  BY <1>1, <1>2, <1>4 DEF Gate
<1>6. Taken(s).free = s.free - 1 /\ Taken(s).woken = s.woken
  BY <1>2
<1>7. Slots(Taken(s)) = s.free - 1 + Cardinality(s.woken)
  BY <1>6 DEF Slots
<1>8. Slots(s) = s.free + Cardinality(s.woken)
  BY DEF Slots
<1> QED
  BY <1>1, <1>3, <1>5, <1>7, <1>8

LEMMA QueuedFacts ==
    ASSUME NEW s, Gate(s), NEW c \in Calls
    PROVE  Gate(Queued(s, c)) /\ Slots(Queued(s, c)) = Slots(s)
  BY DEF Gate, Queued, Slots

LEMMA LeftFacts ==
    ASSUME NEW waiters \in Seq(Calls), NEW c
    PROVE  Left(waiters, c) \in Seq(Calls)
<1> DEFINE place == CHOOSE k \in DOMAIN waiters : waiters[k] = c
           rest == [k \in 1 .. Len(waiters) - 1 |-> IF k < place THEN waiters[k] ELSE waiters[k + 1]]
<1>1. Len(waiters) \in Nat /\ DOMAIN waiters = 1 .. Len(waiters)
  OBVIOUS
<1>2. CASE ~Contains(waiters, c)
  BY <1>2 DEF Left
<1>3. CASE Contains(waiters, c)
  <2>1. Left(waiters, c) = rest
    BY <1>3 DEF Left
  <2>2. Len(waiters) - 1 \in Nat
    BY <1>1, <1>3 DEF Contains
  <2> HIDE DEF place
  <2>3. rest \in Seq(Calls)
    BY <1>1, <2>2
  <2> QED
    BY <2>1, <2>3
<1> QED
  BY <1>2, <1>3

LEMMA WithoutFacts ==
    ASSUME NEW s, Gate(s), NEW c \in Calls
    PROVE  /\ Gate(Without(s, c))
           /\ Slots(Without(s, c)) = IF c \in s.woken THEN Slots(s) - 1 ELSE Slots(s)
<1>1. s.free \in Nat /\ s.waiters \in Seq(Calls) /\ s.woken \in SUBSET Calls
  BY DEF Gate
<1>2. Left(s.waiters, c) \in Seq(Calls)
  BY <1>1, LeftFacts
<1>3. Gate(Without(s, c))
  BY <1>1, <1>2 DEF Gate, Without
<1>4. /\ Cardinality(s.woken) \in Nat
      /\ c \in s.woken => Cardinality(s.woken \ {c}) = Cardinality(s.woken) - 1
  BY <1>1, Counting
<1>5. CASE c \in s.woken
  BY <1>1, <1>3, <1>4, <1>5 DEF Slots, Without
<1>6. CASE c \notin s.woken
  <2>1. s.woken \ {c} = s.woken
    BY <1>6
  <2> QED
    BY <1>3, <1>6, <2>1 DEF Slots, Without
<1> QED
  BY <1>5, <1>6

\* A free slot is passed on to the next, which changes no sum.
LEMMA ResumedFacts ==
    ASSUME NEW s, Gate(s), NEW c \in s.woken
    PROVE  Gate(Resumed(s, c)) /\ Slots(Resumed(s, c)) = Slots(s) - 1
<1> DEFINE left == Without(s, c)
<1>1. c \in Calls
  BY DEF Gate
<1>2. Gate(left) /\ Slots(left) = Slots(s) - 1
  BY <1>1, WithoutFacts
<1>3. Resumed(s, c) = IF left.free > 0 THEN WakeNext(left) ELSE left
  BY DEF Resumed
<1> HIDE DEF left
<1>4. CASE left.free > 0
  <2> DEFINE less == [free |-> left.free - 1, waiters |-> left.waiters, woken |-> left.woken]
  <2>1. left.free \in Nat /\ left.free - 1 \in Nat /\ left.woken \in SUBSET Calls
    BY <1>2, <1>4 DEF Gate
  <2>2. Gate(less) /\ less.free = left.free - 1 /\ less.woken = left.woken
    BY <1>2, <2>1 DEF Gate
  <2>3. [less EXCEPT !.free = @ + 1] = left
    BY <1>2, <2>1 DEF Gate
  <2> HIDE DEF less
  <2>4. Freed(less) = WakeNext(left)
    BY <2>3 DEF Freed
  <2>5. Cardinality(left.woken) \in Nat
    BY <2>1, Counting
  <2>6. Slots(less) + 1 = Slots(left)
    BY <2>1, <2>2, <2>5 DEF Slots
  <2> QED
    BY <1>2, <1>3, <1>4, <2>2, <2>4, <2>6, FreedFacts
<1>5. CASE ~(left.free > 0)
  BY <1>2, <1>3, <1>5
<1> QED
  BY <1>4, <1>5

LEMMA AbandonedFacts ==
    ASSUME NEW s, Gate(s), NEW c \in Calls
    PROVE  Gate(Abandoned(s, c)) /\ Slots(Abandoned(s, c)) = Slots(s)
<1>1. /\ Gate(Without(s, c))
      /\ Slots(Without(s, c)) = IF c \in s.woken THEN Slots(s) - 1 ELSE Slots(s)
  BY WithoutFacts
<1>2. Slots(s) \in Nat
  BY Counting DEF Gate, Slots
<1>3. CASE c \in s.woken
  BY <1>1, <1>2, <1>3, FreedFacts DEF Abandoned
<1>4. CASE c \notin s.woken
  BY <1>1, <1>4 DEF Abandoned
<1> QED
  BY <1>3, <1>4

\* Every slot of the gate is free, given to a waiter, or used by a holder.
Balanced(s, n) == Gate(s) /\ n \in Nat /\ Slots(s) + n = MaxLocal
GateInv == Balanced(gate, inUse) /\ inUse = Cardinality(GateHolders)

Holds(c, r) == r.stage \in Holding /\ IsLocal(Chain[c][r.at])
Others(c) == Cardinality(GateHolders \ {c})
With(c, holding) == IF holding THEN Others(c) + 1 ELSE Others(c)

\* The step of c leaves the gate balanced, for the others and c where it is then.
Settled(c) == Balanced(gate', inUse') /\ inUse' = With(c, Holds(c, call'[c]))

LEMMA HolderFacts ==
    ASSUME RoutingInv, GateInv, NEW c \in Calls
    PROVE  Others(c) \in Nat /\ inUse = With(c, Holds(c, call[c]))
<1>1. GateHolders \in SUBSET Calls /\ GateHolders \ {c} \in SUBSET Calls
  BY DEF GateHolders
<1>2. c \in GateHolders <=> Holds(c, call[c])
  BY DEF GateHolders, Holds, Model
<1>3. Others(c) \in Nat /\ Cardinality(GateHolders) \in Nat
  BY <1>1, Counting DEF Others
<1>4. CASE c \in GateHolders
  <2>1. Others(c) = Cardinality(GateHolders) - 1
    BY <1>1, <1>4, Counting DEF Others
  <2> QED
    BY <1>2, <1>3, <1>4, <2>1 DEF GateInv, With
<1>5. CASE c \notin GateHolders
  <2>1. GateHolders \ {c} = GateHolders
    BY <1>5
  <2> QED
    BY <1>2, <1>3, <1>5, <2>1 DEF GateInv, With, Others
<1> QED
  BY <1>4, <1>5

LEMMA SettledKeeps ==
    ASSUME RoutingInv, GateInv, NEW c \in Calls, NEW r, Stepped(c, r), Settled(c)
    PROVE  GateInv'
<1>1. call'[c] = r /\ \A d \in Calls \ {c} : call'[d] = call[d]
  BY DEF Stepped, RoutingInv
<1>2. \A d \in Calls \ {c} : d \in GateHolders' <=> d \in GateHolders
  BY <1>1 DEF GateHolders, Model
<1>3. c \in GateHolders' <=> Holds(c, call'[c])
  BY DEF GateHolders, Holds, Model
<1>4. GateHolders' \in SUBSET Calls /\ GateHolders \in SUBSET Calls
  BY DEF GateHolders
<1> DEFINE before == GateHolders
           after == GateHolders'
<1> HIDE DEF before, after
<1>5. CASE c \in after
  <2>1. after = (before \ {c}) \cup {c} /\ before \ {c} \in SUBSET Calls
    BY <1>2, <1>4, <1>5 DEF before, after
  <2>2. Cardinality(after) = Cardinality(before \ {c}) + 1
    BY <2>1, Counting
  <2> QED
    BY <1>3, <1>5, <2>2 DEF Settled, GateInv, With, Others, before, after
<1>6. CASE c \notin after
  <2>1. after = before \ {c}
    BY <1>2, <1>4, <1>6 DEF before, after
  <2> QED
    BY <1>3, <1>6, <2>1 DEF Settled, GateInv, With, Others, before, after
<1> QED
  BY <1>5, <1>6

\* Nothing happens at the gate.
LEMMA StaysSettled ==
    ASSUME RoutingInv, GateInv, NEW c \in Calls, UNCHANGED <<gate, inUse>>,
           Holds(c, call'[c]) <=> Holds(c, call[c])
    PROVE  Settled(c)
  BY HolderFacts DEF GateInv, Settled, With

LEMMA ReleaseSettles ==
    ASSUME RoutingInv, GateInv, NEW c \in Calls, NEW m, NEW s, NEW n,
           Balanced(s, n), n = With(c, IsLocal(m)), Release(m, s, n),
           ~Holds(c, call'[c])
    PROVE  Settled(c)
<1>1. Others(c) \in Nat /\ Gate(s) /\ n \in Nat /\ Slots(s) + n = MaxLocal
  BY HolderFacts DEF Balanced
<1>2. Slots(s) \in Nat
  BY <1>1, Counting DEF Gate, Slots
<1>3. CASE IsLocal(m)
  <2>1. gate' = Freed(s) /\ inUse' = n - 1 /\ n = Others(c) + 1
    BY <1>3 DEF Release, With
  <2>2. Gate(gate') /\ Slots(gate') = Slots(s) + 1
    BY <1>1, <2>1, FreedFacts
  <2>3. inUse' = Others(c) /\ Slots(gate') + inUse' = MaxLocal
    BY <1>1, <1>2, <2>1, <2>2
  <2> QED
    BY <1>1, <2>2, <2>3 DEF Settled, Balanced, With
<1>4. CASE ~IsLocal(m)
  BY <1>1, <1>4 DEF Release, Settled, Balanced, With
<1> QED
  BY <1>3, <1>4

\* Who leaves its model gives its slot back.
LEMMA LeavingSettles ==
    ASSUME RoutingInv, GateInv, NEW c \in Calls, call[c].stage \in Holding,
           Release(Model(c), gate, inUse), ~Holds(c, call'[c])
    PROVE  Settled(c)
<1>1. Balanced(gate, inUse) /\ inUse = With(c, IsLocal(Model(c)))
  BY HolderFacts DEF GateInv, Holds, Model, With
<1> QED
  BY <1>1, ReleaseSettles

LEMMA MovedIsOut ==
    ASSUME RoutingInv, NEW c \in Calls, NEW r, NEW q, Moved(c, r, q)
    PROVE  ~Holds(c, call'[c])
  BY DEF RoutingInv, Moved, Holds, Holding

LEMMA GoOnIsOut ==
    ASSUME RoutingInv, NEW c \in Calls, NEW i \in Nat, i > 0, NEW b, Tended(b), NEW q \in Lines,
           GoOn(c, i, b, q)
    PROVE  ~Holds(c, call'[c])
<1>1. PICK r : Moved(c, r, q)
  BY GoOnFacts
<1> QED
  BY <1>1, MovedIsOut

LEMMA DoneIsOut ==
    ASSUME RoutingInv, NEW c \in Calls, Done(c)
    PROVE  ~Holds(c, call'[c])
  BY DEF RoutingInv, Done, Idle, Holds, Holding

\* An attempt with the slot it needs.
LEMMA AttemptSettles ==
    ASSUME RoutingInv, GateInv, NEW c \in Calls, call[c].stage # "idle",
           NEW n \in 1 .. MaxRetries + 1, NEW q \in Lines, NEW s, NEW u, Balanced(s, u), u = With(c, IsLocal(Model(c))),
           Attempt(c, call[c].at, n, q, s, u)
    PROVE  Settled(c)
<1> DEFINE i == call[c].at
           sent == [stage |-> "sent", at |-> i, try |-> n]
<1>1. i \in DOMAIN Chain[c] /\ Model(c) = Chain[c][i]
  BY CallFacts DEF Model
<1>2. \/ call' = [call EXCEPT ![c] = sent] /\ gate' = s /\ inUse' = u
      \/ (\E r : Moved(c, r, q)) /\ Release(Model(c), s, u)
  BY <1>1, AttemptFacts
<1>3. CASE call' = [call EXCEPT ![c] = sent] /\ gate' = s /\ inUse' = u
  <2>1. Holds(c, call'[c]) <=> IsLocal(Model(c))
    BY <1>1, <1>3 DEF Holds, Holding, RoutingInv
  <2> QED
    BY <1>3, <2>1 DEF Settled, With
<1>4. CASE (\E r : Moved(c, r, q)) /\ Release(Model(c), s, u)
  <2>1. ~Holds(c, call'[c])
    BY <1>4, MovedIsOut
  <2> QED
    BY <1>4, <2>1, ReleaseSettles
<1> QED
  BY <1>2, <1>3, <1>4

LEMMA GrantedSettles ==
    ASSUME RoutingInv, GateInv, NEW c \in Calls, call[c].stage \in InLine, First(c),
           NEW ages, Granted(c, ages)
    PROVE  Settled(c)
<1>1. /\ call[c].stage # "idle" /\ Served(c) \in Lines /\ Tended(breaker)
      /\ call[c].at + 1 \in Nat /\ call[c].at + 1 > 0
      /\ Others(c) \in Nat /\ inUse = With(c, Holds(c, call[c]))
      /\ Gate(gate) /\ inUse \in Nat /\ Slots(gate) + inUse = MaxLocal /\ Slots(gate) \in Nat
  <2>1. Slots(gate) \in Nat
    BY Counting DEF GateInv, Balanced, Gate, Slots
  <2> QED
    BY <2>1, CallFacts, LineFacts, HolderFacts DEF InLine, Ready, GateInv, Balanced
<1>2. CASE call[c].stage \in {"reline", "reasleep"}
  <2>1. Correct(c, Served(c)) /\ call[c].stage \in Holding
    BY <1>2 DEF Granted, Served, Holding
  <2>2. CASE /\ GoOn(c, call[c].at + 1, breaker, Served(c))
             /\ Release(Model(c), gate, inUse)
    <3>1. ~Holds(c, call'[c])
      BY <1>1, <2>2, GoOnIsOut
    <3> QED
      BY <2>1, <2>2, <3>1, LeavingSettles
  <2>3. CASE call' = [call EXCEPT ![c].stage = "resent"] /\ UNCHANGED <<gate, inUse>>
    <3>1. Holds(c, call'[c]) <=> Holds(c, call[c])
      BY <2>1, <2>3 DEF Holds, Holding, RoutingInv, CallStates
    <3> QED
      BY <2>3, <3>1, StaysSettled
  <2> QED
    BY <2>1, <2>2, <2>3 DEF Correct
<1>3. CASE call[c].stage \notin {"reline", "reasleep"}
  <2>1. inUse = Others(c) /\ ~Holds(c, call[c])
    BY <1>1, <1>3 DEF Holds, Holding, With, InLine
  <2>2. CASE ~IsLocal(Model(c)) /\ Attempt(c, call[c].at, 1, Served(c), gate, inUse)
    <3>1. Balanced(gate, inUse) /\ inUse = With(c, IsLocal(Model(c)))
      BY <1>1, <2>1, <2>2 DEF Balanced, With
    <3> QED
      BY <1>1, <2>2, <3>1, AttemptSettles, Retries
  <2>3. CASE /\ IsLocal(Model(c)) /\ ~Locked(gate)
             /\ Attempt(c, call[c].at, 1, Served(c), Taken(gate), inUse + 1)
    <3>1. Gate(Taken(gate)) /\ Slots(Taken(gate)) = Slots(gate) - 1
      BY <1>1, <2>3, TakenFacts
    <3>2. inUse + 1 \in Nat /\ Slots(Taken(gate)) + (inUse + 1) = MaxLocal
      BY <1>1, <3>1
    <3>3. Balanced(Taken(gate), inUse + 1) /\ inUse + 1 = With(c, IsLocal(Model(c)))
      BY <2>1, <2>3, <3>1, <3>2 DEF Balanced, With
    <3> QED
      BY <1>1, <2>3, <3>3, AttemptSettles, Retries
  <2>4. CASE /\ gate' = Queued(gate, c) /\ UNCHANGED inUse
             /\ call' = [call EXCEPT ![c].stage = "gate"]
    <3>1. ~Holds(c, call'[c])
      BY <2>4 DEF Holds, Holding, RoutingInv, CallStates
    <3>2. Gate(gate') /\ Slots(gate') = Slots(gate)
      BY <1>1, <2>4, QueuedFacts
    <3> QED
      BY <1>1, <2>1, <2>4, <3>1, <3>2 DEF Settled, Balanced, With
  <2> QED
    BY <1>3, <2>2, <2>3, <2>4 DEF Granted, Served
<1> QED
  BY <1>2, <1>3

\* A failed attempt keeps its slot for the retry, or gives it back.
LEMMA AttemptFailsSettles ==
    ASSUME RoutingInv, GateInv, NEW c \in Calls, call[c].stage \in Holding, NEW retryable,
           AttemptFails(c, retryable)
    PROVE  Settled(c)
<1> DEFINE b == [breaker EXCEPT ![Model(c)] = Failed(@)]
<1>1. /\ Tended(b) /\ line \in Lines /\ call[c].at + 1 \in Nat /\ call[c].at + 1 > 0
  BY CallFacts, TendedAt DEF Ready, Holding
<1>2. \/ call' = [call EXCEPT ![c].stage = "backoff"] /\ UNCHANGED <<gate, inUse>>
      \/ GoOn(c, call[c].at + 1, b, line) /\ Release(Model(c), gate, inUse)
  BY DEF AttemptFails
<1> HIDE DEF b
<1>3. CASE call' = [call EXCEPT ![c].stage = "backoff"] /\ UNCHANGED <<gate, inUse>>
  <2>1. Holds(c, call'[c]) <=> Holds(c, call[c])
    BY <1>3 DEF Holds, Holding, RoutingInv, CallStates
  <2> QED
    BY <1>3, <2>1, StaysSettled
<1>4. CASE GoOn(c, call[c].at + 1, b, line) /\ Release(Model(c), gate, inUse)
  <2>1. ~Holds(c, call'[c])
    BY <1>1, <1>4, GoOnIsOut
  <2> QED
    BY <1>4, <2>1, LeavingSettles
<1> QED
  BY <1>2, <1>3, <1>4

LEMMA CorrectionFailsSettles ==
    ASSUME RoutingInv, GateInv, NEW c \in Calls, call[c].stage \in Holding, CorrectionFails(c)
    PROVE  Settled(c)
<1>1. /\ Tended(breaker) /\ line \in Lines /\ call[c].at + 1 \in Nat /\ call[c].at + 1 > 0
  BY CallFacts DEF Ready, Holding
<1>2. GoOn(c, call[c].at + 1, breaker, line) /\ Release(Model(c), gate, inUse)
  BY DEF CorrectionFails
<1>3. ~Holds(c, call'[c])
  BY <1>1, <1>2, GoOnIsOut
<1> QED
  BY <1>2, <1>3, LeavingSettles

\* Every step of a call leaves the gate settled.
LEMMA StepSettles ==
    ASSUME RoutingInv, GateInv, NEW c \in Calls, Execute(c) \/ Proceed(c) \/ Cancel(c)
    PROVE  Settled(c)
<1>1. /\ line \in Lines /\ Tended(breaker) /\ call[c] \in CallStates
      /\ Others(c) \in Nat /\ inUse = With(c, Holds(c, call[c]))
      /\ Gate(gate) /\ inUse \in Nat /\ Slots(gate) + inUse = MaxLocal /\ Slots(gate) \in Nat
  <2>1. Slots(gate) \in Nat
    BY Counting DEF GateInv, Balanced, Gate, Slots
  <2> QED
    BY <2>1, CallFacts, HolderFacts DEF Ready, GateInv, Balanced
<1>2. call[c].stage # "idle" => Model(c) \in Models /\ call[c].at + 1 \in Nat /\ call[c].at + 1 > 0
  BY CallFacts
<1>3. ASSUME NEW x \in Stages, call' = [call EXCEPT ![c].stage = x],
             x \in Holding <=> call[c].stage \in Holding, UNCHANGED <<gate, inUse>>
      PROVE  Settled(c)
  <2>1. Holds(c, call'[c]) <=> Holds(c, call[c])
    BY <1>1, <1>3 DEF Holds, RoutingInv, CallStates
  <2> QED
    BY <1>3, <2>1, StaysSettled
<1>4. CASE Execute(c)
  <2>1. call[c].stage = "idle" /\ GoOn(c, 1, breaker, line) /\ UNCHANGED <<gate, inUse>>
    BY <1>4 DEF Execute
  <2>2. ~Holds(c, call'[c]) /\ ~Holds(c, call[c])
    BY <1>1, <2>1, GoOnIsOut DEF Holds, Holding
  <2> QED
    BY <2>1, <2>2, StaysSettled
<1>5. CASE Cancel(c)
  <2>1. call[c].stage # "idle" /\ Done(c) /\ ~Holds(c, call'[c])
    BY <1>5, DoneIsOut DEF Cancel
  <2>2. CASE call[c].stage = "gate"
    <3>1. gate' = Abandoned(gate, c) /\ UNCHANGED inUse
      BY <1>5, <2>2 DEF Cancel, GateLeft
    <3>2. Gate(gate') /\ Slots(gate') = Slots(gate)
      BY <1>1, <3>1, AbandonedFacts
    <3>3. ~Holds(c, call[c])
      BY <2>2 DEF Holds, Holding
    <3> QED
      BY <1>1, <2>1, <3>1, <3>2, <3>3 DEF Settled, Balanced, With
  <2>3. CASE call[c].stage \in Holding
    <3>1. Release(Model(c), gate, inUse)
      BY <1>5, <2>3 DEF Cancel, Holding
    <3> QED
      BY <2>1, <2>3, <3>1, LeavingSettles
  <2>4. CASE call[c].stage # "gate" /\ call[c].stage \notin Holding
    <3>1. UNCHANGED <<gate, inUse>> /\ ~Holds(c, call[c])
      BY <1>5, <2>4 DEF Cancel, Holds
    <3> QED
      BY <2>1, <3>1, StaysSettled
  <2> QED
    BY <2>2, <2>3, <2>4
<1>6. CASE Grant(c)
  BY <1>6, GrantedSettles DEF Grant, InLine
<1>7. CASE WakeUp(c)
  <2>1. First(c) /\ call[c].stage \in InLine
    BY <1>7 DEF WakeUp, RoutingInv, Asleep, InLine
  <2> QED
    BY <1>7, <2>1, GrantedSettles DEF WakeUp
<1>8. CASE FallAsleep(c)
  <2> DEFINE x == IF call[c].stage = "line" THEN "asleep" ELSE "reasleep"
  <2>1. call' = [call EXCEPT ![c].stage = x] /\ UNCHANGED <<gate, inUse>>
    BY <1>8 DEF FallAsleep
  <2>2. x \in Stages /\ (x \in Holding <=> call[c].stage \in Holding)
    BY <1>8 DEF FallAsleep, Stages, InLine, Holding
  <2> QED
    BY <1>3, <2>1, <2>2
<1>9. CASE TakeGate(c)
  <2>1. /\ call[c].stage = "gate" /\ c \in gate.woken
        /\ Attempt(c, call[c].at, 1, line, Resumed(gate, c), inUse + 1)
    BY <1>9 DEF TakeGate
  <2>2. IsLocal(Model(c)) /\ ~Holds(c, call[c])
    BY <2>1, CallFacts DEF Placed, Model, Holds, Holding
  <2>3. Gate(Resumed(gate, c)) /\ Slots(Resumed(gate, c)) = Slots(gate) - 1
    BY <1>1, <2>1, ResumedFacts
  <2>4. inUse + 1 \in Nat /\ Slots(Resumed(gate, c)) + (inUse + 1) = MaxLocal
    BY <1>1, <2>3
  <2>5. Balanced(Resumed(gate, c), inUse + 1) /\ inUse + 1 = With(c, IsLocal(Model(c)))
    BY <1>1, <2>2, <2>3, <2>4 DEF Balanced, With
  <2> QED
    BY <1>1, <2>1, <2>5, AttemptSettles, Retries
<1>10. CASE GateBusy(c)
  <2>1. /\ call[c].stage = "gate" /\ gate' = Abandoned(gate, c) /\ UNCHANGED inUse
        /\ GoOn(c, call[c].at + 1, breaker, line)
    BY <1>10 DEF GateBusy
  <2>2. ~Holds(c, call'[c]) /\ ~Holds(c, call[c])
    BY <1>1, <1>2, <2>1, GoOnIsOut DEF Holds, Holding
  <2>3. Gate(gate') /\ Slots(gate') = Slots(gate)
    BY <1>1, <2>1, AbandonedFacts
  <2> QED
    BY <1>1, <2>1, <2>2, <2>3 DEF Settled, Balanced, With
<1>11. CASE Succeed(c)
  <2>1. call[c].stage \in Holding /\ Release(Model(c), gate, inUse) /\ ~Holds(c, call'[c])
    BY <1>11, DoneIsOut DEF Succeed, Holding
  <2> QED
    BY <2>1, LeavingSettles
<1>12. CASE Malformed(c)
  <2> DEFINE b == [breaker EXCEPT ![Model(c)] = Succeeded(@)]
  <2>1. call[c].stage \in Holding /\ call[c].stage # "idle" /\ Tended(b)
    BY <1>2, <1>12, TendedAt DEF Malformed, Holding
  <2>2. \/ GoOn(c, call[c].at + 1, b, line) /\ Release(Model(c), gate, inUse)
        \/ call' = [call EXCEPT ![c].stage = "reline"] /\ UNCHANGED <<gate, inUse>>
    BY <1>12 DEF Malformed
  <2> HIDE DEF b
  <2>3. CASE GoOn(c, call[c].at + 1, b, line) /\ Release(Model(c), gate, inUse)
    <3>1. ~Holds(c, call'[c])
      BY <1>1, <1>2, <2>1, <2>3, GoOnIsOut
    <3> QED
      BY <2>1, <2>3, <3>1, LeavingSettles
  <2>4. CASE call' = [call EXCEPT ![c].stage = "reline"] /\ UNCHANGED <<gate, inUse>>
    <3>1. "reline" \in Stages /\ "reline" \in Holding
      BY DEF Stages, Holding
    <3> QED
      BY <1>3, <2>1, <2>4, <3>1
  <2> QED
    BY <2>2, <2>3, <2>4
<1>13. CASE Refused(c)
  <2>1. call[c].stage \in Holding /\ UNCHANGED <<gate, inUse>>
        /\ \E x \in {"pausing", "repausing"} : call' = [call EXCEPT ![c].stage = x]
    BY <1>13 DEF Refused, Holding
  <2>2. \A x \in {"pausing", "repausing"} : x \in Stages /\ x \in Holding
    BY DEF Stages, Holding
  <2> QED
    BY <1>3, <2>1, <2>2
<1>14. CASE PauseEnds(c)
  <2>1. call[c].stage \in Holding
        /\ (CorrectionFails(c) \/ \E retryable \in BOOLEAN : AttemptFails(c, retryable))
    BY <1>14 DEF PauseEnds, Holding
  <2> QED
    BY <2>1, AttemptFailsSettles, CorrectionFailsSettles
<1>15. CASE Fail(c)
  <2>1. call[c].stage \in Holding
    BY <1>15 DEF Fail, Holding
  <2>2. PICK answer : AttemptFails(c, answer = "transient")
    BY <1>15 DEF Fail
  <2> QED
    BY <2>1, <2>2, AttemptFailsSettles
<1>16. CASE BackoffEnds(c)
  <2>1. /\ call[c].stage \in Holding /\ call[c].stage # "idle"
        /\ call[c].try + 1 \in 1 .. MaxRetries + 1
        /\ Attempt(c, call[c].at, call[c].try + 1, line, gate, inUse)
    BY <1>1, <1>16, CallFacts, Retries DEF BackoffEnds, Holding, CallStates, Placed
  <2>2. Balanced(gate, inUse) /\ inUse = With(c, IsLocal(Model(c)))
    BY <1>1, <2>1 DEF Balanced, Holds, Model, With
  <2> QED
    BY <1>1, <2>1, <2>2, AttemptSettles
<1>17. CASE CorrectionAnswered(c)
  <2>1. call[c].stage \in Holding
    BY <1>17 DEF CorrectionAnswered, Holding
  <2>2. CASE Done(c) /\ Release(Model(c), gate, inUse)
    BY <2>1, <2>2, DoneIsOut, LeavingSettles
  <2>3. CASE CorrectionFails(c)
    BY <2>1, <2>3, CorrectionFailsSettles
  <2> QED
    BY <1>17, <2>2, <2>3 DEF CorrectionAnswered
<1> QED
  BY <1>4, <1>5, <1>6, <1>7, <1>8, <1>9, <1>10, <1>11, <1>12, <1>13, <1>14, <1>15, <1>16, <1>17
     DEF Proceed

LEMMA GateInit == Init => GateInv
<1> SUFFICES ASSUME Init PROVE GateInv
  OBVIOUS
<1>1. /\ gate = [free |-> MaxLocal, waiters |-> <<>>, woken |-> {}] /\ inUse = 0
      /\ call = [c \in Calls |-> Idle] /\ MaxLocal \in Nat
  BY ConstantsAssumption DEF Init, NewSemaphore
<1>2. Gate(gate) /\ gate.free = MaxLocal /\ gate.woken = {}
  BY <1>1 DEF Gate
<1>3. GateHolders = {}
  BY <1>1 DEF GateHolders, Idle, Holding
<1>4. Cardinality({}) = 0
  BY FS_EmptySet
<1>5. Slots(gate) = MaxLocal
  BY <1>1, <1>2, <1>4 DEF Slots
<1> QED
  BY <1>1, <1>2, <1>3, <1>4, <1>5 DEF GateInv, Balanced

LEMMA GateNext == GateInv /\ RoutingInv /\ [Next]_vars => GateInv'
<1>1. GateInv /\ UNCHANGED <<call, gate, inUse>> => GateInv'
  BY DEF GateInv, Balanced, Gate, Slots, GateHolders, Model
<1>2. ASSUME GateInv, RoutingInv, NEW c \in Calls, Execute(c) \/ Proceed(c) \/ Cancel(c)
      PROVE  GateInv'
  BY <1>2, AnyStep, StepSettles, SettledKeeps
<1> QED
  BY <1>1, <1>2 DEF Next, Tick, vars

\* Free slots, slots given to waiters and slots in use are always the slots of the
\* gate, and those in use are those of the calls at the local models.
THEOREM GateIsConserved == Spec => []GateConserved
<1>1. GateInv => GateConserved
  <2> SUFFICES ASSUME GateInv PROVE GateConserved
    OBVIOUS
  <2>1. /\ Slots(gate) + inUse = MaxLocal /\ inUse = Cardinality(GateHolders)
    BY DEF GateInv, Balanced
  <2> QED
    BY <2>1 DEF Slots, GateConserved
<1> QED
  BY <1>1, GateInit, GateNext, RoutingInvariant, PTL DEF Spec

-----------------------------------------------------------------------------
(* The client's breakers, and with them the type of the whole state *)

ClientStates == [fails : 0 .. ClientThreshold, age : 0 .. ClientRest]
ClientInv == client \in [Models -> ClientStates]

LEMMA ClientNumbers ==
    /\ ClientThreshold \in Nat /\ ClientRest \in Nat
    /\ 0 \in 0 .. ClientThreshold /\ 0 \in 0 .. ClientRest
  BY ConstantsAssumption

LEMMA HeardFacts ==
    ASSUME NEW k \in ClientStates, NEW m, NEW answer
    PROVE  Heard(k, m, answer) \in ClientStates
<1>1. \A n \in Nat : Capped(k.fails + n, ClientThreshold) \in 0 .. ClientThreshold
  BY ClientNumbers DEF Capped, ClientStates
<1>2. [fails |-> 0, age |-> 0] \in ClientStates
  BY ClientNumbers DEF ClientStates
<1>3. \A n \in Nat : ClientFailed(k, n) \in ClientStates
  BY <1>1, ClientNumbers DEF ClientFailed, ClientStates
<1>4. CASE answer \in {"valid", "invalid"}
  BY <1>2, <1>4 DEF Heard
<1>5. CASE answer = "envelope"
  BY <1>2, <1>3, <1>5 DEF Heard
<1>6. CASE answer \notin {"valid", "invalid", "envelope"}
  BY <1>3, <1>6 DEF Heard
<1> QED
  BY <1>4, <1>5, <1>6

LEMMA ClientNext == ClientInv /\ [Next]_vars => ClientInv'
<1>1. ASSUME ClientInv, NEW c \in Calls, NEW answer, Hears(c, answer)
      PROVE  ClientInv'
  <2>1. \A m \in Models : Heard(client[m], m, answer) \in ClientStates
    BY <1>1, HeardFacts DEF ClientInv
  <2> QED
    BY <1>1, <2>1 DEF ClientInv, Hears
<1>2. ASSUME ClientInv, Tick
      PROVE  ClientInv'
  <2>1. \A m \in Models : Capped(client[m].age + 1, ClientRest) \in 0 .. ClientRest
    BY <1>2, ClientNumbers DEF ClientInv, ClientStates, Capped
  <2>2. \A m \in Models : client[m] \in ClientStates
                          /\ [client[m] EXCEPT !.age = Capped(@ + 1, ClientRest)] \in ClientStates
    BY <1>2, <2>1 DEF ClientInv, ClientStates
  <2> QED
    BY <1>2, <2>2 DEF ClientInv, Tick
<1>3. ASSUME NEW c \in Calls, Execute(c) \/ Proceed(c) \/ Cancel(c)
      PROVE  UNCHANGED client \/ \E answer : Hears(c, answer)
  <2>1. CASE Grant(c) \/ WakeUp(c)
    BY <2>1 DEF Grant, WakeUp, Granted
  <2>2. CASE \/ Execute(c) \/ Cancel(c) \/ FallAsleep(c) \/ TakeGate(c) \/ GateBusy(c)
             \/ PauseEnds(c) \/ BackoffEnds(c)
    BY <2>2 DEF Execute, Cancel, FallAsleep, TakeGate, GateBusy, PauseEnds, BackoffEnds
  <2>3. CASE Succeed(c) \/ Malformed(c) \/ Refused(c)
    BY <2>3 DEF Succeed, Malformed, Refused
  <2>4. CASE Fail(c) \/ CorrectionAnswered(c)
    BY <2>4 DEF Fail, CorrectionAnswered
  <2> QED
    BY <1>3, <2>1, <2>2, <2>3, <2>4 DEF Proceed
<1>4. ClientInv /\ UNCHANGED client => ClientInv'
  BY DEF ClientInv
<1> QED
  BY <1>1, <1>2, <1>3, <1>4 DEF Next, vars

LEMMA ClientInit == Init => ClientInv
  BY ClientNumbers DEF Init, ClientInv, ClientStates

\* The state keeps its type; the gate never has more slots than its limit.
THEOREM RoutingTyped == Spec => []TypeOK
<1>1. RoutingInv /\ RateInv /\ GateInv /\ ClientInv => TypeOK
  <2> SUFFICES ASSUME RoutingInv, RateInv, GateInv, ClientInv PROVE TypeOK
    OBVIOUS
  <2>1. /\ Gate(gate) /\ inUse \in Nat /\ gate.free + Cardinality(gate.woken) + inUse = MaxLocal
        /\ Cardinality(gate.woken) \in Nat
    BY Counting DEF GateInv, Balanced, Gate, Slots
  <2>2. gate.free \in 0 .. MaxLocal /\ inUse \in 0 .. MaxLocal
    BY <2>1, ConstantsAssumption DEF Gate
  <2>3. gate \in [free : 0 .. MaxLocal, waiters : Seq(Calls), woken : SUBSET Calls]
    BY <2>1, <2>2 DEF Gate
  <2>4. /\ call \in [Calls -> CallStates]
        /\ \A c \in Calls : call[c].stage # "idle" => call[c].at \in DOMAIN Chain[c] /\ call[c].try # 0
    BY DEF RoutingInv, Placed
  <2> QED
    BY <2>2, <2>3, <2>4
       DEF TypeOK, RoutingInv, RateInv, ClientInv, CallStates, BreakerStates, ClientStates, Lines
<1>2. Spec => []RateInv
  BY RateInit, RateNext, RoutingInvariant, PTL DEF Spec
<1>3. Spec => []GateInv
  BY GateInit, GateNext, RoutingInvariant, PTL DEF Spec
<1>4. Spec => []ClientInv
  BY ClientInit, ClientNext, PTL DEF Spec
<1> QED
  BY <1>1, <1>2, <1>3, <1>4, RoutingInvariant, PTL
=============================================================================
