---------------------------- MODULE LoginLimit ----------------------------
(* The login limiter (backend/core/login_rate_limit.py): a narrow window   *)
(* per e-mail and address, a wide one per address, both in tables that     *)
(* drop their least recently used window when full; behind it, before the  *)
(* route, the bucket of requests that core/rate_limit.py keeps for it.     *)
(* A table (an OrderedDict) is a sequence of buckets, the least recently   *)
(* used first; a window is the sequence of its attempts' ages, the oldest  *)
(* first, where the code keeps their times.  check_and_record never waits, *)
(* so a call is one step.                                                  *)
EXTENDS Naturals, FiniteSets, Sequences, SequencesExt

CONSTANTS
    Names, Ips,
    EmailLimit, EmailWindow,     \* attempts per (e-mail, address), and ticks
    IpLimit, IpWindow,           \* attempts per address, and ticks
    MaxEmailBuckets, MaxIpBuckets,
    SweepEvery,                  \* calls from one sweep to the next (100)
    Capacity                     \* requests the route's bucket holds

ASSUME LimitAssumption ==
    \A n \in {EmailLimit, EmailWindow, IpLimit, IpWindow, MaxEmailBuckets,
              MaxIpBuckets, SweepEvery, Capacity} : n \in Nat \ {0}

VARIABLES
    room,            \* requests the route's bucket still lets in
    emailTable, ipTable,
    calls,           \* _prune_counter
    tries            \* history: the logins of the last windows, the last one last
loginVars == <<room, emailTable, ipTable, calls, tries>>

LoginInit ==
    /\ room = Capacity
    /\ emailTable = <<>> /\ ipTable = <<>>
    /\ calls = 0
    /\ tries = <<>>

(* --------------------------- the windows -------------------------------- *)
\* As long as the first is as old as the window, it goes: how many do.
Gone(ages, window) ==
    CHOOSE n \in 0..Len(ages) :
        /\ \A j \in 1..n : ages[j] >= window
        /\ n < Len(ages) => ages[n + 1] < window
\* SlidingWindow._prune.
Pruned(ages, window) == SubSeq(ages, Gone(ages, window) + 1, Len(ages))

HasRoom(ages, limit, window) == Len(Pruned(ages, window)) < limit
\* Mutant: a refused attempt counts as well.
AlwaysAttempted(ages, limit, window) == Append(Pruned(ages, window), 0)
\* SlidingWindow.attempt: recorded only when the window has room.
Attempted(ages, limit, window) ==
    LET live == Pruned(ages, window)
    IN  IF Len(live) < limit THEN Append(live, 0) ELSE live

\* _sweep_empty_buckets, after a prune.
Swept(table, window) ==
    LET kept[n \in 0..Len(table)] ==
            IF n = 0 THEN <<>>
            ELSE LET b == [table[n] EXCEPT !.ages = Pruned(@, window)]
                 IN  IF b.ages = <<>> THEN kept[n - 1] ELSE Append(kept[n - 1], b)
    IN  kept[Len(table)]

\* Mutant: the full table drops its newest windows.
NewestDropped(table, cap, window) ==
    LET kept == Swept(table, window) IN
    IF Len(table) < cap \/ Len(kept) < cap THEN kept ELSE SubSeq(kept, 1, cap - 1)

\* _evict_to_cap: a full table drops its empty windows and, if that is not
\* enough, its least recently used ones.
EvictedToCap(table, cap, window) ==
    LET kept == Swept(table, window) IN
    IF Len(table) < cap THEN table
    ELSE IF Len(kept) < cap THEN kept
    ELSE SubSeq(kept, Len(kept) - cap + 2, Len(kept))

\* _get_or_create_bucket: the key's bucket, moved or made at the end.
Fetched(table, key, cap, window) ==
    IF \E n \in DOMAIN table : table[n].key = key
    THEN LET n == CHOOSE n \in DOMAIN table : table[n].key = key
         IN  Append(RemoveAt(table, n), table[n])
    ELSE Append(EvictedToCap(table, cap, window), [key |-> key, ages |-> <<>>])

\* Every attempt one tick older; past the window nothing tells ages apart.
Aged(table, window) ==
    [i \in DOMAIN table |->
        [table[i] EXCEPT !.ages = [j \in DOMAIN @ |-> IF @[j] < window THEN @[j] + 1 ELSE @[j]]]]

(* ------------------------------- login ---------------------------------- *)
\* RateLimitMiddleware.dispatch: a request that finds no token is answered 429
\* and changes nothing.
Consume == room >= 1 /\ room' = room - 1

\* Every SweepEvery-th call first drops the empty windows of both tables.
SweptAt(table, window) == IF calls + 1 = SweepEvery THEN Swept(table, window) ELSE table
EmailTableAt(e, i) ==
    Fetched(SweptAt(emailTable, EmailWindow), <<e, i>>, MaxEmailBuckets, EmailWindow)
IpTableAt(i) == Fetched(SweptAt(ipTable, IpWindow), i, MaxIpBuckets, IpWindow)

\* The bucket in hand is the last one of its table.
LastAges(table) == table[Len(table)].ages
RecordedLast(table, limit, window) ==
    [table EXCEPT ![Len(table)].ages = Attempted(@, limit, window)]
NarrowHasRoom(e, i) == HasRoom(LastAges(EmailTableAt(e, i)), EmailLimit, EmailWindow)
WideHasRoom(i) == HasRoom(LastAges(IpTableAt(i)), IpLimit, IpWindow)
Verdict(e, i) ==
    IF ~NarrowHasRoom(e, i) THEN "email_ip" ELSE IF ~WideHasRoom(i) THEN "ip_only" ELSE "let_in"

\* check_and_record: the narrow window counts the attempt before the wide one
\* is asked, and keeps it when the wide one refuses.
CheckAndRecord(e, i) ==
    /\ calls' = (calls + 1) % SweepEvery
    /\ emailTable' = RecordedLast(EmailTableAt(e, i), EmailLimit, EmailWindow)
    /\ ipTable' = IF NarrowHasRoom(e, i) THEN RecordedLast(IpTableAt(i), IpLimit, IpWindow)
                                         ELSE SweptAt(ipTable, IpWindow)
    /\ tries' = Append(tries, [email |-> e, ip |-> i, age |-> 0, verdict |-> Verdict(e, i)])

\* POST /auth/login up to the database; what follows keeps nothing here.
Login(e, i) == Consume /\ CheckAndRecord(e, i)

(* -------------------------------- time ---------------------------------- *)
\* One tick: the attempts age, and the bucket gets one request back.
Longest == IF EmailWindow > IpWindow THEN EmailWindow ELSE IpWindow
Recent(history) ==
    SubSeq(history, Gone([n \in DOMAIN history |-> history[n].age], Longest) + 1, Len(history))
Tick ==
    /\ emailTable' = Aged(emailTable, EmailWindow)
    /\ ipTable' = Aged(ipTable, IpWindow)
    /\ tries' = Recent([n \in DOMAIN tries |-> [tries[n] EXCEPT !.age = @ + 1]])
    /\ room' = IF room < Capacity THEN room + 1 ELSE room
    /\ UNCHANGED calls

LoginNext == Tick \/ \E e \in Names, i \in Ips : Login(e, i)
LoginSpec == LoginInit /\ [][LoginNext]_loginVars

(* ------------------------------ properties ------------------------------ *)
Within(window) == {n \in DOMAIN tries : tries[n].age < window}
OfPair(e, i, window) == {n \in Within(window) : tries[n].email = e /\ tries[n].ip = i}
OfIp(i, window) == {n \in Within(window) : tries[n].ip = i}
\* The tries the narrow window let pass: those the wide one was asked about.
PastNarrow(set) == {n \in set : tries[n].verdict # "email_ip"}
LetIn(set) == {n \in set : tries[n].verdict = "let_in"}

\* No window is overrun while the table can hold everyone who is trying: more
\* logins than the limit get past a window, within its span, only if in that
\* span more pairs (more addresses) tried than the table has room for.  The
\* windows of the callers who keep trying are never the ones dropped.
LimitKept ==
    /\ \A e \in Names, i \in Ips :
          Cardinality(PastNarrow(OfPair(e, i, EmailWindow))) > EmailLimit =>
            Cardinality({<<tries[n].email, tries[n].ip>> : n \in Within(EmailWindow)}) > MaxEmailBuckets
    /\ \A i \in Ips :
          Cardinality(LetIn(OfIp(i, IpWindow))) > IpLimit =>
            Cardinality({tries[n].ip : n \in Within(IpWindow)}) > MaxIpBuckets

\* Nobody is locked out by others, or for longer than a window: a login is
\* refused only when the very pair (or the address) has used up its limit
\* within the span, and a refused login does not prolong the wait.
RefusedOnlyWhenSpent ==
    [][\A e \in Names, i \in Ips : Login(e, i) =>
         LET last == tries'[Len(tries')] IN
         /\ last.verdict = "email_ip" => Cardinality(PastNarrow(OfPair(e, i, EmailWindow))) >= EmailLimit
         /\ last.verdict = "ip_only" => Cardinality(LetIn(OfIp(i, IpWindow))) >= IpLimit]_loginVars
=============================================================================
