----------------------------- MODULE KillSwitch -----------------------------
(***************************************************************************)
(* The kill switch of live_trading/safety.py over a shared Redis store.    *)
(*                                                                         *)
(* Every process (API, live runner) owns one KillSwitch object.  The trip  *)
(* flag and the re-arm token live in Redis and are shared; the fail-closed *)
(* latch and the last token seen live in the process.  The methods are     *)
(* synchronous, so a process runs one of them at a time, but each storage  *)
(* call is a step of its own: other processes run between two calls, and   *)
(* the store can go away, come back, or come back empty.                   *)
(*                                                                         *)
(* A reply that is lost after Redis executed the command is the store      *)
(* becoming unreachable in the step that executed it.                      *)
(*                                                                         *)
(* An operator marked FAULTY is not part of the model: it is the next      *)
(* operator with a plausible bug, kept to show that a property notices it. *)
(***************************************************************************)
EXTENDS Naturals

CONSTANTS
    Procs,      \* the processes that share the store
    MaxTokens,  \* bound on the re-arm tokens ever issued
    MayFlush    \* whether an outage can lose the contents of the store

ASSUME ConstantsAssumption == MaxTokens \in Nat \ {0} /\ MayFlush \in BOOLEAN

VARIABLES
    up,          \* Redis answers
    store,       \* the shared keys: active flag and arm_epoch token
    failClosed,  \* _fail_closed of each process
    observed,    \* _observed_arm_epoch of each process
    pc,          \* the next storage call of the method a process is in
    verdict,     \* what the last check() of a process returned
    issued,      \* tokens issued so far: a fresh uuid is the next number
    newer,       \* history: processes that have not read the token since an arm
    trip         \* history: how the last activation of a process fared

storeVars == <<up, store, issued>>
procVars  == <<failClosed, observed, pc, verdict>>
history   == <<newer, trip>>
vars      == <<storeVars, procVars, history>>

\* "baseline:" and "arm:" tokens.  Id 0 stands for a missing key ("") and
\* for a process that has observed none (None).
Tokens  == [arm : BOOLEAN, id : 0 .. MaxTokens]
NoToken == [arm |-> FALSE, id |-> 0]
\* A new uuid.
Fresh(isArm) == [arm |-> isArm, id |-> issued + 1]

Calls == {"idle", "clear", "observe", "publish", "reobserve", "active", "reason",
          "set", "setReason", "setStamp"}

\* none: no trip outstanding; pending: activate() running; acked: it returned
\* True with the store healthy; local: it returned with the process latched.
Trips == {"none", "pending", "acked", "local"}

TypeOK ==
    /\ up \in BOOLEAN
    /\ store \in [active : BOOLEAN, epoch : Tokens]
    /\ failClosed \in [Procs -> BOOLEAN]
    /\ observed \in [Procs -> Tokens]
    /\ pc \in [Procs -> Calls]
    /\ verdict \in [Procs -> {"allow", "block"}]
    /\ issued \in 0 .. MaxTokens
    /\ newer \subseteq Procs
    /\ trip \in [Procs -> Trips]

Init ==
    /\ up = TRUE
    /\ store = [active |-> FALSE, epoch |-> NoToken]
    /\ failClosed = [p \in Procs |-> FALSE]
    /\ observed = [p \in Procs |-> NoToken]
    /\ pc = [p \in Procs |-> "idle"]
    /\ verdict = [p \in Procs |-> "block"]
    /\ issued = 0
    /\ newer = {}
    /\ trip = [p \in Procs |-> "none"]

-----------------------------------------------------------------------------
(* Building blocks of the storage calls *)

Goto(p, call) == pc' = [pc EXCEPT ![p] = call]

\* check() returns: v is "allow" for passed=True, "block" otherwise.
Return(p, v) == Goto(p, "idle") /\ verdict' = [verdict EXCEPT ![p] = v]

\* _on_storage_error: the first error latches the process, later ones do not.
Latch(p) == failClosed' = [failClosed EXCEPT ![p] = TRUE]

\* The latch opens.
Unlatch(p) == failClosed' = [failClosed EXCEPT ![p] = FALSE]

\* Read the shared token and remember it.
Observe(p) ==
    /\ observed' = [observed EXCEPT ![p] = store.epoch]
    /\ newer' = newer \ {p}

\* activate() returns; a trip that a human re-armed meanwhile stays "none".
EndTrip(p, how) == trip' = [trip EXCEPT ![p] = IF @ = "pending" THEN how ELSE @]

-----------------------------------------------------------------------------
(* check(): is_active and triggered_by *)

\* A latched process first asks whether a human re-armed elsewhere.
\* (FAULTY: it reads the token like any other process and never asks.)
FirstCallNeverAsks(p) == "observe"
FirstCall(p) == IF failClosed[p] THEN "clear" ELSE "observe"

StartCheck(p) ==
    /\ pc[p] = "idle"
    /\ Goto(p, FirstCall(p))
    /\ verdict' = [verdict EXCEPT ![p] = "block"]
    /\ UNCHANGED <<storeVars, failClosed, observed, history>>

\* The token proves a human re-arm: an arm token other than the one observed.
\* (FAULTY: a republished baseline counts too.)
IsRearmAnyToken(p) == store.epoch \notin {NoToken, observed[p]} /\ observed[p] # NoToken
IsRearm(p) ==
    /\ store.epoch # NoToken
    /\ observed[p] # NoToken
    /\ store.epoch # observed[p]
    /\ store.epoch.arm

MaybeClearLatch(p) ==
    /\ pc[p] = "clear"
    /\ \/ /\ ~up
          /\ Latch(p)
          /\ Return(p, "block")
          /\ UNCHANGED <<observed, newer>>
       \/ /\ up /\ IsRearm(p)
          /\ Observe(p)
          /\ Unlatch(p)
          /\ Goto(p, "observe")
          /\ UNCHANGED verdict
       \/ /\ up /\ ~IsRearm(p)
          /\ IF store.epoch = NoToken THEN UNCHANGED <<observed, newer>> ELSE Observe(p)
          /\ Return(p, "block")
          /\ UNCHANGED failClosed
    /\ UNCHANGED <<storeVars, trip>>

\* _observe_arm_epoch: first read of the token.
ObserveArmEpoch(p) ==
    /\ pc[p] = "observe"
    /\ \/ /\ ~up
          /\ Latch(p)
          /\ Return(p, "block")
          /\ UNCHANGED <<observed, newer>>
       \/ /\ up
          /\ IF store.epoch = NoToken
             THEN Goto(p, "publish") /\ UNCHANGED <<observed, newer>>
             ELSE Goto(p, "active") /\ Observe(p)
          /\ UNCHANGED <<failClosed, verdict>>
    /\ UNCHANGED <<storeVars, trip>>

\* _observe_arm_epoch publishes a baseline on a store without a token.
StoreBaseline ==
    /\ up /\ store.epoch = NoToken /\ issued < MaxTokens
    /\ store' = [store EXCEPT !.epoch = Fresh(FALSE)]
    /\ issued' = issued + 1

BaselineStored(p) ==
    /\ pc[p] = "publish"
    /\ StoreBaseline
    /\ observed' = [observed EXCEPT ![p] = Fresh(FALSE)]
    /\ newer' = newer \ {p}
    /\ Goto(p, "active")
    /\ UNCHANGED <<up, failClosed, verdict, trip>>

BaselineReplyLost(p) ==
    /\ pc[p] = "publish"
    /\ StoreBaseline
    /\ up' = FALSE
    /\ Latch(p)
    /\ Goto(p, "reobserve")
    /\ UNCHANGED <<observed, verdict, history>>

\* NX: somebody else has published meanwhile.
BaselineRefused(p) ==
    /\ pc[p] = "publish"
    /\ up /\ store.epoch # NoToken
    /\ Goto(p, "reobserve")
    /\ UNCHANGED <<storeVars, failClosed, observed, verdict, history>>

BaselineFails(p) ==
    /\ pc[p] = "publish"
    /\ ~up
    /\ Latch(p)
    /\ Goto(p, "reobserve")
    /\ UNCHANGED <<storeVars, observed, verdict, history>>

PublishBaseline(p) ==
    \/ BaselineStored(p) \/ BaselineReplyLost(p) \/ BaselineRefused(p) \/ BaselineFails(p)

\* is_active looks at the latch again after _observe_arm_epoch.
LatchedMeanwhile(p) == failClosed[p]

\* _observe_arm_epoch: the read after a publish that did not store its token.
Reobserve(p) ==
    /\ pc[p] = "reobserve"
    /\ \/ /\ ~up
          /\ Latch(p)
          /\ Return(p, "block")
          /\ UNCHANGED <<observed, newer>>
       \/ /\ up
          /\ IF store.epoch = NoToken THEN UNCHANGED <<observed, newer>> ELSE Observe(p)
          /\ IF LatchedMeanwhile(p) THEN Return(p, "block")
                                    ELSE Goto(p, "active") /\ UNCHANGED verdict
          /\ UNCHANGED failClosed
    /\ UNCHANGED <<storeVars, trip>>

\* The active flag is read last: only a reply of "not set" allows an order.
ReadActive(p) ==
    /\ pc[p] = "active"
    /\ \/ /\ ~up
          /\ Latch(p)
          /\ Return(p, "block")
       \/ /\ up
          /\ IF store.active THEN Goto(p, "reason") /\ UNCHANGED verdict
                             ELSE Return(p, "allow")
          /\ UNCHANGED failClosed
    /\ UNCHANGED <<storeVars, observed, history>>

\* check() reads the reason for its message; an error here latches too.
ReadReason(p) ==
    /\ pc[p] = "reason"
    /\ IF up THEN UNCHANGED failClosed ELSE Latch(p)
    /\ Return(p, "block")
    /\ UNCHANGED <<storeVars, observed, history>>

-----------------------------------------------------------------------------
(* activate() and auto_trigger(): the same three writes *)

StartTrip(p) ==
    /\ pc[p] = "idle"
    /\ Goto(p, "set")
    /\ trip' = [trip EXCEPT ![p] = "pending"]
    /\ UNCHANGED <<storeVars, failClosed, observed, verdict, newer>>

\* The write raised: the trip lives on in this process only.  (FAULTY: the
\* caller is told that the kill is stored.)
ActivationFailsAcked(p) == Latch(p) /\ Goto(p, "idle") /\ EndTrip(p, "acked")
ActivationFails(p)      == Latch(p) /\ Goto(p, "idle") /\ EndTrip(p, "local")

\* SET active 1 NX.  A latched process returns at once; a flag that was set
\* already is a successful trip.
SetActive(p) ==
    /\ pc[p] = "set"
    /\ \/ /\ up
          /\ store' = [store EXCEPT !.active = TRUE]
          /\ IF failClosed[p] THEN Goto(p, "idle") /\ EndTrip(p, "local")
             ELSE IF store.active THEN Goto(p, "idle") /\ EndTrip(p, "acked")
             ELSE Goto(p, "setReason") /\ UNCHANGED trip
          /\ UNCHANGED <<up, failClosed>>
       \/ /\ up                      \* executed, reply lost
          /\ store' = [store EXCEPT !.active = TRUE]
          /\ up' = FALSE
          /\ ActivationFails(p)
       \/ /\ ~up
          /\ ActivationFails(p)
          /\ UNCHANGED <<up, store>>
    /\ UNCHANGED <<issued, observed, verdict, newer>>

\* SET reason, then SET timestamp; both are tried, the latch is looked at last.
WriteReason(p) ==
    /\ pc[p] = "setReason"
    /\ IF up THEN UNCHANGED failClosed ELSE Latch(p)
    /\ Goto(p, "setStamp")
    /\ UNCHANGED <<storeVars, observed, verdict, history>>

WriteStamp(p) ==
    /\ pc[p] = "setStamp"
    /\ IF up THEN UNCHANGED failClosed ELSE Latch(p)
    /\ Goto(p, "idle")
    /\ EndTrip(p, IF up /\ ~failClosed[p] THEN "acked" ELSE "local")
    /\ UNCHANGED <<storeVars, observed, verdict, newer>>

-----------------------------------------------------------------------------
(* arm(): one transaction deletes the flag and publishes a fresh token *)

StoreArm ==
    /\ up /\ issued < MaxTokens
    /\ store' = [active |-> FALSE, epoch |-> Fresh(TRUE)]
    /\ issued' = issued + 1
    /\ trip' = [q \in Procs |-> "none"]

ArmSucceeds(p) ==
    /\ pc[p] = "idle"
    /\ StoreArm
    /\ Unlatch(p)
    /\ observed' = [observed EXCEPT ![p] = Fresh(TRUE)]
    /\ newer' = Procs \ {p}
    /\ UNCHANGED <<up, pc, verdict>>

ArmReplyLost(p) ==
    /\ pc[p] = "idle"
    /\ StoreArm
    /\ up' = FALSE
    /\ Latch(p)
    /\ newer' = Procs
    /\ UNCHANGED <<observed, pc, verdict>>

ArmFails(p) ==
    /\ pc[p] = "idle"
    /\ ~up
    /\ Latch(p)
    /\ UNCHANGED <<storeVars, observed, pc, verdict, history>>

Arm(p) == ArmSucceeds(p) \/ ArmReplyLost(p) \/ ArmFails(p)

-----------------------------------------------------------------------------
(* The environment *)

\* A process dies anywhere; its successor starts with a new KillSwitch.
Restart(p) ==
    /\ Goto(p, "idle")
    /\ Unlatch(p)
    /\ observed' = [observed EXCEPT ![p] = NoToken]
    /\ verdict' = [verdict EXCEPT ![p] = "block"]
    /\ newer' = newer \ {p}
    /\ trip' = [trip EXCEPT ![p] = IF @ = "acked" THEN @ ELSE "none"]
    /\ UNCHANGED storeVars

RedisDown ==
    /\ up
    /\ up' = FALSE
    /\ UNCHANGED <<store, issued, procVars, history>>

RedisUp ==
    /\ ~up
    /\ up' = TRUE
    /\ UNCHANGED <<store, issued, procVars, history>>

\* The store comes back empty: the flag is gone and with it every trip that
\* was only stored there.
RedisUpEmpty ==
    /\ MayFlush /\ ~up /\ issued < MaxTokens
    /\ up' = TRUE
    /\ store' = [active |-> FALSE, epoch |-> NoToken]
    /\ trip' = [q \in Procs |-> IF trip[q] = "local" THEN "local" ELSE "none"]
    /\ UNCHANGED <<issued, procVars, newer>>

Check(p) ==
    \/ MaybeClearLatch(p) \/ ObserveArmEpoch(p) \/ PublishBaseline(p)
    \/ Reobserve(p) \/ ReadActive(p) \/ ReadReason(p)

Trip(p) == SetActive(p) \/ WriteReason(p) \/ WriteStamp(p)

Next ==
    \/ \E p \in Procs : StartCheck(p) \/ Check(p) \/ StartTrip(p) \/ Trip(p)
                      \/ Arm(p) \/ Restart(p)
    \/ RedisDown \/ RedisUp \/ RedisUpEmpty

\* No fairness: check() is called per order, and nothing calls it on its own.
Spec == Init /\ [][Next]_vars

-----------------------------------------------------------------------------
(* Properties *)

\* The step in which a check of p returns passed=True.
Allows(p) == verdict[p] # "allow" /\ verdict'[p] = "allow"

\* activate() returning True with a healthy store is visible to everybody: the
\* flag stays set until a human arms or the store loses its contents.
AckedTripIsStored == \A p \in Procs : trip[p] = "acked" => store.active

\* After such a return no check of any process lets an order through, however
\* the checks, the three writes and other activations interleave.
NoAllowAfterAck == [][\A p, q \in Procs : Allows(q) => trip[p] # "acked"]_vars

\* The switch keeps the promise its callers rely on: a trip is in force while
\* some acknowledged one was not taken back.
Promise == INSTANCE KillSwitchPromise WITH killed <- \E p \in Procs : trip[p] = "acked"
KeepsPromise == Promise!Spec

\* Recovery, a missing token or a republished baseline never clears a latch:
\* only a restart, or an arm newer than anything the process had read, does.
LatchClearsOnlyByNewerArm ==
    [][\A p \in Procs : failClosed[p] /\ ~failClosed'[p]
            => p \in newer \/ Arm(p) \/ Restart(p)]_vars

\* A check in which some storage call failed never lets an order through.
AllowOnlyUnlatched == [][\A p \in Procs : Allows(p) => ~failClosed'[p]]_vars

\* Liveness, of a process that is asked for orders again and again: while the
\* store stays up, one human arm() reopens its latch if it is between two calls
\* and has a token to compare with, whoever else trips, arms or restarts.
RearmReachesCallers ==
    \A p \in Procs :
        []<><<StartCheck(p)>>_vars =>
            ((pc[p] = "idle" /\ failClosed[p] /\ IsRearm(p)) ~> (~failClosed[p] \/ ~up))

\* Stated by the KillSwitch docstring and not kept: a process whose own
\* activation failed on the store blocks until a human arms after it.
LocalTripHolds == [][\A p \in Procs : Allows(p) => trip[p] # "local"]_vars
=============================================================================
