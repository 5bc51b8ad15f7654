----------------------------- MODULE TradingProofs -----------------------------
(***************************************************************************)
(* Trading live, on candles of the past, and what is decided from candles: *)
(* three parts that share no state.                                        *)
(*                                                                         *)
(* The first part is about live trading: the kill switch for any set of    *)
(* processes and any number of tokens, live order placement for any set of *)
(* tasks and any number of overlapping starts, and the promise between     *)
(* them, which the first implements and the second relies on.              *)
(*                                                                         *)
(* The second is about the simulation over past candles, for any candles,  *)
(* signals, capital and rates: what the fractions of the model compute,    *)
(* and from it the books, the stops, the trades and the report.            *)
(*                                                                         *)
(* The third is about the indicators and the rules, for any candles,       *)
(* periods and grid of rounding: what is kept is what exact numbers mean.  *)
(***************************************************************************)
EXTENDS KillSwitch, LiveEngine, Backtest, Signals, FoldLemmas, SequenceTheorems, TLAPS

-----------------------------------------------------------------------------
(* The kill switch *)

\* The flag was stored before the two writes that follow it, and a human who
\* re-armed in between has taken the trip back.
PendingTripIsStored ==
    \A p \in Procs : pc[p] \in {"setReason", "setStamp"} /\ trip[p] = "pending"
                        => store.active

\* A token that looks like a re-arm was published after the process last read it.
RearmIsNewer == \A p \in Procs : IsRearm(p) => p \in newer

\* A check gets this far only with the latch open.
UnlatchedInCheck ==
    \A p \in Procs : pc[p] \in {"observe", "publish", "active"} => ~failClosed[p]

IInv ==
    /\ TypeOK
    /\ AckedTripIsStored
    /\ PendingTripIsStored
    /\ RearmIsNewer
    /\ UnlatchedInCheck

\* Initially no process has latched, tripped or read anything.
LEMMA InitIInv == Init => IInv
  BY ConstantsAssumption
  DEF Init, IInv, TypeOK, AckedTripIsStored, PendingTripIsStored, RearmIsNewer,
      UnlatchedInCheck, IsRearm, Tokens, NoToken, Calls, Trips

\* The missing token is a token, and so is a fresh one within the bound.
LEMMA TokenTypes ==
    /\ NoToken \in Tokens
    /\ \A b \in BOOLEAN : issued \in 0 .. MaxTokens /\ issued < MaxTokens
                            => Fresh(b) \in Tokens
  BY ConstantsAssumption DEF NoToken, Tokens, Fresh

\* Every action keeps the state well typed.
LEMMA TypeStep == TypeOK /\ [Next]_vars => TypeOK'
<1> SUFFICES ASSUME TypeOK, [Next]_vars PROVE TypeOK'
  OBVIOUS
<1> USE ConstantsAssumption, TokenTypes
    DEF TypeOK, Calls, Trips, Goto, Return, Latch, Unlatch, Observe, EndTrip
<1>1. ASSUME NEW p \in Procs, StartCheck(p) PROVE TypeOK'
  BY <1>1 DEF StartCheck, FirstCall, storeVars, history
<1>2. ASSUME NEW p \in Procs, MaybeClearLatch(p) PROVE TypeOK'
  BY <1>2 DEF MaybeClearLatch, storeVars
<1>3. ASSUME NEW p \in Procs, ObserveArmEpoch(p) PROVE TypeOK'
  BY <1>3 DEF ObserveArmEpoch, storeVars
<1>4. ASSUME NEW p \in Procs, PublishBaseline(p) PROVE TypeOK'
  <2>1. ASSUME StoreBaseline
        PROVE  /\ issued' \in 0 .. MaxTokens
               /\ Fresh(FALSE) \in Tokens
               /\ store' \in [active : BOOLEAN, epoch : Tokens]
    <3>1. issued \in 0 .. MaxTokens /\ issued < MaxTokens
      BY <2>1 DEF StoreBaseline
    <3>2. Fresh(FALSE) \in Tokens
      BY <3>1
    <3>3. issued' \in 0 .. MaxTokens
      BY <2>1, <3>1 DEF StoreBaseline
    <3>4. store' = [store EXCEPT !.epoch = Fresh(FALSE)]
      BY <2>1 DEF StoreBaseline
    <3>5. store' \in [active : BOOLEAN, epoch : Tokens]
      BY <3>2, <3>4
    <3> QED
      BY <3>2, <3>3, <3>5
  <2>2. CASE BaselineStored(p)
    BY <2>1, <2>2 DEF BaselineStored
  <2>3. CASE BaselineReplyLost(p)
    BY <2>1, <2>3 DEF BaselineReplyLost, history
  <2>4. CASE BaselineRefused(p)
    BY <2>4 DEF BaselineRefused, storeVars, history
  <2>5. CASE BaselineFails(p)
    BY <2>5 DEF BaselineFails, storeVars, history
  <2> QED
    BY <1>4, <2>2, <2>3, <2>4, <2>5 DEF PublishBaseline
<1>5. ASSUME NEW p \in Procs, Reobserve(p) PROVE TypeOK'
  BY <1>5 DEF Reobserve, storeVars
<1>6. ASSUME NEW p \in Procs, ReadActive(p) PROVE TypeOK'
  BY <1>6 DEF ReadActive, storeVars, history
<1>7. ASSUME NEW p \in Procs, ReadReason(p) PROVE TypeOK'
  BY <1>7 DEF ReadReason, storeVars, history
<1>8. ASSUME NEW p \in Procs, StartTrip(p) PROVE TypeOK'
  BY <1>8 DEF StartTrip, storeVars
<1>9. ASSUME NEW p \in Procs, SetActive(p) PROVE TypeOK'
  BY <1>9 DEF SetActive, ActivationFails
<1>10. ASSUME NEW p \in Procs, WriteReason(p) PROVE TypeOK'
  BY <1>10 DEF WriteReason, storeVars, history
<1>11. ASSUME NEW p \in Procs, WriteStamp(p) PROVE TypeOK'
  BY <1>11 DEF WriteStamp, storeVars
<1>12. ASSUME NEW p \in Procs, Arm(p) PROVE TypeOK'
  <2>1. ASSUME StoreArm
        PROVE  /\ issued' \in 0 .. MaxTokens
               /\ Fresh(TRUE) \in Tokens
               /\ store' \in [active : BOOLEAN, epoch : Tokens]
               /\ trip' \in [Procs -> Trips]
    <3>1. issued \in 0 .. MaxTokens /\ issued < MaxTokens
      BY <2>1 DEF StoreArm
    <3>2. Fresh(TRUE) \in Tokens
      BY <3>1
    <3>3. issued' \in 0 .. MaxTokens
      BY <2>1, <3>1 DEF StoreArm
    <3>4. store' = [active |-> FALSE, epoch |-> Fresh(TRUE)]
      BY <2>1 DEF StoreArm
    <3>5. store' \in [active : BOOLEAN, epoch : Tokens]
      BY <3>2, <3>4
    <3>6. trip' \in [Procs -> Trips]
      BY <2>1 DEF StoreArm
    <3> QED
      BY <3>2, <3>3, <3>5, <3>6
  <2>2. CASE ArmSucceeds(p)
    BY <2>1, <2>2 DEF ArmSucceeds
  <2>3. CASE ArmReplyLost(p)
    BY <2>1, <2>3 DEF ArmReplyLost
  <2>4. CASE ArmFails(p)
    BY <2>4 DEF ArmFails, storeVars, history
  <2> QED
    BY <1>12, <2>2, <2>3, <2>4 DEF Arm
<1>13. ASSUME NEW p \in Procs, Restart(p) PROVE TypeOK'
  BY <1>13 DEF Restart, storeVars
<1>14. CASE RedisDown
  BY <1>14 DEF RedisDown, procVars, history
<1>15. CASE RedisUp
  BY <1>15 DEF RedisUp, procVars, history
<1>16. CASE RedisUpEmpty
  BY <1>16 DEF RedisUpEmpty, procVars
<1>17. CASE UNCHANGED vars
  BY <1>17 DEF vars, storeVars, procVars, history
<1> QED
  BY <1>1, <1>2, <1>3, <1>4, <1>5, <1>6, <1>7, <1>8, <1>9, <1>10, <1>11, <1>12,
     <1>13, <1>14, <1>15, <1>16, <1>17 DEF Next, Check, Trip

\* An acknowledged trip stays stored, and one being written is stored.
LEMMA TripStep == IInv /\ [Next]_vars => AckedTripIsStored' /\ PendingTripIsStored'
<1> SUFFICES ASSUME IInv, [Next]_vars PROVE AckedTripIsStored' /\ PendingTripIsStored'
  OBVIOUS
<1> USE DEF IInv, TypeOK, Trips, AckedTripIsStored, PendingTripIsStored, Goto, Return,
            EndTrip
<1>1. ASSUME NEW p \in Procs, StartCheck(p) \/ Check(p)
      PROVE  AckedTripIsStored' /\ PendingTripIsStored'
  <2>1. /\ store'.active = store.active
        /\ trip' = trip
        /\ \A q \in Procs : pc'[q] \in {"setReason", "setStamp"} => pc'[q] = pc[q]
    BY <1>1 DEF StartCheck, FirstCall, Check, MaybeClearLatch, ObserveArmEpoch,
                PublishBaseline, BaselineStored, BaselineReplyLost, BaselineRefused,
                BaselineFails, StoreBaseline, Reobserve, ReadActive, ReadReason,
                storeVars, history
  <2> QED
    BY <2>1
<1>2. ASSUME NEW p \in Procs, StartTrip(p)
      PROVE  AckedTripIsStored' /\ PendingTripIsStored'
  BY <1>2 DEF StartTrip, storeVars
<1>3. ASSUME NEW p \in Procs, SetActive(p)
      PROVE  AckedTripIsStored' /\ PendingTripIsStored'
  BY <1>3 DEF SetActive, ActivationFails
<1>4. ASSUME NEW p \in Procs, WriteReason(p)
      PROVE  AckedTripIsStored' /\ PendingTripIsStored'
  BY <1>4 DEF WriteReason, storeVars, history
<1>5. ASSUME NEW p \in Procs, WriteStamp(p)
      PROVE  AckedTripIsStored' /\ PendingTripIsStored'
  BY <1>5 DEF WriteStamp, storeVars
<1>6. ASSUME NEW p \in Procs, Arm(p)
      PROVE  AckedTripIsStored' /\ PendingTripIsStored'
  BY <1>6 DEF Arm, ArmSucceeds, ArmReplyLost, ArmFails, StoreArm, storeVars, history
<1>7. ASSUME NEW p \in Procs, Restart(p)
      PROVE  AckedTripIsStored' /\ PendingTripIsStored'
  BY <1>7 DEF Restart, storeVars
<1>8. CASE RedisDown \/ RedisUp
  BY <1>8 DEF RedisDown, RedisUp, procVars, history
<1>9. CASE RedisUpEmpty
  BY <1>9 DEF RedisUpEmpty, procVars
<1>10. CASE UNCHANGED vars
  BY <1>10 DEF vars, storeVars, procVars, history
<1> QED
  BY <1>1, <1>2, <1>3, <1>4, <1>5, <1>6, <1>7, <1>8, <1>9, <1>10 DEF Next, Trip

\* Only a human's arm can make the stored token look like a re-arm.
LEMMA RearmStep == IInv /\ [Next]_vars => RearmIsNewer'
<1> SUFFICES ASSUME IInv, [Next]_vars PROVE RearmIsNewer'
  OBVIOUS
<1> USE DEF IInv, TypeOK, RearmIsNewer, IsRearm, Observe
<1>1. ASSUME NEW p \in Procs, MaybeClearLatch(p) \/ ObserveArmEpoch(p) \/ Reobserve(p)
      PROVE  RearmIsNewer'
  BY <1>1 DEF MaybeClearLatch, ObserveArmEpoch, Reobserve, storeVars
<1>2. ASSUME NEW p \in Procs, PublishBaseline(p) PROVE RearmIsNewer'
  <2>1. CASE BaselineStored(p) \/ BaselineReplyLost(p)
    <3>1. store'.epoch = Fresh(FALSE)
      BY <2>1 DEF BaselineStored, BaselineReplyLost, StoreBaseline
    <3>2. ~store'.epoch.arm
      BY <3>1 DEF Fresh
    <3> QED
      BY <3>2
  <2>2. CASE BaselineRefused(p) \/ BaselineFails(p)
    BY <2>2 DEF BaselineRefused, BaselineFails, storeVars, history
  <2> QED
    BY <1>2, <2>1, <2>2 DEF PublishBaseline
<1>3. ASSUME NEW p \in Procs,
             StartCheck(p) \/ ReadActive(p) \/ ReadReason(p) \/ StartTrip(p) \/ Trip(p)
      PROVE  RearmIsNewer'
  <2>1. store'.epoch = store.epoch /\ observed' = observed /\ newer' = newer
    BY <1>3 DEF StartCheck, ReadActive, ReadReason, StartTrip, Trip, SetActive,
                ActivationFails, WriteReason, WriteStamp, storeVars, history
  <2> QED
    BY <2>1
<1>4. ASSUME NEW p \in Procs, Arm(p) PROVE RearmIsNewer'
  <2>1. CASE ArmSucceeds(p)
    BY <2>1 DEF ArmSucceeds, StoreArm
  <2>2. CASE ArmReplyLost(p)
    BY <2>2 DEF ArmReplyLost
  <2>3. CASE ArmFails(p)
    BY <2>3 DEF ArmFails, storeVars, history
  <2> QED
    BY <1>4, <2>1, <2>2, <2>3 DEF Arm
<1>5. ASSUME NEW p \in Procs, Restart(p) PROVE RearmIsNewer'
  BY <1>5 DEF Restart, storeVars
<1>6. CASE RedisDown \/ RedisUp
  BY <1>6 DEF RedisDown, RedisUp, procVars, history
<1>7. CASE RedisUpEmpty
  BY <1>7 DEF RedisUpEmpty, procVars, NoToken
<1>8. CASE UNCHANGED vars
  BY <1>8 DEF vars, storeVars, procVars, history
<1> QED
  BY <1>1, <1>2, <1>3, <1>4, <1>5, <1>6, <1>7, <1>8 DEF Next, Check

\* The latch never closes under a check that has passed its first call.
LEMMA LatchStep == IInv /\ [Next]_vars => UnlatchedInCheck'
<1> SUFFICES ASSUME IInv, [Next]_vars PROVE UnlatchedInCheck'
  OBVIOUS
<1> USE DEF IInv, TypeOK, UnlatchedInCheck, Goto, Return, Latch, Unlatch
<1>1. ASSUME NEW p \in Procs, StartCheck(p) \/ Check(p) PROVE UnlatchedInCheck'
  BY <1>1 DEF StartCheck, FirstCall, Check, MaybeClearLatch, ObserveArmEpoch,
              PublishBaseline, BaselineStored, BaselineReplyLost, BaselineRefused,
              BaselineFails, Reobserve, LatchedMeanwhile, ReadActive, ReadReason
<1>2. ASSUME NEW p \in Procs, StartTrip(p) \/ Trip(p) PROVE UnlatchedInCheck'
  BY <1>2 DEF StartTrip, Trip, SetActive, ActivationFails, WriteReason, WriteStamp
<1>3. ASSUME NEW p \in Procs, Arm(p) \/ Restart(p) PROVE UnlatchedInCheck'
  BY <1>3 DEF Arm, ArmSucceeds, ArmReplyLost, ArmFails, Restart
<1>4. CASE RedisDown \/ RedisUp \/ RedisUpEmpty \/ UNCHANGED vars
  BY <1>4 DEF RedisDown, RedisUp, RedisUpEmpty, vars, procVars
<1> QED
  BY <1>1, <1>2, <1>3, <1>4 DEF Next

\* The inductive invariant holds in every reachable state.
THEOREM KillSwitchInvariant == Spec => []IInv
<1>1. IInv /\ [Next]_vars => IInv'
  BY TypeStep, TripStep, RearmStep, LatchStep DEF IInv
<1> QED
  BY InitIInv, <1>1, PTL DEF Spec

\* The state stays well typed.
THEOREM TypeCorrect == Spec => []TypeOK
<1>1. IInv => TypeOK
  BY DEF IInv
<1> QED
  BY <1>1, KillSwitchInvariant, PTL

\* activate() == True is visible to every process until a human re-arms.
THEOREM AckedTripVisible == Spec => []AckedTripIsStored
<1>1. IInv => AckedTripIsStored
  BY DEF IInv
<1> QED
  BY <1>1, KillSwitchInvariant, PTL

\* Only the read of an unset flag ends a check with "allow".
LEMMA AllowStep ==
    ASSUME IInv, [Next]_vars, NEW q \in Procs, Allows(q)
    PROVE  ReadActive(q) /\ ~store.active
<1> USE DEF IInv, TypeOK, Goto, Return, Allows
<1>1. ASSUME NEW p \in Procs, StartCheck(p) PROVE FALSE
  BY <1>1 DEF StartCheck
<1>2. ASSUME NEW p \in Procs,
             MaybeClearLatch(p) \/ ObserveArmEpoch(p) \/ Reobserve(p) \/ ReadReason(p)
      PROVE  FALSE
  BY <1>2 DEF MaybeClearLatch, ObserveArmEpoch, Reobserve, ReadReason
<1>3. ASSUME NEW p \in Procs, PublishBaseline(p) \/ StartTrip(p) \/ Trip(p) \/ Arm(p)
      PROVE  FALSE
  BY <1>3 DEF PublishBaseline, BaselineStored, BaselineReplyLost, BaselineRefused,
              BaselineFails, StartTrip, Trip, SetActive, WriteReason, WriteStamp,
              Arm, ArmSucceeds, ArmReplyLost, ArmFails
<1>4. ASSUME NEW p \in Procs, Restart(p) PROVE FALSE
  BY <1>4 DEF Restart
<1>5. ASSUME NEW p \in Procs, ReadActive(p) PROVE ReadActive(q) /\ ~store.active
  <2>1. p = q
    BY <1>5 DEF ReadActive
  <2> QED
    BY <1>5, <2>1 DEF ReadActive
<1>6. CASE RedisDown \/ RedisUp \/ RedisUpEmpty \/ UNCHANGED vars
  BY <1>6 DEF RedisDown, RedisUp, RedisUpEmpty, vars, procVars
<1> QED
  BY <1>1, <1>2, <1>3, <1>4, <1>5, <1>6 DEF Next, Check

\* After activate() returned True, no check lets an order through.
THEOREM NoAllowAfterAckHolds == Spec => NoAllowAfterAck
<1>1. IInv /\ [Next]_vars
        => [\A p, q \in Procs : Allows(q) => trip[p] # "acked"]_vars
  BY AllowStep DEF IInv, AckedTripIsStored
<1> QED
  BY <1>1, KillSwitchInvariant, PTL DEF Spec, NoAllowAfterAck

\* A check during which storage failed never lets an order through.
THEOREM AllowOnlyUnlatchedHolds == Spec => AllowOnlyUnlatched
<1>1. IInv /\ [Next]_vars => [\A p \in Procs : Allows(p) => ~failClosed'[p]]_vars
  <2> SUFFICES ASSUME IInv, [Next]_vars, NEW p \in Procs, Allows(p)
               PROVE  ~failClosed'[p]
    OBVIOUS
  <2>1. ReadActive(p) /\ ~store.active
    BY AllowStep
  <2> QED
    BY <2>1 DEF ReadActive, IInv, UnlatchedInCheck, TypeOK, Allows, Return
<1> QED
  BY <1>1, KillSwitchInvariant, PTL DEF Spec, AllowOnlyUnlatched

\* A latch opens only for a re-arm the process had not read yet, its own arm()
\* or a restart.
THEOREM LatchClearsOnlyByNewerArmHolds == Spec => LatchClearsOnlyByNewerArm
<1>1. IInv /\ [Next]_vars
        => [\A p \in Procs : failClosed[p] /\ ~failClosed'[p]
                => p \in newer \/ Arm(p) \/ Restart(p)]_vars
  <2> SUFFICES ASSUME IInv, [Next]_vars, NEW p \in Procs, failClosed[p], ~failClosed'[p]
               PROVE  p \in newer \/ Arm(p) \/ Restart(p)
    OBVIOUS
  <2> USE DEF IInv, TypeOK, Latch, Unlatch
  <2>1. ASSUME NEW q \in Procs, MaybeClearLatch(q) PROVE p \in newer
    BY <2>1 DEF MaybeClearLatch, RearmIsNewer
  <2>2. ASSUME NEW q \in Procs, StartCheck(q) \/ ObserveArmEpoch(q) \/ PublishBaseline(q)
                                  \/ Reobserve(q) \/ ReadActive(q) \/ ReadReason(q)
        PROVE  FALSE
    BY <2>2 DEF StartCheck, ObserveArmEpoch, PublishBaseline, BaselineStored,
                BaselineReplyLost, BaselineRefused, BaselineFails, Reobserve,
                ReadActive, ReadReason
  <2>3. ASSUME NEW q \in Procs, StartTrip(q) \/ Trip(q) PROVE FALSE
    BY <2>3 DEF StartTrip, Trip, SetActive, ActivationFails, WriteReason, WriteStamp
  <2>4. ASSUME NEW q \in Procs, Arm(q) PROVE Arm(p)
    BY <2>4 DEF Arm, ArmSucceeds, ArmReplyLost, ArmFails
  <2>5. ASSUME NEW q \in Procs, Restart(q) PROVE Restart(p)
    BY <2>5 DEF Restart
  <2>6. CASE RedisDown \/ RedisUp \/ RedisUpEmpty \/ UNCHANGED vars
    BY <2>6 DEF RedisDown, RedisUp, RedisUpEmpty, vars, procVars
  <2> QED
    BY <2>1, <2>2, <2>3, <2>4, <2>5, <2>6 DEF Next, Check
<1> QED
  BY <1>1, KillSwitchInvariant, PTL DEF Spec, LatchClearsOnlyByNewerArm

-----------------------------------------------------------------------------
(* KillSwitch implements KillSwitchPromise *)

\* A step either leaves the answers alone or gives one answer, and then leaves
\* the acknowledged trips alone; only a store without the flag allows.
LEMMA AnswerStep ==
    ASSUME IInv, [Next]_vars
    PROVE  \/ verdict' = verdict
           \/ /\ \A q \in Procs : trip'[q] = "acked" <=> trip[q] = "acked"
              /\ \E p \in Procs, v \in {"allow", "block"} :
                    /\ verdict' = [verdict EXCEPT ![p] = v]
                    /\ v = "allow" => ~store.active
<1> DEFINE AnAnswer == \E p \in Procs, v \in {"allow", "block"} :
                         /\ verdict' = [verdict EXCEPT ![p] = v]
                         /\ v = "allow" => ~store.active
           SameAcks == \A q \in Procs : trip'[q] = "acked" <=> trip[q] = "acked"
<1> SUFFICES verdict' = verdict \/ (SameAcks /\ AnAnswer)
  OBVIOUS
<1> USE DEF Return
<1>1. ASSUME NEW p \in Procs, StartCheck(p) PROVE SameAcks /\ AnAnswer
  BY <1>1 DEF StartCheck, history
<1>2. ASSUME NEW p \in Procs, MaybeClearLatch(p) PROVE verdict' = verdict \/ (SameAcks /\ AnAnswer)
  BY <1>2 DEF MaybeClearLatch
<1>3. ASSUME NEW p \in Procs, ObserveArmEpoch(p) PROVE verdict' = verdict \/ (SameAcks /\ AnAnswer)
  BY <1>3 DEF ObserveArmEpoch
<1>4. ASSUME NEW p \in Procs, PublishBaseline(p) PROVE verdict' = verdict
  BY <1>4 DEF PublishBaseline, BaselineStored, BaselineReplyLost, BaselineRefused,
              BaselineFails
<1>5. ASSUME NEW p \in Procs, Reobserve(p) PROVE verdict' = verdict \/ (SameAcks /\ AnAnswer)
  BY <1>5 DEF Reobserve
<1>6. ASSUME NEW p \in Procs, ReadActive(p) PROVE verdict' = verdict \/ (SameAcks /\ AnAnswer)
  BY <1>6 DEF ReadActive, history
<1>7. ASSUME NEW p \in Procs, ReadReason(p) PROVE SameAcks /\ AnAnswer
  BY <1>7 DEF ReadReason, history
<1>8. ASSUME NEW p \in Procs, StartTrip(p) \/ Trip(p) \/ Arm(p) PROVE verdict' = verdict
  BY <1>8 DEF StartTrip, Trip, SetActive, WriteReason, WriteStamp, Arm, ArmSucceeds,
              ArmReplyLost, ArmFails
<1>9. ASSUME NEW p \in Procs, Restart(p) PROVE SameAcks /\ AnAnswer
  <2>1. SameAcks
    BY <1>9 DEF Restart, IInv, TypeOK
  <2> QED
    BY <1>9, <2>1 DEF Restart
<1>10. CASE RedisDown \/ RedisUp \/ RedisUpEmpty \/ UNCHANGED vars
  BY <1>10 DEF RedisDown, RedisUp, RedisUpEmpty, vars, procVars
<1> QED
  BY <1>1, <1>2, <1>3, <1>4, <1>5, <1>6, <1>7, <1>8, <1>9, <1>10 DEF Next, Check

\* The switch keeps its promise: every step is a kill, a release, an answer that
\* does not allow while a trip is in force, or no step of the promise at all.
THEOREM ImplementsPromise == Spec => KeepsPromise
<1> DEFINE Killed == \E p \in Procs : trip[p] = "acked"
<1>1. Init => Promise!Init
  BY DEF Init, Promise!Init
<1>2. IInv /\ [Next]_vars => [Promise!Next]_<<Killed, verdict>>
  <2> SUFFICES ASSUME IInv, [Next]_vars
               PROVE  [Promise!Next]_<<Killed, verdict>>
    OBVIOUS
  <2>1. CASE verdict' = verdict
    <3>1. CASE Killed' = Killed
      BY <2>1, <3>1
    <3>2. CASE Killed' # Killed
      <4>1. Killed' = TRUE \/ Killed' = FALSE
        OBVIOUS
      <4> QED
        BY <2>1, <4>1 DEF Promise!Next, Promise!Kill, Promise!Release
    <3> QED
      BY <3>1, <3>2
  <2>2. CASE verdict' # verdict
    <3>1. \A q \in Procs : trip'[q] = "acked" <=> trip[q] = "acked"
      BY <2>2, AnswerStep
    <3>2. PICK p \in Procs, v \in {"allow", "block"} :
              /\ verdict' = [verdict EXCEPT ![p] = v]
              /\ v = "allow" => ~store.active
      BY <2>2, AnswerStep
    <3>3. Killed' = Killed
      BY <3>1
    <3>4. v = "allow" => ~Killed
      BY <3>2 DEF IInv, AckedTripIsStored
    <3>5. Promise!Answer(p, v)
      BY <3>2, <3>3, <3>4 DEF Promise!Answer
    <3> QED
      BY <3>5 DEF Promise!Next
  <2> QED
    BY <2>1, <2>2
<1> QED
  BY <1>1, <1>2, KillSwitchInvariant, PTL DEF Spec, KeepsPromise, Promise!Spec

-----------------------------------------------------------------------------
(* Live order placement *)

\* Work that ends in a running engine or an order begins only if enabled.
WorkNeedsSetting ==
    ~enabled => starts = 0 /\ \A t \in Tasks : task[t].stage = "idle"

\* The connection flag and _running are set and reset together.
LinkedIsRunning == \A e \in Engines : linked[e] => running[e]

\* A check that passed and still waits while a trip is in force came before it.
PassedIsEarly ==
    \A t \in Tasks : task[t].stage = "check" /\ task[t].killOk /\ killed => t \in early

EngineInv ==
    /\ EngineTypeOK
    /\ PaperOnly
    /\ WorkNeedsSetting
    /\ LinkedIsRunning
    /\ PassedIsEarly

\* A finished task is well typed.
LEMMA IdleType ==
    ASSUME NEW o \in Outcomes
    PROVE  Idle(o) \in TaskState /\ Idle(o).stage = "idle" /\ ~Idle(o).killOk
  BY DEF Idle, TaskState, Stages, Engines, Outcomes

\* Initially nothing runs, waits or is ordered.
LEMMA InitEngineInv == EngineInit => EngineInv
<1> SUFFICES ASSUME EngineInit PROVE EngineInv
  OBVIOUS
<1>1. Idle("none") \in TaskState /\ Idle("none").stage = "idle" /\ ~Idle("none").killOk
  BY IdleType DEF Outcomes
<1>2. EngineTypeOK
  <2>1. task \in [Tasks -> TaskState]
    BY <1>1 DEF EngineInit
  <2>2. starts \in 0 .. MaxStarts
    BY StartsAssumption DEF EngineInit
  <2>3. mode \in [Engines -> Modes]
    BY DEF EngineInit, Modes
  <2> QED
    BY <2>1, <2>2, <2>3 DEF EngineInit, EngineTypeOK
<1> QED
  BY <1>1, <1>2 DEF EngineInit, EngineInv, PaperOnly, WorkNeedsSetting, LinkedIsRunning, PassedIsEarly

\* The checks of one task begin: its record is well typed, and carries "allow"
\* only without a trip.
LEMMA BeginChecksType ==
    ASSUME EngineTypeOK, NEW t \in Tasks, NEW e \in Engines, NEW approved \in BOOLEAN,
           BeginChecks(t, e, approved)
    PROVE  /\ task' \in [Tasks -> TaskState]
           /\ task'[t].stage = "check"
           /\ task'[t].killOk => ~killed
           /\ \A u \in Tasks \ {t} : task'[u] = task[u]
<1>1. PICK v \in Answers :
        task' = [task EXCEPT ![t] =
                   [stage |-> "check", engine |-> e, approved |-> approved,
                    killOk |-> v = "allow", modeOk |-> mode[e] # "human",
                    outcome |-> "none"]]
  BY DEF BeginChecks
<1> DEFINE r == [stage |-> "check", engine |-> e, approved |-> approved,
                 killOk |-> v = "allow", modeOk |-> mode[e] # "human",
                 outcome |-> "none"]
<1>2. r \in TaskState
  BY DEF TaskState, Stages, Outcomes
<1>3. r.stage = "check" /\ (r.killOk => ~killed)
  BY DEF Answers
<1>4. task' = [task EXCEPT ![t] = r]
  BY <1>1
<1> HIDE DEF r
<1> QED
  BY <1>2, <1>3, <1>4 DEF EngineTypeOK

\* One task finishes.
LEMMA FinishType ==
    ASSUME EngineTypeOK, NEW t \in Tasks, NEW o \in Outcomes, Finish(t, o)
    PROVE  /\ task' \in [Tasks -> TaskState]
           /\ task'[t].stage = "idle" /\ ~task'[t].killOk
           /\ \A u \in Tasks \ {t} : task'[u] = task[u]
  BY IdleType DEF Finish, EngineTypeOK

\* An action that changes one task, and with it at most its order and its mark,
\* keeps the invariant if the task does.
LEMMA TaskAction ==
    ASSUME EngineInv, NEW t \in Tasks,
           UNCHANGED <<killed, enabled, engines, routes>>,
           task' \in [Tasks -> TaskState],
           \A u \in Tasks \ {t} : task'[u] = task[u],
           task'[t].stage # "idle" => enabled,
           early' \in {early, early \ {t}},
           task'[t].stage = "check" => early' = early /\ (task'[t].killOk => ~killed),
           order' \in [Tasks -> {"none", "open", "cancelled"}],
           \A u \in Tasks : order'[u] # "none" => enabled
    PROVE  EngineInv'
<1> USE DEF EngineInv, engines, routes
<1>1. EngineTypeOK'
  BY DEF EngineTypeOK
<1>2. PaperOnly'
  BY DEF PaperOnly
<1>3. WorkNeedsSetting'
  BY DEF WorkNeedsSetting
<1>4. LinkedIsRunning'
  BY DEF LinkedIsRunning
<1>5. PassedIsEarly'
  BY DEF PassedIsEarly
<1> QED
  BY <1>1, <1>2, <1>3, <1>4, <1>5

\* Every action keeps the invariant.
LEMMA StepIInv == EngineInv /\ [EngineNext]_engineVars => EngineInv'
<1> SUFFICES ASSUME EngineInv, [EngineNext]_engineVars PROVE EngineInv'
  OBVIOUS
<1>0. /\ EngineTypeOK /\ PaperOnly /\ WorkNeedsSetting
      /\ \A t \in Tasks : order[t] # "none" => enabled
      /\ \A t \in Tasks : [order EXCEPT ![t] = "none"] \in [Tasks -> {"none", "open", "cancelled"}]
  BY DEF EngineInv, PaperOnly, EngineTypeOK
<1>1. ASSUME NEW t \in Tasks, NEW e \in Engines, NEW approved \in BOOLEAN,
             CallEngine(t, e, approved)
      PROVE  EngineInv'
  <2>1. /\ task' \in [Tasks -> TaskState]
        /\ \A u \in Tasks \ {t} : task'[u] = task[u]
        /\ task'[t].stage # "idle" => enabled
        /\ task'[t].stage = "check" => (task'[t].killOk => ~killed)
    <3>1. CASE enabled /\ BeginChecks(t, e, approved)
      BY <1>0, <3>1, BeginChecksType
    <3>2. CASE Finish(t, "refused")
      BY <1>0, <3>2, FinishType DEF Outcomes
    <3> QED
      BY <1>1, <3>1, <3>2 DEF CallEngine
  <2> QED
    BY <1>0, <1>1, <2>1, TaskAction DEF CallEngine, EngineTypeOK
<1>2. ASSUME NEW t \in Tasks, NEW e \in Engines, StartPipeline(t, e)
      PROVE  EngineInv'
  <2>1. /\ task' \in [Tasks -> TaskState]
        /\ \A u \in Tasks \ {t} : task'[u] = task[u]
        /\ task'[t].stage # "idle" => enabled
        /\ task'[t].stage # "check"
    <3>1. CASE Finish(t, "paper")
      BY <1>0, <3>1, FinishType DEF Outcomes
    <3>2. CASE /\ enabled
               /\ task' = [task EXCEPT ![t] = [Idle("none") EXCEPT !.stage = "route",
                                                                  !.engine = e]]
      <4>1. [Idle("none") EXCEPT !.stage = "route", !.engine = e] \in TaskState
        BY DEF Idle, TaskState, Stages, Outcomes
      <4>2. [Idle("none") EXCEPT !.stage = "route", !.engine = e].stage = "route"
        BY DEF Idle
      <4> QED
        BY <1>0, <3>2, <4>1, <4>2 DEF EngineTypeOK
    <3> QED
      BY <1>2, <3>1, <3>2 DEF StartPipeline
  <2> QED
    BY <1>0, <1>2, <2>1, TaskAction DEF StartPipeline, EngineTypeOK
<1>3. ASSUME NEW t \in Tasks, RouteOrder(t) PROVE EngineInv'
  <2>1. enabled /\ task[t].engine \in Engines
    BY <1>0, <1>3 DEF RouteOrder, WorkNeedsSetting, EngineTypeOK, TaskState
  <2>2. /\ task' \in [Tasks -> TaskState]
        /\ \A u \in Tasks \ {t} : task'[u] = task[u]
        /\ task'[t].stage = "check" => (task'[t].killOk => ~killed)
    <3>1. CASE BeginChecks(t, task[t].engine, FALSE)
      BY <1>0, <2>1, <3>1, BeginChecksType
    <3>2. CASE Finish(t, "paper")
      BY <1>0, <3>2, FinishType DEF Outcomes
    <3> QED
      BY <1>3, <3>1, <3>2 DEF RouteOrder
  <2> QED
    BY <1>0, <1>3, <2>1, <2>2, TaskAction DEF RouteOrder, EngineTypeOK
<1>4. ASSUME NEW t \in Tasks, RefuseOrder(t) \/ ReceiveOrder(t) \/ OrderError(t)
      PROVE  EngineInv'
  <2>1. \E o \in Outcomes : Finish(t, o)
    BY <1>4 DEF RefuseOrder, ReceiveOrder, OrderError, Outcomes
  <2>2. /\ task' \in [Tasks -> TaskState]
        /\ \A u \in Tasks \ {t} : task'[u] = task[u]
        /\ task'[t].stage = "idle"
    BY <1>0, <2>1, FinishType
  <2>3. /\ UNCHANGED <<killed, enabled, engines, routes, order>>
        /\ early' \in {early, early \ {t}}
    BY <1>4 DEF RefuseOrder, ReceiveOrder, OrderError
  <2> QED
    BY <1>0, <2>2, <2>3, TaskAction DEF EngineTypeOK
<1>5. ASSUME NEW t \in Tasks, PlaceOrder(t) PROVE EngineInv'
  <2>1. enabled /\ task[t].engine \in Engines
    BY <1>0, <1>5 DEF PlaceOrder, WorkNeedsSetting, EngineTypeOK, TaskState
  <2> DEFINE r == [Idle("none") EXCEPT !.stage = "sent", !.engine = task[t].engine]
  <2>2. r \in TaskState /\ r.stage = "sent"
    BY <2>1 DEF Idle, TaskState, Stages, Outcomes
  <2>3. task' = [task EXCEPT ![t] = r]
    BY <1>5 DEF PlaceOrder
  <2> HIDE DEF r
  <2>4. /\ task' \in [Tasks -> TaskState]
        /\ \A u \in Tasks \ {t} : task'[u] = task[u]
        /\ task'[t].stage = "sent"
    BY <1>0, <2>2, <2>3 DEF EngineTypeOK
  <2>5. order' \in [Tasks -> {"none", "open", "cancelled"}]
    BY <1>0, <1>5 DEF PlaceOrder, EngineTypeOK
  <2> QED
    BY <1>5, <2>1, <2>4, <2>5, TaskAction DEF PlaceOrder
<1>6. CASE StartEngine \/ StartSucceeds \/ StartFails
  <2>1. starts' \in 0 .. MaxStarts
    BY <1>0, <1>6, StartsAssumption DEF StartEngine, StartSucceeds, StartFails, EngineTypeOK
  <2>2. enabled
    BY <1>0, <1>6 DEF StartEngine, StartSucceeds, StartFails, MayStart, WorkNeedsSetting,
                      EngineTypeOK
  <2>3. /\ client' \in [Engines -> BOOLEAN]
        /\ \/ UNCHANGED <<running, linked>>
           \/ /\ running' = [running EXCEPT !["api"] = TRUE]
              /\ linked' = [linked EXCEPT !["api"] = TRUE]
        /\ UNCHANGED <<killed, enabled, mode, raising, task, order, early>>
    BY <1>0, <1>6 DEF StartEngine, StartSucceeds, StartFails, engines, EngineTypeOK
  <2>4. EngineTypeOK'
    BY <1>0, <2>1, <2>3 DEF EngineTypeOK
  <2>5. PaperOnly' /\ WorkNeedsSetting'
    BY <2>2, <2>3 DEF PaperOnly, WorkNeedsSetting
  <2>6. LinkedIsRunning' /\ PassedIsEarly'
    BY <1>0, <2>3 DEF EngineInv, LinkedIsRunning, PassedIsEarly, EngineTypeOK
  <2> QED
    BY <2>4, <2>5, <2>6 DEF EngineInv
<1>7. CASE StopEngine
  BY <1>7 DEF StopEngine, Disconnect, EngineInv, EngineTypeOK, PaperOnly, WorkNeedsSetting,
              LinkedIsRunning, PassedIsEarly, routes
<1>8. ASSUME NEW m \in Modes, RequestMode(m) \/ FinishMode(m) PROVE EngineInv'
  BY <1>8 DEF RequestMode, FinishMode, EngineInv, EngineTypeOK, PaperOnly, WorkNeedsSetting,
              LinkedIsRunning, PassedIsEarly
<1>9. CASE Kill \/ Release
  BY <1>9 DEF Kill, TripEngines, Release, EngineInv, EngineTypeOK, PaperOnly, WorkNeedsSetting,
              LinkedIsRunning, PassedIsEarly, engines, routes
<1>10. CASE EvaluateDrawdown("runner")
  <2>1. (killed' = killed /\ early' = early) \/ TripEngines
    BY <1>10 DEF EvaluateDrawdown
  <2>2. /\ order' \in [Tasks -> {"none", "open", "cancelled"}]
        /\ mode' \in [Engines -> Modes]
        /\ \A t \in Tasks : order'[t] # "none" => order[t] # "none"
    BY <1>0, <1>10 DEF EvaluateDrawdown, EngineTypeOK, Modes
  <2>3. UNCHANGED <<enabled, running, client, linked, routes, task>>
    BY <1>10 DEF EvaluateDrawdown
  <2>4. EngineTypeOK'
    BY <1>0, <2>1, <2>2, <2>3 DEF TripEngines, EngineTypeOK, routes
  <2>5. PaperOnly' /\ WorkNeedsSetting' /\ LinkedIsRunning'
    BY <1>0, <2>2, <2>3 DEF EngineInv, PaperOnly, WorkNeedsSetting, LinkedIsRunning, routes
  <2>6. PassedIsEarly'
    BY <2>1, <2>3 DEF TripEngines, EngineInv, PassedIsEarly
  <2> QED
    BY <2>4, <2>5, <2>6 DEF EngineInv
<1>11. ASSUME NEW e \in Engines, RestartEngine(e) PROVE EngineInv'
  <2>1. /\ task' \in [Tasks -> TaskState]
        /\ \A t \in Tasks : \/ task'[t].stage = "idle"
                            \/ task'[t] = task[t] /\ task[t].engine # e
    <3>1. Idle("none") \in TaskState /\ Idle("none").stage = "idle"
      BY IdleType DEF Outcomes
    <3>2. task' = [t \in Tasks |-> IF task[t].stage # "idle" /\ task[t].engine = e
                                   THEN Idle("none") ELSE task[t]]
      BY <1>11 DEF RestartEngine
    <3> QED
      BY <1>0, <3>1, <3>2 DEF EngineTypeOK
  <2>2. /\ starts' \in {0, starts} /\ raising' \in {{}, raising}
        /\ mode' \in [Engines -> Modes]
        /\ running' = [running EXCEPT ![e] = FALSE]
        /\ client' = [client EXCEPT ![e] = FALSE]
        /\ linked' = [linked EXCEPT ![e] = FALSE]
        /\ early' = {t \in early : task[t].engine # e}
        /\ UNCHANGED <<killed, enabled, order>>
    BY <1>0, <1>11 DEF RestartEngine, EngineTypeOK, Modes
  <2>3. EngineTypeOK'
    BY <1>0, <2>1, <2>2, StartsAssumption DEF EngineTypeOK
  <2>4. PaperOnly' /\ LinkedIsRunning'
    BY <1>0, <2>2 DEF PaperOnly, EngineInv, LinkedIsRunning, EngineTypeOK
  <2>5. WorkNeedsSetting' /\ PassedIsEarly'
    BY <2>1, <2>2 DEF EngineInv, WorkNeedsSetting, PassedIsEarly
  <2> QED
    BY <2>3, <2>4, <2>5 DEF EngineInv
<1>12. CASE UNCHANGED engineVars
  BY <1>12 DEF engineVars, EngineInv, EngineTypeOK, PaperOnly, WorkNeedsSetting, LinkedIsRunning,
               PassedIsEarly, engines, routes
<1> QED
  BY <1>1, <1>2, <1>3, <1>4, <1>5, <1>6, <1>7, <1>8, <1>9, <1>10, <1>11, <1>12
     DEF EngineNext, TaskStep

\* The inductive invariant holds in every reachable state.
THEOREM LiveInvariant == EngineSpec => []EngineInv
  BY InitEngineInv, StepIInv, PTL DEF EngineSpec

\* With live trading disabled no engine runs and nothing is ever ordered.
THEOREM PaperOnlyHolds == EngineSpec => [](EngineTypeOK /\ PaperOnly)
<1>1. EngineInv => EngineTypeOK /\ PaperOnly
  BY DEF EngineInv
<1> QED
  BY <1>1, LiveInvariant, PTL

\* Stopping the engine cuts its connection, through overlapping starts.
THEOREM ConnectedIsRunningHolds == EngineSpec => []ConnectedIsRunning
<1>1. EngineInv => ConnectedIsRunning
  BY DEF EngineInv, LinkedIsRunning, ConnectedIsRunning, Connected
<1> QED
  BY <1>1, LiveInvariant, PTL

\* Only PlaceOrder sends an order.
LEMMA PlaceStep ==
    ASSUME EngineInv, [EngineNext]_engineVars, NEW t \in Tasks, Places(t)
    PROVE  PlaceOrder(t)
<1> USE DEF Places
<1>0. EngineTypeOK
  BY DEF EngineInv
<1>1. ASSUME NEW u \in Tasks, NEW e \in Engines, NEW approved \in BOOLEAN,
             CallEngine(u, e, approved)
      PROVE  FALSE
  BY <1>0, <1>1, BeginChecksType, FinishType DEF CallEngine, Outcomes
<1>2. ASSUME NEW u \in Tasks, NEW e \in Engines, StartPipeline(u, e) PROVE FALSE
  BY <1>0, <1>2, FinishType DEF StartPipeline, Outcomes, EngineTypeOK
<1>3. ASSUME NEW u \in Tasks, RouteOrder(u) PROVE FALSE
  <2>1. task[u].engine \in Engines
    BY <1>0 DEF EngineTypeOK, TaskState
  <2> QED
    BY <1>0, <1>3, <2>1, BeginChecksType, FinishType DEF RouteOrder, Outcomes
<1>4. ASSUME NEW u \in Tasks, RefuseOrder(u) \/ ReceiveOrder(u) \/ OrderError(u) PROVE FALSE
  BY <1>0, <1>4, FinishType DEF RefuseOrder, ReceiveOrder, OrderError, Outcomes
<1>5. ASSUME NEW u \in Tasks, PlaceOrder(u) PROVE PlaceOrder(t)
  <2>1. u = t
    BY <1>0, <1>5 DEF PlaceOrder, EngineTypeOK
  <2> QED
    BY <1>5, <2>1
<1>6. CASE StartEngine \/ StartSucceeds \/ StartFails \/ StopEngine \/ Kill \/ Release
             \/ EvaluateDrawdown("runner") \/ UNCHANGED engineVars
  BY <1>6 DEF StartEngine, StartSucceeds, StartFails, StopEngine, Kill, Release,
              EvaluateDrawdown, engineVars
<1>7. ASSUME NEW m \in Modes, RequestMode(m) \/ FinishMode(m) PROVE FALSE
  BY <1>7 DEF RequestMode, FinishMode
<1>8. ASSUME NEW e \in Engines, RestartEngine(e) PROVE FALSE
  BY <1>8, IdleType DEF RestartEngine, Outcomes
<1> QED
  BY <1>1, <1>2, <1>3, <1>4, <1>5, <1>6, <1>7, <1>8 DEF EngineNext, TaskStep

\* An order that leaves under a trip had passed its check before it.
THEOREM OnlyEarlyOrdersAfterKillHolds == EngineSpec => OnlyEarlyOrdersAfterKill
<1>1. EngineInv /\ [EngineNext]_engineVars
        => [\A t \in Tasks : Places(t) /\ killed => t \in early]_engineVars
  BY PlaceStep DEF PlaceOrder, MustBlock, EngineInv, PassedIsEarly
<1> QED
  BY <1>1, LiveInvariant, PTL DEF EngineSpec, OnlyEarlyOrdersAfterKill

-----------------------------------------------------------------------------
(* LiveEngine uses the switch as KillSwitchPromise allows *)

\* What the tasks carry of the switch's answers changes for one task, which was
\* answered now, for those of a process that restarts, or not at all.
LEMMA AnswersMove ==
    ASSUME EngineInv, [EngineNext]_engineVars
    PROVE  \/ task' = task
           \/ /\ killed' = killed
              /\ \/ \E P \in SUBSET Tasks : \A t \in Tasks :
                       IF t \in P THEN ~task'[t].killOk ELSE task'[t] = task[t]
                 \/ ~killed /\ \E t \in Tasks : \A u \in Tasks \ {t} : task'[u] = task[u]
<1>0. EngineTypeOK
  BY DEF EngineInv
<1>1. ASSUME NEW t \in Tasks, NEW o \in Outcomes, Finish(t, o), killed' = killed
      PROVE  \E P \in SUBSET Tasks : \A u \in Tasks :
               IF u \in P THEN ~task'[u].killOk ELSE task'[u] = task[u]
  <2>1. \A u \in Tasks : IF u \in {t} THEN ~task'[u].killOk ELSE task'[u] = task[u]
    BY <1>0, <1>1, FinishType
  <2> QED
    BY <2>1
<1>2. ASSUME NEW t \in Tasks, NEW e \in Engines, NEW approved \in BOOLEAN,
             BeginChecks(t, e, approved)
      PROVE  \/ ~killed /\ \A u \in Tasks \ {t} : task'[u] = task[u]
             \/ \E P \in SUBSET Tasks : \A u \in Tasks :
                  IF u \in P THEN ~task'[u].killOk ELSE task'[u] = task[u]
  <2>1. /\ task'[t].killOk => ~killed
        /\ \A u \in Tasks \ {t} : task'[u] = task[u]
    BY <1>0, <1>2, BeginChecksType
  <2>2. CASE task'[t].killOk
    BY <2>1, <2>2
  <2>3. CASE ~task'[t].killOk
    <3>1. \A u \in Tasks : IF u \in {t} THEN ~task'[u].killOk ELSE task'[u] = task[u]
      BY <2>1, <2>3
    <3> QED
      BY <3>1
  <2> QED
    BY <2>2, <2>3
<1>3. ASSUME NEW t \in Tasks, NEW e \in Engines,
             \/ StartPipeline(t, e)
             \/ \E approved \in BOOLEAN : CallEngine(t, e, approved)
      PROVE  /\ killed' = killed
             /\ \/ \E P \in SUBSET Tasks : \A u \in Tasks :
                      IF u \in P THEN ~task'[u].killOk ELSE task'[u] = task[u]
                \/ ~killed /\ \A u \in Tasks \ {t} : task'[u] = task[u]
  <2>1. CASE StartPipeline(t, e)
    <3> DEFINE r == [Idle("none") EXCEPT !.stage = "route", !.engine = e]
    <3>1. ~r.killOk
      BY DEF Idle
    <3> HIDE DEF r
    <3>2. CASE task' = [task EXCEPT ![t] = r]
      <4>1. \A u \in Tasks : IF u \in {t} THEN ~task'[u].killOk ELSE task'[u] = task[u]
        BY <1>0, <3>1, <3>2 DEF EngineTypeOK
      <4> QED
        BY <2>1, <4>1 DEF StartPipeline
    <3>3. CASE Finish(t, "paper")
      BY <1>1, <2>1, <3>3 DEF StartPipeline, Outcomes
    <3> QED
      BY <2>1, <3>2, <3>3 DEF StartPipeline, r
  <2>2. ASSUME NEW approved \in BOOLEAN, CallEngine(t, e, approved)
        PROVE  /\ killed' = killed
               /\ BeginChecks(t, e, approved) \/ Finish(t, "refused")
    BY <2>2 DEF CallEngine
  <2> QED
    BY <1>1, <1>2, <1>3, <2>1, <2>2 DEF Outcomes
<1>4. ASSUME NEW t \in Tasks, TaskStep(t)
      PROVE  /\ killed' = killed
             /\ \/ \E P \in SUBSET Tasks : \A u \in Tasks :
                      IF u \in P THEN ~task'[u].killOk ELSE task'[u] = task[u]
                \/ ~killed /\ \A u \in Tasks \ {t} : task'[u] = task[u]
  <2>1. killed' = killed
    BY <1>4 DEF TaskStep, RouteOrder, RefuseOrder, PlaceOrder, ReceiveOrder, OrderError
  <2>2. CASE \E o \in Outcomes : Finish(t, o)
    BY <1>1, <2>1, <2>2
  <2>3. CASE BeginChecks(t, task[t].engine, FALSE)
    <3>1. task[t].engine \in Engines
      BY <1>0 DEF EngineTypeOK, TaskState
    <3> QED
      BY <1>2, <2>1, <2>3, <3>1
  <2>4. CASE PlaceOrder(t)
    <3> DEFINE r == [Idle("none") EXCEPT !.stage = "sent", !.engine = task[t].engine]
    <3>1. ~r.killOk
      BY DEF Idle
    <3>2. task' = [task EXCEPT ![t] = r]
      BY <2>4 DEF PlaceOrder
    <3> HIDE DEF r
    <3>3. \A u \in Tasks : IF u \in {t} THEN ~task'[u].killOk ELSE task'[u] = task[u]
      BY <1>0, <3>1, <3>2 DEF EngineTypeOK
    <3> QED
      BY <2>1, <3>3
  <2> QED
    BY <1>4, <2>2, <2>3, <2>4 DEF TaskStep, RouteOrder, RefuseOrder, ReceiveOrder, OrderError,
                                  Outcomes
<1>5. ASSUME NEW e \in Engines, RestartEngine(e)
      PROVE  /\ killed' = killed
             /\ \E P \in SUBSET Tasks : \A u \in Tasks :
                  IF u \in P THEN ~task'[u].killOk ELSE task'[u] = task[u]
  <2> DEFINE P == {u \in Tasks : task[u].stage # "idle" /\ task[u].engine = e}
  <2>1. \A u \in Tasks : IF u \in P THEN ~task'[u].killOk ELSE task'[u] = task[u]
    BY <1>5, IdleType DEF RestartEngine, Outcomes
  <2> QED
    BY <1>5, <2>1 DEF RestartEngine
<1>6. CASE StartEngine \/ StartSucceeds \/ StartFails \/ StopEngine \/ Kill \/ Release
             \/ EvaluateDrawdown("runner") \/ UNCHANGED engineVars
  BY <1>6 DEF StartEngine, StartSucceeds, StartFails, StopEngine, Kill, Release,
              EvaluateDrawdown, engineVars
<1>7. ASSUME NEW m \in Modes, RequestMode(m) \/ FinishMode(m) PROVE task' = task
  BY <1>7 DEF RequestMode, FinishMode
<1>8. CASE \E t \in Tasks, e \in Engines :
               StartPipeline(t, e) \/ \E approved \in BOOLEAN : CallEngine(t, e, approved)
  <2>1. PICK t \in Tasks, e \in Engines :
               StartPipeline(t, e) \/ \E approved \in BOOLEAN : CallEngine(t, e, approved)
    BY <1>8
  <2> QED
    BY <1>3, <2>1
<1>9. CASE \E t \in Tasks : TaskStep(t)
  BY <1>4, <1>9
<1>10. CASE \E e \in Engines : RestartEngine(e)
  BY <1>5, <1>10
<1> QED
  BY <1>6, <1>7, <1>8, <1>9, <1>10 DEF EngineNext

\* The engine relies on no more of the switch than the promise: the answers its
\* orders carry are answers KillSwitchPromise gives (check_pre_trade).
THEOREM UsesSwitchAsPromised == EngineSpec => SwitchAsPromised
<1> DEFINE Verdict == [t \in Tasks |-> IF task[t].killOk THEN "allow" ELSE "block"]
<1>1. EngineInit => Switch!Init
  BY IdleType DEF EngineInit, Switch!Init, Outcomes
<1>2. ASSUME EngineInv, [EngineNext]_engineVars
      PROVE  [Switch!Next]_<<killed, Verdict>>
  <2>1. killed' \in BOOLEAN /\ killed \in BOOLEAN
    BY <1>2, StepIInv DEF EngineInv, EngineTypeOK
  <2>2. CASE task' = task
    <3>1. Verdict' = Verdict
      BY <2>2
    <3> QED
      BY <2>1, <3>1 DEF Switch!Next, Switch!Kill, Switch!Release
  <2>3. ASSUME killed' = killed, NEW P \in SUBSET Tasks,
               \A t \in Tasks : IF t \in P THEN ~task'[t].killOk ELSE task'[t] = task[t]
        PROVE  Switch!Next
    <3>1. Verdict' = [t \in Tasks |-> IF t \in P THEN "block" ELSE Verdict[t]]
      BY <2>3
    <3>2. Switch!Forget(P)
      BY <2>3, <3>1 DEF Switch!Forget
    <3> QED
      BY <3>2 DEF Switch!Next
  <2>4. ASSUME killed' = killed, ~killed, NEW t \in Tasks,
               \A u \in Tasks \ {t} : task'[u] = task[u]
        PROVE  Switch!Next
    <3>1. \A u \in Tasks \ {t} : Verdict'[u] = Verdict[u]
      BY <2>4
    <3>2. CASE task'[t].killOk
      <4>1. Verdict' = [Verdict EXCEPT ![t] = "allow"]
        BY <3>1, <3>2
      <4>2. Switch!Answer(t, "allow")
        BY <2>4, <4>1 DEF Switch!Answer
      <4> QED
        BY <4>2 DEF Switch!Next
    <3>3. CASE ~task'[t].killOk
      <4>1. Verdict' = [Verdict EXCEPT ![t] = "block"]
        BY <3>1, <3>3
      <4>2. Switch!Answer(t, "block")
        BY <2>4, <4>1 DEF Switch!Answer
      <4> QED
        BY <4>2 DEF Switch!Next
    <3> QED
      BY <3>2, <3>3
  <2> HIDE DEF Verdict
  <2> QED
    BY <1>2, <2>2, <2>3, <2>4, AnswersMove
<1> QED
  BY <1>1, <1>2, LiveInvariant, PTL DEF EngineSpec, SwitchAsPromised, Switch!Spec

-----------------------------------------------------------------------------
(* The common divisor *)

\* Divisors, and a common one that all the others divide.
Divides(d, n) == \E k \in Nat : n = d * k

Common(a, b) == {d \in Nat : Divides(d, a) /\ Divides(d, b)}

Greatest(a, b) == CHOOSE g \in Common(a, b) : \A d \in Common(a, b) : Divides(d, g)

\* The remainder of a division.
LEMMA Remainder ==
    ASSUME NEW a \in Int, NEW b \in Nat \ {0}
    PROVE  /\ a \div b \in Int /\ a % b \in Nat /\ a = b * (a \div b) + (a % b)
           /\ a % b < b
           /\ a >= 0 => a \div b \in Nat
<1> DEFINE q == a \div b
           r == a % b
<1>1. q \in Int /\ r \in Int /\ 0 <= r /\ r < b
  OBVIOUS
<1>2. q * b + r = a
  <2>1. b \in Int /\ b > 0
    OBVIOUS
  <2> QED BY <2>1
<1> HIDE DEF q, r
<1>3. a = b * q + r
  BY <1>1, <1>2
<1>4. a >= 0 => q >= 0
  BY <1>1, <1>3
<1>5. q \in Int /\ r \in Nat /\ a = b * q + r /\ r < b /\ (a >= 0 => q \in Nat)
  BY <1>1, <1>3, <1>4
<1> QED BY <1>5 DEF q, r

\* A divisor of two numbers divides the remainder of one by the other.
LEMMA DividesRemainder ==
    ASSUME NEW d \in Nat, NEW a \in Nat, NEW b \in Nat \ {0}
    PROVE  (Divides(d, a) /\ Divides(d, b)) <=> (Divides(d, b) /\ Divides(d, a % b))
<1>1. a \div b \in Nat /\ a % b \in Nat /\ a = b * (a \div b) + (a % b)
  BY Remainder
<1>2. ASSUME Divides(d, b), Divides(d, a) PROVE Divides(d, a % b)
  <2>1. PICK j \in Nat : b = d * j
    BY <1>2 DEF Divides
  <2>2. PICK k \in Nat : a = d * k
    BY <1>2 DEF Divides
  <2> DEFINE q == a \div b
             r == a % b
  <2>3. q \in Nat /\ r \in Nat /\ a = b * q + r
    BY <1>1
  <2> HIDE DEF q, r
  <2>4. r = d * (k - j * q)
    BY <2>1, <2>2, <2>3
  <2>5. CASE d = 0
    BY <2>4, <2>5, <2>3 DEF Divides
  <2>6. CASE d # 0
    <3>1. k - j * q \in Int
      BY <2>3
    <3> DEFINE m == k - j * q
    <3> HIDE DEF m
    <3>2. r = d * m /\ m \in Int
      BY <2>4, <3>1 DEF m
    <3>3. m >= 0
      BY <3>2, <2>3, <2>6
    <3> QED BY <3>2, <3>3 DEF Divides, r
  <2> QED BY <2>5, <2>6
<1>3. ASSUME Divides(d, b), Divides(d, a % b) PROVE Divides(d, a)
  <2> DEFINE q == a \div b
             r == a % b
  <2>1. PICK j \in Nat : b = d * j
    BY <1>3 DEF Divides
  <2>2. PICK k \in Nat : r = d * k
    BY <1>3 DEF Divides
  <2>3. q \in Nat /\ r \in Nat /\ a = b * q + r
    BY <1>1
  <2> HIDE DEF q, r
  <2>4. a = d * (j * q + k) /\ j * q + k \in Nat
    BY <2>1, <2>2, <2>3
  <2> QED BY <2>4 DEF Divides
<1> QED BY <1>2, <1>3

\* So the greatest common divisor has the recursion of the algorithm ...
LEMMA GreatestStep ==
    ASSUME NEW a \in Nat, NEW b \in Nat
    PROVE  Greatest(a, b) = IF b = 0 THEN a ELSE Greatest(b, a % b)
<1>1. ASSUME b # 0 PROVE Greatest(a, b) = Greatest(b, a % b)
  <2>1. Common(a, b) = Common(b, a % b)
    BY <1>1, DividesRemainder DEF Common
  <2> QED BY <2>1 DEF Greatest
<1>2. ASSUME b = 0 PROVE Greatest(a, b) = a
  <2>1. \A d \in Nat : Divides(d, 0)
    BY DEF Divides
  <2>2. Divides(a, a)
    BY DEF Divides
  <2>3. a \in Common(a, 0) /\ \A d \in Common(a, 0) : Divides(d, a)
    BY <2>1, <2>2 DEF Common
  <2>4. \A g \in Common(a, 0) : (\A d \in Common(a, 0) : Divides(d, g)) => g = a
    <3> SUFFICES ASSUME NEW g \in Nat, Divides(g, a), Divides(a, g) PROVE g = a
      BY <2>3 DEF Common
    <3>1. PICK j \in Nat : a = g * j
      BY DEF Divides
    <3>2. PICK k \in Nat : g = a * k
      BY DEF Divides
    <3>3. CASE a = 0
      BY <3>2, <3>3
    <3>4. CASE a # 0
      <4>1. a = a * (k * j)
        BY <3>1, <3>2
      <4>2. k * j = 1
        BY <4>1, <3>4
      <4>3. k = 1
        BY <4>2
      <4> QED BY <4>3, <3>2
    <3> QED BY <3>3, <3>4
  <2> QED BY <1>2, <2>3, <2>4 DEF Greatest
<1> QED BY <1>1, <1>2

\* ... and the algorithm, which is a function with that recursion, exists.
LEMMA GcdStep ==
    ASSUME NEW a \in Nat, NEW b \in Nat
    PROVE  Gcd[<<a, b>>] = IF b = 0 THEN a ELSE Gcd[<<b, a % b>>]
<1> DEFINE f == [p \in Nat \X Nat |-> Greatest(p[1], p[2])]
<1>1. f = [p \in Nat \X Nat |-> IF p[2] = 0 THEN p[1] ELSE f[<<p[2], p[1] % p[2]>>]]
  <2>1. ASSUME NEW p \in Nat \X Nat
        PROVE  Greatest(p[1], p[2]) = IF p[2] = 0 THEN p[1] ELSE f[<<p[2], p[1] % p[2]>>]
    <3>1. p[1] \in Nat /\ p[2] \in Nat
      OBVIOUS
    <3>2. p[2] # 0 => p[1] % p[2] \in Nat
      BY <3>1, Remainder
    <3>3. p[2] # 0 => f[<<p[2], p[1] % p[2]>>] = Greatest(p[2], p[1] % p[2])
      BY <3>1, <3>2
    <3> QED BY <3>1, <3>3, GreatestStep
  <2> QED BY <2>1
<1> HIDE DEF f
<1>2. Gcd = [p \in Nat \X Nat |-> IF p[2] = 0 THEN p[1] ELSE Gcd[<<p[2], p[1] % p[2]>>]]
  BY <1>1 DEF Gcd
<1>3. <<a, b>> \in Nat \X Nat
  OBVIOUS
<1> QED BY <1>2, <1>3

\* What the algorithm returns: a common divisor, and a combination of the two.
Measures(g, a, b) ==
    /\ g \in Nat
    /\ \E j, k \in Nat : a = g * j /\ b = g * k
    /\ \E u, v \in Int : u * a + v * b = g

\* By induction over the second number, which the remainder is below.
LEMMA GcdMeasures ==
    \A b \in Nat : \A a \in Nat : Measures(Gcd[<<a, b>>], a, b)
<1> DEFINE Fine(b) == \A a \in Nat : Measures(Gcd[<<a, b>>], a, b)
           T == {n \in Nat : \A b \in 0..n : Fine(b)}
<1>1. Fine(0)
  <2> SUFFICES ASSUME NEW a \in Nat PROVE Measures(Gcd[<<a, 0>>], a, 0)
    OBVIOUS
  <2>1. Gcd[<<a, 0>>] = a
    BY GcdStep
  <2>2. a = a * 1 /\ 0 = a * 0
    OBVIOUS
  <2>3. 1 * a + 0 * 0 = a
    OBVIOUS
  <2>4. Measures(a, a, 0)
    BY <2>2, <2>3 DEF Measures
  <2> QED BY <2>1, <2>4
<1>2. ASSUME NEW n \in Nat, \A b \in 0..n : Fine(b)
      PROVE  Fine(n + 1)
  <2> SUFFICES ASSUME NEW a \in Nat PROVE Measures(Gcd[<<a, n + 1>>], a, n + 1)
    OBVIOUS
  <2> DEFINE b == n + 1
             q == a \div b
             r == a % b
  <2>1. b \in Nat \ {0} /\ q \in Nat /\ r \in Nat /\ a = b * q + r /\ r < b
    <3>1. b \in Nat \ {0}
      OBVIOUS
    <3> HIDE DEF b
    <3> QED BY <3>1, Remainder
  <2>2. Gcd[<<a, b>>] = Gcd[<<b, r>>]
    <3> HIDE DEF b
    <3> QED BY <2>1, GcdStep
  <2>3. r \in 0..n
    BY <2>1
  <2>4. Measures(Gcd[<<b, r>>], b, r)
    <3>1. Fine(r)
      BY <1>2, <2>3
    <3> HIDE DEF r
    <3>2. b \in Nat
      OBVIOUS
    <3> QED BY <3>1, <3>2
  <2> DEFINE g == Gcd[<<b, r>>]
  <2> HIDE DEF b, q, r, g
  <2>5. PICK j \in Nat, k \in Nat : b = g * j /\ r = g * k
    BY <2>4 DEF Measures, g
  <2>6. PICK u \in Int, v \in Int : u * b + v * r = g
    BY <2>4 DEF Measures, g
  <2>7. g \in Nat
    BY <2>4 DEF Measures, g
  <2>8. a = g * (j * q + k) /\ j * q + k \in Nat
    BY <2>1, <2>5, <2>7
  <2>9. v * a + (u - v * q) * b = g /\ u - v * q \in Int
    BY <2>1, <2>6, <2>7
  <2>10. Measures(g, a, b)
    BY <2>5, <2>7, <2>8, <2>9 DEF Measures
  <2> QED BY <2>2, <2>10 DEF g, b
<1> HIDE DEF Fine
<1>3. 0 \in T
  BY <1>1
<1>4. \A n \in Nat : n \in T => n + 1 \in T
  <2> SUFFICES ASSUME NEW n \in Nat, \A b \in 0..n : Fine(b)
               PROVE  \A b \in 0..(n + 1) : Fine(b)
    OBVIOUS
  <2>1. Fine(n + 1)
    BY <1>2
  <2>2. \A b \in 0..(n + 1) : b \in 0..n \/ b = n + 1
    OBVIOUS
  <2> QED BY <2>1, <2>2
<1> HIDE DEF T
<1>5. \A n \in Nat : n \in T
  BY <1>3, <1>4, Induction
<1>6. \A n \in Nat : Fine(n)
  <2> SUFFICES ASSUME NEW n \in Nat PROVE Fine(n)
    OBVIOUS
  <2>1. n \in T /\ n \in 0..n
    BY <1>5
  <2> QED BY <2>1 DEF T
<1> QED BY <1>6 DEF Fine

-----------------------------------------------------------------------------
(* Fractions *)

\* Fractions in lowest terms: some combination of the two parts is one.
Rationals ==
    {x \in Int \X (Nat \ {0}) : \E u, v \in Int : u * x[1] + v * x[2] = 1}

\* x stands for n over d.
Value(x, n, d) ==
    /\ x \in Rationals
    /\ n \in Int /\ d \in Nat \ {0}
    /\ x[1] * d = n * x[2]

\* What a fraction is made of; it stands for the one over the other.
LEMMA RationalParts ==
    ASSUME NEW x \in Rationals
    PROVE  /\ x[1] \in Int /\ x[2] \in Nat \ {0} /\ x = <<x[1], x[2]>>
           /\ \E u, v \in Int : u * x[1] + v * x[2] = 1
           /\ Value(x, x[1], x[2])
<1>1. x \in Int \X (Nat \ {0})
  BY DEF Rationals
<1>2. x[1] \in Int /\ x[2] \in Nat \ {0} /\ x = <<x[1], x[2]>>
  BY <1>1
<1> QED BY <1>2 DEF Rationals, Value

\* Lowest terms are unique: what stands for the same value is the same.
LEMMA SameValue ==
    ASSUME NEW x, NEW y, NEW n, NEW d, NEW m, NEW e,
           Value(x, n, d), Value(y, m, e), n * e = m * d
    PROVE  x = y
<1> DEFINE a == x[1]
           b == x[2]
           p == y[1]
           q == y[2]
<1>1. x \in Rationals /\ y \in Rationals
  BY DEF Value
<1>2. a \in Int /\ b \in Nat \ {0} /\ x = <<a, b>>
  BY <1>1, RationalParts
<1>3. p \in Int /\ q \in Nat \ {0} /\ y = <<p, q>>
  BY <1>1, RationalParts
<1>4. PICK u \in Int, v \in Int : u * a + v * b = 1
  BY <1>1, RationalParts
<1>5. PICK s \in Int, t \in Int : s * p + t * q = 1
  BY <1>1, RationalParts
<1>6. /\ n \in Int /\ d \in Nat \ {0} /\ a * d = n * b
      /\ m \in Int /\ e \in Nat \ {0} /\ p * e = m * q
  BY DEF Value
<1> HIDE DEF a, b, p, q
<1>7. a * q = p * b
  <2>1. (a * q) * (d * e) = (p * b) * (d * e)
    <3>1. (a * q) * (d * e) = (a * d) * (q * e)
      BY <1>2, <1>3, <1>6
    <3>2. (p * b) * (d * e) = (p * e) * (b * d)
      BY <1>2, <1>3, <1>6
    <3>3. (n * b) * (q * e) = (n * e) * (b * q)
      BY <1>2, <1>3, <1>6
    <3>4. (m * q) * (b * d) = (m * d) * (b * q)
      BY <1>2, <1>3, <1>6
    <3> QED BY <3>1, <3>2, <3>3, <3>4, <1>6
  <2>2. d * e # 0 /\ d * e \in Int
    BY <1>6
  <2> DEFINE de == d * e
             aq == a * q
             pb == p * b
  <2>3. aq \in Int /\ pb \in Int /\ de \in Int /\ de # 0 /\ aq * de = pb * de
    BY <1>2, <1>3, <2>1, <2>2
  <2> HIDE DEF de, aq, pb
  <2>4. aq = pb
    BY <2>3
  <2> QED BY <2>4 DEF aq, pb
\* Each denominator is a multiple of the other one.
<1>8. q = b * (u * p + v * q)
  <2>1. q = q * (u * a + v * b)
    BY <1>3, <1>4
  <2>2. q * (u * a + v * b) = u * (a * q) + v * q * b
    BY <1>2, <1>3, <1>4
  <2>3. u * (p * b) + v * q * b = b * (u * p + v * q)
    BY <1>2, <1>3, <1>4
  <2> QED BY <2>1, <2>2, <2>3, <1>7
<1>9. b = q * (s * a + t * b)
  <2>1. b = b * (s * p + t * q)
    BY <1>2, <1>5
  <2>2. b * (s * p + t * q) = s * (p * b) + t * b * q
    BY <1>2, <1>3, <1>5
  <2>3. s * (a * q) + t * b * q = q * (s * a + t * b)
    BY <1>2, <1>3, <1>5
  <2> QED BY <2>1, <2>2, <2>3, <1>7
<1>10. b = q
  <2> DEFINE i == u * p + v * q
             j == s * a + t * b
  <2>1. i \in Int /\ j \in Int /\ q = b * i /\ b = q * j
    BY <1>2, <1>3, <1>4, <1>5, <1>8, <1>9
  <2> HIDE DEF i, j
  <2>2. i > 0 /\ j > 0
    BY <2>1, <1>2, <1>3
  <2>3. q >= b /\ b >= q
    BY <2>1, <2>2, <1>2, <1>3
  <2> QED BY <2>3, <1>2, <1>3
<1>11. a = p
  BY <1>2, <1>3, <1>7, <1>10
<1> QED BY <1>2, <1>3, <1>10, <1>11

\* A factor that is not zero.
LEMMA Cancel ==
    ASSUME NEW a \in Int, NEW b \in Int, NEW c \in Int, c # 0, a * c = b * c
    PROVE  a = b
  OBVIOUS

\* One value, written in two ways.
LEMMA ValueMoves ==
    ASSUME NEW x, NEW n, NEW d, NEW m \in Int, NEW e \in Nat \ {0},
           Value(x, n, d), n * e = m * d
    PROVE  Value(x, m, e)
<1> DEFINE a == x[1]
           b == x[2]
<1>1. x \in Rationals /\ a \in Int /\ b \in Nat \ {0}
  BY RationalParts DEF Value
<1>2. n \in Int /\ d \in Nat \ {0} /\ a * d = n * b
  BY DEF Value
<1> HIDE DEF a, b
<1>3. (a * e) * d = (m * b) * d
  <2>1. (a * e) * d = (a * d) * e
    BY <1>1, <1>2
  <2>2. (n * b) * e = (n * e) * b
    BY <1>1, <1>2
  <2>3. (m * d) * b = (m * b) * d
    BY <1>1, <1>2
  <2> QED BY <2>1, <2>2, <2>3, <1>2
<1>4. a * e \in Int /\ m * b \in Int /\ d # 0 /\ d \in Int
  BY <1>1, <1>2
<1> DEFINE ae == a * e
           mb == m * b
<1>5. ae * d = mb * d /\ ae \in Int /\ mb \in Int
  BY <1>3, <1>4
<1> HIDE DEF ae, mb
<1>6. ae = mb
  BY <1>4, <1>5, Cancel
<1> QED BY <1>1, <1>6 DEF Value, a, b, ae, mb

\* What is brought to lowest terms is a fraction, both parts divided by one number.
LEMMA FracParts ==
    ASSUME NEW n \in Int, NEW d \in Nat \ {0}
    PROVE  /\ Frac(n, d) \in Rationals
           /\ \E g \in Nat \ {0} : n = g * Frac(n, d)[1] /\ d = g * Frac(n, d)[2]
<1> DEFINE m == IF n < 0 THEN -n ELSE n
           g == Gcd[<<m, d>>]
<1>1. m \in Nat
  OBVIOUS
<1>2. Measures(g, m, d)
  <2> HIDE DEF m
  <2> QED BY <1>1, GcdMeasures
<1>3. n = m \/ n = -m
  OBVIOUS
<1>4. Frac(n, d) = <<n \div g, d \div g>>
  BY DEF Frac, Lowest
<1> HIDE DEF m, g
<1>5. PICK j \in Nat, k \in Nat : m = g * j /\ d = g * k
  BY <1>2 DEF Measures
<1>6. PICK u \in Int, v \in Int : u * m + v * d = g
  BY <1>2 DEF Measures
<1>7. g \in Nat /\ g > 0 /\ k > 0
  BY <1>2, <1>5 DEF Measures
<1>8. PICK i \in Int, s \in Int : n = g * i /\ s * n + v * d = g
  <2>1. CASE n = m
    BY <2>1, <1>5, <1>6
  <2>2. CASE n = -m
    <3>1. n = g * (-j) /\ (-u) * n + v * d = g
      BY <2>2, <1>1, <1>5, <1>6, <1>7
    <3> QED BY <3>1
  <2> QED BY <1>3, <2>1, <2>2
<1>9. n \div g = i
  BY <1>7, <1>8
<1>10. d \div g = k
  BY <1>7, <1>5
<1>11. s * i + v * k = 1
  <2>1. (s * i + v * k) * g = 1 * g
    BY <1>5, <1>7, <1>8
  <2> DEFINE z == s * i + v * k
  <2>2. z \in Int /\ z * g = 1 * g
    BY <2>1
  <2> HIDE DEF z
  <2>3. z = 1
    BY <2>2, <1>7
  <2> QED BY <2>3 DEF z
<1>12. Frac(n, d) = <<i, k>>
  BY <1>4, <1>9, <1>10
<1> DEFINE x == <<i, k>>
<1>13. x[1] = i /\ x[2] = k /\ x \in Int \X (Nat \ {0})
  BY <1>7
<1> HIDE DEF x
<1>14. s * x[1] + v * x[2] = 1
  BY <1>11, <1>13
<1>15. x \in Rationals
  BY <1>13, <1>14 DEF Rationals
<1>16. g \in Nat \ {0} /\ n = g * x[1] /\ d = g * x[2]
  BY <1>5, <1>7, <1>8, <1>13
<1> QED BY <1>12, <1>15, <1>16 DEF x

\* And it stands for what it was made of.
LEMMA FracValue ==
    ASSUME NEW n \in Int, NEW d \in Nat \ {0}
    PROVE  Value(Frac(n, d), n, d)
<1>1. PICK g \in Nat \ {0} : n = g * Frac(n, d)[1] /\ d = g * Frac(n, d)[2]
  BY FracParts
<1>2. Frac(n, d) \in Rationals
  BY FracParts
<1> DEFINE a == Frac(n, d)[1]
           b == Frac(n, d)[2]
<1>3. a \in Int /\ b \in Nat \ {0}
  BY <1>2, RationalParts
<1> HIDE DEF a, b
<1>4. a * d = n * b
  BY <1>1, <1>3 DEF a, b
<1> QED BY <1>2, <1>4 DEF Value, a, b

\* Two numbers without a common divisor.
Coprime(a, b) == \E u, v \in Int : u * a + v * b = 1

\* In either order.
LEMMA CoprimeSwaps ==
    ASSUME NEW a \in Int, NEW b \in Int, Coprime(a, b)
    PROVE  Coprime(b, a)
<1>1. PICK u \in Int, v \in Int : u * a + v * b = 1
  BY DEF Coprime
<1>2. v * b + u * a = 1
  BY <1>1
<1> QED BY <1>2 DEF Coprime

\* What is coprime to two numbers is coprime to their product.
LEMMA CoprimeProduct ==
    ASSUME NEW a \in Int, NEW b \in Int, NEW c \in Int, Coprime(a, b), Coprime(a, c)
    PROVE  Coprime(a, b * c)
<1>1. PICK u \in Int, v \in Int : u * a + v * b = 1
  BY DEF Coprime
<1>2. PICK s \in Int, t \in Int : s * a + t * c = 1
  BY DEF Coprime
<1>3. (u * a + v * b) * (s * a + t * c) = 1
  BY <1>1, <1>2
<1>4. (u * a + v * b) * (s * a + t * c) = (u * s * a + u * t * c + v * b * s) * a + (v * t) * (b * c)
  OBVIOUS
<1>5. (u * s * a + u * t * c + v * b * s) \in Int /\ v * t \in Int
  OBVIOUS
<1> QED BY <1>3, <1>4, <1>5 DEF Coprime

\* A product, whose factors are brought to lowest terms crosswise.
LEMMA TimesParts ==
    ASSUME NEW x \in Rationals, NEW y \in Rationals
    PROVE  Value(Times(x, y), x[1] * y[1], x[2] * y[2])
<1> DEFINE v == Frac(x[1], y[2])
           w == Frac(y[1], x[2])
           a == v[1]
           b == v[2]
           c == w[1]
           d == w[2]
<1>1. /\ x[1] \in Int /\ x[2] \in Nat \ {0} /\ Coprime(x[1], x[2])
      /\ y[1] \in Int /\ y[2] \in Nat \ {0} /\ Coprime(y[1], y[2])
  BY RationalParts DEF Coprime
<1>2. v \in Rationals /\ w \in Rationals
  BY <1>1, FracParts
<1>3. PICK g \in Nat \ {0} : x[1] = g * a /\ y[2] = g * b
  BY <1>1, FracParts
<1>4. PICK h \in Nat \ {0} : y[1] = h * c /\ x[2] = h * d
  BY <1>1, FracParts
<1>5. /\ a \in Int /\ b \in Nat \ {0} /\ Coprime(a, b)
      /\ c \in Int /\ d \in Nat \ {0} /\ Coprime(c, d)
  BY <1>2, RationalParts DEF Coprime
<1>6. Times(x, y) = <<a * c, b * d>>
  BY DEF Times, Product
<1> HIDE DEF v, w, a, b, c, d
<1>7. Coprime(a, d)
  <2>1. PICK i \in Int, j \in Int : i * x[1] + j * x[2] = 1
    BY <1>1 DEF Coprime
  <2>2. (i * g) * a + (j * h) * d = 1 /\ i * g \in Int /\ j * h \in Int
    BY <2>1, <1>3, <1>4, <1>5
  <2> QED BY <2>2 DEF Coprime
<1>8. Coprime(c, b)
  <2>1. PICK i \in Int, j \in Int : i * y[1] + j * y[2] = 1
    BY <1>1 DEF Coprime
  <2>2. (i * h) * c + (j * g) * b = 1 /\ i * h \in Int /\ j * g \in Int
    BY <2>1, <1>3, <1>4, <1>5
  <2> QED BY <2>2 DEF Coprime
<1>9. Coprime(a * c, b * d)
  <2>1. Coprime(a, b * d)
    BY <1>5, <1>7, CoprimeProduct
  <2>2. Coprime(c, b * d)
    BY <1>5, <1>8, CoprimeProduct
  <2> DEFINE bd == b * d
  <2>3. bd \in Int /\ Coprime(a, bd) /\ Coprime(c, bd)
    BY <1>5, <2>1, <2>2
  <2> HIDE DEF bd
  <2>4. Coprime(bd, a) /\ Coprime(bd, c)
    BY <1>5, <2>3, CoprimeSwaps
  <2>5. Coprime(bd, a * c) /\ a * c \in Int
    BY <1>5, <2>3, <2>4, CoprimeProduct
  <2>6. Coprime(a * c, bd)
    BY <2>3, <2>5, CoprimeSwaps
  <2> QED BY <2>6 DEF bd
<1>10. a * c \in Int /\ b * d \in Nat \ {0}
  BY <1>5
<1>11. Times(x, y) \in Rationals
  BY <1>6, <1>9, <1>10 DEF Rationals, Coprime
<1>12. (a * c) * (x[2] * y[2]) = (x[1] * y[1]) * (b * d)
  <2>1. (a * c) * ((h * d) * (g * b)) = ((g * a) * (h * c)) * (b * d)
    BY <1>5
  <2> QED BY <1>3, <1>4, <2>1
<1>13. x[1] * y[1] \in Int /\ x[2] * y[2] \in Nat \ {0}
  BY <1>1
<1> QED BY <1>6, <1>11, <1>12, <1>13 DEF Value

\* A product stands for the product of what its factors stand for.
LEMMA TimesValue ==
    ASSUME NEW x, NEW y, NEW n, NEW d, NEW m, NEW e, Value(x, n, d), Value(y, m, e)
    PROVE  Value(Times(x, y), n * m, d * e)
<1> DEFINE a == x[1]
           b == x[2]
           p == y[1]
           q == y[2]
<1>1. /\ x \in Rationals /\ a \in Int /\ b \in Nat \ {0}
      /\ y \in Rationals /\ p \in Int /\ q \in Nat \ {0}
  BY RationalParts DEF Value
<1>2. n \in Int /\ d \in Nat \ {0} /\ a * d = n * b
  BY DEF Value
<1>3. m \in Int /\ e \in Nat \ {0} /\ p * e = m * q
  BY DEF Value
<1>4. Value(Times(x, y), a * p, b * q)
  BY <1>1, TimesParts
<1> HIDE DEF a, b, p, q
<1>5. (a * p) * (d * e) = (n * m) * (b * q)
  <2>1. (a * p) * (d * e) = (a * d) * (p * e)
    BY <1>1, <1>2, <1>3
  <2>2. (n * b) * (m * q) = (n * m) * (b * q)
    BY <1>1, <1>2, <1>3
  <2> QED BY <2>1, <2>2, <1>2, <1>3
<1>6. n * m \in Int /\ d * e \in Nat \ {0}
  BY <1>2, <1>3
<1> QED BY <1>4, <1>5, <1>6, ValueMoves

\* A sum, over the common divisor of the denominators.
LEMMA PlusParts ==
    ASSUME NEW x \in Rationals, NEW y \in Rationals
    PROVE  Value(Plus(x, y), x[1] * y[2] + y[1] * x[2], x[2] * y[2])
<1> DEFINE a == x[1]
           b == x[2]
           p == y[1]
           q == y[2]
           g == Gcd[<<b, q>>]
<1>1. /\ a \in Int /\ b \in Nat \ {0}
      /\ p \in Int /\ q \in Nat \ {0}
  BY RationalParts
<1>2. Plus(x, y) = Frac(a * (q \div g) + p * (b \div g), b * (q \div g))
  BY DEF Plus, Added
<1> HIDE DEF a, b, p, q
<1>3. Measures(g, b, q)
  BY <1>1, GcdMeasures
<1> HIDE DEF g
<1>4. PICK j \in Nat, k \in Nat : b = g * j /\ q = g * k
  BY <1>3 DEF Measures
<1>5. g \in Nat /\ g > 0 /\ j > 0 /\ k > 0
  BY <1>1, <1>3, <1>4 DEF Measures
<1>6. b \div g = j
  BY <1>4, <1>5
<1>7. q \div g = k
  BY <1>4, <1>5
<1>8. Plus(x, y) = Frac(a * k + p * j, b * k)
  BY <1>2, <1>6, <1>7
<1>9. a * k + p * j \in Int /\ b * k \in Nat \ {0} /\ a * q + p * b \in Int /\ b * q \in Nat \ {0}
  BY <1>1, <1>5
<1>10. Value(Plus(x, y), a * k + p * j, b * k)
  BY <1>8, <1>9, FracValue
<1>11. (a * k + p * j) * (b * q) = (a * q + p * b) * (b * k)
  <2>1. (a * k + p * j) * (b * (g * k)) = (a * (g * k) + p * (g * j)) * (b * k)
    BY <1>1, <1>5
  <2> QED BY <2>1, <1>4
<1>12. Value(Plus(x, y), a * q + p * b, b * q)
  BY <1>9, <1>10, <1>11, ValueMoves
<1> QED BY <1>12 DEF a, b, p, q

\* A sum stands for the sum.
LEMMA PlusValue ==
    ASSUME NEW x, NEW y, NEW n, NEW d, NEW m, NEW e, Value(x, n, d), Value(y, m, e)
    PROVE  Value(Plus(x, y), n * e + m * d, d * e)
<1> DEFINE a == x[1]
           b == x[2]
           p == y[1]
           q == y[2]
<1>1. /\ x \in Rationals /\ a \in Int /\ b \in Nat \ {0}
      /\ y \in Rationals /\ p \in Int /\ q \in Nat \ {0}
  BY RationalParts DEF Value
<1>2. n \in Int /\ d \in Nat \ {0} /\ a * d = n * b
  BY DEF Value
<1>3. m \in Int /\ e \in Nat \ {0} /\ p * e = m * q
  BY DEF Value
<1>4. Value(Plus(x, y), a * q + p * b, b * q)
  BY <1>1, PlusParts
<1> HIDE DEF a, b, p, q
<1>5. (a * q + p * b) * (d * e) = (n * e + m * d) * (b * q)
  <2>1. (a * q + p * b) * (d * e) = (a * d) * (q * e) + (p * e) * (b * d)
    BY <1>1, <1>2, <1>3
  <2>2. (n * b) * (q * e) + (m * q) * (b * d) = (n * e + m * d) * (b * q)
    BY <1>1, <1>2, <1>3
  <2> QED BY <2>1, <2>2, <1>2, <1>3
<1>6. n * e + m * d \in Int /\ d * e \in Nat \ {0}
  BY <1>2, <1>3
<1> QED BY <1>4, <1>5, <1>6, ValueMoves

\* A negation.
LEMMA NegValue ==
    ASSUME NEW x, NEW n, NEW d, Value(x, n, d)
    PROVE  Value(Neg(x), -n, d)
<1> DEFINE a == x[1]
           b == x[2]
<1>1. x \in Rationals /\ a \in Int /\ b \in Nat \ {0}
  BY RationalParts DEF Value
<1>2. n \in Int /\ d \in Nat \ {0} /\ a * d = n * b
  BY DEF Value
<1>3. PICK u \in Int, v \in Int : u * a + v * b = 1
  BY <1>1, RationalParts
<1>4. Neg(x) = <<-a, b>>
  BY DEF Neg
<1> HIDE DEF a, b
<1> DEFINE y == <<-a, b>>
<1>5. y[1] = -a /\ y[2] = b /\ y \in Int \X (Nat \ {0})
  BY <1>1
<1> HIDE DEF y
<1>6. (-u) * y[1] + v * y[2] = 1 /\ -u \in Int
  BY <1>1, <1>3, <1>5
<1>7. y \in Rationals
  BY <1>5, <1>6 DEF Rationals
<1>8. y[1] * d = (-n) * y[2]
  BY <1>1, <1>2, <1>5
<1> QED BY <1>2, <1>4, <1>7, <1>8 DEF Value, y

\* A difference.
LEMMA MinusValue ==
    ASSUME NEW x, NEW y, NEW n, NEW d, NEW m, NEW e, Value(x, n, d), Value(y, m, e)
    PROVE  Value(Minus(x, y), n * e - m * d, d * e)
<1>1. n \in Int /\ d \in Nat \ {0} /\ m \in Int /\ e \in Nat \ {0}
  BY DEF Value
<1>2. Value(Neg(y), -m, e)
  BY NegValue
<1>3. Value(Plus(x, Neg(y)), n * e + (-m) * d, d * e)
  BY <1>2, PlusValue
<1>4. n * e + (-m) * d = n * e - m * d
  BY <1>1
<1> QED BY <1>3, <1>4 DEF Minus

\* A quotient, where the divisor is not zero.
LEMMA OverValue ==
    ASSUME NEW x, NEW y, NEW n, NEW d, NEW m, NEW e, Value(x, n, d), Value(y, m, e), m > 0
    PROVE  Value(Over(x, y), n * e, d * m)
<1> DEFINE p == y[1]
           q == y[2]
           z == <<q, p>>
<1>1. y \in Rationals /\ p \in Int /\ q \in Nat \ {0}
  BY RationalParts DEF Value
<1>2. m \in Int /\ e \in Nat \ {0} /\ p * e = m * q
  BY DEF Value
<1>3. PICK u \in Int, v \in Int : u * p + v * q = 1
  BY <1>1, RationalParts
<1>4. Over(x, y) = IF p > 0 THEN Times(x, z) ELSE Times(x, <<-q, -p>>)
  BY DEF Over
<1> HIDE DEF p, q
<1>5. p > 0
  <2>1. m * q > 0
    BY <1>1, <1>2
  <2>2. p * e > 0
    BY <2>1, <1>2
  <2> QED BY <2>2, <1>1, <1>2
<1>6. z[1] = q /\ z[2] = p /\ z \in Int \X (Nat \ {0})
  BY <1>1, <1>5
<1> HIDE DEF z
<1>7. v * z[1] + u * z[2] = 1
  BY <1>1, <1>3, <1>6
<1>8. z \in Rationals
  BY <1>6, <1>7 DEF Rationals
<1>9. e \in Int /\ m \in Nat \ {0} /\ z[1] * m = e * z[2]
  BY <1>1, <1>2, <1>6
<1>10. Value(z, e, m)
  BY <1>8, <1>9 DEF Value
<1>11. Value(Times(x, z), n * e, d * m)
  BY <1>10, TimesValue
<1> QED BY <1>4, <1>5, <1>11

\* A whole number.
LEMMA WholeValue ==
    ASSUME NEW n \in Int
    PROVE  Value(Whole(n), n, 1)
<1> DEFINE x == <<n, 1>>
<1>1. x[1] = n /\ x[2] = 1 /\ x \in Int \X (Nat \ {0})
  OBVIOUS
<1> HIDE DEF x
<1>2. 0 * x[1] + 1 * x[2] = 1
  BY <1>1
<1>3. x \in Rationals
  BY <1>1, <1>2 DEF Rationals
<1> QED BY <1>1, <1>3 DEF Value, Whole, x

\* The order, compared over the common divisor of the denominators.
LEMMA BelowParts ==
    ASSUME NEW x \in Rationals, NEW y \in Rationals
    PROVE  Below(x, y) <=> x[1] * y[2] < y[1] * x[2]
<1> DEFINE a == x[1]
           b == x[2]
           p == y[1]
           q == y[2]
           g == Gcd[<<b, q>>]
<1>1. /\ a \in Int /\ b \in Nat \ {0}
      /\ p \in Int /\ q \in Nat \ {0}
  BY RationalParts
<1>2. Below(x, y) <=> a * (q \div g) < p * (b \div g)
  BY DEF Below, Less
<1> HIDE DEF a, b, p, q
<1>3. Measures(g, b, q)
  BY <1>1, GcdMeasures
<1> HIDE DEF g
<1>4. PICK j \in Nat, k \in Nat : b = g * j /\ q = g * k
  BY <1>3 DEF Measures
<1>5. g \in Nat /\ g > 0 /\ j > 0 /\ k > 0
  BY <1>1, <1>3, <1>4 DEF Measures
<1>6. b \div g = j
  BY <1>4, <1>5
<1>7. q \div g = k
  BY <1>4, <1>5
<1> DEFINE l == a * k
           r == p * j
<1>8. l \in Int /\ r \in Int /\ a * q = g * l /\ p * b = g * r
  <2>1. a * (g * k) = g * (a * k) /\ p * (g * j) = g * (p * j)
    BY <1>1, <1>5
  <2> QED BY <2>1, <1>1, <1>4, <1>5
<1>9. Below(x, y) <=> l < r
  BY <1>2, <1>6, <1>7
<1> HIDE DEF l, r
<1>10. l < r <=> g * l < g * r
  BY <1>5, <1>8
<1> QED BY <1>8, <1>9, <1>10 DEF a, b, p, q

\* The order keeps under a positive factor.
LEMMA Order ==
    ASSUME NEW a \in Int, NEW b \in Int, NEW c \in Nat \ {0}
    PROVE  a < b <=> a * c < b * c
  OBVIOUS

\* Below compares what two fractions stand for, however it is written.
LEMMA BelowValue ==
    ASSUME NEW x, NEW y, NEW n, NEW d, NEW m, NEW e, Value(x, n, d), Value(y, m, e)
    PROVE  Below(x, y) <=> n * e < m * d
<1> DEFINE a == x[1]
           b == x[2]
           p == y[1]
           q == y[2]
<1>1. /\ x \in Rationals /\ a \in Int /\ b \in Nat \ {0}
      /\ y \in Rationals /\ p \in Int /\ q \in Nat \ {0}
  BY RationalParts DEF Value
<1>2. n \in Int /\ d \in Nat \ {0} /\ a * d = n * b
  BY DEF Value
<1>3. m \in Int /\ e \in Nat \ {0} /\ p * e = m * q
  BY DEF Value
<1>4. Below(x, y) <=> a * q < p * b
  BY <1>1, BelowParts
<1> HIDE DEF a, b, p, q
<1>5. (a * q) * (d * e) = (n * e) * (b * q)
  <2>1. (a * q) * (d * e) = (a * d) * (q * e)
    BY <1>1, <1>2, <1>3
  <2>2. (n * b) * (q * e) = (n * e) * (b * q)
    BY <1>1, <1>2, <1>3
  <2> QED BY <2>1, <2>2, <1>2
<1>6. (p * b) * (d * e) = (m * d) * (b * q)
  <2>1. (p * b) * (d * e) = (p * e) * (b * d)
    BY <1>1, <1>2, <1>3
  <2>2. (m * q) * (b * d) = (m * d) * (b * q)
    BY <1>1, <1>2, <1>3
  <2> QED BY <2>1, <2>2, <1>3
<1> DEFINE aq == a * q
           pb == p * b
           ne == n * e
           md == m * d
           de == d * e
           bq == b * q
<1>7. /\ aq \in Int /\ pb \in Int /\ ne \in Int /\ md \in Int
      /\ de \in Nat \ {0} /\ bq \in Nat \ {0}
      /\ aq * de = ne * bq /\ pb * de = md * bq
  BY <1>1, <1>2, <1>3, <1>5, <1>6
<1>8. Below(x, y) <=> aq < pb
  BY <1>4
<1> HIDE DEF aq, pb, ne, md, de, bq
<1>9. (aq < pb <=> aq * de < pb * de) /\ (ne < md <=> ne * bq < md * bq)
  BY <1>7, Order
<1>10. aq < pb <=> ne < md
  BY <1>7, <1>9
<1> QED BY <1>8, <1>10 DEF ne, md

\* The operations stay within the fractions.
LEMMA Closure ==
    ASSUME NEW x \in Rationals, NEW y \in Rationals
    PROVE  /\ Plus(x, y) \in Rationals /\ Minus(x, y) \in Rationals
           /\ Times(x, y) \in Rationals /\ Neg(x) \in Rationals
           /\ Zero \in Rationals /\ One \in Rationals
<1>1. Value(x, x[1], x[2]) /\ Value(y, y[1], y[2])
  BY RationalParts
<1>2. Plus(x, y) \in Rationals
  BY <1>1, PlusValue DEF Value
<1>3. Minus(x, y) \in Rationals
  BY <1>1, MinusValue DEF Value
<1>4. Times(x, y) \in Rationals
  BY <1>1, TimesValue DEF Value
<1>5. Neg(x) \in Rationals
  BY <1>1, NegValue DEF Value
<1>6. Zero \in Rationals /\ One \in Rationals
  BY WholeValue DEF Value, Zero, One
<1> QED BY <1>2, <1>3, <1>4, <1>5, <1>6

\* Zero is one of them.
LEMMA ZeroIsRational == Zero \in Rationals
<1>1. Value(Zero, 0, 1)
  BY WholeValue DEF Zero
<1> QED BY <1>1 DEF Value

\* One value has one ratio.
LEMMA ValueIsOne ==
    ASSUME NEW x, NEW n, NEW d, NEW m, NEW e, Value(x, n, d), Value(x, m, e)
    PROVE  n * e = m * d
<1> DEFINE a == x[1]
           b == x[2]
<1>1. /\ a \in Int /\ b \in Nat \ {0} /\ n \in Int /\ d \in Nat \ {0} /\ m \in Int /\ e \in Nat \ {0}
      /\ a * d = n * b /\ a * e = m * b
  BY RationalParts DEF Value
<1> HIDE DEF a, b
<1>2. (n * e) * b = (m * d) * b
  <2>1. (n * e) * b = (a * d) * e /\ (m * d) * b = (a * e) * d
    BY <1>1
  <2> QED BY <2>1, <1>1
<1>3. n * e \in Int /\ m * d \in Int
  BY <1>1
<1> QED BY <1>1, <1>2, <1>3, Cancel

\* AtMost compares the same way.
LEMMA AtMostValue ==
    ASSUME NEW x, NEW y, NEW n, NEW d, NEW m, NEW e, Value(x, n, d), Value(y, m, e)
    PROVE  AtMost(x, y) <=> n * e <= m * d
<1>1. n * e \in Int /\ m * d \in Int
  BY DEF Value
<1>2. Below(x, y) <=> n * e < m * d
  BY BelowValue
<1>3. n * e = m * d => x = y
  BY SameValue
<1>4. x = y => n * e = m * d
  BY ValueIsOne
<1> QED BY <1>1, <1>2, <1>3, <1>4 DEF AtMost

\* What has a value above zero is positive.
Positive(x) == x \in Rationals /\ Below(Zero, x)

\* The sign is that of the numerator.
LEMMA PositiveParts ==
    ASSUME NEW x, NEW n, NEW d, Value(x, n, d)
    PROVE  Positive(x) <=> n > 0
<1>1. Value(Zero, 0, 1)
  BY WholeValue DEF Zero
<1>2. x \in Rationals /\ n \in Int /\ d \in Nat \ {0}
  BY DEF Value
<1>3. Below(Zero, x) <=> 0 * d < n * 1
  BY <1>1, BelowValue
<1> QED BY <1>2, <1>3 DEF Positive

\* A product of positive fractions is positive.
LEMMA PositiveProduct ==
    ASSUME NEW x, NEW y, Positive(x), Positive(y)
    PROVE  Positive(Times(x, y))
<1>1. PICK a, c \in Int, b, d \in Nat \ {0} : Value(x, a, b) /\ Value(y, c, d)
  BY RationalParts DEF Positive
<1>2. a > 0 /\ c > 0
  BY <1>1, PositiveParts
<1>3. Value(Times(x, y), a * c, b * d)
  BY <1>1, TimesValue
<1>4. a * c > 0
  BY <1>2
<1> QED BY <1>3, <1>4, PositiveParts

\* What is above has a positive distance.
LEMMA DifferencePositive ==
    ASSUME NEW x \in Rationals, NEW y \in Rationals, ~AtMost(x, y)
    PROVE  Positive(Minus(x, y))
<1>1. PICK a, c \in Int, b, d \in Nat \ {0} : Value(x, a, b) /\ Value(y, c, d)
  BY RationalParts
<1>2. Value(Minus(x, y), a * d - c * b, b * d)
  BY <1>1, MinusValue
<1>3. ~(a * d <= c * b)
  BY <1>1, AtMostValue
<1>4. a * d - c * b > 0
  BY <1>3
<1> QED BY <1>2, <1>4, PositiveParts

\* The order is total and transitive.
LEMMA OrderLaws ==
    ASSUME NEW x \in Rationals, NEW y \in Rationals, NEW z \in Rationals
    PROVE  /\ AtMost(x, x)
           /\ AtMost(x, y) /\ AtMost(y, z) => AtMost(x, z)
           /\ Below(x, y) <=> ~AtMost(y, x)
           /\ Below(x, y) => AtMost(x, y)
           /\ Below(x, y) /\ AtMost(y, z) => Below(x, z)
<1>1. PICK a, c, e \in Int, b, d, f \in Nat \ {0} :
      Value(x, a, b) /\ Value(y, c, d) /\ Value(z, e, f)
  BY RationalParts
<1>2. (Below(x, y) <=> a * d < c * b) /\ (Below(x, z) <=> a * f < e * b)
  BY <1>1, BelowValue
<1>3. /\ AtMost(x, y) <=> a * d <= c * b
      /\ AtMost(y, x) <=> c * b <= a * d
      /\ AtMost(y, z) <=> c * f <= e * d
      /\ AtMost(x, z) <=> a * f <= e * b
  BY <1>1, AtMostValue
<1>4. a * d <= c * b /\ c * f <= e * d => a * f <= e * b
  <2> SUFFICES ASSUME a * d <= c * b, c * f <= e * d PROVE a * f <= e * b
    OBVIOUS
  <2>1. (a * d) * f <= (c * b) * f /\ (c * f) * b <= (e * d) * b
    OBVIOUS
  <2>2. (a * f) * d <= (e * b) * d
    <3>1. (c * b) * f = (c * f) * b /\ (a * d) * f = (a * f) * d /\ (e * d) * b = (e * b) * d
      OBVIOUS
    <3> QED BY <2>1, <3>1
  <2> DEFINE af == a * f
             eb == e * b
  <2>3. af \in Int /\ eb \in Int /\ af * d <= eb * d
    BY <2>2
  <2> HIDE DEF af, eb
  <2>4. af <= eb
    BY <2>3
  <2> QED BY <2>4 DEF af, eb
<1>5. a * d < c * b /\ c * f <= e * d => a * f < e * b
  <2> SUFFICES ASSUME a * d < c * b, c * f <= e * d PROVE a * f < e * b
    OBVIOUS
  <2>1. (a * d) * f < (c * b) * f /\ (c * f) * b <= (e * d) * b
    OBVIOUS
  <2>2. (a * f) * d < (e * b) * d
    <3>1. (c * b) * f = (c * f) * b /\ (a * d) * f = (a * f) * d /\ (e * d) * b = (e * b) * d
      OBVIOUS
    <3> QED BY <2>1, <3>1
  <2> DEFINE af == a * f
             eb == e * b
  <2>3. af \in Int /\ eb \in Int /\ af * d < eb * d
    BY <2>2
  <2> HIDE DEF af, eb
  <2>4. af < eb
    BY <2>3
  <2> QED BY <2>4 DEF af, eb
<1>6. a * d \in Int /\ c * b \in Int
  OBVIOUS
<1> HIDE DEF Below
<1>7. Below(x, y) <=> ~AtMost(y, x)
  BY <1>2, <1>3, <1>6
<1>8. AtMost(x, x) /\ (Below(x, y) => AtMost(x, y))
  BY DEF AtMost
<1> QED BY <1>2, <1>3, <1>4, <1>5, <1>7, <1>8

-----------------------------------------------------------------------------
(* Their laws *)

\* A sum, in either order.
LEMMA PlusCommutes ==
    ASSUME NEW x \in Rationals, NEW y \in Rationals
    PROVE  Plus(x, y) = Plus(y, x)
<1>1. PICK a, c \in Int, b, d \in Nat \ {0} :
        Value(x, a, b) /\ Value(y, c, d)
  BY RationalParts
<1>2. Value(Plus(x, y), a * d + c * b, b * d)
  BY <1>1, PlusValue
<1>3. Value(Plus(y, x), c * b + a * d, d * b)
  BY <1>1, PlusValue
<1>4. (a * d + c * b) * (d * b) = (c * b + a * d) * (b * d)
  OBVIOUS
<1> QED BY <1>2, <1>3, <1>4, SameValue

\* In any grouping.
LEMMA PlusAssociates ==
    ASSUME NEW x \in Rationals, NEW y \in Rationals, NEW z \in Rationals
    PROVE  Plus(Plus(x, y), z) = Plus(x, Plus(y, z))
<1>1. PICK a, c, e \in Int, b, d, f \in Nat \ {0} :
        Value(x, a, b) /\ Value(y, c, d) /\ Value(z, e, f)
  BY RationalParts
<1>2. Value(Plus(x, y), a * d + c * b, b * d)
  BY <1>1, PlusValue
<1>3. Value(Plus(Plus(x, y), z), (a * d + c * b) * f + e * (b * d), (b * d) * f)
  BY <1>2, <1>1, PlusValue
<1>4. Value(Plus(y, z), c * f + e * d, d * f)
  BY <1>1, PlusValue
<1>5. Value(Plus(x, Plus(y, z)), a * (d * f) + (c * f + e * d) * b, b * (d * f))
  BY <1>1, <1>4, PlusValue
<1>6. ((a * d + c * b) * f + e * (b * d)) * (b * (d * f))
        = (a * (d * f) + (c * f + e * d) * b) * ((b * d) * f)
  OBVIOUS
<1> QED BY <1>3, <1>5, <1>6, SameValue

\* Nothing added.
LEMMA PlusZero ==
    ASSUME NEW x \in Rationals
    PROVE  Plus(x, Zero) = x
<1>1. PICK a \in Int, b \in Nat \ {0} :
        Value(x, a, b)
  BY RationalParts
<1>2. Value(Zero, 0, 1)
  BY WholeValue DEF Zero
<1>3. Value(Plus(x, Zero), a * 1 + 0 * b, b * 1)
  BY <1>1, <1>2, PlusValue
<1>4. (a * 1 + 0 * b) * b = a * (b * 1)
  OBVIOUS
<1> QED BY <1>3, <1>1, <1>4, SameValue

\* Two sums, regrouped.
LEMMA PlusCrosses ==
    ASSUME NEW x \in Rationals, NEW y \in Rationals, NEW z \in Rationals, NEW w \in Rationals
    PROVE  Plus(Plus(x, y), Plus(z, w)) = Plus(Plus(x, z), Plus(y, w))
<1>1. PICK a, c, e, g \in Int, b, d, f, h \in Nat \ {0} :
        Value(x, a, b) /\ Value(y, c, d) /\ Value(z, e, f) /\ Value(w, g, h)
  BY RationalParts
<1>2. Value(Plus(x, y), a * d + c * b, b * d)
  BY <1>1, PlusValue
<1>3. Value(Plus(z, w), e * h + g * f, f * h)
  BY <1>1, PlusValue
<1>4. Value(Plus(Plus(x, y), Plus(z, w)), (a * d + c * b) * (f * h) + (e * h + g * f) * (b * d),
            (b * d) * (f * h))
  BY <1>2, <1>3, PlusValue
<1>5. Value(Plus(x, z), a * f + e * b, b * f)
  BY <1>1, PlusValue
<1>6. Value(Plus(y, w), c * h + g * d, d * h)
  BY <1>1, PlusValue
<1>7. Value(Plus(Plus(x, z), Plus(y, w)), (a * f + e * b) * (d * h) + (c * h + g * d) * (b * f),
            (b * f) * (d * h))
  BY <1>5, <1>6, PlusValue
<1>8. ((a * d + c * b) * (f * h) + (e * h + g * f) * (b * d)) * ((b * f) * (d * h))
        = ((a * f + e * b) * (d * h) + (c * h + g * d) * (b * f)) * ((b * d) * (f * h))
  OBVIOUS
<1> QED BY <1>4, <1>7, <1>8, SameValue

\* Nothing is left of a value less itself.
LEMMA MinusSelf ==
    ASSUME NEW x \in Rationals
    PROVE  Minus(x, x) = Zero
<1>1. PICK a \in Int, b \in Nat \ {0} :
        Value(x, a, b)
  BY RationalParts
<1>2. Value(Minus(x, x), a * b - a * b, b * b)
  BY <1>1, MinusValue
<1>3. Value(Zero, 0, 1)
  BY WholeValue DEF Zero
<1>4. (a * b - a * b) * 1 = 0 * (b * b)
  OBVIOUS
<1> QED BY <1>2, <1>3, <1>4, SameValue

\* What was taken away is put back.
LEMMA MinusThenPlus ==
    ASSUME NEW x \in Rationals, NEW y \in Rationals
    PROVE  Plus(Minus(x, y), y) = x
<1>1. PICK a, c \in Int, b, d \in Nat \ {0} :
        Value(x, a, b) /\ Value(y, c, d)
  BY RationalParts
<1>2. Value(Minus(x, y), a * d - c * b, b * d)
  BY <1>1, MinusValue
<1>3. Value(Plus(Minus(x, y), y), (a * d - c * b) * d + c * (b * d), (b * d) * d)
  BY <1>2, <1>1, PlusValue
<1>4. ((a * d - c * b) * d + c * (b * d)) * b = a * ((b * d) * d)
  OBVIOUS
<1> QED BY <1>3, <1>1, <1>4, SameValue

\* What was added is left when the rest is taken away.
LEMMA PlusTakesBack ==
    ASSUME NEW x \in Rationals, NEW y \in Rationals
    PROVE  Minus(Plus(x, y), x) = y
<1>1. PICK a, c \in Int, b, d \in Nat \ {0} :
        Value(x, a, b) /\ Value(y, c, d)
  BY RationalParts
<1>2. Value(Plus(x, y), a * d + c * b, b * d)
  BY <1>1, PlusValue
<1>3. Value(Minus(Plus(x, y), x), (a * d + c * b) * b - a * (b * d), (b * d) * b)
  BY <1>2, <1>1, MinusValue
<1>4. ((a * d + c * b) * b - a * (b * d)) * d = c * ((b * d) * b)
  OBVIOUS
<1> QED BY <1>3, <1>1, <1>4, SameValue

\* A loss is a negative gain.
LEMMA MinusNegated ==
    ASSUME NEW x \in Rationals, NEW y \in Rationals
    PROVE  Minus(x, Neg(y)) = Plus(x, y)
<1>1. PICK a, c \in Int, b, d \in Nat \ {0} : Value(x, a, b) /\ Value(y, c, d)
  BY RationalParts
<1>2. Value(Neg(y), -c, d)
  BY <1>1, NegValue
<1>3. Value(Minus(x, Neg(y)), a * d - (-c) * b, b * d)
  BY <1>1, <1>2, MinusValue
<1>4. Value(Plus(x, y), a * d + c * b, b * d)
  BY <1>1, PlusValue
<1>5. (a * d - (-c) * b) * (b * d) = (a * d + c * b) * (b * d)
  OBVIOUS
<1> QED BY <1>3, <1>4, <1>5, SameValue

\* The return on a capital, in money.
LEMMA ReturnOfCapital ==
    ASSUME NEW x \in Rationals, NEW y, Positive(y)
    PROVE  Times(Minus(Over(x, y), One), y) = Minus(x, y)
<1>1. PICK a, c \in Int, b, d \in Nat \ {0} : Value(x, a, b) /\ Value(y, c, d)
  BY RationalParts DEF Positive
<1>2. c > 0
  BY <1>1, PositiveParts
<1>3. Value(Over(x, y), a * d, b * c)
  BY <1>1, <1>2, OverValue
<1>4. Value(One, 1, 1)
  BY WholeValue DEF One
<1>5. Value(Minus(Over(x, y), One), (a * d) * 1 - 1 * (b * c), (b * c) * 1)
  BY <1>3, <1>4, MinusValue
<1>6. Value(Times(Minus(Over(x, y), One), y), ((a * d) * 1 - 1 * (b * c)) * c, ((b * c) * 1) * d)
  BY <1>1, <1>5, TimesValue
<1>7. Value(Minus(x, y), a * d - c * b, b * d)
  BY <1>1, MinusValue
<1>8. (((a * d) * 1 - 1 * (b * c)) * c) * (b * d) = (a * d - c * b) * (((b * c) * 1) * d)
  OBVIOUS
<1> QED BY <1>6, <1>7, <1>8, SameValue

-----------------------------------------------------------------------------
(* Sums *)

\* f holds the sums of the beginnings of s.
Sums(f, s) ==
    /\ f \in [0..Len(s) -> Rationals]
    /\ f[0] = Zero
    /\ \A n \in 1..Len(s) : f[n] = Plus(f[n - 1], s[n])

\* A total is the last of the sums of the beginnings, as there is a function of these.
LEMMA TotalSums ==
    ASSUME NEW s \in Seq(Rationals)
    PROVE  \E f : Sums(f, s) /\ Total(s) = f[Len(s)]
<1> DEFINE L == Len(s)
           G == [p \in (1..L) \X Rationals |-> Plus(p[2], s[p[1]])]
           Good(f) == f = [n \in 0..L |-> IF n = 0 THEN Zero ELSE Plus(f[n - 1], s[n])]
<1>1. L \in Nat /\ \A n \in 1..L : s[n] \in Rationals
  OBVIOUS
<1>2. Zero \in Rationals
  BY WholeValue DEF Value, Zero
<1>3. \A n \in 1..L, w \in Rationals : G[<<n, w>>] = Plus(w, s[n]) /\ Plus(w, s[n]) \in Rationals
  BY <1>1, Closure
<1> HIDE DEF L, G
<1>4. PICK f : Iterates(f, G, L, Rationals, Zero)
  <2>1. StepsIn(G, L, Rationals)
    BY <1>3 DEF StepsIn
  <2>2. L \in Nat
    BY <1>1
  <2> QED BY <2>1, <2>2, <1>2, RecursionExists
<1>5. Good(f)
  <2>1. ASSUME NEW n \in 0..L
        PROVE  f[n] = IF n = 0 THEN Zero ELSE Plus(f[n - 1], s[n])
    <3>1. CASE n = 0
      BY <1>1, <1>4, <3>1 DEF Iterates
    <3>2. CASE n # 0
      <4>1. n \in 1..L /\ n - 1 \in 0..L
        BY <1>1, <3>2
      <4>2. f[n] = G[<<n, f[n - 1]>>] /\ f[n - 1] \in Rationals
        BY <1>4, <4>1, <3>2 DEF Iterates
      <4> QED BY <4>1, <4>2, <1>3, <3>2
    <3> QED BY <3>1, <3>2
  <2> QED BY <2>1, <1>4 DEF Iterates
<1> DEFINE g == CHOOSE h : Good(h)
<1>6. Total(s) = g[L]
  BY DEF Total, L
<1>7. Good(g)
  <2> HIDE DEF Good
  <2> QED BY <1>5
<1> HIDE DEF g
<1>8. \A n \in 0..L : g[n] = IF n = 0 THEN Zero ELSE Plus(g[n - 1], s[n])
  BY <1>7
<1> DEFINE T == {n \in Nat : n <= L => g[n] \in Rationals}
<1>9. \A n \in Nat : n \in T
  <2>1. 0 \in T
    BY <1>1, <1>2, <1>8
  <2>2. ASSUME NEW n \in Nat, n \in T PROVE n + 1 \in T
    <3> SUFFICES ASSUME n + 1 <= L PROVE g[n + 1] \in Rationals
      OBVIOUS
    <3>1. n + 1 \in 0..L /\ n + 1 # 0 /\ n + 1 \in 1..L /\ n + 1 - 1 = n /\ n <= L
      BY <1>1
    <3>2. g[n] \in Rationals
      BY <2>2, <3>1
    <3>3. g[n + 1] = Plus(g[n], s[n + 1])
      BY <1>8, <3>1
    <3> QED BY <3>1, <3>2, <3>3, <1>1, Closure
  <2> HIDE DEF T
  <2> QED BY <2>1, <2>2, Induction
<1>10. g \in [0..L -> Rationals]
  <2>1. \A n \in 0..L : g[n] \in Rationals
    BY <1>1, <1>9
  <2>2. DOMAIN g = 0..L /\ g = [n \in 0..L |-> g[n]]
    BY <1>7
  <2> QED BY <2>1, <2>2
<1>11. g[0] = Zero /\ \A n \in 1..L : g[n] = Plus(g[n - 1], s[n])
  BY <1>1, <1>8
<1>12. Sums(g, s)
  BY <1>10, <1>11 DEF Sums, L
<1> QED BY <1>6, <1>12 DEF L

\* There is one such function: what has the recursion of a sum is the sum.
LEMMA SumsAreTotals ==
    ASSUME NEW s \in Seq(Rationals), NEW f, Sums(f, s)
    PROVE  Total(s) = f[Len(s)] /\ Total(s) \in Rationals
<1> DEFINE L == Len(s)
<1>1. PICK g : Sums(g, s) /\ Total(s) = g[L]
  BY TotalSums
<1>2. L \in Nat
  OBVIOUS
<1>3. f[0] = Zero /\ g[0] = Zero /\ g \in [0..L -> Rationals]
      /\ \A n \in 1..L : f[n] = Plus(f[n - 1], s[n]) /\ g[n] = Plus(g[n - 1], s[n])
  BY <1>1 DEF Sums
<1> HIDE DEF L
<1> DEFINE T == {n \in Nat : n <= L => f[n] = g[n]}
<1>4. 0 \in T
  BY <1>3
<1>5. ASSUME NEW n \in Nat, n \in T PROVE n + 1 \in T
  <2> SUFFICES ASSUME n + 1 <= L PROVE f[n + 1] = g[n + 1]
    OBVIOUS
  <2>1. n + 1 \in 1..L /\ n + 1 - 1 = n /\ n <= L
    BY <1>2
  <2>2. f[n + 1] = Plus(f[n], s[n + 1]) /\ g[n + 1] = Plus(g[n], s[n + 1])
    BY <1>3, <2>1
  <2> QED BY <2>1, <2>2, <1>5
<1>6. L \in T
  <2> HIDE DEF T
  <2> QED BY <1>2, <1>4, <1>5, Induction
<1> QED BY <1>1, <1>2, <1>3, <1>6 DEF L

\* Nothing to add.
LEMMA TotalEmpty ==
    ASSUME NEW s \in Seq(Rationals), Len(s) = 0
    PROVE  Total(s) = Zero
<1>1. PICK f : Sums(f, s) /\ Total(s) = f[Len(s)]
  BY TotalSums
<1> QED BY <1>1 DEF Sums

\* A sequence with one element more.
LEMMA TotalLonger ==
    ASSUME NEW s \in Seq(Rationals), NEW r \in Seq(Rationals), Len(r) = Len(s) + 1,
           \A n \in 1..Len(s) : r[n] = s[n]
    PROVE  Total(r) = Plus(Total(s), r[Len(r)])
<1> DEFINE L == Len(s)
<1>1. PICK f : Sums(f, r) /\ Total(r) = f[L + 1]
  BY TotalSums
<1>2. L \in Nat /\ Len(r) = L + 1
  OBVIOUS
<1>3. /\ f \in [0..(L + 1) -> Rationals] /\ f[0] = Zero
      /\ \A n \in 1..(L + 1) : f[n] = Plus(f[n - 1], r[n])
  BY <1>1, <1>2 DEF Sums
<1> DEFINE g == [n \in 0..L |-> f[n]]
<1>4. Sums(g, s)
  <2>1. g \in [0..L -> Rationals] /\ g[0] = Zero
    BY <1>2, <1>3
  <2>2. ASSUME NEW n \in 1..L PROVE g[n] = Plus(g[n - 1], s[n])
    <3>1. n \in 0..L /\ n - 1 \in 0..L /\ n \in 1..(L + 1)
      BY <1>2
    <3>2. g[n] = f[n] /\ g[n - 1] = f[n - 1] /\ f[n] = Plus(f[n - 1], r[n]) /\ r[n] = s[n]
      BY <3>1, <1>3
    <3> QED BY <3>2
  <2> HIDE DEF g
  <2> QED BY <2>1, <2>2 DEF Sums
<1>5. Total(s) = g[L]
  <2> HIDE DEF g
  <2> QED BY <1>4, SumsAreTotals
<1>6. g[L] = f[L] /\ L + 1 \in 1..(L + 1) /\ L + 1 - 1 = L
  BY <1>2
<1>7. f[L + 1] = Plus(f[L + 1 - 1], r[L + 1])
  BY <1>3, <1>6
<1> QED BY <1>1, <1>2, <1>5, <1>6, <1>7

\* Sums of sums, and of differences.
LEMMA TotalCombines ==
    ASSUME NEW r \in Seq(Rationals), NEW s \in Seq(Rationals), NEW t \in Seq(Rationals),
           Len(s) = Len(r), Len(t) = Len(r), \A n \in 1..Len(r) : r[n] = Plus(s[n], t[n])
    PROVE  Total(r) = Plus(Total(s), Total(t))
<1> DEFINE L == Len(r)
<1>1. PICK f : Sums(f, s) /\ Total(s) = f[L]
  BY TotalSums
<1>2. PICK g : Sums(g, t) /\ Total(t) = g[L]
  BY TotalSums
<1>3. L \in Nat /\ \A n \in 1..L : s[n] \in Rationals /\ t[n] \in Rationals
  OBVIOUS
<1>4. /\ f \in [0..L -> Rationals] /\ f[0] = Zero /\ \A n \in 1..L : f[n] = Plus(f[n - 1], s[n])
      /\ g \in [0..L -> Rationals] /\ g[0] = Zero /\ \A n \in 1..L : g[n] = Plus(g[n - 1], t[n])
  BY <1>1, <1>2 DEF Sums
<1> DEFINE h == [n \in 0..L |-> Plus(f[n], g[n])]
<1>5. Sums(h, r)
  <2>1. h \in [0..L -> Rationals]
    BY <1>4, Closure
  <2>2. h[0] = Zero
    <3>1. h[0] = Plus(Zero, Zero)
      BY <1>3, <1>4
    <3> QED BY <3>1, WholeValue, PlusZero DEF Value, Zero
  <2>3. ASSUME NEW n \in 1..L PROVE h[n] = Plus(h[n - 1], r[n])
    <3>1. n \in 0..L /\ n - 1 \in 0..L
      BY <1>3
    <3>2. f[n - 1] \in Rationals /\ g[n - 1] \in Rationals /\ s[n] \in Rationals /\ t[n] \in Rationals
      BY <1>3, <1>4, <3>1
    <3>3. h[n] = Plus(Plus(f[n - 1], s[n]), Plus(g[n - 1], t[n]))
      BY <1>4, <3>1
    <3>4. h[n - 1] = Plus(f[n - 1], g[n - 1]) /\ r[n] = Plus(s[n], t[n])
      BY <3>1
    <3> DEFINE a == f[n - 1]
               b == s[n]
               c == g[n - 1]
               d == t[n]
    <3>5. a \in Rationals /\ b \in Rationals /\ c \in Rationals /\ d \in Rationals
      BY <3>2
    <3>6. h[n] = Plus(Plus(a, b), Plus(c, d)) /\ h[n - 1] = Plus(a, c) /\ r[n] = Plus(b, d)
      BY <3>3, <3>4
    <3> HIDE DEF a, b, c, d, h
    <3>7. Plus(Plus(a, b), Plus(c, d)) = Plus(Plus(a, c), Plus(b, d))
      BY <3>5, PlusCrosses
    <3> QED BY <3>6, <3>7
  <2> HIDE DEF h
  <2> QED BY <2>1, <2>2, <2>3 DEF Sums
<1>6. Total(r) = h[L]
  <2> HIDE DEF h
  <2> QED BY <1>5, SumsAreTotals
<1>7. h[L] = Plus(f[L], g[L])
  BY <1>3
<1> QED BY <1>1, <1>2, <1>6, <1>7

\* A total is a fraction.
LEMMA TotalTyped ==
    ASSUME NEW s \in Seq(Rationals)
    PROVE  Total(s) \in Rationals
<1>1. PICK f : Sums(f, s)
  BY TotalSums
<1> QED BY <1>1, SumsAreTotals

\* A function on the first numbers is a list.
LEMMA ListOf ==
    ASSUME NEW n \in Nat, NEW f \in [1..n -> Rationals]
    PROVE  f \in Seq(Rationals) /\ Len(f) = n
OBVIOUS

-----------------------------------------------------------------------------
(* The accounts of a backtest *)

\* A cost that was taken and is counted against the gain.
LEMMA CostsCancel ==
    ASSUME NEW x \in Rationals, NEW y \in Rationals, NEW z \in Rationals
    PROVE  Plus(Plus(x, y), Minus(z, y)) = Plus(x, z)
<1>1. PICK a, c, e \in Int, b, d, f \in Nat \ {0} :
        Value(x, a, b) /\ Value(y, c, d) /\ Value(z, e, f)
  BY RationalParts
<1>2. Value(Plus(x, y), a * d + c * b, b * d)
  BY <1>1, PlusValue
<1>3. Value(Minus(z, y), e * d - c * f, f * d)
  BY <1>1, MinusValue
<1>4. Value(Plus(Plus(x, y), Minus(z, y)), (a * d + c * b) * (f * d) + (e * d - c * f) * (b * d),
            (b * d) * (f * d))
  BY <1>2, <1>3, PlusValue
<1>5. Value(Plus(x, z), a * f + e * b, b * f)
  BY <1>1, PlusValue
<1>6. ((a * d + c * b) * (f * d) + (e * d - c * f) * (b * d)) * (b * f)
        = (a * f + e * b) * ((b * d) * (f * d))
  OBVIOUS
<1> QED BY <1>4, <1>5, <1>6, SameValue

\* A long that is closed brings back what it took and its gain.
LEMMA BoughtReturns ==
    ASSUME NEW quantity \in Rationals, NEW entry \in Rationals, NEW exit \in Rationals,
           NEW rate \in Rationals
    PROVE  Times(quantity, Times(exit, Minus(One, rate)))
             = Plus(Times(quantity, entry),
             Times(quantity, Minus(Minus(exit, entry), Times(exit, rate))))
<1>1. PICK a, c, e, g \in Int, b, d, f, h \in Nat \ {0} :
        Value(quantity, a, b) /\ Value(entry, c, d) /\ Value(exit, e, f) /\ Value(rate, g, h)
  BY RationalParts
<1>2. Value(One, 1, 1)
  BY WholeValue DEF One
<1>3. Value(Minus(One, rate), 1 * h - g * 1, 1 * h)
  BY <1>2, <1>1, MinusValue
<1>4. Value(Times(exit, Minus(One, rate)), e * (1 * h - g * 1), f * (1 * h))
  BY <1>1, <1>3, TimesValue
<1>5. Value(Times(quantity, Times(exit, Minus(One, rate))), a * (e * (1 * h - g * 1)),
            b * (f * (1 * h)))
  BY <1>1, <1>4, TimesValue
<1>6. Value(Times(quantity, entry), a * c, b * d)
  BY <1>1, TimesValue
<1>7. Value(Minus(exit, entry), e * d - c * f, f * d)
  BY <1>1, MinusValue
<1>8. Value(Times(exit, rate), e * g, f * h)
  BY <1>1, TimesValue
<1>9. Value(Minus(Minus(exit, entry), Times(exit, rate)), (e * d - c * f) * (f * h)
            - (e * g) * (f * d), (f * d) * (f * h))
  BY <1>7, <1>8, MinusValue
<1>10. Value(Times(quantity, Minus(Minus(exit, entry), Times(exit, rate))),
             a * ((e * d - c * f) * (f * h) - (e * g) * (f * d)), b * ((f * d) * (f * h)))
  BY <1>1, <1>9, TimesValue
<1>11. Value(Plus(Times(quantity, entry),
             Times(quantity, Minus(Minus(exit, entry), Times(exit, rate)))),
             (a * c) * (b * ((f * d) * (f * h)))
             + (a * ((e * d - c * f) * (f * h) - (e * g) * (f * d))) * (b * d),
             (b * d) * (b * ((f * d) * (f * h))))
  BY <1>6, <1>10, PlusValue
<1>12. (a * (e * (1 * h - g * 1))) * ((b * d) * (b * ((f * d) * (f * h))))
         = ((a * c) * (b * ((f * d) * (f * h)))
         + (a * ((e * d - c * f) * (f * h) - (e * g) * (f * d))) * (b * d)) * (b * (f * (1 * h)))
  OBVIOUS
<1> QED BY <1>5, <1>11, <1>12, SameValue

\* And so does a short.
LEMMA SoldReturns ==
    ASSUME NEW quantity \in Rationals, NEW entry \in Rationals, NEW exit \in Rationals,
           NEW rate \in Rationals
    PROVE  Times(quantity, Minus(Plus(entry, entry), Times(exit, Plus(One, rate))))
             = Plus(Times(quantity, entry),
             Times(quantity, Minus(Minus(entry, exit), Times(exit, rate))))
<1>1. PICK a, c, e, g \in Int, b, d, f, h \in Nat \ {0} :
        Value(quantity, a, b) /\ Value(entry, c, d) /\ Value(exit, e, f) /\ Value(rate, g, h)
  BY RationalParts
<1>2. Value(Plus(entry, entry), c * d + c * d, d * d)
  BY <1>1, PlusValue
<1>3. Value(One, 1, 1)
  BY WholeValue DEF One
<1>4. Value(Plus(One, rate), 1 * h + g * 1, 1 * h)
  BY <1>3, <1>1, PlusValue
<1>5. Value(Times(exit, Plus(One, rate)), e * (1 * h + g * 1), f * (1 * h))
  BY <1>1, <1>4, TimesValue
<1>6. Value(Minus(Plus(entry, entry), Times(exit, Plus(One, rate))),
            (c * d + c * d) * (f * (1 * h)) - (e * (1 * h + g * 1)) * (d * d),
            (d * d) * (f * (1 * h)))
  BY <1>2, <1>5, MinusValue
<1>7. Value(Times(quantity, Minus(Plus(entry, entry), Times(exit, Plus(One, rate)))),
            a * ((c * d + c * d) * (f * (1 * h)) - (e * (1 * h + g * 1)) * (d * d)),
            b * ((d * d) * (f * (1 * h))))
  BY <1>1, <1>6, TimesValue
<1>8. Value(Times(quantity, entry), a * c, b * d)
  BY <1>1, TimesValue
<1>9. Value(Minus(entry, exit), c * f - e * d, d * f)
  BY <1>1, MinusValue
<1>10. Value(Times(exit, rate), e * g, f * h)
  BY <1>1, TimesValue
<1>11. Value(Minus(Minus(entry, exit), Times(exit, rate)), (c * f - e * d) * (f * h)
             - (e * g) * (d * f), (d * f) * (f * h))
  BY <1>9, <1>10, MinusValue
<1>12. Value(Times(quantity, Minus(Minus(entry, exit), Times(exit, rate))),
             a * ((c * f - e * d) * (f * h) - (e * g) * (d * f)), b * ((d * f) * (f * h)))
  BY <1>1, <1>11, TimesValue
<1>13. Value(Plus(Times(quantity, entry),
             Times(quantity, Minus(Minus(entry, exit), Times(exit, rate)))),
             (a * c) * (b * ((d * f) * (f * h)))
             + (a * ((c * f - e * d) * (f * h) - (e * g) * (d * f))) * (b * d),
             (b * d) * (b * ((d * f) * (f * h))))
  BY <1>8, <1>12, PlusValue
<1>14. (a * ((c * d + c * d) * (f * (1 * h)) - (e * (1 * h + g * 1)) * (d * d)))
         * ((b * d) * (b * ((d * f) * (f * h))))
         = ((a * c) * (b * ((d * f) * (f * h)))
         + (a * ((c * f - e * d) * (f * h) - (e * g) * (d * f))) * (b * d))
         * (b * ((d * d) * (f * (1 * h))))
  OBVIOUS
<1> QED BY <1>7, <1>13, <1>14, SameValue

\* What is paid with all of the cash, and the commission on it, is the cash.
LEMMA CashIsSpent ==
    ASSUME NEW cash \in Rationals, NEW price, Positive(price),
           NEW rate \in Rationals, Positive(Plus(One, rate)),
           NEW size, size = Over(cash, Times(price, Plus(One, rate)))
    PROVE  /\ size \in Rationals
           /\ Positive(cash) <=> Positive(size)
           /\ Plus(Times(size, price), Times(Times(size, price), rate)) = cash
<1>1. PICK a, c, e \in Int, b, d, f \in Nat \ {0} :
      Value(cash, a, b) /\ Value(price, c, d) /\ Value(rate, e, f)
  BY RationalParts DEF Positive
<1>2. Value(One, 1, 1)
  BY WholeValue DEF One
<1>3. Value(Plus(One, rate), 1 * f + e * 1, 1 * f)
  BY <1>1, <1>2, PlusValue
<1>4. c > 0 /\ f + e > 0
  <2>1. c > 0 /\ 1 * f + e * 1 > 0
    BY <1>1, <1>3, PositiveParts
  <2> QED BY <2>1
<1>5. Value(Times(price, Plus(One, rate)), c * (1 * f + e * 1), d * (1 * f))
  BY <1>1, <1>3, TimesValue
<1>6. c * (1 * f + e * 1) = c * (f + e) /\ c * (f + e) \in Nat \ {0} /\ d * (1 * f) = d * f
  BY <1>4
<1> DEFINE k == c * (f + e)
<1>7. k \in Nat \ {0} /\ Value(Times(price, Plus(One, rate)), k, d * f)
  BY <1>5, <1>6
<1> HIDE DEF k
<1> DEFINE A == a * (d * f)
           B == b * k
<1>8. Value(size, A, B)
  <2>1. k > 0
    BY <1>7
  <2>2. Value(Over(cash, Times(price, Plus(One, rate))), a * (d * f), b * k)
    BY <1>1, <1>7, <2>1, OverValue
  <2> QED BY <2>2
<1>9. A \in Int /\ B \in Nat \ {0}
  BY <1>7
<1> DEFINE n == (A * c) * ((B * d) * f) + ((A * c) * e) * (B * d)
           m == (B * d) * ((B * d) * f)
<1>10. n * b = a * m
  <2>1. (A * c) * ((B * d) * f) + ((A * c) * e) * (B * d) = A * d * (c * (f + e)) * B
    <3> HIDE DEF A, B
    <3> QED BY <1>9
  <2>2. A * d * b * (c * (f + e)) * B = a * ((B * d) * ((B * d) * f))
    <3>1. b * (c * (f + e)) = B
      BY DEF k
    <3> HIDE DEF B
    <3>2. A * d * b * (c * (f + e)) * B = a * d * f * d * (b * (c * (f + e))) * B
      BY <1>9
    <3>3. a * d * f * d * B * B = a * ((B * d) * ((B * d) * f))
      BY <1>9
    <3> QED BY <3>1, <3>2, <3>3
  <2>3. A * d * (c * (f + e)) * B * b = A * d * b * (c * (f + e)) * B
    <3> HIDE DEF A, B
    <3> QED BY <1>9
  <2> QED BY <2>1, <2>2, <2>3
<1> HIDE DEF A, B
<1>11. Value(Times(size, price), A * c, B * d)
  BY <1>1, <1>8, TimesValue
<1>12. Value(Times(Times(size, price), rate), (A * c) * e, (B * d) * f)
  BY <1>1, <1>11, TimesValue
<1>13. Plus(Times(size, price), Times(Times(size, price), rate)) = cash
  <2>1. Value(Plus(Times(size, price), Times(Times(size, price), rate)), n, m)
    BY <1>11, <1>12, PlusValue
  <2> HIDE DEF n, m
  <2> QED BY <1>1, <1>10, <2>1, SameValue
<1>14. Positive(cash) <=> Positive(size)
  <2>1. Positive(cash) <=> a > 0
    BY <1>1, PositiveParts
  <2>2. Positive(size) <=> a * (d * f) > 0
    BY <1>8, PositiveParts DEF A
  <2>3. a > 0 <=> a * (d * f) > 0
    <3> DEFINE g == d * f
    <3>1. g \in Nat \ {0}
      OBVIOUS
    <3> HIDE DEF g
    <3>2. a > 0 <=> a * g > 0
      BY <3>1
    <3> QED BY <3>2 DEF g
  <2> QED BY <2>1, <2>2, <2>3
<1>15. size \in Rationals
  BY <1>8 DEF Value
<1> QED BY <1>13, <1>14, <1>15

\* The values of an account.
Prices == {x \in Rationals : Below(Zero, x)}

Levels == Prices \cup {None}
Sides  == {"long", "short"}

OpenPositions ==
    [side : Sides, entry : Prices, quantity : Rationals, from : Nat, stop : Levels, target : Levels]

TradeRecords ==
    [of : OpenPositions, exit : Prices, to : Nat, pnl : Rationals,
     reason : {"signal", "stop_loss", "take_profit"}]

Accounts ==
    [cash : Rationals, position : OpenPositions \cup {NoPosition}, trades : Seq(TradeRecords)]

\* What the assumptions on the constants call a fraction is one.
LEMMA FractionsAreRational ==
    ASSUME NEW x
    PROVE  /\ IsFraction(x) => x \in Rationals
           /\ IsPositive(x) => x \in Prices
<1>1. ASSUME IsFraction(x) PROVE x \in Rationals
  <2>1. x[1] \in Int /\ x[2] \in Nat \ {0} /\ x = Frac(x[1], x[2])
    BY <1>1 DEF IsFraction
  <2>2. Frac(x[1], x[2]) \in Rationals
    BY <2>1, FracParts
  <2> QED BY <2>1, <2>2
<1> QED BY <1>1 DEF IsPositive, Prices

\* The factors of a price are positive, but for that of a long's exit.
LEMMA RatesArePositive ==
    /\ Commission \in Rationals /\ Slippage \in Rationals
    /\ Positive(Plus(One, Commission)) /\ Positive(Up) /\ Positive(Down)
    /\ Commission = One \/ Positive(Minus(One, Commission))
<1>1. Commission \in Rationals /\ Slippage \in Rationals
  BY RatesAssumption, FractionsAreRational
<1>2. PICK a, c \in Int, b, d \in Nat \ {0} : Value(Commission, a, b) /\ Value(Slippage, c, d)
  BY <1>1, RationalParts
<1>3. Value(Zero, 0, 1) /\ Value(One, 1, 1)
  BY WholeValue DEF Zero, One
<1>4. a >= 0
  <2>1. 0 * b <= a * 1
    BY <1>2, <1>3, RatesAssumption, AtMostValue
  <2> QED BY <2>1
<1>5. c >= 0
  <2>1. 0 * d <= c * 1
    BY <1>2, <1>3, RatesAssumption, AtMostValue
  <2> QED BY <2>1
<1>6. c < d
  <2>1. c * 1 < 1 * d
    BY <1>2, <1>3, RatesAssumption, BelowValue
  <2> QED BY <2>1
<1>7. Positive(Plus(One, Commission))
  <2>1. Value(Plus(One, Commission), 1 * b + a * 1, 1 * b)
    BY <1>2, <1>3, PlusValue
  <2>2. 1 * b + a * 1 > 0
    BY <1>4
  <2> QED BY <2>1, <2>2, PositiveParts
<1>8. Positive(Up)
  <2>1. Value(Plus(One, Slippage), 1 * d + c * 1, 1 * d)
    BY <1>2, <1>3, PlusValue
  <2>2. 1 * d + c * 1 > 0
    BY <1>5
  <2> QED BY <2>1, <2>2, PositiveParts DEF Up
<1>9. Positive(Down)
  <2>1. Value(Minus(One, Slippage), 1 * d - c * 1, 1 * d)
    BY <1>2, <1>3, MinusValue
  <2>2. 1 * d - c * 1 > 0
    BY <1>6
  <2> QED BY <2>1, <2>2, PositiveParts DEF Down
<1>10. Commission = One \/ Positive(Minus(One, Commission))
  <2>1. CASE Below(Commission, One)
    <3>1. a * 1 < 1 * b
      BY <1>2, <1>3, <2>1, BelowValue
    <3>2. Value(Minus(One, Commission), 1 * b - a * 1, 1 * b)
      BY <1>2, <1>3, MinusValue
    <3>3. 1 * b - a * 1 > 0
      BY <3>1
    <3> QED BY <3>2, <3>3, PositiveParts
  <2> QED BY <2>1, RatesAssumption DEF AtMost
<1> QED BY <1>1, <1>7, <1>8, <1>9, <1>10

\* What a signal asks for.
SignalRecords(signal) ==
    /\ signal.side \in Sides
    /\ signal.entry \in Levels /\ signal.stop \in Levels /\ signal.target \in Levels

\* What may be asked has the values of prices.
LEMMA InputsAreTyped ==
    /\ \A b \in Bars : b.open \in Prices /\ b.high \in Prices /\ b.low \in Prices /\ b.close \in Prices
    /\ \A list \in SignalLists :
         /\ Len(list) \in Nat
         /\ \A n \in 1..Len(list) : SignalRecords(list[n])
<1>1. ASSUME NEW b \in Bars
      PROVE  b.open \in Prices /\ b.high \in Prices /\ b.low \in Prices /\ b.close \in Prices
  <2>1. IsPositive(b["open"]) /\ IsPositive(b["high"]) /\ IsPositive(b["low"]) /\ IsPositive(b["close"])
    BY PricesAssumption
  <2> QED BY <2>1, FractionsAreRational
<1>2. ASSUME NEW list \in SignalLists
      PROVE  Len(list) \in Nat /\ \A n \in 1..Len(list) : SignalRecords(list[n])
  <2>1. list \in Seq(Range(list))
    BY PricesAssumption
  <2>2. Len(list) \in Nat /\ DOMAIN list = 1..Len(list)
    BY <2>1
  <2>3. ASSUME NEW n \in DOMAIN list PROVE SignalRecords(list[n])
    <3>1. /\ list[n].side \in {"long", "short"}
          /\ \A field \in {"entry", "stop", "target"} :
               list[n][field] = None \/ IsPositive(list[n][field])
      BY PricesAssumption
    <3>2. \A field \in {"entry", "stop", "target"} : list[n][field] \in Levels
      BY <3>1, FractionsAreRational DEF Levels
    <3> QED BY <3>1, <3>2 DEF SignalRecords, Sides
  <2> QED BY <2>2, <2>3
<1> QED BY <1>1, <1>2

\* The trade that closing a position makes.
ExitPrice(p, price) == Times(price, IF p.side = "long" THEN Down ELSE Up)

ClosingTrade(p, i, price, reason) ==
    [of |-> p, exit |-> ExitPrice(p, price), to |-> i, pnl |-> Pnl(p, ExitPrice(p, price)),
     reason |-> reason]

\* The fields of an open position.
LEMMA PositionParts ==
    ASSUME NEW p \in OpenPositions
    PROVE  /\ p.side \in Sides /\ p.entry \in Prices /\ p.quantity \in Rationals /\ p.from \in Nat
           /\ p.stop \in Levels /\ p.target \in Levels
           /\ p # NoPosition
           /\ p.entry \in Rationals /\ Positive(p.entry)
           /\ EntryCost(p) \in Rationals /\ Times(p.quantity, p.entry) \in Rationals
<1>1. /\ p.side \in Sides /\ p.entry \in Prices /\ p.quantity \in Rationals /\ p.from \in Nat
      /\ p.stop \in Levels /\ p.target \in Levels
  BY DEF OpenPositions
<1>2. p # NoPosition
  <2>1. p.side # "none"
    BY <1>1 DEF Sides
  <2> QED BY <2>1 DEF NoPosition
<1>3. p.entry \in Rationals /\ Positive(p.entry)
  BY <1>1 DEF Prices, Positive
<1>4. Times(p.quantity, p.entry) \in Rationals
  BY <1>1, <1>3, Closure
<1>5. EntryCost(p) \in Rationals
  BY <1>4, RatesArePositive, Closure DEF EntryCost
<1> QED BY <1>1, <1>2, <1>3, <1>4, <1>5

\* A trade brings back what its entry took and its gain.
LEMMA ClosingPays ==
    ASSUME NEW p \in OpenPositions, NEW price \in Prices
    PROVE  /\ ExitPrice(p, price) \in Prices
           /\ Pnl(p, ExitPrice(p, price)) \in Rationals
           /\ CashAfterClose(p, ExitPrice(p, price))
                = Plus(Times(p.quantity, p.entry), Pnl(p, ExitPrice(p, price)))
<1> DEFINE x == ExitPrice(p, price)
           q == p.quantity
           e == p.entry
           c == Commission
<1>1. x \in Prices
  <2>1. Positive(price)
    BY DEF Prices, Positive
  <2>2. Positive(Times(price, Down)) /\ Positive(Times(price, Up))
    BY <2>1, RatesArePositive, PositiveProduct
  <2> QED BY <2>2 DEF ExitPrice, Prices, Positive
<1>2. x \in Rationals /\ q \in Rationals /\ e \in Rationals /\ c \in Rationals
  BY <1>1, PositionParts, RatesArePositive DEF Prices
<1> HIDE DEF x
<1>3. CASE p.side = "long"
  <2>1. Times(q, Times(x, Minus(One, c))) = Plus(Times(q, e), Times(q, Minus(Minus(x, e), Times(x, c))))
    BY <1>2, BoughtReturns
  <2>2. Times(q, Minus(Minus(x, e), Times(x, c))) \in Rationals
    BY <1>2, Closure
  <2>3. Pnl(p, x) = Times(q, Minus(Minus(x, e), Times(x, c)))
    BY <1>3 DEF Pnl
  <2>4. CashAfterClose(p, x) = Times(q, Times(x, Minus(One, c)))
    BY <1>3 DEF CashAfterClose
  <2> QED BY <1>1, <2>1, <2>2, <2>3, <2>4 DEF x
<1>4. CASE p.side # "long"
  <2>1. Times(q, Minus(Plus(e, e), Times(x, Plus(One, c))))
          = Plus(Times(q, e), Times(q, Minus(Minus(e, x), Times(x, c))))
    BY <1>2, SoldReturns
  <2>2. Times(q, Minus(Minus(e, x), Times(x, c))) \in Rationals
    BY <1>2, Closure
  <2>3. Pnl(p, x) = Times(q, Minus(Minus(e, x), Times(x, c)))
    BY <1>4 DEF Pnl
  <2>4. CashAfterClose(p, x) = Times(q, Minus(Plus(e, e), Times(x, Plus(One, c))))
    BY <1>4 DEF CashAfterClose
  <2> QED BY <1>1, <2>1, <2>2, <2>3, <2>4 DEF x
<1> QED BY <1>3, <1>4

\* The fields of an account.
LEMMA AccountParts ==
    ASSUME NEW acc \in Accounts
    PROVE  /\ acc.cash \in Rationals /\ acc.trades \in Seq(TradeRecords)
           /\ Flat(acc) => acc.position = NoPosition
           /\ ~Flat(acc) => acc.position \in OpenPositions
           /\ acc = [cash |-> acc.cash, position |-> acc.position, trades |-> acc.trades]
BY DEF Accounts, Flat

\* Closing leaves an account that is flat, with one trade more.
LEMMA Closing ==
    ASSUME NEW acc \in Accounts, ~Flat(acc), NEW i \in Nat, NEW price \in Prices,
           NEW reason \in {"signal", "stop_loss", "take_profit"}
    PROVE  LET p == acc.position
               t == ClosingTrade(p, i, price, reason)
               new == Closed(acc, i, price, reason)
           IN  /\ new \in Accounts /\ Flat(new) /\ t \in TradeRecords
               /\ new.trades = Append(acc.trades, t)
               /\ new.cash = Plus(Times(p.quantity, p.entry), t.pnl)
               /\ new.cash = CashAfterClose(p, t.exit)
<1> DEFINE p == acc.position
           x == ExitPrice(p, price)
           t == ClosingTrade(p, i, price, reason)
           new == Closed(acc, i, price, reason)
<1>1. p \in OpenPositions /\ acc.trades \in Seq(TradeRecords)
  BY AccountParts
<1>2. x \in Prices /\ Pnl(p, x) \in Rationals /\ CashAfterClose(p, x) = Plus(Times(p.quantity, p.entry), Pnl(p, x))
  BY <1>1, ClosingPays
<1>3. Times(p.quantity, p.entry) \in Rationals
  BY <1>1, PositionParts
<1>4. t \in TradeRecords /\ t.pnl = Pnl(p, x) /\ t.exit = x
  BY <1>1, <1>2 DEF ClosingTrade, TradeRecords
<1>5. new = [cash |-> CashAfterClose(p, x), position |-> NoPosition, trades |-> Append(acc.trades, t)]
  BY DEF Closed, ClosingTrade, ExitPrice
<1> HIDE DEF p, x, t, new
<1>6. CashAfterClose(p, x) \in Rationals
  BY <1>2, <1>3, Closure
<1>7. Append(acc.trades, t) \in Seq(TradeRecords)
  BY <1>1, <1>4, AppendProperties
<1>8. new \in Accounts
  BY <1>5, <1>6, <1>7 DEF Accounts
<1>9. Flat(new)
  BY <1>5 DEF Flat
<1>10. new.trades = Append(acc.trades, t) /\ new.cash = CashAfterClose(p, x)
  BY <1>5
<1> QED BY <1>2, <1>4, <1>8, <1>9, <1>10 DEF p, t, new

\* The position that a signal opens: at a price, with all of the cash.
LEMMA Opening ==
    ASSUME NEW acc \in Accounts, Flat(acc), NEW i \in Nat, NEW open \in Prices,
           NEW signal, SignalRecords(signal)
    PROVE  LET new == Opened(acc, i, open, signal)
               p   == new.position
           IN  /\ new \in Accounts /\ ~Flat(new) /\ p \in OpenPositions
               /\ new.cash = Zero /\ new.trades = acc.trades
               /\ Plus(Times(p.quantity, p.entry), EntryCost(p)) = acc.cash
               /\ Positive(acc.cash) <=> Positive(p.quantity)
               /\ p.from = i + 1
<1> DEFINE base  == IF signal.entry = None THEN open ELSE signal.entry
           price == Times(base, IF signal.side = "long" THEN Up ELSE Down)
           size  == Over(acc.cash, Times(price, Plus(One, Commission)))
           cost  == Times(size, price)
           p     == [side |-> signal.side, entry |-> price, quantity |-> size,
                     from |-> i + 1, stop |-> signal.stop, target |-> signal.target]
           new   == Opened(acc, i, open, signal)
<1>1. acc.cash \in Rationals /\ acc.trades \in Seq(TradeRecords)
  BY AccountParts
<1>2. Positive(base)
  BY DEF SignalRecords, Levels, Prices, Positive
<1>3. Positive(price)
  <2> HIDE DEF base
  <2>1. Positive(Times(base, Up)) /\ Positive(Times(base, Down))
    BY <1>2, RatesArePositive, PositiveProduct
  <2> QED BY <2>1
<1>4. new = [acc EXCEPT !.cash = Minus(acc.cash, Plus(cost, Times(cost, Commission))), !.position = p]
  BY DEF Opened, EntryIndex
<1> HIDE DEF base, price, new
<1>5. /\ size \in Rationals /\ (Positive(acc.cash) <=> Positive(size))
      /\ Plus(cost, Times(cost, Commission)) = acc.cash
  BY <1>1, <1>3, RatesArePositive, CashIsSpent
<1>6. p \in OpenPositions
  <2> HIDE DEF size
  <2> QED BY <1>3, <1>5 DEF OpenPositions, SignalRecords, Prices, Positive
<1>7. Minus(acc.cash, Plus(cost, Times(cost, Commission))) = Zero
  <2> HIDE DEF cost
  <2> QED BY <1>1, <1>5, MinusSelf
<1>8. EntryCost(p) = Times(cost, Commission) /\ Times(p.quantity, p.entry) = cost
  BY DEF EntryCost
<1>9. p.quantity = size /\ p.from = i + 1
  OBVIOUS
<1> HIDE DEF p, cost, size
<1>10. new = [cash |-> Zero, position |-> p, trades |-> acc.trades]
  BY <1>4, <1>7 DEF Accounts
<1>11. Zero \in Rationals
  BY <1>1, Closure
<1>12. new \in Accounts /\ new.cash = Zero /\ new.trades = acc.trades /\ new.position = p
  BY <1>1, <1>6, <1>10, <1>11 DEF Accounts
<1>13. ~Flat(new)
  BY <1>6, <1>12, PositionParts DEF Flat
<1> QED BY <1>5, <1>6, <1>8, <1>9, <1>12, <1>13 DEF new

\* A signal leaves an account.
LEMMA SignalTyped ==
    ASSUME NEW acc \in Accounts, NEW i \in Nat, NEW bar, bar.close \in Prices,
           NEW open \in Prices, NEW signal, SignalRecords(signal)
    PROVE  AfterSignal(acc, i, bar, open, signal) \in Accounts
<1>1. CASE Flat(acc)
  BY <1>1, Opening DEF AfterSignal
<1>2. CASE ~Flat(acc)
  <2>1. Reversed(acc, i, bar) \in Accounts /\ Flat(Reversed(acc, i, bar))
    BY <1>2, Closing DEF Reversed
  <2>2. Opened(Reversed(acc, i, bar), i, open, signal) \in Accounts
    BY <2>1, Opening
  <2> QED BY <1>2, <2>2 DEF AfterSignal
<1> QED BY <1>1, <1>2

\* A set of accounts for each number of list taken.  An account of the first
\* set, which a signal takes from set to set, ends in the last one.
LEMMA SignalsStay ==
    ASSUME NEW acc \in Accounts, NEW i \in Nat, NEW bar, bar.close \in Prices, NEW open \in Prices,
           NEW list \in SignalLists, NEW K, acc \in K[0],
           \A n \in 1..Len(list), a \in Accounts :
             a \in K[n - 1] => AfterSignal(a, i, bar, open, list[n]) \in K[n]
    PROVE  /\ AfterSignals(acc, i, bar, open, list) \in Accounts
           /\ AfterSignals(acc, i, bar, open, list) \in K[Len(list)]
<1> DEFINE L == Len(list)
           G == [w \in (1..L) \X Accounts |-> AfterSignal(w[2], i, bar, open, list[w[1]])]
           Good(f) == f = [n \in 0..L |-> IF n = 0 THEN acc
                                          ELSE AfterSignal(f[n - 1], i, bar, open, list[n])]
<1>1. L \in Nat /\ \A n \in 1..L : SignalRecords(list[n])
  BY InputsAreTyped
<1>2. \A n \in 1..L, a \in Accounts : AfterSignal(a, i, bar, open, list[n]) \in Accounts
  BY <1>1, SignalTyped
<1>3. \A n \in 1..L, a \in Accounts : G[<<n, a>>] = AfterSignal(a, i, bar, open, list[n])
  OBVIOUS
<1>4. StepsIn(G, L, Accounts)
  BY <1>2, <1>3 DEF StepsIn
<1> HIDE DEF G
<1>5. PICK f : Iterates(f, G, L, Accounts, acc)
  <2> HIDE DEF L
  <2> QED BY <1>1, <1>4, RecursionExists
<1>6. \A n \in 0..L : f[n] \in Accounts
  BY <1>5 DEF Iterates
<1>7. Good(f)
  <2>1. ASSUME NEW n \in 0..L
        PROVE  f[n] = IF n = 0 THEN acc ELSE AfterSignal(f[n - 1], i, bar, open, list[n])
    <3> HIDE DEF L
    <3>1. CASE n = 0
      BY <1>1, <1>5, <3>1 DEF Iterates
    <3>2. CASE n # 0
      <4>1. n \in 1..L /\ n - 1 \in 0..L
        BY <1>1, <3>2
      <4>2. f[n] = G[<<n, f[n - 1]>>] /\ f[n - 1] \in Accounts
        BY <1>5, <1>6, <4>1, <3>2 DEF Iterates
      <4> QED BY <4>1, <4>2, <1>3, <3>2
    <3> QED BY <3>1, <3>2
  <2> QED BY <2>1, <1>5 DEF Iterates
<1> DEFINE g == CHOOSE h : Good(h)
<1>8. AfterSignals(acc, i, bar, open, list) = g[L]
  BY DEF AfterSignals
<1>9. Good(g)
  <2> HIDE DEF Good
  <2> QED BY <1>7
<1> HIDE DEF g
<1>10. \A n \in 0..L : g[n] = IF n = 0 THEN acc ELSE AfterSignal(g[n - 1], i, bar, open, list[n])
  BY <1>9
<1> DEFINE T == {n \in Nat : n <= L => g[n] \in Accounts /\ g[n] \in K[n]}
<1>11. 0 \in T
  BY <1>1, <1>10
<1>12. ASSUME NEW n \in Nat, n \in T PROVE n + 1 \in T
  <2> SUFFICES ASSUME n + 1 <= L PROVE g[n + 1] \in Accounts /\ g[n + 1] \in K[n + 1]
    OBVIOUS
  <2> HIDE DEF L
  <2>1. n + 1 \in 0..L /\ n + 1 # 0 /\ n + 1 \in 1..L /\ n + 1 - 1 = n /\ n <= L
    BY <1>1
  <2>2. g[n] \in Accounts /\ g[n] \in K[n]
    BY <1>12, <2>1
  <2>3. g[n + 1] = AfterSignal(g[n], i, bar, open, list[n + 1])
    BY <1>10, <2>1
  <2>4. g[n + 1] \in Accounts
    BY <1>2, <2>1, <2>2, <2>3
  <2>5. AfterSignal(g[n], i, bar, open, list[n + 1]) \in K[n + 1]
    BY <2>1, <2>2 DEF L
  <2> QED BY <2>3, <2>4, <2>5
<1>13. L \in T
  <2> HIDE DEF T, L
  <2> QED BY <1>1, <1>11, <1>12, Induction
<1> QED BY <1>1, <1>8, <1>13

\* What the levels do: nothing, or one closing at the level that was hit.
LEMMA LevelsTyped ==
    ASSUME NEW acc \in Accounts, NEW i \in Nat, NEW bar
    PROVE  /\ AfterLevels(acc, i, bar) \in Accounts
           /\ \/ AfterLevels(acc, i, bar) = acc /\ (Flat(acc) \/ ~Hit(acc.position, bar))
              \/ /\ ~Flat(acc) /\ HitsTarget(acc.position, bar)
                 /\ acc.position.target \in Prices
                 /\ AfterLevels(acc, i, bar) = Closed(acc, i, acc.position.target, "take_profit")
              \/ /\ ~Flat(acc) /\ HitsStop(acc.position, bar) /\ ~HitsTarget(acc.position, bar)
                 /\ acc.position.stop \in Prices
                 /\ AfterLevels(acc, i, bar) = Closed(acc, i, acc.position.stop, "stop_loss")
<1> DEFINE p == acc.position
<1>1. ~Flat(acc) => p.stop \in Levels /\ p.target \in Levels
  BY AccountParts, PositionParts
<1>2. CASE Flat(acc)
  BY <1>2 DEF AfterLevels
<1>3. CASE ~Flat(acc) /\ HitsTarget(p, bar)
  <2>1. p.target \in Prices
    BY <1>1, <1>3 DEF HitsTarget, Levels
  <2>2. Closed(acc, i, p.target, "take_profit") \in Accounts
    BY <1>3, <2>1, Closing
  <2> QED BY <1>3, <2>1, <2>2 DEF AfterLevels
<1>4. CASE ~Flat(acc) /\ ~HitsTarget(p, bar) /\ HitsStop(p, bar)
  <2>1. p.stop \in Prices
    BY <1>1, <1>4 DEF HitsStop, Levels
  <2>2. Closed(acc, i, p.stop, "stop_loss") \in Accounts
    BY <1>4, <2>1, Closing
  <2> QED BY <1>4, <2>1, <2>2 DEF AfterLevels
<1>5. CASE ~Flat(acc) /\ ~HitsTarget(p, bar) /\ ~HitsStop(p, bar)
  BY <1>5 DEF AfterLevels, Hit
<1> QED BY <1>2, <1>3, <1>4, <1>5

-----------------------------------------------------------------------------
(* The books *)

\* The gains of the trades, less what their entries cost.
Nets(trades) == Total([k \in DOMAIN trades |-> Net(trades[k])])

\* The fields of a trade.
LEMMA TradeParts ==
    ASSUME NEW t \in TradeRecords
    PROVE  /\ t.of \in OpenPositions /\ t.exit \in Prices /\ t.to \in Nat /\ t.pnl \in Rationals
           /\ EntryCost(t.of) \in Rationals /\ Net(t) \in Rationals
<1>1. t.of \in OpenPositions /\ t.exit \in Prices /\ t.to \in Nat /\ t.pnl \in Rationals
  BY DEF TradeRecords
<1>2. EntryCost(t.of) \in Rationals
  BY <1>1, PositionParts
<1>3. Net(t) \in Rationals
  BY <1>1, <1>2, Closure DEF Net
<1> QED BY <1>1, <1>2, <1>3

\* One trade more.
LEMMA NetsLonger ==
    ASSUME NEW trades \in Seq(TradeRecords), NEW t \in TradeRecords
    PROVE  /\ Nets(trades) \in Rationals
           /\ Nets(Append(trades, t)) = Plus(Nets(trades), Net(t))
<1> DEFINE more == Append(trades, t)
           s == [k \in DOMAIN trades |-> Net(trades[k])]
           r == [k \in DOMAIN more |-> Net(more[k])]
<1>1. /\ more \in Seq(TradeRecords) /\ Len(more) = Len(trades) + 1 /\ more[Len(more)] = t
      /\ \A n \in 1..Len(trades) : more[n] = trades[n]
  BY AppendProperties
<1> HIDE DEF more
<1>2. s \in Seq(Rationals) /\ Len(s) = Len(trades) /\ Len(trades) \in Nat
  <2>1. \A k \in 1..Len(trades) : Net(trades[k]) \in Rationals
    BY TradeParts
  <2> QED BY <2>1
<1>3. r \in Seq(Rationals) /\ Len(r) = Len(more)
  <2>1. \A k \in 1..Len(more) : Net(more[k]) \in Rationals
    BY <1>1, TradeParts
  <2> QED BY <1>1, <2>1
<1>4. r[Len(r)] = Net(t)
  BY <1>1, <1>2, <1>3
<1>5. \A n \in 1..Len(s) : r[n] = s[n]
  BY <1>1, <1>2, <1>3
<1>6. Nets(trades) = Total(s) /\ Nets(more) = Total(r)
  BY DEF Nets
<1> HIDE DEF r, s
<1>7. Total(s) \in Rationals
  <2>1. PICK f : Sums(f, s)
    BY <1>2, TotalSums
  <2> QED BY <1>2, <2>1, SumsAreTotals
<1>8. Total(r) = Plus(Total(s), r[Len(r)])
  BY <1>1, <1>2, <1>3, <1>5, TotalLonger
<1> QED BY <1>4, <1>6, <1>7, <1>8 DEF more

\* No trades.
LEMMA NetsEmpty == Nets(<<>>) = Zero
<1> DEFINE s == [k \in DOMAIN <<>> |-> Net(<<>>[k])]
<1>1. s \in Seq(Rationals) /\ Len(s) = 0
  OBVIOUS
<1> HIDE DEF s
<1>2. Total(s) = Zero
  BY <1>1, TotalEmpty
<1> QED BY <1>2 DEF Nets, s

\* The books of an account: what it has, in cash or in a position, is the
\* capital and what the trades have brought.
Books(acc, start) ==
    IF Flat(acc) THEN acc.cash = Plus(start, Nets(acc.trades))
    ELSE /\ acc.cash = Zero
         /\ Plus(Times(acc.position.quantity, acc.position.entry), EntryCost(acc.position))
              = Plus(start, Nets(acc.trades))

\* Closing keeps the books: what comes back is what the entry took and the gain.
LEMMA ClosingBooks ==
    ASSUME NEW start \in Rationals, NEW acc \in Accounts, ~Flat(acc), Books(acc, start), NEW i \in Nat,
           NEW price \in Prices, NEW reason \in {"signal", "stop_loss", "take_profit"}
    PROVE  Books(Closed(acc, i, price, reason), start)
<1> DEFINE p == acc.position
           t == ClosingTrade(p, i, price, reason)
           new == Closed(acc, i, price, reason)
           C == EntryCost(p)
           E == Times(p.quantity, p.entry)
           S == Nets(acc.trades)
<1>1. /\ new \in Accounts /\ Flat(new) /\ t \in TradeRecords
      /\ new.trades = Append(acc.trades, t) /\ new.cash = Plus(E, t.pnl)
  BY Closing
<1>2. p \in OpenPositions /\ acc.trades \in Seq(TradeRecords)
  BY AccountParts
<1>3. C \in Rationals /\ E \in Rationals
  BY <1>2, PositionParts
<1>4. t.pnl \in Rationals /\ t.of = p /\ Net(t) = Minus(t.pnl, C)
  <2>1. t.of = p
    BY DEF ClosingTrade
  <2> HIDE DEF t
  <2> QED BY <1>1, <2>1, TradeParts DEF Net
<1> HIDE DEF t, new
<1>5. S \in Rationals /\ Nets(new.trades) = Plus(S, Minus(t.pnl, C))
  BY <1>1, <1>2, <1>4, NetsLonger
<1>6. Plus(E, C) = Plus(start, S)
  BY DEF Books
<1> HIDE DEF p, C, E, S
<1>7. Minus(t.pnl, C) \in Rationals
  BY <1>3, <1>4, Closure
<1>8. Plus(E, t.pnl) = Plus(Plus(start, S), Minus(t.pnl, C))
  BY <1>3, <1>4, <1>6, CostsCancel
<1>9. Plus(Plus(start, S), Minus(t.pnl, C)) = Plus(start, Plus(S, Minus(t.pnl, C)))
  BY <1>5, <1>7, PlusAssociates
<1>10. new.cash = Plus(start, Nets(new.trades))
  BY <1>1, <1>5, <1>8, <1>9
<1> QED BY <1>1, <1>10 DEF Books, new

\* Opening keeps them: the position takes all of the cash.
LEMMA OpeningBooks ==
    ASSUME NEW start \in Rationals, NEW acc \in Accounts, Flat(acc), Books(acc, start), NEW i \in Nat,
           NEW open \in Prices, NEW signal, SignalRecords(signal)
    PROVE  Books(Opened(acc, i, open, signal), start)
<1> DEFINE new == Opened(acc, i, open, signal)
<1>1. /\ new \in Accounts /\ ~Flat(new) /\ new.cash = Zero /\ new.trades = acc.trades
      /\ Plus(Times(new.position.quantity, new.position.entry), EntryCost(new.position)) = acc.cash
  BY Opening
<1> HIDE DEF new
<1> QED BY <1>1 DEF Books, new

-----------------------------------------------------------------------------
(* The candles of a trade *)

\* The candles of a trade: it is open on none that reached a level before the
\* one that closes it, a level closes it only where it is reached, and a signal
\* passes over a reached level only on the last candle.
TradeHolds(t, bs, ls, last) ==
    /\ t.of.from >= 1
    /\ t.of.from <= t.to \/ Len(ls[t.to]) > 1
    /\ \A j \in t.of.from .. t.to - 1 : ~Hit(t.of, bs[j])
    /\ t.reason = "stop_loss" => HitsStop(t.of, bs[t.to]) /\ ~HitsTarget(t.of, bs[t.to])
    /\ t.reason = "take_profit" => HitsTarget(t.of, bs[t.to])
    /\ t.reason = "signal" /\ t.of.from <= t.to /\ Hit(t.of, bs[t.to]) => t.to = last

\* The trades up to candle i.
History(trades, bs, ls, i, last) ==
    \A k \in DOMAIN trades :
      /\ trades[k].to \in 1..i
      /\ TradeHolds(trades[k], bs, ls, last)
      /\ k > 1 => trades[k - 1].to < trades[k].of.from

\* The open position after candle i; with n = 0, no signal of that candle is taken.
OpenHolds(acc, bs, i, n) ==
    ~Flat(acc) =>
      /\ acc.position.from \in 1..(i + 1)
      /\ acc.position.from = i + 1 => n > 0
      /\ \A j \in acc.position.from .. i : ~Hit(acc.position, bs[j])
      /\ \A k \in DOMAIN acc.trades : acc.trades[k].to < acc.position.from

\* Trades are not disturbed by further candles.
LEMMA HistoryMoves ==
    ASSUME NEW trades \in Seq(TradeRecords), NEW bs, NEW ls, NEW i \in Nat, NEW b2, NEW l2,
           NEW j \in Nat, i <= j, NEW last,
           History(trades, bs, ls, i, 0), \A n \in 1..i : b2[n] = bs[n] /\ l2[n] = ls[n]
    PROVE  History(trades, b2, l2, j, last)
<1> SUFFICES ASSUME NEW k \in DOMAIN trades
             PROVE  /\ trades[k].to \in 1..j
                    /\ TradeHolds(trades[k], b2, l2, last)
                    /\ k > 1 => trades[k - 1].to < trades[k].of.from
  BY DEF History
<1> DEFINE t == trades[k]
<1>1. t \in TradeRecords
  OBVIOUS
<1>2. t.to \in 1..i /\ TradeHolds(t, bs, ls, 0) /\ (k > 1 => trades[k - 1].to < t.of.from)
  BY DEF History
<1> HIDE DEF t
<1>3. t.of \in OpenPositions /\ t.of.from \in Nat
  BY <1>1, TradeParts, PositionParts
<1>4. TradeHolds(t, b2, l2, last)
  <2>1. b2[t.to] = bs[t.to] /\ l2[t.to] = ls[t.to] /\ t.to # 0
    BY <1>2
  <2>2. t.of.from >= 1 /\ \A n \in t.of.from .. t.to - 1 : b2[n] = bs[n] /\ ~Hit(t.of, bs[n])
    BY <1>2, <1>3 DEF TradeHolds
  <2> QED BY <1>2, <2>1, <2>2 DEF TradeHolds
<1> QED BY <1>2, <1>4 DEF t

\* A trade more at the end of the history.
LEMMA ClosingHistory ==
    ASSUME NEW acc \in Accounts, ~Flat(acc), NEW i \in Nat \ {0}, NEW price \in Prices,
           NEW reason \in {"signal", "stop_loss", "take_profit"}, NEW bs, NEW ls, NEW last,
           History(acc.trades, bs, ls, i, last),
           \A k \in DOMAIN acc.trades : acc.trades[k].to < acc.position.from,
           TradeHolds(ClosingTrade(acc.position, i, price, reason), bs, ls, last)
    PROVE  /\ History(Closed(acc, i, price, reason).trades, bs, ls, i, last)
           /\ Flat(Closed(acc, i, price, reason))
<1> DEFINE t == ClosingTrade(acc.position, i, price, reason)
           new == Closed(acc, i, price, reason)
<1>1. new \in Accounts /\ Flat(new) /\ t \in TradeRecords /\ new.trades = Append(acc.trades, t)
  BY Closing
<1>2. acc.trades \in Seq(TradeRecords)
  BY AccountParts
<1>3. t.to = i /\ t.of = acc.position
  BY DEF ClosingTrade
<1> DEFINE old == acc.trades
           more == new.trades
           L == Len(old)
<1> HIDE DEF t, new
<1>4. L \in Nat /\ DOMAIN old = 1..L /\ DOMAIN more = 1..(L + 1) /\ more[L + 1] = t
      /\ \A n \in 1..L : more[n] = old[n]
  <2> HIDE DEF old
  <2> QED BY <1>1, <1>2, AppendProperties DEF old
<1> HIDE DEF old, more, L
<1>5. ASSUME NEW k \in DOMAIN more
      PROVE  /\ more[k].to \in 1..i
             /\ TradeHolds(more[k], bs, ls, last)
             /\ k > 1 => more[k - 1].to < more[k].of.from
  <2>1. CASE k \in 1..L
    <3>1. more[k] = old[k] /\ (k > 1 => more[k - 1] = old[k - 1])
      BY <1>4, <2>1
    <3>2. k \in DOMAIN old
      BY <1>4, <2>1
    <3>3. /\ old[k].to \in 1..i /\ TradeHolds(old[k], bs, ls, last)
          /\ k > 1 => old[k - 1].to < old[k].of.from
      BY <3>2 DEF History, old
    <3> QED BY <3>1, <3>3
  <2>2. CASE k = L + 1
    <3>1. more[k] = t /\ t.to \in 1..i /\ TradeHolds(t, bs, ls, last)
      BY <1>3, <1>4, <2>2 DEF t
    <3>2. k > 1 => more[k - 1] = old[k - 1] /\ k - 1 \in DOMAIN old
      BY <1>4, <2>2
    <3>3. k > 1 => old[k - 1].to < t.of.from
      BY <1>3, <3>2 DEF old
    <3> QED BY <3>1, <3>2, <3>3
  <2> QED BY <1>4, <2>1, <2>2
<1>6. History(more, bs, ls, i, last)
  BY <1>5 DEF History
<1> QED BY <1>1, <1>6 DEF new, more

\* A position that a level closes.
LEMMA LevelHolds ==
    ASSUME NEW acc \in Accounts, ~Flat(acc), NEW i \in Nat \ {0}, NEW price,
           NEW bs, NEW ls, NEW last, OpenHolds(acc, bs, i - 1, 1)
    PROVE  LET p == acc.position
           IN  /\ HitsTarget(p, bs[i]) => TradeHolds(ClosingTrade(p, i, price, "take_profit"), bs, ls, last)
               /\ HitsStop(p, bs[i]) /\ ~HitsTarget(p, bs[i])
                    => TradeHolds(ClosingTrade(p, i, price, "stop_loss"), bs, ls, last)
               /\ i = last => TradeHolds(ClosingTrade(p, i, price, "signal"), bs, ls, last)
<1> DEFINE p == acc.position
<1>1. p.from \in 1..i /\ \A j \in p.from .. i - 1 : ~Hit(p, bs[j])
  BY DEF OpenHolds
<1>2. ASSUME NEW reason
      PROVE  LET t == ClosingTrade(p, i, price, reason)
             IN  t.of = p /\ t.to = i /\ t.reason = reason
  BY DEF ClosingTrade
<1> QED BY <1>1, <1>2 DEF TradeHolds

\* A position that a signal of candle i closes, after the levels of the candle.
LEMMA SignalHolds ==
    ASSUME NEW acc \in Accounts, ~Flat(acc), NEW i \in Nat \ {0}, NEW price,
           NEW bs, NEW ls, NEW n \in 1..Len(ls[i]), Len(ls[i]) \in Nat, OpenHolds(acc, bs, i, n - 1)
    PROVE  TradeHolds(ClosingTrade(acc.position, i, price, "signal"), bs, ls, 0)
<1> DEFINE p == acc.position
           t == ClosingTrade(p, i, price, "signal")
<1>1. /\ p.from \in 1..(i + 1) /\ \A j \in p.from .. i : ~Hit(p, bs[j])
      /\ p.from = i + 1 => n - 1 > 0
  BY DEF OpenHolds
<1>2. t.of = p /\ t.to = i /\ t.reason = "signal"
  BY DEF ClosingTrade
<1> HIDE DEF p, t
<1>3. p.from <= i \/ Len(ls[i]) > 1
  BY <1>1
<1>4. p.from <= i => ~Hit(p, bs[i])
  BY <1>1
<1>5. \A j \in p.from .. i - 1 : ~Hit(p, bs[j])
  BY <1>1
<1>6. TradeHolds(t, bs, ls, 0)
  BY <1>1, <1>2, <1>3, <1>4, <1>5 DEF TradeHolds
<1> QED BY <1>6 DEF t, p

\* A position opened after the trades before it.
LEMMA OpeningHolds ==
    ASSUME NEW acc \in Accounts, Flat(acc), NEW i \in Nat \ {0}, NEW open \in Prices,
           NEW signal, SignalRecords(signal), NEW bs, NEW ls, NEW n \in Nat \ {0},
           History(acc.trades, bs, ls, i, 0)
    PROVE  /\ History(Opened(acc, i, open, signal).trades, bs, ls, i, 0)
           /\ OpenHolds(Opened(acc, i, open, signal), bs, i, n)
<1> DEFINE new == Opened(acc, i, open, signal)
<1>1. new \in Accounts /\ new.trades = acc.trades /\ new.position.from = i + 1
  BY Opening
<1> HIDE DEF new
<1>2. \A k \in DOMAIN acc.trades : acc.trades[k].to < i + 1
  BY DEF History
<1>3. OpenHolds(new, bs, i, n)
  BY <1>1, <1>2 DEF OpenHolds
<1> QED BY <1>1, <1>3 DEF new

-----------------------------------------------------------------------------
(* The sign of what there is *)

\* Until a trade has lost all there was, there is cash, or a position with a quantity.
SignHolds(acc) ==
    /\ \A k \in DOMAIN acc.trades :
         Below(Zero, acc.trades[k].of.quantity) \/ \E j \in 1 .. k - 1 : Ruined(acc.trades[j])
    /\ \/ \E j \in DOMAIN acc.trades : Ruined(acc.trades[j])
       \/ Positive(IF Flat(acc) THEN acc.cash ELSE acc.position.quantity)

\* A trade that has not lost all brings some cash back.
LEMMA NotRuined ==
    ASSUME NEW t \in TradeRecords, Positive(t.of.quantity), ~Ruined(t)
    PROVE  Positive(CashAfterClose(t.of, t.exit))
<1> DEFINE p == t.of
           x == t.exit
<1>1. /\ p \in OpenPositions /\ x \in Rationals /\ Positive(x)
      /\ p.entry \in Rationals /\ p.quantity \in Rationals
  BY TradeParts, PositionParts DEF Prices, Positive
<1> HIDE DEF p, x
<1>2. CASE p.side = "long"
  <2>1. Positive(Minus(One, Commission))
    BY <1>2, RatesArePositive DEF Ruined, p
  <2>2. Positive(Times(p.quantity, Times(x, Minus(One, Commission))))
    BY <1>1, <2>1, PositiveProduct DEF p
  <2> QED BY <1>2, <2>2 DEF CashAfterClose, p, x
<1>3. CASE p.side # "long"
  <2> DEFINE u == Plus(p.entry, p.entry)
             v == Times(x, Plus(One, Commission))
  <2>1. u \in Rationals /\ v \in Rationals
    BY <1>1, RatesArePositive, Closure DEF Positive
  <2>2. ~AtMost(u, v)
    BY <1>3 DEF Ruined, p, x
  <2> HIDE DEF u, v
  <2>3. Positive(Minus(u, v))
    BY <2>1, <2>2, DifferencePositive
  <2>4. Positive(Times(p.quantity, Minus(u, v)))
    BY <2>3, PositiveProduct DEF p
  <2> QED BY <1>3, <2>4 DEF CashAfterClose, p, x, u, v
<1> QED BY <1>2, <1>3

\* Closing keeps the signs, or ruins.
LEMMA ClosingSigns ==
    ASSUME NEW acc \in Accounts, ~Flat(acc), SignHolds(acc), NEW i \in Nat,
           NEW price \in Prices, NEW reason \in {"signal", "stop_loss", "take_profit"}
    PROVE  SignHolds(Closed(acc, i, price, reason))
<1> DEFINE t == ClosingTrade(acc.position, i, price, reason)
           new == Closed(acc, i, price, reason)
           old == acc.trades
           more == new.trades
           L == Len(old)
<1>1. /\ new \in Accounts /\ Flat(new) /\ t \in TradeRecords /\ more = Append(old, t)
      /\ new.cash = CashAfterClose(acc.position, t.exit)
  BY Closing
<1>2. t.of = acc.position
  BY DEF ClosingTrade
<1>3. old \in Seq(TradeRecords)
  BY AccountParts
<1> HIDE DEF t, new
<1>4. L \in Nat /\ DOMAIN old = 1..L /\ DOMAIN more = 1..(L + 1) /\ more[L + 1] = t
      /\ \A n \in 1..L : more[n] = old[n]
  <2> HIDE DEF old, more
  <2> QED BY <1>1, <1>3, AppendProperties DEF L
<1>5. \/ \E j \in DOMAIN old : Ruined(old[j])
      \/ Positive(acc.position.quantity)
  BY DEF SignHolds
<1>6. \A k \in DOMAIN old : Below(Zero, old[k].of.quantity) \/ \E j \in 1 .. k - 1 : Ruined(old[j])
  BY DEF SignHolds
<1> HIDE DEF old, more, L
<1>7. (\E j \in DOMAIN more : Ruined(more[j])) \/ Positive(new.cash)
  <2>1. CASE \E j \in DOMAIN old : Ruined(old[j])
    BY <2>1, <1>4
  <2>2. CASE Positive(acc.position.quantity) /\ ~Ruined(t)
    BY <2>2, <1>1, <1>2, NotRuined
  <2>3. CASE Ruined(t)
    <3>1. L + 1 \in DOMAIN more
      BY <1>4
    <3> QED BY <2>3, <3>1, <1>4
  <2> QED BY <1>5, <2>1, <2>2, <2>3
<1>8. ASSUME NEW k \in DOMAIN more
      PROVE  Below(Zero, more[k].of.quantity) \/ \E j \in 1 .. k - 1 : Ruined(more[j])
  <2>1. CASE k \in 1..L
    <3>1. Below(Zero, old[k].of.quantity) \/ \E j \in 1 .. k - 1 : Ruined(old[j])
      BY <1>4, <1>6, <2>1
    <3>2. more[k] = old[k] /\ \A j \in 1 .. k - 1 : more[j] = old[j]
      BY <1>4, <2>1
    <3> QED BY <3>1, <3>2
  <2>2. CASE k = L + 1
    <3>1. \A j \in DOMAIN old : j \in 1 .. k - 1 /\ more[j] = old[j]
      BY <1>4, <2>2
    <3>2. Positive(acc.position.quantity) => Below(Zero, more[k].of.quantity)
      BY <1>2, <1>4, <2>2 DEF Positive
    <3> QED BY <1>5, <3>1, <3>2
  <2> QED BY <1>4, <2>1, <2>2
<1>9. SignHolds(new)
  BY <1>1, <1>7, <1>8 DEF SignHolds, more
<1> QED BY <1>9 DEF new

\* Opening turns cash into a quantity.
LEMMA OpeningSigns ==
    ASSUME NEW acc \in Accounts, Flat(acc), SignHolds(acc), NEW i \in Nat,
           NEW open \in Prices, NEW signal, SignalRecords(signal)
    PROVE  SignHolds(Opened(acc, i, open, signal))
<1> DEFINE new == Opened(acc, i, open, signal)
<1>1. /\ new.trades = acc.trades /\ ~Flat(new)
      /\ Positive(acc.cash) <=> Positive(new.position.quantity)
  BY Opening
<1> HIDE DEF new
<1>2. SignHolds(new)
  BY <1>1 DEF SignHolds
<1> QED BY <1>2 DEF new

-----------------------------------------------------------------------------
(* One candle, and the simulation *)

\* All of it, after n list of candle i.
Kept(acc, start, bs, ls, i, n) ==
    Books(acc, start) /\ SignHolds(acc) /\ History(acc.trades, bs, ls, i, 0) /\ OpenHolds(acc, bs, i, n)

\* The levels of a candle.
LEMMA LevelsKeep ==
    ASSUME NEW start \in Rationals, NEW acc \in Accounts, NEW i \in Nat \ {0}, NEW bs, NEW ls,
           Books(acc, start), SignHolds(acc), History(acc.trades, bs, ls, i, 0), OpenHolds(acc, bs, i - 1, 1)
    PROVE  Kept(AfterLevels(acc, i, bs[i]), start, bs, ls, i, 0)
<1> DEFINE p == acc.position
           new == AfterLevels(acc, i, bs[i])
<1>1. CASE new = acc /\ (Flat(acc) \/ ~Hit(p, bs[i]))
  <2>1. OpenHolds(acc, bs, i, 0)
    <3> SUFFICES ASSUME ~Flat(acc)
                 PROVE  /\ p.from \in 1..(i + 1) /\ p.from # i + 1
                        /\ \A j \in p.from .. i : ~Hit(p, bs[j])
                        /\ \A k \in DOMAIN acc.trades : acc.trades[k].to < p.from
      BY DEF OpenHolds
    <3>1. /\ p.from \in 1..((i - 1) + 1) /\ \A j \in p.from .. i - 1 : ~Hit(p, bs[j])
          /\ \A k \in DOMAIN acc.trades : acc.trades[k].to < p.from
      BY DEF OpenHolds
    <3>2. ~Hit(p, bs[i])
      BY <1>1
    <3> HIDE DEF p
    <3>3. p.from \in 1..i /\ \A j \in p.from .. i : j = i \/ j \in p.from .. i - 1
      BY <3>1
    <3> QED BY <3>1, <3>2, <3>3
  <2> QED BY <1>1, <2>1 DEF Kept
<1>2. ASSUME NEW price \in Prices, NEW reason \in {"stop_loss", "take_profit"},
             ~Flat(acc), new = Closed(acc, i, price, reason),
             TradeHolds(ClosingTrade(p, i, price, reason), bs, ls, 0)
      PROVE  Kept(new, start, bs, ls, i, 0)
  <2>1. \A k \in DOMAIN acc.trades : acc.trades[k].to < p.from
    BY <1>2 DEF OpenHolds
  <2>2. History(new.trades, bs, ls, i, 0) /\ Flat(new)
    BY <1>2, <2>1, ClosingHistory
  <2>3. Books(new, start)
    BY <1>2, ClosingBooks
  <2>4. SignHolds(new)
    BY <1>2, ClosingSigns
  <2> HIDE DEF new
  <2> QED BY <2>2, <2>3, <2>4 DEF Kept, OpenHolds
<1>3. CASE ~Flat(acc) /\ HitsTarget(p, bs[i]) /\ p.target \in Prices
           /\ new = Closed(acc, i, p.target, "take_profit")
  <2>1. TradeHolds(ClosingTrade(p, i, p.target, "take_profit"), bs, ls, 0)
    BY <1>3, LevelHolds
  <2> QED BY <1>2, <1>3, <2>1
<1>4. CASE ~Flat(acc) /\ HitsStop(p, bs[i]) /\ ~HitsTarget(p, bs[i]) /\ p.stop \in Prices
           /\ new = Closed(acc, i, p.stop, "stop_loss")
  <2>1. TradeHolds(ClosingTrade(p, i, p.stop, "stop_loss"), bs, ls, 0)
    BY <1>4, LevelHolds
  <2> QED BY <1>2, <1>4, <2>1
<1> QED BY <1>1, <1>3, <1>4, LevelsTyped

\* One signal of a candle.
LEMMA SignalKeeps ==
    ASSUME NEW start \in Rationals, NEW acc \in Accounts, NEW i \in Nat \ {0}, NEW bs, NEW ls,
           bs[i].close \in Prices, NEW open \in Prices, Len(ls[i]) \in Nat,
           NEW n \in 1..Len(ls[i]), SignalRecords(ls[i][n]), Kept(acc, start, bs, ls, i, n - 1)
    PROVE  Kept(AfterSignal(acc, i, bs[i], open, ls[i][n]), start, bs, ls, i, n)
<1> DEFINE signal == ls[i][n]
           bar == bs[i]
           r == Reversed(acc, i, bar)
<1>1. /\ Books(acc, start) /\ SignHolds(acc) /\ History(acc.trades, bs, ls, i, 0)
      /\ OpenHolds(acc, bs, i, n - 1)
  BY DEF Kept
<1>2. SignalRecords(signal) /\ n \in Nat \ {0}
  OBVIOUS
<1> HIDE DEF signal
<1>3. ASSUME NEW a \in Accounts, Flat(a), Books(a, start), SignHolds(a), History(a.trades, bs, ls, i, 0)
      PROVE  Kept(Opened(a, i, open, signal), start, bs, ls, i, n)
  <2>1. Books(Opened(a, i, open, signal), start)
    BY <1>2, <1>3, OpeningBooks
  <2>2. SignHolds(Opened(a, i, open, signal))
    BY <1>2, <1>3, OpeningSigns
  <2>3. /\ History(Opened(a, i, open, signal).trades, bs, ls, i, 0)
        /\ OpenHolds(Opened(a, i, open, signal), bs, i, n)
    BY <1>2, <1>3, OpeningHolds
  <2> QED BY <2>1, <2>2, <2>3 DEF Kept
<1>4. CASE Flat(acc)
  <2>1. Kept(Opened(acc, i, open, signal), start, bs, ls, i, n)
    BY <1>1, <1>3, <1>4
  <2> QED BY <1>4, <2>1 DEF AfterSignal, signal
<1>5. CASE ~Flat(acc) /\ acc.position.side = signal.side
  <2>1. OpenHolds(acc, bs, i, n)
    BY <1>1 DEF OpenHolds
  <2>2. Kept(acc, start, bs, ls, i, n)
    BY <1>1, <2>1 DEF Kept
  <2> QED BY <1>5, <2>2 DEF AfterSignal, signal
<1>6. CASE ~Flat(acc) /\ acc.position.side # signal.side
  <2>1. r \in Accounts /\ Flat(r)
    BY <1>6, Closing DEF Reversed
  <2>2. Books(r, start)
    BY <1>1, <1>6, ClosingBooks DEF Reversed
  <2>3. SignHolds(r)
    BY <1>1, <1>6, ClosingSigns DEF Reversed
  <2>4. History(r.trades, bs, ls, i, 0)
    <3>1. TradeHolds(ClosingTrade(acc.position, i, bar.close, "signal"), bs, ls, 0)
      BY <1>1, <1>6, SignalHolds
    <3>2. \A k \in DOMAIN acc.trades : acc.trades[k].to < acc.position.from
      BY <1>1, <1>6 DEF OpenHolds
    <3> QED BY <1>1, <1>6, <3>1, <3>2, ClosingHistory DEF Reversed
  <2> HIDE DEF r
  <2>5. Kept(Opened(r, i, open, signal), start, bs, ls, i, n)
    BY <1>3, <2>1, <2>2, <2>3, <2>4
  <2> QED BY <1>6, <2>5 DEF AfterSignal, signal, r
<1> QED BY <1>4, <1>5, <1>6

\* A candle: the levels, and then the list one after another.
LEMMA CandleKeeps ==
    ASSUME NEW start \in Rationals, NEW acc \in Accounts, NEW i \in Nat \ {0}, NEW bs, NEW ls,
           Books(acc, start), SignHolds(acc), History(acc.trades, bs, ls, i, 0), OpenHolds(acc, bs, i - 1, 1),
           bs[i] \in Bars, ls[i] \in SignalLists, NEW open \in Prices
    PROVE  /\ AfterCandle(acc, i, bs[i], open, ls[i]) \in Accounts
           /\ Kept(AfterCandle(acc, i, bs[i], open, ls[i]), start, bs, ls, i, Len(ls[i]))
<1> DEFINE list == ls[i]
           bar == bs[i]
           K == [n \in 0..Len(list) |-> {a \in Accounts : Kept(a, start, bs, ls, i, n)}]
           levels == AfterLevels(acc, i, bar)
<1>1. bar.close \in Prices /\ Len(list) \in Nat /\ \A n \in 1..Len(list) : SignalRecords(list[n])
  BY InputsAreTyped
<1>2. levels \in Accounts /\ Kept(levels, start, bs, ls, i, 0)
  BY LevelsTyped, LevelsKeep
<1>3. levels \in K[0]
  BY <1>1, <1>2
<1>4. \A n \in 1..Len(list), a \in Accounts :
        a \in K[n - 1] => AfterSignal(a, i, bar, open, list[n]) \in K[n]
  <2> SUFFICES ASSUME NEW n \in 1..Len(list), NEW a \in Accounts, a \in K[n - 1]
               PROVE  AfterSignal(a, i, bar, open, list[n]) \in K[n]
    OBVIOUS
  <2>1. n \in 0..Len(list) /\ n - 1 \in 0..Len(list)
    BY <1>1
  <2>2. Kept(a, start, bs, ls, i, n - 1)
    BY <2>1
  <2>3. AfterSignal(a, i, bar, open, list[n]) \in Accounts
    BY <1>1, SignalTyped
  <2>4. Kept(AfterSignal(a, i, bar, open, list[n]), start, bs, ls, i, n)
    BY <1>1, <2>2, SignalKeeps
  <2> QED BY <2>1, <2>3, <2>4
<1> HIDE DEF levels
<1>5. Len(list) \in 0..Len(list)
  BY <1>1
<1> DEFINE new == AfterSignals(levels, i, bar, open, list)
<1>6. new \in Accounts /\ new \in K[Len(list)]
  <2> HIDE DEF K
  <2> QED BY <1>1, <1>2, <1>3, <1>4, SignalsStay
<1>7. AfterCandle(acc, i, bar, open, list) = new
  BY DEF AfterCandle, levels
<1> HIDE DEF new
<1> QED BY <1>5, <1>6, <1>7

\* The mark of a flat account is its cash.
LEMMA EquityTyped ==
    ASSUME NEW acc \in Accounts, NEW bar, bar.close \in Prices
    PROVE  /\ Equity(acc, bar) \in Rationals
           /\ Flat(acc) => Equity(acc, bar) = acc.cash
<1> DEFINE p == acc.position
<1>1. acc.cash \in Rationals
  BY AccountParts
<1>2. CASE ~Flat(acc)
  <2>1. p.quantity \in Rationals /\ p.entry \in Rationals /\ bar.close \in Rationals
    BY <1>2, AccountParts, PositionParts DEF Prices
  <2> DEFINE worth == IF p.side = "long" THEN bar.close ELSE Minus(Plus(p.entry, p.entry), bar.close)
  <2>2. worth \in Rationals
    BY <2>1, Closure
  <2> HIDE DEF p, worth
  <2>3. Plus(acc.cash, Times(p.quantity, worth)) \in Rationals
    BY <1>1, <2>1, <2>2, Closure
  <2> QED BY <1>2, <2>3 DEF Equity, p, worth
<1>3. CASE Flat(acc)
  BY <1>1, <1>3 DEF Equity
<1> QED BY <1>2, <1>3

\* The types of the variables, and a capital above zero.
BacktestTyped ==
    /\ bars \in Seq(Bars) /\ lists \in Seq(SignalLists) /\ Len(bars) = Len(lists) + 1
    /\ capital \in Rationals /\ Positive(capital)
    /\ account \in Accounts
    /\ done \in BOOLEAN

\* The curve has a value for each candle; of a flat account, the last is its cash.
CurveHolds ==
    /\ curve \in Seq(Rationals) /\ Len(curve) = Len(bars)
    /\ Flat(account) => curve[Len(curve)] = account.cash

\* Where the loop stands: candles up to Len(lists) are taken, or it is done.
TradesHold ==
    IF done THEN Flat(account) /\ History(Trades, bars, lists, Len(bars), Len(bars))
    ELSE History(Trades, bars, lists, Len(lists), 0) /\ OpenHolds(account, bars, Len(lists), 1)

\* The inductive invariant.
BacktestIInv ==
    /\ BacktestTyped
    /\ Books(account, capital)
    /\ SignHolds(account)
    /\ TradesHold
    /\ CurveHolds

\* It holds in the beginning.
LEMMA InitHolds == BacktestInit => BacktestIInv
<1> SUFFICES ASSUME BacktestInit PROVE BacktestIInv
  OBVIOUS
<1>1. PICK b \in Bars : bars = <<b>>
  BY DEF BacktestInit
<1>2. PICK c \in Capitals : capital = Whole(IF c < MinCapital THEN MinCapital ELSE c)
  BY DEF BacktestInit
<1>3. capital \in Rationals /\ Positive(capital)
  <2> DEFINE n == IF c < MinCapital THEN MinCapital ELSE c
  <2>1. n \in Int /\ n > 0
    BY RatesAssumption
  <2> HIDE DEF n
  <2>2. Value(Whole(n), n, 1)
    BY <2>1, WholeValue
  <2>3. Positive(Whole(n))
    BY <2>1, <2>2, PositiveParts
  <2> QED BY <1>2, <2>3 DEF Positive, n
<1>4. account.cash = capital /\ account.position = NoPosition /\ Trades = <<>> /\ Flat(account)
  BY DEF BacktestInit, Trades, Flat
<1>5. account \in Accounts
  <2>1. account = [cash |-> capital, position |-> NoPosition, trades |-> <<>>]
    BY DEF BacktestInit
  <2>2. <<>> \in Seq(TradeRecords)
    OBVIOUS
  <2> QED BY <1>3, <2>1, <2>2 DEF Accounts
<1>6. BacktestTyped
  <2>1. bars \in Seq(Bars) /\ Len(bars) = 1
    BY <1>1
  <2>2. lists \in Seq(SignalLists) /\ Len(lists) = 0
    <3>1. lists = <<>>
      BY DEF BacktestInit
    <3> QED BY <3>1
  <2>3. done \in BOOLEAN
    BY DEF BacktestInit
  <2>4. Len(bars) = Len(lists) + 1
    BY <2>1, <2>2
  <2> QED BY <1>3, <1>5, <2>1, <2>2, <2>3, <2>4 DEF BacktestTyped
<1>7. Books(account, capital)
  <2>1. Plus(capital, Zero) = capital
    BY <1>3, PlusZero
  <2> QED BY <1>4, <2>1, NetsEmpty DEF Books, Trades
<1>8. SignHolds(account)
  BY <1>3, <1>4 DEF SignHolds, Trades
<1>9. TradesHold
  BY <1>4 DEF BacktestInit, TradesHold, History, OpenHolds
<1>10. CurveHolds
  BY <1>1, <1>3, <1>4 DEF BacktestInit, CurveHolds
<1> QED BY <1>6, <1>7, <1>8, <1>9, <1>10 DEF BacktestIInv

\* A turn of the loop keeps it.
LEMMA CandleHolds ==
    ASSUME BacktestIInv, NEW next \in Bars, NEW list \in SignalLists, Candle(next, list)
    PROVE  BacktestIInv'
<1> DEFINE i == Len(bars)
           bar == bars[i]
<1>1. /\ ~done /\ bars' = Append(bars, next) /\ lists' = Append(lists, list)
      /\ account' = AfterCandle(account, i, bar, next.open, list)
      /\ curve' = Append(curve, Equity(account', bar))
      /\ capital' = capital /\ done' = done
  BY DEF Candle
<1>2. /\ bars \in Seq(Bars) /\ lists \in Seq(SignalLists) /\ i = Len(lists) + 1
      /\ capital \in Rationals /\ Positive(capital) /\ account \in Accounts /\ done \in BOOLEAN
      /\ Books(account, capital) /\ SignHolds(account)
      /\ History(account.trades, bars, lists, Len(lists), 0) /\ OpenHolds(account, bars, Len(lists), 1)
      /\ curve \in Seq(Rationals) /\ Len(curve) = i
  BY <1>1 DEF BacktestIInv, BacktestTyped, TradesHold, CurveHolds, Trades
<1>3. /\ bars' \in Seq(Bars) /\ Len(bars') = i + 1 /\ \A n \in 1..i : bars'[n] = bars[n]
      /\ lists' \in Seq(SignalLists) /\ Len(lists') = i /\ lists'[i] = list
      /\ \A n \in 1..Len(lists) : lists'[n] = lists[n]
      /\ i \in Nat \ {0} /\ Len(lists) \in Nat /\ Len(lists) = i - 1 /\ bar \in Bars
  <2>1. Append(bars, next) \in Seq(Bars) /\ Len(Append(bars, next)) = Len(bars) + 1
        /\ \A n \in 1..Len(bars) : Append(bars, next)[n] = bars[n]
    BY <1>2, AppendProperties
  <2>2. Append(lists, list) \in Seq(SignalLists) /\ Len(Append(lists, list)) = Len(lists) + 1
        /\ Append(lists, list)[Len(lists) + 1] = list
        /\ \A n \in 1..Len(lists) : Append(lists, list)[n] = lists[n]
    BY <1>2, AppendProperties
  <2>3. Len(lists) \in Nat /\ Len(bars) \in Nat
    BY <1>2
  <2> QED BY <1>1, <1>2, <2>1, <2>2, <2>3
<1> HIDE DEF i
<1>4. account.trades \in Seq(TradeRecords)
  BY <1>2, AccountParts
<1>5. History(account.trades, bars', lists', i, 0)
  <2>1. /\ Len(lists) <= i
        /\ \A n \in 1..Len(lists) : bars'[n] = bars[n] /\ lists'[n] = lists[n]
    BY <1>3
  <2> DEFINE b2 == bars'
             l2 == lists'
             j == Len(lists)
             trades == account.trades
  <2>2. j \in Nat /\ j <= i /\ \A n \in 1..j : b2[n] = bars[n] /\ l2[n] = lists[n]
    BY <1>3, <2>1
  <2>3. History(trades, bars, lists, j, 0) /\ trades \in Seq(TradeRecords) /\ i \in Nat
    BY <1>2, <1>3, <1>4
  <2> HIDE DEF b2, l2, j, trades
  <2>4. History(trades, b2, l2, i, 0)
    BY <2>2, <2>3, HistoryMoves
  <2> QED BY <2>4 DEF b2, l2, trades
<1>6. OpenHolds(account, bars', i - 1, 1)
  <2>1. \A n \in 1 .. i - 1 : bars'[n] = bars[n]
    BY <1>3
  <2> QED BY <1>2, <1>3, <2>1 DEF OpenHolds
<1>7. bars'[i] = bar
  BY <1>3
<1> HIDE DEF bar
<1>8. next.open \in Prices /\ bar.close \in Prices
  BY <1>3, InputsAreTyped
<1>9. /\ AfterCandle(account, i, bar, next.open, list) \in Accounts
      /\ Kept(AfterCandle(account, i, bar, next.open, list), capital, bars', lists', i, Len(list))
  <2> DEFINE b2 == bars'
             l2 == lists'
  <2>1. b2[i] = bar /\ l2[i] = list
    BY <1>3, <1>7
  <2>2. History(account.trades, b2, l2, i, 0) /\ OpenHolds(account, b2, i - 1, 1)
    BY <1>5, <1>6
  <2>3. b2[i] \in Bars /\ l2[i] \in SignalLists
    BY <1>3, <2>1
  <2>4. /\ AfterCandle(account, i, b2[i], next.open, l2[i]) \in Accounts
        /\ Kept(AfterCandle(account, i, b2[i], next.open, l2[i]), capital, b2, l2, i, Len(l2[i]))
    <3> HIDE DEF b2, l2
    <3> QED BY <1>2, <1>3, <1>8, <2>2, <2>3, CandleKeeps
  <2> QED BY <2>1, <2>4
<1>10. account' \in Accounts /\ Kept(account', capital, bars', lists', i, Len(list))
  BY <1>1, <1>9 DEF i, bar
<1>11. BacktestTyped'
  BY <1>1, <1>2, <1>3, <1>10 DEF BacktestTyped
<1>12. Books(account, capital)' /\ SignHolds(account)'
  BY <1>1, <1>10 DEF Kept
<1>13. TradesHold'
  <2>1. Len(lists') = i /\ History(account'.trades, bars', lists', i, 0)
    BY <1>3, <1>10 DEF Kept
  <2>2. OpenHolds(account', bars', i, 1)
    BY <1>10 DEF Kept, OpenHolds
  <2> QED BY <1>1, <2>1, <2>2 DEF TradesHold, Trades
<1>14. CurveHolds'
  <2>1. Equity(account', bar) \in Rationals /\ (Flat(account)' => Equity(account', bar) = account'.cash)
    BY <1>8, <1>10, EquityTyped
  <2> DEFINE value == Equity(account', bar)
  <2>2. curve' = Append(curve, value)
    BY <1>1 DEF bar, i
  <2>3. curve' \in Seq(Rationals) /\ Len(curve') = i + 1 /\ curve'[i + 1] = value
    <3> HIDE DEF value
    <3>1. value \in Rationals
      BY <2>1 DEF value
    <3> QED BY <1>2, <2>2, <3>1, AppendProperties
  <2> QED BY <1>3, <2>1, <2>3 DEF CurveHolds
<1> QED BY <1>11, <1>12, <1>13, <1>14 DEF BacktestIInv

\* And so does the liquidation.
LEMMA CloseOutHolds ==
    ASSUME BacktestIInv, CloseOut
    PROVE  BacktestIInv'
<1> DEFINE i == Len(bars)
           price == bars[i].close
           p == account.position
<1>1. /\ ~done /\ done' = TRUE
      /\ bars' = bars /\ lists' = lists /\ capital' = capital
      /\ Flat(account) => account' = account /\ curve' = curve
      /\ ~Flat(account) => /\ account' = Closed(account, i, price, "signal")
                           /\ curve' = [curve EXCEPT ![i] = account'.cash]
  BY DEF CloseOut
<1>2. /\ bars \in Seq(Bars) /\ lists \in Seq(SignalLists) /\ i = Len(lists) + 1
      /\ capital \in Rationals /\ Positive(capital) /\ account \in Accounts
      /\ Books(account, capital) /\ SignHolds(account)
      /\ History(account.trades, bars, lists, Len(lists), 0) /\ OpenHolds(account, bars, Len(lists), 1)
      /\ curve \in Seq(Rationals) /\ Len(curve) = i
      /\ Flat(account) => curve[i] = account.cash
  BY <1>1 DEF BacktestIInv, BacktestTyped, TradesHold, CurveHolds, Trades
<1>3. /\ i \in Nat \ {0} /\ Len(lists) \in Nat /\ Len(lists) = i - 1 /\ bars[i] \in Bars
      /\ account.trades \in Seq(TradeRecords)
  <2>1. Len(lists) \in Nat /\ Len(bars) \in Nat
    BY <1>2
  <2>2. i \in 1..Len(bars)
    BY <1>2, <2>1
  <2>3. bars[i] \in Bars
    BY <1>2, <2>2
  <2> QED BY <1>2, <2>1, <2>3, AccountParts
<1>4. price \in Prices
  BY <1>3, InputsAreTyped
<1>5. History(account.trades, bars, lists, i, i)
  BY <1>2, <1>3, HistoryMoves
<1> HIDE DEF i, price
<1>6. CASE Flat(account)
  <2>1. account' = account /\ curve' = curve
    BY <1>1, <1>6
  <2>2. BacktestTyped'
    BY <1>1, <1>2, <2>1 DEF BacktestTyped, i
  <2>3. Books(account, capital)' /\ SignHolds(account)'
    BY <1>1, <1>2, <2>1
  <2>4. TradesHold'
    BY <1>1, <1>5, <1>6, <2>1 DEF TradesHold, Trades, i
  <2>5. CurveHolds'
    BY <1>1, <1>2, <2>1 DEF CurveHolds, i
  <2> QED BY <2>2, <2>3, <2>4, <2>5 DEF BacktestIInv
<1>7. CASE ~Flat(account)
  <2> DEFINE new == Closed(account, i, price, "signal")
  <2>1. account' = new /\ curve' = [curve EXCEPT ![i] = new.cash]
    BY <1>1, <1>7
  <2>2. new \in Accounts /\ Flat(new)
    BY <1>2, <1>3, <1>4, <1>7, Closing
  <2>3. Books(new, capital) /\ SignHolds(new)
    BY <1>2, <1>3, <1>4, <1>7, ClosingBooks, ClosingSigns
  <2>4. History(new.trades, bars, lists, i, i)
    <3>1. TradeHolds(ClosingTrade(p, i, price, "signal"), bars, lists, i)
      <4>1. OpenHolds(account, bars, i - 1, 1)
        BY <1>2, <1>3
      <4> QED BY <1>2, <1>3, <1>7, <4>1, LevelHolds
    <3>2. \A k \in DOMAIN account.trades : account.trades[k].to < account.position.from
      BY <1>2, <1>7 DEF OpenHolds
    <3> QED BY <1>2, <1>3, <1>4, <1>5, <1>7, <3>1, <3>2, ClosingHistory
  <2> HIDE DEF new
  <2>5. BacktestTyped'
    BY <1>1, <1>2, <2>1, <2>2 DEF BacktestTyped, i
  <2>6. Books(account, capital)' /\ SignHolds(account)'
    BY <1>1, <2>1, <2>3
  <2>7. TradesHold'
    BY <1>1, <2>1, <2>2, <2>4 DEF TradesHold, Trades, i
  <2>8. CurveHolds'
    <3>1. new.cash \in Rationals
      BY <2>2, AccountParts
    <3>2. curve' \in Seq(Rationals) /\ Len(curve') = i /\ curve'[i] = new.cash
      BY <1>2, <1>3, <2>1, <3>1
    <3> QED BY <1>1, <2>1, <3>2 DEF CurveHolds, i
  <2> QED BY <2>5, <2>6, <2>7, <2>8 DEF BacktestIInv
<1> QED BY <1>6, <1>7

\* So it always holds.
LEMMA BacktestKeeps == BacktestSpec => []BacktestIInv
<1>1. BacktestIInv /\ [BacktestNext]_backtestVars => BacktestIInv'
  <2> SUFFICES ASSUME BacktestIInv, [BacktestNext]_backtestVars PROVE BacktestIInv'
    OBVIOUS
  <2>1. CASE CloseOut
    BY <2>1, CloseOutHolds
  <2>2. ASSUME NEW next \in Bars, NEW list \in SignalLists, Candle(next, list)
        PROVE  BacktestIInv'
    BY <2>2, CandleHolds
  <2>3. CASE UNCHANGED backtestVars
    BY <2>3 DEF backtestVars, BacktestIInv, BacktestTyped, TradesHold, CurveHolds, Trades,
                Books, SignHolds, OpenHolds, Flat
  <2> QED BY <2>1, <2>2, <2>3 DEF BacktestNext
<1> QED BY <1>1, InitHolds, PTL DEF BacktestSpec

\* The cash is the capital and the gains of the trades less the commission of
\* their entries, and an open position has taken all of it: no trade, reversal
\* or liquidation loses or makes money that is not in the list of trades.
THEOREM BooksAlwaysReconcile == BacktestSpec => []BooksReconcile
<1>1. BacktestIInv => BooksReconcile
  BY DEF BacktestIInv, Books, BooksReconcile, Nets, Trades
<1> QED BY <1>1, BacktestKeeps, PTL

\* What the invariant says of one trade.
LEMMA TradesFollow ==
    ASSUME BacktestIInv, NEW k \in DOMAIN Trades
    PROVE  /\ TradeHolds(Trades[k], bars, lists, IF done THEN Len(bars) ELSE 0)
           /\ Trades[k].to \in Nat \ {0}
           /\ k > 1 => Trades[k - 1].to < Trades[k].of.from
<1>1. PICK i \in Nat : History(Trades, bars, lists, i, IF done THEN Len(bars) ELSE 0)
  <2>1. Len(bars) \in Nat /\ Len(lists) \in Nat
    BY DEF BacktestIInv, BacktestTyped
  <2> QED BY <2>1 DEF BacktestIInv, TradesHold
<1> QED BY <1>1 DEF History

\* No position outlives a candle that reached its stop or target, whatever the
\* list of that candle, but on the last one, whose levels the loop never looks at.
THEOREM StopsAlwaysHold == BacktestSpec => []StopsHold
<1>1. BacktestIInv => StopsHold
  <2> SUFFICES ASSUME BacktestIInv PROVE StopsHold
    OBVIOUS
  <2>1. ASSUME NEW k \in DOMAIN Trades
        PROVE  LET t == Trades[k]
               IN  /\ \A i \in t.of.from .. t.to - 1 : ~Hit(t.of, bars[i])
                   /\ t.reason = "stop_loss" => HitsStop(t.of, bars[t.to]) /\ ~HitsTarget(t.of, bars[t.to])
                   /\ t.reason = "take_profit" => HitsTarget(t.of, bars[t.to])
                   /\ t.reason = "signal" /\ t.of.from <= t.to /\ Hit(t.of, bars[t.to])
                        => done /\ t.to = Len(bars)
    <3>1. TradeHolds(Trades[k], bars, lists, IF done THEN Len(bars) ELSE 0) /\ Trades[k].to # 0
      BY TradesFollow
    <3> QED BY <3>1 DEF TradeHolds
  <2>2. ASSUME ~Flat(account)
        PROVE  \A i \in account.position.from .. Len(bars) - 1 : ~Hit(account.position, bars[i])
    <3>1. OpenHolds(account, bars, Len(lists), 1) /\ Len(bars) = Len(lists) + 1
      BY <2>2 DEF BacktestIInv, BacktestTyped, TradesHold
    <3>2. Len(lists) \in Nat
      BY DEF BacktestIInv, BacktestTyped
    <3>3. Len(bars) - 1 = Len(lists)
      BY <3>1, <3>2
    <3> QED BY <2>2, <3>1, <3>3 DEF OpenHolds
  <2> QED BY <2>1, <2>2 DEF StopsHold
<1> QED BY <1>1, BacktestKeeps, PTL

\* Trades follow one another, end after they begin unless one candle carries
\* several list, and have a quantity until one of them has lost all.
THEOREM TradesAreAlwaysSound == BacktestSpec => []TradesAreSound
<1>1. BacktestIInv => TradesAreSound
  <2> SUFFICES ASSUME BacktestIInv, NEW k \in DOMAIN Trades
               PROVE  LET t == Trades[k]
                      IN  /\ t.of.from <= t.to \/ Len(lists[t.to]) > 1
                          /\ k > 1 => Trades[k - 1].to < t.of.from
                          /\ Below(Zero, t.of.quantity) \/ \E j \in 1 .. k - 1 : Ruined(Trades[j])
    BY DEF TradesAreSound
  <2>1. Below(Zero, Trades[k].of.quantity) \/ \E j \in 1 .. k - 1 : Ruined(Trades[j])
    BY DEF BacktestIInv, SignHolds, Trades
  <2>2. /\ Trades[k].of.from <= Trades[k].to \/ Len(lists[Trades[k].to]) > 1
        /\ k > 1 => Trades[k - 1].to < Trades[k].of.from
    BY TradesFollow DEF TradeHolds
  <2> QED BY <2>1, <2>2
<1> QED BY <1>1, BacktestKeeps, PTL

-----------------------------------------------------------------------------
(* The report *)

\* The higher the peak, the deeper the fall to a value that is not negative.
LEMMA FallsFromHigher ==
    ASSUME NEW x, NEW peak \in Rationals, NEW y \in Rationals,
           Positive(x), AtMost(x, peak), AtMost(Zero, y)
    PROVE  AtMost(Over(Minus(x, y), x), Fall(peak, y))
<1>1. PICK a, c, e \in Int, b, d, f \in Nat \ {0} :
      Value(x, a, b) /\ Value(peak, c, d) /\ Value(y, e, f)
  BY RationalParts DEF Positive
<1>2. a > 0
  BY <1>1, PositiveParts
<1>3. a * d <= c * b
  BY <1>1, AtMostValue
<1>4. e >= 0
  <2>1. Value(Zero, 0, 1)
    BY WholeValue DEF Zero
  <2>2. 0 * f <= e * 1
    BY <1>1, <2>1, AtMostValue
  <2> QED BY <2>2
<1>5. c > 0
  <2>1. a * d > 0
    BY <1>2
  <2> DEFINE ad == a * d
  <2>2. ad \in Int /\ ad > 0 /\ ad <= c * b
    BY <1>3, <2>1
  <2> HIDE DEF ad
  <2>3. c * b > 0
    BY <2>2
  <2> QED BY <2>3
<1>6. Fall(peak, y) = Over(Minus(peak, y), peak)
  BY <1>1, <1>5, PositiveParts DEF Fall, Positive
<1>7. Value(Minus(x, y), a * f - e * b, b * f) /\ Value(Minus(peak, y), c * f - e * d, d * f)
  BY <1>1, MinusValue
<1>8. Value(Over(Minus(x, y), x), (a * f - e * b) * b, (b * f) * a)
  BY <1>1, <1>2, <1>7, OverValue
<1>9. Value(Over(Minus(peak, y), peak), (c * f - e * d) * d, (d * f) * c)
  BY <1>1, <1>5, <1>7, OverValue
<1>10. ((a * f - e * b) * b) * ((d * f) * c) <= ((c * f - e * d) * d) * ((b * f) * a)
  <2>1. ((c * f - e * d) * d) * ((b * f) * a) - ((a * f - e * b) * b) * ((d * f) * c)
          = (e * (b * d * f)) * (c * b - a * d)
    OBVIOUS
  <2> DEFINE g == e * (b * d * f)
             h == c * b - a * d
  <2>2. g \in Int /\ h \in Int /\ g >= 0 /\ h >= 0
    <3>1. b * d * f \in Nat
      OBVIOUS
    <3> DEFINE k == b * d * f
    <3> HIDE DEF k
    <3>2. k \in Nat => e * k >= 0 /\ e * k \in Int
      BY <1>4
    <3> QED BY <1>3, <3>1, <3>2 DEF k
  <2>3. g * h >= 0
    <3> HIDE DEF g, h
    <3> QED BY <2>2
  <2> DEFINE r == ((c * f - e * d) * d) * ((b * f) * a)
             l == ((a * f - e * b) * b) * ((d * f) * c)
  <2>4. r \in Int /\ l \in Int /\ r - l >= 0
    BY <2>1, <2>3
  <2> HIDE DEF r, l
  <2>5. l <= r
    BY <2>4
  <2> QED BY <2>5 DEF r, l
<1> DEFINE n == (a * f - e * b) * b
           m == (b * f) * a
           s == (c * f - e * d) * d
           t == (d * f) * c
<1>11. /\ Value(Over(Minus(x, y), x), n, m) /\ Value(Over(Minus(peak, y), peak), s, t)
       /\ n * t <= s * m
  BY <1>8, <1>9, <1>10
<1> HIDE DEF n, m, s, t
<1>12. AtMost(Over(Minus(x, y), x), Over(Minus(peak, y), peak))
  BY <1>11, AtMostValue
<1> QED BY <1>6, <1>12

\* From a value to itself there is no fall.
LEMMA NoFall ==
    ASSUME NEW x \in Rationals
    PROVE  Fall(x, x) = Zero
<1>1. PICK a \in Int, b \in Nat \ {0} : Value(x, a, b)
  BY RationalParts
<1>2. CASE Below(Zero, x)
  <2>1. a > 0
    BY <1>1, <1>2, PositiveParts DEF Positive
  <2>2. Value(Minus(x, x), a * b - a * b, b * b)
    BY <1>1, MinusValue
  <2>3. Value(Over(Minus(x, x), x), (a * b - a * b) * b, (b * b) * a)
    BY <1>1, <2>1, <2>2, OverValue
  <2>4. Value(Zero, 0, 1)
    BY WholeValue DEF Zero
  <2>5. ((a * b - a * b) * b) * 1 = 0 * ((b * b) * a)
    OBVIOUS
  <2>6. Over(Minus(x, x), x) = Zero
    BY <2>3, <2>4, <2>5, SameValue
  <2> QED BY <1>2, <2>6 DEF Fall
<1> QED BY <1>2 DEF Fall

\* A fall is a fraction.
LEMMA FallTyped ==
    ASSUME NEW peak \in Rationals, NEW value \in Rationals
    PROVE  Fall(peak, value) \in Rationals
<1>1. Zero \in Rationals
  BY Closure
<1>2. CASE Below(Zero, peak)
  <2>1. PICK a, c \in Int, b, d \in Nat \ {0} : Value(peak, a, b) /\ Value(Minus(peak, value), c, d)
    BY RationalParts, Closure
  <2>2. a > 0
    BY <1>2, <2>1, PositiveParts DEF Positive
  <2>3. Value(Over(Minus(peak, value), peak), c * b, d * a)
    BY <2>1, <2>2, OverValue
  <2> QED BY <1>2, <2>3 DEF Fall, Value
<1> QED BY <1>1, <1>2 DEF Fall

\* x is the fall of one value of a curve below an earlier one that is positive.
IsFall(x, values, n) ==
    \E i, j \in 1..n : i < j /\ Below(Zero, values[i]) /\ Over(Minus(values[i], values[j]), values[i]) = x

\* What is seen after n values: their peak and their deepest fall.
SeenHolds(seen, values, n) ==
    /\ seen.peak \in Rationals /\ seen.dd \in Rationals /\ AtMost(Zero, seen.dd)
    /\ \E i \in 1..n \cup {1} : seen.peak = values[i]
    /\ \A i \in 1..n : AtMost(values[i], seen.peak)
    /\ \A i, j \in 1..n :
         i < j /\ Below(Zero, values[i]) /\ AtMost(Zero, values[j]) =>
           AtMost(Over(Minus(values[i], values[j]), values[i]), seen.dd)
    /\ seen.dd # Zero => IsFall(seen.dd, values, n)

\* One turn of _compute_max_drawdown.
LEMMA OneMoreSeen ==
    ASSUME NEW values \in Seq(Rationals), NEW n \in Nat, n + 1 <= Len(values),
           NEW seen, SeenHolds(seen, values, n)
    PROVE  SeenHolds(Seen(seen, values[n + 1]), values, n + 1)
<1> DEFINE v == values[n + 1]
           peak == IF Below(seen.peak, v) THEN v ELSE seen.peak
           fall == Fall(peak, v)
           dd == IF Below(seen.dd, fall) THEN fall ELSE seen.dd
           new == Seen(seen, v)
<1>1. /\ seen.peak \in Rationals /\ seen.dd \in Rationals /\ AtMost(Zero, seen.dd)
      /\ \A i \in 1..n : AtMost(values[i], seen.peak)
      /\ \A i, j \in 1..n :
           i < j /\ Below(Zero, values[i]) /\ AtMost(Zero, values[j]) =>
             AtMost(Over(Minus(values[i], values[j]), values[i]), seen.dd)
      /\ seen.dd # Zero => IsFall(seen.dd, values, n)
  BY DEF SeenHolds
<1>2. PICK p \in 1..n \cup {1} : seen.peak = values[p]
  BY DEF SeenHolds
<1>3. \A i \in 1 .. n + 1 : values[i] \in Rationals
  <2>1. Len(values) \in Nat /\ \A i \in 1..Len(values) : values[i] \in Rationals
    OBVIOUS
  <2> QED BY <2>1
<1>4. v \in Rationals /\ Zero \in Rationals
  <2>1. n + 1 \in 1 .. n + 1
    OBVIOUS
  <2> QED BY <1>3, <2>1, Closure
<1>5. new.peak = peak /\ new.dd = dd
  BY DEF Seen
<1> HIDE DEF v, new
<1>6. peak \in Rationals /\ AtMost(seen.peak, peak) /\ AtMost(v, peak)
  BY <1>1, <1>4, OrderLaws
<1>7. fall \in Rationals
  <2> HIDE DEF peak
  <2> QED BY <1>4, <1>6, FallTyped
<1>8. dd \in Rationals /\ AtMost(seen.dd, dd) /\ AtMost(fall, dd)
  <2> HIDE DEF fall
  <2> QED BY <1>1, <1>7, OrderLaws
<1>9. AtMost(Zero, dd)
  <2> HIDE DEF dd
  <2> QED BY <1>1, <1>4, <1>8, OrderLaws
<1>10. \E i \in 1 .. n + 1 \cup {1} : peak = values[i]
  BY <1>2 DEF v
<1>11. \A i \in 1 .. n + 1 : AtMost(values[i], peak)
  <2> SUFFICES ASSUME NEW i \in 1 .. n + 1 PROVE AtMost(values[i], peak)
    OBVIOUS
  <2> HIDE DEF peak
  <2>1. CASE i \in 1..n
    <3>1. AtMost(values[i], seen.peak) /\ values[i] \in Rationals
      BY <1>1, <1>3, <2>1
    <3> QED BY <1>1, <1>6, <3>1, OrderLaws
  <2>2. CASE i = n + 1
    BY <1>6, <2>2 DEF v
  <2> QED BY <2>1, <2>2
<1>12. ASSUME NEW i \in 1 .. n + 1, NEW j \in 1 .. n + 1, i < j, Below(Zero, values[i]), AtMost(Zero, values[j])
       PROVE  AtMost(Over(Minus(values[i], values[j]), values[i]), dd)
  <2> DEFINE x == values[i]
             y == values[j]
             o == Over(Minus(x, y), x)
  <2>1. x \in Rationals /\ y \in Rationals /\ Positive(x) /\ Minus(x, y) \in Rationals
    BY <1>3, <1>12, Closure DEF Positive
  <2>2. o \in Rationals
    <3>1. o = Fall(x, y)
      BY <2>1 DEF Fall, Positive
    <3> QED BY <2>1, <3>1, FallTyped
  <2>3. CASE j \in 1..n
    <3>1. AtMost(o, seen.dd)
      <4>1. i \in 1..n
        BY <1>12, <2>3
      <4>2. AtMost(Over(Minus(values[i], values[j]), values[i]), seen.dd)
        BY <1>1, <1>12, <2>3, <4>1
      <4> QED BY <4>2
    <3> HIDE DEF dd, o
    <3> QED BY <1>1, <1>8, <2>2, <3>1, OrderLaws DEF o, x, y
  <2>4. CASE j = n + 1
    <3>1. y = v /\ AtMost(x, peak) /\ AtMost(Zero, y)
      BY <1>11, <1>12, <2>4 DEF v
    <3> HIDE DEF x, y, peak
    <3>2. AtMost(o, Fall(peak, y))
      BY <1>6, <2>1, <3>1, FallsFromHigher
    <3> HIDE DEF o, dd
    <3>3. AtMost(o, fall)
      BY <3>1, <3>2
    <3> HIDE DEF fall
    <3>4. AtMost(o, dd)
      BY <1>7, <1>8, <2>2, <3>3, OrderLaws
    <3> QED BY <3>4 DEF o, x, y
  <2> QED BY <2>3, <2>4
<1>13. dd # Zero => IsFall(dd, values, n + 1)
  <2>1. ASSUME Below(seen.dd, fall) PROVE IsFall(fall, values, n + 1)
    <3>1. fall # Zero
      <4> HIDE DEF fall
      <4> QED BY <1>1, <1>4, <2>1, OrderLaws
    <3>2. Fall(v, v) = Zero
      BY <1>4, NoFall
    <3>3. peak = values[p] /\ p # n + 1
      BY <1>2, <3>1, <3>2 DEF v
    <3>4. p \in 1 .. n + 1 /\ n + 1 \in 1 .. n + 1 /\ p < n + 1
      BY <3>3
    <3> HIDE DEF peak
    <3>5. Below(Zero, peak) /\ fall = Over(Minus(peak, v), peak)
      BY <3>1 DEF Fall
    <3> HIDE DEF fall
    <3> QED BY <3>3, <3>4, <3>5 DEF IsFall, v
  <2>2. ASSUME IsFall(seen.dd, values, n) PROVE IsFall(seen.dd, values, n + 1)
    BY <2>2 DEF IsFall
  <2> HIDE DEF fall
  <2> QED BY <1>1, <2>1, <2>2
<1> HIDE DEF peak, dd
<1>14. SeenHolds(new, values, n + 1)
  <2>1. new.peak \in Rationals /\ new.dd \in Rationals /\ AtMost(Zero, new.dd)
    BY <1>5, <1>6, <1>8, <1>9
  <2>2. \E i \in 1 .. n + 1 \cup {1} : new.peak = values[i]
    BY <1>5, <1>10
  <2>3. \A i \in 1 .. n + 1 : AtMost(values[i], new.peak)
    BY <1>5, <1>11
  <2>4. \A i, j \in 1 .. n + 1 :
          i < j /\ Below(Zero, values[i]) /\ AtMost(Zero, values[j]) =>
            AtMost(Over(Minus(values[i], values[j]), values[i]), new.dd)
    BY <1>5, <1>12
  <2>5. new.dd # Zero => IsFall(new.dd, values, n + 1)
    BY <1>5, <1>13
  <2> QED BY <2>1, <2>2, <2>3, <2>4, <2>5 DEF SeenHolds
<1> QED BY <1>14 DEF new, v

\* What it returns, by induction over the values.
LEMMA DrawdownIsDeepest ==
    ASSUME NEW values \in Seq(Rationals), Len(values) > 1
    PROVE  \E seen : MaxDrawdown(values) = seen.dd /\ SeenHolds(seen, values, Len(values))
<1> DEFINE L == Len(values)
           V == [peak : Rationals, dd : Rationals]
           v == [peak |-> values[1], dd |-> Zero]
           G == [w \in (1..L) \X V |-> Seen(w[2], values[w[1]])]
           Good(f) == f = [n \in 0..L |-> IF n = 0 THEN v ELSE Seen(f[n - 1], values[n])]
<1>1. L \in Nat /\ 1 \in 1..L /\ \A n \in 1..L : values[n] \in Rationals
  OBVIOUS
<1>2. v \in V
  BY <1>1, Closure
<1>3. ASSUME NEW n \in 1..L, NEW w \in V
      PROVE  G[<<n, w>>] = Seen(w, values[n]) /\ Seen(w, values[n]) \in V
  <2> DEFINE x == values[n]
  <2>1. x \in Rationals /\ w.peak \in Rationals /\ w.dd \in Rationals
    BY <1>1
  <2> DEFINE peak == IF Below(w.peak, x) THEN x ELSE w.peak
  <2>2. peak \in Rationals
    BY <2>1
  <2>3. Fall(peak, x) \in Rationals
    <3> HIDE DEF peak, x
    <3> QED BY <2>1, <2>2, FallTyped
  <2>4. Seen(w, x) \in V
    BY <2>1, <2>2, <2>3 DEF Seen
  <2> HIDE DEF V
  <2> QED BY <2>4
<1>4. StepsIn(G, L, V)
  BY <1>3 DEF StepsIn
<1> HIDE DEF G, V, v
<1>5. PICK f : Iterates(f, G, L, V, v)
  <2> HIDE DEF L
  <2> QED BY <1>1, <1>2, <1>4, RecursionExists
<1>6. Good(f)
  <2>1. ASSUME NEW n \in 0..L
        PROVE  f[n] = IF n = 0 THEN v ELSE Seen(f[n - 1], values[n])
    <3> HIDE DEF L
    <3>1. CASE n = 0
      BY <1>1, <1>5, <3>1 DEF Iterates
    <3>2. CASE n # 0
      <4>1. n \in 1..L /\ n - 1 \in 0..L
        BY <1>1, <3>2
      <4>2. f[n] = G[<<n, f[n - 1]>>] /\ f[n - 1] \in V
        BY <1>5, <4>1, <3>2 DEF Iterates
      <4> QED BY <4>1, <4>2, <1>3, <3>2
    <3> QED BY <3>1, <3>2
  <2> QED BY <2>1, <1>5 DEF Iterates
<1> DEFINE g == CHOOSE h : Good(h)
<1>7. MaxDrawdown(values) = g[L].dd
  BY <1>1 DEF MaxDrawdown, v
<1>8. Good(g)
  <2> HIDE DEF Good
  <2> QED BY <1>6
<1> HIDE DEF g
<1>9. \A n \in 0..L : g[n] = IF n = 0 THEN v ELSE Seen(g[n - 1], values[n])
  BY <1>8
<1> DEFINE T == {n \in Nat : n <= L => SeenHolds(g[n], values, n)}
<1>10. 0 \in T
  <2>1. g[0] = v
    BY <1>1, <1>9
  <2>2. SeenHolds(v, values, 0)
    <3>1. v.peak = values[1] /\ v.dd = Zero
      BY DEF v
    <3>2. values[1] \in Rationals /\ Zero \in Rationals
      BY <1>1, Closure
    <3> QED BY <3>1, <3>2 DEF SeenHolds, AtMost
  <2> QED BY <2>1, <2>2
<1>11. ASSUME NEW n \in Nat, n \in T PROVE n + 1 \in T
  <2> SUFFICES ASSUME n + 1 <= L PROVE SeenHolds(g[n + 1], values, n + 1)
    OBVIOUS
  <2>1. n + 1 \in 0..L /\ n + 1 # 0 /\ n + 1 - 1 = n /\ n <= L
    BY <1>1
  <2>2. SeenHolds(g[n], values, n)
    BY <1>11, <2>1
  <2>3. g[n + 1] = Seen(g[n], values[n + 1])
    BY <1>9, <2>1
  <2> QED BY <2>2, <2>3, OneMoreSeen
<1>12. L \in T
  <2> HIDE DEF T, L
  <2> QED BY <1>1, <1>10, <1>11, Induction
<1> QED BY <1>1, <1>7, <1>12

\* A gain is of a winning trade, or of a losing one, or nothing; and it is what
\* is counted of it and the cost of the entry.
LEMMA GainsSplit ==
    ASSUME NEW trades \in Seq(TradeRecords)
    PROVE  LET total == Gains(trades, DOMAIN trades)
               won   == Gains(trades, Winning(trades))
               lost  == Gains(trades, Losing(trades))
               costs == Total([k \in DOMAIN trades |-> EntryCost(trades[k].of)])
           IN  /\ won \in Rationals /\ lost \in Rationals /\ costs \in Rationals
               /\ total = Plus(won, lost)
               /\ total = Plus(Nets(trades), costs)
<1> DEFINE D == DOMAIN trades
           some(set) == [k \in D |-> IF k \in set THEN trades[k].pnl ELSE Zero]
           g == some(D)
           w == some(Winning(trades))
           l == some(Losing(trades))
           c == [k \in D |-> EntryCost(trades[k].of)]
           s == [k \in D |-> Net(trades[k])]
<1>1. D = 1..Len(trades) /\ Len(trades) \in Nat
  OBVIOUS
<1>2. \A k \in D : trades[k] \in TradeRecords
  OBVIOUS
<1>3. \A k \in D : /\ trades[k].pnl \in Rationals /\ EntryCost(trades[k].of) \in Rationals
                   /\ Net(trades[k]) \in Rationals
  BY <1>2, TradeParts
<1>4. Zero \in Rationals
  BY ZeroIsRational
<1>5. /\ g \in Seq(Rationals) /\ w \in Seq(Rationals) /\ l \in Seq(Rationals)
      /\ c \in Seq(Rationals) /\ s \in Seq(Rationals)
  <2> HIDE DEF D
  <2>1. /\ g \in [D -> Rationals] /\ w \in [D -> Rationals] /\ l \in [D -> Rationals]
        /\ c \in [D -> Rationals] /\ s \in [D -> Rationals]
    BY <1>3, <1>4
  <2> HIDE DEF g, w, l, c, s
  <2> QED BY <1>1, <2>1, ListOf
<1>6. DOMAIN g = D /\ DOMAIN w = D /\ DOMAIN l = D /\ DOMAIN c = D /\ DOMAIN s = D
  OBVIOUS
<1>7. \A k \in D : g[k] = Plus(w[k], l[k])
  <2> SUFFICES ASSUME NEW k \in D PROVE g[k] = Plus(w[k], l[k])
    OBVIOUS
  <2> DEFINE x == trades[k].pnl
  <2>1. x \in Rationals
    BY <1>3
  <2>2. /\ g[k] = x
        /\ w[k] = IF Below(Zero, x) THEN x ELSE Zero
        /\ l[k] = IF Below(x, Zero) THEN x ELSE Zero
    BY DEF Winning, Losing
  <2> HIDE DEF x, g, w, l
  <2>3. Plus(x, Zero) = x /\ Plus(Zero, x) = x /\ Plus(Zero, Zero) = Zero
    BY <1>4, <2>1, PlusZero, PlusCommutes
  <2>4. ~(Below(Zero, x) /\ Below(x, Zero))
    BY <1>4, <2>1, OrderLaws
  <2>5. ~Below(Zero, x) /\ ~Below(x, Zero) => x = Zero
    <3>1. ~Below(Zero, x) => AtMost(x, Zero)
      BY <1>4, <2>1, OrderLaws
    <3> QED BY <3>1 DEF AtMost
  <2> QED BY <2>2, <2>3, <2>4, <2>5
<1>8. \A k \in D : g[k] = Plus(s[k], c[k])
  <2> SUFFICES ASSUME NEW k \in D PROVE g[k] = Plus(s[k], c[k])
    OBVIOUS
  <2>1. g[k] = trades[k].pnl /\ s[k] = Minus(trades[k].pnl, EntryCost(trades[k].of)) /\ c[k] = EntryCost(trades[k].of)
    BY DEF Net
  <2> HIDE DEF g, s, c
  <2> QED BY <1>3, <2>1, MinusThenPlus
<1>9. /\ Gains(trades, D) = Total(g) /\ Gains(trades, Winning(trades)) = Total(w)
      /\ Gains(trades, Losing(trades)) = Total(l) /\ Nets(trades) = Total(s)
  BY DEF Gains, Nets
<1> HIDE DEF g, w, l, c, s, D
<1>10. Len(g) = Len(trades) /\ Len(w) = Len(g) /\ Len(l) = Len(g) /\ Len(c) = Len(g) /\ Len(s) = Len(g)
  BY <1>1, <1>5, <1>6
<1>11. Total(g) = Plus(Total(w), Total(l))
  BY <1>1, <1>5, <1>7, <1>10, TotalCombines
<1>12. Total(g) = Plus(Total(s), Total(c))
  BY <1>1, <1>5, <1>8, <1>10, TotalCombines
<1>13. Total(w) \in Rationals /\ Total(l) \in Rationals /\ Total(c) \in Rationals
  BY <1>5, TotalTyped
<1> QED BY <1>9, <1>11, <1>12, <1>13 DEF c, D

\* No trade is both won and lost.
LEMMA WinsAndLosses ==
    ASSUME NEW trades \in Seq(TradeRecords)
    PROVE  /\ Cardinality(Winning(trades)) \in Nat /\ Cardinality(Losing(trades)) \in Nat
           /\ Cardinality(Winning(trades)) + Cardinality(Losing(trades)) <= Len(trades)
<1> DEFINE W == Winning(trades)
           M == Losing(trades)
           D == 1..Len(trades)
<1>1. Len(trades) \in Nat /\ DOMAIN trades = D
  OBVIOUS
<1>2. W \subseteq D /\ M \subseteq D /\ W \cup M \subseteq D
  BY <1>1 DEF Winning, Losing
<1>3. W \cap M = {}
  <2>1. ASSUME NEW k \in D PROVE ~(Below(Zero, trades[k].pnl) /\ Below(trades[k].pnl, Zero))
    <3>1. trades[k].pnl \in Rationals /\ Zero \in Rationals
      BY TradeParts, ZeroIsRational
    <3> HIDE DEF Zero
    <3> QED BY <3>1, OrderLaws
  <2> QED BY <2>1, <1>1 DEF Winning, Losing
<1>4. IsFiniteSet(D) /\ Cardinality(D) = Len(trades)
  BY <1>1, FS_Interval
<1> HIDE DEF W, M, D
<1>5. IsFiniteSet(W) /\ IsFiniteSet(M) /\ IsFiniteSet(W \cup M) /\ Cardinality(W \cup M) <= Cardinality(D)
  BY <1>2, <1>4, FS_Subset
<1>6. Cardinality(W \cup M) = Cardinality(W) + Cardinality(M) - Cardinality(W \cap M)
  BY <1>5, FS_Union
<1>7. Cardinality(W \cap M) = 0
  BY <1>3, FS_EmptySet
<1>8. Cardinality(W) \in Nat /\ Cardinality(M) \in Nat
  BY <1>5, FS_CardinalityType
<1> QED BY <1>4, <1>5, <1>6, <1>7, <1>8 DEF W, M

\* The fields of the report.
LEMMA ReportFields ==
    /\ Trades = <<>> => Metrics.final = Last(curve)
    /\ Trades # <<>> =>
         /\ Metrics.final = Last(curve) /\ Metrics.trades = Len(Trades)
         /\ Metrics.wins = Cardinality(Winning(Trades)) /\ Metrics.losses = Cardinality(Losing(Trades))
         /\ Metrics.return = Minus(Over(Last(curve), capital), One)
         /\ Metrics.profit = Gains(Trades, Winning(Trades))
         /\ Metrics.loss = Neg(Gains(Trades, Losing(Trades)))
         /\ Metrics.drawdown = MaxDrawdown(curve)
BY DEF Metrics

\* What is reported agrees with itself: final value, gains and losses, return,
\* counts, and the drawdown, which some fall reaches and none exceeds.
THEOREM ReportIsAlwaysTrue == BacktestSpec => []ReportIsTrue
<1>1. ASSUME BacktestIInv, done PROVE ReportIsTrue
  <2>1. /\ Flat(account) /\ account \in Accounts /\ capital \in Rationals /\ Positive(capital)
        /\ account.cash = Plus(capital, Nets(Trades))
        /\ curve \in Seq(Rationals) /\ curve[Len(curve)] = account.cash
    BY <1>1 DEF BacktestIInv, BacktestTyped, TradesHold, CurveHolds, Books, Trades
  <2>2. Trades \in Seq(TradeRecords) /\ account.cash \in Rationals
    BY <2>1, AccountParts DEF Trades
  <2>3. Last(curve) = account.cash
    BY <2>1 DEF Last
  <2>4. ASSUME Trades = <<>> PROVE Metrics.final = capital
    <3>1. Nets(Trades) = Zero
      BY <2>4, NetsEmpty
    <3>2. Plus(capital, Zero) = capital
      BY <2>1, PlusZero
    <3> QED BY <2>1, <2>3, <2>4, <3>1, <3>2, ReportFields
  <2>5. ASSUME Trades # <<>>
        PROVE  Minus(Metrics.profit, Metrics.loss)
                 = Plus(Times(Metrics.return, capital), Total([k \in DOMAIN Trades |-> EntryCost(Trades[k].of)]))
    <3> DEFINE won   == Gains(Trades, Winning(Trades))
               lost  == Gains(Trades, Losing(Trades))
               costs == Total([k \in DOMAIN Trades |-> EntryCost(Trades[k].of)])
               nets  == Nets(Trades)
               cash  == account.cash
    <3>1. /\ won \in Rationals /\ lost \in Rationals /\ costs \in Rationals
          /\ Plus(won, lost) = Plus(nets, costs)
      BY <2>2, GainsSplit
    <3>2. nets \in Rationals
      <4>1. \A k \in DOMAIN Trades : Net(Trades[k]) \in Rationals
        BY <2>2, TradeParts
      <4>2. [k \in DOMAIN Trades |-> Net(Trades[k])] \in Seq(Rationals)
        BY <2>2, <4>1
      <4> QED BY <4>2, TotalTyped DEF Nets
    <3>3. /\ Metrics.profit = won /\ Metrics.loss = Neg(lost)
          /\ Metrics.return = Minus(Over(cash, capital), One)
      BY <2>3, <2>5, ReportFields
    <3>4. cash = Plus(capital, nets) /\ cash \in Rationals
      BY <2>1, <2>2
    <3> HIDE DEF won, lost, costs, nets, cash
    <3>5. Minus(won, Neg(lost)) = Plus(won, lost)
      BY <3>1, MinusNegated
    <3>6. Times(Minus(Over(cash, capital), One), capital) = Minus(cash, capital)
      BY <2>1, <3>4, ReturnOfCapital
    <3>7. Minus(Plus(capital, nets), capital) = nets
      BY <2>1, <3>2, PlusTakesBack
    <3>8. Minus(Metrics.profit, Metrics.loss) = Plus(Times(Metrics.return, capital), costs)
      BY <3>1, <3>3, <3>4, <3>5, <3>6, <3>7
    <3> QED BY <3>8 DEF costs
  <2>6. ASSUME Trades # <<>> PROVE Metrics.wins + Metrics.losses <= Metrics.trades
    BY <2>2, <2>6, ReportFields, WinsAndLosses
  <2>7. ASSUME Trades # <<>>
        PROVE  /\ \A i \in DOMAIN curve, j \in DOMAIN curve :
                    i < j /\ Below(Zero, curve[i]) /\ AtMost(Zero, curve[j]) =>
                      AtMost(Over(Minus(curve[i], curve[j]), curve[i]), Metrics.drawdown)
               /\ Metrics.drawdown # Zero => \E i, j \in DOMAIN curve :
                    i < j /\ Below(Zero, curve[i])
                    /\ Over(Minus(curve[i], curve[j]), curve[i]) = Metrics.drawdown
    <3>1. Metrics.drawdown = MaxDrawdown(curve) /\ DOMAIN curve = 1..Len(curve) /\ Len(curve) \in Nat
      BY <2>1, <2>7, ReportFields
    <3>2. CASE Len(curve) < 2
      <4>1. MaxDrawdown(curve) = Zero
        BY <3>2 DEF MaxDrawdown
      <4>2. \A i, j \in DOMAIN curve : ~(i < j)
        BY <3>1, <3>2
      <4> QED BY <3>1, <4>1, <4>2
    <3>3. CASE Len(curve) > 1
      <4>1. PICK seen : MaxDrawdown(curve) = seen.dd /\ SeenHolds(seen, curve, Len(curve))
        BY <2>1, <3>3, DrawdownIsDeepest
      <4> QED BY <3>1, <4>1 DEF SeenHolds, IsFall
    <3> QED BY <3>1, <3>2, <3>3
  <2>8. Trades # <<>> => Metrics.final = account.cash
    BY <2>3, ReportFields
  <2> QED BY <2>4, <2>5, <2>6, <2>7, <2>8 DEF ReportIsTrue
<1>2. BacktestIInv => ReportIsTrue
  BY <1>1 DEF ReportIsTrue
<1> QED BY <1>2, BacktestKeeps, PTL

-----------------------------------------------------------------------------
(* What rounding does to the order of numbers *)

\* The number that is nearest to n over d: no more than a half away, and exactly
\* a half only if it is even.
IsNearest(k, n, d) ==
    /\ k \in Int
    /\ (2 * k - 1) * d <= 2 * n /\ 2 * n <= (2 * k + 1) * d
    /\ (2 * k - 1) * d = 2 * n \/ 2 * n = (2 * k + 1) * d => k % 2 = 0

LEMMA NearestBounds ==
    ASSUME NEW n \in Int, NEW d \in Nat \ {0}
    PROVE  IsNearest(Nearest(n, d), n, d)
<1> DEFINE q == n \div d
           r == n % d
<1>1. q \in Int /\ r \in Nat /\ n = d * q + r /\ r < d
  BY Remainder
<1>2. Nearest(n, d) = q + (IF 2 * r > d \/ (2 * r = d /\ q % 2 = 1) THEN 1 ELSE 0)
  BY DEF Nearest
<1>3. q % 2 \in {0, 1} /\ (q % 2 = 1 => (q + 1) % 2 = 0)
  BY <1>1
<1> HIDE DEF q, r
<1> DEFINE p == d * q
<1>4. /\ p \in Int /\ 2 * n = 2 * p + 2 * r
      /\ (2 * q - 1) * d = 2 * p - d /\ (2 * q + 1) * d = 2 * p + d
      /\ (2 * (q + 1) - 1) * d = 2 * p + d /\ (2 * (q + 1) + 1) * d = 2 * p + 3 * d
  BY <1>1
<1> HIDE DEF p
<1>5. CASE 2 * r > d
  BY <1>1, <1>2, <1>4, <1>5 DEF IsNearest
<1>6. CASE 2 * r = d
  BY <1>1, <1>2, <1>3, <1>4, <1>6 DEF IsNearest
<1>7. CASE 2 * r < d
  BY <1>1, <1>2, <1>4, <1>7 DEF IsNearest
<1> QED BY <1>1, <1>5, <1>6, <1>7

\* What is not larger is not larger when both are rounded.
LEMMA NearestMonotone ==
    ASSUME NEW n \in Int, NEW d \in Nat \ {0}, NEW m \in Int, NEW e \in Nat \ {0},
           n * e <= m * d
    PROVE  Nearest(n, d) <= Nearest(m, e)
<1> DEFINE j == Nearest(n, d)
           k == Nearest(m, e)
<1>1. IsNearest(j, n, d) /\ IsNearest(k, m, e)
  BY NearestBounds
<1> HIDE DEF j, k
<1>2. j \in Int /\ k \in Int
  BY <1>1 DEF IsNearest
<1>3. SUFFICES ASSUME k + 1 <= j PROVE FALSE
  BY <1>2 DEF j, k
<1> DEFINE u == (2 * j - 1) * d
           v == (2 * k + 1) * e
           a == (2 * j - 1) * (d * e)
           b == (2 * k + 1) * (d * e)
<1>4. u \in Int /\ v \in Int /\ a \in Int /\ b \in Int /\ u * e = a /\ v * d = b /\ u <= 2 * n /\ 2 * m <= v
  BY <1>1, <1>2 DEF IsNearest
<1>5. d * e \in Nat \ {0}
  OBVIOUS
<1>6. a >= b /\ (a = b => j = k + 1)
  <2> DEFINE c == d * e
             i == 2 * (j - k - 1)
  <2>1. a = b + i * c /\ i \in Nat
    BY <1>2, <1>3
  <2>2. i * c \in Nat /\ (i * c = 0 => i = 0)
    <3> HIDE DEF i, c
    <3>1. c \in Nat \ {0}
      BY <1>5 DEF c
    <3> QED BY <2>1, <3>1
  <2>3. i = 0 => j = k + 1
    BY <1>2
  <2> HIDE DEF i, c, a, b
  <2> QED BY <1>4, <2>1, <2>2, <2>3
<1>7. u * e <= 2 * (n * e) /\ 2 * (m * d) <= v * d
  <2>1. u * e <= (2 * n) * e /\ (2 * m) * d <= v * d
    <3> HIDE DEF u, v
    <3> QED BY <1>4
  <2>2. (2 * n) * e = 2 * (n * e) /\ (2 * m) * d = 2 * (m * d)
    OBVIOUS
  <2> QED BY <2>1, <2>2
<1> DEFINE x == n * e
           y == m * d
<1>8. x \in Int /\ y \in Int /\ x <= y /\ a <= 2 * x /\ 2 * y <= b
  BY <1>4, <1>7
<1>9. a = b /\ a = 2 * x /\ b = 2 * y /\ j = k + 1
  <2> HIDE DEF a, b, x, y
  <2> QED BY <1>4, <1>6, <1>8
<1>10. u = 2 * n /\ 2 * m = v
  <2>1. u * e = (2 * n) * e /\ (2 * m) * d = v * d
    <3>1. (2 * n) * e = 2 * x /\ (2 * m) * d = 2 * y
      OBVIOUS
    <3> HIDE DEF a, b, x, y, u, v
    <3> QED BY <1>4, <1>9, <3>1
  <2> DEFINE w == 2 * n
             z == 2 * m
  <2>2. w \in Int /\ z \in Int /\ u * e = w * e /\ z * d = v * d
    BY <2>1
  <2> HIDE DEF u, v, w, z
  <2>3. u = w /\ z = v
    BY <1>4, <2>2, Cancel
  <2> QED BY <2>3 DEF w, z
<1>11. j % 2 = 0 /\ k % 2 = 0
  BY <1>1, <1>10 DEF IsNearest
<1> QED BY <1>2, <1>9, <1>11

\* A rounded number is a number of steps of the grid.
LEMMA RoundedValue ==
    ASSUME NEW x \in Rationals, NEW g \in Nat \ {0}
    PROVE  /\ Steps(x, g) \in Rationals
           /\ Value(Steps(x, g), Steps(x, g)[1], Steps(x, g)[2])
           /\ IsNearest(Nearest(Steps(x, g)[1], Steps(x, g)[2]), Steps(x, g)[1], Steps(x, g)[2])
           /\ Value(Rounded(x, g), Nearest(Steps(x, g)[1], Steps(x, g)[2]), g)
           /\ Rounded(x, g) \in Rationals
<1> DEFINE s == Steps(x, g)
           k == Nearest(s[1], s[2])
<1>1. s \in Rationals
  <2>1. Whole(g) \in Rationals
    BY WholeValue DEF Value
  <2> QED BY <2>1, Closure DEF Steps
<1>2. Rounded(x, g) = Frac(k, g)
  BY DEF Rounded
<1> HIDE DEF s
<1>3. s[1] \in Int /\ s[2] \in Nat \ {0} /\ Value(s, s[1], s[2])
  BY <1>1, RationalParts
<1>4. IsNearest(k, s[1], s[2])
  BY <1>3, NearestBounds
<1>5. k \in Int
  BY <1>4 DEF IsNearest
<1> HIDE DEF k
<1>6. Value(Frac(k, g), k, g)
  BY <1>5, FracValue
<1> QED BY <1>1, <1>2, <1>3, <1>4, <1>6 DEF s, k, Value

\* What lies above another number after rounding lay above it before.
LEMMA RoundedMonotone ==
    ASSUME NEW x \in Rationals, NEW y \in Rationals, NEW g \in Nat \ {0},
           Below(Rounded(x, g), Rounded(y, g))
    PROVE  Below(x, y)
<1> SUFFICES ASSUME AtMost(y, x) PROVE FALSE
  BY OrderLaws
<1> DEFINE s == Steps(x, g)
           t == Steps(y, g)
           j == Nearest(s[1], s[2])
           k == Nearest(t[1], t[2])
<1>1. PICK a \in Int, b \in Nat \ {0}, c \in Int, d \in Nat \ {0} : Value(x, a, b) /\ Value(y, c, d)
  BY RationalParts
<1>2. Value(s, a * g, b * 1) /\ Value(t, c * g, d * 1)
  <2>1. Value(Whole(g), g, 1)
    BY WholeValue
  <2> QED BY <1>1, <2>1, TimesValue DEF Steps
<1>3. /\ s \in Rationals /\ Value(s, s[1], s[2]) /\ Value(Rounded(x, g), j, g)
      /\ t \in Rationals /\ Value(t, t[1], t[2]) /\ Value(Rounded(y, g), k, g)
  BY RoundedValue
<1>4. c * b <= a * d
  BY <1>1, AtMostValue
<1> HIDE DEF s, t
<1>5. (c * g) * (b * 1) <= (a * g) * (d * 1)
  <2>1. (c * b) * g <= (a * d) * g
    <3> DEFINE u == c * b
               v == a * d
    <3>1. u \in Int /\ v \in Int /\ u <= v
      BY <1>1, <1>4
    <3> HIDE DEF u, v
    <3>2. u * g <= v * g
      BY <3>1
    <3> QED BY <3>2 DEF u, v
  <2>2. (c * g) * (b * 1) = (c * b) * g /\ (a * g) * (d * 1) = (a * d) * g
    BY <1>1
  <2> QED BY <2>1, <2>2
<1>6. AtMost(t, s)
  BY <1>2, <1>5, AtMostValue
<1>7. t[1] * s[2] <= s[1] * t[2]
  BY <1>3, <1>6, AtMostValue
<1>8. k <= j
  BY <1>3, <1>7, NearestMonotone, RationalParts
<1>9. j * g < k * g /\ j \in Int /\ k \in Int
  BY <1>3, BelowValue DEF Value
<1> HIDE DEF j, k
<1> QED BY <1>8, <1>9

\* Whole numbers stay what they are.
LEMMA RoundedWhole ==
    ASSUME NEW n \in Int, NEW g \in Nat \ {0}
    PROVE  Rounded(Whole(n), g) = Whole(n)
<1> DEFINE s == Steps(Whole(n), g)
           k == Nearest(s[1], s[2])
           a == s[1]
           b == s[2]
           m == n * g
<1>1. Value(Whole(n), n, 1) /\ Whole(n) \in Rationals
  BY WholeValue DEF Value
<1>2. /\ s \in Rationals /\ Value(s, a, b) /\ Value(Rounded(Whole(n), g), k, g)
      /\ IsNearest(k, a, b)
  BY <1>1, RoundedValue
<1>3. Value(s, n * g, 1 * 1)
  BY <1>1, WholeValue, TimesValue DEF Steps
<1>4. a * (1 * 1) = (n * g) * b /\ a \in Int /\ b \in Nat \ {0}
  BY <1>2, <1>3, ValueIsOne, RationalParts
<1> HIDE DEF s, a, b, k
<1>5. a = m * b /\ m \in Int
  BY <1>4
<1> HIDE DEF m
<1>6. k \in Int /\ (2 * k - 1) * b <= 2 * a /\ 2 * a <= (2 * k + 1) * b
  BY <1>2 DEF IsNearest
<1>7. (2 * k - 1 - 2 * m) * b <= 0 /\ 0 <= (2 * k + 1 - 2 * m) * b
  <2>1. /\ (2 * k - 1 - 2 * m) * b = (2 * k - 1) * b - 2 * (m * b)
        /\ (2 * k + 1 - 2 * m) * b = (2 * k + 1) * b - 2 * (m * b)
    BY <1>4, <1>5, <1>6
  <2> DEFINE u == (2 * k - 1) * b
             v == (2 * k + 1) * b
  <2>2. u \in Int /\ v \in Int /\ u <= 2 * a /\ 2 * a <= v
    BY <1>4, <1>6
  <2> HIDE DEF u, v
  <2>3. u - 2 * a <= 0 /\ 0 <= v - 2 * a
    BY <1>4, <2>2
  <2> QED BY <1>5, <2>1, <2>3 DEF u, v
<1> DEFINE i == k - m
<1>8. i \in Int /\ (2 * i - 1) * b <= 0 /\ 0 <= (2 * i + 1) * b
  BY <1>5, <1>6, <1>7
<1>9. i = 0
  <2> HIDE DEF i
  <2>1. CASE i > 0
    BY <1>4, <1>8, <2>1
  <2>2. CASE i < 0
    <3>1. -(2 * i + 1) > 0 /\ -(2 * i + 1) \in Nat
      BY <1>8, <2>2
    <3>2. (-(2 * i + 1)) * b > 0
      BY <1>4, <3>1
    <3>3. (-(2 * i + 1)) * b = -((2 * i + 1) * b)
      BY <1>4, <1>8
    <3> QED BY <1>4, <1>8, <3>2, <3>3
  <2> QED BY <1>8, <2>1, <2>2
<1>10. k = m
  BY <1>5, <1>6, <1>9
<1>11. k * 1 = n * g
  BY <1>10 DEF m
<1> QED BY <1>1, <1>2, <1>11, SameValue

\* A hundred times a rounded number is at most fifty steps of the grid above the exact one.
LEMMA RoundedNear ==
    ASSUME NEW x \in Rationals, NEW g \in Nat \ {0}
    PROVE  AtMost(Times(Whole(100), Rounded(x, g)), Plus(Times(Whole(100), x), Frac(50, g)))
<1> DEFINE s == Steps(x, g)
           k == Nearest(s[1], s[2])
           p == s[1]
           q == s[2]
<1>1. PICK a \in Int, b \in Nat \ {0} : Value(x, a, b)
  BY RationalParts
<1>2. /\ s \in Rationals /\ Value(s, p, q) /\ Value(Rounded(x, g), k, g)
      /\ IsNearest(k, p, q)
  BY RoundedValue
<1>3. Value(s, a * g, b * 1)
  <2>1. Value(Whole(g), g, 1)
    BY WholeValue
  <2> QED BY <1>1, <2>1, TimesValue DEF Steps
<1>4. p * (b * 1) = (a * g) * q /\ p \in Int /\ q \in Nat \ {0}
  BY <1>2, <1>3, ValueIsOne, RationalParts
<1> HIDE DEF s, p, q, k
<1>5. k \in Int /\ (2 * k - 1) * q <= 2 * p
  BY <1>2 DEF IsNearest
<1> DEFINE c == a * g
<1>6. (2 * k - 1) * b <= 2 * c
  <2>1. c \in Int /\ p * b = c * q
    BY <1>1, <1>4
  <2> HIDE DEF c
  <2>2. ((2 * k - 1) * q) * b <= (2 * p) * b
    <3> DEFINE u == (2 * k - 1) * q
    <3>1. u \in Int /\ u <= 2 * p
      BY <1>4, <1>5
    <3> HIDE DEF u
    <3>2. u * b <= (2 * p) * b
      BY <1>1, <1>4, <3>1
    <3> QED BY <3>2 DEF u
  <2>3. ((2 * k - 1) * q) * b = ((2 * k - 1) * b) * q /\ (2 * p) * b = (2 * c) * q
    <3>1. ((2 * k - 1) * q) * b = ((2 * k - 1) * b) * q
      BY <1>1, <1>4, <1>5
    <3>2. (2 * p) * b = 2 * (p * b) /\ (2 * c) * q = 2 * (c * q)
      BY <1>1, <1>4, <2>1
    <3> QED BY <2>1, <3>1, <3>2
  <2> DEFINE u == (2 * k - 1) * b
             v == 2 * c
  <2>4. u \in Int /\ v \in Int /\ u * q <= v * q
    BY <1>1, <1>5, <2>1, <2>2, <2>3
  <2> HIDE DEF u, v
  <2>5. u <= v
    <3> SUFFICES ASSUME u - v > 0 PROVE FALSE
      BY <2>4
    <3> DEFINE w == u - v
    <3>1. w \in Nat \ {0} /\ w * q = u * q - v * q
      BY <1>4, <2>4
    <3>2. w * q > 0
      <4> HIDE DEF w
      <4> QED BY <1>4, <3>1
    <3> QED BY <1>4, <2>4, <3>1, <3>2
  <2> QED BY <2>5 DEF u, v
<1>7. /\ Value(Times(Whole(100), Rounded(x, g)), 100 * k, 1 * g)
      /\ Value(Plus(Times(Whole(100), x), Frac(50, g)), (100 * a) * g + 50 * (1 * b), (1 * b) * g)
  <2>1. Value(Whole(100), 100, 1) /\ Value(Frac(50, g), 50, g)
    BY WholeValue, FracValue
  <2>2. Value(Times(Whole(100), x), 100 * a, 1 * b)
    BY <1>1, <2>1, TimesValue
  <2> QED BY <1>2, <2>1, <2>2, TimesValue, PlusValue
<1>8. (100 * k) * ((1 * b) * g) <= ((100 * a) * g + 50 * (1 * b)) * (1 * g)
  <2> DEFINE u == k * b
  <2>1. u \in Int /\ c \in Int /\ (2 * k - 1) * b = 2 * u - b
    BY <1>1, <1>5
  <2>2. (100 * k) * ((1 * b) * g) = (100 * u) * g
    BY <1>1, <1>5
  <2>3. ((100 * a) * g + 50 * (1 * b)) * (1 * g) = (100 * c + 50 * b) * g
    BY <1>1
  <2> HIDE DEF u, c
  <2> DEFINE y == 100 * u
             z == 100 * c + 50 * b
  <2>4. y \in Int /\ z \in Int /\ y <= z
    BY <1>1, <1>6, <2>1
  <2> HIDE DEF y, z
  <2>5. y * g <= z * g
    BY <2>4
  <2> QED BY <2>2, <2>3, <2>5 DEF y, z
<1> QED BY <1>7, <1>8, AtMostValue

-----------------------------------------------------------------------------
(* Averages are fractions *)

\* What a fraction is divided by must be positive.
LEMMA OverTyped ==
    ASSUME NEW x \in Rationals, NEW y, Positive(y)
    PROVE  Over(x, y) \in Rationals
<1>1. PICK a \in Int, b \in Nat \ {0}, c \in Int, d \in Nat \ {0} :
        Value(x, a, b) /\ Value(y, c, d)
  BY RationalParts DEF Positive
<1>2. c > 0
  BY <1>1, PositiveParts
<1>3. Value(Over(x, y), a * d, b * c)
  BY <1>1, <1>2, OverValue
<1> QED BY <1>3 DEF Value

\* A count that is not zero.
LEMMA WholePositive ==
    ASSUME NEW n \in Nat \ {0}
    PROVE  Positive(Whole(n))
<1>1. Value(Whole(n), n, 1)
  BY WholeValue
<1> QED BY <1>1, PositiveParts

\* A mean.
LEMMA MeanTyped ==
    ASSUME NEW s \in Seq(Rationals), Len(s) > 0
    PROVE  Mean(s) \in Rationals
<1>1. Positive(Whole(Len(s)))
  <2>1. Len(s) \in Nat \ {0}
    OBVIOUS
  <2> QED BY <2>1, WholePositive
<1> QED BY <1>1, TotalTyped, OverTyped DEF Mean

\* A part of a list, and its end.
LEMMA PartTyped ==
    ASSUME NEW S, NEW s \in Seq(S), NEW m \in Nat, NEW n \in Nat, m >= 1, n <= Len(s), m <= n + 1
    PROVE  SubSeq(s, m, n) \in Seq(S) /\ Len(SubSeq(s, m, n)) = n + 1 - m
<1>1. \A i \in m..n : s[i] \in S
  OBVIOUS
<1> QED BY <1>1, SubSeqProperties

LEMMA NewestTyped ==
    ASSUME NEW s \in Seq(Rationals), NEW n \in Nat \ {0}, n <= Len(s)
    PROVE  Newest(s, n) \in Seq(Rationals) /\ Len(Newest(s, n)) = n
<1> DEFINE e == Len(s)
           m == e - n + 1
<1>1. m \in Nat /\ e \in Nat /\ m >= 1 /\ m <= e + 1 /\ e <= Len(s) /\ e + 1 - m = n
  OBVIOUS
<1>2. SubSeq(s, m, e) = Newest(s, n)
  BY DEF Newest
<1> HIDE DEF e, m
<1>3. SubSeq(s, m, e) \in Seq(Rationals) /\ Len(SubSeq(s, m, e)) = e + 1 - m
  BY <1>1, PartTyped
<1> QED BY <1>1, <1>2, <1>3

\* What is kept of the first n prices, for every n.
Keeps(f, s) ==
    /\ f \in [0..Len(s) -> Seq(Rationals)] /\ f[0] = <<>>
    /\ \A n \in 1..Len(s) :
         f[n] = IF Below(Zero, s[n]) THEN Append(f[n - 1], s[n]) ELSE f[n - 1]

\* What _validate_prices keeps is the last of them.
LEMMA CleanedKeeps ==
    ASSUME NEW s \in Seq(Rationals)
    PROVE  \E f : Keeps(f, s) /\ Cleaned(s) = f[Len(s)]
<1> DEFINE L == Len(s)
           V == Seq(Rationals)
           Step(n, w) == IF Below(Zero, s[n]) THEN Append(w, s[n]) ELSE w
           G == [p \in (1..L) \X V |-> Step(p[1], p[2])]
           Good(f) == f = [n \in 0..L |-> IF n = 0 THEN <<>> ELSE Step(n, f[n - 1])]
<1>1. L \in Nat /\ \A n \in 1..L : s[n] \in Rationals
  OBVIOUS
<1>2. <<>> \in V
  OBVIOUS
<1>3. ASSUME NEW n \in 1..L, NEW w \in V PROVE G[<<n, w>>] = Step(n, w) /\ Step(n, w) \in V
  <2>1. Append(w, s[n]) \in Seq(Rationals)
    BY <1>1, AppendProperties
  <2> QED BY <2>1
<1>4. StepsIn(G, L, V)
  BY <1>3 DEF StepsIn
<1> HIDE DEF L, V, Step, G
<1>5. PICK f : Iterates(f, G, L, V, <<>>)
  BY <1>1, <1>2, <1>4, RecursionExists
<1>6. Good(f)
  <2>1. ASSUME NEW n \in 0..L
        PROVE  f[n] = IF n = 0 THEN <<>> ELSE Step(n, f[n - 1])
    <3>1. CASE n = 0
      BY <1>1, <1>5, <3>1 DEF Iterates
    <3>2. CASE n # 0
      <4>1. n \in 1..L /\ n - 1 \in 0..L
        BY <1>1, <3>2
      <4>2. f[n] = G[<<n, f[n - 1]>>] /\ f[n - 1] \in V
        BY <1>5, <4>1, <3>2 DEF Iterates
      <4> QED BY <4>1, <4>2, <1>3, <3>2
    <3> QED BY <3>1, <3>2
  <2> QED BY <2>1, <1>5 DEF Iterates
<1> DEFINE g == CHOOSE h : Good(h)
<1>7. Cleaned(s) = g[L]
  BY DEF Cleaned, L, Step
<1>8. Good(g)
  <2> HIDE DEF Good
  <2> QED BY <1>6
<1> HIDE DEF g
<1>9. \A n \in 0..L : /\ g[n] = IF n = 0 THEN <<>> ELSE Step(n, g[n - 1])
                      /\ f[n] = IF n = 0 THEN <<>> ELSE Step(n, f[n - 1])
  BY <1>6, <1>8
<1> DEFINE T == {n \in Nat : n <= L => g[n] = f[n]}
<1>10. 0 \in T
  BY <1>1, <1>9
<1>11. ASSUME NEW n \in Nat, n \in T PROVE n + 1 \in T
  <2> SUFFICES ASSUME n + 1 <= L PROVE g[n + 1] = f[n + 1]
    OBVIOUS
  <2>1. n + 1 \in 0..L /\ n + 1 # 0 /\ n + 1 - 1 = n /\ n <= L
    BY <1>1
  <2> QED BY <1>9, <1>11, <2>1
<1>12. L \in T
  <2> HIDE DEF T
  <2> QED BY <1>1, <1>10, <1>11, Induction
<1>13. Keeps(f, s)
  <2>1. f \in [0..L -> V] /\ f[0] = <<>>
    BY <1>1, <1>5, <1>9 DEF Iterates
  <2>2. ASSUME NEW n \in 1..L PROVE f[n] = Step(n, f[n - 1])
    <3>1. n \in 0..L /\ n # 0
      BY <1>1
    <3> QED BY <1>9, <3>1
  <2> QED BY <2>1, <2>2 DEF Keeps, L, V, Step
<1> QED BY <1>1, <1>7, <1>12, <1>13 DEF L

\* All of them, if all are positive.
LEMMA CleanedTyped ==
    ASSUME NEW s \in Seq(Rationals)
    PROVE  /\ Cleaned(s) \in Seq(Rationals)
           /\ (\A n \in 1..Len(s) : Positive(s[n])) => Len(Cleaned(s)) = Len(s)
<1> DEFINE L == Len(s)
<1>1. PICK f : Keeps(f, s) /\ Cleaned(s) = f[L]
  BY CleanedKeeps
<1>2. L \in Nat
  OBVIOUS
<1>3. /\ f \in [0..L -> Seq(Rationals)] /\ f[0] = <<>>
      /\ \A n \in 1..L : f[n] = IF Below(Zero, s[n]) THEN Append(f[n - 1], s[n]) ELSE f[n - 1]
  BY <1>1 DEF Keeps
<1>4. \A n \in 1..L : s[n] \in Rationals
  OBVIOUS
<1> HIDE DEF L
<1>5. ASSUME \A n \in 1..L : Positive(s[n]) PROVE Len(f[L]) = L
  <2> DEFINE T == {n \in Nat : n <= L => Len(f[n]) = n}
  <2>1. 0 \in T
    <3>1. Len(<<>>) = 0
      OBVIOUS
    <3> QED BY <1>3, <3>1
  <2>2. ASSUME NEW n \in Nat, n \in T PROVE n + 1 \in T
    <3> SUFFICES ASSUME n + 1 <= L PROVE Len(f[n + 1]) = n + 1
      OBVIOUS
    <3>1. n + 1 \in 1..L /\ n + 1 - 1 = n /\ n <= L /\ n \in 0..L
      BY <1>2
    <3>2. f[n] \in Seq(Rationals) /\ Len(f[n]) = n
      BY <1>3, <2>2, <3>1
    <3>3. Below(Zero, s[n + 1]) /\ s[n + 1] \in Rationals
      BY <1>4, <1>5, <3>1 DEF Positive
    <3>4. f[n + 1] = Append(f[n], s[n + 1])
      <4>1. f[n + 1] = IF Below(Zero, s[n + 1]) THEN Append(f[n + 1 - 1], s[n + 1]) ELSE f[n + 1 - 1]
        BY <1>3, <3>1
      <4> QED BY <3>1, <3>3, <4>1
    <3>5. Len(Append(f[n], s[n + 1])) = Len(f[n]) + 1
      BY <3>2, <3>3, AppendProperties
    <3> QED BY <3>2, <3>4, <3>5
  <2>3. L \in T
    <3> HIDE DEF T
    <3> QED BY <1>2, <2>1, <2>2, Induction
  <2> QED BY <1>2, <2>3
<1>6. L \in 0..L
  BY <1>2
<1> QED BY <1>1, <1>3, <1>5, <1>6 DEF L

\* The first n steps of an average that starts from the mean of the first values.
Eases(f, p, span) ==
    /\ f \in [0..(Len(p) - span) -> Rationals] /\ f[0] = Mean(SubSeq(p, 1, span))
    /\ \A n \in 1..(Len(p) - span) :
         f[n] = Plus(f[n - 1], Times(Minus(p[span + n], f[n - 1]), Frac(2, span + 1)))

\* compute_ema is the last of them.
LEMMA SmoothedEases ==
    ASSUME NEW p \in Seq(Rationals), NEW span \in Nat \ {0}, span <= Len(p)
    PROVE  \E f : Eases(f, p, span) /\ Smoothed(p, span) = f[Len(p) - span]
<1> DEFINE L == Len(p) - span
           V == Rationals
           v == Mean(SubSeq(p, 1, span))
           c == Frac(2, span + 1)
           Step(n, w) == Plus(w, Times(Minus(p[span + n], w), c))
           G == [q \in (1..L) \X V |-> Step(q[1], q[2])]
           Good(f) == f = [n \in 0..L |-> IF n = 0 THEN v ELSE Step(n, f[n - 1])]
<1>1. L \in Nat /\ \A n \in 1..L : p[span + n] \in Rationals
  OBVIOUS
<1>2. v \in V
  <2>1. /\ SubSeq(p, 1, span) \in Seq(Rationals) /\ Len(SubSeq(p, 1, span)) = span + 1 - 1
    BY PartTyped
  <2>2. Len(SubSeq(p, 1, span)) > 0
    BY <2>1
  <2> QED BY <2>1, <2>2, MeanTyped
<1>3. c \in Rationals
  BY FracParts
<1>4. ASSUME NEW n \in 1..L, NEW w \in V PROVE G[<<n, w>>] = Step(n, w) /\ Step(n, w) \in V
  <2>1. Step(n, w) \in V
    <3>1. Minus(p[span + n], w) \in Rationals
      BY <1>1, Closure
    <3>2. Times(Minus(p[span + n], w), c) \in Rationals
      BY <1>3, <3>1, Closure
    <3> HIDE DEF c
    <3> QED BY <3>2, Closure
  <2> HIDE DEF Step
  <2> QED BY <2>1
<1>5. StepsIn(G, L, V)
  BY <1>4 DEF StepsIn
<1> HIDE DEF L, V, Step, G, v, c
<1>6. PICK f : Iterates(f, G, L, V, v)
  BY <1>1, <1>2, <1>5, RecursionExists
<1>7. Good(f)
  <2>1. ASSUME NEW n \in 0..L
        PROVE  f[n] = IF n = 0 THEN v ELSE Step(n, f[n - 1])
    <3>1. CASE n = 0
      BY <1>1, <1>6, <3>1 DEF Iterates
    <3>2. CASE n # 0
      <4>1. n \in 1..L /\ n - 1 \in 0..L
        BY <1>1, <3>2
      <4>2. f[n] = G[<<n, f[n - 1]>>] /\ f[n - 1] \in V
        BY <1>6, <4>1, <3>2 DEF Iterates
      <4> QED BY <4>1, <4>2, <1>4, <3>2
    <3> QED BY <3>1, <3>2
  <2> QED BY <2>1, <1>6 DEF Iterates
<1> DEFINE g == CHOOSE h : Good(h)
<1>8. Smoothed(p, span) = g[L]
  BY DEF Smoothed, L, Step, v, c
<1>9. Good(g)
  <2> HIDE DEF Good
  <2> QED BY <1>7
<1> HIDE DEF g
<1>10. \A n \in 0..L : /\ g[n] = IF n = 0 THEN v ELSE Step(n, g[n - 1])
                       /\ f[n] = IF n = 0 THEN v ELSE Step(n, f[n - 1])
  BY <1>7, <1>9
<1> DEFINE T == {n \in Nat : n <= L => g[n] = f[n]}
<1>11. 0 \in T
  BY <1>1, <1>10
<1>12. ASSUME NEW n \in Nat, n \in T PROVE n + 1 \in T
  <2> SUFFICES ASSUME n + 1 <= L PROVE g[n + 1] = f[n + 1]
    OBVIOUS
  <2>1. n + 1 \in 0..L /\ n + 1 # 0 /\ n + 1 - 1 = n /\ n <= L
    BY <1>1
  <2> QED BY <1>10, <1>12, <2>1
<1>13. L \in T
  <2> HIDE DEF T
  <2> QED BY <1>1, <1>11, <1>12, Induction
<1>14. Eases(f, p, span)
  <2>1. f \in [0..L -> V] /\ f[0] = v
    BY <1>1, <1>6, <1>10 DEF Iterates
  <2>2. ASSUME NEW n \in 1..L PROVE f[n] = Step(n, f[n - 1])
    <3>1. n \in 0..L /\ n # 0
      BY <1>1
    <3> QED BY <1>10, <3>1
  <2> QED BY <2>1, <2>2 DEF Eases, L, V, Step, v, c
<1> QED BY <1>1, <1>8, <1>13, <1>14 DEF L

\* What is missing is no fraction.
Values == Rationals \cup {NoValue}

LEMMA NoValueIsNone == NoValue \notin Rationals
<1> SUFFICES ASSUME NoValue \in Rationals PROVE FALSE
  OBVIOUS
<1>1. NoValue[2] \in Nat \ {0}
  BY RationalParts
<1> QED BY <1>1 DEF NoValue

\* The average of prices that are enough for it.
LEMMA EmaTyped ==
    ASSUME NEW p \in Seq(Rationals), NEW span \in Nat \ {0}
    PROVE  IF Len(Cleaned(p)) < span + 1 THEN Ema(p, span) = NoValue ELSE Ema(p, span) \in Rationals
<1> DEFINE c == Cleaned(p)
<1>1. c \in Seq(Rationals) /\ Len(c) \in Nat
  BY CleanedTyped
<1>2. CASE Len(c) < span + 1
  BY <1>2 DEF Ema, EmaOf
<1>3. CASE ~(Len(c) < span + 1)
  <2> HIDE DEF c
  <2>1. PICK f : Eases(f, c, span) /\ Smoothed(c, span) = f[Len(c) - span]
    BY <1>1, <1>3, SmoothedEases
  <2>2. Len(c) - span \in 0..(Len(c) - span)
    BY <1>1, <1>3
  <2>3. Smoothed(c, span) \in Rationals
    BY <2>1, <2>2 DEF Eases
  <2>4. Ema(p, span) = Smoothed(c, span)
    BY <1>3 DEF Ema, EmaOf, c
  <2> QED BY <1>3, <2>3, <2>4 DEF c
<1> QED BY <1>2, <1>3

\* Sums of what is not negative.
LEMMA SumNotNegative ==
    ASSUME NEW x \in Rationals, NEW y \in Rationals, AtMost(Zero, x), AtMost(Zero, y)
    PROVE  /\ AtMost(Zero, Plus(x, y))
           /\ y # Zero => Positive(Plus(x, y))
<1>1. PICK a \in Int, b \in Nat \ {0}, c \in Int, d \in Nat \ {0} :
        Value(x, a, b) /\ Value(y, c, d)
  BY RationalParts
<1>2. Value(Zero, 0, 1)
  BY WholeValue DEF Zero
<1>3. Value(Plus(x, y), a * d + c * b, b * d)
  BY <1>1, PlusValue
<1>4. 0 * b <= a * 1 /\ 0 * d <= c * 1
  BY <1>1, <1>2, AtMostValue
<1>5. a * d >= 0 /\ c * b >= 0 /\ a * d \in Int /\ c * b \in Int
  BY <1>1, <1>4
<1>6. AtMost(Zero, Plus(x, y)) <=> 0 * (b * d) <= (a * d + c * b) * 1
  BY <1>2, <1>3, AtMostValue
<1>7. ASSUME y # Zero PROVE a * d + c * b > 0
  <2>1. c # 0
    <3> SUFFICES ASSUME c = 0 PROVE FALSE
      OBVIOUS
    <3>1. c * 1 = 0 * d
      BY <1>1
    <3> QED BY <1>1, <1>2, <1>7, <3>1, SameValue
  <2>2. c > 0
    BY <1>1, <1>4, <2>1
  <2>3. c * b > 0
    BY <1>1, <2>2
  <2> QED BY <1>5, <2>3
<1>8. Positive(Plus(x, y)) <=> a * d + c * b > 0
  BY <1>3, PositiveParts
<1>9. 0 * (b * d) = 0
  BY <1>1
<1> QED BY <1>5, <1>6, <1>7, <1>8, <1>9

LEMMA TotalNotNegative ==
    ASSUME NEW s \in Seq(Rationals), \A n \in 1..Len(s) : AtMost(Zero, s[n])
    PROVE  AtMost(Zero, Total(s))
<1> DEFINE L == Len(s)
<1>1. PICK f : Sums(f, s) /\ Total(s) = f[L]
  BY TotalSums
<1>2. L \in Nat /\ \A n \in 1..L : s[n] \in Rationals
  OBVIOUS
<1>3. f \in [0..L -> Rationals] /\ f[0] = Zero /\ \A n \in 1..L : f[n] = Plus(f[n - 1], s[n])
  BY <1>1 DEF Sums
<1> DEFINE T == {n \in Nat : n <= L => AtMost(Zero, f[n])}
<1>4. 0 \in T
  BY <1>3 DEF AtMost
<1>5. ASSUME NEW n \in Nat, n \in T PROVE n + 1 \in T
  <2> SUFFICES ASSUME n + 1 <= L PROVE AtMost(Zero, f[n + 1])
    OBVIOUS
  <2> HIDE DEF L
  <2>1. n + 1 \in 1..L /\ n + 1 - 1 = n /\ n <= L /\ n \in 0..L
    BY <1>2
  <2>2. f[n] \in Rationals /\ AtMost(Zero, f[n])
    BY <1>3, <1>5, <2>1
  <2>3. s[n + 1] \in Rationals /\ AtMost(Zero, s[n + 1])
    BY <1>2, <2>1 DEF L
  <2>4. f[n + 1] = Plus(f[n], s[n + 1])
    BY <1>3, <2>1
  <2> QED BY <2>2, <2>3, <2>4, SumNotNegative
<1>6. L \in T
  <2> HIDE DEF T, L
  <2> QED BY <1>2, <1>4, <1>5, Induction
<1> QED BY <1>1, <1>2, <1>6

-----------------------------------------------------------------------------
(* The indicators are fractions *)

\* What of a change counts as a rise, and as a fall: neither is negative.
Rise(x) == IF Below(Zero, x) THEN x ELSE Zero
Drop(x) == IF Below(x, Zero) THEN Neg(x) ELSE Zero

LEMMA RiseDrop ==
    ASSUME NEW x \in Rationals
    PROVE  /\ Rise(x) \in Rationals /\ AtMost(Zero, Rise(x))
           /\ Drop(x) \in Rationals /\ AtMost(Zero, Drop(x))
<1>1. Zero \in Rationals /\ Neg(x) \in Rationals /\ AtMost(Zero, Zero)
  BY Closure DEF AtMost
<1>2. Below(x, Zero) => AtMost(Zero, Neg(x))
  <2>1. PICK a \in Int, b \in Nat \ {0} : Value(x, a, b)
    BY RationalParts
  <2>2. Value(Zero, 0, 1) /\ Value(Neg(x), -a, b)
    BY <2>1, WholeValue, NegValue DEF Zero
  <2>3. Below(x, Zero) <=> a * 1 < 0 * b
    BY <2>1, <2>2, BelowValue
  <2>4. AtMost(Zero, Neg(x)) <=> 0 * b <= (-a) * 1
    BY <2>2, AtMostValue
  <2> QED BY <2>1, <2>3, <2>4
<1>3. Below(Zero, x) => AtMost(Zero, x)
  BY DEF AtMost
<1> QED BY <1>1, <1>2, <1>3 DEF Rise, Drop

\* And so are their sums.
LEMMA RisenTyped ==
    ASSUME NEW c \in Seq(Rationals)
    PROVE  /\ Risen(c) \in Rationals /\ AtMost(Zero, Risen(c))
           /\ Fallen(c) \in Rationals /\ AtMost(Zero, Fallen(c))
<1> DEFINE L == Len(c)
           r == [n \in 1..L |-> Rise(c[n])]
           s == [n \in 1..L |-> Drop(c[n])]
<1>1. L \in Nat /\ DOMAIN c = 1..L /\ \A n \in 1..L : c[n] \in Rationals
  OBVIOUS
<1>2. Risen(c) = Total(r) /\ Fallen(c) = Total(s)
  BY <1>1 DEF Risen, Fallen, Rise, Drop
<1> HIDE DEF L
<1>3. /\ \A n \in 1..L : r[n] \in Rationals /\ AtMost(Zero, r[n])
      /\ \A n \in 1..L : s[n] \in Rationals /\ AtMost(Zero, s[n])
  BY <1>1, RiseDrop
<1>4. r \in [1..L -> Rationals] /\ s \in [1..L -> Rationals]
  BY <1>3
<1> HIDE DEF r, s
<1>5. r \in Seq(Rationals) /\ Len(r) = L /\ s \in Seq(Rationals) /\ Len(s) = L
  BY <1>1, <1>4, ListOf
<1> QED BY <1>2, <1>3, <1>5, TotalTyped, TotalNotNegative

\* The RSI before it is rounded, of prices that are enough for it.
LEMMA StrengthTyped ==
    ASSUME NEW p \in Seq(Rationals), Len(p) >= RsiSpan + 1
    PROVE  Strength(p) \in Rationals
<1> DEFINE L == Len(p) - 1
           d == Changes(p)
           c == LatestChanges(p)
<1>1. RsiSpan \in Nat \ {0} /\ Len(p) \in Nat
  BY SpansAssumption
<1>2. L \in Nat /\ RsiSpan <= L /\ \A n \in 1..L : n \in 1..Len(p) /\ n + 1 \in 1..Len(p)
  BY <1>1
<1>3. d = [n \in 1..L |-> Minus(p[n + 1], p[n])]
  BY DEF Changes
<1> HIDE DEF d, L
<1>4. \A n \in 1..L : Minus(p[n + 1], p[n]) \in Rationals
  <2>1. \A n \in 1..Len(p) : p[n] \in Rationals
    OBVIOUS
  <2> QED BY <1>2, <2>1, Closure
<1>5. d \in Seq(Rationals) /\ Len(d) = L
  <2>1. d \in [1..L -> Rationals]
    BY <1>3, <1>4
  <2> QED BY <1>2, <2>1, ListOf
<1>6. c \in Seq(Rationals)
  BY <1>1, <1>2, <1>5, NewestTyped DEF LatestChanges, d
<1> HIDE DEF c
<1> DEFINE g == Risen(c)
           l == Fallen(c)
<1>7. g \in Rationals /\ AtMost(Zero, g) /\ l \in Rationals /\ AtMost(Zero, l)
  BY <1>6, RisenTyped
<1>8. Strength(p) = RelativeStrength(g, l)
  BY DEF Strength, c
<1> HIDE DEF g, l
<1>9. Whole(100) \in Rationals
  BY WholeValue DEF Value
<1>10. ASSUME l # Zero PROVE Times(Whole(100), Over(g, Plus(g, l))) \in Rationals
  <2>1. Positive(Plus(g, l))
    BY <1>7, <1>10, SumNotNegative
  <2>2. Over(g, Plus(g, l)) \in Rationals
    BY <1>7, <2>1, OverTyped
  <2> QED BY <1>9, <2>2, Closure
<1> QED BY <1>8, <1>9, <1>10 DEF RelativeStrength

\* The MACD, of as many prices as the longer average takes.
LEMMA MacdTyped ==
    ASSUME NEW p \in Seq(Prices), Len(p) > Slow
    PROVE  MacdLine(p) \in Rationals
<1>1. p \in Seq(Rationals) /\ \A n \in 1..Len(p) : Positive(p[n])
  BY DEF Prices, Positive
<1>2. Fast \in Nat \ {0} /\ Slow \in Nat \ {0} /\ Fast <= Slow
  BY SpansAssumption
<1>3. Len(Cleaned(p)) = Len(p) /\ Len(p) \in Nat
  BY <1>1, CleanedTyped
<1>4. ~(Len(Cleaned(p)) < Fast + 1) /\ ~(Len(Cleaned(p)) < Slow + 1)
  BY <1>2, <1>3
<1>5. Ema(p, Fast) \in Rationals /\ Ema(p, Slow) \in Rationals
  BY <1>1, <1>2, <1>4, EmaTyped
<1> QED BY <1>5, Closure DEF MacdLine

\* What the signal line is rounded from.
LEMMA AverageTyped ==
    ASSUME NEW p \in Seq(Prices)
    PROVE  /\ SeriesAverage(p) \in Values
           /\ SeriesAverage(p) # NoValue => Len(p) > Slow
<1> DEFINE L == Len(p) - Slow
           c == MacdSeries(p)
<1>1. SignalSpan \in Nat \ {0} /\ Slow \in Nat \ {0} /\ Len(p) \in Nat
  BY SpansAssumption
<1>2. CASE Len(p) < Slow + SignalSpan
  BY <1>2 DEF SeriesAverage, Values
<1>3. CASE ~(Len(p) < Slow + SignalSpan)
  <2>1. Len(p) > Slow
    BY <1>1, <1>3
  <2>2. L \in Nat /\ \A n \in 1..L : Slow + n \in Nat /\ Slow + n <= Len(p) /\ Slow + n > Slow /\ Slow + n >= 1
    BY <1>1, <2>1
  <2>3. c = [n \in 1..L |-> MacdLine(SubSeq(p, 1, Slow + n))]
    BY DEF MacdSeries
  <2> HIDE DEF c, L
  <2>4. ASSUME NEW n \in 1..L
        PROVE  MacdLine(SubSeq(p, 1, Slow + n)) \in Rationals
    <3> DEFINE k == Slow + n
               q == SubSeq(p, 1, k)
    <3>1. k \in Nat /\ k <= Len(p) /\ k > Slow /\ k >= 1
      BY <2>2
    <3> HIDE DEF k
    <3>2. q \in Seq(Prices) /\ Len(q) = k + 1 - 1
      BY <3>1, PartTyped
    <3>3. Len(q) > Slow
      BY <3>1, <3>2
    <3> HIDE DEF q
    <3>4. MacdLine(q) \in Rationals
      BY <3>2, <3>3, MacdTyped
    <3> QED BY <3>4 DEF q, k
  <2>5. c \in Seq(Rationals)
    <3>1. c \in [1..L -> Rationals]
      BY <2>3, <2>4
    <3> QED BY <2>2, <3>1, ListOf
  <2>6. Ema(c, SignalSpan) \in Values
    BY <1>1, <2>5, EmaTyped DEF Values
  <2> QED BY <1>3, <2>1, <2>6 DEF SeriesAverage, c
<1> QED BY <1>2, <1>3

\* Candles as they are quoted.
Quotes == [high : Prices, low : Prices, close : Prices, volume : {c.volume : c \in Candles}]

LEMMA CandlesAreQuotes == Candles \subseteq Quotes
<1> SUFFICES ASSUME NEW c \in Candles PROVE c \in Quotes
  OBVIOUS
<1>1. /\ c = [high |-> c.high, low |-> c.low, close |-> c.close, volume |-> c.volume]
      /\ \A field \in {"high", "low", "close"} : IsPositive(c[field])
  BY QuotesAssumption
<1>2. IsPositive(c["high"]) /\ IsPositive(c["low"]) /\ IsPositive(c["close"])
  BY <1>1
<1>3. c.high \in Prices /\ c.low \in Prices /\ c.close \in Prices
  BY <1>2, FractionsAreRational
<1> DEFINE h == c.high
           l == c.low
           k == c.close
           v == c.volume
<1>4. v \in {d.volume : d \in Candles}
  OBVIOUS
<1>5. c = [high |-> h, low |-> l, close |-> k, volume |-> v]
  BY <1>1
<1> HIDE DEF h, l, k, v
<1>6. [high |-> h, low |-> l, close |-> k, volume |-> v] \in Quotes
  BY <1>3, <1>4 DEF Quotes, h, l, k
<1> QED BY <1>5, <1>6

\* Their closes.
LEMMA ClosesTyped ==
    ASSUME NEW w \in Seq(Quotes)
    PROVE  Column(w, "close") \in Seq(Prices) /\ Len(Column(w, "close")) = Len(w)
<1> DEFINE L == Len(w)
           p == Column(w, "close")
<1>1. L \in Nat /\ DOMAIN w = 1..L /\ \A n \in 1..L : w[n] \in Quotes
  OBVIOUS
<1>2. p = [n \in 1..L |-> w[n].close]
  BY <1>1 DEF Column
<1>3. \A n \in 1..L : w[n].close \in Prices
  BY <1>1 DEF Quotes
<1> HIDE DEF p, L
<1>4. p \in [1..L -> Prices]
  BY <1>2, <1>3
<1>5. p \in Seq(Prices) /\ Len(p) = L
  BY <1>1, <1>4
<1> QED BY <1>5 DEF p, L

\* Distances, and the larger of two.
LEMMA ApartTyped ==
    ASSUME NEW x \in Rationals, NEW y \in Rationals
    PROVE  Apart(x, y) \in Rationals /\ Larger(x, y) \in Rationals
  BY Closure DEF Apart, Larger

\* The true range of a candle, and the mean of the latest ones.
LEMMA RangeTyped ==
    ASSUME NEW w \in Seq(Quotes), NEW n \in 2..Len(w)
    PROVE  TrueRange(w, n) \in Rationals
<1> DEFINE a == w[n]
           b == w[n - 1]
           h == a.high
           l == a.low
           k == b.close
<1>1. a \in Quotes /\ b \in Quotes
  <2>1. n \in 1..Len(w) /\ n - 1 \in 1..Len(w)
    OBVIOUS
  <2> QED BY <2>1
<1>2. h \in Rationals /\ l \in Rationals /\ k \in Rationals
  <2> HIDE DEF a, b
  <2> QED BY <1>1 DEF Quotes, Prices
<1>3. TrueRange(w, n) = Larger(Minus(h, l), Larger(Apart(h, k), Apart(l, k)))
  BY DEF TrueRange
<1> HIDE DEF h, l, k
<1>4. Minus(h, l) \in Rationals /\ Apart(h, k) \in Rationals /\ Apart(l, k) \in Rationals
  BY <1>2, Closure, ApartTyped
<1> QED BY <1>3, <1>4, ApartTyped

LEMMA MeanRangeTyped ==
    ASSUME NEW w \in Seq(Quotes), Len(w) >= AtrSpan + 1
    PROVE  MeanRange(w) \in Rationals
<1> DEFINE L == Len(w)
           r == [n \in 1..AtrSpan |-> TrueRange(w, L - AtrSpan + n)]
<1>1. AtrSpan \in Nat \ {0} /\ L \in Nat
  BY SpansAssumption
<1>2. ASSUME NEW n \in 1..AtrSpan PROVE TrueRange(w, L - AtrSpan + n) \in Rationals
  <2> DEFINE k == L - AtrSpan + n
  <2>1. k \in 2..Len(w)
    BY <1>1
  <2> HIDE DEF k
  <2>2. TrueRange(w, k) \in Rationals
    BY <2>1, RangeTyped
  <2> QED BY <2>2 DEF k
<1>3. r \in [1..AtrSpan -> Rationals]
  BY <1>2
<1>4. MeanRange(w) = Mean(r)
  BY DEF MeanRange
<1> HIDE DEF r
<1>5. r \in Seq(Rationals) /\ Len(r) = AtrSpan
  BY <1>1, <1>3, ListOf
<1> QED BY <1>1, <1>4, <1>5, MeanTyped

-----------------------------------------------------------------------------
(* What the rules decide *)

\* A rule's decision is sound on these candles if it is not sure, or is meant.
Decisions == [strategy : Strategies, direction : {"long", "short", "flat"}, confidence : Int]
SoundOn(w) == {d \in Decisions : d.confidence > 60 => IsMeant(w, d)}

\* The rules answer with one of what they found, or with nothing.
LEMMA SurestExists ==
    ASSUME NEW s \in Seq(Decisions), Len(s) > 0
    PROVE  \E n \in 1..Len(s) : \A m \in 1..Len(s) : s[m].confidence <= s[n].confidence
<1> DEFINE L == Len(s)
           c(n) == s[n].confidence
           T == {k \in Nat : k >= 1 /\ k <= L => \E n \in 1..k : \A m \in 1..k : c(m) <= c(n)}
<1>1. L \in Nat /\ L >= 1 /\ \A n \in 1..L : c(n) \in Int
  <2>1. \A n \in 1..L : s[n] \in Decisions
    OBVIOUS
  <2> QED BY <2>1 DEF Decisions
<1> HIDE DEF L, c
<1>2. 0 \in T
  OBVIOUS
<1>3. ASSUME NEW k \in Nat, k \in T PROVE k + 1 \in T
  <2> SUFFICES ASSUME k + 1 <= L PROVE \E n \in 1..(k + 1) : \A m \in 1..(k + 1) : c(m) <= c(n)
    OBVIOUS
  <2>1. CASE k = 0
    <3>1. c(1) <= c(1) /\ 1 \in 1..(k + 1) /\ \A m \in 1..(k + 1) : m = 1
      BY <1>1, <2>1
    <3> QED BY <3>1
  <2>2. CASE k # 0
    <3>1. PICK n \in 1..k : \A m \in 1..k : c(m) <= c(n)
      BY <1>1, <1>3, <2>2
    <3>2. c(n) \in Int /\ c(k + 1) \in Int /\ \A m \in 1..k : c(m) \in Int
      BY <1>1
    <3>3. \A m \in 1..(k + 1) : m = k + 1 \/ m \in 1..k
      OBVIOUS
    <3>4. CASE c(k + 1) <= c(n)
      <4>1. \A m \in 1..(k + 1) : c(m) <= c(n)
        BY <3>1, <3>3, <3>4
      <4> QED BY <4>1
    <3>5. CASE c(n) < c(k + 1)
      <4>1. \A m \in 1..(k + 1) : c(m) <= c(k + 1)
        BY <3>1, <3>2, <3>3, <3>5
      <4> QED BY <4>1
    <3> QED BY <3>2, <3>4, <3>5
  <2> QED BY <2>1, <2>2
<1>4. L \in T
  <2> HIDE DEF T
  <2> QED BY <1>1, <1>2, <1>3, Induction
<1> QED BY <1>1, <1>4 DEF L, c

LEMMA FirstIsFound ==
    ASSUME NEW S \in SUBSET Decisions, NEW found \in Seq(S), NEW asked, Neutral \in S
    PROVE  HintedFirst(found, asked) \in S
<1> DEFINE hinted == {n \in DOMAIN found : found[n].strategy = asked}
           surest == {n \in DOMAIN found : \A m \in DOMAIN found : found[m].confidence <= found[n].confidence}
           first == IF hinted # {} THEN hinted ELSE surest
<1>1. CASE found = <<>>
  BY <1>1 DEF HintedFirst
<1>2. CASE found # <<>>
  <2>1. Len(found) > 0 /\ DOMAIN found = 1..Len(found) /\ found \in Seq(Decisions)
    BY <1>2
  <2>2. surest # {}
    BY <2>1, SurestExists
  <2>3. first \in SUBSET (1..Len(found)) /\ first # {}
    BY <2>1, <2>2
  <2>4. HintedFirst(found, asked) = found[Min(first)]
    BY <1>2 DEF HintedFirst
  <2> HIDE DEF first
  <2>5. \E k \in first : \A n \in first : k <= n
    <3>1. first \in SUBSET Nat
      BY <2>3
    <3> QED BY <2>3, <3>1, LeastExists
  <2>6. Min(first) \in first
    BY <2>5 DEF Min
  <2> DEFINE n == Min(first)
  <2>7. n \in 1..Len(found) /\ HintedFirst(found, asked) = found[n]
    BY <2>3, <2>4, <2>6
  <2> HIDE DEF n
  <2>8. found[n] \in S
    BY <2>7
  <2> QED BY <2>7, <2>8
<1> QED BY <1>1, <1>2

\* The reversal of a move that is extreme when rounded was extreme before.
LEMMA ReversalIsMeant ==
    ASSUME NEW w \in Seq(Quotes), DetectMeanReversion(Rsi(Column(w, "close")))
    PROVE  MeanReversion(Rsi(Column(w, "close")), Below(Rsi(Column(w, "close")), Whole(30))) \in SoundOn(w)
<1> DEFINE p == Column(w, "close")
           q == Cleaned(p)
           x == Strength(q)
           rsi == Rsi(p)
           long == Below(rsi, Whole(30))
           d == MeanReversion(rsi, long)
<1>1. p \in Seq(Rationals)
  <2>1. p \in Seq(Prices)
    BY ClosesTyped
  <2>2. Prices \subseteq Rationals
    BY DEF Prices
  <2> HIDE DEF p
  <2> QED BY <2>1, <2>2
<1>2. q \in Seq(Rationals) /\ Len(q) \in Nat
  BY <1>1, CleanedTyped
<1>3. rsi # NoValue /\ (~long => Below(Whole(70), rsi))
  BY DEF DetectMeanReversion
<1>4. Len(q) >= RsiSpan + 1 /\ rsi = Rounded(x, 100)
  BY <1>2, <1>3, SpansAssumption DEF Rsi, RsiOf
<1> HIDE DEF q
<1>5. x \in Rationals
  BY <1>2, <1>4, StrengthTyped
<1> HIDE DEF x, rsi
<1>6. rsi \in Rationals
  BY <1>4, <1>5, RoundedValue
<1>7. \A n \in {2, 30, 55, 70, 100} : Whole(n) \in Rationals /\ Rounded(Whole(n), 100) = Whole(n)
  BY RoundedWhole, WholeValue DEF Value
<1>8. IF long THEN Below(x, Whole(30)) ELSE Below(Whole(70), x)
  <2>1. CASE long
    <3>1. Below(Rounded(x, 100), Rounded(Whole(30), 100)) /\ Whole(30) \in Rationals
      BY <1>4, <1>7, <2>1
    <3> QED BY <1>5, <2>1, <3>1, RoundedMonotone
  <2>2. CASE ~long
    <3>1. Below(Rounded(Whole(70), 100), Rounded(x, 100)) /\ Whole(70) \in Rationals
      BY <1>3, <1>4, <1>7, <2>2
    <3> QED BY <1>5, <2>2, <3>1, RoundedMonotone
  <2> QED BY <2>1, <2>2
<1>9. \A e \in Rationals : AtMost75(Extremity(e)) \in Int
  <2> SUFFICES ASSUME NEW e \in Rationals PROVE AtMost75(Extremity(e)) \in Int
    OBVIOUS
  <2>1. Minus(Whole(70), e) \in Rationals /\ Positive(Whole(2))
    <3>1. Whole(70) \in Rationals /\ Positive(Whole(2))
      BY <1>7, WholePositive
    <3> QED BY <3>1, Closure
  <2>2. Over(Minus(Whole(70), e), Whole(2)) \in Rationals
    BY <2>1, OverTyped
  <2> DEFINE sure == Extremity(e)
  <2>3. sure \in Rationals
    BY <1>7, <2>2, Closure DEF Extremity
  <2> HIDE DEF sure
  <2>4. sure[1] \div sure[2] \in Int
    BY <2>3, RationalParts, Remainder
  <2> QED BY <2>4 DEF AtMost75, sure
<1>10. Minus(Whole(100), rsi) \in Rationals
  BY <1>6, <1>7, Closure
<1>11. PICK c \in Int : d = Decision("mean_reversion", long, c)
  <2>1. CASE long
    BY <1>6, <1>9, <2>1 DEF MeanReversion
  <2>2. CASE ~long
    BY <1>9, <1>10, <2>2 DEF MeanReversion
  <2> QED BY <2>1, <2>2
<1> HIDE DEF d, long
<1>12. d \in Decisions /\ d.strategy = "mean_reversion" /\ (d.direction = "long" <=> long)
  BY <1>11 DEF Decision, Decisions, Strategies
<1>13. Reverses(p, d.direction = "long")
  BY <1>8, <1>12 DEF Reverses, x, q
<1> QED BY <1>12, <1>13 DEF SoundOn, IsMeant, d, long, rsi, p

\* A difference is positive where one number lies above the other.
LEMMA AboveIsPositive ==
    ASSUME NEW x \in Rationals, NEW y \in Rationals
    PROVE  /\ Below(Zero, Minus(x, y)) <=> Below(y, x)
           /\ Below(Minus(x, y), Zero) <=> Below(x, y)
<1>1. PICK a \in Int, b \in Nat \ {0}, c \in Int, d \in Nat \ {0} : Value(x, a, b) /\ Value(y, c, d)
  BY RationalParts
<1>2. Value(Zero, 0, 1) /\ Value(Minus(x, y), a * d - c * b, b * d)
  <2>1. Value(Zero, 0, 1)
    BY WholeValue DEF Zero
  <2>2. Value(Minus(x, y), a * d - c * b, b * d)
    BY <1>1, MinusValue
  <2> QED BY <2>1, <2>2
<1>3. /\ Below(Zero, Minus(x, y)) <=> 0 * (b * d) < (a * d - c * b) * 1
      /\ Below(Minus(x, y), Zero) <=> (a * d - c * b) * 1 < 0 * (b * d)
      /\ Below(y, x) <=> c * b < a * d
      /\ Below(x, y) <=> a * d < c * b
  BY <1>1, <1>2, BelowValue
<1> DEFINE u == a * d
           v == c * b
<1>4. u \in Int /\ v \in Int /\ 0 * (b * d) = 0 /\ (u - v) * 1 = u - v
  <2>1. u \in Int /\ v \in Int
    BY <1>1
  <2>2. 0 * (b * d) = 0
    BY <1>1
  <2> HIDE DEF u, v
  <2> QED BY <2>1, <2>2
<1> HIDE DEF u, v
<1>5. /\ Below(Zero, Minus(x, y)) <=> 0 < u - v
      /\ Below(Minus(x, y), Zero) <=> u - v < 0
      /\ Below(y, x) <=> v < u
      /\ Below(x, y) <=> u < v
  BY <1>3, <1>4 DEF u, v
<1> QED BY <1>4, <1>5

\* A histogram of one sign comes of a MACD on that side of its average.
LEMMA HistogramConfirms ==
    ASSUME NEW p \in Seq(Prices), Histogram(p) # NoValue, NEW isLong \in BOOLEAN,
           IF isLong THEN Below(Zero, Histogram(p)) ELSE Below(Histogram(p), Zero)
    PROVE  Confirms(p, isLong)
<1> DEFINE m == MacdLine(p)
           l == SeriesAverage(p)
           h == Histogram(p)
<1>1. l # NoValue
  BY DEF Histogram, AboveLine, SignalLine, RoundedLine
<1>2. l \in Rationals /\ m \in Rationals
  BY <1>1, AverageTyped, MacdTyped DEF Values
<1>3. Grid \in Nat \ {0}
  BY SpansAssumption
<1> DEFINE a == Rounded(l, Grid)
           b == Rounded(m, Grid)
<1>4. SignalLine(p) = a /\ Macd(p) = b
  BY <1>1 DEF SignalLine, RoundedLine, Macd
<1> HIDE DEF m, l
<1>5. a \in Rationals /\ b \in Rationals
  BY <1>2, <1>3, RoundedValue
<1> HIDE DEF a, b
<1>6. h = Minus(b, a)
  BY <1>4, <1>5, NoValueIsNone DEF Histogram, AboveLine
<1>7. IF isLong THEN Below(a, b) ELSE Below(b, a)
  BY <1>5, <1>6, AboveIsPositive
<1>8. IF isLong THEN Below(l, m) ELSE Below(m, l)
  BY <1>2, <1>3, <1>7, RoundedMonotone DEF a, b
<1> QED BY <1>1, <1>8 DEF Confirms, l, m

\* A market that is volatile when rounded moves, but for half a step.
LEMMA VolatileMoves ==
    ASSUME NEW w \in Seq(Quotes), Volatile(w)
    PROVE  Moves(w)
<1> DEFINE m == MeanRange(w)
           c == w[Len(w)].close
           a == Times(Whole(100), Rounded(m, Grid))
           b == Plus(Times(Whole(100), m), Frac(50, Grid))
<1>1. Grid \in Nat \ {0} /\ AtrSpan \in Nat \ {0}
  BY SpansAssumption
<1>2. Len(w) >= AtrSpan + 1 /\ Below(c, a)
  BY DEF Volatile
<1>3. m \in Rationals
  BY <1>2, MeanRangeTyped
<1>4. c \in Rationals
  <2> DEFINE n == Len(w)
  <2>1. n \in 1..Len(w)
    BY <1>1, <1>2
  <2> HIDE DEF n
  <2>2. w[n] \in Quotes
    BY <2>1
  <2> QED BY <2>2 DEF Quotes, Prices, n
<1> HIDE DEF m
<1>5. a \in Rationals /\ b \in Rationals
  <2>1. Whole(100) \in Rationals /\ Rounded(m, Grid) \in Rationals /\ Frac(50, Grid) \in Rationals
    <3>1. Value(Whole(100), 100, 1)
      BY WholeValue
    <3>2. Rounded(m, Grid) \in Rationals
      BY <1>1, <1>3, RoundedValue
    <3>3. Frac(50, Grid) \in Rationals
      BY <1>1, FracParts
    <3> QED BY <3>1, <3>2, <3>3 DEF Value
  <2> QED BY <1>3, <2>1, Closure
<1>6. AtMost(a, b)
  BY <1>1, <1>3, RoundedNear
<1> HIDE DEF a, b, c
<1>7. Below(c, b)
  BY <1>2, <1>4, <1>5, <1>6, OrderLaws
<1> QED BY <1>7 DEF Moves, b, c, m

\* A trend that is sure is confirmed, in a market that moves.
LEMMA TrendIsMeant ==
    ASSUME NEW w \in Seq(Quotes), NEW trend \in {"bullish", "bearish", "neutral"},
           DetectTrendFollowing(trend, Histogram(Column(w, "close")))
    PROVE  TrendFollowing(w, trend) \in SoundOn(w)
<1> DEFINE p == Column(w, "close")
           long == trend = "bullish"
           d == TrendFollowing(w, trend)
<1>1. p \in Seq(Prices)
  BY ClosesTyped
<1>2. /\ Histogram(p) # NoValue
      /\ IF long THEN Below(Zero, Histogram(p)) ELSE Below(Histogram(p), Zero)
  BY DEF DetectTrendFollowing
<1>3. long \in BOOLEAN
  OBVIOUS
<1> HIDE DEF p
<1>4. Confirms(p, long)
  <2> HIDE DEF long
  <2> QED BY <1>1, <1>2, <1>3, HistogramConfirms
<1>5. Bonus(w) \in {0, 5} /\ (Bonus(w) = 5 => Volatile(w))
  BY DEF Bonus
<1>6. /\ d = Decision("trend_following", long, 60 + Bonus(w))
  BY DEF TrendFollowing
<1> HIDE DEF d, long
<1>7. /\ d \in Decisions /\ d.strategy = "trend_following" /\ (d.direction = "long" <=> long)
      /\ d.confidence = 60 + Bonus(w)
  BY <1>5, <1>6 DEF Decision, Decisions, Strategies
<1>8. ASSUME d.confidence > 60 PROVE Volatile(w)
  BY <1>5, <1>7, <1>8
<1>9. (d.direction = "long") = long
  BY <1>3, <1>7
<1>10. d.confidence > 60 => Confirms(p, d.direction = "long") /\ Moves(w)
  BY <1>4, <1>8, <1>9, VolatileMoves
<1> QED BY <1>7, <1>10 DEF SoundOn, IsMeant, d, p

\* So whatever the rules decide is sound, whatever strategy is asked for.
LEMMA RulesAreSound ==
    ASSUME NEW w \in Seq(Quotes), NEW asked
    PROVE  Rules(w, asked) \in SoundOn(w)
<1> DEFINE p == Column(w, "close")
           short == Sma(p, ShortSpan)
           medium == Sma(p, MediumSpan)
           rsi == Rsi(p)
           trend == Trend(p)
           S == SoundOn(w)
           A == IF DetectMomentum(short, medium, rsi) THEN <<Momentum(w, short, medium)>> ELSE <<>>
           B == IF DetectMeanReversion(rsi) THEN <<MeanReversion(rsi, Below(rsi, Whole(30)))>> ELSE <<>>
           C == IF DetectTrendFollowing(trend, Histogram(p)) THEN <<TrendFollowing(w, trend)>> ELSE <<>>
           D == IF DetectBreakout(w, p) THEN <<Breakout(p)>> ELSE <<>>
<1>1. Rules(w, asked) = HintedFirst(A \o B \o C \o D, asked)
  BY DEF Rules, RulesOn, Found
<1>2. trend \in {"bullish", "bearish", "neutral"}
  BY DEF Trend, TrendOf
<1> HIDE DEF trend, short, medium
<1>3. Momentum(w, short, medium) \in S
  <2> DEFINE d == Momentum(w, short, medium)
  <2>1. Bonus(w) \in {0, 5}
    BY DEF Bonus
  <2>2. d \in Decisions /\ d.confidence = 55 + Bonus(w)
    BY <2>1 DEF Momentum, Decision, Decisions, Strategies
  <2> HIDE DEF d
  <2> QED BY <2>1, <2>2 DEF SoundOn, d
<1>4. DetectMeanReversion(rsi) => MeanReversion(rsi, Below(rsi, Whole(30))) \in S
  BY ReversalIsMeant
<1>5. DetectTrendFollowing(trend, Histogram(p)) => TrendFollowing(w, trend) \in S
  BY <1>2, TrendIsMeant
<1>6. Breakout(p) \in S
  <2> DEFINE d == Breakout(p)
  <2>1. d \in Decisions /\ d.confidence = 60
    BY DEF Breakout, Decision, Decisions, Strategies
  <2> HIDE DEF d
  <2> QED BY <2>1 DEF SoundOn, d
<1>7. Neutral \in S
  BY DEF Neutral, SoundOn, Decisions, Strategies
<1>8. S \in SUBSET Decisions
  BY DEF SoundOn
<1> HIDE DEF S, rsi, p
<1>9. A \in Seq(S) /\ B \in Seq(S) /\ C \in Seq(S) /\ D \in Seq(S)
  BY <1>3, <1>4, <1>5, <1>6
<1> HIDE DEF A, B, C, D
<1>10. A \o B \o C \o D \in Seq(S)
  BY <1>9
<1>11. HintedFirst(A \o B \o C \o D, asked) \in S
  BY <1>7, <1>8, <1>10, FirstIsFound
<1> QED BY <1>1, <1>11 DEF S

\* What is kept was sound on the candles it was taken on, which come to have
\* successors and never change.
SignalsInv ==
    /\ candles \in Seq(Candles)
    /\ signals \in Seq([at : Nat \ {0}, decision : Decisions])
    /\ \A n \in 1..Len(signals) : signals[n].at <= Len(candles)
    /\ SignalsAreMeant

LEMMA SignalsKeep == SignalsSpec => []SignalsInv
<1>1. SignalsInit => SignalsInv
  BY DEF SignalsInit, SignalsInv, SignalsAreMeant
<1>2. SignalsInv /\ [SignalsNext]_signalVars => SignalsInv'
  <2> SUFFICES ASSUME SignalsInv, [SignalsNext]_signalVars PROVE SignalsInv'
    OBVIOUS
  <2>1. CASE UNCHANGED signalVars
    BY <2>1 DEF SignalsInv, SignalsAreMeant, signalVars
  <2>2. ASSUME NEW r \in Responses, Analyse(r) PROVE SignalsInv'
    BY <2>2 DEF SignalsInv, SignalsAreMeant, Analyse
  <2>3. ASSUME NEW candle \in Candles, TakeCandle(candle) PROVE SignalsInv'
    <3> DEFINE K == [at : Nat \ {0}, decision : Decisions]
               L == Len(candles)
               M == Len(signals)
               d == rules'
               new == [at |-> L + 1, decision |-> d]
    <3>1. /\ candles \in Seq(Candles) /\ L \in Nat /\ signals \in Seq(K) /\ M \in Nat
          /\ DOMAIN signals = 1..M
          /\ \A n \in 1..M : signals[n].at \in 1..L
          /\ \A n \in 1..M : IsMeant(SubSeq(candles, 1, signals[n].at), signals[n].decision)
      <4>1. candles \in Seq(Candles) /\ signals \in Seq(K) /\ \A n \in 1..M : signals[n].at <= L
        BY DEF SignalsInv
      <4>2. L \in Nat /\ M \in Nat /\ DOMAIN signals = 1..M
        BY <4>1
      <4>3. \A n \in 1..M : signals[n].at \in 1..L
        <5> SUFFICES ASSUME NEW n \in 1..M PROVE signals[n].at \in 1..L
          OBVIOUS
        <5> HIDE DEF K, L
        <5>1. signals[n] \in K
          BY <4>1
        <5>2. signals[n].at \in Nat \ {0}
          BY <5>1 DEF K
        <5> QED BY <4>1, <4>2, <5>2
      <4> QED BY <4>1, <4>2, <4>3 DEF SignalsInv, SignalsAreMeant
    <3>2. candles' = Append(candles, candle) /\ d = Rules(candles', hint)
      BY <2>3 DEF TakeCandle
    <3>3. candles' \in Seq(Candles) /\ Len(candles') = L + 1 /\ \A i \in 1..L : candles'[i] = candles[i]
      BY <3>1, <3>2, AppendProperties
    <3>4. candles' \in Seq(Quotes)
      BY <3>3, CandlesAreQuotes
    <3>5. d \in SoundOn(candles')
      BY <3>2, <3>4, RulesAreSound
    <3>6. signals' = signals \/ (Sure(d) /\ signals' = Append(signals, new))
      BY <2>3, <3>3 DEF TakeCandle
    <3> HIDE DEF d
    <3>7. \A k \in 1..L : SubSeq(candles', 1, k) = SubSeq(candles, 1, k)
      <4> SUFFICES ASSUME NEW k \in 1..L PROVE SubSeq(candles', 1, k) = SubSeq(candles, 1, k)
        OBVIOUS
      <4> DEFINE a == SubSeq(candles', 1, k)
                 b == SubSeq(candles, 1, k)
      <4>1. /\ a \in Seq(Candles) /\ Len(a) = k /\ \A i \in 1..k : a[i] = candles'[i]
            /\ b \in Seq(Candles) /\ Len(b) = k /\ \A i \in 1..k : b[i] = candles[i]
        <5>1. k \in Nat /\ k >= 1 /\ k <= L /\ k <= Len(candles') /\ k + 1 - 1 = k /\ \A i \in 1..k : 1 + i - 1 = i
          BY <3>1, <3>3
        <5>2. a \in Seq(Candles) /\ Len(a) = k /\ b \in Seq(Candles) /\ Len(b) = k
          BY <3>1, <3>3, <5>1, PartTyped
        <5>3. \A i \in 1..k : a[i] = candles'[i] /\ b[i] = candles[i]
          BY <3>1, <3>3, <5>1
        <5> QED BY <5>2, <5>3
      <4>2. \A i \in 1..k : a[i] = b[i]
        BY <3>1, <3>3, <4>1
      <4> HIDE DEF a, b
      <4>3. a = b
        BY <4>1, <4>2, SeqEqual
      <4> QED BY <4>3 DEF a, b
    <3>8. \A n \in 1..M : IsMeant(SubSeq(candles', 1, signals[n].at), signals[n].decision)
      BY <3>1, <3>7
    <3>9. CASE signals' = signals
      <4>1. SignalsAreMeant'
        BY <3>1, <3>8, <3>9 DEF SignalsAreMeant
      <4>2. \A n \in 1..Len(signals') : signals'[n].at <= Len(candles')
        BY <3>1, <3>3, <3>9
      <4> QED BY <3>1, <3>3, <3>9, <4>1, <4>2 DEF SignalsInv
    <3>10. CASE Sure(d) /\ signals' = Append(signals, new)
      <4>1. d \in Decisions /\ IsMeant(candles', d)
        BY <3>5, <3>10 DEF SoundOn, Sure
      <4>2. new \in K
        BY <3>1, <4>1
      <4>3. /\ signals' \in Seq(K) /\ Len(signals') = M + 1 /\ signals'[M + 1] = new
            /\ \A n \in 1..M : signals'[n] = signals[n]
        BY <3>1, <3>10, <4>2, AppendProperties
      <4>4. SubSeq(candles', 1, L + 1) = candles'
        BY <3>1, <3>3
      <4>5. \A n \in 1..(M + 1) : n = M + 1 \/ n \in 1..M
        BY <3>1
      <4>6. \A n \in 1..(M + 1) : signals'[n].at <= L + 1
        <5>1. new.at = L + 1
          OBVIOUS
        <5> HIDE DEF new
        <5> QED BY <3>1, <4>3, <4>5, <5>1
      <4>7. \A n \in 1..(M + 1) : IsMeant(SubSeq(candles', 1, signals'[n].at), signals'[n].decision)
        <5>1. new.at = L + 1 /\ new.decision = d
          OBVIOUS
        <5> HIDE DEF new
        <5> QED BY <3>8, <4>1, <4>3, <4>4, <4>5, <5>1
      <4>8. DOMAIN signals' = 1..(M + 1)
        BY <4>3
      <4>9. SignalsAreMeant'
        BY <4>7, <4>8 DEF SignalsAreMeant
      <4> QED BY <3>3, <4>3, <4>6, <4>9 DEF SignalsInv
    <3> QED BY <3>6, <3>9, <3>10
  <2> QED BY <2>1, <2>2, <2>3 DEF SignalsNext
<1> QED BY <1>1, <1>2, PTL DEF SignalsSpec

\* SignalsAreMeant: whatever is rounded on the way, what the route keeps is a
\* reversal or a confirmed trend by the exact indicators.
THEOREM SignalsAreAlwaysMeant == SignalsSpec => []SignalsAreMeant
<1>1. SignalsInv => SignalsAreMeant
  BY DEF SignalsInv
<1> QED BY <1>1, SignalsKeep, PTL
=============================================================================
