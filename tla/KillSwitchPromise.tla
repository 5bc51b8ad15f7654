-------------------------- MODULE KillSwitchPromise --------------------------
(***************************************************************************)
(* What the kill switch of live_trading/safety.py promises to the code     *)
(* that asks it, with the store, the latches and the tokens left out:      *)
(* after an acknowledged trip no check of any process passes, until a      *)
(* human re-arms or the store loses the flag.                              *)
(*                                                                         *)
(* A check may always block: the store may be unreachable, or the process  *)
(* latched.  KillSwitch implements this module, LiveEngine is built on it. *)
(***************************************************************************)
CONSTANT Procs  \* the processes that share the switch

VARIABLES
    killed,   \* some trip was acknowledged and not taken back since
    verdict   \* the answer of the last check of each process

TypeOK == killed \in BOOLEAN /\ verdict \in [Procs -> {"allow", "block"}]

Init == killed = FALSE /\ verdict = [p \in Procs |-> "block"]

Kill    == killed' = TRUE /\ UNCHANGED verdict
Release == killed' = FALSE /\ UNCHANGED verdict

\* A check of p answers v.
Answer(p, v) ==
    /\ v = "allow" => ~killed
    /\ verdict' = [verdict EXCEPT ![p] = v]
    /\ UNCHANGED killed

\* The processes of P restart, and their answers are gone.
Forget(P) ==
    /\ verdict' = [p \in Procs |-> IF p \in P THEN "block" ELSE verdict[p]]
    /\ UNCHANGED killed

Next ==
    \/ Kill
    \/ Release
    \/ \E p \in Procs, v \in {"allow", "block"} : Answer(p, v)
    \/ \E P \in SUBSET Procs : Forget(P)

Spec == Init /\ [][Next]_<<killed, verdict>>
=============================================================================
