---------------------------- MODULE MCKillSwitch ----------------------------
(* Two processes, the API and one live runner, and two tokens: a baseline   *)
(* and an arm, or an arm before an outage and one after it.                 *)
EXTENDS KillSwitch
=============================================================================
