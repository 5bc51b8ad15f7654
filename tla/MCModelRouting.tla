--------------------------- MODULE MCModelRouting ---------------------------
(* Two calls share the local model and fall back to a hosted one.          *)
EXTENDS ModelRouting
CONSTANTS hosted, local, c1, c2
MCChain == c1 :> <<local, hosted>> @@ c2 :> <<local, hosted>>

\* A call ends, however the other one shares its queues and the gate; the two
\* calls are alike, so one stands for both (EveryCallEnds).
FirstCallEnds == CallEnds(c1)
=============================================================================
