-------------------------- MODULE MCAnalysisControl --------------------------
(* Four requests for two slots, with a budget of two runs in two units of  *)
(* time, and room for one retained session.  Background runs are left out: *)
(* they do what streams do, but for FailStream.                            *)
EXTENDS AnalysisControl
=============================================================================
