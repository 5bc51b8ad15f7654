----------------------------- MODULE MCPipeline -----------------------------
(* One run with every answer of its agents on both sides of each threshold. *)
EXTENDS Pipeline
MCDeployments == {{}, {"news"}}
=============================================================================
