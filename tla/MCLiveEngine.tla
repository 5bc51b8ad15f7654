---------------------------- MODULE MCLiveEngine ----------------------------
(* Two tasks, so that one can wait while the other runs through, and two    *)
(* overlapping starts, so that a stop can fall between them.                *)
EXTENDS LiveEngine
=============================================================================
