---------------------------- MODULE MCGraphBuild ----------------------------
(* Small instances of GraphBuild: every trace of up to MaxSpans spans.     *)
EXTENDS GraphBuild
=============================================================================
