---------------------------- MODULE MCEscalation ----------------------------
(* Calibrations from up to MaxData prompts, one after the other.           *)
EXTENDS Escalation, TLC

(* Opposed embeddings, the ends of the grid, and in between. *)
SomeScores == {-30, 10, 33, 52, 95}
=============================================================================
