--------------------------- MODULE MCAttribution ---------------------------
(* Small instances of Attribution: every graph of up to MaxNodes nodes.    *)
EXTENDS Attribution, TLC

(* Beyond the range on either side. *)
SomeConfidences == {-20, 250}
=============================================================================
