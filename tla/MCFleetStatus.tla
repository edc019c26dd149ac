---------------------------- MODULE MCFleetStatus ----------------------------
(* Small instances of FleetStatus: two traces of one agent, the second one *)
(* failed.                                                                 *)
EXTENDS FleetStatus, TLC

CONSTANTS g1, g2, t1, t2, a1

SomeTraceOf == g1 :> t1 @@ g2 :> t2
SomeAgentOf == g1 :> a1 @@ g2 :> a1

(* exp(linspace(0, 2, n)) in hundredths *)
SomeWeights ==
    <<<<100>>,
      <<100, 739>>,
      <<100, 272, 739>>,
      <<100, 195, 379, 739>>,
      <<100, 165, 272, 448, 739>>,
      <<100, 149, 223, 332, 495, 739>>>>
=============================================================================
