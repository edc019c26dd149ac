----------------------------- MODULE MCRecovery -----------------------------
(* Small instances of Recovery: one failure mode, two matching playbooks.  *)
EXTENDS Recovery, TLC

CONSTANTS r1, r2, r3, p1, p2, m1, k1

(* p1 is the first match; it fails once, succeeds once; p2 succeeds. *)
SomePlaybookOf == r1 :> p1 @@ r2 :> p1 @@ r3 :> p2
SomeRewardOf == r1 :> 0 @@ r2 :> 1 @@ r3 :> 2
SomeModeOf == r1 :> m1 @@ r2 :> m1 @@ r3 :> m1
SomeLibrary == m1 :> <<p1, p2>>

(* Session ids that are trace ids: every report has the key "default". *)
TraceIdKeys == r1 :> k1 @@ r2 :> k1 @@ r3 :> k1

(* Session ids made of the failure mode and a number. *)
ModeNameKeys == r1 :> m1 @@ r2 :> m1 @@ r3 :> m1
=============================================================================
