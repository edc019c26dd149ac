------------------------------ MODULE MCIngest ------------------------------
(***************************************************************************)
(* Small instances of Ingest.  The graphs of one trace that arrive apart   *)
(* (several scopes, several exports) are distinct graphs of that trace.    *)
(***************************************************************************)
EXTENDS Ingest, TLC

CONSTANTS b1, b2, t1, t2, g1, g2, g3

(* g3 is a late piece of the trace of g1. *)
SomeTraceOf == g1 :> t1 @@ g2 :> t2 @@ g3 :> t1

(* An export of two traces, and a post to /traces with the late piece.     *)
SplitPayload == b1 :> <<g1, g2>> @@ b2 :> <<g3>>

(* An export of two traces, and a body that does not parse.                *)
ExportAndJunk == b1 :> <<g1, g2>> @@ b2 :> <<>>

(* The export is sent twice, the other batch once; the export three times, *)
(* the other twice; or everything once.                                    *)
SomeSends == b1 :> 2 @@ b2 :> 1
ManySends == b1 :> 3 @@ b2 :> 2
OneSend == [b \in Batches |-> 1]

WorkerSymmetry == Permutations(Workers)
=============================================================================
