------------------------------ MODULE MCSignalBus ------------------------------
(***************************************************************************)
(* Instances of SignalBus for TLC: flow a has the worker w1 for itself, b  *)
(* and c share w2 (two threads or tasks of one request), and in the larger *)
(* scope assignment c has no worker (ANY).                                 *)
(***************************************************************************)
EXTENDS SignalBusView, TLC

CONSTANTS a, b, c, w1, w2, p, q, z

SharedFlowScope == (a :> w1) @@ (b :> w2) @@ (c :> w2)
SharedReceiverScope == (p :> w1) @@ (q :> w2) @@ (z :> w1)

AnyFlowScope == (a :> w1) @@ (b :> w2) @@ (c :> ANY)
AnyReceiverScope == (p :> w1) @@ (q :> w2) @@ (z :> ANY)

================================================================================
