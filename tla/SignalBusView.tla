----------------------------- MODULE SignalBusView -----------------------------
(***************************************************************************)
(* The signal as one flow sees it that is alone in its worker, mapped to   *)
(* the abstract WorkerBus: the receivers of its own scope, its own ignore  *)
(* blocks and its own sends.                                               *)
(***************************************************************************)
EXTENDS SignalBus

CONSTANT Self
ASSUME SelfAssumption == Self \in Flows /\ Exclusive(Self)

\* The receivers of Self's worker, those set up, and those a block has taken out.
OwnReceivers == {r \in Receivers : ReceiverScope[r] = FlowScope[Self]}
OwnLive == {r \in OwnReceivers : phase[r] = "live"}
OwnMuted == {r \in OwnLive : ~Reachable(r)}

Bus == INSTANCE WorkerBus WITH
    Handlers <- OwnReceivers,
    registered <- OwnLive,
    muted <- OwnMuted,
    blocks <- Len(frames[Self]),
    sending <- pending[Self] \cap OwnReceivers

\* Whatever the flows of other workers do, connecting, ignoring and sending
\* (signals.py) look to Self as WorkerBus describes them: a send calls exactly
\* the handlers set up and not muted, and the end of the outermost ignore block
\* unmutes all of them.
ImplementsWorkerBus == Bus!BusSpec

================================================================================
