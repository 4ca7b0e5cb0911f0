------------------------------- MODULE WorkerBus -------------------------------
(***************************************************************************)
(* What a signal promises to a flow that is alone in its worker: a send    *)
(* calls the handlers registered for the worker, an ignore block mutes     *)
(* them all, and the end of the outermost block unmutes every one of them. *)
(* Other workers do not appear: nothing they do is visible here.           *)
(* SignalBus implements this module for each exclusive flow.               *)
(***************************************************************************)
EXTENDS Naturals

CONSTANT Handlers   \* the handlers that listeners of this worker connect

VARIABLES
    registered,  \* handlers of listeners that are set up
    muted,       \* registered handlers that an ignore block has taken out
    blocks,      \* how many ignore blocks are open
    sending      \* handlers the send in progress has still to call

busVars == <<registered, muted, blocks, sending>>

BusInit ==
    /\ registered = {}
    /\ muted = {}
    /\ blocks = 0
    /\ sending = {}

Register(r) ==
    /\ sending = {}
    /\ registered' = registered \cup {r}
    /\ muted' = muted \ {r}
    /\ UNCHANGED <<blocks, sending>>

\* Only a handler that no block has taken out is cleaned up or collected.
Unregister(r) ==
    /\ r \in registered \ muted
    /\ registered' = registered \ {r}
    /\ UNCHANGED <<muted, blocks, sending>>

Mute ==
    /\ sending = {}
    /\ muted' = registered
    /\ blocks' = blocks + 1
    /\ UNCHANGED <<registered, sending>>

Unmute ==
    /\ sending = {}
    /\ blocks > 0
    /\ blocks' = blocks - 1
    /\ muted' \in SUBSET muted
    /\ blocks' = 0 => muted' = {}
    /\ UNCHANGED <<registered, sending>>

StartSend ==
    /\ sending = {}
    /\ sending' = registered \ muted
    /\ UNCHANGED <<registered, muted, blocks>>

\* One handler returns, is found disconnected, or raises and ends the send.
Deliver(r) ==
    /\ r \in sending
    /\ r \notin muted
    /\ sending' \in {sending \ {r}, {}}
    /\ UNCHANGED <<registered, muted, blocks>>

BusNext ==
    \/ \E r \in Handlers : Register(r) \/ Unregister(r) \/ Deliver(r)
    \/ Mute
    \/ Unmute
    \/ StartSend

BusSpec == BusInit /\ [][BusNext]_busVars

================================================================================
