-------------------------- MODULE SignalBusViewProofs --------------------------
(***************************************************************************)
(* SignalBus implements WorkerBus for every flow that is alone in its      *)
(* worker.  Two facts carry the argument: what another flow does cannot    *)
(* change which receivers of Self's scope are stored and subscribed        *)
(* (OthersLeaveOwn), and a send under way has only unmuted handlers left   *)
(* (PendingUnmuted), because a flow does not enter a block inside a send.  *)
(***************************************************************************)
EXTENDS SignalBusView, SignalBusProofs

\* What Self's send has still to call is not muted meanwhile.
PendingUnmuted == \A r \in OwnReceivers : r \in pending[Self] /\ phase[r] = "live" => Reachable(r)

\* The invariant the refinement rests on.
ViewInv == Inv1 /\ LiveIsReachable /\ ExclusiveInv /\ PendingUnmuted

\* What ViewInv says of a receiver of Self's scope.
LEMMA OwnFacts ==
    ASSUME ViewInv, NEW r \in OwnReceivers
    PROVE  /\ r \in Receivers /\ Self \in Flows
           /\ FlowScope[Self] \in Scopes /\ FlowScope[Self] # ANY
           /\ ReceiverScope[r] = FlowScope[Self]
           /\ \A g \in Flows : FlowScope[g] = FlowScope[Self] => g = Self
           /\ OwnInv(Self, r)
           /\ <<r, ANY>> \notin subs
           /\ phase[r] = "live" => (Reachable(r) <=> <<r, FlowScope[Self]>> \in subs)
           /\ <<r, FlowScope[Self]>> \in subs => phase[r] = "live" /\ Reachable(r)
<1>1. /\ r \in Receivers /\ ReceiverScope[r] = FlowScope[Self] /\ Self \in Flows
      /\ FlowScope[Self] \in Scopes /\ FlowScope[Self] # ANY
      /\ \A g \in Flows : FlowScope[g] = FlowScope[Self] => g = Self
  BY SelfAssumption, ScopesAssumption DEF OwnReceivers, Exclusive
<1>2. OwnInv(Self, r)
  BY <1>1, SelfAssumption DEF ViewInv, ExclusiveInv
<1>3. \A s \in Scopes : <<r, s>> \in subs => ReceiverScope[r] \in {s, ANY} /\ stored[r] # "absent"
  BY <1>1 DEF ViewInv, Inv1, SubsInScope
<1>4. QED
  BY <1>1, <1>2, <1>3 DEF Reachable, OwnInv, Forgotten, Scopes

\* Entering or leaving an ignore block, another flow does not touch a receiver of
\* Self's scope.
LEMMA OthersLeaveOwn ==
    ASSUME ViewInv, NEW g \in Flows, g # Self, IgnoreEnter(g) \/ IgnoreExit(g)
    PROVE  /\ \A r \in OwnReceivers : Reachable(r)' <=> Reachable(r)
           /\ frames'[Self] = frames[Self]
           /\ phase' = phase /\ pending' = pending
<1>1. CASE IgnoreEnter(g)
  <2>1. frames'[Self] = frames[Self] /\ phase' = phase /\ pending' = pending
    BY <1>1, EnterPushes, SelfAssumption DEF ViewInv, Inv1, IgnoreEnter
  <2>2. ASSUME NEW r \in OwnReceivers PROVE Reachable(r)' <=> Reachable(r)
    <3>1. FlowScope[g] = ANY => r \notin ReceiversFor(FlowScope[g])
      BY OwnFacts DEF ReceiversFor
    <3>2. FlowScope[g] # FlowScope[Self]
      BY OwnFacts
    <3>3. QED
      BY <1>1, <3>1, <3>2, OwnFacts DEF IgnoreEnter, DropAll, Reachable, ViewInv, Inv1, TypeOK
  <2>3. QED
    BY <2>1, <2>2
<1>2. CASE IgnoreExit(g)
  <2>1. frames'[Self] = frames[Self] /\ phase' = phase /\ pending' = pending
    BY <1>2, ExitPops, SelfAssumption DEF ViewInv, Inv1, IgnoreExit, Reconnects
  <2>2. ASSUME NEW r \in OwnReceivers PROVE Reachable(r)' <=> Reachable(r)
    <3>1. r \notin frames[g][Len(frames[g])].held
      BY <1>2, TopFrame, OwnFacts DEF ViewInv, Inv1, HeldInScope
    <3>2. stored'[r] = stored[r] /\ \A s : <<r, s>> \in subs' <=> <<r, s>> \in subs
      BY <1>2, <3>1, OwnFacts DEF IgnoreExit, Reconnects
    <3>3. QED
      BY <3>2 DEF Reachable
  <2>3. QED
    BY <2>1, <2>2
<1>3. QED
  BY <1>1, <1>2

\* The initial state maps to the initial state of WorkerBus.
LEMMA ViewInit == Init => Bus!BusInit /\ PendingUnmuted
BY SelfAssumption DEF Init, Bus!BusInit, PendingUnmuted, OwnLive, OwnMuted, OwnReceivers

\* The steps that leave Self's view alone.
LEMMA ViewStutter ==
    ASSUME ViewInv, UNCHANGED <<phase, pending, frames[Self]>>,
           \A r \in OwnReceivers : Reachable(r)' <=> Reachable(r)
    PROVE  UNCHANGED Bus!busVars /\ PendingUnmuted'
<1>1. OwnLive' = OwnLive /\ OwnReceivers' = OwnReceivers
  BY DEF OwnLive, OwnReceivers
<1>2. OwnMuted' = OwnMuted
  BY <1>1 DEF OwnMuted, OwnLive
<1>3. QED
  BY <1>1, <1>2 DEF Bus!busVars, ViewInv, PendingUnmuted

\* A receiver is disconnected or collected.
LEMMA ViewRemove ==
    ASSUME ViewInv, NEW q \in Receivers, phase[q] = "live",
           q \in OwnReceivers => q \notin Held(Self),
           stored' = [stored EXCEPT ![q] = "absent"], subs' = subs \ ({q} \X Scopes),
           phase' = [phase EXCEPT ![q] = "gone"], UNCHANGED <<frames, pending>>
    PROVE  [Bus!BusNext]_(Bus!busVars) /\ PendingUnmuted'
<1>1. \A r \in OwnReceivers \ {q} : (Reachable(r)' <=> Reachable(r)) /\ phase'[r] = phase[r]
  BY DEF Reachable, OwnReceivers, ViewInv, Inv1, TypeOK
<1>2. OwnReceivers' = OwnReceivers /\ phase'[q] = "gone"
  BY DEF OwnReceivers, ViewInv, Inv1, TypeOK
<1>3. PendingUnmuted'
  BY <1>1, <1>2 DEF ViewInv, PendingUnmuted
<1>4. CASE q \notin OwnReceivers
  <2>1. OwnLive' = OwnLive /\ OwnMuted' = OwnMuted
    BY <1>1, <1>2, <1>4 DEF OwnLive, OwnMuted
  <2>2. QED
    BY <1>2, <1>3, <2>1 DEF Bus!busVars
<1>5. CASE q \in OwnReceivers
  <2>1. Reachable(q)
    <3>1. ASSUME NEW g \in Flows, FlowScope[g] = ReceiverScope[q], q \in Held(g) PROVE FALSE
      BY <1>5, <3>1, OwnFacts
    <3>2. QED
      BY <3>1 DEF ViewInv, LiveIsReachable
  <2>2. q \in OwnLive \ OwnMuted
    BY <1>5, <2>1 DEF OwnLive, OwnMuted
  <2>3. OwnLive' = OwnLive \ {q}
    BY <1>1, <1>2 DEF OwnLive
  <2>4. OwnMuted' = OwnMuted
    BY <1>1, <1>2, <2>1, <2>3 DEF OwnMuted, OwnLive
  <2>5. Bus!Unregister(q)
    BY <1>2, <2>2, <2>3, <2>4 DEF Bus!Unregister
  <2>6. QED
    BY <1>3, <1>5, <2>5 DEF Bus!BusNext
<1>6. QED
  BY <1>4, <1>5

\* A receiver is connected.
LEMMA ViewConnect ==
    ASSUME ViewInv, NEW f \in Flows, NEW q \in Receivers, Connect(f, q)
    PROVE  [Bus!BusNext]_(Bus!busVars) /\ PendingUnmuted'
<1>1. /\ stored'[q] # "absent" /\ <<q, ReceiverScope[q]>> \in subs' /\ phase'[q] = "live"
      /\ UNCHANGED <<frames, pending>>
      /\ \A r \in OwnReceivers \ {q} : (Reachable(r)' <=> Reachable(r)) /\ phase'[r] = phase[r]
  BY DEF Connect, Reachable, OwnReceivers, ViewInv, Inv1, TypeOK
<1>2. Reachable(q)' /\ OwnReceivers' = OwnReceivers
  BY <1>1 DEF Reachable, OwnReceivers
<1>3. PendingUnmuted'
  BY <1>1, <1>2 DEF ViewInv, PendingUnmuted
<1>4. CASE q \notin OwnReceivers
  <2>1. OwnLive' = OwnLive /\ OwnMuted' = OwnMuted
    BY <1>1, <1>2, <1>4 DEF OwnLive, OwnMuted
  <2>2. QED
    BY <1>1, <1>2, <1>3, <2>1 DEF Bus!busVars
<1>5. CASE q \in OwnReceivers
  <2>1. pending[Self] = {}
    BY <1>5, OwnFacts DEF Connect
  <2>2. OwnLive' = OwnLive \cup {q}
    BY <1>1, <1>2, <1>5 DEF OwnLive
  <2>3. OwnMuted' = OwnMuted \ {q}
    BY <1>1, <1>2, <2>2 DEF OwnMuted, OwnLive
  <2>4. Bus!Register(q)
    BY <1>1, <1>2, <2>1, <2>2, <2>3 DEF Bus!Register
  <2>5. QED
    BY <1>3, <1>5, <2>4 DEF Bus!BusNext
<1>6. QED
  BY <1>4, <1>5

\* Self enters an ignore block.
LEMMA ViewEnter ==
    ASSUME ViewInv, IgnoreEnter(Self)
    PROVE  Bus!BusNext /\ PendingUnmuted'
<1> USE SelfAssumption
<1>1. pending[Self] = {} /\ phase' = phase /\ pending' = pending
  BY DEF IgnoreEnter
<1>2. Len(frames'[Self]) = Len(frames[Self]) + 1
  BY EnterPushes DEF ViewInv, Inv1
<1>3. ASSUME NEW r \in OwnReceivers PROVE ~Reachable(r)'
  <2>1. <<r, FlowScope[Self]>> \in subs => r \in ReceiversFor(FlowScope[Self])
    BY OwnFacts DEF ReceiversFor, Reachable
  <2>2. <<r, FlowScope[Self]>> \notin subs'
    BY <2>1, OwnFacts DEF IgnoreEnter, DropAll
  <2>3. QED
    BY <2>2, OwnFacts DEF Reachable
<1>4. OwnLive' = OwnLive /\ OwnReceivers' = OwnReceivers
  BY <1>1 DEF OwnLive, OwnReceivers
<1>5. OwnMuted' = OwnLive
  BY <1>3, <1>4 DEF OwnMuted, OwnLive
<1>6. Bus!Mute
  BY <1>1, <1>2, <1>4, <1>5 DEF Bus!Mute
<1>7. QED
  BY <1>1, <1>6 DEF Bus!BusNext, PendingUnmuted

\* Self leaves an ignore block.
LEMMA ViewExit ==
    ASSUME ViewInv, LiveIsReachable', IgnoreExit(Self)
    PROVE  Bus!BusNext /\ PendingUnmuted'
<1> USE SelfAssumption
<1>1. pending[Self] = {} /\ phase' = phase /\ pending' = pending
  BY DEF IgnoreExit, Reconnects
<1>2. Len(frames[Self]) \in Nat \ {0} /\ Len(frames'[Self]) = Len(frames[Self]) - 1
  BY ExitPops DEF ViewInv, Inv1
<1>3. ASSUME NEW r \in OwnReceivers, Reachable(r) PROVE Reachable(r)'
  BY <1>3, OwnFacts DEF IgnoreExit, Reconnects, Reachable
<1>4. OwnLive' = OwnLive /\ OwnReceivers' = OwnReceivers
  BY <1>1 DEF OwnLive, OwnReceivers
<1>5. OwnMuted' \in SUBSET OwnMuted
  BY <1>3, <1>4 DEF OwnMuted, OwnLive
<1>6. ASSUME Len(frames'[Self]) = 0 PROVE OwnMuted' = {}
  <2>1. ASSUME NEW r \in OwnLive' PROVE Reachable(r)'
    <3>1. r \in OwnReceivers /\ r \in Receivers /\ phase'[r] = "live"
      BY <1>4 DEF OwnLive, OwnReceivers
    <3>2. ASSUME NEW g \in Flows, FlowScope[g] = ReceiverScope[r], r \in Held(g)' PROVE FALSE
      <4>1. g = Self
        BY <3>1, <3>2, OwnFacts
      <4>2. QED
        BY <1>6, <3>2, <4>1, HeldInNext
    <3>3. QED
      BY <3>1, <3>2 DEF LiveIsReachable
  <2>2. QED
    BY <2>1 DEF OwnMuted
<1>7. Bus!Unmute
  BY <1>1, <1>2, <1>4, <1>5, <1>6 DEF Bus!Unmute
<1>8. QED
  BY <1>1, <1>7 DEF Bus!BusNext, PendingUnmuted

\* A flow starts a send.
LEMMA ViewSend ==
    ASSUME ViewInv, NEW f \in Flows, Send(f)
    PROVE  [Bus!BusNext]_(Bus!busVars) /\ PendingUnmuted'
<1>1. UNCHANGED <<stored, subs, phase, frames>>
  BY DEF Send
<1>2. UNCHANGED <<OwnReceivers, OwnLive, OwnMuted>> /\ \A r \in OwnReceivers : Reachable(r)' <=> Reachable(r)
  BY <1>1 DEF OwnReceivers, OwnLive, OwnMuted, Reachable
<1>3. CASE f # Self
  BY <1>1, <1>2, <1>3 DEF Send, Bus!busVars, ViewInv, Inv1, TypeOK, PendingUnmuted
<1>4. CASE f = Self
  <2>1. pending[Self] = {}
    BY <1>4 DEF Send
  <2>2. ASSUME NEW r \in OwnReceivers
        PROVE  r \in pending'[Self] <=> <<r, FlowScope[Self]>> \in subs
    BY <1>4, OwnFacts DEF Send, ViewInv, Inv1, TypeOK
  <2>3. ASSUME NEW r \in OwnReceivers
        PROVE  r \in pending'[Self] <=> r \in OwnLive \ OwnMuted
    BY <2>2, OwnFacts DEF OwnLive, OwnMuted
  <2>4. pending'[Self] \cap OwnReceivers = OwnLive \ OwnMuted
    BY <2>3 DEF OwnLive
  <2>5. Bus!StartSend
    BY <1>1, <1>2, <2>1, <2>4 DEF Bus!StartSend
  <2>6. PendingUnmuted'
    BY <1>1, <1>2, <2>3 DEF PendingUnmuted, OwnLive, OwnMuted
  <2>7. QED
    BY <2>5, <2>6 DEF Bus!BusNext
<1>5. QED
  BY <1>3, <1>4

\* A handler is called, is found disconnected, or raises.
LEMMA ViewDeliver ==
    ASSUME ViewInv, NEW f \in Flows, NEW q \in Receivers, Call(f, q) \/ CallRaises(f, q) \/ Skip(f, q)
    PROVE  [Bus!BusNext]_(Bus!busVars) /\ PendingUnmuted'
<1>1. UNCHANGED <<stored, subs, phase, frames>>
  BY DEF Call, CallRaises, Skip
<1>2. UNCHANGED <<OwnReceivers, OwnLive, OwnMuted>> /\ \A r \in OwnReceivers : Reachable(r)' <=> Reachable(r)
  BY <1>1 DEF OwnReceivers, OwnLive, OwnMuted, Reachable
<1>3. q \in pending[f] /\ pending' = [pending EXCEPT ![f] = pending'[f]]
      /\ pending'[f] \in {pending[f] \ {q}, {}}
  BY DEF Call, CallRaises, Skip, ViewInv, Inv1, TypeOK
<1>4. pending'[Self] \subseteq pending[Self]
  BY <1>3, SelfAssumption DEF ViewInv, Inv1, TypeOK
<1>5. PendingUnmuted'
  BY <1>1, <1>2, <1>4 DEF ViewInv, PendingUnmuted
<1>6. \A r \in pending[Self] \cap OwnReceivers : r \notin OwnMuted
  BY DEF ViewInv, PendingUnmuted, OwnMuted, OwnLive
<1> DEFINE sending == pending[Self] \cap OwnReceivers
<1>7. sending' = sending \/ \E r \in sending : sending' \in {sending \ {r}, {}}
  <2>1. CASE f # Self
    BY <1>2, <1>3, <2>1, SelfAssumption DEF ViewInv, Inv1, TypeOK
  <2>2. CASE f = Self /\ q \in OwnReceivers
    BY <1>2, <1>3, <2>2
  <2>3. CASE f = Self /\ q \notin OwnReceivers
    <3>1. pending'[Self] = pending[Self] \ {q} => sending' = sending
      BY <1>2, <2>3
    <3>2. pending'[Self] = {} => sending' = {}
      OBVIOUS
    <3>3. QED
      BY <1>3, <2>3, <3>1, <3>2
  <2>4. QED
    BY <2>1, <2>2, <2>3
<1>8. CASE sending' = sending
  BY <1>1, <1>2, <1>5, <1>8 DEF Bus!busVars
<1>9. CASE \E r \in sending : sending' \in {sending \ {r}, {}}
  <2>1. PICK r \in sending : sending' \in {sending \ {r}, {}}
    BY <1>9
  <2>2. Bus!Deliver(r)
    BY <1>1, <1>2, <1>6, <2>1 DEF Bus!Deliver
  <2>3. QED
    BY <1>5, <2>1, <2>2 DEF Bus!BusNext
<1>10. QED
  BY <1>7, <1>8, <1>9

\* Every step maps to a step of WorkerBus or leaves its variables alone.
LEMMA ViewStep == ViewInv /\ LiveIsReachable' /\ [Next]_vars => [Bus!BusNext]_(Bus!busVars) /\ PendingUnmuted'
<1> SUFFICES ASSUME ViewInv, LiveIsReachable', [Next]_vars
             PROVE  [Bus!BusNext]_(Bus!busVars) /\ PendingUnmuted'
  OBVIOUS
<1> DEFINE Goal == [Bus!BusNext]_(Bus!busVars) /\ PendingUnmuted'
<1>1. ASSUME NEW f \in Flows, IgnoreEnter(f) \/ IgnoreExit(f) PROVE Goal
  <2>1. CASE f = Self
    BY <1>1, <2>1, ViewEnter, ViewExit
  <2>2. CASE f # Self
    <3>1. UNCHANGED <<phase, pending, frames[Self]>> /\ \A r \in OwnReceivers : Reachable(r)' <=> Reachable(r)
      BY <1>1, <2>2, OthersLeaveOwn
    <3>2. QED
      BY <3>1, ViewStutter
  <2>3. QED
    BY <2>1, <2>2
<1>2. ASSUME NEW f \in Flows, Send(f) PROVE Goal
  BY <1>2, ViewSend
<1>3. ASSUME NEW f \in Flows, NEW q \in Receivers, Connect(f, q) PROVE Goal
  BY <1>3, ViewConnect
<1>4. ASSUME NEW f \in Flows, NEW q \in Receivers, Disconnect(f, q) PROVE Goal
  <2>1. q \in OwnReceivers => q \notin Held(Self)
    BY <1>4, OwnFacts DEF Disconnect
  <2>2. QED
    BY <1>4, <2>1, ViewRemove DEF Disconnect
<1>5. ASSUME NEW q \in Receivers, Collect(q) PROVE Goal
  BY <1>5, ViewRemove, SelfAssumption DEF Collect
<1>6. ASSUME NEW f \in Flows, NEW q \in Receivers, Call(f, q) \/ CallRaises(f, q) \/ Skip(f, q) PROVE Goal
  BY <1>6, ViewDeliver
<1>7. CASE UNCHANGED vars
  <2>1. \A r \in OwnReceivers : Reachable(r)' <=> Reachable(r)
    BY <1>7 DEF vars, Reachable
  <2>2. QED
    BY <1>7, <2>1, ViewStutter DEF vars
<1>8. QED
  BY <1>1, <1>2, <1>3, <1>4, <1>5, <1>6, <1>7 DEF Next

\* Whatever the flows of other workers do, a flow alone in its worker sees the
\* signal of signals.py as WorkerBus describes it.
THEOREM BusRefinement == Spec => ImplementsWorkerBus
<1>1. Init => LiveIsReachable
  BY DEF Init, LiveIsReachable
<1>2. QED
  BY <1>1, ViewInit, ViewStep, ScopedInit, ScopedStep, LiveStep, ExclusiveInit, ExclusiveStep,
     TypeCorrect, PTL DEF Spec, ViewInv, Bus!BusSpec, ImplementsWorkerBus

================================================================================
