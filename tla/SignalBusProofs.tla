---------------------------- MODULE SignalBusProofs ----------------------------
(***************************************************************************)
(* Theorems of SignalBus, for every set of flows, receivers and workers    *)
(* and every assignment of scopes.                                         *)
(*                                                                         *)
(* The argument rests on three facts the code never states: a receiver     *)
(* has subscriptions only at its own scope or, when its scope is ANY, at   *)
(* the scopes of ignore blocks that gave it back (SubsInScope); an ignore  *)
(* block holds only receivers of its flow's scope or of ANY (HeldInScope); *)
(* and a handler that an open block muted is in no bucket, so that no      *)
(* block nested in it can have taken it (ExclusiveInv).                    *)
(***************************************************************************)
EXTENDS SignalBus, TLAPS

\* A receiver is subscribed to its own scope only (or, by a block, to the scope of
\* a flow that heard it at ANY), and only while it is stored.
SubsInScope ==
    \A r \in Receivers, s \in Scopes :
        <<r, s>> \in subs => ReceiverScope[r] \in {s, ANY} /\ stored[r] # "absent"

\* A block holds receivers of its flow's scope or of ANY, with their strength.
HeldInScope ==
    \A f \in Flows : \A i \in 1..Len(frames[f]) : \A r \in frames[f][i].held :
        /\ ReceiverScope[r] \in {FlowScope[f], ANY}
        /\ r \in frames[f][i].strong <=> r \notin Weak

\* The invariant that types, strength and the scopes of subscriptions rest on.
Inv1 == TypeOK /\ SubsInScope /\ HeldInScope /\ StrengthKept

--------------------------------------------------------------------------------
(* What entering and leaving an ignore block does to the stack of frames. *)

\* Entering a block pushes a new frame on the stack of its flow.
LEMMA EnterPushes ==
    ASSUME TypeOK, NEW f \in Flows, IgnoreEnter(f)
    PROVE  /\ frames' \in [Flows -> Seq(Frame)]
           /\ \A g \in Flows \ {f} : frames'[g] = frames[g]
           /\ Len(frames'[f]) = Len(frames[f]) + 1
           /\ Len(frames[f]) \in Nat
           /\ \A i \in 1..Len(frames[f]) : frames'[f][i] = frames[f][i]
           /\ frames'[f][Len(frames[f]) + 1] = NewFrame(f)
<1>1. NewFrame(f) \in Frame
  BY DEF NewFrame, Frame, ReceiversFor
<1>2. frames[f] \in Seq(Frame)
  BY DEF TypeOK
<1>3. frames' = [frames EXCEPT ![f] = Append(frames[f], NewFrame(f))]
  BY DEF IgnoreEnter
<1>4. frames'[f] = Append(frames[f], NewFrame(f))
  BY <1>3 DEF TypeOK
<1>5. Append(frames[f], NewFrame(f)) \in Seq(Frame)
  BY <1>1, <1>2
<1>6. QED
  BY <1>1, <1>2, <1>3, <1>4, <1>5 DEF TypeOK

\* Leaving a block pops the last frame of its flow.
LEMMA ExitPops ==
    ASSUME TypeOK, NEW f \in Flows, IgnoreExit(f)
    PROVE  /\ frames' \in [Flows -> Seq(Frame)]
           /\ \A g \in Flows \ {f} : frames'[g] = frames[g]
           /\ Len(frames[f]) \in Nat \ {0}
           /\ Len(frames'[f]) = Len(frames[f]) - 1
           /\ \A i \in 1..Len(frames[f]) - 1 : frames'[f][i] = frames[f][i]
           /\ frames[f][Len(frames[f])] \in Frame
<1>1. frames[f] \in Seq(Frame) /\ frames[f] # <<>>
  BY DEF TypeOK, IgnoreExit, Reconnects
<1>2. frames' = [frames EXCEPT ![f] = SubSeq(frames[f], 1, Len(frames[f]) - 1)]
  BY DEF IgnoreExit, Reconnects
<1>3. frames'[f] = SubSeq(frames[f], 1, Len(frames[f]) - 1)
  BY <1>2 DEF TypeOK
<1>4. SubSeq(frames[f], 1, Len(frames[f]) - 1) \in Seq(Frame)
  BY <1>1
<1>5. /\ Len(frames[f]) \in Nat \ {0}
      /\ frames[f][Len(frames[f])] \in Frame
      /\ Len(SubSeq(frames[f], 1, Len(frames[f]) - 1)) = Len(frames[f]) - 1
      /\ \A i \in 1..Len(frames[f]) - 1 :
            SubSeq(frames[f], 1, Len(frames[f]) - 1)[i] = frames[f][i]
  BY <1>1
<1>6. frames' \in [Flows -> Seq(Frame)] /\ \A g \in Flows \ {f} : frames'[g] = frames[g]
  BY <1>2, <1>4 DEF TypeOK
<1>7. QED
  BY <1>3, <1>5, <1>6

--------------------------------------------------------------------------------
(* Type correctness: the state keeps its type under every operation. *)
THEOREM TypeCorrect == Spec => []TypeOK
<1>1. Init => TypeOK
  BY DEF Init, TypeOK, Strength
<1>2. TypeOK /\ [Next]_vars => TypeOK'
  <2> SUFFICES ASSUME TypeOK, [Next]_vars PROVE TypeOK'
    OBVIOUS
  <2> USE ScopesAssumption, ReceiversAssumption DEF TypeOK, Strength, Scopes
  <2>1. ASSUME NEW f \in Flows, NEW r \in Receivers, Connect(f, r) PROVE TypeOK'
    BY <2>1 DEF Connect
  <2>2. ASSUME NEW f \in Flows, NEW r \in Receivers, Disconnect(f, r) PROVE TypeOK'
    BY <2>2 DEF Disconnect
  <2>3. ASSUME NEW r \in Receivers, Collect(r) PROVE TypeOK'
    BY <2>3 DEF Collect
  <2>4. ASSUME NEW f \in Flows, IgnoreEnter(f) PROVE TypeOK'
    <3>1. stored' \in [Receivers -> {"absent", "strong", "weak"}] /\ subs' \subseteq Receivers \X (Workers \cup {ANY})
      BY <2>4 DEF IgnoreEnter, DropAll
    <3>2. NewFrame(f).strong \subseteq NewFrame(f).held
      BY DEF NewFrame
    <3>3. ASSUME NEW g \in Flows, NEW i \in 1..Len(frames'[g])
          PROVE  frames'[g][i].strong \subseteq frames'[g][i].held
      <4>1. CASE g # f
        <5>1. frames'[g] = frames[g]
          BY <2>4, <4>1, EnterPushes
        <5>2. QED
          BY <5>1
      <4>2. CASE g = f
        <5>1. i \in 1..Len(frames[f]) \/ i = Len(frames[f]) + 1
          BY <2>4, <4>2, EnterPushes
        <5>2. QED
          BY <2>4, <3>2, <4>2, <5>1, EnterPushes
      <4>3. QED
        BY <4>1, <4>2
    <3>4. frames' \in [Flows -> Seq(Frame)]
      BY <2>4, EnterPushes
    <3>5. phase' = phase /\ pending' = pending
      BY <2>4 DEF IgnoreEnter
    <3>6. QED
      BY <3>1, <3>3, <3>4, <3>5
  <2>5. ASSUME NEW f \in Flows, IgnoreExit(f) PROVE TypeOK'
    <3>1. frames[f][Len(frames[f])].held \subseteq Receivers
      BY <2>5, ExitPops DEF Frame
    <3>2. stored' \in [Receivers -> {"absent", "strong", "weak"}] /\ subs' \subseteq Receivers \X (Workers \cup {ANY})
      BY <2>5, <3>1 DEF IgnoreExit, Reconnects
    <3>3. QED
      BY <2>5, <3>2, ExitPops DEF IgnoreExit, Reconnects
  <2>6. ASSUME NEW f \in Flows, Send(f) PROVE TypeOK'
    BY <2>6 DEF Send
  <2>7. ASSUME NEW f \in Flows, NEW r \in Receivers, Call(f, r) \/ CallRaises(f, r) \/ Skip(f, r)
        PROVE TypeOK'
    BY <2>7 DEF Call, CallRaises, Skip
  <2>8. CASE UNCHANGED vars
    BY <2>8 DEF vars
  <2>9. QED
    BY <2>1, <2>2, <2>3, <2>4, <2>5, <2>6, <2>7, <2>8 DEF Next
<1>3. QED
  BY <1>1, <1>2, PTL DEF Spec

--------------------------------------------------------------------------------
(* The frames after a step, described from those before it. *)

\* Every frame after entering a block is an old one or the new one.
LEMMA FramesAfterEnter ==
    ASSUME TypeOK, NEW f \in Flows, IgnoreEnter(f), NEW g \in Flows, NEW i \in 1..Len(frames'[g])
    PROVE  \/ i \in 1..Len(frames[g]) /\ frames'[g][i] = frames[g][i]
           \/ g = f /\ i = Len(frames[f]) + 1 /\ frames'[g][i] = NewFrame(f)
<1>1. CASE g # f
  BY <1>1, EnterPushes
<1>2. CASE g = f
  <2>1. i \in 1..Len(frames[f]) \/ i = Len(frames[f]) + 1
    BY <1>2, EnterPushes
  <2>2. QED
    BY <1>2, <2>1, EnterPushes
<1>3. QED
  BY <1>1, <1>2

\* Every frame after leaving a block is an old one, below the top.
LEMMA FramesAfterExit ==
    ASSUME TypeOK, NEW f \in Flows, IgnoreExit(f), NEW g \in Flows, NEW i \in 1..Len(frames'[g])
    PROVE  /\ i \in 1..Len(frames[g])
           /\ frames'[g][i] = frames[g][i]
           /\ g = f => i < Len(frames[f])
<1>1. CASE g # f
  BY <1>1, ExitPops
<1>2. CASE g = f
  <2>1. i \in 1..Len(frames[f]) - 1
    BY <1>2, ExitPops
  <2>2. QED
    BY <1>2, <2>1, ExitPops
<1>3. QED
  BY <1>1, <1>2

\* The frame that the end of a block reads exists and holds receivers.
LEMMA TopFrame ==
    ASSUME TypeOK, NEW f \in Flows, IgnoreExit(f)
    PROVE  /\ Len(frames[f]) \in 1..Len(frames[f])
           /\ frames[f][Len(frames[f])].held \subseteq Receivers
BY ExitPops DEF Frame

\* The fields of a new frame.
LEMMA NewFrameHeld ==
    ASSUME NEW f \in Flows
    PROVE  /\ NewFrame(f).held = ReceiversFor(FlowScope[f])
           /\ NewFrame(f).strong = {r \in ReceiversFor(FlowScope[f]) : stored[r] = "strong"}
           /\ NewFrame(f).live = {r \in Receivers : phase[r] = "live" /\ ReceiverScope[r] = FlowScope[f]}
BY DEF NewFrame

--------------------------------------------------------------------------------
(* Subscriptions and frames stay within the scopes, and strength is kept. *)

\* Inv1 holds initially.
LEMMA ScopedInit == Init => Inv1
BY ScopesAssumption DEF Init, Inv1, TypeOK, Strength, SubsInScope, HeldInScope, StrengthKept

\* Inv1 is inductive.
LEMMA ScopedStep == Inv1 /\ TypeOK' /\ [Next]_vars => Inv1'
<1> SUFFICES ASSUME Inv1, TypeOK', [Next]_vars PROVE Inv1'
  OBVIOUS
<1> USE ScopesAssumption, ReceiversAssumption
<1>1. ASSUME NEW f \in Flows, NEW r \in Receivers, Connect(f, r) PROVE Inv1'
  BY <1>1 DEF Connect, Inv1, TypeOK, Strength, SubsInScope, HeldInScope, StrengthKept, Scopes
<1>2. ASSUME NEW r \in Receivers, UNCHANGED frames,
             stored' = [stored EXCEPT ![r] = "absent"], subs' = subs \ ({r} \X Scopes)
      PROVE Inv1'
  BY <1>2 DEF Inv1, TypeOK, Strength, SubsInScope, HeldInScope, StrengthKept, Scopes
<1>3. ASSUME NEW f \in Flows, NEW r \in Receivers, Disconnect(f, r) PROVE Inv1'
  BY <1>2, <1>3 DEF Disconnect
<1>4. ASSUME NEW r \in Receivers, Collect(r) PROVE Inv1'
  BY <1>2, <1>4 DEF Collect
<1>5. ASSUME NEW f \in Flows, IgnoreEnter(f) PROVE Inv1'
  <2>1. SubsInScope'
    BY <1>5 DEF IgnoreEnter, DropAll, Inv1, TypeOK, SubsInScope, Scopes
  <2>2. ASSUME NEW g \in Flows, NEW i \in 1..Len(frames'[g]), NEW r \in frames'[g][i].held
        PROVE  ReceiverScope[r] \in {FlowScope[g], ANY} /\ (r \in frames'[g][i].strong <=> r \notin Weak)
    <3>1. CASE i \in 1..Len(frames[g]) /\ frames'[g][i] = frames[g][i]
      BY <2>2, <3>1 DEF Inv1, HeldInScope
    <3>2. CASE g = f /\ frames'[g][i] = NewFrame(f)
      <4>1. r \in ReceiversFor(FlowScope[f])
        BY <2>2, <3>2, NewFrameHeld
      <4>2. r \in Receivers /\ stored[r] # "absent"
            /\ (<<r, ANY>> \in subs \/ <<r, FlowScope[f]>> \in subs)
        BY <4>1 DEF ReceiversFor
      <4>3. ReceiverScope[r] \in {FlowScope[f], ANY}
        BY <4>2 DEF Inv1, SubsInScope, Scopes
      <4>4. stored[r] = "strong" <=> r \notin Weak
        BY <4>2 DEF Inv1, StrengthKept
      <4>5. r \in NewFrame(f).strong <=> stored[r] = "strong"
        BY <4>1, NewFrameHeld
      <4>6. QED
        BY <3>2, <4>3, <4>4, <4>5
    <3>3. QED
      BY <1>5, <3>1, <3>2, FramesAfterEnter DEF Inv1
  <2>3. StrengthKept'
    BY <1>5 DEF IgnoreEnter, DropAll, Inv1, TypeOK, StrengthKept
  <2>4. QED
    BY <2>1, <2>2, <2>3 DEF Inv1, HeldInScope
<1>6. ASSUME NEW f \in Flows, IgnoreExit(f) PROVE Inv1'
  <2> DEFINE top == frames[f][Len(frames[f])]
  <2>1. top.held \subseteq Receivers /\ Len(frames[f]) \in 1..Len(frames[f])
    BY <1>6, TopFrame DEF Inv1
  <2>2. \A r \in top.held :
            ReceiverScope[r] \in {FlowScope[f], ANY} /\ (r \in top.strong <=> r \notin Weak)
    BY <2>1 DEF Inv1, HeldInScope
  <2>3. /\ stored' = [r \in Receivers |-> IF r \notin top.held THEN stored[r]
                          ELSE IF r \in top.strong THEN "strong" ELSE "weak"]
        /\ subs' = subs \cup (top.held \X {FlowScope[f]})
    BY <1>6 DEF IgnoreExit, Reconnects
  <2> HIDE DEF top
  <2>4. SubsInScope'
    BY <2>1, <2>2, <2>3 DEF Inv1, TypeOK, SubsInScope, Scopes
  <2>5. StrengthKept'
    BY <2>2, <2>3 DEF Inv1, StrengthKept
  <2>6. ASSUME NEW g \in Flows, NEW i \in 1..Len(frames'[g]), NEW r \in frames'[g][i].held
        PROVE  ReceiverScope[r] \in {FlowScope[g], ANY} /\ (r \in frames'[g][i].strong <=> r \notin Weak)
    BY <1>6, <2>6, FramesAfterExit DEF Inv1, HeldInScope
  <2>7. QED
    BY <2>4, <2>5, <2>6 DEF Inv1, HeldInScope
<1>7. ASSUME UNCHANGED <<stored, subs, frames>> PROVE Inv1'
  BY <1>7 DEF Inv1, TypeOK, SubsInScope, HeldInScope, StrengthKept
<1>8. QED
  BY <1>1, <1>3, <1>4, <1>5, <1>6, <1>7 DEF Next, vars, Send, Call, CallRaises, Skip

\* ignore restores the strength of every receiver it takes out.
THEOREM StrengthIsKept == Spec => []StrengthKept
<1>1. Inv1 => StrengthKept
  BY DEF Inv1
<1>2. QED
  BY <1>1, ScopedInit, ScopedStep, TypeCorrect, PTL DEF Spec

--------------------------------------------------------------------------------
(* No live handler is lost, for flows of any scope. *)

\* A block of r's scope holds r.
HeldSomewhere(r) == \E g \in Flows : FlowScope[g] = ReceiverScope[r] /\ r \in Held(g)

\* Held by a flow means held by one of its frames.
LEMMA HeldIn ==
    ASSUME NEW f \in Flows, NEW r
    PROVE  r \in Held(f) <=> \E i \in 1..Len(frames[f]) : r \in frames[f][i].held
BY DEF Held

\* The same in the next state.
LEMMA HeldInNext ==
    ASSUME NEW f \in Flows, NEW r
    PROVE  r \in Held(f)' <=> \E i \in 1..Len(frames'[f]) : r \in frames'[f][i].held
BY DEF Held

\* No step loses a live handler.
LEMMA LiveStep == Inv1 /\ LiveIsReachable /\ [Next]_vars => LiveIsReachable'
<1> SUFFICES ASSUME Inv1, LiveIsReachable, [Next]_vars,
                    NEW r \in Receivers, phase'[r] = "live"
             PROVE  Reachable(r)' \/ HeldSomewhere(r)'
  BY DEF LiveIsReachable, HeldSomewhere
<1> USE ScopesAssumption
<1> DEFINE Goal == Reachable(r)' \/ HeldSomewhere(r)'
<1>a. ASSUME phase[r] = "live" PROVE Reachable(r) \/ HeldSomewhere(r)
  BY <1>a DEF LiveIsReachable, HeldSomewhere
<1>b. ASSUME phase[r] = "live", Reachable(r) => Reachable(r)', UNCHANGED frames PROVE Goal
  BY <1>a, <1>b DEF HeldSomewhere, Held
<1>1. ASSUME NEW f \in Flows, NEW q \in Receivers, Connect(f, q) PROVE Goal
  <2>1. CASE q = r
    BY <1>1, <2>1 DEF Connect, Reachable, Inv1, TypeOK
  <2>2. CASE q # r
    <3>1. phase[r] = "live" /\ (Reachable(r) => Reachable(r)') /\ UNCHANGED frames
      BY <1>1, <2>2 DEF Connect, Reachable, Inv1, TypeOK
    <3>2. QED
      BY <3>1, <1>b
  <2>3. QED
    BY <2>1, <2>2
<1>2. ASSUME NEW q \in Receivers, UNCHANGED frames, phase' = [phase EXCEPT ![q] = "gone"],
             stored' = [stored EXCEPT ![q] = "absent"], subs' = subs \ ({q} \X Scopes)
      PROVE Goal
  <2>1. phase[r] = "live" /\ q # r
    BY <1>2 DEF Inv1, TypeOK
  <2>2. Reachable(r) => Reachable(r)'
    BY <1>2, <2>1 DEF Reachable, Inv1, TypeOK
  <2>3. QED
    BY <1>2, <2>1, <2>2, <1>b
<1>3. ASSUME NEW f \in Flows, NEW q \in Receivers, Disconnect(f, q) PROVE Goal
  BY <1>2, <1>3 DEF Disconnect
<1>4. ASSUME NEW q \in Receivers, Collect(q) PROVE Goal
  BY <1>2, <1>4 DEF Collect
<1>5. ASSUME NEW f \in Flows, IgnoreEnter(f) PROVE Goal
  <2>0. phase[r] = "live"
    BY <1>5 DEF IgnoreEnter
  <2>1. CASE HeldSomewhere(r)
    <3>1. PICK g \in Flows : FlowScope[g] = ReceiverScope[r] /\ r \in Held(g)
      BY <2>1 DEF HeldSomewhere
    <3>2. PICK i \in 1..Len(frames[g]) : r \in frames[g][i].held
      BY <3>1, HeldIn
    <3>3. i \in 1..Len(frames'[g]) /\ frames'[g][i] = frames[g][i]
      <4>1. CASE g = f
        BY <1>5, <4>1, EnterPushes DEF Inv1
      <4>2. CASE g # f
        BY <1>5, <4>2, EnterPushes DEF Inv1
      <4>3. QED
        BY <4>1, <4>2
    <3>4. QED
      BY <3>1, <3>2, <3>3, HeldInNext DEF HeldSomewhere
  <2>2. CASE Reachable(r) /\ r \in ReceiversFor(FlowScope[f]) /\ ReceiverScope[r] = FlowScope[f]
    <3>1. /\ Len(frames[f]) + 1 \in 1..Len(frames'[f])
          /\ frames'[f][Len(frames[f]) + 1].held = ReceiversFor(FlowScope[f])
      BY <1>5, EnterPushes, NewFrameHeld DEF Inv1
    <3>2. QED
      BY <2>2, <3>1, HeldInNext DEF HeldSomewhere
  <2>3. CASE Reachable(r) /\ ~(r \in ReceiversFor(FlowScope[f]) /\ ReceiverScope[r] = FlowScope[f])
    <3>1. r \in ReceiversFor(FlowScope[f]) => ReceiverScope[r] = ANY /\ FlowScope[f] # ANY
      BY <2>3 DEF ReceiversFor, Inv1, SubsInScope, Scopes
    <3>2. Reachable(r)'
      BY <1>5, <2>3, <3>1 DEF IgnoreEnter, DropAll, Reachable, Inv1, TypeOK
    <3>3. QED
      BY <3>2
  <2>4. QED
    BY <2>0, <2>1, <2>2, <2>3, <1>a
<1>6. ASSUME NEW f \in Flows, IgnoreExit(f) PROVE Goal
  <2> DEFINE top == frames[f][Len(frames[f])]
  <2>0. phase[r] = "live"
    BY <1>6 DEF IgnoreExit, Reconnects
  <2>1. /\ stored' = [q \in Receivers |-> IF q \notin top.held THEN stored[q]
                          ELSE IF q \in top.strong THEN "strong" ELSE "weak"]
        /\ subs' = subs \cup (top.held \X {FlowScope[f]})
    BY <1>6 DEF IgnoreExit, Reconnects
  <2>2. CASE Reachable(r)
    BY <2>1, <2>2 DEF Reachable
  <2>3. CASE HeldSomewhere(r)
    <3>1. PICK g \in Flows : FlowScope[g] = ReceiverScope[r] /\ r \in Held(g)
      BY <2>3 DEF HeldSomewhere
    <3>2. PICK i \in 1..Len(frames[g]) : r \in frames[g][i].held
      BY <3>1, HeldIn
    <3>3. CASE g = f /\ i = Len(frames[f])
      <4>1. r \in top.held
        BY <3>2, <3>3
      <4>2. <<r, FlowScope[f]>> \in subs' /\ stored'[r] # "absent"
        BY <2>1, <4>1
      <4>3. QED
        BY <3>1, <3>3, <4>2 DEF Reachable
    <3>4. CASE ~(g = f /\ i = Len(frames[f]))
      <4>1. i \in 1..Len(frames'[g]) /\ frames'[g][i] = frames[g][i]
        <5>1. CASE g = f
          BY <1>6, <3>4, <5>1, ExitPops DEF Inv1
        <5>2. CASE g # f
          BY <1>6, <5>2, ExitPops DEF Inv1
        <5>3. QED
          BY <5>1, <5>2
      <4>2. QED
        BY <3>1, <3>2, <4>1, HeldInNext DEF HeldSomewhere
    <3>5. QED
      BY <3>3, <3>4
  <2>4. QED
    BY <2>0, <2>2, <2>3, <1>a
<1>7. ASSUME UNCHANGED <<stored, subs, phase, frames>> PROVE Goal
  <2>1. phase[r] = "live" /\ (Reachable(r) => Reachable(r)')
    BY <1>7 DEF Reachable
  <2>2. QED
    BY <1>7, <2>1, <1>b
<1>8. QED
  BY <1>1, <1>3, <1>4, <1>5, <1>6, <1>7 DEF Next, vars, Send, Call, CallRaises, Skip

\* A listener that is set up hears its worker or is held by an ignore block of
\* that worker, however the blocks of different flows overlap.
THEOREM LiveHandlersAreReachable == Spec => []LiveIsReachable
<1>1. Init => LiveIsReachable
  BY DEF Init, LiveIsReachable
<1>2. QED
  BY <1>1, ScopedInit, ScopedStep, LiveStep, TypeCorrect, PTL DEF Spec

--------------------------------------------------------------------------------
(* A flow alone in its worker: what it muted stays muted, what was cleaned *)
(* up stays forgotten.                                                     *)

\* For a receiver r of the scope of f: unless it is live it is forgotten, an open
\* block of f holds it only while it is live, and a block entered while it was
\* live keeps it out of the buckets, of the sends, and so of every inner block.
OwnInv(f, r) ==
    /\ phase[r] # "live" => Forgotten(r)
    /\ \A i \in 1..Len(frames[f]) : r \in frames[f][i].held => phase[r] = "live"
    /\ \A i \in 1..Len(frames[f]) : r \in frames[f][i].live =>
          /\ phase[r] # "new"
          /\ r \notin Reconnected =>
                /\ <<r, FlowScope[f]>> \notin subs
                /\ r \notin pending[f]
                /\ \A j \in 1..Len(frames[f]) : i < j => r \notin frames[f][j].held

\* OwnInv for the handlers of every flow that is alone in its worker.
ExclusiveInv ==
    \A f \in Flows, r \in Receivers :
        Exclusive(f) /\ ReceiverScope[r] = FlowScope[f] => OwnInv(f, r)

\* ExclusiveInv holds initially.
LEMMA ExclusiveInit == Init => ExclusiveInv
BY DEF Init, ExclusiveInv, OwnInv, Forgotten

\* ExclusiveInv is inductive relative to Inv1.
LEMMA ExclusiveStep == Inv1 /\ ExclusiveInv /\ [Next]_vars => ExclusiveInv'
<1> SUFFICES ASSUME Inv1, ExclusiveInv, [Next]_vars,
                    NEW f \in Flows, NEW r \in Receivers,
                    Exclusive(f), ReceiverScope[r] = FlowScope[f]
             PROVE  OwnInv(f, r)'
  BY DEF ExclusiveInv
<1> USE ScopesAssumption
<1>0. /\ OwnInv(f, r)
      /\ FlowScope[f] \in Scopes /\ FlowScope[f] # ANY
      /\ \A g \in Flows : FlowScope[g] = FlowScope[f] => g = f
  BY DEF ExclusiveInv, Exclusive
<1>a. <<r, ANY>> \notin subs
  BY <1>0 DEF Inv1, SubsInScope, Scopes
<1>1. ASSUME NEW g \in Flows, NEW q \in Receivers, Connect(g, q) PROVE OwnInv(f, r)'
  <2>1. CASE q # r
    BY <1>0, <1>1, <2>1 DEF Connect, OwnInv, Forgotten, Inv1, TypeOK
  <2>2. CASE q = r
    BY <1>0, <1>1, <2>2 DEF Connect, OwnInv, Forgotten, Inv1, TypeOK
  <2>3. QED
    BY <2>1, <2>2
<1>2. ASSUME NEW q \in Receivers, UNCHANGED <<frames, pending>>, q = r => r \notin Held(f),
             stored' = [stored EXCEPT ![q] = "absent"], subs' = subs \ ({q} \X Scopes),
             phase' = [phase EXCEPT ![q] = "gone"]
      PROVE OwnInv(f, r)'
  <2>1. CASE q # r
    BY <1>0, <1>2, <2>1 DEF OwnInv, Forgotten, Inv1, TypeOK
  <2>2. CASE q = r
    <3>1. \A i \in 1..Len(frames[f]) : r \notin frames[f][i].held
      BY <1>2, <2>2, HeldIn
    <3>2. QED
      BY <1>0, <1>2, <2>2, <3>1 DEF OwnInv, Forgotten, Inv1, TypeOK
  <2>3. QED
    BY <2>1, <2>2
<1>3. ASSUME NEW g \in Flows, NEW q \in Receivers, Disconnect(g, q) PROVE OwnInv(f, r)'
  <2>1. q = r => r \notin Held(f)
    BY <1>0, <1>3 DEF Disconnect
  <2>2. QED
    BY <1>2, <1>3, <2>1 DEF Disconnect
<1>4. ASSUME NEW q \in Receivers, Collect(q) PROVE OwnInv(f, r)'
  BY <1>2, <1>4 DEF Collect
<1>5. ASSUME NEW g \in Flows, IgnoreEnter(g) PROVE OwnInv(f, r)'
  <2>1. subs' \subseteq subs /\ phase' = phase /\ pending' = pending
    BY <1>5 DEF IgnoreEnter, DropAll
  <2>2. Forgotten(r) => Forgotten(r)'
    BY <1>5, <2>1 DEF IgnoreEnter, DropAll, Forgotten
  <2>3. CASE g # f
    BY <1>0, <1>5, <2>1, <2>2, <2>3, EnterPushes DEF OwnInv, Inv1
  <2>4. CASE g = f
    <3>1. r \in ReceiversFor(FlowScope[f]) <=> <<r, FlowScope[f]>> \in subs
      BY <1>0, <1>a DEF ReceiversFor, Inv1, SubsInScope
    <3>2. <<r, FlowScope[f]>> \notin subs'
      BY <1>0, <1>5, <2>1, <2>4, <3>1 DEF IgnoreEnter, DropAll
    <3>3. r \notin pending'[f]
      BY <1>5, <2>4 DEF IgnoreEnter
    <3> DEFINE n == Len(frames[f])
    <3>4. /\ n \in Nat /\ Len(frames'[f]) = n + 1
          /\ \A i \in 1..n : frames'[f][i] = frames[f][i]
          /\ frames'[f][n + 1].held = ReceiversFor(FlowScope[f])
          /\ r \in frames'[f][n + 1].live <=> phase[r] = "live"
      BY <1>0, <1>5, <2>4, EnterPushes, NewFrameHeld DEF Inv1
    <3>5. r \in ReceiversFor(FlowScope[f]) => phase[r] = "live"
      BY <1>0, <3>1 DEF OwnInv, Forgotten
    <3>6. ASSUME NEW i \in 1..Len(frames'[f]), r \in frames'[f][i].held PROVE phase[r] = "live"
      <4>1. CASE i \in 1..n
        BY <1>0, <3>4, <3>6, <4>1 DEF OwnInv
      <4>2. CASE i = n + 1
        BY <3>4, <3>5, <3>6, <4>2
      <4>3. QED
        BY <3>4, <4>1, <4>2
    <3>7. ASSUME NEW i \in 1..Len(frames'[f]), r \in frames'[f][i].live
          PROVE  /\ phase[r] # "new"
                 /\ r \notin Reconnected =>
                        \A j \in 1..Len(frames'[f]) : i < j => r \notin frames'[f][j].held
      <4>1. CASE i \in 1..n
        <5>1. phase[r] # "new"
          BY <1>0, <3>4, <3>7, <4>1 DEF OwnInv
        <5>2. ASSUME r \notin Reconnected, NEW j \in 1..Len(frames'[f]), i < j
              PROVE  r \notin frames'[f][j].held
          <6>1. CASE j \in 1..n
            BY <1>0, <3>4, <3>7, <4>1, <5>2, <6>1 DEF OwnInv
          <6>2. CASE j = n + 1
            <7>1. <<r, FlowScope[f]>> \notin subs
              BY <1>0, <3>4, <3>7, <4>1, <5>2 DEF OwnInv
            <7>2. QED
              BY <3>1, <3>4, <6>2, <7>1
          <6>3. QED
            BY <3>4, <6>1, <6>2
        <5>3. QED
          BY <5>1, <5>2
      <4>2. CASE i = n + 1
        BY <3>4, <3>7, <4>2
      <4>3. QED
        BY <3>4, <4>1, <4>2
    <3>8. phase'[r] # "live" => Forgotten(r)'
      BY <1>0, <2>1, <2>2 DEF OwnInv
    <3>9. QED
      BY <2>1, <3>2, <3>3, <3>6, <3>7, <3>8 DEF OwnInv
  <2>5. QED
    BY <2>3, <2>4
<1>6. ASSUME NEW g \in Flows, IgnoreExit(g) PROVE OwnInv(f, r)'
  <2> DEFINE top == frames[g][Len(frames[g])]
  <2>1. /\ stored' = [q \in Receivers |-> IF q \notin top.held THEN stored[q]
                          ELSE IF q \in top.strong THEN "strong" ELSE "weak"]
        /\ subs' = subs \cup (top.held \X {FlowScope[g]})
        /\ phase' = phase /\ pending' = pending
    BY <1>6 DEF IgnoreExit, Reconnects
  <2>2. Len(frames[g]) \in 1..Len(frames[g])
    BY <1>6, TopFrame DEF Inv1
  <2>3. CASE g # f
    <3>1. r \notin top.held
      BY <1>0, <2>2, <2>3 DEF Inv1, HeldInScope
    <3>2. frames'[f] = frames[f]
      BY <1>6, <2>3, ExitPops DEF Inv1
    <3>3. stored'[r] = stored[r] /\ \A s : <<r, s>> \in subs' <=> <<r, s>> \in subs
      BY <2>1, <3>1
    <3> HIDE DEF top
    <3>4. QED
      BY <1>0, <2>1, <3>2, <3>3 DEF OwnInv, Forgotten
  <2>4. CASE g = f
    <3>1. r \in top.held => phase[r] = "live"
      BY <1>0, <2>2, <2>4 DEF OwnInv
    <3>2. r \notin top.held =>
              stored'[r] = stored[r] /\ \A s : <<r, s>> \in subs' <=> <<r, s>> \in subs
      BY <2>1
    <3>3. phase'[r] # "live" => Forgotten(r)'
      BY <1>0, <2>1, <3>1, <3>2 DEF OwnInv, Forgotten
    <3>4. \A i \in 1..Len(frames'[f]) :
              /\ i \in 1..Len(frames[f]) /\ i < Len(frames[f])
              /\ frames'[f][i] = frames[f][i]
      BY <1>6, <2>4, FramesAfterExit DEF Inv1
    <3>5. \A i \in 1..Len(frames'[f]) : r \in frames'[f][i].held => phase'[r] = "live"
      BY <1>0, <2>1, <3>4 DEF OwnInv
    <3>6. ASSUME NEW i \in 1..Len(frames'[f]), r \in frames'[f][i].live
          PROVE  /\ phase'[r] # "new"
                 /\ r \notin Reconnected =>
                       /\ <<r, FlowScope[f]>> \notin subs'
                       /\ r \notin pending'[f]
                       /\ \A j \in 1..Len(frames'[f]) : i < j => r \notin frames'[f][j].held
      <4>1. r \in frames[f][i].live /\ i \in 1..Len(frames[f]) /\ i < Len(frames[f])
        BY <3>4, <3>6
      <4>2. r \notin Reconnected => r \notin top.held
        BY <1>0, <2>2, <2>4, <4>1 DEF OwnInv
      <4>3. QED
        BY <1>0, <2>1, <3>2, <3>4, <4>1, <4>2 DEF OwnInv
    <3>7. QED
      BY <3>3, <3>5, <3>6 DEF OwnInv
  <2>5. QED
    BY <2>3, <2>4
<1>7. ASSUME NEW g \in Flows, Send(g) PROVE OwnInv(f, r)'
  <2>1. UNCHANGED <<stored, subs, phase, frames>>
    BY <1>7 DEF Send
  <2>2. r \in pending'[f] => r \in pending[f] \/ <<r, FlowScope[f]>> \in subs
    BY <1>7, <1>a DEF Send, Inv1, TypeOK
  <2>3. QED
    BY <1>0, <2>1, <2>2 DEF OwnInv, Forgotten
<1>8. ASSUME NEW g \in Flows, NEW q \in Receivers, Call(g, q) \/ CallRaises(g, q) \/ Skip(g, q)
      PROVE  OwnInv(f, r)'
  <2>1. UNCHANGED <<stored, subs, phase, frames>>
    BY <1>8 DEF Call, CallRaises, Skip
  <2>2. r \in pending'[f] => r \in pending[f]
    BY <1>8 DEF Call, CallRaises, Skip, Inv1, TypeOK
  <2>3. QED
    BY <1>0, <2>1, <2>2 DEF OwnInv, Forgotten
<1>9. CASE UNCHANGED vars
  BY <1>0, <1>9 DEF vars, OwnInv, Forgotten
<1>10. QED
  BY <1>1, <1>3, <1>4, <1>5, <1>6, <1>7, <1>8, <1>9 DEF Next

\* The handlers a block was entered with are those of its flow's scope.
LiveInScope ==
    \A f \in Flows : \A i \in 1..Len(frames[f]) : \A r \in frames[f][i].live :
        r \in Receivers /\ ReceiverScope[r] = FlowScope[f]

\* LiveInScope is inductive relative to TypeOK.
LEMMA LiveInScopeStep == TypeOK /\ LiveInScope /\ [Next]_vars => LiveInScope'
<1> SUFFICES ASSUME TypeOK, LiveInScope, [Next]_vars,
                    NEW g \in Flows, NEW i \in 1..Len(frames'[g]), NEW r \in frames'[g][i].live
             PROVE  r \in Receivers /\ ReceiverScope[r] = FlowScope[g]
  BY DEF LiveInScope
<1>1. ASSUME NEW f \in Flows, IgnoreEnter(f) PROVE r \in Receivers /\ ReceiverScope[r] = FlowScope[g]
  <2>1. CASE i \in 1..Len(frames[g]) /\ frames'[g][i] = frames[g][i]
    BY <2>1 DEF LiveInScope
  <2>2. CASE g = f /\ frames'[g][i] = NewFrame(f)
    BY <2>2, NewFrameHeld
  <2>3. QED
    BY <1>1, <2>1, <2>2, FramesAfterEnter
<1>2. ASSUME NEW f \in Flows, IgnoreExit(f) PROVE r \in Receivers /\ ReceiverScope[r] = FlowScope[g]
  BY <1>2, FramesAfterExit DEF LiveInScope
<1>3. CASE UNCHANGED frames
  BY <1>3 DEF LiveInScope
<1>4. QED
  BY <1>1, <1>2, <1>3 DEF Next, vars, Connect, Disconnect, Collect, Send, Call, CallRaises, Skip

\* What ExclusiveInv is for: the two properties of exclusive flows.
LEMMA ExclusiveImplies == ExclusiveInv /\ LiveInScope => IgnoreSuppresses /\ NoResurrection
<1> SUFFICES ASSUME ExclusiveInv, LiveInScope PROVE IgnoreSuppresses /\ NoResurrection
  OBVIOUS
<1>1. ASSUME NEW f \in Flows, Exclusive(f), NEW i \in 1..Len(frames[f]),
             NEW r \in frames[f][i].live \ Reconnected
      PROVE  r \notin pending[f]
  <2>1. r \in Receivers /\ ReceiverScope[r] = FlowScope[f]
    BY DEF LiveInScope
  <2>2. OwnInv(f, r)
    BY <1>1, <2>1 DEF ExclusiveInv
  <2>3. QED
    BY <2>2 DEF OwnInv
<1>2. NoResurrection
  BY DEF ExclusiveInv, OwnInv, NoResurrection
<1>3. QED
  BY <1>1, <1>2 DEF IgnoreSuppresses, Suppressed

\* In a flow alone in its worker an ignore block suppresses what it says it does,
\* and a handler that was cleaned up stays disconnected.
THEOREM ExclusiveFlows == Spec => [](IgnoreSuppresses /\ NoResurrection)
<1>1. Init => LiveInScope
  BY DEF Init, LiveInScope
<1>2. Inv1 => TypeOK
  BY DEF Inv1
<1>3. QED
  BY <1>1, <1>2, ExclusiveInit, ExclusiveStep, ScopedInit, ScopedStep, LiveInScopeStep,
     ExclusiveImplies, TypeCorrect, PTL DEF Spec

\* cleanup() of a handler of such a flow is final: no ignore block, of whatever
\* flow, connects it again.
THEOREM CleanupIsFinal == Spec => []NoResurrection
BY ExclusiveFlows, PTL

================================================================================
