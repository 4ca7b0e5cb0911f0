------------------------------- MODULE SignalBus -------------------------------
(***************************************************************************)
(* One blinker signal as nplusone uses it (src/nplusone/core/signals.py):  *)
(* lock-serialised connect, disconnect and ignore blocks, and lock-free    *)
(* sends that interleave with them.                                        *)
(*                                                                         *)
(* A flow is a thread or an asyncio task.  Its scope is what get_worker()  *)
(* returns in it: the worker of its request, or blinker's ANY when no      *)
(* integration overrides get_worker().  A receiver is one bound handler of *)
(* a listener; it is connected with the worker of the flow that sets the   *)
(* listener up, and that worker is the receiver's scope.                   *)
(***************************************************************************)
EXTENDS Integers, Sequences, FiniteSets

CONSTANTS
    Flows,          \* threads and tasks that emit, ignore and (dis)connect
    Receivers,      \* handlers that listeners connect to the signal
    Workers,        \* worker identifiers other than ANY
    ANY,            \* blinker.ANY
    FlowScope,      \* the worker of each flow
    ReceiverScope,  \* the sender each receiver is connected with
    Weak,           \* receivers connected as weak references
    Reconnected,    \* receivers connected again while live (handle_touch)
    MaxNesting      \* bound on the nesting of ignore blocks in one flow

Scopes == Workers \cup {ANY}

ASSUME ScopesAssumption ==
    /\ ANY \notin Workers
    /\ FlowScope \in [Flows -> Scopes]
    /\ ReceiverScope \in [Receivers -> Scopes]
ASSUME ReceiversAssumption ==
    /\ Weak \subseteq Receivers
    /\ Reconnected \subseteq Receivers
ASSUME NestingAssumption == MaxNesting \in Nat

VARIABLES
    stored,   \* Signal.receivers: how each receiver is referenced, if it is
    subs,     \* Signal._by_sender / _by_receiver as pairs <<receiver, sender>>
    phase,    \* history: where each receiver is in its listener's life
    frames,   \* the ignore blocks each flow is in, outermost first
    pending   \* receivers a send in progress has still to call, per flow

vars == <<stored, subs, phase, frames, pending>>

Strength == {"absent", "strong", "weak"}
\* What an ignore block remembers: whom it disconnected and who was strong;
\* history: which handlers of its worker were set up when it was entered.
Frame == [held : SUBSET Receivers, strong : SUBSET Receivers, live : SUBSET Receivers]

Held(f) == UNION {frames[f][i].held : i \in 1..Len(frames[f])}

\* Signal.receivers_for(sender): the ANY bucket and the sender's own.
ReceiversFor(s) ==
    {r \in Receivers : stored[r] # "absent" /\ (<<r, ANY>> \in subs \/ <<r, s>> \in subs)}

Init ==
    /\ stored = [r \in Receivers |-> "absent"]
    /\ subs = {}
    /\ phase = [r \in Receivers |-> "new"]
    /\ frames = [f \in Flows |-> <<>>]
    /\ pending = [f \in Flows |-> {}]

--------------------------------------------------------------------------------
\* A listener's setup connects its handler, and handle_eager connects
\* handle_touch again on each eager load.
Connect(f, r) ==
    /\ pending[f] = {}
    /\ ReceiverScope[r] = FlowScope[f]
    /\ phase[r] = "new" \/ (phase[r] = "live" /\ r \in Reconnected)
    /\ stored' = [stored EXCEPT ![r] = IF r \in Weak THEN "weak" ELSE "strong"]
    /\ subs' = subs \cup {<<r, ReceiverScope[r]>>}
    /\ phase' = [phase EXCEPT ![r] = "live"]
    /\ UNCHANGED <<frames, pending>>

\* A listener's cleanup: without a sender blinker drops every subscription.
\* A flow cleans up outside the ignore blocks it has open itself.
Disconnect(f, r) ==
    /\ pending[f] = {}
    /\ ReceiverScope[r] = FlowScope[f]
    /\ phase[r] = "live"
    /\ r \notin Held(f)
    /\ stored' = [stored EXCEPT ![r] = "absent"]
    /\ subs' = subs \ ({r} \X Scopes)
    /\ phase' = [phase EXCEPT ![r] = "gone"]
    /\ UNCHANGED <<frames, pending>>

\* The last strong reference to a weakly connected receiver goes away; an
\* ignore block's list of receivers is such a reference.
Collect(r) ==
    /\ r \in Weak
    /\ phase[r] = "live"
    /\ \A f \in Flows : r \notin Held(f)
    /\ stored' = [stored EXCEPT ![r] = "absent"]
    /\ subs' = subs \ ({r} \X Scopes)
    /\ phase' = [phase EXCEPT ![r] = "gone"]
    /\ UNCHANGED <<frames, pending>>

--------------------------------------------------------------------------------
\* Mutant of DropAll: the sender is ignored, the receivers are dropped altogether.
DropEverywhere(S, s) ==
    /\ stored' = [r \in Receivers |-> IF r \in S THEN "absent" ELSE stored[r]]
    /\ subs' = subs \ (S \X Scopes)

\* Mutant of DropAll: the receivers leave the ANY bucket only.
DropFromAny(S, s) == subs' = subs \ (S \X {ANY}) /\ UNCHANGED stored

\* Signal.disconnect(receiver, sender=sender) over all of S: with ANY as sender
\* the receiver is dropped altogether, otherwise only from the sender's bucket.
DropAll(S, s) ==
    IF s = ANY
    THEN /\ stored' = [r \in Receivers |-> IF r \in S THEN "absent" ELSE stored[r]]
         /\ subs' = subs \ (S \X Scopes)
    ELSE /\ subs' = subs \ (S \X {s})
         /\ UNCHANGED stored

\* Mutant of NewFrame: every receiver of the signal is remembered as strong or not,
\* not only those the block takes out.
NewFrameAllStrong(f) ==
    [held |-> ReceiversFor(FlowScope[f]),
     strong |-> {r \in Receivers : stored[r] = "strong"},
     live |-> {r \in Receivers : phase[r] = "live" /\ ReceiverScope[r] = FlowScope[f]}]

\* Mutant of NewFrame: the snapshot is of the whole signal, not of the worker.
NewFrameAll(f) ==
    [held |-> {r \in Receivers : stored[r] # "absent"},
     strong |-> {r \in Receivers : stored[r] = "strong"},
     live |-> {r \in Receivers : phase[r] = "live" /\ ReceiverScope[r] = FlowScope[f]}]

\* The snapshot taken on entry.
NewFrame(f) ==
    [held |-> ReceiversFor(FlowScope[f]),
     strong |-> {r \in ReceiversFor(FlowScope[f]) : stored[r] = "strong"},
     live |-> {r \in Receivers : phase[r] = "live" /\ ReceiverScope[r] = FlowScope[f]}]

IgnoreEnter(f) ==
    /\ pending[f] = {}
    /\ Len(frames[f]) < MaxNesting
    /\ frames' = [frames EXCEPT ![f] = Append(@, NewFrame(f))]
    /\ DropAll(ReceiversFor(FlowScope[f]), FlowScope[f])
    /\ UNCHANGED <<phase, pending>>

\* The end of a block that connects the receivers in held to the sender s again,
\* those in strong as strong references.
Reconnects(f, held, strong, s) ==
    /\ pending[f] = {}
    /\ frames[f] # <<>>
    /\ stored' = [r \in Receivers |->
            IF r \notin held THEN stored[r] ELSE IF r \in strong THEN "strong" ELSE "weak"]
    /\ subs' = subs \cup (held \X {s})
    /\ frames' = [frames EXCEPT ![f] = SubSeq(@, 1, Len(@) - 1)]
    /\ UNCHANGED <<phase, pending>>

\* Mutants of IgnoreExit: weak receivers are not connected again; all become
\* strong; an inner block gives back what the outer ones hold too; the sender is
\* forgotten.
IgnoreExitStrongOnly(f) ==
    LET top == frames[f][Len(frames[f])] IN Reconnects(f, top.strong, top.strong, FlowScope[f])
IgnoreExitAllStrong(f) ==
    LET top == frames[f][Len(frames[f])] IN Reconnects(f, top.held, top.held, FlowScope[f])
IgnoreExitOuter(f) ==
    LET top == frames[f][Len(frames[f])] IN Reconnects(f, Held(f), top.strong, FlowScope[f])
IgnoreExitToAny(f) ==
    LET top == frames[f][Len(frames[f])] IN Reconnects(f, top.held, top.strong, ANY)

\* The finally branch: the snapshot is connected again, whatever happened to
\* its receivers in between.
IgnoreExit(f) ==
    LET top == frames[f][Len(frames[f])] IN Reconnects(f, top.held, top.strong, FlowScope[f])

--------------------------------------------------------------------------------
\* Mutant of Send: every receiver is called, whatever its sender.
SendToAll(f) ==
    /\ pending[f] = {}
    /\ ReceiversFor(FlowScope[f]) # {}
    /\ pending' = [pending EXCEPT ![f] = {r \in Receivers : stored[r] # "absent"}]
    /\ UNCHANGED <<stored, subs, phase, frames>>

\* A send takes no lock: it computes the set of receiver ids once, and looks
\* each of them up when its turn comes.
Send(f) ==
    /\ pending[f] = {}
    /\ ReceiversFor(FlowScope[f]) # {}
    /\ pending' = [pending EXCEPT ![f] =
            {r \in Receivers : <<r, ANY>> \in subs \/ <<r, FlowScope[f]>> \in subs}]
    /\ UNCHANGED <<stored, subs, phase, frames>>

\* The handler of r runs and returns.
Call(f, r) ==
    /\ r \in pending[f]
    /\ stored[r] # "absent"
    /\ pending' = [pending EXCEPT ![f] = @ \ {r}]
    /\ UNCHANGED <<stored, subs, phase, frames>>

\* The handler of r raises (NPLUSONE_RAISE): the send stops there.
CallRaises(f, r) ==
    /\ r \in pending[f]
    /\ stored[r] # "absent"
    /\ pending' = [pending EXCEPT ![f] = {}]
    /\ UNCHANGED <<stored, subs, phase, frames>>

\* r was disconnected since the send computed its ids.
Skip(f, r) ==
    /\ r \in pending[f]
    /\ stored[r] = "absent"
    /\ pending' = [pending EXCEPT ![f] = @ \ {r}]
    /\ UNCHANGED <<stored, subs, phase, frames>>

Next ==
    \/ \E f \in Flows :
        \/ IgnoreEnter(f)
        \/ IgnoreExit(f)
        \/ Send(f)
        \/ \E r \in Receivers :
            \/ Connect(f, r)
            \/ Disconnect(f, r)
            \/ Call(f, r)
            \/ CallRaises(f, r)
            \/ Skip(f, r)
    \/ \E r \in Receivers : Collect(r)

Spec == Init /\ [][Next]_vars

\* A send in progress goes on.
Proceeds(f) == \E r \in Receivers : Call(f, r) \/ CallRaises(f, r) \/ Skip(f, r)

\* Handlers return, and the code inside an ignore block ends - at every depth, or
\* a flow could enter and leave inner blocks for ever.  Between the two a block may
\* send again and again, hence strong fairness.
FairSpec ==
    /\ Spec
    /\ \A f \in Flows :
        /\ WF_vars(Proceeds(f))
        /\ \A depth \in 1..MaxNesting : SF_vars(Len(frames[f]) = depth /\ IgnoreExit(f))

--------------------------------------------------------------------------------
\* Types; and a receiver an ignore block reconnects strongly is one it took out
\* (signals.py:ignore restores was_strong for its own snapshot only).
TypeOK ==
    /\ stored \in [Receivers -> Strength]
    /\ subs \subseteq Receivers \X Scopes
    /\ phase \in [Receivers -> {"new", "live", "gone"}]
    /\ frames \in [Flows -> Seq(Frame)]
    /\ \A f \in Flows : \A i \in 1..Len(frames[f]) : frames[f][i].strong \subseteq frames[f][i].held
    /\ pending \in [Flows -> SUBSET Receivers]

\* f is the only flow of its worker: a Django request served by one thread, a
\* Flask request.
Exclusive(f) ==
    /\ FlowScope[f] # ANY
    /\ \A g \in Flows : FlowScope[g] = FlowScope[f] => g = f

Reachable(r) == stored[r] # "absent" /\ <<r, ReceiverScope[r]>> \in subs

\* Detection is never lost for good: a listener that is set up and not yet
\* cleaned up hears its worker, or an open ignore block of that worker has it
\* and gives it back at its end - however blocks of different flows overlap.
LiveIsReachable ==
    \A r \in Receivers : phase[r] = "live" =>
        \/ Reachable(r)
        \/ \E f \in Flows : FlowScope[f] = ReceiverScope[r] /\ r \in Held(f)

\* ... and it gives it back: a handler that stays set up hears its worker again and
\* again, although blocks of several flows may take it out in turns.
HeardAgain == \A r \in Receivers : []<>(phase[r] = "live" => Reachable(r))

\* ignore restores the strength a receiver was connected with: a strong handler
\* never becomes collectable, a weak one is never kept alive.
StrengthKept ==
    \A r \in Receivers : stored[r] \in {"absent", IF r \in Weak THEN "weak" ELSE "strong"}

Suppressed(f) ==
    \A i \in 1..Len(frames[f]) : \A r \in frames[f][i].live \ Reconnected : r \notin pending[f]

\* Inside an ignore block the flow's sends call no handler of its worker that was
\* set up when the block was entered, whatever the flows of other workers do.
IgnoreSuppresses == \A f \in Flows : Exclusive(f) => Suppressed(f)

Forgotten(r) == stored[r] = "absent" /\ \A s \in Scopes : <<r, s>> \notin subs

\* A handler that was cleaned up (or collected) stays disconnected: no ignore
\* block brings it back.
NoResurrection ==
    \A r \in Receivers :
        phase[r] = "gone" /\ (\E f \in Flows : Exclusive(f) /\ FlowScope[f] = ReceiverScope[r])
            => Forgotten(r)

\* The same for handlers of every worker: what the tests say of cleanup()
\* ("cleanup() must fully disconnect strong receivers").
NoResurrectionOfAny ==
    \A r \in Receivers : phase[r] = "gone" => Forgotten(r)

================================================================================
