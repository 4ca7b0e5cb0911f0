---------------------------- MODULE SignalBookkeeping ----------------------------
(***************************************************************************)
(* The dictionaries of a blinker signal, step by step where they can be    *)
(* caught in the middle (src/nplusone/core/signals.py).  SignalBus takes   *)
(* them as one relation and a disconnect as one step.  Here a disconnect   *)
(* iterates over the buckets with the lock held, and so does the entry of  *)
(* an ignore block at ANY for each of its receivers, while sends, which    *)
(* take no lock, look buckets up in a defaultdict, and the end of a sender *)
(* that blinker refers to weakly (a Flask request) drops its bucket.       *)
(*                                                                         *)
(* Receivers are strong, as connect() makes them.                          *)
(***************************************************************************)
EXTENDS FiniteSets, Naturals, Functions

CONSTANTS
    Flows,          \* threads and tasks
    Receivers,      \* handlers
    Workers,        \* worker identifiers other than ANY
    ANY,            \* blinker.ANY
    FlowScope,      \* the worker of each flow
    ReceiverScope,  \* the sender each receiver is connected with
    WeakWorkers,    \* workers that blinker holds weak references to
    None            \* no disconnect, or no entry, in progress

Senders == Workers \cup {ANY}

ASSUME SendersAssumption ==
    /\ ANY \notin Workers
    /\ WeakWorkers \subseteq Workers
    /\ FlowScope \in [Flows -> Senders]
    /\ ReceiverScope \in [Receivers -> Senders]
ASSUME NoneAssumption ==
    /\ None \notin [flow : Flows, receiver : Receivers, todo : SUBSET Senders, size : Nat]
    /\ None \notin [flow : Flows, rest : SUBSET Receivers]

VARIABLES
    receivers,   \* Signal.receivers
    bySender,    \* Signal._by_sender, a dictionary: its domain matters
    byReceiver,  \* Signal._by_receiver
    cut,         \* the disconnect that has the lock: whose, what is left to iterate
                 \* over, and the size of the dictionary when the iteration began
    opening,     \* the ignore block at ANY that is being entered with the lock: whose,
                 \* and the receivers it has still to disconnect
    sends,       \* what the send of each flow found: nothing, its sender, no sender
    inside,      \* flows in an ignore block
    held,        \* the receivers that block found
    freed,       \* workers that are gone
    phase,       \* history: where each receiver is in its listener's life
    raced,       \* history: receivers of a disconnect, or of an entry, whose iteration
                 \* saw a lock-free change of size
    late         \* history: buckets that a send inserted or an ignore block at ANY
                 \* emptied since the last pruning

vars == <<receivers, bySender, byReceiver, cut, opening, sends, inside, held, freed, phase, raced, late>>
tables == <<receivers, bySender, byReceiver>>

Size(dict) == Cardinality(DOMAIN dict)
\* A look-up in a defaultdict(set), and the dictionary after looking up all of K.
Bucket(dict, k) == IF k \in DOMAIN dict THEN dict[k] ELSE {}
LookedUp(dict, K) == [k \in DOMAIN dict \cup K |-> Bucket(dict, k)]

\* And after adding to all of K.
Added(dict, K, V) ==
    [k \in DOMAIN dict \cup K |-> IF k \in K THEN Bucket(dict, k) \cup V ELSE dict[k]]

LockIsFree == cut = None /\ opening = None

\* A flow that can still do something, and has no send, disconnect or entry in progress.
Ready(f) ==
    /\ FlowScope[f] \notin freed
    /\ sends[f] = "none"
    /\ cut # None => cut.flow # f
    /\ opening # None => opening.flow # f

\* The module pre-creates the ANY bucket.
Init ==
    /\ receivers = {} /\ bySender = [s \in {ANY} |-> {}] /\ byReceiver = [r \in {} |-> {}]
    /\ cut = None /\ opening = None
    /\ sends = [f \in Flows |-> "none"]
    /\ inside = {} /\ held = [f \in Flows |-> {}]
    /\ freed = {}
    /\ phase = [r \in Receivers |-> "new"]
    /\ raced = {} /\ late = {}

--------------------------------------------------------------------------------
\* Signal.connect of all of S to the sender s.
Subscribe(S, s) ==
    /\ receivers' = receivers \cup S
    /\ bySender' = Added(bySender, IF S = {} THEN {} ELSE {s}, S)
    /\ byReceiver' = Added(byReceiver, S, {s})

SetsUp(f, r) ==
    /\ Ready(f) /\ f \notin inside
    /\ ReceiverScope[r] = FlowScope[f]
    /\ phase[r] = "new"
    /\ Subscribe({r}, FlowScope[f])
    /\ phase' = [phase EXCEPT ![r] = "live"]
    /\ UNCHANGED <<cut, opening, sends, inside, held, freed, raced, late>>

\* Mutant of Connect: it takes no lock.
ConnectUnlocked(f, r) == SetsUp(f, r)

\* connect(), with the lock.
Connect(f, r) == LockIsFree /\ SetsUp(f, r)

\* Mutants of Pruned: nothing is dropped; the ANY bucket is too.
PrunedNot(dict) == dict
PrunedAny(dict) == Restrict(dict, {k \in DOMAIN dict : dict[k] # {}})

\* _prune_bookkeeping, for one of the two dictionaries.
Pruned(dict) == Restrict(dict, {k \in DOMAIN dict : dict[k] # {} \/ k = ANY})

\* blinker takes r out of _by_receiver, and visits the buckets todo.
Pops(f, r, todo) ==
    /\ r \in DOMAIN byReceiver
    /\ byReceiver' = Restrict(byReceiver, DOMAIN byReceiver \ {r})
    /\ cut' = [flow |-> f, receiver |-> r, todo |-> todo, size |-> Size(bySender)]

\* The cleanup of a listener: it does not know whether an earlier step failed.
CleansUp(f, r) ==
    /\ LockIsFree
    /\ Ready(f) /\ f \notin inside
    /\ ReceiverScope[r] = FlowScope[f]
    /\ phase[r] # "gone"

\* disconnect() takes the lock: without a sender blinker visits every bucket.
Disconnect(f, r) ==
    /\ CleansUp(f, r)
    /\ Pops(f, r, DOMAIN bySender)
    /\ UNCHANGED <<receivers, bySender, opening, sends, inside, held, freed, phase, raced, late>>

\* A receiver that _by_receiver does not have: handle_touch when nothing was loaded
\* eagerly, or one that a block at ANY holds or lost.  No bucket is visited, but the
\* rest of disconnect() runs.
DisconnectUnknown(f, r) ==
    /\ CleansUp(f, r)
    /\ r \notin DOMAIN byReceiver
    /\ receivers' = receivers \ {r}
    /\ bySender' = Pruned(bySender)
    /\ byReceiver' = Pruned(byReceiver)
    /\ phase' = [phase EXCEPT ![r] = IF @ = "failed" THEN @ ELSE "gone"]
    /\ late' = {}
    /\ UNCHANGED <<cut, opening, sends, inside, held, freed, raced>>

\* The iteration goes on while the dictionary keeps its size.
DisconnectNext ==
    /\ cut # None
    /\ Size(bySender) = cut.size
    /\ \E s \in cut.todo :
        /\ cut' = [cut EXCEPT !.todo = @ \ {s}]
        /\ bySender' = [k \in DOMAIN bySender |->
                IF k = s THEN bySender[k] \ {cut.receiver} ELSE bySender[k]]
        /\ late' = IF opening # None /\ Bucket(bySender, s) = {cut.receiver}
                   THEN late \cup {<<"block", s>>} ELSE late
    /\ UNCHANGED <<receivers, byReceiver, opening, sends, inside, held, freed, phase, raced>>

\* "dictionary changed size during iteration", in disconnect(): neither receivers nor
\* the pruning is reached, and the lock is given back.
DisconnectFails ==
    /\ cut # None /\ opening = None
    /\ Size(bySender) # cut.size
    /\ phase' = [phase EXCEPT ![cut.receiver] = "failed"]
    /\ cut' = None
    /\ UNCHANGED <<tables, opening, sends, inside, held, freed, raced, late>>

DisconnectEnds ==
    /\ cut # None /\ opening = None
    /\ Size(bySender) = cut.size
    /\ cut.todo = {}
    /\ receivers' = receivers \ {cut.receiver}
    /\ bySender' = Pruned(bySender)
    /\ byReceiver' = Pruned(byReceiver)
    /\ phase' = [phase EXCEPT ![cut.receiver] = "gone"]
    /\ cut' = None
    /\ late' = {}
    /\ UNCHANGED <<opening, sends, inside, held, freed, raced>>

--------------------------------------------------------------------------------
\* Signal.receivers_for(s).
ReceiversFor(s) == receivers \cap (bySender[ANY] \cup Bucket(bySender, s))

\* The entry of ignore() for a worker, with the lock: blinker looks up the bucket of
\* the sender, and iterates over nothing.
IgnoreEnter(f) ==
    /\ LockIsFree
    /\ Ready(f) /\ f \notin inside
    /\ FlowScope[f] # ANY
    /\ LET s == FlowScope[f]
           S == ReceiversFor(s)
       IN /\ held' = [held EXCEPT ![f] = S]
          /\ bySender' = LET d == LookedUp(bySender, IF S = {} THEN {} ELSE {s})
                         IN [k \in DOMAIN d |-> IF k = s THEN d[k] \ S ELSE d[k]]
          /\ byReceiver' = LET d == LookedUp(byReceiver, S)
                           IN [r \in DOMAIN d |-> IF r \in S THEN d[r] \ {s} ELSE d[r]]
    /\ inside' = inside \cup {f}
    /\ UNCHANGED <<receivers, cut, opening, sends, freed, phase, raced, late>>

\* At ANY it takes the lock and disconnects from all senders what it finds, ...
IgnoreOpens(f) ==
    /\ LockIsFree
    /\ Ready(f) /\ f \notin inside
    /\ FlowScope[f] = ANY
    /\ held' = [held EXCEPT ![f] = ReceiversFor(ANY)]
    /\ opening' = [flow |-> f, rest |-> ReceiversFor(ANY)]
    /\ UNCHANGED <<tables, cut, sends, inside, freed, phase, raced, late>>

\* Of the disconnect of r by that block, what runs before the iteration over todo.
BlockPops(r, todo) ==
    /\ opening # None /\ cut = None
    /\ r \in opening.rest
    /\ Pops(opening.flow, r, todo)
    /\ opening' = [opening EXCEPT !.rest = @ \ {r}]
    /\ UNCHANGED <<receivers, bySender, sends, inside, held, freed, phase, raced, late>>

\* Mutant of IgnoreCuts: only the ANY bucket is visited.
IgnoreCutsAny(r) == BlockPops(r, {ANY})

\* ... one receiver after the other: blinker visits every bucket for it ...
IgnoreCuts(r) == BlockPops(r, DOMAIN bySender)

\* ... or none, if a failed disconnect has taken it out of _by_receiver, ...
IgnoreSkips(r) ==
    /\ opening # None /\ cut = None
    /\ r \in opening.rest \ DOMAIN byReceiver
    /\ receivers' = receivers \ {r}
    /\ opening' = [opening EXCEPT !.rest = @ \ {r}]
    /\ UNCHANGED <<bySender, byReceiver, cut, sends, inside, held, freed, phase, raced, late>>

\* ... and then drops it.  Nothing is pruned.
IgnoreCutEnds ==
    /\ cut # None /\ opening # None
    /\ Size(bySender) = cut.size
    /\ cut.todo = {}
    /\ receivers' = receivers \ {cut.receiver}
    /\ cut' = None
    /\ UNCHANGED <<bySender, byReceiver, opening, sends, inside, held, freed, phase, raced, late>>

IgnoreOpened ==
    /\ opening # None /\ cut = None
    /\ opening.rest = {}
    /\ inside' = inside \cup {opening.flow}
    /\ opening' = None
    /\ UNCHANGED <<tables, cut, sends, held, freed, phase, raced, late>>

\* Here the iteration fails before the try: what the block has disconnected by then
\* is not given back.
IgnoreFails ==
    /\ cut # None /\ opening # None
    /\ Size(bySender) # cut.size
    /\ phase' = [r \in Receivers |->
            IF r = cut.receiver THEN "failed"
            ELSE IF r \in held[opening.flow] \ opening.rest /\ phase[r] = "live" THEN "lost"
            ELSE phase[r]]
    /\ held' = [held EXCEPT ![opening.flow] = {}]
    /\ cut' = None /\ opening' = None
    /\ UNCHANGED <<tables, sends, inside, freed, raced, late>>

\* The block gives back S.
Restores(f, S) ==
    /\ Ready(f) /\ f \in inside
    /\ Subscribe(S, FlowScope[f])
    /\ inside' = inside \ {f}
    /\ held' = [held EXCEPT ![f] = {}]
    /\ UNCHANGED <<cut, opening, sends, freed, phase, raced, late>>

\* Mutant of IgnoreExit: it gives back what blinker finds at the end.
IgnoreExitFound(f) == LockIsFree /\ Restores(f, ReceiversFor(FlowScope[f]))

\* Its finally branch, with the lock.
IgnoreExit(f) == LockIsFree /\ Restores(f, held[f])

--------------------------------------------------------------------------------
\* What a resize spoils: the disconnect that has the lock, or the whole entry.
Caught ==
    IF cut = None THEN {}
    ELSE {cut.receiver} \cup (IF opening = None THEN {} ELSE held[opening.flow])

\* A send looks whether its sender has a bucket ...
SendChecks(f) ==
    /\ Ready(f)
    /\ receivers # {}
    /\ sends' = [sends EXCEPT ![f] = IF FlowScope[f] \in DOMAIN bySender THEN "found" ELSE "missing"]
    /\ UNCHANGED <<tables, cut, opening, inside, held, freed, phase, raced, late>>

\* ... and then looks up that bucket and the ANY one, or only the latter: what is
\* not there any more is inserted.
SendLooksUp(f) ==
    /\ sends[f] # "none"
    /\ LET K == IF sends[f] = "found" THEN {ANY, FlowScope[f]} ELSE {ANY}
           new == K \ DOMAIN bySender
       IN /\ bySender' = LookedUp(bySender, K)
          /\ late' = late \cup ({"send"} \X new)
          /\ raced' = IF new # {} THEN raced \cup Caught ELSE raced
    /\ sends' = [sends EXCEPT ![f] = "none"]
    /\ UNCHANGED <<receivers, byReceiver, cut, opening, inside, held, freed, phase>>

\* The last reference to a worker goes away, in whatever thread: blinker drops its
\* bucket without the lock.
SenderFreed(s) ==
    /\ s \in WeakWorkers \ freed
    /\ \A f \in Flows : FlowScope[f] = s => Ready(f) /\ f \notin inside
    /\ \A r \in Receivers : ReceiverScope[r] = s => phase[r] \in {"gone", "failed"}
    /\ bySender' = Restrict(bySender, DOMAIN bySender \ {s})
    /\ byReceiver' = LET d == LookedUp(byReceiver, Bucket(bySender, s))
                     IN [r \in DOMAIN d |-> d[r] \ {s}]
    /\ freed' = freed \cup {s}
    /\ raced' = IF s \in DOMAIN bySender THEN raced \cup Caught ELSE raced
    /\ late' = late \ {<<"send", s>>, <<"block", s>>}
    /\ UNCHANGED <<receivers, cut, opening, sends, inside, held, phase>>

Next ==
    \/ \E f \in Flows :
        \/ \E r \in Receivers : Connect(f, r) \/ Disconnect(f, r) \/ DisconnectUnknown(f, r)
        \/ IgnoreEnter(f)
        \/ IgnoreOpens(f)
        \/ IgnoreExit(f)
        \/ SendChecks(f)
        \/ SendLooksUp(f)
    \/ DisconnectNext
    \/ DisconnectFails
    \/ DisconnectEnds
    \/ \E r \in Receivers : IgnoreCuts(r) \/ IgnoreSkips(r)
    \/ IgnoreCutEnds
    \/ IgnoreOpened
    \/ IgnoreFails
    \/ \E s \in Workers : SenderFreed(s)

Spec == Init /\ [][Next]_vars

--------------------------------------------------------------------------------
\* Types; and the ANY bucket is there from the start.
TypeOK ==
    /\ receivers \subseteq Receivers
    /\ DOMAIN bySender \subseteq Senders /\ ANY \in DOMAIN bySender
    /\ \A s \in DOMAIN bySender : bySender[s] \subseteq Receivers
    /\ DOMAIN byReceiver \subseteq Receivers
    /\ \A r \in DOMAIN byReceiver : byReceiver[r] \subseteq Senders
    /\ cut = None \/ (cut.flow \in Flows /\ cut.receiver \in Receivers /\ cut.todo \subseteq Senders)
    /\ opening = None \/ (opening.flow \in Flows /\ opening.rest \subseteq Receivers)
    /\ sends \in [Flows -> {"none", "found", "missing"}]
    /\ inside \subseteq Flows /\ held \in [Flows -> SUBSET Receivers]
    /\ freed \subseteq WeakWorkers
    /\ phase \in [Receivers -> {"new", "live", "gone", "failed", "lost"}]
    /\ raced \subseteq Receivers /\ late \subseteq {"send", "block"} \X Senders

Cut(r) == cut # None /\ cut.receiver = r
InBlock(f) == f \in inside \/ (opening # None /\ opening.flow = f)

\* However the pruning of other units of work falls between the steps of this one,
\* a listener that is set up stays in both dictionaries, or an ignore block of its
\* worker, open or just being entered, has it to give back.  (A block at ANY whose
\* entry fails gives nothing back: what it had taken out is "failed" or "lost".)
LiveIsSubscribed ==
    \A r \in Receivers : phase[r] = "live" /\ ~Cut(r) =>
        \/ /\ r \in receivers
           /\ r \in Bucket(bySender, ReceiverScope[r])
           /\ ReceiverScope[r] \in Bucket(byReceiver, r)
        \/ \E f \in Flows : InBlock(f) /\ FlowScope[f] = ReceiverScope[r] /\ r \in held[f]

\* The two dictionaries are inverse whenever no bucket is being visited, but for
\* receivers whose disconnect, their own or that of a block at ANY, was cut short.
InverseTables ==
    cut = None =>
        \A r \in Receivers, s \in Senders :
            phase[r] # "failed" => (r \in Bucket(bySender, s) <=> s \in Bucket(byReceiver, r))

\* disconnect() and the entry of a block fail only because of a send or of a dying
\* sender: connects, ignore blocks and other disconnects are kept out by the lock
\* ("Blinker's bookkeeping is not thread-safe under per-request connect/disconnect").
OnlyLockFreeRaces == \A r \in Receivers : phase[r] \in {"failed", "lost"} => r \in raced

\* Empty buckets do not pile up: one that is there belongs to an open ignore block,
\* or to a disconnect that failed, or since the last pruning a send has put it in or
\* a block at ANY has emptied it.
EmptyBucketsArePruned ==
    cut = None =>
        \A s \in DOMAIN bySender \ {ANY} : bySender[s] = {} =>
            \/ \E f \in inside : FlowScope[f] = s
            \/ \E why \in {"send", "block"} : <<why, s>> \in late
            \/ \E r \in Receivers : phase[r] = "failed"

\* What a comment of the module says of sends: "Pre-create the ANY buckets so lock-free sends never insert into _by_sender."
SendsNeverInsert == \A s \in Senders : <<"send", s>> \notin late

\* What the docstring of ignore() says: "Temporarily disconnect receivers, restoring their original strength."
IgnoreRestores == \A r \in Receivers : phase[r] # "lost"

================================================================================
