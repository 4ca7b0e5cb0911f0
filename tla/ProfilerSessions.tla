---------------------------- MODULE ProfilerSessions ----------------------------
(***************************************************************************)
(* Detection without a web framework (src/nplusone/core/profiler.py):      *)
(* Profiler blocks, also those around a WSGI application, and sessions     *)
(* between setup() and teardown(), also those around a Celery task.  Each  *)
(* thread has one slot for a session and any number of Profiler blocks,    *)
(* which end in any order (coroutines interleave).                         *)
(*                                                                         *)
(* What a unit of work hears depends on get_worker, which an integration   *)
(* replaces.  It asks for the request of the thread, so requests are here: *)
(* those served within a unit (a test client, an application inside of the *)
(* WSGI middleware), around one (a block in a view), or before it on the   *)
(* same thread.  Their own listeners are in DjangoMiddleware and           *)
(* FlaskExtension.  A thread has one context, and its name is its ident,   *)
(* which a later thread may get as well.                                   *)
(*                                                                         *)
(* As in DjangoMiddleware, conn says which listener hears which worker.    *)
(***************************************************************************)
EXTENDS FiniteSets, Naturals

CONSTANTS
    Threads,     \* thread idents
    Requests,    \* ids of request objects
    Sessions,    \* _ImperativeSession objects, one for each call of setup()
    Profilers,   \* Profiler objects, each entered once
    None,        \* no session, no thread, no request
    ANY,         \* blinker.ANY
    Configs      \* whose get_worker is used, and whether sessions raise

Units == Sessions \cup Profilers
Kinds == {"lazy", "eager"}
Workers == Threads \cup Requests \cup {None, ANY}

ASSUME UnitsAssumption == Sessions \cap Profilers = {} /\ None \notin Units
ASSUME WorkersAssumption ==
    /\ Threads \cap Requests = {}
    /\ {None, ANY} \cap (Threads \cup Requests) = {}
    /\ None # ANY
ASSUME ConfigAssumption ==
    Configs \subseteq [integration : {"none", "django", "flask"}, raise : BOOLEAN]

VARIABLES
    config,     \* the integration and the settings of the process
    stage,      \* history: where each unit of work is in its life
    owner,      \* history: the ident of the thread that started each unit
    worker,     \* history: the worker each unit is connected to
    former,     \* history: units whose thread is no more
    session,    \* _state.session of each thread
    blocks,     \* the Profiler blocks each thread is in
    serving,    \* the request each thread is serving
    context,    \* Django's nplus1_context in each thread
    listeners,  \* self._listeners of each unit
    conn,       \* <<unit, kind, worker>>: that listener hears that worker
    unused,     \* the unit's eager tracker would report a relation
    overheard,  \* history: units that heard of the last event in a thread that did not
                \* start them, and whether they could still be ended then
    visited,    \* history: units on whose thread a request has begun or ended since
                \* they started
    given,      \* history: request ids that were given to a request
    reused,     \* history: request ids that were given to more than one
    replaced    \* history: sessions whose slot another one took while they were active

\* The threads and what they serve, and what the steps of a unit leave alone.
threads == <<former, serving, context, visited, given, reused>>
vars == <<config, stage, owner, worker, session, blocks, listeners, conn, unused, overheard,
          replaced, threads>>

\* signals.get_worker() in thread t: there is one worker without an integration;
\* Django has the variable of the context or else the ident, and Flask the request,
\* or else None.
Worker(t) ==
    CASE config.integration = "none" -> ANY
      [] config.integration = "django" -> IF context[t] # None THEN context[t] ELSE t
      [] config.integration = "flask" -> serving[t]

\* The units whose listener of the kind hears what thread t does: those connected
\* to its worker or, as blinker has it, to no sender in particular.
Hears(t, kind) == {u \in Units : \E w \in {Worker(t), ANY} : <<u, kind, w>> \in conn}

\* notify of u raises: a Profiler always, a session if it has an error notifier.
Raises(u) == u \in Profilers \/ config.raise

\* Mutant of Without: whatever listens to the worker of u is disconnected.
WithoutWorker(u, kinds) ==
    {c \in conn : ~(c[2] \in kinds /\ <<u, c[2], c[3]>> \in conn)}

\* conn when the listeners of u of these kinds have been cleaned up.
Without(u, kinds) == {c \in conn : ~(c[1] = u /\ c[2] \in kinds)}

Init ==
    /\ config \in Configs
    /\ stage = [u \in Units |-> "new"]
    /\ owner = [u \in Units |-> None]
    /\ worker = [u \in Units |-> None]
    /\ session = [t \in Threads |-> None]
    /\ blocks = [t \in Threads |-> {}]
    /\ serving = [t \in Threads |-> None]
    /\ context = [t \in Threads |-> None]
    /\ listeners = [u \in Units |-> {}]
    /\ conn = {}
    /\ unused = [u \in Units |-> FALSE]
    /\ former = {} /\ overheard = {} /\ visited = {} /\ given = {} /\ reused = {} /\ replaced = {}

--------------------------------------------------------------------------------
\* The listeners of u are created and connect to the worker w.
Starts(t, u, w) ==
    /\ stage[u] = "new"
    /\ stage' = [stage EXCEPT ![u] = "active"]
    /\ owner' = [owner EXCEPT ![u] = t]
    /\ worker' = [worker EXCEPT ![u] = w]
    /\ listeners' = [listeners EXCEPT ![u] = Kinds]
    /\ conn' = conn \cup ({u} \X Kinds \X {w})
    /\ UNCHANGED <<config, unused, overheard, threads>>

\* The session in the slot of t that teardown() would still tear down.
Occupant(t) == {s \in Sessions : session[t] = s /\ stage[s] = "active"}

\* setup(): the new session connects to the worker w and takes the slot of the
\* thread, whatever was there (a Celery task that runs another one on its thread).
TakesSlot(t, u, w) ==
    /\ Starts(t, u, w)
    /\ session' = [session EXCEPT ![t] = u]
    /\ replaced' = replaced \cup Occupant(t)
    /\ UNCHANGED blocks

\* Mutant of Setup: the listeners connect without a sender.
SetupToAny(t, u) == TakesSlot(t, u, ANY)

Setup(t, u) == TakesSlot(t, u, Worker(t))

\* Mutant of Enter: a block uses the slot of its thread.
EnterSlot(t, u) ==
    /\ Starts(t, u, Worker(t))
    /\ session' = [session EXCEPT ![t] = u]
    /\ UNCHANGED <<blocks, replaced>>

\* Profiler.__enter__.
Enter(t, u) ==
    /\ Starts(t, u, Worker(t))
    /\ blocks' = [blocks EXCEPT ![t] = @ \cup {u}]
    /\ UNCHANGED <<session, replaced>>

--------------------------------------------------------------------------------
\* The thread that started u still has what it takes to end it.
Endable(u) ==
    \/ stage[u] = "active" /\ u \in Sessions /\ session[owner[u]] = u
    \/ stage[u] = "active" /\ u \in blocks[owner[u]]

\* Of the units told of something in thread t, those that another thread started.
Overhearing(t, told) ==
    {<<u, IF Endable(u) THEN "active" ELSE "left">> :
        u \in {v \in told : owner[v] # t \/ v \in former}}

\* A lazy load is found: the units that hear it are notified, in an order of
\* blinker's choice, until one of them raises.
LazyFound(t) ==
    /\ \E told \in SUBSET Hears(t, "lazy") :
        /\ told # {}
        /\ Cardinality({u \in told : Raises(u)}) <= 1
        /\ told # Hears(t, "lazy") => \E u \in told : Raises(u)
        /\ overheard' = Overhearing(t, told)
    /\ UNCHANGED <<config, stage, owner, worker, session, blocks, listeners, conn, unused, replaced, threads>>

\* An eager load is tracked, and is unused so far.
EagerEvent(t) ==
    /\ overheard' = Overhearing(t, Hears(t, "eager"))
    /\ unused' = [u \in Units |-> unused[u] \/ u \in Hears(t, "eager")]
    /\ UNCHANGED <<config, stage, owner, worker, session, blocks, listeners, conn, replaced, threads>>

\* The eager-loaded relation is used.
TouchEvent(t) ==
    /\ unused' = [u \in Units |-> unused[u] /\ u \notin Hears(t, "eager")]
    /\ UNCHANGED <<config, stage, owner, worker, session, blocks, listeners, conn, overheard, replaced, threads>>

--------------------------------------------------------------------------------
unitVars == <<config, stage, owner, worker, session, blocks, listeners, unused, overheard, replaced>>

\* The active units that a thread t has started.
Running(t) == {u \in Units \ former : stage[u] = "active" /\ owner[u] = t}

\* A request begins on thread t, at an id that no request in progress has: the Django
\* middleware binds its id to the context, and Flask's request is this one.
Serve(t, r) ==
    /\ config.integration # "none"
    /\ serving[t] = None
    /\ \A s \in Threads : serving[s] # r
    /\ serving' = [serving EXCEPT ![t] = r]
    /\ context' = [context EXCEPT ![t] = IF config.integration = "django" THEN r ELSE @]
    /\ visited' = visited \cup Running(t)
    /\ given' = given \cup {r}
    /\ reused' = reused \cup (given \cap {r})
    /\ UNCHANGED <<unitVars, conn, former>>

\* It ends: the middleware leaves the context as it is; blinker drops what was
\* connected to a Flask request when that goes away.
Served(t) ==
    /\ serving[t] # None
    /\ serving' = [serving EXCEPT ![t] = None]
    /\ conn' = IF config.integration = "flask" THEN {c \in conn : c[3] # serving[t]} ELSE conn
    /\ visited' = visited \cup Running(t)
    /\ UNCHANGED <<unitVars, former, context, given, reused>>

\* A thread t that has ended what it could ends, and a new one gets its ident; its
\* context and _state are empty.
ThreadRestarts(t) ==
    /\ serving[t] = None
    /\ \A u \in Units \ former : owner[u] = t => ~Endable(u)
    /\ session' = [session EXCEPT ![t] = None]
    /\ context' = [context EXCEPT ![t] = None]
    /\ former' = former \cup {u \in Units : owner[u] = t}
    /\ UNCHANGED <<config, stage, owner, worker, blocks, listeners, conn, unused, overheard, replaced,
                   serving, visited, given, reused>>

--------------------------------------------------------------------------------
\* Whether the teardown of u's eager listener raises its report.
ReportRaises(u) == "eager" \in listeners[u] /\ unused[u] /\ Raises(u)

\* Each listener leaves the dictionary and is torn down, the lazy one first.
Ends(u) ==
    /\ ~ReportRaises(u)
    /\ stage' = [stage EXCEPT ![u] = IF @ = "raised" THEN @ ELSE "ended"]
    /\ conn' = Without(u, listeners[u])
    /\ listeners' = [listeners EXCEPT ![u] = {}]
    /\ unused' = [unused EXCEPT ![u] = FALSE]
    /\ UNCHANGED <<config, owner, worker, overheard, replaced, threads>>

\* The report raises before the eager listener is cleaned up.
EndsRaising(u) ==
    /\ ReportRaises(u)
    /\ stage' = [stage EXCEPT ![u] = "raised"]
    /\ conn' = Without(u, listeners[u] \ {"eager"})
    /\ listeners' = [listeners EXCEPT ![u] = {}]
    /\ UNCHANGED <<config, owner, worker, unused, overheard, replaced, threads>>

\* Mutant of Teardown: the threads share one slot.
TeardownShared(t) ==
    /\ \E s \in Threads : session[s] # None /\ Ends(session[s])
    /\ session' = [s \in Threads |-> None]
    /\ UNCHANGED blocks

\* teardown(): nothing happens without a session.
Teardown(t) ==
    /\ session[t] # None
    /\ Ends(session[t])
    /\ session' = [session EXCEPT ![t] = None]
    /\ UNCHANGED blocks

\* teardown() whose report raises leaves the session in its slot.
TeardownRaises(t) ==
    /\ session[t] # None
    /\ EndsRaising(session[t])
    /\ UNCHANGED <<session, blocks>>

\* Profiler.__exit__, with or without an exception of the block.
Exit(t, u) ==
    /\ u \in blocks[t]
    /\ Ends(u) \/ EndsRaising(u)
    /\ blocks' = [blocks EXCEPT ![t] = @ \ {u}]
    /\ UNCHANGED session

Next ==
    \E t \in Threads :
        \/ \E u \in Sessions : Setup(t, u)
        \/ \E u \in Profilers : Enter(t, u) \/ Exit(t, u)
        \/ LazyFound(t)
        \/ EagerEvent(t)
        \/ TouchEvent(t)
        \/ Teardown(t)
        \/ TeardownRaises(t)
        \/ \E r \in Requests : Serve(t, r)
        \/ Served(t)
        \/ ThreadRestarts(t)

Spec == Init /\ [][Next]_vars

--------------------------------------------------------------------------------
\* Types; and a thread's slot and blocks hold units that this thread has started, and
\* blocks only such as are not ended.
TypeOK ==
    /\ config \in Configs
    /\ stage \in [Units -> {"new", "active", "ended", "raised"}]
    /\ owner \in [Units -> Threads \cup {None}] /\ worker \in [Units -> Workers]
    /\ session \in [Threads -> Sessions \cup {None}]
    /\ blocks \in [Threads -> SUBSET Profilers]
    /\ serving \in [Threads -> Requests \cup {None}] /\ context \in [Threads -> Requests \cup {None}]
    /\ listeners \in [Units -> SUBSET Kinds]
    /\ conn \subseteq Units \X Kinds \X Workers
    /\ unused \in [Units -> BOOLEAN]
    /\ overheard \subseteq Units \X {"active", "left"}
    /\ visited \subseteq Units /\ former \subseteq Units /\ replaced \subseteq Sessions
    /\ given \subseteq Requests /\ reused \subseteq given
    /\ \A t \in Threads : session[t] # None =>
          owner[session[t]] = t /\ session[t] \notin former /\ stage[session[t]] # "new"
    /\ \A t \in Threads : \A u \in blocks[t] :
          owner[u] = t /\ u \notin former /\ stage[u] = "active"

\* A unit that was started and not yet ended hears its thread, whatever units of this
\* or of other threads end meanwhile; unless a request has come between: Django's
\* leaves its id in the context for good; Flask's is the worker while it is served,
\* and a unit that was started in it hears nothing after it.
ActiveIsMonitored ==
    \A u \in Units \ former : stage[u] = "active" =>
        \/ \A k \in Kinds : u \in Hears(owner[u], k)
        \/ /\ u \in visited
           /\ config.integration = "flask" /\ worker[u] = None => serving[owner[u]] # None

\* Nothing stays connected that no one can disconnect any more, but the eager
\* listener of a unit whose report raised, and a session whose slot was taken while
\* it was active (teardown(): "Stop N+1 detection for the current thread").
OnlyRaisedOrReplacedLeak ==
    \A c \in conn :
        \/ Endable(c[1])
        \/ stage[c[1]] = "raised" /\ c[2] = "eager"
        \/ c[1] \in replaced

\* With Django, a unit that can still be ended hears no other thread, but through a
\* request id that was given twice (the middleware leaves it in the context); one
\* that was left behind also hears a thread that has got the ident of its own.  With
\* Flask, a unit that was started in a request hears no other thread at all.
ThreadsAreIsolated ==
    \A u \in Units : \A how \in {"active", "left"} : <<u, how>> \in overheard =>
        CASE config.integration = "none" -> TRUE
          [] config.integration = "django" ->
                worker[u] \in reused \/ (how = "left" /\ worker[u] = owner[u] /\ u \in former)
          [] config.integration = "flask" -> worker[u] = None

================================================================================
