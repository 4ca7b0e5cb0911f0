----------------------------- MODULE FlaskExtension -----------------------------
(***************************************************************************)
(* The Flask extension (src/nplusone/ext/flask_sqlalchemy.py): listeners   *)
(* in g, hooks before and after each request and at its teardown, and the  *)
(* request object as the worker.                                           *)
(*                                                                         *)
(* g belongs to the application context of a thread.  A request made while *)
(* the thread serves another one of the same application (a test client in *)
(* a view) finds that context and shares its g.  Connections are kept per  *)
(* id() of the sender; blinker drops those of a sender that is freed.      *)
(***************************************************************************)
EXTENDS Sequences, FiniteSets, Naturals

CONSTANTS
    Requests, Threads,
    Ids,         \* values of id(request); a freed one may come back
    NoId,        \* the id of a request object that does not live
    Configs,     \* settings: NPLUSONE_RAISE, NPLUSONE_DEBUG
    MaxDepth     \* bound on the nesting of requests on a thread

ASSUME FlaskIdsAssumption == NoId \notin Ids
ASSUME FlaskConfigAssumption ==
    /\ Configs \subseteq [raise : BOOLEAN, debug : BOOLEAN]
    /\ MaxDepth \in Nat

Kinds == {"lazy", "eager", "debug"}

VARIABLES
    config,    \* the settings of the application
    stage,     \* where each request is: running, erring (an exception is on its
               \* way up), closing (answered or given up), ended
    ident,     \* id(request) while the request object lives
    stack,     \* the requests each thread serves, the innermost last
    g,         \* g.listeners of each thread: pairs <<kind, request>>
    conn,      \* <<request, kind, id>>: that listener hears that sender
    unused,    \* the request's eager tracker would report a relation
    heard,     \* history: <<emitter, owner>> of events that reached a listener
    detected,  \* history: requests that connected listeners
    shadowed,  \* history: requests during which a nested one was served
    raised     \* history: requests whose eager report raised

vars == <<config, stage, ident, stack, g, conn, unused, heard, detected, shadowed, raised>>
history == <<detected, shadowed, raised>>

Enabled == IF config.debug THEN Kinds ELSE {"lazy", "eager"}

\* The request that a thread works on.
Top(t) == stack[t][Len(stack[t])]
Serves(t, r) == stack[t] # <<>> /\ Top(t) = r

Init ==
    /\ config \in Configs
    /\ stage = [r \in Requests |-> "new"]
    /\ ident = [r \in Requests |-> NoId]
    /\ stack = [t \in Threads |-> <<>>]
    /\ g = [t \in Threads |-> {}]
    /\ conn = {}
    /\ unused = {}
    /\ heard = {}
    /\ detected = {} /\ shadowed = {} /\ raised = {}

--------------------------------------------------------------------------------
\* A new request object with an id that no living one has reaches a thread.
Arrives(r, t, i) ==
    /\ stage[r] = "new"
    /\ \A q \in Requests : ident[q] # i
    /\ Len(stack[t]) < MaxDepth
    /\ stack[t] # <<>> => stage[Top(t)] = "running"
    /\ stage' = [stage EXCEPT ![r] = "running"]
    /\ ident' = [ident EXCEPT ![r] = i]
    /\ stack' = [stack EXCEPT ![t] = Append(@, r)]
    /\ shadowed' = IF stack[t] = <<>> THEN shadowed ELSE shadowed \cup {Top(t)}

\* connect, before the request: listeners connect to get_worker(), and their
\* entries in g replace those of an outer request.
Connect(r, t, i) ==
    /\ Arrives(r, t, i)
    /\ conn' = conn \cup ({r} \X Enabled \X {i})
    /\ g' = [g EXCEPT ![t] = {e \in @ : e[1] \notin Enabled} \cup (Enabled \X {r})]
    /\ detected' = detected \cup {r}
    /\ UNCHANGED <<config, unused, heard, raised>>

\* A hook registered before connect answers the request or raises.
ConnectSkipped(r, t, i) ==
    /\ Arrives(r, t, i)
    /\ UNCHANGED <<config, g, conn, unused, heard, detected, raised>>

--------------------------------------------------------------------------------
\* The requests whose listener of the kind hears the events of r.
Hears(r, kind) == {q \in Requests : <<q, kind, ident[r]>> \in conn}

\* Objects are loaded while r is served, by its view or by a hook or error handler.
LoadEvent(r, t) ==
    /\ Serves(t, r)
    /\ heard' = heard \cup ({r} \X Hears(r, "lazy"))
    /\ UNCHANGED <<config, stage, ident, stack, g, conn, unused, history>>

\* A relation is eagerly loaded, and unused so far.
EagerEvent(r, t) ==
    /\ Serves(t, r)
    /\ heard' = heard \cup ({r} \X Hears(r, "eager"))
    /\ unused' = unused \cup Hears(r, "eager")
    /\ UNCHANGED <<config, stage, ident, stack, g, conn, history>>

\* It is used.
TouchEvent(r, t) ==
    /\ Serves(t, r)
    /\ unused' = unused \ Hears(r, "eager")
    /\ UNCHANGED <<config, stage, ident, stack, g, conn, heard, history>>

\* The view raises, of its own or because a lazy load was found (NPLUSONE_RAISE).
ViewFails(r, t) ==
    /\ Serves(t, r)
    /\ stage[r] = "running"
    /\ stage' = [stage EXCEPT ![r] = "erring"]
    /\ UNCHANGED <<config, ident, stack, g, conn, unused, heard, history>>

--------------------------------------------------------------------------------
\* Mutant of Without: handlers are told apart by their function only.
WithoutKind(entries) == {c \in conn : \A e \in entries : c[2] # e[1]}

\* conn without the listeners of these entries of g.
Without(entries) == {c \in conn : <<c[2], c[1]>> \notin entries}

\* The report of the eager listener in g raises.
ReportRaises(t, skipEager) ==
    /\ ~skipEager
    /\ config.raise
    /\ \E e \in g[t] : e[1] = "eager" /\ e[2] \in unused

\* disconnect, after the request: each listener leaves g and is torn down, or
\* cleaned up when eager checks are skipped.
Disconnect(r, t, skipEager) ==
    /\ ~ReportRaises(t, skipEager)
    /\ conn' = Without(g[t])
    /\ g' = [g EXCEPT ![t] = {}]
    /\ UNCHANGED <<config, ident, stack, unused, heard, history>>

\* Mutant of DisconnectRaises: all listeners leave g before the first report.
DisconnectRaisesAll(r, t, skipEager) ==
    /\ ReportRaises(t, skipEager)
    /\ conn' = Without({e \in g[t] : e[1] = "lazy"})
    /\ g' = [g EXCEPT ![t] = {}]
    /\ raised' = raised \cup {e[2] : e \in {d \in g[t] : d[1] = "eager"}}
    /\ UNCHANGED <<config, ident, stack, unused, heard, detected, shadowed>>

\* Its report raises: the eager listener has left g and stays connected, the
\* debug one remains in g.
DisconnectRaises(r, t, skipEager) ==
    /\ ReportRaises(t, skipEager)
    /\ conn' = Without({e \in g[t] : e[1] = "lazy"})
    /\ g' = [g EXCEPT ![t] = {e \in @ : e[1] = "debug"}]
    /\ raised' = raised \cup {e[2] : e \in {d \in g[t] : d[1] = "eager"}}
    /\ UNCHANGED <<config, ident, stack, unused, heard, detected, shadowed>>

\* The view answered: after_request runs, and what it raises goes up.
AfterRequest(r, t, skipEager) ==
    /\ Serves(t, r)
    /\ stage[r] = "running"
    /\ \/ /\ Disconnect(r, t, skipEager)
          /\ stage' = [stage EXCEPT ![r] = "closing"]
       \/ /\ DisconnectRaises(r, t, skipEager)
          /\ stage' = [stage EXCEPT ![r] = "erring"]

\* Flask turns the exception into an error response and runs after_request
\* again; what that raises is logged.
HandleException(r, t, skipEager) ==
    /\ Serves(t, r)
    /\ stage[r] = "erring"
    /\ stage' = [stage EXCEPT ![r] = "closing"]
    /\ Disconnect(r, t, skipEager) \/ DisconnectRaises(r, t, skipEager)

\* Flask lets the exception through (testing, debugging, not an Exception).
Propagate(r, t) ==
    /\ Serves(t, r)
    /\ stage[r] = "erring"
    /\ stage' = [stage EXCEPT ![r] = "closing"]
    /\ UNCHANGED <<config, ident, stack, g, conn, unused, heard, history>>

\* Mutant of TeardownRequest: nothing is cleaned up.
TeardownRequestBare(r, t) ==
    /\ Serves(t, r)
    /\ stage[r] = "closing"
    /\ stage' = [stage EXCEPT ![r] = "ended"]
    /\ stack' = [stack EXCEPT ![t] = SubSeq(@, 1, Len(@) - 1)]
    /\ UNCHANGED <<config, ident, g, conn, unused, heard, history>>

\* ensure_cleanup, at the teardown of every request.
TeardownRequest(r, t) ==
    /\ Serves(t, r)
    /\ stage[r] = "closing"
    /\ stage' = [stage EXCEPT ![r] = "ended"]
    /\ stack' = [stack EXCEPT ![t] = SubSeq(@, 1, Len(@) - 1)]
    /\ conn' = Without(g[t])
    /\ g' = [g EXCEPT ![t] = {}]
    /\ UNCHANGED <<config, ident, unused, heard, history>>

\* Mutant of Free: a sender's subscriptions outlive it.
FreeKeepsConnections(r) ==
    /\ stage[r] = "ended"
    /\ ident[r] # NoId
    /\ ident' = [ident EXCEPT ![r] = NoId]
    /\ UNCHANGED <<config, stage, stack, g, conn, unused, heard, history>>

\* The request object is freed: blinker forgets the sender.
Free(r) ==
    /\ stage[r] = "ended"
    /\ ident[r] # NoId
    /\ ident' = [ident EXCEPT ![r] = NoId]
    /\ conn' = {c \in conn : c[3] # ident[r]}
    /\ UNCHANGED <<config, stage, stack, g, unused, heard, history>>

Next ==
    \E r \in Requests :
        \/ Free(r)
        \/ \E t \in Threads :
            \/ \E i \in Ids : Connect(r, t, i) \/ ConnectSkipped(r, t, i)
            \/ LoadEvent(r, t)
            \/ EagerEvent(r, t)
            \/ TouchEvent(r, t)
            \/ ViewFails(r, t)
            \/ Propagate(r, t)
            \/ TeardownRequest(r, t)
            \/ \E skipEager \in BOOLEAN :
                AfterRequest(r, t, skipEager) \/ HandleException(r, t, skipEager)

Spec == Init /\ [][Next]_vars

--------------------------------------------------------------------------------
\* Types; and a thread that serves no request has nothing in g.
TypeOK ==
    /\ config \in Configs
    /\ stage \in [Requests -> {"new", "running", "erring", "closing", "ended"}]
    /\ ident \in [Requests -> Ids \cup {NoId}]
    /\ stack \in [Threads -> Seq(Requests)]
    /\ g \in [Threads -> SUBSET (Kinds \X Requests)]
    /\ \A t \in Threads : stack[t] = <<>> => g[t] = {}
    /\ conn \subseteq Requests \X Kinds \X Ids
    /\ unused \subseteq Requests
    /\ heard \subseteq Requests \X Requests
    /\ detected \cup shadowed \cup raised \subseteq Requests

\* However a request ends, its listeners are disconnected: but for the eager one
\* when its report raised (disconnect took it from g, ensure_cleanup cannot find
\* it), and when a nested request replaced the entries.
OnlyRaisedReportsLeak ==
    \A c \in conn :
        \/ stage[c[1]] # "ended"
        \/ c[1] \in raised /\ c[2] = "eager"
        \/ c[1] \in shadowed

\* Whatever other requests do, one that connected hears itself until it is
\* answered; a nested request that did not connect may disconnect it.
RunningIsMonitored ==
    \A r \in detected \ shadowed : stage[r] = "running" =>
        \A k \in Enabled : <<r, k, ident[r]>> \in conn

\* A listener hears its own request only, although it may be left behind and ids
\* come back.
Isolation == \A e \in heard : e[1] = e[2]

================================================================================
