---------------------------- MODULE DjangoMiddleware ----------------------------
(***************************************************************************)
(* NPlusOneMiddleware (src/nplusone/ext/django/middleware.py): the         *)
(* listeners of each request, the worker id that scopes them, and where    *)
(* their messages go, for requests served concurrently.                    *)
(*                                                                         *)
(* A context is what a contextvar belongs to: a WSGI thread, which keeps   *)
(* the worker id of its last request, or the context of one ASGI request.  *)
(* Connecting and sending are those of SignalBus, seen per listener: conn  *)
(* says which listener hears which worker.                                 *)
(***************************************************************************)
EXTENDS Sequences, FiniteSets, Naturals

CONSTANTS
    Requests,    \* request objects
    Contexts,    \* threads, or contexts of asynchronous requests
    Ids,         \* values of id(request); a freed one may come back
    NoId,        \* no id: not set, not living
    Excluded,    \* requests matched by NPLUSONE_EXCLUDE_URLS
    Configs,     \* settings: reporting in batches, raising, debugging
    MayCancel    \* whether a request may be cancelled (asyncio.CancelledError)

ASSUME IdsAssumption == NoId \notin Ids /\ NoId \notin Contexts /\ Ids \cap Contexts = {}
ASSUME ConfigAssumption ==
    /\ Excluded \subseteq Requests
    /\ Configs \subseteq [batch : BOOLEAN, raise : BOOLEAN, debug : BOOLEAN]
    /\ MayCancel \in BOOLEAN

Kinds == {"lazy", "eager", "debug"}
Workers == Ids \cup Contexts
Ended == {"answered", "failed", "raised", "cancelled"}

VARIABLES
    config,     \* the settings the middleware runs under
    stage,      \* history: where each request is in its life, and how it ended
    ident,      \* id(request) while the request object lives
    context,    \* the context that serves the request
    ctxvar,     \* nplus1_context in each context
    listeners,  \* self._listeners[request]: the kinds it has an entry for
    conn,       \* <<request, kind, worker>>: that listener hears that worker
    unused,     \* the request's eager tracker would report a relation
    batch,      \* self._batch in insertion order: [req, msgs], msgs by emitter
    heard       \* history: <<emitter, owner>> of events that reached a listener

vars == <<config, stage, ident, context, ctxvar, listeners, conn, unused, batch, heard>>

Running(r) == stage[r] = "running"

\* signals.get_worker() in context c.
Worker(c) == IF ctxvar[c] # NoId THEN ctxvar[c] ELSE c

\* The requests whose listener of the kind hears the worker.
Hearing(kind, w) == {r \in Requests : <<r, kind, w>> \in conn}

Enabled == IF config.debug THEN Kinds ELSE {"lazy", "eager"}

\* Mutant of Without: handlers are told apart by their function only.
WithoutKind(r, kinds) == {c \in conn : c[2] \notin kinds}

\* conn without the listeners of r of these kinds: their cleanup disconnects
\* them from every sender.
Without(r, kinds) == {c \in conn : ~(c[1] = r /\ c[2] \in kinds)}

\* self._batch.pop(r, []) leaves the batches of the other requests in order.
Popped(b, r) ==
    IF \E i \in 1..Len(b) : b[i].req = r
    THEN LET k == CHOOSE i \in 1..Len(b) : b[i].req = r
         IN SubSeq(b, 1, k - 1) \o SubSeq(b, k + 1, Len(b))
    ELSE b

Init ==
    /\ config \in Configs
    /\ stage = [r \in Requests |-> "new"]
    /\ ident = [r \in Requests |-> NoId]
    /\ context = [r \in Requests |-> NoId]
    /\ ctxvar = [c \in Contexts |-> NoId]
    /\ listeners = [r \in Requests |-> {}]
    /\ conn = {}
    /\ unused = [r \in Requests |-> FALSE]
    /\ batch = <<>>
    /\ heard = {}

--------------------------------------------------------------------------------
\* A new request object r with an id no living object has reaches context c.
Arrives(r, c, i) ==
    /\ stage[r] = "new"
    /\ \A q \in Requests : ident[q] # i /\ (Running(q) => context[q] # c)
    /\ stage' = [stage EXCEPT ![r] = "running"]
    /\ ident' = [ident EXCEPT ![r] = i]
    /\ context' = [context EXCEPT ![r] = c]

\* The worker of context c becomes i, the listeners of r connect to it and an empty
\* batch is filed under key.
SetUp(r, c, i, key) ==
    /\ r \notin Excluded
    /\ Arrives(r, c, i)
    /\ ctxvar' = [ctxvar EXCEPT ![c] = i]
    /\ listeners' = [listeners EXCEPT ![r] = Enabled]
    /\ conn' = conn \cup ({r} \X Enabled \X {i})
    /\ batch' = IF config.batch THEN Append(batch, [req |-> key, msgs |-> {}]) ELSE batch
    /\ UNCHANGED <<config, unused, heard>>

\* Mutant of ProcessRequest: the batch is kept by the id of the request.
ProcessRequestById(r, c, i) == SetUp(r, c, i, i)

\* process_request of a request that is to be detected: it binds the worker, and
\* the listeners connect to what get_worker() returns then.
ProcessRequest(r, c, i) == SetUp(r, c, i, r)

\* process_request of an excluded request returns before it binds a worker.
ProcessExcluded(r, c, i) ==
    /\ r \in Excluded
    /\ Arrives(r, c, i)
    /\ UNCHANGED <<config, ctxvar, listeners, conn, unused, batch, heard>>

--------------------------------------------------------------------------------
\* ORM events while r is served: they reach the listeners of r's worker.
Hears(r, kind) == Hearing(kind, Worker(context[r]))

\* Instances are loaded, or lazily loaded without a finding.
LoadEvent(r) ==
    /\ Running(r)
    /\ heard' = heard \cup ({r} \X Hears(r, "lazy"))
    /\ UNCHANGED <<config, stage, ident, context, ctxvar, listeners, conn, unused, batch>>

\* Whether notify raises: an error notifier gets the message at once, also in
\* batch mode when there is no batch to put it in.
NotifyRaises == config.raise /\ (~config.batch \/ batch = <<>>)

\* notify in batch mode: the first batch of the dictionary takes the message.
Collected(emitter) ==
    IF config.batch /\ batch # <<>>
    THEN [batch EXCEPT ![1].msgs = @ \cup {emitter}]
    ELSE batch

\* A lazy load is found; every listener of the worker notifies.
LazyFound(r) ==
    /\ Running(r)
    /\ Hears(r, "lazy") # {}
    /\ ~NotifyRaises
    /\ heard' = heard \cup ({r} \X Hears(r, "lazy"))
    /\ batch' = Collected(r)
    /\ UNCHANGED <<config, stage, ident, context, ctxvar, listeners, conn, unused>>

\* The same when the first notification raises and the view handles the error.
LazyFoundRaises(r) ==
    /\ Running(r)
    /\ NotifyRaises
    /\ \E q \in Hears(r, "lazy") : heard' = heard \cup {<<r, q>>}
    /\ UNCHANGED <<config, stage, ident, context, ctxvar, listeners, conn, unused, batch>>

\* An eager load is tracked, and is unused so far.
EagerEvent(r) ==
    /\ Running(r)
    /\ heard' = heard \cup ({r} \X Hears(r, "eager"))
    /\ unused' = [q \in Requests |-> unused[q] \/ q \in Hears(r, "eager")]
    /\ UNCHANGED <<config, stage, ident, context, ctxvar, listeners, conn, batch>>

\* The eager-loaded relation is used.
TouchEvent(r) ==
    /\ Running(r)
    /\ unused' = [q \in Requests |-> unused[q] /\ q \notin Hears(r, "eager")]
    /\ UNCHANGED <<config, stage, ident, context, ctxvar, listeners, conn, batch, heard>>

--------------------------------------------------------------------------------
Ends(r, how) ==
    /\ Running(r)
    /\ stage' = [stage EXCEPT ![r] = how]
    /\ context' = [context EXCEPT ![r] = NoId]
    /\ UNCHANGED <<config, ident, ctxvar>>

HasMessage(r, skipEager) == ~skipEager /\ "eager" \in listeners[r] /\ unused[r]

\* process_response: each listener leaves the dictionary and is torn down, or
\* cleaned up when eager checks are skipped; then the batch of r is flushed.  If
\* flushing raises, the listeners are gone already.
ProcessResponse(r, skipEager) ==
    /\ Ends(r, "answered")
    /\ HasMessage(r, skipEager) => ~NotifyRaises
    /\ conn' = Without(r, listeners[r])
    /\ listeners' = [listeners EXCEPT ![r] = {}]
    /\ unused' = [unused EXCEPT ![r] = FALSE]
    /\ batch' = Popped(IF HasMessage(r, skipEager) THEN Collected(r) ELSE batch, r)
    /\ UNCHANGED heard

\* Mutant of ProcessResponseRaises: __call__ does not clean up.
ProcessResponseRaisesUnwrapped(r, skipEager) ==
    /\ Ends(r, "raised")
    /\ HasMessage(r, skipEager)
    /\ NotifyRaises
    /\ conn' = Without(r, {"lazy"})
    /\ listeners' = [listeners EXCEPT ![r] = @ \ {"lazy", "eager"}]
    /\ UNCHANGED <<unused, batch, heard>>

\* process_response when the report of the eager listener raises: the listener
\* has left the dictionary but was not cleaned up, and the cleanup that __call__
\* runs on the exception finds only the remaining one.
ProcessResponseRaises(r, skipEager) ==
    /\ Ends(r, "raised")
    /\ HasMessage(r, skipEager)
    /\ NotifyRaises
    /\ conn' = Without(r, listeners[r] \ {"eager"})
    /\ listeners' = [listeners EXCEPT ![r] = {}]
    /\ UNCHANGED <<unused, batch, heard>>

\* Mutant of ResponseFails: __call__ does not clean up.
ResponseFailsUncleaned(r) ==
    /\ Ends(r, "failed")
    /\ UNCHANGED <<listeners, conn, unused, batch, heard>>

\* get_response raises an Exception: _cleanup_listeners, and nothing is flushed.
ResponseFails(r) ==
    /\ Ends(r, "failed")
    /\ conn' = Without(r, listeners[r])
    /\ listeners' = [listeners EXCEPT ![r] = {}]
    /\ unused' = [unused EXCEPT ![r] = FALSE]
    /\ UNCHANGED <<batch, heard>>

\* CancelledError is no Exception: neither cleanup nor teardown runs.
Cancelled(r) ==
    /\ MayCancel
    /\ Ends(r, "cancelled")
    /\ UNCHANGED <<listeners, conn, unused, batch, heard>>

\* The request object is freed: its weak dictionary entries vanish.
Free(r) ==
    /\ stage[r] \in Ended
    /\ ident[r] # NoId
    /\ ident' = [ident EXCEPT ![r] = NoId]
    /\ listeners' = [listeners EXCEPT ![r] = {}]
    /\ batch' = Popped(batch, r)
    /\ UNCHANGED <<config, stage, context, ctxvar, conn, unused, heard>>

Next ==
    \E r \in Requests :
        \/ \E c \in Contexts, i \in Ids : ProcessRequest(r, c, i) \/ ProcessExcluded(r, c, i)
        \/ LoadEvent(r)
        \/ LazyFound(r)
        \/ LazyFoundRaises(r)
        \/ EagerEvent(r)
        \/ TouchEvent(r)
        \/ \E skipEager \in BOOLEAN : ProcessResponse(r, skipEager) \/ ProcessResponseRaises(r, skipEager)
        \/ ResponseFails(r)
        \/ Cancelled(r)
        \/ Free(r)

Spec == Init /\ [][Next]_vars

--------------------------------------------------------------------------------
\* Types: listeners connect to ids or contexts, batches are keyed by requests.
TypeOK ==
    /\ config \in Configs
    /\ stage \in [Requests -> {"new", "running"} \cup Ended]
    /\ ident \in [Requests -> Ids \cup {NoId}]
    /\ context \in [Requests -> Contexts \cup {NoId}]
    /\ ctxvar \in [Contexts -> Ids \cup {NoId}]
    /\ listeners \in [Requests -> SUBSET Kinds]
    /\ conn \subseteq Requests \X Kinds \X Workers
    /\ unused \in [Requests -> BOOLEAN]
    /\ batch \in Seq([req : Requests, msgs : SUBSET Requests])
    /\ heard \subseteq Requests \X Requests

\* No listener outlives its request (__call__ "guarantees listener cleanup on
\* exceptions"), but when a report raises out of process_response, and then the
\* eager one only: the lazy one went before it and __call__ cleans the debug one
\* up; and when the request is cancelled.  In batch mode no report raises there,
\* whatever the notifiers do.
OnlyAbnormalEndsLeak ==
    \A c \in conn :
        \/ Running(c[1])
        \/ stage[c[1]] = "raised" /\ c[2] = "eager" /\ config.raise /\ ~config.batch
        \/ stage[c[1]] = "cancelled"

\* A request hears itself: while it is served, its listeners are connected to
\* the worker its events are sent to, whatever other requests end meanwhile.
RunningIsMonitored ==
    \A r \in Requests \ Excluded : Running(r) =>
        \A k \in {"lazy", "eager"} : <<r, k, Worker(context[r])>> \in conn

\* The activity of a detected request reaches no listener of another request,
\* though ids are reused and contexts keep the worker of their last request: but
\* for listeners that were left connected under an id that came back.
Isolation ==
    \A e \in heard : e[1] \notin Excluded =>
        e[1] = e[2] \/ stage[e[2]] \in {"raised", "cancelled"}

\* A batch holds the messages of its own request ("Find the current request's
\* batch list").
BatchIsOwn == \A i \in 1..Len(batch) : batch[i].msgs \subseteq {batch[i].req}

================================================================================
