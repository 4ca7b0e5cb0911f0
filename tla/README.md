# TLA+ model of nplusone

nplusone detects N+1 queries and unused eager loads in Python ORMs.  ORM patches
emit events through blinker signals; listeners of a unit of work (a request, a
task, a `with` block) collect them and report.  Everything the library promises
depends on three things that tests reach badly: *who hears whom* when many threads
and tasks share five process-wide signals, *what is left connected* when a unit of
work ends in an unusual way, and *which findings* a sequence of queries and accesses
leads to, given that events are emitted in a different order by each ORM.  The
modules here model these three.

Paths below are relative to `src/nplusone/`.

## Inventory

| Component | State | Operations | Talks to |
|---|---|---|---|
| Signal bus, `core/signals.py` | five blinker signals: stored receivers, subscriptions per sender; one lock | `connect`, `disconnect`, `ignore`/`designalify`, `signalify` (send), `get_worker` | called by listeners (connect) and ORM patches (send, ignore) |
| Lazy listener, `core/listeners.py` | `loaded`, `ignored` | `setup`, `handle_load`, `handle_ignore`, `handle_lazy`, `cleanup`, `teardown` | hears load, ignore_load, lazy_load; notifies its parent at once |
| Eager listener and tracker, `core/listeners.py` | `tracker.data`, `touched` | `setup`, `handle_eager`, `handle_touch`, `log_eager`, `cleanup`, `teardown` | hears eager_load and touch; notifies its parent at teardown |
| Debug listener | none | `setup`, `cleanup`, `teardown` | hears all signals, writes log lines |
| Rules, messages | none | `compare`, `match` | asked by `notify` |
| Notifiers, `core/notifiers.py` | none | `init`, `notify` (log, or raise) | called by parents |
| Profiler, sessions, `core/profiler.py` | listeners of a session; thread-local session | `Profiler`, `setup`, `teardown` | own listeners; used by Celery and WSGI |
| Django middleware, `ext/django/middleware.py` | `_listeners` and `_batch` per request, the contextvar of the worker | `process_request`, `process_response`, `__call__`, `_acall`, `notify`, `_flush_batch` | owns the listeners of each request |
| Django patches, `ext/django/patch.py` | the contextvar | parsers, wrappers of query methods | emit the events |
| SQLAlchemy, Peewee patches, `ext/sqlalchemy.py`, `ext/peewee.py` | wrapped results, `_context` of a backref query | wrappers of query execution, loaders and accessors | emit the events |
| Flask extension, `ext/flask_sqlalchemy.py` | `g.listeners` of an application context | `connect`, `disconnect`, `ensure_cleanup`, `notify` | owns the listeners of each request |
| Celery, WSGI, `ext/celery.py`, `ext/wsgi.py` | none | task hooks, `__call__` | call `setup`, `teardown`, `Profiler` |

What is hard in each, and what makes it correct:

* **Signal bus.**  Connects and `ignore` blocks take a lock, sends do not, and a
  block spans arbitrary code between its two critical sections.  Correct means:
  no live handler is lost and each is heard again, a block suppresses what it says,
  nothing comes back after it was cleaned up, and weak stays weak.  Underneath,
  blinker iterates over dictionaries that lock-free sends and dying senders change.
* **Eager listener.**  Loads, rows and touches arrive in any order, query keys are
  `id()`s that come back, and the class of a touch may be a parent or a child of
  the class of the load.  Correct means: no false report, and no missing one.
* **Django middleware.**  Concurrent requests over threads that remember, ids that
  come back, exceptions at every point, cancellation.  Correct means: nothing
  stays connected, each request hears itself and only itself, messages are
  reported for the request they belong to.
* **Sessions and Flask.**  The same for other owners: nested blocks, a slot per
  thread, reports that raise while a unit of work ends.
* **ORM patches and the lazy listener.**  Which events an operation emits, for which
  keys, and before or after its query.  Correct means: a finding is about a lookup on
  a row that came with others, every such query is found, and a relation is unused
  when nobody read it.

`PROJECT.json` lists the hazards, each at its line, with the properties that would
catch it.

## Modules

| Module | Models |
|---|---|
| `WorkerBus` | what a signal promises to a flow that has its worker to itself |
| `SignalBus` | one signal, `core/signals.py` over blinker |
| `SignalBusView` | the mapping of a flow's view of `SignalBus` to `WorkerBus` |
| `SignalBookkeeping` | the same signal's dictionaries, disconnect and send step by step |
| `EagerListener` | `EagerListener` and `EagerTracker` of `core/listeners.py` |
| `LazyDetection` | `LazyListener`, the whitelist and the report over one unit of work; what the ORM modules share |
| `DjangoOrm`, `SqlalchemyOrm`, `PeeweeOrm` | the events of `ext/django/patch.py`, `ext/sqlalchemy.py`, `ext/peewee.py` |
| `OrmLoads` | a program over any of the three, and what is reported |
| `DjangoMiddleware` | `ext/django/middleware.py` with `get_worker` of `ext/django/patch.py` |
| `FlaskExtension` | `ext/flask_sqlalchemy.py` |
| `ProfilerSessions` | `core/profiler.py`, as used by `ext/celery.py` and `ext/wsgi.py` |
| `MC...` | instances of these for TLC |
| `...Proofs` | theorems and proofs |

The owners of listeners (`DjangoMiddleware`, `FlaskExtension`, `ProfilerSessions`)
take a signal for what `WorkerBus` promises, one relation `conn`; `OrmLoads` takes a
unit of work for what they promise, listeners that hear it alone.

**SignalBus.**  `stored` and `subs` are blinker's tables (how a receiver is
referenced; which sender it is subscribed to).  A *flow* is a thread or task and
its scope is its `get_worker()`.  Each critical section is one action:
`Connect`, `Disconnect`, `IgnoreEnter` (snapshot and disconnect), `IgnoreExit`
(the `finally` branch); everything may happen between the last two.  A send is
split where it can be interrupted: `Send` computes the ids of the receivers, then
`Call`, `CallRaises` and `Skip` handle one each.  `Collect` is the garbage
collector taking a weak receiver.  `frames` is the stack of snapshots of each
flow; `live` in a frame and `phase` are history.  A flow neither connects nor
ignores in the middle of its own send; a `Disconnect` is one of a flow of the same
scope, outside the blocks it has open itself (a request is torn down after its
view has returned).

**SignalBookkeeping.**  Where `SignalBus` takes a disconnect as one step, here it is
`Disconnect`, a `DisconnectNext` for each bucket of `_by_sender`, and
`DisconnectEnds` with the pruning, or `DisconnectFails` when the dictionary changed
its size meanwhile; `DisconnectUnknown` is that of a receiver `_by_receiver` does not
have.  `cut` is the disconnect under way, which has the lock.  The entry of an ignore
block is one step for a worker, whose bucket blinker looks up (`IgnoreEnter`).  At ANY
it is a disconnect from all senders for each receiver found: `IgnoreOpens`, then
`IgnoreCuts` (or `IgnoreSkips`), the steps `DisconnectNext` and `IgnoreCutEnds` for each,
and `IgnoreOpened`; `opening` is that entry.  `IgnoreFails` is the iteration that raises
there, before the `try`: the receiver it was at is `failed`, those before it are `lost`.
A send tests for its sender's bucket (`SendChecks`) and then looks it up in a defaultdict
(`SendLooksUp`), without the lock; `SenderFreed` is the end of a sender that
blinker refers to weakly.  Ignore blocks are one deep and receivers strong: nesting
and strength are the matter of `SignalBus`, where the entry of a block is one step that
does not fail.

**EagerListener.**  `data` is the tracker's dictionary as a set of groups.  A query
is one `EagerLoad` and any number of `EagerLoadMore`; `Free` frees the object
whose `id()` is its key, after which another query may get that key.  `Touch` is
an access; it counts as a use of every query that loaded the row before, and that
judgement (`fetches`, a history variable) is what reports are compared with, not
the tracker's own.  Rows are of the model of their relation or of a subclass.  A
class never has two unrelated parents in a model's hierarchy (`SubclassAssumption`).

**LazyDetection and the ORMs.**  Rows belong to models and relations lead from rows
to rows; a program has objects for rows (`live`), which keep values (`cached`).  An
operation is a query with a window (LIMIT and OFFSET) and relations to load eagerly,
or an access to a relation of an object; it fetches what the database has, emits
the events of the patches in their order, and keeps or loses the value.  `loaded`,
`ignored`, `groups` and `touched` are what the listeners know.  What they should have
known is history: how each row was fetched (`fetched`: in bulk, with an offset, alone,
joined to such a one, or without any signal), what was looked up, by a query, without one,
or by a query without lazy_load (`lazies`), which values were read or missed (`used`) and
which only counted (`counted`).  In bulk is a matter of the query's window, however many
rows it finds, as it is in the code.  `to_key` is the operator `KeyOf`, in which models of one name collide.
Where a handler raises, in the middle of an access, the access stops where the code
does: before the query in Django (`DjangoStopped`), after it in SQLAlchemy, either
way in Peewee.  What the patches do not announce is there too, as history without an
event: `iterator()` and raw queries, counting, testing or aggregating a manager that is not
prefetched (`DjangoQuerySilently`), a reverse one to one that is joined (`Seen`), and the
objects that SQLAlchemy joins or loads lazily.  Query keys of eager loads are distinct here; `EagerListener` is about
those that are not.

**DjangoMiddleware.**  One action for `process_request` (and one for its early
return), one for each way out: answered, answered with a report that raises,
failed, cancelled; `Free` is the request object's end, when the weak dictionaries
forget it and its `id` becomes available.  `context`/`ctxvar` are threads or ASGI
contexts and the contextvar in each; a context serves one request at a time and
keeps its variable.  `conn` says which listener hears which worker: the effect of
`SignalBus` when nobody ignores.  Events are those of the listeners, with
`unused` standing for a tracker that would report; `heard` records who heard whom.

**FlaskExtension.**  `stack` is what each thread serves, the innermost request last;
`g` is one dictionary per thread, which a nested request shares with the outer one
(as an application context is found, not made).  `Connect` is the hook before a
request, or `ConnectSkipped` when an earlier hook answers; `AfterRequest` the hook
after it, which runs a second time from `HandleException` or not at all
(`Propagate`); `TeardownRequest` is `ensure_cleanup`.  The worker is the request
object, so blinker drops its connections when it is freed (`Free`).

**ProfilerSessions.**  A session is an `_ImperativeSession`, a block a `Profiler`;
both are units of work whose listeners connect to `get_worker()` of their thread.
`Worker` is what that returns: ANY without an integration; with Django the variable of
the thread's context or else its ident; with Flask the request it serves or else None.
So requests are in this module, for what they do to the worker only: `Serve` begins one on
a thread, around, inside or between units, and sets the variable; `Served` ends it, and
leaves the variable (`ext/django/middleware.py:159` has no reset) or, in Flask, lets blinker
forget the request.  `ThreadRestarts` is a thread that ends and another one that gets its
ident, with an empty context.  `session` is the thread-local slot, `blocks` the `with`
blocks a thread is in, which end in any order (coroutines interleave).  The end of a unit
is `Ends`, or `EndsRaising` when the report of its eager listener raises: always for a
Profiler, for a session with an error notifier.  After that a session stays in its slot
without listeners (`TeardownRaises`) and the next `Teardown` or `Setup` replaces it.
`Setup` may find an active session in the slot, as when a Celery task runs another one on
its own thread; the session it replaces is in `replaced`.  `owner`, `worker`, `former`,
`visited`, `given` and `reused` are history: who started a unit and what it connected to,
whether that thread is gone, whether a request came between, which ids came back.

Definitions called a *mutant* in the comments are not part of the model.  Each is a
plausible wrong version of the definition after it (a dropped condition, a swapped
order), and under it the property it goes with is violated; `PROJECT.json` pairs
them.

## Runs

| Run | Shows | Bounds |
|---|---|---|
| `SignalBusShared` | all properties, the refinement and liveness, two flows sharing a worker | 3 flows, 3 receivers (one weak), blocks nested twice |
| `SignalBusAny` | the safety properties and the refinement, with a flow and a weak receiver at ANY, and a handler connected again while live | as above |
| `SignalBusResurrection` | **violated**: cleaned-up handlers stay away for every flow | |
| `SignalBookkeeping` | no live listener loses its bucket, the dictionaries stay inverse, only lock-free steps make a disconnect or the entry of a block fail, empty buckets go | 3 flows, two of one weak worker and one at ANY, and 3 receivers, two of them at ANY |
| `BookkeepingLosses` | **violated**: a block gives back what it takes | 2 flows and 4 receivers, half of them at ANY |
| `BookkeepingInserts` | **violated**: sends never insert | 3 flows and 3 receivers, one each for two workers and ANY |
| `EagerListener` | reports are sound and complete | 2 classes (parent, child), 2 rows, 2 ids, 2 queries |
| `OrmLoads` | lazy findings and unused eager loads are sound, and complete for what is announced; raising stops the query | 4 rows, 5 relations of all kinds, 4 windows, 3 operations, 1 eager relation per query |
| `DjangoMiddleware` | what leaks, monitored, isolated; quiet, batched and raising, with failures and cancellation | 3 requests and an excluded one, 2 contexts, 2 ids |
| `DjangoBatchMixup` | **violated**: a batch holds its own messages | |
| `FlaskExtension` | what leaks, monitored, isolated | 3 requests, 2 threads, 3 ids, nested twice |
| `ProfilerSessions` | what is active hears its thread unless a request came between, what leaks, through what another thread is heard | 2 sessions and a block, 2 thread idents, 1 request id, each used any number of times; each `get_worker`, raising or not |

Why these bounds are enough: overlap and resurrection need two flows of one worker
and a third for isolation, nesting needs two blocks.  A disconnect that is caught in
the middle needs one flow in it, one that is in a send and a sender that dies, and a
bucket that must not be pruned meanwhile; the entry of a block that fails half way needs
two receivers at ANY.  A shared key needs two queries and one id,
inheritance a parent and a child; an id that comes back needs a request that ended,
one that took its id and a third that runs meanwhile, and the order of two batches
needs two requests.  Two threads with sessions that replace one another, and blocks
around or inside of them, are all the ways units of work meet, and one request id that is
served on both is all it takes for a worker to move or to come back.  A lazy finding needs
a query and an access, and a third operation may ignore the row, read it through a
second object or make another query; the rows have each kind of relation, a missing
one, a null one, two rows for a relation to many, and a row of another model with the
same key.  The theorems below remove the bounds of their modules.

Named bounds: `MaxNesting` is the stack of blocks per flow, `MaxDepth` the nesting of
Flask requests, `MaxFetches` the queries of `EagerListener`, `MaxSteps` the operations
of `OrmLoads`, `MaxEager` the relations a query of it loads eagerly, `MaxCopies` the
objects of a row and `Windows` the limits and offsets.  Requests, units of work and
receivers are used once.  Symmetry is used for ids, contexts, threads, requests and
units that no property or setting names, and for flows and receivers of one scope in
`SignalBookkeeping`; the two runs that check temporal properties use none.

Fairness: only `HeardAgain` needs any, and `FairSpec` states it: a send in progress
goes on (a handler returns), and an ignore block ends, at every depth, since the code
inside is a call of Django's `prefetch_one_level` or the body of a `with` statement.
Strong fairness, for between entry and exit a block may send again and again, and
while a send is in progress it cannot end.  Nobody is obliged to connect, to
disconnect or to enter a block.

The units of work of `OrmLoads`, `EagerListener`, `DjangoMiddleware`, `FlaskExtension` and
`ProfilerSessions` end, and so do the receivers and workers of `SignalBookkeeping`, so
these runs do not check for deadlock.

## Findings

Runs that are violated:

1. **Resurrection** (`core/signals.py:127`).  A listener cleaned up while another
   flow of its worker is in a block is connected again, for good.  With one thread
   per request this needs threads or tasks started by the view (`asyncio.gather`).
2. **Sends insert** (`core/signals.py:77`).  A send that found its sender's bucket inserts it again
   when a disconnect of another thread prunes it before the look-up.  If a third one
   iterates over the dictionary, its disconnect fails and its listener stays.
3. **Batch mix-up** (`ext/django/middleware.py:241`).  A message goes into the first
   batch, not into that of its request.
4. **A block at ANY loses receivers** (`core/signals.py:120`).  Its entry disconnects them
   one after the other, each time iterating over all buckets; when a lock-free step makes
   one raise, those before it are not given back.

Properties that hold only with an exception, which names what the code does:

5. **Overlapping blocks** (`core/signals.py:124`; `IgnoreSuppresses` is about flows alone
   in their worker).  Of two blocks of one worker, the end of one reconnects while the
   other is open.
6. **A raising report leaks** (`OnlyAbnormalEndsLeak`, `OnlyRaisedReportsLeak`,
   `OnlyRaisedOrReplacedLeak`).  The listener leaves its owner before its teardown; when the
   report raises, nobody can clean it up.  Lazy and debug listeners are safe, and so
   is Django's batch mode.  A cancelled request leaks everything.
7. **Excluded requests are heard** (`ext/django/middleware.py:156`; `Isolation` is about
   detected ones).  They run under the worker their thread had last, and another
   request may have that id now.
8. **Nested units** (`core/profiler.py:130`, `ext/flask_sqlalchemy.py:94`).  A second
   `setup()` on a thread, or a Flask request inside of another, takes the place of the
   first one's listeners, which stay connected and never report - in Flask until
   the request object is freed.
9. **Offsets** (`ext/sqlalchemy.py:94`, `ext/peewee.py:62`; `"paged"` in `LazyIsSound` and
   `LazyIsComplete`).  The offset is subtracted from the limit, so that LIMIT 1 OFFSET 1
   loads in bulk and LIMIT 2 OFFSET 1 loads a single row.
10. **Findings without a query** (`ext/sqlalchemy.py:159`; `LazyIsSound` asks for a query of
    Django only).  SQLAlchemy finds the object in its identity map, Peewee iterates
    over rows it has, and a finding is made all the same.
11. **Names collide** (`to_key`; `Past` goes by keys).  Rows of two models with one name and
    primary key are one row to the listeners.
12. **Queries that are not announced** (`ext/django/patch.py:97`; `"silent"`, `"streamed"` and
    `"hidden"`, which `Detectable` leaves out).  `count()`, `exists()`, `aggregate()` and
    `iterator()` on a manager are a query per row without lazy_load, and rows of
    `iterator()`, of raw queries and of SQLAlchemy's joined and lazy loads are no load.
13. **Workers that come back** (`ext/django/patch.py:44`; `ThreadsAreIsolated`).  A listener
    that is left behind hears the thread that gets its ident, and an active one another
    thread through the id of a request, given twice.
14. **Joined to a single row** (`ext/django/patch.py:567`; `"joined"` in `LazyIsSound`).  What
    `select_related` joins to the result of `get()` is loaded to the listener as if in bulk,
    and a lazy load on it is flagged, although `LazyListener` "tracks instances loaded by bulk
    queries" (`core/listeners.py:132`).
15. **A joined reverse one to one is not loaded** (`ext/django/patch.py:370`; `"hidden"` in
    `Detectable`).  The parser asks the wrong object for it, so n+1s on such objects go
    undetected, although it is there for "enabling N+1 detection" on them (line 359).
16. **Reading that there is none** (`ext/django/patch.py:507`; `Missing` in `UnusedIsSound`).
    The descriptor raises before touch, and a relation that was read on every row is flagged
    as "never accessed" (`core/listeners.py:200`).
17. **Sessions miss their thread** (`ext/django/middleware.py:159`; `visited` in
    `ActiveIsMonitored`).  A request served on the thread leaves its id in the context, and
    the session that listens to the ident of the thread hears nothing more.

## Proofs

`tlapm` checks every theorem for all values of the constants that satisfy the
named assumptions of the modules.

* `SignalBusProofs`.  The inductive invariant `Inv1` says what the code relies on
  silently: subscriptions are at the receiver's own scope, or at the scope of a
  block that gave an ANY receiver back (`SubsInScope`); a block holds receivers of
  its scope or of ANY, with their strength (`HeldInScope`).  With it
  `LiveIsReachable` is itself inductive, for flows of any scopes.  What holds only
  for a flow alone in its worker needs `ExclusiveInv`: a handler held by a block is
  live, and one that a block muted is in no bucket, in no send in progress and in no
  inner block.  `NoResurrection` follows (`CleanupIsFinal`).
* `SignalBusViewProofs`.  `BusRefinement`: every step of the signal is a step of
  `WorkerBus` or invisible, for an exclusive flow.  The mapping is in
  `SignalBusView`; the extra invariant is that what a send has still to call is not
  muted meanwhile.
* `EagerListenerProofs`.  Soundness needs that the rows of every query are in the
  group of its key until the end (`FetchesTracked`), that every group stems from a
  query (`GroupsFetched`), and that a used query has left a touch that will prune
  its group (`UsesTouched`); here the assumption on subclasses is used.
  Completeness adds that every row of a group was loaded under its key
  (`RowsFetched`).
* `DjangoMiddlewareProofs`.  `Inv`: living requests have distinct ids and contexts
  (`Distinct`), a detected request is connected to the id its context has as worker
  (`Bound`), and whatever is connected is still in the dictionary or was left by an
  abnormal end (`Registered`).  `RunningIsMonitored` follows; `OnlyAbnormalEndsLeak`
  needs in addition that a request keeps its batch while it runs, so that `notify`
  never falls back to raising in batch mode; `Isolation` that what is connected to the
  id of a running request is its own or was left behind.  All hold under all
  settings, failures and cancellations.
* `ProfilerSessionsProofs`.  An active unit's listeners are connected to its worker unless
  that was a Flask request that is gone (`Started`); whatever is connected is at its unit's
  worker, and its unit is active or raised (`Connected`); a worker names the thread of its
  unit, its request or none (`Named`); an active unit is in the slot or among the blocks of
  its thread, or was replaced (`Held`).  `Isolated` is judged when an event happens, so that
  it says what held then.  The four properties follow, for any number of threads, requests,
  sessions and blocks.  `WorkersAssumption`: idents, request ids, None and ANY are distinct
  senders to blinker.
* `SignalBookkeepingProofs`.  `FailuresAreRaces`: while a disconnect is in progress the
  dictionary has the size it began with, or its receiver has been raced, and with it all
  that the entry of a block at ANY has taken (`SizeKept`).
  For the rest `TablesInv`: none of the properties is inductive while the iteration of a
  disconnect is under way.  A receiver is in both dictionaries alike unless it is the
  one being disconnected (`SameTables`), and that one is in no entry of `_by_receiver`
  and only in buckets still in `todo` (`CutProgress`), so that at the end it is nowhere.
  Subscribed and held receivers are of that sender or of ANY (`Scoped`): a block at ANY
  takes only its own, and one at a worker holds what it took from its bucket.  A block
  that emptied a bucket holds what was in it (`EmptyIsHeld`), or its end could leave an
  empty one.  `NoneAssumption`: the placeholder for "no disconnect" is none.  The
  operations are first described by what a look-up finds afterwards, present or not
  (`SubscribeBuckets` ... `FreedBuckets`), since look-ups in a `defaultdict` insert.
* `FlaskExtensionProofs`.  `Isolation`, from ids alone: a listener is connected to the id
  of its own request (`OwnId`), and living requests have distinct ids (`Distinct`).
  Nothing about hooks, nesting or `g` is needed, so no hook can break it.  The other
  properties are about the hooks, and need `HookInv`: a request that is served has one
  place on one stack, below another one it is shadowed, and what is in `g` is of requests
  on that stack (`Placed`); what is connected is in `g` where its request is on top,
  or was shadowed or raised (`Found`).
* `OrmLoadsProofs`.  One invariant for three ORMs, of three parts.  `KeysInv`: a key in
  `loaded` but not in `ignored` was fetched in bulk, joined or with an offset, one in
  `ignored` alone or with an offset, and conversely (rows that were not announced are in
  neither for that); a judgement about keys, because
  models of one name share them.  `LazyInv` are the three lazy properties, inductive
  together with it: an access is judged when it happens, by `past`.  `EagerInv`: objects
  with a relation loaded by a query are touched when they are read, unless they are read to
  have none (`ReadsTouch`), and a
  touch is a read or a count (`TouchesAreReads`).  Touches are dropped until there is a
  group, so the objects of the first one must be new: in Django the copies of a row are
  numbered without gaps (`Numbered`).  `LoadBoundsAssumption` asks for at least one copy
  of a row, as a query makes one.  The number of operations is not used.

Every invariant that a passing run checks is stated by a theorem.  Only model-checked:
`HeardAgain`, as liveness under fairness is out of the prover's reach, and the four
violations, which are traces.

## Not modelled

* Wording: call sites, log lines, messages, and the names that parsers give a relation
  (a default `pet_set`, a related query name): a relation is its own name in every
  event.
* Configuration parsing, and settings that change while a process runs; in Flask, an
  extension object shared by several applications.
* `Prefetch(to_attr=...)`, whose reads emit no touch; `NPLUSONE_SKIP_EMPTY_PREFETCH`; generic
  relations, which emit what reverse foreign keys do; instances of sibling classes in one
  prefetch; managers made before the patches were applied.
* Rows that are no instances: values and tuples.  Django and SQLAlchemy skip them,
  Peewee's `parse_load` fails.
* Weak receivers and nested blocks in `SignalBookkeeping`.  That it implements `SignalBus`
  does not hold as it stands: neither a disconnect nor the entry of a block at ANY that
  fails in the middle is a step of it.
* A reverse one to one of a nullable field, and one that leads back to its own model.
  Rules of a Profiler or session under Django, which match the bare name of a model: a unit
  of `OrmLoads` is one of the ORM's own integration (`QualifiedOrms`).
* Without an integration `get_worker()` is ANY, and sessions of several threads hear
  each other although `setup()` speaks of the current thread; `ThreadsAreIsolated` says
  nothing of them.  In `ProfilerSessions` a thread has one context: tasks of one event loop
  that each have their own are in `DjangoMiddleware`.  A WSGI block ends when the application has
  returned, so what a streamed response does later is outside of the model.
* `core/stack.py` and the app configuration, which keep no state.

## Plan

1. A refinement of `SignalBus` by `SignalBookkeeping`: it does not hold as it stands (a
   disconnect that fails is no step of it), but should for receivers that no lock-free
   step races, with the receiver of a disconnect in progress taken for disconnected.
2. That the owners of listeners use `WorkerBus` as it allows: `conn` of
   `DjangoMiddleware` and `ProfilerSessions` mapped to it.
3. Weak receivers and nested blocks in `SignalBookkeeping`.
