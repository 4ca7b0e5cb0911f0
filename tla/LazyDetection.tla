----------------------------- MODULE LazyDetection -----------------------------
(***************************************************************************)
(* LazyListener, the whitelist and the report of unused eager loads        *)
(* (src/nplusone/core/listeners.py) over one unit of work, and what the    *)
(* modules of the three ORMs share: rows, the objects that stand for them  *)
(* in the program, and the relations read through those objects.           *)
(*                                                                         *)
(* A relation is a pair (model, field); its name in a message, a touch and *)
(* an eager load is the relation itself.  Query keys are taken as          *)
(* distinct: EagerListener is about those that are not.                    *)
(***************************************************************************)
EXTENDS Integers, FiniteSets

CONSTANTS
    Orms,         \* the ORMs a program may use
    Models, Rows, Relations,
    ModelOf,      \* the model of each row
    KeyOf,        \* to_key: class name and primary key; models may share names
    Owner,        \* the model each relation belongs to
    Kind,         \* forward, nullable, reverse (one to one, of a field that is not
                  \* null), backref or m2m
    Target,       \* the rows each relation of a row leads to
    Qualified,    \* "app.Model" of each model, which DjangoRule matches
    Bare,         \* "Model", which Rule matches
    QualifiedOrms,  \* whose units use DjangoRule: Django's under its middleware
    Whitelist,    \* the rules of NPLUSONE_WHITELIST
    None,         \* a part that a rule leaves open
    Windows,      \* the LIMIT and OFFSET of queries
    MaxEager,     \* bound on the relations a query loads eagerly
    MaxCopies,    \* bound on the objects of one row
    MaxSteps      \* bound on the operations of the unit of work

Unlimited == [limit |-> 0, offset |-> 0]

ASSUME RelationsAssumption ==
    /\ ModelOf \in [Rows -> Models]
    /\ Owner \in [Relations -> Models]
    /\ Kind \in [Relations -> {"forward", "nullable", "reverse", "backref", "m2m"}]
    /\ Target \in [Relations -> [Rows -> SUBSET Rows]]
    /\ \A rel \in Relations, row \in Rows :
          /\ Kind[rel] = "forward" /\ ModelOf[row] = Owner[rel] => Target[rel][row] # {}
          /\ Kind[rel] = "reverse" => \A other \in Target[rel][row] : ModelOf[other] # Owner[rel]
ASSUME RulesAssumption == QualifiedOrms \subseteq Orms \cap {"django"}
ASSUME WindowsAssumption ==
    /\ Windows \subseteq [limit : Nat, offset : Nat]   \* limit 0 is none
    /\ Unlimited \in Windows
ASSUME LoadBoundsAssumption == MaxCopies \in Nat \ {0} /\ MaxSteps \in Nat /\ MaxEager \in Nat

\* An object that stands for a row.
Instance == [row : Rows, copy : 1..MaxCopies]
Message == [label : {"n_plus_one", "unused_eager_load"}, rel : Relations]

VARIABLES
    orm, raising,  \* the ORM, NPLUSONE_RAISE
    live,      \* objects the program has
    cached,    \* pairs <<object, relation>> whose value is kept on the object
    loaded,    \* LazyListener.loaded
    ignored,   \* LazyListener.ignored
    groups,    \* EagerTracker.data, a group per query
    touched,   \* EagerListener.touched, pairs <<relation, key>>
    notified,  \* messages that reached a notifier
    fetched,   \* history: pairs <<row, how>> with a Fetch
    lazies,    \* history: the accesses that an ORM had to look up
    used,      \* history: pairs <<object, relation>> whose value was read, or missed
    counted,   \* history: those that were only counted
    steps, done

settings == <<orm, raising>>
listening == <<loaded, ignored>>
tracking == <<groups, touched>>
reading == <<used, counted>>
vars == <<settings, live, cached, listening, tracking, notified, fetched, lazies, reading, steps, done>>

\* How a row was fetched: by a query that is not limited to one row, with an offset,
\* by one that is, joined to such a one; or with no signal for it: by iterator() or
\* a raw query, or as an object that an ORM joins or looks up and does not announce.
Fetch == {"bulk", "paged", "alone", "joined", "streamed", "hidden"}

Group == [rel : Relations, insts : SUBSET Instance, query : 0..MaxSteps]
Lazy == [row : Rows, rel : Relations, past : SUBSET Fetch,
         query : {"ran", "stopped", "none", "silent"}]  \* silent: no lazy_load

Init ==
    /\ orm \in Orms
    /\ raising \in BOOLEAN
    /\ live = {} /\ cached = {}
    /\ loaded = {} /\ ignored = {}
    /\ groups = {} /\ touched = {}
    /\ notified = {}
    /\ fetched = {} /\ lazies = {} /\ used = {} /\ counted = {}
    /\ steps = 0 /\ done = FALSE

\* The unit of work goes on, with the ORM o; every operation is a Step.
Running(o) == orm = o /\ ~done /\ steps < MaxSteps
Step == steps' = steps + 1 /\ UNCHANGED <<settings, done>>

Keys(rows) == {KeyOf[row] : row \in rows}
RowsOf(insts) == {i.row : i \in insts}
RowsOfModel(m) == {row \in Rows : ModelOf[row] = m}
RelationsOf(m) == {rel \in Relations : Owner[rel] = m}
Eager(rels) == {S \in SUBSET rels : Cardinality(S) <= MaxEager}
WindowsOver(rows) == {w \in Windows : w.limit # 0 => Cardinality(rows) <= w.limit}
Related(rows, rels) == UNION {Target[rel][row] : rel \in rels, row \in rows}

\* New objects for rows, besides those in held.
Fresh(rows, held) ==
    {[row |-> row, copy |-> 1 + Cardinality({i \in held : i.row = row})] : row \in rows}

\* The program makes an object of its own, which no query returned.
Create(row) ==
    /\ Running(orm)
    /\ Step
    /\ row \notin RowsOf(live)
    /\ live' = live \cup Fresh({row}, live)
    /\ UNCHANGED <<cached, listening, tracking, notified, fetched, lazies, reading>>

--------------------------------------------------------------------------------
\* Mutant of IsSingle: a query without a limit counts too.
IsSingleOrNone(w) == w.limit < 2

\* is_single: Django computes high_mark - low_mark, the others limit - offset.
IsSingle(w) == w.limit # 0 /\ (IF orm = "django" THEN w.limit ELSE w.limit - w.offset) = 1

\* handle_load and handle_ignore.
Emit(load, ignore) ==
    /\ loaded' = loaded \cup Keys(load)
    /\ ignored' = ignored \cup Keys(ignore)

\* The rows of a query with window w, as load or as ignore_load.
EmitQuery(rows, w, also) ==
    IF IsSingle(w) THEN Emit(also, rows) ELSE Emit(rows \cup also, {})

\* What a query with window w means for its rows, however many it finds.
HowFetched(w) ==
    (IF w.limit = 1 THEN {"alone"} ELSE {"bulk"})
        \cup (IF w.offset # 0 /\ orm # "django" THEN {"paged"} ELSE {})

\* DjangoRule.match_model, Rule.match_model.
NameOf(model) == IF orm \in QualifiedOrms THEN Qualified[model] ELSE Bare[model]

\* Rule.compare: an empty rule matches nothing, a part left open anything.
Compare(rule, m) ==
    /\ rule # [label |-> None, models |-> None, rels |-> None]
    /\ rule.label \in {None, m.label}
    /\ rule.models = None \/ NameOf(Owner[m.rel]) \in rule.models
    /\ rule.rels = None \/ m.rel \in rule.rels

\* Message.match.
Matched(m) == \E rule \in Whitelist : Compare(rule, m)

LazyMessage(rel) == [label |-> "n_plus_one", rel |-> rel]
UnusedMessage(rel) == [label |-> "unused_eager_load", rel |-> rel]

\* Mutant of Notifies: a row fetched alone is not ignored.
NotifiesIgnored(row, rel) == KeyOf[row] \in loaded /\ ~Matched(LazyMessage(rel))

\* handle_lazy finds a lazy load on a loaded row that no rule suppresses.
Notifies(row, rel) == KeyOf[row] \in loaded \ ignored /\ ~Matched(LazyMessage(rel))

\* Mutant of Aborts: what a handler raises is lost.
AbortsNever(row, rel) == FALSE

\* The notification raises out of the send of lazy_load.
Aborts(row, rel) == raising /\ Notifies(row, rel)

\* How rows with the key of this one were fetched before.
Past(row) == {f[2] : f \in {g \in fetched : KeyOf[g[1]] = KeyOf[row]}}

LookedUp(row, rel, query) ==
    lazies' = lazies \cup {[row |-> row, rel |-> rel, past |-> Past(row), query |-> query]}

\* handle_lazy, for an access that runs a query, needs none, or is stopped.
LazyLoad(row, rel, query) ==
    /\ notified' = IF Notifies(row, rel) THEN notified \cup {LazyMessage(rel)} ELSE notified
    /\ LookedUp(row, rel, query)

\* Mutant of Touch: handle_touch is connected from the start.
TouchAlways(rel, row) == touched' = touched \cup {<<rel, KeyOf[row]>>}

\* handle_touch, which the first eager load connects.
Touch(rel, row) ==
    touched' = IF groups = {} THEN touched ELSE touched \cup {<<rel, KeyOf[row]>>}

\* Mutants of Unused: every row must be touched; any row will do.
UnusedPartly ==
    {g.rel : g \in {h \in groups : \E row \in RowsOf(h.insts) : <<h.rel, KeyOf[row]>> \notin touched}}
UnusedAnyRow == {rel \in {g.rel : g \in groups} : \A t \in touched : t[1] # rel}

\* EagerTracker.prune and unused.
Unused ==
    {g.rel : g \in {h \in groups : \A row \in RowsOf(h.insts) : <<h.rel, KeyOf[row]>> \notin touched}}

\* EagerListener.log_eager.
Report ==
    /\ ~done
    /\ notified' = notified \cup {m \in {UnusedMessage(rel) : rel \in Unused} : ~Matched(m)}
    /\ done' = TRUE
    /\ UNCHANGED <<settings, live, cached, listening, tracking, fetched, lazies, reading, steps>>

================================================================================
