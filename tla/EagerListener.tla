----------------------------- MODULE EagerListener -----------------------------
(***************************************************************************)
(* EagerListener and its EagerTracker (src/nplusone/core/listeners.py)     *)
(* over one unit of work: eager-load events build groups of rows per       *)
(* relation and query key, touch events are collected, and teardown prunes *)
(* the groups that were touched and reports the relations that are left.   *)
(*                                                                         *)
(* A query key is the id() of an object of the query (the list of parents  *)
(* of a prefetch, the select list of a join), so that the key of a query   *)
(* whose object was freed may come back as the key of a later one.         *)
(***************************************************************************)
EXTENDS Integers, FiniteSets

CONSTANTS
    Classes,     \* model classes
    Subclass,    \* pairs <<a, b>>: issubclass(a, b)
    Pks,         \* primary keys
    Fields,      \* relation fields
    Keys,        \* values of id()
    MaxFetches   \* bound on the eager-load queries of the unit of work

\* issubclass is a preorder, and of two parents of a class one is a parent of the
\* other: Django refuses a class whose unrelated parents share a field name.
ASSUME SubclassAssumption ==
    /\ Subclass \subseteq Classes \X Classes
    /\ \A a \in Classes : <<a, a>> \in Subclass
    /\ \A a, b, c \in Classes : <<a, b>> \in Subclass /\ <<b, c>> \in Subclass => <<a, c>> \in Subclass
    /\ \A a, b, c \in Classes :
          <<a, b>> \in Subclass /\ <<a, c>> \in Subclass => <<b, c>> \in Subclass \/ <<c, b>> \in Subclass
ASSUME BoundsAssumption == MaxFetches \in Nat

Row == [class : Classes, pk : Pks]            \* an instance key "Model:pk"
Relation == [model : Classes, field : Fields]
Group == [rel : Relation, key : Keys, rows : SUBSET Row]
Touched == [rel : Relation, row : Row]

VARIABLES
    data,      \* EagerTracker.data: the groups tracked so far
    touchOn,   \* handle_touch is connected to the touch signal
    touched,   \* EagerListener.touched
    reported,  \* relations reported as eager loaded and never used
    stage,     \* "on" from setup to the end: "closed" by teardown, "dropped" by cleanup
    fetches    \* history: each eager-load query, what it loaded, and its use

vars == <<data, touchOn, touched, reported, stage, fetches>>

Fetch == [rel : Relation, key : Keys, rows : SUBSET Row, used : BOOLEAN, live : BOOLEAN]

Related(a, b) == <<a, b>> \in Subclass \/ <<b, a>> \in Subclass

PksOf(rows) == {r.pk : r \in rows}

Init ==
    /\ data = {}
    /\ touchOn = FALSE
    /\ touched = {}
    /\ reported = {}
    /\ stage = "on"
    /\ fetches = {}

--------------------------------------------------------------------------------
\* Mutant of Track: a group is appended instead of updated.
TrackAppends(rel, key, rows) ==
    data' = data \cup {[rel |-> rel, key |-> key, rows |-> rows]}

\* EagerTracker.track: data[(model, field)][key].update(instances).
Track(rel, key, rows) ==
    LET old == {g \in data : g.rel = rel /\ g.key = key}
    IN data' = (data \ old) \cup
           {[rel |-> rel, key |-> key, rows |-> rows \cup UNION {g.rows : g \in old}]}

\* handle_eager on the first event of a query: key is the id of a live object.
EagerLoad(rel, key, rows) ==
    /\ stage = "on"
    /\ Cardinality(fetches) < MaxFetches
    /\ \A r \in rows : <<r.class, rel.model>> \in Subclass
    /\ \A f \in fetches : f.rel = rel /\ f.key = key => ~f.live
    /\ Track(rel, key, rows)
    /\ touchOn' = TRUE
    /\ fetches' = fetches \cup
           {[rel |-> rel, key |-> key, rows |-> rows, used |-> FALSE, live |-> TRUE]}
    /\ UNCHANGED <<touched, reported, stage>>

\* handle_eager on a further row of the same query (a join populates its related
\* objects row by row, while the program may already use the first ones).
EagerLoadMore(f, row) ==
    /\ stage = "on"
    /\ f \in fetches
    /\ f.live
    /\ <<row.class, f.rel.model>> \in Subclass
    /\ Track(f.rel, f.key, {row})
    /\ touchOn' = TRUE
    /\ fetches' = (fetches \ {f}) \cup {[f EXCEPT !.rows = @ \cup {row}]}
    /\ UNCHANGED <<touched, reported, stage>>

\* The object whose id() is the key of f goes away.
Free(f) ==
    /\ stage = "on"
    /\ f \in fetches
    /\ f.live
    /\ fetches' = (fetches \ {f}) \cup {[f EXCEPT !.live = FALSE]}
    /\ UNCHANGED <<data, touchOn, touched, reported, stage>>

\* The access of the field through row is one of a row that f loaded.
Uses(f, rel, row) ==
    f.rel.field = rel.field /\ \E q \in f.rows : q.pk = row.pk /\ Related(q.class, row.class)

\* handle_touch, when it is connected, records the access of rel through row.
Touch(rel, row) ==
    /\ stage = "on"
    /\ <<row.class, rel.model>> \in Subclass
    /\ touched' = IF touchOn THEN touched \cup {[rel |-> rel, row |-> row]} ELSE touched
    /\ fetches' = {[f EXCEPT !.used = @ \/ Uses(f, rel, row)] : f \in fetches}
    /\ UNCHANGED <<data, touchOn, reported, stage>>

--------------------------------------------------------------------------------
\* Mutants of Prunes: the touched model itself only; whatever the row.
PrunesExactModel(t, g) == t.rel = g.rel /\ t.row.pk \in PksOf(g.rows)
PrunesAnyRow(t, g) == t.rel.field = g.rel.field /\ Related(t.rel.model, g.rel.model)

\* EagerTracker.prune: a touch removes the groups of the relation, also those
\* tracked for a parent or child class, that contain the primary key.
Prunes(t, g) ==
    /\ t.rel.field = g.rel.field
    /\ Related(t.rel.model, g.rel.model)
    /\ t.row.pk \in PksOf(g.rows)

Pruned == {g \in data : \E t \in touched : Prunes(t, g)}

\* EagerTracker.unused.
Unused(groups) == {g.rel : g \in groups}

\* teardown: log_eager, then cleanup.
Teardown ==
    /\ stage = "on"
    /\ data' = data \ Pruned
    /\ reported' = Unused(data \ Pruned)
    /\ touchOn' = FALSE
    /\ stage' = "closed"
    /\ UNCHANGED <<touched, fetches>>

\* cleanup: disconnect without a report (an exception, an error response).
Cleanup ==
    /\ stage = "on"
    /\ touchOn' = FALSE
    /\ stage' = "dropped"
    /\ UNCHANGED <<data, touched, reported, fetches>>

Next ==
    \/ \E rel \in Relation, key \in Keys, rows \in SUBSET Row \ {{}} : EagerLoad(rel, key, rows)
    \/ \E f \in fetches : Free(f) \/ \E row \in Row : EagerLoadMore(f, row)
    \/ \E rel \in Relation, row \in Row : Touch(rel, row)
    \/ Teardown
    \/ Cleanup

Spec == Init /\ [][Next]_vars

--------------------------------------------------------------------------------
\* Types; and the tracker has one group per relation and query key.
TypeOK ==
    /\ data \subseteq Group
    /\ \A g, h \in data : g.rel = h.rel /\ g.key = h.key => g = h
    /\ touchOn \in BOOLEAN
    /\ touched \subseteq Touched
    /\ reported \subseteq Relation
    /\ stage \in {"on", "closed", "dropped"}
    /\ fetches \subseteq Fetch

\* A relation is reported as unused only if some query that loaded it was never
\* used: none of its rows was accessed through the field after it was loaded -
\* even when queries share a key, or rows arrive after the first access.
ReportIsSound ==
    \A rel \in reported : \E f \in fetches : f.rel = rel /\ ~f.used

\* No row of f was accessed through its field since eager loads are tracked.
NeverTouched(f) ==
    \A t \in touched : ~(t.rel.field = f.rel.field /\ t.row.pk \in PksOf(f.rows))

AloneInGroup(f) == \A e \in fetches : e.rel = f.rel /\ e.key = f.key => e = f

\* An eager load whose rows are never accessed is reported at teardown, unless
\* a later or earlier query of the relation had the same id().
ReportIsComplete ==
    stage = "closed" => \A f \in fetches : NeverTouched(f) /\ AloneInGroup(f) => f.rel \in reported

================================================================================
