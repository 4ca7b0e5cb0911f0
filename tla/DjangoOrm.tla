------------------------------- MODULE DjangoOrm -------------------------------
(***************************************************************************)
(* The events that Django's ORM emits under the patches of                 *)
(* src/nplusone/ext/django/patch.py.                                       *)
(*                                                                         *)
(* A query makes new objects for its rows.  The objects that it joins or   *)
(* prefetches for several rows stand for one another here: one per row.    *)
(***************************************************************************)
EXTENDS LazyDetection

One == {rel \in Relations : Kind[rel] \in {"forward", "nullable", "reverse"}}
Many == Relations \ One

\* eager_load of a join, but for a nullable relation, and of a prefetch.
EagerGroups(insts, sel, pre) ==
    {[rel |-> rel, insts |-> insts, query |-> steps] :
        rel \in IF insts = {} THEN {} ELSE pre \cup {s \in sel : Kind[s] # "nullable"}}

\* A reverse one to one is joined without a load: parse_populate_load looks for the
\* value under the name of the forward field, which the object does not have.
Seen(sel) == {rel \in sel : Kind[rel] # "reverse"}

\* load and ignore_load of a query's rows, and load of what comes with them:
\* _fetch_all, and after it get(); iterator() and raw queries do without.
Emitted(rows, w, how, also) ==
    CASE how = "queryset" -> EmitQuery(rows, w, also)
      [] how = "get" -> Emit(rows \cup also, rows)
      [] how = "iterator" -> Emit(also, {})

HowEvaluated(w, how) ==
    CASE how = "queryset" -> HowFetched(w)
      [] how = "get" -> {"alone"}
      [] how = "iterator" -> {"streamed"}

\* A queryset is evaluated, with select_related(sel) and prefetch_related(pre).
\* Populating a joined object emits load for it whatever the query; lazy_load is
\* muted while a prefetch runs.
DjangoFetch(rows, w, how, sel, pre) ==
    LET top == Fresh(rows, live)
        joined == Related(rows, Seen(sel))
        hidden == Related(rows, sel \ Seen(sel))
        prefetched == Related(rows, pre)
        kids == Fresh(joined \cup hidden, live \cup top)
        more == Fresh(prefetched, live \cup top \cup kids)
    IN  /\ Step
        /\ top \cup kids \cup more \subseteq Instance
        /\ live' = live \cup top \cup kids \cup more
        /\ cached' = cached \cup (top \X (sel \cup pre))
        /\ Emitted(rows, w, how, joined \cup prefetched)
        /\ groups' = groups \cup EagerGroups(top, sel, pre)
        /\ fetched' = fetched
               \cup (rows \X HowEvaluated(w, how))
               \cup (joined \X (IF how = "get" \/ w.limit = 1 THEN {"joined"} ELSE {"bulk"}))
               \cup (hidden \X {"hidden"})
               \cup (prefetched \X {"bulk"})
        /\ UNCHANGED <<touched, notified, lazies, reading>>

\* The value is kept on the object, or the foreign key is null: the descriptor
\* emits touch, unless it raises because a reverse one to one has no row (the
\* program has read that there is none).
DjangoReadKept(i, rel) ==
    LET found == Target[rel][i.row] # {} \/ Kind[rel] = "nullable"
    IN  /\ Step
        /\ i \in live
        /\ rel \in One
        /\ <<i, rel>> \in cached \/ (Target[rel][i.row] = {} /\ Kind[rel] = "nullable")
        /\ cached' = cached \cup {<<i, rel>>}
        /\ IF found THEN Touch(rel, i.row) ELSE UNCHANGED touched
        /\ used' = used \cup {<<i, rel>>}
        /\ UNCHANGED <<live, listening, groups, notified, fetched, lazies, counted>>

\* handle_lazy raises out of _fetch_all: no query, no value.
DjangoStopped(i, rel) ==
    /\ Step
    /\ i \in live
    /\ rel \in Many \/ (<<i, rel>> \notin cached /\ (Target[rel][i.row] # {} \/ Kind[rel] = "reverse"))
    /\ Aborts(i.row, rel)
    /\ LazyLoad(i.row, rel, "stopped")
    /\ IF Kind[rel] = "m2m" /\ <<i, rel>> \in cached THEN Touch(rel, i.row) ELSE UNCHANGED touched
    /\ counted' = IF Kind[rel] = "m2m" /\ <<i, rel>> \in cached
                    THEN counted \cup {<<i, rel>>} ELSE counted
    /\ UNCHANGED <<live, cached, listening, groups, fetched, used>>

\* A relation to one row is looked up with get(): lazy_load, load and ignore_load
\* of what is found, and touch once the descriptor returns, which it does not do
\* without a row.
DjangoReadOne(i, rel) ==
    LET value == Target[rel][i.row]
        new == Fresh(value, live)
    IN  /\ Step
        /\ i \in live
        /\ rel \in One
        /\ <<i, rel>> \notin cached
        /\ value # {} \/ Kind[rel] = "reverse"
        /\ ~Aborts(i.row, rel)
        /\ new \subseteq Instance
        /\ LazyLoad(i.row, rel, "ran")
        /\ Emit(value, value)
        /\ live' = live \cup new
        /\ cached' = cached \cup {<<i, rel>>}
        /\ fetched' = fetched \cup (value \X {"alone"})
        /\ IF value # {} THEN Touch(rel, i.row) ELSE UNCHANGED touched
        /\ used' = used \cup {<<i, rel>>}
        /\ UNCHANGED <<groups, counted>>

\* A manager's queryset that was prefetched is iterated over or indexed.
DjangoReadPrefetched(i, rel) ==
    /\ Step
    /\ <<i, rel>> \in cached
    /\ rel \in Many
    /\ Touch(rel, i.row)
    /\ used' = used \cup {<<i, rel>>}
    /\ UNCHANGED <<live, cached, listening, groups, notified, fetched, lazies, counted>>

\* It is counted, or tested with exists(): neither reaches _fetch_all, only the
\* descriptor of a many to many relation emits touch.
DjangoCount(i, rel) ==
    /\ Step
    /\ <<i, rel>> \in cached
    /\ rel \in Many
    /\ IF Kind[rel] = "m2m" THEN Touch(rel, i.row) ELSE UNCHANGED touched
    /\ counted' = counted \cup {<<i, rel>>}
    /\ UNCHANGED <<live, cached, listening, groups, notified, fetched, lazies, used>>

\* A manager's queryset that is not prefetched, or is filtered, is counted, tested or
\* aggregated, or read with iterator(): a query each time, but none by _fetch_all,
\* so without lazy_load, and without load for what is found.
DjangoQuerySilently(i, rel, found) ==
    LET kept == Kind[rel] = "m2m" /\ <<i, rel>> \in cached
    IN  /\ Step
        /\ i \in live
        /\ rel \in Many
        /\ Fresh(found, live) \subseteq Instance
        /\ LookedUp(i.row, rel, "silent")
        /\ live' = live \cup Fresh(found, live)
        /\ fetched' = fetched \cup (found \X {"streamed"})
        /\ IF kept THEN Touch(rel, i.row) ELSE UNCHANGED touched
        /\ counted' = IF kept THEN counted \cup {<<i, rel>>} ELSE counted
        /\ UNCHANGED <<cached, listening, groups, notified, used>>

\* A manager's queryset is evaluated that is not prefetched, or filtered: lazy_load
\* before the query, its rows after it.
DjangoReadMany(i, rel, w) ==
    LET value == Target[rel][i.row]
        new == Fresh(value, live)
        kept == Kind[rel] = "m2m" /\ <<i, rel>> \in cached
    IN  /\ Step
        /\ i \in live
        /\ rel \in Many
        /\ ~Aborts(i.row, rel)
        /\ new \subseteq Instance
        /\ LazyLoad(i.row, rel, "ran")
        /\ EmitQuery(value, w, {})
        /\ live' = live \cup new
        /\ fetched' = fetched \cup (value \X HowFetched(w))
        /\ IF kept THEN Touch(rel, i.row) ELSE UNCHANGED touched
        /\ counted' = IF kept THEN counted \cup {<<i, rel>>} ELSE counted
        /\ UNCHANGED <<cached, groups, used>>

\* Any query of the program, and any access to a relation of an object it has.
DjangoQuery(m, rows) ==
    \E sel \in Eager(RelationsOf(m) \cap One), pre \in Eager(RelationsOf(m)) :
        /\ Cardinality(sel \cup pre) <= MaxEager
        /\ sel \cap pre = {}
        /\ \/ \E w \in WindowsOver(rows) : DjangoFetch(rows, w, "queryset", sel, pre)
           \/ Cardinality(rows) = 1 /\ DjangoFetch(rows, Unlimited, "get", sel, pre)
           \/ DjangoFetch(rows, Unlimited, "iterator", sel, pre)

DjangoAccess(i, rel) ==
    \/ DjangoReadKept(i, rel)
    \/ DjangoReadOne(i, rel)
    \/ DjangoStopped(i, rel)
    \/ DjangoReadPrefetched(i, rel)
    \/ DjangoCount(i, rel)
    \/ \E found \in {{}, Target[rel][i.row]} : DjangoQuerySilently(i, rel, found)
    \/ \E w \in WindowsOver(Target[rel][i.row]) : DjangoReadMany(i, rel, w)

DjangoNext ==
    /\ Running("django")
    /\ \/ \E m \in Models : \E rows \in SUBSET RowsOfModel(m) : DjangoQuery(m, rows)
       \/ \E i \in live : \E rel \in RelationsOf(ModelOf[i.row]) : DjangoAccess(i, rel)

================================================================================
