------------------------------- MODULE PeeweeOrm -------------------------------
(***************************************************************************)
(* The events that Peewee emits under the patches of                       *)
(* src/nplusone/ext/peewee.py; there are no eager_load and touch.          *)
(***************************************************************************)
EXTENDS LazyDetection

\* BaseQuery.execute of a query on a model; get() is one with a limit of one.
PeeweeFetch(rows, w) ==
    /\ Step
    /\ Fresh(rows, live) \subseteq Instance
    /\ live' = live \cup Fresh(rows, live)
    /\ EmitQuery(rows, w, {})
    /\ fetched' = fetched \cup (rows \X HowFetched(w))
    /\ UNCHANGED <<cached, tracking, notified, lazies, reading>>

\* get_rel_instance of a foreign key whose object is not kept: lazy_load, then get().
PeeweeReadOne(i, rel) ==
    LET value == Target[rel][i.row]
        stops == Aborts(i.row, rel)
    IN  /\ Step
        /\ i \in live
        /\ Kind[rel] \in {"forward", "nullable"}
        /\ value # {}
        /\ <<i, rel>> \notin cached
        /\ Fresh(value, live) \subseteq Instance
        /\ LazyLoad(i.row, rel, IF stops THEN "stopped" ELSE "ran")
        /\ IF stops THEN UNCHANGED <<live, cached, listening, fetched>>
           ELSE /\ live' = live \cup Fresh(value, live)
                /\ cached' = cached \cup {<<i, rel>>}
                /\ Emit({}, value)
                /\ fetched' = fetched \cup (value \X {"alone"})
        /\ UNCHANGED <<tracking, reading>>

\* A backref or a many to many relation is iterated over.  The query of a backref
\* is executed before lazy_load, a many to many one after it; a notification that
\* raises leaves its rows unseen.
PeeweeReadMany(i, rel, w) ==
    LET value == Target[rel][i.row]
        stops == Aborts(i.row, rel)
    IN  /\ Step
        /\ i \in live
        /\ Kind[rel] \in {"reverse", "backref", "m2m"}
        /\ Fresh(value, live) \subseteq Instance
        /\ LazyLoad(i.row, rel, IF stops /\ Kind[rel] = "m2m" THEN "stopped" ELSE "ran")
        /\ IF stops THEN UNCHANGED <<live, listening, fetched>>
           ELSE /\ live' = live \cup Fresh(value, live)
                /\ EmitQuery(value, w, {})
                /\ fetched' = fetched \cup (value \X HowFetched(w))
        /\ UNCHANGED <<cached, tracking, reading>>

\* BaseModelSelect.__iter__ of a many to many query that has its rows already
\* emits lazy_load again.
PeeweeIterateAgain(i, rel) ==
    /\ Step
    /\ i \in live
    /\ Kind[rel] = "m2m"
    /\ \E l \in lazies : l.row = i.row /\ l.rel = rel /\ l.query = "ran"
    /\ LazyLoad(i.row, rel, "none")
    /\ UNCHANGED <<live, cached, listening, tracking, fetched, reading>>

PeeweeAccess(i, rel) ==
    \/ PeeweeReadOne(i, rel)
    \/ PeeweeIterateAgain(i, rel)
    \/ \E w \in WindowsOver(Target[rel][i.row]) : PeeweeReadMany(i, rel, w)

PeeweeNext ==
    /\ Running("peewee")
    /\ \/ \E m \in Models : \E rows \in SUBSET RowsOfModel(m) :
            \E w \in WindowsOver(rows) : PeeweeFetch(rows, w)
       \/ \E i \in live : \E rel \in RelationsOf(ModelOf[i.row]) : PeeweeAccess(i, rel)

================================================================================
