----------------------------- MODULE SqlalchemyOrm -----------------------------
(***************************************************************************)
(* The events that SQLAlchemy's ORM emits under the patches of             *)
(* src/nplusone/ext/sqlalchemy.py.  One session: its identity map has one  *)
(* object per row.                                                         *)
(***************************************************************************)
EXTENDS LazyDetection

Mapped(rows) == {[row |-> row, copy |-> 1] : row \in rows}

\* Query._iter with joinedload(sel), and one() or one_or_none() when single: load
\* or ignore_load of the rows, never of what is joined.  _populate_full emits
\* eager_load for the objects that are new to the session and have a value.
SqlFetch(rows, w, single, sel) ==
    LET new == Mapped(rows) \ live
        With(rel) == {i \in new : Target[rel][i.row] # {}}
    IN  /\ Step
        /\ live' = live \cup Mapped(rows \cup Related(rows, sel))
        /\ cached' = cached \cup (Mapped(rows) \X sel)
        /\ IF single THEN Emit(rows, rows) ELSE EmitQuery(rows, w, {})
        /\ groups' = groups \cup
               {[rel |-> rel, insts |-> With(rel), query |-> steps] : rel \in {s \in sel : With(s) # {}}}
        /\ fetched' = fetched \cup (rows \X (IF single THEN {"alone"} ELSE HowFetched(w)))
                        \cup (Related(rows, sel) \X {"hidden"})
        /\ UNCHANGED <<touched, notified, lazies, reading>>

\* InstrumentedAttribute.__get__ of a value that is loaded.
SqlReadKept(i, rel) ==
    /\ Step
    /\ <<i, rel>> \in cached
    /\ Touch(rel, i.row)
    /\ used' = used \cup {<<i, rel>>}
    /\ UNCHANGED <<live, cached, listening, groups, notified, fetched, lazies, counted>>

\* A relation to one row is found in the identity map, or its key is null.
NeedsNoQuery(i, rel) ==
    Kind[rel] \in {"forward", "nullable"} /\ Mapped(Target[rel][i.row]) \subseteq live

\* LazyLoader._load_for_state: lazy_load comes after the lookup, whether it ran a
\* query or not; a notification that raises loses the value.  No load is emitted.
SqlReadLazily(i, rel) ==
    LET stops == Aborts(i.row, rel)
        queried == IF NeedsNoQuery(i, rel) THEN {} ELSE Target[rel][i.row]
    IN  /\ Step
        /\ i \in live
        /\ <<i, rel>> \notin cached
        /\ LazyLoad(i.row, rel, IF NeedsNoQuery(i, rel) THEN "none" ELSE "ran")
        /\ live' = live \cup Mapped(queried)
        /\ fetched' = fetched \cup (queried \X {"hidden"})
        /\ IF stops THEN UNCHANGED <<cached, touched, used>>
           ELSE /\ cached' = cached \cup {<<i, rel>>}
                /\ Touch(rel, i.row)
                /\ used' = used \cup {<<i, rel>>}
        /\ UNCHANGED <<listening, groups, counted>>

SqlQuery(m, rows) ==
    \E sel \in Eager(RelationsOf(m)) :
        \/ \E w \in WindowsOver(rows) : SqlFetch(rows, w, FALSE, sel)
        \/ Cardinality(rows) = 1 /\ SqlFetch(rows, Unlimited, TRUE, sel)

SqlNext ==
    /\ Running("sqlalchemy")
    /\ \/ \E m \in Models : \E rows \in SUBSET RowsOfModel(m) : SqlQuery(m, rows)
       \/ \E i \in live : \E rel \in RelationsOf(ModelOf[i.row]) :
            SqlReadKept(i, rel) \/ SqlReadLazily(i, rel)

================================================================================
