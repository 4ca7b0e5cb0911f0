-------------------------------- MODULE OrmLoads --------------------------------
(***************************************************************************)
(* A unit of work of a program with one of the ORMs: its queries and the   *)
(* accesses to relations, the events they emit, and what is reported.      *)
(***************************************************************************)
EXTENDS DjangoOrm, SqlalchemyOrm, PeeweeOrm

Next ==
    \/ \E row \in Rows : Create(row)
    \/ DjangoNext
    \/ SqlNext
    \/ PeeweeNext
    \/ Report

Spec == Init /\ [][Next]_vars

--------------------------------------------------------------------------------
\* Types; a value is kept only on an object of the program, whatever was ignored
\* or loaded is the key of a row that a query returned, and touches are recorded
\* only once something was loaded eagerly.
TypeOK ==
    /\ orm \in Orms /\ raising \in BOOLEAN
    /\ live \subseteq Instance
    /\ cached \subseteq live \X Relations
    /\ loaded \cup ignored \subseteq Keys({f[1] : f \in fetched})
    /\ groups \subseteq Group
    /\ touched \subseteq Relations \X Keys(Rows)
    /\ groups = {} => touched = {}
    /\ notified \subseteq Message
    /\ fetched \subseteq Rows \X Fetch
    /\ lazies \subseteq Lazy
    /\ used \cup counted \subseteq live \X Relations
    /\ steps \in 0..MaxSteps /\ done \in BOOLEAN

LazyFindings == {m \in notified : m.label = "n_plus_one"}

\* An n+1 finding is about a relation that was looked up, by a query when the ORM
\* is Django, for a row (or one of a model of the same name) that came with a query
\* not limited to one row, or joined to the row of one, and never alone.  Peewee and
\* SQLAlchemy take a query with an offset for what it is not.
LazyIsSound ==
    \A m \in LazyFindings : \E l \in lazies :
        /\ l.rel = m.rel
        /\ orm = "django" => l.query \in {"ran", "stopped"}
        /\ \/ l.past \cap {"bulk", "joined"} # {} /\ "alone" \notin l.past
           \/ "paged" \in l.past

\* The query for a relation of a row that has come with a query not limited to one,
\* and never alone.  Not among them are the queries that no signal tells of (count()
\* and iterator() on a manager) and the rows that no signal told of.
Detectable(l) ==
    /\ l.query \in {"ran", "stopped"}
    /\ "bulk" \in l.past
    /\ l.past \cap {"alone", "paged"} = {}

\* Every such query is notified unless a rule suppresses it.
LazyIsComplete ==
    \A l \in lazies : Detectable(l) =>
        LazyMessage(l.rel) \in notified \/ Matched(LazyMessage(l.rel))

\* With a notifier that raises, such a query never reaches the database: Django,
\* and Peewee but for backrefs, emit lazy_load first.
RaisingStopsTheQuery ==
    raising => \A l \in lazies :
        Detectable(l) /\ (orm = "django" \/ (orm = "peewee" /\ Kind[l.rel] \in {"forward", "nullable", "m2m"}))
            => l.query = "stopped" \/ Matched(LazyMessage(l.rel))

\* The object's reverse one to one has no row.
Missing(i, rel) == Kind[rel] = "reverse" /\ Target[rel][i.row] = {}

\* A relation is reported as unused only if some query loaded it for objects of
\* which the program read none through it - by iteration or as an attribute;
\* counting them is not seen, nor is an access that found none.
UnusedIsSound ==
    \A m \in notified \ LazyFindings : \E g \in groups :
        g.rel = m.rel /\ \A i \in g.insts : <<i, g.rel>> \in used => Missing(i, g.rel)

\* And it is reported if no object of a row of that query was read or counted.
UnusedIsComplete ==
    done => \A g \in groups :
        (\A u \in used \cup counted : u[2] = g.rel => KeyOf[u[1].row] \notin Keys(RowsOf(g.insts)))
            => UnusedMessage(g.rel) \in notified \/ Matched(UnusedMessage(g.rel))

================================================================================
