-------------------------- MODULE EagerListenerProofs --------------------------
(***************************************************************************)
(* What EagerListener reports, for all classes, keys and queries.          *)
(*                                                                         *)
(* The invariant says where a query's rows are while the listener is on:   *)
(* in the group of its relation and key (FetchesTracked), nothing is       *)
(* tracked that no query loaded (GroupsFetched), and every use of a query  *)
(* has left a touch that will prune its group (UsesTouched).               *)
(***************************************************************************)
EXTENDS EagerListener, TLAPS

\* Until the end, the rows of every query are in the group of its key, and touches
\* are heard.
FetchesTracked ==
    stage = "on" => \A f \in fetches :
        /\ touchOn
        /\ \E g \in data : g.rel = f.rel /\ g.key = f.key /\ f.rows \subseteq g.rows

\* Every group comes from a query.
GroupsFetched == \A g \in data : \E f \in fetches : f.rel = g.rel /\ f.key = g.key

\* A query that was used has a recorded touch that matches it.
UsesTouched ==
    \A f \in fetches : f.used =>
        \E t \in touched :
            /\ t.rel.field = f.rel.field
            /\ Related(t.rel.model, f.rel.model)
            /\ t.row.pk \in PksOf(f.rows)

\* A query loads rows of its model or of its subclasses.
RowsOfModel == \A f \in fetches : \A r \in f.rows : <<r.class, f.rel.model>> \in Subclass

\* Nothing is reported before teardown.
NoReportYet == stage = "on" => reported = {}

\* The inductive invariant of soundness.
Inv == TypeOK /\ NoReportYet /\ FetchesTracked /\ GroupsFetched /\ UsesTouched /\ RowsOfModel /\ ReportIsSound

\* Inv holds initially.
LEMMA InitInv == Init => Inv
BY DEF Init, Inv, TypeOK, NoReportYet, FetchesTracked, GroupsFetched, UsesTouched, RowsOfModel, ReportIsSound, Group, Fetch

\* A touch of a row that a query loaded is a touch on a related class.
LEMMA UseIsRelated ==
    ASSUME NEW f \in Fetch, NEW rel \in Relation, NEW row \in Row,
           \A r \in f.rows : <<r.class, f.rel.model>> \in Subclass,
           <<row.class, rel.model>> \in Subclass,
           Uses(f, rel, row)
    PROVE  rel.field = f.rel.field /\ Related(rel.model, f.rel.model) /\ row.pk \in PksOf(f.rows)
<1>1. PICK q \in f.rows : q.pk = row.pk /\ Related(q.class, row.class)
  BY DEF Uses
<1>2. q \in Row /\ q.class \in Classes /\ row.class \in Classes /\ rel.model \in Classes /\ f.rel.model \in Classes
  BY <1>1 DEF Fetch, Row, Relation
<1>3. <<q.class, f.rel.model>> \in Subclass
  OBVIOUS
<1>4. CASE <<q.class, row.class>> \in Subclass
  <2>1. <<q.class, rel.model>> \in Subclass
    BY <1>2, <1>4, SubclassAssumption
  <2>2. Related(rel.model, f.rel.model)
    BY <1>2, <1>3, <2>1, SubclassAssumption DEF Related
  <2>3. QED
    BY <1>1, <2>2 DEF Uses, PksOf
<1>5. CASE <<row.class, q.class>> \in Subclass
  <2>1. <<row.class, f.rel.model>> \in Subclass
    BY <1>2, <1>3, <1>5, SubclassAssumption
  <2>2. Related(rel.model, f.rel.model)
    BY <1>2, <2>1, SubclassAssumption DEF Related
  <2>3. QED
    BY <1>1, <2>2 DEF Uses, PksOf
<1>6. QED
  BY <1>1, <1>4, <1>5 DEF Related

\* What track does to the groups.
LEMMA TrackGroups ==
    ASSUME TypeOK, NEW rel \in Relation, NEW key \in Keys, NEW rows \in SUBSET Row, Track(rel, key, rows)
    PROVE  /\ data' \subseteq Group
           /\ \A g, h \in data' : g.rel = h.rel /\ g.key = h.key => g = h
           /\ \A g \in data' : g \in data \/ (g.rel = rel /\ g.key = key)
           /\ \E g \in data' : g.rel = rel /\ g.key = key /\ rows \subseteq g.rows
           /\ \A g \in data : \E h \in data' : h.rel = g.rel /\ h.key = g.key /\ g.rows \subseteq h.rows
<1> DEFINE old == {g \in data : g.rel = rel /\ g.key = key}
           new == [rel |-> rel, key |-> key, rows |-> rows \cup UNION {g.rows : g \in old}]
<1>1. data' = (data \ old) \cup {new}
  BY DEF Track
<1>2. new \in Group
  BY DEF TypeOK, Group
<1>3. new.rel = rel /\ new.key = key /\ rows \subseteq new.rows /\ \A g \in old : g.rows \subseteq new.rows
  OBVIOUS
<1>4. \A g \in old : g.rel = rel /\ g.key = key
  OBVIOUS
<1>5. \A g \in data \ old : ~(g.rel = rel /\ g.key = key)
  OBVIOUS
<1> HIDE DEF old, new
<1>6. QED
  BY <1>1, <1>2, <1>3, <1>4, <1>5 DEF TypeOK

\* Inv is inductive.
LEMMA NextInv == Inv /\ [Next]_vars => Inv'
<1> SUFFICES ASSUME Inv, [Next]_vars PROVE Inv'
  OBVIOUS
<1>1. ASSUME NEW rel \in Relation, NEW key \in Keys, NEW rows \in SUBSET Row, EagerLoad(rel, key, rows)
      PROVE  Inv'
  <2> DEFINE new == [rel |-> rel, key |-> key, rows |-> rows, used |-> FALSE, live |-> TRUE]
  <2>0. fetches' = fetches \cup {new} /\ new \in Fetch /\ Track(rel, key, rows)
        /\ new.rel = rel /\ new.key = key /\ new.rows = rows /\ new.used = FALSE
        /\ touchOn' = TRUE /\ UNCHANGED <<touched, reported, stage>>
        /\ \A r \in rows : <<r.class, rel.model>> \in Subclass
    BY <1>1 DEF EagerLoad, Fetch
  <2> HIDE DEF new
  <2>1. TypeOK' /\ NoReportYet'
    BY <2>0, TrackGroups DEF Inv, TypeOK, NoReportYet
  <2>2. FetchesTracked'
    <3>1. ASSUME stage = "on", NEW f \in fetches
          PROVE  \E g \in data' : g.rel = f.rel /\ g.key = f.key /\ f.rows \subseteq g.rows
      <4>1. PICK g \in data : g.rel = f.rel /\ g.key = f.key /\ f.rows \subseteq g.rows
        BY <3>1 DEF Inv, FetchesTracked
      <4>2. PICK h \in data' : h.rel = g.rel /\ h.key = g.key /\ g.rows \subseteq h.rows
        BY <2>0, TrackGroups DEF Inv
      <4>3. QED
        BY <4>1, <4>2
    <3>2. \E g \in data' : g.rel = rel /\ g.key = key /\ rows \subseteq g.rows
      BY <2>0, TrackGroups DEF Inv
    <3>3. QED
      BY <2>0, <3>1, <3>2 DEF FetchesTracked
  <2>3. GroupsFetched'
    BY <2>0, TrackGroups DEF Inv, GroupsFetched
  <2>4. UsesTouched' /\ RowsOfModel' /\ ReportIsSound'
    BY <2>0 DEF Inv, UsesTouched, RowsOfModel, ReportIsSound
  <2>5. QED
    BY <2>1, <2>2, <2>3, <2>4 DEF Inv
<1>2. ASSUME NEW f \in fetches, NEW row \in Row, EagerLoadMore(f, row) PROVE Inv'
  <2> DEFINE new == [f EXCEPT !.rows = @ \cup {row}]
  <2>0. /\ f \in Fetch /\ new \in Fetch
        /\ fetches' = (fetches \ {f}) \cup {new} /\ Track(f.rel, f.key, {row})
        /\ new.rel = f.rel /\ new.key = f.key /\ new.rows = f.rows \cup {row} /\ new.used = f.used
        /\ touchOn' = TRUE /\ UNCHANGED <<touched, reported, stage>>
        /\ <<row.class, f.rel.model>> \in Subclass
        /\ f.rel \in Relation /\ f.key \in Keys
    BY <1>2 DEF EagerLoadMore, Fetch, Inv, TypeOK
  <2> HIDE DEF new
  <2>1. TypeOK' /\ NoReportYet'
    BY <2>0, TrackGroups DEF Inv, TypeOK, NoReportYet
  <2>2. FetchesTracked'
    <3>1. ASSUME stage = "on", NEW e \in fetches
          PROVE  \E g \in data' : g.rel = e.rel /\ g.key = e.key /\ e.rows \subseteq g.rows
      <4>1. PICK g \in data : g.rel = e.rel /\ g.key = e.key /\ e.rows \subseteq g.rows
        BY <3>1 DEF Inv, FetchesTracked
      <4>2. PICK h \in data' : h.rel = g.rel /\ h.key = g.key /\ g.rows \subseteq h.rows
        BY <2>0, TrackGroups DEF Inv
      <4>3. QED
        BY <4>1, <4>2
    <3>2. ASSUME stage = "on"
          PROVE  \E g \in data' : g.rel = f.rel /\ g.key = f.key /\ f.rows \cup {row} \subseteq g.rows
      <4>1. PICK g \in data' : g.rel = f.rel /\ g.key = f.key /\ f.rows \subseteq g.rows
        BY <3>1, <3>2
      <4>2. PICK h \in data' : h.rel = f.rel /\ h.key = f.key /\ {row} \subseteq h.rows
        BY <2>0, TrackGroups DEF Inv
      <4>3. g = h
        BY <2>0, <4>1, <4>2, TrackGroups DEF Inv
      <4>4. QED
        BY <4>1, <4>2, <4>3
    <3>3. QED
      BY <2>0, <3>1, <3>2 DEF FetchesTracked
  <2>3. GroupsFetched'
    <3>1. ASSUME NEW g \in data' PROVE \E e \in fetches : e.rel = g.rel /\ e.key = g.key
      BY <2>0, TrackGroups DEF Inv, GroupsFetched
    <3>2. QED
      BY <2>0, <3>1 DEF GroupsFetched
  <2>4. UsesTouched'
    <3>1. PksOf(f.rows) \subseteq PksOf(f.rows \cup {row})
      BY DEF PksOf
    <3>2. QED
      BY <2>0, <3>1 DEF Inv, UsesTouched
  <2>5. RowsOfModel' /\ ReportIsSound'
    BY <2>0 DEF Inv, RowsOfModel, ReportIsSound
  <2>6. QED
    BY <2>1, <2>2, <2>3, <2>4, <2>5 DEF Inv
<1>3. ASSUME NEW f \in fetches, Free(f) PROVE Inv'
  <2> DEFINE new == [f EXCEPT !.live = FALSE]
  <2>0. /\ f \in Fetch /\ new \in Fetch /\ fetches' = (fetches \ {f}) \cup {new}
        /\ new.rel = f.rel /\ new.key = f.key /\ new.rows = f.rows /\ new.used = f.used
        /\ UNCHANGED <<data, touchOn, touched, reported, stage>>
    BY <1>3 DEF Free, Fetch, Inv, TypeOK
  <2> HIDE DEF new
  <2>1. TypeOK' /\ NoReportYet'
    BY <2>0 DEF Inv, TypeOK, NoReportYet
  <2>2. FetchesTracked' /\ GroupsFetched' /\ UsesTouched'
    BY <2>0 DEF Inv, FetchesTracked, GroupsFetched, UsesTouched
  <2>3. RowsOfModel' /\ ReportIsSound'
    BY <2>0 DEF Inv, RowsOfModel, ReportIsSound
  <2>4. QED
    BY <2>1, <2>2, <2>3 DEF Inv
<1>4. ASSUME NEW rel \in Relation, NEW row \in Row, Touch(rel, row) PROVE Inv'
  <2> DEFINE after(f) == [f EXCEPT !.used = @ \/ Uses(f, rel, row)]
             t == [rel |-> rel, row |-> row]
  <2>0. /\ fetches' = {after(f) : f \in fetches} /\ stage = "on"
        /\ touched' = IF touchOn THEN touched \cup {t} ELSE touched
        /\ UNCHANGED <<data, touchOn, reported, stage>>
        /\ <<row.class, rel.model>> \in Subclass
    BY <1>4 DEF Touch
  <2>1. \A f \in fetches :
            /\ after(f) \in Fetch /\ after(f).rel = f.rel /\ after(f).key = f.key /\ after(f).rows = f.rows
            /\ after(f).used <=> f.used \/ Uses(f, rel, row)
    BY DEF Inv, TypeOK, Fetch
  <2>2. t \in Touched /\ t.rel = rel /\ t.row = row
    BY DEF Touched
  <2> HIDE DEF after, t
  <2>3. TypeOK' /\ NoReportYet'
    BY <2>0, <2>1, <2>2 DEF Inv, TypeOK, NoReportYet
  <2>4. FetchesTracked'
    BY <2>0, <2>1 DEF Inv, FetchesTracked
  <2>5. GroupsFetched' /\ RowsOfModel'
    BY <2>0, <2>1 DEF Inv, GroupsFetched, RowsOfModel
  <2>6. UsesTouched'
    <3>1. ASSUME NEW f \in fetches, after(f).used
          PROVE  \E u \in touched' : /\ u.rel.field = f.rel.field
                                     /\ Related(u.rel.model, f.rel.model)
                                     /\ u.row.pk \in PksOf(f.rows)
      <4>1. CASE f.used
        BY <2>0, <4>1 DEF Inv, UsesTouched
      <4>2. CASE Uses(f, rel, row)
        <5>1. rel.field = f.rel.field /\ Related(rel.model, f.rel.model) /\ row.pk \in PksOf(f.rows)
          BY <2>0, <4>2, UseIsRelated DEF Inv, RowsOfModel, TypeOK
        <5>2. t \in touched'
          BY <2>0 DEF Inv, FetchesTracked
        <5>3. QED
          BY <2>2, <5>1, <5>2
      <4>3. QED
        BY <2>1, <3>1, <4>1, <4>2
    <3>2. QED
      BY <2>0, <2>1, <3>1 DEF UsesTouched
  <2>7. ReportIsSound'
    <3>1. reported = {}
      BY <2>0 DEF Inv, NoReportYet
    <3>2. QED
      BY <2>0, <3>1 DEF ReportIsSound
  <2>8. QED
    BY <2>3, <2>4, <2>5, <2>6, <2>7 DEF Inv
<1>5. ASSUME Teardown PROVE Inv'
  <2>0. /\ stage = "on" /\ stage' = "closed" /\ touchOn' = FALSE
        /\ data' = data \ Pruned /\ reported' = Unused(data \ Pruned) /\ UNCHANGED <<touched, fetches>>
    BY <1>5 DEF Teardown
  <2>a. Unused(data \ Pruned) \subseteq Relation
    BY DEF Inv, TypeOK, Unused, Group
  <2>b. TypeOK'
    BY <2>0, <2>a DEF Inv, TypeOK
  <2>1. TypeOK' /\ NoReportYet' /\ FetchesTracked' /\ GroupsFetched'
    BY <2>0, <2>b DEF Inv, NoReportYet, FetchesTracked, GroupsFetched
  <2>2. UsesTouched' /\ RowsOfModel'
    BY <2>0 DEF Inv, UsesTouched, RowsOfModel
  <2>3. ASSUME NEW rel \in reported' PROVE \E f \in fetches : f.rel = rel /\ ~f.used
    <3>1. PICK g \in data \ Pruned : g.rel = rel
      BY <2>0, <2>3 DEF Unused
    <3>2. PICK f \in fetches : f.rel = g.rel /\ f.key = g.key
      BY <3>1 DEF Inv, GroupsFetched
    <3>3. f.rows \subseteq g.rows
      BY <2>0, <3>1, <3>2 DEF Inv, FetchesTracked, TypeOK
    <3>4. PksOf(f.rows) \subseteq PksOf(g.rows)
      BY <3>3 DEF PksOf
    <3>5. ~f.used
      BY <3>1, <3>2, <3>4 DEF Inv, UsesTouched, Pruned, Prunes
    <3>6. QED
      BY <3>1, <3>2, <3>5
  <2>4. QED
    BY <2>0, <2>1, <2>2, <2>3 DEF Inv, ReportIsSound
<1>6. ASSUME Cleanup PROVE Inv'
  <2>0. stage = "on" /\ stage' = "dropped" /\ touchOn' = FALSE /\ UNCHANGED <<data, touched, reported, fetches>>
    BY <1>6 DEF Cleanup
  <2>1. TypeOK' /\ NoReportYet' /\ FetchesTracked' /\ GroupsFetched'
    BY <2>0 DEF Inv, TypeOK, NoReportYet, FetchesTracked, GroupsFetched
  <2>2. UsesTouched' /\ RowsOfModel' /\ ReportIsSound'
    BY <2>0 DEF Inv, UsesTouched, RowsOfModel, ReportIsSound
  <2>3. QED
    BY <2>1, <2>2 DEF Inv
<1>7. CASE UNCHANGED vars
  BY <1>7 DEF vars, Inv, TypeOK, NoReportYet, FetchesTracked, GroupsFetched, UsesTouched, RowsOfModel, ReportIsSound
<1>8. QED
  BY <1>1, <1>2, <1>3, <1>4, <1>5, <1>6, <1>7 DEF Next

\* Type correctness of the listener's state.
THEOREM TypeCorrect == Spec => []TypeOK
<1>1. Inv => TypeOK
  BY DEF Inv
<1>2. QED
  BY <1>1, InitInv, NextInv, PTL DEF Spec

\* No false report: a relation reported as unused was loaded by a query none of
\* whose rows was used, even when ids are reused.
THEOREM SoundReports == Spec => []ReportIsSound
<1>1. Inv => ReportIsSound
  BY DEF Inv
<1>2. QED
  BY <1>1, InitInv, NextInv, PTL DEF Spec

--------------------------------------------------------------------------------
(* Groups hold nothing but rows of their queries, so that a query alone in *)
(* its group is reported if it is never used.                              *)

\* Every row of a group was loaded by a query of its relation and key.
RowsFetched ==
    \A g \in data : \A r \in g.rows :
        \E f \in fetches : f.rel = g.rel /\ f.key = g.key /\ r \in f.rows

\* A row of a group after track was there or is one of those tracked.
LEMMA TrackRows ==
    ASSUME NEW rel, NEW key, NEW rows, Track(rel, key, rows), NEW g \in data', NEW r \in g.rows
    PROVE  \/ \E h \in data : h.rel = g.rel /\ h.key = g.key /\ r \in h.rows
           \/ g.rel = rel /\ g.key = key /\ r \in rows
<1> DEFINE old == {h \in data : h.rel = rel /\ h.key = key}
           new == [rel |-> rel, key |-> key, rows |-> rows \cup UNION {h.rows : h \in old}]
<1>1. g \in data \/ g = new
  BY DEF Track
<1>2. CASE g = new
  <2>1. r \in rows \/ \E h \in old : r \in h.rows
    BY <1>2
  <2>2. QED
    BY <1>2, <2>1
<1>3. QED
  BY <1>1, <1>2

\* RowsFetched is inductive relative to Inv.
LEMMA RowsStep == Inv /\ RowsFetched /\ [Next]_vars => RowsFetched'
<1> SUFFICES ASSUME Inv, RowsFetched, [Next]_vars PROVE RowsFetched'
  OBVIOUS
<1>1. ASSUME NEW rel \in Relation, NEW key \in Keys, NEW rows \in SUBSET Row, EagerLoad(rel, key, rows)
      PROVE  RowsFetched'
  <2> DEFINE new == [rel |-> rel, key |-> key, rows |-> rows, used |-> FALSE, live |-> TRUE]
  <2>1. fetches' = fetches \cup {new} /\ new.rel = rel /\ new.key = key /\ new.rows = rows /\ Track(rel, key, rows)
    BY <1>1 DEF EagerLoad
  <2> HIDE DEF new
  <2>2. QED
    BY <2>1, TrackRows DEF RowsFetched
<1>2. ASSUME NEW f \in fetches, NEW row \in Row, EagerLoadMore(f, row) PROVE RowsFetched'
  <2> DEFINE new == [f EXCEPT !.rows = @ \cup {row}]
  <2>1. /\ fetches' = (fetches \ {f}) \cup {new} /\ Track(f.rel, f.key, {row})
        /\ new.rel = f.rel /\ new.key = f.key /\ new.rows = f.rows \cup {row}
    BY <1>2 DEF EagerLoadMore, Inv, TypeOK, Fetch
  <2> HIDE DEF new
  <2>2. ASSUME NEW g \in data', NEW r \in g.rows
        PROVE  \E e \in fetches' : e.rel = g.rel /\ e.key = g.key /\ r \in e.rows
    <3>1. \/ \E e \in fetches : e.rel = g.rel /\ e.key = g.key /\ r \in e.rows
          \/ g.rel = f.rel /\ g.key = f.key /\ r \in {row}
      BY <2>1, TrackRows DEF RowsFetched
    <3>2. QED
      BY <2>1, <3>1
  <2>3. QED
    BY <2>2 DEF RowsFetched
<1>3. ASSUME NEW f \in fetches, Free(f) PROVE RowsFetched'
  <2> DEFINE new == [f EXCEPT !.live = FALSE]
  <2>0. /\ fetches' = (fetches \ {f}) \cup {new} /\ UNCHANGED data
        /\ new.rel = f.rel /\ new.key = f.key /\ new.rows = f.rows
    BY <1>3 DEF Free, Fetch, Inv, TypeOK
  <2> HIDE DEF new
  <2>1. QED
    BY <2>0 DEF RowsFetched
<1>4. ASSUME NEW rel \in Relation, NEW row \in Row, Touch(rel, row) PROVE RowsFetched'
  <2> DEFINE after(f) == [f EXCEPT !.used = @ \/ Uses(f, rel, row)]
  <2>0. fetches' = {after(f) : f \in fetches} /\ UNCHANGED data
    BY <1>4 DEF Touch
  <2>1. \A f \in fetches : after(f).rel = f.rel /\ after(f).key = f.key /\ after(f).rows = f.rows
    BY DEF Inv, TypeOK, Fetch
  <2> HIDE DEF after
  <2>2. QED
    BY <2>0, <2>1 DEF RowsFetched
<1>5. CASE data' \subseteq data /\ UNCHANGED fetches
  BY <1>5 DEF RowsFetched
<1>6. QED
  BY <1>1, <1>2, <1>3, <1>4, <1>5 DEF Next, vars, Teardown, Cleanup

\* No step, and in particular not teardown, misses a report.
LEMMA CompleteStep == Inv /\ RowsFetched /\ ReportIsComplete /\ [Next]_vars => ReportIsComplete'
<1> SUFFICES ASSUME Inv, RowsFetched, ReportIsComplete, [Next]_vars PROVE ReportIsComplete'
  OBVIOUS
<1>1. CASE stage = "on" /\ ~Teardown
  <2>1. stage' # "closed"
    BY <1>1 DEF Next, vars, EagerLoad, EagerLoadMore, Free, Touch, Cleanup
  <2>2. QED
    BY <2>1 DEF ReportIsComplete
<1>2. CASE Teardown
  <2>0. stage = "on" /\ reported' = Unused(data \ Pruned) /\ UNCHANGED <<touched, fetches>>
    BY <1>2 DEF Teardown
  <2>1. ASSUME NEW f \in fetches, NeverTouched(f), AloneInGroup(f) PROVE f.rel \in reported'
    <3>1. PICK g \in data : g.rel = f.rel /\ g.key = f.key
      BY <2>0 DEF Inv, FetchesTracked
    <3>2. g.rows \subseteq f.rows
      BY <2>1, <3>1 DEF RowsFetched, AloneInGroup
    <3>3. PksOf(g.rows) \subseteq PksOf(f.rows)
      BY <3>2 DEF PksOf
    <3>4. g \notin Pruned
      BY <2>1, <3>1, <3>3 DEF Pruned, Prunes, NeverTouched
    <3>5. QED
      BY <2>0, <3>1, <3>4 DEF Unused
  <2>2. QED
    BY <2>0, <2>1 DEF ReportIsComplete, NeverTouched, AloneInGroup
<1>3. CASE stage # "on"
  <2>1. UNCHANGED vars
    BY <1>3 DEF Next, EagerLoad, EagerLoadMore, Free, Touch, Teardown, Cleanup
  <2>2. QED
    BY <2>1 DEF vars, ReportIsComplete, NeverTouched, AloneInGroup
<1>4. QED
  BY <1>1, <1>2, <1>3

\* No missed report: an eager load of which no row was ever accessed is reported
\* at teardown, unless another query of its relation had the same id().
THEOREM CompleteReports == Spec => []ReportIsComplete
<1>1. Init => RowsFetched /\ ReportIsComplete
  BY DEF Init, RowsFetched, ReportIsComplete
<1>2. QED
  BY <1>1, InitInv, NextInv, RowsStep, CompleteStep, PTL DEF Spec

================================================================================
