----------------------------- MODULE OrmLoadsProofs -----------------------------
(***************************************************************************)
(* What is reported of a unit of work, for any models, relations, rules    *)
(* and queries.  Three arguments that meet in Next only: what the keys in  *)
(* loaded and ignored say of how their rows were fetched; that an access   *)
(* is judged by those keys alone; and that touches and reads go together   *)
(* on every object that a query loaded a relation for.                     *)
(***************************************************************************)
EXTENDS OrmLoads, FiniteSetTheorems, TLAPS

\* A row with the key k was fetched in this way.
Had(k, how) == \E f \in fetched : KeyOf[f[1]] = k /\ f[2] = how

\* What loaded and ignored tell of the rows, but for queries with an offset.
KeysInv ==
    /\ \A k \in loaded \ ignored : Had(k, "bulk") \/ Had(k, "joined") \/ Had(k, "paged")
    /\ \A k \in ignored : Had(k, "alone") \/ Had(k, "paged")
    /\ \A f \in fetched : f[2] = "bulk" => KeyOf[f[1]] \in loaded \/ Had(KeyOf[f[1]], "paged")
    /\ \A f \in fetched : f[2] = "alone" => KeyOf[f[1]] \in ignored \/ Had(KeyOf[f[1]], "paged")

LazyInv == LazyIsSound /\ LazyIsComplete /\ RaisingStopsTheQuery

\* The copies of a row are numbered from 1, so that a fresh one is new.
Numbered(held) == \A i \in held : i.copy <= Cardinality({j \in held : j.row = i.row})

\* An object whose relation a query loaded is touched when it is read, although
\* touches count only once there is a group: its objects were new then.  Unless the
\* program read that there is none, which raises instead.
ReadsTouch ==
    \A g \in groups : \A i \in g.insts :
        <<i, g.rel>> \in used => <<g.rel, KeyOf[i.row]>> \in touched \/ Missing(i, g.rel)

\* A touch comes from a read or a count of an object with that key.
TouchesAreReads ==
    \A t \in touched : \E u \in used \cup counted : u[2] = t[1] /\ KeyOf[u[1].row] = t[2]

EagerInv ==
    /\ orm = "django" => Numbered(live)
    /\ ReadsTouch
    /\ TouchesAreReads
    /\ ~done => \A m \in notified : m.label = "n_plus_one"
    /\ UnusedIsSound
    /\ UnusedIsComplete

\* The inductive invariant.
Inv == TypeOK /\ KeysInv /\ LazyInv /\ EagerInv

--------------------------------------------------------------------------------
\* The rows that relations of rows lead to are rows.
LEMMA RelatedRows ==
    ASSUME NEW rows \in SUBSET Rows, NEW rels \in SUBSET Relations
    PROVE  Related(rows, rels) \subseteq Rows
  BY RelationsAssumption DEF Related

\* How a query fetched its rows is one of the ways, and some way.
LEMMA HowFetchedType ==
    ASSUME NEW w \in Windows
    PROVE  HowFetched(w) \subseteq Fetch /\ HowFetched(w) # {}
  BY DEF HowFetched, Fetch

\* What the program makes of a row it has no object for is an object.
LEMMA CreateType ==
    ASSUME NEW row \in Rows, NEW held, row \notin RowsOf(held)
    PROVE  Fresh({row}, held) \subseteq Instance
<1>1. {i \in held : i.row = row} = {}
  BY DEF RowsOf
<1>2. Cardinality({i \in held : i.row = row}) = 0
  BY <1>1, FS_EmptySet
<1>3. Fresh({row}, held) = {[row |-> row, copy |-> 1]}
  BY <1>2 DEF Fresh
<1> QED
  BY <1>3, LoadBoundsAssumption DEF Instance

\* The types of what an operation of the program changes.
LEMMA StepType ==
    ASSUME TypeOK, Step, Running(orm),
           live \subseteq live', live' \subseteq Instance,
           cached' \subseteq live' \X Relations,
           fetched \subseteq fetched', fetched' \subseteq Rows \X Fetch,
           loaded' \cup ignored' \subseteq Keys({f[1] : f \in fetched'}),
           groups \subseteq groups', groups' \subseteq Group,
           touched' \subseteq Relations \X Keys(Rows), groups' = {} => touched' = {},
           notified' \subseteq Message, lazies' \subseteq Lazy,
           used' \cup counted' \subseteq live' \X Relations
    PROVE  TypeOK'
<1>1. steps' \in 0..MaxSteps
  BY LoadBoundsAssumption DEF TypeOK, Step, Running
<1>2. orm' \in Orms /\ raising' \in BOOLEAN /\ done' \in BOOLEAN
  BY DEF TypeOK, Step, settings
<1> QED
  BY <1>1, <1>2 DEF TypeOK

\* What is looked up is recorded with its types.
LEMMA LookedUpType ==
    ASSUME TypeOK, NEW row \in Rows, NEW rel \in Relations,
           NEW query \in {"ran", "stopped", "none", "silent"}, LookedUp(row, rel, query)
    PROVE  lazies' \subseteq Lazy
<1>1. Past(row) \subseteq Fetch
  BY DEF TypeOK, Past
<1> QED
  BY <1>1 DEF TypeOK, LookedUp, Lazy

\* So is a lazy load.
LEMMA LazyLoadType ==
    ASSUME TypeOK, NEW row \in Rows, NEW rel \in Relations,
           NEW query \in {"ran", "stopped", "none"}, LazyLoad(row, rel, query)
    PROVE  notified' \subseteq Message /\ lazies' \subseteq Lazy
<1>2. lazies' \subseteq Lazy
  BY LookedUpType DEF LazyLoad
<1>3. LazyMessage(rel) \in Message
  BY DEF LazyMessage, Message
<1> QED
  BY <1>2, <1>3 DEF TypeOK, LazyLoad

\* So is a touch.
LEMMA TouchType ==
    ASSUME TypeOK, NEW row \in Rows, NEW rel \in Relations,
           Touch(rel, row) \/ UNCHANGED touched
    PROVE  touched' \subseteq Relations \X Keys(Rows) /\ (groups = {} => touched' = {})
<1>1. KeyOf[row] \in Keys(Rows)
  BY DEF Keys
<1> QED
  BY <1>1 DEF TypeOK, Touch

\* What a query emits are keys of rows it fetched.
LEMMA EmitType ==
    ASSUME TypeOK, NEW rows, NEW F, fetched' = fetched \cup F,
           loaded' \cup ignored' \subseteq loaded \cup ignored \cup Keys(rows),
           \A row \in rows : \E f \in F : f[1] = row
    PROVE  loaded' \cup ignored' \subseteq Keys({f[1] : f \in fetched'})
  BY DEF TypeOK, Keys

\* Whatever its window, those of its own rows.
LEMMA EmitQueryRows ==
    ASSUME NEW rows, NEW w, NEW also, EmitQuery(rows, w, also)
    PROVE  loaded' \cup ignored' \subseteq loaded \cup ignored \cup Keys(rows \cup also)
<1>1. CASE IsSingle(w)
  BY <1>1 DEF EmitQuery, Emit, Keys
<1>2. CASE ~IsSingle(w)
  BY <1>2 DEF EmitQuery, Emit, Keys
<1> QED
  BY <1>1, <1>2

\* So does a query of Django, however it is evaluated.
LEMMA EmittedRows ==
    ASSUME NEW rows, NEW w, NEW how \in {"queryset", "get", "iterator"}, NEW also,
           Emitted(rows, w, how, also)
    PROVE  loaded' \cup ignored' \subseteq loaded \cup ignored \cup Keys(rows \cup also)
<1>1. CASE how = "queryset"
  BY <1>1, EmitQueryRows DEF Emitted
<1>2. CASE how = "get"
  <2>1. Emit(rows \cup also, rows)
    BY <1>2 DEF Emitted
  <2> QED
    BY <2>1 DEF Emit, Keys
<1>3. CASE how = "iterator"
  <2>1. Emit(also, {})
    BY <1>3 DEF Emitted
  <2> QED
    BY <2>1 DEF Emit, Keys
<1> QED
  BY <1>1, <1>2, <1>3

\* And it fetches its rows in some way.
LEMMA HowEvaluatedType ==
    ASSUME NEW w \in Windows, NEW how \in {"queryset", "get", "iterator"}
    PROVE  HowEvaluated(w, how) \subseteq Fetch /\ HowEvaluated(w, how) # {}
  BY HowFetchedType DEF HowEvaluated, Fetch

\* A query of Django keeps the types.
LEMMA DjangoFetchType ==
    ASSUME TypeOK, Running(orm), NEW rows \in SUBSET Rows, NEW w \in Windows,
           NEW how \in {"queryset", "get", "iterator"},
           NEW sel \in SUBSET Relations, NEW pre \in SUBSET Relations,
           DjangoFetch(rows, w, how, sel, pre)
    PROVE  TypeOK'
<1> DEFINE joined == Related(rows, Seen(sel))
           hidden == Related(rows, sel \ Seen(sel))
           prefetched == Related(rows, pre)
           F == (rows \X HowEvaluated(w, how))
                    \cup (joined \X (IF how = "get" \/ w.limit = 1 THEN {"joined"} ELSE {"bulk"}))
                    \cup (hidden \X {"hidden"})
                    \cup (prefetched \X {"bulk"})
<1>1. joined \subseteq Rows /\ hidden \subseteq Rows /\ prefetched \subseteq Rows
  <2>1. Seen(sel) \in SUBSET Relations /\ sel \ Seen(sel) \in SUBSET Relations
    BY DEF Seen
  <2> QED
    BY <2>1, RelatedRows
<1>2. fetched' = fetched \cup F
  BY DEF DjangoFetch
<1>3. F \subseteq Rows \X Fetch
  <2>1. {"joined"} \subseteq Fetch /\ {"bulk"} \subseteq Fetch /\ {"hidden"} \subseteq Fetch
    BY DEF Fetch
  <2> HIDE DEF joined, hidden, prefetched
  <2> QED
    BY <1>1, <2>1, HowEvaluatedType
<1>4. loaded' \cup ignored' \subseteq Keys({f[1] : f \in fetched'})
  <2>1. \A row \in rows : \E f \in F : f[1] = row
    <3>1. PICK h \in HowEvaluated(w, how) : TRUE
      BY HowEvaluatedType
    <3>2. \A row \in rows : <<row, h>> \in F
      BY <3>1
    <3> HIDE DEF F
    <3> QED
      BY <3>2
  <2>2. \A row \in joined : \E f \in F : f[1] = row
    <3>1. \A row \in joined : <<row, IF how = "get" \/ w.limit = 1 THEN "joined" ELSE "bulk">> \in F
      OBVIOUS
    <3> HIDE DEF F, joined
    <3> QED
      BY <3>1
  <2>3. \A row \in prefetched : \E f \in F : f[1] = row
    <3>1. \A row \in prefetched : <<row, "bulk">> \in F
      OBVIOUS
    <3> HIDE DEF F, prefetched
    <3> QED
      BY <3>1
  <2> DEFINE all == rows \cup (joined \cup prefetched)
  <2>4. loaded' \cup ignored' \subseteq loaded \cup ignored \cup Keys(all)
    <3>1. Emitted(rows, w, how, joined \cup prefetched)
      BY DEF DjangoFetch
    <3> DEFINE also == joined \cup prefetched
    <3>2. Emitted(rows, w, how, also) /\ rows \cup also = all
      BY <3>1
    <3> HIDE DEF F, all, also
    <3>3. loaded' \cup ignored' \subseteq loaded \cup ignored \cup Keys(rows \cup also)
      BY <3>2, EmittedRows
    <3> QED
      BY <3>2, <3>3
  <2>5. \A row \in all : \E f \in F : f[1] = row
    BY <2>1, <2>2, <2>3
  <2> HIDE DEF F, all
  <2> QED
    BY <2>4, <2>5, <1>2, EmitType
<1>5. live \subseteq live' /\ live' \subseteq Instance
  BY DEF DjangoFetch, TypeOK
<1>6. cached' \subseteq live' \X Relations
  BY <1>5 DEF DjangoFetch, TypeOK
<1>7. groups \subseteq groups' /\ groups' \subseteq Group
  BY DEF DjangoFetch, TypeOK, EagerGroups, Group
<1>8. UNCHANGED <<touched, notified, lazies, used, counted>> /\ Step
  BY DEF DjangoFetch, reading
<1> HIDE DEF F
<1> QED
  BY <1>2, <1>3, <1>4, <1>5, <1>6, <1>7, <1>8, StepType DEF TypeOK

\* So does an access to a relation of an object the program has.
LEMMA DjangoAccessType ==
    ASSUME TypeOK, Running(orm), NEW i \in live, NEW rel \in Relations, DjangoAccess(i, rel)
    PROVE  TypeOK'
<1>1. i \in Instance /\ i.row \in Rows /\ Target[rel][i.row] \subseteq Rows
  BY RelationsAssumption DEF TypeOK, Instance
<1>2. CASE \/ DjangoReadKept(i, rel) \/ DjangoReadPrefetched(i, rel) \/ DjangoCount(i, rel)
  <2>1. /\ Step /\ UNCHANGED <<live, loaded, ignored, groups, notified, fetched, lazies>>
        /\ Touch(rel, i.row) \/ UNCHANGED touched
    BY <1>2 DEF DjangoReadKept, DjangoReadPrefetched, DjangoCount, listening
  <2>2. /\ cached' \subseteq cached \cup {<<i, rel>>}
        /\ used' \cup counted' \subseteq used \cup counted \cup {<<i, rel>>}
    BY <1>2 DEF DjangoReadKept, DjangoReadPrefetched, DjangoCount
  <2>3. touched' \subseteq Relations \X Keys(Rows) /\ (groups = {} => touched' = {})
    BY <2>1, <1>1, TouchType
  <2> QED
    BY <2>1, <2>2, <2>3, StepType DEF TypeOK
<1>3. CASE DjangoStopped(i, rel)
  <2>1. /\ Step /\ UNCHANGED <<live, cached, loaded, ignored, groups, fetched, used>>
        /\ Touch(rel, i.row) \/ UNCHANGED touched
        /\ LazyLoad(i.row, rel, "stopped")
        /\ counted' \subseteq counted \cup {<<i, rel>>}
    BY <1>3 DEF DjangoStopped, listening
  <2>2. touched' \subseteq Relations \X Keys(Rows) /\ (groups = {} => touched' = {})
    BY <2>1, <1>1, TouchType
  <2>3. notified' \subseteq Message /\ lazies' \subseteq Lazy
    BY <2>1, <1>1, LazyLoadType
  <2> QED
    BY <2>1, <2>2, <2>3, StepType DEF TypeOK
<1>4. CASE DjangoReadOne(i, rel) \/ \E w \in WindowsOver(Target[rel][i.row]) : DjangoReadMany(i, rel, w)
  <2> DEFINE value == Target[rel][i.row]
  <2>1. /\ Step /\ groups' = groups
        /\ Touch(rel, i.row) \/ UNCHANGED touched
        /\ LazyLoad(i.row, rel, "ran")
        /\ used' \cup counted' \subseteq used \cup counted \cup {<<i, rel>>}
        /\ cached' \subseteq cached \cup {<<i, rel>>}
        /\ live \subseteq live' /\ live' \subseteq Instance
    BY <1>4 DEF DjangoReadOne, DjangoReadMany, TypeOK
  <2>2. touched' \subseteq Relations \X Keys(Rows) /\ (groups = {} => touched' = {})
    BY <2>1, <1>1, TouchType
  <2>3. notified' \subseteq Message /\ lazies' \subseteq Lazy
    BY <2>1, <1>1, LazyLoadType
  <2>4. PICK how \in SUBSET Fetch : how # {} /\ fetched' = fetched \cup (value \X how)
    <3>1. CASE DjangoReadOne(i, rel)
      BY <3>1 DEF DjangoReadOne, Fetch
    <3>2. CASE \E w \in WindowsOver(value) : DjangoReadMany(i, rel, w)
      BY <3>2, HowFetchedType DEF DjangoReadMany, WindowsOver
    <3> QED
      BY <1>4, <3>1, <3>2
  <2>5. loaded' \cup ignored' \subseteq loaded \cup ignored \cup Keys(value)
    <3>1. CASE DjangoReadOne(i, rel)
      BY <3>1 DEF DjangoReadOne, Emit
    <3>2. ASSUME NEW w \in Windows, DjangoReadMany(i, rel, w)
          PROVE  loaded' \cup ignored' \subseteq loaded \cup ignored \cup Keys(value)
      <4>1. EmitQuery(value, w, {}) /\ value \cup {} = value
        BY <3>2 DEF DjangoReadMany
      <4> QED
        BY <4>1, EmitQueryRows
    <3> QED
      BY <1>4, <3>1, <3>2 DEF WindowsOver
  <2>6. \A row \in value : \E f \in value \X how : f[1] = row
    <3>1. PICK h \in how : TRUE
      BY <2>4
    <3>2. \A row \in value : <<row, h>> \in value \X how
      BY <3>1
    <3> QED
      BY <3>2
  <2>7. loaded' \cup ignored' \subseteq Keys({f[1] : f \in fetched'})
    BY <2>4, <2>5, <2>6, EmitType
  <2>8. fetched \subseteq fetched' /\ fetched' \subseteq Rows \X Fetch
    BY <2>4, <1>1 DEF TypeOK
  <2> QED
    BY <2>1, <2>2, <2>3, <2>7, <2>8, StepType DEF TypeOK
<1>5. ASSUME NEW found \in {{}, Target[rel][i.row]}, DjangoQuerySilently(i, rel, found)
      PROVE  TypeOK'
  <2>1. /\ Step /\ UNCHANGED <<cached, loaded, ignored, groups, notified, used>>
        /\ Touch(rel, i.row) \/ UNCHANGED touched
        /\ LookedUp(i.row, rel, "silent")
        /\ counted' \subseteq counted \cup {<<i, rel>>}
        /\ live \subseteq live' /\ live' \subseteq Instance
        /\ fetched' = fetched \cup (found \X {"streamed"})
    BY <1>5 DEF DjangoQuerySilently, listening, TypeOK
  <2>2. touched' \subseteq Relations \X Keys(Rows) /\ (groups = {} => touched' = {})
    BY <2>1, <1>1, TouchType
  <2>3. lazies' \subseteq Lazy
    BY <2>1, <1>1, LookedUpType
  <2>4. fetched \subseteq fetched' /\ fetched' \subseteq Rows \X Fetch
    BY <2>1, <1>1 DEF TypeOK, Fetch
  <2>5. loaded' \cup ignored' \subseteq Keys({f[1] : f \in fetched'})
    BY <2>1, <2>4 DEF TypeOK, Keys
  <2> QED
    BY <2>1, <2>2, <2>3, <2>4, <2>5, StepType DEF TypeOK
<1> QED
  BY <1>2, <1>3, <1>4, <1>5 DEF DjangoAccess

\* An object of SQLAlchemy's identity map is an object.
LEMMA MappedType ==
    ASSUME NEW rows \in SUBSET Rows
    PROVE  Mapped(rows) \subseteq Instance
  BY LoadBoundsAssumption DEF Mapped, Instance

\* A query of SQLAlchemy keeps the types.
LEMMA SqlFetchType ==
    ASSUME TypeOK, Running(orm), NEW rows \in SUBSET Rows, NEW w \in Windows, NEW single \in BOOLEAN,
           NEW sel \in SUBSET Relations, SqlFetch(rows, w, single, sel)
    PROVE  TypeOK'
<1> DEFINE how == IF single THEN {"alone"} ELSE HowFetched(w)
<1> DEFINE F == (rows \X how) \cup (Related(rows, sel) \X {"hidden"})
<1>1. fetched' = fetched \cup F /\ Step
  BY DEF SqlFetch
<1>2. how \subseteq Fetch /\ how # {}
  BY HowFetchedType DEF Fetch
<1>3. loaded' \cup ignored' \subseteq Keys({f[1] : f \in fetched'})
  <2>1. loaded' \cup ignored' \subseteq loaded \cup ignored \cup Keys(rows)
    <3>1. CASE single
      BY <3>1 DEF SqlFetch, Emit
    <3>2. CASE ~single
      <4>1. EmitQuery(rows, w, {}) /\ rows \cup {} = rows
        BY <3>2 DEF SqlFetch
      <4> QED
        BY <4>1, EmitQueryRows
    <3> QED
      BY <3>1, <3>2
  <2>2. PICK h \in how : TRUE
    BY <1>2
  <2>3. \A row \in rows : <<row, h>> \in F
    BY <2>2
  <2> HIDE DEF F
  <2>4. \A row \in rows : \E f \in F : f[1] = row
    BY <2>3
  <2> QED
    BY <2>1, <2>4, <1>1, EmitType
<1>4. live \subseteq live' /\ live' \subseteq Instance
  BY MappedType, RelatedRows DEF SqlFetch, TypeOK
<1>5. cached' \subseteq live' \X Relations
  <2>1. Mapped(rows) \subseteq Mapped(rows \cup Related(rows, sel))
    BY DEF Mapped
  <2> QED
    BY <2>1, <1>4 DEF SqlFetch, TypeOK
<1>6. groups \subseteq groups' /\ groups' \subseteq Group
  <2>1. Mapped(rows) \subseteq Instance
    BY MappedType
  <2> QED
    BY <2>1 DEF SqlFetch, TypeOK, Group
<1>7. UNCHANGED <<touched, notified, lazies, used, counted>>
  BY DEF SqlFetch, reading
<1>8. fetched \subseteq fetched' /\ fetched' \subseteq Rows \X Fetch
  <2>1. Related(rows, sel) \subseteq Rows /\ "hidden" \in Fetch
    BY RelatedRows DEF Fetch
  <2> HIDE DEF how
  <2> QED
    BY <1>1, <1>2, <2>1 DEF TypeOK
<1> HIDE DEF F
<1> QED
  BY <1>1, <1>3, <1>4, <1>5, <1>6, <1>7, <1>8, StepType DEF TypeOK

\* So does an access to a relation.
LEMMA SqlAccessType ==
    ASSUME TypeOK, Running(orm), NEW i \in live, NEW rel \in Relations,
           SqlReadKept(i, rel) \/ SqlReadLazily(i, rel)
    PROVE  TypeOK'
<1>1. i \in Instance /\ i.row \in Rows /\ Target[rel][i.row] \subseteq Rows
  BY RelationsAssumption DEF TypeOK, Instance
<1>2. /\ Step /\ UNCHANGED <<loaded, ignored, groups>>
      /\ Touch(rel, i.row) \/ UNCHANGED touched
      /\ cached' \subseteq cached \cup {<<i, rel>>}
      /\ used' \cup counted' \subseteq used \cup counted \cup {<<i, rel>>}
  BY DEF SqlReadKept, SqlReadLazily, listening
<1>3. PICK queried \in SUBSET Rows : /\ live' = live \cup Mapped(queried)
                                    /\ fetched' = fetched \cup (queried \X {"hidden"})
  <2>1. CASE SqlReadKept(i, rel)
    <3> DEFINE q == {}
    <3>1. live' = live \cup Mapped(q) /\ fetched' = fetched \cup (q \X {"hidden"})
      BY <2>1 DEF SqlReadKept, Mapped
    <3>2. q \in SUBSET Rows
      OBVIOUS
    <3> HIDE DEF q
    <3> QED
      BY <3>1, <3>2
  <2>2. CASE SqlReadLazily(i, rel)
    BY <2>2, <1>1 DEF SqlReadLazily
  <2> QED
    BY <2>1, <2>2
<1>6. live \subseteq live' /\ live' \subseteq Instance
  BY <1>3, MappedType DEF TypeOK
<1>7. fetched \subseteq fetched' /\ fetched' \subseteq Rows \X Fetch
  BY <1>3 DEF TypeOK, Fetch
<1>8. loaded' \cup ignored' \subseteq Keys({f[1] : f \in fetched'})
  BY <1>2, <1>7 DEF TypeOK, Keys
<1>4. touched' \subseteq Relations \X Keys(Rows) /\ (groups = {} => touched' = {})
  BY <1>1, <1>2, TouchType
<1>5. notified' \subseteq Message /\ lazies' \subseteq Lazy
  <2>1. CASE SqlReadKept(i, rel)
    BY <2>1 DEF SqlReadKept, TypeOK
  <2>2. CASE SqlReadLazily(i, rel)
    <3>1. PICK query \in {"none", "ran"} : LazyLoad(i.row, rel, query)
      BY <2>2 DEF SqlReadLazily
    <3> QED
      BY <3>1, <1>1, LazyLoadType
  <2> QED
    BY <2>1, <2>2
<1> QED
  BY <1>2, <1>4, <1>5, <1>6, <1>7, <1>8, StepType DEF TypeOK

\* A query of Peewee keeps the types, of the program or of an access to a relation.
LEMMA PeeweeFetchType ==
    ASSUME TypeOK, Running(orm), Step, NEW rows \in SUBSET Rows,
           NEW how \in SUBSET Fetch, how # {},
           loaded' \cup ignored' \subseteq loaded \cup ignored \cup Keys(rows),
           fetched' = fetched \cup (rows \X how),
           live \subseteq live', live' \subseteq Instance, cached' \subseteq live' \X Relations,
           notified' \subseteq Message, lazies' \subseteq Lazy, UNCHANGED <<tracking, reading>>
    PROVE  TypeOK'
<1>1. PICK h \in how : TRUE
  OBVIOUS
<1>2. \A row \in rows : <<row, h>> \in rows \X how
  OBVIOUS
<1>3. \A row \in rows : \E f \in rows \X how : f[1] = row
  BY <1>2
<1>4. loaded' \cup ignored' \subseteq Keys({f[1] : f \in fetched'})
  BY <1>3, EmitType
<1>5. fetched \subseteq fetched' /\ fetched' \subseteq Rows \X Fetch
  BY DEF TypeOK
<1> QED
  BY <1>4, <1>5, StepType DEF TypeOK, tracking, reading

\* Of the program ...
LEMMA PeeweeQueryType ==
    ASSUME TypeOK, Running(orm), NEW rows \in SUBSET Rows, NEW w \in Windows, PeeweeFetch(rows, w)
    PROVE  TypeOK'
<1>1. EmitQuery(rows, w, {}) /\ rows \cup {} = rows
  BY DEF PeeweeFetch
<1>2. loaded' \cup ignored' \subseteq loaded \cup ignored \cup Keys(rows)
  BY <1>1, EmitQueryRows
<1>3. /\ Step /\ fetched' = fetched \cup (rows \X HowFetched(w)) /\ cached' = cached
      /\ live \subseteq live' /\ live' \subseteq Instance
      /\ UNCHANGED <<notified, lazies>> /\ UNCHANGED <<tracking, reading>>
  BY DEF PeeweeFetch, TypeOK
<1> QED
  BY <1>2, <1>3, HowFetchedType, PeeweeFetchType DEF TypeOK

\* ... and of an access.
LEMMA PeeweeAccessType ==
    ASSUME TypeOK, Running(orm), NEW i \in live, NEW rel \in Relations, PeeweeAccess(i, rel)
    PROVE  TypeOK'
<1> DEFINE value == Target[rel][i.row]
<1>1. i \in Instance /\ i.row \in Rows /\ value \subseteq Rows
  BY RelationsAssumption DEF TypeOK, Instance
<1>2. Step /\ UNCHANGED <<tracking, reading>> /\ live \subseteq live' /\ live' \subseteq Instance
  BY DEF PeeweeAccess, PeeweeReadOne, PeeweeIterateAgain, PeeweeReadMany, TypeOK
<1>3. \E query \in {"ran", "stopped", "none"} : LazyLoad(i.row, rel, query)
  BY DEF PeeweeAccess, PeeweeReadOne, PeeweeIterateAgain, PeeweeReadMany
<1>4. notified' \subseteq Message /\ lazies' \subseteq Lazy
  BY <1>1, <1>3, LazyLoadType
<1>5. cached' \subseteq live' \X Relations
  BY <1>2 DEF PeeweeAccess, PeeweeReadOne, PeeweeIterateAgain, PeeweeReadMany, TypeOK
<1>6. CASE UNCHANGED <<listening, fetched>>
  BY <1>6, <1>2, <1>4, <1>5, StepType DEF TypeOK, listening, tracking, reading
<1>7. CASE PeeweeReadOne(i, rel) /\ ~UNCHANGED <<listening, fetched>>
  <2>1. Emit({}, value) /\ fetched' = fetched \cup (value \X {"alone"})
    BY <1>7 DEF PeeweeReadOne
  <2>2. loaded' \cup ignored' \subseteq loaded \cup ignored \cup Keys(value)
    BY <2>1 DEF Emit, Keys
  <2> DEFINE how == {"alone"}
  <2>3. how \in SUBSET Fetch /\ how # {} /\ fetched' = fetched \cup (value \X how)
    BY <2>1 DEF Fetch
  <2> HIDE DEF value, how
  <2> QED
    BY <2>2, <2>3, <1>1, <1>2, <1>4, <1>5, PeeweeFetchType
<1>8. ASSUME NEW w \in Windows, PeeweeReadMany(i, rel, w), ~UNCHANGED <<listening, fetched>>
      PROVE  TypeOK'
  <2>1. /\ EmitQuery(value, w, {}) /\ value \cup {} = value
        /\ fetched' = fetched \cup (value \X HowFetched(w))
    BY <1>8 DEF PeeweeReadMany
  <2>2. loaded' \cup ignored' \subseteq loaded \cup ignored \cup Keys(value)
    BY <2>1, EmitQueryRows
  <2> HIDE DEF value
  <2> QED
    BY <2>1, <2>2, <1>1, <1>2, <1>4, <1>5, HowFetchedType, PeeweeFetchType
<1>9. PeeweeIterateAgain(i, rel) => UNCHANGED <<listening, fetched>>
  BY DEF PeeweeIterateAgain
<1> QED
  BY <1>6, <1>7, <1>8, <1>9 DEF PeeweeAccess, WindowsOver

\* The operations of a unit of work, whatever its ORM.
LEMMA NextCases ==
    ASSUME TypeOK, Next, ~Report
    PROVE  /\ Running(orm)
           /\ \/ \E row \in Rows : Create(row)
              \/ \E rows \in SUBSET Rows, w \in Windows, how \in {"queryset", "get", "iterator"},
                    sel \in SUBSET Relations, pre \in SUBSET Relations :
                    orm = "django" /\ DjangoFetch(rows, w, how, sel, pre)
              \/ \E i \in live, rel \in Relations :
                    orm = "django" /\ Owner[rel] = ModelOf[i.row] /\ DjangoAccess(i, rel)
              \/ \E rows \in SUBSET Rows, w \in Windows, single \in BOOLEAN, sel \in SUBSET Relations :
                    orm = "sqlalchemy" /\ SqlFetch(rows, w, single, sel)
              \/ \E i \in live, rel \in Relations :
                    orm = "sqlalchemy" /\ (SqlReadKept(i, rel) \/ SqlReadLazily(i, rel))
              \/ \E rows \in SUBSET Rows, w \in Windows : orm = "peewee" /\ PeeweeFetch(rows, w)
              \/ \E i \in live, rel \in Relations : orm = "peewee" /\ PeeweeAccess(i, rel)
<1>1. CASE \E row \in Rows : Create(row)
  BY <1>1 DEF Create
<1>2. CASE DjangoNext
  <2>1. Running(orm) /\ orm = "django"
    BY <1>2 DEF DjangoNext, Running
  <2>2. CASE \E i \in live : \E rel \in RelationsOf(ModelOf[i.row]) : DjangoAccess(i, rel)
    BY <2>1, <2>2 DEF RelationsOf
  <2>3. ASSUME NEW m \in Models, NEW rows \in SUBSET RowsOfModel(m), DjangoQuery(m, rows)
        PROVE  \E w \in Windows, how \in {"queryset", "get", "iterator"},
                  sel \in SUBSET Relations, pre \in SUBSET Relations :
                    DjangoFetch(rows, w, how, sel, pre)
    BY <2>3, WindowsAssumption DEF DjangoQuery, Eager, RelationsOf, WindowsOver
  <2> QED
    BY <1>2, <2>1, <2>2, <2>3 DEF DjangoNext, RowsOfModel
<1>3. CASE SqlNext
  <2>1. Running(orm) /\ orm = "sqlalchemy"
    BY <1>3 DEF SqlNext, Running
  <2>2. CASE \E i \in live : \E rel \in RelationsOf(ModelOf[i.row]) :
                SqlReadKept(i, rel) \/ SqlReadLazily(i, rel)
    BY <2>1, <2>2 DEF RelationsOf
  <2>3. ASSUME NEW m \in Models, NEW rows \in SUBSET RowsOfModel(m), SqlQuery(m, rows)
        PROVE  \E w \in Windows, single \in BOOLEAN, sel \in SUBSET Relations :
                    SqlFetch(rows, w, single, sel)
    BY <2>3, WindowsAssumption DEF SqlQuery, Eager, RelationsOf, WindowsOver
  <2> QED
    BY <1>3, <2>1, <2>2, <2>3 DEF SqlNext, RowsOfModel
<1>4. CASE PeeweeNext
  BY <1>4 DEF PeeweeNext, Running, RelationsOf, RowsOfModel, WindowsOver
<1> QED
  BY <1>1, <1>2, <1>3, <1>4 DEF Next

\* Every step keeps the types.
LEMMA NextType == TypeOK /\ [Next]_vars => TypeOK'
<1> SUFFICES ASSUME TypeOK, [Next]_vars PROVE TypeOK'
  OBVIOUS
<1>1. CASE UNCHANGED vars
  BY <1>1 DEF vars, settings, listening, tracking, reading, TypeOK
<1>2. CASE Report
  <2>1. \A rel \in Unused : UnusedMessage(rel) \in Message
    BY DEF Unused, UnusedMessage, Message, TypeOK, Group
  <2>2. notified' \subseteq Message
    BY <1>2, <2>1 DEF Report, TypeOK
  <2> QED
    BY <1>2, <2>2 DEF Report, settings, listening, tracking, reading, TypeOK
<1>3. ASSUME NEW row \in Rows, Create(row) PROVE TypeOK'
  <2>1. Fresh({row}, live) \subseteq Instance
    BY <1>3, CreateType DEF Create
  <2>2. live \subseteq live' /\ live' \subseteq Instance
    BY <1>3, <2>1 DEF Create, TypeOK
  <2>3. Step /\ Running(orm) /\ UNCHANGED <<cached, listening, tracking, notified, fetched, lazies, reading>>
    BY <1>3 DEF Create
  <2> QED
    BY <2>2, <2>3, StepType DEF listening, tracking, reading, TypeOK
<1> QED
  BY <1>1, <1>2, <1>3, NextCases, DjangoFetchType, DjangoAccessType, SqlFetchType, SqlAccessType,
     PeeweeQueryType, PeeweeAccessType

--------------------------------------------------------------------------------
\* What a window has to do with the way the rows are fetched: the emitters take a
\* query for that of a single row if its limit is one, unless there is an offset.
LEMMA WindowKeys ==
    ASSUME NEW w \in Windows
    PROVE  /\ IsSingle(w) => "alone" \in HowFetched(w) \/ "paged" \in HowFetched(w)
           /\ ~IsSingle(w) => "bulk" \in HowFetched(w) \/ "paged" \in HowFetched(w)
           /\ IsSingle(w) /\ "bulk" \in HowFetched(w) => "paged" \in HowFetched(w)
           /\ ~IsSingle(w) /\ "alone" \in HowFetched(w) => "paged" \in HowFetched(w)
<1>1. w \in [limit : Nat, offset : Nat]
  BY WindowsAssumption
<1> QED
  BY <1>1 DEF IsSingle, HowFetched

\* Rows that are loaded, ignored and recorded in agreement.
LEMMA FetchKeys ==
    ASSUME KeysInv, NEW L, NEW I, NEW F, Emit(L, I), fetched' = fetched \cup F,
           \A row \in L : row \in I \/ \E how \in {"bulk", "joined", "paged"} : <<row, how>> \in F,
           \A row \in I : <<row, "alone">> \in F \/ <<row, "paged">> \in F,
           \A f \in F : f[2] = "bulk" => f[1] \in L \/ <<f[1], "paged">> \in F,
           \A f \in F : f[2] = "alone" => f[1] \in I \/ <<f[1], "paged">> \in F
    PROVE  KeysInv'
<1>1. \A k, how : Had(k, how) => Had(k, how)'
  BY DEF Had
<1>2. \A row, how : <<row, how>> \in F => Had(KeyOf[row], how)'
  BY DEF Had
<1>3. loaded' = loaded \cup Keys(L) /\ ignored' = ignored \cup Keys(I)
  BY DEF Emit
<1>4. ASSUME NEW k \in loaded' \ ignored' PROVE (Had(k, "bulk") \/ Had(k, "joined") \/ Had(k, "paged"))'
  <2>1. CASE k \in loaded
    BY <2>1, <1>1, <1>3, <1>4 DEF KeysInv
  <2>2. CASE k \in Keys(L)
    <3>1. PICK row \in L : k = KeyOf[row]
      BY <2>2 DEF Keys
    <3>2. row \notin I
      BY <3>1, <1>3, <1>4 DEF Keys
    <3> QED
      BY <3>1, <3>2, <1>2
  <2> QED
    BY <2>1, <2>2, <1>3, <1>4
<1>5. ASSUME NEW k \in ignored' PROVE (Had(k, "alone") \/ Had(k, "paged"))'
  <2>1. CASE k \in ignored
    BY <2>1, <1>1 DEF KeysInv
  <2>2. CASE k \in Keys(I)
    BY <2>2, <1>2 DEF Keys
  <2> QED
    BY <2>1, <2>2, <1>3, <1>5
<1>6. ASSUME NEW f \in fetched', f[2] = "bulk" PROVE (KeyOf[f[1]] \in loaded \/ Had(KeyOf[f[1]], "paged"))'
  <2>1. CASE f \in fetched
    BY <2>1, <1>1, <1>3, <1>6 DEF KeysInv
  <2>2. CASE f \in F
    BY <2>2, <1>2, <1>3, <1>6 DEF Keys
  <2> QED
    BY <2>1, <2>2
<1>7. ASSUME NEW f \in fetched', f[2] = "alone" PROVE (KeyOf[f[1]] \in ignored \/ Had(KeyOf[f[1]], "paged"))'
  <2>1. CASE f \in fetched
    BY <2>1, <1>1, <1>3, <1>7 DEF KeysInv
  <2>2. CASE f \in F
    BY <2>2, <1>2, <1>3, <1>7 DEF Keys
  <2> QED
    BY <2>1, <2>2
<1> QED
  BY <1>4, <1>5, <1>6, <1>7 DEF KeysInv

\* A query with a window, which also loads other rows, in bulk or joined to one, and
\* makes objects of more.
LEMMA QueryKeys ==
    ASSUME KeysInv, NEW rows, NEW w \in Windows, NEW also, NEW G, EmitQuery(rows, w, also),
           fetched' = fetched \cup (rows \X HowFetched(w)) \cup G,
           \A row \in also : <<row, "bulk">> \in G \/ <<row, "joined">> \in G,
           \A f \in G : f[2] # "alone" /\ (f[2] = "bulk" => f[1] \in also)
    PROVE  KeysInv'
<1> DEFINE F == (rows \X HowFetched(w)) \cup G
<1>1. fetched' = fetched \cup F
  OBVIOUS
<1>2. ASSUME NEW how, NEW row \in rows, how \in HowFetched(w) PROVE <<row, how>> \in F
  BY <1>2
<1>3. \A f \in F : (f[1] \in rows /\ f[2] \in HowFetched(w)) \/ f \in G
  OBVIOUS
<1>4. \A row \in also : \E how \in {"bulk", "joined", "paged"} : <<row, how>> \in F
  OBVIOUS
<1>5. CASE IsSingle(w)
  <2>1. Emit(also, rows)
    BY <1>5 DEF EmitQuery
  <2>2. \A row \in rows : <<row, "alone">> \in F \/ <<row, "paged">> \in F
    BY <1>2, <1>5, WindowKeys
  <2>3. \A f \in F : f[2] = "bulk" => f[1] \in also \/ <<f[1], "paged">> \in F
    BY <1>2, <1>3, <1>5, WindowKeys
  <2>4. \A f \in F : f[2] = "alone" => f[1] \in rows
    BY <1>3
  <2> HIDE DEF F
  <2> QED
    BY <2>1, <2>2, <2>3, <2>4, <1>1, <1>4, FetchKeys
<1>6. CASE ~IsSingle(w)
  <2> DEFINE L == rows \cup also
             I == {}
  <2>1. Emit(L, I)
    BY <1>6 DEF EmitQuery
  <2>2. \A row \in rows : <<row, "bulk">> \in F \/ <<row, "paged">> \in F
    BY <1>2, <1>6, WindowKeys
  <2>3. \A f \in F : f[2] = "alone" => <<f[1], "paged">> \in F
    BY <1>2, <1>3, <1>6, WindowKeys
  <2>4. \A f \in F : f[2] = "bulk" => f[1] \in L
    BY <1>3
  <2>5. \A row \in L : \E how \in {"bulk", "joined", "paged"} : <<row, how>> \in F
    BY <2>2, <1>4
  <2>6. /\ \A row \in L : row \in I \/ \E how \in {"bulk", "joined", "paged"} : <<row, how>> \in F
        /\ \A row \in I : <<row, "alone">> \in F \/ <<row, "paged">> \in F
        /\ \A f \in F : f[2] = "bulk" => f[1] \in L \/ <<f[1], "paged">> \in F
        /\ \A f \in F : f[2] = "alone" => f[1] \in I \/ <<f[1], "paged">> \in F
    BY <2>3, <2>4, <2>5
  <2> HIDE DEF F, L, I
  <2> QED
    BY <2>1, <2>6, <1>1, FetchKeys
<1> QED
  BY <1>5, <1>6

\* A query with a window, and nothing else.
LEMMA PlainQueryKeys ==
    ASSUME KeysInv, NEW rows, NEW w \in Windows, EmitQuery(rows, w, {}),
           fetched' = fetched \cup (rows \X HowFetched(w))
    PROVE  KeysInv'
<1> DEFINE G == {}
<1>1. /\ EmitQuery(rows, w, G) /\ fetched' = fetched \cup (rows \X HowFetched(w)) \cup G
      /\ \A row \in G : <<row, "bulk">> \in G \/ <<row, "joined">> \in G
      /\ \A f \in G : f[2] # "alone" /\ (f[2] = "bulk" => f[1] \in G)
  OBVIOUS
<1> HIDE DEF G
<1> QED
  BY <1>1, QueryKeys

\* A row fetched alone, whether load is emitted for it too or not.
LEMMA AloneKeys ==
    ASSUME KeysInv, NEW rows, NEW L \in SUBSET rows, Emit(L, rows),
           fetched' = fetched \cup (rows \X {"alone"})
    PROVE  KeysInv'
<1> DEFINE F == rows \X {"alone"}
<1>1. /\ \A row \in L : row \in rows \/ \E how \in {"bulk", "joined", "paged"} : <<row, how>> \in F
      /\ \A row \in rows : <<row, "alone">> \in F \/ <<row, "paged">> \in F
      /\ \A f \in F : f[2] = "bulk" => f[1] \in L \/ <<f[1], "paged">> \in F
      /\ \A f \in F : f[2] = "alone" => f[1] \in rows \/ <<f[1], "paged">> \in F
  OBVIOUS
<1>2. fetched' = fetched \cup F
  OBVIOUS
<1> HIDE DEF F
<1> QED
  BY <1>1, <1>2, FetchKeys

\* Rows that no signal tells of.
LEMMA UnseenKeys ==
    ASSUME KeysInv, UNCHANGED listening, NEW F, fetched' = fetched \cup F,
           \A f \in F : f[2] \in {"streamed", "hidden"}
    PROVE  KeysInv'
<1> DEFINE L == {}
<1>1. Emit(L, L)
  BY DEF Emit, Keys, listening
<1>2. /\ \A row \in L : row \in L \/ \E how \in {"bulk", "joined", "paged"} : <<row, how>> \in F
      /\ \A row \in L : <<row, "alone">> \in F \/ <<row, "paged">> \in F
      /\ \A f \in F : f[2] = "bulk" => f[1] \in L \/ <<f[1], "paged">> \in F
      /\ \A f \in F : f[2] = "alone" => f[1] \in L \/ <<f[1], "paged">> \in F
  OBVIOUS
<1> HIDE DEF L
<1> QED
  BY <1>1, <1>2, FetchKeys

\* A query of Django, with what it joins and prefetches.
LEMMA DjangoFetchKeys ==
    ASSUME KeysInv, NEW rows, NEW w \in Windows, NEW how \in {"queryset", "get", "iterator"},
           NEW sel, NEW pre, DjangoFetch(rows, w, how, sel, pre)
    PROVE  KeysInv'
<1> DEFINE joined == Related(rows, Seen(sel))
           hidden == Related(rows, sel \ Seen(sel))
           prefetched == Related(rows, pre)
           also == joined \cup prefetched
           G == (joined \X (IF how = "get" \/ w.limit = 1 THEN {"joined"} ELSE {"bulk"}))
                    \cup (hidden \X {"hidden"})
                    \cup (prefetched \X {"bulk"})
           own == rows \X HowEvaluated(w, how)
<1>1. \A row \in also : <<row, "bulk">> \in G \/ <<row, "joined">> \in G
  OBVIOUS
<1>2. \A f \in G : f[2] # "alone" /\ (f[2] = "bulk" => f[1] \in also)
  <2> HIDE DEF joined, hidden, prefetched
  <2> QED
    OBVIOUS
<1>3. Emitted(rows, w, how, also) /\ fetched' = fetched \cup own \cup G
  <2>1. Emitted(rows, w, how, also)
    BY DEF DjangoFetch
  <2>2. fetched' = fetched \cup own \cup (joined \X (IF how = "get" \/ w.limit = 1 THEN {"joined"} ELSE {"bulk"}))
                      \cup (hidden \X {"hidden"}) \cup (prefetched \X {"bulk"})
    BY DEF DjangoFetch
  <2> HIDE DEF joined, hidden, prefetched, also, own
  <2> QED
    BY <2>1, <2>2
<1> HIDE DEF G, also, joined, hidden, prefetched
<1>4. CASE how = "queryset"
  <2>1. EmitQuery(rows, w, also) /\ fetched' = fetched \cup (rows \X HowFetched(w)) \cup G
    BY <1>3, <1>4 DEF Emitted, HowEvaluated
  <2> QED
    BY <2>1, <1>1, <1>2, QueryKeys
<1>5. CASE how = "get"
  <2> DEFINE F == (rows \X {"alone"}) \cup G
             L == rows \cup also
  <2>1. Emit(L, rows) /\ fetched' = fetched \cup F
    BY <1>3, <1>5 DEF Emitted, HowEvaluated
  <2>2. \A f \in F : (f[1] \in rows /\ f[2] = "alone") \/ f \in G
    OBVIOUS
  <2>3. /\ \A row \in L : row \in rows \/ \E h \in {"bulk", "joined", "paged"} : <<row, h>> \in F
        /\ \A row \in rows : <<row, "alone">> \in F \/ <<row, "paged">> \in F
    BY <1>1
  <2>4. /\ \A f \in F : f[2] = "bulk" => f[1] \in L \/ <<f[1], "paged">> \in F
        /\ \A f \in F : f[2] = "alone" => f[1] \in rows \/ <<f[1], "paged">> \in F
    BY <2>2, <1>2
  <2> HIDE DEF F, L
  <2> QED
    BY <2>1, <2>3, <2>4, FetchKeys
<1>6. CASE how = "iterator"
  <2> DEFINE F == (rows \X {"streamed"}) \cup G
             I == {}
  <2>1. Emit(also, I) /\ fetched' = fetched \cup F
    BY <1>3, <1>6 DEF Emitted, HowEvaluated
  <2>2. \A f \in F : f[2] = "streamed" \/ f \in G
    OBVIOUS
  <2>3. /\ \A row \in also : row \in I \/ \E h \in {"bulk", "joined", "paged"} : <<row, h>> \in F
        /\ \A row \in I : <<row, "alone">> \in F \/ <<row, "paged">> \in F
    BY <1>1
  <2>4. /\ \A f \in F : f[2] = "bulk" => f[1] \in also \/ <<f[1], "paged">> \in F
        /\ \A f \in F : f[2] = "alone" => f[1] \in I \/ <<f[1], "paged">> \in F
    BY <2>2, <1>2
  <2> HIDE DEF F, I
  <2> QED
    BY <2>1, <2>3, <2>4, FetchKeys
<1> QED
  BY <1>4, <1>5, <1>6

\* Every step keeps the agreement of loaded and ignored with what was fetched.
LEMMA NextKeys == TypeOK /\ KeysInv /\ [Next]_vars => KeysInv'
<1> SUFFICES ASSUME TypeOK, KeysInv, [Next]_vars PROVE KeysInv'
  OBVIOUS
<1>1. CASE UNCHANGED <<listening, fetched>>
  BY <1>1 DEF listening, KeysInv, Had
<1>2. CASE UNCHANGED vars \/ Report \/ \E row \in Rows : Create(row)
  BY <1>1, <1>2 DEF vars, Report, Create
<1>3. ASSUME NEW i, NEW rel, DjangoAccess(i, rel) PROVE KeysInv'
  <2>1. CASE UNCHANGED <<listening, fetched>>
    BY <2>1, <1>1
  <2>2. CASE DjangoReadOne(i, rel)
    BY <2>2, AloneKeys DEF DjangoReadOne
  <2>3. ASSUME NEW w \in Windows, DjangoReadMany(i, rel, w) PROVE KeysInv'
    BY <2>3, PlainQueryKeys DEF DjangoReadMany
  <2>4. ASSUME NEW found, DjangoQuerySilently(i, rel, found) PROVE KeysInv'
    <3> DEFINE F == found \X {"streamed"}
    <3>1. UNCHANGED listening /\ fetched' = fetched \cup F /\ \A f \in F : f[2] = "streamed"
      BY <2>4 DEF DjangoQuerySilently
    <3> HIDE DEF F
    <3> QED
      BY <3>1, UnseenKeys
  <2> QED
    BY <1>3, <2>1, <2>2, <2>3, <2>4 DEF DjangoAccess, DjangoReadKept, DjangoStopped, DjangoReadPrefetched,
       DjangoCount, WindowsOver
<1>4. ASSUME NEW rows, NEW w \in Windows, NEW single \in BOOLEAN, NEW sel, SqlFetch(rows, w, single, sel)
      PROVE  KeysInv'
  <2> DEFINE G == Related(rows, sel) \X {"hidden"}
  <2>1. \A f \in G : f[2] = "hidden"
    OBVIOUS
  <2>2. /\ IF single THEN Emit(rows, rows) ELSE EmitQuery(rows, w, {})
        /\ fetched' = fetched \cup (rows \X (IF single THEN {"alone"} ELSE HowFetched(w))) \cup G
    BY <1>4 DEF SqlFetch
  <2> HIDE DEF G
  <2>3. CASE single
    <3> DEFINE F == (rows \X {"alone"}) \cup G
    <3>1. Emit(rows, rows) /\ fetched' = fetched \cup F
      BY <2>2, <2>3
    <3>2. \A f \in F : (f[1] \in rows /\ f[2] = "alone") \/ f \in G
      OBVIOUS
    <3>3. /\ \A row \in rows : row \in rows \/ \E h \in {"bulk", "joined", "paged"} : <<row, h>> \in F
          /\ \A row \in rows : <<row, "alone">> \in F \/ <<row, "paged">> \in F
          /\ \A f \in F : f[2] = "bulk" => f[1] \in rows \/ <<f[1], "paged">> \in F
          /\ \A f \in F : f[2] = "alone" => f[1] \in rows \/ <<f[1], "paged">> \in F
      BY <2>1, <3>2
    <3> HIDE DEF F
    <3> QED
      BY <3>1, <3>3, FetchKeys
  <2>4. CASE ~single
    <3> DEFINE also == {}
    <3>1. EmitQuery(rows, w, also) /\ fetched' = fetched \cup (rows \X HowFetched(w)) \cup G
      BY <2>2, <2>4
    <3>2. \A row \in also : <<row, "bulk">> \in G \/ <<row, "joined">> \in G
      OBVIOUS
    <3> HIDE DEF also
    <3> QED
      BY <3>1, <3>2, <2>1, QueryKeys
  <2> QED
    BY <2>3, <2>4
<1>5. ASSUME NEW i, NEW rel, SqlReadKept(i, rel) \/ SqlReadLazily(i, rel) PROVE KeysInv'
  <2>1. CASE SqlReadKept(i, rel)
    BY <1>1, <2>1 DEF SqlReadKept
  <2>2. CASE SqlReadLazily(i, rel)
    <3>1. PICK queried : UNCHANGED listening /\ fetched' = fetched \cup (queried \X {"hidden"})
      BY <2>2 DEF SqlReadLazily
    <3> DEFINE F == queried \X {"hidden"}
    <3>2. fetched' = fetched \cup F /\ \A f \in F : f[2] = "hidden"
      BY <3>1
    <3> HIDE DEF F
    <3> QED
      BY <3>1, <3>2, UnseenKeys
  <2> QED
    BY <1>5, <2>1, <2>2
<1>6. ASSUME NEW rows, NEW w \in Windows, PeeweeFetch(rows, w) PROVE KeysInv'
  BY <1>6, PlainQueryKeys DEF PeeweeFetch
<1>7. ASSUME NEW i, NEW rel, PeeweeAccess(i, rel) PROVE KeysInv'
  <2>1. CASE UNCHANGED <<listening, fetched>>
    BY <2>1, <1>1
  <2>2. CASE PeeweeReadOne(i, rel) /\ ~UNCHANGED <<listening, fetched>>
    BY <2>2, AloneKeys DEF PeeweeReadOne
  <2>3. ASSUME NEW w \in Windows, PeeweeReadMany(i, rel, w), ~UNCHANGED <<listening, fetched>>
        PROVE  KeysInv'
    BY <2>3, PlainQueryKeys DEF PeeweeReadMany
  <2> QED
    BY <1>7, <2>1, <2>2, <2>3 DEF PeeweeAccess, PeeweeIterateAgain, WindowsOver
<1> QED
  BY <1>2, <1>3, <1>4, <1>5, <1>6, <1>7, NextCases, DjangoFetchKeys

--------------------------------------------------------------------------------
\* What loaded and ignored say of a row, put for the row.
LEMMA KeysOfRow ==
    ASSUME KeysInv, NEW row
    PROVE  /\ KeyOf[row] \in loaded \ ignored =>
                  \/ Past(row) \cap {"bulk", "joined"} # {} /\ "alone" \notin Past(row)
                  \/ "paged" \in Past(row)
           /\ "bulk" \in Past(row) /\ Past(row) \cap {"alone", "paged"} = {} =>
                  KeyOf[row] \in loaded \ ignored
<1>1. \A how : how \in Past(row) <=> Had(KeyOf[row], how)
  BY DEF Past, Had
<1> QED
  BY <1>1 DEF KeysInv, Had

\* Which rules match depends on the ORM only.
LEMMA MatchedStep ==
    ASSUME orm' = orm, NEW m
    PROVE  Matched(m)' <=> Matched(m)
  BY DEF Matched, Compare, NameOf

\* Steps that look nothing up, or by a query that no signal tells of.
LEMMA NoLazyStep ==
    ASSUME LazyInv, UNCHANGED <<orm, raising>>, notified \subseteq notified',
           lazies \subseteq lazies', \A l \in lazies' \ lazies : l.query = "silent",
           \A m \in notified' \ notified : m.label # "n_plus_one"
    PROVE  LazyInv'
<1>1. LazyIsSound'
  BY DEF LazyInv, LazyIsSound, LazyFindings
<1>2. LazyIsComplete'
  BY MatchedStep DEF LazyInv, LazyIsComplete, Detectable
<1>3. RaisingStopsTheQuery'
  BY MatchedStep DEF LazyInv, RaisingStopsTheQuery, Detectable
<1> QED
  BY <1>1, <1>2, <1>3 DEF LazyInv

\* An access is judged by the keys: what they say of the row's past is what the
\* finding, or its absence, is about.
LEMMA LazyStep ==
    ASSUME KeysInv, LazyInv, UNCHANGED <<orm, raising>>,
           NEW row, NEW rel, NEW query, LazyLoad(row, rel, query),
           orm = "django" => query \in {"ran", "stopped"},
           orm = "django" \/ (orm = "peewee" /\ Kind[rel] \in {"forward", "nullable", "m2m"})
               => query # "ran" \/ ~Aborts(row, rel)
    PROVE  LazyInv'
<1> DEFINE l0 == [row |-> row, rel |-> rel, past |-> Past(row), query |-> query]
<1>1. lazies' = lazies \cup {l0}
  BY DEF LazyLoad, LookedUp
<1>2. l0.rel = rel /\ l0.past = Past(row) /\ l0.query = query
  OBVIOUS
<1>3. LazyMessage(rel).rel = rel /\ LazyMessage(rel).label = "n_plus_one"
  BY DEF LazyMessage
<1> HIDE DEF l0
<1>4. Detectable(l0) => Notifies(row, rel) \/ Matched(LazyMessage(rel))
  BY <1>2, KeysOfRow DEF Detectable, Notifies
<1>5. LazyIsSound'
  <2> SUFFICES ASSUME NEW m \in LazyFindings'
               PROVE  \E l \in lazies' : /\ l.rel = m.rel
                                         /\ orm = "django" => l.query \in {"ran", "stopped"}
                                         /\ \/ l.past \cap {"bulk", "joined"} # {} /\ "alone" \notin l.past
                                            \/ "paged" \in l.past
    BY DEF LazyIsSound
  <2>1. CASE m \in notified
    BY <2>1, <1>1 DEF LazyInv, LazyIsSound, LazyFindings
  <2>2. CASE m \notin notified
    <3>1. Notifies(row, rel) /\ m = LazyMessage(rel)
      BY <2>2 DEF LazyLoad, LazyFindings
    <3>2. \/ l0.past \cap {"bulk", "joined"} # {} /\ "alone" \notin l0.past
          \/ "paged" \in l0.past
      BY <3>1, <1>2, KeysOfRow DEF Notifies
    <3> QED
      BY <3>1, <3>2, <1>1, <1>2, <1>3
  <2> QED
    BY <2>1, <2>2
<1>6. LazyIsComplete'
  <2> SUFFICES ASSUME NEW l \in lazies', Detectable(l)
               PROVE  LazyMessage(l.rel) \in notified' \/ Matched(LazyMessage(l.rel))
    BY MatchedStep DEF LazyIsComplete, Detectable
  <2>1. CASE l \in lazies
    BY <2>1 DEF LazyInv, LazyIsComplete, LazyLoad
  <2>2. CASE l = l0
    BY <2>2, <1>2, <1>4 DEF LazyLoad
  <2> QED
    BY <2>1, <2>2, <1>1
<1>7. RaisingStopsTheQuery'
  <2> SUFFICES ASSUME raising, NEW l \in lazies', Detectable(l),
                      orm = "django" \/ (orm = "peewee" /\ Kind[l.rel] \in {"forward", "nullable", "m2m"})
               PROVE  l.query = "stopped" \/ Matched(LazyMessage(l.rel))
    BY MatchedStep DEF RaisingStopsTheQuery, Detectable
  <2>1. CASE l \in lazies
    BY <2>1 DEF LazyInv, RaisingStopsTheQuery
  <2>2. CASE l = l0
    BY <2>2, <1>2, <1>4 DEF Aborts, Detectable
  <2> QED
    BY <2>1, <2>2, <1>1
<1> QED
  BY <1>5, <1>6, <1>7 DEF LazyInv

\* Every step keeps what is said of lazy loads.
LEMMA NextLazy == TypeOK /\ KeysInv /\ LazyInv /\ [Next]_vars => LazyInv'
<1> SUFFICES ASSUME TypeOK, KeysInv, LazyInv, [Next]_vars PROVE LazyInv'
  OBVIOUS
<1>1. CASE UNCHANGED <<settings, notified, lazies>>
  BY <1>1, NoLazyStep DEF settings
<1>2. CASE UNCHANGED vars \/ \E row \in Rows : Create(row)
  BY <1>1, <1>2 DEF vars, Create, Step, settings
<1>3. CASE Report
  <2>1. \A rel : UnusedMessage(rel).label # "n_plus_one"
    BY DEF UnusedMessage
  <2>2. UNCHANGED <<orm, raising, lazies>> /\ notified \subseteq notified'
    BY <1>3 DEF Report, settings
  <2>3. \A m \in notified' \ notified : m.label # "n_plus_one"
    BY <1>3, <2>1 DEF Report
  <2> QED
    BY <2>2, <2>3, NoLazyStep
<1>4. ASSUME NEW i, NEW rel, orm = "django", DjangoAccess(i, rel) PROVE LazyInv'
  <2>1. orm' = orm /\ raising' = raising
    BY <1>4 DEF DjangoAccess, DjangoReadKept, DjangoReadOne, DjangoStopped, DjangoReadPrefetched,
       DjangoCount, DjangoQuerySilently, DjangoReadMany, Step, settings
  <2>2. CASE UNCHANGED <<notified, lazies>>
    BY <2>1, <2>2, <1>1 DEF settings
  <2>3. CASE DjangoStopped(i, rel)
    <3>1. LazyLoad(i.row, rel, "stopped")
      BY <2>3 DEF DjangoStopped
    <3> QED
      BY <2>1, <3>1, LazyStep
  <2>4. CASE DjangoReadOne(i, rel) \/ \E w : DjangoReadMany(i, rel, w)
    <3>1. LazyLoad(i.row, rel, "ran") /\ ~Aborts(i.row, rel)
      BY <2>4 DEF DjangoReadOne, DjangoReadMany
    <3> QED
      BY <2>1, <3>1, LazyStep
  <2>5. ASSUME NEW found, DjangoQuerySilently(i, rel, found) PROVE LazyInv'
    <3> DEFINE l0 == [row |-> i.row, rel |-> rel, past |-> Past(i.row), query |-> "silent"]
    <3>1. lazies' = lazies \cup {l0} /\ notified' = notified /\ l0.query = "silent"
      BY <2>5 DEF DjangoQuerySilently, LookedUp
    <3> HIDE DEF l0
    <3> QED
      BY <2>1, <3>1, NoLazyStep
  <2> QED
    BY <1>4, <2>2, <2>3, <2>4, <2>5 DEF DjangoAccess, DjangoReadKept, DjangoReadPrefetched, DjangoCount
<1>5. ASSUME NEW i, NEW rel, orm = "sqlalchemy", SqlReadKept(i, rel) \/ SqlReadLazily(i, rel)
      PROVE  LazyInv'
  <2>1. orm' = orm /\ raising' = raising
    BY <1>5 DEF SqlReadKept, SqlReadLazily, Step, settings
  <2>2. CASE SqlReadKept(i, rel)
    BY <2>1, <2>2, <1>1 DEF SqlReadKept, settings
  <2>3. CASE SqlReadLazily(i, rel)
    <3>1. PICK query : LazyLoad(i.row, rel, query)
      BY <2>3 DEF SqlReadLazily
    <3> QED
      BY <1>5, <2>1, <3>1, LazyStep
  <2> QED
    BY <1>5, <2>2, <2>3
<1>6. ASSUME NEW i, NEW rel, orm = "peewee", PeeweeAccess(i, rel) PROVE LazyInv'
  <2>1. orm' = orm /\ raising' = raising
    BY <1>6 DEF PeeweeAccess, PeeweeReadOne, PeeweeIterateAgain, PeeweeReadMany, Step, settings
  <2>2. PICK query : /\ LazyLoad(i.row, rel, query)
                     /\ Kind[rel] \in {"forward", "nullable", "m2m"} => query # "ran" \/ ~Aborts(i.row, rel)
    <3>1. CASE PeeweeReadOne(i, rel)
      BY <3>1 DEF PeeweeReadOne
    <3>2. CASE PeeweeIterateAgain(i, rel)
      BY <3>2 DEF PeeweeIterateAgain
    <3>3. ASSUME NEW w, PeeweeReadMany(i, rel, w)
          PROVE  \E query : /\ LazyLoad(i.row, rel, query)
                            /\ Kind[rel] \in {"forward", "nullable", "m2m"} => query # "ran" \/ ~Aborts(i.row, rel)
      BY <3>3 DEF PeeweeReadMany
    <3> QED
      BY <1>6, <3>1, <3>2, <3>3 DEF PeeweeAccess
  <2> QED
    BY <1>6, <2>1, <2>2, LazyStep
<1>7. ASSUME NEW rows, NEW w, NEW how, NEW sel, NEW pre, DjangoFetch(rows, w, how, sel, pre)
      PROVE  LazyInv'
  BY <1>1, <1>7 DEF DjangoFetch, Step, settings
<1>8. ASSUME NEW rows, NEW w, NEW single, NEW sel, SqlFetch(rows, w, single, sel)
      PROVE  LazyInv'
  BY <1>1, <1>8 DEF SqlFetch, Step, settings
<1>9. ASSUME NEW rows, NEW w, PeeweeFetch(rows, w) PROVE LazyInv'
  BY <1>1, <1>9 DEF PeeweeFetch, Step, settings
<1> QED
  BY <1>2, <1>3, <1>4, <1>5, <1>6, <1>7, <1>8, <1>9, NextCases

--------------------------------------------------------------------------------
\* A row has finitely many objects.
LEMMA CopiesFinite ==
    ASSUME NEW held \in SUBSET Instance, NEW row
    PROVE  IsFiniteSet({j \in held : j.row = row})
<1> DEFINE S == {j \in held : j.row = row}
           f == [j \in S |-> j.copy]
<1>1. \A j \in S : j = [row |-> row, copy |-> j.copy] /\ j.copy \in 1..MaxCopies
  BY DEF Instance
<1>2. \A a, b \in S : f[a] = f[b] => a = b
  BY <1>1
<1>3. f \in [S -> 1..MaxCopies]
  BY <1>1
<1>4. f \in Injection(S, 1..MaxCopies)
  BY <1>2, <1>3 DEF Injection, IsInjective
<1>5. IsFiniteSet(1..MaxCopies)
  BY FS_Interval, LoadBoundsAssumption
<1> HIDE DEF S, f
<1>6. IsFiniteSet(S)
  BY <1>4, <1>5, FS_Injection
<1> QED
  BY <1>6 DEF S

\* Fresh objects are new, and numbered on.
LEMMA FreshIsNew ==
    ASSUME NEW held \in SUBSET Instance, Numbered(held), NEW rows, Fresh(rows, held) \subseteq Instance
    PROVE  /\ Fresh(rows, held) \cap held = {}
           /\ Numbered(held \cup Fresh(rows, held))
<1> DEFINE Of(set, row) == {j \in set : j.row = row}
           all == held \cup Fresh(rows, held)
<1>1. \A row : IsFiniteSet(Of(held, row)) /\ IsFiniteSet(Of(all, row))
  BY CopiesFinite
<1>2. \A row : Cardinality(Of(held, row)) \in Nat
  BY <1>1, FS_CardinalityType
<1>3. \A i \in Fresh(rows, held) : i.copy = 1 + Cardinality(Of(held, i.row))
  <2> TAKE i \in Fresh(rows, held)
  <2>1. PICK row \in rows : i = [row |-> row, copy |-> 1 + Cardinality(Of(held, row))]
    BY DEF Fresh
  <2> HIDE DEF Of
  <2> QED
    BY <2>1
<1>4. \A i \in held : i.copy <= Cardinality(Of(held, i.row))
  BY DEF Numbered
<1>5. \A i \in held : i.copy \in Nat
  BY DEF Instance
<1>6. Fresh(rows, held) \cap held = {}
  <2> SUFFICES ASSUME NEW i \in Fresh(rows, held), i \in held PROVE FALSE
    OBVIOUS
  <2>1. Cardinality(Of(held, i.row)) \in Nat
    BY <1>2
  <2> HIDE DEF Of
  <2> QED
    BY <2>1, <1>3, <1>4, <1>5
<1>7. ASSUME NEW i \in all PROVE i.copy <= Cardinality(Of(all, i.row))
  <2>1. Cardinality(Of(held, i.row)) \in Nat /\ Cardinality(Of(all, i.row)) \in Nat
    BY <1>1, FS_CardinalityType
  <2>2. CASE i \in held
    <3>1. Of(held, i.row) \in SUBSET Of(all, i.row)
      OBVIOUS
    <3> HIDE DEF Of, all
    <3>2. Cardinality(Of(held, i.row)) <= Cardinality(Of(all, i.row))
      BY <3>1, <1>1, FS_Subset
    <3>3. i.copy <= Cardinality(Of(held, i.row)) /\ i.copy \in Nat
      BY <2>2, <1>4, <1>5
    <3> QED
      BY <3>2, <3>3, <2>1
  <2>3. CASE i \in Fresh(rows, held)
    <3>1. i \notin Of(held, i.row)
      BY <2>3, <1>6
    <3>2. Of(held, i.row) \cup {i} \in SUBSET Of(all, i.row)
      OBVIOUS
    <3>3. i.copy = 1 + Cardinality(Of(held, i.row))
      BY <2>3, <1>3
    <3> HIDE DEF Of, all
    <3>4. Cardinality(Of(held, i.row) \cup {i}) = Cardinality(Of(held, i.row)) + 1
      BY <3>1, <1>1, FS_AddElement
    <3>5. Cardinality(Of(held, i.row) \cup {i}) <= Cardinality(Of(all, i.row))
      BY <3>2, <1>1, FS_Subset
    <3> QED
      BY <3>3, <3>4, <3>5, <2>1
  <2> QED
    BY <2>2, <2>3
<1> QED
  BY <1>6, <1>7 DEF Numbered

\* Accesses to a relation: whatever is touched was read or counted, and whatever
\* is read is touched once there is a group, but for what has no row.
LEMMA EagerAccess ==
    ASSUME TypeOK, EagerInv, ~done, Step, groups' = groups,
           orm = "django" => Numbered(live'),
           NEW i, NEW rel,
           used \subseteq used', used' \subseteq used \cup {<<i, rel>>}, counted \subseteq counted',
           touched \subseteq touched', touched' \subseteq touched \cup {<<rel, KeyOf[i.row]>>},
           used' # used => groups = {} \/ <<rel, KeyOf[i.row]>> \in touched' \/ Missing(i, rel),
           touched' # touched => <<i, rel>> \in used' \cup counted',
           \A m \in notified' : m \in notified \/ m.label = "n_plus_one"
    PROVE  EagerInv'
<1>1. orm' = orm /\ done' = done
  BY DEF Step, settings
<1>2. ReadsTouch'
  <2> SUFFICES ASSUME NEW h \in groups, NEW j \in h.insts, <<j, h.rel>> \in used'
               PROVE  <<h.rel, KeyOf[j.row]>> \in touched' \/ Missing(j, h.rel)
    BY DEF ReadsTouch, Missing
  <2>1. CASE <<j, h.rel>> \in used
    BY <2>1 DEF EagerInv, ReadsTouch
  <2>2. CASE <<j, h.rel>> \notin used
    <3>1. j = i /\ h.rel = rel
      BY <2>2
    <3> QED
      BY <2>2, <3>1
  <2> QED
    BY <2>1, <2>2
<1>3. TouchesAreReads'
  <2> SUFFICES ASSUME NEW t \in touched'
               PROVE  \E u \in used' \cup counted' : u[2] = t[1] /\ KeyOf[u[1].row] = t[2]
    BY DEF TouchesAreReads
  <2>1. CASE t \in touched
    BY <2>1 DEF EagerInv, TouchesAreReads
  <2>2. CASE t \notin touched
    <3>1. t = <<rel, KeyOf[i.row]>> /\ <<i, rel>> \in used' \cup counted'
      BY <2>2
    <3> QED
      BY <3>1
  <2> QED
    BY <2>1, <2>2
<1>4. \A m \in notified' : m.label = "n_plus_one"
  BY DEF EagerInv
<1> QED
  BY <1>1, <1>2, <1>3, <1>4 DEF EagerInv, UnusedIsSound, UnusedIsComplete, LazyFindings

\* Queries, and objects that the program makes: the objects of new groups are new.
LEMMA EagerFetch ==
    ASSUME TypeOK, EagerInv, ~done, Step, UNCHANGED <<touched, notified, used, counted>>,
           orm = "django" => Numbered(live'),
           NEW N, groups' = groups \cup N, \A g \in N : g.insts \cap live = {}
    PROVE  EagerInv'
<1>1. orm' = orm /\ done' = done
  BY DEF Step, settings
<1>2. \A g \in N : \A i \in g.insts : <<i, g.rel>> \notin used
  BY DEF TypeOK
<1>3. ReadsTouch'
  BY <1>2 DEF EagerInv, ReadsTouch
<1>4. TouchesAreReads'
  BY DEF EagerInv, TouchesAreReads
<1>5. \A m \in notified' : m.label = "n_plus_one"
  BY DEF EagerInv
<1> QED
  BY <1>1, <1>3, <1>4, <1>5 DEF EagerInv, UnusedIsSound, UnusedIsComplete, LazyFindings

\* The report, which looks at the touches only.
LEMMA EagerReport ==
    ASSUME TypeOK, EagerInv, Report
    PROVE  EagerInv'
<1>1. /\ ~done /\ done' = TRUE /\ orm' = orm
      /\ notified' = notified \cup {m \in {UnusedMessage(rel) : rel \in Unused} : ~Matched(m)}
      /\ UNCHANGED <<live, groups, touched, used, counted>>
  BY DEF Report, settings, tracking, reading
<1>2. ReadsTouch' /\ TouchesAreReads' /\ (orm' = "django" => Numbered(live'))
  BY <1>1 DEF EagerInv, ReadsTouch, TouchesAreReads
<1>3. UnusedIsSound'
  <2> SUFFICES ASSUME NEW m \in notified', m.label # "n_plus_one"
               PROVE  \E g \in groups : g.rel = m.rel /\ \A i \in g.insts : <<i, g.rel>> \in used => Missing(i, g.rel)
    BY <1>1 DEF UnusedIsSound, LazyFindings, Missing
  <2>1. PICK rel \in Unused : m = UnusedMessage(rel)
    BY <1>1 DEF EagerInv
  <2>2. PICK g \in groups : g.rel = rel /\ \A row \in RowsOf(g.insts) : <<g.rel, KeyOf[row]>> \notin touched
    BY DEF Unused
  <2>3. \A i \in g.insts : <<i, g.rel>> \in used => Missing(i, g.rel)
    BY <2>2 DEF EagerInv, ReadsTouch, RowsOf
  <2> QED
    BY <2>1, <2>2, <2>3, <1>1 DEF UnusedMessage
<1>4. UnusedIsComplete'
  <2> SUFFICES ASSUME NEW g \in groups,
                      \A u \in used \cup counted : u[2] = g.rel => KeyOf[u[1].row] \notin Keys(RowsOf(g.insts))
               PROVE  UnusedMessage(g.rel) \in notified' \/ Matched(UnusedMessage(g.rel))
    BY <1>1, MatchedStep DEF UnusedIsComplete
  <2>1. \A row \in RowsOf(g.insts) : <<g.rel, KeyOf[row]>> \notin touched
    <3> SUFFICES ASSUME NEW row \in RowsOf(g.insts), <<g.rel, KeyOf[row]>> \in touched PROVE FALSE
      OBVIOUS
    <3>1. PICK u \in used \cup counted : u[2] = g.rel /\ KeyOf[u[1].row] = KeyOf[row]
      BY DEF EagerInv, TouchesAreReads
    <3> QED
      BY <3>1 DEF Keys
  <2>2. g.rel \in Unused
    BY <2>1 DEF Unused
  <2> QED
    BY <2>2, <1>1
<1> QED
  BY <1>1, <1>2, <1>3, <1>4 DEF EagerInv

\* A query of Django makes an object of every row, and more of what it joins and
\* prefetches.
LEMMA DjangoFetchEager ==
    ASSUME TypeOK, EagerInv, ~done, orm = "django", NEW rows, NEW w, NEW how, NEW sel, NEW pre,
           DjangoFetch(rows, w, how, sel, pre)
    PROVE  EagerInv'
<1> DEFINE top == Fresh(rows, live)
           kids == Fresh(Related(rows, Seen(sel)) \cup Related(rows, sel \ Seen(sel)), live \cup top)
           more == Fresh(Related(rows, pre), live \cup top \cup kids)
<1>1. top \subseteq Instance /\ kids \subseteq Instance /\ more \subseteq Instance /\ live \subseteq Instance
  BY DEF DjangoFetch, TypeOK
<1>2. live' = live \cup top \cup kids \cup more
  BY DEF DjangoFetch
<1>3. Numbered(live)
  BY DEF EagerInv
<1>4. top \cap live = {} /\ Numbered(live \cup top)
  BY <1>1, <1>3, FreshIsNew
<1>5. Numbered(live \cup top \cup kids)
  <2>1. live \cup top \in SUBSET Instance
    BY <1>1
  <2> HIDE DEF top
  <2> QED
    BY <2>1, <1>1, <1>4, FreshIsNew
<1>6. Numbered(live \cup top \cup kids \cup more)
  <2>1. live \cup top \cup kids \in SUBSET Instance
    BY <1>1
  <2> HIDE DEF top, kids
  <2> QED
    BY <2>1, <1>1, <1>5, FreshIsNew
<1>7. groups' = groups \cup EagerGroups(top, sel, pre) /\ \A g \in EagerGroups(top, sel, pre) : g.insts = top
  BY DEF DjangoFetch, EagerGroups
<1>8. Step /\ UNCHANGED <<touched, notified, used, counted>>
  BY DEF DjangoFetch, reading
<1> HIDE DEF top, kids, more
<1> QED
  BY <1>2, <1>4, <1>6, <1>7, <1>8, EagerFetch

\* The accesses of Django.
LEMMA DjangoAccessEager ==
    ASSUME TypeOK, EagerInv, ~done, orm = "django", NEW i \in live, NEW rel \in Relations,
           Owner[rel] = ModelOf[i.row], DjangoAccess(i, rel)
    PROVE  EagerInv'
<1>1. live \subseteq Instance /\ Numbered(live) /\ i.row \in Rows
  BY DEF TypeOK, EagerInv, Instance
<1>2. Numbered(live')
  <2>1. CASE live' = live
    BY <2>1, <1>1
  <2>2. CASE live' # live
    <3>1. PICK rows : live' = live \cup Fresh(rows, live) /\ Fresh(rows, live) \subseteq Instance
      BY <2>2 DEF DjangoAccess, DjangoReadKept, DjangoReadOne, DjangoStopped, DjangoReadPrefetched,
         DjangoCount, DjangoQuerySilently, DjangoReadMany
    <3> QED
      BY <3>1, <1>1, FreshIsNew
  <2> QED
    BY <2>1, <2>2
<1>3. Step /\ groups' = groups
  BY DEF DjangoAccess, DjangoReadKept, DjangoReadOne, DjangoStopped, DjangoReadPrefetched,
     DjangoCount, DjangoQuerySilently, DjangoReadMany
<1>4. \A m \in notified' : m \in notified \/ m.label = "n_plus_one"
  BY DEF DjangoAccess, DjangoReadKept, DjangoReadOne, DjangoStopped, DjangoReadPrefetched,
     DjangoCount, DjangoQuerySilently, DjangoReadMany, LazyLoad, LazyMessage
<1>5. /\ used \subseteq used' /\ used' \subseteq used \cup {<<i, rel>>} /\ counted \subseteq counted'
      /\ touched \subseteq touched' /\ touched' \subseteq touched \cup {<<rel, KeyOf[i.row]>>}
      /\ used' # used => groups = {} \/ <<rel, KeyOf[i.row]>> \in touched' \/ Missing(i, rel)
      /\ touched' # touched => <<i, rel>> \in used' \cup counted'
  <2>1. CASE DjangoReadKept(i, rel)
    <3>1. CASE Target[rel][i.row] # {} \/ Kind[rel] = "nullable"
      BY <2>1, <3>1 DEF DjangoReadKept, Touch
    <3>2. CASE ~(Target[rel][i.row] # {} \/ Kind[rel] = "nullable")
      <4>1. Missing(i, rel)
        BY <2>1, <3>2, <1>1, RelationsAssumption DEF DjangoReadKept, One, Missing
      <4> QED
        BY <2>1, <3>2, <4>1 DEF DjangoReadKept
    <3> QED
      BY <3>1, <3>2
  <2>2. CASE DjangoReadOne(i, rel)
    <3>1. CASE Target[rel][i.row] # {}
      BY <2>2, <3>1 DEF DjangoReadOne, Touch
    <3>2. CASE Target[rel][i.row] = {}
      BY <2>2, <3>2 DEF DjangoReadOne, Missing
    <3> QED
      BY <3>1, <3>2
  <2>3. CASE DjangoStopped(i, rel)
    BY <2>3 DEF DjangoStopped, Touch
  <2>4. CASE DjangoReadPrefetched(i, rel) \/ DjangoCount(i, rel)
    BY <2>4 DEF DjangoReadPrefetched, DjangoCount, Touch
  <2>5. ASSUME NEW w, DjangoReadMany(i, rel, w)
        PROVE  /\ used' = used /\ counted \subseteq counted'
               /\ touched \subseteq touched' /\ touched' \subseteq touched \cup {<<rel, KeyOf[i.row]>>}
               /\ touched' # touched => <<i, rel>> \in counted'
    BY <2>5 DEF DjangoReadMany, Touch
  <2>6. ASSUME NEW found, DjangoQuerySilently(i, rel, found)
        PROVE  /\ used' = used /\ counted \subseteq counted'
               /\ touched \subseteq touched' /\ touched' \subseteq touched \cup {<<rel, KeyOf[i.row]>>}
               /\ touched' # touched => <<i, rel>> \in counted'
    BY <2>6 DEF DjangoQuerySilently, Touch
  <2> QED
    BY <2>1, <2>2, <2>3, <2>4, <2>5, <2>6 DEF DjangoAccess
<1> QED
  BY <1>2, <1>3, <1>4, <1>5, EagerAccess

\* The accesses of SQLAlchemy.
LEMMA SqlAccessEager ==
    ASSUME TypeOK, EagerInv, ~done, orm = "sqlalchemy", NEW i \in live, NEW rel,
           SqlReadKept(i, rel) \/ SqlReadLazily(i, rel)
    PROVE  EagerInv'
<1>1. Step /\ groups' = groups /\ counted' = counted
  BY DEF SqlReadKept, SqlReadLazily
<1>2. \A m \in notified' : m \in notified \/ m.label = "n_plus_one"
  BY DEF SqlReadKept, SqlReadLazily, LazyLoad, LazyMessage
<1>3. /\ used \subseteq used' /\ used' \subseteq used \cup {<<i, rel>>}
      /\ touched \subseteq touched' /\ touched' \subseteq touched \cup {<<rel, KeyOf[i.row]>>}
      /\ used' # used => groups = {} \/ <<rel, KeyOf[i.row]>> \in touched'
      /\ touched' # touched => <<i, rel>> \in used'
  BY DEF SqlReadKept, SqlReadLazily, Touch
<1> QED
  BY <1>1, <1>2, <1>3, EagerAccess

\* Every step keeps what is said of eager loads.
LEMMA NextEager == TypeOK /\ EagerInv /\ [Next]_vars => EagerInv'
<1> SUFFICES ASSUME TypeOK, EagerInv, [Next]_vars PROVE EagerInv'
  OBVIOUS
<1>1. CASE UNCHANGED vars
  <2>1. UnusedIsSound'
    BY <1>1 DEF vars, settings, tracking, reading, EagerInv, UnusedIsSound, LazyFindings, Missing
  <2>2. UnusedIsComplete'
    BY <1>1, MatchedStep DEF vars, settings, tracking, reading, EagerInv, UnusedIsComplete
  <2>3. ReadsTouch' /\ TouchesAreReads'
    BY <1>1 DEF vars, settings, tracking, reading, EagerInv, ReadsTouch, TouchesAreReads
  <2> QED
    BY <1>1, <2>1, <2>2, <2>3 DEF vars, settings, EagerInv
<1>2. CASE Report
  BY <1>2, EagerReport
<1>3. ASSUME Next, ~Report PROVE ~done
  BY <1>3, NextCases DEF Running
<1>4. ASSUME NEW row \in Rows, Create(row), ~done PROVE EagerInv'
  <2>1. live' = live \cup Fresh({row}, live) /\ Fresh({row}, live) \subseteq Instance
    BY <1>4, CreateType DEF Create
  <2>2. orm = "django" => Numbered(live')
    BY <2>1, FreshIsNew DEF EagerInv, TypeOK
  <2>3. Step /\ UNCHANGED <<touched, notified, used, counted, groups>>
    BY <1>4 DEF Create, tracking, reading
  <2> DEFINE N == {}
  <2>4. groups' = groups \cup N /\ \A g \in N : g.insts \cap live = {}
    BY <2>3
  <2> HIDE DEF N
  <2> QED
    BY <1>4, <2>2, <2>3, <2>4, EagerFetch
<1>5. ASSUME NEW rows, NEW w, NEW single, NEW sel, orm = "sqlalchemy", SqlFetch(rows, w, single, sel), ~done
      PROVE  EagerInv'
  <2> DEFINE new == Mapped(rows) \ live
             With(rel) == {i \in new : Target[rel][i.row] # {}}
             N == {[rel |-> rel, insts |-> With(rel), query |-> steps] : rel \in {s \in sel : With(s) # {}}}
  <2>1. groups' = groups \cup N /\ Step /\ UNCHANGED <<touched, notified, used, counted>>
    BY <1>5 DEF SqlFetch, reading
  <2>2. \A g \in N : g.insts \cap live = {}
    OBVIOUS
  <2> HIDE DEF N
  <2> QED
    BY <1>5, <2>1, <2>2, EagerFetch
<1>6. ASSUME orm = "peewee", ~done, Step, UNCHANGED <<tracking, reading>>,
             \A m \in notified' : m \in notified \/ m.label = "n_plus_one"
      PROVE  EagerInv'
  <2>1. UNCHANGED <<groups, touched, used, counted>>
    BY <1>6 DEF tracking, reading
  <2> QED
    BY <1>6, <2>1, EagerAccess
<1>7. ASSUME NEW rows, NEW w, orm = "peewee", PeeweeFetch(rows, w), ~done PROVE EagerInv'
  BY <1>6, <1>7 DEF PeeweeFetch
<1>8. ASSUME NEW i, NEW rel, orm = "peewee", PeeweeAccess(i, rel), ~done PROVE EagerInv'
  BY <1>6, <1>8 DEF PeeweeAccess, PeeweeReadOne, PeeweeIterateAgain, PeeweeReadMany, LazyLoad, LazyMessage
<1> QED
  BY <1>1, <1>2, <1>3, <1>4, <1>5, <1>7, <1>8, NextCases, DjangoFetchEager, DjangoAccessEager, SqlAccessEager

--------------------------------------------------------------------------------
\* It holds initially.
LEMMA InitInv == Init => Inv
<1> SUFFICES ASSUME Init PROVE Inv
  OBVIOUS
<1>1. TypeOK
  <2>1. steps \in 0..MaxSteps
    BY LoadBoundsAssumption DEF Init
  <2>2. loaded \cup ignored = {} /\ used \cup counted = {}
    BY DEF Init
  <2> QED
    BY <2>1, <2>2 DEF Init, TypeOK
<1>2. KeysInv
  BY DEF Init, KeysInv
<1>3. LazyInv
  BY DEF Init, LazyInv, LazyIsSound, LazyIsComplete, RaisingStopsTheQuery, LazyFindings
<1>4. EagerInv
  BY DEF Init, EagerInv, Numbered, ReadsTouch, TouchesAreReads, UnusedIsSound, UnusedIsComplete
<1> QED
  BY <1>1, <1>2, <1>3, <1>4 DEF Inv

\* So it is an invariant.
LEMMA OrmLoadsInv == Spec => []Inv
<1>1. Inv /\ [Next]_vars => Inv'
  BY NextType, NextKeys, NextLazy, NextEager DEF Inv
<1> QED
  BY <1>1, InitInv, PTL DEF Spec

\* With any ORM and any models: keys are recorded only of rows that a query returned,
\* values kept only on objects of the program, and touches counted only after an eager
\* load.
THEOREM OrmLoadsTypes == Spec => []TypeOK
<1>1. Inv => TypeOK
  BY DEF Inv
<1> QED
  BY <1>1, OrmLoadsInv, PTL

\* An n+1 finding comes from an access to that relation - in Django one that runs a
\* query - for a row that was fetched with others or joined, and never alone, unless
\* some query with an offset was taken for another, whatever the models, their names,
\* the relations and the windows.
THEOREM FindingsAreSound == Spec => []LazyIsSound
<1>1. Inv => LazyIsSound
  BY DEF Inv, LazyInv
<1> QED
  BY <1>1, OrmLoadsInv, PTL

\* And there is one for every query for a relation of a row that a signal announced,
\* as of a query not limited to one row, and never alone, unless a rule of the
\* whitelist suppresses it.  A count, a test or an iterator() on a manager of Django
\* is a query without a finding; so is any for rows that were not announced: those
\* of iterator(), those of a reverse one to one joined by select_related, and those
\* that SQLAlchemy joins or loads lazily.
THEOREM FindingsAreComplete == Spec => []LazyIsComplete
<1>1. Inv => LazyIsComplete
  BY DEF Inv, LazyInv
<1> QED
  BY <1>1, OrmLoadsInv, PTL

\* A notifier that raises keeps such a query of Django (one that is announced, for a
\* row that was), or of a relation of Peewee other than a backref, from the database.
THEOREM RaisingIsInTime == Spec => []RaisingStopsTheQuery
<1>1. Inv => RaisingStopsTheQuery
  BY DEF Inv, LazyInv
<1> QED
  BY <1>1, OrmLoadsInv, PTL

\* A relation reported as unused was loaded by a query of whose objects the program
\* read none through it, although touches are ignored until something is loaded
\* eagerly; reading a reverse one to one that has no row raises, and is not seen.
THEOREM UnusedReportsAreSound == Spec => []UnusedIsSound
<1>1. Inv => UnusedIsSound
  BY DEF Inv, EagerInv
<1> QED
  BY <1>1, OrmLoadsInv, PTL

\* And every relation is reported of whose query no row was read or counted, through
\* whatever object, unless a rule suppresses it.
THEOREM UnusedReportsAreComplete == Spec => []UnusedIsComplete
<1>1. Inv => UnusedIsComplete
  BY DEF Inv, EagerInv
<1> QED
  BY <1>1, OrmLoadsInv, PTL

================================================================================
