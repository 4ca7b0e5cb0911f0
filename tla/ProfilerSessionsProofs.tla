------------------------- MODULE ProfilerSessionsProofs -------------------------
(***************************************************************************)
(* What ProfilerSessions guarantees for every number of threads, requests, *)
(* sessions and blocks.  The argument: a unit stays connected to the       *)
(* worker it started with (Connected), which is the worker of its thread   *)
(* until a request begins or ends there (Started); a request id that was   *)
(* given once is in the context of one thread (Named); and an active unit  *)
(* is in the slot or among the blocks of its thread, or its slot was taken *)
(* (Held).                                                                 *)
(***************************************************************************)
EXTENDS ProfilerSessions, TLAPS

Flask == config.integration = "flask"
Django == config.integration = "django"

\* A unit has a thread and a worker once it started; an active one has both its
\* listeners, connected, unless blinker dropped them with their Flask request; and
\* without a request in between it is still the worker of the thread.
Started ==
    /\ \A u \in Units : stage[u] # "new" => owner[u] \in Threads
    /\ \A u \in Units : stage[u] = "new" => owner[u] = None /\ u \notin former
    /\ \A u \in Units : stage[u] = "active" =>
          /\ listeners[u] = Kinds
          /\ \/ \A k \in Kinds : <<u, k, worker[u]>> \in conn
             \/ Flask /\ worker[u] \in Requests /\ u \in visited \cup former
          /\ u \notin visited \cup former => worker[u] = Worker(owner[u])

\* What is connected belongs to an active unit or was left by a report that raised,
\* and with Flask its request, if it has one, is being served.
Connected ==
    \A c \in conn :
        /\ c[3] = worker[c[1]]
        /\ stage[c[1]] = "active" \/ (stage[c[1]] = "raised" /\ c[2] = "eager")
        /\ Flask /\ c[3] \in Requests => serving[owner[c[1]]] = c[3] /\ c[1] \notin former

\* What the workers of a thread and of its units can be, and what a request id that
\* was given once can name.
Named ==
    /\ \A t \in Threads : serving[t] # None => serving[t] \in given
    /\ \A t \in Threads : context[t] # None => context[t] \in given
    /\ \A s, t \in Threads : serving[s] # None /\ serving[s] = serving[t] => s = t
    /\ Django => \A s, t \in Threads :
          context[s] # None /\ context[s] = context[t] => s = t \/ context[s] \in reused
    /\ Django => \A u \in Units : stage[u] # "new" =>
          \/ worker[u] = owner[u]
          \/ /\ worker[u] \in given
             /\ \A t \in Threads : context[t] = worker[u] =>
                   worker[u] \in reused \/ (owner[u] = t /\ u \notin former)
    /\ Flask => \A u \in Units : stage[u] # "new" => worker[u] \in Requests \cup {None}

\* Where a thread finds its active units.
Held ==
    /\ \A u \in Sessions : stage[u] = "active" => session[owner[u]] = u \/ u \in replaced
    /\ \A u \in Profilers : stage[u] = "active" => u \in blocks[owner[u]]

\* A unit heard no event before it started; and what an overheard event tells.
Isolated ==
    /\ \A e \in overheard : stage[e[1]] # "new"
    /\ \A u \in Units : \A how \in {"active", "left"} : <<u, how>> \in overheard =>
          /\ Django => worker[u] \in reused \/ (how = "left" /\ worker[u] = owner[u] /\ u \in former)
          /\ Flask => worker[u] = None

\* The inductive invariant.
Inv == TypeOK /\ Started /\ Connected /\ Named /\ Held /\ Isolated

--------------------------------------------------------------------------------
\* Inv holds initially.
LEMMA InitInv == Init => Inv
<1> SUFFICES ASSUME Init PROVE Inv
  OBVIOUS
<1>1. TypeOK
  BY DEF Init, TypeOK, Workers
<1>2. Started /\ Connected /\ Named /\ Isolated
  BY DEF Init, Started, Connected, Named, Isolated
<1>3. Held
  BY DEF Init, Held, Units
<1> QED
  BY <1>1, <1>2, <1>3 DEF Inv

\* The worker of a thread under each integration.
LEMMA WorkerIs ==
    ASSUME TypeOK, NEW t \in Threads
    PROVE  /\ Worker(t) \in Workers
           /\ config.integration \in {"none", "django", "flask"}
           /\ config.integration = "none" => Worker(t) = ANY
           /\ Django => Worker(t) = IF context[t] # None THEN context[t] ELSE t
           /\ Flask => Worker(t) = serving[t]
<1>1. config.integration \in {"none", "django", "flask"}
  BY ConfigAssumption DEF TypeOK
<1>2. /\ config.integration = "none" => Worker(t) = ANY
      /\ Django => Worker(t) = IF context[t] # None THEN context[t] ELSE t
      /\ Flask => Worker(t) = serving[t]
  BY DEF Worker, Django, Flask
<1>3. context[t] \in Requests \cup {None} /\ serving[t] \in Requests \cup {None}
  BY DEF TypeOK
<1>4. Worker(t) \in Workers
  BY <1>1, <1>2, <1>3 DEF Workers, Django, Flask
<1> QED
  BY <1>1, <1>2, <1>4

--------------------------------------------------------------------------------
\* A unit that starts keeps what Inv says of the others.
LEMMA StartsInv ==
    ASSUME Inv, NEW t \in Threads, NEW u \in Units, Starts(t, u, Worker(t))
    PROVE  /\ UNCHANGED <<config, overheard, unused, former, serving, context, visited, given, reused>>
           /\ stage' \in [Units -> {"new", "active", "ended", "raised"}]
           /\ owner' \in [Units -> Threads \cup {None}]
           /\ worker' \in [Units -> Workers]
           /\ listeners' \in [Units -> SUBSET Kinds]
           /\ conn' \subseteq Units \X Kinds \X Workers
           /\ stage[u] = "new" /\ u \notin former /\ stage'[u] = "active" /\ owner'[u] = t
           /\ \A v \in Units \ {u} : stage'[v] = stage[v] /\ owner'[v] = owner[v]
           /\ Started' /\ Connected' /\ Named' /\ Isolated'
<1>1. /\ stage[u] = "new"
      /\ stage' = [stage EXCEPT ![u] = "active"]
      /\ owner' = [owner EXCEPT ![u] = t]
      /\ worker' = [worker EXCEPT ![u] = Worker(t)]
      /\ listeners' = [listeners EXCEPT ![u] = Kinds]
      /\ conn' = conn \cup ({u} \X Kinds \X {Worker(t)})
      /\ UNCHANGED <<config, overheard, unused, former, serving, context, visited, given, reused>>
  BY DEF Starts, threads
<1>2. /\ Worker(t) \in Workers
      /\ Django => Worker(t) = IF context[t] # None THEN context[t] ELSE t
      /\ Flask => Worker(t) = serving[t]
  BY WorkerIs DEF Inv
<1>3. /\ stage' \in [Units -> {"new", "active", "ended", "raised"}]
      /\ owner' \in [Units -> Threads \cup {None}]
      /\ worker' \in [Units -> Workers]
      /\ listeners' \in [Units -> SUBSET Kinds]
      /\ conn' \subseteq Units \X Kinds \X Workers
  BY <1>1, <1>2 DEF Inv, TypeOK
<1>4. /\ stage'[u] = "active" /\ owner'[u] = t /\ worker'[u] = Worker(t) /\ listeners'[u] = Kinds
      /\ \A v \in Units \ {u} : /\ stage'[v] = stage[v] /\ owner'[v] = owner[v]
                               /\ worker'[v] = worker[v] /\ listeners'[v] = listeners[v]
  BY <1>1 DEF Inv, TypeOK
<1>5. u \notin former
  BY <1>1 DEF Inv, Started
<1>6. (\A v : Worker(v)' = Worker(v)) /\ Django' = Django /\ Flask' = Flask
  BY <1>1 DEF Worker, Django, Flask
<1>7. Started'
  BY <1>1, <1>4, <1>5, <1>6 DEF Inv, Started
<1>8. Connected'
  <2> SUFFICES ASSUME NEW c \in conn'
               PROVE  /\ c[3] = worker'[c[1]]
                      /\ stage'[c[1]] = "active" \/ (stage'[c[1]] = "raised" /\ c[2] = "eager")
                      /\ Flask /\ c[3] \in Requests => serving[owner'[c[1]]] = c[3] /\ c[1] \notin former
    BY <1>1, <1>6 DEF Connected
  <2>1. CASE c \in conn
    <3>1. c[1] \in Units \ {u}
      BY <1>1, <2>1 DEF Inv, TypeOK, Connected
    <3> QED
      BY <2>1, <3>1, <1>4 DEF Inv, Connected
  <2>2. CASE c \in {u} \X Kinds \X {Worker(t)}
    BY <2>2, <1>2, <1>4, <1>5
  <2> QED
    BY <2>1, <2>2, <1>1
<1>9. Named'
  <2>1. ASSUME Django
        PROVE  \/ Worker(t) = t
               \/ /\ Worker(t) \in given
                  /\ \A s \in Threads : context[s] = Worker(t) => Worker(t) \in reused \/ t = s
    BY <2>1, <1>2 DEF Inv, Named
  <2>2. ASSUME Flask PROVE Worker(t) \in Requests \cup {None}
    BY <2>2, <1>2 DEF Inv, TypeOK
  <2>3. ASSUME Django, NEW v \in Units, stage'[v] # "new"
        PROVE  \/ worker'[v] = owner'[v]
               \/ /\ worker'[v] \in given
                  /\ \A s \in Threads : context[s] = worker'[v] =>
                        worker'[v] \in reused \/ (owner'[v] = s /\ v \notin former)
    <3>1. CASE v = u
      BY <3>1, <2>1, <2>3, <1>4, <1>5
    <3>2. CASE v # u
      BY <3>2, <2>3, <1>4 DEF Inv, Named
    <3> QED
      BY <3>1, <3>2
  <2>4. ASSUME Flask, NEW v \in Units, stage'[v] # "new" PROVE worker'[v] \in Requests \cup {None}
    BY <2>2, <2>4, <1>4 DEF Inv, Named
  <2>5. /\ \A s \in Threads : serving[s] # None => serving[s] \in given
        /\ \A s \in Threads : context[s] # None => context[s] \in given
        /\ \A r, s \in Threads : serving[r] # None /\ serving[r] = serving[s] => r = s
        /\ Django => \A r, s \in Threads :
              context[r] # None /\ context[r] = context[s] => r = s \/ context[r] \in reused
    BY DEF Inv, Named
  <2> QED
    BY <2>3, <2>4, <2>5, <1>1, <1>6 DEF Named
<1>10. Isolated'
  <2>1. \A e \in overheard : e[1] \in Units \ {u}
    BY <1>1 DEF Inv, TypeOK, Isolated
  <2>2. \A v \in Units : \A how : <<v, how>> \in overheard => v # u
    BY <2>1
  <2> QED
    BY <2>1, <2>2, <1>1, <1>4, <1>6 DEF Inv, Isolated
<1> QED
  BY <1>1, <1>3, <1>4, <1>5, <1>7, <1>8, <1>9, <1>10

\* setup() keeps Inv.
LEMMA SetupInv ==
    ASSUME Inv, NEW t \in Threads, NEW u \in Sessions, Setup(t, u)
    PROVE  Inv'
<1>1. /\ Starts(t, u, Worker(t)) /\ blocks' = blocks
      /\ session' = [session EXCEPT ![t] = u]
      /\ replaced' = replaced \cup Occupant(t)
  BY DEF Setup, TakesSlot
<1>2. u \in Units
  BY DEF Units
<1>3. session'[t] = u /\ \A s \in Threads \ {t} : session'[s] = session[s]
  BY <1>1 DEF Inv, TypeOK
<1>4. session' \in [Threads -> Sessions \cup {None}] /\ replaced' \subseteq Sessions
  BY <1>1 DEF Inv, TypeOK, Occupant
<1>5. \A s \in Threads : session'[s] # None =>
         owner'[session'[s]] = s /\ session'[s] \notin former /\ stage'[session'[s]] # "new"
  <2> SUFFICES ASSUME NEW s \in Threads, session'[s] # None
               PROVE  owner'[session'[s]] = s /\ session'[s] \notin former /\ stage'[session'[s]] # "new"
    OBVIOUS
  <2>1. CASE s = t
    BY <2>1, <1>1, <1>2, <1>3, StartsInv
  <2>2. CASE s # t
    <3>1. session'[s] = session[s] /\ session[s] \in Units
      BY <2>2, <1>3 DEF Inv, TypeOK, Units
    <3>2. owner[session[s]] = s /\ session[s] \notin former /\ stage[session[s]] # "new"
      BY <3>1 DEF Inv, TypeOK
    <3> QED
      BY <3>1, <3>2, <1>1, <1>2, StartsInv
  <2> QED
    BY <2>1, <2>2
<1>6. \A s \in Threads : \A v \in blocks[s] : owner'[v] = s /\ v \notin former /\ stage'[v] = "active"
  BY <1>1, <1>2, StartsInv DEF Inv, TypeOK, Units
<1>7. TypeOK'
  BY <1>1, <1>2, <1>4, <1>5, <1>6, StartsInv DEF Inv, TypeOK
<1>8. Held'
  <2>1. \A v \in Sessions : stage'[v] = "active" => session'[owner'[v]] = v \/ v \in replaced'
    <3> SUFFICES ASSUME NEW v \in Sessions, stage'[v] = "active"
                 PROVE  session'[owner'[v]] = v \/ v \in replaced'
      OBVIOUS
    <3>1. CASE v = u
      BY <3>1, <1>1, <1>2, <1>3, StartsInv
    <3>2. CASE v # u
      <4>1. v \in Units \ {u} /\ stage[v] = "active" /\ owner'[v] = owner[v]
        BY <3>2, <1>1, <1>2, StartsInv DEF Units
      <4>2. owner[v] \in Threads
        BY <4>1 DEF Inv, Started
      <4>3. CASE v \in replaced
        BY <4>3, <1>1
      <4>4. CASE session[owner[v]] = v
        BY <4>1, <4>2, <4>4, <1>1, <1>3 DEF Occupant
      <4> QED
        BY <4>1, <4>3, <4>4 DEF Inv, Held
    <3> QED
      BY <3>1, <3>2
  <2>2. \A v \in Profilers : stage'[v] = "active" => v \in blocks'[owner'[v]]
    BY <1>1, <1>2, StartsInv, UnitsAssumption DEF Inv, Held, Units
  <2> QED
    BY <2>1, <2>2 DEF Held
<1> QED
  BY <1>1, <1>2, <1>7, <1>8, StartsInv DEF Inv

\* Profiler.__enter__ keeps Inv.
LEMMA EnterInv ==
    ASSUME Inv, NEW t \in Threads, NEW u \in Profilers, Enter(t, u)
    PROVE  Inv'
<1>1. /\ Starts(t, u, Worker(t)) /\ session' = session /\ replaced' = replaced
      /\ blocks' = [blocks EXCEPT ![t] = @ \cup {u}]
  BY DEF Enter
<1>2. u \in Units
  BY DEF Units
<1>3. blocks'[t] = blocks[t] \cup {u} /\ \A s \in Threads \ {t} : blocks'[s] = blocks[s]
  BY <1>1 DEF Inv, TypeOK
<1>4. blocks' \in [Threads -> SUBSET Profilers]
  BY <1>1 DEF Inv, TypeOK
<1>5. \A s \in Threads : session[s] # None =>
         owner'[session[s]] = s /\ session[s] \notin former /\ stage'[session[s]] # "new"
  BY <1>1, <1>2, StartsInv DEF Inv, TypeOK, Units
<1>6. \A s \in Threads : \A v \in blocks'[s] : owner'[v] = s /\ v \notin former /\ stage'[v] = "active"
  <2> SUFFICES ASSUME NEW s \in Threads, NEW v \in blocks'[s]
               PROVE  owner'[v] = s /\ v \notin former /\ stage'[v] = "active"
    OBVIOUS
  <2>1. CASE v \in blocks[s]
    <3>1. v \in Units /\ owner[v] = s /\ v \notin former /\ stage[v] = "active"
      BY <2>1 DEF Inv, TypeOK, Units
    <3> QED
      BY <3>1, <1>1, <1>2, StartsInv
  <2>2. CASE v \notin blocks[s]
    <3>1. v = u /\ s = t
      BY <2>2, <1>3
    <3> QED
      BY <3>1, <1>1, <1>2, StartsInv
  <2> QED
    BY <2>1, <2>2
<1>7. TypeOK'
  BY <1>1, <1>2, <1>4, <1>5, <1>6, StartsInv DEF Inv, TypeOK
<1>8. Held'
  <2>1. \A v \in Sessions : stage'[v] = "active" => session'[owner'[v]] = v \/ v \in replaced'
    BY <1>1, <1>2, StartsInv, UnitsAssumption DEF Inv, Held, Units
  <2>2. \A v \in Profilers : stage'[v] = "active" => v \in blocks'[owner'[v]]
    <3> SUFFICES ASSUME NEW v \in Profilers, stage'[v] = "active" PROVE v \in blocks'[owner'[v]]
      OBVIOUS
    <3>1. CASE v = u
      BY <3>1, <1>1, <1>2, <1>3, StartsInv
    <3>2. CASE v # u
      <4>1. v \in Units \ {u} /\ stage[v] = "active" /\ owner'[v] = owner[v]
        BY <3>2, <1>1, <1>2, StartsInv DEF Units
      <4>2. owner[v] \in Threads /\ v \in blocks[owner[v]]
        BY <4>1 DEF Inv, Started, Held
      <4> QED
        BY <4>1, <4>2, <1>3
    <3> QED
      BY <3>1, <3>2
  <2> QED
    BY <2>1, <2>2 DEF Held
<1> QED
  BY <1>1, <1>2, <1>7, <1>8, StartsInv DEF Inv

--------------------------------------------------------------------------------
\* What units hear of a thread that did not start them.
LEMMA OverhearingIsKnown ==
    ASSUME Inv, NEW t \in Threads, NEW kind, NEW told, told \subseteq Hears(t, kind)
    PROVE  /\ Overhearing(t, told) \subseteq Units \X {"active", "left"}
           /\ \A e \in Overhearing(t, told) : stage[e[1]] # "new"
           /\ \A u \in Units : \A how \in {"active", "left"} : <<u, how>> \in Overhearing(t, told) =>
                 /\ Django => worker[u] \in reused \/ (how = "left" /\ worker[u] = owner[u] /\ u \in former)
                 /\ Flask => worker[u] = None
<1>1. \A u \in told : u \in Units /\ \E w \in {Worker(t), ANY} : <<u, kind, w>> \in conn
  BY DEF Hears
<1>2. \A u \in told : /\ u \in Units /\ stage[u] # "new"
                     /\ \E w \in {Worker(t), ANY} : <<u, kind, w>> \in conn /\ worker[u] = w
  BY <1>1 DEF Inv, Connected
<1>3. \A e \in Overhearing(t, told) :
         \E u \in told : e = <<u, IF Endable(u) THEN "active" ELSE "left">>
  BY DEF Overhearing
<1>4. \A e \in Overhearing(t, told) : e \in Units \X {"active", "left"} /\ stage[e[1]] # "new"
  <2> SUFFICES ASSUME NEW e \in Overhearing(t, told)
               PROVE  e \in Units \X {"active", "left"} /\ stage[e[1]] # "new"
    OBVIOUS
  <2>1. PICK u \in told : e = <<u, IF Endable(u) THEN "active" ELSE "left">>
    BY <1>3
  <2>2. (IF Endable(u) THEN "active" ELSE "left") \in {"active", "left"}
    OBVIOUS
  <2> QED
    BY <1>2, <2>1, <2>2
<1>5. ASSUME NEW u \in Units, NEW how \in {"active", "left"}, <<u, how>> \in Overhearing(t, told), Django
      PROVE  worker[u] \in reused \/ (how = "left" /\ worker[u] = owner[u] /\ u \in former)
  <2>1. /\ u \in told /\ (owner[u] # t \/ u \in former)
        /\ how = IF Endable(u) THEN "active" ELSE "left"
    BY <1>5 DEF Overhearing
  <2>2. PICK w \in {Worker(t), ANY} : <<u, kind, w>> \in conn /\ worker[u] = w
    BY <2>1, <1>2
  <2>3. stage[u] # "new" /\ owner[u] \in Threads
    BY <2>1, <1>2 DEF Inv, Started
  <2>4. \/ worker[u] = owner[u]
        \/ /\ worker[u] \in given
           /\ \A s \in Threads : context[s] = worker[u] =>
                 worker[u] \in reused \/ (owner[u] = s /\ u \notin former)
    BY <2>3, <1>5 DEF Inv, Named
  <2>5. worker[u] # ANY
    BY <2>3, <2>4, WorkersAssumption DEF Inv, TypeOK
  <2>6. Worker(t) = IF context[t] # None THEN context[t] ELSE t
    BY <1>5, WorkerIs DEF Inv
  <2>7. worker[u] = context[t] \/ (worker[u] = t /\ context[t] = None)
    BY <2>2, <2>5, <2>6
  <2>8. CASE worker[u] # owner[u]
    <3>1. worker[u] \in Requests
      BY <2>4, <2>8 DEF Inv, TypeOK
    <3>2. worker[u] = context[t]
      BY <2>7, <3>1, WorkersAssumption
    <3> QED
      BY <2>1, <2>4, <2>8, <3>2
  <2>9. CASE worker[u] = owner[u]
    <3>1. context[t] \notin Threads
      BY WorkersAssumption DEF Inv, TypeOK
    <3>2. owner[u] = t
      BY <2>3, <2>7, <2>9, <3>1
    <3>3. u \in former /\ ~Endable(u)
      BY <2>1, <2>3, <3>2, UnitsAssumption DEF Inv, TypeOK, Endable, Units
    <3> QED
      BY <2>1, <2>9, <3>3
  <2> QED
    BY <2>8, <2>9
<1>6. ASSUME NEW u \in Units, NEW how \in {"active", "left"}, <<u, how>> \in Overhearing(t, told), Flask
      PROVE  worker[u] = None
  <2>1. u \in told /\ (owner[u] # t \/ u \in former)
    BY <1>6 DEF Overhearing
  <2>2. PICK w \in {Worker(t), ANY} : <<u, kind, w>> \in conn /\ worker[u] = w
    BY <2>1, <1>2
  <2>3. stage[u] # "new" /\ owner[u] \in Threads /\ worker[u] \in Requests \cup {None}
    BY <2>1, <1>2, <1>6 DEF Inv, Started, Named
  <2>4. worker[u] = serving[t]
    BY <2>2, <2>3, <1>6, WorkerIs, WorkersAssumption DEF Inv
  <2>5. worker[u] \in Requests => serving[owner[u]] = worker[u] /\ u \notin former
    BY <2>2, <1>6 DEF Inv, Connected
  <2>6. worker[u] \notin Requests
    BY <2>1, <2>3, <2>4, <2>5, WorkersAssumption DEF Inv, Named
  <2> QED
    BY <2>3, <2>6
<1> QED
  BY <1>4, <1>5, <1>6

\* Events connect nothing.
LEMMA EventInv ==
    ASSUME Inv, NEW t \in Threads, LazyFound(t) \/ EagerEvent(t) \/ TouchEvent(t)
    PROVE  Inv'
<1>1. UNCHANGED <<config, stage, owner, worker, session, blocks, listeners, conn, replaced, threads>>
  BY DEF LazyFound, EagerEvent, TouchEvent
<1>2. unused' \in [Units -> BOOLEAN]
  <2>1. CASE UNCHANGED unused
    BY <2>1 DEF Inv, TypeOK
  <2>2. CASE unused' = [u \in Units |-> unused[u] \/ u \in Hears(t, "eager")]
    BY <2>2
  <2>3. CASE unused' = [u \in Units |-> unused[u] /\ u \notin Hears(t, "eager")]
    BY <2>3
  <2> QED
    BY <2>1, <2>2, <2>3 DEF LazyFound, EagerEvent, TouchEvent
<1>3. \/ overheard' = overheard
      \/ \E kind : \E told \in SUBSET Hears(t, kind) : overheard' = Overhearing(t, told)
  <2>1. CASE LazyFound(t)
    <3>1. \E told \in SUBSET Hears(t, "lazy") : overheard' = Overhearing(t, told)
      BY <2>1 DEF LazyFound
    <3> QED
      BY <3>1
  <2>2. CASE EagerEvent(t)
    <3>1. \E told \in SUBSET Hears(t, "eager") : overheard' = Overhearing(t, told)
      BY <2>2 DEF EagerEvent
    <3> QED
      BY <3>1
  <2>3. CASE TouchEvent(t)
    BY <2>3 DEF TouchEvent
  <2> QED
    BY <2>1, <2>2, <2>3
<1>4. overheard' \subseteq Units \X {"active", "left"} /\ Isolated'
  <2>1. CASE overheard' = overheard
    BY <2>1, <1>1 DEF Inv, TypeOK, Isolated, threads, Django, Flask
  <2>2. CASE \E kind : \E told \in SUBSET Hears(t, kind) : overheard' = Overhearing(t, told)
    <3>1. PICK kind, told : told \subseteq Hears(t, kind) /\ overheard' = Overhearing(t, told)
      BY <2>2
    <3>2. /\ overheard' \subseteq Units \X {"active", "left"}
          /\ \A e \in overheard' : stage[e[1]] # "new"
          /\ \A u \in Units : \A how \in {"active", "left"} : <<u, how>> \in overheard' =>
                /\ Django => worker[u] \in reused \/ (how = "left" /\ worker[u] = owner[u] /\ u \in former)
                /\ Flask => worker[u] = None
      BY <3>1, OverhearingIsKnown
    <3> QED
      BY <3>2, <1>1 DEF Isolated, threads, Django, Flask
  <2> QED
    BY <2>1, <2>2, <1>3
<1>5. TypeOK'
  BY <1>1, <1>2, <1>4 DEF Inv, TypeOK, threads
<1>6. Started' /\ Connected' /\ Named' /\ Held'
  BY <1>1 DEF Inv, Started, Connected, Named, Held, Worker, threads, Django, Flask
<1> QED
  BY <1>4, <1>5, <1>6 DEF Inv

--------------------------------------------------------------------------------
\* A request that begins takes an id that is in no other thread, or else is reused.
LEMMA ServeInv ==
    ASSUME Inv, NEW t \in Threads, NEW r \in Requests, Serve(t, r)
    PROVE  Inv'
<1>1. /\ serving[t] = None /\ \A s \in Threads : serving[s] # r
      /\ serving' = [serving EXCEPT ![t] = r]
      /\ context' = [context EXCEPT ![t] = IF Django THEN r ELSE @]
      /\ visited' = visited \cup Running(t)
      /\ given' = given \cup {r} /\ reused' = reused \cup (given \cap {r})
      /\ UNCHANGED <<config, stage, owner, worker, session, blocks, listeners, unused, overheard, replaced,
                     conn, former>>
  BY DEF Serve, unitVars, Django
<1>2. /\ serving'[t] = r /\ context'[t] = (IF Django THEN r ELSE context[t])
      /\ \A s \in Threads \ {t} : serving'[s] = serving[s] /\ context'[s] = context[s]
  BY <1>1 DEF Inv, TypeOK
<1>3. Django' = Django /\ Flask' = Flask /\ r # None
  BY <1>1, WorkersAssumption DEF Django, Flask
<1>5. TypeOK'
  BY <1>1 DEF Inv, TypeOK, Running
<1>6. Started'
  <2> SUFFICES ASSUME NEW u \in Units, stage[u] = "active", u \notin visited' \cup former
               PROVE  worker[u] = Worker(owner[u])'
    BY <1>1, <1>3 DEF Inv, Started
  <2>1. u \notin visited \cup former /\ owner[u] \in Threads \ {t}
    BY <1>1 DEF Inv, Started, Running
  <2>2. worker[u] = Worker(owner[u])
    BY <2>1 DEF Inv, Started
  <2> QED
    BY <2>1, <2>2, <1>1, <1>2 DEF Worker
<1>7. Connected'
  <2> SUFFICES ASSUME NEW c \in conn, Flask, c[3] \in Requests PROVE serving'[owner[c[1]]] = c[3]
    BY <1>1, <1>3 DEF Inv, Connected
  <2>1. serving[owner[c[1]]] = c[3] /\ c[1] \in Units /\ stage[c[1]] # "new"
    BY DEF Inv, TypeOK, Connected
  <2>2. owner[c[1]] \in Threads \ {t}
    BY <2>1, <1>1, WorkersAssumption DEF Inv, Started
  <2> QED
    BY <2>1, <2>2, <1>2
<1>8. Named'
  <2>1. \A s \in Threads : serving'[s] # None => serving'[s] \in given'
    BY <1>1, <1>2 DEF Inv, Named
  <2>2. \A s \in Threads : context'[s] # None => context'[s] \in given'
    BY <1>1, <1>2 DEF Inv, Named
  <2>3. \A p, s \in Threads : serving'[p] # None /\ serving'[p] = serving'[s] => p = s
    BY <1>1, <1>2 DEF Inv, Named
  <2>4. Django => \A p, s \in Threads :
           context'[p] # None /\ context'[p] = context'[s] => p = s \/ context'[p] \in reused'
    <3> SUFFICES ASSUME Django, NEW p \in Threads, NEW s \in Threads, context'[p] # None,
                        context'[p] = context'[s], p # s
                 PROVE  context'[p] \in reused'
      OBVIOUS
    <3>1. CASE p # t /\ s # t
      BY <3>1, <1>1, <1>2 DEF Inv, Named
    <3>2. CASE p = t \/ s = t
      <4>1. context'[p] = r /\ (context[p] = r \/ context[s] = r)
        BY <3>2, <1>2
      <4>2. r \in given
        BY <4>1, <1>3 DEF Inv, Named
      <4> QED
        BY <4>1, <4>2, <1>1
    <3> QED
      BY <3>1, <3>2
  <2>5. ASSUME Django, NEW u \in Units, stage[u] # "new"
        PROVE  \/ worker[u] = owner[u]
               \/ /\ worker[u] \in given'
                  /\ \A s \in Threads : context'[s] = worker[u] =>
                        worker[u] \in reused' \/ (owner[u] = s /\ u \notin former)
    <3>1. CASE worker[u] = owner[u]
      BY <3>1
    <3>2. CASE /\ worker[u] \in given
               /\ \A s \in Threads : context[s] = worker[u] =>
                     worker[u] \in reused \/ (owner[u] = s /\ u \notin former)
      BY <3>2, <2>5, <1>1, <1>2
    <3> QED
      BY <3>1, <3>2, <2>5 DEF Inv, Named
  <2>6. Flask => \A u \in Units : stage[u] # "new" => worker[u] \in Requests \cup {None}
    BY DEF Inv, Named
  <2> QED
    BY <2>1, <2>2, <2>3, <2>4, <2>5, <2>6, <1>1, <1>3 DEF Named
<1>9. Held' /\ Isolated'
  BY <1>1, <1>3 DEF Inv, Held, Isolated
<1> QED
  BY <1>5, <1>6, <1>7, <1>8, <1>9 DEF Inv

\* A request that ends takes with it, with Flask, what was connected to it.
LEMMA ServedInv ==
    ASSUME Inv, NEW t \in Threads, Served(t)
    PROVE  Inv'
<1>1. /\ serving[t] # None
      /\ serving' = [serving EXCEPT ![t] = None]
      /\ conn' = IF Flask THEN {c \in conn : c[3] # serving[t]} ELSE conn
      /\ visited' = visited \cup Running(t)
      /\ UNCHANGED <<config, stage, owner, worker, session, blocks, listeners, unused, overheard, replaced,
                     former, context, given, reused>>
  BY DEF Served, unitVars, Flask
<1>2. serving'[t] = None /\ \A s \in Threads \ {t} : serving'[s] = serving[s]
  BY <1>1 DEF Inv, TypeOK
<1>3. Django' = Django /\ Flask' = Flask /\ conn' \subseteq conn /\ serving[t] \in Requests
  BY <1>1 DEF Django, Flask, Inv, TypeOK
<1>5. TypeOK'
  BY <1>1, <1>3 DEF Inv, TypeOK, Running
<1>6. Started'
  <2>1. ASSUME NEW u \in Units, stage[u] = "active", u \notin visited' \cup former
        PROVE  worker[u] = Worker(owner[u])'
    <3>1. u \notin visited \cup former /\ owner[u] \in Threads \ {t}
      BY <1>1, <2>1 DEF Inv, Started, Running
    <3>2. worker[u] = Worker(owner[u])
      BY <2>1, <3>1 DEF Inv, Started
    <3> QED
      BY <3>1, <3>2, <1>1, <1>2 DEF Worker
  <2>2. ASSUME NEW u \in Units, stage[u] = "active"
        PROVE  \/ \A k \in Kinds : <<u, k, worker[u]>> \in conn'
               \/ Flask /\ worker[u] \in Requests /\ u \in visited' \cup former
    <3>1. CASE Flask /\ worker[u] \in Requests /\ u \in visited \cup former
      BY <3>1, <1>1
    <3>2. CASE (\A k \in Kinds : <<u, k, worker[u]>> \in conn) /\ ~(Flask /\ worker[u] = serving[t])
      BY <3>2, <1>1
    <3>3. CASE (\A k \in Kinds : <<u, k, worker[u]>> \in conn) /\ Flask /\ worker[u] = serving[t]
      <4>1. <<u, "lazy", worker[u]>> \in conn
        BY <3>3 DEF Kinds
      <4>2. serving[owner[u]] = worker[u] /\ u \notin former
        BY <4>1, <3>3, <1>3 DEF Inv, Connected
      <4>3. owner[u] = t
        BY <4>2, <3>3, <2>2, <1>1 DEF Inv, Started, Named
      <4>4. u \in Running(t)
        BY <4>2, <4>3, <2>2 DEF Running
      <4> QED
        BY <4>4, <3>3, <1>1, <1>3
    <3> QED
      BY <3>1, <3>2, <3>3, <2>2 DEF Inv, Started
  <2> QED
    BY <2>1, <2>2, <1>1, <1>3 DEF Inv, Started
<1>7. Connected'
  <2> SUFFICES ASSUME NEW c \in conn', Flask, c[3] \in Requests PROVE serving'[owner[c[1]]] = c[3]
    BY <1>1, <1>3 DEF Inv, Connected
  <2>1. serving[owner[c[1]]] = c[3] /\ c[1] \in Units /\ stage[c[1]] # "new" /\ c[3] # serving[t]
    BY <1>1, <1>3 DEF Inv, TypeOK, Connected
  <2>2. owner[c[1]] \in Threads \ {t}
    BY <2>1 DEF Inv, Started
  <2> QED
    BY <2>1, <2>2, <1>2
<1>8. Named'
  <2>1. \A s \in Threads : serving'[s] # None => s # t /\ serving'[s] = serving[s]
    BY <1>2
  <2> QED
    BY <2>1, <1>1, <1>3 DEF Inv, Named
<1>9. Held' /\ Isolated'
  BY <1>1, <1>3 DEF Inv, Held, Isolated
<1> QED
  BY <1>5, <1>6, <1>7, <1>8, <1>9 DEF Inv

\* A thread that ends has nothing left that it could end.
LEMMA ThreadRestartsInv ==
    ASSUME Inv, NEW t \in Threads, ThreadRestarts(t)
    PROVE  Inv'
<1>1. /\ serving[t] = None
      /\ \A u \in Units \ former : owner[u] = t => ~Endable(u)
      /\ session' = [session EXCEPT ![t] = None]
      /\ context' = [context EXCEPT ![t] = None]
      /\ former' = former \cup {u \in Units : owner[u] = t}
      /\ UNCHANGED <<config, stage, owner, worker, blocks, listeners, conn, unused, overheard, replaced,
                     serving, visited, given, reused>>
  BY DEF ThreadRestarts
<1>2. /\ session'[t] = None /\ context'[t] = None
      /\ \A s \in Threads \ {t} : session'[s] = session[s] /\ context'[s] = context[s]
  BY <1>1 DEF Inv, TypeOK
<1>3. Django' = Django /\ Flask' = Flask
  BY <1>1 DEF Django, Flask
<1>5. \A u \in blocks[t] : FALSE
  BY <1>1 DEF Inv, TypeOK, Endable, Units
<1>6. TypeOK'
  <2>1. \A s \in Threads : session'[s] # None =>
           owner[session'[s]] = s /\ session'[s] \notin former' /\ stage[session'[s]] # "new"
    BY <1>1, <1>2 DEF Inv, TypeOK
  <2>2. \A s \in Threads : \A u \in blocks[s] : owner[u] = s /\ u \notin former' /\ stage[u] = "active"
    BY <1>1, <1>5 DEF Inv, TypeOK
  <2>3. /\ session' \in [Threads -> Sessions \cup {None}]
        /\ context' \in [Threads -> Requests \cup {None}]
        /\ former' \subseteq Units
    BY <1>1 DEF Inv, TypeOK
  <2> QED
    BY <2>1, <2>2, <2>3, <1>1 DEF Inv, TypeOK
<1>7. Started'
  <2>1. \A u \in Units : stage[u] = "new" => u \notin former'
    BY <1>1, WorkersAssumption DEF Inv, Started
  <2>2. ASSUME NEW u \in Units, stage[u] = "active", u \notin visited \cup former'
        PROVE  worker[u] = Worker(owner[u])'
    <3>1. u \notin visited \cup former /\ owner[u] \in Threads \ {t}
      BY <1>1, <2>2 DEF Inv, Started
    <3>2. worker[u] = Worker(owner[u])
      BY <2>2, <3>1 DEF Inv, Started
    <3> QED
      BY <3>1, <3>2, <1>1, <1>2 DEF Worker
  <2> QED
    BY <2>1, <2>2, <1>1, <1>3 DEF Inv, Started
<1>8. Connected'
  <2> SUFFICES ASSUME NEW c \in conn, Flask, c[3] \in Requests PROVE c[1] \notin former'
    BY <1>1, <1>3 DEF Inv, Connected
  <2>1. serving[owner[c[1]]] = c[3] /\ c[1] \notin former
    BY DEF Inv, Connected
  <2> QED
    BY <2>1, <1>1, WorkersAssumption
<1>9. Named'
  <2>1. \A s \in Threads : context'[s] # None => s # t /\ context'[s] = context[s]
    BY <1>2
  <2>2. ASSUME Django, NEW u \in Units, stage[u] # "new"
        PROVE  \/ worker[u] = owner[u]
               \/ /\ worker[u] \in given
                  /\ \A s \in Threads : context'[s] = worker[u] =>
                        worker[u] \in reused \/ (owner[u] = s /\ u \notin former')
    <3>1. CASE worker[u] = owner[u]
      BY <3>1
    <3>2. CASE /\ worker[u] \in given
               /\ \A s \in Threads : context[s] = worker[u] =>
                     worker[u] \in reused \/ (owner[u] = s /\ u \notin former)
      <4>1. worker[u] # None
        BY <3>2, WorkersAssumption DEF Inv, TypeOK
      <4> QED
        BY <3>2, <4>1, <2>1, <1>1
    <3> QED
      BY <3>1, <3>2, <2>2 DEF Inv, Named
  <2>3. /\ \A s \in Threads : serving[s] # None => serving[s] \in given
        /\ \A s \in Threads : context'[s] # None => context'[s] \in given
        /\ \A p, s \in Threads : serving[p] # None /\ serving[p] = serving[s] => p = s
        /\ Django => \A p, s \in Threads :
              context'[p] # None /\ context'[p] = context'[s] => p = s \/ context'[p] \in reused
        /\ Flask => \A u \in Units : stage[u] # "new" => worker[u] \in Requests \cup {None}
    BY <2>1 DEF Inv, Named
  <2> QED
    BY <2>2, <2>3, <1>1, <1>3 DEF Named
<1>10. Held'
  <2>1. \A u \in Profilers : stage[u] = "active" => u \in blocks[owner[u]]
    BY DEF Inv, Held
  <2>2. ASSUME NEW u \in Sessions, stage[u] = "active", u \notin replaced PROVE session'[owner[u]] = u
    <3>1. u \in Units /\ owner[u] \in Threads /\ session[owner[u]] = u
      BY <2>2 DEF Inv, Held, Started, Units
    <3>2. u \notin former /\ Endable(u)
      BY <2>2, <3>1, UnitsAssumption DEF Inv, TypeOK, Endable, Units
    <3> QED
      BY <3>1, <3>2, <1>1, <1>2
  <2> QED
    BY <2>1, <2>2, <1>1 DEF Held
<1>11. Isolated'
  BY <1>1, <1>3 DEF Inv, Isolated
<1> QED
  BY <1>6, <1>7, <1>8, <1>9, <1>10, <1>11 DEF Inv

--------------------------------------------------------------------------------
\* A unit that ends, with or without a report that raises, keeps what Inv says of
\* the others.
LEMMA EndsInv ==
    ASSUME Inv, NEW u \in Units, stage[u] # "new", Ends(u) \/ EndsRaising(u)
    PROVE  /\ UNCHANGED <<config, owner, worker, overheard, replaced, former, serving, context, visited,
                         given, reused>>
           /\ stage' \in [Units -> {"new", "active", "ended", "raised"}]
           /\ listeners' \in [Units -> SUBSET Kinds]
           /\ unused' \in [Units -> BOOLEAN]
           /\ conn' \subseteq conn
           /\ stage'[u] \in {"ended", "raised"}
           /\ \A v \in Units \ {u} : stage'[v] = stage[v]
           /\ Started' /\ Connected' /\ Named' /\ Isolated'
<1> DEFINE gone == IF Ends(u) THEN listeners[u] ELSE listeners[u] \ {"eager"}
<1>1. /\ UNCHANGED <<config, owner, worker, overheard, replaced, former, serving, context, visited,
                     given, reused>>
      /\ listeners' = [listeners EXCEPT ![u] = {}]
      /\ conn' = Without(u, gone)
  BY DEF Ends, EndsRaising, threads
<1>2. unused' \in [Units -> BOOLEAN]
  <2>1. CASE Ends(u)
    BY <2>1 DEF Ends, Inv, TypeOK
  <2>2. CASE EndsRaising(u)
    BY <2>2 DEF EndsRaising, Inv, TypeOK
  <2> QED
    BY <2>1, <2>2
<1>3. /\ stage' \in [Units -> {"new", "active", "ended", "raised"}]
      /\ stage'[u] \in {"ended", "raised"}
      /\ \A v \in Units \ {u} : stage'[v] = stage[v]
  BY DEF Ends, EndsRaising, Inv, TypeOK
<1>4. listeners' \in [Units -> SUBSET Kinds] /\ conn' \subseteq conn
  BY <1>1 DEF Inv, TypeOK, Without
<1>5. (\A v : Worker(v)' = Worker(v)) /\ Django' = Django /\ Flask' = Flask
  BY <1>1 DEF Worker, Django, Flask
<1>6. Started'
  <2> SUFFICES ASSUME NEW v \in Units
               PROVE  /\ stage'[v] # "new" => owner[v] \in Threads
                      /\ stage'[v] = "new" => owner[v] = None /\ v \notin former
                      /\ stage'[v] = "active" =>
                            /\ listeners'[v] = Kinds
                            /\ \/ \A k \in Kinds : <<v, k, worker[v]>> \in conn'
                               \/ Flask /\ worker[v] \in Requests /\ v \in visited \cup former
                            /\ v \notin visited \cup former => worker[v] = Worker(owner[v])
    BY <1>1, <1>5 DEF Started
  <2>1. CASE v = u
    BY <2>1, <1>3 DEF Inv, Started
  <2>2. CASE v # u
    <3>1. stage'[v] = stage[v] /\ listeners'[v] = listeners[v]
      BY <2>2, <1>1, <1>3 DEF Inv, TypeOK
    <3>2. \A k, w : <<v, k, w>> \in conn => <<v, k, w>> \in conn'
      BY <2>2, <1>1 DEF Without
    <3> QED
      BY <3>1, <3>2 DEF Inv, Started
  <2> QED
    BY <2>1, <2>2
<1>7. Connected'
  <2> SUFFICES ASSUME NEW c \in conn'
               PROVE  stage'[c[1]] = "active" \/ (stage'[c[1]] = "raised" /\ c[2] = "eager")
    BY <1>1, <1>4, <1>5 DEF Inv, Connected
  <2>1. c \in conn /\ c[1] \in Units /\ c[2] \in Kinds
    BY <1>4 DEF Inv, TypeOK
  <2>2. CASE c[1] # u
    BY <2>1, <2>2, <1>3 DEF Inv, Connected
  <2>3. CASE c[1] = u /\ stage[u] = "active"
    <3>1. listeners[u] = Kinds /\ c[2] \notin gone
      BY <2>1, <2>3, <1>1 DEF Inv, Started, Without
    <3>2. ~Ends(u) /\ c[2] = "eager"
      BY <2>1, <3>1 DEF Kinds
    <3>3. stage'[u] = "raised"
      BY <3>2 DEF EndsRaising, Inv, TypeOK
    <3> QED
      BY <2>3, <3>2, <3>3
  <2>4. CASE c[1] = u /\ stage[u] # "active"
    <3>1. stage[u] = "raised" /\ c[2] = "eager"
      BY <2>1, <2>4 DEF Inv, Connected
    <3>2. stage'[u] = "raised"
      BY <3>1 DEF Ends, EndsRaising, Inv, TypeOK
    <3> QED
      BY <2>4, <3>1, <3>2
  <2> QED
    BY <2>2, <2>3, <2>4
<1>8. Named'
  <2>1. \A v \in Units : stage'[v] # "new" => stage[v] # "new"
    BY <1>3
  <2> QED
    BY <2>1, <1>1, <1>5 DEF Inv, Named
<1>9. Isolated'
  <2>1. \A e \in overheard : stage'[e[1]] # "new"
    BY <1>3 DEF Inv, TypeOK, Isolated
  <2> QED
    BY <2>1, <1>1, <1>5 DEF Inv, Isolated
<1> QED
  BY <1>1, <1>2, <1>3, <1>4, <1>6, <1>7, <1>8, <1>9

\* teardown() keeps Inv.
LEMMA TeardownInv ==
    ASSUME Inv, NEW t \in Threads, Teardown(t) \/ TeardownRaises(t)
    PROVE  Inv'
<1>1. PICK u \in Sessions : session[t] = u /\ u # None
  BY DEF Teardown, TeardownRaises, Inv, TypeOK
<1>2. /\ Ends(u) \/ EndsRaising(u)
      /\ session' = session \/ session' = [session EXCEPT ![t] = None]
      /\ blocks' = blocks
  BY <1>1 DEF Teardown, TeardownRaises
<1>3. u \in Units /\ stage[u] # "new" /\ owner[u] = t
  BY <1>1 DEF Inv, TypeOK, Units
<1>4. session' \in [Threads -> Sessions \cup {None}]
  BY <1>2 DEF Inv, TypeOK
<1>5. \A s \in Threads : session'[s] # None =>
         owner[session'[s]] = s /\ session'[s] \notin former /\ stage'[session'[s]] # "new"
  <2> SUFFICES ASSUME NEW s \in Threads, session'[s] # None
               PROVE  owner[session'[s]] = s /\ session'[s] \notin former /\ stage'[session'[s]] # "new"
    OBVIOUS
  <2>1. session'[s] = session[s] /\ session[s] \in Units
    BY <1>2 DEF Inv, TypeOK, Units
  <2>2. owner[session[s]] = s /\ session[s] \notin former /\ stage[session[s]] # "new"
    BY <2>1 DEF Inv, TypeOK
  <2> QED
    BY <2>1, <2>2, <1>2, <1>3, EndsInv
<1>6. \A s \in Threads : \A v \in blocks[s] : owner[v] = s /\ v \notin former /\ stage'[v] = "active"
  <2> SUFFICES ASSUME NEW s \in Threads, NEW v \in blocks[s]
               PROVE  owner[v] = s /\ v \notin former /\ stage'[v] = "active"
    OBVIOUS
  <2>1. v \in Units \ {u} /\ owner[v] = s /\ v \notin former /\ stage[v] = "active"
    BY <1>1, UnitsAssumption DEF Inv, TypeOK, Units
  <2> QED
    BY <2>1, <1>2, <1>3, EndsInv
<1>7. TypeOK'
  BY <1>2, <1>3, <1>4, <1>5, <1>6, EndsInv DEF Inv, TypeOK
<1>8. Held'
  <2>1. \A v \in Sessions : stage'[v] = "active" => session'[owner'[v]] = v \/ v \in replaced'
    <3> SUFFICES ASSUME NEW v \in Sessions, stage'[v] = "active", v \notin replaced
                 PROVE  session'[owner[v]] = v
      BY <1>2, <1>3, EndsInv
    <3>1. v # u /\ v \in Units /\ stage[v] = "active"
      BY <1>2, <1>3, EndsInv DEF Units
    <3>2. owner[v] \in Threads /\ session[owner[v]] = v
      BY <3>1 DEF Inv, Started, Held
    <3>3. owner[v] # t
      BY <3>1, <3>2, <1>1
    <3> QED
      BY <3>2, <3>3, <1>2 DEF Inv, TypeOK
  <2>2. \A v \in Profilers : stage'[v] = "active" => v \in blocks'[owner'[v]]
    BY <1>2, <1>3, EndsInv, UnitsAssumption DEF Inv, Held, Units
  <2> QED
    BY <2>1, <2>2 DEF Held
<1> QED
  BY <1>2, <1>3, <1>7, <1>8, EndsInv DEF Inv

\* Profiler.__exit__ keeps Inv.
LEMMA ExitInv ==
    ASSUME Inv, NEW t \in Threads, NEW u \in Profilers, Exit(t, u)
    PROVE  Inv'
<1>1. /\ u \in blocks[t] /\ (Ends(u) \/ EndsRaising(u))
      /\ blocks' = [blocks EXCEPT ![t] = @ \ {u}] /\ session' = session
  BY DEF Exit
<1>2. u \in Units /\ stage[u] # "new" /\ owner[u] = t
  BY <1>1 DEF Inv, TypeOK, Units
<1>3. blocks'[t] = blocks[t] \ {u} /\ \A s \in Threads \ {t} : blocks'[s] = blocks[s]
  BY <1>1 DEF Inv, TypeOK
<1>4. blocks' \in [Threads -> SUBSET Profilers]
  BY <1>1 DEF Inv, TypeOK
<1>5. \A s \in Threads : session[s] # None =>
         owner[session[s]] = s /\ session[s] \notin former /\ stage'[session[s]] # "new"
  <2> SUFFICES ASSUME NEW s \in Threads, session[s] # None
               PROVE  owner[session[s]] = s /\ session[s] \notin former /\ stage'[session[s]] # "new"
    OBVIOUS
  <2>1. /\ session[s] \in Units
        /\ owner[session[s]] = s /\ session[s] \notin former /\ stage[session[s]] # "new"
    BY DEF Inv, TypeOK, Units
  <2> QED
    BY <2>1, <1>1, <1>2, EndsInv
<1>6. \A s \in Threads : \A v \in blocks'[s] : owner[v] = s /\ v \notin former /\ stage'[v] = "active"
  <2> SUFFICES ASSUME NEW s \in Threads, NEW v \in blocks'[s]
               PROVE  owner[v] = s /\ v \notin former /\ stage'[v] = "active"
    OBVIOUS
  <2>1. v \in blocks[s]
    BY <1>3
  <2>2. v \in Units /\ owner[v] = s /\ v \notin former /\ stage[v] = "active"
    BY <2>1 DEF Inv, TypeOK, Units
  <2>3. v # u
    BY <2>2, <1>2, <1>3
  <2> QED
    BY <2>2, <2>3, <1>1, <1>2, EndsInv
<1>7. TypeOK'
  BY <1>1, <1>2, <1>4, <1>5, <1>6, EndsInv DEF Inv, TypeOK
<1>8. Held'
  <2>1. \A v \in Sessions : stage'[v] = "active" => session'[owner'[v]] = v \/ v \in replaced'
    BY <1>1, <1>2, EndsInv, UnitsAssumption DEF Inv, Held, Units
  <2>2. \A v \in Profilers : stage'[v] = "active" => v \in blocks'[owner'[v]]
    <3> SUFFICES ASSUME NEW v \in Profilers, stage'[v] = "active" PROVE v \in blocks'[owner[v]]
      BY <1>1, <1>2, EndsInv
    <3>1. v # u /\ v \in Units /\ stage[v] = "active"
      BY <1>1, <1>2, EndsInv DEF Units
    <3>2. owner[v] \in Threads /\ v \in blocks[owner[v]]
      BY <3>1 DEF Inv, Started, Held
    <3> QED
      BY <3>1, <3>2, <1>3
  <2> QED
    BY <2>1, <2>2 DEF Held
<1> QED
  BY <1>1, <1>2, <1>7, <1>8, EndsInv DEF Inv

\* Inv is inductive.
LEMMA NextInv == Inv /\ [Next]_vars => Inv'
<1> SUFFICES ASSUME Inv, [Next]_vars PROVE Inv'
  OBVIOUS
<1>1. CASE UNCHANGED vars
  <2>1. /\ UNCHANGED <<config, stage, owner, worker, session, blocks, listeners, conn, unused, overheard>>
        /\ UNCHANGED <<replaced, former, serving, context, visited, given, reused>>
    BY <1>1 DEF vars, threads
  <2>2. TypeOK' /\ Held'
    BY <2>1 DEF Inv, TypeOK, Held
  <2>3. Started' /\ Connected'
    BY <2>1 DEF Inv, Started, Connected, Worker, Flask
  <2>4. Named' /\ Isolated'
    BY <2>1 DEF Inv, Named, Isolated, Django, Flask
  <2> QED
    BY <2>2, <2>3, <2>4 DEF Inv
<1> QED
  BY <1>1, SetupInv, EnterInv, EventInv, ServeInv, ServedInv, ThreadRestartsInv, TeardownInv, ExitInv
     DEF Next

--------------------------------------------------------------------------------
\* Every operation of profiler.py keeps the types of its state, and leaves in the
\* slot and the blocks of a thread only units that this thread itself has started
\* (its threading.local dies with it), in the blocks only active ones.
THEOREM TypeCorrect == Spec => []TypeOK
<1>1. Inv => TypeOK
  BY DEF Inv
<1> QED
  BY <1>1, InitInv, NextInv, PTL DEF Spec

\* An active session or block hears its thread, whatever else ends meanwhile, unless
\* a request began or ended on that thread since it started (get_worker of Django
\* and Flask); with Flask, one that started outside of requests is deaf only while
\* one is served.
THEOREM ActiveUnitsAreMonitored == Spec => []ActiveIsMonitored
<1>1. Inv => ActiveIsMonitored
  <2> SUFFICES ASSUME Inv, NEW u \in Units, u \notin former, stage[u] = "active"
               PROVE  \/ \A k \in Kinds : u \in Hears(owner[u], k)
                      \/ /\ u \in visited
                         /\ config.integration = "flask" /\ worker[u] = None => serving[owner[u]] # None
    BY DEF ActiveIsMonitored
  <2>1. owner[u] \in Threads
    BY DEF Inv, Started
  <2>2. CASE u \notin visited
    <3>1. worker[u] = Worker(owner[u]) /\ \A k \in Kinds : <<u, k, worker[u]>> \in conn
      BY <2>2 DEF Inv, Started
    <3> QED
      BY <3>1 DEF Hears
  <2>3. CASE u \in visited /\ Flask /\ worker[u] = None /\ serving[owner[u]] = None
    <3>1. Worker(owner[u]) = worker[u]
      BY <2>1, <2>3, WorkerIs DEF Inv
    <3>2. \A k \in Kinds : <<u, k, worker[u]>> \in conn
      BY <2>3, WorkersAssumption DEF Inv, Started
    <3> QED
      BY <3>1, <3>2 DEF Hears
  <2> QED
    BY <2>2, <2>3 DEF Flask
<1> QED
  BY <1>1, InitInv, NextInv, PTL DEF Spec

\* teardown() and __exit__ end all they can find; what they cannot was left by a
\* report that raised or lost its slot.
THEOREM LeaksAreKnown == Spec => []OnlyRaisedOrReplacedLeak
<1>1. Inv => OnlyRaisedOrReplacedLeak
  <2> SUFFICES ASSUME Inv, NEW c \in conn, stage[c[1]] = "active", c[1] \notin replaced
               PROVE  Endable(c[1])
    BY DEF Inv, Connected, OnlyRaisedOrReplacedLeak
  <2>1. c[1] \in Sessions \/ c[1] \in Profilers
    BY DEF Inv, TypeOK, Units
  <2> QED
    BY <2>1 DEF Inv, Held, Endable
<1> QED
  BY <1>1, InitInv, NextInv, PTL DEF Spec

\* With Django or Flask a listener hears another thread only through a reused
\* request id, a reused thread ident or, with Flask, outside of requests.
THEOREM SessionsAreIsolated == Spec => []ThreadsAreIsolated
<1>1. Inv => ThreadsAreIsolated
  <2> SUFFICES ASSUME Inv, NEW u \in Units, NEW how \in {"active", "left"}, <<u, how>> \in overheard
               PROVE  CASE config.integration = "none" -> TRUE
                        [] config.integration = "django" ->
                              worker[u] \in reused \/ (how = "left" /\ worker[u] = owner[u] /\ u \in former)
                        [] config.integration = "flask" -> worker[u] = None
    BY DEF ThreadsAreIsolated
  <2>1. config.integration \in {"none", "django", "flask"}
    BY ConfigAssumption DEF Inv, TypeOK
  <2>2. /\ Django => worker[u] \in reused \/ (how = "left" /\ worker[u] = owner[u] /\ u \in former)
        /\ Flask => worker[u] = None
    BY DEF Inv, Isolated
  <2> QED
    BY <2>1, <2>2 DEF Django, Flask
<1> QED
  BY <1>1, InitInv, NextInv, PTL DEF Spec

================================================================================
