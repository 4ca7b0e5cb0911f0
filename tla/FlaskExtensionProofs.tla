------------------------- MODULE FlaskExtensionProofs -------------------------
(***************************************************************************)
(* Flask requests do not hear one another.  That argument is about ids     *)
(* only and not about hooks: a listener is connected to the id of its own  *)
(* request, blinker drops the connection before that id can come back, and *)
(* request objects that live at the same time have distinct ids.           *)
(*                                                                         *)
(* What stays connected, and what is heard, is about the hooks: a request  *)
(* has one place on one stack, and what it connected is in g of that       *)
(* thread unless it was nested or its report raised.                       *)
(***************************************************************************)
EXTENDS FlaskExtension, TLAPS

\* Living request objects have distinct ids, requests to come have none.
Distinct ==
    /\ ident \in [Requests -> Ids \cup {NoId}]
    /\ stage \in [Requests -> {"new", "running", "erring", "closing", "ended"}]
    /\ \A r \in Requests : stage[r] = "new" => ident[r] = NoId
    /\ \A r, q \in Requests : ident[r] = ident[q] /\ ident[r] # NoId => r = q

\* A listener is connected to the id of its own request, which lives.
OwnId ==
    /\ conn \subseteq Requests \X Kinds \X Ids
    /\ \A r \in Requests : \A kind, i : <<r, kind, i>> \in conn => ident[r] = i

\* The inductive invariant.
Inv == Distinct /\ OwnId /\ Isolation

--------------------------------------------------------------------------------
\* It holds initially.
LEMMA InitInv == Init => Inv
  BY DEF Init, Inv, Distinct, OwnId, Isolation

\* What disconnects and touches no id keeps it.
LEMMA DisconnectingStep ==
    ASSUME Inv, conn' \subseteq conn, UNCHANGED <<ident, heard>>,
           stage' \in [Requests -> {"new", "running", "erring", "closing", "ended"}],
           \A r \in Requests : stage'[r] = "new" => stage[r] = "new"
    PROVE  Inv'
<1>1. Distinct'
  BY DEF Inv, Distinct
<1>2. OwnId'
  BY DEF Inv, OwnId
<1> QED
  BY <1>1, <1>2 DEF Inv, Isolation

\* A new request gets an id that no living one has.
LEMMA ArrivesDistinct ==
    ASSUME Inv, NEW r \in Requests, NEW t \in Threads, NEW i \in Ids, Arrives(r, t, i)
    PROVE  /\ Distinct'
           /\ ident'[r] = i
           /\ \A q \in Requests \ {r} : ident'[q] = ident[q]
           /\ \A kind, j : <<r, kind, j>> \notin conn
<1>1. ident' = [ident EXCEPT ![r] = i] /\ stage' = [stage EXCEPT ![r] = "running"]
  BY DEF Arrives
<1>2. stage[r] = "new" /\ \A q \in Requests : ident[q] # i
  BY DEF Arrives
<1>3. ident[r] = NoId
  BY <1>2 DEF Inv, Distinct
<1>4. \A kind, j : <<r, kind, j>> \notin conn
  BY <1>3, FlaskIdsAssumption DEF Inv, OwnId
<1>5. Distinct'
  BY <1>1, <1>2, FlaskIdsAssumption DEF Inv, Distinct
<1> QED
  BY <1>1, <1>4, <1>5 DEF Inv, Distinct

\* A listener that hears r is one of r.
LEMMA HearsItself ==
    ASSUME Inv, NEW r \in Requests, NEW kind, NEW q \in Hears(r, kind)
    PROVE  q = r
<1>1. q \in Requests /\ <<q, kind, ident[r]>> \in conn
  BY DEF Hears
<1>2. ident[q] = ident[r] /\ ident[r] \in Ids
  BY <1>1 DEF Inv, OwnId
<1> QED
  BY <1>1, <1>2, FlaskIdsAssumption DEF Inv, Distinct

\* Events keep it.
LEMMA EventInv ==
    ASSUME Inv, NEW r \in Requests, NEW t \in Threads,
           LoadEvent(r, t) \/ EagerEvent(r, t) \/ TouchEvent(r, t)
    PROVE  Inv'
<1>1. UNCHANGED <<ident, conn, stage>>
  BY DEF LoadEvent, EagerEvent, TouchEvent
<1>2. \A e \in heard' : e \in heard \/ \E kind \in Kinds : e \in {r} \X Hears(r, kind)
  BY DEF LoadEvent, EagerEvent, TouchEvent, Kinds
<1>3. Isolation'
  BY <1>2, HearsItself DEF Inv, Isolation
<1> QED
  BY <1>1, <1>3 DEF Inv, Distinct, OwnId

\* The hook before a request connects it to its own id.
LEMMA ConnectInv ==
    ASSUME Inv, NEW r \in Requests, NEW t \in Threads, NEW i \in Ids,
           Connect(r, t, i) \/ ConnectSkipped(r, t, i)
    PROVE  Inv'
<1>1. Arrives(r, t, i) /\ heard' = heard
  BY DEF Connect, ConnectSkipped
<1>2. \A c \in conn' : c \in conn \/ c \in {r} \X Kinds \X {i}
  BY DEF Connect, ConnectSkipped, Enabled, Kinds
<1>3. OwnId'
  <2>1. conn' \subseteq Requests \X Kinds \X Ids
    BY <1>2 DEF Inv, OwnId
  <2>2. ASSUME NEW q \in Requests, NEW kind, NEW j, <<q, kind, j>> \in conn' PROVE ident'[q] = j
    <3>1. CASE <<q, kind, j>> \in conn
      BY <3>1, <1>1, ArrivesDistinct DEF Inv, OwnId
    <3>2. CASE <<q, kind, j>> \in {r} \X Kinds \X {i}
      BY <3>2, <1>1, ArrivesDistinct
    <3> QED
      BY <2>2, <3>1, <3>2, <1>2
  <2> QED
    BY <2>1, <2>2 DEF OwnId
<1> QED
  BY <1>1, <1>3, ArrivesDistinct DEF Inv, Isolation

\* A request object that is freed takes its connections with it.
LEMMA FreeInv ==
    ASSUME Inv, NEW r \in Requests, Free(r)
    PROVE  Inv'
<1>1. /\ ident' = [ident EXCEPT ![r] = NoId]
      /\ conn' = {c \in conn : c[3] # ident[r]}
      /\ UNCHANGED <<stage, heard>>
  BY DEF Free
<1>2. Distinct'
  BY <1>1 DEF Inv, Distinct
<1>3. OwnId'
  <2>1. conn' \subseteq Requests \X Kinds \X Ids
    BY <1>1 DEF Inv, OwnId
  <2>2. ASSUME NEW q \in Requests, NEW kind, NEW j, <<q, kind, j>> \in conn' PROVE ident'[q] = j
    <3>1. ident[q] = j /\ j # ident[r]
      BY <2>2, <1>1 DEF Inv, OwnId
    <3> QED
      BY <3>1, <1>1 DEF Inv, Distinct
  <2> QED
    BY <2>1, <2>2 DEF OwnId
<1> QED
  BY <1>1, <1>2, <1>3 DEF Inv, Isolation

\* The ends of requests, in whatever order their hooks run, only disconnect.
LEMMA EndingInv ==
    ASSUME Inv, NEW r \in Requests, NEW t \in Threads, NEW skipEager \in BOOLEAN,
           \/ ViewFails(r, t) \/ Propagate(r, t) \/ TeardownRequest(r, t)
           \/ AfterRequest(r, t, skipEager) \/ HandleException(r, t, skipEager)
    PROVE  Inv'
<1>1. conn' \subseteq conn
  BY DEF ViewFails, Propagate, TeardownRequest, AfterRequest, HandleException, Disconnect,
     DisconnectRaises, Without
<1>2. UNCHANGED <<ident, heard>>
  BY DEF ViewFails, Propagate, TeardownRequest, AfterRequest, HandleException, Disconnect,
     DisconnectRaises
<1>3. \E s \in {"erring", "closing", "ended"} : stage' = [stage EXCEPT ![r] = s]
  BY DEF ViewFails, Propagate, TeardownRequest, AfterRequest, HandleException
<1>4. /\ stage' \in [Requests -> {"new", "running", "erring", "closing", "ended"}]
      /\ \A q \in Requests : stage'[q] = "new" => stage[q] = "new"
  BY <1>3 DEF Inv, Distinct
<1> QED
  BY <1>1, <1>2, <1>4, DisconnectingStep

\* Every step keeps it.
LEMMA NextInv == Inv /\ [Next]_vars => Inv'
<1> SUFFICES ASSUME Inv, [Next]_vars PROVE Inv'
  OBVIOUS
<1>1. CASE UNCHANGED vars
  BY <1>1 DEF vars, Inv, Distinct, OwnId, Isolation
<1>2. CASE Next
  BY <1>2, ConnectInv, EventInv, EndingInv, FreeInv DEF Next
<1> QED
  BY <1>1, <1>2

--------------------------------------------------------------------------------
\* A request's listeners hear that request only, for any number of requests, threads
\* and ids, whatever hooks raise, are skipped or run twice, and however requests nest:
\* what disconnect and ensure_cleanup leave behind goes with the request object.
THEOREM RequestsAreIsolated == Spec => []Isolation
<1>1. Inv => Isolation
  BY DEF Inv
<1> QED
  BY <1>1, InitInv, NextInv, PTL DEF Spec

--------------------------------------------------------------------------------
Positions(t) == 1..Len(stack[t])

\* The threads' stacks: a request that is being served has one place, one below
\* another runs and is shadowed, and g holds listeners of the thread's requests.
Placed ==
    /\ \A t \in Threads : \A n \in Positions(t) :
          stage[stack[t][n]] \in {"running", "erring", "closing"}
    /\ \A t, u \in Threads : \A n \in Positions(t), m \in Positions(u) :
          stack[t][n] = stack[u][m] => t = u /\ n = m
    /\ \A t \in Threads : \A n \in Positions(t) : n < Len(stack[t]) => stack[t][n] \in shadowed
    /\ \A t \in Threads : \A e \in g[t] : \E n \in Positions(t) : stack[t][n] = e[2]

\* A connection can still be found: its request is served, and has it in g.
Found ==
    \A c \in conn :
        \/ c[1] \in shadowed
        \/ c[1] \in raised /\ c[2] = "eager"
        \/ \E t \in Threads : Serves(t, c[1]) /\ <<c[2], c[1]>> \in g[t]

\* The inductive invariant about the hooks.
HookInv ==
    /\ TypeOK
    /\ Placed
    /\ Found
    /\ RunningIsMonitored
    /\ \A r \in detected : stage[r] # "new"

\* It holds initially.
LEMMA InitHooks == Init => HookInv
  BY FlaskConfigAssumption DEF Init, HookInv, TypeOK, Placed, Positions, Found, RunningIsMonitored

\* The innermost request has the last place.
LEMMA ServesLast ==
    ASSUME TypeOK, NEW t \in Threads, NEW r, Serves(t, r)
    PROVE  /\ Len(stack[t]) \in Positions(t) /\ stack[t][Len(stack[t])] = r
           /\ r \in Requests
  BY DEF TypeOK, Serves, Top, Positions

\* What g holds of a request that was not shadowed is of the innermost one.
LEMMA OwnersAreServed ==
    ASSUME HookInv, NEW t \in Threads, NEW r, Serves(t, r), NEW e \in g[t], e[2] \notin shadowed
    PROVE  e[2] = r
<1>1. PICK n \in Positions(t) : stack[t][n] = e[2]
  BY DEF HookInv, Placed
<1>2. n = Len(stack[t])
  BY <1>1 DEF HookInv, Placed, Positions, TypeOK
<1> QED
  BY <1>1, <1>2 DEF Serves, Top

\* Events, and exceptions on their way up, leave hooks, stacks and connections alone.
LEMMA QuietHooks ==
    ASSUME HookInv, NEW r \in Requests, NEW t \in Threads,
           LoadEvent(r, t) \/ EagerEvent(r, t) \/ TouchEvent(r, t) \/ ViewFails(r, t) \/ Propagate(r, t)
    PROVE  HookInv'
<1>1. UNCHANGED <<config, ident, stack, g, conn, detected, shadowed, raised>>
  BY DEF LoadEvent, EagerEvent, TouchEvent, ViewFails, Propagate, history
<1>2. unused' \subseteq Requests /\ heard' \subseteq Requests \X Requests
  BY DEF LoadEvent, EagerEvent, TouchEvent, ViewFails, Propagate, HookInv, TypeOK, Hears
<1>3. stage' = stage \/ (stage[r] # "new" /\ \E s \in {"erring", "closing"} : stage' = [stage EXCEPT ![r] = s])
  BY DEF LoadEvent, EagerEvent, TouchEvent, ViewFails, Propagate
<1>4. /\ stage' \in [Requests -> {"new", "running", "erring", "closing", "ended"}]
      /\ \A q \in Requests : stage'[q] = stage[q]
            \/ (stage[q] # "new" /\ stage'[q] \in {"erring", "closing"})
  BY <1>3 DEF HookInv, TypeOK
<1>5. TypeOK'
  BY <1>1, <1>2, <1>4 DEF HookInv, TypeOK
<1>6. Placed'
  <2>1. \A u \in Threads : \A n \in Positions(u) : stack[u][n] \in Requests
    BY DEF HookInv, TypeOK, Positions
  <2> QED
    BY <2>1, <1>1, <1>4 DEF HookInv, Placed, Positions
<1>7. Found'
  BY <1>1 DEF HookInv, Found, Serves, Top
<1>8. RunningIsMonitored'
  BY <1>1, <1>4 DEF HookInv, TypeOK, RunningIsMonitored, Enabled
<1>9. \A q \in detected' : stage'[q] # "new"
  BY <1>1, <1>4 DEF HookInv, TypeOK
<1> QED
  BY <1>5, <1>6, <1>7, <1>8, <1>9 DEF HookInv

\* What disconnect takes away, whether its report raises or not.
LEMMA DisconnectLeaves ==
    ASSUME HookInv, NEW r \in Requests, NEW t \in Threads, NEW skipEager \in BOOLEAN, Serves(t, r),
           Disconnect(r, t, skipEager) \/ DisconnectRaises(r, t, skipEager)
    PROVE  /\ UNCHANGED <<config, ident, stack, unused, heard, detected, shadowed>>
           /\ conn' \subseteq conn /\ \A c \in conn \ conn' : <<c[2], c[1]>> \in g[t]
           /\ g' \in [Threads -> SUBSET (Kinds \X Requests)]
           /\ \A u \in Threads : g'[u] \subseteq g[u] /\ (u # t => g'[u] = g[u])
           /\ raised \subseteq raised' /\ raised' \subseteq Requests
           /\ \A c \in conn' : <<c[2], c[1]>> \in g[t] =>
                 (c[1] \in raised' /\ c[2] = "eager") \/ <<c[2], c[1]>> \in g'[t]
<1>1. CASE Disconnect(r, t, skipEager)
  BY <1>1 DEF Disconnect, Without, HookInv, TypeOK, history
<1>2. CASE DisconnectRaises(r, t, skipEager)
  <2>1. /\ conn' = Without({e \in g[t] : e[1] = "lazy"})
        /\ g' = [g EXCEPT ![t] = {e \in @ : e[1] = "debug"}]
        /\ raised' = raised \cup {e[2] : e \in {d \in g[t] : d[1] = "eager"}}
        /\ UNCHANGED <<config, ident, stack, unused, heard, detected, shadowed>>
    BY <1>2 DEF DisconnectRaises
  <2>2. /\ g \in [Threads -> SUBSET (Kinds \X Requests)]
        /\ conn \subseteq Requests \X Kinds \X Ids
        /\ raised \subseteq Requests
    BY DEF HookInv, TypeOK
  <2>3. g' \in [Threads -> SUBSET (Kinds \X Requests)] /\ raised' \subseteq Requests
    BY <2>1, <2>2
  <2>4. \A u \in Threads : g'[u] \subseteq g[u] /\ (u # t => g'[u] = g[u])
    BY <2>1, <2>2
  <2>5. g'[t] = {e \in g[t] : e[1] = "debug"}
    BY <2>1, <2>2
  <2>6. conn' \subseteq conn /\ \A c \in conn \ conn' : <<c[2], c[1]>> \in g[t]
    BY <2>1 DEF Without
  <2>7. ASSUME NEW c \in conn', <<c[2], c[1]>> \in g[t]
        PROVE  (c[1] \in raised' /\ c[2] = "eager") \/ <<c[2], c[1]>> \in g'[t]
    <3>1. c[2] \in Kinds /\ c[2] # "lazy"
      BY <2>1, <2>2, <2>7 DEF Without
    <3>2. CASE c[2] = "eager"
      BY <3>2, <2>1, <2>7
    <3>3. CASE c[2] = "debug"
      BY <3>3, <2>5, <2>7
    <3> QED
      BY <3>1, <3>2, <3>3 DEF Kinds
  <2> QED
    BY <2>1, <2>3, <2>4, <2>6, <2>7
<1> QED
  BY <1>1, <1>2

\* The hook after a request keeps it.
LEMMA DisconnectHooks ==
    ASSUME HookInv, NEW r \in Requests, NEW t \in Threads, NEW skipEager \in BOOLEAN, Serves(t, r),
           Disconnect(r, t, skipEager) \/ DisconnectRaises(r, t, skipEager),
           NEW s \in {"erring", "closing"}, stage' = [stage EXCEPT ![r] = s]
    PROVE  HookInv'
<1>1. /\ stage' \in [Requests -> {"new", "running", "erring", "closing", "ended"}]
      /\ stage'[r] = s /\ \A q \in Requests \ {r} : stage'[q] = stage[q]
  BY DEF HookInv, TypeOK
<1>2. Placed'
  <2>1. \A u \in Threads : \A n \in Positions(u) : stack[u][n] \in Requests
    BY DEF HookInv, TypeOK, Positions
  <2>2. UNCHANGED <<stack, shadowed>> /\ \A u \in Threads : g'[u] \subseteq g[u]
    BY DisconnectLeaves
  <2> QED
    BY <2>1, <2>2, <1>1 DEF HookInv, Placed, Positions
<1>3. TypeOK'
  <2>1. \A u \in Threads : stack'[u] = <<>> => g'[u] = {}
    BY <1>2, DisconnectLeaves DEF HookInv, TypeOK
  <2> QED
    BY <2>1, <1>1, DisconnectLeaves DEF HookInv, TypeOK
<1>4. Found'
  <2> SUFFICES ASSUME NEW c \in conn', c[1] \notin shadowed, ~(c[1] \in raised' /\ c[2] = "eager")
               PROVE  \E u \in Threads : Serves(u, c[1])' /\ <<c[2], c[1]>> \in g'[u]
    BY DisconnectLeaves DEF Found
  <2>1. PICK u \in Threads : Serves(u, c[1]) /\ <<c[2], c[1]>> \in g[u]
    BY DisconnectLeaves DEF HookInv, Found
  <2>2. <<c[2], c[1]>> \in g'[u]
    BY <2>1, DisconnectLeaves
  <2>3. Serves(u, c[1])'
    BY <2>1, DisconnectLeaves DEF Serves, Top
  <2> QED
    BY <2>2, <2>3
<1>5. RunningIsMonitored'
  <2> SUFFICES ASSUME NEW q \in detected \ shadowed, stage'[q] = "running", NEW k \in Enabled
               PROVE  <<q, k, ident[q]>> \in conn'
    BY DisconnectLeaves DEF RunningIsMonitored, Enabled
  <2>1. q # r /\ q \in Requests
    BY <1>1 DEF HookInv, TypeOK
  <2>2. <<q, k, ident[q]>> \in conn
    BY <2>1, <1>1 DEF HookInv, RunningIsMonitored
  <2>3. <<k, q>> \notin g[t]
    BY <2>1, OwnersAreServed
  <2> QED
    BY <2>2, <2>3, DisconnectLeaves
<1>6. \A q \in detected' : stage'[q] # "new"
  BY <1>1, DisconnectLeaves DEF HookInv, TypeOK
<1> QED
  BY <1>2, <1>3, <1>4, <1>5, <1>6 DEF HookInv

\* A thread's stack with a request more.
LEMMA StackPushed ==
    ASSUME TypeOK, NEW r \in Requests, NEW t \in Threads, stack' = [stack EXCEPT ![t] = Append(@, r)]
    PROVE  /\ stack' \in [Threads -> Seq(Requests)]
           /\ \A u \in Threads \ {t} : stack'[u] = stack[u]
           /\ Len(stack'[t]) = Len(stack[t]) + 1 /\ Len(stack[t]) \in Nat
           /\ stack'[t][Len(stack[t]) + 1] = r
           /\ \A n \in Positions(t) : stack'[t][n] = stack[t][n]
<1>1. stack[t] \in Seq(Requests) /\ stack'[t] = Append(stack[t], r)
  BY DEF TypeOK
<1> QED
  BY <1>1 DEF TypeOK, Positions

\* And with the innermost one less.
LEMMA StackPopped ==
    ASSUME TypeOK, NEW t \in Threads, stack[t] # <<>>,
           stack' = [stack EXCEPT ![t] = SubSeq(@, 1, Len(@) - 1)]
    PROVE  /\ stack' \in [Threads -> Seq(Requests)]
           /\ \A u \in Threads \ {t} : stack'[u] = stack[u]
           /\ Len(stack'[t]) = Len(stack[t]) - 1 /\ Len(stack[t]) \in Nat \ {0}
           /\ \A n \in 1..(Len(stack[t]) - 1) : stack'[t][n] = stack[t][n]
<1>1. stack[t] \in Seq(Requests) /\ stack'[t] = SubSeq(stack[t], 1, Len(stack[t]) - 1)
  BY DEF TypeOK
<1>2. Len(stack[t]) \in Nat \ {0}
  BY <1>1
<1>3. stack'[t] \in Seq(Requests)
  BY <1>1, <1>2
<1>4. Len(stack'[t]) = Len(stack[t]) - 1 /\ \A n \in 1..(Len(stack[t]) - 1) : stack'[t][n] = stack[t][n]
  BY <1>1, <1>2
<1>5. \A u \in Threads \ {t} : stack'[u] = stack[u]
  BY DEF TypeOK
<1>6. stack' \in [Threads -> Seq(Requests)]
  BY <1>3, <1>5 DEF TypeOK
<1> QED
  BY <1>2, <1>4, <1>5, <1>6

\* A new request is on no stack yet.
LEMMA ArrivesPlaced ==
    ASSUME HookInv, NEW r \in Requests, NEW t \in Threads, NEW i \in Ids, Arrives(r, t, i),
           \A u \in Threads : \A e \in g'[u] : e \in g[u] \/ (u = t /\ e[2] = r)
    PROVE  Placed'
<1>1. /\ stage' = [stage EXCEPT ![r] = "running"]
      /\ stack' = [stack EXCEPT ![t] = Append(@, r)]
      /\ stage[r] = "new"
  BY DEF Arrives
<1>2. \A u \in Threads : \A n \in Positions(u) : stack[u][n] \in Requests /\ stack[u][n] # r
  <2> SUFFICES ASSUME NEW u \in Threads, NEW n \in Positions(u)
               PROVE  stack[u][n] \in Requests /\ stack[u][n] # r
    OBVIOUS
  <2>1. stack[u] \in Seq(Requests) /\ n \in 1..Len(stack[u])
    BY DEF HookInv, TypeOK, Positions
  <2>2. stage[stack[u][n]] # "new"
    BY DEF HookInv, Placed
  <2> QED
    BY <1>1, <2>1, <2>2
<1>3. /\ \A u \in Threads \ {t} : stack'[u] = stack[u]
      /\ Len(stack'[t]) = Len(stack[t]) + 1 /\ Len(stack[t]) \in Nat
      /\ stack'[t][Len(stack[t]) + 1] = r
      /\ \A n \in Positions(t) : stack'[t][n] = stack[t][n]
  BY <1>1, StackPushed DEF HookInv
<1>4. \A u \in Threads : \A n \in Positions(u)' :
        \/ n \in Positions(u) /\ stack'[u][n] = stack[u][n]
        \/ u = t /\ n = Len(stack[t]) + 1 /\ stack'[u][n] = r
  BY <1>3 DEF Positions
<1>5. \A u \in Threads : \A n \in Positions(u) : n \in Positions(u)' /\ stack'[u][n] = stack[u][n]
  BY <1>3 DEF Positions
<1>6. \A u \in Threads : \A n \in Positions(u)' : stage'[stack'[u][n]] \in {"running", "erring", "closing"}
  <2>1. stage \in [Requests -> {"new", "running", "erring", "closing", "ended"}]
    BY DEF HookInv, TypeOK
  <2>2. \A u \in Threads : \A n \in Positions(u) : stage'[stack[u][n]] = stage[stack[u][n]]
    BY <2>1, <1>1, <1>2
  <2>3. stage'[r] = "running"
    BY <2>1, <1>1
  <2> QED
    BY <2>2, <2>3, <1>4 DEF HookInv, Placed
<1>7. \A u, v \in Threads : \A n \in Positions(u)', m \in Positions(v)' :
        stack'[u][n] = stack'[v][m] => u = v /\ n = m
  BY <1>2, <1>4 DEF HookInv, Placed
<1>8. ASSUME NEW u \in Threads, NEW n \in Positions(u)', n < Len(stack'[u])
      PROVE  stack'[u][n] \in shadowed'
  <2>1. n \in Positions(u) /\ stack'[u][n] = stack[u][n]
    BY <1>3, <1>4, <1>8
  <2>2. CASE n < Len(stack[u])
    <3>1. stack[u][n] \in shadowed
      BY <2>1, <2>2 DEF HookInv, Placed
    <3>2. shadowed \subseteq shadowed'
      BY DEF Arrives
    <3> QED
      BY <2>1, <3>1, <3>2
  <2>3. CASE ~(n < Len(stack[u]))
    <3>1. u = t /\ n = Len(stack[t])
      BY <2>1, <2>3, <1>3, <1>8 DEF Positions, HookInv, TypeOK
    <3>2. stack[t] # <<>>
      BY <2>1, <3>1 DEF Positions
    <3> QED
      BY <2>1, <3>1, <3>2 DEF Arrives, Top
  <2> QED
    BY <2>2, <2>3
<1>9. \A u \in Threads : \A e \in g'[u] : \E n \in Positions(u)' : stack'[u][n] = e[2]
  <2> SUFFICES ASSUME NEW u \in Threads, NEW e \in g'[u]
               PROVE  \E n \in Positions(u)' : stack'[u][n] = e[2]
    OBVIOUS
  <2>1. CASE e \in g[u]
    BY <2>1, <1>5 DEF HookInv, Placed
  <2>2. CASE u = t /\ e[2] = r
    <3>1. Len(stack[t]) + 1 \in Positions(t)'
      BY <1>3 DEF Positions
    <3> QED
      BY <3>1, <2>2, <1>3
  <2> QED
    BY <2>1, <2>2
<1> QED
  BY <1>6, <1>7, <1>8, <1>9 DEF Placed

\* The hook before a request, or its absence, keeps it.
LEMMA ConnectHooks ==
    ASSUME HookInv, Inv, NEW r \in Requests, NEW t \in Threads, NEW i \in Ids,
           Connect(r, t, i) \/ ConnectSkipped(r, t, i)
    PROVE  HookInv'
<1>1. Arrives(r, t, i) /\ UNCHANGED <<config, unused, heard, raised>>
  BY DEF Connect, ConnectSkipped
<1>2. /\ stage' = [stage EXCEPT ![r] = "running"] /\ stage[r] = "new"
      /\ ident' = [ident EXCEPT ![r] = i]
      /\ stack' = [stack EXCEPT ![t] = Append(@, r)]
      /\ shadowed' = IF stack[t] = <<>> THEN shadowed ELSE shadowed \cup {Top(t)}
  BY <1>1 DEF Arrives
<1>3. Enabled \subseteq Kinds
  BY DEF Enabled, Kinds
<1>4. /\ g' \in [Threads -> SUBSET (Kinds \X Requests)]
      /\ \A u \in Threads \ {t} : g'[u] = g[u]
      /\ \A u \in Threads : \A e \in g'[u] : e \in g[u] \/ (u = t /\ e[2] = r)
  BY <1>3 DEF Connect, ConnectSkipped, HookInv, TypeOK
<1>5. Placed'
  BY <1>1, <1>4, ArrivesPlaced
<1>6. /\ conn \subseteq conn' /\ conn' \subseteq Requests \X Kinds \X Ids
      /\ \A c \in conn' \ conn : c[1] = r /\ <<c[2], c[1]>> \in g'[t]
  BY <1>3 DEF Connect, ConnectSkipped, HookInv, TypeOK
<1>7. \A u \in Threads : Serves(u, Top(u)) => Top(u) \in Requests
  BY ServesLast DEF HookInv
<1>8. TypeOK'
  <2>1. stack' \in [Threads -> Seq(Requests)]
    BY <1>2, StackPushed DEF HookInv
  <2>2. \A u \in Threads : stack'[u] = <<>> => g'[u] = {}
    BY <1>5 DEF Placed, Positions
  <2>3. shadowed' \subseteq Requests
    BY <1>2, <1>7 DEF Serves, HookInv, TypeOK
  <2>4. detected' \subseteq Requests
    BY DEF Connect, ConnectSkipped, HookInv, TypeOK
  <2> QED
    BY <2>1, <2>2, <2>3, <2>4, <1>1, <1>2, <1>4, <1>6 DEF HookInv, TypeOK
<1>9. Serves(t, r)'
  <2>1. Len(stack'[t]) = Len(stack[t]) + 1 /\ stack'[t][Len(stack[t]) + 1] = r /\ Len(stack[t]) \in Nat
    BY <1>2, StackPushed DEF HookInv
  <2> QED
    BY <2>1, <1>8 DEF Serves, Top, TypeOK
<1>10. Found'
  <2> SUFFICES ASSUME NEW c \in conn', c[1] \notin shadowed', ~(c[1] \in raised' /\ c[2] = "eager")
               PROVE  \E u \in Threads : Serves(u, c[1])' /\ <<c[2], c[1]>> \in g'[u]
    BY DEF Found
  <2>1. CASE c \notin conn
    BY <2>1, <1>6, <1>9
  <2>2. CASE c \in conn
    <3>1. c[1] \notin shadowed
      BY <1>2
    <3>2. PICK u \in Threads : Serves(u, c[1]) /\ <<c[2], c[1]>> \in g[u]
      BY <2>2, <3>1, <1>1 DEF HookInv, Found
    <3>3. u # t
      BY <3>2, <1>2 DEF Serves
    <3>4. stack'[u] = stack[u] /\ g'[u] = g[u]
      BY <3>3, <1>2, <1>4 DEF HookInv, TypeOK
    <3> QED
      BY <3>2, <3>4 DEF Serves, Top
  <2> QED
    BY <2>1, <2>2
<1>11. \A q \in detected' : q # r => q \in detected
  BY DEF Connect, ConnectSkipped
<1>12. r \in detected' => {r} \X Enabled \X {i} \subseteq conn'
  BY <1>2 DEF Connect, ConnectSkipped, HookInv
<1>13. RunningIsMonitored'
  <2> SUFFICES ASSUME NEW q \in detected' \ shadowed', stage'[q] = "running", NEW k \in Enabled
               PROVE  <<q, k, ident'[q]>> \in conn'
    BY <1>1 DEF RunningIsMonitored, Enabled
  <2>1. q \in Requests
    BY <1>8 DEF TypeOK
  <2>2. CASE q = r
    BY <2>2, <1>2, <1>12 DEF HookInv, TypeOK
  <2>3. CASE q # r
    <3>1. q \in detected \ shadowed /\ stage[q] = "running" /\ ident'[q] = ident[q]
      BY <2>1, <2>3, <1>2, <1>11 DEF HookInv, TypeOK
    <3> QED
      BY <3>1, <1>6 DEF HookInv, RunningIsMonitored
  <2> QED
    BY <2>2, <2>3
<1>14. \A q \in detected' : stage'[q] # "new"
  BY <1>2, <1>8, <1>11 DEF HookInv, TypeOK
<1> QED
  BY <1>5, <1>8, <1>10, <1>13, <1>14 DEF HookInv

\* The teardown takes the request off its stack, and what g holds with it: of the
\* requests below, all shadowed, nothing is left in g.
LEMMA TeardownHooks ==
    ASSUME HookInv, NEW r \in Requests, NEW t \in Threads, TeardownRequest(r, t)
    PROVE  HookInv'
<1>1. /\ Serves(t, r) /\ stage[r] = "closing"
      /\ stage' = [stage EXCEPT ![r] = "ended"]
      /\ stack' = [stack EXCEPT ![t] = SubSeq(@, 1, Len(@) - 1)]
      /\ conn' = Without(g[t]) /\ g' = [g EXCEPT ![t] = {}]
      /\ UNCHANGED <<config, ident, unused, heard, detected, shadowed, raised>>
  BY DEF TeardownRequest, history
<1>2. /\ stack' \in [Threads -> Seq(Requests)]
      /\ \A u \in Threads \ {t} : stack'[u] = stack[u]
      /\ Len(stack'[t]) = Len(stack[t]) - 1 /\ Len(stack[t]) \in Nat \ {0}
      /\ \A n \in 1..(Len(stack[t]) - 1) : stack'[t][n] = stack[t][n]
  BY <1>1, StackPopped DEF HookInv, Serves
<1>3. /\ g' \in [Threads -> SUBSET (Kinds \X Requests)] /\ g'[t] = {}
      /\ \A u \in Threads \ {t} : g'[u] = g[u]
  BY <1>1 DEF HookInv, TypeOK
<1>4. conn' \subseteq conn /\ \A c \in conn : c \notin conn' <=> <<c[2], c[1]>> \in g[t]
  BY <1>1 DEF Without
<1>5. /\ stage' \in [Requests -> {"new", "running", "erring", "closing", "ended"}]
      /\ stage'[r] = "ended" /\ \A q \in Requests \ {r} : stage'[q] = stage[q]
  BY <1>1 DEF HookInv, TypeOK
<1>6. \A u \in Threads : \A n \in Positions(u)' :
        n \in Positions(u) /\ stack'[u][n] = stack[u][n] /\ (u = t => n < Len(stack[t]))
  BY <1>2 DEF Positions
<1>7. Len(stack[t]) \in Positions(t) /\ stack[t][Len(stack[t])] = r
  BY <1>1, ServesLast DEF HookInv
<1>8. \A u \in Threads : \A n \in Positions(u) : stack[u][n] \in Requests
  BY DEF HookInv, TypeOK, Positions
<1>9. \A u \in Threads : \A n \in Positions(u)' : stack'[u][n] # r
  <2> SUFFICES ASSUME NEW u \in Threads, NEW n \in Positions(u)', stack[u][n] = r PROVE FALSE
    BY <1>6
  <2>1. u = t /\ n = Len(stack[t])
    BY <1>6, <1>7 DEF HookInv, Placed
  <2> QED
    BY <2>1, <1>2, <1>6
<1>10. Placed'
  <2>1. \A u \in Threads : \A n \in Positions(u)' : stage'[stack'[u][n]] \in {"running", "erring", "closing"}
    BY <1>5, <1>6, <1>8, <1>9 DEF HookInv, Placed
  <2>2. \A u, v \in Threads : \A n \in Positions(u)', m \in Positions(v)' :
            stack'[u][n] = stack'[v][m] => u = v /\ n = m
    BY <1>6 DEF HookInv, Placed
  <2>3. ASSUME NEW u \in Threads, NEW n \in Positions(u)', n < Len(stack'[u])
        PROVE  stack'[u][n] \in shadowed'
    <3>1. n < Len(stack[u])
      BY <2>3, <1>2, <1>6
    <3>2. n \in Positions(u) /\ stack'[u][n] = stack[u][n]
      BY <1>6
    <3>3. stack[u][n] \in shadowed
      BY <3>1, <3>2 DEF HookInv, Placed
    <3> QED
      BY <3>2, <3>3, <1>1
  <2>4. \A u \in Threads : \A e \in g'[u] : \E n \in Positions(u)' : stack'[u][n] = e[2]
    <3> SUFFICES ASSUME NEW u \in Threads, NEW e \in g'[u]
                 PROVE  \E n \in Positions(u)' : stack'[u][n] = e[2]
      OBVIOUS
    <3>1. u # t /\ g'[u] = g[u]
      BY <1>3
    <3>2. stack'[u] = stack[u]
      BY <3>1, <1>2
    <3>3. Positions(u)' = Positions(u)
      BY <3>2 DEF Positions
    <3> QED
      BY <3>1, <3>2, <3>3 DEF HookInv, Placed
  <2> QED
    BY <2>1, <2>2, <2>3, <2>4 DEF Placed
<1>11. TypeOK'
  <2>1. \A u \in Threads : stack'[u] = <<>> => g'[u] = {}
    BY <1>2, <1>3 DEF HookInv, TypeOK
  <2> QED
    BY <2>1, <1>1, <1>2, <1>3, <1>4, <1>5 DEF HookInv, TypeOK
<1>12. Found'
  <2> SUFFICES ASSUME NEW c \in conn', c[1] \notin shadowed, ~(c[1] \in raised /\ c[2] = "eager")
               PROVE  \E u \in Threads : Serves(u, c[1])' /\ <<c[2], c[1]>> \in g'[u]
    BY <1>1 DEF Found
  <2>1. PICK u \in Threads : Serves(u, c[1]) /\ <<c[2], c[1]>> \in g[u]
    BY <1>4 DEF HookInv, Found
  <2>2. u # t
    BY <2>1, <1>4
  <2> QED
    BY <2>1, <2>2, <1>2, <1>3 DEF Serves, Top
<1>13. RunningIsMonitored'
  <2> SUFFICES ASSUME NEW q \in detected \ shadowed, stage'[q] = "running", NEW k \in Enabled
               PROVE  <<q, k, ident[q]>> \in conn'
    BY <1>1 DEF RunningIsMonitored, Enabled
  <2>1. q # r /\ q \in Requests
    BY <1>5 DEF HookInv, TypeOK
  <2>2. <<q, k, ident[q]>> \in conn
    BY <2>1, <1>5 DEF HookInv, RunningIsMonitored
  <2>3. <<k, q>> \notin g[t]
    BY <2>1, <1>1, OwnersAreServed
  <2> QED
    BY <2>2, <2>3, <1>4
<1>14. \A q \in detected' : stage'[q] # "new"
  BY <1>1, <1>5 DEF HookInv, TypeOK
<1> QED
  BY <1>10, <1>11, <1>12, <1>13, <1>14 DEF HookInv

\* A request object that is freed takes its own connections only.
LEMMA FreeHooks ==
    ASSUME HookInv, Inv, NEW r \in Requests, Free(r)
    PROVE  HookInv'
<1>1. /\ stage[r] = "ended" /\ ident[r] # NoId
      /\ ident' = [ident EXCEPT ![r] = NoId]
      /\ conn' = {c \in conn : c[3] # ident[r]}
      /\ UNCHANGED <<config, stage, stack, g, unused, heard, detected, shadowed, raised>>
  BY DEF Free, history
<1>2. TypeOK'
  BY <1>1 DEF HookInv, TypeOK
<1>3. Placed'
  BY <1>1 DEF HookInv, Placed, Positions
<1>4. Found'
  BY <1>1 DEF HookInv, Found, Serves, Top
<1>5. RunningIsMonitored'
  <2> SUFFICES ASSUME NEW q \in detected \ shadowed, stage[q] = "running", NEW k \in Enabled
               PROVE  <<q, k, ident'[q]>> \in conn'
    BY <1>1 DEF RunningIsMonitored, Enabled
  <2>1. q # r /\ q \in Requests
    BY <1>1 DEF HookInv, TypeOK
  <2>2. ident'[q] = ident[q] /\ ident[q] # ident[r]
    BY <2>1, <1>1 DEF Inv, Distinct
  <2>3. <<q, k, ident[q]>> \in conn
    BY DEF HookInv, RunningIsMonitored
  <2> QED
    BY <2>2, <2>3, <1>1
<1> QED
  BY <1>1, <1>2, <1>3, <1>4, <1>5 DEF HookInv

\* Every step keeps it.
LEMMA NextHooks == HookInv /\ Inv /\ [Next]_vars => HookInv'
<1> SUFFICES ASSUME HookInv, Inv, [Next]_vars PROVE HookInv'
  OBVIOUS
<1>1. CASE UNCHANGED vars
  BY <1>1 DEF vars, history, HookInv, TypeOK, Placed, Positions, Found, Serves, Top, RunningIsMonitored, Enabled
<1>2. ASSUME NEW r \in Requests, NEW t \in Threads, NEW skipEager \in BOOLEAN,
             AfterRequest(r, t, skipEager) \/ HandleException(r, t, skipEager)
      PROVE  HookInv'
  <2>1. PICK s \in {"erring", "closing"} : stage' = [stage EXCEPT ![r] = s]
    BY <1>2 DEF AfterRequest, HandleException
  <2>2. Serves(t, r) /\ (Disconnect(r, t, skipEager) \/ DisconnectRaises(r, t, skipEager))
    BY <1>2 DEF AfterRequest, HandleException
  <2> QED
    BY <2>1, <2>2, DisconnectHooks
<1> QED
  BY <1>1, <1>2, QuietHooks, ConnectHooks, TeardownHooks, FreeHooks DEF Next

\* So it is an invariant.
LEMMA HooksInv == Spec => [](HookInv /\ Inv)
  BY InitInv, InitHooks, NextInv, NextHooks, PTL DEF Spec

\* Types, and a thread that serves no request has nothing in g, for any requests,
\* threads, ids, settings and depth.
THEOREM FlaskTypes == Spec => []TypeOK
<1>1. HookInv => TypeOK
  BY DEF HookInv
<1> QED
  BY <1>1, HooksInv, PTL

\* However its hooks run - skipped, twice, raising, with a response or without - a
\* request that has ended left a listener connected only if its eager report raised
\* or a nested request replaced its entries in g.
THEOREM LeaksAreOfRaisedReports == Spec => []OnlyRaisedReportsLeak
<1>1. HookInv => OnlyRaisedReportsLeak
  <2> SUFFICES ASSUME HookInv, NEW c \in conn, c[1] \notin shadowed, ~(c[1] \in raised /\ c[2] = "eager")
               PROVE  stage[c[1]] # "ended"
    BY DEF OnlyRaisedReportsLeak
  <2>1. PICK t \in Threads : Serves(t, c[1])
    BY DEF HookInv, Found
  <2>2. Len(stack[t]) \in Positions(t) /\ stack[t][Len(stack[t])] = c[1]
    BY <2>1, ServesLast DEF HookInv
  <2>3. stage[c[1]] \in {"running", "erring", "closing"}
    BY <2>2 DEF HookInv, Placed
  <2> QED
    BY <2>3
<1> QED
  BY <1>1, HooksInv, PTL

\* Until it is answered a request that connected, and during which no other one was
\* served on its thread, keeps all its listeners: hooks, teardowns and the end of
\* other request objects never take them.
THEOREM RunningRequestsAreMonitored == Spec => []RunningIsMonitored
<1>1. HookInv => RunningIsMonitored
  BY DEF HookInv
<1> QED
  BY <1>1, HooksInv, PTL

================================================================================
