-------------------------- MODULE DjangoMiddlewareProofs --------------------------
(***************************************************************************)
(* What DjangoMiddleware guarantees for every number of requests, contexts *)
(* and ids.  The argument: ids of living requests differ and a context     *)
(* serves one request at a time, so that the worker bound in process_request *)
(* stays the worker of its context until the request ends (Bound); and     *)
(* everything a listener connected is still known to the dictionary when   *)
(* the request ends, unless its teardown raised (Registered).              *)
(***************************************************************************)
EXTENDS DjangoMiddleware, SequenceTheorems, TLAPS

\* Only living requests have an id, each one its own; those served have a context.
Distinct ==
    /\ \A r \in Requests : stage[r] = "new" => ident[r] = NoId
    /\ \A r \in Requests : Running(r) => ident[r] \in Ids /\ context[r] \in Contexts
    /\ \A r, q \in Requests : ident[r] = ident[q] /\ ident[r] # NoId => r = q
    /\ \A r, q \in Requests : Running(r) /\ Running(q) /\ context[r] = context[q] => r = q

\* A detected request is connected to its own id, which is its context's worker.
Bound ==
    \A r \in Requests \ Excluded : Running(r) =>
        /\ ctxvar[context[r]] = ident[r]
        /\ <<r, "lazy", ident[r]>> \in conn
        /\ <<r, "eager", ident[r]>> \in conn

\* A connected listener is one the dictionary still has, of a request that is
\* served, or one left behind by an abnormal end.
Registered ==
    \A c \in conn :
        \/ Running(c[1]) /\ c[2] \in listeners[c[1]] /\ c[3] = ident[c[1]]
        \/ stage[c[1]] = "raised" /\ c[2] = "eager"
        \/ stage[c[1]] = "cancelled"

\* The inductive invariant.
Inv == TypeOK /\ Distinct /\ Bound /\ Registered

--------------------------------------------------------------------------------
\* The batches that remain when that of r is popped are batches.
LEMMA PoppedType ==
    ASSUME NEW S, NEW b \in Seq(S), NEW r
    PROVE  Popped(b, r) \in Seq(S)
<1>1. CASE \E i \in 1..Len(b) : b[i].req = r
  <2> DEFINE k == CHOOSE i \in 1..Len(b) : b[i].req = r
  <2>1. k \in 1..Len(b)
    BY <1>1
  <2> HIDE DEF k
  <2>2. /\ k - 1 \in Int /\ k + 1 \in Int /\ Len(b) \in Int
        /\ \A i \in 1..k - 1 : b[i] \in S
        /\ \A i \in k + 1..Len(b) : b[i] \in S
    BY <2>1
  <2>3. SubSeq(b, 1, k - 1) \in Seq(S) /\ SubSeq(b, k + 1, Len(b)) \in Seq(S)
    BY <2>2, SubSeqProperties
  <2>4. Popped(b, r) = SubSeq(b, 1, k - 1) \o SubSeq(b, k + 1, Len(b))
    BY <1>1 DEF Popped, k
  <2> QED
    BY <2>3, <2>4
<1>2. CASE ~\E i \in 1..Len(b) : b[i].req = r
  BY <1>2 DEF Popped
<1> QED
  BY <1>1, <1>2

\* Inv holds initially.
LEMMA InitInv == Init => Inv
BY IdsAssumption DEF Init, Inv, TypeOK, Distinct, Bound, Registered, Running, Kinds, Workers, Ended

\* A notification keeps the batches well formed.
LEMMA CollectedType ==
    ASSUME NEW r \in Requests, batch \in Seq([req : Requests, msgs : SUBSET Requests])
    PROVE  Collected(r) \in Seq([req : Requests, msgs : SUBSET Requests])
<1> DEFINE Batch == [req : Requests, msgs : SUBSET Requests]
<1>1. CASE config.batch /\ batch # <<>>
  <2>1. 1 \in 1..Len(batch) /\ batch[1] \in Batch
    <3> HIDE DEF Batch
    <3>1. batch \in Seq(Batch)
      BY DEF Batch
    <3> QED
      BY <3>1, <1>1, EmptySeq
  <2>2. [batch[1] EXCEPT !.msgs = batch[1].msgs \cup {r}] \in Batch
    BY <2>1
  <2>3. Collected(r) = [batch EXCEPT ![1] = [batch[1] EXCEPT !.msgs = batch[1].msgs \cup {r}]]
    BY <1>1, <2>1 DEF Collected
  <2> QED
    BY <2>1, <2>2, <2>3
<1>2. CASE ~(config.batch /\ batch # <<>>)
  BY <1>2 DEF Collected
<1> QED
  BY <1>1, <1>2

\* The id a request arrives with belongs to no other request.
LEMMA ArrivesFresh ==
    ASSUME Inv, NEW r \in Requests, NEW c \in Contexts, NEW i \in Ids, Arrives(r, c, i)
    PROVE  /\ stage' \in [Requests -> {"new", "running"} \cup Ended]
           /\ ident' \in [Requests -> Ids \cup {NoId}]
           /\ context' \in [Requests -> Contexts \cup {NoId}]
           /\ stage'[r] = "running" /\ ident'[r] = i /\ context'[r] = c
           /\ \A q \in Requests \ {r} :
                 stage'[q] = stage[q] /\ ident'[q] = ident[q] /\ context'[q] = context[q]
           /\ Distinct'
<1>1. /\ stage' \in [Requests -> {"new", "running"} \cup Ended]
      /\ ident' \in [Requests -> Ids \cup {NoId}]
      /\ context' \in [Requests -> Contexts \cup {NoId}]
      /\ stage'[r] = "running" /\ ident'[r] = i /\ context'[r] = c
      /\ \A q \in Requests \ {r} :
            stage'[q] = stage[q] /\ ident'[q] = ident[q] /\ context'[q] = context[q]
  BY DEF Inv, TypeOK, Arrives
<1>2. \A q \in Requests \ {r} : ident[q] # i /\ (Running(q) => context[q] # c)
  BY DEF Arrives
<1>3. Distinct'
  BY <1>1, <1>2, IdsAssumption DEF Inv, Distinct, Running
<1> QED
  BY <1>1, <1>3

\* Nothing is connected or registered for a request that has not arrived.
LEMMA NewIsUnknown ==
    ASSUME Inv, NEW r \in Requests, stage[r] = "new"
    PROVE  \A c \in conn : c[1] # r
BY DEF Inv, Registered, Running

\* Setting up a request keeps Inv.
LEMMA ProcessRequestInv ==
    ASSUME Inv, NEW r \in Requests, NEW c \in Contexts, NEW i \in Ids, ProcessRequest(r, c, i)
    PROVE  Inv'
<1>1. /\ r \notin Excluded /\ Arrives(r, c, i)
      /\ ctxvar' = [ctxvar EXCEPT ![c] = i]
      /\ listeners' = [listeners EXCEPT ![r] = Enabled]
      /\ conn' = conn \cup ({r} \X Enabled \X {i})
      /\ batch' = IF config.batch THEN Append(batch, [req |-> r, msgs |-> {}]) ELSE batch
      /\ UNCHANGED <<config, unused, heard>>
  BY DEF ProcessRequest, SetUp
<1>2. stage[r] = "new"
  BY <1>1 DEF Arrives
<1>3. Enabled \subseteq Kinds /\ "lazy" \in Enabled /\ "eager" \in Enabled
  BY DEF Enabled, Kinds
<1>4. TypeOK'
  <2>1. ctxvar' \in [Contexts -> Ids \cup {NoId}] /\ listeners' \in [Requests -> SUBSET Kinds]
    BY <1>1, <1>3 DEF Inv, TypeOK
  <2>2. conn' \subseteq Requests \X Kinds \X Workers
    BY <1>1, <1>3 DEF Inv, TypeOK, Workers
  <2>3. batch' \in Seq([req : Requests, msgs : SUBSET Requests])
    <3>1. [req |-> r, msgs |-> {}] \in [req : Requests, msgs : SUBSET Requests]
      OBVIOUS
    <3> QED
      BY <3>1, <1>1, AppendProperties DEF Inv, TypeOK
  <2> QED
    BY <1>1, <2>1, <2>2, <2>3, ArrivesFresh DEF Inv, TypeOK
<1>5. Bound'
  <2> SUFFICES ASSUME NEW q \in Requests \ Excluded, Running(q)'
               PROVE  /\ ctxvar'[context'[q]] = ident'[q]
                      /\ <<q, "lazy", ident'[q]>> \in conn'
                      /\ <<q, "eager", ident'[q]>> \in conn'
    BY DEF Bound
  <2>1. CASE q = r
    BY <2>1, <1>1, <1>3, ArrivesFresh DEF Inv, TypeOK
  <2>2. CASE q # r
    <3>1. Running(q) /\ context'[q] = context[q] /\ ident'[q] = ident[q]
      BY <2>2, <1>1, ArrivesFresh DEF Running
    <3>2. context[q] # c /\ context[q] \in Contexts
      BY <3>1, <2>2, <1>1 DEF Arrives, Inv, Distinct
    <3> QED
      BY <3>1, <3>2, <1>1 DEF Inv, Bound, TypeOK
  <2> QED
    BY <2>1, <2>2
<1>6. Registered'
  <2> SUFFICES ASSUME NEW x \in conn'
               PROVE  \/ Running(x[1])' /\ x[2] \in listeners'[x[1]] /\ x[3] = ident'[x[1]]
                      \/ stage'[x[1]] = "raised" /\ x[2] = "eager"
                      \/ stage'[x[1]] = "cancelled"
    BY DEF Registered
  <2>1. CASE x \in conn
    <3>1. x[1] \in Requests /\ x[1] # r
      BY <2>1, <1>2, NewIsUnknown DEF Inv, TypeOK
    <3> QED
      BY <2>1, <3>1, <1>1, ArrivesFresh DEF Inv, Registered, Running, TypeOK
  <2>2. CASE x \in {r} \X Enabled \X {i}
    BY <2>2, <1>1, ArrivesFresh DEF Running, Inv, TypeOK
  <2> QED
    BY <2>1, <2>2, <1>1
<1> QED
  BY <1>1, <1>4, <1>5, <1>6, ArrivesFresh DEF Inv

\* An excluded request changes no binding of a detected one.
LEMMA ProcessExcludedInv ==
    ASSUME Inv, NEW r \in Requests, NEW c \in Contexts, NEW i \in Ids, ProcessExcluded(r, c, i)
    PROVE  Inv'
<1>1. /\ r \in Excluded /\ Arrives(r, c, i)
      /\ UNCHANGED <<config, ctxvar, listeners, conn, unused, batch, heard>>
  BY DEF ProcessExcluded
<1>2. stage[r] = "new"
  BY <1>1 DEF Arrives
<1>3. TypeOK'
  BY <1>1, ArrivesFresh DEF Inv, TypeOK
<1>4. Bound'
  BY <1>1, ArrivesFresh DEF Inv, Bound, Running
<1>5. Registered'
  <2> SUFFICES ASSUME NEW x \in conn
               PROVE  \/ Running(x[1])' /\ x[2] \in listeners[x[1]] /\ x[3] = ident'[x[1]]
                      \/ stage'[x[1]] = "raised" /\ x[2] = "eager"
                      \/ stage'[x[1]] = "cancelled"
    BY <1>1 DEF Registered
  <2>1. x[1] \in Requests /\ x[1] # r
    BY <1>2, NewIsUnknown DEF Inv, TypeOK
  <2> QED
    BY <2>1, <1>1, ArrivesFresh DEF Inv, Registered, Running
<1> QED
  BY <1>1, <1>3, <1>4, <1>5, ArrivesFresh DEF Inv

\* The events of a request change neither its life nor its connections.
LEMMA EventInv ==
    ASSUME Inv, NEW r \in Requests,
           \/ LoadEvent(r) \/ LazyFound(r) \/ LazyFoundRaises(r) \/ EagerEvent(r) \/ TouchEvent(r)
    PROVE  Inv' /\ UNCHANGED <<config, stage, ident, context, ctxvar, listeners, conn>>
<1>1. UNCHANGED <<config, stage, ident, context, ctxvar, listeners, conn>>
  BY DEF LoadEvent, LazyFound, LazyFoundRaises, EagerEvent, TouchEvent
<1>2. \A k : Hears(r, k) \subseteq Requests
  BY DEF Hears, Hearing
<1>3. heard' \subseteq Requests \X Requests
  BY <1>2 DEF Inv, TypeOK, LoadEvent, LazyFound, LazyFoundRaises, EagerEvent, TouchEvent
<1>4. unused' \in [Requests -> BOOLEAN]
  BY DEF Inv, TypeOK, LoadEvent, LazyFound, LazyFoundRaises, EagerEvent, TouchEvent
<1>5. batch' \in Seq([req : Requests, msgs : SUBSET Requests])
  BY CollectedType DEF Inv, TypeOK, LoadEvent, LazyFound, LazyFoundRaises, EagerEvent, TouchEvent
<1>6. TypeOK'
  BY <1>1, <1>3, <1>4, <1>5 DEF Inv, TypeOK
<1>7. Distinct' /\ Bound' /\ Registered'
  BY <1>1 DEF Inv, Distinct, Bound, Registered, Running
<1> QED
  BY <1>1, <1>6, <1>7 DEF Inv

\* A request ends and leaves behind at most what an abnormal end leaves.
LEMMA EndInv ==
    ASSUME Inv, NEW r \in Requests, NEW how \in Ended, Ends(r, how),
           NEW kinds \in SUBSET Kinds, conn' = Without(r, kinds),
           \/ listeners[r] \subseteq kinds
           \/ how = "raised" /\ listeners[r] \ {"eager"} \subseteq kinds
           \/ how = "cancelled",
           listeners' = listeners \/ listeners' = [listeners EXCEPT ![r] = {}],
           unused' \in [Requests -> BOOLEAN],
           batch' \in Seq([req : Requests, msgs : SUBSET Requests]),
           heard' = heard
    PROVE  Inv'
<1>1. /\ Running(r) /\ stage' = [stage EXCEPT ![r] = how]
      /\ context' = [context EXCEPT ![r] = NoId]
      /\ UNCHANGED <<config, ident, ctxvar>>
  BY DEF Ends
<1>2. /\ stage' \in [Requests -> {"new", "running"} \cup Ended]
      /\ context' \in [Requests -> Contexts \cup {NoId}]
      /\ listeners' \in [Requests -> SUBSET Kinds]
      /\ conn' \subseteq Requests \X Kinds \X Workers
  BY <1>1 DEF Inv, TypeOK, Without
<1>3. TypeOK'
  BY <1>1, <1>2 DEF Inv, TypeOK
<1>4. /\ stage'[r] = how /\ how # "new" /\ how # "running"
      /\ \A q \in Requests \ {r} :
            stage'[q] = stage[q] /\ context'[q] = context[q] /\ listeners'[q] = listeners[q]
  BY <1>1 DEF Inv, TypeOK, Ended
<1>5. Distinct'
  BY <1>1, <1>4 DEF Inv, Distinct, Running
<1>6. Bound'
  BY <1>1, <1>4 DEF Inv, Bound, Running, Without
<1>7. Registered'
  <2> SUFFICES ASSUME NEW x \in conn'
               PROVE  \/ Running(x[1])' /\ x[2] \in listeners'[x[1]] /\ x[3] = ident'[x[1]]
                      \/ stage'[x[1]] = "raised" /\ x[2] = "eager"
                      \/ stage'[x[1]] = "cancelled"
    BY DEF Registered
  <2>1. x \in conn /\ x[1] \in Requests /\ ~(x[1] = r /\ x[2] \in kinds)
    BY DEF Without, Inv, TypeOK
  <2>2. CASE x[1] # r
    BY <2>1, <2>2, <1>1, <1>4 DEF Inv, Registered, Running
  <2>3. CASE x[1] = r
    <3>1. x[2] \in listeners[r] /\ x[2] \notin kinds
      BY <2>1, <2>3, <1>1 DEF Inv, Registered, Running
    <3> QED
      BY <3>1, <2>3, <1>4
  <2> QED
    BY <2>2, <2>3
<1> QED
  BY <1>3, <1>5, <1>6, <1>7 DEF Inv

\* An answered request keeps Inv.
LEMMA ProcessResponseInv ==
    ASSUME Inv, NEW r \in Requests, NEW skipEager \in BOOLEAN, ProcessResponse(r, skipEager)
    PROVE  Inv'
<1>1. batch' \in Seq([req : Requests, msgs : SUBSET Requests])
  BY CollectedType, PoppedType DEF ProcessResponse, Inv, TypeOK
<1>2. unused' \in [Requests -> BOOLEAN]
  BY DEF ProcessResponse, Inv, TypeOK
<1>3. listeners[r] \in SUBSET Kinds /\ "answered" \in Ended
  BY DEF Inv, TypeOK, Ended
<1> QED
  BY <1>1, <1>2, <1>3, EndInv DEF ProcessResponse

\* A report that raises leaves the eager listener only.
LEMMA ProcessResponseRaisesInv ==
    ASSUME Inv, NEW r \in Requests, NEW skipEager \in BOOLEAN, ProcessResponseRaises(r, skipEager)
    PROVE  Inv'
<1>1. listeners[r] \ {"eager"} \in SUBSET Kinds /\ "raised" \in Ended
  BY DEF Inv, TypeOK, Ended
<1>2. unused' = unused /\ batch' = batch /\ heard' = heard
  BY DEF ProcessResponseRaises
<1> QED
  <2>1. Ends(r, "raised") /\ conn' = Without(r, listeners[r] \ {"eager"})
        /\ listeners' = [listeners EXCEPT ![r] = {}]
    BY DEF ProcessResponseRaises
  <2>2. /\ unused' \in [Requests -> BOOLEAN]
        /\ batch' \in Seq([req : Requests, msgs : SUBSET Requests])
    BY <1>2 DEF Inv, TypeOK
  <2> QED
    BY <1>1, <1>2, <2>1, <2>2, EndInv

\* A failed request keeps Inv.
LEMMA ResponseFailsInv ==
    ASSUME Inv, NEW r \in Requests, ResponseFails(r)
    PROVE  Inv'
<1>1. listeners[r] \in SUBSET Kinds /\ "failed" \in Ended
  BY DEF Inv, TypeOK, Ended
<1>2. unused' \in [Requests -> BOOLEAN] /\ batch' = batch /\ heard' = heard
  BY DEF ResponseFails, Inv, TypeOK
<1> QED
  BY <1>1, <1>2, EndInv DEF ResponseFails, Inv, TypeOK

\* A cancelled request keeps Inv.
LEMMA CancelledInv ==
    ASSUME Inv, NEW r \in Requests, Cancelled(r)
    PROVE  Inv'
<1>1. conn' = Without(r, {}) /\ {} \in SUBSET Kinds /\ "cancelled" \in Ended
  BY DEF Cancelled, Without, Ended
<1>2. listeners' = listeners /\ unused' = unused /\ batch' = batch /\ heard' = heard
  BY DEF Cancelled
<1> QED
  BY <1>1, <1>2, EndInv DEF Cancelled, Inv, TypeOK

\* Freeing an ended request keeps Inv.
LEMMA FreeInv ==
    ASSUME Inv, NEW r \in Requests, Free(r)
    PROVE  Inv'
<1>1. /\ stage[r] \in Ended
      /\ ident' = [ident EXCEPT ![r] = NoId]
      /\ listeners' = [listeners EXCEPT ![r] = {}]
      /\ batch' = Popped(batch, r)
      /\ UNCHANGED <<config, stage, context, ctxvar, conn, unused, heard>>
  BY DEF Free
<1>2. ~Running(r)
  BY <1>1 DEF Running, Ended
<1>3. TypeOK'
  <2>1. batch' \in Seq([req : Requests, msgs : SUBSET Requests])
    BY <1>1, PoppedType DEF Inv, TypeOK
  <2>2. ident' \in [Requests -> Ids \cup {NoId}] /\ listeners' \in [Requests -> SUBSET Kinds]
    BY <1>1 DEF Inv, TypeOK
  <2> QED
    BY <1>1, <2>1, <2>2 DEF Inv, TypeOK
<1>4. \A q \in Requests \ {r} : ident'[q] = ident[q] /\ listeners'[q] = listeners[q]
  BY <1>1 DEF Inv, TypeOK
<1>5. ident'[r] = NoId
  BY <1>1 DEF Inv, TypeOK
<1>6. Distinct'
  BY <1>1, <1>2, <1>4, <1>5 DEF Inv, Distinct, Running
<1>7. Bound'
  BY <1>1, <1>2, <1>4 DEF Inv, Bound, Running
<1>8. Registered'
  <2>1. \A x \in conn : x[1] \in Requests
    BY DEF Inv, TypeOK
  <2> QED
    BY <2>1, <1>1, <1>2, <1>4 DEF Inv, Registered, Running
<1> QED
  BY <1>3, <1>6, <1>7, <1>8 DEF Inv

\* Inv is inductive.
LEMMA NextInv == Inv /\ [Next]_vars => Inv'
<1> SUFFICES ASSUME Inv, [Next]_vars PROVE Inv'
  OBVIOUS
<1>1. CASE UNCHANGED vars
  BY <1>1 DEF vars, Inv, TypeOK, Distinct, Bound, Registered, Running
<1>2. CASE Next
  BY <1>2, ProcessRequestInv, ProcessExcludedInv, EventInv, ProcessResponseInv,
     ProcessResponseRaisesInv, ResponseFailsInv, CancelledInv, FreeInv DEF Next
<1> QED
  BY <1>1, <1>2

--------------------------------------------------------------------------------
\* Type correctness of the middleware's state.
THEOREM TypeCorrect == Spec => []TypeOK
<1>1. Inv => TypeOK
  BY DEF Inv
<1> QED
  BY <1>1, InitInv, NextInv, PTL DEF Spec

\* A detected request hears itself until it ends, under every configuration, with
\* cancelled requests and leaked listeners around it.
THEOREM RequestsAreMonitored == Spec => []RunningIsMonitored
<1>1. Inv => RunningIsMonitored
  <2> SUFFICES ASSUME Inv, NEW r \in Requests \ Excluded, Running(r)
               PROVE  \A k \in {"lazy", "eager"} : <<r, k, Worker(context[r])>> \in conn
    BY DEF RunningIsMonitored
  <2>1. Worker(context[r]) = ident[r]
    <3>1. ident[r] \in Ids /\ ctxvar[context[r]] = ident[r]
      BY DEF Inv, Distinct, Bound
    <3> QED
      BY <3>1, IdsAssumption DEF Worker
  <2> QED
    BY <2>1 DEF Inv, Bound
<1> QED
  BY <1>1, InitInv, NextInv, PTL DEF Spec

--------------------------------------------------------------------------------
(* In batch mode no report raises in the middle of a teardown: the batch of *)
(* a request stays until the request ends.                                  *)

\* There is a batch of r in b.
Has(b, r) == \E i \in 1..Len(b) : b[i].req = r
HasBatch(r) == Has(batch, r)

\* Every detected request that is served has its batch; reports raised only in
\* settings that raise at once.
Orderly ==
    /\ \A r \in Requests \ Excluded : Running(r) /\ config.batch => HasBatch(r)
    /\ \A r \in Requests \cap Excluded : listeners[r] = {}
    /\ \A r \in Requests : stage[r] = "raised" => config.raise /\ ~config.batch

\* Popping the batch of r keeps those of the others.
LEMMA PoppedKeeps ==
    ASSUME NEW S, NEW b \in Seq(S), NEW r, NEW q, q # r,
           Has(b, q)
    PROVE  Has(Popped(b, r), q)
<1>1. CASE \E i \in 1..Len(b) : b[i].req = r
  <2> DEFINE k == CHOOSE i \in 1..Len(b) : b[i].req = r
             left == SubSeq(b, 1, k - 1)
             right == SubSeq(b, k + 1, Len(b))
  <2>1. k \in 1..Len(b) /\ b[k].req = r
    BY <1>1
  <2>2. Popped(b, r) = left \o right
    BY <1>1 DEF Popped
  <2>3. PICK i \in 1..Len(b) : b[i].req = q
    BY DEF Has
  <2> HIDE DEF k
  <2>4. /\ k - 1 \in Int /\ k + 1 \in Int /\ Len(b) \in Int
        /\ \A j \in 1..k - 1 : b[j] \in S
        /\ \A j \in k + 1..Len(b) : b[j] \in S
    BY <2>1
  <2>5. /\ left \in Seq(S) /\ Len(left) = k - 1
        /\ \A j \in 1..k - 1 : left[j] = b[j]
    BY <2>1, <2>4, SubSeqProperties
  <2>6. /\ right \in Seq(S) /\ Len(right) = Len(b) - k
        /\ \A j \in 1..Len(b) - k : right[j] = b[k + j]
    BY <2>1, <2>4, SubSeqProperties
  <2> HIDE DEF left, right
  <2>7. /\ Len(left \o right) = Len(b) - 1
        /\ \A j \in 1..Len(b) - 1 : (left \o right)[j] = IF j < k THEN b[j] ELSE b[j + 1]
    <3>1. /\ left \o right \in Seq(S) /\ Len(left \o right) = (k - 1) + (Len(b) - k)
          /\ \A j \in 1..(k - 1) + (Len(b) - k) :
                (left \o right)[j] = IF j <= k - 1 THEN left[j] ELSE right[j - (k - 1)]
      <4>1. /\ left \o right \in Seq(S) /\ Len(left \o right) = Len(left) + Len(right)
            /\ \A j \in 1..Len(left) + Len(right) :
                  (left \o right)[j] = IF j <= Len(left) THEN left[j] ELSE right[j - Len(left)]
        BY <2>5, <2>6, ConcatProperties
      <4> QED
        BY <4>1, <2>5, <2>6, Zenon
    <3>2. (k - 1) + (Len(b) - k) = Len(b) - 1
      BY <2>1
    <3> SUFFICES ASSUME NEW j \in 1..Len(b) - 1
                 PROVE  (left \o right)[j] = IF j < k THEN b[j] ELSE b[j + 1]
      BY <3>1, <3>2
    <3>3. CASE j < k
      <4>1. j \in 1..k - 1 /\ j <= k - 1
        BY <2>1, <3>3
      <4> QED
        BY <4>1, <3>1, <3>2, <3>3, <2>5
    <3>4. CASE ~(j < k)
      <4>1. ~(j <= k - 1) /\ j - (k - 1) \in 1..Len(b) - k /\ k + (j - (k - 1)) = j + 1
        BY <2>1, <3>4
      <4>2. right[j - (k - 1)] = b[j + 1]
        BY <4>1, <2>6
      <4> QED
        BY <4>1, <4>2, <3>1, <3>2, <3>4
    <3> QED
      BY <3>3, <3>4
  <2>8. CASE i < k
    <3>1. i \in 1..Len(b) - 1
      BY <2>1, <2>8
    <3> QED
      BY <3>1, <2>2, <2>3, <2>7, <2>8 DEF Has
  <2>9. CASE i > k
    <3>1. i - 1 \in 1..Len(b) - 1 /\ ~(i - 1 < k) /\ (i - 1) + 1 = i
      BY <2>1, <2>9
    <3> QED
      BY <3>1, <2>2, <2>3, <2>7 DEF Has
  <2> QED
    BY <2>1, <2>3, <2>8, <2>9
<1>2. CASE ~\E i \in 1..Len(b) : b[i].req = r
  BY <1>2 DEF Popped
<1> QED
  BY <1>1, <1>2

\* A notification goes into a batch and takes none away.
LEMMA CollectedKeeps ==
    ASSUME NEW r, NEW q, batch \in Seq([req : Requests, msgs : SUBSET Requests]), HasBatch(q)
    PROVE  Has(Collected(r), q)
<1>1. CASE config.batch /\ batch # <<>>
  <2>1. Collected(r) = [batch EXCEPT ![1].msgs = @ \cup {r}]
    BY <1>1 DEF Collected
  <2>2. Len(Collected(r)) = Len(batch) /\ \A i \in 1..Len(batch) : Collected(r)[i].req = batch[i].req
    BY <2>1
  <2> QED
    BY <2>2 DEF HasBatch, Has
<1>2. CASE ~(config.batch /\ batch # <<>>)
  BY <1>2 DEF Collected, HasBatch
<1> QED
  BY <1>1, <1>2

\* While a detected request is served in batch mode, a notification does not raise.
LEMMA NoRaise ==
    ASSUME Inv, Orderly, NEW r \in Requests \ Excluded, Running(r), NotifyRaises
    PROVE  config.raise /\ ~config.batch
<1>1. batch \in Seq([req : Requests, msgs : SUBSET Requests])
  BY DEF Inv, TypeOK
<1>2. config.batch => HasBatch(r)
  BY DEF Orderly
<1>3. HasBatch(r) => batch # <<>>
  BY <1>1 DEF HasBatch, Has
<1> QED
  BY <1>2, <1>3 DEF NotifyRaises

\* Orderly holds initially.
LEMMA OrderlyInit == Init => Orderly
BY DEF Init, Orderly, Running

\* Orderly is inductive relative to Inv.
LEMMA OrderlyStep == Inv /\ Orderly /\ [Next]_vars => Orderly'
<1> SUFFICES ASSUME Inv, Orderly, [Next]_vars PROVE Orderly'
  OBVIOUS
<1> DEFINE Batch == [req : Requests, msgs : SUBSET Requests]
           Kept(q) == Has(batch', q)
<1>1. batch \in Seq(Batch)
  BY DEF Inv, TypeOK
<1>2. ASSUME NEW r \in Requests, NEW c \in Contexts, NEW i \in Ids, ProcessRequest(r, c, i)
      PROVE  Orderly'
  <2>1. /\ r \notin Excluded /\ Arrives(r, c, i) /\ config' = config
        /\ listeners' = [listeners EXCEPT ![r] = Enabled]
        /\ batch' = IF config.batch THEN Append(batch, [req |-> r, msgs |-> {}]) ELSE batch
    BY <1>2 DEF ProcessRequest, SetUp
  <2>2. \A q \in Requests : (q = r \/ HasBatch(q)) /\ config.batch => Kept(q)
    <3> SUFFICES ASSUME NEW q \in Requests, q = r \/ HasBatch(q), config.batch PROVE Kept(q)
      OBVIOUS
    <3>1. [req |-> r, msgs |-> {}] \in Batch
      OBVIOUS
    <3>2. /\ Len(batch') = Len(batch) + 1 /\ Len(batch) \in Nat
          /\ batch'[Len(batch) + 1] = [req |-> r, msgs |-> {}]
          /\ \A j \in 1..Len(batch) : batch'[j] = batch[j]
      <4> HIDE DEF Batch
      <4> QED
        BY <1>1, <2>1, <3>1, AppendProperties, LenProperties
    <3>3. CASE q = r
      BY <3>2, <3>3 DEF Has
    <3>4. CASE HasBatch(q)
      BY <3>2, <3>4 DEF HasBatch, Has
    <3> QED
      BY <3>3, <3>4
  <2>3. \A q \in Requests : stage'[q] = (IF q = r THEN "running" ELSE stage[q])
    BY <2>1, ArrivesFresh
  <2> QED
    BY <2>1, <2>2, <2>3 DEF Orderly, Running, HasBatch, Inv, TypeOK
<1>3. ASSUME NEW r \in Requests, NEW c \in Contexts, NEW i \in Ids, ProcessExcluded(r, c, i)
      PROVE  Orderly'
  <2>1. r \in Excluded /\ Arrives(r, c, i) /\ UNCHANGED <<config, listeners, batch>>
    BY <1>3 DEF ProcessExcluded
  <2>2. \A q \in Requests : stage'[q] = (IF q = r THEN "running" ELSE stage[q])
    BY <2>1, ArrivesFresh
  <2> QED
    BY <2>1, <2>2 DEF Orderly, Running, HasBatch
<1>4. ASSUME NEW r \in Requests,
             LoadEvent(r) \/ LazyFound(r) \/ LazyFoundRaises(r) \/ EagerEvent(r) \/ TouchEvent(r)
      PROVE  Orderly'
  <2>1. UNCHANGED <<config, stage, listeners>>
    BY <1>4, EventInv
  <2>2. batch' = batch \/ batch' = Collected(r)
    BY <1>4 DEF LoadEvent, LazyFound, LazyFoundRaises, EagerEvent, TouchEvent
  <2>3. \A q \in Requests : HasBatch(q) => Kept(q)
    BY <1>1, <2>2, CollectedKeeps DEF HasBatch
  <2> QED
    BY <2>1, <2>3 DEF Orderly, Running, HasBatch
<1>5. ASSUME NEW r \in Requests, NEW how \in Ended, Ends(r, how),
             how = "raised" => config.raise /\ ~config.batch,
             listeners' = [listeners EXCEPT ![r] = {}],
             \A q \in Requests \ {r} : HasBatch(q) => Kept(q)
      PROVE  Orderly'
  <2>1. config' = config /\ \A q \in Requests : stage'[q] = (IF q = r THEN how ELSE stage[q])
    BY <1>5 DEF Ends, Inv, TypeOK
  <2> QED
    BY <1>5, <2>1 DEF Orderly, Running, HasBatch, Inv, TypeOK, Ended
<1>6. ASSUME NEW r \in Requests, NEW skipEager \in BOOLEAN, ProcessResponse(r, skipEager)
      PROVE  Orderly'
  <2>1. PICK b \in {batch, Collected(r)} : batch' = Popped(b, r)
    BY <1>6 DEF ProcessResponse
  <2>2. b \in Seq(Batch) /\ \A q \in Requests : HasBatch(q) => Has(b, q)
    BY <1>1, <2>1, CollectedType, CollectedKeeps DEF HasBatch
  <2>3. \A q \in Requests \ {r} : HasBatch(q) => Kept(q)
    BY <2>1, <2>2, PoppedKeeps
  <2> QED
    BY <1>6, <2>3, <1>5 DEF ProcessResponse, Ended
<1>7. ASSUME NEW r \in Requests, NEW skipEager \in BOOLEAN, ProcessResponseRaises(r, skipEager)
      PROVE  Orderly'
  <2>1. /\ Ends(r, "raised") /\ NotifyRaises /\ "eager" \in listeners[r]
        /\ listeners' = [listeners EXCEPT ![r] = {}] /\ batch' = batch
    BY <1>7 DEF ProcessResponseRaises, HasMessage
  <2>2. Running(r) /\ r \notin Excluded
    BY <2>1 DEF Orderly, Ends
  <2>3. config.raise /\ ~config.batch
    BY <2>1, <2>2, NoRaise
  <2> QED
    BY <2>1, <2>3, <1>5 DEF HasBatch, Ended
<1>8. ASSUME NEW r \in Requests, ResponseFails(r) PROVE Orderly'
  <2>1. Ends(r, "failed") /\ listeners' = [listeners EXCEPT ![r] = {}] /\ batch' = batch
    BY <1>8 DEF ResponseFails
  <2> QED
    BY <2>1, <1>5 DEF HasBatch, Ended
<1>9. ASSUME NEW r \in Requests, Cancelled(r) PROVE Orderly'
  <2>1. Ends(r, "cancelled") /\ UNCHANGED <<listeners, batch>>
    BY <1>9 DEF Cancelled
  <2>2. config' = config /\ \A q \in Requests : stage'[q] = (IF q = r THEN "cancelled" ELSE stage[q])
    BY <2>1 DEF Ends, Inv, TypeOK
  <2> QED
    BY <2>1, <2>2 DEF Orderly, Running, HasBatch
<1>10. ASSUME NEW r \in Requests, Free(r) PROVE Orderly'
  <2>1. /\ stage[r] \in Ended /\ UNCHANGED <<config, stage>>
        /\ listeners' = [listeners EXCEPT ![r] = {}] /\ batch' = Popped(batch, r)
    BY <1>10 DEF Free
  <2>2. ~Running(r)
    BY <2>1 DEF Running, Ended
  <2>3. \A q \in Requests \ {r} : HasBatch(q) => Kept(q)
    BY <1>1, <2>1, PoppedKeeps DEF HasBatch
  <2> QED
    BY <2>1, <2>2, <2>3 DEF Orderly, Running, HasBatch, Inv, TypeOK
<1>11. CASE UNCHANGED vars
  BY <1>11 DEF vars, Orderly, Running, HasBatch
<1> QED
  BY <1>2, <1>3, <1>4, <1>6, <1>7, <1>8, <1>9, <1>10, <1>11 DEF Next

\* __call__ and process_response clean up: nothing leaks but the eager listener of
\* a request whose report raised at once, and what a cancelled request had.
THEOREM AbnormalEndsLeak == Spec => []OnlyAbnormalEndsLeak
<1>1. Inv /\ Orderly => OnlyAbnormalEndsLeak
  <2>1. TypeOK => \A c \in conn : c[1] \in Requests
    BY DEF TypeOK
  <2> QED
    BY <2>1 DEF Inv, Registered, Orderly, OnlyAbnormalEndsLeak
<1> QED
  BY <1>1, OrderlyStep, InitInv, NextInv, OrderlyInit, PTL DEF Spec

\* No listener of another request hears a detected request, but one left behind.
LEMMA IsolationStep == Inv /\ Isolation /\ [Next]_vars => Isolation'
<1> SUFFICES ASSUME Inv, Isolation, [Next]_vars PROVE Isolation'
  OBVIOUS
<1> DEFINE Left(q) == stage[q] \in {"raised", "cancelled"}
<1>1. ASSUME NEW r \in Requests \ Excluded, Running(r), NEW kind, NEW q \in Hears(r, kind)
      PROVE  q = r \/ Left(q)
  <2>1. ident[r] \in Ids /\ ctxvar[context[r]] = ident[r]
    BY <1>1 DEF Inv, Distinct, Bound
  <2>2. Worker(context[r]) = ident[r]
    BY <2>1, IdsAssumption DEF Worker
  <2>3. q \in Requests /\ <<q, kind, ident[r]>> \in conn
    BY <1>1, <2>2 DEF Hears, Hearing
  <2>4. ident[q] = ident[r] \/ Left(q)
    BY <2>3 DEF Inv, Registered
  <2> QED
    BY <2>1, <2>3, <2>4, IdsAssumption DEF Inv, Distinct
<1>2. \A q \in Requests : Left(q) => stage'[q] = stage[q]
  <2>1. \A r, q \in Requests : \A how : Ends(r, how) /\ Left(q) => stage'[q] = stage[q]
    BY DEF Ends, Running, Inv, TypeOK
  <2>2. \A r, q \in Requests : \A c, i : Arrives(r, c, i) /\ Left(q) => stage'[q] = stage[q]
    BY DEF Arrives, Inv, TypeOK
  <2> QED
    BY <2>1, <2>2 DEF Next, vars, ProcessRequest, SetUp, ProcessExcluded, LoadEvent, LazyFound,
       LazyFoundRaises, EagerEvent, TouchEvent, ProcessResponse, ProcessResponseRaises,
       ResponseFails, Cancelled, Free
<1>3. \A e \in heard : e[2] \in Requests
  BY DEF Inv, TypeOK
<1>4. \A r \in Requests : LoadEvent(r) \/ LazyFound(r) \/ LazyFoundRaises(r) \/ EagerEvent(r) => Isolation'
  <2> SUFFICES ASSUME NEW r \in Requests, NEW e \in heard', e[1] \notin Excluded,
                      LoadEvent(r) \/ LazyFound(r) \/ LazyFoundRaises(r) \/ EagerEvent(r)
               PROVE  e[1] = e[2] \/ Left(e[2])'
    BY DEF Isolation
  <2>1. e \in heard \/ (e[1] = r /\ \E kind \in Kinds : e[2] \in Hears(r, kind))
    BY DEF LoadEvent, LazyFound, LazyFoundRaises, EagerEvent, Kinds
  <2>2. Running(r)
    BY DEF LoadEvent, LazyFound, LazyFoundRaises, EagerEvent
  <2>3. e[1] = e[2] \/ Left(e[2])
    BY <2>1, <2>2, <1>1 DEF Isolation
  <2>4. e[2] \in Requests
    BY <2>1, <1>3 DEF Hears, Hearing
  <2> QED
    BY <2>3, <2>4, <1>2
<1>5. CASE heard' = heard
  BY <1>2, <1>3, <1>5 DEF Isolation
<1> QED
  BY <1>4, <1>5 DEF Next, vars, ProcessRequest, SetUp, ProcessExcluded, TouchEvent, ProcessResponse,
     ProcessResponseRaises, ResponseFails, Cancelled, Free

\* The events of a detected request reach its own listeners, although ids are
\* reused and threads keep the worker of their last request; others hear them only
\* if an abnormal end has left them connected.
THEOREM RequestsAreIsolated == Spec => []Isolation
<1>1. Init => Isolation
  BY DEF Init, Isolation
<1> QED
  BY <1>1, IsolationStep, InitInv, NextInv, PTL DEF Spec

================================================================================
