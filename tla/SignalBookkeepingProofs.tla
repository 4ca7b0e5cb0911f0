------------------------ MODULE SignalBookkeepingProofs ------------------------
(***************************************************************************)
(* The dictionaries of a blinker signal, for any numbers of flows,         *)
(* receivers and senders.  First: a disconnect fails only because of a     *)
(* step that takes no lock.  Then: what the dictionaries say at any moment *)
(* of a disconnect, of ignore blocks and of lock-free steps.  The second   *)
(* argument is about what a look-up finds for a key, present or not; each  *)
(* operation is first described in these terms.                            *)
(***************************************************************************)
EXTENDS SignalBookkeeping, FiniteSetTheorems, TLAPS

\* The dictionary has the size the iteration began with, or what it spoils was raced.
SizeKept == cut # None => Size(bySender) = cut.size \/ Caught \subseteq raced

\* The inductive invariant: a receiver of a disconnect or an entry that failed was raced.
RacesInv == SizeKept /\ OnlyLockFreeRaces

\* It holds initially.
LEMMA InitRaces == Init => RacesInv
  BY DEF Init, RacesInv, SizeKept, OnlyLockFreeRaces

\* Steps that end with no bucket left to visit, and fail nothing.
LEMMA CalmStep ==
    ASSUME RacesInv, cut' = None, UNCHANGED raced,
           \A r \in Receivers : phase'[r] \in {"failed", "lost"} => phase[r] \in {"failed", "lost"}
    PROVE  RacesInv'
  BY DEF RacesInv, SizeKept, OnlyLockFreeRaces

\* Steps that begin to visit the buckets.
LEMMA PopsStep ==
    ASSUME RacesInv, NEW f, NEW r, NEW todo, Pops(f, r, todo), UNCHANGED <<bySender, raced, phase>>
    PROVE  RacesInv'
<1>1. cut'.size = Size(bySender) /\ Size(bySender)' = Size(bySender)
  BY DEF Pops, Size
<1> QED
  BY <1>1 DEF RacesInv, SizeKept, OnlyLockFreeRaces

\* Looking up buckets that are there changes no domain.
LEMMA LookedUpDomain ==
    ASSUME NEW dict, NEW K
    PROVE  DOMAIN LookedUp(dict, K) = DOMAIN dict \cup K
  BY DEF LookedUp

\* Every step keeps it.
LEMMA NextRaces == RacesInv /\ [Next]_vars => RacesInv'
<1> SUFFICES ASSUME RacesInv, [Next]_vars PROVE RacesInv'
  OBVIOUS
<1>1. ASSUME NEW f \in Flows, NEW r \in Receivers, Connect(f, r) PROVE RacesInv'
  <2>1. \A q \in Receivers : phase'[q] \in {"failed", "lost"} => phase[q] \in {"failed", "lost"}
    BY <1>1 DEF Connect, SetsUp
  <2> QED
    BY <1>1, <2>1, CalmStep DEF Connect, SetsUp, LockIsFree
<1>2. ASSUME NEW f \in Flows, NEW r \in Receivers, Disconnect(f, r) PROVE RacesInv'
  BY <1>2, PopsStep DEF Disconnect
<1>3. ASSUME NEW f \in Flows, NEW r \in Receivers, DisconnectUnknown(f, r) PROVE RacesInv'
  <2>1. \A q \in Receivers : phase'[q] \in {"failed", "lost"} => phase[q] \in {"failed", "lost"}
    BY <1>3 DEF DisconnectUnknown
  <2> QED
    BY <1>3, <2>1, CalmStep DEF DisconnectUnknown, CleansUp, LockIsFree
<1>4. ASSUME NEW f \in Flows, IgnoreEnter(f) \/ IgnoreOpens(f) \/ IgnoreExit(f) PROVE RacesInv'
  BY <1>4, CalmStep DEF IgnoreEnter, IgnoreOpens, IgnoreExit, Restores, LockIsFree
<1>5. ASSUME NEW f \in Flows, SendChecks(f) PROVE RacesInv'
  BY <1>5 DEF SendChecks, tables, RacesInv, SizeKept, OnlyLockFreeRaces, Size, Caught
<1>6. ASSUME NEW f \in Flows, SendLooksUp(f) PROVE RacesInv'
  <2>1. PICK K : /\ bySender' = LookedUp(bySender, K)
                 /\ raced' = IF K \ DOMAIN bySender # {} THEN raced \cup Caught ELSE raced
    BY <1>6 DEF SendLooksUp
  <2>2. cut' = cut /\ phase' = phase /\ Caught' = Caught
    BY <1>6 DEF SendLooksUp, Caught
  <2>3. CASE K \ DOMAIN bySender = {}
    <3>1. DOMAIN bySender' = DOMAIN bySender
      BY <2>1, <2>3, LookedUpDomain
    <3> QED
      BY <3>1, <2>1, <2>2, <2>3 DEF RacesInv, SizeKept, OnlyLockFreeRaces, Size
  <2>4. CASE K \ DOMAIN bySender # {}
    BY <2>1, <2>2, <2>4 DEF RacesInv, SizeKept, OnlyLockFreeRaces
  <2> QED
    BY <2>3, <2>4
<1>7. CASE DisconnectNext
  <2>1. DOMAIN bySender' = DOMAIN bySender
    BY <1>7 DEF DisconnectNext
  <2>2. PICK s : cut' = [cut EXCEPT !.todo = @ \ {s}]
    BY <1>7 DEF DisconnectNext
  <2>3. cut # None /\ Size(bySender) = cut.size /\ raced' = raced /\ phase' = phase
    BY <1>7 DEF DisconnectNext
  <2>4. cut'.size = cut.size
    BY <2>2
  <2> QED
    BY <2>1, <2>3, <2>4 DEF RacesInv, SizeKept, OnlyLockFreeRaces, Size
<1>8. CASE DisconnectFails
  <2>1. cut.receiver \in raced /\ raced' = raced /\ cut' = None
    BY <1>8 DEF DisconnectFails, RacesInv, SizeKept, Caught
  <2>2. \A r \in Receivers : phase'[r] \in {"failed", "lost"} =>
                                r = cut.receiver \/ phase[r] \in {"failed", "lost"}
    BY <1>8 DEF DisconnectFails
  <2> QED
    BY <2>1, <2>2 DEF RacesInv, SizeKept, OnlyLockFreeRaces
<1>9. CASE DisconnectEnds
  <2>1. \A r \in Receivers : phase'[r] \in {"failed", "lost"} => phase[r] \in {"failed", "lost"}
    BY <1>9 DEF DisconnectEnds
  <2> QED
    BY <1>9, <2>1, CalmStep DEF DisconnectEnds
<1>10. ASSUME NEW r \in Receivers, IgnoreCuts(r) PROVE RacesInv'
  BY <1>10, PopsStep DEF IgnoreCuts, BlockPops
<1>11. ASSUME NEW r \in Receivers, IgnoreSkips(r) PROVE RacesInv'
  BY <1>11, CalmStep DEF IgnoreSkips
<1>12. CASE IgnoreCutEnds \/ IgnoreOpened
  BY <1>12, CalmStep DEF IgnoreCutEnds, IgnoreOpened
<1>13. CASE IgnoreFails
  <2>1. /\ cut' = None /\ raced' = raced
        /\ cut.receiver \in raced /\ held[opening.flow] \subseteq raced
    BY <1>13 DEF IgnoreFails, RacesInv, SizeKept, Caught
  <2>2. \A r \in Receivers : phase'[r] \in {"failed", "lost"} =>
            r = cut.receiver \/ r \in held[opening.flow] \/ phase[r] \in {"failed", "lost"}
    BY <1>13 DEF IgnoreFails
  <2> QED
    BY <2>1, <2>2 DEF RacesInv, SizeKept, OnlyLockFreeRaces
<1>14. ASSUME NEW s \in Workers, SenderFreed(s) PROVE RacesInv'
  <2>1. cut' = cut /\ phase' = phase /\ Caught' = Caught
    BY <1>14 DEF SenderFreed, Caught
  <2>2. raced' = IF s \in DOMAIN bySender THEN raced \cup Caught ELSE raced
    BY <1>14 DEF SenderFreed
  <2>3. DOMAIN bySender' = DOMAIN bySender \ {s}
    BY <1>14 DEF SenderFreed, Restrict
  <2> QED
    BY <2>1, <2>2, <2>3 DEF RacesInv, SizeKept, OnlyLockFreeRaces, Size
<1>15. CASE UNCHANGED vars
  BY <1>15 DEF vars, RacesInv, SizeKept, OnlyLockFreeRaces, Size, Caught
<1> QED
  BY <1>1, <1>2, <1>3, <1>4, <1>5, <1>6, <1>7, <1>8, <1>9, <1>10, <1>11, <1>12, <1>13, <1>14, <1>15
     DEF Next

\* However many units of work connect, ignore and disconnect at the same time, with
\* any number of senders: a disconnect, or the entry of a block at ANY, only fails in
\* the middle of its iteration if a send or the end of a sender, which take no lock,
\* resized the dictionary.
THEOREM FailuresAreRaces == Spec => []OnlyLockFreeRaces
<1>1. RacesInv => OnlyLockFreeRaces
  BY DEF RacesInv
<1> QED
  BY <1>1, InitRaces, NextRaces, PTL DEF Spec

--------------------------------------------------------------------------------
\* The two dictionaries, with nothing where a key is missing.
Subscribers(s) == Bucket(bySender, s)
Subscriptions(r) == Bucket(byReceiver, r)

\* The types of the buckets, and of the disconnect or the entry that has the lock.
TableTypes ==
    /\ TypeOK
    /\ IsFiniteSet(DOMAIN bySender)
    /\ cut # None => cut \in [flow : Flows, receiver : Receivers, todo : SUBSET Senders, size : Nat]
    /\ opening # None => opening \in [flow : Flows, rest : SUBSET Receivers]

\* A receiver other than that of the disconnect is in both dictionaries alike ...
SameTables ==
    \A r \in Receivers, s \in Senders :
        phase[r] # "failed" /\ ~Cut(r) => (r \in Subscribers(s) <=> s \in Subscriptions(r))

\* ... and that one is left in the buckets still to be visited, and nowhere else.
CutProgress ==
    cut # None => /\ Subscriptions(cut.receiver) = {}
                  /\ \A s \in Senders : cut.receiver \in Subscribers(s) => s \in cut.todo

\* An ignore block puts a receiver of ANY that it held into the bucket of its own
\* sender; but for that receivers are with the sender they were connected with.
Scoped ==
    /\ \A s \in Senders : \A r \in Subscribers(s) : ReceiverScope[r] \in {s, ANY}
    /\ \A f \in Flows : \A r \in held[f] : ReceiverScope[r] \in {FlowScope[f], ANY}

\* A block at ANY that is being entered holds the receiver it disconnects, and those
\* that it has still to disconnect are subscribed.
Entering ==
    /\ opening # None =>
        /\ FlowScope[opening.flow] = ANY /\ opening.flow \notin inside
        /\ opening.rest \subseteq held[opening.flow]
        /\ \A r \in opening.rest : r \in receivers /\ r \in Subscribers(ANY)
    /\ opening # None /\ cut # None =>
        /\ cut.flow = opening.flow
        /\ cut.receiver \in held[opening.flow] \ opening.rest

\* A block that emptied a bucket holds what was in it.
EmptyIsHeld ==
    cut = None \/ opening # None =>
        \A s \in DOMAIN bySender \ {ANY} : Subscribers(s) = {} =>
            \/ \E f \in inside : FlowScope[f] = s /\ held[f] # {}
            \/ \E why \in {"send", "block"} : <<why, s>> \in late
            \/ \E r \in Receivers : phase[r] = "failed"

\* The inductive invariant of the dictionaries.
TablesInv ==
    TableTypes /\ SameTables /\ CutProgress /\ Scoped /\ Entering /\ LiveIsSubscribed /\ EmptyIsHeld

\* What each operation does to the buckets: a connect of S to s ...
LEMMA SubscribeBuckets ==
    ASSUME NEW S, NEW s, Subscribe(S, s)
    PROVE  /\ receivers' = receivers \cup S
           /\ \A k : Subscribers(k)' = IF k = s THEN Subscribers(k) \cup S ELSE Subscribers(k)
           /\ \A r : Subscriptions(r)' = IF r \in S THEN Subscriptions(r) \cup {s} ELSE Subscriptions(r)
           /\ DOMAIN bySender' = IF S = {} THEN DOMAIN bySender ELSE DOMAIN bySender \cup {s}
           /\ DOMAIN byReceiver' = DOMAIN byReceiver \cup S
  BY DEF Subscribe, Added, Subscribers, Subscriptions, Bucket

\* ... the beginning of a disconnect ...
LEMMA PopsBuckets ==
    ASSUME NEW f, NEW r, Pops(f, r, DOMAIN bySender), bySender' = bySender
    PROVE  /\ \A k : Subscribers(k)' = Subscribers(k)
           /\ \A q : Subscriptions(q)' = IF q = r THEN {} ELSE Subscriptions(q)
           /\ DOMAIN byReceiver' \subseteq DOMAIN byReceiver
           /\ cut' = [flow |-> f, receiver |-> r, todo |-> DOMAIN bySender, size |-> Size(bySender)]
  BY DEF Pops, Restrict, Subscribers, Subscriptions, Bucket

\* ... one step of its iteration ...
LEMMA NextBuckets ==
    ASSUME TableTypes, DisconnectNext
    PROVE  /\ UNCHANGED <<receivers, byReceiver>> /\ DOMAIN bySender' = DOMAIN bySender
           /\ cut # None
           /\ \E s \in cut.todo :
                /\ cut' = [flow |-> cut.flow, receiver |-> cut.receiver, todo |-> cut.todo \ {s},
                           size |-> cut.size]
                /\ \A k : Subscribers(k)' =
                        IF k = s THEN Subscribers(k) \ {cut.receiver} ELSE Subscribers(k)
                /\ late' = IF opening # None /\ Subscribers(s) = {cut.receiver}
                           THEN late \cup {<<"block", s>>} ELSE late
<1>1. PICK s \in cut.todo :
        /\ cut' = [cut EXCEPT !.todo = @ \ {s}]
        /\ bySender' = [k \in DOMAIN bySender |->
                IF k = s THEN bySender[k] \ {cut.receiver} ELSE bySender[k]]
        /\ late' = IF opening # None /\ Bucket(bySender, s) = {cut.receiver}
                   THEN late \cup {<<"block", s>>} ELSE late
  BY DEF DisconnectNext
<1>2. cut # None /\ UNCHANGED <<receivers, byReceiver>>
  BY DEF DisconnectNext
<1>3. cut \in [flow : Flows, receiver : Receivers, todo : SUBSET Senders, size : Nat]
  BY <1>2 DEF TableTypes
<1>4. cut' = [flow |-> cut.flow, receiver |-> cut.receiver, todo |-> cut.todo \ {s}, size |-> cut.size]
  BY <1>1, <1>3
<1>5. DOMAIN bySender' = DOMAIN bySender
  BY <1>1
<1>6. \A k : Subscribers(k)' = IF k = s THEN Subscribers(k) \ {cut.receiver} ELSE Subscribers(k)
  BY <1>1 DEF Subscribers, Bucket
<1>7. late' = IF opening # None /\ Subscribers(s) = {cut.receiver}
              THEN late \cup {<<"block", s>>} ELSE late
  BY <1>1 DEF Subscribers
<1> QED
  BY <1>2, <1>4, <1>5, <1>6, <1>7

\* ... its end, whose pruning takes nothing from any bucket ...
LEMMA PrunedBuckets ==
    ASSUME NEW dict
    PROVE  /\ DOMAIN Pruned(dict) = {k \in DOMAIN dict : dict[k] # {} \/ k = ANY}
           /\ \A k \in DOMAIN Pruned(dict) : Pruned(dict)[k] = dict[k]
           /\ \A k : Bucket(Pruned(dict), k) = Bucket(dict, k)
  BY DEF Pruned, Restrict, Bucket

\* ... and look-ups, which take nothing either.
LEMMA LookedUpBuckets ==
    ASSUME NEW dict, NEW K
    PROVE  \A k : Bucket(LookedUp(dict, K), k) = Bucket(dict, k)
  BY DEF LookedUp, Bucket

\* What an ignore block of f finds, and takes out of the buckets that its sender names.
Taken(f) == ReceiversFor(FlowScope[f])

LEMMA IgnoreEnterBuckets ==
    ASSUME NEW f, IgnoreEnter(f)
    PROVE  /\ \A k : Subscribers(k)' = IF k = FlowScope[f] THEN Subscribers(k) \ Taken(f)
                                       ELSE Subscribers(k)
           /\ \A r : Subscriptions(r)' = IF r \in Taken(f) THEN Subscriptions(r) \ {FlowScope[f]}
                                         ELSE Subscriptions(r)
           /\ DOMAIN bySender' = IF Taken(f) = {} THEN DOMAIN bySender
                                 ELSE DOMAIN bySender \cup {FlowScope[f]}
           /\ DOMAIN byReceiver' = DOMAIN byReceiver \cup Taken(f)
<1> DEFINE s == FlowScope[f]
           S == Taken(f)
           d == LookedUp(bySender, IF S = {} THEN {} ELSE {s})
           e == LookedUp(byReceiver, S)
<1> USE DEF Taken
<1>1. /\ bySender' = [k \in DOMAIN d |-> IF k = s THEN d[k] \ S ELSE d[k]]
      /\ byReceiver' = [r \in DOMAIN e |-> IF r \in S THEN e[r] \ {s} ELSE e[r]]
  BY DEF IgnoreEnter
<1>2. DOMAIN d = (IF S = {} THEN DOMAIN bySender ELSE DOMAIN bySender \cup {s})
      /\ DOMAIN e = DOMAIN byReceiver \cup S
  BY LookedUpDomain
<1>3. (\A k : Bucket(d, k) = Subscribers(k)) /\ (\A r : Bucket(e, r) = Subscriptions(r))
  BY LookedUpBuckets DEF Subscribers, Subscriptions
<1> HIDE DEF d, e
<1>4. \A k : Subscribers(k)' = IF k = s THEN Bucket(d, k) \ S ELSE Bucket(d, k)
  BY <1>1 DEF Subscribers, Bucket
<1>5. \A r : Subscriptions(r)' = IF r \in S THEN Bucket(e, r) \ {s} ELSE Bucket(e, r)
  BY <1>1 DEF Subscriptions, Bucket
<1> QED
  BY <1>1, <1>2, <1>3, <1>4, <1>5

\* The end of a sender takes it from both dictionaries.
LEMMA FreedBuckets ==
    ASSUME NEW s, SenderFreed(s)
    PROVE  /\ \A k : Subscribers(k)' = IF k = s THEN {} ELSE Subscribers(k)
           /\ \A r : Subscriptions(r)' = Subscriptions(r) \ {s}
           /\ DOMAIN bySender' = DOMAIN bySender \ {s}
           /\ DOMAIN byReceiver' = DOMAIN byReceiver \cup Subscribers(s)
<1> DEFINE d == LookedUp(byReceiver, Bucket(bySender, s))
<1>1. /\ bySender' = Restrict(bySender, DOMAIN bySender \ {s})
      /\ byReceiver' = [r \in DOMAIN d |-> d[r] \ {s}]
  BY DEF SenderFreed
<1>2. DOMAIN d = DOMAIN byReceiver \cup Subscribers(s)
  BY LookedUpDomain DEF Subscribers
<1>3. \A r : Bucket(d, r) = Subscriptions(r)
  BY LookedUpBuckets DEF Subscriptions
<1> HIDE DEF d
<1>4. \A r : Subscriptions(r)' = Subscriptions(r) \ {s}
  BY <1>1, <1>3 DEF Subscriptions, Bucket
<1> QED
  BY <1>1, <1>2, <1>4 DEF Restrict, Subscribers, Bucket

--------------------------------------------------------------------------------
\* What the types say of the buckets, present or not.
BucketTypes ==
    /\ DOMAIN bySender \subseteq Senders /\ ANY \in DOMAIN bySender
    /\ IsFiniteSet(DOMAIN bySender)
    /\ DOMAIN byReceiver \subseteq Receivers
    /\ \A k : Subscribers(k) \subseteq Receivers
    /\ \A r : Subscriptions(r) \subseteq Senders

LEMMA TypedBuckets == TableTypes => BucketTypes
  BY DEF TableTypes, TypeOK, BucketTypes, Subscribers, Subscriptions, Bucket

\* The records of a disconnect and of an entry, and the other variables.
LockTypes ==
    /\ cut # None => cut \in [flow : Flows, receiver : Receivers, todo : SUBSET Senders, size : Nat]
    /\ opening # None => opening \in [flow : Flows, rest : SUBSET Receivers]

OtherTypes ==
    /\ receivers \subseteq Receivers
    /\ sends \in [Flows -> {"none", "found", "missing"}]
    /\ inside \subseteq Flows /\ held \in [Flows -> SUBSET Receivers]
    /\ freed \subseteq WeakWorkers
    /\ phase \in [Receivers -> {"new", "live", "gone", "failed", "lost"}]
    /\ raced \subseteq Receivers /\ late \subseteq {"send", "block"} \X Senders

LEMMA SplitTypes == TableTypes <=> BucketTypes /\ LockTypes /\ OtherTypes
<1>1. ASSUME BucketTypes, LockTypes, OtherTypes PROVE TableTypes
  <2>1. \A s \in DOMAIN bySender : bySender[s] \subseteq Receivers
    BY <1>1 DEF BucketTypes, Subscribers, Bucket
  <2>2. \A r \in DOMAIN byReceiver : byReceiver[r] \subseteq Senders
    BY <1>1 DEF BucketTypes, Subscriptions, Bucket
  <2>3. cut = None \/ (cut.flow \in Flows /\ cut.receiver \in Receivers /\ cut.todo \subseteq Senders)
    BY <1>1 DEF LockTypes
  <2>4. opening = None \/ (opening.flow \in Flows /\ opening.rest \subseteq Receivers)
    BY <1>1 DEF LockTypes
  <2>5. TypeOK
    BY <1>1, <2>1, <2>2, <2>3, <2>4 DEF TypeOK, BucketTypes, OtherTypes
  <2> QED
    BY <1>1, <2>5 DEF TableTypes, BucketTypes, LockTypes
<1> QED
  BY <1>1, TypedBuckets DEF TableTypes, TypeOK, LockTypes, OtherTypes

\* What blinker would find for s among all subscribed receivers.
LEMMA FoundReceivers ==
    ASSUME TableTypes, NEW s
    PROVE  ReceiversFor(s) = receivers \cap (Subscribers(ANY) \cup Subscribers(s))
  BY DEF ReceiversFor, Subscribers, Bucket, TableTypes, TypeOK

LEMMA InitTypes == Init => TableTypes
<1> SUFFICES ASSUME Init PROVE TableTypes
  OBVIOUS
<1>1. DOMAIN bySender = {ANY} /\ DOMAIN byReceiver = {}
  BY DEF Init
<1>2. \A k : Subscribers(k) = {} /\ Subscriptions(k) = {}
  BY DEF Init, Subscribers, Subscriptions, Bucket
<1>3. IsFiniteSet({ANY})
  BY FS_Singleton
<1>4. BucketTypes
  BY <1>1, <1>2, <1>3 DEF BucketTypes, Senders
<1>5. LockTypes /\ OtherTypes
  BY DEF Init, LockTypes, OtherTypes
<1> QED
  BY <1>4, <1>5, SplitTypes

\* Every step keeps the types.
LEMMA NextTypes == TableTypes /\ [Next]_vars => TableTypes'
<1> SUFFICES ASSUME TableTypes, [Next]_vars PROVE TableTypes'
  OBVIOUS
<1> USE SendersAssumption
<1>1. BucketTypes /\ LockTypes /\ OtherTypes
  BY SplitTypes
<1>2. \A f \in Flows : FlowScope[f] \in Senders
  BY DEF Senders
<1> SUFFICES BucketTypes' /\ LockTypes' /\ OtherTypes'
  BY SplitTypes, PTL
<1>3. ASSUME NEW S \in SUBSET Receivers, NEW s \in Senders, Subscribe(S, s)
      PROVE  BucketTypes' /\ receivers' \subseteq Receivers
  <2>1. IsFiniteSet(DOMAIN bySender \cup {s})
    BY <1>1, FS_AddElement DEF BucketTypes
  <2>2. /\ receivers' = receivers \cup S
        /\ \A k : Subscribers(k)' = IF k = s THEN Subscribers(k) \cup S ELSE Subscribers(k)
        /\ \A r : Subscriptions(r)' = IF r \in S THEN Subscriptions(r) \cup {s} ELSE Subscriptions(r)
        /\ DOMAIN bySender' = IF S = {} THEN DOMAIN bySender ELSE DOMAIN bySender \cup {s}
        /\ DOMAIN byReceiver' = DOMAIN byReceiver \cup S
    BY <1>3, SubscribeBuckets
  <2> QED
    BY <1>1, <2>1, <2>2 DEF BucketTypes, OtherTypes
<1>4. ASSUME NEW f, NEW r \in Receivers, Pops(f, r, DOMAIN bySender), f \in Flows,
             bySender' = bySender,
             \/ UNCHANGED opening
             \/ opening # None /\ opening' = [opening EXCEPT !.rest = @ \ {r}]
      PROVE  BucketTypes' /\ LockTypes'
  <2>1. /\ \A k : Subscribers(k)' = Subscribers(k)
        /\ \A q : Subscriptions(q)' = IF q = r THEN {} ELSE Subscriptions(q)
        /\ DOMAIN byReceiver' \subseteq DOMAIN byReceiver
        /\ cut' = [flow |-> f, receiver |-> r, todo |-> DOMAIN bySender, size |-> Size(bySender)]
    BY <1>4, PopsBuckets
  <2>2. BucketTypes'
    BY <1>1, <1>4, <2>1 DEF BucketTypes
  <2>3. Size(bySender) \in Nat
    BY <1>1, FS_CardinalityType DEF Size, BucketTypes
  <2>4. cut' \in [flow : Flows, receiver : Receivers, todo : SUBSET Senders, size : Nat]
    BY <1>1, <1>4, <2>1, <2>3 DEF BucketTypes
  <2>5. UNCHANGED opening \/ opening' \in [flow : Flows, rest : SUBSET Receivers]
    BY <1>1, <1>4 DEF LockTypes
  <2> QED
    BY <1>1, <2>2, <2>4, <2>5 DEF LockTypes
<1>5. ASSUME bySender' = Pruned(bySender), byReceiver' = Pruned(byReceiver) PROVE BucketTypes'
  <2>1. DOMAIN bySender' \subseteq DOMAIN bySender /\ ANY \in DOMAIN bySender'
        /\ DOMAIN byReceiver' \subseteq DOMAIN byReceiver
    BY <1>1, <1>5, PrunedBuckets DEF BucketTypes
  <2>2. (\A k : Subscribers(k)' = Subscribers(k)) /\ (\A r : Subscriptions(r)' = Subscriptions(r))
    BY <1>5, PrunedBuckets DEF Subscribers, Subscriptions
  <2> QED
    BY <1>1, <2>1, <2>2, FS_Subset DEF BucketTypes
<1>6. ASSUME UNCHANGED <<bySender, byReceiver>> PROVE BucketTypes'
  BY <1>1, <1>6 DEF BucketTypes, Subscribers, Subscriptions
<1>7. Caught \subseteq Receivers
  BY <1>1 DEF Caught, LockTypes, OtherTypes
<1>8. ASSUME NEW f \in Flows, NEW r \in Receivers, Connect(f, r)
      PROVE  BucketTypes' /\ LockTypes' /\ OtherTypes'
  <2>1. Subscribe({r}, FlowScope[f])
    BY <1>8 DEF Connect, SetsUp
  <2>2. BucketTypes' /\ receivers' \subseteq Receivers
    BY <1>2, <1>3, <2>1
  <2> QED
    BY <1>1, <1>8, <2>2 DEF Connect, SetsUp, LockTypes, OtherTypes
<1>9. ASSUME NEW f \in Flows, NEW r \in Receivers, Disconnect(f, r)
      PROVE  BucketTypes' /\ LockTypes' /\ OtherTypes'
  <2>1. BucketTypes' /\ LockTypes'
    BY <1>4, <1>9 DEF Disconnect
  <2> QED
    BY <1>1, <1>9, <2>1 DEF Disconnect, OtherTypes
<1>10. ASSUME NEW f \in Flows, NEW r \in Receivers, DisconnectUnknown(f, r)
       PROVE  BucketTypes' /\ LockTypes' /\ OtherTypes'
  <2>1. BucketTypes'
    BY <1>5, <1>10 DEF DisconnectUnknown
  <2> QED
    BY <1>1, <1>10, <2>1 DEF DisconnectUnknown, LockTypes, OtherTypes
<1>11. ASSUME NEW f \in Flows, IgnoreEnter(f)
       PROVE  BucketTypes' /\ LockTypes' /\ OtherTypes'
  <2> DEFINE s == FlowScope[f]
             S == Taken(f)
  <2>1. S \subseteq Receivers /\ s \in Senders
    BY <1>1, <1>2, FoundReceivers DEF OtherTypes, Taken
  <2>2. /\ \A k : Subscribers(k)' = IF k = s THEN Subscribers(k) \ S ELSE Subscribers(k)
        /\ \A r : Subscriptions(r)' = IF r \in S THEN Subscriptions(r) \ {s} ELSE Subscriptions(r)
        /\ DOMAIN bySender' = IF S = {} THEN DOMAIN bySender ELSE DOMAIN bySender \cup {s}
        /\ DOMAIN byReceiver' = DOMAIN byReceiver \cup S
    BY <1>11, IgnoreEnterBuckets
  <2>3. IsFiniteSet(DOMAIN bySender \cup {s})
    BY <1>1, FS_AddElement DEF BucketTypes
  <2>4. held' = [held EXCEPT ![f] = S] /\ inside' = inside \cup {f}
    BY <1>11 DEF IgnoreEnter, Taken
  <2>5. UNCHANGED <<receivers, cut, opening, sends, freed, phase, raced, late>>
    BY <1>11 DEF IgnoreEnter
  <2> HIDE DEF s, S
  <2>6. BucketTypes'
    BY <1>1, <2>1, <2>2, <2>3 DEF BucketTypes
  <2> QED
    BY <1>1, <2>1, <2>4, <2>5, <2>6 DEF LockTypes, OtherTypes
<1>12. ASSUME NEW f \in Flows, IgnoreOpens(f)
       PROVE  BucketTypes' /\ LockTypes' /\ OtherTypes'
  <2>1. BucketTypes'
    BY <1>6, <1>12 DEF IgnoreOpens, tables
  <2>2. ReceiversFor(ANY) \subseteq Receivers
    BY <1>1 DEF ReceiversFor, OtherTypes
  <2> QED
    BY <1>1, <1>12, <2>1, <2>2 DEF IgnoreOpens, tables, LockTypes, OtherTypes
<1>13. ASSUME NEW f \in Flows, IgnoreExit(f)
       PROVE  BucketTypes' /\ LockTypes' /\ OtherTypes'
  <2>1. Subscribe(held[f], FlowScope[f])
    BY <1>13 DEF IgnoreExit, Restores
  <2>2. held[f] \in SUBSET Receivers
    BY <1>1 DEF OtherTypes
  <2>3. BucketTypes' /\ receivers' \subseteq Receivers
    BY <1>2, <1>3, <2>1, <2>2
  <2> QED
    BY <1>1, <1>13, <2>3 DEF IgnoreExit, Restores, LockTypes, OtherTypes
<1>14. ASSUME NEW f \in Flows, SendChecks(f)
       PROVE  BucketTypes' /\ LockTypes' /\ OtherTypes'
  BY <1>1, <1>6, <1>14 DEF SendChecks, tables, LockTypes, OtherTypes
<1>15. ASSUME NEW f \in Flows, SendLooksUp(f)
       PROVE  BucketTypes' /\ LockTypes' /\ OtherTypes'
  <2>1. PICK K \in SUBSET {ANY, FlowScope[f]} :
            /\ bySender' = LookedUp(bySender, K)
            /\ late' = late \cup ({"send"} \X (K \ DOMAIN bySender))
            /\ raced' = raced \/ raced' = raced \cup Caught
    BY <1>15 DEF SendLooksUp
  <2>2. DOMAIN bySender' = DOMAIN bySender \cup K /\ \A k : Subscribers(k)' = Subscribers(k)
    BY <2>1, LookedUpDomain, LookedUpBuckets DEF Subscribers
  <2>3. K \subseteq Senders
    BY <1>2, <2>1 DEF Senders
  <2>4. IsFiniteSet(DOMAIN bySender \cup K)
    <3>1. IsFiniteSet({ANY, FlowScope[f]})
      <4>1. IsFiniteSet({ANY})
        BY FS_Singleton
      <4>2. IsFiniteSet({ANY} \cup {FlowScope[f]})
        BY <4>1, FS_AddElement
      <4> QED
        BY <4>2, {ANY, FlowScope[f]} = {ANY} \cup {FlowScope[f]}
    <3>2. IsFiniteSet(K)
      BY <2>1, <3>1, FS_Subset
    <3> QED
      BY <1>1, <3>2, FS_Union DEF BucketTypes
  <2>5. UNCHANGED <<receivers, byReceiver, cut, opening, inside, held, freed, phase>>
        /\ sends' = [sends EXCEPT ![f] = "none"]
    BY <1>15 DEF SendLooksUp
  <2>6. BucketTypes'
    BY <1>1, <2>2, <2>3, <2>4, <2>5 DEF BucketTypes, Subscriptions
  <2>7. late' \subseteq {"send", "block"} \X Senders
    BY <1>1, <2>1, <2>3 DEF OtherTypes
  <2>8. raced' \subseteq Receivers
    BY <1>1, <1>7, <2>1 DEF OtherTypes
  <2> QED
    BY <1>1, <2>5, <2>6, <2>7, <2>8 DEF LockTypes, OtherTypes
<1>16. CASE DisconnectNext
  <2>1. PICK s \in cut.todo :
            /\ cut' = [flow |-> cut.flow, receiver |-> cut.receiver, todo |-> cut.todo \ {s},
                       size |-> cut.size]
            /\ \A k : Subscribers(k)' =
                    IF k = s THEN Subscribers(k) \ {cut.receiver} ELSE Subscribers(k)
            /\ late' = late \/ late' = late \cup {<<"block", s>>}
    BY <1>16, NextBuckets
  <2>2. UNCHANGED <<receivers, byReceiver>> /\ DOMAIN bySender' = DOMAIN bySender /\ cut # None
    BY <1>16, NextBuckets
  <2>3. BucketTypes'
    BY <1>1, <2>1, <2>2 DEF BucketTypes, Subscriptions
  <2>4. UNCHANGED <<opening, sends, inside, held, freed, phase, raced>>
    BY <1>16 DEF DisconnectNext
  <2>5. LockTypes' /\ s \in Senders
    BY <1>1, <2>1, <2>2, <2>4 DEF LockTypes
  <2>6. late' \subseteq {"send", "block"} \X Senders
    BY <1>1, <2>1, <2>5 DEF OtherTypes
  <2> QED
    BY <1>1, <2>2, <2>3, <2>4, <2>5, <2>6 DEF OtherTypes
<1>17. CASE DisconnectFails
  BY <1>1, <1>6, <1>17 DEF DisconnectFails, tables, LockTypes, OtherTypes
<1>18. CASE DisconnectEnds
  <2>1. BucketTypes'
    BY <1>5, <1>18 DEF DisconnectEnds
  <2> QED
    BY <1>1, <1>18, <2>1 DEF DisconnectEnds, LockTypes, OtherTypes
<1>19. ASSUME NEW r \in Receivers, IgnoreCuts(r)
       PROVE  BucketTypes' /\ LockTypes' /\ OtherTypes'
  <2>1. opening.flow \in Flows
    BY <1>1, <1>19 DEF IgnoreCuts, BlockPops, LockTypes
  <2>2. BucketTypes' /\ LockTypes'
    BY <1>4, <1>19, <2>1 DEF IgnoreCuts, BlockPops
  <2> QED
    BY <1>1, <1>19, <2>2 DEF IgnoreCuts, BlockPops, OtherTypes
<1>20. ASSUME NEW r \in Receivers, IgnoreSkips(r)
       PROVE  BucketTypes' /\ LockTypes' /\ OtherTypes'
  BY <1>1, <1>6, <1>20 DEF IgnoreSkips, LockTypes, OtherTypes
<1>21. CASE IgnoreCutEnds
  BY <1>1, <1>6, <1>21 DEF IgnoreCutEnds, LockTypes, OtherTypes
<1>22. CASE IgnoreOpened
  BY <1>1, <1>6, <1>22 DEF IgnoreOpened, tables, LockTypes, OtherTypes
<1>23. CASE IgnoreFails
  BY <1>1, <1>6, <1>23 DEF IgnoreFails, tables, LockTypes, OtherTypes
<1>24. ASSUME NEW s \in Workers, SenderFreed(s)
       PROVE  BucketTypes' /\ LockTypes' /\ OtherTypes'
  <2>1. BucketTypes'
    <3>1. DOMAIN bySender' = DOMAIN bySender \ {s} /\ DOMAIN byReceiver' = DOMAIN byReceiver \cup Subscribers(s)
      BY <1>24, FreedBuckets
    <3>2. ANY \in DOMAIN bySender' /\ IsFiniteSet(DOMAIN bySender')
      BY <1>1, <3>1, FS_Subset DEF BucketTypes
    <3> QED
      BY <1>1, <1>24, <3>1, <3>2, FreedBuckets DEF BucketTypes
  <2>2. raced' \subseteq Receivers
    BY <1>1, <1>7, <1>24 DEF SenderFreed, OtherTypes
  <2> QED
    BY <1>1, <1>24, <2>1, <2>2 DEF SenderFreed, LockTypes, OtherTypes
<1>25. CASE UNCHANGED vars
  BY <1>1, <1>6, <1>25 DEF vars, LockTypes, OtherTypes
<1> QED
  BY <1>8, <1>9, <1>10, <1>11, <1>12, <1>13, <1>14, <1>15, <1>16, <1>17, <1>18, <1>19, <1>20,
     <1>21, <1>22, <1>23, <1>24, <1>25 DEF Next

--------------------------------------------------------------------------------
\* What is to be kept besides the types.
Contents == SameTables /\ CutProgress /\ Scoped /\ Entering /\ LiveIsSubscribed /\ EmptyIsHeld

\* A listener is subscribed, or in an ignore block of its worker.
Kept(r) ==
    \/ /\ r \in receivers
       /\ r \in Subscribers(ReceiverScope[r])
       /\ ReceiverScope[r] \in Subscriptions(r)
    \/ \E f \in Flows : InBlock(f) /\ FlowScope[f] = ReceiverScope[r] /\ r \in held[f]

LEMMA LiveIsKept ==
    LiveIsSubscribed <=> \A r \in Receivers : phase[r] = "live" /\ ~Cut(r) => Kept(r)
  BY DEF LiveIsSubscribed, Kept, Subscribers, Subscriptions

LEMMA InitContents == Init => Contents
<1> SUFFICES ASSUME Init PROVE Contents
  OBVIOUS
<1>1. \A k : Subscribers(k) = {} /\ Subscriptions(k) = {}
  BY DEF Init, Subscribers, Subscriptions, Bucket
<1>2. cut = None /\ opening = None /\ DOMAIN bySender = {ANY}
  BY DEF Init
<1>3. (\A f \in Flows : held[f] = {}) /\ \A r \in Receivers : phase[r] = "new"
  BY DEF Init
<1> QED
  BY <1>1, <1>2, <1>3
     DEF Contents, SameTables, CutProgress, Scoped, Entering, LiveIsSubscribed, EmptyIsHeld

\* A connect fills a bucket of each dictionary.
LEMMA ConnectContents ==
    ASSUME TableTypes, Contents, NEW f \in Flows, NEW r \in Receivers, Connect(f, r)
    PROVE  Contents'
<1> DEFINE s == FlowScope[f]
<1>1. /\ cut = None /\ opening = None /\ UNCHANGED <<cut, opening, inside, held, late>>
      /\ ReceiverScope[r] = s /\ phase[r] = "new"
      /\ phase' = [phase EXCEPT ![r] = "live"]
      /\ Subscribe({r}, s)
  BY DEF Connect, SetsUp, LockIsFree
<1>2. /\ receivers' = receivers \cup {r}
      /\ \A k : Subscribers(k)' = IF k = s THEN Subscribers(k) \cup {r} ELSE Subscribers(k)
      /\ \A q : Subscriptions(q)' = IF q \in {r} THEN Subscriptions(q) \cup {s} ELSE Subscriptions(q)
      /\ DOMAIN bySender' = IF {r} = {} THEN DOMAIN bySender ELSE DOMAIN bySender \cup {s}
  <2>1. Subscribe({r}, s)
    BY <1>1
  <2> HIDE DEF s
  <2> QED
    BY <2>1, SubscribeBuckets
<1>3. phase \in [Receivers -> {"new", "live", "gone", "failed", "lost"}]
  BY DEF TableTypes, TypeOK
<1>4. \A q \in Receivers : phase'[q] = IF q = r THEN "live" ELSE phase[q]
  BY <1>1, <1>3
<1> HIDE DEF s
<1>5. SameTables'
  BY <1>1, <1>2, <1>4 DEF Contents, SameTables, Cut
<1>6. CutProgress' /\ Scoped' /\ Entering'
  BY <1>1, <1>2 DEF Contents, CutProgress, Scoped, Entering
<1>7. LiveIsSubscribed'
  BY <1>1, <1>2, <1>4
     DEF Contents, LiveIsSubscribed, Subscribers, Subscriptions, Cut, InBlock
<1>8. EmptyIsHeld'
  BY <1>1, <1>2, <1>4 DEF Contents, EmptyIsHeld
<1> QED
  BY <1>5, <1>6, <1>7, <1>8 DEF Contents

\* The end of a block gives back what it held.
LEMMA IgnoreExitContents ==
    ASSUME TableTypes, Contents, NEW f \in Flows, IgnoreExit(f)
    PROVE  Contents'
<1> DEFINE s == FlowScope[f]
           S == held[f]
<1>1. /\ cut = None /\ opening = None /\ UNCHANGED <<cut, opening, phase, late>>
      /\ inside' = inside \ {f}
      /\ held' = [held EXCEPT ![f] = {}]
      /\ Subscribe(S, s)
  BY DEF IgnoreExit, Restores, LockIsFree
<1>2. /\ receivers' = receivers \cup S
      /\ \A k : Subscribers(k)' = IF k = s THEN Subscribers(k) \cup S ELSE Subscribers(k)
      /\ \A q : Subscriptions(q)' = IF q \in S THEN Subscriptions(q) \cup {s} ELSE Subscriptions(q)
      /\ DOMAIN bySender' = IF S = {} THEN DOMAIN bySender ELSE DOMAIN bySender \cup {s}
  <2>1. Subscribe(S, s)
    BY <1>1
  <2> HIDE DEF s, S
  <2> QED
    BY <2>1, SubscribeBuckets
<1>3. inside \subseteq Flows /\ held \in [Flows -> SUBSET Receivers]
  BY DEF TableTypes, TypeOK
<1>4. \A g \in Flows : held'[g] = IF g = f THEN {} ELSE held[g]
  BY <1>1, <1>3
<1>5. s = FlowScope[f] /\ S = held[f]
  OBVIOUS
<1> HIDE DEF s, S
<1>6. SameTables'
  BY <1>1, <1>2 DEF Contents, SameTables, Cut
<1>7. CutProgress' /\ Scoped' /\ Entering'
  BY <1>1, <1>2, <1>4, <1>5 DEF Contents, CutProgress, Scoped, Entering
<1>8. LiveIsSubscribed'
  BY <1>1, <1>2, <1>3, <1>4, <1>5
     DEF Contents, LiveIsSubscribed, Subscribers, Subscriptions, Cut, InBlock
<1>9. EmptyIsHeld'
  BY <1>1, <1>2, <1>3, <1>4, <1>5 DEF Contents, EmptyIsHeld
<1> QED
  BY <1>6, <1>7, <1>8, <1>9 DEF Contents

\* A block of a worker takes the receivers it finds out of one bucket, and holds them.
LEMMA IgnoreEnterContents ==
    ASSUME TableTypes, Contents, NEW f \in Flows, IgnoreEnter(f)
    PROVE  Contents'
<1> DEFINE s == FlowScope[f]
           S == Taken(f)
<1>1. /\ cut = None /\ opening = None /\ UNCHANGED <<receivers, cut, opening, phase, late>>
      /\ f \notin inside /\ inside' = inside \cup {f}
      /\ held' = [held EXCEPT ![f] = S]
      /\ s # ANY
  BY DEF IgnoreEnter, Taken, LockIsFree
<1>2. s = FlowScope[f]
  OBVIOUS
<1>3. S = receivers \cap (Subscribers(ANY) \cup Subscribers(s))
  BY FoundReceivers DEF Taken
<1>4. /\ \A k : Subscribers(k)' = IF k = s THEN Subscribers(k) \ S ELSE Subscribers(k)
      /\ \A r : Subscriptions(r)' = IF r \in S THEN Subscriptions(r) \ {s} ELSE Subscriptions(r)
      /\ DOMAIN bySender' = IF S = {} THEN DOMAIN bySender ELSE DOMAIN bySender \cup {s}
  BY IgnoreEnterBuckets
<1> HIDE DEF s, S
<1>5. inside \subseteq Flows /\ held \in [Flows -> SUBSET Receivers]
  BY DEF TableTypes, TypeOK
<1>6. \A g \in Flows : held'[g] = IF g = f THEN S ELSE held[g]
  BY <1>1, <1>5
<1>7. s \in Senders /\ ANY \in Senders
  BY <1>2, SendersAssumption DEF Senders
<1>8. \A r \in S : ReceiverScope[r] \in {s, ANY}
  BY <1>3, <1>7 DEF Contents, Scoped
<1>9. SameTables'
  BY <1>1, <1>4 DEF Contents, SameTables, Cut
<1>10. CutProgress' /\ Scoped' /\ Entering'
  BY <1>1, <1>2, <1>4, <1>6, <1>8 DEF Contents, CutProgress, Scoped, Entering
<1>11. LiveIsSubscribed'
  <2> SUFFICES ASSUME NEW q \in Receivers, phase[q] = "live" PROVE Kept(q)'
    BY <1>1 DEF LiveIsSubscribed, Kept, Subscribers, Subscriptions
  <2>1. Kept(q)
    BY <1>1, LiveIsKept DEF Contents, Cut
  <2>2. CASE \E g \in Flows : InBlock(g) /\ FlowScope[g] = ReceiverScope[q] /\ q \in held[g]
    BY <1>1, <1>5, <1>6, <2>2 DEF Kept, InBlock
  <2>3. CASE q \in S /\ ReceiverScope[q] = s
    BY <1>1, <1>2, <1>6, <2>3 DEF Kept, InBlock
  <2>4. CASE q \in S /\ ReceiverScope[q] = ANY
    BY <1>1, <1>4, <2>1, <2>2, <2>4 DEF Kept
  <2>5. CASE q \notin S
    BY <1>1, <1>4, <2>1, <2>2, <2>5 DEF Kept
  <2> QED
    BY <1>8, <2>3, <2>4, <2>5
<1>12. EmptyIsHeld'
  <2> SUFFICES ASSUME NEW t \in DOMAIN bySender' \ {ANY}, Subscribers(t)' = {}
               PROVE  \/ \E g \in inside' : FlowScope[g] = t /\ held'[g] # {}
                      \/ \E why \in {"send", "block"} : <<why, t>> \in late'
                      \/ \E r \in Receivers : phase'[r] = "failed"
    BY DEF EmptyIsHeld
  <2>1. CASE t \in DOMAIN bySender /\ Subscribers(t) = {}
    <3>1. \/ \E g \in inside : FlowScope[g] = t /\ held[g] # {}
          \/ \E why \in {"send", "block"} : <<why, t>> \in late
          \/ \E r \in Receivers : phase[r] = "failed"
      BY <1>1, <2>1 DEF Contents, EmptyIsHeld
    <3> QED
      BY <1>1, <1>5, <1>6, <3>1
  <2>2. CASE S # {} /\ t = s
    BY <1>1, <1>2, <1>6, <2>2
  <2> QED
    BY <1>4, <2>1, <2>2
<1> QED
  BY <1>9, <1>10, <1>11, <1>12 DEF Contents

\* A block at ANY begins with all its receivers to be disconnected.
LEMMA IgnoreOpensContents ==
    ASSUME TableTypes, Contents, NEW f \in Flows, IgnoreOpens(f)
    PROVE  Contents'
<1> DEFINE S == ReceiversFor(ANY)
<1>1. /\ cut = None /\ opening = None /\ cut' = None
      /\ UNCHANGED <<receivers, bySender, byReceiver, inside, phase, late>>
      /\ f \notin inside /\ FlowScope[f] = ANY
      /\ held' = [held EXCEPT ![f] = S]
      /\ opening' = [flow |-> f, rest |-> S]
  BY DEF IgnoreOpens, LockIsFree, tables
<1>2. S = receivers \cap Subscribers(ANY) /\ S \subseteq Receivers
  BY FoundReceivers DEF TableTypes, TypeOK
<1>3. opening' # None /\ opening'.flow = f /\ opening'.rest = S
  BY <1>1, <1>2, NoneAssumption
<1> HIDE DEF S
<1>4. /\ \A k : Subscribers(k)' = Subscribers(k)
      /\ \A q : Subscriptions(q)' = Subscriptions(q)
  BY <1>1 DEF Subscribers, Subscriptions
<1>5. \A g \in Flows : held'[g] = IF g = f THEN S ELSE held[g]
  BY <1>1 DEF TableTypes, TypeOK
<1>6. ANY \in Senders
  BY DEF Senders
<1>7. SameTables'
  BY <1>1, <1>4 DEF Contents, SameTables, Cut
<1>8. CutProgress' /\ Scoped'
  BY <1>1, <1>2, <1>4, <1>5, <1>6 DEF Contents, CutProgress, Scoped
<1>9. Entering'
  BY <1>1, <1>2, <1>3, <1>4, <1>5 DEF Entering
<1>10. LiveIsSubscribed'
  <2> SUFFICES ASSUME NEW q \in Receivers, phase[q] = "live" PROVE Kept(q)'
    BY <1>1 DEF LiveIsSubscribed, Kept, Subscribers, Subscriptions
  <2>1. Kept(q)
    BY <1>1, LiveIsKept DEF Contents, Cut
  <2> QED
    BY <1>1, <1>4, <1>5, <2>1 DEF Kept, InBlock
<1>11. EmptyIsHeld'
  BY <1>1, <1>3, <1>4, <1>5 DEF Contents, EmptyIsHeld, TableTypes, TypeOK
<1> QED
  BY <1>7, <1>8, <1>9, <1>10, <1>11 DEF Contents

\* A disconnect begins with its receiver in no entry of _by_receiver, and with every
\* bucket to visit.
LEMMA PopsContents ==
    ASSUME TableTypes, Contents, NEW f \in Flows, NEW r \in Receivers,
           cut = None, Pops(f, r, DOMAIN bySender),
           UNCHANGED <<bySender, receivers, inside, held, phase, late>>
    PROVE  /\ SameTables' /\ CutProgress' /\ Scoped'
           /\ cut' # None /\ cut'.flow = f /\ cut'.receiver = r
           /\ \A k : Subscribers(k)' = Subscribers(k)
           /\ \A q \in Receivers : q # r => Subscriptions(q)' = Subscriptions(q)
<1>1. /\ \A k : Subscribers(k)' = Subscribers(k)
      /\ \A q : Subscriptions(q)' = IF q = r THEN {} ELSE Subscriptions(q)
      /\ cut' = [flow |-> f, receiver |-> r, todo |-> DOMAIN bySender, size |-> Size(bySender)]
  BY PopsBuckets
<1>2. cut' # None /\ cut'.flow = f /\ cut'.receiver = r /\ cut'.todo = DOMAIN bySender
  <2>1. DOMAIN bySender \in SUBSET Senders /\ Size(bySender) \in Nat
    BY FS_CardinalityType DEF TableTypes, TypeOK, Size
  <2>2. cut' \in [flow : Flows, receiver : Receivers, todo : SUBSET Senders, size : Nat]
    BY <1>1, <2>1
  <2> QED
    BY <1>1, <2>2, NoneAssumption
<1>3. SameTables'
  BY <1>1, <1>2 DEF Contents, SameTables, Cut
<1>4. CutProgress' /\ Scoped'
  <2>1. \A k : r \in Subscribers(k) => k \in DOMAIN bySender
    BY DEF Subscribers, Bucket
  <2> QED
    BY <1>1, <1>2, <2>1 DEF Contents, CutProgress, Scoped
<1> QED
  BY <1>1, <1>2, <1>3, <1>4

LEMMA DisconnectContents ==
    ASSUME TableTypes, Contents, NEW f \in Flows, NEW r \in Receivers, Disconnect(f, r)
    PROVE  Contents'
<1>1. /\ cut = None /\ opening = None /\ Pops(f, r, DOMAIN bySender)
      /\ UNCHANGED <<bySender, receivers, opening, inside, held, phase, late>>
  BY DEF Disconnect, CleansUp, LockIsFree
<1>2. /\ SameTables' /\ CutProgress' /\ Scoped'
      /\ cut' # None /\ cut'.receiver = r
      /\ \A k : Subscribers(k)' = Subscribers(k)
      /\ \A q \in Receivers : q # r => Subscriptions(q)' = Subscriptions(q)
  BY <1>1, PopsContents
<1>3. Entering' /\ EmptyIsHeld'
  BY <1>1, <1>2 DEF Entering, EmptyIsHeld
<1>4. LiveIsSubscribed'
  BY <1>1, <1>2 DEF Contents, LiveIsSubscribed, Subscribers, Subscriptions, Cut, InBlock
<1> QED
  BY <1>2, <1>3, <1>4 DEF Contents

\* So does that of a receiver by a block at ANY.
LEMMA IgnoreCutsContents ==
    ASSUME TableTypes, Contents, NEW r \in Receivers, IgnoreCuts(r)
    PROVE  Contents'
<1>1. /\ cut = None /\ opening # None /\ r \in opening.rest
      /\ Pops(opening.flow, r, DOMAIN bySender)
      /\ opening' = [opening EXCEPT !.rest = @ \ {r}]
      /\ UNCHANGED <<bySender, receivers, inside, held, phase, late>>
  BY DEF IgnoreCuts, BlockPops
<1>2. opening \in [flow : Flows, rest : SUBSET Receivers]
  BY <1>1 DEF TableTypes
<1>3. opening' # None /\ opening'.flow = opening.flow /\ opening'.rest = opening.rest \ {r}
  BY <1>1, <1>2, NoneAssumption
<1>4. /\ SameTables' /\ CutProgress' /\ Scoped'
      /\ cut' # None /\ cut'.flow = opening.flow /\ cut'.receiver = r
      /\ \A k : Subscribers(k)' = Subscribers(k)
      /\ \A q \in Receivers : q # r => Subscriptions(q)' = Subscriptions(q)
  BY <1>1, <1>2, PopsContents
<1>5. Entering'
  BY <1>1, <1>3, <1>4 DEF Contents, Entering
<1>6. EmptyIsHeld'
  BY <1>1, <1>3, <1>4 DEF Contents, EmptyIsHeld
<1>7. LiveIsSubscribed'
  BY <1>1, <1>3, <1>4 DEF Contents, LiveIsSubscribed, Subscribers, Subscriptions, Cut, InBlock
<1> QED
  BY <1>4, <1>5, <1>6, <1>7 DEF Contents

\* A receiver that the block finds and _by_receiver does not have is a failed one.
LEMMA IgnoreSkipsContents ==
    ASSUME TableTypes, Contents, NEW r \in Receivers, IgnoreSkips(r)
    PROVE  Contents'
<1>1. /\ cut = None /\ opening # None /\ r \in opening.rest /\ r \notin DOMAIN byReceiver
      /\ receivers' = receivers \ {r}
      /\ opening' = [opening EXCEPT !.rest = @ \ {r}]
      /\ UNCHANGED <<bySender, byReceiver, cut, inside, held, phase, late>>
  BY DEF IgnoreSkips
<1>2. opening \in [flow : Flows, rest : SUBSET Receivers]
  BY <1>1 DEF TableTypes
<1>3. opening' # None /\ opening'.flow = opening.flow /\ opening'.rest = opening.rest \ {r}
  BY <1>1, <1>2, NoneAssumption
<1>4. /\ \A k : Subscribers(k)' = Subscribers(k)
      /\ \A q : Subscriptions(q)' = Subscriptions(q)
  BY <1>1 DEF Subscribers, Subscriptions
<1>5. phase[r] = "failed"
  <2>1. r \in Subscribers(ANY) /\ Subscriptions(r) = {}
    BY <1>1 DEF Contents, Entering, Subscriptions, Bucket
  <2> QED
    BY <1>1, <2>1 DEF Contents, SameTables, Cut, Senders
<1>6. SameTables' /\ CutProgress' /\ Scoped'
  BY <1>1, <1>4 DEF Contents, SameTables, CutProgress, Scoped, Cut
<1>7. Entering'
  BY <1>1, <1>3, <1>4 DEF Contents, Entering
<1>8. EmptyIsHeld'
  BY <1>1, <1>3, <1>4 DEF Contents, EmptyIsHeld
<1>9. LiveIsSubscribed'
  BY <1>1, <1>3, <1>4, <1>5
     DEF Contents, LiveIsSubscribed, Subscribers, Subscriptions, Cut, InBlock
<1> QED
  BY <1>6, <1>7, <1>8, <1>9 DEF Contents

\* One step of an iteration takes its receiver out of one bucket.
LEMMA DisconnectNextContents ==
    ASSUME TableTypes, Contents, DisconnectNext
    PROVE  Contents'
<1>1. PICK s \in cut.todo :
        /\ cut' = [flow |-> cut.flow, receiver |-> cut.receiver, todo |-> cut.todo \ {s},
                   size |-> cut.size]
        /\ \A k : Subscribers(k)' =
                IF k = s THEN Subscribers(k) \ {cut.receiver} ELSE Subscribers(k)
        /\ late' = IF opening # None /\ Subscribers(s) = {cut.receiver}
                   THEN late \cup {<<"block", s>>} ELSE late
  BY NextBuckets
<1>2. /\ cut # None /\ DOMAIN bySender' = DOMAIN bySender
      /\ UNCHANGED <<receivers, byReceiver, opening, inside, held, phase>>
  BY NextBuckets DEF DisconnectNext
<1>3. /\ cut' # None /\ cut'.receiver = cut.receiver /\ cut'.todo = cut.todo \ {s}
      /\ cut'.flow = cut.flow
  <2>1. cut \in [flow : Flows, receiver : Receivers, todo : SUBSET Senders, size : Nat]
    BY <1>2 DEF TableTypes
  <2>2. cut' \in [flow : Flows, receiver : Receivers, todo : SUBSET Senders, size : Nat]
    BY <1>1, <2>1
  <2> QED
    BY <1>1, <2>2, NoneAssumption
<1>4. \A q : Subscriptions(q)' = Subscriptions(q)
  BY <1>2 DEF Subscriptions
<1>5. SameTables'
  BY <1>1, <1>2, <1>3, <1>4 DEF Contents, SameTables, Cut
<1>6. CutProgress' /\ Scoped'
  BY <1>1, <1>2, <1>3, <1>4 DEF Contents, CutProgress, Scoped
<1>7. Entering'
  BY <1>1, <1>2, <1>3 DEF Contents, Entering
<1>8. LiveIsSubscribed'
  BY <1>1, <1>2, <1>3, <1>4
     DEF Contents, LiveIsSubscribed, Subscribers, Subscriptions, Cut, InBlock
<1>9. EmptyIsHeld'
  <2> SUFFICES ASSUME opening # None, NEW t \in DOMAIN bySender \ {ANY}, Subscribers(t)' = {}
               PROVE  \/ \E g \in inside : FlowScope[g] = t /\ held[g] # {}
                      \/ \E why \in {"send", "block"} : <<why, t>> \in late'
                      \/ \E r \in Receivers : phase[r] = "failed"
    BY <1>2, <1>3 DEF EmptyIsHeld
  <2>1. late \subseteq late'
    BY <1>1
  <2>2. CASE Subscribers(t) = {}
    BY <2>1, <2>2 DEF Contents, EmptyIsHeld
  <2>3. CASE Subscribers(t) # {}
    <3>1. t = s /\ Subscribers(s) = {cut.receiver}
      BY <1>1, <2>3
    <3> QED
      BY <1>1, <3>1
  <2> QED
    BY <2>2, <2>3
<1> QED
  BY <1>5, <1>6, <1>7, <1>8, <1>9 DEF Contents

\* A disconnect that fails leaves the dictionaries as they are, and a failed receiver.
LEMMA DisconnectFailsContents ==
    ASSUME TableTypes, Contents, DisconnectFails
    PROVE  Contents'
<1>1. /\ cut # None /\ opening = None /\ cut' = None
      /\ UNCHANGED <<receivers, bySender, byReceiver, opening, inside, held, late>>
      /\ phase' = [phase EXCEPT ![cut.receiver] = "failed"]
  BY DEF DisconnectFails, tables
<1>2. /\ cut.receiver \in Receivers
      /\ phase \in [Receivers -> {"new", "live", "gone", "failed", "lost"}]
  BY <1>1 DEF TableTypes, TypeOK
<1>3. \A q \in Receivers : phase'[q] = IF q = cut.receiver THEN "failed" ELSE phase[q]
  BY <1>1, <1>2
<1>4. (\A k : Subscribers(k)' = Subscribers(k)) /\ \A q : Subscriptions(q)' = Subscriptions(q)
  BY <1>1 DEF Subscribers, Subscriptions
<1>5. SameTables'
  BY <1>1, <1>3, <1>4 DEF Contents, SameTables, Cut
<1>6. CutProgress' /\ Scoped' /\ Entering'
  BY <1>1, <1>4 DEF Contents, CutProgress, Scoped, Entering
<1>7. LiveIsSubscribed'
  BY <1>1, <1>3, <1>4
     DEF Contents, LiveIsSubscribed, Subscribers, Subscriptions, Cut, InBlock
<1>8. EmptyIsHeld'
  BY <1>2, <1>3 DEF EmptyIsHeld
<1> QED
  BY <1>5, <1>6, <1>7, <1>8 DEF Contents

\* So does an entry: what it had still to disconnect is subscribed, and the rest of
\* what it had found is no listener that is set up any more.
LEMMA IgnoreFailsContents ==
    ASSUME TableTypes, Contents, IgnoreFails
    PROVE  Contents'
<1> DEFINE F == opening.flow
<1>1. /\ cut # None /\ opening # None /\ cut' = None /\ opening' = None
      /\ UNCHANGED <<receivers, bySender, byReceiver, inside, late>>
      /\ held' = [held EXCEPT ![F] = {}]
  BY DEF IgnoreFails, tables
<1>2. \A q \in Receivers :
        phase'[q] = IF q = cut.receiver THEN "failed"
                    ELSE IF q \in held[F] \ opening.rest /\ phase[q] = "live" THEN "lost"
                    ELSE phase[q]
  BY DEF IgnoreFails
<1>3. cut.receiver \in Receivers /\ F \in Flows
  BY <1>1 DEF TableTypes, TypeOK
<1>4. \A g \in Flows : held'[g] = IF g = F THEN {} ELSE held[g]
  BY <1>1 DEF TableTypes, TypeOK
<1>5. (\A k : Subscribers(k)' = Subscribers(k)) /\ \A q : Subscriptions(q)' = Subscriptions(q)
  BY <1>1 DEF Subscribers, Subscriptions
<1>6. /\ FlowScope[F] = ANY /\ F \notin inside
      /\ opening.rest \subseteq held[F]
      /\ \A r \in opening.rest : r \in receivers /\ r \in Subscribers(ANY)
      /\ cut.receiver \notin opening.rest
  BY <1>1 DEF Contents, Entering
<1> HIDE DEF F
<1>7. SameTables'
  BY <1>1, <1>2, <1>5 DEF Contents, SameTables, Cut
<1>8. CutProgress' /\ Scoped' /\ Entering'
  BY <1>1, <1>4, <1>5 DEF Contents, CutProgress, Scoped, Entering
<1>9. LiveIsSubscribed'
  <2> SUFFICES ASSUME NEW q \in Receivers, phase'[q] = "live" PROVE Kept(q)'
    BY DEF LiveIsSubscribed, Kept, Subscribers, Subscriptions
  <2>1. phase[q] = "live" /\ q # cut.receiver /\ (q \in held[F] => q \in opening.rest)
    BY <1>2
  <2>2. Kept(q)
    BY <2>1, LiveIsKept DEF Contents, Cut
  <2>3. CASE q \in held[F]
    <3>1. q \in receivers /\ q \in Subscribers(ANY)
      BY <1>6, <2>1, <2>3
    <3>2. ANY \in Subscriptions(q)
      BY <2>1, <3>1 DEF Contents, SameTables, Cut, Senders
    <3>3. ReceiverScope[q] = ANY
      BY <3>1 DEF Contents, Scoped, Senders
    <3> QED
      BY <1>1, <1>5, <3>1, <3>2, <3>3 DEF Kept
  <2>4. CASE q \notin held[F]
    <3>1. \A g \in Flows : InBlock(g) /\ q \in held[g] => g \in inside /\ g # F
      BY <2>4, F = opening.flow DEF InBlock, F
    <3> QED
      BY <1>1, <1>4, <1>5, <2>2, <3>1 DEF Kept, InBlock
  <2> QED
    BY <2>3, <2>4
<1>10. EmptyIsHeld'
  BY <1>2, <1>3 DEF EmptyIsHeld
<1> QED
  BY <1>7, <1>8, <1>9, <1>10 DEF Contents

\* Pruning leaves no empty bucket.
LEMMA PrunedIsFull ==
    ASSUME bySender' = Pruned(bySender)
    PROVE  EmptyIsHeld'
<1>1. \A k \in DOMAIN bySender' \ {ANY} : bySender'[k] # {}
  BY DEF Pruned, Restrict
<1>2. \A k \in DOMAIN bySender' : Subscribers(k)' = bySender'[k]
  BY DEF Subscribers, Bucket
<1> QED
  BY <1>1, <1>2 DEF EmptyIsHeld

\* A disconnect that gets to its end leaves its receiver nowhere, and no empty bucket.
LEMMA DisconnectEndsContents ==
    ASSUME TableTypes, Contents, DisconnectEnds
    PROVE  Contents'
<1>1. /\ cut # None /\ opening = None /\ cut.todo = {} /\ cut' = None
      /\ UNCHANGED <<opening, inside, held>>
      /\ receivers' = receivers \ {cut.receiver}
      /\ bySender' = Pruned(bySender) /\ byReceiver' = Pruned(byReceiver)
      /\ phase' = [phase EXCEPT ![cut.receiver] = "gone"]
  BY DEF DisconnectEnds
<1>2. /\ cut.receiver \in Receivers
      /\ phase \in [Receivers -> {"new", "live", "gone", "failed", "lost"}]
  BY <1>1 DEF TableTypes, TypeOK
<1>3. \A q \in Receivers : phase'[q] = IF q = cut.receiver THEN "gone" ELSE phase[q]
  BY <1>1, <1>2
<1>4. (\A k : Subscribers(k)' = Subscribers(k)) /\ \A q : Subscriptions(q)' = Subscriptions(q)
  BY <1>1, PrunedBuckets DEF Subscribers, Subscriptions
<1>5. Subscriptions(cut.receiver) = {} /\ \A s \in Senders : cut.receiver \notin Subscribers(s)
  BY <1>1 DEF Contents, CutProgress
<1>6. SameTables'
  BY <1>1, <1>3, <1>4, <1>5 DEF Contents, SameTables, Cut
<1>7. CutProgress' /\ Scoped' /\ Entering'
  BY <1>1, <1>4 DEF Contents, CutProgress, Scoped, Entering
<1>8. LiveIsSubscribed'
  BY <1>1, <1>3, <1>4
     DEF Contents, LiveIsSubscribed, Subscribers, Subscriptions, Cut, InBlock
<1>9. EmptyIsHeld'
  BY <1>1, PrunedIsFull
<1> QED
  BY <1>6, <1>7, <1>8, <1>9 DEF Contents

\* Neither does one whose receiver is unknown.
LEMMA DisconnectUnknownContents ==
    ASSUME TableTypes, Contents, NEW f \in Flows, NEW r \in Receivers, DisconnectUnknown(f, r)
    PROVE  Contents'
<1>1. /\ cut = None /\ opening = None
      /\ UNCHANGED <<cut, opening, inside, held>>
      /\ receivers' = receivers \ {r}
      /\ bySender' = Pruned(bySender) /\ byReceiver' = Pruned(byReceiver)
      /\ phase' = [phase EXCEPT ![r] = IF @ = "failed" THEN @ ELSE "gone"]
  BY DEF DisconnectUnknown, CleansUp, LockIsFree
<1>2. \A q \in Receivers : phase'[q] = IF q # r \/ phase[q] = "failed" THEN phase[q] ELSE "gone"
  BY <1>1 DEF TableTypes, TypeOK
<1>3. (\A k : Subscribers(k)' = Subscribers(k)) /\ \A q : Subscriptions(q)' = Subscriptions(q)
  BY <1>1, PrunedBuckets DEF Subscribers, Subscriptions
<1>4. SameTables'
  BY <1>1, <1>2, <1>3 DEF Contents, SameTables, Cut
<1>5. CutProgress' /\ Scoped' /\ Entering'
  BY <1>1, <1>3 DEF Contents, CutProgress, Scoped, Entering
<1>6. LiveIsSubscribed'
  BY <1>1, <1>2, <1>3
     DEF Contents, LiveIsSubscribed, Subscribers, Subscriptions, Cut, InBlock
<1>7. EmptyIsHeld'
  BY <1>1, PrunedIsFull
<1> QED
  BY <1>4, <1>5, <1>6, <1>7 DEF Contents

\* The block at ANY has disconnected a receiver, which it holds.
LEMMA IgnoreCutEndsContents ==
    ASSUME TableTypes, Contents, IgnoreCutEnds
    PROVE  Contents'
<1>1. /\ cut # None /\ opening # None /\ cut.todo = {} /\ cut' = None
      /\ UNCHANGED <<bySender, byReceiver, opening, inside, held, phase, late>>
      /\ receivers' = receivers \ {cut.receiver}
  BY DEF IgnoreCutEnds
<1>2. (\A k : Subscribers(k)' = Subscribers(k)) /\ \A q : Subscriptions(q)' = Subscriptions(q)
  BY <1>1 DEF Subscribers, Subscriptions
<1>3. Subscriptions(cut.receiver) = {} /\ \A s \in Senders : cut.receiver \notin Subscribers(s)
  BY <1>1 DEF Contents, CutProgress
<1>4. /\ opening.flow \in Flows /\ FlowScope[opening.flow] = ANY
      /\ cut.receiver \in held[opening.flow] \ opening.rest
  BY <1>1 DEF Contents, Entering, TableTypes, TypeOK
<1>5. SameTables'
  BY <1>1, <1>2, <1>3 DEF Contents, SameTables, Cut
<1>6. CutProgress' /\ Scoped' /\ Entering'
  BY <1>1, <1>2, <1>4 DEF Contents, CutProgress, Scoped, Entering
<1>7. LiveIsSubscribed'
  <2> SUFFICES ASSUME NEW q \in Receivers, phase[q] = "live" PROVE Kept(q)'
    BY <1>1 DEF LiveIsSubscribed, Kept, Subscribers, Subscriptions
  <2>1. CASE q = cut.receiver
    <3>1. ReceiverScope[q] = ANY
      BY <1>4, <2>1 DEF Contents, Scoped
    <3> QED
      BY <1>1, <1>4, <2>1, <3>1 DEF Kept, InBlock
  <2>2. CASE q # cut.receiver
    <3>1. Kept(q)
      BY <2>2, LiveIsKept DEF Contents, Cut
    <3> QED
      BY <1>1, <1>2, <2>2, <3>1 DEF Kept, InBlock
  <2> QED
    BY <2>1, <2>2
<1>8. EmptyIsHeld'
  BY <1>1, <1>2 DEF Contents, EmptyIsHeld
<1> QED
  BY <1>5, <1>6, <1>7, <1>8 DEF Contents

\* And is open in the end.
LEMMA IgnoreOpenedContents ==
    ASSUME TableTypes, Contents, IgnoreOpened
    PROVE  Contents'
<1>1. /\ opening # None /\ cut = None /\ opening' = None
      /\ UNCHANGED <<receivers, bySender, byReceiver, cut, held, phase, late>>
      /\ inside' = inside \cup {opening.flow}
  BY DEF IgnoreOpened, tables
<1>2. (\A k : Subscribers(k)' = Subscribers(k)) /\ \A q : Subscriptions(q)' = Subscriptions(q)
  BY <1>1 DEF Subscribers, Subscriptions
<1>3. SameTables' /\ CutProgress' /\ Scoped' /\ Entering'
  BY <1>1, <1>2 DEF Contents, SameTables, CutProgress, Scoped, Entering, Cut
<1>4. LiveIsSubscribed'
  BY <1>1, <1>2 DEF Contents, LiveIsSubscribed, Subscribers, Subscriptions, Cut, InBlock
<1>5. EmptyIsHeld'
  BY <1>1, <1>2 DEF Contents, EmptyIsHeld
<1> QED
  BY <1>3, <1>4, <1>5 DEF Contents

\* A send may insert empty buckets.
LEMMA SendContents ==
    ASSUME TableTypes, Contents, NEW f \in Flows, SendLooksUp(f)
    PROVE  Contents'
<1>1. PICK K : /\ bySender' = LookedUp(bySender, K)
               /\ late' = late \cup ({"send"} \X (K \ DOMAIN bySender))
  BY DEF SendLooksUp
<1>2. UNCHANGED <<receivers, byReceiver, cut, opening, inside, held, phase>>
  BY DEF SendLooksUp
<1>3. (\A k : Subscribers(k)' = Subscribers(k)) /\ DOMAIN bySender' = DOMAIN bySender \cup K
  BY <1>1, LookedUpDomain, LookedUpBuckets DEF Subscribers
<1>4. \A q : Subscriptions(q)' = Subscriptions(q)
  BY <1>2 DEF Subscriptions
<1>5. SameTables' /\ CutProgress' /\ Scoped' /\ Entering'
  BY <1>2, <1>3, <1>4 DEF Contents, SameTables, CutProgress, Scoped, Entering, Cut
<1>6. LiveIsSubscribed'
  BY <1>2, <1>3, <1>4
     DEF Contents, LiveIsSubscribed, Subscribers, Subscriptions, Cut, InBlock
<1>7. EmptyIsHeld'
  <2>1. \A t \in DOMAIN bySender' : t \in DOMAIN bySender \/ <<"send", t>> \in late'
    BY <1>1, <1>3
  <2>2. late \subseteq late'
    BY <1>1
  <2> QED
    BY <1>2, <1>3, <2>1, <2>2 DEF Contents, EmptyIsHeld
<1> QED
  BY <1>5, <1>6, <1>7 DEF Contents

\* The end of a sender concerns no listener that is set up.
LEMMA SenderFreedContents ==
    ASSUME TableTypes, Contents, NEW s \in Workers, SenderFreed(s)
    PROVE  Contents'
<1>1. /\ UNCHANGED <<receivers, cut, opening, inside, held, phase>>
      /\ late' = late \ {<<"send", s>>, <<"block", s>>}
      /\ \A r \in Receivers : ReceiverScope[r] = s => phase[r] \in {"gone", "failed"}
  BY DEF SenderFreed
<1>2. /\ \A k : Subscribers(k)' = IF k = s THEN {} ELSE Subscribers(k)
      /\ \A r : Subscriptions(r)' = Subscriptions(r) \ {s}
      /\ DOMAIN bySender' = DOMAIN bySender \ {s}
  BY FreedBuckets
<1>3. s # ANY
  BY SendersAssumption
<1>4. SameTables'
  BY <1>1, <1>2 DEF Contents, SameTables, Cut
<1>5. CutProgress' /\ Scoped' /\ Entering'
  BY <1>1, <1>2, <1>3 DEF Contents, CutProgress, Scoped, Entering
<1>6. LiveIsSubscribed'
  BY <1>1, <1>2
     DEF Contents, LiveIsSubscribed, Subscribers, Subscriptions, Cut, InBlock
<1>7. EmptyIsHeld'
  <2>1. \A t \in DOMAIN bySender', why \in {"send", "block"} : <<why, t>> \in late => <<why, t>> \in late'
    BY <1>1, <1>2
  <2> QED
    BY <1>1, <1>2, <2>1 DEF Contents, EmptyIsHeld
<1> QED
  BY <1>4, <1>5, <1>6, <1>7 DEF Contents

\* Steps that only concern the sends.
LEMMA IdleContents ==
    ASSUME Contents, UNCHANGED <<tables, cut, opening, inside, held, phase, late>>
    PROVE  Contents'
  BY DEF tables, Contents, SameTables, CutProgress, Scoped, Entering, LiveIsSubscribed,
         EmptyIsHeld, Subscribers, Subscriptions, Cut, InBlock

\* Every step keeps the invariant.
LEMMA NextTables == TablesInv /\ [Next]_vars => TablesInv'
<1> SUFFICES ASSUME TableTypes, Contents, [Next]_vars PROVE Contents'
  BY NextTypes DEF TablesInv, Contents
<1>1. ASSUME NEW f \in Flows, SendChecks(f) PROVE Contents'
  BY <1>1, IdleContents DEF SendChecks
<1>2. CASE UNCHANGED vars
  BY <1>2, IdleContents DEF vars, tables
<1> QED
  BY <1>1, <1>2, ConnectContents, DisconnectContents, DisconnectUnknownContents,
     IgnoreEnterContents, IgnoreOpensContents, IgnoreCutsContents, IgnoreSkipsContents,
     IgnoreCutEndsContents, IgnoreOpenedContents, IgnoreFailsContents, IgnoreExitContents,
     SendContents, DisconnectNextContents, DisconnectFailsContents, DisconnectEndsContents,
     SenderFreedContents DEF Next

LEMMA TablesAlways == Spec => []TablesInv
<1>1. Init => TablesInv
  BY InitTypes, InitContents DEF TablesInv, Contents
<1> QED
  BY <1>1, NextTables, PTL DEF Spec

--------------------------------------------------------------------------------
\* The bookkeeping keeps its types, and the ANY bucket that the module pre-creates is
\* there for good: no pruning, ignore block or dying sender takes it.
THEOREM TablesTypes == Spec => []TypeOK
<1>1. TablesInv => TypeOK
  BY DEF TablesInv, TableTypes
<1> QED
  BY <1>1, TablesAlways, PTL

\* A listener that is set up, and whose own disconnect has not begun, is in both
\* dictionaries, or held by an ignore block of its worker, open or being entered: no
\* other unit of work's disconnect, pruning, failure or end takes it out.  What a
\* block at ANY does take out when its entry fails is not among them: it is failed or
\* lost, and FailuresAreRaces says of what.
THEOREM SetUpListenersHear == Spec => []LiveIsSubscribed
<1>1. TablesInv => LiveIsSubscribed
  BY DEF TablesInv
<1> QED
  BY <1>1, TablesAlways, PTL

\* Whenever no bucket is being visited the two dictionaries say the same of every
\* receiver but those whose disconnect, by its owner or by a block at ANY, failed,
\* although sends and dying senders ignore the lock.
THEOREM TablesAreInverse == Spec => []InverseTables
<1>1. TablesInv => InverseTables
  BY DEF TablesInv, SameTables, InverseTables, Subscribers, Subscriptions, Cut
<1> QED
  BY <1>1, TablesAlways, PTL

\* An empty bucket is never left over: each is an open ignore block's, or there
\* because of a failed disconnect, or younger than the last pruning.
THEOREM EmptyBucketsAreExplained == Spec => []EmptyBucketsArePruned
<1>1. TablesInv => EmptyBucketsArePruned
  <2>1. \A s \in DOMAIN bySender : Subscribers(s) = bySender[s]
    BY DEF Subscribers, Bucket
  <2> QED
    BY <2>1 DEF TablesInv, EmptyIsHeld, EmptyBucketsArePruned
<1> QED
  BY <1>1, TablesAlways, PTL

================================================================================
