-------------------------- MODULE EventBus_proofs --------------------------
(***************************************************************************)
(* Proofs about EventBus, for any number of events, names, subscribers and *)
(* buckets and any queue length.                                           *)
(***************************************************************************)
EXTENDS EventBus, TLAPS

-----------------------------------------------------------------------------
(* One bucket for a name *)

\* Until Close drops the map, it holds every bucket that was made.
Filed ==
  /\ \A b \in B : bkt[b].key # None /\ ~nilMap => buckets[bkt[b].key] = b
  /\ OneBucketPerKey

-----------------------------------------------------------------------------
(* Handlers *)

\* A call past getOrCreateBucket has a bucket.
Bound == \A x \in Calls : call[x] \in {"send", "rlock", "dispatch", "add", "subscribed", "remove"}
                            => found[x] \in B

\* Only a bucket that was made has a worker.
Staffed == \A b \in B : bkt[b].key = None => workerPc[b] = "none"

\* A handler is with the bucket its Subscribe found until removeHandler is done.
Enlisted ==
  \A b \in B : \A t \in bkt[b].handlers :
     call[t] \in {"subscribed", "remove", "ignored"} /\ found[t] = b

\* Handlers are left to call only under the read lock, and all are enlisted.
LeftEnlisted ==
  \A r \in Runners : \A t \in run[r].left :
     Dispatching(r) /\ BucketOf(r) \in B /\ t \in bkt[BucketOf(r)].handlers

-----------------------------------------------------------------------------
(* Types *)

\* The other calls stay where they are.
LEMMA OneCallMoves ==
  ASSUME TypeOK, NEW x \in Calls, NEW from, NEW to, At(x, from, to)
  PROVE  /\ call[x] = from /\ call'[x] = to
         /\ \A y \in Calls : y # x => call'[y] = call[y]
  BY DEF At, TypeOK

LEMMA KindsOfCalls ==
  /\ \A x \in Calls : Then(x) \in {"send", "rlock", "add"}
  /\ \A e \in SyncEvents : e \in Calls /\ e \notin B /\ e \notin Tokens
  /\ \A t \in Tokens : t \in Calls /\ t \notin B /\ t \notin SyncEvents
  /\ \A e \in Events : e \in Calls /\ e \notin Tokens /\ e \notin SyncEvents
  /\ None \notin B /\ None \notin Keys
  BY BusAssumption DEF Then, Calls

\* What dispatch keeps for a runner, and the buckets, after one of them changed.
RunSet == [ev : Events \cup SyncEvents \cup {None}, left : SUBSET Tokens, self : Tokens \cup {None}]

LEMMA RunChanged ==
  ASSUME NEW f \in [Runners -> RunSet], NEW r \in Runners,
         NEW ev \in Events \cup SyncEvents \cup {None}, NEW left \in SUBSET Tokens,
         NEW self \in Tokens \cup {None}
  PROVE  /\ [f EXCEPT ![r].ev = ev, ![r].left = left] \in [Runners -> RunSet]
         /\ [f EXCEPT ![r].left = left, ![r].self = self] \in [Runners -> RunSet]
         /\ [f EXCEPT ![r].left = left] \in [Runners -> RunSet]
         /\ [f EXCEPT ![r].ev = ev] \in [Runners -> RunSet]
<1>1. [f EXCEPT ![r].ev = ev, ![r].left = left] \in [Runners -> RunSet]
  BY DEF RunSet
<1>2. [f EXCEPT ![r].left = left, ![r].self = self] \in [Runners -> RunSet]
  BY DEF RunSet
<1>3. [f EXCEPT ![r].left = left] \in [Runners -> RunSet]
  BY DEF RunSet
<1>4. [f EXCEPT ![r].ev = ev] \in [Runners -> RunSet]
  BY DEF RunSet
<1>5. QED
  BY <1>1, <1>2, <1>3, <1>4

LEMMA RunTyped == TypeOK => run \in [Runners -> RunSet]
  BY DEF TypeOK, RunSet

LEMMA HandlersChanged ==
  ASSUME TypeOK, NEW b \in B, NEW hs \in SUBSET Tokens,
         bkt' = [bkt EXCEPT ![b].handlers = hs]
  PROVE  /\ bkt' \in [B -> [key : Keys \cup {None}, ch : Seq(Events), handlers : SUBSET Tokens,
                             cancelled : BOOLEAN]]
         /\ \A c \in B : bkt'[c].ch = bkt[c].ch
  BY ZenonT(60) DEF TypeOK

LEMMA InitType == Init => TypeOK /\ Bound
<1> SUFFICES ASSUME Init PROVE TypeOK /\ Bound
  OBVIOUS
<1>1. Bound
  BY DEF Init, Bound
<1>2. bkt \in [B -> [key : Keys \cup {None}, ch : Seq(Events), handlers : SUBSET Tokens,
                     cancelled : BOOLEAN]]
  BY DEF Init, NoBucket
<1>3. \A b \in B : Len(bkt[b].ch) <= Buffer
  BY BusAssumption DEF Init, NoBucket
<1>4. run \in [Runners -> [ev : Events \cup SyncEvents \cup {None}, left : SUBSET Tokens,
                           self : Tokens \cup {None}]]
  BY DEF Init, NoRun
<1>5. QED
  BY <1>1, <1>2, <1>3, <1>4 DEF Init, TypeOK

LEMMA NextType == TypeOK /\ Bound /\ [Next]_vars => TypeOK' /\ Bound'
<1> SUFFICES ASSUME TypeOK, Bound, [Next]_vars PROVE TypeOK' /\ Bound'
  OBVIOUS
<1>1. ASSUME NEW x \in Calls, Enter(x) PROVE TypeOK' /\ Bound'
  <2>1. TypeOK'
    BY <1>1 DEF Enter, busv, TypeOK
  <2>2. QED
    BY <1>1, <2>1 DEF Enter, Bound, TypeOK
<1>2. ASSUME NEW x \in Calls, Lookup(x) PROVE TypeOK' /\ Bound'
  <2>1. keyOf[x] \in Keys
    BY BusAssumption
  <2>2. TypeOK'
    BY <1>2, <2>1, KindsOfCalls DEF Lookup, At, busv, TypeOK
  <2>3. QED
    BY <1>2, <2>1, <2>2, KindsOfCalls DEF Lookup, At, Bound, TypeOK
<1>3. ASSUME NEW x \in Calls, Create(x) PROVE TypeOK' /\ Bound'
  <2>1. keyOf[x] \in Keys
    BY BusAssumption
  <2>2. CASE NewBucket(x) /\ At(x, "create", Then(x))
    <3>1. PICK b \in B : /\ bkt' = [bkt EXCEPT ![b].key = keyOf[x]]
                         /\ buckets' = [buckets EXCEPT ![keyOf[x]] = b]
                         /\ workerPc' = [workerPc EXCEPT ![b] = "idle"]
                         /\ found' = [found EXCEPT ![x] = b]
      BY <2>2 DEF NewBucket
    <3>2. /\ bkt' \in [B -> [key : Keys \cup {None}, ch : Seq(Events), handlers : SUBSET Tokens,
                             cancelled : BOOLEAN]]
          /\ \A c \in B : bkt'[c].ch = bkt[c].ch
      BY ZenonT(60), <3>1, <2>1 DEF TypeOK
    <3>3. TypeOK'
      <4>1. /\ buckets' \in [Keys -> B \cup {None}] /\ found' \in [Calls -> B \cup {None}]
            /\ workerPc' \in [B -> {"none", "idle", "rlock", "dispatch", "exit"}]
        BY <2>1, <3>1 DEF TypeOK
      <4>2. call' \in [Calls -> {"idle", "errClosed", "lookup", "create", "send", "rlock", "add",
                         "panic", "ok", "errCtx", "dispatch", "subscribed", "ignored", "remove",
                         "removed"}]
        BY <2>2, KindsOfCalls DEF At, TypeOK
      <4>3. UNCHANGED <<closed, closePc, nilMap, run, ctxDone>>
        BY <1>3 DEF Create
      <4>4. \A c \in B : Len(bkt'[c].ch) <= Buffer
        BY <3>2 DEF TypeOK
      <4>5. QED
        BY <3>2, <4>1, <4>2, <4>3, <4>4 DEF TypeOK
    <3>4. QED
      <4>1. /\ found'[x] = b /\ \A y \in Calls : y # x => found'[y] = found[y]
        BY <3>1 DEF TypeOK
      <4>2. \A y \in Calls : y # x => call'[y] = call[y]
        BY <2>2 DEF At, TypeOK
      <4>3. QED
        BY <3>3, <4>1, <4>2 DEF Bound
  <2>3. CASE /\ buckets[keyOf[x]] # None /\ At(x, "create", Then(x))
             /\ found' = [found EXCEPT ![x] = buckets[keyOf[x]]]
             /\ UNCHANGED <<buckets, bkt, workerPc>>
    <3>1. TypeOK'
      BY <1>3, <2>1, <2>3, KindsOfCalls DEF Create, At, TypeOK
    <3>2. QED
      BY <2>1, <2>3, <3>1, KindsOfCalls DEF At, Bound, TypeOK
  <2>4. CASE At(x, "create", "panic") /\ UNCHANGED <<buckets, bkt, workerPc, found>>
    <3>1. TypeOK'
      BY <1>3, <2>4 DEF Create, At, TypeOK
    <3>2. QED
      BY <2>4, <3>1 DEF At, Bound, TypeOK
  <2>5. QED
    BY <1>3, <2>2, <2>3, <2>4 DEF Create, LookAgainOrCreate
<1>4. ASSUME NEW e \in Events, Send(e) PROVE TypeOK' /\ Bound'
  <2>1. /\ bkt' \in [B -> [key : Keys \cup {None}, ch : Seq(Events), handlers : SUBSET Tokens,
                           cancelled : BOOLEAN]]
        /\ \A b \in B : Len(bkt'[b].ch) <= Buffer
    <3>1. e \in Calls /\ call[e] = "send" /\ found[e] \in B
      BY <1>4, KindsOfCalls DEF Send, At, Bound
    <3>2. /\ bkt[found[e]].ch \in Seq(Events) /\ Len(bkt[found[e]].ch) < Buffer
          /\ bkt' = [bkt EXCEPT ![found[e]].ch = Append(bkt[found[e]].ch, e)]
      BY <1>4, <3>1 DEF Send, TypeOK
    <3>3. /\ Append(bkt[found[e]].ch, e) \in Seq(Events)
          /\ Len(Append(bkt[found[e]].ch, e)) <= Buffer
      BY <3>2, BusAssumption
    <3> DEFINE more == Append(bkt[found[e]].ch, e)
    <3> HIDE DEF more
    <3>4. more \in Seq(Events) /\ Len(more) <= Buffer /\ bkt' = [bkt EXCEPT ![found[e]].ch = more]
      BY <3>2, <3>3 DEF more
    <3>5. QED
      BY ZenonT(60), <3>1, <3>4 DEF TypeOK
  <2>2. TypeOK'
    BY <1>4, <2>1, KindsOfCalls DEF Send, At, busv, TypeOK
  <2>3. QED
    BY ZenonT(60), <1>4, <2>2, KindsOfCalls DEF Send, At, Bound, TypeOK
<1>5. ASSUME NEW e \in Events, SendCancelled(e) PROVE TypeOK' /\ Bound'
  <2>1. TypeOK'
    BY <1>5, KindsOfCalls DEF SendCancelled, At, busv, TypeOK
  <2>2. QED
    BY <1>5, <2>1, KindsOfCalls DEF SendCancelled, At, Bound, TypeOK
<1>6. ASSUME NEW e \in Events, CtxEnds(e) PROVE TypeOK' /\ Bound'
  BY <1>6 DEF CtxEnds, busv, TypeOK, Bound
<1>7. ASSUME NEW e \in SyncEvents, SyncLocks(e) PROVE TypeOK' /\ Bound'
  <2>1. e \in Calls /\ e \notin B /\ e \in Runners /\ found[e] \in B
    BY <1>7, KindsOfCalls DEF SyncLocks, At, Bound, Runners
  <2>2. run' \in [Runners -> [ev : Events \cup SyncEvents \cup {None}, left : SUBSET Tokens,
                              self : Tokens \cup {None}]]
    <3> DEFINE all == bkt[found[e]].handlers
    <3>1. all \in SUBSET Tokens /\ run \in [Runners -> RunSet]
      BY <2>1, RunTyped DEF TypeOK
    <3>2. run' = [run EXCEPT ![e].ev = e, ![e].left = all]
      BY <1>7, <2>1 DEF SyncLocks, ReadLock, BucketOf
    <3> HIDE DEF all
    <3>3. run' \in [Runners -> RunSet]
      BY <2>1, <3>1, <3>2, RunChanged
    <3>4. QED
      BY <3>3 DEF RunSet
  <2>3. TypeOK'
    BY <1>7, <2>1, <2>2 DEF SyncLocks, At, busv, TypeOK
  <2>4. QED
    BY <1>7, <2>1, <2>3 DEF SyncLocks, At, Bound, TypeOK
<1>8. ASSUME NEW t \in Tokens, AddHandler(t) PROVE TypeOK' /\ Bound'
  <2>1. t \in Calls /\ found[t] \in B
    BY <1>8, KindsOfCalls DEF AddHandler, At, Bound
  <2>2. /\ bkt' \in [B -> [key : Keys \cup {None}, ch : Seq(Events), handlers : SUBSET Tokens,
                           cancelled : BOOLEAN]]
        /\ \A b \in B : bkt'[b].ch = bkt[b].ch
    <3> DEFINE more == bkt[found[t]].handlers \cup {t}
    <3>1. more \in SUBSET Tokens
      BY <2>1 DEF TypeOK
    <3>2. bkt' = [bkt EXCEPT ![found[t]].handlers = more]
      BY <1>8 DEF AddHandler
    <3> HIDE DEF more
    <3>3. QED
      BY <2>1, <3>1, <3>2, HandlersChanged
  <2>3. TypeOK'
    BY <1>8, <2>1, <2>2 DEF AddHandler, At, busv, TypeOK
  <2>4. QED
    BY <1>8, <2>1, <2>3 DEF AddHandler, At, Bound, TypeOK
<1>9. ASSUME NEW t \in Tokens, Unsubscribe(t) PROVE TypeOK' /\ Bound'
  <2>1. t \in Calls
    BY KindsOfCalls
  <2>2. TypeOK'
    BY <1>9, <2>1 DEF Unsubscribe, LookupToRemove, At, busv, TypeOK
  <2>3. QED
    BY <1>9, <2>1, <2>2 DEF Unsubscribe, LookupToRemove, At, Bound, TypeOK
<1>10. ASSUME NEW t \in Tokens, RemoveHandler(t) PROVE TypeOK' /\ Bound'
  <2>1. t \in Calls /\ found[t] \in B
    BY <1>10, KindsOfCalls DEF RemoveHandler, At, Bound
  <2>2. /\ bkt' \in [B -> [key : Keys \cup {None}, ch : Seq(Events), handlers : SUBSET Tokens,
                           cancelled : BOOLEAN]]
        /\ \A b \in B : bkt'[b].ch = bkt[b].ch
    <3>1. /\ bkt' = [bkt EXCEPT ![found[t]].handlers = bkt[found[t]].handlers \ {t}]
          /\ bkt[found[t]].handlers \ {t} \in SUBSET Tokens
      BY <1>10, <2>1 DEF RemoveHandler, TypeOK
    <3>2. QED
      BY <2>1, <3>1, HandlersChanged
  <2>3. TypeOK'
    BY <1>10, <2>1, <2>2 DEF RemoveHandler, At, busv, TypeOK
  <2>4. QED
    BY <1>10, <2>1, <2>3 DEF RemoveHandler, At, Bound, TypeOK
<1>11. ASSUME NEW b \in B, Receive(b) PROVE TypeOK' /\ Bound'
  <2>1. /\ bkt[b].ch \in Seq(Events) /\ bkt[b].ch # <<>> /\ Len(bkt[b].ch) <= Buffer
        /\ b \in Runners
    BY <1>11 DEF Receive, TypeOK, Runners
  <2>2. /\ Head(bkt[b].ch) \in Events /\ Tail(bkt[b].ch) \in Seq(Events)
        /\ Len(Tail(bkt[b].ch)) <= Buffer
    BY <2>1, BusAssumption
  <2> DEFINE first == Head(bkt[b].ch)
             rest == Tail(bkt[b].ch)
  <2> HIDE DEF first, rest
  <2>3. /\ first \in Events /\ rest \in Seq(Events) /\ Len(rest) <= Buffer
        /\ bkt' = [bkt EXCEPT ![b].ch = rest] /\ run' = [run EXCEPT ![b].ev = first]
    BY <1>11, <2>2 DEF Receive, first, rest
  <2>4. /\ bkt' \in [B -> [key : Keys \cup {None}, ch : Seq(Events), handlers : SUBSET Tokens,
                           cancelled : BOOLEAN]]
        /\ \A c \in B : Len(bkt'[c].ch) <= Buffer
    BY ZenonT(60), <2>3 DEF TypeOK
  <2>5. run' \in [Runners -> [ev : Events \cup SyncEvents \cup {None}, left : SUBSET Tokens,
                              self : Tokens \cup {None}]]
    BY ZenonT(60), <2>1, <2>3 DEF TypeOK
  <2>6. QED
    BY <1>11, <2>4, <2>5 DEF Receive, busv, TypeOK, Bound
<1>12. ASSUME NEW b \in B, WorkerExits(b) PROVE TypeOK' /\ Bound'
  BY <1>12 DEF WorkerExits, busv, TypeOK, Bound
<1>13. ASSUME NEW b \in B, WorkerLocks(b) PROVE TypeOK' /\ Bound'
  <2>1. run' \in [Runners -> [ev : Events \cup SyncEvents \cup {None}, left : SUBSET Tokens,
                              self : Tokens \cup {None}]]
    <3> DEFINE all == bkt[b].handlers
    <3>1. /\ b \in Runners /\ all \in SUBSET Tokens /\ run \in [Runners -> RunSet]
          /\ run[b].ev \in Events \cup SyncEvents \cup {None}
      BY RunTyped DEF TypeOK, Runners
    <3>2. run' = [run EXCEPT ![b].ev = run[b].ev, ![b].left = all]
      BY <1>13 DEF WorkerLocks, ReadLock, BucketOf
    <3> HIDE DEF all
    <3>3. run' \in [Runners -> RunSet]
      BY <3>1, <3>2, RunChanged
    <3>4. QED
      BY <3>3 DEF RunSet
  <2>2. QED
    BY <1>13, <2>1 DEF WorkerLocks, busv, TypeOK, Bound
<1>14. ASSUME NEW r \in Runners, Step(r) PROVE TypeOK' /\ Bound'
  <2>1. PICK t \in run[r].left :
           \/ run' = [run EXCEPT ![r].left = @ \ {t}] /\ UNCHANGED call
           \/ /\ t \in SelfUnsub /\ LookupToRemove(t)
              /\ run' = [run EXCEPT ![r].left = @ \ {t},
                                    ![r].self = IF call'[t] = "remove" THEN t ELSE None]
    BY <1>14 DEF Step, CallHandler
  <2>2. UNCHANGED <<busv, bkt, found, workerPc, ctxDone>>
    BY <1>14 DEF Step, CallHandler
  <2>3. t \in Tokens /\ t \in Calls
    BY <2>1, KindsOfCalls DEF TypeOK
  <2>4. run' \in [Runners -> [ev : Events \cup SyncEvents \cup {None}, left : SUBSET Tokens,
                              self : Tokens \cup {None}]]
    <3>1. /\ run[r].left \ {t} \in SUBSET Tokens
          /\ (IF call'[t] = "remove" THEN t ELSE None) \in Tokens \cup {None}
      BY <2>3 DEF TypeOK
    <3>2. run \in [Runners -> RunSet]
      BY RunTyped
    <3>3. [run EXCEPT ![r].left = run[r].left \ {t}] \in [Runners -> RunSet]
      BY <3>1, <3>2 DEF RunSet
    <3>4. [run EXCEPT ![r].left = run[r].left \ {t},
                      ![r].self = IF call'[t] = "remove" THEN t ELSE None]
             \in [Runners -> RunSet]
      <4> DEFINE less == run[r].left \ {t}
                 self == IF call'[t] = "remove" THEN t ELSE None
      <4>1. less \in SUBSET Tokens /\ self \in Tokens \cup {None}
        BY <3>1
      <4> HIDE DEF less, self
      <4>2. [run EXCEPT ![r].left = less, ![r].self = self] \in [Runners -> RunSet]
        BY <3>2, <4>1, RunChanged
      <4>3. QED
        BY <4>2 DEF less, self
    <3>5. QED
      BY <2>1, <3>3, <3>4 DEF RunSet
  <2>5. /\ call' \in [Calls -> {"idle", "errClosed", "lookup", "create", "send", "rlock", "add",
                         "panic", "ok", "errCtx", "dispatch", "subscribed", "ignored", "remove",
                         "removed"}]
        /\ \A x \in Calls : call'[x] # call[x] => call[x] = "subscribed"
    BY <2>1, <2>3 DEF LookupToRemove, At, TypeOK
  <2>6. TypeOK'
    BY <2>2, <2>4, <2>5 DEF busv, TypeOK
  <2>7. QED
    BY <2>2, <2>5, <2>6 DEF Bound
<1>15. ASSUME NEW r \in Runners, Unlock(r) PROVE TypeOK' /\ Bound'
  <2>1. run' \in [Runners -> [ev : Events \cup SyncEvents \cup {None}, left : SUBSET Tokens,
                              self : Tokens \cup {None}]]
    BY <1>15 DEF Unlock, NoRun, TypeOK
  <2>2. CASE r \in B
    <3>1. TypeOK'
      BY <1>15, <2>1, <2>2 DEF Unlock, busv, TypeOK
    <3>2. QED
      BY <1>15, <2>2, <3>1 DEF Unlock, Bound
  <2>3. CASE r \notin B
    <3>1. r \in Calls
      BY <2>3, KindsOfCalls DEF Runners
    <3>2. TypeOK'
      BY <1>15, <2>1, <2>3, <3>1 DEF Unlock, busv, TypeOK
    <3>3. QED
      BY <1>15, <2>3, <3>1, <3>2 DEF Unlock, Bound, TypeOK
  <2>4. QED
    BY <2>2, <2>3
<1>16. CASE CloseFlag
  BY <1>16 DEF CloseFlag, TypeOK, Bound
<1>17. CASE CloseBuckets
  <2>1. /\ bkt' \in [B -> [key : Keys \cup {None}, ch : Seq(Events), handlers : SUBSET Tokens,
                           cancelled : BOOLEAN]]
        /\ \A b \in B : bkt'[b].ch = bkt[b].ch
    <3> DEFINE flag(b) == \E k \in Keys : buckets[k] = b
    <3>1. bkt' = [b \in B |-> [bkt[b] EXCEPT !.cancelled = flag(b)]] /\ \A b \in B : flag(b) \in BOOLEAN
      BY <1>17 DEF CloseBuckets
    <3> HIDE DEF flag
    <3>2. QED
      BY ZenonT(60), <3>1 DEF TypeOK
  <2>2. QED
    BY <1>17, <2>1 DEF CloseBuckets, TypeOK, Bound
<1>18. CASE UNCHANGED vars
  BY <1>18 DEF vars, busv, TypeOK, Bound
<1>19. QED
  BY <1>1, <1>2, <1>3, <1>4, <1>5, <1>6, <1>7, <1>8, <1>9, <1>10, <1>11, <1>12, <1>13, <1>14,
     <1>15, <1>16, <1>17, <1>18 DEF Next

\* The state of the bus is always well typed, its queues never exceed Buffer,
\* and a call past getOrCreateBucket always holds a bucket.
THEOREM TypeCorrect == Spec => [](TypeOK /\ Bound)
<1>1. QED
  BY InitType, NextType, PTL DEF Spec

-----------------------------------------------------------------------------
(* One bucket for a name *)

LEMMA InitFiled == Init => Filed
  BY DEF Init, Filed, OneBucketPerKey, NoBucket

Kept(b) == bkt'[b].key = bkt[b].key /\ bkt'[b].cancelled = bkt[b].cancelled

\* Only the second lookup and Close change a bucket's name, its context or the map.
LEMMA NamesKept ==
  ASSUME TypeOK, [Next]_vars, \A x \in Calls : ~Create(x), ~CloseBuckets
  PROVE  /\ \A b \in B : Kept(b)
         /\ buckets' = buckets /\ nilMap' = nilMap
<1>1. ASSUME NEW e \in Events, Send(e) PROVE \A b \in B : Kept(b)
  BY <1>1 DEF Send, TypeOK, Kept
<1>2. ASSUME NEW t \in Tokens, AddHandler(t) \/ RemoveHandler(t)
      PROVE  \A b \in B : Kept(b)
  <2>1. CASE AddHandler(t)
    BY <2>1 DEF AddHandler, TypeOK, Kept
  <2>2. CASE RemoveHandler(t)
    BY <2>2 DEF RemoveHandler, TypeOK, Kept
  <2>3. QED
    BY <1>2, <2>1, <2>2
<1>3. ASSUME NEW b \in B, Receive(b) PROVE \A c \in B : Kept(c)
  BY <1>3 DEF Receive, TypeOK, Kept
<1>4. buckets' = buckets /\ nilMap' = nilMap
  BY DEF Next, vars, busv, Enter, Lookup, Send, SendCancelled, CtxEnds, SyncLocks, AddHandler,
         Unsubscribe, RemoveHandler, Receive, WorkerExits, WorkerLocks, Step, CallHandler, Unlock,
         CloseFlag
<1>5. \/ bkt' = bkt \/ (\E e \in Events : Send(e))
      \/ (\E t \in Tokens : AddHandler(t) \/ RemoveHandler(t)) \/ (\E b \in B : Receive(b))
  BY DEF Next, vars, Enter, Lookup, SendCancelled, CtxEnds, SyncLocks,
         Unsubscribe, WorkerExits, WorkerLocks, Step, CallHandler, Unlock, CloseFlag
<1>6. QED
  BY <1>1, <1>2, <1>3, <1>4, <1>5 DEF Kept

LEMMA NextFiled == TypeOK /\ Filed /\ [Next]_vars => Filed'
<1> SUFFICES ASSUME TypeOK, Filed, [Next]_vars PROVE Filed'
  OBVIOUS
<1>1. ASSUME NEW x \in Calls, Create(x) PROVE Filed'
  <2>1. keyOf[x] \in Keys /\ nilMap' = nilMap
    BY <1>1, BusAssumption DEF Create
  <2>2. CASE UNCHANGED <<buckets, bkt>>
    BY <2>1, <2>2 DEF Filed, OneBucketPerKey
  <2>3. CASE buckets[keyOf[x]] = None /\ ~nilMap /\ NewBucket(x)
    <3>1. PICK b \in B : /\ FreshBucket(b)
                         /\ bkt' = [bkt EXCEPT ![b].key = keyOf[x]]
                         /\ buckets' = [buckets EXCEPT ![keyOf[x]] = b]
      BY <2>3 DEF NewBucket
    <3>2. /\ bkt'[b].key = keyOf[x] /\ bkt[b].key = None
          /\ \A c \in B : c # b => bkt'[c].key = bkt[c].key
      BY <3>1 DEF TypeOK, FreshBucket
    <3>3. /\ buckets'[keyOf[x]] = b
          /\ \A k \in Keys : k # keyOf[x] => buckets'[k] = buckets[k]
      BY <2>1, <3>1 DEF TypeOK
    <3>4. \A c \in B : bkt[c].key # None => bkt[c].key \in Keys /\ bkt[c].key # keyOf[x]
      <4> SUFFICES ASSUME NEW c \in B, bkt[c].key # None
                   PROVE  bkt[c].key \in Keys /\ bkt[c].key # keyOf[x]
        OBVIOUS
      <4>1. bkt[c].key \in Keys
        BY DEF TypeOK
      <4>2. buckets[bkt[c].key] = c /\ c # None
        BY <2>3, KindsOfCalls DEF Filed
      <4>3. QED
        BY <2>3, <4>1, <4>2
    <3>5. \A c \in B : bkt'[c].key # None /\ ~nilMap' => buckets'[bkt'[c].key] = c
      <4> SUFFICES ASSUME NEW c \in B, bkt'[c].key # None, ~nilMap'
                   PROVE  buckets'[bkt'[c].key] = c
        OBVIOUS
      <4>1. CASE c = b
        BY <3>2, <3>3, <4>1
      <4>2. CASE c # b
        <5>1. bkt'[c].key = bkt[c].key /\ bkt[c].key \in Keys /\ bkt[c].key # keyOf[x]
          BY <3>2, <3>4, <4>2
        <5>2. buckets[bkt[c].key] = c
          BY <2>1, <5>1 DEF Filed
        <5>3. QED
          BY <3>3, <5>1, <5>2
      <4>3. QED
        BY <4>1, <4>2
    <3>6. OneBucketPerKey'
      BY <3>2, <3>4 DEF Filed, OneBucketPerKey
    <3>7. QED
      BY <3>5, <3>6 DEF Filed
  <2>4. QED
    BY <1>1, <2>2, <2>3 DEF Create, LookAgainOrCreate
<1>2. CASE CloseBuckets
  <2>1. nilMap' = TRUE /\ \A b \in B : bkt'[b].key = bkt[b].key
    BY <1>2 DEF CloseBuckets, TypeOK
  <2>2. QED
    BY <2>1 DEF Filed, OneBucketPerKey
<1>3. CASE (\A x \in Calls : ~Create(x)) /\ ~CloseBuckets
  BY <1>3, NamesKept DEF Filed, OneBucketPerKey, Kept
<1>4. QED
  BY <1>1, <1>2, <1>3

\* However many calls race to make the bucket of an event name, and also while
\* Close drops the map: a name gets one bucket.
THEOREM OneBucket == Spec => []OneBucketPerKey
<1>1. Init => TypeOK /\ Bound /\ Filed
  BY InitType, InitFiled
<1>2. TypeOK /\ Bound /\ Filed /\ [Next]_vars => (TypeOK /\ Bound /\ Filed)'
  BY NextType, NextFiled
<1>3. TypeOK /\ Bound /\ Filed => OneBucketPerKey
  BY DEF Filed
<1>4. QED
  BY <1>1, <1>2, <1>3, PTL DEF Spec

-----------------------------------------------------------------------------
(* No handler is called after it was removed *)

LEMMA InitHandlers == Init => Enlisted /\ LeftEnlisted
  BY DEF Init, Enlisted, LeftEnlisted, NoBucket, NoRun

\* The bucket that NewBucket makes, its effects in one place.
LEMMA MadeBucket ==
  ASSUME TypeOK, Staffed, NEW x \in Calls, NewBucket(x)
  PROVE  \E b \in B :
           /\ workerPc[b] = "none" /\ workerPc'[b] = "idle" /\ bkt'[b].key # None
           /\ \A c \in B : c # b => bkt'[c] = bkt[c] /\ workerPc'[c] = workerPc[c]
           /\ bkt'[b].handlers = bkt[b].handlers
           /\ \A y \in Calls : y # x => found'[y] = found[y]
<1>1. PICK b \in B : /\ FreshBucket(b)
                     /\ bkt' = [bkt EXCEPT ![b].key = keyOf[x]]
                     /\ workerPc' = [workerPc EXCEPT ![b] = "idle"]
                     /\ found' = [found EXCEPT ![x] = b]
  BY DEF NewBucket
<1>2. keyOf[x] # None
  BY BusAssumption
<1>3. workerPc[b] = "none"
  BY <1>1 DEF FreshBucket, Staffed
<1>4. /\ bkt'[b].key = keyOf[x] /\ bkt'[b].handlers = bkt[b].handlers
      /\ \A c \in B : c # b => bkt'[c] = bkt[c]
  BY <1>1 DEF TypeOK
<1>5. /\ workerPc'[b] = "idle" /\ \A c \in B : c # b => workerPc'[c] = workerPc[c]
      /\ \A y \in Calls : y # x => found'[y] = found[y]
  BY <1>1 DEF TypeOK
<1>6. QED
  BY <1>2, <1>3, <1>4, <1>5

\* Create moves one call, and no dispatch.
LEMMA CreateEffects ==
  ASSUME TypeOK, Staffed, NEW x \in Calls, Create(x)
  PROVE  /\ call[x] = "create" /\ call'[x] \in {"send", "rlock", "add", "panic"}
         /\ \A y \in Calls : y # x => call'[y] = call[y] /\ found'[y] = found[y]
         /\ \A b \in B : bkt'[b].handlers = bkt[b].handlers
         /\ \A b \in B : workerPc[b] # "none" => workerPc'[b] = workerPc[b]
         /\ \A b \in B : workerPc'[b] # workerPc[b] => bkt'[b].key # None
         /\ \A b \in B : bkt[b].key # None => bkt'[b].key # None
         /\ \A b \in B : workerPc'[b] = "dispatch" => workerPc[b] = "dispatch"
         /\ run' = run
<1>1. CASE NewBucket(x) /\ At(x, "create", Then(x))
  <2>1. PICK b \in B :
           /\ workerPc[b] = "none" /\ workerPc'[b] = "idle" /\ bkt'[b].key # None
           /\ \A c \in B : c # b => bkt'[c] = bkt[c] /\ workerPc'[c] = workerPc[c]
           /\ bkt'[b].handlers = bkt[b].handlers
           /\ \A y \in Calls : y # x => found'[y] = found[y]
    BY <1>1, MadeBucket
  <2>2. /\ call[x] = "create" /\ call'[x] = Then(x)
        /\ \A y \in Calls : y # x => call'[y] = call[y]
    BY <1>1 DEF At, TypeOK
  <2>3. QED
    BY <2>1, <2>2, KindsOfCalls DEF Create
<1>2. CASE /\ At(x, "create", Then(x)) /\ found' = [found EXCEPT ![x] = buckets[keyOf[x]]]
           /\ UNCHANGED <<buckets, bkt, workerPc>>
  <2>1. /\ call[x] = "create" /\ call'[x] = Then(x)
        /\ \A y \in Calls : y # x => call'[y] = call[y] /\ found'[y] = found[y]
    BY <1>2 DEF At, TypeOK
  <2>2. QED
    BY <1>2, <2>1, KindsOfCalls DEF Create
<1>3. CASE At(x, "create", "panic") /\ UNCHANGED <<buckets, bkt, workerPc, found>>
  <2>1. /\ call[x] = "create" /\ call'[x] = "panic"
        /\ \A y \in Calls : y # x => call'[y] = call[y]
    BY <1>3 DEF At, TypeOK
  <2>2. QED
    BY <1>3, <2>1 DEF Create
<1>4. QED
  BY <1>1, <1>2, <1>3 DEF Create, LookAgainOrCreate

LEMMA NextStaffed == TypeOK /\ Staffed /\ [Next]_vars => Staffed'
<1> SUFFICES ASSUME TypeOK, Staffed, [Next]_vars PROVE Staffed'
  OBVIOUS
<1>1. ASSUME NEW x \in Calls, Create(x) PROVE Staffed'
  BY <1>1, CreateEffects DEF Staffed
<1>2. ASSUME NEW b \in B, Receive(b) \/ WorkerExits(b) \/ WorkerLocks(b)
      PROVE  \A c \in B : workerPc'[c] # workerPc[c] => workerPc[c] # "none"
  BY <1>2 DEF Receive, WorkerExits, WorkerLocks, TypeOK
<1>3. ASSUME NEW r \in Runners, Unlock(r)
      PROVE  \A c \in B : workerPc'[c] # workerPc[c] => workerPc[c] # "none"
  BY <1>3 DEF Unlock, Dispatching, TypeOK
<1>4. CASE \A x \in Calls : ~Create(x)
  <2>1. \A b \in B : bkt'[b].key = bkt[b].key
    <3>1. CASE CloseBuckets
      BY <3>1 DEF CloseBuckets, TypeOK
    <3>2. QED
      BY <1>4, <3>1, NamesKept DEF Kept
  <2>2. \/ workerPc' = workerPc \/ (\E r \in Runners : Unlock(r))
        \/ \E b \in B : Receive(b) \/ WorkerExits(b) \/ WorkerLocks(b)
    BY <1>4 DEF Next, vars, Enter, Lookup, Send, SendCancelled, CtxEnds, SyncLocks, AddHandler,
           Unsubscribe, RemoveHandler, Step, CallHandler, CloseFlag, CloseBuckets
  <2>3. \A b \in B : workerPc'[b] # workerPc[b] => workerPc[b] # "none"
    BY <1>2, <1>3, <2>2
  <2>4. QED
    BY <2>1, <2>3 DEF Staffed
<1>5. QED
  BY <1>1, <1>4

\* A step that leaves the dispatches and the handlers alone, and moves no call
\* that has a handler.
LEMMA Elsewhere ==
  ASSUME Enlisted, LeftEnlisted,
         \A b \in B : bkt'[b].handlers = bkt[b].handlers,
         \A r \in Runners : run'[r].left = run[r].left,
         \A r \in Runners : Dispatching(r) => Dispatching(r)' /\ BucketOf(r)' = BucketOf(r),
         \A b \in B : \A t \in bkt[b].handlers :
            found'[t] = found[t] /\ call'[t] \in {"subscribed", "remove", "ignored"}
  PROVE  Enlisted' /\ LeftEnlisted'
  BY DEF Enlisted, LeftEnlisted


\* addHandler and removeHandler change the handlers of a bucket nobody reads.
LEMMA HandlersOf ==
  ASSUME TypeOK, Bound, NEW t \in Tokens, AddHandler(t) \/ RemoveHandler(t)
  PROVE  /\ found[t] \in B /\ ~Reading(found[t]) /\ UNCHANGED <<found, run, workerPc>>
         /\ \A b \in B : b # found[t] => bkt'[b] = bkt[b]
         /\ \A u \in Tokens : u # t => (u \in bkt'[found[t]].handlers <=> u \in bkt[found[t]].handlers)
         /\ AddHandler(t) => call[t] = "add" /\ call'[t] = "subscribed"
         /\ RemoveHandler(t) => /\ call[t] = "remove" /\ call'[t] = "removed"
                                /\ t \notin bkt'[found[t]].handlers
         /\ \A x \in Calls : x # t => call'[x] = call[x]
<1>1. t \in Calls
  BY KindsOfCalls
<1>2. CASE AddHandler(t)
  <2>1. call[t] = "add" /\ call'[t] = "subscribed" /\ \A x \in Calls : x # t => call'[x] = call[x]
    BY <1>1, <1>2 DEF AddHandler, At, TypeOK
  <2>2. found[t] \in B
    BY <1>1, <2>1 DEF Bound
  <2>3. /\ bkt'[found[t]].handlers = bkt[found[t]].handlers \cup {t}
        /\ \A b \in B : b # found[t] => bkt'[b] = bkt[b]
    BY <1>2, <2>2 DEF AddHandler, TypeOK
  <2>4. ~RemoveHandler(t)
    BY <2>1 DEF RemoveHandler, At
  <2>5. QED
    BY <1>2, <2>1, <2>2, <2>3, <2>4 DEF AddHandler, Granted
<1>3. CASE RemoveHandler(t)
  <2>1. call[t] = "remove" /\ call'[t] = "removed" /\ \A x \in Calls : x # t => call'[x] = call[x]
    BY <1>1, <1>3 DEF RemoveHandler, At, TypeOK
  <2>2. found[t] \in B
    BY <1>1, <2>1 DEF Bound
  <2>3. /\ bkt'[found[t]].handlers = bkt[found[t]].handlers \ {t}
        /\ \A b \in B : b # found[t] => bkt'[b] = bkt[b]
    BY <1>3, <2>2 DEF RemoveHandler, TypeOK
  <2>4. ~AddHandler(t)
    BY <2>1 DEF AddHandler, At
  <2>5. QED
    BY <1>3, <2>1, <2>2, <2>3, <2>4 DEF RemoveHandler, Granted
<1>4. QED
  BY <1>2, <1>3

\* They have a handler only for a call that found the bucket and is enlisted.
LEMMA NextHandlers ==
  TypeOK /\ Bound /\ Staffed /\ Enlisted /\ LeftEnlisted /\ [Next]_vars
    => Enlisted' /\ LeftEnlisted'
<1> SUFFICES ASSUME TypeOK, Bound, Staffed, Enlisted, LeftEnlisted, [Next]_vars
             PROVE  Enlisted' /\ LeftEnlisted'
  OBVIOUS
<1>0. /\ \A b \in B : bkt[b].handlers \subseteq Tokens
      /\ \A r \in Runners : run[r].left \subseteq Tokens
  BY DEF TypeOK
<1>1. ASSUME NEW x \in Calls, Enter(x) \/ Lookup(x) \/ Create(x) PROVE Enlisted' /\ LeftEnlisted'
  <2>1. /\ call[x] \in {"idle", "lookup", "create"}
        /\ \A y \in Calls : y # x => call'[y] = call[y] /\ found'[y] = found[y]
        /\ \A b \in B : bkt'[b].handlers = bkt[b].handlers
        /\ \A b \in B : workerPc[b] = "dispatch" => workerPc'[b] = "dispatch"
        /\ run' = run
    <3>1. CASE Enter(x)
      BY <3>1 DEF Enter, TypeOK
    <3>2. CASE Lookup(x)
      BY <3>2 DEF Lookup, At, TypeOK
    <3>3. CASE Create(x)
      BY <3>3, CreateEffects
    <3>4. QED
      BY <1>1, <3>1, <3>2, <3>3
  <2>2. \A r \in Runners : Dispatching(r) => Dispatching(r)' /\ BucketOf(r)' = BucketOf(r)
    BY <2>1, KindsOfCalls DEF Runners, Dispatching, BucketOf
  <2>3. \A b \in B : \A t \in bkt[b].handlers :
           found'[t] = found[t] /\ call'[t] \in {"subscribed", "remove", "ignored"}
    <3> SUFFICES ASSUME NEW b \in B, NEW t \in bkt[b].handlers
                 PROVE  found'[t] = found[t] /\ call'[t] \in {"subscribed", "remove", "ignored"}
      OBVIOUS
    <3>1. t \in Calls /\ call[t] \in {"subscribed", "remove", "ignored"}
      BY <1>0, KindsOfCalls DEF Enlisted
    <3>2. QED
      BY <2>1, <3>1
  <2>4. QED
    BY <2>1, <2>2, <2>3, Elsewhere
<1>2. ASSUME NEW e \in Events, Send(e) \/ SendCancelled(e) \/ CtxEnds(e)
      PROVE  Enlisted' /\ LeftEnlisted'
  <2>1. /\ \A y \in Calls : y # e => call'[y] = call[y]
        /\ \A b \in B : bkt'[b].handlers = bkt[b].handlers
        /\ UNCHANGED <<found, run, workerPc>>
    <3>1. CASE Send(e)
      BY <3>1, KindsOfCalls DEF Send, At, TypeOK
    <3>2. CASE SendCancelled(e)
      BY <3>2, KindsOfCalls DEF SendCancelled, At, TypeOK
    <3>3. CASE CtxEnds(e)
      BY <3>3 DEF CtxEnds
    <3>4. QED
      BY <1>2, <3>1, <3>2, <3>3
  <2>2. \A r \in Runners : Dispatching(r) => Dispatching(r)' /\ BucketOf(r)' = BucketOf(r)
    BY <2>1, KindsOfCalls DEF Runners, Dispatching, BucketOf
  <2>3. \A b \in B : \A t \in bkt[b].handlers : call'[t] \in {"subscribed", "remove", "ignored"}
    BY <1>0, <2>1, KindsOfCalls DEF Enlisted
  <2>4. QED
    BY <2>1, <2>2, <2>3, Elsewhere
<1>3. ASSUME NEW b \in B, Receive(b) \/ WorkerExits(b) PROVE Enlisted' /\ LeftEnlisted'
  <2>1. /\ \A c \in B : bkt'[c].handlers = bkt[c].handlers
        /\ \A r \in Runners : run'[r].left = run[r].left
        /\ \A c \in B : workerPc[c] = "dispatch" => workerPc'[c] = "dispatch"
        /\ UNCHANGED <<found, call>>
    <3>1. CASE Receive(b)
      BY <3>1 DEF Receive, TypeOK, Runners
    <3>2. CASE WorkerExits(b)
      BY <3>2 DEF WorkerExits, TypeOK
    <3>3. QED
      BY <1>3, <3>1, <3>2
  <2>2. \A r \in Runners : Dispatching(r) => Dispatching(r)' /\ BucketOf(r)' = BucketOf(r)
    BY <2>1 DEF Runners, Dispatching, BucketOf
  <2>3. \A c \in B : \A t \in bkt[c].handlers : call'[t] \in {"subscribed", "remove", "ignored"}
    BY <2>1 DEF Enlisted
  <2>4. QED
    BY <2>1, <2>2, <2>3, Elsewhere
<1>4. ASSUME NEW r \in Runners, \/ r \in B /\ WorkerLocks(r)
                                \/ r \in SyncEvents /\ SyncLocks(r)
      PROVE  Enlisted' /\ LeftEnlisted'
  <2>1. /\ UNCHANGED <<bkt, found>> /\ Dispatching(r)' /\ BucketOf(r)' = BucketOf(r)
        /\ BucketOf(r) \in B /\ run'[r].left = bkt[BucketOf(r)].handlers
        /\ \A s \in Runners : s # r => run'[s].left = run[s].left
        /\ \A s \in Runners : Dispatching(s) => Dispatching(s)' /\ BucketOf(s)' = BucketOf(s)
        /\ \A t \in Tokens : call'[t] = call[t]
    <3>1. CASE r \in B /\ WorkerLocks(r)
      BY <3>1 DEF WorkerLocks, ReadLock, BucketOf, Dispatching, Runners, TypeOK
    <3>2. CASE r \in SyncEvents /\ SyncLocks(r)
      <4>1. r \in Calls /\ r \notin B /\ r \notin Tokens
        BY <3>2, KindsOfCalls
      <4>2. /\ call[r] = "rlock" /\ call'[r] = "dispatch"
            /\ \A y \in Calls : y # r => call'[y] = call[y]
        BY <3>2, <4>1 DEF SyncLocks, At, TypeOK
      <4>3. found[r] \in B /\ UNCHANGED <<bkt, found, workerPc>>
        BY <3>2, <4>1, <4>2 DEF Bound, SyncLocks
      <4>4. /\ run'[r].left = bkt[found[r]].handlers
            /\ \A s \in Runners : s # r => run'[s].left = run[s].left
        BY <3>2, <4>1 DEF SyncLocks, ReadLock, BucketOf, TypeOK
      <4>5. QED
        BY <4>1, <4>2, <4>3, <4>4, KindsOfCalls DEF BucketOf, Dispatching, Runners
    <3>3. QED
      BY <1>4, <3>1, <3>2
  <2>2. Enlisted'
    BY <1>0, <2>1 DEF Enlisted
  <2>3. LeftEnlisted'
    BY <2>1 DEF LeftEnlisted
  <2>4. QED
    BY <2>2, <2>3
<1>5. ASSUME NEW t \in Tokens, AddHandler(t) \/ RemoveHandler(t) PROVE Enlisted' /\ LeftEnlisted'
  <2>1. /\ found[t] \in B /\ ~Reading(found[t]) /\ UNCHANGED <<found, run, workerPc>>
        /\ \A b \in B : b # found[t] => bkt'[b] = bkt[b]
        /\ \A u \in Tokens : u # t => (u \in bkt'[found[t]].handlers <=> u \in bkt[found[t]].handlers)
        /\ \/ call[t] = "add" /\ call'[t] = "subscribed"
           \/ call[t] = "remove" /\ call'[t] = "removed" /\ t \notin bkt'[found[t]].handlers
        /\ \A x \in Calls : x # t => call'[x] = call[x]
    BY <1>5, HandlersOf
  <2>2. Enlisted'
    <3> SUFFICES ASSUME NEW b \in B, NEW u \in bkt'[b].handlers
                 PROVE  call'[u] \in {"subscribed", "remove", "ignored"} /\ found'[u] = b
      BY DEF Enlisted
    <3>1. u \in Tokens /\ u \in Calls
      BY NextType, KindsOfCalls DEF TypeOK
    <3>2. CASE u # t
      <4>1. u \in bkt[b].handlers
        BY <2>1, <3>1, <3>2
      <4>2. QED
        BY <2>1, <3>1, <3>2, <4>1 DEF Enlisted
    <3>3. CASE u = t /\ b # found[t]
      BY <2>1, <3>3 DEF Enlisted
    <3>4. CASE u = t /\ b = found[t]
      BY <2>1, <3>4
    <3>5. QED
      BY <3>2, <3>3, <3>4
  <2>3. LeftEnlisted'
    <3> SUFFICES ASSUME NEW r \in Runners, NEW u \in run'[r].left
                 PROVE  Dispatching(r)' /\ BucketOf(r)' \in B /\ u \in bkt'[BucketOf(r)'].handlers
      BY DEF LeftEnlisted
    <3>1. Dispatching(r) /\ BucketOf(r) \in B /\ u \in bkt[BucketOf(r)].handlers
      BY <2>1 DEF LeftEnlisted
    <3>2. BucketOf(r) # found[t]
      BY <2>1, <3>1 DEF Reading
    <3>3. Dispatching(r)' /\ BucketOf(r)' = BucketOf(r)
      BY <2>1, <3>1, KindsOfCalls DEF Dispatching, BucketOf, Runners
    <3>4. QED
      BY <2>1, <3>1, <3>2, <3>3
  <2>4. QED
    BY <2>2, <2>3
<1>6. ASSUME NEW r \in Runners, Step(r) PROVE Enlisted' /\ LeftEnlisted'
  <2>1. PICK t \in run[r].left :
           \/ run' = [run EXCEPT ![r].left = @ \ {t}] /\ UNCHANGED call
           \/ /\ LookupToRemove(t)
              /\ run' = [run EXCEPT ![r].left = @ \ {t},
                                    ![r].self = IF call'[t] = "remove" THEN t ELSE None]
    BY <1>6 DEF Step, CallHandler
  <2>2. UNCHANGED <<bkt, found, workerPc>>
    BY <1>6 DEF Step, CallHandler
  <2>3. t \in Tokens /\ t \in Calls
    BY <1>0, KindsOfCalls
  <2>4. \A s \in Runners : run'[s].left \subseteq run[s].left
    BY <2>1 DEF TypeOK
  <2>5. \A x \in Calls : call'[x] = call[x] \/ (x = t /\ call[x] = "subscribed"
                                                  /\ call'[x] \in {"ignored", "remove"})
    BY <2>1, <2>3 DEF LookupToRemove, At, TypeOK
  <2>6. \A s \in Runners : Dispatching(s) => Dispatching(s)' /\ BucketOf(s)' = BucketOf(s)
    BY <2>2, <2>5, KindsOfCalls DEF Dispatching, BucketOf, Runners
  <2>7. Enlisted'
    <3>1. \A u \in Tokens : call[u] \in {"subscribed", "remove", "ignored"}
                              => call'[u] \in {"subscribed", "remove", "ignored"}
      BY <2>5, KindsOfCalls
    <3>2. QED
      BY <1>0, <2>2, <3>1 DEF Enlisted
  <2>8. LeftEnlisted'
    BY <2>2, <2>4, <2>6 DEF LeftEnlisted
  <2>9. QED
    BY <2>7, <2>8
<1>7. ASSUME NEW t \in Tokens, Unsubscribe(t) PROVE Enlisted' /\ LeftEnlisted'
  <2>1. /\ UNCHANGED <<bkt, found, run, workerPc>> /\ call'[t] \in {"ignored", "remove"}
        /\ \A x \in Calls : x # t => call'[x] = call[x]
    BY <1>7, KindsOfCalls DEF Unsubscribe, LookupToRemove, At, TypeOK
  <2>2. \A r \in Runners : Dispatching(r) => Dispatching(r)' /\ BucketOf(r)' = BucketOf(r)
    BY <2>1, KindsOfCalls DEF Dispatching, BucketOf, Runners
  <2>3. \A b \in B : \A u \in bkt[b].handlers : call'[u] \in {"subscribed", "remove", "ignored"}
    BY <1>0, <2>1, KindsOfCalls DEF Enlisted
  <2>4. QED
    BY <2>1, <2>2, <2>3, Elsewhere
<1>8. ASSUME NEW r \in Runners, Unlock(r) PROVE Enlisted' /\ LeftEnlisted'
  <2>1. /\ UNCHANGED <<bkt, found>> /\ run'[r].left = {} /\ \A s \in Runners : s # r => run'[s] = run[s]
        /\ \A t \in Tokens : call'[t] = call[t]
        /\ \A s \in Runners : s # r /\ Dispatching(s) => Dispatching(s)' /\ BucketOf(s)' = BucketOf(s)
    <3>1. UNCHANGED <<bkt, found>> /\ run'[r].left = {} /\ \A s \in Runners : s # r => run'[s] = run[s]
      BY <1>8 DEF Unlock, NoRun, TypeOK
    <3>2. CASE r \in B
      <4>1. call' = call /\ \A c \in B : c # r => workerPc'[c] = workerPc[c]
        BY <1>8, <3>2 DEF Unlock, TypeOK
      <4>2. QED
        BY <3>1, <3>2, <4>1, KindsOfCalls DEF Dispatching, BucketOf, Runners
    <3>3. CASE r \notin B
      <4>1. r \in SyncEvents
        BY <3>3 DEF Runners
      <4>2. workerPc' = workerPc /\ \A x \in Calls : x # r => call'[x] = call[x]
        BY <1>8, <3>3, <4>1, KindsOfCalls DEF Unlock, TypeOK
      <4>3. QED
        BY <3>1, <3>3, <4>1, <4>2, KindsOfCalls DEF Dispatching, BucketOf, Runners
    <3>4. QED
      BY <3>2, <3>3
  <2>2. Enlisted'
    BY <1>0, <2>1 DEF Enlisted
  <2>3. LeftEnlisted'
    <3> SUFFICES ASSUME NEW s \in Runners, NEW u \in run'[s].left
                 PROVE  Dispatching(s)' /\ BucketOf(s)' \in B /\ u \in bkt'[BucketOf(s)'].handlers
      BY DEF LeftEnlisted
    <3>1. s # r /\ u \in run[s].left
      BY <2>1
    <3>2. QED
      BY <2>1, <3>1 DEF LeftEnlisted
  <2>4. QED
    BY <2>2, <2>3
<1>9. CASE CloseFlag \/ CloseBuckets \/ UNCHANGED vars
  <2>1. /\ \A b \in B : bkt'[b].handlers = bkt[b].handlers
        /\ UNCHANGED <<call, found, run, workerPc>>
    <3>1. CASE CloseFlag
      BY <3>1 DEF CloseFlag
    <3>2. CASE CloseBuckets
      BY <3>2 DEF CloseBuckets, TypeOK
    <3>3. CASE UNCHANGED vars
      BY <3>3 DEF vars
    <3>4. QED
      BY <1>9, <3>1, <3>2, <3>3
  <2>2. \A r \in Runners : Dispatching(r) => Dispatching(r)' /\ BucketOf(r)' = BucketOf(r)
    BY <2>1 DEF Dispatching, BucketOf
  <2>3. \A b \in B : \A u \in bkt[b].handlers : call'[u] \in {"subscribed", "remove", "ignored"}
    BY <2>1 DEF Enlisted
  <2>4. QED
    BY <2>1, <2>2, <2>3, Elsewhere
<1>10. QED
  BY <1>1, <1>2, <1>3, <1>4, <1>5, <1>6, <1>7, <1>8, <1>9 DEF Next, Runners

\* No dispatch, of a worker or of a PublishSync, has a handler left to call for
\* which Unsubscribe has returned from removeHandler.
THEOREM RemovedNotCalled == Spec => []RemovedNeverCalled
<1> DEFINE Inv == TypeOK /\ Bound /\ Staffed /\ Enlisted /\ LeftEnlisted
<1>1. Init => Inv
  <2>1. Init => Staffed
    BY DEF Init, Staffed
  <2>2. QED
    BY <2>1, InitType, InitHandlers
<1>2. Inv /\ [Next]_vars => Inv'
  BY NextType, NextStaffed, NextHandlers
<1>3. Inv => RemovedNeverCalled
  BY DEF Enlisted, LeftEnlisted, RemovedNeverCalled
<1> HIDE DEF Inv
<1>4. QED
  BY <1>1, <1>2, <1>3, PTL DEF Spec

-----------------------------------------------------------------------------
(* Close and the buckets that are being made *)

\* Every bucket that was made is cancelled once Close has dropped the map.
Cancelled ==
  /\ (nilMap <=> closePc = "done") /\ (~closed => closePc = "idle")
  /\ closePc = "done" => \A b \in B : bkt[b].key # None => bkt[b].cancelled

LEMMA NextCancelled == TypeOK /\ Filed /\ Cancelled /\ [Next]_vars => Cancelled'
<1> SUFFICES ASSUME TypeOK, Filed, Cancelled, [Next]_vars PROVE Cancelled'
  OBVIOUS
<1>1. ASSUME NEW x \in Calls, Create(x) PROVE Cancelled'
  <2>1. UNCHANGED <<closed, nilMap, closePc>>
    BY <1>1 DEF Create
  <2>2. UNCHANGED bkt \/ ~nilMap
    BY <1>1 DEF Create, LookAgainOrCreate
  <2>3. QED
    BY <2>1, <2>2 DEF Cancelled
<1>2. CASE CloseBuckets
  <2>1. ~nilMap /\ nilMap' = TRUE /\ closePc' = "done" /\ closed /\ closed' = closed
    BY <1>2 DEF CloseBuckets, Cancelled
  <2>2. ASSUME NEW b \in B
        PROVE  bkt'[b].key = bkt[b].key /\ ((\E k \in Keys : buckets[k] = b) => bkt'[b].cancelled)
    <3>1. bkt'[b] = [bkt[b] EXCEPT !.cancelled = \E k \in Keys : buckets[k] = b]
      BY <1>2 DEF CloseBuckets
    <3>2. QED
      BY <3>1 DEF TypeOK
  <2>3. \A b \in B : bkt[b].key # None => bkt[b].key \in Keys /\ buckets[bkt[b].key] = b
    BY <2>1 DEF Filed, TypeOK
  <2>4. QED
    BY <2>1, <2>2, <2>3 DEF Cancelled
<1>3. CASE (\A x \in Calls : ~Create(x)) /\ ~CloseBuckets
  <2>1. nilMap' = nilMap /\ \A b \in B : Kept(b)
    BY <1>3, NamesKept
  <2>2. UNCHANGED <<closed, closePc>> \/ CloseFlag
    BY <1>3 DEF Next, vars, busv, Enter, Lookup, Send, SendCancelled, CtxEnds, SyncLocks, AddHandler,
           Unsubscribe, RemoveHandler, Receive, WorkerExits, WorkerLocks, Step, CallHandler, Unlock
  <2>3. CASE UNCHANGED <<closed, closePc>>
    BY <2>1, <2>3 DEF Cancelled, Kept
  <2>4. CASE CloseFlag
    BY <2>1, <2>4 DEF Cancelled, CloseFlag
  <2>5. QED
    BY <2>2, <2>3, <2>4
<1>4. QED
  BY <1>1, <1>2, <1>3

\* However the making of buckets races with Close, no worker escapes it: the
\* safety half of CloseStopsWorkers.
THEOREM NoWorkerEscapes == Spec => []CloseReachesAll
<1> DEFINE Inv == TypeOK /\ Bound /\ Filed /\ Staffed /\ Cancelled
<1>1. Init => Inv
  <2>1. Init => Staffed /\ Cancelled
    BY DEF Init, Staffed, Cancelled
  <2>2. QED
    BY <2>1, InitType, InitFiled
<1>2. Inv /\ [Next]_vars => Inv'
  BY NextType, NextFiled, NextStaffed, NextCancelled
<1>3. Inv => CloseReachesAll
  BY DEF Staffed, Cancelled, CloseReachesAll
<1> HIDE DEF Inv
<1>4. QED
  BY <1>1, <1>2, <1>3, PTL DEF Spec
=============================================================================
