------------------------------ MODULE EventBus ------------------------------
(***************************************************************************)
(* eventbus.bus and eventbus.bucket.  An event name has a bucket, created  *)
(* on demand under double-checked locking: a queue, its subscribers and a  *)
(* worker goroutine (Server builds the bus with one worker per bucket).    *)
(* bucket.dispatch calls the subscribers while it holds the bucket's read  *)
(* lock; addHandler and removeHandler take the write lock, and a waiting   *)
(* writer keeps new readers out, as sync.RWMutex does.                     *)
(*                                                                         *)
(* Every Publish, PublishSync and Subscribe call is a process: an event or *)
(* a subscription token stands for its call.                               *)
(***************************************************************************)
EXTENDS Naturals, Sequences

CONSTANTS
  Events,      \* Publish calls
  SyncEvents,  \* PublishSync calls
  Tokens,      \* Subscribe calls
  Keys,        \* normalised event names, not empty
  keyOf,       \* the name a call is about
  Buffer,      \* DefaultBuffer
  SelfUnsub,   \* tokens whose handler may call Unsubscribe with its own token
  MaxBuckets,  \* bound on bucket objects
  None

Calls == Events \cup SyncEvents \cup Tokens
B == 1..MaxBuckets

ASSUME BusAssumption ==
  /\ keyOf \in [Calls -> Keys] /\ Buffer \in Nat \ {0} /\ MaxBuckets \in Nat
  /\ Events \cap SyncEvents = {} /\ Tokens \cap (Events \cup SyncEvents) = {}
  /\ SelfUnsub \subseteq Tokens /\ Calls \cap B = {} /\ None \notin Calls \cup B \cup Keys

VARIABLES
  closed,     \* bus.closed
  closePc,    \* Close: "idle", "lock", "done"
  buckets,    \* bus.buckets; all None when the map is nil
  nilMap,     \* Close has set the map to nil
  bkt,        \* bucket objects: [key, ch, handlers, cancelled]
  call,       \* where each call is, or its answer
  found,      \* the bucket each call holds
  run,        \* dispatch of a bucket's worker and of a PublishSync: [ev, left, self],
              \* the event (before RLock: left = {}), the handlers to call and
              \* the token that its own handler is unsubscribing
  workerPc,   \* bucket.loop: "none", "idle", "dispatch", "exit"
  ctxDone     \* Publish calls whose context is done

busv == <<closed, closePc, buckets, nilMap>>
vars == <<busv, bkt, call, found, run, workerPc, ctxDone>>

Runners == B \cup SyncEvents
NoRun == [ev |-> None, left |-> {}, self |-> None]
NoBucket == [key |-> None, ch |-> <<>>, handlers |-> {}, cancelled |-> FALSE]

Init ==
  /\ closed = FALSE /\ closePc = "idle" /\ nilMap = FALSE
  /\ buckets = [k \in Keys |-> None]
  /\ bkt = [b \in B |-> NoBucket]
  /\ call = [x \in Calls |-> "idle"] /\ found = [x \in Calls |-> None]
  /\ run = [r \in Runners |-> NoRun]
  /\ workerPc = [b \in B |-> "none"]
  /\ ctxDone = {}

At(x, from, to) == call[x] = from /\ call' = [call EXCEPT ![x] = to]

-----------------------------------------------------------------------------
(* Common to Publish, PublishSync and Subscribe *)

\* The closed check at the entry.
Enter(x) ==
  /\ call[x] = "idle"
  /\ call' = [call EXCEPT ![x] = IF closed THEN "errClosed" ELSE "lookup"]
  /\ UNCHANGED <<busv, bkt, found, run, workerPc, ctxDone>>

\* Once getOrCreateBucket has answered: send, dispatch or add the handler.
Then(x) == IF x \in Events THEN "send" ELSE IF x \in SyncEvents THEN "rlock" ELSE "add"

\* getOrCreateBucket, the lookup under the read lock.
Lookup(x) ==
  LET b == buckets[keyOf[x]] IN
  /\ At(x, "lookup", IF b = None THEN "create" ELSE Then(x))
  /\ found' = [found EXCEPT ![x] = b]
  /\ UNCHANGED <<busv, bkt, run, workerPc, ctxDone>>

FreshBucket(b) == bkt[b].key = None /\ \A a \in 1..(b-1) : bkt[a].key # None

NewBucket(x) ==
  \E b \in B :
    /\ FreshBucket(b)
    /\ bkt' = [bkt EXCEPT ![b].key = keyOf[x]]
    /\ buckets' = [buckets EXCEPT ![keyOf[x]] = b]
    /\ workerPc' = [workerPc EXCEPT ![b] = "idle"]
    /\ found' = [found EXCEPT ![x] = b]

\* Faulty variant: the map is not looked at again under the write lock.
NoSecondLook(x) ==
  \/ /\ ~nilMap
     /\ At(x, "create", Then(x))
     /\ NewBucket(x)
  \/ /\ nilMap
     /\ At(x, "create", "panic")
     /\ UNCHANGED <<buckets, bkt, workerPc, found>>

\* getOrCreateBucket under the write lock: look again, create, or write to the
\* nil map that Close left, which panics.
LookAgainOrCreate(x) ==
  \/ /\ buckets[keyOf[x]] # None
     /\ At(x, "create", Then(x))
     /\ found' = [found EXCEPT ![x] = buckets[keyOf[x]]]
     /\ UNCHANGED <<buckets, bkt, workerPc>>
  \/ /\ buckets[keyOf[x]] = None /\ ~nilMap
     /\ At(x, "create", Then(x))
     /\ NewBucket(x)
  \/ /\ nilMap
     /\ At(x, "create", "panic")
     /\ UNCHANGED <<buckets, bkt, workerPc, found>>

Create(x) ==
  /\ LookAgainOrCreate(x)
  /\ UNCHANGED <<closed, closePc, nilMap, run, ctxDone>>

-----------------------------------------------------------------------------
(* The rest of Publish *)

Send(e) ==
  /\ At(e, "send", "ok") /\ Len(bkt[found[e]].ch) < Buffer
  /\ bkt' = [bkt EXCEPT ![found[e]].ch = Append(@, e)]
  /\ UNCHANGED <<busv, found, run, workerPc, ctxDone>>

SendCancelled(e) ==
  /\ At(e, "send", "errCtx") /\ e \in ctxDone
  /\ UNCHANGED <<busv, bkt, found, run, workerPc, ctxDone>>

CtxEnds(e) ==
  /\ e \in Events \ ctxDone /\ call[e] # "idle"
  /\ ctxDone' = ctxDone \cup {e}
  /\ UNCHANGED <<busv, bkt, call, found, run, workerPc>>

-----------------------------------------------------------------------------
(* bucket.dispatch, run by a worker or by PublishSync *)

\* The bucket a runner works on.
BucketOf(r) == IF r \in B THEN r ELSE found[r]
Dispatching(r) == IF r \in B THEN workerPc[r] = "dispatch" ELSE call[r] = "dispatch"
Reading(b) == \E r \in Runners : Dispatching(r) /\ BucketOf(r) = b
WriterWaits(b) == \E t \in Tokens : call[t] \in {"add", "remove"} /\ found[t] = b
ReadLock(r, e) == run' = [run EXCEPT ![r].ev = e, ![r].left = bkt[BucketOf(r)].handlers]

\* Faulty variant of loop: the worker leaves when the queue is empty.
ExitsWhenEmpty(b) ==
  /\ workerPc[b] = "idle" /\ bkt[b].ch = <<>>
  /\ workerPc' = [workerPc EXCEPT ![b] = "exit"]
  /\ UNCHANGED <<busv, bkt, call, found, run, ctxDone>>

\* loop: ctx.Done and the queue may both be ready.
Receive(b) ==
  /\ workerPc[b] = "idle" /\ bkt[b].ch # <<>>
  /\ workerPc' = [workerPc EXCEPT ![b] = "rlock"]
  /\ run' = [run EXCEPT ![b].ev = Head(bkt[b].ch)]
  /\ bkt' = [bkt EXCEPT ![b].ch = Tail(@)]
  /\ UNCHANGED <<busv, call, found, ctxDone>>

WorkerExits(b) ==
  /\ workerPc[b] = "idle" /\ bkt[b].cancelled
  /\ workerPc' = [workerPc EXCEPT ![b] = "exit"]
  /\ UNCHANGED <<busv, bkt, call, found, run, ctxDone>>

WorkerLocks(b) ==
  /\ workerPc[b] = "rlock" /\ ~WriterWaits(b)
  /\ workerPc' = [workerPc EXCEPT ![b] = "dispatch"]
  /\ ReadLock(b, run[b].ev)
  /\ UNCHANGED <<busv, bkt, call, found, ctxDone>>

SyncLocks(e) ==
  /\ ~WriterWaits(found[e])
  /\ At(e, "rlock", "dispatch")
  /\ ReadLock(e, e)
  /\ UNCHANGED <<busv, bkt, found, workerPc, ctxDone>>

\* Unsubscribe looks the bucket up again; after Close there is none to find.
LookupToRemove(t) ==
  At(t, "subscribed", IF buckets[keyOf[t]] = None THEN "ignored" ELSE "remove")

\* One handler is called; its panic is recovered.  A handler that unsubscribes
\* itself waits for the write lock inside its own dispatch.
CallHandler(r) ==
  \E t \in run[r].left :
    /\ \/ /\ run' = [run EXCEPT ![r].left = @ \ {t}]
          /\ UNCHANGED call
       \/ /\ t \in SelfUnsub /\ LookupToRemove(t)
          /\ run' = [run EXCEPT ![r].left = @ \ {t},
                                ![r].self = IF call'[t] = "remove" THEN t ELSE None]
    /\ UNCHANGED <<busv, bkt, found, workerPc, ctxDone>>

\* A self-unsubscribing handler has not returned until it got the write lock.
HandlerBusy(r) == run[r].self # None

Step(r) == Dispatching(r) /\ ~HandlerBusy(r) /\ CallHandler(r)

Unlock(r) ==
  /\ Dispatching(r) /\ run[r].left = {} /\ ~HandlerBusy(r)
  /\ run' = [run EXCEPT ![r] = NoRun]
  /\ IF r \in B THEN workerPc' = [workerPc EXCEPT ![r] = "idle"] /\ UNCHANGED call
     ELSE call' = [call EXCEPT ![r] = "ok"] /\ UNCHANGED workerPc
  /\ UNCHANGED <<busv, bkt, found, ctxDone>>

-----------------------------------------------------------------------------
(* Subscribe and Unsubscribe *)

\* Faulty variant: handlers are changed without the write lock.
NoLock(b) == TRUE

\* The write lock is granted when no dispatch reads.
Granted(b) == ~Reading(b)

AddHandler(t) ==
  /\ At(t, "add", "subscribed") /\ Granted(found[t])
  /\ bkt' = [bkt EXCEPT ![found[t]].handlers = @ \cup {t}]
  /\ UNCHANGED <<busv, found, run, workerPc, ctxDone>>

Unsubscribe(t) ==
  /\ LookupToRemove(t)
  /\ UNCHANGED <<busv, bkt, found, run, workerPc, ctxDone>>

RemoveHandler(t) ==
  /\ At(t, "remove", "removed") /\ Granted(found[t])
  /\ bkt' = [bkt EXCEPT ![found[t]].handlers = @ \ {t}]
  /\ UNCHANGED <<busv, found, run, workerPc, ctxDone>>

-----------------------------------------------------------------------------
(* Close *)

CloseFlag ==
  /\ ~closed /\ closed' = TRUE /\ closePc' = "lock"
  /\ UNCHANGED <<buckets, nilMap, bkt, call, found, run, workerPc, ctxDone>>

\* Faulty variant: the buckets are forgotten without being closed.
CloseForgets ==
  /\ closePc = "lock" /\ closePc' = "done"
  /\ buckets' = [k \in Keys |-> None] /\ nilMap' = TRUE
  /\ UNCHANGED <<closed, bkt, call, found, run, workerPc, ctxDone>>

CloseBuckets ==
  /\ closePc = "lock" /\ closePc' = "done"
  /\ bkt' = [b \in B |-> [bkt[b] EXCEPT !.cancelled = \E k \in Keys : buckets[k] = b]]
  /\ buckets' = [k \in Keys |-> None] /\ nilMap' = TRUE
  /\ UNCHANGED <<closed, call, found, run, workerPc, ctxDone>>

-----------------------------------------------------------------------------
Next ==
  \/ \E x \in Calls : Enter(x) \/ Lookup(x) \/ Create(x)
  \/ \E e \in Events : Send(e) \/ SendCancelled(e) \/ CtxEnds(e)
  \/ \E e \in SyncEvents : SyncLocks(e)
  \/ \E t \in Tokens : AddHandler(t) \/ Unsubscribe(t) \/ RemoveHandler(t)
  \/ \E b \in B : Receive(b) \/ WorkerExits(b) \/ WorkerLocks(b)
  \/ \E r \in Runners : Step(r) \/ Unlock(r)
  \/ CloseFlag \/ CloseBuckets

Spec == Init /\ [][Next]_vars

\* Calls in progress and workers go on and handlers return; a worker whose
\* context is done does not receive events for ever.
Fairness ==
  /\ \A x \in Calls : WF_vars(Lookup(x)) /\ WF_vars(Create(x))
  /\ \A e \in Events : WF_vars(Send(e)) /\ WF_vars(SendCancelled(e))
  /\ \A e \in SyncEvents : WF_vars(SyncLocks(e))
  /\ \A t \in Tokens : WF_vars(AddHandler(t)) /\ WF_vars(RemoveHandler(t))
  /\ \A b \in B : WF_vars(Receive(b) \/ WorkerExits(b)) /\ WF_vars(WorkerLocks(b))
  /\ \A r \in Runners : WF_vars(Step(r)) /\ WF_vars(Unlock(r))
  /\ WF_vars(CloseBuckets)

FairSpec == Spec /\ Fairness

-----------------------------------------------------------------------------
(* Properties *)

TypeOK ==
  /\ closed \in BOOLEAN /\ nilMap \in BOOLEAN /\ closePc \in {"idle", "lock", "done"}
  /\ buckets \in [Keys -> B \cup {None}]
  /\ bkt \in [B -> [key : Keys \cup {None}, ch : Seq(Events), handlers : SUBSET Tokens,
                    cancelled : BOOLEAN]]
  /\ \A b \in B : Len(bkt[b].ch) <= Buffer
  /\ call \in [Calls -> {"idle", "errClosed", "lookup", "create", "send", "rlock", "add", "panic",
                         "ok", "errCtx", "dispatch", "subscribed", "ignored", "remove", "removed"}]
  /\ found \in [Calls -> B \cup {None}]
  /\ run \in [Runners -> [ev : Events \cup SyncEvents \cup {None}, left : SUBSET Tokens,
                          self : Tokens \cup {None}]]
  /\ workerPc \in [B -> {"none", "idle", "rlock", "dispatch", "exit"}]
  /\ ctxDone \subseteq Events

\* The two lookups of getOrCreateBucket give an event name one bucket however
\* many first calls race: no subscriber sits in a bucket nobody publishes to.
OneBucketPerKey ==
  \A a, b \in B : (bkt[a].key # None /\ bkt[a].key = bkt[b].key) => a = b

\* Once removeHandler has returned, no dispatch has the handler left to call:
\* the subscriber can free what its handler uses.
RemovedNeverCalled ==
  \A r \in Runners : \A t \in run[r].left : call[t] # "removed"

\* Close reaches every worker: also a bucket made by a call that had passed the
\* closed check before is in the map Close goes through, and none is made after.
CloseReachesAll ==
  closePc = "done" => \A b \in B : workerPc[b] # "none" => bkt[b].cancelled

\* A handler has unsubscribed itself: it waits for the lock its dispatch holds.
SelfBlocked == \E r \in Runners : Dispatching(r) /\ HandlerBusy(r)

\* After Close every worker goroutine exits, unless a handler blocks itself.
CloseStopsWorkers ==
  (closePc = "done") ~> (SelfBlocked \/ \A b \in B : workerPc[b] \in {"none", "exit"})

\* Without Close, a Publish blocked on a full queue gets through: the worker
\* drains it, whatever subscribers come and go meanwhile, unless a handler
\* blocks itself.
PublishProgress ==
  \A e \in Events : (call[e] = "send") ~> (call[e] # "send" \/ closed \/ SelfBlocked)
=============================================================================
