----------------------------- MODULE Dispatcher -----------------------------
(***************************************************************************)
(* process.DispatcherProcess as a worker pool: OnReceive puts a frame on a *)
(* queue chosen by the strategy or drops it, workersPerChan workers per    *)
(* queue route frames, and the end of the runtime context makes one        *)
(* goroutine per queue close it and wait for its workers.  What route does *)
(* with a frame is in Routing; here it is a call that begins and ends.     *)
(***************************************************************************)
EXTENDS Naturals, Sequences

CONSTANTS
  Frames,
  connOf,     \* the connection a frame is read from
  subOf,      \* its sub-protocol
  pairOf,     \* its source and target
  hash,       \* the FNV sums of connection IDs and of pairs
  ConfigTexts,\* what the configuration may say about the strategy
  QueueCount, \* chanCount
  Workers,    \* workersPerChan
  Cap,        \* channelBuffer
  None

ASSUME DispatcherAssumption ==
  /\ DOMAIN connOf = Frames /\ DOMAIN pairOf = Frames /\ subOf \in [Frames -> Nat]
  /\ \A f \in Frames : hash[connOf[f]] \in Nat /\ hash[pairOf[f]] \in Nat
  /\ QueueCount \in Nat \ {0}
  /\ Workers \in Nat \ {0} /\ Cap \in Nat \ {0}
  /\ None \notin Frames \cup {"exit"} /\ "exit" \notin Frames

Queues == 0..(QueueCount - 1)

VARIABLES
  strategy,   \* the QueueSelectStrategy in use
  counter,    \* RoundRobinStrategy.counter
  chosen,     \* the queue selectQueue gave each frame
  recv,       \* OnReceive of each frame: "idle", "select", or how it ended
  started,    \* startOnce has run
  ctxDone,    \* the server's context, and with it runtimeCtx, is done
  queue,      \* the channels
  closed,     \* channels that were closed
  worker,     \* worker[q][i]: the frame in route, None, or "exit"
  shutdown,   \* Shutdown: "idle", "waiting", "returned"
  accepted,   \* history: frames in the order the queues took them
  ended       \* history: frames whose route has returned

select == <<strategy, counter, chosen>>
vars == <<select, recv, started, ctxDone, queue, closed, worker, shutdown, accepted, ended>>

\* StrategyFromConfig: anything unknown is the default.
StrategyFromConfig(raw) ==
  IF raw \in {"subproto", "source_target", "roundrobin"} THEN raw ELSE "conn"

Init ==
  /\ strategy \in {StrategyFromConfig(raw) : raw \in ConfigTexts}
  /\ counter = 0 /\ chosen = [f \in Frames |-> 0]
  /\ recv = [f \in Frames |-> "idle"]
  /\ started = FALSE /\ ctxDone = FALSE
  /\ queue = [q \in Queues |-> <<>>] /\ closed = {}
  /\ worker = [q \in Queues |-> [i \in 1..Workers |-> None]]
  /\ shutdown = "idle" /\ accepted = <<>> /\ ended = {}

Answer(f, how) == recv[f] = "select" /\ recv' = [recv EXCEPT ![f] = how]

\* Faulty variant: frames go by their sub-protocol, whatever the strategy.
SelectBySub(f) == subOf[f] % QueueCount

\* SelectQueue of the four strategies.
SelectQueue(f) ==
  CASE strategy = "conn" -> hash[connOf[f]] % QueueCount
    [] strategy = "subproto" -> subOf[f] % QueueCount
    [] strategy = "source_target" -> hash[pairOf[f]] % QueueCount
    [] strategy = "roundrobin" -> counter % QueueCount

\* OnReceive: ensureRuntime and selectQueue.  The read loop of a connection delivers one frame
\* after the other and ends when the context does.
OnReceive(f) ==
  /\ recv[f] = "idle"
  /\ \A g \in Frames : connOf[g] = connOf[f] => recv[g] # "select"
  /\ recv' = [recv EXCEPT ![f] = "select"]
  /\ started' = TRUE
  /\ chosen' = [chosen EXCEPT ![f] = SelectQueue(f)]
  /\ counter' = IF strategy = "roundrobin" THEN counter + 1 ELSE counter
  /\ UNCHANGED <<strategy, ctxDone, queue, closed, worker, shutdown, accepted, ended>>

Room(f) == Len(queue[chosen[f]]) < Cap

Enqueue(f) ==
  /\ chosen[f] \notin closed /\ Room(f)
  /\ Answer(f, "queued")
  /\ queue' = [queue EXCEPT ![chosen[f]] = Append(@, f)]
  /\ accepted' = Append(accepted, f)
  /\ UNCHANGED <<select, started, ctxDone, closed, worker, shutdown, ended>>

\* The other cases of the select; a send on a closed channel panics, and the
\* default is taken when no case is ready.
NotQueued(f) ==
  /\ \/ chosen[f] \in closed /\ Answer(f, "panic")
     \/ ctxDone /\ Answer(f, "cancelled")
     \/ chosen[f] \notin closed /\ ~ctxDone /\ ~Room(f) /\ Answer(f, "dropped")
  /\ UNCHANGED <<select, started, ctxDone, queue, closed, worker, shutdown, accepted, ended>>

\* for evt := range q
Begin(q, i) ==
  /\ started /\ worker[q][i] = None /\ queue[q] # <<>>
  /\ worker' = [worker EXCEPT ![q][i] = Head(queue[q])]
  /\ queue' = [queue EXCEPT ![q] = Tail(@)]
  /\ UNCHANGED <<select, recv, started, ctxDone, closed, shutdown, accepted, ended>>

\* route returns; a handler's panic is recovered in callHandler.
End(q, i) ==
  /\ worker[q][i] \in Frames
  /\ worker' = [worker EXCEPT ![q][i] = None]
  /\ ended' = ended \cup {worker[q][i]}
  /\ UNCHANGED <<select, recv, started, ctxDone, queue, closed, shutdown, accepted>>

\* Faulty variant: a closed queue is not drained.
ExitsAtOnce(q, i) ==
  /\ worker[q][i] = None /\ q \in closed
  /\ worker' = [worker EXCEPT ![q][i] = "exit"]
  /\ UNCHANGED <<select, recv, started, ctxDone, queue, closed, shutdown, accepted, ended>>

WorkerExits(q, i) ==
  /\ worker[q][i] = None /\ queue[q] = <<>> /\ q \in closed
  /\ worker' = [worker EXCEPT ![q][i] = "exit"]
  /\ UNCHANGED <<select, recv, started, ctxDone, queue, closed, shutdown, accepted, ended>>

CloseQueue(q) ==
  /\ started /\ ctxDone /\ q \notin closed
  /\ closed' = closed \cup {q}
  /\ UNCHANGED <<select, recv, started, ctxDone, queue, worker, shutdown, accepted, ended>>

\* Server.Stop: cancel the context, then Shutdown.
CancelAndShutdown ==
  /\ shutdown = "idle"
  /\ ctxDone' = TRUE /\ shutdown' = "waiting"
  /\ UNCHANGED <<select, recv, started, queue, closed, worker, accepted, ended>>

PoolGone == started => \A q \in Queues, i \in 1..Workers : worker[q][i] = "exit"

ShutdownReturns ==
  /\ shutdown = "waiting" /\ PoolGone
  /\ shutdown' = "returned"
  /\ UNCHANGED <<select, recv, started, ctxDone, queue, closed, worker, accepted, ended>>

Next ==
  \/ \E f \in Frames : OnReceive(f) \/ Enqueue(f) \/ NotQueued(f)
  \/ \E q \in Queues : \/ CloseQueue(q)
                       \/ \E i \in 1..Workers : Begin(q, i) \/ End(q, i) \/ WorkerExits(q, i)
  \/ CancelAndShutdown \/ ShutdownReturns

Spec == Init /\ [][Next]_vars

\* OnReceive does not block, workers run and handlers return.
Fairness ==
  /\ \A f \in Frames : WF_vars(Enqueue(f) \/ NotQueued(f))
  /\ \A q \in Queues : /\ WF_vars(CloseQueue(q))
                       /\ \A i \in 1..Workers : /\ WF_vars(Begin(q, i)) /\ WF_vars(End(q, i))
                                                /\ WF_vars(WorkerExits(q, i))
  /\ WF_vars(ShutdownReturns)

FairSpec == Spec /\ Fairness

-----------------------------------------------------------------------------
(* Properties *)

TypeOK ==
  /\ strategy \in {"conn", "subproto", "source_target", "roundrobin"} /\ counter \in Nat
  /\ chosen \in [Frames -> Queues]
  /\ recv \in [Frames -> {"idle", "select", "queued", "dropped", "cancelled", "panic"}]
  /\ started \in BOOLEAN /\ ctxDone \in BOOLEAN /\ closed \subseteq Queues
  /\ queue \in [Queues -> Seq(Frames)] /\ \A q \in Queues : Len(queue[q]) <= Cap
  /\ worker \in [Queues -> [1..Workers -> Frames \cup {None, "exit"}]]
  /\ shutdown \in {"idle", "waiting", "returned"}
  /\ accepted \in Seq(Frames) /\ ended \subseteq Frames

\* The frames a strategy keeps together: of one connection, one sub-protocol or
\* one pair of nodes; round robin keeps none.
Together(f, g) ==
  \/ strategy = "conn" /\ connOf[f] = connOf[g]
  \/ strategy = "subproto" /\ subOf[f] = subOf[g]
  \/ strategy = "source_target" /\ pairOf[f] = pairOf[g]

\* With one worker per queue a frame is not done before the frames taken earlier
\* that its strategy keeps together with it, although other frames share the
\* queue and they may come from several read loops: the order ConnHashStrategy
\* and SourceTargetStrategy promise.
RoutedInOrder ==
  \A i, j \in 1..Len(accepted) :
    (i < j /\ Together(accepted[i], accepted[j]) /\ accepted[j] \in ended)
    => accepted[i] \in ended

\* When the workers of a queue have ended, which is what Shutdown waits for, every
\* frame the queue took has been routed: none was queued behind the last look of
\* the last worker.
NothingLeft ==
  \A f \in Frames :
    (recv[f] = "queued" /\ \A i \in 1..Workers : worker[chosen[f]][i] = "exit") => f \in ended

\* A frame that was taken is routed, also when the runtime context ends while
\* it waits in the queue.
QueuedIsRouted == \A f \in Frames : (recv[f] = "queued") ~> (f \in ended)
=============================================================================
