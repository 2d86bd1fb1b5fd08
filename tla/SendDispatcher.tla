--------------------------- MODULE SendDispatcher ---------------------------
(***************************************************************************)
(* process.SendDispatcher: Dispatch puts a task on the shard queue of its  *)
(* connection; one worker per shard hands it to the connection's writer,   *)
(* created on demand; the writer goroutine writes header and payload to    *)
(* the pipe and calls the task's callback.  CloseConn (from the OnRemove   *)
(* hook) stops one writer, Shutdown cancels the dispatcher's context, and  *)
(* a closer goroutine then closes the shards and stops every writer.       *)
(*                                                                         *)
(* d.mu is held for one step by everybody but the closer, which keeps it   *)
(* while it waits for writers to drain: muHeld.  A task is identified with *)
(* its Dispatch call, a connection with its ID.                            *)
(***************************************************************************)
EXTENDS Naturals, Sequences

CONSTANTS
  Tasks, Conns, Shards,
  connOf,      \* the connection a task is for
  shardOf,     \* selectQueue: the shard of a connection
  ShardCap,    \* ChannelBuffer, at least 1
  ConnCap,     \* ConnBuffer, at least 1
  HasTimeout,  \* EnqueueTimeout > 0
  CtxMayEnd,   \* tasks whose caller's context may be done while it matters
  Removable,   \* connections that the manager may remove
  Stalling,    \* connections whose peer may stop reading
  Fragile,     \* connections on which a write may fail
  MaxWriters,  \* bound on connWriter objects
  None

ASSUME SendAssumption ==
  /\ connOf \in [Tasks -> Conns] /\ shardOf \in [Conns -> Shards]
  /\ ShardCap \in Nat \ {0} /\ ConnCap \in Nat \ {0} /\ MaxWriters \in Nat
  /\ HasTimeout \in BOOLEAN /\ CtxMayEnd \subseteq Tasks
  /\ Removable \subseteq Conns /\ Stalling \subseteq Conns /\ Fragile \subseteq Conns
  /\ None \notin Tasks \cup (1..MaxWriters)

W == 1..MaxWriters

VARIABLES
  caller,      \* Dispatch calls: "idle", "select" (blocked in it), or the answer
  root,        \* the task whose Dispatch started the dispatcher: d.ctx's parent
  ctxDone,     \* tasks whose context is done
  dctxDone,    \* d.ctx is done
  shardQ,      \* the shard channels
  shardClosed, \* they are closed, all by one uninterrupted loop
  worker,      \* shard workers: [pc, task, w]
  writers,     \* SendDispatcher.writers
  wr,          \* connWriter objects: [pc, conn, ch, closed, task]
  closer,      \* the clean-up goroutine: "wait", "lock", "stop", "done"
  muHeld,      \* d.mu is held by the closer
  shutdown,    \* Shutdown: "idle", "waiting", "returned"
  remover,     \* Manager.Remove of a connection: [pc, w]
  stalled,     \* connections whose writes block
  dead,        \* connections that were closed
  wire,        \* history: the chunks written to each connection
  accepted,    \* history: tasks in the order the shards took them
  cbs          \* history: the callbacks of each task

disp == <<caller, root, ctxDone, dctxDone, shardQ, shardClosed, accepted>>
work == <<writers, wr, muHeld>>
env  == <<remover, stalled, dead>>
vars == <<disp, worker, work, closer, shutdown, env, wire, cbs>>

Unused == [pc |-> "unused", conn |-> None, ch |-> <<>>, closed |-> FALSE, task |-> None]
Idle   == [pc |-> "recv", task |-> None, w |-> None]

Init ==
  /\ caller = [t \in Tasks |-> "idle"] /\ root = None
  /\ ctxDone = {} /\ dctxDone = FALSE
  /\ shardQ = [s \in Shards |-> <<>>] /\ shardClosed = FALSE
  /\ worker = [s \in Shards |-> Idle]
  /\ writers = [c \in Conns |-> None]
  /\ wr = [w \in W |-> Unused]
  /\ closer = "wait" /\ muHeld = FALSE /\ shutdown = "idle"
  /\ remover = [c \in Conns |-> [pc |-> "idle", w |-> None]]
  /\ stalled = {} /\ dead = {}
  /\ wire = [c \in Conns |-> <<>>] /\ accepted = <<>>
  /\ cbs = [t \in Tasks |-> <<>>]

Started == root # None
Answer(t, a) == caller' = [caller EXCEPT ![t] = a]
Call(t, e) == cbs' = [cbs EXCEPT ![t] = Append(@, e)]

-----------------------------------------------------------------------------
(* Dispatch *)

\* ensureStarted: the first call makes d.ctx a child of its own context.
Dispatch(t) ==
  /\ caller[t] = "idle"
  /\ Answer(t, "select")
  /\ root' = IF Started THEN root ELSE t
  /\ UNCHANGED <<ctxDone, dctxDone, shardQ, shardClosed, accepted, worker, work, closer,
                 shutdown, env, wire, cbs>>

\* The select: each ready case may be the one that is taken.
Accept(t) ==
  LET s == shardOf[connOf[t]] IN
  /\ caller[t] = "select" /\ ~shardClosed /\ Len(shardQ[s]) < ShardCap
  /\ Answer(t, "ok")
  /\ shardQ' = [shardQ EXCEPT ![s] = Append(@, t)]
  /\ accepted' = Append(accepted, t)
  /\ UNCHANGED <<root, ctxDone, dctxDone, shardClosed, worker, work, closer, shutdown, env,
                 wire, cbs>>

Refused(t) ==
  /\ caller[t] = "select"
  /\ \/ shardClosed /\ Answer(t, "panic")
     \/ dctxDone /\ Answer(t, "errDispatcherClosed")
     \/ t \in ctxDone /\ Answer(t, "ctxErr")
     \/ /\ HasTimeout /\ ~shardClosed /\ Len(shardQ[shardOf[connOf[t]]]) = ShardCap
        /\ Answer(t, "errEnqueueTimeout")
  /\ UNCHANGED <<root, ctxDone, dctxDone, shardQ, shardClosed, accepted, worker, work, closer,
                 shutdown, env, wire, cbs>>

\* Faulty variant: d.ctx ends with the context of any caller.
CtxEndsAll(t) ==
  /\ t \in CtxMayEnd \ ctxDone /\ caller[t] # "idle"
  /\ ctxDone' = ctxDone \cup {t}
  /\ dctxDone' = TRUE
  /\ UNCHANGED <<caller, root, shardQ, shardClosed, accepted, worker, work, closer, shutdown,
                 env, wire, cbs>>

\* A caller's context ends; d.ctx ends with the one it was derived from.
CtxEnds(t) ==
  /\ t \in CtxMayEnd \ ctxDone /\ caller[t] # "idle"
  /\ ctxDone' = ctxDone \cup {t}
  /\ dctxDone' = (dctxDone \/ t = root)
  /\ UNCHANGED <<caller, root, shardQ, shardClosed, accepted, worker, work, closer, shutdown,
                 env, wire, cbs>>

-----------------------------------------------------------------------------
(* Shard workers *)

\* range ch: a closed channel is drained before the loop ends.
Receive(s) ==
  /\ Started /\ worker[s].pc = "recv"
  /\ \/ /\ shardQ[s] # <<>>
        /\ worker' = [worker EXCEPT ![s] = [pc |-> "find", task |-> Head(shardQ[s]), w |-> None]]
        /\ shardQ' = [shardQ EXCEPT ![s] = Tail(@)]
     \/ /\ shardQ[s] = <<>> /\ shardClosed
        /\ worker' = [worker EXCEPT ![s].pc = "exit"]
        /\ UNCHANGED shardQ
  /\ UNCHANGED <<caller, root, ctxDone, dctxDone, shardClosed, accepted, work, closer, shutdown,
                 env, wire, cbs>>

NewWriter(c) == [pc |-> "recv", conn |-> c, ch |-> <<>>, closed |-> FALSE, task |-> None]

\* A writer object not used yet; objects are taken in order.
Fresh(w) == wr[w].pc = "unused" /\ \A v \in 1..(w-1) : wr[v].pc # "unused"

\* Faulty variant: the map is not looked at first.
AlwaysCreate(s) ==
  LET c == connOf[worker[s].task] IN
  /\ worker[s].pc = "find" /\ ~muHeld
  /\ \E w \in W : /\ Fresh(w)
                  /\ wr' = [wr EXCEPT ![w] = NewWriter(c)]
                  /\ writers' = [writers EXCEPT ![c] = w]
                  /\ worker' = [worker EXCEPT ![s].pc = "enqueue", ![s].w = w]
  /\ UNCHANGED <<disp, muHeld, closer, shutdown, env, wire, cbs>>

\* getOrCreateWriter: all tasks of a connection come through one worker, so the
\* unlocked gap between its two lookups cannot see a writer appear.
GetOrCreateWriter(s) ==
  LET c == connOf[worker[s].task] IN
  /\ worker[s].pc = "find" /\ ~muHeld
  /\ \/ /\ writers[c] # None
        /\ worker' = [worker EXCEPT ![s].pc = "enqueue", ![s].w = writers[c]]
        /\ UNCHANGED <<wr, writers>>
     \/ /\ writers[c] = None
        /\ \E w \in W : /\ Fresh(w)
                        /\ wr' = [wr EXCEPT ![w] = NewWriter(c)]
                        /\ writers' = [writers EXCEPT ![c] = w]
                        /\ worker' = [worker EXCEPT ![s].pc = "enqueue", ![s].w = w]
  /\ UNCHANGED <<disp, muHeld, closer, shutdown, env, wire, cbs>>

\* Faulty variant: a task that meets a closed writer is dropped in silence.
SilentFailure(s) == wr[worker[s].w].closed /\ UNCHANGED cbs

\* enqueue: a writer found closed, or closed while the send blocks (recovered),
\* answers errWriterClosed; the callback then runs in the shard worker.
EnqueueFails(s) ==
  LET w == worker[s].w IN
  \/ wr[w].closed /\ Call(worker[s].task, "errWriterClosed")
  \/ /\ HasTimeout /\ ~wr[w].closed /\ Len(wr[w].ch) = ConnCap
     /\ Call(worker[s].task, "errEnqueueTimeout")

\* Faulty variant: the callback also reports the task as sent when it is queued.
EnqueueReports(s) ==
  LET w == worker[s].w IN
  /\ worker[s].pc = "enqueue" /\ ~wr[w].closed /\ Len(wr[w].ch) < ConnCap
  /\ wr' = [wr EXCEPT ![w].ch = Append(@, worker[s].task)]
  /\ Call(worker[s].task, "ok")
  /\ worker' = [worker EXCEPT ![s] = Idle]
  /\ UNCHANGED <<disp, writers, muHeld, closer, shutdown, env, wire>>

Enqueue(s) ==
  LET w == worker[s].w IN
  /\ worker[s].pc = "enqueue"
  /\ \/ /\ ~wr[w].closed /\ Len(wr[w].ch) < ConnCap
        /\ wr' = [wr EXCEPT ![w].ch = Append(@, worker[s].task)]
        /\ UNCHANGED cbs
     \/ EnqueueFails(s) /\ UNCHANGED wr
  /\ worker' = [worker EXCEPT ![s] = Idle]
  /\ UNCHANGED <<disp, writers, muHeld, closer, shutdown, env, wire>>

-----------------------------------------------------------------------------
(* Connection writers *)

WriterReceive(w) ==
  /\ wr[w].pc = "recv"
  /\ \/ /\ wr[w].ch # <<>>
        /\ wr' = [wr EXCEPT ![w].pc = "header", ![w].ch = Tail(@),
                               ![w].task = Head(wr[w].ch)]
     \/ /\ wr[w].ch = <<>> /\ wr[w].closed
        /\ wr' = [wr EXCEPT ![w].pc = "exit"]
  /\ UNCHANGED <<disp, worker, writers, muHeld, closer, shutdown, env, wire, cbs>>

CanWrite(c) == c \notin stalled \/ c \in dead

Writing(w) == wr[w].pc \in {"header", "payload"}

\* WriteFrame writes the header and then the payload, two writes to the pipe;
\* an error of either, here that of a closed connection, ends the task.
WriteChunk(w) ==
  LET c == wr[w].conn
      t == wr[w].task
      p == wr[w].pc IN
  /\ p \in {"header", "payload"} /\ CanWrite(c)
  /\ wire' = IF c \in dead THEN wire ELSE [wire EXCEPT ![c] = Append(@, <<t, p>>)]
  /\ IF p = "header" /\ c \notin dead
     THEN wr' = [wr EXCEPT ![w].pc = "payload"] /\ UNCHANGED cbs
     ELSE /\ wr' = [wr EXCEPT ![w].pc = "recv", ![w].task = None]
          /\ Call(t, IF c \in dead THEN "errWrite" ELSE "ok")
  /\ UNCHANGED <<disp, worker, writers, muHeld, closer, shutdown, env>>

\* A write fails on a live connection, with none or a part of its chunk sent: a
\* send timeout, a refusal, a short write.  The writer drops the task and goes on
\* with the next one; whether that works again is left open.
WriteFails(w) ==
  LET c == wr[w].conn
      t == wr[w].task IN
  /\ Writing(w) /\ c \in Fragile \ dead
  /\ UNCHANGED wire \/ wire' = [wire EXCEPT ![c] = Append(@, <<t, "cut">>)]
  /\ wr' = [wr EXCEPT ![w].pc = "recv", ![w].task = None]
  /\ Call(t, "errWrite")
  /\ UNCHANGED <<disp, worker, writers, muHeld, closer, shutdown, env>>

-----------------------------------------------------------------------------
(* CloseConn, called by Manager.Remove's OnRemove hook, then Close *)

\* The call comes to d.mu.Lock, where the closer may keep it waiting.
RemoveBegins(c) ==
  /\ c \in Removable /\ remover[c].pc = "idle"
  /\ remover' = [remover EXCEPT ![c].pc = "lock"]
  /\ UNCHANGED <<disp, worker, work, closer, shutdown, stalled, dead, wire, cbs>>

\* The map entry goes under d.mu; stop() follows outside it.
CloseConn(c) ==
  /\ remover[c].pc = "lock" /\ ~muHeld
  /\ remover' = [remover EXCEPT ![c] = IF writers[c] = None THEN [pc |-> "close", w |-> None]
                                       ELSE [pc |-> "stop", w |-> writers[c]]]
  /\ writers' = [writers EXCEPT ![c] = None]
  /\ UNCHANGED <<disp, worker, wr, muHeld, closer, shutdown, stalled, dead, wire, cbs>>

\* Faulty variant: the writer's channel is not closed.
StopLost(w) == wr' = wr

\* connWriter.stop: closed and close(ch) under w.mu, then wait for the drain.
Stop(w) == wr' = [wr EXCEPT ![w].closed = TRUE]

StopWriter(c) ==
  /\ remover[c].pc = "stop"
  /\ Stop(remover[c].w)
  /\ remover' = [remover EXCEPT ![c].pc = "drain"]
  /\ UNCHANGED <<disp, worker, writers, muHeld, closer, shutdown, stalled, dead, wire, cbs>>

Drained(w) == wr[w].pc = "exit"

DrainWriter(c) ==
  /\ remover[c].pc = "drain" /\ Drained(remover[c].w)
  /\ remover' = [remover EXCEPT ![c].pc = "close"]
  /\ UNCHANGED <<disp, worker, work, closer, shutdown, stalled, dead, wire, cbs>>

\* Only now does Manager.Remove close the connection.
CloseAfterHook(c) ==
  /\ remover[c].pc = "close"
  /\ remover' = [remover EXCEPT ![c].pc = "done"]
  /\ dead' = dead \cup {c}
  /\ UNCHANGED <<disp, worker, work, closer, shutdown, stalled, wire, cbs>>

-----------------------------------------------------------------------------
(* Shutdown and the closer goroutine *)

\* Without a first Dispatch there is no cancel to call and nobody to wait for.
Shutdown ==
  /\ shutdown = "idle"
  /\ shutdown' = "waiting"
  /\ dctxDone' = (dctxDone \/ Started)
  /\ UNCHANGED <<caller, root, ctxDone, shardQ, shardClosed, accepted, worker, work, closer, env,
                 wire, cbs>>

WorkersGone == Started => \A s \in Shards : worker[s].pc = "exit"

ShutdownReturns ==
  /\ shutdown = "waiting" /\ WorkersGone
  /\ shutdown' = "returned"
  /\ UNCHANGED <<disp, worker, work, closer, env, wire, cbs>>

\* Faulty variant: the shard channels stay open.
CloseShardsNot ==
  /\ dctxDone /\ closer = "wait"
  /\ closer' = "lock"
  /\ UNCHANGED <<disp, worker, work, shutdown, env, wire, cbs>>

CloseShards ==
  /\ dctxDone /\ closer = "wait"
  /\ shardClosed' = TRUE /\ closer' = "lock"
  /\ UNCHANGED <<caller, root, ctxDone, dctxDone, shardQ, accepted, worker, work, shutdown, env,
                 wire, cbs>>

CloserLocks ==
  /\ closer = "lock"
  /\ muHeld' = TRUE /\ closer' = "stop"
  /\ UNCHANGED <<disp, worker, writers, wr, shutdown, env, wire, cbs>>

\* Stop the writers of the map one after the other, waiting for each.
InMap == {writers[c] : c \in {x \in Conns : writers[x] # None}}

CloserStops ==
  /\ closer = "stop"
  /\ \A w \in InMap : wr[w].closed => Drained(w)
  /\ \E w \in InMap : ~wr[w].closed /\ Stop(w)
  /\ UNCHANGED <<disp, worker, writers, muHeld, closer, shutdown, env, wire, cbs>>

CloserDone ==
  /\ closer = "stop"
  /\ \A w \in InMap : Drained(w)
  /\ closer' = "done" /\ muHeld' = FALSE
  /\ writers' = [c \in Conns |-> None]
  /\ UNCHANGED <<disp, worker, wr, shutdown, env, wire, cbs>>

-----------------------------------------------------------------------------
(* The peers *)

Stall(c) ==
  /\ c \in Stalling \ stalled
  /\ stalled' = stalled \cup {c}
  /\ UNCHANGED <<disp, worker, work, closer, shutdown, remover, dead, wire, cbs>>

-----------------------------------------------------------------------------
DispatcherNext ==
  \/ \E s \in Shards : Receive(s) \/ GetOrCreateWriter(s) \/ Enqueue(s)
  \/ \E w \in W : WriterReceive(w) \/ WriteChunk(w)
  \/ \E c \in Conns : CloseConn(c) \/ StopWriter(c) \/ DrainWriter(c) \/ CloseAfterHook(c)
  \/ ShutdownReturns \/ CloseShards \/ CloserLocks \/ CloserStops \/ CloserDone

Next ==
  \/ \E t \in Tasks : Dispatch(t) \/ Accept(t) \/ Refused(t) \/ CtxEnds(t)
  \/ \E c \in Conns : RemoveBegins(c) \/ Stall(c)
  \/ \E w \in W : WriteFails(w)
  \/ Shutdown
  \/ DispatcherNext

Spec == Init /\ [][Next]_vars

\* Goroutines that can run do run, a removal gets d.mu once it is free, and a
\* write to a live pipe whose peer reads completes.  Callers, removals, failing
\* writes, context ends and Shutdown are not forced.
Fairness ==
  /\ \A t \in Tasks : WF_vars(Accept(t) \/ Refused(t))
  /\ \A s \in Shards : WF_vars(Receive(s)) /\ WF_vars(GetOrCreateWriter(s)) /\ WF_vars(Enqueue(s))
  /\ \A w \in W : WF_vars(WriterReceive(w)) /\ WF_vars(WriteChunk(w))
  /\ \A c \in Conns : /\ WF_vars(CloseConn(c)) /\ WF_vars(StopWriter(c))
                      /\ WF_vars(DrainWriter(c)) /\ WF_vars(CloseAfterHook(c))
  /\ WF_vars(ShutdownReturns) /\ WF_vars(CloseShards)
  /\ WF_vars(CloserLocks) /\ WF_vars(CloserStops) /\ WF_vars(CloserDone)

FairSpec == Spec /\ Fairness

-----------------------------------------------------------------------------
(* Properties *)

DispatchType ==
  /\ caller \in [Tasks -> {"idle", "select", "ok", "panic", "errDispatcherClosed", "ctxErr",
                           "errEnqueueTimeout"}]
  /\ root \in Tasks \cup {None} /\ ctxDone \subseteq Tasks
  /\ dctxDone \in BOOLEAN /\ shardClosed \in BOOLEAN

QueueType ==
  /\ shardQ \in [Shards -> Seq(Tasks)] /\ \A s \in Shards : Len(shardQ[s]) <= ShardCap
  /\ accepted \in Seq(Tasks)

WorkerType ==
  worker \in [Shards -> [pc : {"recv", "find", "enqueue", "exit"},
                         task : Tasks \cup {None}, w : W \cup {None}]]

WriterType ==
  /\ wr \in [W -> [pc : {"unused", "recv", "header", "payload", "exit"},
                   conn : Conns \cup {None}, ch : Seq(Tasks), closed : BOOLEAN,
                   task : Tasks \cup {None}]]
  /\ \A w \in W : Len(wr[w].ch) <= ConnCap

StopType ==
  /\ writers \in [Conns -> W \cup {None}]
  /\ remover \in [Conns -> [pc : {"idle", "lock", "stop", "drain", "close", "done"}, w : W \cup {None}]]
  /\ closer \in {"wait", "lock", "stop", "done"} /\ muHeld \in BOOLEAN
  /\ shutdown \in {"idle", "waiting", "returned"}
  /\ stalled \subseteq Conns /\ dead \subseteq Conns

HistoryType ==
  /\ wire \in [Conns -> Seq(Tasks \X {"header", "payload", "cut"})]
  /\ cbs \in [Tasks -> Seq({"ok", "errWriterClosed", "errEnqueueTimeout", "errWrite"})]

TypeOK ==
  DispatchType /\ QueueType /\ WorkerType /\ WriterType /\ StopType /\ HistoryType

\* What may come directly behind chunk p: the rest of p's frame, or a new frame
\* if p ended its own, as its last chunk or because a write of it failed.
Follows(e, p) ==
  \/ e[2] # "header" /\ p = <<e[1], "header">>
  \/ e[2] # "payload" /\ (p[2] = "payload" \/ cbs[p[1]] = <<"errWrite">>)

\* The frames of the connection do not interleave: a payload directly follows its
\* own header, and a frame begins behind a whole one or one that failed.
Contiguous(c) ==
  \A k \in 1..Len(wire[c]) :
     IF k = 1 THEN wire[c][k][2] # "payload" ELSE Follows(wire[c][k], wire[c][k-1])

\* What the comment on write() says: the frames of one connection do not
\* interleave.
FrameIntegrity == \A c \in Conns : Contiguous(c)

Accepted(t) == CHOOSE k \in 1..Len(accepted) : accepted[k] = t

\* CloseConn has not yet taken the connection's writer out of the map.
Unremoved(c) == remover[c].pc \in {"idle", "lock"}

\* It holds as long as CloseConn has not run for the connection: one writer at a
\* time, also while the closer drains the writers and d.ctx ends.  And the frames
\* leave in the order in which Dispatch accepted them, through two queues, the
\* drain at shutdown, timeouts of some of them and failed writes of others.
WholeFramesInOrder ==
  \A c \in Conns : Unremoved(c) =>
     /\ Contiguous(c)
     /\ \A i, j \in 1..Len(wire[c]) : i < j => Accepted(wire[c][i][1]) <= Accepted(wire[c][j][1])

\* The callback runs at most once, and only for a task that Dispatch accepted:
\* an error answer of Dispatch is never followed by a callback.  Without error
\* it means that the whole frame went to the pipe.
CallbackOnce ==
  \A t \in Tasks :
     /\ Len(cbs[t]) <= 1
     /\ cbs[t] # <<>> => caller[t] = "ok"
     /\ cbs[t] = <<"ok">> => \E k \in 1..Len(wire[connOf[t]]) : wire[connOf[t]][k] = <<t, "payload">>

Pending(t) == caller[t] = "ok" /\ cbs[t] = <<>>
Busy(s) == worker[s].pc \in {"find", "enqueue"}
AtWriter(t, w) == \/ Writing(w) /\ wr[w].task = t
                  \/ \E i \in 1..Len(wr[w].ch) : wr[w].ch[i] = t

HeldBy(t) ==
  LET s == shardOf[connOf[t]] IN
  \/ \E i \in 1..Len(shardQ[s]) : shardQ[s][i] = t
  \/ Busy(s) /\ worker[s].task = t
  \/ \E w \in W : AtWriter(t, w)
Held == \A t \in Tasks : Pending(t) => HeldBy(t)

Drains ==
  /\ \A s \in Shards : worker[s].pc = "exit" => shardClosed /\ shardQ[s] = <<>>
  /\ \A w \in W : wr[w].pc = "exit" => wr[w].closed /\ wr[w].ch = <<>>

\* An accepted task whose callback has not run is in its shard's queue, with the
\* worker of its shard or with a writer (Held), and a worker or a writer that has
\* ended left nothing behind and gets nothing more (Drains): every error path of
\* the two goroutines answers the task it drops, and the drains miss none.
NoneLost == Held /\ Drains

\* An accepted task is always concluded by its callback: no queue swallows it,
\* neither CloseConn nor the end of d.ctx; only a peer that stops reading can
\* hold it up, then with everything behind it in its shard.
AcceptedCompletes ==
  \A t \in Tasks : (caller[t] = "ok") ~> (cbs[t] # <<>> \/ stalled # {})

\* Once d.ctx is done, Shutdown returns, although the closer holds d.mu while
\* writers drain and the shard workers need d.mu to finish their queues, unless
\* a peer stops reading.
ShutdownEnds ==
  (shutdown = "waiting" /\ dctxDone) ~> (shutdown = "returned" \/ stalled # {})

\* A writer blocked in a write to a peer that stopped reading.
Stuck(w) == Writing(w) /\ wr[w].conn \in stalled \ dead

\* Manager.Remove, once begun, gets through CloseConn and closes the connection,
\* however many others are removed and whoever shuts the dispatcher down.  Two
\* things alone keep it: its own peer has stopped reading, and the close that
\* would release the writer waits for the writer; or the closer, holding d.mu,
\* drains the writer of a peer that has.
RemoveCloses ==
  \A c \in Conns : (remover[c].pc # "idle") ~>
     \/ remover[c].pc = "done"
     \/ remover[c].pc = "drain" /\ Stuck(remover[c].w)
     \/ remover[c].pc = "lock" /\ muHeld /\ \E w \in InMap : Stuck(w)

\* Until Shutdown is called or the context of the call that started the
\* dispatcher ends, no Dispatch is told that the dispatcher is closed and none
\* meets a closed shard channel (a panic).
OpenWhileOwned ==
  (\E t \in Tasks : caller[t] \in {"errDispatcherClosed", "panic"})
     => shutdown # "idle" \/ root \in ctxDone
=============================================================================
