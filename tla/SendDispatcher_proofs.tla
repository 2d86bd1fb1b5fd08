----------------------- MODULE SendDispatcher_proofs -----------------------
(***************************************************************************)
(* Proofs about SendDispatcher, for any number of tasks, connections,      *)
(* shards and writers and any size of the buffers.  Tasks are ordered by   *)
(* the moment Dispatch accepted them; the shard queue, the worker, the     *)
(* writer's channel and the writer hold them in that order, and no task is *)
(* in two of these places or has been called back while in one.            *)
(***************************************************************************)
EXTENDS SendDispatcher, TLAPS

-----------------------------------------------------------------------------
(* Types *)

\* w is a writer made for connection c.
Serves(w, c) == w \in W /\ wr[w].pc # "unused" /\ wr[w].conn = c

\* Who holds a task, a writer or a connection has a proper one.
Filled ==
  /\ \A s \in Shards : Busy(s) => worker[s].task \in Tasks
  /\ \A s \in Shards : worker[s].pc = "enqueue" => Serves(worker[s].w, connOf[worker[s].task])
  /\ \A w \in W : /\ Writing(w) => wr[w].task \in Tasks
                  /\ wr[w].pc # "unused" => wr[w].conn \in Conns
                  /\ wr[w].pc = "unused" => wr[w].ch = <<>>
  /\ \A c \in Conns : /\ remover[c].pc \in {"stop", "drain"} => Serves(remover[c].w, c)
                      /\ writers[c] # None => Serves(writers[c], c)

LEMMA TailOf ==
  ASSUME NEW S, NEW q \in Seq(S), q # <<>>
  PROVE  /\ Len(q) \in Nat /\ 1 \in 1..Len(q) /\ Head(q) = q[1] /\ Len(Tail(q)) = Len(q) - 1
         /\ \A i \in 1..Len(Tail(q)) : \E j \in 1..Len(q) : j = i + 1 /\ Tail(q)[i] = q[j]
OBVIOUS

LEMMA AppendOf ==
  ASSUME NEW S, NEW q \in Seq(S), NEW e
  PROVE  /\ Len(q) \in Nat /\ Len(Append(q, e)) = Len(q) + 1 /\ Append(q, e)[Len(q) + 1] = e
         /\ \A i \in 1..Len(q) : Append(q, e)[i] = q[i]
         /\ \A i \in 1..Len(Append(q, e)) : i \in 1..Len(q) \/ i = Len(q) + 1
OBVIOUS

LEMMA InitType == Init => TypeOK /\ Filled
<1> SUFFICES ASSUME Init PROVE TypeOK /\ Filled
  OBVIOUS
<1> USE SendAssumption DEF Init
<1>1. DispatchType /\ QueueType
  <2>1. DispatchType
    BY DEF DispatchType
  <2>2. QueueType
    BY DEF QueueType
  <2> QED BY <2>1, <2>2
<1>2. WriterType
  BY DEF WriterType, Unused
<1>3. WorkerType /\ StopType
  BY DEF WorkerType, StopType, Idle
<1>4. HistoryType
  <2>1. /\ <<>> \in Seq(Tasks \X {"header", "payload", "cut"})
        /\ <<>> \in Seq({"ok", "errWriterClosed", "errEnqueueTimeout", "errWrite"})
    OBVIOUS
  <2> QED BY <2>1 DEF HistoryType
<1>5. Filled
  BY DEF Filled, Busy, Writing, Unused, Idle, Serves
<1> QED BY <1>1, <1>2, <1>3, <1>4, <1>5 DEF TypeOK

\* The types that a step leaves alone.
LEMMA Frame ==
  ASSUME TypeOK
  PROVE  /\ UNCHANGED <<caller, root, ctxDone, dctxDone, shardClosed>> => DispatchType'
         /\ UNCHANGED <<shardQ, accepted>> => QueueType'
         /\ UNCHANGED worker => WorkerType'
         /\ UNCHANGED wr => WriterType'
         /\ UNCHANGED <<writers, remover, closer, muHeld, shutdown, stalled, dead>> => StopType'
         /\ UNCHANGED <<wire, cbs>> => HistoryType'
<1>1. UNCHANGED <<caller, root, ctxDone, dctxDone, shardClosed>> => DispatchType'
  BY DEF TypeOK, DispatchType
<1>2. UNCHANGED <<shardQ, accepted>> => QueueType'
  BY DEF TypeOK, QueueType
<1>3. UNCHANGED worker => WorkerType'
  BY DEF TypeOK, WorkerType
<1>4. UNCHANGED wr => WriterType'
  BY DEF TypeOK, WriterType
<1>5. UNCHANGED <<writers, remover, closer, muHeld, shutdown, stalled, dead>> => StopType'
  BY DEF TypeOK, StopType
<1>6. UNCHANGED <<wire, cbs>> => HistoryType'
  BY DEF TypeOK, HistoryType
<1> QED BY <1>1, <1>2, <1>3, <1>4, <1>5, <1>6

LEMMA TypeStep == TypeOK /\ Filled /\ [Next]_vars => TypeOK'
<1> SUFFICES ASSUME TypeOK, Filled, [Next]_vars PROVE TypeOK'
  OBVIOUS
<1>0. /\ DispatchType /\ QueueType /\ WorkerType /\ WriterType /\ StopType /\ HistoryType
  BY DEF TypeOK
<1>1. ASSUME NEW t \in Tasks, Dispatch(t) \/ Refused(t) \/ CtxEnds(t) PROVE TypeOK'
  <2>1. DispatchType'
    BY <1>0, <1>1 DEF Dispatch, Refused, CtxEnds, Answer, Started, DispatchType
  <2> QED
    BY <1>1, <2>1, Frame DEF Dispatch, Refused, CtxEnds, TypeOK, work, env
<1>2. ASSUME NEW t \in Tasks, Accept(t) PROVE TypeOK'
  <2>1. DispatchType'
    BY <1>0, <1>2 DEF Accept, Answer, DispatchType
  <2>2. QueueType'
    <3>1. PICK s \in Shards : /\ shardQ' = [shardQ EXCEPT ![s] = Append(@, t)]
                              /\ Len(shardQ[s]) < ShardCap /\ accepted' = Append(accepted, t)
      BY <1>2, SendAssumption DEF Accept
    <3> QED BY <1>0, <3>1, SendAssumption DEF QueueType
  <2> QED BY <1>2, <2>1, <2>2, Frame DEF Accept, TypeOK, work, env
<1>3. ASSUME NEW s \in Shards, Receive(s) PROVE TypeOK'
  <2>1. CASE /\ shardQ[s] # <<>> /\ shardQ' = [shardQ EXCEPT ![s] = Tail(@)]
             /\ worker' = [worker EXCEPT ![s] = [pc |-> "find", task |-> Head(shardQ[s]), w |-> None]]
    <3>1. Head(shardQ[s]) \in Tasks
      BY <1>0, <2>1 DEF QueueType
    <3>2. WorkerType'
      BY <1>0, <2>1, <3>1 DEF WorkerType
    <3>3. accepted' = accepted
      BY <1>3 DEF Receive
    <3>4. QueueType'
      BY <1>0, <2>1, <3>3, SendAssumption DEF QueueType
    <3> QED BY <1>3, <3>2, <3>4, Frame DEF Receive, TypeOK, work, env
  <2>2. CASE UNCHANGED shardQ /\ worker' = [worker EXCEPT ![s].pc = "exit"]
    <3>1. WorkerType'
      BY <1>0, <2>2 DEF WorkerType
    <3> QED BY <1>3, <2>2, <3>1, Frame DEF Receive, TypeOK, work, env
  <2> QED BY <1>3, <2>1, <2>2 DEF Receive
<1>4. ASSUME NEW s \in Shards, GetOrCreateWriter(s) PROVE TypeOK'
  <2> DEFINE c == connOf[worker[s].task]
  <2>1. c \in Conns
    BY <1>4, SendAssumption DEF GetOrCreateWriter, Filled, Busy
  <2>2. CASE /\ writers[c] # None /\ UNCHANGED <<wr, writers>>
             /\ worker' = [worker EXCEPT ![s].pc = "enqueue", ![s].w = writers[c]]
    <3>1. writers[c] \in W
      BY <1>0, <2>1, <2>2 DEF StopType
    <3>2. WorkerType'
      BY <1>0, <2>2, <3>1 DEF WorkerType
    <3> QED BY <1>4, <2>2, <3>2, Frame DEF GetOrCreateWriter, TypeOK, disp, env
  <2>3. ASSUME NEW w \in W, wr' = [wr EXCEPT ![w] = NewWriter(c)],
               writers' = [writers EXCEPT ![c] = w],
               worker' = [worker EXCEPT ![s].pc = "enqueue", ![s].w = w]
        PROVE  TypeOK'
    <3>1. WorkerType'
      BY <1>0, <2>3 DEF WorkerType
    <3>2. WriterType'
      BY <1>0, <2>1, <2>3, SendAssumption DEF WriterType, NewWriter
    <3>3. StopType'
      BY <1>0, <1>4, <2>1, <2>3 DEF GetOrCreateWriter, StopType, env
    <3> QED BY <1>4, <3>1, <3>2, <3>3, Frame DEF GetOrCreateWriter, TypeOK, disp, env
  <2> QED BY <1>4, <2>2, <2>3 DEF GetOrCreateWriter
<1>5. ASSUME NEW s \in Shards, Enqueue(s) PROVE TypeOK'
  <2> DEFINE w == worker[s].w
  <2> DEFINE t == worker[s].task
  <2>1. t \in Tasks /\ w \in W
    BY <1>5 DEF Enqueue, Filled, Busy, Serves
  <2>2. WorkerType'
    BY <1>0, <1>5, SendAssumption DEF Enqueue, Idle, WorkerType
  <2>3. CASE /\ Len(wr[w].ch) < ConnCap /\ wr' = [wr EXCEPT ![w].ch = Append(@, t)]
             /\ UNCHANGED cbs
    <3>1. Append(wr[w].ch, t) \in Seq(Tasks) /\ Len(Append(wr[w].ch, t)) <= ConnCap
      BY <1>0, <2>1, <2>3, SendAssumption DEF WriterType
    <3>2. WriterType'
      BY ZenonT(60), <1>0, <2>1, <2>3, <3>1 DEF WriterType
    <3> QED BY <1>5, <2>2, <2>3, <3>2, Frame DEF Enqueue, TypeOK, disp, env
  <2>4. ASSUME NEW e \in {"errWriterClosed", "errEnqueueTimeout"}, Call(t, e), UNCHANGED wr
        PROVE  TypeOK'
    <3>1. HistoryType'
      <4>1. cbs' \in [Tasks -> Seq({"ok", "errWriterClosed", "errEnqueueTimeout", "errWrite"})]
        BY <1>0, <2>1, <2>4 DEF Call, HistoryType
      <4> QED BY <1>0, <1>5, <4>1 DEF Enqueue, HistoryType
    <3> QED BY <1>5, <2>2, <2>4, <3>1, Frame DEF Enqueue, TypeOK, disp, env
  <2> QED BY <1>5, <2>3, <2>4 DEF Enqueue, EnqueueFails
<1>6. ASSUME NEW w \in W, WriterReceive(w) PROVE TypeOK'
  <2>1. WriterType'
    <3>1. CASE /\ wr[w].ch # <<>>
               /\ wr' = [wr EXCEPT ![w].pc = "header", ![w].ch = Tail(@),
                                   ![w].task = Head(wr[w].ch)]
      <4>1. /\ Tail(wr[w].ch) \in Seq(Tasks) /\ Len(Tail(wr[w].ch)) <= ConnCap
            /\ Head(wr[w].ch) \in Tasks
        BY <1>0, <3>1, SendAssumption DEF WriterType
      <4> QED BY <1>0, <3>1, <4>1 DEF WriterType
    <3>2. CASE wr' = [wr EXCEPT ![w].pc = "exit"]
      BY <1>0, <3>2 DEF WriterType
    <3> QED BY <1>6, <3>1, <3>2 DEF WriterReceive
  <2> QED BY <1>6, <2>1, Frame DEF WriterReceive, TypeOK, disp, env
<1>7. ASSUME NEW w \in W, WriteChunk(w) \/ WriteFails(w) PROVE TypeOK'
  <2> DEFINE c == wr[w].conn
  <2> DEFINE t == wr[w].task
  <2>1. c \in Conns /\ t \in Tasks /\ wr[w].pc \in {"header", "payload"}
    BY <1>7 DEF WriteChunk, WriteFails, Filled, Writing
  <2>2. WriterType'
    <3>1. CASE wr' = [wr EXCEPT ![w].pc = "payload"]
      BY <1>0, <3>1 DEF WriterType
    <3>2. CASE wr' = [wr EXCEPT ![w].pc = "recv", ![w].task = None]
      BY ZenonT(60), <1>0, <3>2 DEF WriterType
    <3> QED BY <1>7, <3>1, <3>2 DEF WriteChunk, WriteFails
  <2>3. HistoryType'
    <3>1. <<t, wr[w].pc>> \in Tasks \X {"header", "payload", "cut"}
          /\ <<t, "cut">> \in Tasks \X {"header", "payload", "cut"}
      BY <2>1
    <3>2. wire' \in [Conns -> Seq(Tasks \X {"header", "payload", "cut"})]
      <4> DEFINE Chunks == Tasks \X {"header", "payload", "cut"}
      <4>1. wire' = wire \/ \E e \in Chunks : wire' = [wire EXCEPT ![c] = Append(@, e)]
        BY <1>7, <3>1 DEF WriteChunk, WriteFails
      <4>2. wire \in [Conns -> Seq(Chunks)]
        BY <1>0 DEF HistoryType
      <4> HIDE DEF Chunks, c
      <4>3. wire' \in [Conns -> Seq(Chunks)]
        BY SMTT(60), <2>1, <4>1, <4>2
      <4> QED BY <4>3 DEF Chunks
    <3>3. cbs' \in [Tasks -> Seq({"ok", "errWriterClosed", "errEnqueueTimeout", "errWrite"})]
      <4> DEFINE Answers == {"ok", "errWriterClosed", "errEnqueueTimeout", "errWrite"}
      <4>1. UNCHANGED cbs \/ \E e \in Answers : cbs' = [cbs EXCEPT ![t] = Append(@, e)]
        BY <1>7 DEF WriteChunk, WriteFails, Call
      <4>2. cbs \in [Tasks -> Seq(Answers)]
        BY <1>0 DEF HistoryType
      <4> HIDE DEF t, Answers
      <4>3. cbs' \in [Tasks -> Seq(Answers)]
        BY SMTT(60), <2>1, <4>1, <4>2
      <4> QED BY <4>3 DEF Answers
    <3> QED BY <3>2, <3>3 DEF HistoryType
  <2> QED BY <1>7, <2>2, <2>3, Frame DEF WriteChunk, WriteFails, TypeOK, disp, env
<1>8. ASSUME NEW c \in Conns, RemoveBegins(c) \/ CloseConn(c) \/ DrainWriter(c) \/ CloseAfterHook(c)
      PROVE  TypeOK'
  <2>1. StopType'
    BY <1>0, <1>8 DEF RemoveBegins, CloseConn, DrainWriter, CloseAfterHook, StopType, work
  <2> QED
    BY <1>8, <2>1, Frame
       DEF RemoveBegins, CloseConn, DrainWriter, CloseAfterHook, TypeOK, disp, work
<1>9. ASSUME NEW c \in Conns, StopWriter(c) PROVE TypeOK'
  <2>1. StopType'
    BY <1>0, <1>9 DEF StopWriter, StopType
  <2>2. WriterType'
    <3>1. PICK w \in W : wr' = [wr EXCEPT ![w].closed = TRUE]
      BY <1>9 DEF StopWriter, Stop, Filled, Serves
    <3> QED BY <1>0, <3>1 DEF WriterType
  <2> QED BY <1>9, <2>1, <2>2, Frame DEF StopWriter, TypeOK, disp
<1>10. ASSUME NEW c \in Conns, Stall(c) PROVE TypeOK'
  <2>1. StopType'
    BY <1>0, <1>10 DEF Stall, StopType, work
  <2> QED BY <1>10, <2>1, Frame DEF Stall, TypeOK, disp, work
<1>11. CASE Shutdown \/ ShutdownReturns \/ CloseShards \/ CloserLocks
  <2>1. StopType'
    BY <1>0, <1>11 DEF Shutdown, ShutdownReturns, CloseShards, CloserLocks, StopType, work, env
  <2>2. DispatchType'
    BY <1>0, <1>11 DEF Shutdown, ShutdownReturns, CloseShards, CloserLocks, Started,
                       DispatchType, disp
  <2> QED
    BY <1>11, <2>1, <2>2, Frame
       DEF Shutdown, ShutdownReturns, CloseShards, CloserLocks, TypeOK, disp, work
<1>12. CASE CloserStops \/ CloserDone
  <2>1. StopType'
    BY <1>0, <1>12 DEF CloserStops, CloserDone, StopType, env
  <2>2. UNCHANGED wr \/ \E w \in W : wr' = [wr EXCEPT ![w].closed = TRUE]
    BY <1>0, <1>12 DEF CloserStops, CloserDone, Stop, InMap, StopType
  <2>3. WriterType'
    BY ZenonT(60), <1>0, <2>2 DEF WriterType
  <2> QED BY <1>12, <2>1, <2>3, Frame DEF CloserStops, CloserDone, TypeOK, disp
<1>13. CASE UNCHANGED vars
  BY <1>13, Frame DEF vars, disp, work, env, TypeOK
<1> QED
  BY <1>1, <1>2, <1>3, <1>4, <1>5, <1>6, <1>7, <1>8, <1>9, <1>10, <1>11, <1>12, <1>13
     DEF Next, DispatcherNext

\* What a step may do to the writers: make one, or change one that is in use.
Makes(s, w) ==
  /\ GetOrCreateWriter(s) /\ Fresh(w) /\ writers[connOf[worker[s].task]] = None
  /\ wr' = [wr EXCEPT ![w] = NewWriter(connOf[worker[s].task])]
  /\ writers' = [writers EXCEPT ![connOf[worker[s].task]] = w]
Queues(s, w) ==
  /\ Enqueue(s) /\ w = worker[s].w /\ ~wr[w].closed /\ UNCHANGED cbs
  /\ wr' = [wr EXCEPT ![w].ch = Append(@, worker[s].task)]
Takes(w) ==
  /\ WriterReceive(w) /\ wr[w].pc = "recv" /\ wr[w].ch # <<>>
  /\ wr' = [wr EXCEPT ![w].pc = "header", ![w].ch = Tail(@), ![w].task = Head(wr[w].ch)]
Exits(w) ==
  /\ WriterReceive(w) /\ wr[w].pc = "recv" /\ wr[w].ch = <<>> /\ wr[w].closed
  /\ wr' = [wr EXCEPT ![w].pc = "exit"]
Heads(w) ==
  /\ WriteChunk(w) /\ wr[w].pc = "header" /\ wr[w].conn \notin dead
  /\ wr' = [wr EXCEPT ![w].pc = "payload"] /\ UNCHANGED cbs
Ends(w) ==
  /\ Writing(w)
  /\ \/ WriteChunk(w) /\ (wr[w].conn \in dead \/ wr[w].pc = "payload")
     \/ WriteFails(w)
  /\ wr' = [wr EXCEPT ![w].pc = "recv", ![w].task = None]
Stops(w) ==
  /\ wr[w].pc # "unused" /\ ((\E c \in Conns : StopWriter(c)) \/ CloserStops)
  /\ wr' = [wr EXCEPT ![w].closed = TRUE]

\* A header that went out is not the end of a frame.
LEMMA HeadsOn ==
  ASSUME TypeOK, NEW w \in W, Heads(w)
  PROVE  ~Ends(w) /\ ~WriteFails(w)
<1>1. wr'[w].pc = "payload"
  BY DEF Heads, TypeOK, WriterType
<1>2. Ends(w) \/ WriteFails(w) => wr'[w].pc = "recv"
  BY DEF Ends, WriteFails, TypeOK, WriterType
<1> QED BY <1>1, <1>2

LEMMA WriterMoves ==
  ASSUME TypeOK, Filled, [Next]_vars
  PROVE  \/ UNCHANGED wr
         \/ \E s \in Shards, w \in W : Makes(s, w) \/ Queues(s, w)
         \/ \E w \in W : Takes(w) \/ Exits(w) \/ Heads(w) \/ Ends(w) \/ Stops(w)
<1>1. ASSUME NEW t \in Tasks, Dispatch(t) \/ Accept(t) \/ Refused(t) \/ CtxEnds(t) PROVE UNCHANGED wr
  BY <1>1 DEF Dispatch, Accept, Refused, CtxEnds, work
<1>2. ASSUME NEW s \in Shards, Receive(s) PROVE UNCHANGED wr
  BY <1>2 DEF Receive, work
<1>3. ASSUME NEW s \in Shards, GetOrCreateWriter(s)
      PROVE  UNCHANGED wr \/ \E w \in W : Makes(s, w)
  <2>1. \/ UNCHANGED wr
        \/ \E w \in W : /\ Fresh(w) /\ writers[connOf[worker[s].task]] = None
                        /\ wr' = [wr EXCEPT ![w] = NewWriter(connOf[worker[s].task])]
                        /\ writers' = [writers EXCEPT ![connOf[worker[s].task]] = w]
    BY <1>3 DEF GetOrCreateWriter
  <2> QED BY <1>3, <2>1 DEF Makes
<1>4. ASSUME NEW s \in Shards, Enqueue(s)
      PROVE  UNCHANGED wr \/ \E w \in W : Queues(s, w)
  <2>1. worker[s].w \in W
    BY <1>4 DEF Enqueue, Filled, Serves
  <2>2. \/ UNCHANGED wr
        \/ /\ ~wr[worker[s].w].closed /\ UNCHANGED cbs
           /\ wr' = [wr EXCEPT ![worker[s].w].ch = Append(@, worker[s].task)]
    BY <1>4 DEF Enqueue
  <2> QED BY <1>4, <2>1, <2>2 DEF Queues
<1>5. ASSUME NEW w \in W, WriterReceive(w) PROVE Takes(w) \/ Exits(w)
  <2>1. wr[w].pc = "recv"
    BY <1>5 DEF WriterReceive
  <2>2. CASE wr[w].ch # <<>>
    <3>1. wr' = [wr EXCEPT ![w].pc = "header", ![w].ch = Tail(@), ![w].task = Head(wr[w].ch)]
      BY <1>5, <2>2 DEF WriterReceive
    <3> QED BY <1>5, <2>1, <2>2, <3>1 DEF Takes
  <2>3. CASE wr[w].ch = <<>>
    <3>1. wr[w].closed /\ wr' = [wr EXCEPT ![w].pc = "exit"]
      BY <1>5, <2>3 DEF WriterReceive
    <3> QED BY <1>5, <2>1, <2>3, <3>1 DEF Exits
  <2> QED BY <2>2, <2>3
<1>6. ASSUME NEW w \in W, WriteChunk(w) \/ WriteFails(w) PROVE Heads(w) \/ Ends(w)
  <2>0. WriteFails(w) => Ends(w)
    BY DEF WriteFails, Ends
  <2> SUFFICES ASSUME WriteChunk(w) PROVE Heads(w) \/ Ends(w)
    BY <1>6, <2>0
  <2>1. CASE wr[w].pc = "header" /\ wr[w].conn \notin dead
    <3>1. wr' = [wr EXCEPT ![w].pc = "payload"] /\ UNCHANGED cbs
      BY <2>1 DEF WriteChunk
    <3> QED BY <2>1, <3>1 DEF Heads
  <2>2. CASE ~(wr[w].pc = "header" /\ wr[w].conn \notin dead)
    <3>1. wr' = [wr EXCEPT ![w].pc = "recv", ![w].task = None] /\ Writing(w)
      BY <2>2 DEF WriteChunk, Writing
    <3> QED BY <2>2, <3>1 DEF Ends, Writing
  <2> QED BY <2>1, <2>2
<1>7. ASSUME NEW c \in Conns,
             RemoveBegins(c) \/ CloseConn(c) \/ DrainWriter(c) \/ CloseAfterHook(c) \/ Stall(c)
      PROVE  UNCHANGED wr
  BY <1>7 DEF RemoveBegins, CloseConn, DrainWriter, CloseAfterHook, Stall, work
<1>8. ASSUME NEW c \in Conns, StopWriter(c) PROVE \E w \in W : Stops(w)
  <2>1. Serves(remover[c].w, c) /\ Stop(remover[c].w)
    BY <1>8 DEF StopWriter, Filled
  <2> QED BY <1>8, <2>1 DEF Stops, Stop, Serves
<1>9. CASE Shutdown \/ ShutdownReturns \/ CloseShards \/ CloserLocks \/ CloserDone
  BY <1>9 DEF Shutdown, ShutdownReturns, CloseShards, CloserLocks, CloserDone, work
<1>10. ASSUME CloserStops PROVE \E w \in W : Stops(w)
  <2>1. PICK w \in InMap : Stop(w)
    BY <1>10 DEF CloserStops
  <2>2. PICK c \in Conns : w = writers[c] /\ writers[c] # None
    BY DEF InMap
  <2>3. Serves(w, c)
    BY <2>2 DEF Filled
  <2> QED BY <1>10, <2>1, <2>3 DEF Stops, Stop, Serves
<1>11. CASE UNCHANGED vars
  BY <1>11 DEF vars, work
<1> QED
  BY <1>1, <1>2, <1>3, <1>4, <1>5, <1>6, <1>7, <1>8, <1>9, <1>10, <1>11 DEF Next, DispatcherNext

\* What becomes of one writer.
LEMMA WriterFate ==
  ASSUME TypeOK, Filled, [Next]_vars, NEW w \in W
  PROVE  \/ wr'[w] = wr[w]
         \/ \E s \in Shards : Makes(s, w) /\ wr'[w] = NewWriter(connOf[worker[s].task])
         \/ \E s \in Shards : Queues(s, w) /\ wr'[w] = [wr[w] EXCEPT !.ch = Append(@, worker[s].task)]
         \/ Takes(w) /\ wr'[w] = [wr[w] EXCEPT !.pc = "header", !.ch = Tail(@), !.task = Head(wr[w].ch)]
         \/ Exits(w) /\ wr'[w] = [wr[w] EXCEPT !.pc = "exit"]
         \/ Heads(w) /\ wr'[w] = [wr[w] EXCEPT !.pc = "payload"]
         \/ Ends(w) /\ wr'[w] = [wr[w] EXCEPT !.pc = "recv", !.task = None]
         \/ Stops(w) /\ wr'[w] = [wr[w] EXCEPT !.closed = TRUE]
<1>0. WriterType
  BY DEF TypeOK
<1>1. ASSUME NEW s \in Shards, NEW v \in W, Makes(s, v)
      PROVE  wr'[w] = IF v = w THEN NewWriter(connOf[worker[s].task]) ELSE wr[w]
  BY <1>0, <1>1 DEF Makes, WriterType
<1>2. ASSUME NEW s \in Shards, NEW v \in W, Queues(s, v)
      PROVE  wr'[w] = IF v = w THEN [wr[w] EXCEPT !.ch = Append(@, worker[s].task)] ELSE wr[w]
  BY <1>0, <1>2 DEF Queues, WriterType
<1>3. ASSUME NEW v \in W, Takes(v)
      PROVE  wr'[w] = IF v = w
                      THEN [wr[w] EXCEPT !.pc = "header", !.ch = Tail(@), !.task = Head(wr[w].ch)]
                      ELSE wr[w]
  BY <1>0, <1>3 DEF Takes, WriterType
<1>4. ASSUME NEW v \in W, Exits(v)
      PROVE  wr'[w] = IF v = w THEN [wr[w] EXCEPT !.pc = "exit"] ELSE wr[w]
  BY <1>0, <1>4 DEF Exits, WriterType
<1>5. ASSUME NEW v \in W, Heads(v)
      PROVE  wr'[w] = IF v = w THEN [wr[w] EXCEPT !.pc = "payload"] ELSE wr[w]
  BY <1>0, <1>5 DEF Heads, WriterType
<1>6. ASSUME NEW v \in W, Ends(v)
      PROVE  wr'[w] = IF v = w THEN [wr[w] EXCEPT !.pc = "recv", !.task = None] ELSE wr[w]
  BY <1>0, <1>6 DEF Ends, WriterType
<1>7. ASSUME NEW v \in W, Stops(v)
      PROVE  wr'[w] = IF v = w THEN [wr[w] EXCEPT !.closed = TRUE] ELSE wr[w]
  BY <1>0, <1>7 DEF Stops, WriterType
<1>8. CASE UNCHANGED wr
  BY <1>8
<1>9. CASE \E s \in Shards, v \in W : Makes(s, v)
  BY <1>1, <1>9
<1>10. CASE \E s \in Shards, v \in W : Queues(s, v)
  BY <1>2, <1>10
<1>11. CASE \E v \in W : Takes(v)
  BY <1>3, <1>11
<1>12. CASE \E v \in W : Exits(v)
  BY <1>4, <1>12
<1>13. CASE \E v \in W : Heads(v)
  BY <1>5, <1>13
<1>14. CASE \E v \in W : Ends(v)
  BY <1>6, <1>14
<1>15. CASE \E v \in W : Stops(v)
  BY <1>7, <1>15
<1> QED BY <1>8, <1>9, <1>10, <1>11, <1>12, <1>13, <1>14, <1>15, WriterMoves

\* What becomes of one shard: its queue and its worker.
Enters(t, s) ==
  /\ Accept(t) /\ s = shardOf[connOf[t]] /\ caller[t] = "select"
  /\ shardQ'[s] = Append(shardQ[s], t)
Gets(s) ==
  /\ Receive(s) /\ worker[s].pc = "recv" /\ shardQ[s] # <<>> /\ shardQ'[s] = Tail(shardQ[s])
  /\ worker'[s] = [pc |-> "find", task |-> Head(shardQ[s]), w |-> None]
Finds(s) ==
  /\ GetOrCreateWriter(s) /\ worker[s].pc = "find" /\ writers'[connOf[worker[s].task]] # None
  /\ worker'[s] = [worker[s] EXCEPT !.pc = "enqueue", !.w = writers'[connOf[worker[s].task]]]
Hands(s) == Enqueue(s) /\ worker[s].pc = "enqueue" /\ worker'[s] = Idle
Leaves(s) == worker[s].pc = "recv" /\ shardQ[s] = <<>> /\ shardClosed

LEMMA ShardFate ==
  ASSUME TypeOK, Filled, [Next]_vars, NEW s \in Shards
  PROVE  \/ worker'[s] = worker[s] /\ shardQ'[s] = shardQ[s]
         \/ worker'[s] = worker[s] /\ \E t \in Tasks : Enters(t, s)
         \/ Gets(s)
         \/ worker'[s] = [worker[s] EXCEPT !.pc = "exit"] /\ shardQ'[s] = shardQ[s] /\ Leaves(s)
         \/ Finds(s) /\ shardQ'[s] = shardQ[s]
         \/ Hands(s) /\ shardQ'[s] = shardQ[s]
<1>0. WorkerType /\ QueueType /\ StopType
  BY DEF TypeOK
<1>1. ASSUME NEW t \in Tasks, Dispatch(t) \/ Refused(t) \/ CtxEnds(t) PROVE UNCHANGED <<worker, shardQ>>
  BY <1>1 DEF Dispatch, Refused, CtxEnds
<1>2. ASSUME NEW t \in Tasks, Accept(t)
      PROVE  worker'[s] = worker[s] /\ (shardQ'[s] = shardQ[s] \/ Enters(t, s))
  <2>1. shardQ'[s] = IF s = shardOf[connOf[t]] THEN Append(shardQ[s], t) ELSE shardQ[s]
    BY <1>0, <1>2, SendAssumption DEF Accept, QueueType
  <2>2. UNCHANGED worker /\ caller[t] = "select"
    BY <1>2 DEF Accept
  <2> QED BY <1>2, <2>1, <2>2 DEF Enters
<1>3. ASSUME NEW r \in Shards, Receive(r), r # s PROVE worker'[s] = worker[s] /\ shardQ'[s] = shardQ[s]
  BY <1>0, <1>3 DEF Receive, WorkerType, QueueType
<1>4. ASSUME Receive(s)
      PROVE  Gets(s) \/ (worker'[s] = [worker[s] EXCEPT !.pc = "exit"] /\ shardQ'[s] = shardQ[s] /\ Leaves(s))
  <2>1. CASE shardQ[s] # <<>>
    <3>1. /\ worker'[s] = [pc |-> "find", task |-> Head(shardQ[s]), w |-> None]
          /\ shardQ'[s] = Tail(shardQ[s]) /\ worker[s].pc = "recv"
      BY <1>0, <1>4, <2>1 DEF Receive, WorkerType, QueueType
    <3> QED BY <1>4, <2>1, <3>1 DEF Gets
  <2>2. CASE shardQ[s] = <<>>
    BY <1>0, <1>4, <2>2 DEF Receive, WorkerType, Leaves
  <2> QED BY <2>1, <2>2
<1>5. ASSUME NEW r \in Shards, GetOrCreateWriter(r)
      PROVE  shardQ'[s] = shardQ[s] /\ IF r = s THEN Finds(s) ELSE worker'[s] = worker[s]
  <2> DEFINE c == connOf[worker[r].task]
  <2>1. c \in Conns
    BY <1>5, SendAssumption DEF GetOrCreateWriter, Filled, Busy
  <2>2. /\ writers'[c] # None /\ worker[r].pc = "find"
        /\ worker' = [worker EXCEPT ![r].pc = "enqueue", ![r].w = writers'[c]]
    <3>1. CASE writers[c] # None
      BY <1>5, <3>1 DEF GetOrCreateWriter
    <3>2. CASE writers[c] = None
      <4>1. PICK w \in W : /\ writers' = [writers EXCEPT ![c] = w]
                           /\ worker' = [worker EXCEPT ![r].pc = "enqueue", ![r].w = w]
        BY <1>5, <3>2 DEF GetOrCreateWriter
      <4>2. writers'[c] = w /\ w # None
        BY <1>0, <2>1, <4>1, SendAssumption DEF StopType, W
      <4> QED BY <1>5, <4>1, <4>2 DEF GetOrCreateWriter
    <3> QED BY <3>1, <3>2
  <2>3. worker'[s] = IF r = s THEN [worker[s] EXCEPT !.pc = "enqueue", !.w = writers'[c]] ELSE worker[s]
    BY <1>0, <2>2 DEF WorkerType
  <2>4. UNCHANGED shardQ
    BY <1>5 DEF GetOrCreateWriter, disp
  <2> QED BY <1>5, <2>2, <2>3, <2>4 DEF Finds
<1>6. ASSUME NEW r \in Shards, Enqueue(r)
      PROVE  shardQ'[s] = shardQ[s] /\ IF r = s THEN Hands(s) ELSE worker'[s] = worker[s]
  <2>1. UNCHANGED shardQ /\ worker[r].pc = "enqueue" /\ worker' = [worker EXCEPT ![r] = Idle]
    BY <1>6 DEF Enqueue, disp
  <2>2. worker'[s] = IF r = s THEN Idle ELSE worker[s]
    BY <1>0, <2>1 DEF WorkerType
  <2> QED BY <1>6, <2>1, <2>2 DEF Hands
<1>7. ASSUME NEW w \in W, WriterReceive(w) \/ WriteChunk(w) \/ WriteFails(w) PROVE UNCHANGED <<worker, shardQ>>
  BY <1>7 DEF WriterReceive, WriteChunk, WriteFails, disp
<1>8. ASSUME NEW c \in Conns, \/ RemoveBegins(c) \/ CloseConn(c) \/ StopWriter(c)
                              \/ DrainWriter(c) \/ CloseAfterHook(c) \/ Stall(c)
      PROVE  UNCHANGED <<worker, shardQ>>
  BY <1>8 DEF RemoveBegins, CloseConn, StopWriter, DrainWriter, CloseAfterHook, Stall, disp
<1>9. CASE \/ Shutdown \/ ShutdownReturns \/ CloseShards \/ CloserLocks \/ CloserStops \/ CloserDone
           \/ UNCHANGED vars
  <2>1. UNCHANGED <<worker, shardQ>>
    BY <1>9 DEF Shutdown, ShutdownReturns, CloseShards, CloserLocks, CloserStops, CloserDone, vars, disp
  <2> QED BY <2>1
<1>10. CASE \E t \in Tasks : Accept(t)
  BY <1>2, <1>10
<1>11. CASE \E r \in Shards : Receive(r)
  BY <1>3, <1>4, <1>11
<1>12. CASE \E r \in Shards : GetOrCreateWriter(r)
  BY <1>5, <1>12
<1>13. CASE \E r \in Shards : Enqueue(r)
  BY <1>6, <1>13
<1> QED
  BY <1>1, <1>7, <1>8, <1>9, <1>10, <1>11, <1>12, <1>13 DEF Next, DispatcherNext

\* What becomes of the map entry and of the removal of one connection.
LEMMA MapFate ==
  ASSUME TypeOK, Filled, [Next]_vars, NEW c \in Conns
  PROVE  /\ \/ writers'[c] = writers[c] \/ writers'[c] = None
            \/ \E s \in Shards : \E w \in W :
                  Makes(s, w) /\ connOf[worker[s].task] = c /\ writers'[c] = w
         /\ \/ remover'[c] = remover[c]
            \/ remover'[c] = [remover[c] EXCEPT !.pc = "lock"] /\ remover[c].pc = "idle"
            \/ remover'[c] = [remover[c] EXCEPT !.pc = "drain"] /\ remover[c].pc = "stop"
            \/ remover'[c].pc \in {"close", "done"}
            \/ writers[c] # None /\ remover'[c] = [pc |-> "stop", w |-> writers[c]]
         /\ Unremoved(c)' =>
              /\ Unremoved(c)
              /\ writers'[c] = None => writers[c] = None \/ CloserDone
<1> USE DEF Unremoved
<1>0. StopType
  BY DEF TypeOK
<1> DEFINE Kept == UNCHANGED <<writers, remover>>
<1> DEFINE Goal ==
        /\ \/ writers'[c] = writers[c] \/ writers'[c] = None
           \/ \E s \in Shards : \E w \in W :
                 Makes(s, w) /\ connOf[worker[s].task] = c /\ writers'[c] = w
        /\ \/ remover'[c] = remover[c]
           \/ remover'[c] = [remover[c] EXCEPT !.pc = "lock"] /\ remover[c].pc = "idle"
           \/ remover'[c] = [remover[c] EXCEPT !.pc = "drain"] /\ remover[c].pc = "stop"
           \/ remover'[c].pc \in {"close", "done"}
           \/ writers[c] # None /\ remover'[c] = [pc |-> "stop", w |-> writers[c]]
        /\ Unremoved(c)' =>
             /\ Unremoved(c)
             /\ writers'[c] = None => writers[c] = None \/ CloserDone
<1>1. ASSUME NEW t \in Tasks, Dispatch(t) \/ Accept(t) \/ Refused(t) \/ CtxEnds(t) PROVE Kept
  BY <1>1 DEF Dispatch, Accept, Refused, CtxEnds, work, env
<1>2. ASSUME NEW s \in Shards, Receive(s) \/ Enqueue(s) PROVE Kept
  BY <1>2 DEF Receive, Enqueue, work, env
<1>3. ASSUME NEW w \in W, WriterReceive(w) \/ WriteChunk(w) \/ WriteFails(w) PROVE Kept
  BY <1>3 DEF WriterReceive, WriteChunk, WriteFails, env
<1>4. ASSUME NEW s \in Shards, GetOrCreateWriter(s) PROVE Goal
  <2> DEFINE d == connOf[worker[s].task]
  <2>1. UNCHANGED remover
    BY <1>4 DEF GetOrCreateWriter, env
  <2>2. \/ UNCHANGED writers
        \/ \E w \in W : Makes(s, w) /\ writers' = [writers EXCEPT ![d] = w]
    BY <1>4 DEF GetOrCreateWriter, Makes
  <2>3. ASSUME NEW w \in W, Makes(s, w), writers' = [writers EXCEPT ![d] = w] PROVE Goal
    <3>1. writers'[c] = (IF d = c THEN w ELSE writers[c]) /\ w # None
      BY <1>0, <2>3, SendAssumption DEF StopType, W
    <3> QED BY <2>1, <2>3, <3>1
  <2> QED BY <2>1, <2>2, <2>3
<1>5. ASSUME NEW d \in Conns, CloseConn(d) PROVE Goal
  <2>1. CASE d # c
    <3>1. writers'[c] = writers[c] /\ remover'[c] = remover[c]
      BY <1>0, <1>5, <2>1 DEF CloseConn, StopType
    <3> QED BY <3>1
  <2>2. CASE d = c
    <3>1. writers'[c] = None
      BY <1>0, <1>5, <2>2 DEF CloseConn, StopType
    <3>2. remover'[c] = IF writers[c] = None THEN [pc |-> "close", w |-> None]
                        ELSE [pc |-> "stop", w |-> writers[c]]
      BY <1>0, <1>5, <2>2 DEF CloseConn, StopType
    <3> QED BY <3>1, <3>2
  <2> QED BY <2>1, <2>2
<1>6. ASSUME NEW d \in Conns, StopWriter(d) PROVE Goal
  <2>1. /\ writers'[c] = writers[c]
        /\ remover'[c] = IF d = c THEN [remover[c] EXCEPT !.pc = "drain"] ELSE remover[c]
        /\ d = c => remover[c].pc = "stop"
    BY <1>0, <1>6 DEF StopWriter, StopType
  <2>2. d = c => ~Unremoved(c)'
    BY <1>0, <2>1 DEF StopType
  <2> QED BY <2>1, <2>2
<1>7. ASSUME NEW d \in Conns, DrainWriter(d) \/ CloseAfterHook(d) PROVE Goal
  <2>1. /\ writers'[c] = writers[c]
        /\ remover'[c] = remover[c] \/ remover'[c].pc \in {"close", "done"}
    BY <1>0, <1>7 DEF DrainWriter, CloseAfterHook, StopType, work
  <2> QED BY <2>1
<1>8. ASSUME NEW d \in Conns, Stall(d) PROVE Kept
  BY <1>8 DEF Stall, work
<1>9. CASE Shutdown \/ ShutdownReturns \/ CloseShards \/ CloserLocks \/ CloserStops \/ UNCHANGED vars
  <2>1. Kept
    BY <1>9 DEF Shutdown, ShutdownReturns, CloseShards, CloserLocks, CloserStops, vars, work, env
  <2> QED BY <2>1
<1>10. CASE CloserDone
  <2>1. writers'[c] = None /\ UNCHANGED remover
    BY <1>10 DEF CloserDone, env
  <2> QED BY <1>10, <2>1
<1>11. Kept => Goal
  OBVIOUS
<1>12. ASSUME NEW d \in Conns, RemoveBegins(d) PROVE Goal
  <2>1. /\ UNCHANGED writers
        /\ remover'[c] = IF d = c THEN [remover[c] EXCEPT !.pc = "lock"] ELSE remover[c]
        /\ d = c => remover[c].pc = "idle"
    BY <1>0, <1>12 DEF RemoveBegins, StopType, work
  <2> QED BY <2>1
<1> HIDE DEF Goal, Kept
<1>13. Goal
  BY <1>1, <1>2, <1>3, <1>4, <1>5, <1>6, <1>7, <1>8, <1>9, <1>10, <1>11, <1>12
     DEF Next, DispatcherNext, Goal
<1> QED BY <1>13 DEF Goal

\* A writer stays the writer of its connection.
LEMMA ServesOn ==
  ASSUME TypeOK, Filled, [Next]_vars, NEW w, NEW c, Serves(w, c)
  PROVE  Serves(w, c)'
<1>1. w \in W /\ wr[w].pc # "unused" /\ wr[w].conn = c
  BY DEF Serves
<1>2. wr[w] \in [pc : {"unused", "recv", "header", "payload", "exit"}, conn : Conns \cup {None},
                 ch : Seq(Tasks), closed : BOOLEAN, task : Tasks \cup {None}]
  BY <1>1 DEF TypeOK, WriterType
<1>3. ASSUME NEW s \in Shards, Makes(s, w) PROVE FALSE
  BY <1>1, <1>3 DEF Makes, Fresh
<1>4. wr'[w].pc # "unused" /\ wr'[w].conn = c
  BY <1>1, <1>2, <1>3, WriterFate
<1> QED BY <1>1, <1>4 DEF Serves

LEMMA FilledStep == TypeOK /\ Filled /\ [Next]_vars => Filled'
<1> SUFFICES ASSUME TypeOK, Filled, [Next]_vars PROVE Filled'
  OBVIOUS
<1>0. WorkerType /\ WriterType /\ StopType /\ QueueType
  BY DEF TypeOK
<1>1. ASSUME NEW w \in W
      PROVE  /\ Writing(w)' => wr'[w].task \in Tasks
             /\ wr'[w].pc # "unused" => wr'[w].conn \in Conns
             /\ wr'[w].pc = "unused" => wr'[w].ch = <<>>
  <2>1. /\ Writing(w) => wr[w].task \in Tasks
        /\ wr[w].pc # "unused" => wr[w].conn \in Conns
        /\ wr[w].pc = "unused" => wr[w].ch = <<>>
    BY DEF Filled
  <2>2. wr[w] \in [pc : {"unused", "recv", "header", "payload", "exit"}, conn : Conns \cup {None},
                   ch : Seq(Tasks), closed : BOOLEAN, task : Tasks \cup {None}]
    BY <1>0 DEF WriterType
  <2>3. ASSUME NEW s \in Shards, Makes(s, w) PROVE connOf[worker[s].task] \in Conns
    BY <2>3, SendAssumption DEF Makes, GetOrCreateWriter, Filled, Busy
  <2>4. ASSUME NEW s \in Shards, Queues(s, w) PROVE wr[w].pc # "unused"
    BY <2>4 DEF Queues, Enqueue, Filled, Serves
  <2>5. Takes(w) => Head(wr[w].ch) \in Tasks /\ wr[w].pc = "recv"
    BY <2>2 DEF Takes
  <2>6. (Exits(w) => wr[w].pc = "recv") /\ (Heads(w) => wr[w].pc = "header") /\ (Ends(w) => Writing(w))
    BY DEF Exits, Heads, Ends
  <2>7. Stops(w) => wr[w].pc # "unused"
    BY DEF Stops
  <2>8. CASE wr'[w] = wr[w]
    BY <2>1, <2>8 DEF Writing
  <2>9. CASE \E s \in Shards : Makes(s, w) /\ wr'[w] = NewWriter(connOf[worker[s].task])
    BY <2>3, <2>9 DEF Writing, NewWriter
  <2>10. CASE \E s \in Shards : Queues(s, w) /\ wr'[w] = [wr[w] EXCEPT !.ch = Append(@, worker[s].task)]
    BY <2>1, <2>2, <2>4, <2>10 DEF Writing
  <2>11. CASE Takes(w) /\ wr'[w] = [wr[w] EXCEPT !.pc = "header", !.ch = Tail(@), !.task = Head(wr[w].ch)]
    BY <2>1, <2>2, <2>5, <2>11 DEF Writing
  <2>12. CASE \/ Exits(w) /\ wr'[w] = [wr[w] EXCEPT !.pc = "exit"]
              \/ Heads(w) /\ wr'[w] = [wr[w] EXCEPT !.pc = "payload"]
              \/ Ends(w) /\ wr'[w] = [wr[w] EXCEPT !.pc = "recv", !.task = None]
    BY <2>1, <2>2, <2>6, <2>12 DEF Writing
  <2>13. CASE Stops(w) /\ wr'[w] = [wr[w] EXCEPT !.closed = TRUE]
    BY <2>1, <2>2, <2>7, <2>13 DEF Writing
  <2> QED BY <2>8, <2>9, <2>10, <2>11, <2>12, <2>13, WriterFate
<1>2. ASSUME NEW c \in Conns
      PROVE  /\ remover'[c].pc \in {"stop", "drain"} => Serves(remover[c].w, c)'
             /\ writers'[c] # None => Serves(writers[c], c)'
  <2>1. remover[c] \in [pc : {"idle", "lock", "stop", "drain", "close", "done"}, w : W \cup {None}]
    BY <1>0 DEF StopType
  <2>2. /\ remover[c].pc \in {"stop", "drain"} => Serves(remover[c].w, c)
        /\ writers[c] # None => Serves(writers[c], c)
    BY DEF Filled
  <2>3. \/ writers'[c] = writers[c] \/ writers'[c] = None
        \/ \E s \in Shards : \E w \in W :
              Makes(s, w) /\ connOf[worker[s].task] = c /\ writers'[c] = w
    BY MapFate
  <2>4. \/ remover'[c] = remover[c]
        \/ remover'[c] = [remover[c] EXCEPT !.pc = "lock"] /\ remover[c].pc = "idle"
        \/ remover'[c] = [remover[c] EXCEPT !.pc = "drain"] /\ remover[c].pc = "stop"
        \/ remover'[c].pc \in {"close", "done"}
        \/ writers[c] # None /\ remover'[c] = [pc |-> "stop", w |-> writers[c]]
    BY MapFate
  <2>5. ASSUME NEW s \in Shards, NEW w \in W, Makes(s, w), connOf[worker[s].task] = c, writers'[c] = w
        PROVE  Serves(writers[c], c)'
    <3>1. wr'[w] = NewWriter(c)
      BY <1>0, <2>5 DEF Makes, WriterType
    <3> QED BY <2>5, <3>1 DEF Serves, NewWriter
  <2>6. ASSUME NEW w, Serves(w, c) PROVE w \in W /\ wr'[w].pc # "unused" /\ wr'[w].conn = c
    BY <2>6, ServesOn DEF Serves
  <2>7. writers'[c] # None => Serves(writers[c], c)'
    BY <2>2, <2>3, <2>5, <2>6 DEF Serves
  <2>8. remover'[c].pc \in {"stop", "drain"} => Serves(remover[c].w, c)'
    <3>1. remover'[c].pc \in {"stop", "drain"} => Serves(remover'[c].w, c)
      BY <2>1, <2>2, <2>4
    <3> QED BY <2>6, <3>1 DEF Serves
  <2> QED BY <2>7, <2>8
<1>3. ASSUME NEW s \in Shards
      PROVE  /\ Busy(s)' => worker'[s].task \in Tasks
             /\ worker'[s].pc = "enqueue" => Serves(worker[s].w, connOf[worker[s].task])'
  <2>1. worker[s] \in [pc : {"recv", "find", "enqueue", "exit"}, task : Tasks \cup {None}, w : W \cup {None}]
    BY <1>0 DEF WorkerType
  <2>2. /\ Busy(s) => worker[s].task \in Tasks
        /\ worker[s].pc = "enqueue" => Serves(worker[s].w, connOf[worker[s].task])
    BY DEF Filled
  <2>3. CASE worker'[s] = worker[s]
    <3>1. worker'[s].pc = "enqueue" =>
             LET w == worker[s].w IN
             w \in W /\ wr'[w].pc # "unused" /\ wr'[w].conn = connOf[worker[s].task]
      BY <2>2, <2>3, ServesOn DEF Serves
    <3> QED BY <2>2, <2>3, <3>1 DEF Serves, Busy
  <2>4. CASE Gets(s)
    <3>1. Head(shardQ[s]) \in Tasks
      BY <1>0, <2>4 DEF Gets, QueueType
    <3> QED BY <2>4, <3>1 DEF Gets, Busy
  <2>5. CASE worker'[s] = [worker[s] EXCEPT !.pc = "exit"]
    BY <2>1, <2>5 DEF Busy
  <2>6. CASE Finds(s)
    <3> DEFINE c == connOf[worker[s].task]
    <3>1. worker[s].task \in Tasks /\ c \in Conns
      BY <2>2, <2>6, SendAssumption DEF Finds, Busy
    <3>3. /\ worker'[s].task = worker[s].task /\ worker'[s].w = writers'[c]
          /\ writers'[c] # None
      BY <2>1, <2>6 DEF Finds
    <3> HIDE DEF c
    <3>4. \A d \in Conns : writers'[d] # None => LET w == writers'[d] IN
                                w \in W /\ wr'[w].pc # "unused" /\ wr'[w].conn = d
      BY <1>2 DEF Serves
    <3> QED BY <3>1, <3>3, <3>4 DEF Serves, c
  <2>7. CASE Hands(s)
    BY <2>7 DEF Hands, Idle, Busy
  <2> QED BY <2>3, <2>4, <2>5, <2>6, <2>7, ShardFate
<1> QED BY <1>1, <1>2, <1>3 DEF Filled

-----------------------------------------------------------------------------
(* The order in which Dispatch accepted the tasks *)

Pos == [t \in Tasks |-> Accepted(t)]

\* A task is accepted once, by a call that answered without error.
Ordered ==
  /\ \A k \in 1..Len(accepted) : caller[accepted[k]] = "ok"
  /\ \A j, k \in 1..Len(accepted) : accepted[j] = accepted[k] => j = k
  /\ \A t \in Tasks : caller[t] = "ok" => \E k \in 1..Len(accepted) : accepted[k] = t

LEMMA AcceptFate ==
  ASSUME TypeOK, [Next]_vars
  PROVE  \/ UNCHANGED accepted /\ \A t \in Tasks : caller'[t] = "ok" <=> caller[t] = "ok"
         \/ \E t \in Tasks : /\ Accept(t) /\ accepted' = Append(accepted, t) /\ caller[t] = "select"
                             /\ \A u \in Tasks : caller'[u] = "ok" <=> (caller[u] = "ok" \/ u = t)
<1>0. DispatchType
  BY DEF TypeOK
<1>1. ASSUME NEW t \in Tasks, Dispatch(t) \/ Refused(t) \/ CtxEnds(t)
      PROVE  UNCHANGED accepted /\ \A u \in Tasks : caller'[u] = "ok" <=> caller[u] = "ok"
  BY <1>0, <1>1 DEF Dispatch, Refused, CtxEnds, Answer, DispatchType
<1>2. ASSUME NEW t \in Tasks, Accept(t)
      PROVE  /\ accepted' = Append(accepted, t) /\ caller[t] = "select"
             /\ \A u \in Tasks : caller'[u] = "ok" <=> (caller[u] = "ok" \/ u = t)
  BY <1>0, <1>2 DEF Accept, Answer, DispatchType
<1>3. ASSUME NEW s \in Shards, Receive(s) \/ GetOrCreateWriter(s) \/ Enqueue(s)
      PROVE  UNCHANGED <<accepted, caller>>
  BY <1>3 DEF Receive, GetOrCreateWriter, Enqueue, disp
<1>4. ASSUME NEW w \in W, WriterReceive(w) \/ WriteChunk(w) \/ WriteFails(w) PROVE UNCHANGED <<accepted, caller>>
  BY <1>4 DEF WriterReceive, WriteChunk, WriteFails, disp
<1>5. ASSUME NEW c \in Conns, \/ RemoveBegins(c) \/ CloseConn(c) \/ StopWriter(c)
                              \/ DrainWriter(c) \/ CloseAfterHook(c) \/ Stall(c)
      PROVE  UNCHANGED <<accepted, caller>>
  BY <1>5 DEF RemoveBegins, CloseConn, StopWriter, DrainWriter, CloseAfterHook, Stall, disp
<1>6. CASE \/ Shutdown \/ ShutdownReturns \/ CloseShards \/ CloserLocks \/ CloserStops \/ CloserDone
           \/ UNCHANGED vars
  <2>1. UNCHANGED <<accepted, caller>>
    BY <1>6 DEF Shutdown, ShutdownReturns, CloseShards, CloserLocks, CloserStops, CloserDone, vars, disp
  <2> QED BY <2>1
<1>7. CASE \E t \in Tasks : Accept(t)
  BY <1>2, <1>7
<1> QED BY <1>1, <1>3, <1>4, <1>5, <1>6, <1>7 DEF Next, DispatcherNext

LEMMA OrderedStep == TypeOK /\ Ordered /\ [Next]_vars => Ordered'
<1> SUFFICES ASSUME TypeOK, Ordered, [Next]_vars PROVE Ordered'
  OBVIOUS
<1>0. accepted \in Seq(Tasks)
  BY DEF TypeOK, QueueType
<1>1. CASE UNCHANGED accepted /\ \A t \in Tasks : caller'[t] = "ok" <=> caller[t] = "ok"
  BY <1>0, <1>1 DEF Ordered
<1>2. ASSUME NEW t \in Tasks, accepted' = Append(accepted, t), caller[t] = "select",
             \A u \in Tasks : caller'[u] = "ok" <=> (caller[u] = "ok" \/ u = t)
      PROVE  Ordered'
  <2>1. /\ Len(accepted') = Len(accepted) + 1 /\ accepted'[Len(accepted) + 1] = t
        /\ Len(accepted) \in Nat
        /\ \A k \in 1..Len(accepted) : accepted'[k] = accepted[k] /\ accepted[k] \in Tasks
    BY <1>0, <1>2
  <2>2. \A k \in 1..Len(accepted) : accepted[k] # t
    BY <1>2 DEF Ordered
  <2>3. \A k \in 1..Len(accepted') : caller'[accepted'[k]] = "ok"
    BY <1>2, <2>1 DEF Ordered
  <2>4. \A j, k \in 1..Len(accepted') : accepted'[j] = accepted'[k] => j = k
    BY <2>1, <2>2 DEF Ordered
  <2>5. \A u \in Tasks : caller'[u] = "ok" => \E k \in 1..Len(accepted') : accepted'[k] = u
    BY <1>2, <2>1 DEF Ordered
  <2> QED BY <2>3, <2>4, <2>5 DEF Ordered
<1> QED BY <1>1, <1>2, AcceptFate

LEMMA PosOf ==
  ASSUME NEW a, NEW k \in 1..Len(a), \A i, j \in 1..Len(a) : a[i] = a[j] => i = j
  PROVE  (CHOOSE j \in 1..Len(a) : a[j] = a[k]) = k
OBVIOUS

\* Positions last; a task accepted later has a later one.
LEMMA PosStep ==
  ASSUME TypeOK, Ordered, [Next]_vars
  PROVE  /\ \A t \in Tasks : caller[t] = "ok" => Pos'[t] = Pos[t] /\ Pos[t] \in Nat
         /\ \A t, u \in Tasks : Accept(t) /\ caller[u] = "ok" => Pos[u] < Pos'[t]
         /\ \A t \in Tasks : Accept(t) => Pos'[t] \in Nat
<1>0. accepted \in Seq(Tasks)
  BY DEF TypeOK, QueueType
<1>1. Ordered'
  BY OrderedStep
<1>2. ASSUME NEW t \in Tasks, NEW k \in 1..Len(accepted), accepted[k] = t PROVE Pos[t] = k
  BY <1>2, PosOf DEF Pos, Accepted, Ordered
<1>3. ASSUME NEW t \in Tasks, NEW k \in 1..Len(accepted'), accepted'[k] = t PROVE Pos'[t] = k
  <2>1. \A i, j \in 1..Len(accepted') : accepted'[i] = accepted'[j] => i = j
    BY <1>1 DEF Ordered
  <2>2. (CHOOSE j \in 1..Len(accepted') : accepted'[j] = accepted'[k]) = k
    BY <2>1, PosOf
  <2> QED BY <1>3, <2>2 DEF Pos, Accepted
<1>4. \/ UNCHANGED accepted
      \/ \E t \in Tasks : Accept(t) /\ accepted' = Append(accepted, t)
  BY AcceptFate
<1>5. \A k \in 1..Len(accepted) : k \in 1..Len(accepted') /\ accepted'[k] = accepted[k]
  BY <1>0, <1>4
<1>6. ASSUME NEW t \in Tasks, caller[t] = "ok"
      PROVE  \E k \in 1..Len(accepted) : Pos'[t] = k /\ Pos[t] = k
  <2>1. PICK k \in 1..Len(accepted) : accepted[k] = t
    BY <1>6 DEF Ordered
  <2> QED BY <1>2, <1>3, <1>5, <2>1
<1>7. ASSUME NEW t \in Tasks, Accept(t) PROVE Pos'[t] = Len(accepted) + 1
  <2>1. accepted' = Append(accepted, t)
    BY <1>7 DEF Accept
  <2>2. Len(accepted) + 1 \in 1..Len(accepted') /\ accepted'[Len(accepted) + 1] = t
    BY <1>0, <2>1
  <2> QED BY <1>3, <2>2
<1>8. Len(accepted) \in Nat
  BY <1>0
<1> QED BY <1>6, <1>7, <1>8

-----------------------------------------------------------------------------
(* Where a task is between its acceptance and its callback *)

\* The shard queue holds pending tasks of its shard, in order, behind the one
\* its worker has.
ShardOrder ==
  \A s \in Shards :
    /\ \A i \in 1..Len(shardQ[s]) : Pending(shardQ[s][i]) /\ shardOf[connOf[shardQ[s][i]]] = s
    /\ \A i, j \in 1..Len(shardQ[s]) : i < j => Pos[shardQ[s][i]] < Pos[shardQ[s][j]]
    /\ Busy(s) => /\ Pending(worker[s].task) /\ shardOf[connOf[worker[s].task]] = s
                  /\ \A i \in 1..Len(shardQ[s]) : Pos[worker[s].task] < Pos[shardQ[s][i]]

\* A writer holds pending tasks of its connection, in order.
WriterOrder ==
  \A w \in W :
    /\ \A t \in Tasks : AtWriter(t, w) => Pending(t) /\ connOf[t] = wr[w].conn
    /\ \A i, j \in 1..Len(wr[w].ch) : i < j => Pos[wr[w].ch[i]] < Pos[wr[w].ch[j]]
    /\ Writing(w) => \A i \in 1..Len(wr[w].ch) : Pos[wr[w].task] < Pos[wr[w].ch[i]]

\* What a writer holds came before everything its shard still holds, and no
\* two writers hold the same task.
Passed ==
  \A t \in Tasks, w \in W : AtWriter(t, w) =>
    /\ \A v \in W : AtWriter(t, v) => v = w
    /\ LET s == shardOf[connOf[t]] IN
       /\ Busy(s) => Pos[t] < Pos[worker[s].task]
       /\ \A i \in 1..Len(shardQ[s]) : Pos[t] < Pos[shardQ[s][i]]

\* A callback follows acceptance, and comes once; success follows the payload.
Called ==
  \A t \in Tasks :
     /\ cbs[t] # <<>> => caller[t] = "ok" /\ Len(cbs[t]) = 1
     /\ cbs[t] = <<"ok">> => \E k \in 1..Len(wire[connOf[t]]) : wire[connOf[t]][k] = <<t, "payload">>

InFlight == Ordered /\ ShardOrder /\ WriterOrder /\ Passed /\ Called

\* Who calls a task back.
Fails(s, t) ==
  /\ Hands(s) /\ worker[s].task = t /\ UNCHANGED wr
  /\ \E e \in {"errWriterClosed", "errEnqueueTimeout"} : cbs'[t] = Append(cbs[t], e)
Concludes(w, t) ==
  /\ Ends(w) /\ wr[w].task = t
  /\ \/ cbs'[t] = Append(cbs[t], "errWrite")
     \/ /\ WriteChunk(w) /\ wr[w].conn \notin dead /\ wr[w].pc = "payload"
        /\ cbs'[t] = Append(cbs[t], "ok")

LEMMA CallFate ==
  ASSUME TypeOK, Filled, [Next]_vars, NEW t \in Tasks
  PROVE  \/ cbs'[t] = cbs[t]
         \/ \E s \in Shards : Fails(s, t)
         \/ \E w \in W : Concludes(w, t)
<1>0. HistoryType /\ WorkerType
  BY DEF TypeOK
<1>1. ASSUME NEW u \in Tasks, Dispatch(u) \/ Accept(u) \/ Refused(u) \/ CtxEnds(u) PROVE UNCHANGED cbs
  BY <1>1 DEF Dispatch, Accept, Refused, CtxEnds
<1>2. ASSUME NEW s \in Shards, Receive(s) \/ GetOrCreateWriter(s) PROVE UNCHANGED cbs
  BY <1>2 DEF Receive, GetOrCreateWriter
<1>3. ASSUME NEW s \in Shards, Enqueue(s) PROVE cbs'[t] = cbs[t] \/ Fails(s, t)
  <2>1. CASE UNCHANGED cbs
    BY <2>1
  <2>2. ASSUME NEW e \in {"errWriterClosed", "errEnqueueTimeout"}, Call(worker[s].task, e), UNCHANGED wr
        PROVE  cbs'[t] = cbs[t] \/ Fails(s, t)
    <3>1. cbs'[t] = IF t = worker[s].task THEN Append(cbs[t], e) ELSE cbs[t]
      BY <1>0, <2>2 DEF Call, HistoryType
    <3>2. Hands(s)
      BY <1>0, <1>3 DEF Hands, Enqueue, WorkerType
    <3> QED BY <2>2, <3>1, <3>2 DEF Fails
  <2> QED BY <1>3, <2>1, <2>2 DEF Enqueue, EnqueueFails
<1>4. ASSUME NEW w \in W, WriterReceive(w) PROVE UNCHANGED cbs
  BY <1>4 DEF WriterReceive
<1>5. ASSUME NEW w \in W, WriteChunk(w) PROVE cbs'[t] = cbs[t] \/ Concludes(w, t)
  <2>1. CASE wr[w].pc = "header" /\ wr[w].conn \notin dead
    BY <1>5, <2>1 DEF WriteChunk
  <2>2. CASE ~(wr[w].pc = "header" /\ wr[w].conn \notin dead)
    <3>1. Call(wr[w].task, IF wr[w].conn \in dead THEN "errWrite" ELSE "ok") /\ Ends(w)
      BY <1>5, <2>2 DEF WriteChunk, Ends, Writing
    <3>2. cbs'[t] = IF t = wr[w].task
                    THEN Append(cbs[t], IF wr[w].conn \in dead THEN "errWrite" ELSE "ok")
                    ELSE cbs[t]
      BY <1>0, <3>1 DEF Call, HistoryType
    <3>3. wr[w].conn \in dead \/ wr[w].pc = "payload"
      BY <1>5, <2>2 DEF WriteChunk
    <3> QED BY <1>5, <3>1, <3>2, <3>3 DEF Concludes
  <2> QED BY <2>1, <2>2
<1>8. ASSUME NEW w \in W, WriteFails(w) PROVE cbs'[t] = cbs[t] \/ Concludes(w, t)
  <2>1. Call(wr[w].task, "errWrite") /\ Ends(w)
    BY <1>8 DEF WriteFails, Ends
  <2>2. cbs'[t] = IF t = wr[w].task THEN Append(cbs[t], "errWrite") ELSE cbs[t]
    BY <1>0, <2>1 DEF Call, HistoryType
  <2> QED BY <2>1, <2>2 DEF Concludes
<1>6. ASSUME NEW c \in Conns, \/ RemoveBegins(c) \/ CloseConn(c) \/ StopWriter(c)
                              \/ DrainWriter(c) \/ CloseAfterHook(c) \/ Stall(c)
      PROVE  UNCHANGED cbs
  BY <1>6 DEF RemoveBegins, CloseConn, StopWriter, DrainWriter, CloseAfterHook, Stall
<1>7. CASE \/ Shutdown \/ ShutdownReturns \/ CloseShards \/ CloserLocks \/ CloserStops \/ CloserDone
           \/ UNCHANGED vars
  <2>1. UNCHANGED cbs
    BY <1>7 DEF Shutdown, ShutdownReturns, CloseShards, CloserLocks, CloserStops, CloserDone, vars
  <2> QED BY <2>1
<1> QED BY <1>1, <1>2, <1>3, <1>4, <1>5, <1>6, <1>7, <1>8 DEF Next, DispatcherNext

\* A task stays pending until the one that holds it calls it back.
LEMMA StaysPending ==
  ASSUME TypeOK, Filled, InFlight, [Next]_vars, NEW t \in Tasks
  PROVE  /\ \A s \in Shards : \A i \in 1..Len(shardQ[s]) : shardQ[s][i] = t => Pending(t)'
         /\ \A s \in Shards : Busy(s) /\ worker[s].task = t /\ ~Hands(s) => Pending(t)'
         /\ \A w \in W : AtWriter(t, w) /\ ~(Ends(w) /\ wr[w].task = t) => Pending(t)'
<1> USE DEF InFlight
<1>1. caller[t] = "ok" => caller'[t] = "ok"
  BY AcceptFate
<1>2. Pending(t) /\ cbs'[t] = cbs[t] => Pending(t)'
  BY <1>1 DEF Pending
<1>3. ASSUME NEW r \in Shards, Fails(r, t)
      PROVE  Busy(r) /\ worker[r].task = t /\ r = shardOf[connOf[t]] /\ Hands(r)
  BY <1>3 DEF Fails, Hands, Busy, ShardOrder
<1>4. ASSUME NEW v \in W, Concludes(v, t) PROVE AtWriter(t, v) /\ Ends(v) /\ wr[v].task = t
  BY <1>4 DEF Concludes, Ends, AtWriter
<1>5. \A s \in Shards : \A i \in 1..Len(shardQ[s]) : shardQ[s][i] = t =>
         /\ Pending(t) /\ s = shardOf[connOf[t]] /\ Pos[t] \in Nat
         /\ Busy(s) => Pos[worker[s].task] < Pos[t]
  BY PosStep DEF ShardOrder, Pending
<1>6. \A s \in Shards : Busy(s) /\ worker[s].task = t =>
         Pending(t) /\ s = shardOf[connOf[t]] /\ Pos[t] \in Nat
  BY PosStep DEF ShardOrder, Pending
<1>7. \A w \in W : AtWriter(t, w) => Pending(t) /\ Pos[t] \in Nat
  BY PosStep DEF WriterOrder, Pending
<1>8. \A w \in W, s \in Shards : AtWriter(t, w) /\ s = shardOf[connOf[t]] =>
         /\ \A v \in W : AtWriter(t, v) => v = w
         /\ Busy(s) => Pos[t] < Pos[worker[s].task]
         /\ \A i \in 1..Len(shardQ[s]) : Pos[t] < Pos[shardQ[s][i]]
  BY DEF Passed
<1>9. ASSUME NEW s \in Shards, NEW i \in 1..Len(shardQ[s]), shardQ[s][i] = t PROVE Pending(t)'
  BY <1>2, <1>3, <1>4, <1>5, <1>8, <1>9, CallFate
<1>10. ASSUME NEW s \in Shards, Busy(s), worker[s].task = t, ~Hands(s) PROVE Pending(t)'
  BY <1>2, <1>3, <1>4, <1>6, <1>8, <1>10, CallFate
<1>11. ASSUME NEW w \in W, AtWriter(t, w), ~(Ends(w) /\ wr[w].task = t) PROVE Pending(t)'
  <2>1. shardOf[connOf[t]] \in Shards
    BY SendAssumption
  <2> QED BY <1>2, <1>3, <1>4, <1>7, <1>8, <1>11, <2>1, CallFate
<1> QED BY <1>9, <1>10, <1>11

LEMMA ShardOrderStep == TypeOK /\ Filled /\ InFlight /\ [Next]_vars => ShardOrder'
<1> SUFFICES ASSUME TypeOK, Filled, InFlight, [Next]_vars, NEW s \in Shards
             PROVE  /\ \A i \in 1..Len(shardQ'[s]) :
                          Pending(shardQ[s][i])' /\ shardOf[connOf[shardQ'[s][i]]] = s
                    /\ \A i, j \in 1..Len(shardQ'[s]) : i < j =>
                          Pos'[shardQ'[s][i]] < Pos'[shardQ'[s][j]]
                    /\ Busy(s)' =>
                         /\ Pending(worker[s].task)' /\ shardOf[connOf[worker'[s].task]] = s
                         /\ \A i \in 1..Len(shardQ'[s]) : Pos'[worker'[s].task] < Pos'[shardQ'[s][i]]
  BY DEF ShardOrder
<1>0. /\ shardQ[s] \in Seq(Tasks) /\ Len(shardQ[s]) \in Nat
      /\ \A i \in 1..Len(shardQ[s]) : shardQ[s][i] \in Tasks
      /\ worker[s] \in [pc : {"recv", "find", "enqueue", "exit"}, task : Tasks \cup {None},
                        w : W \cup {None}]
      /\ Busy(s) => worker[s].task \in Tasks
  BY DEF TypeOK, QueueType, WorkerType, Filled
<1>1. /\ \A i \in 1..Len(shardQ[s]) : caller[shardQ[s][i]] = "ok" /\ shardOf[connOf[shardQ[s][i]]] = s
      /\ \A i, j \in 1..Len(shardQ[s]) : i < j => Pos[shardQ[s][i]] < Pos[shardQ[s][j]]
      /\ Busy(s) => /\ caller[worker[s].task] = "ok" /\ shardOf[connOf[worker[s].task]] = s
                    /\ \A i \in 1..Len(shardQ[s]) : Pos[worker[s].task] < Pos[shardQ[s][i]]
  BY DEF InFlight, ShardOrder, Pending
<1>2. /\ \A i \in 1..Len(shardQ[s]) : Pos'[shardQ[s][i]] = Pos[shardQ[s][i]]
      /\ Busy(s) => Pos'[worker[s].task] = Pos[worker[s].task]
  BY <1>0, <1>1, PosStep DEF InFlight
<1>3. /\ \A i \in 1..Len(shardQ[s]) : caller'[shardQ[s][i]] = "ok" /\ cbs'[shardQ[s][i]] = <<>>
      /\ Busy(s) /\ ~Hands(s) => caller'[worker[s].task] = "ok" /\ cbs'[worker[s].task] = <<>>
  BY <1>0, StaysPending DEF Pending
<1>4. CASE worker'[s] = worker[s] /\ shardQ'[s] = shardQ[s]
  <2>1. Busy(s)' => Busy(s) /\ ~Hands(s)
    BY <1>4 DEF Busy, Hands, Idle
  <2> QED BY <1>1, <1>2, <1>3, <1>4, <2>1 DEF Pending
<1>5. ASSUME worker'[s] = worker[s], NEW t \in Tasks, Enters(t, s)
      PROVE  /\ \A i \in 1..Len(shardQ'[s]) :
                          Pending(shardQ[s][i])' /\ shardOf[connOf[shardQ'[s][i]]] = s
             /\ \A i, j \in 1..Len(shardQ'[s]) : i < j =>
                          Pos'[shardQ'[s][i]] < Pos'[shardQ'[s][j]]
             /\ Busy(s)' =>
                  /\ Pending(worker[s].task)' /\ shardOf[connOf[worker'[s].task]] = s
                  /\ \A i \in 1..Len(shardQ'[s]) : Pos'[worker'[s].task] < Pos'[shardQ'[s][i]]
  <2>1. Busy(s)' => Busy(s) /\ ~Hands(s)
    BY <1>5 DEF Busy, Hands, Idle
  <2>2. /\ Len(shardQ'[s]) = Len(shardQ[s]) + 1 /\ shardQ'[s][Len(shardQ[s]) + 1] = t
        /\ \A i \in 1..Len(shardQ[s]) : shardQ'[s][i] = shardQ[s][i]
    BY <1>0, <1>5 DEF Enters
  <2>3. caller'[t] = "ok" /\ cbs'[t] = <<>> /\ shardOf[connOf[t]] = s
    BY <1>5 DEF Enters, Accept, Answer, InFlight, Called, TypeOK, DispatchType
  <2>4. \A u \in Tasks : caller[u] = "ok" => Pos'[u] < Pos'[t]
    BY <1>5, PosStep DEF Enters, InFlight
  <2>5. \A i \in 1..Len(shardQ'[s]) : i \in 1..Len(shardQ[s]) \/ i = Len(shardQ[s]) + 1
    BY <1>0, <2>2
  <2>6. \A i \in 1..Len(shardQ'[s]) :
           caller'[shardQ'[s][i]] = "ok" /\ cbs'[shardQ'[s][i]] = <<>> /\ shardOf[connOf[shardQ'[s][i]]] = s
    BY <1>1, <1>3, <2>2, <2>3, <2>5
  <2>7. \A i \in 1..Len(shardQ[s]) : Pos'[shardQ[s][i]] < Pos'[t]
    BY <1>0, <1>1, <2>4
  <2>8. \A i, j \in 1..Len(shardQ'[s]) : i < j => Pos'[shardQ'[s][i]] < Pos'[shardQ'[s][j]]
    BY SMTT(30), <1>0, <1>1, <1>2, <2>2, <2>5, <2>7
  <2>9. Busy(s)' => /\ caller'[worker'[s].task] = "ok" /\ cbs'[worker'[s].task] = <<>>
                    /\ shardOf[connOf[worker'[s].task]] = s
                    /\ \A i \in 1..Len(shardQ'[s]) : Pos'[worker'[s].task] < Pos'[shardQ'[s][i]]
    BY <1>0, <1>1, <1>2, <1>3, <1>5, <2>1, <2>2, <2>4, <2>5
  <2> QED BY <2>6, <2>8, <2>9 DEF Pending
<1>6. CASE Gets(s)
  <2>1. /\ Len(shardQ'[s]) = Len(shardQ[s]) - 1 /\ Len(shardQ[s]) > 0
        /\ \A i \in 1..Len(shardQ'[s]) : i + 1 \in 1..Len(shardQ[s]) /\ shardQ'[s][i] = shardQ[s][i + 1]
        /\ worker'[s].task = shardQ[s][1] /\ 1 \in 1..Len(shardQ[s])
    BY <1>0, <1>6 DEF Gets
  <2>2. \A i \in 1..Len(shardQ'[s]) :
           caller'[shardQ'[s][i]] = "ok" /\ cbs'[shardQ'[s][i]] = <<>> /\ shardOf[connOf[shardQ'[s][i]]] = s
    BY <1>1, <1>3, <2>1
  <2>3. \A i, j \in 1..Len(shardQ'[s]) : i < j => Pos'[shardQ'[s][i]] < Pos'[shardQ'[s][j]]
    <3> SUFFICES ASSUME NEW i \in 1..Len(shardQ'[s]), NEW j \in 1..Len(shardQ'[s]), i < j
                 PROVE  Pos'[shardQ'[s][i]] < Pos'[shardQ'[s][j]]
      OBVIOUS
    <3>1. PICK a \in 1..Len(shardQ[s]) : a = i + 1 /\ shardQ'[s][i] = shardQ[s][a]
      BY <2>1
    <3>2. PICK b \in 1..Len(shardQ[s]) : b = j + 1 /\ shardQ'[s][j] = shardQ[s][b]
      BY <2>1
    <3>3. a < b
      BY <1>0, <2>1, <3>1, <3>2
    <3> QED BY <1>1, <1>2, <3>1, <3>2, <3>3
  <2>4. /\ caller'[worker'[s].task] = "ok" /\ cbs'[worker'[s].task] = <<>>
        /\ shardOf[connOf[worker'[s].task]] = s
    BY <1>1, <1>3, <2>1
  <2>5. ASSUME NEW i \in 1..Len(shardQ'[s]) PROVE Pos'[worker'[s].task] < Pos'[shardQ'[s][i]]
    <3>1. PICK a \in 1..Len(shardQ[s]) : a = i + 1 /\ shardQ'[s][i] = shardQ[s][a]
      BY <2>1
    <3>2. 1 < a
      BY <1>0, <2>1, <3>1
    <3> QED BY SMTT(60), <1>1, <1>2, <2>1, <3>1, <3>2
  <2> QED BY <2>2, <2>3, <2>4, <2>5 DEF Pending
<1>7. CASE worker'[s] = [worker[s] EXCEPT !.pc = "exit"] /\ shardQ'[s] = shardQ[s]
  <2>1. ~Busy(s)'
    BY <1>0, <1>7 DEF Busy
  <2> QED BY <1>1, <1>2, <1>3, <1>7, <2>1 DEF Pending
<1>8. CASE Finds(s) /\ shardQ'[s] = shardQ[s]
  <2>1. Busy(s) /\ worker'[s].task = worker[s].task /\ ~Hands(s)
    BY <1>0, <1>8 DEF Finds, Hands, Busy
  <2> QED BY <1>1, <1>2, <1>3, <1>8, <2>1 DEF Pending
<1>9. CASE Hands(s) /\ shardQ'[s] = shardQ[s]
  <2>1. ~Busy(s)'
    BY <1>9 DEF Hands, Idle, Busy
  <2> QED BY <1>1, <1>2, <1>3, <1>9, <2>1 DEF Pending
<1> QED BY <1>4, <1>5, <1>6, <1>7, <1>8, <1>9, ShardFate

\* A writer gets tasks from the worker of its shard alone, and gives up the one
\* that it has called back.
LEMMA HoldsFate ==
  ASSUME TypeOK, Filled, InFlight, [Next]_vars, NEW t \in Tasks, NEW w \in W, AtWriter(t, w)'
  PROVE  \/ AtWriter(t, w) /\ ~(Ends(w) /\ wr[w].task = t)
         \/ \E s \in Shards : Queues(s, w) /\ t = worker[s].task
<1>0. wr[w] \in [pc : {"unused", "recv", "header", "payload", "exit"}, conn : Conns \cup {None},
                 ch : Seq(Tasks), closed : BOOLEAN, task : Tasks \cup {None}]
  BY DEF TypeOK, WriterType
<1>1. \/ wr'[w].pc \in {"header", "payload"} /\ wr'[w].task = t
      \/ \E i \in 1..Len(wr'[w].ch) : wr'[w].ch[i] = t
  BY DEF AtWriter, Writing
<1>2. CASE wr'[w] = wr[w]
  <2>1. ~Ends(w)
    <3>1. Ends(w) => wr'[w] = [wr[w] EXCEPT !.pc = "recv", !.task = None] /\ Writing(w)
      BY DEF Ends, TypeOK, WriterType
    <3> QED BY <1>0, <1>2, <3>1 DEF Writing
  <2> QED BY <1>1, <1>2, <2>1 DEF AtWriter, Writing
<1>3. ASSUME NEW s \in Shards, wr'[w] = NewWriter(connOf[worker[s].task]) PROVE FALSE
  BY <1>1, <1>3 DEF NewWriter
<1>4. ASSUME NEW s \in Shards, Queues(s, w), wr'[w] = [wr[w] EXCEPT !.ch = Append(@, worker[s].task)]
      PROVE  t = worker[s].task \/ (AtWriter(t, w) /\ ~Ends(w))
  <2>1. ~Ends(w)
    <3>1. Ends(w) => wr'[w].pc = "recv" /\ wr[w].pc # "recv"
      BY <1>0 DEF Ends, TypeOK, WriterType, Writing
    <3> QED BY <1>0, <1>4, <3>1
  <2>2. wr'[w].pc = wr[w].pc /\ wr'[w].task = wr[w].task /\ wr'[w].ch = Append(wr[w].ch, worker[s].task)
    BY <1>0, <1>4
  <2>3. worker[s].task \in Tasks
    BY <1>4 DEF Queues, Enqueue, Filled, Busy
  <2>4. ASSUME NEW i \in 1..Len(wr'[w].ch), wr'[w].ch[i] = t
        PROVE  t = worker[s].task \/ \E j \in 1..Len(wr[w].ch) : wr[w].ch[j] = t
    BY <1>0, <2>2, <2>3, <2>4
  <2> QED BY <1>1, <2>1, <2>2, <2>4 DEF AtWriter, Writing
<1>5. ASSUME Takes(w), wr'[w] = [wr[w] EXCEPT !.pc = "header", !.ch = Tail(@), !.task = Head(wr[w].ch)]
      PROVE  AtWriter(t, w) /\ ~Ends(w)
  <2>1. ~Ends(w)
    BY <1>5 DEF Takes, Ends, Writing
  <2>2. /\ wr[w].ch \in Seq(Tasks) /\ wr[w].ch # <<>>
        /\ wr'[w].task = Head(wr[w].ch) /\ wr'[w].ch = Tail(wr[w].ch)
    BY <1>0, <1>5 DEF Takes
  <2>3. /\ wr'[w].task = wr[w].ch[1] /\ 1 \in 1..Len(wr[w].ch)
        /\ \A i \in 1..Len(wr'[w].ch) : \E j \in 1..Len(wr[w].ch) : wr'[w].ch[i] = wr[w].ch[j]
    BY <2>2, TailOf
  <2> QED BY <1>1, <2>1, <2>3 DEF AtWriter
<1>6. ASSUME \/ Exits(w) /\ wr'[w] = [wr[w] EXCEPT !.pc = "exit"]
             \/ Heads(w) /\ wr'[w] = [wr[w] EXCEPT !.pc = "payload"]
      PROVE  AtWriter(t, w) /\ ~Ends(w)
  <2>1. ~Ends(w)
    BY <1>6, HeadsOn DEF Exits, Ends, Writing
  <2> QED BY <1>0, <1>1, <1>6, <2>1 DEF AtWriter, Writing, Heads
<1>7. ASSUME Ends(w), wr'[w] = [wr[w] EXCEPT !.pc = "recv", !.task = None]
      PROVE  AtWriter(t, w) /\ wr[w].task # t
  <2>1. PICK i \in 1..Len(wr[w].ch) : wr[w].ch[i] = t
    BY <1>0, <1>1, <1>7
  <2>2. AtWriter(t, w)
    BY <2>1 DEF AtWriter
  <2>3. caller[t] = "ok"
    BY <2>2 DEF InFlight, WriterOrder, Pending
  <2>4. Pos[t] \in Nat
    BY <2>3, PosStep DEF InFlight
  <2>5. Pos[wr[w].task] < Pos[t]
    BY <1>7, <2>1 DEF Ends, InFlight, WriterOrder
  <2> QED BY <2>2, <2>4, <2>5
<1>8. ASSUME Stops(w), wr'[w] = [wr[w] EXCEPT !.closed = TRUE]
      PROVE  AtWriter(t, w) /\ ~Ends(w)
  <2>1. ~Ends(w)
    <3>1. Ends(w) => wr'[w].pc = "recv" /\ wr[w].pc # "recv"
      BY <1>0 DEF Ends, TypeOK, WriterType, Writing
    <3> QED BY <1>0, <1>8, <3>1
  <2> QED BY <1>0, <1>1, <1>8, <2>1 DEF AtWriter, Writing
<1> QED BY <1>2, <1>3, <1>4, <1>5, <1>6, <1>7, <1>8, WriterFate

\* What the worker hands over.
LEMMA HandOver ==
  ASSUME TypeOK, Filled, InFlight, [Next]_vars, NEW s \in Shards, NEW w \in W, Queues(s, w)
  PROVE  LET t == worker[s].task IN
         /\ t \in Tasks /\ Busy(s) /\ shardOf[connOf[t]] = s
         /\ Pending(t) /\ caller'[t] = "ok" /\ cbs'[t] = <<>>
         /\ Serves(w, connOf[t]) /\ ~Busy(s)' /\ UNCHANGED shardQ
<1>1. Enqueue(s) /\ w = worker[s].w /\ UNCHANGED cbs
  BY DEF Queues
<1>2. worker[s].pc = "enqueue" /\ worker' = [worker EXCEPT ![s] = Idle] /\ UNCHANGED <<shardQ, caller>>
  BY <1>1 DEF Enqueue, disp
<1>3. Busy(s) /\ worker[s].task \in Tasks /\ Serves(w, connOf[worker[s].task])
  BY <1>1, <1>2 DEF Busy, Filled
<1>4. worker'[s] = Idle
  BY <1>2 DEF TypeOK, WorkerType
<1>5. Pending(worker[s].task) /\ shardOf[connOf[worker[s].task]] = s
  BY <1>3 DEF InFlight, ShardOrder
<1>6. Pending(worker[s].task) <=> (caller[worker[s].task] = "ok" /\ cbs[worker[s].task] = <<>>)
  BY DEF Pending
<1>7. caller'[worker[s].task] = "ok" /\ cbs'[worker[s].task] = <<>>
  BY <1>1, <1>2, <1>5, <1>6
<1> QED BY <1>2, <1>3, <1>4, <1>5, <1>7 DEF Busy, Idle

LEMMA WriterOrderStep == TypeOK /\ Filled /\ InFlight /\ [Next]_vars => WriterOrder'
<1> SUFFICES ASSUME TypeOK, Filled, InFlight, [Next]_vars, NEW w \in W
             PROVE  /\ \A t \in Tasks : AtWriter(t, w)' => Pending(t)' /\ connOf[t] = wr'[w].conn
                    /\ \A i, j \in 1..Len(wr'[w].ch) : i < j => Pos'[wr'[w].ch[i]] < Pos'[wr'[w].ch[j]]
                    /\ Writing(w)' =>
                         \A i \in 1..Len(wr'[w].ch) : Pos'[wr'[w].task] < Pos'[wr'[w].ch[i]]
  BY DEF WriterOrder
<1>0. wr[w] \in [pc : {"unused", "recv", "header", "payload", "exit"}, conn : Conns \cup {None},
                 ch : Seq(Tasks), closed : BOOLEAN, task : Tasks \cup {None}]
  BY DEF TypeOK, WriterType
<1> DEFINE q == wr[w].ch
<1>1. q \in Seq(Tasks) /\ Len(q) \in Nat /\ \A i \in 1..Len(q) : q[i] \in Tasks
  BY <1>0
<1>2. \A t \in Tasks : AtWriter(t, w) => /\ caller[t] = "ok" /\ connOf[t] = wr[w].conn
                                         /\ Pos'[t] = Pos[t] /\ Pos[t] \in Nat
  BY PosStep DEF InFlight, WriterOrder, Pending
<1>3. /\ \A i \in 1..Len(q) : AtWriter(q[i], w)
      /\ Writing(w) => AtWriter(wr[w].task, w) /\ wr[w].task \in Tasks
  BY DEF AtWriter, Filled
<1>4. /\ \A i \in 1..Len(q) : /\ caller[q[i]] = "ok" /\ connOf[q[i]] = wr[w].conn
                              /\ Pos'[q[i]] = Pos[q[i]] /\ Pos[q[i]] \in Nat
      /\ Writing(w) => Pos'[wr[w].task] = Pos[wr[w].task] /\ caller[wr[w].task] = "ok"
  BY <1>1, <1>2, <1>3
<1>5. /\ \A i, j \in 1..Len(q) : i < j => Pos[q[i]] < Pos[q[j]]
      /\ Writing(w) => \A i \in 1..Len(q) : Pos[wr[w].task] < Pos[q[i]]
  BY DEF InFlight, WriterOrder
<1>6. ASSUME NEW t \in Tasks, AtWriter(t, w)' PROVE Pending(t)' /\ connOf[t] = wr'[w].conn
  <2>1. CASE AtWriter(t, w) /\ ~(Ends(w) /\ wr[w].task = t)
    <3>1. wr[w].pc # "unused"
      BY <2>1 DEF AtWriter, Writing, Filled
    <3>2. Serves(w, connOf[t])
      BY <1>2, <2>1, <3>1 DEF Serves
    <3> QED BY <2>1, <3>2, ServesOn, StaysPending DEF Serves
  <2>2. ASSUME NEW s \in Shards, Queues(s, w), t = worker[s].task
        PROVE  Pending(t)' /\ connOf[t] = wr'[w].conn
    <3>1. Serves(w, connOf[t]) /\ caller'[t] = "ok" /\ cbs'[t] = <<>>
      BY <2>2, HandOver
    <3> QED BY <3>1, ServesOn DEF Serves, Pending
  <2> QED BY <1>6, <2>1, <2>2, HoldsFate
<1> DEFINE Rising == \A i, j \in 1..Len(wr'[w].ch) : i < j => Pos'[wr'[w].ch[i]] < Pos'[wr'[w].ch[j]]
<1> DEFINE Behind == Writing(w)' =>
                        \A i \in 1..Len(wr'[w].ch) : Pos'[wr'[w].task] < Pos'[wr'[w].ch[i]]
<1>7. ASSUME wr'[w].ch = q, Writing(w)' => Writing(w) /\ wr'[w].task = wr[w].task
      PROVE  Rising /\ Behind
  BY <1>4, <1>5, <1>7
<1>8. ASSUME NEW s \in Shards, wr'[w] = NewWriter(connOf[worker[s].task])
      PROVE  Rising /\ Behind
  BY <1>8 DEF NewWriter
<1>9. ASSUME NEW s \in Shards, Queues(s, w), wr'[w] = [wr[w] EXCEPT !.ch = Append(@, worker[s].task)]
      PROVE  Rising /\ Behind
  <2> DEFINE t == worker[s].task
  <2>1. t \in Tasks /\ shardOf[connOf[t]] = s /\ Busy(s) /\ caller[t] = "ok" /\ Serves(w, connOf[t])
    BY <1>9, HandOver DEF Pending
  <2>2. \A u \in Tasks : AtWriter(u, w) => Pos[u] < Pos[t] /\ Pos'[t] = Pos[t]
    <3>1. \A u \in Tasks : AtWriter(u, w) => connOf[u] = connOf[t]
      BY <1>2, <2>1 DEF Serves
    <3>2. Pos'[t] = Pos[t]
      BY <2>1, PosStep DEF InFlight
    <3> QED BY <2>1, <3>1, <3>2 DEF InFlight, Passed
  <2>3. wr'[w].ch = Append(q, t) /\ wr'[w].pc = wr[w].pc /\ wr'[w].task = wr[w].task
    BY <1>0, <1>9
  <2>4. /\ Len(wr'[w].ch) = Len(q) + 1 /\ wr'[w].ch[Len(q) + 1] = t
        /\ \A i \in 1..Len(q) : wr'[w].ch[i] = q[i]
        /\ \A i \in 1..Len(wr'[w].ch) : i \in 1..Len(q) \/ i = Len(q) + 1
    <3>1. /\ Len(q) \in Nat /\ Len(Append(q, t)) = Len(q) + 1 /\ Append(q, t)[Len(q) + 1] = t
          /\ \A i \in 1..Len(q) : Append(q, t)[i] = q[i]
      BY <1>1, AppendOf
    <3> QED BY <2>3, <3>1
  <2>5. \A i \in 1..Len(q) : Pos'[q[i]] < Pos'[t]
    BY <1>1, <1>3, <1>4, <2>2
  <2> HIDE DEF q, t
  <2>6. Rising
    BY SMTT(30), <1>1, <1>4, <1>5, <2>4, <2>5
  <2>7. Writing(w)' <=> Writing(w)
    BY <2>3 DEF Writing
  <2>8. Writing(w) => Pos'[wr[w].task] < Pos'[t]
    BY <1>3, <1>4, <2>2
  <2>9. Behind
    BY <1>4, <1>5, <2>3, <2>4, <2>7, <2>8
  <2> QED BY <2>6, <2>9
<1>10. ASSUME Takes(w), wr'[w] = [wr[w] EXCEPT !.pc = "header", !.ch = Tail(@), !.task = Head(wr[w].ch)]
       PROVE  Rising /\ Behind
  <2>1. q # <<>> /\ wr'[w].task = Head(q) /\ wr'[w].ch = Tail(q)
    BY <1>0, <1>10 DEF Takes
  <2>2. /\ wr'[w].task = q[1] /\ 1 \in 1..Len(q) /\ Len(wr'[w].ch) = Len(q) - 1
        /\ \A i \in 1..Len(wr'[w].ch) : \E j \in 1..Len(q) : j = i + 1 /\ wr'[w].ch[i] = q[j]
    BY <1>1, <2>1, TailOf
  <2> HIDE DEF q
  <2>3. ASSUME NEW i \in 1..Len(wr'[w].ch), NEW j \in 1..Len(wr'[w].ch), i < j
        PROVE  Pos'[wr'[w].ch[i]] < Pos'[wr'[w].ch[j]]
    <3>1. PICK a \in 1..Len(q) : a = i + 1 /\ wr'[w].ch[i] = q[a]
      BY <2>2
    <3>2. PICK b \in 1..Len(q) : b = j + 1 /\ wr'[w].ch[j] = q[b]
      BY <2>2
    <3>3. a < b
      BY <1>1, <2>2, <2>3, <3>1, <3>2
    <3> QED BY <1>4, <1>5, <3>1, <3>2, <3>3
  <2>4. ASSUME NEW i \in 1..Len(wr'[w].ch) PROVE Pos'[wr'[w].task] < Pos'[wr'[w].ch[i]]
    <3>1. PICK a \in 1..Len(q) : a = i + 1 /\ wr'[w].ch[i] = q[a]
      BY <2>2
    <3>2. 1 < a
      BY <1>1, <2>2, <3>1
    <3> QED BY <1>4, <1>5, <2>2, <3>1, <3>2
  <2> QED BY <2>3, <2>4
<1>11. Rising /\ Behind
  <2>1. CASE wr'[w] = wr[w]
    BY <1>7, <2>1 DEF Writing
  <2>2. CASE \/ Exits(w) /\ wr'[w] = [wr[w] EXCEPT !.pc = "exit"]
             \/ Heads(w) /\ wr'[w] = [wr[w] EXCEPT !.pc = "payload"]
             \/ Ends(w) /\ wr'[w] = [wr[w] EXCEPT !.pc = "recv", !.task = None]
             \/ Stops(w) /\ wr'[w] = [wr[w] EXCEPT !.closed = TRUE]
    <3>1. wr'[w].ch = q /\ (Writing(w)' => Writing(w) /\ wr'[w].task = wr[w].task)
      BY <1>0, <2>2 DEF Writing, Heads
    <3> QED BY <1>7, <3>1
  <2> HIDE DEF Rising, Behind, q
  <2> QED BY <1>8, <1>9, <1>10, <2>1, <2>2, WriterFate
<1> QED BY <1>6, <1>11

\* What came before everything a shard holds stays before it.
LEMMA StaysBefore ==
  ASSUME TypeOK, Filled, InFlight, [Next]_vars, NEW t \in Tasks, caller[t] = "ok", NEW s \in Shards,
         Busy(s) => Pos[t] < Pos[worker[s].task],
         \A i \in 1..Len(shardQ[s]) : Pos[t] < Pos[shardQ[s][i]]
  PROVE  /\ Busy(s)' => Pos'[t] < Pos'[worker'[s].task]
         /\ \A i \in 1..Len(shardQ'[s]) : Pos'[t] < Pos'[shardQ'[s][i]]
<1> USE DEF InFlight
<1>0. /\ shardQ[s] \in Seq(Tasks) /\ \A i \in 1..Len(shardQ[s]) : shardQ[s][i] \in Tasks
      /\ worker[s] \in [pc : {"recv", "find", "enqueue", "exit"}, task : Tasks \cup {None},
                        w : W \cup {None}]
      /\ Busy(s) => worker[s].task \in Tasks
  BY DEF TypeOK, QueueType, WorkerType, Filled
<1>1. /\ \A i \in 1..Len(shardQ[s]) : Pos'[shardQ[s][i]] = Pos[shardQ[s][i]]
      /\ Busy(s) => Pos'[worker[s].task] = Pos[worker[s].task]
      /\ Pos'[t] = Pos[t]
  BY <1>0, PosStep DEF ShardOrder, Pending
<1>2. CASE worker'[s] = worker[s] /\ shardQ'[s] = shardQ[s]
  BY <1>1, <1>2 DEF Busy
<1>3. ASSUME worker'[s] = worker[s], NEW u \in Tasks, Enters(u, s)
      PROVE  /\ Busy(s)' => Pos'[t] < Pos'[worker'[s].task]
             /\ \A i \in 1..Len(shardQ'[s]) : Pos'[t] < Pos'[shardQ'[s][i]]
  <2>1. Pos'[t] < Pos'[u]
    BY <1>1, <1>3, PosStep DEF Enters
  <2>2. shardQ'[s] = Append(shardQ[s], u)
    BY <1>3 DEF Enters
  <2>3. \A i \in 1..Len(shardQ'[s]) : \/ shardQ'[s][i] = u
                                      \/ i \in 1..Len(shardQ[s]) /\ shardQ'[s][i] = shardQ[s][i]
    BY <1>0, <2>2, AppendOf
  <2> QED BY <1>1, <1>3, <2>1, <2>3 DEF Busy
<1>4. CASE Gets(s)
  <2>1. worker'[s].task = Head(shardQ[s]) /\ shardQ'[s] = Tail(shardQ[s]) /\ shardQ[s] # <<>>
    BY <1>4 DEF Gets
  <2>2. /\ worker'[s].task = shardQ[s][1] /\ 1 \in 1..Len(shardQ[s])
        /\ \A i \in 1..Len(shardQ'[s]) : \E j \in 1..Len(shardQ[s]) : shardQ'[s][i] = shardQ[s][j]
    BY <1>0, <2>1, TailOf
  <2> QED BY SMTT(30), <1>1, <2>2
<1>5. CASE worker'[s] = [worker[s] EXCEPT !.pc = "exit"] /\ shardQ'[s] = shardQ[s]
  <2>1. ~Busy(s)'
    BY <1>0, <1>5 DEF Busy
  <2> QED BY <1>1, <1>5, <2>1
<1>6. CASE Finds(s) /\ shardQ'[s] = shardQ[s]
  <2>1. Busy(s) /\ worker'[s].task = worker[s].task
    BY <1>0, <1>6 DEF Finds, Busy
  <2> QED BY <1>1, <1>6, <2>1
<1>7. CASE Hands(s) /\ shardQ'[s] = shardQ[s]
  <2>1. ~Busy(s)'
    BY <1>7 DEF Hands, Idle, Busy
  <2> QED BY <1>1, <1>7, <2>1
<1> QED BY <1>2, <1>3, <1>4, <1>5, <1>6, <1>7, ShardFate

LEMMA PassedStep == TypeOK /\ Filled /\ InFlight /\ [Next]_vars => Passed'
<1> SUFFICES ASSUME TypeOK, Filled, InFlight, [Next]_vars,
                    NEW t \in Tasks, NEW w \in W, AtWriter(t, w)',
                    NEW s \in Shards, s = shardOf[connOf[t]]
             PROVE  /\ \A v \in W : AtWriter(t, v)' => v = w
                    /\ Busy(s)' => Pos'[t] < Pos'[worker'[s].task]
                    /\ \A i \in 1..Len(shardQ'[s]) : Pos'[t] < Pos'[shardQ'[s][i]]
  BY SendAssumption DEF Passed
<1> USE DEF InFlight
<1>0. /\ shardQ[s] \in Seq(Tasks) /\ \A i \in 1..Len(shardQ[s]) : shardQ[s][i] \in Tasks
      /\ worker[s] \in [pc : {"recv", "find", "enqueue", "exit"}, task : Tasks \cup {None},
                        w : W \cup {None}]
      /\ Busy(s) => worker[s].task \in Tasks
  BY DEF TypeOK, QueueType, WorkerType, Filled
<1>1. /\ \A i \in 1..Len(shardQ[s]) : Pos'[shardQ[s][i]] = Pos[shardQ[s][i]]
      /\ Busy(s) => Pos'[worker[s].task] = Pos[worker[s].task]
  BY <1>0, PosStep DEF ShardOrder, Pending
<1>2. \A v \in W : AtWriter(t, v) =>
         /\ \A x \in W : AtWriter(t, x) => x = v
         /\ Busy(s) => Pos[t] < Pos[worker[s].task]
         /\ \A i \in 1..Len(shardQ[s]) : Pos[t] < Pos[shardQ[s][i]]
  BY DEF Passed
<1>3. \A r \in Shards, v \in W : Queues(r, v) /\ t = worker[r].task =>
         /\ r = s /\ Busy(s) /\ v = worker[s].w /\ ~Busy(s)' /\ UNCHANGED shardQ
         /\ caller[t] = "ok"
  <2> SUFFICES ASSUME NEW r \in Shards, NEW v \in W, Queues(r, v), t = worker[r].task
               PROVE  /\ r = s /\ Busy(s) /\ v = worker[s].w /\ ~Busy(s)' /\ UNCHANGED shardQ
                      /\ caller[t] = "ok"
    OBVIOUS
  <2>1. /\ Busy(r) /\ shardOf[connOf[t]] = r /\ Pending(t) /\ ~Busy(r)' /\ UNCHANGED shardQ
        /\ v = worker[r].w
    BY HandOver DEF Queues
  <2> QED BY <2>1 DEF Pending
<1>4. \A v \in W : AtWriter(t, v) => caller[t] = "ok"
  BY DEF WriterOrder, Pending
<1>5. \A v \in W : AtWriter(t, v)' => \/ AtWriter(t, v)
                                      \/ \E r \in Shards : Queues(r, v) /\ t = worker[r].task
  BY HoldsFate
<1>6. caller[t] = "ok"
  BY <1>3, <1>4, <1>5
<1>7. Pos'[t] = Pos[t] /\ Pos[t] \in Nat
  BY <1>6, PosStep
<1>8. ASSUME NEW v \in W, AtWriter(t, v)' PROVE v = w
  <2>1. \A r \in Shards, x, y \in W : ~(Queues(r, x) /\ t = worker[r].task /\ AtWriter(t, y))
    BY <1>2, <1>3, <1>7
  <2> QED BY <1>2, <1>3, <1>5, <1>8, <2>1
<1>9. CASE \E r \in Shards : Queues(r, w) /\ t = worker[r].task
  <2>1. ~Busy(s)' /\ UNCHANGED shardQ /\ Busy(s) /\ t = worker[s].task
    BY <1>3, <1>9
  <2>2. \A i \in 1..Len(shardQ[s]) : Pos[t] < Pos[shardQ[s][i]]
    BY <2>1 DEF ShardOrder
  <2> QED BY <1>1, <1>7, <1>8, <2>1, <2>2
<1>10. CASE AtWriter(t, w)
  <2>0. /\ Busy(s) => Pos[t] < Pos[worker[s].task]
        /\ \A i \in 1..Len(shardQ[s]) : Pos[t] < Pos[shardQ[s][i]]
    BY <1>2, <1>10
  <2> QED BY <1>6, <1>8, <2>0, StaysBefore
<1> QED BY <1>5, <1>9, <1>10

\* What becomes of the bytes of one connection.
Appends(w, c, k) ==
  /\ Heads(w) \/ Ends(w)
  /\ Writing(w) /\ wr[w].conn = c /\ c \notin dead
  /\ wire'[c] = Append(wire[c], <<wr[w].task, k>>)
  /\ \/ WriteChunk(w) /\ k = wr[w].pc
     \/ WriteFails(w) /\ k = "cut"

LEMMA WireFate ==
  ASSUME TypeOK, Filled, [Next]_vars, NEW c \in Conns
  PROVE  \/ wire'[c] = wire[c] /\ \A w \in W : WriteChunk(w) => wr[w].conn # c \/ c \in dead
         \/ \E w \in W : \E k : Appends(w, c, k)
<1>1. ASSUME NEW w \in W, WriteChunk(w)
      PROVE  IF wr[w].conn = c /\ c \notin dead THEN \E k : Appends(w, c, k) ELSE wire'[c] = wire[c]
  <2>1. Writing(w) /\ wr[w].conn \in Conns /\ (Heads(w) \/ Ends(w))
    BY <1>1 DEF WriteChunk, Heads, Ends, Writing, Filled
  <2>2. wire' = IF wr[w].conn \in dead THEN wire
                ELSE [wire EXCEPT ![wr[w].conn] = Append(@, <<wr[w].task, wr[w].pc>>)]
    BY <1>1 DEF WriteChunk
  <2>3. CASE wr[w].conn = c /\ c \notin dead
    <3>1. wire'[c] = Append(wire[c], <<wr[w].task, wr[w].pc>>)
      BY <2>2, <2>3 DEF TypeOK, HistoryType
    <3>2. Appends(w, c, wr[w].pc)
      BY <1>1, <2>1, <2>3, <3>1 DEF Appends
    <3> QED BY <2>3, <3>2
  <2>4. CASE ~(wr[w].conn = c /\ c \notin dead)
    <3>1. wire'[c] = wire[c]
      BY <2>1, <2>2, <2>4 DEF TypeOK, HistoryType
    <3> QED BY <2>4, <3>1
  <2> QED BY <2>3, <2>4
<1>2. ASSUME NEW w \in W, WriteFails(w) PROVE wire'[c] = wire[c] \/ \E k : Appends(w, c, k)
  <2>1. Writing(w) /\ wr[w].conn \in Conns \ dead /\ Ends(w)
    BY <1>2 DEF WriteFails, Ends, Writing, Filled
  <2>2. UNCHANGED wire \/ wire' = [wire EXCEPT ![wr[w].conn] = Append(@, <<wr[w].task, "cut">>)]
    BY <1>2 DEF WriteFails
  <2>3. CASE wr[w].conn = c /\ wire' = [wire EXCEPT ![wr[w].conn] = Append(@, <<wr[w].task, "cut">>)]
    <3>1. wire'[c] = Append(wire[c], <<wr[w].task, "cut">>)
      BY <2>3 DEF TypeOK, HistoryType
    <3>2. Appends(w, c, "cut")
      BY <1>2, <2>1, <2>3, <3>1 DEF Appends
    <3> QED BY <3>2
  <2>4. CASE wr[w].conn # c \/ UNCHANGED wire
    BY <2>1, <2>2, <2>4 DEF TypeOK, HistoryType
  <2> QED BY <2>2, <2>3, <2>4
<1>3. UNCHANGED wire \/ \E w \in W : WriteChunk(w) \/ WriteFails(w)
  <2>1. ASSUME NEW u \in Tasks, Dispatch(u) \/ Accept(u) \/ Refused(u) \/ CtxEnds(u) PROVE UNCHANGED wire
    BY <2>1 DEF Dispatch, Accept, Refused, CtxEnds
  <2>2. ASSUME NEW s \in Shards, Receive(s) \/ GetOrCreateWriter(s) \/ Enqueue(s) PROVE UNCHANGED wire
    BY <2>2 DEF Receive, GetOrCreateWriter, Enqueue
  <2>3. ASSUME NEW w \in W, WriterReceive(w) PROVE UNCHANGED wire
    BY <2>3 DEF WriterReceive
  <2>4. ASSUME NEW d \in Conns, \/ RemoveBegins(d) \/ CloseConn(d) \/ StopWriter(d)
                                \/ DrainWriter(d) \/ CloseAfterHook(d) \/ Stall(d)
        PROVE  UNCHANGED wire
    BY <2>4 DEF RemoveBegins, CloseConn, StopWriter, DrainWriter, CloseAfterHook, Stall
  <2>5. CASE \/ Shutdown \/ ShutdownReturns \/ CloseShards \/ CloserLocks \/ CloserStops \/ CloserDone
             \/ UNCHANGED vars
    BY <2>5 DEF Shutdown, ShutdownReturns, CloseShards, CloserLocks, CloserStops, CloserDone, vars
  <2> QED BY <2>1, <2>2, <2>3, <2>4, <2>5 DEF Next, DispatcherNext
<1>4. ASSUME NEW w \in W, WriteChunk(w), NEW v \in W, WriteChunk(v) \/ WriteFails(v) PROVE v = w
  <2>0. wr \in [W -> [pc : {"unused", "recv", "header", "payload", "exit"}, conn : Conns \cup {None},
                      ch : Seq(Tasks), closed : BOOLEAN, task : Tasks \cup {None}]]
    BY DEF TypeOK, WriterType
  <2>1. wr'[v].pc # wr[v].pc
    <3>1. CASE WriteChunk(v)
      BY <2>0, <3>1 DEF WriteChunk
    <3>2. CASE WriteFails(v)
      BY <2>0, <3>2 DEF WriteFails, Writing
    <3> QED BY <1>4, <3>1, <3>2
  <2> QED BY <1>4, <2>0, <2>1 DEF WriteChunk
<1> QED BY <1>1, <1>2, <1>3, <1>4

\* One writer writes at a time.
LEMMA OneWrites ==
  ASSUME TypeOK, NEW v \in W, NEW w \in W, Heads(v) \/ Ends(v), Heads(w) \/ Ends(w)
  PROVE  v = w
<1>1. Heads(v) => wr' = [wr EXCEPT ![v].pc = "payload"] /\ wr[v].pc = "header"
  BY DEF Heads
<1>2. Ends(v) => wr' = [wr EXCEPT ![v].pc = "recv", ![v].task = None] /\ wr[v].pc # "recv"
  BY DEF Ends, Writing
<1>3. Heads(w) => wr' = [wr EXCEPT ![w].pc = "payload"]
  BY DEF Heads
<1>4. Ends(w) => wr' = [wr EXCEPT ![w].pc = "recv", ![w].task = None]
  BY DEF Ends
<1>5. wr'[v].pc # wr[v].pc
  BY <1>1, <1>2 DEF TypeOK, WriterType
<1> QED BY <1>3, <1>4, <1>5 DEF TypeOK, WriterType

LEMMA CalledStep == TypeOK /\ Filled /\ InFlight /\ [Next]_vars => Called'
<1> SUFFICES ASSUME TypeOK, Filled, InFlight, [Next]_vars, NEW t \in Tasks
             PROVE  /\ cbs'[t] # <<>> => caller'[t] = "ok" /\ Len(cbs'[t]) = 1
                    /\ cbs'[t] = <<"ok">> => \E k \in 1..Len(wire'[connOf[t]]) :
                                                wire'[connOf[t]][k] = <<t, "payload">>
  BY DEF Called
<1> DEFINE c == connOf[t]
<1>0. c \in Conns /\ wire[c] \in Seq(Tasks \X {"header", "payload", "cut"})
  BY SendAssumption DEF TypeOK, HistoryType
<1>1. caller[t] = "ok" => caller'[t] = "ok"
  BY AcceptFate
<1>2. \A k \in 1..Len(wire[c]) : k \in 1..Len(wire'[c]) /\ wire'[c][k] = wire[c][k]
  <2>1. wire'[c] = wire[c] \/ \E e : wire'[c] = Append(wire[c], e)
    BY <1>0, WireFate DEF Appends
  <2> QED BY <1>0, <2>1, AppendOf
<1>3. CASE cbs'[t] = cbs[t]
  BY <1>1, <1>2, <1>3 DEF InFlight, Called
<1>4. ASSUME NEW s \in Shards, Fails(s, t)
      PROVE  caller'[t] = "ok" /\ \E e \in {"errWriterClosed", "errEnqueueTimeout"} : cbs'[t] = <<e>>
  <2>1. caller[t] = "ok" /\ cbs[t] = <<>>
    BY <1>4 DEF Fails, Hands, Busy, InFlight, ShardOrder, Pending
  <2> QED BY <1>1, <1>4, <2>1 DEF Fails
<1>5. ASSUME NEW w \in W, Concludes(w, t)
      PROVE  /\ caller'[t] = "ok"
             /\ \/ cbs'[t] = <<"errWrite">>
                \/ cbs'[t] = <<"ok">> /\ \E k \in 1..Len(wire'[c]) : wire'[c][k] = <<t, "payload">>
  <2>1. Ends(w) /\ wr[w].task = t /\ Writing(w) /\ AtWriter(t, w)
    BY <1>5 DEF Concludes, Ends, AtWriter
  <2>2. caller[t] = "ok" /\ cbs[t] = <<>> /\ wr[w].conn = c
    BY <2>1 DEF InFlight, WriterOrder, Pending
  <2>3. CASE cbs'[t] = Append(cbs[t], "errWrite")
    BY <1>1, <2>2, <2>3
  <2>4. CASE /\ WriteChunk(w) /\ wr[w].conn \notin dead /\ wr[w].pc = "payload"
             /\ cbs'[t] = Append(cbs[t], "ok")
    <3>1. wire'[c] = Append(wire[c], <<t, "payload">>)
      BY <1>0, <2>1, <2>2, <2>4 DEF WriteChunk, TypeOK, HistoryType
    <3>2. Len(wire[c]) + 1 \in 1..Len(wire'[c]) /\ wire'[c][Len(wire[c]) + 1] = <<t, "payload">>
      BY <1>0, <3>1, AppendOf
    <3> QED BY <1>1, <2>2, <2>4, <3>2
  <2> QED BY <1>5, <2>3, <2>4 DEF Concludes
<1>6. \A e : Len(<<e>>) = 1 /\ (<<e>> = <<"ok">> => e = "ok")
  OBVIOUS
<1> QED BY <1>3, <1>4, <1>5, <1>6, CallFate

LEMMA InFlightStep == TypeOK /\ Filled /\ InFlight /\ [Next]_vars => InFlight'
BY OrderedStep, ShardOrderStep, WriterOrderStep, PassedStep, CalledStep DEF InFlight

LEMMA InitInFlight == Init => InFlight
<1> SUFFICES ASSUME Init PROVE InFlight
  OBVIOUS
<1>1. Ordered
  BY DEF Init, Ordered
<1>2. ShardOrder
  BY DEF Init, ShardOrder, Busy, Idle
<1>3. WriterOrder /\ Passed
  BY DEF Init, WriterOrder, Passed, AtWriter, Writing, Unused
<1>4. Called
  BY DEF Init, Called
<1> QED BY <1>1, <1>2, <1>3, <1>4 DEF InFlight

\* The dispatcher's state stays well formed: queues within their capacities,
\* every holder of a task, writer or connection holding a proper one.
THEOREM TypeCorrect == Spec => [](TypeOK /\ Filled)
<1>1. Init => TypeOK /\ Filled
  BY InitType
<1>2. TypeOK /\ Filled /\ [Next]_vars => (TypeOK /\ Filled)'
  BY TypeStep, FilledStep
<1> QED BY <1>1, <1>2, PTL DEF Spec

LEMMA TasksInFlight == Spec => [](TypeOK /\ Filled /\ InFlight)
<1>1. Init => TypeOK /\ Filled /\ InFlight
  BY InitType, InitInFlight
<1>2. TypeOK /\ Filled /\ InFlight /\ [Next]_vars => (TypeOK /\ Filled /\ InFlight)'
  BY TypeStep, FilledStep, InFlightStep
<1> QED BY <1>1, <1>2, PTL DEF Spec

\* However many shards, writers, removals, timeouts and shutdowns race, a task
\* is called back at most once, never after Dispatch refused it, and told "ok"
\* only when its payload is on the wire.
THEOREM CalledBackOnce == Spec => []CallbackOnce
<1>1. TypeOK /\ InFlight => CallbackOnce
  <2> SUFFICES ASSUME TypeOK, InFlight, NEW t \in Tasks
               PROVE  /\ Len(cbs[t]) <= 1
                      /\ cbs[t] # <<>> => caller[t] = "ok"
                      /\ cbs[t] = <<"ok">> => \E k \in 1..Len(wire[connOf[t]]) :
                                                 wire[connOf[t]][k] = <<t, "payload">>
    BY DEF CallbackOnce
  <2>1. cbs[t] = <<>> => Len(cbs[t]) = 0
    OBVIOUS
  <2>2. /\ cbs[t] # <<>> => caller[t] = "ok" /\ Len(cbs[t]) = 1
        /\ cbs[t] = <<"ok">> => \E k \in 1..Len(wire[connOf[t]]) :
                                   wire[connOf[t]][k] = <<t, "payload">>
    BY DEF InFlight, Called
  <2>3. Len(cbs[t]) = 0 \/ Len(cbs[t]) = 1
    BY <2>1, <2>2
  <2>4. Len(cbs[t]) <= 1
    <3>1. CASE Len(cbs[t]) = 0
      BY <3>1
    <3>2. CASE Len(cbs[t]) = 1
      BY <3>2
    <3> QED BY <2>3, <3>1, <3>2
  <2>5. cbs[t] # <<>> => caller[t] = "ok"
    BY <2>2
  <2> QED BY <2>2, <2>4, <2>5, Zenon
<1> QED BY <1>1, TasksInFlight, PTL

-----------------------------------------------------------------------------
(* No accepted task is lost *)

\* A task that is being concluded was called back.
LEMMA Concluded ==
  ASSUME TypeOK, Filled, [Next]_vars, NEW t \in Tasks, cbs'[t] = <<>>
  PROVE  /\ cbs[t] = <<>>
         /\ \A s \in Shards : Hands(s) /\ worker[s].task = t => \E w \in W : Queues(s, w)
         /\ \A w \in W : Ends(w) => wr[w].task # t
<1>0. HistoryType /\ cbs[t] \in Seq({"ok", "errWriterClosed", "errEnqueueTimeout", "errWrite"})
  BY DEF TypeOK, HistoryType
<1>1. \A e : Append(cbs[t], e) # <<>>
  BY <1>0
<1>2. cbs'[t] = cbs[t]
  BY <1>1, CallFate DEF Fails, Concludes
<1>3. ASSUME NEW e, Call(t, e) PROVE FALSE
  BY <1>0, <1>1, <1>3 DEF Call, HistoryType
<1>4. ASSUME NEW s \in Shards, Hands(s), worker[s].task = t PROVE \E w \in W : Queues(s, w)
  <2>1. Enqueue(s) /\ worker[s].w \in W
    BY <1>4 DEF Hands, Filled, Serves
  <2>2. ~EnqueueFails(s)
    BY <1>3, <1>4 DEF EnqueueFails
  <2>3. /\ ~wr[worker[s].w].closed /\ UNCHANGED cbs
        /\ wr' = [wr EXCEPT ![worker[s].w].ch = Append(@, worker[s].task)]
    BY <2>1, <2>2 DEF Enqueue
  <2> QED BY <2>1, <2>3 DEF Queues
<1>5. ASSUME NEW w \in W, Ends(w), wr[w].task = t PROVE FALSE
  <2>1. WriteFails(w) \/ (WriteChunk(w) /\ ~(wr[w].pc = "header" /\ wr[w].conn \notin dead))
    BY <1>5 DEF Ends
  <2>2. \E e : Call(t, e)
    BY <1>5, <2>1 DEF WriteChunk, WriteFails
  <2> QED BY <1>3, <2>2
<1> QED BY <1>2, <1>4, <1>5

\* A task leaves the shard's queue for its worker, and that for a writer.
LEMMA HeldInShard ==
  ASSUME TypeOK, Filled, [Next]_vars, NEW t \in Tasks, cbs'[t] = <<>>,
         NEW s \in Shards, s = shardOf[connOf[t]],
         (\E i \in 1..Len(shardQ[s]) : shardQ[s][i] = t) \/ (Busy(s) /\ worker[s].task = t)
  PROVE  HeldBy(t)'
<1>0. /\ shardQ[s] \in Seq(Tasks) /\ Len(shardQ[s]) \in Nat
      /\ worker[s] \in [pc : {"recv", "find", "enqueue", "exit"}, task : Tasks \cup {None},
                        w : W \cup {None}]
  BY DEF TypeOK, QueueType, WorkerType
<1>1. \/ \E i \in 1..Len(shardQ'[s]) : shardQ'[s][i] = t
      \/ Busy(s)' /\ worker'[s].task = t
      \/ \E w \in W : AtWriter(t, w)'
  <2>1. CASE \E i \in 1..Len(shardQ[s]) : shardQ[s][i] = t
    <3>1. PICK i \in 1..Len(shardQ[s]) : shardQ[s][i] = t
      BY <2>1
    <3>2. CASE shardQ'[s] = shardQ[s]
      BY <3>1, <3>2
    <3>3. ASSUME NEW u \in Tasks, Enters(u, s) PROVE \E j \in 1..Len(shardQ'[s]) : shardQ'[s][j] = t
      <4>1. shardQ'[s] = Append(shardQ[s], u)
        BY <3>3 DEF Enters
      <4>2. Len(shardQ'[s]) = Len(shardQ[s]) + 1 /\ shardQ'[s][i] = t
        BY <1>0, <3>1, <4>1, AppendOf
      <4>3. i \in 1..Len(shardQ'[s])
        BY <1>0, <4>2
      <4> QED BY <4>2, <4>3
    <3>4. ASSUME Gets(s) PROVE \/ \E j \in 1..Len(shardQ'[s]) : shardQ'[s][j] = t
                               \/ Busy(s)' /\ worker'[s].task = t
      <4>1. /\ shardQ[s] # <<>> /\ shardQ'[s] = Tail(shardQ[s])
            /\ worker'[s] = [pc |-> "find", task |-> Head(shardQ[s]), w |-> None]
        BY <3>4 DEF Gets
      <4>2. Head(shardQ[s]) = shardQ[s][1] /\ Len(Tail(shardQ[s])) = Len(shardQ[s]) - 1
        BY <1>0, <4>1, TailOf
      <4>3. CASE i = 1
        BY <3>1, <4>1, <4>2, <4>3 DEF Busy
      <4>4. CASE i # 1
        <5>1. i - 1 \in 1..Len(shardQ'[s]) /\ (i - 1) + 1 = i
          BY <1>0, <4>1, <4>2, <4>4
        <5>2. \A k \in 1..Len(Tail(shardQ[s])) : Tail(shardQ[s])[k] = shardQ[s][k + 1]
          BY <1>0, <4>1
        <5>3. shardQ'[s][i - 1] = t
          BY <3>1, <4>1, <5>1, <5>2
        <5> QED BY <5>1, <5>3
      <4> QED BY <4>3, <4>4
    <3> QED BY <3>2, <3>3, <3>4, ShardFate
  <2>2. CASE Busy(s) /\ worker[s].task = t
    <3>1. CASE worker'[s] = worker[s]
      BY <2>2, <3>1 DEF Busy
    <3>2. CASE Gets(s) \/ Leaves(s)
      BY <2>2, <3>2 DEF Gets, Leaves, Busy
    <3>3. CASE Finds(s)
      BY <1>0, <2>2, <3>3 DEF Finds, Busy
    <3>4. CASE Hands(s)
      <4>1. PICK w \in W : Queues(s, w)
        BY <2>2, <3>4, Concluded
      <4>2. wr[w] \in [pc : {"unused", "recv", "header", "payload", "exit"}, conn : Conns \cup {None},
                       ch : Seq(Tasks), closed : BOOLEAN, task : Tasks \cup {None}]
        BY DEF TypeOK, WriterType
      <4>3. wr'[w] = [wr[w] EXCEPT !.ch = Append(@, t)]
        BY <2>2, <4>1 DEF Queues, TypeOK, WriterType
      <4>4. wr'[w].ch = Append(wr[w].ch, t) /\ wr[w].ch \in Seq(Tasks)
        BY <4>2, <4>3
      <4>5. Len(wr[w].ch) + 1 \in 1..Len(wr'[w].ch) /\ wr'[w].ch[Len(wr[w].ch) + 1] = t
        BY <4>4, AppendOf
      <4> QED BY <4>5 DEF AtWriter
    <3> QED BY <3>1, <3>2, <3>3, <3>4, ShardFate
  <2> QED BY <2>1, <2>2
<1> QED BY <1>1 DEF HeldBy

\* A writer keeps a task until it has called it back.
LEMMA HeldAtWriter ==
  ASSUME TypeOK, Filled, [Next]_vars, NEW t \in Tasks, cbs'[t] = <<>>, NEW w \in W, AtWriter(t, w)
  PROVE  AtWriter(t, w)'
<1>0. /\ wr[w] \in [pc : {"unused", "recv", "header", "payload", "exit"}, conn : Conns \cup {None},
                    ch : Seq(Tasks), closed : BOOLEAN, task : Tasks \cup {None}]
      /\ wr[w].ch \in Seq(Tasks) /\ Len(wr[w].ch) \in Nat
  BY DEF TypeOK, WriterType
<1>1. \/ wr[w].pc \in {"header", "payload"} /\ wr[w].task = t
      \/ \E i \in 1..Len(wr[w].ch) : wr[w].ch[i] = t
  BY DEF AtWriter, Writing
<1> SUFFICES \/ wr'[w].pc \in {"header", "payload"} /\ wr'[w].task = t
             \/ \E i \in 1..Len(wr'[w].ch) : wr'[w].ch[i] = t
  BY DEF AtWriter, Writing
<1>2. CASE wr'[w] = wr[w]
  BY <1>1, <1>2
<1>3. ASSUME NEW s \in Shards, Makes(s, w) PROVE FALSE
  <2>1. wr[w].pc = "unused" /\ wr[w].ch = <<>>
    BY <1>3 DEF Makes, Fresh, Filled
  <2> QED BY <1>1, <2>1
<1>4. ASSUME NEW s \in Shards, wr'[w] = [wr[w] EXCEPT !.ch = Append(@, worker[s].task)]
      PROVE  \/ wr'[w].pc \in {"header", "payload"} /\ wr'[w].task = t
             \/ \E i \in 1..Len(wr'[w].ch) : wr'[w].ch[i] = t
  <2>1. wr'[w].pc = wr[w].pc /\ wr'[w].task = wr[w].task /\ wr'[w].ch = Append(wr[w].ch, worker[s].task)
    BY <1>0, <1>4
  <2>2. Len(wr'[w].ch) = Len(wr[w].ch) + 1 /\ \A i \in 1..Len(wr[w].ch) : wr'[w].ch[i] = wr[w].ch[i]
    BY <1>0, <2>1, AppendOf
  <2>3. \A i \in 1..Len(wr[w].ch) : i \in 1..Len(wr'[w].ch)
    BY <1>0, <2>2
  <2> QED BY <1>1, <2>1, <2>2, <2>3
<1>5. ASSUME Takes(w), wr'[w] = [wr[w] EXCEPT !.pc = "header", !.ch = Tail(@), !.task = Head(wr[w].ch)]
      PROVE  \/ wr'[w].pc \in {"header", "payload"} /\ wr'[w].task = t
             \/ \E i \in 1..Len(wr'[w].ch) : wr'[w].ch[i] = t
  <2>1. wr[w].pc = "recv" /\ wr[w].ch # <<>>
    BY <1>5 DEF Takes
  <2>2. wr'[w].pc = "header" /\ wr'[w].ch = Tail(wr[w].ch) /\ wr'[w].task = Head(wr[w].ch)
    BY <1>0, <1>5
  <2>3. Head(wr[w].ch) = wr[w].ch[1] /\ Len(Tail(wr[w].ch)) = Len(wr[w].ch) - 1
    BY <1>0, <2>1, TailOf
  <2>4. PICK i \in 1..Len(wr[w].ch) : wr[w].ch[i] = t
    BY <1>1, <2>1
  <2>5. CASE i = 1
    BY <2>2, <2>3, <2>4, <2>5
  <2>6. CASE i # 1
    <3>1. i - 1 \in 1..Len(wr'[w].ch) /\ (i - 1) + 1 = i
      BY <1>0, <2>2, <2>3, <2>6
    <3>2. \A k \in 1..Len(Tail(wr[w].ch)) : Tail(wr[w].ch)[k] = wr[w].ch[k + 1]
      BY <1>0, <2>1
    <3>3. wr'[w].ch[i - 1] = t
      BY <2>2, <2>4, <3>1, <3>2
    <3> QED BY <3>1, <3>3
  <2> QED BY <2>5, <2>6
<1>6. ASSUME Exits(w) PROVE FALSE
  BY <1>1, <1>6 DEF Exits
<1>7. ASSUME Heads(w), wr'[w] = [wr[w] EXCEPT !.pc = "payload"]
      PROVE  \/ wr'[w].pc \in {"header", "payload"} /\ wr'[w].task = t
             \/ \E i \in 1..Len(wr'[w].ch) : wr'[w].ch[i] = t
  <2>1. wr'[w].pc = "payload" /\ wr'[w].task = wr[w].task /\ wr'[w].ch = wr[w].ch
    BY <1>0, <1>7
  <2> QED BY <1>1, <2>1
<1>8. ASSUME Ends(w), wr'[w] = [wr[w] EXCEPT !.pc = "recv", !.task = None]
      PROVE  \E i \in 1..Len(wr'[w].ch) : wr'[w].ch[i] = t
  <2>1. wr'[w].ch = wr[w].ch
    BY <1>0, <1>8
  <2>2. wr[w].task # t
    BY <1>8, Concluded
  <2> QED BY <1>1, <2>1, <2>2
<1>9. ASSUME wr'[w] = [wr[w] EXCEPT !.closed = TRUE]
      PROVE  \/ wr'[w].pc \in {"header", "payload"} /\ wr'[w].task = t
             \/ \E i \in 1..Len(wr'[w].ch) : wr'[w].ch[i] = t
  <2>1. wr'[w].pc = wr[w].pc /\ wr'[w].task = wr[w].task /\ wr'[w].ch = wr[w].ch
    BY <1>0, <1>9
  <2> QED BY <1>1, <2>1
<1> QED BY <1>2, <1>3, <1>4, <1>5, <1>6, <1>7, <1>8, <1>9, WriterFate

LEMMA HeldStep == TypeOK /\ Filled /\ Held /\ [Next]_vars => Held'
<1> SUFFICES ASSUME TypeOK, Filled, Held, [Next]_vars, NEW t \in Tasks, Pending(t)' PROVE HeldBy(t)'
  BY DEF Held
<1>1. caller'[t] = "ok" /\ cbs'[t] = <<>>
  BY DEF Pending
<1>2. cbs[t] = <<>>
  BY <1>1, Concluded
<1>3. PICK s \in Shards : s = shardOf[connOf[t]]
  BY SendAssumption
<1>4. CASE caller[t] = "ok"
  <2>1. HeldBy(t)
    BY <1>2, <1>4 DEF Held, Pending
  <2>2. CASE (\E i \in 1..Len(shardQ[s]) : shardQ[s][i] = t) \/ (Busy(s) /\ worker[s].task = t)
    BY <1>1, <1>3, <2>2, HeldInShard
  <2>3. CASE \E w \in W : AtWriter(t, w)
    <3>1. \E w \in W : AtWriter(t, w)'
      BY <1>1, <2>3, HeldAtWriter
    <3> QED BY <3>1 DEF HeldBy
  <2> QED BY <1>3, <2>1, <2>2, <2>3 DEF HeldBy
<1>5. CASE caller[t] # "ok"
  <2>1. Accept(t)
    BY <1>1, <1>5, AcceptFate
  <2>2. shardQ[s] \in Seq(Tasks) /\ shardQ'[s] = Append(shardQ[s], t)
    BY <1>3, <2>1 DEF Accept, TypeOK, QueueType
  <2>3. Len(shardQ[s]) + 1 \in 1..Len(shardQ'[s]) /\ shardQ'[s][Len(shardQ[s]) + 1] = t
    BY <2>2, AppendOf
  <2> QED BY <1>3, <2>3 DEF HeldBy
<1> QED BY <1>4, <1>5

\* The shards, once closed, stay closed.
LEMMA ClosedStays == [Next]_vars => (shardClosed => shardClosed')
<1> SUFFICES ASSUME [Next]_vars, shardClosed PROVE shardClosed'
  OBVIOUS
<1>1. ASSUME NEW t \in Tasks, Dispatch(t) \/ Accept(t) \/ Refused(t) \/ CtxEnds(t) PROVE shardClosed'
  BY <1>1 DEF Dispatch, Accept, Refused, CtxEnds
<1>2. ASSUME NEW s \in Shards, Receive(s) \/ GetOrCreateWriter(s) \/ Enqueue(s) PROVE shardClosed'
  BY <1>2 DEF Receive, GetOrCreateWriter, Enqueue, disp
<1>3. ASSUME NEW w \in W, WriterReceive(w) \/ WriteChunk(w) \/ WriteFails(w) PROVE shardClosed'
  BY <1>3 DEF WriterReceive, WriteChunk, WriteFails, disp
<1>4. ASSUME NEW c \in Conns, \/ RemoveBegins(c) \/ CloseConn(c) \/ StopWriter(c)
                              \/ DrainWriter(c) \/ CloseAfterHook(c) \/ Stall(c)
      PROVE  shardClosed'
  BY <1>4 DEF RemoveBegins, CloseConn, StopWriter, DrainWriter, CloseAfterHook, Stall, disp
<1>5. CASE \/ Shutdown \/ ShutdownReturns \/ CloseShards \/ CloserLocks \/ CloserStops \/ CloserDone
           \/ UNCHANGED vars
  BY <1>5 DEF Shutdown, ShutdownReturns, CloseShards, CloserLocks, CloserStops, CloserDone, vars, disp
<1> QED BY <1>1, <1>2, <1>3, <1>4, <1>5 DEF Next, DispatcherNext

LEMMA DrainsStep == TypeOK /\ Filled /\ Drains /\ [Next]_vars => Drains'
<1> SUFFICES ASSUME TypeOK, Filled, Drains, [Next]_vars PROVE Drains'
  OBVIOUS
<1>1. ASSUME NEW s \in Shards, worker'[s].pc = "exit" PROVE shardClosed' /\ shardQ'[s] = <<>>
  <2>0. worker[s] \in [pc : {"recv", "find", "enqueue", "exit"}, task : Tasks \cup {None},
                       w : W \cup {None}]
    BY DEF TypeOK, WorkerType
  <2>1. CASE worker'[s] = worker[s] /\ shardQ'[s] = shardQ[s]
    BY <1>1, <2>1, ClosedStays DEF Drains
  <2>2. CASE worker'[s] = worker[s] /\ \E t \in Tasks : Enters(t, s)
    BY <1>1, <2>2 DEF Drains, Enters, Accept
  <2>3. CASE shardQ'[s] = shardQ[s] /\ Leaves(s)
    BY <2>3, ClosedStays DEF Leaves
  <2>4. CASE Gets(s)
    <3>1. worker'[s] = [pc |-> "find", task |-> Head(shardQ[s]), w |-> None]
      BY <2>4 DEF Gets
    <3> QED BY <1>1, <3>1
  <2>5. CASE Finds(s)
    <3>1. worker'[s] = [worker[s] EXCEPT !.pc = "enqueue", !.w = writers'[connOf[worker[s].task]]]
      BY <2>5 DEF Finds
    <3> QED BY <1>1, <2>0, <3>1
  <2>6. CASE Hands(s)
    <3>1. worker'[s] = Idle
      BY <2>6 DEF Hands
    <3> QED BY <1>1, <3>1 DEF Idle
  <2> QED BY <2>1, <2>2, <2>3, <2>4, <2>5, <2>6, ShardFate
<1>2. ASSUME NEW w \in W, wr'[w].pc = "exit" PROVE wr'[w].closed /\ wr'[w].ch = <<>>
  <2>0. wr[w] \in [pc : {"unused", "recv", "header", "payload", "exit"}, conn : Conns \cup {None},
                   ch : Seq(Tasks), closed : BOOLEAN, task : Tasks \cup {None}]
    BY DEF TypeOK, WriterType
  <2>1. CASE wr'[w] = wr[w]
    BY <1>2, <2>1 DEF Drains
  <2>2. ASSUME NEW s \in Shards, wr'[w] = NewWriter(connOf[worker[s].task]) PROVE FALSE
    BY <1>2, <2>2 DEF NewWriter
  <2>3. ASSUME NEW s \in Shards, Queues(s, w), wr'[w] = [wr[w] EXCEPT !.ch = Append(@, worker[s].task)]
        PROVE  FALSE
    <3>1. wr[w].pc = "exit" /\ ~wr[w].closed
      BY <1>2, <2>0, <2>3 DEF Queues
    <3> QED BY <3>1 DEF Drains
  <2>4. CASE Exits(w) /\ wr'[w] = [wr[w] EXCEPT !.pc = "exit"]
    BY <2>0, <2>4 DEF Exits
  <2>5. CASE \/ wr'[w] = [wr[w] EXCEPT !.pc = "header", !.ch = Tail(@), !.task = Head(wr[w].ch)]
             \/ wr'[w] = [wr[w] EXCEPT !.pc = "payload"]
             \/ wr'[w] = [wr[w] EXCEPT !.pc = "recv", !.task = None]
    BY <1>2, <2>0, <2>5
  <2>6. CASE wr'[w] = [wr[w] EXCEPT !.closed = TRUE]
    BY <1>2, <2>0, <2>6 DEF Drains
  <2> QED BY <2>1, <2>2, <2>3, <2>4, <2>5, <2>6, WriterFate
<1> QED BY <1>1, <1>2 DEF Drains

\* An accepted task whose callback has not run is in its shard's queue, with the
\* worker of its shard or with a writer, and no worker or writer ends with a task
\* before it: neither CloseConn, nor the end of d.ctx, nor a timeout loses one.
THEOREM NoTaskLost == Spec => []NoneLost
<1> DEFINE Inv == TypeOK /\ Filled /\ Held /\ Drains
<1>1. Init => Inv
  <2> SUFFICES ASSUME Init PROVE Held /\ Drains
    BY InitType
  <2>1. Held
    BY DEF Init, Held, Pending
  <2>2. Drains
    BY DEF Init, Drains, Idle, Unused
  <2> QED BY <2>1, <2>2
<1>2. Inv /\ [Next]_vars => Inv'
  BY TypeStep, FilledStep, HeldStep, DrainsStep
<1>3. Inv => NoneLost
  BY DEF NoneLost
<1> HIDE DEF Inv
<1> QED BY <1>1, <1>2, <1>3, PTL DEF Spec

-----------------------------------------------------------------------------
(* The bytes on the wire of a connection that was not removed *)

\* Its writers are gone, but for the one in the map; what is gone is closed,
\* empty and will take no task.
OneWriter ==
  /\ \A w \in W : wr[w].pc = "exit" => wr[w].closed /\ wr[w].ch = <<>>
  /\ \A c \in Conns : Unremoved(c) =>
        \A w \in W : wr[w].pc \notin {"unused", "exit"} /\ wr[w].conn = c => writers[c] = w

\* What is on the wire was accepted, and before all that is still to be written.
WireOrder ==
  \A c \in Conns : \A k \in 1..Len(wire[c]) :
    LET t == wire[c][k][1]
        s == shardOf[c] IN
    /\ caller[t] = "ok" /\ connOf[t] = c
    /\ Busy(s) => Pos[t] < Pos[worker[s].task]
    /\ \A i \in 1..Len(shardQ[s]) : Pos[t] < Pos[shardQ[s][i]]
    /\ Unremoved(c) =>
         \A w \in W : wr[w].conn = c =>
            /\ Writing(w) => Pos[t] <= Pos[wr[w].task]
            /\ \A i \in 1..Len(wr[w].ch) : Pos[t] < Pos[wr[w].ch[i]]

\* The last chunk of a live pipe is a payload, or of a frame of which a write
\* failed, or the header of the frame that the writer is in the middle of.
TipAt(c, n) ==
  /\ \A w \in W : wr[w].conn = c /\ wr[w].pc = "payload" =>
        n > 0 /\ wire[c][n] = <<wr[w].task, "header">>
  /\ \/ n = 0 \/ c \in dead \/ wire[c][n][2] = "payload"
     \/ cbs[wire[c][n][1]] = <<"errWrite">>
     \/ \E w \in W : wr[w].conn = c /\ wr[w].pc = "payload"

Tip == \A c \in Conns : Unremoved(c) => TipAt(c, Len(wire[c]))

InOrder ==
  \A c \in Conns : Unremoved(c) =>
    /\ Contiguous(c)
    /\ \A i, j \in 1..Len(wire[c]) : i < j => Pos[wire[c][i][1]] <= Pos[wire[c][j][1]]

OnTheWire == OneWriter /\ WireOrder /\ Tip /\ InOrder

LEMMA OneWriterStep == TypeOK /\ Filled /\ OneWriter /\ [Next]_vars => OneWriter'
<1> SUFFICES ASSUME TypeOK, Filled, OneWriter, [Next]_vars PROVE OneWriter'
  OBVIOUS
<1>1. ASSUME NEW w \in W
      PROVE  /\ wr'[w].pc = "exit" => wr'[w].closed /\ wr'[w].ch = <<>>
             /\ wr[w].pc = "exit" => wr'[w].pc = "exit"
             /\ \/ wr[w].pc = "unused" /\ wr'[w].pc = "unused"
                \/ wr[w].pc # "unused" /\ wr'[w].conn = wr[w].conn
                \/ \E s \in Shards : Makes(s, w) /\ wr'[w] = NewWriter(connOf[worker[s].task])
  <2>0. wr[w] \in [pc : {"unused", "recv", "header", "payload", "exit"}, conn : Conns \cup {None},
                   ch : Seq(Tasks), closed : BOOLEAN, task : Tasks \cup {None}]
    BY DEF TypeOK, WriterType
  <2>1. wr[w].pc = "exit" => wr[w].closed /\ wr[w].ch = <<>>
    BY DEF OneWriter
  <2>2. CASE wr'[w] = wr[w]
    BY <2>1, <2>2
  <2>3. CASE \E s \in Shards : Makes(s, w) /\ wr'[w] = NewWriter(connOf[worker[s].task])
    <3>1. wr[w].pc = "unused"
      BY <2>3 DEF Makes, Fresh
    <3>2. wr'[w].pc = "recv"
      BY <2>3 DEF NewWriter
    <3> QED BY <2>3, <3>1, <3>2
  <2>4. CASE \E s \in Shards : Queues(s, w) /\ wr'[w] = [wr[w] EXCEPT !.ch = Append(@, worker[s].task)]
    <3>1. wr[w].pc # "exit" /\ wr[w].pc # "unused"
      <4>1. PICK s \in Shards : worker[s].pc = "enqueue" /\ w = worker[s].w /\ ~wr[w].closed
        BY <2>4 DEF Queues, Enqueue
      <4>2. Serves(w, connOf[worker[s].task])
        BY <4>1 DEF Filled
      <4> QED BY <2>1, <4>1, <4>2 DEF Serves
    <3> QED BY <2>0, <2>4, <3>1
  <2>5. CASE Takes(w) /\ wr'[w] = [wr[w] EXCEPT !.pc = "header", !.ch = Tail(@), !.task = Head(wr[w].ch)]
    <3>1. wr[w].pc = "recv"
      BY <2>5 DEF Takes
    <3>2. wr'[w].pc = "header" /\ wr'[w].conn = wr[w].conn
      BY <2>0, <2>5
    <3> QED BY <3>1, <3>2
  <2>6. CASE Exits(w) /\ wr'[w] = [wr[w] EXCEPT !.pc = "exit"]
    BY <2>0, <2>6 DEF Exits
  <2>7. CASE Heads(w) /\ wr'[w] = [wr[w] EXCEPT !.pc = "payload"]
    BY <2>0, <2>7 DEF Heads
  <2>8. CASE Ends(w) /\ wr'[w] = [wr[w] EXCEPT !.pc = "recv", !.task = None]
    <3>1. wr[w].pc \in {"header", "payload"}
      BY <2>8 DEF Ends, Writing
    <3>2. wr'[w].pc = "recv" /\ wr'[w].conn = wr[w].conn
      BY <2>0, <2>8
    <3> QED BY <3>1, <3>2
  <2>9. CASE Stops(w) /\ wr'[w] = [wr[w] EXCEPT !.closed = TRUE]
    BY <2>0, <2>1, <2>9 DEF Stops
  <2> QED BY <2>2, <2>3, <2>4, <2>5, <2>6, <2>7, <2>8, <2>9, WriterFate
<1>2. ASSUME NEW c \in Conns, Unremoved(c)', NEW w \in W,
             wr'[w].pc \notin {"unused", "exit"}, wr'[w].conn = c
      PROVE  writers'[c] = w
  <2>1. ASSUME NEW s \in Shards, Makes(s, w), wr'[w] = NewWriter(connOf[worker[s].task])
        PROVE  writers'[c] = w
    <3>1. connOf[worker[s].task] = c
      BY <1>2, <2>1 DEF NewWriter
    <3> QED BY <2>1, <3>1 DEF Makes, TypeOK, StopType
  <2>2. CASE wr[w].pc # "unused" /\ wr'[w].conn = wr[w].conn
    <3>1. Unremoved(c)
      BY <1>2, MapFate
    <3>2. wr[w].pc # "exit"
      BY <1>1, <1>2
    <3>3. writers[c] = w /\ w # None
      BY <1>2, <2>2, <3>1, <3>2, SendAssumption DEF OneWriter, W
    <3>4. \A s \in Shards, x \in W : ~(Makes(s, x) /\ connOf[worker[s].task] = c)
      BY <3>3 DEF Makes
    <3>5. CASE CloserDone
      <4>1. w \in InMap
        BY <3>3 DEF InMap
      <4> QED BY <3>2, <3>5, <4>1 DEF CloserDone, Drained
    <3>6. writers'[c] = None => writers[c] = None \/ CloserDone
      BY <1>2, MapFate
    <3>7. \/ writers'[c] = writers[c] \/ writers'[c] = None
          \/ \E s \in Shards : \E x \in W :
                Makes(s, x) /\ connOf[worker[s].task] = c /\ writers'[c] = x
      BY MapFate
    <3> QED BY <3>3, <3>4, <3>5, <3>6, <3>7
  <2> QED BY <1>1, <1>2, <2>1, <2>2
<1> QED BY <1>1, <1>2 DEF OneWriter

\* Another writer of a connection that one is writing to has nothing to write.
LEMMA OthersGone ==
  ASSUME TypeOK, Filled, OneWriter, NEW c \in Conns, Unremoved(c),
         NEW v \in W, Writing(v), wr[v].conn = c, NEW w \in W, wr[w].conn = c, w # v
  PROVE  ~Writing(w) /\ wr[w].ch = <<>>
<1>1. writers[c] = v
  BY DEF OneWriter, Writing
<1>2. wr[w].pc \in {"unused", "exit"}
  BY <1>1 DEF OneWriter
<1> QED BY <1>2 DEF OneWriter, Writing, Filled

LEMMA WireOrderStep ==
  TypeOK /\ Filled /\ InFlight /\ OnTheWire /\ [Next]_vars => WireOrder'
<1> SUFFICES ASSUME TypeOK, Filled, InFlight, OnTheWire, [Next]_vars,
                    NEW c \in Conns, NEW k \in 1..Len(wire'[c]),
                    NEW t, t = wire'[c][k][1], NEW s \in Shards, s = shardOf[c]
             PROVE  /\ caller'[t] = "ok" /\ connOf[t] = c
                    /\ Busy(s)' => Pos'[t] < Pos'[worker'[s].task]
                    /\ \A i \in 1..Len(shardQ'[s]) : Pos'[t] < Pos'[shardQ'[s][i]]
                    /\ Unremoved(c)' =>
                         \A w \in W : wr'[w].conn = c =>
                            /\ Writing(w)' => Pos'[t] <= Pos'[wr'[w].task]
                            /\ \A i \in 1..Len(wr'[w].ch) : Pos'[t] < Pos'[wr'[w].ch[i]]
  BY SendAssumption DEF WireOrder
<1> USE DEF InFlight, OnTheWire
<1>0. wire[c] \in Seq(Tasks \X {"header", "payload", "cut"}) /\ Len(wire[c]) \in Nat
  BY DEF TypeOK, HistoryType
<1> DEFINE Old == k \in 1..Len(wire[c]) /\ t = wire[c][k][1] /\ t \in Tasks
<1> DEFINE New(v) == (\E e : Appends(v, c, e)) /\ t = wr[v].task /\ t \in Tasks
<1>1. Old \/ \E v \in W : New(v)
  <2>0. \A i \in 1..Len(wire[c]) : wire[c][i][1] \in Tasks
    BY <1>0
  <2>1. CASE wire'[c] = wire[c]
    BY <2>0, <2>1
  <2>2. ASSUME NEW v \in W, NEW e, Appends(v, c, e) PROVE Old \/ New(v)
    <3>1. wire'[c] = Append(wire[c], <<wr[v].task, e>>) /\ wr[v].task \in Tasks
      BY <2>2 DEF Appends, Filled
    <3>2. \/ k \in 1..Len(wire[c]) /\ wire'[c][k] = wire[c][k]
          \/ wire'[c][k] = <<wr[v].task, e>>
      BY <1>0, <3>1, AppendOf
    <3> QED BY <2>0, <2>2, <3>1, <3>2
  <2> QED BY <2>1, <2>2, WireFate
<1>2. t \in Tasks /\ caller[t] = "ok" /\ connOf[t] = c
  <2>1. Old => caller[t] = "ok" /\ connOf[t] = c
    BY DEF WireOrder
  <2>2. ASSUME NEW v \in W, New(v) PROVE caller[t] = "ok" /\ connOf[t] = c
    BY <2>2 DEF Appends, AtWriter, WriterOrder, Pending
  <2> QED BY <1>1, <2>1, <2>2
<1>3. /\ Busy(s) => Pos[t] < Pos[worker[s].task]
      /\ \A i \in 1..Len(shardQ[s]) : Pos[t] < Pos[shardQ[s][i]]
  <2>1. CASE Old
    BY <2>1 DEF WireOrder
  <2>2. ASSUME NEW v \in W, New(v)
        PROVE  /\ Busy(s) => Pos[t] < Pos[worker[s].task]
               /\ \A i \in 1..Len(shardQ[s]) : Pos[t] < Pos[shardQ[s][i]]
    BY SMTT(60), <1>2, <2>2 DEF Appends, AtWriter, Passed
  <2> QED BY <1>1, <2>1, <2>2
<1>4. Pos'[t] = Pos[t] /\ Pos[t] \in Nat /\ caller'[t] = "ok"
  BY <1>2, PosStep, AcceptFate
<1>5. ASSUME Unremoved(c)', NEW w \in W, wr'[w].conn = c
      PROVE  /\ Writing(w)' => Pos'[t] <= Pos'[wr'[w].task]
             /\ \A i \in 1..Len(wr'[w].ch) : Pos'[t] < Pos'[wr'[w].ch[i]]
  <2>0. wr[w] \in [pc : {"unused", "recv", "header", "payload", "exit"}, conn : Conns \cup {None},
                   ch : Seq(Tasks), closed : BOOLEAN, task : Tasks \cup {None}]
    BY DEF TypeOK, WriterType
  <2>1. Unremoved(c)
    BY <1>5, MapFate
  <2> DEFINE q == wr[w].ch
  <2>2. q \in Seq(Tasks) /\ \A i \in 1..Len(q) : q[i] \in Tasks /\ Pos'[q[i]] = Pos[q[i]]
    <3>1. \A i \in 1..Len(q) : q[i] \in Tasks
      BY <2>0
    <3>2. \A i \in 1..Len(q) : caller[q[i]] = "ok"
      BY <3>1 DEF WriterOrder, AtWriter, Pending
    <3> QED BY <2>0, <3>1, <3>2, PosStep
  <2>3. Writing(w) => wr[w].task \in Tasks /\ Pos'[wr[w].task] = Pos[wr[w].task]
    BY PosStep DEF Filled, WriterOrder, AtWriter, Pending
  <2>4. ASSUME wr[w].conn = c
        PROVE  /\ Writing(w) => Pos[t] <= Pos[wr[w].task]
               /\ \A i \in 1..Len(q) : Pos[t] < Pos[q[i]]
    <3>1. CASE Old
      BY <2>1, <2>4, <3>1 DEF WireOrder
    <3>2. ASSUME NEW v \in W, New(v)
          PROVE  /\ Writing(w) => Pos[t] <= Pos[wr[w].task]
                 /\ \A i \in 1..Len(q) : Pos[t] < Pos[q[i]]
      <4>1. CASE v = w
        BY SMTT(30), <1>4, <3>2, <4>1 DEF Appends, WriterOrder
      <4>2. CASE v # w
        <5>1. ~Writing(w) /\ q = <<>>
          BY <2>1, <2>4, <3>2, <4>2, OthersGone DEF Appends
        <5> QED BY <5>1
      <4> QED BY <4>1, <4>2
    <3> QED BY <1>1, <3>1, <3>2
  <2>5. ASSUME wr[w].conn = c, wr'[w].ch = q, Writing(w)' => Writing(w) /\ wr'[w].task = wr[w].task
        PROVE  /\ Writing(w)' => Pos'[t] <= Pos'[wr'[w].task]
               /\ \A i \in 1..Len(wr'[w].ch) : Pos'[t] < Pos'[wr'[w].ch[i]]
    BY <1>4, <2>2, <2>3, <2>4, <2>5
  <2>6. CASE wr'[w] = wr[w]
    BY <1>5, <2>5, <2>6 DEF Writing
  <2>7. CASE \E r \in Shards : wr'[w] = NewWriter(connOf[worker[r].task])
    BY <2>7 DEF NewWriter, Writing
  <2>8. ASSUME NEW r \in Shards, Queues(r, w), wr'[w] = [wr[w] EXCEPT !.ch = Append(@, worker[r].task)]
        PROVE  /\ Writing(w)' => Pos'[t] <= Pos'[wr'[w].task]
               /\ \A i \in 1..Len(wr'[w].ch) : Pos'[t] < Pos'[wr'[w].ch[i]]
    <3> DEFINE u == worker[r].task
    <3>1. /\ wr'[w].conn = wr[w].conn /\ wr'[w].pc = wr[w].pc /\ wr'[w].task = wr[w].task
          /\ wr'[w].ch = Append(q, u)
      BY <2>0, <2>8
    <3>2. /\ u \in Tasks /\ Busy(r) /\ shardOf[connOf[u]] = r /\ Serves(w, connOf[u])
          /\ caller[u] = "ok"
      BY <2>8, HandOver DEF Pending
    <3>3. r = s
      BY <1>5, <3>1, <3>2 DEF Serves
    <3>4. Pos'[t] < Pos'[u]
      BY <1>3, <1>4, <3>2, <3>3, PosStep
    <3>5. \A i \in 1..Len(wr'[w].ch) : \/ wr'[w].ch[i] = u
                                       \/ i \in 1..Len(q) /\ wr'[w].ch[i] = q[i]
      BY <2>2, <3>1, AppendOf
    <3>6. wr[w].conn = c
      BY <1>5, <3>1
    <3> HIDE DEF q, u
    <3> QED BY <1>4, <2>2, <2>3, <2>4, <3>1, <3>4, <3>5, <3>6 DEF Writing
  <2>9. ASSUME Takes(w), wr'[w] = [wr[w] EXCEPT !.pc = "header", !.ch = Tail(@), !.task = Head(wr[w].ch)]
        PROVE  /\ Writing(w)' => Pos'[t] <= Pos'[wr'[w].task]
               /\ \A i \in 1..Len(wr'[w].ch) : Pos'[t] < Pos'[wr'[w].ch[i]]
    <3>1. q # <<>> /\ wr'[w].task = Head(q) /\ wr'[w].ch = Tail(q) /\ wr'[w].conn = wr[w].conn
      <4>1. q # <<>>
        BY <2>9 DEF Takes
      <4> QED BY <2>0, <2>9, <4>1
    <3>2. /\ wr'[w].task = q[1] /\ 1 \in 1..Len(q)
          /\ \A i \in 1..Len(wr'[w].ch) : \E j \in 1..Len(q) : wr'[w].ch[i] = q[j]
      <4>1. /\ Head(q) = q[1] /\ 1 \in 1..Len(q)
            /\ \A i \in 1..Len(Tail(q)) : \E j \in 1..Len(q) : Tail(q)[i] = q[j]
        BY <2>2, <3>1, TailOf
      <4> QED BY <3>1, <4>1
    <3>3. wr[w].conn = c
      BY <1>5, <3>1
    <3>4. Pos[q[1]] \in Nat
      BY <2>2, <3>2, PosStep DEF WriterOrder, AtWriter, Pending
    <3> HIDE DEF q
    <3> QED BY SMTT(30), <1>4, <2>2, <2>4, <3>2, <3>3, <3>4
  <2>10. CASE \/ Exits(w) /\ wr'[w] = [wr[w] EXCEPT !.pc = "exit"]
              \/ Heads(w) /\ wr'[w] = [wr[w] EXCEPT !.pc = "payload"]
              \/ Ends(w) /\ wr'[w] = [wr[w] EXCEPT !.pc = "recv", !.task = None]
              \/ Stops(w) /\ wr'[w] = [wr[w] EXCEPT !.closed = TRUE]
    <3>1. /\ wr'[w].ch = q /\ (Writing(w)' => Writing(w) /\ wr'[w].task = wr[w].task)
          /\ wr'[w].conn = wr[w].conn
      BY <2>0, <2>10 DEF Writing, Heads
    <3> QED BY <1>5, <2>5, <3>1
  <2> QED BY <2>6, <2>7, <2>8, <2>9, <2>10, WriterFate
<1> QED BY <1>2, <1>3, <1>4, <1>5, StaysBefore

\* A pipe that was closed stays closed.
LEMMA DeadStays == [Next]_vars => dead \subseteq dead'
<1> SUFFICES ASSUME [Next]_vars PROVE dead \subseteq dead'
  OBVIOUS
<1>1. ASSUME NEW u \in Tasks, Dispatch(u) \/ Accept(u) \/ Refused(u) \/ CtxEnds(u) PROVE UNCHANGED dead
  BY <1>1 DEF Dispatch, Accept, Refused, CtxEnds, env
<1>2. ASSUME NEW s \in Shards, Receive(s) \/ GetOrCreateWriter(s) \/ Enqueue(s) PROVE UNCHANGED dead
  BY <1>2 DEF Receive, GetOrCreateWriter, Enqueue, env
<1>3. ASSUME NEW w \in W, WriterReceive(w) \/ WriteChunk(w) \/ WriteFails(w) PROVE UNCHANGED dead
  BY <1>3 DEF WriterReceive, WriteChunk, WriteFails, env
<1>4. ASSUME NEW d \in Conns,
             RemoveBegins(d) \/ CloseConn(d) \/ StopWriter(d) \/ DrainWriter(d) \/ Stall(d)
      PROVE  UNCHANGED dead
  BY <1>4 DEF RemoveBegins, CloseConn, StopWriter, DrainWriter, Stall
<1>5. ASSUME NEW d \in Conns, CloseAfterHook(d) PROVE dead \subseteq dead'
  BY <1>5 DEF CloseAfterHook
<1>6. CASE \/ Shutdown \/ ShutdownReturns \/ CloseShards \/ CloserLocks \/ CloserStops \/ CloserDone
           \/ UNCHANGED vars
  <2>1. UNCHANGED dead
    BY <1>6 DEF Shutdown, ShutdownReturns, CloseShards, CloserLocks, CloserStops, CloserDone, vars, env
  <2> QED BY <2>1
<1> QED BY <1>1, <1>2, <1>3, <1>4, <1>5, <1>6 DEF Next, DispatcherNext

\* A writer between header and payload: just now, or for a while.
LEMMA HalfWritten ==
  ASSUME TypeOK, Filled, [Next]_vars, NEW w \in W
  PROVE  /\ wr'[w].pc = "payload" => /\ wr'[w].conn = wr[w].conn /\ wr'[w].task = wr[w].task
                                     /\ Heads(w) \/ (wr[w].pc = "payload" /\ ~Heads(w) /\ ~Ends(w))
         /\ Heads(w) => wr'[w].pc = "payload" /\ wr'[w].conn = wr[w].conn
         /\ wr[w].pc = "payload" => \/ Ends(w)
                                    \/ wr'[w].pc = "payload" /\ wr'[w].conn = wr[w].conn
<1>0. wr[w] \in [pc : {"unused", "recv", "header", "payload", "exit"}, conn : Conns \cup {None},
                 ch : Seq(Tasks), closed : BOOLEAN, task : Tasks \cup {None}]
  BY DEF TypeOK, WriterType
<1>1. Heads(w) => wr'[w] = [wr[w] EXCEPT !.pc = "payload"] /\ wr[w].pc = "header"
  BY DEF Heads, TypeOK, WriterType
<1>2. Ends(w) => wr'[w] = [wr[w] EXCEPT !.pc = "recv", !.task = None]
  BY DEF Ends, TypeOK, WriterType
<1>3. Takes(w) => wr[w].pc = "recv"
  BY DEF Takes
<1>4. Exits(w) => wr[w].pc = "recv"
  BY DEF Exits
<1>5. \A s \in Shards : Makes(s, w) => wr[w].pc = "unused"
  BY DEF Makes, Fresh
<1>6. Heads(w) => wr'[w].pc = "payload" /\ wr'[w].conn = wr[w].conn /\ wr'[w].task = wr[w].task
  BY <1>0, <1>1
<1>7. Ends(w) => wr'[w].pc = "recv"
  BY <1>0, <1>2
<1>8. CASE wr'[w] = wr[w]
  BY <1>1, <1>6, <1>7, <1>8
<1>9. CASE \E s \in Shards : Makes(s, w) /\ wr'[w] = NewWriter(connOf[worker[s].task])
  <2>1. wr'[w].pc = "recv"
    BY <1>9 DEF NewWriter
  <2> QED BY <1>1, <1>5, <1>6, <1>9, <2>1
<1>10. CASE \/ \E s \in Shards : Queues(s, w) /\ wr'[w] = [wr[w] EXCEPT !.ch = Append(@, worker[s].task)]
            \/ Stops(w) /\ wr'[w] = [wr[w] EXCEPT !.closed = TRUE]
  <2>1. wr'[w].pc = wr[w].pc /\ wr'[w].conn = wr[w].conn /\ wr'[w].task = wr[w].task
    BY <1>0, <1>10
  <2> QED BY <1>1, <1>6, <1>7, <2>1
<1>11. CASE Takes(w) /\ wr'[w] = [wr[w] EXCEPT !.pc = "header", !.ch = Tail(@), !.task = Head(wr[w].ch)]
  <2>1. wr'[w].pc = "header"
    BY <1>0, <1>11
  <2> QED BY <1>1, <1>3, <1>6, <1>11, <2>1
<1>12. CASE Exits(w) /\ wr'[w] = [wr[w] EXCEPT !.pc = "exit"]
  <2>1. wr'[w].pc = "exit"
    BY <1>0, <1>12
  <2> QED BY <1>1, <1>4, <1>6, <1>12, <2>1
<1>13. CASE Heads(w)
  BY <1>1, <1>6, <1>13
<1>14. CASE Ends(w)
  BY <1>6, <1>7, <1>14
<1> QED BY <1>8, <1>9, <1>10, <1>11, <1>12, <1>13, <1>14, WriterFate

\* What a callback said stands, and a failed write says so.
LEMMA CallLasts ==
  ASSUME TypeOK, Filled, InFlight, [Next]_vars
  PROVE  /\ \A t \in Tasks : cbs[t] = <<"errWrite">> => cbs'[t] = <<"errWrite">>
         /\ \A w \in W : WriteFails(w) => cbs'[wr[w].task] = <<"errWrite">>
<1>1. ASSUME NEW t \in Tasks, cbs[t] = <<"errWrite">> PROVE cbs'[t] = cbs[t]
  <2>0. cbs[t] # <<>>
    BY <1>1
  <2>1. ASSUME NEW s \in Shards, Fails(s, t) PROVE FALSE
    BY <2>0, <2>1 DEF Fails, Hands, Busy, InFlight, ShardOrder, Pending
  <2>2. ASSUME NEW w \in W, Concludes(w, t) PROVE FALSE
    <3>1. AtWriter(t, w)
      BY <2>2 DEF Concludes, Ends, AtWriter
    <3> QED BY <2>0, <3>1 DEF InFlight, WriterOrder, Pending
  <2> QED BY <2>1, <2>2, CallFate
<1>2. ASSUME NEW w \in W, WriteFails(w) PROVE cbs'[wr[w].task] = <<"errWrite">>
  <2>1. wr[w].task \in Tasks /\ AtWriter(wr[w].task, w)
    BY <1>2 DEF WriteFails, Filled, AtWriter
  <2>2. cbs[wr[w].task] = <<>>
    BY <2>1 DEF InFlight, WriterOrder, Pending
  <2>3. cbs'[wr[w].task] = Append(<<>>, "errWrite")
    BY <1>2, <2>1, <2>2 DEF WriteFails, Call, TypeOK, HistoryType
  <2> QED BY <2>3
<1> QED BY <1>1, <1>2

LEMMA TipStep == TypeOK /\ Filled /\ InFlight /\ OnTheWire /\ [Next]_vars => Tip'
<1> SUFFICES ASSUME TypeOK, Filled, InFlight, OnTheWire, [Next]_vars,
                    NEW c \in Conns, Unremoved(c)'
             PROVE  TipAt(c, Len(wire[c]))'
  BY DEF Tip
<1> SUFFICES ASSUME NEW n, n = Len(wire'[c])
             PROVE  /\ \A w \in W : wr'[w].conn = c /\ wr'[w].pc = "payload" =>
                          n > 0 /\ wire'[c][n] = <<wr'[w].task, "header">>
                    /\ \/ n = 0 \/ c \in dead' \/ wire'[c][n][2] = "payload"
                       \/ cbs'[wire'[c][n][1]] = <<"errWrite">>
                       \/ \E w \in W : wr'[w].conn = c /\ wr'[w].pc = "payload"
  BY DEF TipAt
<1> USE DEF OnTheWire
<1>0. wire[c] \in Seq(Tasks \X {"header", "payload", "cut"}) /\ Len(wire[c]) \in Nat
  BY DEF TypeOK, HistoryType
<1>1. Unremoved(c)
  BY MapFate
<1>2. /\ \A w \in W : wr[w].conn = c /\ wr[w].pc = "payload" =>
            Len(wire[c]) > 0 /\ wire[c][Len(wire[c])] = <<wr[w].task, "header">>
      /\ \/ Len(wire[c]) = 0 \/ c \in dead \/ wire[c][Len(wire[c])][2] = "payload"
         \/ cbs[wire[c][Len(wire[c])][1]] = <<"errWrite">>
         \/ \E w \in W : wr[w].conn = c /\ wr[w].pc = "payload"
  BY <1>1 DEF Tip, TipAt
<1>3. CASE wire'[c] = wire[c] /\ \A w \in W : WriteChunk(w) => wr[w].conn # c \/ c \in dead
  <2>1. ASSUME NEW w \in W, wr'[w].conn = c, wr'[w].pc = "payload"
        PROVE  n > 0 /\ wire'[c][n] = <<wr'[w].task, "header">>
    <3>1. ~Heads(w)
      BY <1>3, <2>1, HalfWritten DEF Heads
    <3>2. wr[w].pc = "payload" /\ wr[w].conn = c /\ wr'[w].task = wr[w].task
      BY <2>1, <3>1, HalfWritten
    <3> QED BY <1>2, <1>3, <3>2
  <2>2. n \in Nat /\ (n > 0 => wire[c][n][1] \in Tasks)
    BY <1>0, <1>3
  <2>3. n > 0 /\ cbs[wire[c][n][1]] = <<"errWrite">> => cbs'[wire'[c][n][1]] = <<"errWrite">>
    BY <1>3, <2>2, CallLasts
  <2>4. ASSUME NEW w \in W, wr[w].conn = c, wr[w].pc = "payload", Ends(w)
        PROVE  c \in dead \/ cbs'[wire'[c][n][1]] = <<"errWrite">>
    <3>1. wire[c][n] = <<wr[w].task, "header">>
      BY <1>2, <1>3, <2>4
    <3>2. WriteFails(w) \/ c \in dead
      BY <1>3, <2>4 DEF Ends
    <3>3. wire'[c][n][1] = wr[w].task
      BY <1>3, <3>1
    <3> QED BY <3>2, <3>3, CallLasts
  <2>5. \/ n = 0 \/ c \in dead' \/ wire'[c][n][2] = "payload"
        \/ cbs'[wire'[c][n][1]] = <<"errWrite">>
        \/ \E w \in W : wr'[w].conn = c /\ wr'[w].pc = "payload"
    <3>1. CASE n = 0 \/ c \in dead \/ wire[c][n][2] = "payload"
      BY <1>3, <3>1, DeadStays
    <3>2. CASE n > 0 /\ cbs[wire[c][n][1]] = <<"errWrite">>
      BY <2>3, <3>2
    <3>3. ASSUME NEW w \in W, wr[w].conn = c, wr[w].pc = "payload"
          PROVE  \/ c \in dead' \/ cbs'[wire'[c][n][1]] = <<"errWrite">>
                 \/ wr'[w].conn = c /\ wr'[w].pc = "payload"
      <4>1. CASE Ends(w)
        BY <2>4, <3>3, <4>1, DeadStays
      <4>2. CASE ~Ends(w)
        BY <3>3, <4>2, HalfWritten
      <4> QED BY <4>1, <4>2
    <3>4. \/ n = 0 \/ c \in dead \/ wire[c][n][2] = "payload"
          \/ n > 0 /\ cbs[wire[c][n][1]] = <<"errWrite">>
          \/ \E w \in W : wr[w].conn = c /\ wr[w].pc = "payload"
      <4>1. n = Len(wire[c])
        BY <1>3
      <4> QED BY <1>2, <2>2, <4>1
    <3>5. CASE \E w \in W : wr[w].conn = c /\ wr[w].pc = "payload"
      BY <3>3, <3>5
    <3> QED BY <3>1, <3>2, <3>4, <3>5
  <2> QED BY <2>1, <2>5
<1>4. ASSUME NEW v \in W, NEW k, Appends(v, c, k)
      PROVE  /\ \A w \in W : wr'[w].conn = c /\ wr'[w].pc = "payload" =>
                    n > 0 /\ wire'[c][n] = <<wr'[w].task, "header">>
             /\ \/ n = 0 \/ c \in dead' \/ wire'[c][n][2] = "payload"
                \/ cbs'[wire'[c][n][1]] = <<"errWrite">>
                \/ \E w \in W : wr'[w].conn = c /\ wr'[w].pc = "payload"
  <2>1. /\ Writing(v) /\ wr[v].conn = c /\ c \notin dead /\ (Heads(v) \/ Ends(v))
        /\ wire'[c] = Append(wire[c], <<wr[v].task, k>>)
        /\ (WriteChunk(v) /\ k = wr[v].pc) \/ (WriteFails(v) /\ k = "cut")
    BY <1>4 DEF Appends
  <2>2. n = Len(wire[c]) + 1 /\ wire'[c][n] = <<wr[v].task, k>> /\ n > 0
    BY <1>0, <2>1, AppendOf
  <2>3. ASSUME NEW w \in W, wr'[w].conn = c, wr'[w].pc = "payload"
        PROVE  n > 0 /\ wire'[c][n] = <<wr'[w].task, "header">>
    <3>1. CASE Heads(w)
      <4>1. v = w
        BY <2>1, <3>1, OneWrites
      <4>2. wr[w].pc = "header" /\ ~WriteFails(w)
        BY <3>1, HeadsOn DEF Heads
      <4>3. k = "header"
        BY <2>1, <4>1, <4>2
      <4> QED BY <2>2, <2>3, <4>1, <4>3, HalfWritten
    <3>2. CASE wr[w].pc = "payload" /\ ~Heads(w) /\ ~Ends(w)
      <4>1. wr[w].conn = c /\ Writing(w)
        BY <2>3, <3>2, HalfWritten DEF Writing
      <4>2. v = w
        BY <1>1, <2>1, <4>1, OthersGone
      <4> QED BY <2>1, <3>2, <4>2
    <3> QED BY <2>3, <3>1, <3>2, HalfWritten
  <2>4. CASE WriteFails(v)
    <3>1. cbs'[wire'[c][n][1]] = <<"errWrite">>
      BY <2>2, <2>4, CallLasts
    <3> QED BY <2>3, <3>1
  <2>5. CASE WriteChunk(v) /\ k = "payload"
    BY <2>2, <2>3, <2>5
  <2>6. CASE WriteChunk(v) /\ k = wr[v].pc /\ k = "header"
    <3>1. Heads(v)
      BY <2>1, <2>6 DEF WriteChunk, Heads
    <3> QED BY <2>1, <2>3, <3>1, HalfWritten
  <2> QED BY <2>1, <2>4, <2>5, <2>6 DEF Writing
<1> QED BY <1>3, <1>4, WireFate

LEMMA InOrderStep == TypeOK /\ Filled /\ InFlight /\ OnTheWire /\ [Next]_vars => InOrder'
<1> SUFFICES ASSUME TypeOK, Filled, InFlight, OnTheWire, [Next]_vars, NEW c \in Conns,
                    Unremoved(c)'
             PROVE  /\ Contiguous(c)'
                    /\ \A i, j \in 1..Len(wire'[c]) : i < j =>
                          Pos'[wire'[c][i][1]] <= Pos'[wire'[c][j][1]]
  BY DEF InOrder
<1> USE DEF OnTheWire, InFlight
<1>0. wire[c] \in Seq(Tasks \X {"header", "payload", "cut"}) /\ Len(wire[c]) \in Nat
  BY DEF TypeOK, HistoryType
<1>1. Unremoved(c)
  BY MapFate
<1>2. /\ Contiguous(c)
      /\ \A i, j \in 1..Len(wire[c]) : i < j => Pos[wire[c][i][1]] <= Pos[wire[c][j][1]]
  BY <1>1 DEF InOrder
<1>3. \A i \in 1..Len(wire[c]) : wire[c][i][1] \in Tasks /\ Pos'[wire[c][i][1]] = Pos[wire[c][i][1]]
  <2>1. \A i \in 1..Len(wire[c]) : wire[c][i][1] \in Tasks
    BY <1>0
  <2>2. \A i \in 1..Len(wire[c]) : caller[wire[c][i][1]] = "ok"
    BY DEF WireOrder
  <2> QED BY <2>1, <2>2, PosStep
<1> DEFINE Fits(e, p) ==
             \/ e[2] # "header" /\ p = <<e[1], "header">>
             \/ e[2] # "payload" /\ (p[2] = "payload" \/ cbs'[p[1]] = <<"errWrite">>)
<1>6. \A i \in 1..Len(wire[c]) :
         cbs[wire[c][i][1]] = <<"errWrite">> => cbs'[wire[c][i][1]] = <<"errWrite">>
  BY <1>3, CallLasts
<1>7. ASSUME NEW k \in 1..Len(wire[c])
      PROVE  IF k = 1 THEN wire[c][k][2] # "payload"
             ELSE k - 1 \in 1..Len(wire[c]) /\ Fits(wire[c][k], wire[c][k-1])
  <2>1. k # 1 => k - 1 \in 1..Len(wire[c])
    BY <1>0
  <2>2. IF k = 1 THEN wire[c][k][2] # "payload" ELSE Follows(wire[c][k], wire[c][k-1])
    BY <1>2 DEF Contiguous
  <2>3. k # 1 => (cbs[wire[c][k-1][1]] = <<"errWrite">> => cbs'[wire[c][k-1][1]] = <<"errWrite">>)
    BY <1>6, <2>1
  <2> QED BY <2>1, <2>2, <2>3 DEF Follows
<1>4. CASE wire'[c] = wire[c]
  <2>1. ASSUME NEW k \in 1..Len(wire'[c])
        PROVE  IF k = 1 THEN wire'[c][k][2] # "payload" ELSE Fits(wire'[c][k], wire'[c][k-1])
    BY <1>4, <1>7
  <2>2. Contiguous(c)'
    BY <2>1 DEF Contiguous, Follows
  <2> QED BY <1>2, <1>3, <1>4, <2>2
<1>5. ASSUME NEW v \in W, NEW e, Appends(v, c, e)
      PROVE  /\ Contiguous(c)'
             /\ \A i, j \in 1..Len(wire'[c]) : i < j =>
                   Pos'[wire'[c][i][1]] <= Pos'[wire'[c][j][1]]
  <2> DEFINE n == Len(wire[c])
  <2> DEFINE chunk == <<wr[v].task, e>>
  <2>1. /\ Writing(v) /\ wr[v].conn = c /\ c \notin dead /\ wr[v].pc \in {"header", "payload"}
        /\ wire'[c] = Append(wire[c], chunk)
        /\ (WriteChunk(v) /\ e = wr[v].pc) \/ (WriteFails(v) /\ e = "cut")
    BY <1>5 DEF Appends, Writing
  <2>2. /\ Len(wire'[c]) = n + 1 /\ wire'[c][n + 1] = chunk
        /\ \A i \in 1..n : wire'[c][i] = wire[c][i]
        /\ \A i \in 1..(n + 1) : i \in 1..n \/ i = n + 1
    BY <1>0, <2>1, AppendOf
  <2>3. IF n = 0 THEN chunk[2] # "payload" ELSE Fits(chunk, wire'[c][n])
    <3>0. n \in Nat /\ (n # 0 => n \in 1..n)
      BY <1>0
    <3>1. CASE wr[v].pc = "header"
      <4>1. \A w \in W : ~(wr[w].conn = c /\ wr[w].pc = "payload")
        BY <1>1, <2>1, <3>1, OthersGone DEF Writing
      <4>2. \/ n = 0 \/ wire[c][n][2] = "payload"
            \/ cbs[wire[c][n][1]] = <<"errWrite">>
        BY <1>1, <2>1, <4>1 DEF Tip, TipAt
      <4>3. chunk[2] # "payload"
        BY <2>1, <3>1
      <4>4. \/ n = 0 \/ wire'[c][n][2] = "payload"
            \/ cbs'[wire'[c][n][1]] = <<"errWrite">>
        BY <1>6, <2>2, <3>0, <4>2
      <4> HIDE DEF chunk, n
      <4> QED BY <2>2, <3>0, <4>3, <4>4
    <3>2. CASE wr[v].pc = "payload"
      <4>1. n > 0 /\ wire[c][n] = <<wr[v].task, "header">>
        BY <1>1, <2>1, <3>2 DEF Tip, TipAt
      <4>2. chunk[2] # "header" /\ chunk[1] = wr[v].task
        BY <2>1, <3>2
      <4>3. n # 0 /\ wire'[c][n] = <<chunk[1], "header">>
        BY <2>2, <3>0, <4>1, <4>2
      <4> HIDE DEF chunk, n
      <4> QED BY <4>2, <4>3
    <3> QED BY <2>1, <3>1, <3>2
  <2>4. chunk[1] = wr[v].task
    OBVIOUS
  <2>5. \A i \in 1..n : Pos[wire[c][i][1]] <= Pos[wr[v].task]
    BY <1>1, <2>1 DEF WireOrder
  <2>6. Pos'[wr[v].task] = Pos[wr[v].task]
    BY <2>1, PosStep DEF Filled, WriterOrder, AtWriter, Pending
  <2>7. n \in Nat
    BY <1>0
  <2> HIDE DEF chunk, n
  <2>8. Contiguous(c)'
    <3> SUFFICES ASSUME NEW k \in 1..(n + 1)
                 PROVE  IF k = 1 THEN wire'[c][k][2] # "payload"
                        ELSE Fits(wire'[c][k], wire'[c][k-1])
      BY <2>2 DEF Contiguous, Follows
    <3>1. CASE k = n + 1
      <4>1. wire'[c][k] = chunk /\ k - 1 = n /\ (k = 1 <=> n = 0)
        BY <2>2, <2>7, <3>1
      <4> QED BY <2>3, <4>1
    <3>2. CASE k \in 1..n
      <4>1. wire'[c][k] = wire[c][k] /\ (k # 1 => wire'[c][k-1] = wire[c][k-1])
        BY <1>7, <2>2, <3>2 DEF n
      <4> QED BY <1>7, <3>2, <4>1 DEF n
    <3> QED BY <2>2, <3>1, <3>2
  <2>9. ASSUME NEW i \in 1..(n + 1), NEW j \in 1..(n + 1), i < j
        PROVE  Pos'[wire'[c][i][1]] <= Pos'[wire'[c][j][1]]
    <3>1. i \in 1..n /\ wire'[c][i] = wire[c][i]
      BY <2>2, <2>7, <2>9
    <3>2. CASE j = n + 1
      BY <1>3, <2>2, <2>4, <2>5, <2>6, <3>1, <3>2 DEF n
    <3>3. CASE j \in 1..n
      BY <1>2, <1>3, <2>2, <2>9, <3>1, <3>3 DEF n
    <3> QED BY <2>2, <3>2, <3>3
  <2> QED BY <2>2, <2>8, <2>9
<1> QED BY <1>4, <1>5, WireFate

LEMMA OnTheWireStep == TypeOK /\ Filled /\ InFlight /\ OnTheWire /\ [Next]_vars => OnTheWire'
BY OneWriterStep, WireOrderStep, TipStep, InOrderStep DEF OnTheWire

LEMMA InitOnTheWire == Init => OnTheWire
<1> SUFFICES ASSUME Init PROVE OnTheWire
  OBVIOUS
<1>1. OneWriter
  BY DEF Init, OneWriter, Unused
<1>2. \A c \in Conns : wire[c] = <<>> /\ Len(wire[c]) = 0
  BY DEF Init
<1>3. WireOrder /\ InOrder
  BY <1>2 DEF WireOrder, InOrder, Contiguous
<1>4. Tip
  BY <1>2 DEF Init, Tip, TipAt, Unused
<1> QED BY <1>1, <1>3, <1>4 DEF OnTheWire

\* On a connection that was not removed the frames are whole and in the order in
\* which Dispatch accepted them, for any number of shards and writers, whatever
\* times out, fails or is shut down.
THEOREM FramesWholeInOrder == Spec => []WholeFramesInOrder
<1>1. Init => TypeOK /\ Filled /\ InFlight /\ OnTheWire
  BY InitType, InitInFlight, InitOnTheWire
<1>2. TypeOK /\ Filled /\ InFlight /\ OnTheWire /\ [Next]_vars
        => (TypeOK /\ Filled /\ InFlight /\ OnTheWire)'
  BY TypeStep, FilledStep, InFlightStep, OnTheWireStep
<1>3. TypeOK /\ OnTheWire => WholeFramesInOrder
  <2> SUFFICES ASSUME TypeOK, OnTheWire, NEW c \in Conns, Unremoved(c)
               PROVE  /\ Contiguous(c)
                      /\ \A i, j \in 1..Len(wire[c]) : i < j =>
                            Accepted(wire[c][i][1]) <= Accepted(wire[c][j][1])
    BY DEF WholeFramesInOrder
  <2>1. \A i \in 1..Len(wire[c]) : wire[c][i][1] \in Tasks
    BY DEF TypeOK, HistoryType
  <2>2. \A t \in Tasks : Pos[t] = Accepted(t)
    BY DEF Pos
  <2>3. /\ Contiguous(c)
        /\ \A i, j \in 1..Len(wire[c]) : i < j => Pos[wire[c][i][1]] <= Pos[wire[c][j][1]]
    BY DEF OnTheWire, InOrder
  <2>4. ASSUME NEW i \in 1..Len(wire[c]), NEW j \in 1..Len(wire[c]), i < j
        PROVE  Accepted(wire[c][i][1]) <= Accepted(wire[c][j][1])
    <3>1. Pos[wire[c][i][1]] = Accepted(wire[c][i][1]) /\ Pos[wire[c][j][1]] = Accepted(wire[c][j][1])
      BY <2>1, <2>2
    <3> QED BY <2>3, <2>4, <3>1
  <2> QED BY <2>3, <2>4
<1> QED BY <1>1, <1>2, <1>3, PTL DEF Spec

-----------------------------------------------------------------------------
(* Who may close the dispatcher *)

\* d.ctx ends with Shutdown or with the context it was derived from, and the
\* shards are closed after it.
OwnerCloses ==
  /\ dctxDone => shutdown # "idle" \/ root \in ctxDone
  /\ shardClosed => dctxDone
  /\ \A t \in Tasks : caller[t] \in {"errDispatcherClosed", "panic"} => dctxDone

\* Until Shutdown is called or the context of the starting call ends, no
\* Dispatch finds the dispatcher closed, whatever other contexts end.
THEOREM StaysOpen == Spec => []OpenWhileOwned
<1>1. Init => OwnerCloses
  BY DEF Init, OwnerCloses
<1>2. TypeOK /\ OwnerCloses /\ [Next]_vars => OwnerCloses'
  <2> SUFFICES ASSUME TypeOK, OwnerCloses, [Next]_vars PROVE OwnerCloses'
    OBVIOUS
  <2>0. DispatchType /\ None \notin Tasks
    BY SendAssumption DEF TypeOK
  <2>1. ASSUME NEW t \in Tasks, Dispatch(t) PROVE OwnerCloses'
    BY <2>0, <2>1 DEF Dispatch, Answer, Started, OwnerCloses, DispatchType
  <2>2. ASSUME NEW t \in Tasks, Accept(t) PROVE OwnerCloses'
    BY <2>0, <2>2 DEF Accept, Answer, OwnerCloses, DispatchType
  <2>3. ASSUME NEW t \in Tasks, Refused(t) PROVE OwnerCloses'
    BY <2>0, <2>3 DEF Refused, Answer, OwnerCloses, DispatchType
  <2>4. ASSUME NEW t \in Tasks, CtxEnds(t) PROVE OwnerCloses'
    BY <2>0, <2>4 DEF CtxEnds, OwnerCloses, DispatchType
  <2>5. CASE Shutdown \/ ShutdownReturns \/ CloseShards
    <3>1. CASE Shutdown
      BY <2>0, <3>1 DEF Shutdown, Started, OwnerCloses, DispatchType
    <3>2. CASE ShutdownReturns
      BY <3>2 DEF ShutdownReturns, OwnerCloses, disp
    <3>3. CASE CloseShards
      BY <3>3 DEF CloseShards, OwnerCloses
    <3> QED BY <2>5, <3>1, <3>2, <3>3
  <2>6. ASSUME UNCHANGED <<disp, shutdown>> PROVE OwnerCloses'
    BY <2>6 DEF disp, OwnerCloses
  <2>7. ASSUME NEW s \in Shards, Receive(s) PROVE OwnerCloses'
    BY <2>7 DEF Receive, OwnerCloses
  <2>8. ASSUME NEW s \in Shards, GetOrCreateWriter(s) \/ Enqueue(s) PROVE UNCHANGED <<disp, shutdown>>
    BY <2>8 DEF GetOrCreateWriter, Enqueue
  <2>9. ASSUME NEW w \in W, WriterReceive(w) \/ WriteChunk(w) \/ WriteFails(w) PROVE UNCHANGED <<disp, shutdown>>
    BY <2>9 DEF WriterReceive, WriteChunk, WriteFails
  <2>10. ASSUME NEW c \in Conns, \/ RemoveBegins(c) \/ CloseConn(c) \/ StopWriter(c)
                                 \/ DrainWriter(c) \/ CloseAfterHook(c) \/ Stall(c)
         PROVE  UNCHANGED <<disp, shutdown>>
    BY <2>10 DEF RemoveBegins, CloseConn, StopWriter, DrainWriter, CloseAfterHook, Stall
  <2>11. ASSUME CloserLocks \/ CloserStops \/ CloserDone \/ UNCHANGED vars
         PROVE  UNCHANGED <<disp, shutdown>>
    BY <2>11 DEF CloserLocks, CloserStops, CloserDone, vars
  <2> QED
    BY <2>1, <2>2, <2>3, <2>4, <2>5, <2>6, <2>7, <2>8, <2>9, <2>10, <2>11 DEF Next, DispatcherNext
<1>3. OwnerCloses => OpenWhileOwned
  BY DEF OwnerCloses, OpenWhileOwned
<1>4. TypeOK /\ Filled => TypeOK
  OBVIOUS
<1> QED BY <1>1, <1>2, <1>3, <1>4, TypeCorrect, PTL DEF Spec
=============================================================================
