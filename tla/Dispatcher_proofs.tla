------------------------- MODULE Dispatcher_proofs --------------------------
(***************************************************************************)
(* Proofs about Dispatcher, for any frames, hash values, number of queues, *)
(* workers and queue length.                                               *)
(***************************************************************************)
EXTENDS Dispatcher, TLAPS

-----------------------------------------------------------------------------
(* Why frames stay in order *)

\* f is before g in s.
Before(s, f, g) ==
  \E i, j \in 1..Len(s) : i < j /\ s[i] = f /\ s[j] = g

\* A frame is taken once, and exactly the frames taken were answered "queued".
TakenOnce ==
  /\ \A i \in 1..Len(accepted) : recv[accepted[i]] = "queued"
  /\ \A f \in Frames : recv[f] = "queued" => \E i \in 1..Len(accepted) : accepted[i] = f
  /\ \A i, j \in 1..Len(accepted) : accepted[i] = accepted[j] => i = j
  /\ \A f \in ended : recv[f] = "queued"

\* A queue holds frames that chose it and have not begun, in the order taken.
QueueOrder ==
  /\ \A q \in Queues : \A k \in 1..Len(queue[q]) :
        chosen[queue[q][k]] = q /\ recv[queue[q][k]] = "queued" /\ queue[q][k] \notin ended
  /\ \A q \in Queues : \A k, l \in 1..Len(queue[q]) : k < l => Before(accepted, queue[q][k], queue[q][l])

\* A worker routes a frame of its queue, taken before all that wait there.
WorkerOrder ==
  \A q \in Queues : \A i \in 1..Workers : worker[q][i] \in Frames =>
     /\ chosen[worker[q][i]] = q /\ recv[worker[q][i]] = "queued" /\ worker[q][i] \notin ended
     /\ \A k \in 1..Len(queue[q]) : Before(accepted, worker[q][i], queue[q][k])

\* No two workers route one frame.
Alone ==
  \A p, q \in Queues : \A i, j \in 1..Workers :
     worker[p][i] \in Frames /\ worker[p][i] = worker[q][j] => p = q /\ i = j

\* A frame that was taken waits, is being routed, or is done.
Somewhere ==
  \A n \in 1..Len(accepted) :
     LET f == accepted[n] IN
     \/ f \in ended
     \/ \E i \in 1..Workers : worker[chosen[f]][i] = f
     \/ \E k \in 1..Len(queue[chosen[f]]) : queue[chosen[f]][k] = f

\* Of two frames of one queue the earlier is done first.
QueueByQueue ==
  \A m, n \in 1..Len(accepted) :
    (m < n /\ chosen[accepted[m]] = chosen[accepted[n]] /\ accepted[n] \in ended)
    => accepted[m] \in ended

\* The queue of a frame depends on what its strategy keeps together.
ByStrategy ==
  \A f \in Frames : recv[f] # "idle" =>
     /\ strategy = "conn" => chosen[f] = hash[connOf[f]] % QueueCount
     /\ strategy = "subproto" => chosen[f] = subOf[f] % QueueCount
     /\ strategy = "source_target" => chosen[f] = hash[pairOf[f]] % QueueCount

-----------------------------------------------------------------------------
(* Types *)

LEMMA TailOf ==
  ASSUME NEW S, NEW q \in Seq(S), q # <<>>
  PROVE  /\ Len(q) \in Nat /\ 1 \in 1..Len(q) /\ Head(q) = q[1] /\ Head(q) \in S
         /\ Tail(q) \in Seq(S) /\ Len(Tail(q)) = Len(q) - 1
         /\ \A i \in 1..Len(Tail(q)) : \E j \in 1..Len(q) : j = i + 1 /\ Tail(q)[i] = q[j]
         /\ \A j \in 1..Len(q) : j = 1 \/ \E i \in 1..Len(Tail(q)) : j = i + 1 /\ Tail(q)[i] = q[j]
  <1>1. /\ Len(q) \in Nat /\ 1 \in 1..Len(q) /\ Head(q) = q[1] /\ Head(q) \in S
        /\ Tail(q) \in Seq(S) /\ Len(Tail(q)) = Len(q) - 1
    OBVIOUS
  <1>2. \A i \in 1..Len(Tail(q)) : i + 1 \in 1..Len(q) /\ Tail(q)[i] = q[i + 1]
    OBVIOUS
  <1>3. \A j \in 1..Len(q) : j = 1 \/ (j - 1 \in 1..Len(Tail(q)) /\ j = (j - 1) + 1)
    BY <1>1
  <1>4. QED
    BY <1>1, <1>2, <1>3

LEMMA AppendOf ==
  ASSUME NEW S, NEW q \in Seq(S), NEW e \in S
  PROVE  /\ Append(q, e) \in Seq(S)
         /\ Len(q) \in Nat /\ Len(Append(q, e)) = Len(q) + 1 /\ Append(q, e)[Len(q) + 1] = e
         /\ \A i \in 1..Len(q) : i \in 1..Len(Append(q, e)) /\ Append(q, e)[i] = q[i]
         /\ \A i \in 1..Len(Append(q, e)) : i \in 1..Len(q) \/ i = Len(q) + 1
OBVIOUS

\* Every strategy answers a queue that exists.
LEMMA SelectsAQueue ==
  ASSUME TypeOK, NEW f \in Frames
  PROVE  SelectQueue(f) \in Queues
<1>1. \A n \in Nat : n % QueueCount \in Queues
  BY DispatcherAssumption DEF Queues
<1>2. /\ hash[connOf[f]] \in Nat /\ subOf[f] \in Nat /\ hash[pairOf[f]] \in Nat /\ counter \in Nat
      /\ strategy \in {"conn", "subproto", "source_target", "roundrobin"}
  BY DispatcherAssumption DEF TypeOK
<1>3. QED
  BY <1>1, <1>2 DEF SelectQueue

LEMMA InitType == Init => TypeOK
<1> SUFFICES ASSUME Init PROVE TypeOK
  OBVIOUS
<1>1. strategy \in {"conn", "subproto", "source_target", "roundrobin"}
  BY DEF Init, StrategyFromConfig
<1>2. 0 \in Queues
  BY DispatcherAssumption DEF Queues
<1>3. worker \in [Queues -> [1..Workers -> Frames \cup {None, "exit"}]]
  BY DEF Init
<1>4. queue \in [Queues -> Seq(Frames)] /\ \A q \in Queues : Len(queue[q]) <= Cap
  BY DispatcherAssumption DEF Init
<1>5. QED
  BY <1>1, <1>2, <1>3, <1>4 DEF Init, TypeOK

\* A worker's slot after a change.
LEMMA SlotChanged ==
  ASSUME TypeOK, NEW q \in Queues, NEW i \in 1..Workers, NEW v \in Frames \cup {None, "exit"},
         worker' = [worker EXCEPT ![q][i] = v]
  PROVE  /\ worker' \in [Queues -> [1..Workers -> Frames \cup {None, "exit"}]]
         /\ worker'[q][i] = v
         /\ \A p \in Queues : \A j \in 1..Workers :
               (p # q \/ j # i) => worker'[p][j] = worker[p][j]
  BY DEF TypeOK

LEMMA NextType == TypeOK /\ [Next]_vars => TypeOK'
<1> SUFFICES ASSUME TypeOK, [Next]_vars PROVE TypeOK'
  OBVIOUS
<1>1. ASSUME NEW f \in Frames, OnReceive(f) PROVE TypeOK'
  BY <1>1, SelectsAQueue DEF OnReceive, TypeOK
<1>2. ASSUME NEW f \in Frames, Enqueue(f) PROVE TypeOK'
  <2>1. chosen[f] \in Queues /\ queue[chosen[f]] \in Seq(Frames) /\ Len(queue[chosen[f]]) < Cap
    BY <1>2 DEF Enqueue, Room, TypeOK
  <2> DEFINE more == Append(queue[chosen[f]], f)
  <2>2. more \in Seq(Frames) /\ Len(more) <= Cap
    BY <2>1, DispatcherAssumption
  <2>3. Append(accepted, f) \in Seq(Frames)
    BY DEF TypeOK
  <2>4. queue' = [queue EXCEPT ![chosen[f]] = more] /\ accepted' = Append(accepted, f)
    BY <1>2 DEF Enqueue
  <2> HIDE DEF more
  <2>5. queue' \in [Queues -> Seq(Frames)] /\ \A q \in Queues : Len(queue'[q]) <= Cap
    BY <2>1, <2>2, <2>4 DEF TypeOK
  <2>6. QED
    BY <1>2, <2>3, <2>4, <2>5 DEF Enqueue, Answer, select, TypeOK
<1>3. ASSUME NEW f \in Frames, NotQueued(f) PROVE TypeOK'
  BY <1>3 DEF NotQueued, Answer, select, TypeOK
<1>4. ASSUME NEW q \in Queues, NEW i \in 1..Workers, Begin(q, i) PROVE TypeOK'
  <2>1. queue[q] \in Seq(Frames) /\ queue[q] # <<>> /\ Len(queue[q]) <= Cap
    BY <1>4 DEF Begin, TypeOK
  <2>2. Head(queue[q]) \in Frames /\ Tail(queue[q]) \in Seq(Frames) /\ Len(Tail(queue[q])) <= Cap
    BY <2>1, DispatcherAssumption
  <2> DEFINE rest == Tail(queue[q])
  <2>3. queue' = [queue EXCEPT ![q] = rest] /\ rest \in Seq(Frames) /\ Len(rest) <= Cap
    BY <1>4, <2>2 DEF Begin
  <2> HIDE DEF rest
  <2>4. queue' \in [Queues -> Seq(Frames)] /\ \A p \in Queues : Len(queue'[p]) <= Cap
    BY <2>3 DEF TypeOK
  <2>5. worker' \in [Queues -> [1..Workers -> Frames \cup {None, "exit"}]]
    BY <1>4, <2>2, SlotChanged DEF Begin
  <2>6. QED
    BY <1>4, <2>4, <2>5 DEF Begin, select, TypeOK
<1>5. ASSUME NEW q \in Queues, NEW i \in 1..Workers, End(q, i) PROVE TypeOK'
  <2>1. worker' \in [Queues -> [1..Workers -> Frames \cup {None, "exit"}]]
    BY <1>5, SlotChanged DEF End
  <2>2. QED
    BY <1>5, <2>1 DEF End, select, TypeOK
<1>6. ASSUME NEW q \in Queues, NEW i \in 1..Workers, WorkerExits(q, i) PROVE TypeOK'
  <2>1. worker' \in [Queues -> [1..Workers -> Frames \cup {None, "exit"}]]
    BY <1>6, SlotChanged DEF WorkerExits
  <2>2. QED
    BY <1>6, <2>1 DEF WorkerExits, select, TypeOK
<1>7. ASSUME NEW q \in Queues, CloseQueue(q) PROVE TypeOK'
  BY <1>7 DEF CloseQueue, select, TypeOK
<1>8. CASE CancelAndShutdown \/ ShutdownReturns
  BY <1>8 DEF CancelAndShutdown, ShutdownReturns, select, TypeOK
<1>9. CASE UNCHANGED vars
  BY <1>9 DEF vars, select, TypeOK
<1>10. QED
  BY <1>1, <1>2, <1>3, <1>4, <1>5, <1>6, <1>7, <1>8, <1>9 DEF Next

\* The state of the pool is always well typed: every strategy, the round
\* robin however far it has counted, answers a queue that exists, and no queue
\* exceeds its buffer.
THEOREM TypeCorrect == Spec => []TypeOK
<1>1. QED
  BY InitType, NextType, PTL DEF Spec

-----------------------------------------------------------------------------
(* The places of a frame *)

Places == TakenOnce /\ QueueOrder /\ WorkerOrder /\ Alone /\ Somewhere

LEMMA InitPlaces == Init => Places /\ QueueByQueue /\ ByStrategy
<1> SUFFICES ASSUME Init PROVE Places /\ QueueByQueue /\ ByStrategy
  OBVIOUS
<1>1. accepted = <<>> /\ Len(accepted) = 0 /\ ended = {}
  BY DEF Init
<1>2. \A q \in Queues : Len(queue[q]) = 0
  BY DEF Init
<1>3. \A q \in Queues : \A i \in 1..Workers : worker[q][i] \notin Frames
  BY DispatcherAssumption DEF Init
<1>4. TakenOnce /\ Somewhere /\ QueueByQueue
  <2>1. \A f \in Frames : recv[f] # "queued"
    BY DEF Init
  <2>2. QED
    BY <1>1, <2>1 DEF TakenOnce, Somewhere, QueueByQueue
<1>5. QueueOrder
  BY <1>2 DEF QueueOrder
<1>6. WorkerOrder /\ Alone
  BY <1>3 DEF WorkerOrder, Alone
<1>7. ByStrategy
  BY DEF Init, ByStrategy
<1>8. QED
  BY <1>4, <1>5, <1>6, <1>7 DEF Places

\* Steps that move no frame: answers other than "queued" and choices are about
\* frames that were not taken.
LEMMA NoFrameMoves ==
  ASSUME TypeOK, Places, UNCHANGED <<queue, worker, accepted, ended>>,
         \A f \in Frames : recv'[f] = "queued" <=> recv[f] = "queued",
         \A f \in Frames : recv[f] = "queued" => chosen'[f] = chosen[f]
  PROVE  Places' /\ (QueueByQueue => QueueByQueue')
<1>1. /\ \A i \in 1..Len(accepted) : accepted[i] \in Frames
      /\ \A q \in Queues : \A k \in 1..Len(queue[q]) : queue[q][k] \in Frames
      /\ ended \subseteq Frames
  BY DEF TypeOK
<1>2. TakenOnce'
  BY <1>1 DEF Places, TakenOnce
<1>3. QueueOrder'
  BY <1>1 DEF Places, QueueOrder, Before
<1>4. WorkerOrder'
  BY <1>1 DEF Places, WorkerOrder, Before
<1>5. \A i \in 1..Len(accepted) : chosen'[accepted[i]] = chosen[accepted[i]]
  BY <1>1 DEF Places, TakenOnce
<1>6. Somewhere'
  BY <1>5 DEF Places, Somewhere
<1>7. QueueByQueue => QueueByQueue'
  BY <1>5 DEF QueueByQueue
<1>8. Alone'
  BY DEF Places, Alone
<1>9. QED
  BY <1>2, <1>3, <1>4, <1>6, <1>7, <1>8 DEF Places

\* The queue takes f: the last of those taken, the last of its queue.
LEMMA EnqueuePlaces ==
  ASSUME TypeOK, Places, NEW f \in Frames, Enqueue(f)
  PROVE  Places' /\ (QueueByQueue => QueueByQueue')
<1> DEFINE q == chosen[f]
<1>1. /\ q \in Queues /\ UNCHANGED <<chosen, worker, ended>>
      /\ recv[f] = "select" /\ recv'[f] = "queued" /\ \A g \in Frames : g # f => recv'[g] = recv[g]
  BY DEF Enqueue, Answer, select, TypeOK
<1>2. accepted' = Append(accepted, f) /\ accepted \in Seq(Frames)
  BY DEF Enqueue, TypeOK
<1>3. /\ Len(accepted) \in Nat /\ Len(accepted') = Len(accepted) + 1
      /\ accepted'[Len(accepted) + 1] = f
      /\ \A i \in 1..Len(accepted) : i \in 1..Len(accepted') /\ accepted'[i] = accepted[i]
      /\ \A i \in 1..Len(accepted') : i \in 1..Len(accepted) \/ i = Len(accepted) + 1
      /\ Len(accepted) + 1 \in 1..Len(accepted')
  BY <1>2, AppendOf
<1>4. queue'[q] = Append(queue[q], f) /\ \A p \in Queues : p # q => queue'[p] = queue[p]
  BY <1>1 DEF Enqueue, TypeOK
<1>5. /\ Len(queue[q]) \in Nat /\ Len(queue'[q]) = Len(queue[q]) + 1
      /\ queue'[q][Len(queue[q]) + 1] = f
      /\ \A i \in 1..Len(queue[q]) : i \in 1..Len(queue'[q]) /\ queue'[q][i] = queue[q][i]
      /\ \A i \in 1..Len(queue'[q]) : i \in 1..Len(queue[q]) \/ i = Len(queue[q]) + 1
      /\ Len(queue[q]) + 1 \in 1..Len(queue'[q])
  BY <1>1, <1>4, AppendOf DEF TypeOK
<1>6. /\ \A i \in 1..Len(accepted) : accepted[i] \in Frames /\ accepted[i] # f
      /\ ended \subseteq Frames /\ f \notin ended
      /\ \A p \in Queues : \A k \in 1..Len(queue[p]) : queue[p][k] \in Frames /\ queue[p][k] # f
      /\ \A p \in Queues : \A i \in 1..Workers : worker[p][i] \in Frames => worker[p][i] # f
  BY <1>1 DEF Places, TakenOnce, QueueOrder, WorkerOrder, TypeOK
<1>7. \A g, h : Before(accepted, g, h) => Before(accepted', g, h)
  BY <1>3 DEF Before
<1>8. \A g \in Frames : recv[g] = "queued" => Before(accepted', g, f)
  <2> SUFFICES ASSUME NEW g \in Frames, recv[g] = "queued" PROVE Before(accepted', g, f)
    OBVIOUS
  <2>1. PICK n \in 1..Len(accepted) : accepted[n] = g
    BY DEF Places, TakenOnce
  <2>2. n < Len(accepted) + 1 /\ n \in 1..Len(accepted') /\ accepted'[n] = g
    BY <1>3, <2>1
  <2>3. QED
    BY <1>3, <2>2 DEF Before
<1>9. TakenOnce'
  <2>1. \A i \in 1..Len(accepted') : recv'[accepted'[i]] = "queued"
    BY <1>1, <1>3, <1>6 DEF Places, TakenOnce
  <2>2. \A i, j \in 1..Len(accepted') : accepted'[i] = accepted'[j] => i = j
    BY <1>3, <1>6 DEF Places, TakenOnce
  <2>3. \A g \in Frames : recv'[g] = "queued" => \E i \in 1..Len(accepted') : accepted'[i] = g
    <3> SUFFICES ASSUME NEW g \in Frames, recv'[g] = "queued"
                 PROVE  \E i \in 1..Len(accepted') : accepted'[i] = g
      OBVIOUS
    <3>1. CASE g = f
      BY <1>3, <3>1
    <3>2. CASE g # f
      BY <1>1, <1>3, <3>2 DEF Places, TakenOnce
    <3>3. QED
      BY <3>1, <3>2
  <2>4. \A g \in ended' : recv'[g] = "queued"
    BY <1>1, <1>6 DEF Places, TakenOnce
  <2>5. QED
    BY <2>1, <2>2, <2>3, <2>4 DEF TakenOnce
<1>10. QueueOrder'
  <2>1. ASSUME NEW p \in Queues, NEW k \in 1..Len(queue'[p])
        PROVE  chosen'[queue'[p][k]] = p /\ recv'[queue'[p][k]] = "queued" /\ queue'[p][k] \notin ended'
    <3>1. CASE p = q /\ k = Len(queue[q]) + 1
      BY <1>1, <1>5, <1>6, <3>1
    <3>2. CASE ~(p = q /\ k = Len(queue[q]) + 1)
      <4>1. k \in 1..Len(queue[p]) /\ queue'[p][k] = queue[p][k]
        BY <1>4, <1>5, <2>1, <3>2
      <4>2. QED
        BY <1>1, <1>6, <4>1 DEF Places, QueueOrder
    <3>3. QED
      BY <3>1, <3>2
  <2>2. ASSUME NEW p \in Queues, NEW k \in 1..Len(queue'[p]), NEW l \in 1..Len(queue'[p]), k < l
        PROVE  Before(accepted', queue'[p][k], queue'[p][l])
    <3>1. k \in 1..Len(queue[p]) /\ queue'[p][k] = queue[p][k]
      <4>1. CASE p = q
        <5>1. Len(queue'[q]) = Len(queue[q]) + 1 /\ Len(queue[q]) \in Nat
          BY <1>4, <1>5, <4>1
        <5>2. k \in 1..Len(queue[q])
          BY <2>2, <4>1, <5>1
        <5>3. QED
          BY <1>5, <4>1, <5>2
      <4>2. CASE p # q
        BY <1>4, <1>5, <4>2
      <4>3. QED
        BY <4>1, <4>2
    <3>2. CASE p = q /\ l = Len(queue[q]) + 1
      <4>1. queue[p][k] \in Frames /\ recv[queue[p][k]] = "queued"
        BY <1>6, <3>1 DEF Places, QueueOrder
      <4>2. queue'[p][l] = f
        BY <1>5, <3>2
      <4>3. Before(accepted', queue[p][k], f)
        BY <1>8, <4>1
      <4>4. QED
        BY <3>1, <4>2, <4>3 DEF Before
    <3>3. CASE ~(p = q /\ l = Len(queue[q]) + 1)
      <4>1. l \in 1..Len(queue[p]) /\ queue'[p][l] = queue[p][l]
        BY <1>4, <1>5, <2>2, <3>3
      <4>2. Before(accepted, queue[p][k], queue[p][l])
        BY <2>2, <3>1, <4>1 DEF Places, QueueOrder
      <4>3. QED
        BY <1>3, <3>1, <4>1, <4>2 DEF Before
    <3>4. QED
      BY <3>2, <3>3
  <2>3. QED
    BY <2>1, <2>2 DEF QueueOrder
<1>11. WorkerOrder'
  <2> SUFFICES ASSUME NEW p \in Queues, NEW i \in 1..Workers, worker'[p][i] \in Frames
               PROVE  /\ chosen'[worker'[p][i]] = p /\ recv'[worker'[p][i]] = "queued"
                      /\ worker'[p][i] \notin ended'
                      /\ \A k \in 1..Len(queue'[p]) : Before(accepted', worker'[p][i], queue'[p][k])
    BY DEF WorkerOrder
  <2> DEFINE w == worker[p][i]
  <2>1. /\ worker'[p][i] = w /\ w \in Frames /\ chosen[w] = p /\ recv[w] = "queued"
        /\ w \notin ended /\ \A k \in 1..Len(queue[p]) : Before(accepted, w, queue[p][k])
    BY <1>1 DEF Places, WorkerOrder
  <2> HIDE DEF w
  <2>2. Before(accepted', w, f) 
    BY <1>8, <2>1
  <2>3. ASSUME NEW k \in 1..Len(queue'[p]) PROVE Before(accepted', w, queue'[p][k])
    <3>1. CASE p = q /\ k = Len(queue[q]) + 1
      <4>1. queue'[p][k] = f
        BY <1>5, <3>1
      <4>2. QED
        BY <2>2, <4>1 DEF Before
    <3>2. CASE ~(p = q /\ k = Len(queue[q]) + 1)
      <4>1. k \in 1..Len(queue[p]) /\ queue'[p][k] = queue[p][k]
        BY <1>4, <1>5, <2>3, <3>2
      <4>2. Before(accepted, w, queue[p][k])
        BY <2>1, <4>1
      <4>3. QED
        BY <1>7, <4>1, <4>2
    <3>3. QED
      BY <3>1, <3>2
  <2>4. \A k \in 1..Len(queue'[p]) : Before(accepted', worker'[p][i], queue'[p][k])
    BY <2>1, <2>3 DEF Before
  <2>5. QED
    BY <1>1, <2>1, <2>4
<1>12. Somewhere'
  <2> SUFFICES ASSUME NEW n \in 1..Len(accepted')
               PROVE  \/ accepted'[n] \in ended'
                      \/ \E i \in 1..Workers : worker'[chosen'[accepted'[n]]][i] = accepted'[n]
                      \/ \E k \in 1..Len(queue'[chosen'[accepted'[n]]]) :
                            queue'[chosen'[accepted'[n]]][k] = accepted'[n]
    BY DEF Somewhere
  <2>1. CASE n = Len(accepted) + 1
    BY <1>1, <1>3, <1>5, <2>1
  <2>2. CASE n \in 1..Len(accepted)
    <3> DEFINE g == accepted[n]
    <3>1. accepted'[n] = g /\ chosen'[g] = chosen[g] /\ chosen[g] \in Queues
      BY <1>1, <1>3, <1>6, <2>2 DEF TypeOK
    <3>2. \/ g \in ended \/ (\E i \in 1..Workers : worker[chosen[g]][i] = g)
          \/ \E k \in 1..Len(queue[chosen[g]]) : queue[chosen[g]][k] = g
      BY <2>2 DEF Places, Somewhere
    <3> HIDE DEF g
    <3>3. ASSUME NEW k \in 1..Len(queue[chosen[g]]), queue[chosen[g]][k] = g
          PROVE  \E l \in 1..Len(queue'[chosen[g]]) : queue'[chosen[g]][l] = g
      <4>1. k \in 1..Len(queue'[chosen[g]]) /\ queue'[chosen[g]][k] = g
        BY <1>4, <1>5, <3>1, <3>3
      <4>2. QED
        BY <4>1
    <3>4. QED
      BY <1>1, <3>1, <3>2, <3>3
  <2>3. QED
    BY <1>3, <2>1, <2>2
<1>13. QueueByQueue => QueueByQueue'
  <2> SUFFICES ASSUME QueueByQueue, NEW m \in 1..Len(accepted'), NEW n \in 1..Len(accepted'),
                      m < n, chosen'[accepted'[m]] = chosen'[accepted'[n]], accepted'[n] \in ended'
               PROVE  accepted'[m] \in ended'
    BY DEF QueueByQueue
  <2>1. n # Len(accepted) + 1
    BY <1>1, <1>3, <1>6
  <2>2. n \in 1..Len(accepted) /\ m \in 1..Len(accepted)
    BY <1>3, <2>1
  <2>3. QED
    BY <1>1, <1>3, <2>2 DEF QueueByQueue
<1>14. Alone'
  BY <1>1 DEF Places, Alone
<1>15. QED
  BY <1>9, <1>10, <1>11, <1>12, <1>13, <1>14 DEF Places

\* A worker takes the head of its queue.
LEMMA BeginPlaces ==
  ASSUME TypeOK, Places, NEW q \in Queues, NEW i \in 1..Workers, Begin(q, i)
  PROVE  Places' /\ (QueueByQueue => QueueByQueue')
<1> DEFINE f == Head(queue[q])
<1>1. UNCHANGED <<chosen, recv, accepted, ended>> /\ worker[q][i] = None
  BY DEF Begin, select
<1>2. queue[q] \in Seq(Frames) /\ queue[q] # <<>>
  BY DEF Begin, TypeOK
<1>3. /\ Len(queue[q]) \in Nat /\ 1 \in 1..Len(queue[q]) /\ f = queue[q][1] /\ f \in Frames
      /\ \A k \in 1..Len(Tail(queue[q])) :
            \E l \in 1..Len(queue[q]) : l = k + 1 /\ Tail(queue[q])[k] = queue[q][l]
      /\ \A l \in 1..Len(queue[q]) :
            l = 1 \/ \E k \in 1..Len(Tail(queue[q])) : l = k + 1 /\ Tail(queue[q])[k] = queue[q][l]
  BY <1>2, TailOf
<1>4. queue'[q] = Tail(queue[q]) /\ \A p \in Queues : p # q => queue'[p] = queue[p]
  BY DEF Begin, TypeOK
<1>5. /\ \A k \in 1..Len(queue'[q]) :
            \E l \in 1..Len(queue[q]) : l = k + 1 /\ queue'[q][k] = queue[q][l]
      /\ \A l \in 1..Len(queue[q]) :
            l = 1 \/ \E k \in 1..Len(queue'[q]) : l = k + 1 /\ queue'[q][k] = queue[q][l]
  BY <1>3, <1>4
<1>6. /\ worker'[q][i] = f
      /\ \A p \in Queues : \A j \in 1..Workers : (p # q \/ j # i) => worker'[p][j] = worker[p][j]
  <2>1. worker' = [worker EXCEPT ![q][i] = f]
    BY DEF Begin
  <2> HIDE DEF f
  <2>2. QED
    BY <2>1 DEF TypeOK
<1> HIDE DEF f
<1>7. \A g, h : Before(accepted', g, h) <=> Before(accepted, g, h)
  BY <1>1 DEF Before
<1>8. \A p \in Queues : \A k \in 1..Len(queue'[p]) :
         \E l \in 1..Len(queue[p]) : l >= k /\ (p = q => l = k + 1) /\ (p # q => l = k)
                                     /\ queue'[p][k] = queue[p][l]
  <2> SUFFICES ASSUME NEW p \in Queues, NEW k \in 1..Len(queue'[p])
               PROVE  \E l \in 1..Len(queue[p]) : l >= k /\ (p = q => l = k + 1) /\ (p # q => l = k)
                                     /\ queue'[p][k] = queue[p][l]
    OBVIOUS
  <2>1. CASE p = q
    BY <1>5, <2>1
  <2>2. CASE p # q
    BY <1>4, <2>2
  <2>3. QED
    BY <2>1, <2>2
<1>9. TakenOnce'
  BY <1>1 DEF Places, TakenOnce
<1>10. QueueOrder'
  <2>1. ASSUME NEW p \in Queues, NEW k \in 1..Len(queue'[p])
        PROVE  chosen'[queue'[p][k]] = p /\ recv'[queue'[p][k]] = "queued" /\ queue'[p][k] \notin ended'
    <3>1. PICK l \in 1..Len(queue[p]) : queue'[p][k] = queue[p][l]
      BY <1>8
    <3>2. QED
      BY <1>1, <3>1 DEF Places, QueueOrder
  <2>2. ASSUME NEW p \in Queues, NEW k \in 1..Len(queue'[p]), NEW l \in 1..Len(queue'[p]), k < l
        PROVE  Before(accepted', queue'[p][k], queue'[p][l])
    <3>1. PICK m \in 1..Len(queue[p]) : /\ (p = q => m = k + 1) /\ (p # q => m = k)
                                        /\ queue'[p][k] = queue[p][m]
      BY <1>8
    <3>2. PICK n \in 1..Len(queue[p]) : /\ (p = q => n = l + 1) /\ (p # q => n = l)
                                        /\ queue'[p][l] = queue[p][n]
      BY <1>8
    <3>3. m < n
      BY <2>2, <3>1, <3>2
    <3>4. Before(accepted, queue[p][m], queue[p][n])
      BY <3>3 DEF Places, QueueOrder
    <3>5. QED
      BY <1>1, <3>1, <3>2, <3>4 DEF Before
  <2>3. QED
    BY <2>1, <2>2 DEF QueueOrder
<1>11. WorkerOrder'
  <2> SUFFICES ASSUME NEW p \in Queues, NEW j \in 1..Workers, worker'[p][j] \in Frames
               PROVE  /\ chosen'[worker'[p][j]] = p /\ recv'[worker'[p][j]] = "queued"
                      /\ worker'[p][j] \notin ended'
                      /\ \A k \in 1..Len(queue'[p]) : Before(accepted', worker'[p][j], queue'[p][k])
    BY DEF WorkerOrder
  <2>1. CASE p = q /\ j = i
    <3>1. chosen[f] = q /\ recv[f] = "queued" /\ f \notin ended
      BY <1>3 DEF Places, QueueOrder
    <3>2. ASSUME NEW k \in 1..Len(queue'[q]) PROVE Before(accepted', f, queue'[q][k])
      <4>1. PICK l \in 1..Len(queue[q]) : l = k + 1 /\ queue'[q][k] = queue[q][l]
        BY <1>5
      <4>2. 1 < l
        BY <4>1
      <4>3. Before(accepted, queue[q][1], queue[q][l])
        BY <1>3, <4>2 DEF Places, QueueOrder
      <4>4. QED
        BY <1>1, <1>3, <4>1, <4>3 DEF Before
    <3>3. \A k \in 1..Len(queue'[q]) : Before(accepted', worker'[q][i], queue'[q][k])
      BY <1>6, <3>2 DEF Before
    <3>4. QED
      BY <1>1, <1>6, <2>1, <3>1, <3>3
  <2>2. CASE ~(p = q /\ j = i)
    <3>1. worker'[p][j] = worker[p][j]
      BY <1>6, <2>2
    <3>2. /\ chosen[worker[p][j]] = p /\ recv[worker[p][j]] = "queued" /\ worker[p][j] \notin ended
          /\ \A k \in 1..Len(queue[p]) : Before(accepted, worker[p][j], queue[p][k])
      BY <3>1 DEF Places, WorkerOrder
    <3>3. ASSUME NEW k \in 1..Len(queue'[p]) PROVE Before(accepted', worker'[p][j], queue'[p][k])
      <4>1. PICK l \in 1..Len(queue[p]) : queue'[p][k] = queue[p][l]
        BY <1>8
      <4>2. QED
        BY <1>1, <3>1, <3>2, <4>1 DEF Before
    <3>4. QED
      BY <1>1, <3>1, <3>2, <3>3
  <2>3. QED
    BY <2>1, <2>2
<1>12. Somewhere'
  <2> SUFFICES ASSUME NEW n \in 1..Len(accepted)
               PROVE  \/ accepted[n] \in ended
                      \/ \E j \in 1..Workers : worker'[chosen[accepted[n]]][j] = accepted[n]
                      \/ \E k \in 1..Len(queue'[chosen[accepted[n]]]) :
                            queue'[chosen[accepted[n]]][k] = accepted[n]
    BY SMTT(60), <1>1 DEF Somewhere
  <2> DEFINE g == accepted[n]
  <2>1. g \in Frames /\ chosen[g] \in Queues
    BY DEF TypeOK
  <2>2. \/ g \in ended \/ (\E j \in 1..Workers : worker[chosen[g]][j] = g)
        \/ \E k \in 1..Len(queue[chosen[g]]) : queue[chosen[g]][k] = g
    BY DEF Places, Somewhere
  <2> HIDE DEF g
  <2>3. ASSUME NEW j \in 1..Workers, worker[chosen[g]][j] = g
        PROVE  worker'[chosen[g]][j] = g
    BY <1>1, <1>6, <2>1, <2>3, DispatcherAssumption
  <2>4. ASSUME NEW k \in 1..Len(queue[chosen[g]]), queue[chosen[g]][k] = g
        PROVE  \/ \E j \in 1..Workers : worker'[chosen[g]][j] = g
               \/ \E l \in 1..Len(queue'[chosen[g]]) : queue'[chosen[g]][l] = g
    <3>1. CASE chosen[g] # q
      BY <1>4, <2>1, <2>4, <3>1
    <3>2. CASE chosen[g] = q /\ k = 1
      BY <1>3, <1>6, <2>4, <3>2
    <3>3. CASE chosen[g] = q /\ k # 1
      <4>1. k \in 1..Len(queue[q]) /\ queue[q][k] = g
        BY <2>4, <3>3
      <4>2. PICK l \in 1..Len(queue'[q]) : queue'[q][l] = queue[q][k]
        BY <1>5, <3>3, <4>1
      <4>3. QED
        BY <3>3, <4>1, <4>2
    <3>4. QED
      BY <3>1, <3>2, <3>3
  <2>5. QED
    BY <2>2, <2>3, <2>4 DEF g
<1>13. QueueByQueue => QueueByQueue'
  BY <1>1 DEF QueueByQueue
<1>14. Alone'
  <2>1. \A p \in Queues : \A j \in 1..Workers : worker[p][j] \in Frames => worker[p][j] # f
    <3> SUFFICES ASSUME NEW p \in Queues, NEW j \in 1..Workers, worker[p][j] \in Frames,
                        worker[p][j] = f
                 PROVE  FALSE
      OBVIOUS
    <3>1. chosen[f] = p /\ \A k \in 1..Len(queue[p]) : Before(accepted, f, queue[p][k])
      BY DEF Places, WorkerOrder
    <3>2. chosen[f] = q
      BY <1>3 DEF Places, QueueOrder
    <3>3. Before(accepted, f, f)
      BY <1>3, <3>1, <3>2
    <3>4. QED
      BY <3>3 DEF Before, Places, TakenOnce
  <2>2. QED
    BY <1>1, <1>3, <1>6, <2>1 DEF Places, Alone
<1>15. QED
  BY <1>9, <1>10, <1>11, <1>12, <1>13, <1>14 DEF Places

\* A frame is done.  With one worker no frame taken before it, of its queue, is left.
LEMMA EndPlaces ==
  ASSUME TypeOK, Places, NEW q \in Queues, NEW i \in 1..Workers, End(q, i)
  PROVE  Places' /\ (Workers = 1 /\ QueueByQueue => QueueByQueue')
<1> DEFINE f == worker[q][i]
<1>1. /\ UNCHANGED <<chosen, recv, accepted, queue>> /\ f \in Frames /\ ended' = ended \cup {f}
      /\ worker' = [worker EXCEPT ![q][i] = None]
  BY DEF End, select
<1>2. /\ worker'[q][i] = None
      /\ \A p \in Queues : \A j \in 1..Workers : (p # q \/ j # i) => worker'[p][j] = worker[p][j]
  <2>1. worker' = [worker EXCEPT ![q][i] = None] /\ None \in Frames \cup {None, "exit"}
    BY <1>1
  <2>2. QED
    BY ZenonT(60), <2>1, SlotChanged
<1>3. chosen[f] = q /\ recv[f] = "queued" /\ \A k \in 1..Len(queue[q]) : Before(accepted, f, queue[q][k])
  BY <1>1 DEF Places, WorkerOrder
<1> HIDE DEF f
<1>4. \A g \in Frames : ~Before(accepted, g, g)
  BY DEF Before, Places, TakenOnce
<1>5. \A p \in Queues : \A k \in 1..Len(queue[p]) : queue[p][k] # f
  <2> SUFFICES ASSUME NEW p \in Queues, NEW k \in 1..Len(queue[p]), queue[p][k] = f PROVE FALSE
    OBVIOUS
  <2>1. p = q
    BY <1>3 DEF Places, QueueOrder
  <2>2. QED
    BY <1>1, <1>3, <1>4, <2>1
<1>6. TakenOnce'
  BY <1>1, <1>3 DEF Places, TakenOnce
<1>7. QueueOrder'
  BY <1>1, <1>5 DEF Places, QueueOrder
<1>8. Somewhere'
  <2> SUFFICES ASSUME NEW n \in 1..Len(accepted)
               PROVE  \/ accepted[n] \in ended'
                      \/ \E j \in 1..Workers : worker'[chosen[accepted[n]]][j] = accepted[n]
                      \/ \E k \in 1..Len(queue[chosen[accepted[n]]]) :
                            queue[chosen[accepted[n]]][k] = accepted[n]
    BY <1>1 DEF Somewhere
  <2> DEFINE g == accepted[n]
  <2>1. g \in Frames /\ chosen[g] \in Queues
    BY DEF TypeOK
  <2>2. \/ g \in ended \/ (\E j \in 1..Workers : worker[chosen[g]][j] = g)
        \/ \E k \in 1..Len(queue[chosen[g]]) : queue[chosen[g]][k] = g
    BY DEF Places, Somewhere
  <2> HIDE DEF g
  <2>3. ASSUME NEW j \in 1..Workers, worker[chosen[g]][j] = g
        PROVE  g \in ended' \/ worker'[chosen[g]][j] = g
    BY <1>1, <1>2, <2>1, <2>3 DEF f
  <2>4. QED
    BY <1>1, <2>2, <2>3 DEF g
<1>9. Alone' /\ \A p \in Queues : \A j \in 1..Workers : worker'[p][j] # f
  <2>1. \A p \in Queues : \A j \in 1..Workers : worker[p][j] = f => p = q /\ j = i
    BY <1>1 DEF Places, Alone, f
  <2>2. f # None
    BY <1>1, DispatcherAssumption
  <2>3. \A p \in Queues : \A j \in 1..Workers : worker'[p][j] # f
    BY <1>2, <2>1, <2>2
  <2>4. Alone'
    BY <1>2, DispatcherAssumption DEF Places, Alone
  <2>5. QED
    BY <2>3, <2>4
<1>10. WorkerOrder'
  <2> SUFFICES ASSUME NEW p \in Queues, NEW j \in 1..Workers, worker'[p][j] \in Frames
               PROVE  /\ chosen'[worker'[p][j]] = p /\ recv'[worker'[p][j]] = "queued"
                      /\ worker'[p][j] \notin ended'
                      /\ \A k \in 1..Len(queue'[p]) :
                           Before(accepted', worker'[p][j], queue'[p][k])
    BY DEF WorkerOrder
  <2>1. worker'[p][j] = worker[p][j] /\ worker[p][j] # f
    BY <1>2, <1>9, DispatcherAssumption
  <2>2. QED
    BY <1>1, <2>1 DEF Places, WorkerOrder
<1>11. Workers = 1 /\ QueueByQueue => QueueByQueue'
  <2> SUFFICES ASSUME Workers = 1, QueueByQueue, NEW m \in 1..Len(accepted),
                      NEW n \in 1..Len(accepted), m < n,
                      chosen[accepted[m]] = chosen[accepted[n]], accepted[n] \in ended'
               PROVE  accepted[m] \in ended'
    BY <1>1 DEF QueueByQueue
  <2>1. CASE accepted[n] \in ended
    BY <1>1, <2>1 DEF QueueByQueue
  <2>2. CASE accepted[n] = f
    <3>1. chosen[accepted[m]] = q
      BY <1>3, <2>2
    <3>2. \/ accepted[m] \in ended \/ (\E j \in 1..Workers : worker[q][j] = accepted[m])
          \/ \E k \in 1..Len(queue[q]) : queue[q][k] = accepted[m]
      BY <3>1 DEF Places, Somewhere
    <3>3. \A j \in 1..Workers : worker[q][j] = f
      BY DEF f
    <3>4. ASSUME NEW k \in 1..Len(queue[q]), queue[q][k] = accepted[m] PROVE FALSE
      <4>1. PICK a, b \in 1..Len(accepted) : a < b /\ accepted[a] = f /\ accepted[b] = accepted[m]
        BY <1>3, <3>4 DEF Before
      <4>2. a = n /\ b = m
        BY <2>2, <4>1 DEF Places, TakenOnce
      <4>3. QED
        BY <4>1, <4>2
    <3>5. QED
      BY <1>1, <3>2, <3>3, <3>4
  <2>3. QED
    BY <1>1, <2>1, <2>2
<1>12. QED
  BY <1>6, <1>7, <1>8, <1>9, <1>10, <1>11 DEF Places

LEMMA ExitPlaces ==
  ASSUME TypeOK, Places, NEW q \in Queues, NEW i \in 1..Workers, WorkerExits(q, i)
  PROVE  Places' /\ (QueueByQueue => QueueByQueue')
<1>1. /\ UNCHANGED <<chosen, recv, accepted, queue, ended>> /\ worker[q][i] = None
      /\ worker' = [worker EXCEPT ![q][i] = "exit"]
  BY DEF WorkerExits, select
<1>2. /\ worker'[q][i] = "exit"
      /\ \A p \in Queues : \A j \in 1..Workers : (p # q \/ j # i) => worker'[p][j] = worker[p][j]
  BY <1>1 DEF TypeOK
<1>3. \A p \in Queues : \A j \in 1..Workers :
         (worker[p][j] \in Frames \/ worker'[p][j] \in Frames) => worker'[p][j] = worker[p][j]
  BY <1>1, <1>2, DispatcherAssumption
<1>4. TakenOnce' /\ QueueOrder' /\ (QueueByQueue => QueueByQueue')
  BY <1>1 DEF Places, TakenOnce, QueueOrder, QueueByQueue
<1>5. WorkerOrder' /\ Alone'
  BY <1>1, <1>3 DEF Places, WorkerOrder, Alone
<1>6. Somewhere'
  <2>1. \A n \in 1..Len(accepted) : accepted[n] \in Frames /\ chosen[accepted[n]] \in Queues
    BY DEF TypeOK
  <2>2. QED
    BY <1>1, <1>3, <2>1 DEF Places, Somewhere
<1>7. QED
  BY <1>4, <1>5, <1>6 DEF Places

LEMMA NextPlaces ==
  TypeOK /\ Places /\ [Next]_vars => Places' /\ (Workers = 1 /\ QueueByQueue => QueueByQueue')
<1> SUFFICES ASSUME TypeOK, Places, [Next]_vars
             PROVE  Places' /\ (Workers = 1 /\ QueueByQueue => QueueByQueue')
  OBVIOUS
<1>1. ASSUME NEW f \in Frames, OnReceive(f)
      PROVE  Places' /\ (QueueByQueue => QueueByQueue')
  <2>1. /\ UNCHANGED <<queue, worker, accepted, ended>> /\ recv[f] = "idle" /\ recv'[f] = "select"
        /\ \A g \in Frames : g # f => recv'[g] = recv[g] /\ chosen'[g] = chosen[g]
    BY <1>1 DEF OnReceive, TypeOK
  <2>2. QED
    BY <2>1, NoFrameMoves
<1>2. ASSUME NEW f \in Frames, NotQueued(f)
      PROVE  Places' /\ (QueueByQueue => QueueByQueue')
  <2>1. /\ UNCHANGED <<chosen, queue, worker, accepted, ended>> /\ recv[f] = "select"
        /\ recv'[f] # "queued" /\ \A g \in Frames : g # f => recv'[g] = recv[g]
    BY <1>2 DEF NotQueued, Answer, select, TypeOK
  <2>2. QED
    BY <2>1, NoFrameMoves
<1>3. CASE \/ \E q \in Queues : CloseQueue(q)
           \/ CancelAndShutdown \/ ShutdownReturns \/ UNCHANGED vars
  <2>1. UNCHANGED <<chosen, recv, queue, worker, accepted, ended>>
    BY <1>3 DEF CloseQueue, CancelAndShutdown, ShutdownReturns, vars, select
  <2>2. QED
    BY <2>1, NoFrameMoves
<1>4. QED
  BY <1>1, <1>2, <1>3, EnqueuePlaces, BeginPlaces, EndPlaces, ExitPlaces DEF Next

LEMMA NextByStrategy == TypeOK /\ ByStrategy /\ [Next]_vars => ByStrategy'
<1> SUFFICES ASSUME TypeOK, ByStrategy, [Next]_vars PROVE ByStrategy'
  OBVIOUS
<1>1. ASSUME NEW f \in Frames, OnReceive(f) PROVE ByStrategy'
  <2>1. /\ strategy' = strategy /\ chosen'[f] = SelectQueue(f)
        /\ \A g \in Frames : g # f => recv'[g] = recv[g] /\ chosen'[g] = chosen[g]
    BY <1>1 DEF OnReceive, TypeOK
  <2>2. /\ strategy = "conn" => SelectQueue(f) = hash[connOf[f]] % QueueCount
        /\ strategy = "subproto" => SelectQueue(f) = subOf[f] % QueueCount
        /\ strategy = "source_target" => SelectQueue(f) = hash[pairOf[f]] % QueueCount
    BY DEF SelectQueue
  <2>3. QED
    BY <2>1, <2>2 DEF ByStrategy
<1>2. CASE \A f \in Frames : ~OnReceive(f)
  <2>1. UNCHANGED <<strategy, chosen>>
    BY <1>2 DEF Next, vars, select, Enqueue, NotQueued, CloseQueue, Begin, End, WorkerExits,
                CancelAndShutdown, ShutdownReturns
  <2>2. ASSUME NEW f \in Frames, Enqueue(f) \/ NotQueued(f)
        PROVE  \A g \in Frames : recv[g] = "idle" => recv'[g] = "idle"
    BY <2>2 DEF Enqueue, NotQueued, Answer, TypeOK
  <2>3. recv' = recv \/ \E f \in Frames : Enqueue(f) \/ NotQueued(f)
    BY <1>2 DEF Next, vars, CloseQueue, Begin, End, WorkerExits, CancelAndShutdown, ShutdownReturns
  <2>4. \A g \in Frames : recv[g] = "idle" => recv'[g] = "idle"
    BY <2>2, <2>3
  <2>5. QED
    BY <2>1, <2>4 DEF ByStrategy
<1>3. QED
  BY <1>1, <1>2

\* Frames of one queue that were taken in some order are done in it; frames
\* kept together share a queue.
LEMMA OrderOfQueues == TypeOK /\ Places /\ ByStrategy /\ QueueByQueue => RoutedInOrder
<1> SUFFICES ASSUME TypeOK, Places, ByStrategy, QueueByQueue,
                    NEW i \in 1..Len(accepted), NEW j \in 1..Len(accepted), i < j,
                    Together(accepted[i], accepted[j]), accepted[j] \in ended
             PROVE  accepted[i] \in ended
  BY DEF RoutedInOrder
<1>1. /\ accepted[i] \in Frames /\ accepted[j] \in Frames
      /\ recv[accepted[i]] # "idle" /\ recv[accepted[j]] # "idle"
  BY DEF TypeOK, Places, TakenOnce
<1>2. chosen[accepted[i]] = chosen[accepted[j]]
  BY <1>1 DEF ByStrategy, Together
<1>3. QED
  BY <1>2 DEF QueueByQueue

\* With one worker per queue, frames that the strategy keeps together are done
\* in the order in which the queues took them, for every number and length of
\* queues and whatever the hash function.
THEOREM OrderKept == Workers = 1 => (Spec => []RoutedInOrder)
<1> SUFFICES ASSUME Workers = 1 PROVE Spec => []RoutedInOrder
  OBVIOUS
<1> DEFINE Inv == TypeOK /\ Places /\ ByStrategy /\ QueueByQueue
<1>1. Init => Inv
  BY InitType, InitPlaces
<1>2. Inv /\ [Next]_vars => Inv'
  BY NextType, NextPlaces, NextByStrategy
<1>3. Inv => RoutedInOrder
  BY OrderOfQueues
<1> HIDE DEF Inv
<1>4. QED
  BY <1>1, <1>2, <1>3, PTL DEF Spec

\* With any number of workers a frame that was taken is in its queue, with one
\* worker of its queue, or done: none is lost and none is routed twice.
THEOREM NoFrameLost == Spec => [](TakenOnce /\ Alone /\ Somewhere)
<1> DEFINE Inv == TypeOK /\ Places
<1>1. Init => Inv
  BY InitType, InitPlaces
<1>2. Inv /\ [Next]_vars => Inv'
  BY NextType, NextPlaces
<1>3. Inv => TakenOnce /\ Alone /\ Somewhere
  BY DEF Places
<1> HIDE DEF Inv
<1>4. QED
  BY <1>1, <1>2, <1>3, PTL DEF Spec

-----------------------------------------------------------------------------
(* What the end of a queue leaves behind *)

\* A worker ends at a closed, empty queue, and nothing comes after.
Drained ==
  \A q \in Queues : \A i \in 1..Workers :
    worker[q][i] = "exit" => q \in closed /\ queue[q] = <<>>

LEMMA NextDrained == TypeOK /\ Drained /\ [Next]_vars => Drained'
<1> SUFFICES ASSUME TypeOK, Drained, [Next]_vars, NEW q \in Queues, NEW i \in 1..Workers,
                    worker'[q][i] = "exit"
             PROVE  q \in closed' /\ queue'[q] = <<>>
  BY DEF Drained
<1>1. ASSUME NEW f \in Frames, Enqueue(f) PROVE q \in closed' /\ queue'[q] = <<>>
  <2>1. chosen[f] \notin closed /\ closed' = closed /\ worker' = worker
    BY <1>1 DEF Enqueue
  <2>2. queue[q] = <<>> /\ q \in closed
    BY <2>1 DEF Drained
  <2>3. queue'[q] = queue[q]
    BY <1>1, <2>1, <2>2 DEF Enqueue, TypeOK
  <2>4. QED
    BY <2>1, <2>2, <2>3
<1>2. ASSUME NEW p \in Queues, NEW j \in 1..Workers, Begin(p, j)
      PROVE  q \in closed' /\ queue'[q] = <<>>
  <2>1. /\ queue[p] # <<>> /\ Head(queue[p]) \in Frames /\ closed' = closed
        /\ worker' = [worker EXCEPT ![p][j] = Head(queue[p])]
        /\ queue' = [queue EXCEPT ![p] = Tail(@)]
    BY <1>2, TailOf DEF Begin, TypeOK
  <2>2. worker[q][i] = "exit"
    BY <2>1, DispatcherAssumption DEF TypeOK
  <2>3. q \in closed /\ queue[q] = <<>>
    BY <2>2 DEF Drained
  <2>4. queue'[q] = queue[q]
    BY <2>1, <2>3 DEF TypeOK
  <2>5. QED
    BY <2>1, <2>3, <2>4
<1>3. ASSUME NEW p \in Queues, NEW j \in 1..Workers, End(p, j)
      PROVE  q \in closed' /\ queue'[q] = <<>>
  <2>1. UNCHANGED <<closed, queue>> /\ worker' = [worker EXCEPT ![p][j] = None]
    BY <1>3 DEF End
  <2>2. worker[q][i] = "exit"
    BY <2>1, DispatcherAssumption DEF TypeOK
  <2>3. QED
    BY <2>1, <2>2 DEF Drained
<1>4. ASSUME NEW p \in Queues, NEW j \in 1..Workers, WorkerExits(p, j)
      PROVE  q \in closed' /\ queue'[q] = <<>>
  <2>1. /\ UNCHANGED <<closed, queue>> /\ worker' = [worker EXCEPT ![p][j] = "exit"]
        /\ queue[p] = <<>> /\ p \in closed
    BY <1>4 DEF WorkerExits
  <2>2. p = q \/ worker[q][i] = "exit"
    BY <2>1 DEF TypeOK
  <2>3. QED
    BY <2>1, <2>2 DEF Drained
<1>5. CASE \/ \E f \in Frames : OnReceive(f) \/ NotQueued(f)
           \/ \E p \in Queues : CloseQueue(p)
           \/ CancelAndShutdown \/ ShutdownReturns \/ UNCHANGED vars
  <2>1. UNCHANGED <<queue, worker>> /\ closed \subseteq closed'
    BY <1>5 DEF OnReceive, NotQueued, CloseQueue, CancelAndShutdown, ShutdownReturns, vars, select
  <2>2. QED
    BY <2>1 DEF Drained
<1>6. QED
  BY <1>1, <1>2, <1>3, <1>4, <1>5 DEF Next

\* When the workers of a queue have ended, what Shutdown waits for, every frame the
\* queue took has been routed: a frame that was taken is in its queue, with a
\* worker or done, and the queue is closed and empty.
THEOREM ShutdownLeavesNothing == Spec => []NothingLeft
<1> DEFINE Inv == TypeOK /\ Places /\ Drained
<1>1. Init => Inv
  <2>1. Init => Drained
    BY DispatcherAssumption DEF Init, Drained
  <2>2. QED
    BY <2>1, InitType, InitPlaces
<1>2. Inv /\ [Next]_vars => Inv'
  BY NextType, NextPlaces, NextDrained
<1>3. Inv => NothingLeft
  <2> SUFFICES ASSUME TypeOK, Places, Drained, NEW f \in Frames, recv[f] = "queued",
                      \A i \in 1..Workers : worker[chosen[f]][i] = "exit"
               PROVE  f \in ended
    BY DEF NothingLeft
  <2>1. chosen[f] \in Queues /\ 1 \in 1..Workers
    BY DispatcherAssumption DEF TypeOK
  <2>2. queue[chosen[f]] = <<>>
    BY <2>1 DEF Drained
  <2>3. \A i \in 1..Workers : worker[chosen[f]][i] # f
    BY DispatcherAssumption
  <2>4. PICK n \in 1..Len(accepted) : accepted[n] = f
    BY DEF Places, TakenOnce
  <2>5. QED
    BY <2>2, <2>3, <2>4 DEF Places, Somewhere
<1> HIDE DEF Inv
<1>4. QED
  BY <1>1, <1>2, <1>3, PTL DEF Spec
=============================================================================
