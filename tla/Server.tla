------------------------------- MODULE Server -------------------------------
(***************************************************************************)
(* server.Server: Start, the accept loop, one serveConn goroutine per      *)
(* connection, the parent link's reconnect loop and Stop, around a         *)
(* connection manager reduced to which connections it holds (ConnManager   *)
(* has the rest; connection IDs are unique here).                          *)
(*                                                                         *)
(* A connection is "none" until accepted or dialled, "open" until Add,     *)
(* then "managed"; Remove makes it "removed", its OnRemove hook "hooked",  *)
(* and Close "closed".  Hooks run in the goroutine that called Add or      *)
(* Remove.                                                                 *)
(***************************************************************************)
EXTENDS Naturals, FiniteSets

CONSTANTS
  Children,   \* connections the listener may accept
  Parents,    \* connections the parent dialer may return
  StopMayExpire,  \* the context given to Stop may end while it waits
  None

ASSUME ServerAssumption == /\ Children \cap Parents = {}
                           /\ None \notin Children \cup Parents
                           /\ StopMayExpire \in BOOLEAN

Conns == Children \cup Parents

VARIABLES
  start,      \* Server.start
  ctxDone,    \* Server.ctx is cancelled
  st,         \* the life of each connection
  pipeClosed, \* connections whose pipe is closed
  serve,      \* serveConn of each connection: "none", "reading", "removing", "done"
  lst,        \* listener: [pc, conn]
  ppc, pconn, \* runParentLink: where it is and its variable conn
  connID,     \* parentState.connID
  down,       \* parentState.down: "nil" or open; and the channel the loop waits on
  stop,       \* Stop: "idle", "cancelled", "waiting", "closing", "sweeping",
              \* "returned", "expired"
  sweep,      \* CloseAll: the connections of its snapshot
  earlyDown   \* history: parents whose OnRemove hook ran before their setConn

loop == <<ppc, pconn, connID, down, earlyDown>>
halt == <<stop, sweep>>
vars == <<start, ctxDone, st, pipeClosed, serve, lst, loop, halt>>

Init ==
  /\ start = FALSE /\ ctxDone = FALSE
  /\ st = [c \in Conns |-> "none"]
  /\ pipeClosed = {} /\ serve = [c \in Conns |-> "none"]
  /\ lst = [pc |-> "off", conn |-> None]
  /\ ppc = "off" /\ pconn = None /\ connID = None /\ down = "nil"
  /\ stop = "idle" /\ sweep = {} /\ earlyDown = {}

Managed == {c \in Conns : st[c] = "managed"}
Set(c, s) == st' = [st EXCEPT ![c] = s]
Serve(c, s) == serve' = [serve EXCEPT ![c] = s]

\* Start: the context, the hooks, the parent loop and the listener.
Start ==
  /\ ~start /\ stop = "idle"
  /\ start' = TRUE
  /\ lst' = [lst EXCEPT !.pc = "accept"]
  /\ ppc' = IF Parents = {} THEN "exit" ELSE "check"
  /\ UNCHANGED <<ctxDone, st, pipeClosed, serve, pconn, connID, down, earlyDown, halt>>

-----------------------------------------------------------------------------
(* The listener *)

\* Until lst.Close in Stop; a connection may still be accepted after cancel.
Accept(c) ==
  /\ lst.pc = "accept" /\ stop \in {"idle", "cancelled"} /\ c \in Children /\ st[c] = "none"
  /\ lst' = [pc |-> "add", conn |-> c]
  /\ Set(c, "open")
  /\ UNCHANGED <<start, ctxDone, pipeClosed, serve, loop, halt>>

ListenerAdds ==
  /\ lst.pc = "add"
  /\ Set(lst.conn, "managed")
  /\ lst' = [lst EXCEPT !.pc = "onadd"]
  /\ UNCHANGED <<start, ctxDone, pipeClosed, serve, loop, halt>>

\* The OnAdd hook: go serveConn.
ListenerOnAdd ==
  /\ lst.pc = "onadd"
  /\ Serve(lst.conn, "reading")
  /\ lst' = [pc |-> "accept", conn |-> None]
  /\ UNCHANGED <<start, ctxDone, st, pipeClosed, loop, halt>>

\* Cancelling the context, or Stop, closes the listener: Accept fails.
ListenerExits ==
  /\ lst.pc = "accept" /\ ctxDone
  /\ lst' = [lst EXCEPT !.pc = "exit"]
  /\ UNCHANGED <<start, ctxDone, st, pipeClosed, serve, loop, halt>>

-----------------------------------------------------------------------------
(* serveConn and the removal of connections *)

\* Faulty variant: serveConn ends without Remove.
ReadLoopOnly(c) ==
  /\ serve[c] = "reading"
  /\ pipeClosed' = IF ctxDone THEN pipeClosed \cup {c} ELSE pipeClosed
  /\ Serve(c, "done")
  /\ UNCHANGED <<start, ctxDone, st, lst, loop, halt>>

\* ReadLoop returns, by an error, by a closed pipe or by the cancelled context
\* (which closes the pipe), and serveConn calls Remove.
ReadLoopEnds(c) ==
  /\ serve[c] = "reading"
  /\ pipeClosed' = IF ctxDone THEN pipeClosed \cup {c} ELSE pipeClosed
  /\ IF st[c] = "managed" THEN Set(c, "removed") /\ Serve(c, "removing")
     ELSE Serve(c, "done") /\ UNCHANGED st
  /\ UNCHANGED <<start, ctxDone, lst, loop, halt>>

\* Remove by a handler or an eviction; CloseAll is StopClosesAll.
Remove(c) ==
  /\ st[c] = "managed"
  /\ Set(c, "removed")
  /\ UNCHANGED <<start, ctxDone, pipeClosed, serve, lst, loop, halt>>

\* Faulty variants: any removal wakes the loop; none does.
NotifyAny(c) ==
  IF down = "open" THEN down' = "closed" /\ connID' = None
  ELSE UNCHANGED <<down, connID>>

NotifyNone(c) == UNCHANGED <<down, connID>>

\* notifyDown: only the recorded connection wakes the loop.
NotifyDown(c) ==
  IF c = connID /\ down = "open" THEN down' = "closed" /\ connID' = None
  ELSE UNCHANGED <<down, connID>>

OnRemove(c) ==
  /\ st[c] = "removed"
  /\ Set(c, "hooked")
  /\ NotifyDown(c)
  /\ earlyDown' = IF c \in Parents /\ c = pconn /\ ppc \in {"onadd", "set"}
                  THEN earlyDown \cup {c} ELSE earlyDown
  /\ UNCHANGED <<start, ctxDone, pipeClosed, serve, lst, ppc, pconn, halt>>

Close(c) ==
  /\ st[c] = "hooked"
  /\ Set(c, "closed")
  /\ pipeClosed' = pipeClosed \cup {c}
  /\ UNCHANGED <<start, ctxDone, serve, lst, loop, halt>>

\* serveConn's own Remove returns and the WaitGroup is decremented.
ServeDone(c) ==
  /\ serve[c] = "removing" /\ st[c] = "closed"
  /\ Serve(c, "done")
  /\ UNCHANGED <<start, ctxDone, st, pipeClosed, lst, loop, halt>>

-----------------------------------------------------------------------------
(* runParentLink *)

AtP(from, to) == ppc = from /\ ppc' = to

CheckCtx ==
  /\ AtP("check", IF ctxDone THEN "exit" ELSE "dial")
  /\ UNCHANGED <<start, ctxDone, st, pipeClosed, serve, lst, pconn, connID, down, earlyDown, halt>>

DialOk(c) ==
  /\ AtP("dial", "add") /\ c \in Parents /\ st[c] = "none"
  /\ pconn' = c
  /\ Set(c, "open")
  /\ UNCHANGED <<start, ctxDone, pipeClosed, serve, lst, connID, down, earlyDown, halt>>

DialFails ==
  /\ AtP("dial", "sleep")
  /\ UNCHANGED <<start, ctxDone, st, pipeClosed, serve, lst, pconn, connID, down, earlyDown, halt>>

ParentAdd ==
  /\ AtP("add", "onadd")
  /\ Set(pconn, "managed")
  /\ UNCHANGED <<start, ctxDone, pipeClosed, serve, lst, pconn, connID, down, earlyDown, halt>>

\* Still inside Add, after the unlock: the OnAdd hook.
ParentOnAdd ==
  /\ AtP("onadd", "set")
  /\ Serve(pconn, "reading")
  /\ UNCHANGED <<start, ctxDone, st, pipeClosed, lst, pconn, connID, down, earlyDown, halt>>

\* setConn: a new channel for the connection just added.
SetConn ==
  /\ AtP("set", "wait")
  /\ connID' = pconn /\ down' = "open"
  /\ UNCHANGED <<start, ctxDone, st, pipeClosed, serve, lst, pconn, earlyDown, halt>>

WakeDown ==
  /\ AtP("wait", "sleep") /\ down = "closed"
  /\ down' = "nil"
  /\ UNCHANGED <<start, ctxDone, st, pipeClosed, serve, lst, pconn, connID, earlyDown, halt>>

WakeCtx ==
  /\ AtP("wait", "exit") /\ ctxDone
  /\ pipeClosed' = pipeClosed \cup {pconn}
  /\ UNCHANGED <<start, ctxDone, st, serve, lst, pconn, connID, down, earlyDown, halt>>

\* time.Sleep(retry), which nothing interrupts.
Sleep ==
  /\ AtP("sleep", "check")
  /\ UNCHANGED <<start, ctxDone, st, pipeClosed, serve, lst, pconn, connID, down, earlyDown, halt>>

-----------------------------------------------------------------------------
(* Stop *)

\* Faulty variant: the context is not cancelled.
StopCancelsNot ==
  /\ start /\ start' = FALSE
  /\ stop' = "cancelled"
  /\ UNCHANGED <<ctxDone, st, pipeClosed, serve, loop, sweep>>

StopCancels ==
  /\ start /\ start' = FALSE
  /\ ctxDone' = TRUE /\ stop' = "cancelled"
  /\ UNCHANGED <<st, pipeClosed, serve, loop, sweep>>

StopCalled == StopCancels /\ UNCHANGED lst

\* Listen returned an error: its goroutine calls Stop with a background context.
ListenerFails ==
  /\ lst.pc = "accept" /\ ~ctxDone
  /\ lst' = [lst EXCEPT !.pc = "failed"]
  /\ StopCancels

\* Shutdown of process and sender, listener and event bus closed.
StopShutsDown ==
  /\ stop = "cancelled"
  /\ stop' = "waiting"
  /\ UNCHANGED <<start, ctxDone, st, pipeClosed, serve, lst, loop, sweep>>

\* wg.Wait: no serveConn is running.
WgZero == \A c \in Conns : serve[c] \in {"none", "done"}

StopWaited ==
  /\ stop = "waiting" /\ WgZero
  /\ stop' = "closing"
  /\ UNCHANGED <<start, ctxDone, st, pipeClosed, serve, lst, loop, sweep>>

StopExpires ==
  /\ stop = "waiting" /\ StopMayExpire /\ lst.pc # "failed"
  /\ stop' = "expired"
  /\ UNCHANGED <<start, ctxDone, st, pipeClosed, serve, lst, loop, sweep>>

\* Faulty variant: CloseAll closes the connections without running the hook.
StopClosesUnhooked ==
  /\ stop = "closing" /\ stop' = "sweeping"
  /\ sweep' = Managed
  /\ st' = [c \in Conns |-> IF st[c] = "managed" THEN "hooked" ELSE st[c]]
  /\ UNCHANGED <<start, ctxDone, pipeClosed, serve, lst, loop>>

\* CloseAll empties the table; its hooks and Closes are OnRemove and Close.
StopClosesAll ==
  /\ stop = "closing" /\ stop' = "sweeping"
  /\ sweep' = Managed
  /\ st' = [c \in Conns |-> IF st[c] = "managed" THEN "removed" ELSE st[c]]
  /\ UNCHANGED <<start, ctxDone, pipeClosed, serve, lst, loop>>

StopReturns ==
  /\ stop = "sweeping" /\ \A c \in sweep : st[c] = "closed"
  /\ stop' = "returned"
  /\ UNCHANGED <<start, ctxDone, st, pipeClosed, serve, lst, loop, sweep>>

-----------------------------------------------------------------------------
ParentLoop == \/ CheckCtx \/ DialFails \/ (\E c \in Parents : DialOk(c))
              \/ ParentAdd \/ ParentOnAdd \/ SetConn \/ WakeDown \/ WakeCtx \/ Sleep

Listener == ListenerAdds \/ ListenerOnAdd \/ ListenerExits

StopSteps == StopShutsDown \/ StopWaited \/ StopClosesAll \/ StopReturns

Next ==
  \/ Start \/ StopCalled \/ ListenerFails \/ StopExpires
  \/ Listener \/ ParentLoop \/ StopSteps
  \/ \E c \in Conns : \/ Accept(c) \/ ReadLoopEnds(c) \/ Remove(c)
                      \/ OnRemove(c) \/ Close(c) \/ ServeDone(c)

Spec == Init /\ [][Next]_vars

\* Running goroutines go on; a read loop ends for sure once its pipe is closed
\* or the context is cancelled.  Peers, callers of Remove and of Stop are free.
Fairness ==
  /\ WF_vars(ParentLoop) /\ WF_vars(Listener) /\ WF_vars(StopSteps)
  /\ \A c \in Conns : /\ WF_vars((ctxDone \/ c \in pipeClosed) /\ ReadLoopEnds(c))
                      /\ WF_vars(OnRemove(c)) /\ WF_vars(Close(c)) /\ WF_vars(ServeDone(c))

FairSpec == Spec /\ Fairness

-----------------------------------------------------------------------------
(* Properties *)

TypeOK ==
  /\ start \in BOOLEAN /\ ctxDone \in BOOLEAN
  /\ st \in [Conns -> {"none", "open", "managed", "removed", "hooked", "closed"}]
  /\ pipeClosed \subseteq Conns
  /\ serve \in [Conns -> {"none", "reading", "removing", "done"}]
  /\ lst \in [pc : {"off", "accept", "add", "onadd", "exit", "failed"}, conn : Conns \cup {None}]
  /\ ppc \in {"off", "check", "dial", "add", "onadd", "set", "wait", "sleep", "exit"}
  /\ pconn \in Parents \cup {None} /\ connID \in Parents \cup {None}
  /\ down \in {"nil", "open", "closed"}
  /\ stop \in {"idle", "cancelled", "waiting", "closing", "sweeping", "returned", "expired"}
  /\ sweep \subseteq Conns
  /\ earlyDown \subseteq Parents

\* The node has one parent: the loop dials again only when the parent it added
\* before has left the manager.
OneParent == Cardinality(Managed \cap Parents) <= 1

\* No connection is orphaned: one that is accepted or dialled is in the hands of
\* the goroutine that adds it, and a managed one has a read loop, or one about to
\* be started, that takes it out when it ends.  So the end of the context, which
\* ends the read loops, reaches every connection, also those added after Stop
\* began and the one a dial returned meanwhile.
Attended ==
  \A c \in Conns :
    /\ st[c] = "open" => (lst.pc = "add" /\ lst.conn = c) \/ (ppc = "add" /\ pconn = c)
    /\ st[c] = "managed" => \/ serve[c] = "reading"
                            \/ lst.pc = "onadd" /\ lst.conn = c
                            \/ ppc = "onadd" /\ pconn = c

Gone(c) == st[c] \in {"hooked", "closed"}

\* A parent whose OnRemove hook has run has woken the loop that waits for it, or
\* the hook ran before setConn.
WokenUnlessEarly ==
  (ppc = "wait" /\ Gone(pconn)) => down = "closed" \/ pconn \in earlyDown

\* The loop goes back to dialling when its parent is lost, unless the hook ran
\* before setConn.
ReattachUnlessEarly ==
  (ppc = "wait" /\ st[pconn] = "closed" /\ pconn \notin earlyDown) ~> (ppc # "wait")

\* Once the context is cancelled, everything ends: the parent loop and the
\* listener exit, every connection is out of the manager with its pipe closed
\* and every serveConn is done, whatever was being added at that moment.
CancelReleases ==
  (ctxDone /\ ppc # "off") ~>
    (/\ ppc = "exit" /\ lst.pc \in {"exit", "failed"} /\ WgZero /\ Managed = {}
     /\ \A c \in Conns : st[c] # "none" => c \in pipeClosed)

\* Stop does not hang in wg.Wait.
StopEnds == (stop # "idle") ~> (stop \in {"returned", "expired"})

\* Where each connection is in the life the connection manager promises.
lifeOf == [c \in Conns |-> CASE st[c] \in {"none", "open"} -> "fresh"
                            [] st[c] = "hooked" -> "closing"
                            [] OTHER -> st[c]]

Life == INSTANCE ConnLife WITH life <- lifeOf

\* The server's use of the manager, Stop's sweep included, implements ConnLife
\* as ConnManager does: an added connection gets its hook, which closes its
\* writer, once and before it is closed, whoever takes it out.
LivesAsPromised == Life!Spec

\* What the comment on runParentLink says: the node attaches again by itself,
\* so a lost parent is always noticed.
Reattach == (ppc = "wait" /\ st[pconn] = "closed") ~> (ppc # "wait")
=============================================================================
