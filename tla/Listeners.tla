----------------------------- MODULE Listeners ------------------------------
(***************************************************************************)
(* The listeners of a server: MultiListener over a TCP, a QUIC and an      *)
(* RFCOMM listener, "rfcomm" on Bluez or "winsock" on Winsock.  Each       *)
(* child's Listen runs in a goroutine: the closed check, the bind that     *)
(* sets l.ln (l.nl), the accept loop                                       *)
(* that hands connections to the manager, and a watcher that calls Close   *)
(* when the context ends.  MultiListener.Close is called by its own        *)
(* context watcher, by Listen after an error, and by anybody outside.      *)
(***************************************************************************)
EXTENDS Bluez, Winsock

CONSTANTS
  Setups,     \* what a process may be set up with: [kids, dials, closes], the
              \* children given to MultiListener, whether it also dials over
              \* RFCOMM and whether it calls Close itself
  Socks       \* TCP connections and QUIC sessions that may come in

Kinds == {"tcp", "quic", "rfcomm", "winsock"}

ASSUME ListenersAssumption ==
  /\ Setups \subseteq [kids : Seq(Kinds) \ {<<>>}, dials : BOOLEAN, closes : BOOLEAN]
  /\ \A s \in Setups : \A i, j \in 1..Len(s.kids) : s.kids[i] = s.kids[j] => i = j
  /\ Socks \cap Nat = {}

Closers == {"watch", "recv", "ext"}

VARIABLES
  setup,    \* the member of Setups this process has
  ctx,      \* the context given to MultiListener.Listen is done
  cancel2,  \* cancel() of the derived context was called
  mpc,      \* MultiListener.Listen: "idle", "waiting", "returned"
  mclosed,  \* MultiListener.closed
  todo,     \* calls of MultiListener.Close: the child each closes next; 0: not begun
  taken,    \* results received from errCh
  firstErr, \* firstErr # nil
  pc,       \* Listen of each child: "off", "start", "checked", "accepting",
            \* "entering", "calling", "lost", "sleep", "stream", "got",
            \* "leaving", "returned"
  closed,   \* the children's closed flags
  ln,       \* l.ln of each child: "nil", "open", "closed"
  ret,      \* what Listen sends to errCh: "none", "nil", "err"
  held,     \* the connection the accept loop holds
  sock,     \* each of Socks: "none", "taken", "managed", "closed"
  early     \* history: children closed between their closed check and l.ln

N == Len(setup.kids)
Kids == {setup.kids[i] : i \in 1..N}

multi == <<setup, ctx, cancel2, mpc, mclosed, todo, taken, firstErr, early>>
child == <<pc, closed, ln, ret, held, sock>>
native == <<bluez, winsock>>
vars == <<multi, child, native>>

Ctx2 == ctx \/ cancel2

Init ==
  /\ BluezInit /\ WinsockInit /\ setup \in Setups
  /\ ctx = FALSE /\ cancel2 = FALSE /\ mpc = "idle" /\ mclosed = FALSE
  /\ todo = [g \in Closers |-> 0] /\ taken = {} /\ firstErr = FALSE /\ early = {}
  /\ pc = [c \in Kinds |-> "off"] /\ closed = {} /\ ln = [c \in Kinds |-> "nil"]
  /\ ret = [c \in Kinds |-> "none"] /\ held = [c \in Kinds |-> Err]
  /\ sock = [k \in Socks |-> "none"]

-----------------------------------------------------------------------------
(* A child listener *)

Go(c, from, to) == pc[c] = from /\ pc' = [pc EXCEPT ![c] = to]

\* Close of each kind: the flag, and the underlying listener if l.ln is set.
Stopped(c) == IF ln[c] = "open" THEN [ln EXCEPT ![c] = "closed"] ELSE ln
CloseTcp == closed' = closed \cup {"tcp"} /\ ln' = Stopped("tcp") /\ UNCHANGED native
CloseQuic == closed' = closed \cup {"quic"} /\ ln' = Stopped("quic") /\ UNCHANGED native
CloseRfcomm ==
  /\ closed' = closed \cup {"rfcomm"} /\ ln' = Stopped("rfcomm")
  /\ IF ln["rfcomm"] = "nil" THEN UNCHANGED <<bus, prof, raced>> ELSE ListenCleanup
  /\ UNCHANGED <<busSeq, calls, dpc, dctx, winsock>>
CloseWinsock(g) ==
  /\ closed' = closed \cup {"winsock"} /\ ln' = Stopped("winsock")
  /\ IF ln["winsock"] = "nil" THEN UNCHANGED winsock ELSE CloseListener(g)
  /\ UNCHANGED bluez

\* Faulty variant: Close returns at once when the flag is set already.
CloseChildOnce(c, g) ==
  IF c \in closed THEN UNCHANGED <<closed, ln, native>>
  ELSE CASE c = "tcp" -> CloseTcp [] c = "quic" -> CloseQuic
         [] c = "rfcomm" -> CloseRfcomm [] c = "winsock" -> CloseWinsock(g)

\* Close of child c, called by g.
CloseChild(c, g) ==
  CASE c = "tcp" -> CloseTcp [] c = "quic" -> CloseQuic
    [] c = "rfcomm" -> CloseRfcomm [] c = "winsock" -> CloseWinsock(g)

Return(c, v) ==
  /\ pc' = [pc EXCEPT ![c] = "returned"]
  /\ ret' = [ret EXCEPT ![c] = v]

\* The closed check at the entry of Listen.
ListenCheck(c) ==
  /\ pc[c] = "start"
  /\ IF c \in closed THEN Return(c, "err")
     ELSE pc' = [pc EXCEPT ![c] = "checked"] /\ UNCHANGED ret
  /\ UNCHANGED <<multi, closed, ln, held, sock, native>>

\* Refused before there is a listener: the address, the QUIC options and TLS
\* files, the RFCOMM options, the profile.
Refused(c) ==
  /\ pc[c] = "checked" /\ Return(c, "err")
  /\ UNCHANGED <<multi, closed, ln, held, sock>>
TcpRefused == Refused("tcp") /\ UNCHANGED native
QuicRefused == Refused("quic") /\ UNCHANGED native
RfcommRefused ==
  /\ Refused("rfcomm")
  /\ RegisterFails("listen") /\ UNCHANGED <<calls, dpc, dctx, raced, winsock>>
WinsockRefused == Refused("winsock") /\ UNCHANGED native

\* The listener, l.ln and the start of the context watcher.
Bind(c) ==
  /\ Go(c, "checked", "accepting")
  /\ ln' = [ln EXCEPT ![c] = "open"]
  /\ UNCHANGED <<multi, closed, ret, held, sock>>
TcpBind == Bind("tcp") /\ UNCHANGED native
QuicBind == Bind("quic") /\ UNCHANGED native
RfcommBind ==
  /\ Bind("rfcomm")
  /\ Register("listen") /\ UNCHANGED <<calls, dpc, dctx, raced, winsock>>
WinsockBind == Bind("winsock") /\ ListenNative /\ UNCHANGED bluez

\* Listen of the child is in its accept loop.
Running(c) == pc[c] \in {"accepting", "entering", "calling", "lost", "sleep", "stream", "got"}

\* The watcher, which lives from the bind to the return of Listen.
WatchCtx(c) ==
  /\ Running(c) /\ Ctx2
  /\ c \notin closed \/ ln[c] = "open"
  /\ CloseChild(c, "ctx")
  /\ UNCHANGED <<multi, pc, ret, held, sock>>

\* ln.Accept of TCP and QUIC; a QUIC session has yet to open its stream.
AcceptSock(c, k, to) ==
  /\ ln[c] = "open" /\ sock[k] = "none"
  /\ Go(c, "accepting", to)
  /\ sock' = [sock EXCEPT ![k] = "taken"] /\ held' = [held EXCEPT ![c] = k]
  /\ UNCHANGED <<multi, closed, ln, ret, native>>
TcpAccept(k) == AcceptSock("tcp", k, "got")
QuicAccept(k) == AcceptSock("quic", k, "stream")

\* AcceptStream answers, or fails: time-out, context or peer.
StreamOpened ==
  /\ Go("quic", "stream", "got")
  /\ UNCHANGED <<multi, closed, ln, ret, held, sock, native>>
StreamFails ==
  /\ Go("quic", "stream", "accepting")
  /\ sock' = [sock EXCEPT ![held["quic"]] = "closed"] /\ held' = [held EXCEPT !["quic"] = Err]
  /\ UNCHANGED <<multi, closed, ln, ret, native>>

\* linuxBluezListener.Accept takes a connection from acceptCh.
RfcommAccept ==
  LET q == prof["listen"].queue IN
  /\ Go("rfcomm", "accepting", "got")
  /\ q # <<>> /\ Head(q) # Err
  /\ prof' = [prof EXCEPT !["listen"].queue = Tail(q)]
  /\ fd' = [fd EXCEPT ![Head(q)] = "taken"] /\ held' = [held EXCEPT !["rfcomm"] = Head(q)]
  /\ UNCHANGED <<multi, closed, ln, ret, sock>>
  /\ UNCHANGED <<bus, busSeq, at, storing, dpc, dctx, raced, winsock>>

\* Accept fails, for a close or for a reason of its own, and Listen returns:
\* normally when it was closed or the context has ended.  The defers close
\* the underlying listener; TCP's leaves the flag alone.
AcceptFails(c) ==
  /\ pc[c] = "accepting"
  /\ Return(c, IF c \in closed \/ Ctx2 THEN "nil" ELSE "err")
  /\ UNCHANGED <<multi, held, sock>>
TcpAcceptFails == AcceptFails("tcp") /\ ln' = Stopped("tcp") /\ UNCHANGED <<closed, native>>
QuicAcceptFails == AcceptFails("quic") /\ CloseQuic
RfcommAcceptFails ==
  /\ \/ prof["listen"].done
     \/ prof["listen"].queue # <<>> /\ Head(prof["listen"].queue) = Err
  /\ AcceptFails("rfcomm") /\ CloseRfcomm

\* winListener.Accept: the closed check, then the system call on lnSock; "lost"
\* waits at a socket that has its number by now.
WinsockAccept ==
  /\ closing.pc = "none" /\ Go("winsock", "accepting", "entering")
  /\ UNCHANGED <<multi, closed, ln, ret, held, sock, native>>
WinsockCall ==
  /\ Waits /\ Go("winsock", "entering", IF number = "other" THEN "lost" ELSE "calling")
  /\ EnterAccept
  /\ UNCHANGED <<multi, closed, ln, ret, held, sock, bluez>>
WinsockAccepted(k) ==
  /\ sock[k] = "none"
  /\ \/ number = "listener" /\ Go("winsock", "calling", "got")
     \/ Go("winsock", "lost", "got")
  /\ sock' = [sock EXCEPT ![k] = "taken"] /\ held' = [held EXCEPT !["winsock"] = k]
  /\ UNCHANGED <<multi, closed, ln, ret, native>>

\* The error the accept loop gets: of the check, of the call with a number that
\* means nothing, or of the call in progress.
WinsockFails ==
  \/ pc["winsock"] = "accepting" /\ closing.pc # "none"
  \/ pc["winsock"] = "entering" /\ (lnSock = "invalid" \/ number # "listener")
  \/ pc["winsock"] \in {"calling", "lost"}

\* Listen returns once its deferred Close has.
WinsockAcceptFails ==
  /\ WinsockFails
  /\ pc' = [pc EXCEPT !["winsock"] = "leaving"]
  /\ ret' = [ret EXCEPT !["winsock"] = IF "winsock" \in closed \/ Ctx2 THEN "nil" ELSE "err"]
  /\ CloseWinsock("listen")
  /\ UNCHANGED <<multi, held, sock>>
WinsockReturns ==
  /\ ~InClose("listen") /\ Go("winsock", "leaving", "returned")
  /\ UNCHANGED <<multi, closed, ln, ret, held, sock, native>>

\* A temporary error, of TCP or of Winsock: sleep and accept again.
AcceptTemporary(c) ==
  /\ c \notin closed /\ ~Ctx2
  /\ \/ c = "tcp" /\ ln[c] = "open" /\ Go(c, "accepting", "sleep")
     \/ c = "winsock" /\ Go(c, "calling", "sleep")
  /\ UNCHANGED <<multi, closed, ln, ret, held, sock, native>>
WakeUp(c) ==
  /\ Go(c, "sleep", "accepting")
  /\ UNCHANGED <<multi, closed, ln, ret, held, sock, native>>

\* cm.Add: the manager takes the connection, or refuses it and it is closed.
Added == {"managed", "closed"}
AddSock(c, s) ==
  /\ Go(c, "got", "accepting")
  /\ sock' = [sock EXCEPT ![held[c]] = s] /\ held' = [held EXCEPT ![c] = Err]
  /\ UNCHANGED <<multi, closed, ln, ret, native>>
TcpAdd == \E s \in Added : AddSock("tcp", s)
QuicAdd == \E s \in Added : AddSock("quic", s)
WinsockAdd == \E s \in Added : AddSock("winsock", s)
RfcommAdd ==
  /\ Go("rfcomm", "got", "accepting")
  /\ \E s \in Added : fd' = [fd EXCEPT ![held["rfcomm"]] = s]
  /\ held' = [held EXCEPT !["rfcomm"] = Err]
  /\ UNCHANGED <<multi, closed, ln, ret, sock>>
  /\ UNCHANGED <<bus, busSeq, prof, at, storing, dpc, dctx, raced, winsock>>

-----------------------------------------------------------------------------
(* MultiListener *)

\* Listen up to the goroutines of the children.
MultiListen ==
  /\ mpc = "idle"
  /\ IF mclosed THEN mpc' = "returned" /\ UNCHANGED pc
     ELSE mpc' = "waiting" /\ pc' = [c \in Kinds |-> IF c \in Kids THEN "start" ELSE "off"]
  /\ UNCHANGED <<setup, ctx, cancel2, mclosed, todo, taken, firstErr, early>>
  /\ UNCHANGED <<closed, ln, ret, held, sock, native>>

\* Close: the flag, then the children one after another.
CloseBegin(g) ==
  /\ todo[g] = 0
  /\ todo' = [todo EXCEPT ![g] = 1] /\ mclosed' = TRUE
CloseNext(g) ==
  /\ todo[g] \in 1..N /\ ~InClose(g)
  /\ todo' = [todo EXCEPT ![g] = @ + 1]
  /\ CloseChild(setup.kids[todo[g]], g)
  /\ early' = IF pc[setup.kids[todo[g]]] = "checked" THEN early \cup {setup.kids[todo[g]]} ELSE early
  /\ UNCHANGED <<setup, ctx, cancel2, mpc, mclosed, taken, firstErr, pc, ret, held, sock>>

\* The watcher of the derived context; a caller from outside.
MultiWatch ==
  /\ Ctx2 /\ (mpc = "waiting" \/ taken # {})
  /\ CloseBegin("watch")
  /\ UNCHANGED <<setup, ctx, cancel2, mpc, taken, firstErr, early, child, native>>
MultiClose ==
  /\ setup.closes
  /\ CloseBegin("ext")
  /\ UNCHANGED <<setup, ctx, cancel2, mpc, taken, firstErr, early, child, native>>

\* A result from errCh; the first error cancels the others and closes them.
MultiReceive(c) ==
  /\ mpc = "waiting" /\ todo["recv"] \in {0, N + 1} /\ ~InClose("recv")
  /\ pc[c] = "returned" /\ c \notin taken
  /\ taken' = taken \cup {c}
  /\ IF ret[c] = "err" /\ ~firstErr
     THEN firstErr' = TRUE /\ cancel2' = TRUE /\ CloseBegin("recv")
     ELSE UNCHANGED <<firstErr, cancel2, todo, mclosed>>
  /\ UNCHANGED <<setup, ctx, mpc, early, child, native>>

MultiReturn ==
  /\ mpc = "waiting" /\ todo["recv"] \in {0, N + 1} /\ ~InClose("recv") /\ taken = Kids
  /\ mpc' = "returned" /\ cancel2' = TRUE
  /\ UNCHANGED <<setup, ctx, mclosed, todo, taken, firstErr, early, child, native>>

CtxEnds ==
  /\ ~ctx /\ ctx' = TRUE
  /\ UNCHANGED <<setup, cancel2, mpc, mclosed, todo, taken, firstErr, early, child, native>>

TcpStep ==
  \/ TcpRefused \/ TcpBind \/ TcpAcceptFails \/ TcpAdd
  \/ \E k \in Socks : TcpAccept(k)
QuicStep ==
  \/ QuicRefused \/ QuicBind \/ QuicAcceptFails \/ StreamOpened \/ StreamFails \/ QuicAdd
  \/ \E k \in Socks : QuicAccept(k)
RfcommStep ==
  RfcommRefused \/ RfcommBind \/ RfcommAccept \/ RfcommAcceptFails \/ RfcommAdd
WinsockStep ==
  \/ WinsockRefused \/ WinsockBind \/ WinsockAccept \/ WinsockCall \/ WinsockAcceptFails
  \/ WinsockReturns \/ WinsockAdd \/ \E k \in Socks : WinsockAccepted(k)

MultiStep ==
  \/ MultiListen \/ MultiWatch \/ MultiClose \/ MultiReturn
  \/ \E c \in Kinds : MultiReceive(c)
  \/ \E g \in Closers : CloseNext(g)

Next ==
  \/ \E c \in Kinds : ListenCheck(c) \/ WatchCtx(c) \/ AcceptTemporary(c) \/ WakeUp(c)
  \/ TcpStep \/ QuicStep \/ RfcommStep \/ WinsockStep \/ MultiStep \/ CtxEnds
  \/ (CloseStep \/ NumberReused) /\ UNCHANGED <<multi, child, bluez>>
  \/ FromBluez /\ UNCHANGED <<multi, child, winsock>>
  \/ setup.dials /\ DialSteps /\ UNCHANGED <<multi, child, winsock>>

Spec == Init /\ [][Next]_vars

\* Goroutines run: Listen of MultiListener and of the children, an Accept
\* whose listener is closed, the watchers, the calls of Close and a handler
\* of a D-Bus call.  Connections, errors of the network, the end of the
\* context and calls from outside need not happen.
Fairness ==
  /\ WF_vars(MultiReturn) /\ WF_vars(MultiWatch)
  /\ \A c \in Kinds : WF_vars(MultiReceive(c)) /\ WF_vars(ListenCheck(c)) /\ WF_vars(WatchCtx(c))
  /\ \A g \in Closers : WF_vars(CloseNext(g))
  /\ WF_vars(TcpRefused \/ TcpBind) /\ WF_vars(\E c \in Kinds : WakeUp(c)) /\ WF_vars(TcpAdd)
  /\ WF_vars(ln["tcp"] = "closed" /\ TcpAcceptFails)
  /\ WF_vars(QuicRefused \/ QuicBind) /\ WF_vars(StreamFails) /\ WF_vars(QuicAdd)
  /\ WF_vars(ln["quic"] = "closed" /\ QuicAcceptFails)
  /\ WF_vars(RfcommRefused \/ RfcommBind) /\ WF_vars(RfcommAdd)
  /\ WF_vars(RfcommAccept) /\ WF_vars(RfcommAcceptFails)
  /\ \A f \in Fds : WF_vars(Handler(f) /\ UNCHANGED <<multi, child, winsock>>)
  /\ WF_vars(WinsockRefused \/ WinsockBind) /\ WF_vars(WinsockAdd) /\ WF_vars(WinsockReturns)
  /\ WF_vars(WinsockAccept \/ WinsockCall)
  /\ WF_vars(pc["winsock"] # "lost" /\ closing.pc \in {"forget", "done"} /\ WinsockAcceptFails)
  /\ WF_vars(CloseStep /\ UNCHANGED <<multi, child, bluez>>)

FairSpec == Spec /\ Fairness
-----------------------------------------------------------------------------
(* Properties *)

\* Who takes what arrives in a profile's acceptCh is still there.
Served(p) == IF p = "listen" THEN Running("rfcomm") ELSE DialWaits

\* A descriptor stays in acceptCh with nobody to take or close it only when
\* BlueZ handed it over before the listener closed or the dial was decided, or
\* in one of two gaps after the dial: a dial whose ConnectProfile failed calls
\* cleanup without finish, and NewConnection of the pipe that a dial took sets
\* closed only after the send.  Once cleanup has returned, or closed is set,
\* nothing is left behind (NewConnection, cleanup, Accept, the dial's select).
StrandedOnlyByRace ==
  \A f \in Fds : fd[f] = "queued" => Served(at[f]) \/ f \in raced

\* A listener that waits in Accept, not closed and not finished, is
\* registered with BlueZ, unless the cleanup of a dial has closed the bus
\* they share (Release, Cancel, both cleanup closures).  And the profile of a
\* dial is not cleaned up while the connection it returned is open, unless a
\* second connection found the backlog full.
ProfilesStayUsable ==
  /\ (Running("rfcomm") /\ "rfcomm" \notin closed /\ ~prof["listen"].done)
       => Reachable("listen") \/ prof["dial"].cleaned # "no"
  /\ \A f \in Fds : fd[f] = "dialled" => prof["dial"].cleaned # "owner"

\* When Listen of one child has returned, MultiListener.Listen returns, unless
\* a Close from outside met a child between its closed check and l.ln and no
\* error or cancellation followed.  The end of the context ends it in any case,
\* wherever the children are in their start, unless Accept of Winsock waits at
\* a socket that was given the listener's number.
ListenConverges ==
  /\ (\E c \in Kinds : ret[c] # "none") ~> (mpc = "returned" \/ (early # {} /\ ~Ctx2))
  /\ (ctx /\ mpc = "waiting") ~> (mpc = "returned" \/ "accept" \in strayed)

\* Close of the Winsock listener, called by the watcher, by Listen's defer and
\* from outside at once, closes its own socket and no other; only Accept can
\* stray to a socket that was given the number, and only after a Close.  When
\* Listen has returned by its own Close, the socket is closed and forgotten.
WinsockOwn ==
  /\ strayed \subseteq {"accept"} /\ (strayed # {} => "winsock" \in closed)
  /\ (pc["winsock"] = "returned" /\ closing.by = "listen") => number # "listener" /\ lnSock = "invalid"
=============================================================================
