------------------------- MODULE Listeners_proofs ---------------------------
(***************************************************************************)
(* Proofs about the listeners and about the streams they accept.           *)
(*                                                                         *)
(* Listeners: the Winsock listener and the two BlueZ profiles, under any   *)
(* set of children, any number of descriptors and any backlog.             *)
(*                                                                         *)
(* Wire: the frames on one stream, for any number of frames and any        *)
(* payloads, any header length, prefix and chunk sizes, over both pipes.   *)
(***************************************************************************)
EXTENDS Listeners, Wire, SequenceTheorems, TLAPS

-----------------------------------------------------------------------------
(* Types *)

ChildType ==
  /\ setup \in Setups
  /\ pc \in [Kinds -> {"off", "start", "checked", "accepting", "entering", "calling", "lost",
                       "sleep", "stream", "got", "leaving", "returned"}]
  /\ closed \in SUBSET Kinds
  /\ ln \in [Kinds -> {"nil", "open", "closed"}]
  /\ mpc = "idle" => \A c \in Kinds : pc[c] = "off"

WinsockType ==
  /\ lnSock \in {"none", "number", "invalid"} /\ number \in {"free", "listener", "other"}
  /\ record \in BOOLEAN
  /\ closing \in [pc : {"none", "delete", "socket", "forget", "done"},
                  by : {"none", "ctx", "listen", "watch", "recv", "ext"}]
  /\ strayed \in SUBSET {"accept", "close"}

ProfileSet ==
  [bus : Nat, registered : BOOLEAN, closed : BOOLEAN, done : BOOLEAN,
   queue : Seq(Fds \cup {Err}), cleaned : {"no", "owner", "overflow"}]

FdStates == {"none", "called", "checked", "queued", "taken", "managed", "dialled", "closed"}

BluezType ==
  /\ bus \in Nat /\ busSeq \in Nat
  /\ prof \in [Profiles -> ProfileSet]
  /\ \A p \in Profiles : Len(prof[p].queue) <= Backlog
  /\ fd \in [Fds -> FdStates]
  /\ at \in [Fds -> Profiles]
  /\ storing \in SUBSET Fds
  /\ dpc \in {"idle", "connect", "select", "cleanup", "ok", "failed"} /\ dctx \in BOOLEAN
  /\ raced \in SUBSET Fds

TypeOK == ChildType /\ WinsockType /\ BluezType

-----------------------------------------------------------------------------
(* The Winsock listener *)

\* Its socket, from the bind to the Close.
OwnSocket ==
  /\ ln["winsock"] = "nil" <=> lnSock = "none"
  /\ pc["winsock"] \in {"off", "start", "checked"} => ln["winsock"] = "nil"
  /\ lnSock # "none" /\ closing.pc \in {"none", "delete", "socket"} => number = "listener"
  /\ lnSock = "none" => closing.pc = "none" /\ number = "free"
  /\ closing.pc \in {"forget", "done"} => number # "listener"
  /\ closing.pc = "done" => lnSock = "invalid"

\* Whoever closes, the flag was set before; Listen leaves through its own Close.
ClosedBefore ==
  /\ closing.pc # "none" => "winsock" \in closed
  /\ closing.pc = "none" => closing.by = "none"
  /\ closing.by = "listen" => pc["winsock"] \in {"leaving", "returned"}
  /\ pc["winsock"] = "returned" /\ closing.by = "listen" => closing.pc = "done"

-----------------------------------------------------------------------------
(* The BlueZ profiles *)

\* A descriptor in NewConnection or in acceptCh has somebody to take it, was
\* handed over before that one left or in a gap after that, or will be refused.
Due(f) == Served(at[f]) \/ f \in raced \/ (fd[f] = "called" /\ prof[at[f]].closed)

Handed == \A f \in Fds : fd[f] \in {"called", "checked", "queued"} => Due(f)

\* BlueZ calls a profile that takes connections only while it is served, or in
\* one of the gaps.
CalledWhileServed ==
  /\ Running("rfcomm") => ln["rfcomm"] # "nil"
  /\ prof["listen"].registered => Running("rfcomm")
  /\ prof["dial"].registered /\ ~prof["dial"].closed =>
        Served("dial") \/ dpc = "cleanup" \/ storing # {}
  /\ prof["dial"].queue # <<>> => prof["dial"].closed \/ storing # {}

\* The life of a profile object.
ProfileLife ==
  /\ \A p \in Profiles : prof[p].registered => prof[p].bus # 0
  /\ prof["listen"].closed => prof["listen"].done
  /\ dpc = "idle" => /\ ~prof["dial"].registered /\ prof["dial"].cleaned = "no"
                     /\ \A f \in Fds : fd[f] \in {"called", "checked", "queued"} => at[f] # "dial"
  /\ dpc \in {"idle", "connect", "select", "cleanup"} => prof["dial"].cleaned # "owner"
  /\ \A f \in Fds : fd[f] = "dialled" => dpc = "ok"
  /\ \A f, g \in Fds : fd[f] = "dialled" /\ fd[g] = "dialled" => f = g

-----------------------------------------------------------------------------
(* Closing a child *)

LEMMA KidsAreKinds ==
  ASSUME ChildType, NEW n \in 1..N
  PROVE  setup.kids[n] \in Kinds
<1>1. setup.kids \in Seq(Kinds)
  BY ListenersAssumption DEF ChildType
<1>2. QED
  BY <1>1 DEF N

LEMMA StoppedListener ==
  ASSUME ChildType, NEW c \in Kinds, ln' = Stopped(c)
  PROVE  /\ ln' \in [Kinds -> {"nil", "open", "closed"}]
         /\ \A d \in Kinds : ln'[d] = "nil" <=> ln[d] = "nil"
  BY DEF ChildType, Stopped

\* Close sets the flag, stops the listener, and does more for RFCOMM only.
LEMMA CloseChildEffects ==
  ASSUME ChildType, NEW c \in Kinds, NEW g, CloseChild(c, g)
  PROVE  /\ closed' = closed \cup {c} /\ ln' = Stopped(c)
         /\ (c = "winsock" /\ ln["winsock"] # "nil" /\ CloseListener(g)) \/ UNCHANGED winsock
         /\ (c = "rfcomm" /\ CloseRfcomm) \/ UNCHANGED bluez
<1>1. CASE c = "tcp"
  BY <1>1 DEF CloseChild, CloseTcp, native, bluez, winsock
<1>2. CASE c = "quic"
  BY <1>2 DEF CloseChild, CloseQuic, native, bluez, winsock
<1>3. CASE c = "rfcomm"
  BY <1>3 DEF CloseChild, CloseRfcomm, bluez, winsock
<1>4. CASE c = "winsock"
  BY <1>4 DEF CloseChild, CloseWinsock, bluez, winsock
<1>5. QED
  BY <1>1, <1>2, <1>3, <1>4 DEF Kinds

-----------------------------------------------------------------------------
(* Children *)

LEMMA InitChild == Init => ChildType
  BY DEF Init, ChildType

\* What the steps do to setup, pc, closed, ln and mpc.
LEMMA NextChild == ChildType /\ [Next]_vars => ChildType'
<1> SUFFICES ASSUME ChildType, [Next]_vars PROVE ChildType'
  OBVIOUS
<1>1. ASSUME NEW c \in Kinds, ListenCheck(c) \/ AcceptTemporary(c) \/ WakeUp(c) PROVE ChildType'
  <2>1. CASE ListenCheck(c)
    BY <2>1 DEF ListenCheck, Return, multi, ChildType
  <2>2. CASE AcceptTemporary(c)
    BY <2>2 DEF AcceptTemporary, Go, multi, ChildType
  <2>3. CASE WakeUp(c)
    BY <2>3 DEF WakeUp, Go, multi, ChildType
  <2>4. QED
    BY <1>1, <2>1, <2>2, <2>3
<1>2. ASSUME NEW c \in Kinds, NEW g, CloseChild(c, g), UNCHANGED <<setup, mpc, pc>> PROVE ChildType'
  <2>1. closed' \in SUBSET Kinds /\ ln' \in [Kinds -> {"nil", "open", "closed"}]
    BY <1>2, CloseChildEffects, StoppedListener DEF ChildType
  <2>2. QED
    BY <1>2, <2>1 DEF ChildType
<1>3. ASSUME NEW c \in Kinds, WatchCtx(c) PROVE ChildType'
  <2>1. CloseChild(c, "ctx") /\ UNCHANGED <<setup, mpc, pc>>
    BY <1>3 DEF WatchCtx, multi
  <2>2. QED
    BY <1>2, <2>1
<1>4. ASSUME NEW g \in Closers, CloseNext(g) PROVE ChildType'
  <2>1. /\ setup.kids[todo[g]] \in Kinds /\ CloseChild(setup.kids[todo[g]], g)
        /\ UNCHANGED <<setup, mpc, pc>>
    BY <1>4, KidsAreKinds DEF CloseNext
  <2>2. QED
    BY <1>2, <2>1
<1>5. ASSUME NEW c \in Kinds, NEW to \in {"accepting", "stream", "got", "entering", "lost", "calling",
                                          "leaving", "returned"},
             pc[c] # "off", pc' = [pc EXCEPT ![c] = to], UNCHANGED <<setup, mpc>>,
             closed' \in SUBSET Kinds, ln' \in [Kinds -> {"nil", "open", "closed"}]
      PROVE  ChildType'
  BY <1>5 DEF ChildType
<1>6. \A c \in Kinds : ln' = Stopped(c) => ln' \in [Kinds -> {"nil", "open", "closed"}]
  BY StoppedListener
<1>7. closed \in SUBSET Kinds /\ ln \in [Kinds -> {"nil", "open", "closed"}]
      /\ \A c \in Kinds : [ln EXCEPT ![c] = "open"] \in [Kinds -> {"nil", "open", "closed"}]
  BY DEF ChildType
<1>8. {"tcp", "quic", "rfcomm", "winsock"} \subseteq Kinds
  BY DEF Kinds
<1>9. CASE TcpStep
  BY <1>5, <1>6, <1>7, <1>8, <1>9 DEF TcpStep, TcpRefused, Refused, Return, TcpBind, Bind, Go,
     TcpAcceptFails, AcceptFails, TcpAdd, AddSock, TcpAccept, AcceptSock, multi
<1>10. CASE QuicStep
  BY <1>5, <1>6, <1>7, <1>8, <1>10 DEF QuicStep, QuicRefused, Refused, Return, QuicBind, Bind, Go,
     QuicAcceptFails, AcceptFails, CloseQuic, StreamOpened, StreamFails, QuicAdd, AddSock,
     QuicAccept, AcceptSock, multi
<1>11. CASE RfcommStep
  BY <1>5, <1>6, <1>7, <1>8, <1>11 DEF RfcommStep, RfcommRefused, Refused, Return, RfcommBind, Bind,
     Go, RfcommAccept, RfcommAcceptFails, AcceptFails, CloseRfcomm, RfcommAdd, multi
<1>12. CASE WinsockStep
  BY <1>5, <1>6, <1>7, <1>8, <1>12 DEF WinsockStep, WinsockRefused, Refused, Return, WinsockBind, Bind,
     Go, WinsockAccept, WinsockCall, WinsockAcceptFails, WinsockFails, CloseWinsock, WinsockReturns,
     WinsockAdd, AddSock, WinsockAccepted, multi
<1>13. CASE MultiListen
  BY <1>13 DEF MultiListen, ChildType
<1>14. CASE MultiWatch \/ MultiClose \/ CtxEnds
  BY <1>14 DEF MultiWatch, MultiClose, CtxEnds, CloseBegin, child, ChildType
<1>15. CASE MultiReturn \/ \E c \in Kinds : MultiReceive(c)
  BY <1>15 DEF MultiReturn, MultiReceive, child, ChildType
<1>16. CASE UNCHANGED <<multi, child>>
  BY <1>16 DEF multi, child, ChildType
<1>17. QED
  BY <1>1, <1>3, <1>4, <1>9, <1>10, <1>11, <1>12, <1>13, <1>14, <1>15, <1>16
     DEF Next, MultiStep, vars

-----------------------------------------------------------------------------
(* Winsock *)

WinsockInv == WinsockType /\ OwnSocket /\ ClosedBefore

LEMMA InitWinsock == Init => WinsockInv /\ strayed = {}
<1> SUFFICES ASSUME Init PROVE WinsockInv /\ strayed = {}
  OBVIOUS
<1>1. /\ lnSock = "none" /\ number = "free" /\ record = FALSE /\ strayed = {}
      /\ closing = [pc |-> "none", by |-> "none"] /\ closing.pc = "none" /\ closing.by = "none"
      /\ ln["winsock"] = "nil" /\ pc["winsock"] = "off"
  BY DEF Init, WinsockInit, Kinds
<1>2. WinsockType
  BY <1>1 DEF WinsockType
<1>3. QED
  BY <1>1, <1>2 DEF WinsockInv, OwnSocket, ClosedBefore

\* Steps of the others, and of Listen before it has bound and in its loop.
LEMMA WinsockAside ==
  ASSUME ChildType, WinsockInv, UNCHANGED winsock,
         ln'["winsock"] = "nil" <=> ln["winsock"] = "nil", closed \subseteq closed',
         \/ pc'["winsock"] = pc["winsock"]
         \/ /\ pc["winsock"] \notin {"leaving", "returned"}
            /\ pc'["winsock"] \in {"off", "start", "checked"}
                 => pc["winsock"] \in {"off", "start", "checked"}
  PROVE  WinsockInv'
<1>1. WinsockType'
  BY DEF WinsockInv, WinsockType, winsock
<1>2. OwnSocket'
  BY DEF WinsockInv, OwnSocket, winsock
<1>3. ClosedBefore'
  BY DEF WinsockInv, ClosedBefore, winsock
<1>4. QED
  BY <1>1, <1>2, <1>3 DEF WinsockInv

\* The first Close, by g.
LEMMA WinsockCloses ==
  ASSUME ChildType, WinsockInv, NEW g \in {"ctx", "listen", "watch", "recv", "ext"},
         ln["winsock"] # "nil", ln'["winsock"] # "nil", CloseListener(g),
         closed' = closed \cup {"winsock"},
         \/ g # "listen" /\ pc'["winsock"] = pc["winsock"]
         \/ pc["winsock"] \notin {"off", "start", "checked", "leaving", "returned"}
            /\ pc'["winsock"] = "leaving"
  PROVE  WinsockInv'
<1>1. UNCHANGED <<lnSock, number, record, strayed>>
  BY DEF CloseListener
<1>2. CASE closing.pc = "none"
  <2>1. closing' = [pc |-> "delete", by |-> g]
    BY <1>2 DEF CloseListener
  <2>2. pc["winsock"] \notin {"off", "start", "checked"}
    BY DEF WinsockInv, OwnSocket
  <2>3. lnSock # "none"
    BY DEF WinsockInv, OwnSocket
  <2>4. WinsockType'
    BY <1>1, <2>1 DEF WinsockInv, WinsockType
  <2>5. ClosedBefore'
    BY <2>1 DEF WinsockInv, ClosedBefore
  <2>6. QED
    BY <1>1, <1>2, <2>1, <2>2, <2>3, <2>4, <2>5 DEF WinsockInv, OwnSocket
<1>3. CASE closing.pc # "none"
  <2>1. closing' = closing
    BY <1>3 DEF CloseListener
  <2>2. WinsockType'
    BY <1>1, <2>1 DEF WinsockInv, WinsockType
  <2>3. OwnSocket'
    BY <1>1, <2>1 DEF WinsockInv, OwnSocket
  <2>4. ClosedBefore'
    BY <2>1 DEF WinsockInv, ClosedBefore
  <2>5. QED
    BY <2>2, <2>3, <2>4 DEF WinsockInv
<1>4. QED
  BY <1>2, <1>3

\* One step inside Close, or of whoever got the number.
LEMMA WinsockSystem ==
  ASSUME WinsockInv, CloseStep \/ NumberReused, UNCHANGED <<pc, closed, ln>>
  PROVE  WinsockInv' /\ strayed' = strayed
<1>1. CASE DeleteService
  <2>1. /\ UNCHANGED <<lnSock, number, strayed>> /\ record' \in BOOLEAN
        /\ closing.pc = "delete" /\ closing' = [closing EXCEPT !.pc = "socket"]
    BY <1>1 DEF DeleteService, Closes, WinsockInv, WinsockType
  <2>2. WinsockType' /\ closing'.pc = "socket" /\ closing'.by = closing.by
    BY <2>1 DEF WinsockInv, WinsockType
  <2>3. QED
    BY <2>1, <2>2 DEF WinsockInv, OwnSocket, ClosedBefore
<1>2. CASE CloseSocket
  <2>1. /\ UNCHANGED <<lnSock, record>> /\ number' = "free"
        /\ closing.pc = "socket" /\ closing' = [closing EXCEPT !.pc = "forget"]
    BY <1>2 DEF CloseSocket, Closes
  <2>2. number = "listener"
    BY <2>1 DEF WinsockInv, OwnSocket
  <2>3. strayed' = strayed
    BY <1>2, <2>2 DEF CloseSocket
  <2>4. WinsockType' /\ closing'.pc = "forget" /\ closing'.by = closing.by
    BY <2>1, <2>3 DEF WinsockInv, WinsockType
  <2>5. QED
    BY <2>1, <2>3, <2>4 DEF WinsockInv, OwnSocket, ClosedBefore
<1>3. CASE Forget
  <2>1. /\ UNCHANGED <<number, record, strayed>> /\ lnSock' = "invalid"
        /\ closing.pc = "forget" /\ closing' = [closing EXCEPT !.pc = "done"]
    BY <1>3 DEF Forget, Closes
  <2>2. WinsockType' /\ closing'.pc = "done" /\ closing'.by = closing.by
    BY <2>1 DEF WinsockInv, WinsockType
  <2>3. QED
    BY <2>1, <2>2 DEF WinsockInv, OwnSocket, ClosedBefore
<1>4. CASE NumberReused
  <2>1. /\ UNCHANGED <<lnSock, record, closing, strayed>> /\ lnSock # "none"
        /\ number # "listener" /\ number' \in {"other", "free"}
    BY <1>4 DEF NumberReused
  <2>2. WinsockType'
    BY <2>1 DEF WinsockInv, WinsockType
  <2>3. QED
    BY <2>1, <2>2 DEF WinsockInv, OwnSocket, ClosedBefore
<1>5. QED
  BY <1>1, <1>2, <1>3, <1>4 DEF CloseStep

\* The steps of the Winsock child itself.
LEMMA WinsockOwnSteps ==
  ASSUME ChildType, WinsockInv, WinsockStep
  PROVE  /\ WinsockInv' /\ closed \subseteq closed'
         /\ strayed' = strayed \/ (strayed' = strayed \cup {"accept"} /\ "winsock" \in closed)
<1>0. "winsock" \in Kinds
  BY DEF Kinds
<1>1. ASSUME UNCHANGED <<winsock, ln, closed>>, pc["winsock"] \notin {"leaving", "returned"},
             \E to \in {"accepting", "got", "entering", "returned"} :
                pc' = [pc EXCEPT !["winsock"] = to]
      PROVE  WinsockInv' /\ closed \subseteq closed' /\ strayed' = strayed
  <2>1. pc'["winsock"] \in {"accepting", "got", "entering", "returned"}
    BY <1>0, <1>1 DEF ChildType
  <2>2. QED
    BY <1>1, <2>1, WinsockAside DEF winsock
<1>2. CASE WinsockRefused
  BY <1>1, <1>2 DEF WinsockRefused, Refused, Return, native
<1>3. CASE WinsockBind
  <2>1. /\ lnSock' = "number" /\ number' = "listener" /\ record' = TRUE
        /\ UNCHANGED <<closing, strayed, closed>>
    BY <1>3 DEF WinsockBind, ListenNative, Bind
  <2>2. ln'["winsock"] = "open" /\ pc'["winsock"] = "accepting" /\ pc["winsock"] = "checked"
    BY <1>0, <1>3 DEF WinsockBind, Bind, Go, ChildType
  <2>3. lnSock = "none" /\ closing.pc = "none" /\ closing.by = "none"
    BY <2>2 DEF WinsockInv, OwnSocket, ClosedBefore
  <2>4. WinsockType'
    BY <2>1 DEF WinsockInv, WinsockType
  <2>5. QED
    BY <2>1, <2>2, <2>3, <2>4 DEF WinsockInv, OwnSocket, ClosedBefore
<1>4. CASE WinsockAccept
  BY <1>1, <1>4 DEF WinsockAccept, Go, native
<1>5. CASE WinsockCall
  <2>1. /\ UNCHANGED <<lnSock, number, record, closing, closed, ln>>
        /\ strayed' = IF number = "other" THEN strayed \cup {"accept"} ELSE strayed
        /\ pc["winsock"] = "entering"
        /\ pc' = [pc EXCEPT !["winsock"] = IF number = "other" THEN "lost" ELSE "calling"]
    BY <1>5 DEF WinsockCall, EnterAccept, Go
  <2>2. pc'["winsock"] \in {"lost", "calling"}
    BY <1>0, <2>1 DEF ChildType
  <2>3. number = "other" => "winsock" \in closed
    BY DEF WinsockInv, WinsockType, OwnSocket, ClosedBefore
  <2>4. WinsockType'
    BY <2>1 DEF WinsockInv, WinsockType
  <2>5. OwnSocket'
    BY <2>1, <2>2 DEF WinsockInv, OwnSocket
  <2>6. ClosedBefore'
    BY <2>1, <2>2 DEF WinsockInv, ClosedBefore
  <2>7. QED
    BY <2>1, <2>3, <2>4, <2>5, <2>6 DEF WinsockInv
<1>6. CASE WinsockAcceptFails
  <2>1. /\ pc["winsock"] \in {"accepting", "entering", "calling", "lost"}
        /\ pc' = [pc EXCEPT !["winsock"] = "leaving"]
        /\ closed' = closed \cup {"winsock"} /\ ln' = Stopped("winsock")
        /\ IF ln["winsock"] = "nil" THEN UNCHANGED winsock ELSE CloseListener("listen")
    BY <1>6 DEF WinsockAcceptFails, WinsockFails, CloseWinsock
  <2>2. pc'["winsock"] = "leaving" /\ (ln'["winsock"] = "nil" <=> ln["winsock"] = "nil")
    BY <1>0, <2>1, StoppedListener DEF ChildType
  <2>3. CASE ln["winsock"] = "nil"
    <3>1. WinsockInv'
      BY <2>1, <2>2, <2>3, WinsockAside
    <3>2. QED
      BY <2>1, <2>3, <3>1 DEF winsock
  <2>4. CASE ln["winsock"] # "nil"
    <3>1. WinsockInv'
      BY <2>1, <2>2, <2>4, WinsockCloses
    <3>2. QED
      BY <2>1, <2>4, <3>1 DEF CloseListener
  <2>5. QED
    BY <2>3, <2>4
<1>7. CASE WinsockReturns
  <2>1. /\ UNCHANGED <<lnSock, number, record, closing, strayed, closed, ln>>
        /\ pc["winsock"] = "leaving" /\ pc' = [pc EXCEPT !["winsock"] = "returned"]
        /\ closing.by = "listen" => closing.pc = "done"
    BY <1>7 DEF WinsockReturns, Go, native, winsock, InClose
  <2>2. pc'["winsock"] = "returned"
    BY <1>0, <2>1 DEF ChildType
  <2>3. WinsockType'
    BY <2>1 DEF WinsockInv, WinsockType
  <2>4. OwnSocket'
    BY <2>1, <2>2 DEF WinsockInv, OwnSocket
  <2>5. ClosedBefore'
    BY <2>1, <2>2 DEF WinsockInv, ClosedBefore
  <2>6. QED
    BY <2>1, <2>3, <2>4, <2>5 DEF WinsockInv
<1>8. CASE WinsockAdd
  BY <1>1, <1>8 DEF WinsockAdd, AddSock, Go, native
<1>9. CASE \E k \in Socks : WinsockAccepted(k)
  BY <1>1, <1>9 DEF WinsockAccepted, Go, native
<1>10. QED
  BY <1>2, <1>3, <1>4, <1>5, <1>6, <1>7, <1>8, <1>9 DEF WinsockStep

\* A Close of some child by somebody other than Listen.
LEMMA WinsockClosedBy ==
  ASSUME ChildType, WinsockInv, NEW c \in Kinds, NEW g \in {"ctx", "watch", "recv", "ext"},
         CloseChild(c, g), UNCHANGED pc
  PROVE  WinsockInv' /\ closed \subseteq closed' /\ strayed' = strayed
<1>1. /\ closed' = closed \cup {c} /\ ln' = Stopped(c)
      /\ (c = "winsock" /\ ln["winsock"] # "nil" /\ CloseListener(g)) \/ UNCHANGED winsock
  BY CloseChildEffects
<1>2. ln'["winsock"] = "nil" <=> ln["winsock"] = "nil"
  BY <1>1, StoppedListener DEF Kinds
<1>3. CASE UNCHANGED winsock
  <2>1. WinsockInv'
    BY <1>1, <1>2, <1>3, WinsockAside
  <2>2. QED
    BY <1>1, <1>3, <2>1 DEF winsock
<1>4. CASE c = "winsock" /\ ln["winsock"] # "nil" /\ CloseListener(g)
  <2>1. WinsockInv'
    BY <1>1, <1>2, <1>4, WinsockCloses
  <2>2. QED
    BY <1>1, <1>4, <2>1 DEF CloseListener
<1>5. QED
  BY <1>1, <1>3, <1>4

LEMMA NextWinsock ==
  ChildType /\ WinsockInv /\ [Next]_vars =>
     /\ WinsockInv' /\ closed \subseteq closed'
     /\ strayed' = strayed \/ (strayed' = strayed \cup {"accept"} /\ "winsock" \in closed)
<1> SUFFICES ASSUME ChildType, WinsockInv, [Next]_vars
             PROVE  /\ WinsockInv' /\ closed \subseteq closed'
                    /\ strayed' = strayed \/ (strayed' = strayed \cup {"accept"} /\ "winsock" \in closed)
  OBVIOUS
<1>0. Kinds = {"tcp", "quic", "rfcomm", "winsock"}
  BY DEF Kinds
<1>1. ASSUME NEW c \in Kinds, ListenCheck(c) \/ AcceptTemporary(c) \/ WakeUp(c)
      PROVE  WinsockInv' /\ closed \subseteq closed' /\ strayed' = strayed
  <2>1. UNCHANGED <<winsock, ln, closed>>
    BY <1>1 DEF ListenCheck, AcceptTemporary, WakeUp, native
  <2>2. /\ pc[c] \in {"start", "accepting", "calling", "sleep"}
        /\ \A d \in Kinds : d # c => pc'[d] = pc[d]
        /\ pc[c] # "start" => pc'[c] \in {"sleep", "accepting"}
    <3>1. CASE ListenCheck(c)
      BY <3>1 DEF ListenCheck, Return, ChildType
    <3>2. CASE AcceptTemporary(c)
      BY <3>2 DEF AcceptTemporary, Go, ChildType
    <3>3. CASE WakeUp(c)
      BY <3>3 DEF WakeUp, Go, ChildType
    <3>4. QED
      BY <1>1, <3>1, <3>2, <3>3
  <2>3. WinsockInv'
    BY <1>0, <2>1, <2>2, WinsockAside
  <2>4. QED
    BY <2>1, <2>3 DEF winsock
<1>2. ASSUME NEW c \in Kinds, WatchCtx(c)
      PROVE  WinsockInv' /\ closed \subseteq closed' /\ strayed' = strayed
  BY <1>2, WinsockClosedBy DEF WatchCtx
<1>3. ASSUME NEW g \in Closers, CloseNext(g)
      PROVE  WinsockInv' /\ closed \subseteq closed' /\ strayed' = strayed
  <2>1. setup.kids[todo[g]] \in Kinds /\ CloseChild(setup.kids[todo[g]], g) /\ UNCHANGED pc
    BY <1>3, KidsAreKinds DEF CloseNext
  <2>2. QED
    BY <2>1, WinsockClosedBy DEF Closers
<1>4. ASSUME UNCHANGED winsock, closed \subseteq closed', pc'["winsock"] = pc["winsock"],
             ln'["winsock"] = "nil" <=> ln["winsock"] = "nil"
      PROVE  WinsockInv' /\ closed \subseteq closed' /\ strayed' = strayed
  BY <1>4, WinsockAside DEF winsock
<1>5. ASSUME NEW c \in Kinds \ {"winsock"}, NEW to, pc' = [pc EXCEPT ![c] = to], UNCHANGED winsock,
             closed \subseteq closed', ln' \in {ln, Stopped(c), [ln EXCEPT ![c] = "open"]}
      PROVE  WinsockInv' /\ closed \subseteq closed' /\ strayed' = strayed
  <2>1. pc'["winsock"] = pc["winsock"] /\ (ln'["winsock"] = "nil" <=> ln["winsock"] = "nil")
    BY <1>0, <1>5, StoppedListener DEF ChildType
  <2>2. QED
    BY <1>4, <1>5, <2>1
<1>6. CASE TcpStep
  BY <1>0, <1>5, <1>6 DEF TcpStep, TcpRefused, Refused, Return, TcpBind, Bind, Go,
     TcpAcceptFails, AcceptFails, TcpAdd, AddSock, TcpAccept, AcceptSock, native
<1>7. CASE QuicStep
  BY <1>0, <1>5, <1>7 DEF QuicStep, QuicRefused, Refused, Return, QuicBind, Bind, Go,
     QuicAcceptFails, AcceptFails, CloseQuic, StreamOpened, StreamFails, QuicAdd, AddSock,
     QuicAccept, AcceptSock, native
<1>8. CASE RfcommStep
  BY <1>0, <1>5, <1>8 DEF RfcommStep, RfcommRefused, Refused, Return, RfcommBind, Bind,
     Go, RfcommAccept, RfcommAcceptFails, AcceptFails, CloseRfcomm, RfcommAdd
<1>9. CASE WinsockStep
  BY <1>9, WinsockOwnSteps
<1>10. CASE MultiListen
  <2>1. /\ UNCHANGED <<winsock, ln, closed>> /\ pc["winsock"] = "off"
    BY <1>0, <1>10 DEF MultiListen, native, ChildType
  <2>2. WinsockInv'
    BY <2>1, WinsockAside
  <2>3. QED
    BY <2>1, <2>2 DEF winsock
<1>11. CASE MultiWatch \/ MultiClose \/ MultiReturn \/ CtxEnds \/ \E c \in Kinds : MultiReceive(c)
  <2>1. UNCHANGED <<winsock, ln, closed, pc>>
    BY <1>11 DEF MultiWatch, MultiClose, MultiReturn, CtxEnds, MultiReceive, child, native
  <2>2. QED
    BY <1>4, <2>1
<1>12. CASE UNCHANGED <<multi, child, winsock>>
  BY <1>4, <1>12 DEF child
<1>13. CASE (CloseStep \/ NumberReused) /\ UNCHANGED <<multi, child, bluez>>
  BY <1>13, WinsockSystem DEF child
<1>14. QED
  BY <1>1, <1>2, <1>3, <1>6, <1>7, <1>8, <1>9, <1>10, <1>11, <1>12, <1>13
     DEF Next, MultiStep, vars, native

\* However Close is called, by the watcher, by Listen's defer and from outside
\* at once, it closes the listener's own socket and no other; an Accept strays
\* to a socket with its number only after a Close; and when Listen has returned
\* by its own Close, the socket is closed and forgotten.
THEOREM ClosesItsOwn == Spec => []WinsockOwn
<1> DEFINE Inv == /\ ChildType /\ WinsockInv /\ strayed \subseteq {"accept"}
                  /\ (strayed # {} => "winsock" \in closed)
<1>1. Init => Inv
  BY InitChild, InitWinsock
<1>2. Inv /\ [Next]_vars => Inv'
  <2> SUFFICES ASSUME Inv, [Next]_vars PROVE Inv'
    OBVIOUS
  <2>1. ChildType'
    BY NextChild
  <2>2. /\ WinsockInv' /\ closed \subseteq closed'
        /\ strayed' = strayed \/ (strayed' = strayed \cup {"accept"} /\ "winsock" \in closed)
    BY NextWinsock
  <2>3. QED
    BY <2>1, <2>2
<1>3. Inv => WinsockOwn
  BY DEF WinsockInv, OwnSocket, ClosedBefore, WinsockOwn
<1> HIDE DEF Inv
<1>4. QED
  BY <1>1, <1>2, <1>3, PTL DEF Spec

-----------------------------------------------------------------------------
(* Profile objects *)

\* A profile object as it may be.
ProfileOK(x) == x \in ProfileSet /\ Len(x.queue) <= Backlog

LEMMA NoProfileOK ==
  /\ ProfileOK(NoProfile) /\ ~NoProfile.registered /\ ~NoProfile.closed /\ ~NoProfile.done
  /\ NoProfile.queue = <<>> /\ NoProfile.cleaned = "no"
<1>1. <<>> \in Seq(Fds \cup {Err}) /\ Len(<<>>) = 0 /\ 0 <= Backlog
  BY BluezAssumption
<1>2. NoProfile \in ProfileSet
  BY <1>1 DEF ProfileSet, NoProfile
<1>3. QED
  BY <1>1, <1>2 DEF ProfileOK, NoProfile

LEMMA FreshProfile ==
  ASSUME NEW b \in Nat, NEW flag \in BOOLEAN
  PROVE  LET made == [NoProfile EXCEPT !.bus = b, !.registered = TRUE]
             failed == [NoProfile EXCEPT !.bus = b, !.closed = flag, !.done = flag,
                                         !.cleaned = "owner"]
         IN  /\ ProfileOK(made) /\ made.bus = b /\ made.registered /\ ~made.closed /\ ~made.done
             /\ made.queue = <<>> /\ made.cleaned = "no"
             /\ ProfileOK(failed) /\ ~failed.registered /\ failed.closed = flag
             /\ failed.done = flag /\ failed.queue = <<>> /\ failed.cleaned = "owner"
  BY NoProfileOK DEF ProfileOK, ProfileSet

LEMMA QueueOps ==
  ASSUME NEW q \in Seq(Fds \cup {Err}), NEW e \in Fds \cup {Err}
  PROVE  /\ Append(q, e) \in Seq(Fds \cup {Err}) /\ Len(Append(q, e)) = Len(q) + 1
         /\ Len(q) \in Nat
         /\ q # <<>> => /\ Tail(q) \in Seq(Fds \cup {Err}) /\ Len(Tail(q)) = Len(q) - 1
                        /\ Head(q) \in Fds \cup {Err}
OBVIOUS

\* finish closes the object for good and says so, once.
LEMMA Finished ==
  ASSUME NEW pr, ProfileOK(pr)
  PROVE  /\ ProfileOK(Finish(pr)) /\ Finish(pr).closed
         /\ Finish(pr).registered = pr.registered /\ Finish(pr).bus = pr.bus
         /\ Finish(pr).cleaned = pr.cleaned
         /\ ~pr.closed => Finish(pr).done
         /\ pr.closed => Finish(pr) = pr
         /\ pr.queue # <<>> => Finish(pr).queue # <<>>
<1>1. CASE pr.closed
  <2>1. Finish(pr) = pr
    BY <1>1 DEF Finish
  <2>2. QED
    BY <1>1, <2>1
<1>2. CASE ~pr.closed
  <2> DEFINE q == IF Len(pr.queue) < Backlog THEN Append(pr.queue, Err) ELSE pr.queue
  <2>1. q \in Seq(Fds \cup {Err}) /\ Len(q) <= Backlog /\ (pr.queue # <<>> => q # <<>>)
    <3>1. pr.queue \in Seq(Fds \cup {Err}) /\ Len(pr.queue) <= Backlog
      BY DEF ProfileOK, ProfileSet
    <3>2. /\ Append(pr.queue, Err) \in Seq(Fds \cup {Err}) /\ Len(pr.queue) \in Nat
          /\ Len(Append(pr.queue, Err)) = Len(pr.queue) + 1
      BY <3>1, QueueOps
    <3>3. QED
      BY <3>1, <3>2, BluezAssumption
  <2>2. Finish(pr) = [pr EXCEPT !.closed = TRUE, !.done = TRUE, !.queue = q]
    BY <1>2 DEF Finish
  <2> HIDE DEF q
  <2>3. QED
    BY <1>2, <2>1, <2>2 DEF ProfileOK, ProfileSet
<1>3. QED
  BY <1>1, <1>2 DEF ProfileOK, ProfileSet

\* One object changes.
LEMMA ProfileChanged ==
  ASSUME BluezType, NEW p \in Profiles, NEW x, ProfileOK(x), prof' = [prof EXCEPT ![p] = x]
  PROVE  /\ prof' \in [Profiles -> ProfileSet] /\ \A o \in Profiles : Len(prof'[o].queue) <= Backlog
         /\ prof'[p] = x /\ \A o \in Profiles : o # p => prof'[o] = prof[o]
  BY DEF BluezType, ProfileOK

LEMMA ProfilesTyped ==
  ASSUME BluezType, NEW p \in Profiles
  PROVE  ProfileOK(prof[p])
  BY DEF BluezType, ProfileOK

\* The cleanup of a profile: unregistered, cleaned, and perhaps no bus.
LEMMA CleanedUp ==
  ASSUME BluezType, NEW p \in Profiles, NEW pr, ProfileOK(pr), NEW who \in {"owner", "overflow"},
         Cleanup(p, pr, who)
  PROVE  /\ prof' \in [Profiles -> ProfileSet] /\ \A o \in Profiles : Len(prof'[o].queue) <= Backlog
         /\ \A o \in Profiles : o # p => prof'[o] = prof[o]
         /\ ~prof'[p].registered /\ prof'[p].closed = pr.closed /\ prof'[p].done = pr.done
         /\ prof'[p].queue = pr.queue /\ prof'[p].bus = pr.bus
         /\ prof'[p].cleaned = IF pr.cleaned = "no" THEN who ELSE pr.cleaned
         /\ prof'[p].cleaned # "no"
         /\ bus' \in Nat
<1> DEFINE x == [pr EXCEPT !.registered = FALSE,
                           !.cleaned = IF pr.cleaned = "no" THEN who ELSE pr.cleaned]
<1>1. prof' = [prof EXCEPT ![p] = x]
  BY DEF Cleanup
<1>2. /\ ProfileOK(x) /\ x.registered = FALSE /\ x.closed = pr.closed /\ x.done = pr.done
      /\ x.queue = pr.queue /\ x.bus = pr.bus
      /\ x.cleaned = IF pr.cleaned = "no" THEN who ELSE pr.cleaned
  BY DEF ProfileOK, ProfileSet
<1>3. bus' \in Nat
  BY DEF Cleanup, BluezType
<1> HIDE DEF x
<1>4. /\ prof' \in [Profiles -> ProfileSet] /\ \A o \in Profiles : Len(prof'[o].queue) <= Backlog
      /\ prof'[p] = x /\ \A o \in Profiles : o # p => prof'[o] = prof[o]
  BY <1>1, <1>2, ProfileChanged
<1>5. QED
  BY <1>2, <1>3, <1>4

-----------------------------------------------------------------------------
(* BlueZ *)

BluezInv == BluezType /\ Handed /\ CalledWhileServed /\ ProfileLife /\ ProfilesStayUsable

LEMMA InitBluez == Init => BluezInv
<1> SUFFICES ASSUME Init PROVE BluezInv
  OBVIOUS
<1>1. prof = [p \in Profiles |-> NoProfile] /\ ProfileOK(NoProfile)
  BY NoProfileOK DEF Init, BluezInit
<1>2. BluezType
  <2>1. prof \in [Profiles -> ProfileSet] /\ \A p \in Profiles : Len(prof[p].queue) <= Backlog
    BY <1>1 DEF ProfileOK
  <2>2. QED
    BY <2>1 DEF Init, BluezInit, BluezType, FdStates, Profiles
<1>3. pc["rfcomm"] = "off" /\ prof["listen"] = NoProfile /\ prof["dial"] = NoProfile
      /\ dpc = "idle" /\ \A f \in Fds : fd[f] = "none"
  BY <1>1 DEF Init, BluezInit, Kinds, Profiles
<1>4. ~Running("rfcomm")
  BY <1>3 DEF Running
<1>5. Handed /\ ProfilesStayUsable
  BY <1>3, <1>4 DEF Handed, Due, ProfilesStayUsable
<1>6. CalledWhileServed
  BY <1>3, <1>4, NoProfileOK DEF CalledWhileServed
<1>7. ProfileLife
  BY <1>3, NoProfileOK DEF ProfileLife, Profiles
<1>8. QED
  BY <1>2, <1>5, <1>6, <1>7 DEF BluezInv

\* Steps of the others, and of Listen outside its accept loop.
LEMMA BluezAside ==
  ASSUME BluezInv, UNCHANGED bluez, closed \subseteq closed',
         Running("rfcomm")' <=> Running("rfcomm"), ln'["rfcomm"] = "nil" <=> ln["rfcomm"] = "nil"
  PROVE  BluezInv'
<1>1. BluezType'
  BY DEF BluezInv, BluezType, bluez, calls
<1>2. /\ UNCHANGED <<bus, prof, fd, at, storing, dpc, raced>>
      /\ \A p : Served(p)' <=> Served(p)
  BY DEF bluez, calls, Served, DialWaits
<1>3. Handed'
  BY <1>2 DEF BluezInv, Handed, Due
<1>4. CalledWhileServed'
  BY <1>2 DEF BluezInv, CalledWhileServed
<1>5. ProfileLife'
  BY <1>2 DEF BluezInv, ProfileLife
<1>6. ProfilesStayUsable'
  BY <1>2 DEF BluezInv, ProfilesStayUsable, Reachable
<1>7. QED
  BY <1>1, <1>3, <1>4, <1>5, <1>6 DEF BluezInv

LEMMA WaitingAre ==
  ASSUME NEW p \in Profiles, NEW f \in Fds
  PROVE  f \in Waiting(p) <=> at[f] = p /\ fd[f] \in {"called", "checked", "queued"}
  BY DEF Waiting

\* The close of the listener: the accept loop may end with it.
LEMMA BluezListenerCloses ==
  ASSUME BluezInv, CloseRfcomm, ln["rfcomm"] # "nil", ln'["rfcomm"] # "nil",
         Running("rfcomm")' => Running("rfcomm")
  PROVE  BluezInv'
<1> DEFINE pr == IF prof["listen"].cleaned = "no" THEN Finish(prof["listen"]) ELSE prof["listen"]
<1>1. /\ Cleanup("listen", pr, "owner") /\ raced' = raced \cup Waiting("listen")
      /\ UNCHANGED <<busSeq, fd, at, storing, dpc, dctx>> /\ closed' = closed \cup {"rfcomm"}
  BY DEF CloseRfcomm, ListenCleanup, calls
<1>2. "listen" \in Profiles /\ "dial" \in Profiles /\ "listen" # "dial" /\ BluezType
  BY DEF Profiles, BluezInv
<1>3. ProfileOK(pr) /\ (pr.closed => pr.done)
  <2>1. ProfileOK(prof["listen"]) /\ (prof["listen"].closed => prof["listen"].done)
    BY <1>2, ProfilesTyped DEF BluezInv, ProfileLife
  <2>2. QED
    BY <2>1, Finished
<1> HIDE DEF pr
<1>4. /\ prof' \in [Profiles -> ProfileSet] /\ \A o \in Profiles : Len(prof'[o].queue) <= Backlog
      /\ prof'["dial"] = prof["dial"] /\ ~prof'["listen"].registered
      /\ prof'["listen"].closed = pr.closed /\ prof'["listen"].done = pr.done /\ bus' \in Nat
  BY <1>1, <1>2, <1>3, CleanedUp
<1>5. BluezType'
  <2>1. Waiting("listen") \subseteq Fds
    BY DEF Waiting
  <2>2. QED
    BY <1>1, <1>2, <1>4, <2>1 DEF BluezType, FdStates
<1>6. Handed'
  <2> SUFFICES ASSUME NEW f \in Fds, fd[f] \in {"called", "checked", "queued"}
               PROVE  Due(f)'
    BY <1>1 DEF Handed
  <2>1. at[f] \in Profiles /\ Due(f) /\ UNCHANGED <<fd, at>>
    BY <1>1, <1>2 DEF BluezInv, Handed, BluezType
  <2>2. CASE at[f] = "listen"
    BY <1>1, <1>2, <2>1, <2>2, WaitingAre DEF Due
  <2>3. CASE at[f] = "dial"
    <3>1. Served(at[f])' <=> Served(at[f])
      BY <1>1, <2>3 DEF Served, DialWaits
    <3>2. QED
      BY <1>1, <1>4, <2>1, <2>3, <3>1 DEF Due
  <2>4. QED
    BY <2>1, <2>2, <2>3 DEF Profiles
<1>7. CalledWhileServed'
  BY <1>1, <1>4 DEF BluezInv, CalledWhileServed, Served, DialWaits
<1>8. ProfileLife'
  BY <1>1, <1>3, <1>4 DEF BluezInv, ProfileLife, Profiles
<1>9. ProfilesStayUsable'
  BY <1>1, <1>4 DEF BluezInv, ProfilesStayUsable
<1>10. QED
  BY <1>5, <1>6, <1>7, <1>8, <1>9 DEF BluezInv

\* RFCOMM's listener comes to be, or does not.
LEMMA BluezBinds ==
  ASSUME ChildType, BluezInv, RfcommBind \/ RfcommRefused
  PROVE  BluezInv'
<1>0. /\ "listen" \in Profiles /\ "dial" \in Profiles /\ "listen" # "dial" /\ BluezType
      /\ "rfcomm" \in Kinds
  BY DEF Profiles, BluezInv, Kinds
<1>1. pc["rfcomm"] = "checked" /\ ~Running("rfcomm")
  BY DEF RfcommBind, Bind, Go, RfcommRefused, Refused, Running
<1>2. SystemBus \in Nat /\ SystemBus # 0 /\ (IF bus = 0 THEN busSeq + 1 ELSE busSeq) \in Nat
  BY <1>0 DEF SystemBus, BluezType, FdStates
<1>3. CASE RfcommBind
  <2> DEFINE x == [NoProfile EXCEPT !.bus = SystemBus, !.registered = TRUE]
  <2>1. /\ bus' = SystemBus /\ busSeq' = (IF bus = 0 THEN busSeq + 1 ELSE busSeq)
        /\ prof' = [prof EXCEPT !["listen"] = x] /\ UNCHANGED <<fd, at, storing, dpc, dctx, raced, closed>>
    BY <1>3 DEF RfcommBind, Register, Bind, calls
  <2>2. ProfileOK(x) /\ x.bus = SystemBus /\ x.registered /\ ~x.closed
    BY <1>2, FreshProfile
  <2> HIDE DEF x
  <2>3. /\ prof' \in [Profiles -> ProfileSet] /\ \A o \in Profiles : Len(prof'[o].queue) <= Backlog
        /\ prof'["listen"] = x /\ prof'["dial"] = prof["dial"]
    BY <1>0, <2>1, <2>2, ProfileChanged
  <2>4. pc'["rfcomm"] = "accepting" /\ ln'["rfcomm"] = "open"
    BY <1>0, <1>3 DEF RfcommBind, Bind, Go, ChildType
  <2>5. Running("rfcomm")'
    BY <2>4 DEF Running
  <2>6. BluezType'
    BY <1>0, <1>2, <2>1, <2>3 DEF BluezType, FdStates
  <2>7. Handed'
    <3> SUFFICES ASSUME NEW f \in Fds, fd[f] \in {"called", "checked", "queued"}
                 PROVE  Due(f)'
      BY <2>1 DEF Handed
    <3>1. at[f] \in Profiles /\ Due(f)
      BY <1>0 DEF BluezInv, Handed, BluezType
    <3>2. QED
      BY <2>1, <2>3, <2>5, <3>1 DEF Due, Served, DialWaits, Profiles
  <2>8. CalledWhileServed'
    BY <2>1, <2>3, <2>4, <2>5 DEF BluezInv, CalledWhileServed, Served, DialWaits
  <2>9. ProfileLife'
    BY <1>2, <2>1, <2>2, <2>3 DEF BluezInv, ProfileLife, Profiles
  <2>10. ProfilesStayUsable'
    BY <2>1, <2>2, <2>3 DEF BluezInv, ProfilesStayUsable, Reachable
  <2>11. QED
    BY <2>6, <2>7, <2>8, <2>9, <2>10 DEF BluezInv
<1>4. CASE RfcommRefused
  <2>1. /\ UNCHANGED <<fd, at, storing, dpc, dctx, raced, closed, ln>>
        /\ pc' = [pc EXCEPT !["rfcomm"] = "returned"] /\ RegisterFails("listen")
    BY <1>4 DEF RfcommRefused, Refused, Return, calls
  <2>2. ~Running("rfcomm")'
    BY <1>0, <2>1 DEF Running, ChildType
  <2>3. CASE UNCHANGED <<bus, busSeq, prof>>
    BY <1>1, <2>1, <2>2, <2>3, BluezAside DEF bluez, calls
  <2>4. CASE ~UNCHANGED <<bus, busSeq, prof>>
    <3> DEFINE x == [NoProfile EXCEPT !.bus = SystemBus, !.closed = TRUE, !.done = TRUE,
                                      !.cleaned = "owner"]
    <3>1. /\ bus' = 0 /\ busSeq' = (IF bus = 0 THEN busSeq + 1 ELSE busSeq)
          /\ prof' = [prof EXCEPT !["listen"] =
                        [NoProfile EXCEPT !.bus = SystemBus, !.closed = ("listen" = "listen"),
                                          !.done = ("listen" = "listen"), !.cleaned = "owner"]]
      BY <2>1, <2>4 DEF RegisterFails
    <3>2. prof' = [prof EXCEPT !["listen"] = x]
      BY <3>1
    <3>3. ProfileOK(x) /\ ~x.registered /\ x.done /\ x.closed
      BY <1>2, FreshProfile
    <3> HIDE DEF x
    <3>4. /\ prof' \in [Profiles -> ProfileSet] /\ \A o \in Profiles : Len(prof'[o].queue) <= Backlog
          /\ prof'["listen"] = x /\ prof'["dial"] = prof["dial"]
      BY <1>0, <3>2, <3>3, ProfileChanged
    <3>5. BluezType'
      BY <1>0, <1>2, <2>1, <3>1, <3>4 DEF BluezType, FdStates
    <3>6. Handed'
      <4> SUFFICES ASSUME NEW f \in Fds, fd[f] \in {"called", "checked", "queued"}
                   PROVE  Due(f)'
        BY <2>1 DEF Handed
      <4>1. at[f] \in Profiles /\ Due(f)
        BY <1>0 DEF BluezInv, Handed, BluezType
      <4>2. QED
        BY <1>1, <2>1, <2>2, <3>3, <3>4, <4>1 DEF Due, Served, DialWaits, Profiles
    <3>7. CalledWhileServed'
      BY <2>1, <2>2, <3>3, <3>4 DEF BluezInv, CalledWhileServed, Served, DialWaits
    <3>8. ProfileLife'
      BY <2>1, <3>3, <3>4 DEF BluezInv, ProfileLife, Profiles
    <3>9. ProfilesStayUsable'
      BY <2>1, <2>2, <3>4 DEF BluezInv, ProfilesStayUsable
    <3>10. QED
      BY <3>5, <3>6, <3>7, <3>8, <3>9 DEF BluezInv
  <2>5. QED
    BY <2>3, <2>4
<1>5. QED
  BY <1>3, <1>4

\* A connection leaves acceptCh for the accept loop, and then for the manager.
LEMMA BluezAccepts ==
  ASSUME ChildType, BluezInv, RfcommAccept \/ RfcommAdd
  PROVE  BluezInv'
<1>0. /\ "listen" \in Profiles /\ "dial" \in Profiles /\ "listen" # "dial" /\ BluezType
      /\ "rfcomm" \in Kinds
  BY DEF Profiles, BluezInv, Kinds
<1>1. Running("rfcomm") /\ Running("rfcomm")' /\ UNCHANGED <<bus, busSeq, at, storing, dpc, dctx, raced, closed, ln>>
  <2>1. pc["rfcomm"] \in {"accepting", "got"} /\ pc'["rfcomm"] \in {"accepting", "got"}
    BY <1>0 DEF RfcommAccept, RfcommAdd, Go, ChildType
  <2>2. QED
    BY <2>1 DEF Running, RfcommAccept, RfcommAdd
<1>2. /\ fd' \in [Fds -> FdStates]
      /\ \A f \in Fds : fd'[f] = fd[f] \/ fd'[f] \in {"taken", "managed", "closed"}
  BY <1>0 DEF RfcommAccept, RfcommAdd, Added, BluezType, FdStates
<1>3. /\ prof' \in [Profiles -> ProfileSet] /\ \A o \in Profiles : Len(prof'[o].queue) <= Backlog
      /\ prof'["dial"] = prof["dial"] /\ prof'["listen"].registered = prof["listen"].registered
      /\ prof'["listen"].closed = prof["listen"].closed /\ prof'["listen"].bus = prof["listen"].bus
      /\ prof'["listen"].done = prof["listen"].done
  <2>1. CASE RfcommAccept
    <3> DEFINE q == prof["listen"].queue
               r == Tail(q)
    <3>1. q \in Seq(Fds \cup {Err}) /\ Len(q) <= Backlog /\ q # <<>>
      BY <1>0, <2>1 DEF BluezType, FdStates, ProfileSet, RfcommAccept
    <3>2. r \in Seq(Fds \cup {Err}) /\ Len(r) <= Backlog
      <4> HIDE DEF q
      <4>1. Err \in Fds \cup {Err}
        OBVIOUS
      <4>2. QED
        BY <3>1, <4>1, QueueOps, BluezAssumption
    <3>3. prof' = [prof EXCEPT !["listen"].queue = r]
      BY <2>1 DEF RfcommAccept
    <3> HIDE DEF r
    <3>4. QED
      BY ZenonT(60), <1>0, <3>2, <3>3 DEF BluezType, FdStates, ProfileSet
  <2>2. CASE RfcommAdd
    BY <1>0, <2>2 DEF RfcommAdd, BluezType, FdStates
  <2>3. QED
    BY <2>1, <2>2
<1>4. BluezType'
  BY <1>0, <1>1, <1>2, <1>3 DEF BluezType, FdStates
<1>5. Handed'
  <2> SUFFICES ASSUME NEW f \in Fds, fd'[f] \in {"called", "checked", "queued"}
               PROVE  Due(f)'
    BY DEF Handed
  <2>1. fd'[f] = fd[f] /\ at'[f] = at[f] /\ at[f] \in Profiles
    BY <1>0, <1>1, <1>2 DEF BluezType
  <2>2. Due(f)
    BY <2>1 DEF BluezInv, Handed
  <2>3. QED
    BY <1>1, <1>3, <2>1, <2>2 DEF Due, Served, DialWaits, Profiles
<1>6. CalledWhileServed'
  BY <1>1, <1>3 DEF BluezInv, CalledWhileServed, Served, DialWaits
<1>7. ProfileLife'
  BY <1>1, <1>2, <1>3 DEF BluezInv, ProfileLife, Profiles
<1>8. ProfilesStayUsable'
  BY <1>1, <1>2, <1>3 DEF BluezInv, ProfilesStayUsable, Reachable
<1>9. QED
  BY <1>4, <1>5, <1>6, <1>7, <1>8 DEF BluezInv

\* Calls that leave the profile objects' owners where they are: a descriptor
\* comes in, or an object changes without becoming callable again.
LEMMA BluezCalls ==
  ASSUME BluezInv, FromBluez, UNCHANGED child
  PROVE  BluezInv'
<1>0. "listen" \in Profiles /\ "dial" \in Profiles /\ "listen" # "dial" /\ BluezType
  BY DEF Profiles, BluezInv
<1>1. /\ UNCHANGED <<closed, busSeq, dpc, dctx>> /\ Running("rfcomm")' = Running("rfcomm")
      /\ UNCHANGED ln
  BY DEF child, Running, FromBluez, Handler, NewConnection, CheckProfile, Enqueue, StoreClosed,
         BacklogFull, Release, Cancel
<1>2. \A p \in Profiles : Served(p)' <=> Served(p)
  BY <1>1 DEF Served, DialWaits
<1>3. ASSUME NEW f \in Fds, NEW p \in Profiles, NewConnection(f, p) PROVE BluezInv'
  <2>1. /\ UNCHANGED <<bus, prof, storing>> /\ fd[f] = "none" /\ prof[p].registered
        /\ at' = [at EXCEPT ![f] = p] /\ fd' = [fd EXCEPT ![f] = "called"]
        /\ raced' = IF p = "dial" /\ Ajar THEN raced \cup {f} ELSE raced
    BY <1>3 DEF NewConnection, Reachable
  <2>2. /\ at'[f] = p /\ fd'[f] = "called"
        /\ \A g \in Fds : g # f => at'[g] = at[g] /\ fd'[g] = fd[g]
        /\ at' \in [Fds -> Profiles] /\ fd' \in [Fds -> FdStates]
        /\ raced' \in SUBSET Fds /\ raced \subseteq raced'
    BY <1>0, <2>1 DEF BluezType, FdStates
  <2>3. Served(p) \/ prof[p].closed \/ f \in raced'
    BY <2>1 DEF BluezInv, CalledWhileServed, Served, DialWaits, Ajar, Profiles
  <2>4. BluezType'
    BY <1>0, <1>1, <2>1, <2>2 DEF BluezType
  <2>5. Handed'
    <3> SUFFICES ASSUME NEW g \in Fds, fd'[g] \in {"called", "checked", "queued"}
                 PROVE  Due(g)'
      BY DEF Handed
    <3>1. CASE g = f
      BY <1>2, <2>1, <2>2, <2>3, <3>1 DEF Due
    <3>2. CASE g # f
      <4>1. fd'[g] = fd[g] /\ at'[g] = at[g] /\ at[g] \in Profiles /\ Due(g)
        BY <1>0, <2>2, <3>2 DEF BluezInv, Handed, BluezType
      <4>2. QED
        BY <1>2, <2>1, <2>2, <4>1 DEF Due
    <3>3. QED
      BY <3>1, <3>2
  <2>6. CalledWhileServed'
    BY <1>1, <2>1 DEF BluezInv, CalledWhileServed, Served, DialWaits
  <2>7. ProfileLife'
    <3>1. dpc = "idle" => p # "dial"
      BY <2>1 DEF BluezInv, ProfileLife
    <3>2. QED
      BY <1>1, <2>1, <2>2, <3>1 DEF BluezInv, ProfileLife
  <2>8. ProfilesStayUsable'
    BY <1>1, <2>1, <2>2 DEF BluezInv, ProfilesStayUsable, Reachable
  <2>9. QED
    BY <2>4, <2>5, <2>6, <2>7, <2>8 DEF BluezInv
\* An object changes, and descriptors may have moved on in it.
<1>4. ASSUME NEW p \in Profiles, at' = at, raced' = raced, bus' \in Nat, storing' \in SUBSET Fds,
             fd' \in [Fds -> FdStates],
             \A g \in Fds : \/ fd'[g] = fd[g] \/ fd'[g] = "closed"
                            \/ fd[g] = "called" /\ fd'[g] = "checked" /\ ~prof[at[g]].closed
                            \/ fd[g] = "checked" /\ fd'[g] = "queued",
             storing # {} => storing' # {} \/ prof'["dial"].closed,
             prof' \in [Profiles -> ProfileSet], \A o \in Profiles : Len(prof'[o].queue) <= Backlog,
             \A o \in Profiles : o # p => prof'[o] = prof[o],
             prof'[p].registered => prof[p].registered /\ prof'[p].bus = prof[p].bus,
             prof[p].closed => prof'[p].closed,
             prof[p].done => prof'[p].done,
             p = "listen" => /\ prof'[p].closed => prof'[p].done
                             /\ prof'[p].cleaned = prof[p].cleaned /\ bus' = bus
                             /\ prof'[p].done \/ prof'[p].registered = prof[p].registered,
             p = "dial" => /\ prof'[p].queue # <<>> => prof'[p].closed \/ storing' # {}
                           /\ \/ prof'[p].cleaned = prof[p].cleaned /\ bus' = bus
                              \/ prof'[p].cleaned = prof[p].cleaned /\ prof[p].cleaned # "no"
                              \/ prof'[p].cleaned = "overflow" /\ dpc # "idle"
      PROVE  BluezInv'
  <2>1. BluezType'
    BY <1>0, <1>1, <1>4 DEF BluezType, FdStates
  <2>2. Handed'
    <3> SUFFICES ASSUME NEW g \in Fds, fd'[g] \in {"called", "checked", "queued"}
                 PROVE  Due(g)'
      BY DEF Handed
    <3>1. at'[g] = at[g] /\ at[g] \in Profiles /\ Due(g)
      BY <1>0, <1>4 DEF BluezInv, Handed, BluezType
    <3>2. prof[at[g]].closed => prof'[at[g]].closed
      BY <1>4, <3>1
    <3>3. CASE Served(at[g]) \/ g \in raced
      BY <1>2, <1>4, <3>1, <3>3 DEF Due
    <3>4. CASE fd[g] = "called" /\ prof[at[g]].closed
      <4>1. fd'[g] = "called"
        BY <1>4, <3>4
      <4>2. QED
        BY <3>1, <3>2, <3>4, <4>1 DEF Due
    <3>5. QED
      BY <3>1, <3>3, <3>4 DEF Due
  <2>3. CASE p = "listen"
    <3>1. prof'["dial"] = prof["dial"] /\ bus' = bus
      BY <1>0, <1>4, <2>3
    <3>2. CalledWhileServed'
      BY <1>1, <1>4, <2>3, <3>1 DEF BluezInv, CalledWhileServed, Served, DialWaits
    <3>3. ProfileLife'
      BY <1>1, <1>4, <2>3, <3>1 DEF BluezInv, ProfileLife, Profiles
    <3>4. ProfilesStayUsable'
      BY <1>1, <1>4, <2>3, <3>1 DEF BluezInv, ProfilesStayUsable, Reachable
    <3>5. QED
      BY <2>1, <2>2, <3>2, <3>3, <3>4 DEF BluezInv
  <2>4. CASE p = "dial"
    <3>1. prof'["listen"] = prof["listen"]
      BY <1>0, <1>4, <2>4
    <3>2. CalledWhileServed'
      BY <1>1, <1>4, <2>4, <3>1 DEF BluezInv, CalledWhileServed, Served, DialWaits
    <3>3. ProfileLife'
      BY <1>1, <1>4, <2>4, <3>1 DEF BluezInv, ProfileLife, Profiles
    <3>4. ProfilesStayUsable'
      BY <1>1, <1>4, <2>4, <3>1 DEF BluezInv, ProfilesStayUsable, Reachable
    <3>5. QED
      BY <2>1, <2>2, <3>2, <3>3, <3>4 DEF BluezInv
  <2>5. QED
    BY <2>3, <2>4 DEF Profiles
<1>5. ASSUME NEW f \in Fds, Enqueue(f) PROVE BluezInv'
  <2> DEFINE p == at[f]
             q == Append(prof[p].queue, f)
  <2>1. p \in Profiles /\ ProfileOK(prof[p])
    BY <1>0, ProfilesTyped DEF BluezType
  <2>2. /\ fd[f] = "checked" /\ Len(prof[p].queue) < Backlog /\ UNCHANGED <<bus, at, raced>>
        /\ fd' = [fd EXCEPT ![f] = "queued"]
        /\ prof' = [prof EXCEPT ![p].queue = q]
        /\ storing' = IF p = "dial" THEN storing \cup {f} ELSE storing
    BY <1>5 DEF Enqueue
  <2>3. q \in Seq(Fds \cup {Err}) /\ Len(q) <= Backlog
    <3>1. prof[p].queue \in Seq(Fds \cup {Err}) /\ f \in Fds \cup {Err}
      BY <2>1 DEF ProfileOK, ProfileSet
    <3>2. Append(prof[p].queue, f) \in Seq(Fds \cup {Err}) /\ Len(prof[p].queue) \in Nat
          /\ Len(q) = Len(prof[p].queue) + 1
      BY <3>1, QueueOps
    <3>3. QED
      BY <2>2, <3>2, BluezAssumption
  <2> HIDE DEF q, p
  <2>4. /\ prof' \in [Profiles -> ProfileSet] /\ \A o \in Profiles : Len(prof'[o].queue) <= Backlog
        /\ \A o \in Profiles : o # p => prof'[o] = prof[o]
        /\ prof'[p].registered = prof[p].registered /\ prof'[p].bus = prof[p].bus
        /\ prof'[p].closed = prof[p].closed /\ prof'[p].done = prof[p].done /\ prof'[p].queue = q
        /\ prof'[p].cleaned = prof[p].cleaned
    BY ZenonT(60), <1>0, <2>1, <2>2, <2>3 DEF BluezType, ProfileSet
  <2>5. /\ fd' \in [Fds -> FdStates]
        /\ \A g \in Fds : fd'[g] = fd[g] \/ (fd[g] = "checked" /\ fd'[g] = "queued")
    BY <1>0, <2>2 DEF BluezType, FdStates
  <2>6. /\ storing' \in SUBSET Fds /\ (storing # {} => storing' # {})
        /\ (p = "dial" => storing' # {}) /\ bus' \in Nat
    BY <1>0, <2>2 DEF BluezType
  <2>7. p = "listen" /\ prof[p].closed => prof[p].done
    BY DEF BluezInv, ProfileLife
  <2>8. QED
    BY <1>4, <2>1, <2>2, <2>4, <2>5, <2>6, <2>7
<1>9. ASSUME NEW f \in Fds, CheckProfile(f) PROVE BluezInv'
  <2>1. /\ UNCHANGED <<bus, prof, at, storing, raced>> /\ fd[f] = "called"
        /\ \/ fd' = [fd EXCEPT ![f] = "closed"]
           \/ ~prof[at[f]].closed /\ fd' = [fd EXCEPT ![f] = "checked"]
    BY <1>9 DEF CheckProfile
  <2>2. /\ fd' \in [Fds -> FdStates]
        /\ \A g \in Fds : \/ fd'[g] = fd[g] \/ fd'[g] = "closed"
                          \/ fd[g] = "called" /\ fd'[g] = "checked" /\ ~prof[at[g]].closed
    BY <1>0, <2>1 DEF BluezType, FdStates
  <2>3. /\ at[f] \in Profiles /\ prof' \in [Profiles -> ProfileSet] /\ bus' \in Nat
        /\ storing' \in SUBSET Fds /\ \A o \in Profiles : Len(prof'[o].queue) <= Backlog
    BY <1>0, <2>1 DEF BluezType
  <2>4. /\ prof["listen"].closed => prof["listen"].done
        /\ prof["dial"].queue # <<>> => prof["dial"].closed \/ storing # {}
    BY DEF BluezInv, ProfileLife, CalledWhileServed
  <2>5. QED
    BY <1>4, <2>1, <2>2, <2>3, <2>4
<1>10. ASSUME NEW f \in Fds, StoreClosed(f) PROVE BluezInv'
  <2> DEFINE x == [prof["dial"] EXCEPT !.closed = TRUE]
  <2>1. /\ UNCHANGED <<bus, fd, at, raced>> /\ storing' = storing \ {f}
        /\ prof' = [prof EXCEPT !["dial"] = x]
    BY <1>10 DEF StoreClosed
  <2>2. ProfileOK(prof["dial"])
    BY <1>0, ProfilesTyped
  <2>3. /\ ProfileOK(x) /\ x.closed /\ x.registered = prof["dial"].registered
        /\ x.bus = prof["dial"].bus /\ x.done = prof["dial"].done
        /\ x.cleaned = prof["dial"].cleaned
    BY <2>2 DEF ProfileOK, ProfileSet
  <2> HIDE DEF x
  <2>4. /\ prof' \in [Profiles -> ProfileSet] /\ \A o \in Profiles : Len(prof'[o].queue) <= Backlog
        /\ prof'["dial"] = x /\ \A o \in Profiles : o # "dial" => prof'[o] = prof[o]
    BY <1>0, <2>1, <2>3, ProfileChanged
  <2>5. /\ fd' \in [Fds -> FdStates] /\ bus' \in Nat /\ storing' \in SUBSET Fds
    BY <1>0, <2>1 DEF BluezType
  <2>6. QED
    BY <1>0, <1>4, <2>1, <2>3, <2>4, <2>5
<1>6. ASSUME NEW f \in Fds, BacklogFull(f) PROVE BluezInv'
  <2> DEFINE p == at[f]
  <2>1. p \in Profiles /\ ProfileOK(prof[p])
    BY <1>0, ProfilesTyped DEF BluezType, FdStates
  <2>2. /\ fd[f] = "checked" /\ UNCHANGED <<at, storing, raced>> /\ fd' = [fd EXCEPT ![f] = "closed"]
        /\ storing' \in SUBSET Fds
        /\ IF p = "dial" THEN Cleanup(p, prof[p], "overflow") ELSE UNCHANGED <<bus, prof>>
    BY <1>0, <1>6 DEF BacklogFull, BluezType
  <2>3. /\ fd' \in [Fds -> FdStates]
        /\ \A g \in Fds : fd'[g] = fd[g] \/ fd'[g] = "closed"
    BY <1>0, <2>2 DEF BluezType, FdStates
  <2>4. CASE p = "dial"
    <3>1. dpc # "idle"
      BY <2>2, <2>4 DEF BluezInv, ProfileLife
    <3>2. prof["dial"].queue # <<>> => prof["dial"].closed \/ storing # {}
      BY DEF BluezInv, CalledWhileServed
    <3>3. Cleanup("dial", prof["dial"], "overflow") /\ ProfileOK(prof["dial"])
      BY <2>1, <2>2, <2>4
    <3>4. /\ prof' \in [Profiles -> ProfileSet] /\ \A o \in Profiles : Len(prof'[o].queue) <= Backlog
          /\ \A o \in Profiles : o # "dial" => prof'[o] = prof[o]
          /\ ~prof'["dial"].registered /\ prof'["dial"].closed = prof["dial"].closed
          /\ prof'["dial"].done = prof["dial"].done /\ prof'["dial"].queue = prof["dial"].queue
          /\ prof'["dial"].cleaned = IF prof["dial"].cleaned = "no" THEN "overflow"
                                     ELSE prof["dial"].cleaned
          /\ bus' \in Nat
      BY <1>0, <3>3, CleanedUp
    <3>5. QED
      BY <1>0, <1>4, <2>2, <2>3, <3>1, <3>2, <3>4
  <2>5. CASE p = "listen"
    <3>1. UNCHANGED <<bus, prof>>
      BY <1>0, <2>2, <2>5
    <3>2. prof["listen"].closed => prof["listen"].done
      BY DEF BluezInv, ProfileLife
    <3>3. /\ prof' \in [Profiles -> ProfileSet] /\ \A o \in Profiles : Len(prof'[o].queue) <= Backlog
          /\ bus' \in Nat
      BY <1>0, <3>1 DEF BluezType, FdStates
    <3>4. QED
      BY <1>0, <1>4, <2>2, <2>3, <3>1, <3>2, <3>3
  <2>6. QED
    BY <2>1, <2>4, <2>5 DEF Profiles
<1>7. ASSUME NEW p \in Profiles, Release(p) \/ Cancel(p) PROVE BluezInv'
  <2> DEFINE pr == Finish(prof[p])
             x == [pr EXCEPT !.registered = FALSE]
  <2>1. ProfileOK(prof[p])
    BY <1>0, ProfilesTyped
  <2>2. /\ ProfileOK(pr) /\ pr.closed /\ pr.registered = prof[p].registered /\ pr.bus = prof[p].bus
        /\ pr.cleaned = prof[p].cleaned /\ (~prof[p].closed => pr.done)
        /\ (prof[p].closed => pr = prof[p])
    BY <2>1, Finished
  <2>3. /\ UNCHANGED <<bus, at, fd, storing, raced>>
        /\ prof' = [prof EXCEPT ![p] = x] \/ prof' = [prof EXCEPT ![p] = pr]
    BY <1>7 DEF Release, Cancel, calls
  <2>4. prof[p].done => pr.done
    BY <2>2
  <2>5. p = "listen" => pr.done
    BY <2>2 DEF BluezInv, ProfileLife
  <2> HIDE DEF pr
  <2>6. /\ ProfileOK(x) /\ ~x.registered /\ x.bus = pr.bus /\ x.closed = pr.closed
        /\ x.cleaned = pr.cleaned /\ x.done = pr.done
    BY <2>2 DEF ProfileOK, ProfileSet
  <2> HIDE DEF x
  <2>7. PICK y : ProfileOK(y) /\ prof' = [prof EXCEPT ![p] = y] /\ y \in {x, pr}
    BY <2>2, <2>3, <2>6
  <2>8. /\ prof' \in [Profiles -> ProfileSet] /\ \A o \in Profiles : Len(prof'[o].queue) <= Backlog
        /\ prof'[p] = y /\ \A o \in Profiles : o # p => prof'[o] = prof[o]
    BY <1>0, <2>7, ProfileChanged
  <2>9. /\ y.closed /\ y.done = pr.done /\ y.cleaned = prof[p].cleaned /\ y.bus = prof[p].bus
        /\ y.registered => prof[p].registered
    BY <2>2, <2>6, <2>7
  <2>10. bus' \in Nat /\ UNCHANGED <<fd, at, bus, storing, raced>> /\ storing' \in SUBSET Fds
         /\ fd' \in [Fds -> FdStates]
    BY <1>0, <2>3 DEF BluezType, FdStates
  <2>11. QED
    BY <1>4, <2>4, <2>5, <2>8, <2>9, <2>10
<1>8. QED
  BY <1>3, <1>5, <1>6, <1>7, <1>9, <1>10 DEF FromBluez, Handler

\* The dial gives up: what waits for it now is left behind.
LEMMA BluezDialFails ==
  ASSUME BluezInv, UNCHANGED child, dpc \in {"connect", "select"}, NEW pr, ProfileOK(pr),
         pr.queue # <<>> => pr.closed \/ storing # {}, prof["dial"].closed => pr.closed,
         pr.registered = prof["dial"].registered, pr.bus = prof["dial"].bus,
         pr.cleaned = prof["dial"].cleaned, DialFails(pr)
  PROVE  BluezInv'
<1>0. "listen" \in Profiles /\ "dial" \in Profiles /\ "listen" # "dial" /\ BluezType
  BY DEF Profiles, BluezInv
<1>1. /\ UNCHANGED <<closed, ln>> /\ Running("rfcomm")' = Running("rfcomm")
      /\ dpc' = "cleanup" /\ prof' = [prof EXCEPT !["dial"] = pr]
      /\ raced' = raced \cup Waiting("dial") /\ UNCHANGED <<bus, busSeq, fd, at, storing, dctx>>
  BY DEF child, Running, DialFails, calls
<1>2. /\ prof' \in [Profiles -> ProfileSet] /\ \A o \in Profiles : Len(prof'[o].queue) <= Backlog
      /\ prof'["listen"] = prof["listen"] /\ prof'["dial"] = pr
  BY <1>0, <1>1, ProfileChanged
<1>3. BluezType'
  <2>1. Waiting("dial") \subseteq Fds
    BY DEF Waiting
  <2>2. QED
    BY <1>0, <1>1, <1>2, <2>1 DEF BluezType
<1>4. Handed'
  <2> SUFFICES ASSUME NEW f \in Fds, fd[f] \in {"called", "checked", "queued"}
               PROVE  Due(f)'
    BY <1>1 DEF Handed
  <2>1. at[f] \in Profiles /\ at'[f] = at[f] /\ Due(f)
    BY <1>0, <1>1 DEF BluezInv, Handed, BluezType
  <2>2. CASE at[f] = "dial"
    BY <1>0, <1>1, <2>2, WaitingAre DEF Due
  <2>3. CASE at[f] = "listen"
    <3>1. Served("listen")' <=> Served("listen")
      BY <1>1 DEF Served
    <3>2. QED
      BY <1>1, <1>2, <2>1, <2>3, <3>1 DEF Due
  <2>4. QED
    BY <2>1, <2>2, <2>3 DEF Profiles
<1>5. CalledWhileServed'
  BY <1>1, <1>2 DEF BluezInv, CalledWhileServed
<1>6. ProfileLife'
  BY <1>1, <1>2 DEF BluezInv, ProfileLife, Profiles
<1>7. ProfilesStayUsable'
  BY <1>1, <1>2 DEF BluezInv, ProfilesStayUsable, ProfileLife, Reachable
<1>8. QED
  BY <1>3, <1>4, <1>5, <1>6, <1>7 DEF BluezInv

\* Its cleanup: BlueZ calls the profile no more.
LEMMA BluezDialCleans ==
  ASSUME BluezInv, UNCHANGED child, DialCleanup
  PROVE  BluezInv'
<1>0. "listen" \in Profiles /\ "dial" \in Profiles /\ "listen" # "dial" /\ BluezType
  BY DEF Profiles, BluezInv
<1>1. /\ UNCHANGED <<closed, ln>> /\ Running("rfcomm")' = Running("rfcomm")
      /\ dpc = "cleanup" /\ dpc' = "failed" /\ Cleanup("dial", prof["dial"], "owner")
      /\ UNCHANGED <<busSeq, fd, at, storing, dctx, raced>>
  BY DEF child, Running, DialCleanup, calls
<1>2. ProfileOK(prof["dial"])
  BY <1>0, ProfilesTyped
<1>3. /\ prof' \in [Profiles -> ProfileSet] /\ \A o \in Profiles : Len(prof'[o].queue) <= Backlog
      /\ prof'["listen"] = prof["listen"] /\ ~prof'["dial"].registered
      /\ prof'["dial"].closed = prof["dial"].closed /\ prof'["dial"].queue = prof["dial"].queue
      /\ prof'["dial"].cleaned # "no" /\ bus' \in Nat
  BY <1>0, <1>1, <1>2, CleanedUp
<1>4. BluezType'
  BY <1>0, <1>1, <1>3 DEF BluezType
<1>5. Handed'
  <2> SUFFICES ASSUME NEW f \in Fds, fd[f] \in {"called", "checked", "queued"}
               PROVE  Due(f)'
    BY <1>1 DEF Handed
  <2>1. at[f] \in Profiles /\ Due(f)
    BY <1>0 DEF BluezInv, Handed, BluezType
  <2>2. /\ Served("listen")' <=> Served("listen")
        /\ Served("dial")' <=> Served("dial")
    BY <1>1 DEF Served, DialWaits
  <2>3. prof'[at[f]].closed = prof[at[f]].closed
    BY <1>3, <2>1 DEF Profiles
  <2>4. Served(at[f])' <=> Served(at[f])
    BY <1>1, <2>1, <2>2 DEF Profiles
  <2>5. QED
    BY <1>1, <2>1, <2>3, <2>4 DEF Due
<1>6. CalledWhileServed'
  BY <1>1, <1>3 DEF BluezInv, CalledWhileServed
<1>7. ProfileLife'
  BY <1>1, <1>3 DEF BluezInv, ProfileLife, Profiles
<1>8. ProfilesStayUsable'
  BY <1>1, <1>3 DEF BluezInv, ProfilesStayUsable, ProfileLife
<1>9. QED
  BY <1>4, <1>5, <1>6, <1>7, <1>8 DEF BluezInv

\* The dial begins.
LEMMA BluezDialStarts ==
  ASSUME BluezInv, UNCHANGED child, DialStart
  PROVE  BluezInv'
<1>0. "listen" \in Profiles /\ "dial" \in Profiles /\ "listen" # "dial" /\ BluezType
  BY DEF Profiles, BluezInv
<1>1. /\ UNCHANGED <<closed, ln, fd, at, storing, dctx, raced>>
      /\ Running("rfcomm")' = Running("rfcomm") /\ dpc = "idle"
  BY DEF child, Running, DialStart, calls
<1>2. SystemBus \in Nat /\ SystemBus # 0 /\ (IF bus = 0 THEN busSeq + 1 ELSE busSeq) \in Nat
  BY <1>0 DEF SystemBus, BluezType, FdStates
<1>3. /\ ~prof["dial"].registered /\ prof["dial"].cleaned = "no"
      /\ \A f \in Fds : fd[f] # "dialled" /\ (fd[f] \in {"called", "checked", "queued"} => at[f] # "dial")
  BY <1>1 DEF BluezInv, ProfileLife
<1>4. \A o \in Profiles : o # "dial" => prof'[o] = prof[o]
  BY <1>0 DEF DialStart, Register, RegisterFails, BluezType
<1>5. Handed'
  <2> SUFFICES ASSUME NEW f \in Fds, fd[f] \in {"called", "checked", "queued"}
               PROVE  Due(f)'
    BY <1>1 DEF Handed
  <2>1. at[f] = "listen" /\ Due(f)
    BY <1>0, <1>3 DEF BluezInv, Handed, BluezType, Profiles
  <2>2. Served("listen")' <=> Served("listen")
    BY <1>1 DEF Served
  <2>3. QED
    BY <1>0, <1>1, <1>4, <2>1, <2>2 DEF Due
<1>6. CASE Register("dial") /\ dpc' = "connect"
  <2> DEFINE x == [NoProfile EXCEPT !.bus = SystemBus, !.registered = TRUE]
  <2>1. /\ bus' = SystemBus /\ busSeq' = (IF bus = 0 THEN busSeq + 1 ELSE busSeq)
        /\ prof' = [prof EXCEPT !["dial"] = x]
    BY <1>6 DEF Register
  <2>2. /\ ProfileOK(x) /\ x.bus = SystemBus /\ x.registered /\ ~x.closed /\ x.queue = <<>>
        /\ x.cleaned = "no"
    BY <1>2, FreshProfile
  <2> HIDE DEF x
  <2>3. /\ prof' \in [Profiles -> ProfileSet] /\ \A o \in Profiles : Len(prof'[o].queue) <= Backlog
        /\ prof'["dial"] = x /\ prof'["listen"] = prof["listen"]
    BY <1>0, <2>1, <2>2, ProfileChanged
  <2>4. BluezType'
    BY <1>0, <1>1, <1>2, <1>6, <2>1, <2>3 DEF BluezType, FdStates
  <2>5. CalledWhileServed'
    BY <1>1, <1>6, <2>2, <2>3 DEF BluezInv, CalledWhileServed, Served, DialWaits
  <2>6. ProfileLife'
    BY <1>1, <1>2, <1>3, <1>6, <2>2, <2>3 DEF BluezInv, ProfileLife, Profiles
  <2>7. ProfilesStayUsable'
    <3>1. Reachable("listen") => bus' = bus
      BY <1>0, <2>1 DEF BluezInv, ProfileLife, Reachable, SystemBus
    <3>2. QED
      BY <1>1, <1>3, <2>3, <3>1 DEF BluezInv, ProfilesStayUsable, Reachable
  <2>8. QED
    BY <1>5, <2>4, <2>5, <2>6, <2>7 DEF BluezInv
<1>7. CASE RegisterFails("dial") /\ dpc' = "failed" /\ UNCHANGED <<bus, busSeq, prof>>
  <2>1. BluezType'
    BY <1>0, <1>1, <1>7 DEF BluezType, FdStates
  <2>2. CalledWhileServed'
    BY <1>1, <1>3, <1>7 DEF BluezInv, CalledWhileServed, Served, DialWaits
  <2>3. ProfileLife'
    BY <1>1, <1>3, <1>7 DEF BluezInv, ProfileLife
  <2>4. ProfilesStayUsable'
    BY <1>1, <1>3, <1>7 DEF BluezInv, ProfilesStayUsable, Reachable
  <2>5. QED
    BY <1>5, <2>1, <2>2, <2>3, <2>4 DEF BluezInv
<1>8. CASE RegisterFails("dial") /\ dpc' = "failed" /\ ~UNCHANGED <<bus, busSeq, prof>>
  <2> DEFINE x == [NoProfile EXCEPT !.bus = SystemBus, !.closed = FALSE, !.done = FALSE,
                                    !.cleaned = "owner"]
  <2>1. /\ bus' = 0 /\ busSeq' = (IF bus = 0 THEN busSeq + 1 ELSE busSeq)
        /\ prof' = [prof EXCEPT !["dial"] =
                      [NoProfile EXCEPT !.bus = SystemBus, !.closed = ("dial" = "listen"),
                                        !.done = ("dial" = "listen"), !.cleaned = "owner"]]
    BY <1>8 DEF RegisterFails
  <2>2. prof' = [prof EXCEPT !["dial"] = x]
    <3>1. ("dial" = "listen") = FALSE
      OBVIOUS
    <3>2. QED
      BY <2>1, <3>1
  <2>3. ProfileOK(x) /\ ~x.registered /\ x.queue = <<>> /\ x.cleaned = "owner"
    BY <1>2, FreshProfile
  <2> HIDE DEF x
  <2>4. /\ prof' \in [Profiles -> ProfileSet] /\ \A o \in Profiles : Len(prof'[o].queue) <= Backlog
        /\ prof'["dial"] = x /\ prof'["listen"] = prof["listen"]
    BY <1>0, <2>2, <2>3, ProfileChanged
  <2>5. BluezType'
    BY <1>0, <1>1, <1>2, <1>8, <2>1, <2>4 DEF BluezType, FdStates
  <2>6. CalledWhileServed'
    BY <1>1, <2>3, <2>4 DEF BluezInv, CalledWhileServed, Served, DialWaits
  <2>7. ProfileLife'
    BY <1>1, <1>3, <1>8, <2>3, <2>4 DEF BluezInv, ProfileLife, Profiles
  <2>8. ProfilesStayUsable'
    BY <1>1, <1>3, <2>3, <2>4 DEF BluezInv, ProfilesStayUsable
  <2>9. QED
    BY <1>5, <2>5, <2>6, <2>7, <2>8 DEF BluezInv
<1>9. QED
  BY <1>6, <1>7, <1>8 DEF DialStart

\* The dial takes a connection, and the owner of that closes it.
LEMMA BluezDialOwns ==
  ASSUME BluezInv, UNCHANGED child, DialTakes \/ \E f \in Fds : DialPipeClose(f)
  PROVE  BluezInv'
<1>0. "listen" \in Profiles /\ "dial" \in Profiles /\ "listen" # "dial" /\ BluezType
  BY DEF Profiles, BluezInv
<1>1. UNCHANGED <<closed, ln>> /\ Running("rfcomm")' = Running("rfcomm")
  BY DEF child, Running
<1>2. CASE DialTakes
  <2> DEFINE q == prof["dial"].queue
             r == Tail(q)
             h == Head(q)
  <2>1. /\ dpc = "select" /\ q # <<>> /\ h # Err /\ dpc' = "ok" /\ fd' = [fd EXCEPT ![h] = "dialled"]
        /\ prof' = [prof EXCEPT !["dial"].queue = r]
        /\ raced' = raced \cup (Waiting("dial") \ {h}) /\ UNCHANGED <<bus, busSeq, at, storing, dctx>>
    BY <1>2 DEF DialTakes
  <2>2. q \in Seq(Fds \cup {Err}) /\ Len(q) <= Backlog
    BY <1>0 DEF BluezType, FdStates, ProfileSet
  <2>3. r \in Seq(Fds \cup {Err}) /\ Len(r) <= Backlog /\ h \in Fds
    <3> HIDE DEF q
    <3>1. Err \in Fds \cup {Err}
      OBVIOUS
    <3>2. QED
      BY <2>1, <2>2, <3>1, QueueOps, BluezAssumption
  <2>4. prof["dial"].closed \/ storing # {}
    BY <2>1 DEF BluezInv, CalledWhileServed
  <2> HIDE DEF r, h, q
  <2>5. /\ prof' \in [Profiles -> ProfileSet] /\ \A o \in Profiles : Len(prof'[o].queue) <= Backlog
        /\ prof'["listen"] = prof["listen"] /\ prof'["dial"].registered = prof["dial"].registered
        /\ prof'["dial"].closed = prof["dial"].closed /\ prof'["dial"].bus = prof["dial"].bus
        /\ prof'["dial"].cleaned = prof["dial"].cleaned
    <3>1. PICK x : x = [prof["dial"] EXCEPT !.queue = r]
      OBVIOUS
    <3>2. prof["dial"] \in ProfileSet
      BY <1>0 DEF BluezType, FdStates
    <3>3. /\ x \in ProfileSet /\ x.queue = r /\ x.registered = prof["dial"].registered
          /\ x.closed = prof["dial"].closed /\ x.bus = prof["dial"].bus /\ x.cleaned = prof["dial"].cleaned
      BY <2>3, <3>1, <3>2 DEF ProfileSet
    <3>4. ProfileOK(x)
      BY <2>3, <3>3 DEF ProfileOK
    <3>5. prof' = [prof EXCEPT !["dial"] = x]
      BY <2>1, <3>1
    <3>6. /\ prof' \in [Profiles -> ProfileSet] /\ \A o \in Profiles : Len(prof'[o].queue) <= Backlog
          /\ prof'["dial"] = x /\ \A o \in Profiles : o # "dial" => prof'[o] = prof[o]
      BY <1>0, <3>4, <3>5, ProfileChanged
    <3> QED BY <1>0, <3>3, <3>6
  <2>6. /\ fd' \in [Fds -> FdStates]
        /\ fd'[h] = "dialled" /\ \A f \in Fds : f # h => fd'[f] = fd[f] /\ fd[f] # "dialled"
    BY <1>0, <2>1, <2>3 DEF BluezType, FdStates, BluezInv, ProfileLife
  <2>7. BluezType'
    <3>1. Waiting("dial") \subseteq Fds
      BY DEF Waiting
    <3>2. QED
      BY <1>0, <2>1, <2>5, <2>6, <3>1 DEF BluezType, FdStates
  <2>8. Handed'
    <3> SUFFICES ASSUME NEW f \in Fds, fd'[f] \in {"called", "checked", "queued"}
                 PROVE  Due(f)'
      BY DEF Handed
    <3>1. f # h /\ fd'[f] = fd[f]
      BY <2>6
    <3>2. at[f] \in Profiles /\ at'[f] = at[f] /\ Due(f)
      BY <1>0, <2>1, <3>1 DEF BluezInv, Handed, BluezType
    <3>3. CASE at[f] = "dial"
      BY <1>0, <2>1, <3>1, <3>3, WaitingAre DEF Due
    <3>4. CASE at[f] = "listen"
      <4>1. Served("listen")' <=> Served("listen")
        BY <1>1 DEF Served
      <4>2. QED
        BY <2>1, <2>5, <3>1, <3>2, <3>4, <4>1 DEF Due
    <3>5. QED
      BY <3>2, <3>3, <3>4 DEF Profiles
  <2>9. CalledWhileServed'
    BY <1>1, <2>1, <2>4, <2>5 DEF BluezInv, CalledWhileServed
  <2>10. ProfileLife'
    <3>1. \A f \in Fds : fd'[f] = "dialled" => f = h
      BY <2>6
    <3>2. QED
      BY <2>1, <2>5, <3>1 DEF BluezInv, ProfileLife, Profiles
  <2>11. ProfilesStayUsable'
    BY <1>1, <2>1, <2>5 DEF BluezInv, ProfilesStayUsable, Reachable, ProfileLife
  <2>12. QED
    BY <2>7, <2>8, <2>9, <2>10, <2>11 DEF BluezInv
<1>3. ASSUME NEW f \in Fds, DialPipeClose(f) PROVE BluezInv'
  <2>1. /\ fd[f] = "dialled" /\ fd' = [fd EXCEPT ![f] = "closed"]
        /\ Cleanup("dial", prof["dial"], "owner") /\ UNCHANGED <<busSeq, at, storing, dpc, dctx, raced>>
    BY <1>3 DEF DialPipeClose
  <2>2. dpc = "ok"
    BY <2>1 DEF BluezInv, ProfileLife
  <2>3. ProfileOK(prof["dial"])
    BY <1>0, ProfilesTyped
  <2>4. /\ prof' \in [Profiles -> ProfileSet] /\ \A o \in Profiles : Len(prof'[o].queue) <= Backlog
        /\ prof'["listen"] = prof["listen"] /\ ~prof'["dial"].registered
        /\ prof'["dial"].closed = prof["dial"].closed /\ prof'["dial"].queue = prof["dial"].queue
        /\ prof'["dial"].cleaned # "no" /\ bus' \in Nat
    BY <1>0, <2>1, <2>3, CleanedUp
  <2>5. /\ fd' \in [Fds -> FdStates]
        /\ \A g \in Fds : fd'[g] # "dialled" /\ (fd'[g] = fd[g] \/ fd'[g] = "closed")
    BY <1>0, <2>1 DEF BluezType, FdStates, BluezInv, ProfileLife
  <2>6. BluezType'
    BY <1>0, <2>1, <2>4, <2>5 DEF BluezType, FdStates
  <2>7. Handed'
    <3> SUFFICES ASSUME NEW g \in Fds, fd'[g] \in {"called", "checked", "queued"}
                 PROVE  Due(g)'
      BY DEF Handed
    <3>1. fd'[g] = fd[g] /\ at'[g] = at[g] /\ at[g] \in Profiles /\ Due(g)
      BY <1>0, <2>1, <2>5 DEF BluezInv, Handed, BluezType
    <3>2. /\ Served(at[g])' <=> Served(at[g])
          /\ prof'[at[g]].closed = prof[at[g]].closed
      BY <1>1, <2>1, <2>4, <3>1 DEF Served, DialWaits, Profiles
    <3>3. QED
      BY <2>1, <3>1, <3>2 DEF Due
  <2>8. CalledWhileServed'
    BY <1>1, <2>1, <2>4 DEF BluezInv, CalledWhileServed, Served, DialWaits
  <2>9. ProfileLife'
    BY <2>1, <2>2, <2>4, <2>5 DEF BluezInv, ProfileLife, Profiles
  <2>10. ProfilesStayUsable'
    BY <1>1, <2>4, <2>5 DEF BluezInv, ProfilesStayUsable
  <2>11. QED
    BY <2>6, <2>7, <2>8, <2>9, <2>10 DEF BluezInv
<1>4. QED
  BY <1>2, <1>3

LEMMA BluezDials ==
  ASSUME BluezInv, UNCHANGED child, DialSteps
  PROVE  BluezInv'
<1>0. "dial" \in Profiles /\ BluezType
  BY DEF Profiles, BluezInv
<1>1. /\ ProfileOK(prof["dial"])
      /\ prof["dial"].queue # <<>> => prof["dial"].closed \/ storing # {}
  BY <1>0, ProfilesTyped DEF BluezInv, CalledWhileServed
<1>2. /\ ProfileOK(Finish(prof["dial"])) /\ Finish(prof["dial"]).closed
      /\ Finish(prof["dial"]).registered = prof["dial"].registered
      /\ Finish(prof["dial"]).bus = prof["dial"].bus
      /\ Finish(prof["dial"]).cleaned = prof["dial"].cleaned
  BY <1>1, Finished
<1>3. CASE ConnectFails \/ DialCtxDone \/ DialAborted
  BY <1>1, <1>2, <1>3, BluezDialFails DEF ConnectFails, DialCtxDone, DialAborted
<1>4. CASE DialError
  <2> DEFINE pr == Finish(prof["dial"])
             q == Tail(pr.queue)
             x == [pr EXCEPT !.queue = q]
  <2>1. dpc = "select" /\ DialFails(x) /\ prof["dial"].queue # <<>>
    BY <1>4 DEF DialError
  <2>3. q \in Seq(Fds \cup {Err}) /\ Len(q) <= Backlog
    <3>1. pr.queue \in Seq(Fds \cup {Err}) /\ Len(pr.queue) <= Backlog /\ pr.queue # <<>>
      BY <1>1, <1>2, <2>1, Finished DEF ProfileOK, ProfileSet
    <3>2. Err \in Fds \cup {Err}
      OBVIOUS
    <3> HIDE DEF pr
    <3>3. QED
      BY <3>1, <3>2, QueueOps, BluezAssumption
  <2>4. /\ ProfileOK(pr) /\ pr.closed /\ pr.registered = prof["dial"].registered
        /\ pr.bus = prof["dial"].bus /\ pr.cleaned = prof["dial"].cleaned
    BY <1>2
  <2> HIDE DEF pr, q
  <2>5. /\ ProfileOK(x) /\ x.closed /\ x.registered = pr.registered /\ x.bus = pr.bus
        /\ x.cleaned = pr.cleaned
    BY <2>3, <2>4 DEF ProfileOK, ProfileSet
  <2> HIDE DEF x
  <2>6. QED
    BY <2>1, <2>4, <2>5, BluezDialFails
<1>5. CASE ConnectProfile
  <2>1. /\ UNCHANGED <<bus, busSeq, prof, fd, at, storing, dctx, raced>>
        /\ dpc = "connect" /\ dpc' = "select"
        /\ UNCHANGED <<closed, ln>> /\ Running("rfcomm")' = Running("rfcomm")
    BY <1>5 DEF ConnectProfile, child, Running, calls
  <2>2. BluezType'
    BY <1>0, <2>1 DEF BluezType, FdStates
  <2>3. Handed' /\ CalledWhileServed'
    BY <2>1 DEF BluezInv, Handed, Due, CalledWhileServed, Served, DialWaits
  <2>4. ProfileLife'
    BY <2>1 DEF BluezInv, ProfileLife
  <2>5. ProfilesStayUsable'
    BY <2>1 DEF BluezInv, ProfilesStayUsable, Reachable
  <2>6. QED
    BY <2>2, <2>3, <2>4, <2>5 DEF BluezInv
<1>6. CASE DialCtxEnds
  <2>1. /\ UNCHANGED <<bus, busSeq, prof, fd, at, storing, dpc, raced>> /\ dctx' = TRUE
        /\ UNCHANGED <<closed, ln>> /\ Running("rfcomm")' = Running("rfcomm")
    BY <1>6 DEF DialCtxEnds, child, Running, calls
  <2>2. BluezType'
    BY <1>0, <2>1 DEF BluezType, FdStates
  <2>3. Handed' /\ CalledWhileServed'
    BY <2>1 DEF BluezInv, Handed, Due, CalledWhileServed, Served, DialWaits
  <2>4. ProfileLife'
    BY <2>1 DEF BluezInv, ProfileLife
  <2>5. ProfilesStayUsable'
    BY <2>1 DEF BluezInv, ProfilesStayUsable, Reachable
  <2>6. QED
    BY <2>2, <2>3, <2>4, <2>5 DEF BluezInv
<1>7. QED
  BY <1>3, <1>4, <1>5, <1>6, BluezDialStarts, BluezDialCleans, BluezDialOwns DEF DialSteps

\* A Close of some child, while Listen stays where it is.
LEMMA BluezClosedBy ==
  ASSUME ChildType, BluezInv, NEW c \in Kinds, NEW g, CloseChild(c, g), UNCHANGED pc
  PROVE  BluezInv'
<1>1. /\ closed' = closed \cup {c} /\ ln' = Stopped(c)
      /\ (c = "rfcomm" /\ CloseRfcomm) \/ UNCHANGED bluez
  BY CloseChildEffects
<1>2. ln'["rfcomm"] = "nil" <=> ln["rfcomm"] = "nil"
  BY <1>1, StoppedListener DEF Kinds
<1>3. Running("rfcomm")' <=> Running("rfcomm")
  BY DEF Running
<1>4. CASE UNCHANGED bluez
  BY <1>1, <1>2, <1>3, <1>4, BluezAside
<1>5. CASE CloseRfcomm /\ ln["rfcomm"] = "nil"
  <2>1. UNCHANGED bluez
    BY <1>5 DEF CloseRfcomm, bluez
  <2>2. QED
    BY <1>4, <2>1
<1>6. CASE CloseRfcomm /\ ln["rfcomm"] # "nil"
  BY <1>2, <1>3, <1>6, BluezListenerCloses
<1>7. QED
  BY <1>1, <1>4, <1>5, <1>6

LEMMA NextBluez == ChildType /\ BluezInv /\ [Next]_vars => BluezInv'
<1> SUFFICES ASSUME ChildType, BluezInv, [Next]_vars PROVE BluezInv'
  OBVIOUS
<1>0. Kinds = {"tcp", "quic", "rfcomm", "winsock"}
  BY DEF Kinds
<1>1. ASSUME NEW c \in Kinds, ListenCheck(c) \/ AcceptTemporary(c) \/ WakeUp(c) PROVE BluezInv'
  <2>1. UNCHANGED <<bluez, ln, closed>>
    BY <1>1 DEF ListenCheck, AcceptTemporary, WakeUp, native
  <2>2. /\ pc'["rfcomm"] # pc["rfcomm"] => \/ /\ pc["rfcomm"] = "start"
                                              /\ pc'["rfcomm"] \in {"checked", "returned"}
                                           \/ /\ pc["rfcomm"] = "sleep"
                                              /\ pc'["rfcomm"] = "accepting"
    <3>1. CASE ListenCheck(c)
      BY <1>0, <3>1 DEF ListenCheck, Return, ChildType
    <3>2. CASE AcceptTemporary(c)
      BY <1>0, <3>2 DEF AcceptTemporary, Go, ChildType
    <3>3. CASE WakeUp(c)
      BY <1>0, <3>3 DEF WakeUp, Go, ChildType
    <3>4. QED
      BY <1>1, <3>1, <3>2, <3>3
  <2>3. Running("rfcomm")' <=> Running("rfcomm")
    BY <2>2 DEF Running
  <2>4. QED
    BY <2>1, <2>3, BluezAside
<1>2. ASSUME NEW c \in Kinds, WatchCtx(c) PROVE BluezInv'
  BY <1>2, BluezClosedBy DEF WatchCtx
<1>3. ASSUME NEW g \in Closers, CloseNext(g) PROVE BluezInv'
  <2>1. setup.kids[todo[g]] \in Kinds /\ CloseChild(setup.kids[todo[g]], g) /\ UNCHANGED pc
    BY <1>3, KidsAreKinds DEF CloseNext
  <2>2. QED
    BY <2>1, BluezClosedBy
<1>4. ASSUME UNCHANGED bluez, closed \subseteq closed', pc'["rfcomm"] = pc["rfcomm"],
             ln'["rfcomm"] = "nil" <=> ln["rfcomm"] = "nil"
      PROVE  BluezInv'
  <2>1. Running("rfcomm")' <=> Running("rfcomm")
    BY <1>4 DEF Running
  <2>2. QED
    BY <1>4, <2>1, BluezAside
<1>5. ASSUME NEW c \in Kinds \ {"rfcomm"}, NEW to, pc' = [pc EXCEPT ![c] = to], UNCHANGED bluez,
             closed \subseteq closed', ln' \in {ln, Stopped(c), [ln EXCEPT ![c] = "open"]}
      PROVE  BluezInv'
  <2>1. pc'["rfcomm"] = pc["rfcomm"] /\ (ln'["rfcomm"] = "nil" <=> ln["rfcomm"] = "nil")
    BY <1>0, <1>5, StoppedListener DEF ChildType
  <2>2. QED
    BY <1>4, <1>5, <2>1
<1>6. CASE TcpStep
  BY <1>0, <1>5, <1>6 DEF TcpStep, TcpRefused, Refused, Return, TcpBind, Bind, Go,
     TcpAcceptFails, AcceptFails, TcpAdd, AddSock, TcpAccept, AcceptSock, native
<1>7. CASE QuicStep
  BY <1>0, <1>5, <1>7 DEF QuicStep, QuicRefused, Refused, Return, QuicBind, Bind, Go,
     QuicAcceptFails, AcceptFails, CloseQuic, StreamOpened, StreamFails, QuicAdd, AddSock,
     QuicAccept, AcceptSock, native
<1>8. CASE WinsockStep
  BY <1>0, <1>5, <1>8 DEF WinsockStep, WinsockRefused, Refused, Return, WinsockBind, Bind,
     Go, WinsockAccept, WinsockCall, WinsockAcceptFails, CloseWinsock, WinsockReturns,
     WinsockAdd, AddSock, WinsockAccepted, native
<1>9. CASE RfcommAcceptFails
  <2>1. /\ pc["rfcomm"] = "accepting" /\ pc' = [pc EXCEPT !["rfcomm"] = "returned"] /\ CloseRfcomm
        /\ ln' = Stopped("rfcomm")
    BY <1>9 DEF RfcommAcceptFails, AcceptFails, Return, CloseRfcomm
  <2>2. Running("rfcomm") /\ ln["rfcomm"] # "nil"
    BY <2>1 DEF Running, BluezInv, CalledWhileServed
  <2>3. ln'["rfcomm"] # "nil"
    BY <1>0, <2>1, <2>2, StoppedListener
  <2>4. QED
    BY <2>1, <2>2, <2>3, BluezListenerCloses
<1>10. CASE RfcommStep
  BY <1>9, <1>10, BluezBinds, BluezAccepts DEF RfcommStep
<1>11. CASE MultiListen
  <2>1. /\ UNCHANGED <<bluez, ln, closed>> /\ pc["rfcomm"] = "off"
    BY <1>0, <1>11 DEF MultiListen, native, ChildType
  <2>2. pc'["rfcomm"] \in {"off", "start"}
    BY <1>0, <1>11, <2>1 DEF MultiListen
  <2>3. Running("rfcomm")' <=> Running("rfcomm")
    BY <2>1, <2>2 DEF Running
  <2>4. QED
    BY <2>1, <2>3, BluezAside
<1>12. CASE MultiWatch \/ MultiClose \/ MultiReturn \/ CtxEnds \/ \E c \in Kinds : MultiReceive(c)
  <2>1. UNCHANGED <<bluez, ln, closed, pc>>
    BY <1>12 DEF MultiWatch, MultiClose, MultiReturn, CtxEnds, MultiReceive, child, native
  <2>2. QED
    BY <1>4, <2>1
<1>13. CASE UNCHANGED <<multi, child, bluez>>
  BY <1>4, <1>13 DEF child
<1>14. CASE (FromBluez \/ DialSteps) /\ UNCHANGED child
  BY <1>14, BluezCalls, BluezDials
<1>15. QED
  BY <1>1, <1>2, <1>3, <1>6, <1>7, <1>8, <1>10, <1>11, <1>12, <1>13, <1>14
     DEF Next, MultiStep, vars, native

LEMMA BluezHolds == Spec => [](ChildType /\ BluezInv)
<1>1. Init => ChildType /\ BluezInv
  BY InitChild, InitBluez
<1>2. ChildType /\ BluezInv /\ [Next]_vars => (ChildType /\ BluezInv)'
  BY NextChild, NextBluez
<1>3. QED
  BY <1>1, <1>2, PTL DEF Spec

\* However many descriptors BlueZ hands over and whatever the backlog, one
\* that is left in acceptCh with nobody to take it was handed over before the
\* listener closed or the dial was decided, or while a decided dial still let
\* connections in: between a failed ConnectProfile and the end of its cleanup
\* (no finish), or between the send of the pipe the dial took and its closed
\* store in NewConnection.  After that none is queued at a profile that nobody
\* serves any more.
THEOREM LeftBehindByRace == Spec => []StrandedOnlyByRace
<1>1. BluezInv => StrandedOnlyByRace
  BY DEF BluezInv, Handed, Due, StrandedOnlyByRace
<1>2. QED
  BY <1>1, BluezHolds, PTL

\* A listener that waits in Accept is registered with BlueZ unless it was
\* closed or finished or the dial's cleanup has closed the bus they share, and
\* the profile of a connection a dial returned is not cleaned up while that is
\* open unless a second connection found the backlog full.
THEOREM ProfilesUsable == Spec => []ProfilesStayUsable
<1>1. BluezInv => ProfilesStayUsable
  BY DEF BluezInv
<1>2. QED
  BY <1>1, BluezHolds, PTL

\* Every variable of the listeners, of Winsock and of BlueZ stays in its type:
\* no acceptCh outgrows its backlog.
THEOREM TypeCorrect == Spec => []TypeOK
<1> DEFINE Inv == ChildType /\ WinsockInv
<1>1. Init => Inv
  BY InitChild, InitWinsock
<1>2. Inv /\ [Next]_vars => Inv'
  BY NextChild, NextWinsock
<1>3. Inv /\ BluezInv => TypeOK
  BY DEF WinsockInv, BluezInv, TypeOK
<1>4. QED
  BY <1>1, <1>2, <1>3, BluezHolds, PTL DEF Spec

-----------------------------------------------------------------------------
(* Frames on the stream *)

\* How many bytes of the current frame WriteAll has behind it, and how many
\* are on the stream.
Base == (IF seg = "header" THEN HdrLen ELSE Size(cur)) - Len(rest)
Position == Base + w.total + w.ftotal

\* What WriteAll and winSockPipe.Write count agrees with what is left to write.
Counted ==
  /\ cur = 0 => rest = <<>>
  /\ cur # 0 =>
       /\ result[cur] = "none" /\ rest # <<>> /\ w.total < Len(rest)
       /\ Len(rest) <= IF seg = "header" THEN HdrLen ELSE payload[cur]
       /\ \A i \in 1..Len(rest) : rest[i] = <<cur, Base + i>>
  /\ cur = 0 \/ pipe = "plain" \/ ~w.active => w.ftotal = 0
  /\ cur = 0 \/ pipe = "plain" => w.total = 0 /\ ~w.active
  /\ w.active => w.total + w.len <= Len(rest) /\ w.ftotal < w.len /\ w.chunk > 0

\* Frames are begun in order.
InTurns ==
  \A e, f \in Frames : e < f /\ (result[f] # "none" \/ f = cur) => result[e] # "none"

\* Of every frame a prefix is on the stream: all of it when WriteFrame said so,
\* none of it before its turn, and the current one's at the end.
Prefixes ==
  /\ OkIffWritten
  /\ \A f \in Frames : /\ (result[f] = "none" /\ f # cur) => OnStream(f, 0)
                       /\ (result[f] = "err" /\ ~torn) => OnStream(f, 0)
  /\ cur # 0 =>
       /\ Position <= Len(out)
       /\ \A i \in 1..Position : out[Len(out) - Position + i] = <<cur, i>>
       /\ \A k \in 1..(Len(out) - Position) : out[k][1] # cur
  /\ \A k, l \in 1..Len(out) : k < l => out[k][1] <= out[l][1]

-----------------------------------------------------------------------------
(* Frames at the receiver *)

\* Where the frame that Decode is reading starts.
From == rpos - Len(cache) - Len(buf)

\* What was received and not delivered is in the buffer and in the cache.
Received ==
  /\ rpos <= Len(out) /\ From \in Nat
  /\ \A i \in 1..Len(buf) : buf[i] = out[From + i]
  /\ \A i \in 1..Len(cache) : cache[i] = out[From + Len(buf) + i]
  /\ stage \in {"prefix", "header", "payload"} => Len(buf) < need
  /\ stage = "prefix" => need = Prefix
  /\ stage = "header" => need = HdrLen
  /\ stage = "payload" => Len(buf) >= HdrLen

\* The reader is at the start of a frame, and knows its length once it has
\* read the header.
InStep ==
  /\ stage # "failed"
  /\ From < Len(out) => out[From + 1][2] = 1
  /\ stage = "payload" => need = Size(out[From + 1][1])

\* The frames delivered are those before it.
Before ==
  /\ \A i \in 1..Len(got) : /\ FrameOf(got[i]) \in Frames /\ got[i] = Bytes(FrameOf(got[i]))
                            /\ result[FrameOf(got[i])] = "ok"
  /\ \A i, j \in 1..Len(got) : i < j => FrameOf(got[i]) < FrameOf(got[j])
  /\ \A k \in 1..From : \E i \in 1..Len(got) : FrameOf(got[i]) = out[k][1]
  /\ \A k \in 1..Len(out) : k > From => \A i \in 1..Len(got) : FrameOf(got[i]) # out[k][1]

Clean == ~torn => InStep /\ Before
-----------------------------------------------------------------------------
(* Sequences of bytes *)

LEMMA MinOf ==
  ASSUME NEW a \in Nat, NEW b \in Nat
  PROVE  Min({a, b}) \in Nat /\ Min({a, b}) \in {a, b} /\ Min({a, b}) <= a /\ Min({a, b}) <= b
<1>1. \E x \in {a, b} : \A y \in {a, b} : x <= y
  OBVIOUS
<1>2. Min({a, b}) \in {a, b} /\ \A y \in {a, b} : Min({a, b}) <= y
  BY <1>1 DEF Min
<1> QED BY <1>2

LEMMA MaxOf ==
  ASSUME NEW a \in Nat, NEW b \in Nat
  PROVE  Max({a, b}) \in Nat /\ a <= Max({a, b}) /\ b <= Max({a, b})
<1>1. \E x \in {a, b} : \A y \in {a, b} : x >= y
  OBVIOUS
<1>2. Max({a, b}) \in {a, b} /\ \A y \in {a, b} : Max({a, b}) >= y
  BY <1>1 DEF Max
<1> QED BY <1>2

\* A function on 1..n whose values are bytes is a sequence of them.
LEMMA Stretch ==
  ASSUME NEW n \in Nat, NEW s \in [1..n -> Byte]
  PROVE  s \in Seq(Byte) /\ Len(s) = n
OBVIOUS

LEMMA Lengths ==
  ASSUME NEW f \in Frames
  PROVE  /\ f \in Nat /\ f > 0
         /\ payload[f] \in Nat /\ HdrLen \in Nat /\ HdrLen > 1 /\ Size(f) \in Nat /\ Size(f) > 1
         /\ Header(f) \in Seq(Byte) /\ Len(Header(f)) = HdrLen
         /\ \A i \in 1..HdrLen : Header(f)[i] = <<f, i>>
         /\ Payload(f) \in Seq(Byte) /\ Len(Payload(f)) = payload[f]
         /\ \A i \in 1..payload[f] : Payload(f)[i] = <<f, HdrLen + i>>
         /\ Bytes(f) \in Seq(Byte) /\ Len(Bytes(f)) = Size(f)
         /\ \A i \in 1..Size(f) : Bytes(f)[i] = <<f, i>>
<1>1. f \in Nat /\ f > 0 /\ payload[f] \in Nat /\ HdrLen \in Nat /\ HdrLen > 1
  BY WireAssumption DEF Frames
<1>2. Size(f) \in Nat /\ Size(f) > 1
  BY <1>1 DEF Size
<1>3. /\ Header(f) \in Seq(Byte) /\ Len(Header(f)) = HdrLen
      /\ \A i \in 1..HdrLen : Header(f)[i] = <<f, i>>
  <2>1. \A i \in 1..HdrLen : <<f, i>> \in Byte
    BY <1>1 DEF Byte
  <2>2. Header(f) \in [1..HdrLen -> Byte] /\ \A i \in 1..HdrLen : Header(f)[i] = <<f, i>>
    BY <2>1 DEF Header
  <2> QED BY <1>1, <2>2, Stretch
<1>4. /\ Payload(f) \in Seq(Byte) /\ Len(Payload(f)) = payload[f]
      /\ \A i \in 1..payload[f] : Payload(f)[i] = <<f, HdrLen + i>>
  <2>1. \A i \in 1..payload[f] : <<f, HdrLen + i>> \in Byte
    BY <1>1 DEF Byte
  <2>2. /\ Payload(f) \in [1..payload[f] -> Byte]
        /\ \A i \in 1..payload[f] : Payload(f)[i] = <<f, HdrLen + i>>
    BY <2>1 DEF Payload
  <2> QED BY <1>1, <2>2, Stretch
<1>5. /\ Bytes(f) \in Seq(Byte) /\ Len(Bytes(f)) = HdrLen + payload[f]
      /\ \A i \in 1..(HdrLen + payload[f]) :
            Bytes(f)[i] = IF i <= HdrLen THEN Header(f)[i] ELSE Payload(f)[i - HdrLen]
  <2>1. \A s, t \in Seq(Byte) :
           /\ s \o t \in Seq(Byte) /\ Len(s \o t) = Len(s) + Len(t)
           /\ \A i \in 1..(Len(s) + Len(t)) : (s \o t)[i] = IF i <= Len(s) THEN s[i] ELSE t[i - Len(s)]
    BY ConcatProperties
  <2>2. /\ Bytes(f) \in Seq(Byte) /\ Len(Bytes(f)) = Len(Header(f)) + Len(Payload(f))
        /\ \A i \in 1..(Len(Header(f)) + Len(Payload(f))) :
              Bytes(f)[i] = IF i <= Len(Header(f)) THEN Header(f)[i] ELSE Payload(f)[i - Len(Header(f))]
    BY <1>3, <1>4, <2>1 DEF Bytes
  <2> QED BY <1>3, <1>4, <2>2
<1>6. \A i \in 1..Size(f) : Bytes(f)[i] = <<f, i>>
  <2> TAKE i \in 1..Size(f)
  <2>1. CASE i <= HdrLen
    BY <1>1, <1>3, <1>5, <2>1 DEF Size
  <2>2. CASE i > HdrLen
    <3>1. i - HdrLen \in 1..payload[f] /\ HdrLen + (i - HdrLen) = i
      BY <1>1, <2>2 DEF Size
    <3>2. i \in 1..(HdrLen + payload[f]) /\ ~(i <= HdrLen)
      BY <1>1, <2>2 DEF Size
    <3>3. Bytes(f)[i] = Payload(f)[i - HdrLen]
      BY <1>5, <3>2
    <3> QED BY <1>4, <3>1, <3>3
  <2> QED BY <1>1, <2>1, <2>2 DEF Size
<1> QED BY <1>1, <1>2, <1>3, <1>4, <1>5, <1>6 DEF Size

LEMMA Part ==
  ASSUME NEW t \in Seq(Byte), NEW a \in Nat, NEW b \in Nat, a <= b, b <= Len(t)
  PROVE  /\ SubSeq(t, a + 1, b) \in Seq(Byte) /\ Len(SubSeq(t, a + 1, b)) = b - a
         /\ \A i \in 1..(b - a) : SubSeq(t, a + 1, b)[i] = t[a + i]
<1>1. \A i \in (a + 1)..b : t[i] \in Byte
  OBVIOUS
<1>2. /\ SubSeq(t, a + 1, b) \in Seq(Byte)
      /\ Len(SubSeq(t, a + 1, b)) = IF a + 1 <= b THEN b - (a + 1) + 1 ELSE 0
      /\ \A i \in 1..(b - (a + 1) + 1) : SubSeq(t, a + 1, b)[i] = t[(a + 1) + i - 1]
  BY <1>1, SubSeqProperties
<1> QED BY <1>2

LEMMA Joined ==
  ASSUME NEW s \in Seq(Byte), NEW t \in Seq(Byte), NEW a \in Nat, NEW b \in Nat, a <= b, b <= Len(t)
  PROVE  LET u == s \o SubSeq(t, a + 1, b) IN
         /\ u \in Seq(Byte) /\ Len(u) = Len(s) + (b - a)
         /\ \A k \in 1..Len(s) : u[k] = s[k]
         /\ \A i \in 1..(b - a) : u[Len(s) + i] = t[a + i]
<1> DEFINE v == SubSeq(t, a + 1, b)
           u == s \o v
<1>1. v \in Seq(Byte) /\ Len(v) = b - a /\ \A i \in 1..(b - a) : v[i] = t[a + i]
  BY Part
<1> HIDE DEF v
<1>2. /\ u \in Seq(Byte) /\ Len(u) = Len(s) + Len(v)
      /\ \A i \in 1..(Len(s) + Len(v)) : u[i] = IF i <= Len(s) THEN s[i] ELSE v[i - Len(s)]
  BY <1>1, ConcatProperties, ZenonT(60)
<1>3. Len(s) \in Nat /\ Len(v) \in Nat
  BY <1>1
<1>4. \A k \in 1..Len(s) : u[k] = s[k]
  BY <1>2, <1>3
<1>5. ASSUME NEW i \in 1..(b - a) PROVE u[Len(s) + i] = t[a + i]
  <2>1. Len(s) + i \in 1..(Len(s) + Len(v)) /\ ~(Len(s) + i <= Len(s)) /\ (Len(s) + i) - Len(s) = i
    BY <1>1, <1>3
  <2> QED BY <1>1, <1>2, <2>1
<1> QED BY <1>1, <1>2, <1>4, <1>5 DEF v

\* A sequence of the bytes of f is Bytes(f).
LEMMA AllBytes ==
  ASSUME NEW f \in Frames, NEW s \in Seq(Byte), Len(s) = Size(f),
         \A i \in 1..Size(f) : s[i] = <<f, i>>
  PROVE  s = Bytes(f)
<1>1. Bytes(f) \in Seq(Byte) /\ Len(s) = Len(Bytes(f)) /\ \A i \in 1..Len(s) : s[i] = Bytes(f)[i]
  BY Lengths
<1> QED BY <1>1, SeqEqual

-----------------------------------------------------------------------------
(* What the sender does *)

Writes == [total : Nat, active : BOOLEAN, len : Nat, ftotal : Nat, chunk : Nat, tick : BOOLEAN]

SenderType ==
  /\ torn \in BOOLEAN /\ cur \in Frames \cup {0} /\ seg \in {"header", "payload"}
  /\ result \in [Frames -> {"none", "ok", "err"}] /\ w \in Writes /\ rest \in Seq(Byte)

\* n more bytes of the current frame are on the stream.
Pushes(n) ==
  /\ out' \in Seq(Byte) /\ Len(out') = Len(out) + n
  /\ \A k \in 1..Len(out) : out'[k] = out[k]
  /\ \A i \in 1..n : out'[Len(out) + i] = <<cur, Position + i>>

\* WriteFrame goes on or answers, with n bytes of the frame on the stream.
Outcome(n) ==
  \/ cur' = cur /\ UNCHANGED <<result, torn>> /\ Position' = n
  \/ n = Size(cur) /\ cur' = 0 /\ result' = [result EXCEPT ![cur] = "ok"] /\ torn' = torn
  \/ n < Size(cur) /\ cur' = 0 /\ result' = [result EXCEPT ![cur] = "err"] /\ torn' = (torn \/ n > 0)

LEMMA SenderTyped == WireTypeOK => SenderType
BY DEF WireTypeOK, SenderType, Writes

LEMMA Limits ==
  ASSUME SenderType, Counted, cur # 0
  PROVE  /\ cur \in Frames /\ Len(rest) \in Nat /\ Len(rest) > 0 /\ Base \in Nat
         /\ seg = "header" => Base + Len(rest) = HdrLen
         /\ seg = "payload" => Base + Len(rest) = Size(cur)
         /\ Base + Len(rest) <= Size(cur)
<1>1. cur \in Frames /\ Len(rest) \in Nat /\ Len(rest) > 0
  BY DEF SenderType, Counted
<1>2. payload[cur] \in Nat /\ HdrLen \in Nat /\ HdrLen > 1 /\ Size(cur) = HdrLen + payload[cur]
  BY <1>1, Lengths DEF Size
<1> QED BY <1>1, <1>2 DEF SenderType, Counted, Base

LEMMA Returns ==
  ASSUME SenderType, Counted, cur # 0, pipe' = pipe, NEW n \in 0..Len(rest), NEW err \in BOOLEAN,
         WriteReturns(n, err)
  PROVE  SenderType' /\ Counted' /\ Outcome(Base + n)
<1> DEFINE left == SubSeq(rest, n + 1, Len(rest))
<1>1. /\ cur \in Frames /\ Len(rest) \in Nat /\ Len(rest) > 0 /\ Base \in Nat
      /\ seg = "header" => Base + Len(rest) = HdrLen
      /\ seg = "payload" => Base + Len(rest) = Size(cur)
      /\ Base + Len(rest) <= Size(cur)
  BY Limits
<1>2. /\ payload[cur] \in Nat /\ HdrLen \in Nat /\ HdrLen > 1 /\ Size(cur) = HdrLen + payload[cur]
      /\ Payload(cur) \in Seq(Byte) /\ Len(Payload(cur)) = payload[cur]
      /\ \A i \in 1..payload[cur] : Payload(cur)[i] = <<cur, HdrLen + i>>
  BY <1>1, Lengths DEF Size
<1>3. /\ left \in Seq(Byte) /\ Len(left) = Len(rest) - n
      /\ \A i \in 1..(Len(rest) - n) : left[i] = rest[n + i]
  BY <1>1, Part DEF SenderType
<1>0. /\ left = <<>> /\ seg = "header" /\ payload[cur] > 0 =>
            seg' = "payload" /\ rest' = Payload(cur) /\ UNCHANGED <<cur, result, torn>>
      /\ left = <<>> /\ (seg = "payload" \/ payload[cur] = 0) => Answer("ok") /\ torn' = torn
      /\ left # <<>> /\ (err \/ n = 0) =>
            Answer("err") /\ torn' = (torn \/ seg = "payload" \/ Len(left) < HdrLen)
      /\ left # <<>> /\ ~(err \/ n = 0) => rest' = left /\ UNCHANGED <<cur, seg, result, torn>>
  BY <1>2, SMTT(60) DEF WriteReturns
<1>4. w' = NoWrite /\ NoWrite \in Writes /\ NoWrite.total = 0 /\ NoWrite.ftotal = 0 /\ ~NoWrite.active
  BY DEF WriteReturns, NoWrite, Writes
<1> HIDE DEF left
<1>5. left = <<>> <=> n = Len(rest)
  BY <1>1, <1>3, EmptySeq
<1>6. seg \in {"header", "payload"} /\ torn \in BOOLEAN /\ result \in [Frames -> {"none", "ok", "err"}]
  BY DEF SenderType
<1>7. \A i \in 1..Len(rest) : rest[i] = <<cur, Base + i>>
  BY DEF Counted
<1>8. result[cur] = "none" /\ (Len(rest) <= IF seg = "header" THEN HdrLen ELSE payload[cur])
  BY DEF Counted
<1>13. /\ n \in Nat /\ n <= Len(rest) /\ payload[cur] \in Nat /\ HdrLen \in Nat /\ Size(cur) = HdrLen + payload[cur]
       /\ Len(rest) \in Nat /\ Base \in Nat
       /\ seg = "header" => Base + Len(rest) = HdrLen
       /\ seg = "payload" => Base + Len(rest) = Size(cur)
       /\ Base + Len(rest) <= Size(cur) /\ Len(left) = Len(rest) - n
  BY <1>1, <1>2, <1>3
<1>9. CASE left = <<>> /\ seg = "header" /\ payload[cur] > 0
  <2>1. seg' = "payload" /\ rest' = Payload(cur) /\ UNCHANGED <<cur, result, torn>>
    BY <1>0, <1>9
  <2>2. Base' = HdrLen /\ Base + n = HdrLen /\ Position' = HdrLen
    <3>1. Base' = Size(cur)' - Len(rest')
      BY <2>1 DEF Base
    <3>2. Size(cur)' = HdrLen + payload[cur] /\ Len(rest') = payload[cur]
      BY <1>2, <2>1 DEF Size
    <3>3. Base + n = HdrLen
      BY <1>1, <1>5, <1>9
    <3> QED BY <1>2, <1>4, <3>1, <3>2, <3>3 DEF Position
  <2>3. SenderType'
    BY <1>1, <1>2, <1>4, <1>6, <2>1 DEF SenderType
  <2>4. Counted'
    BY <1>1, <1>2, <1>4, <1>8, <1>9, <2>1, <2>2 DEF Counted
  <2> QED BY <2>1, <2>2, <2>3, <2>4 DEF Outcome
<1>10. CASE left = <<>> /\ (seg = "payload" \/ payload[cur] = 0)
  <2>1. Answer("ok") /\ torn' = torn
    BY <1>0, <1>10
  <2>2. Base + n = Size(cur)
    BY <1>5, <1>6, <1>10, <1>13
  <2>3. SenderType'
    BY <1>1, <1>4, <1>6, <2>1 DEF SenderType, Answer
  <2>4. Counted'
    BY <1>1, <1>4, <2>1 DEF Counted, Answer
  <2> QED BY <2>1, <2>2, <2>3, <2>4 DEF Outcome, Answer
<1>11. CASE left # <<>> /\ (err \/ n = 0)
  <2>1. Answer("err") /\ torn' = (torn \/ seg = "payload" \/ Len(left) < HdrLen)
    BY <1>0, <1>11
  <2>2. Base + n < Size(cur) /\ Base + n \in Nat
    BY <1>5, <1>11, <1>13
  <2>3. (seg = "payload" \/ Len(left) < HdrLen) <=> Base + n > 0
    BY <1>1, <1>2, <1>3, <1>6, <1>8
  <2>4. SenderType'
    BY <1>1, <1>4, <1>6, <2>1 DEF SenderType, Answer
  <2>5. Counted'
    BY <1>1, <1>4, <2>1 DEF Counted, Answer
  <2> QED BY <1>6, <2>1, <2>2, <2>3, <2>4, <2>5 DEF Outcome, Answer
<1>12. CASE left # <<>> /\ ~(err \/ n = 0)
  <2>1. rest' = left /\ UNCHANGED <<cur, seg, result, torn>>
    BY <1>0, <1>12
  <2>2. Base' = Base + n /\ Position' = Base + n
    <3>1. Base' = (IF seg = "header" THEN HdrLen ELSE Size(cur)) - Len(left)
      BY <2>1 DEF Base, Size
    <3>2. Base = (IF seg = "header" THEN HdrLen ELSE Size(cur)) - Len(rest)
      BY DEF Base
    <3>3. Base' = Base + n
      BY <1>6, <1>13, <3>1, <3>2
    <3> QED BY <1>4, <1>13, <3>3 DEF Position
  <2>3. SenderType'
    BY <1>1, <1>3, <1>4, <1>6, <2>1 DEF SenderType
  <2>4. \A i \in 1..Len(left) : left[i] = <<cur, Base + n + i>>
    <3> SUFFICES ASSUME NEW i \in 1..(Len(rest) - n) PROVE left[i] = <<cur, Base + n + i>>
      BY <1>13
    <3>1. n + i \in 1..Len(rest) /\ Base + (n + i) = Base + n + i
      BY <1>13
    <3>2. left[i] = rest[n + i] /\ rest[n + i] = <<cur, Base + (n + i)>>
      BY <1>3, <1>7, <3>1
    <3> QED BY <3>1, <3>2
  <2>5. Counted'
    BY <1>1, <1>2, <1>3, <1>4, <1>8, <1>12, <2>1, <2>2, <2>4, SMTT(60) DEF Counted
  <2> QED BY <2>1, <2>2, <2>3, <2>5 DEF Outcome
<1> QED BY <1>2, <1>6, <1>9, <1>10, <1>11, <1>12

LEMMA ChunkDone ==
  ASSUME SenderType, Counted, cur # 0, pipe' = pipe, pipe = "windows",
         NEW n \in Nat, w.total + n <= Len(rest), NEW err \in BOOLEAN, ChunkReturns(n, err)
  PROVE  SenderType' /\ Counted' /\ Outcome(Base + w.total + n)
<1> DEFINE total == w.total + n
<1>1. /\ w \in Writes /\ w.total \in Nat /\ total \in 0..Len(rest) /\ Base \in Nat /\ Len(rest) \in Nat
      /\ Base + total = Base + w.total + n
  BY Limits DEF SenderType, Writes
<1>2. CASE err \/ n = 0 \/ total = Len(rest)
  <2>1. WriteReturns(total, err \/ n = 0) /\ (err \/ n = 0) \in BOOLEAN
    BY <1>2 DEF ChunkReturns
  <2> QED BY <1>1, <2>1, Returns
<1>3. CASE ~(err \/ n = 0 \/ total = Len(rest))
  <2>1. w' = [NoWrite EXCEPT !.total = total] /\ UNCHANGED <<cur, seg, rest, result, torn>>
    BY <1>3 DEF ChunkReturns
  <2>6. w' = [total |-> total, active |-> FALSE, len |-> 0, ftotal |-> 0, chunk |-> 0, tick |-> FALSE]
    BY <2>1 DEF NoWrite
  <2>7. total < Len(rest) /\ total \in Nat
    BY <1>1, <1>3
  <2> HIDE DEF total
  <2>2. /\ w' \in Writes /\ w'.total = total /\ w'.ftotal = 0 /\ ~w'.active
        /\ total < Len(rest) /\ total \in Nat
    BY <2>6, <2>7 DEF Writes
  <2>3. Base' = Base /\ Position' = Base + total
    BY <1>1, <2>1, <2>2 DEF Base, Position, Size
  <2>4. SenderType'
    BY <2>1, <2>2 DEF SenderType
  <2>5. Counted'
    BY <2>1, <2>2, <2>3 DEF Counted
  <2> QED BY <1>1, <2>1, <2>3, <2>4, <2>5 DEF Outcome
<1> QED BY <1>2, <1>3

LEMMA Push ==
  ASSUME SenderType, Counted, cur # 0, out \in Seq(Byte), NEW a \in Nat, NEW n \in Nat,
         a + n <= Len(rest), Position = Base + a, out' = out \o SubSeq(rest, a + 1, a + n)
  PROVE  Pushes(n) /\ Position \in Nat /\ Position + n <= Size(cur)
<1>1. Base \in Nat /\ Len(rest) \in Nat /\ Base + Len(rest) <= Size(cur) /\ Size(cur) \in Nat /\ rest \in Seq(Byte)
  BY Limits, Lengths DEF SenderType
<1>2. /\ out' \in Seq(Byte) /\ Len(out') = Len(out) + n
      /\ \A k \in 1..Len(out) : out'[k] = out[k]
      /\ \A i \in 1..n : out'[Len(out) + i] = rest[a + i]
  <2>1. a + n \in Nat /\ a <= a + n /\ (a + n) - a = n
    OBVIOUS
  <2> DEFINE b == a + n
  <2>2. b \in Nat /\ a <= b /\ b <= Len(rest) /\ b - a = n /\ out' = out \o SubSeq(rest, a + 1, b)
    BY <2>1
  <2> HIDE DEF b
  <2> QED BY <1>1, <2>2, Joined
<1>3. ASSUME NEW i \in 1..n PROVE rest[a + i] = <<cur, Position + i>>
  <2>1. a + i \in 1..Len(rest) /\ Base + (a + i) = Position + i
    BY <1>1
  <2>2. rest[a + i] = <<cur, Base + (a + i)>>
    BY <2>1 DEF Counted
  <2> QED BY <2>1, <2>2
<1>4. Position \in Nat /\ Position + n <= Size(cur)
  BY <1>1
<1> QED BY <1>2, <1>3, <1>4 DEF Pushes

LEMMA PlainEffect ==
  ASSUME SenderType, Counted, out \in Seq(Byte), NEW n \in Nat, NEW err \in BOOLEAN, PlainWrite(n, err)
  PROVE  cur # 0 /\ Pushes(n) /\ Position \in Nat /\ Position + n <= Size(cur) /\ Outcome(Position + n) /\ SenderType' /\ Counted'
<1>1. cur # 0 /\ pipe = "plain" /\ pipe' = pipe /\ n <= Len(rest) /\ WriteReturns(n, err)
      /\ out' = out \o SubSeq(rest, 1, n)
  BY DEF PlainWrite
<1>2. w.total = 0 /\ w.ftotal = 0 /\ Base \in Nat /\ Len(rest) \in Nat
  BY <1>1, Limits DEF Counted
<1>3. Position = Base /\ 0 + n <= Len(rest) /\ n \in 0..Len(rest) /\ out' = out \o SubSeq(rest, 0 + 1, 0 + n)
  BY <1>1, <1>2 DEF Position
<1>4. Pushes(n) /\ Position \in Nat /\ Position + n <= Size(cur)
  <2> DEFINE a == 0
  <2>1. a \in Nat /\ a + n <= Len(rest) /\ Position = Base + a /\ out' = out \o SubSeq(rest, a + 1, a + n)
    BY <1>2, <1>3
  <2> HIDE DEF a
  <2> QED BY <1>1, <2>1, Push
<1> QED BY <1>1, <1>3, <1>4, Returns

LEMMA ChunkEffect ==
  ASSUME SenderType, Counted, out \in Seq(Byte), NEW n \in Nat, NEW e \in Errors, SendChunk(n, e)
  PROVE  cur # 0 /\ Pushes(n) /\ Position \in Nat /\ Position + n <= Size(cur) /\ Outcome(Position + n) /\ SenderType' /\ Counted'
<1> DEFINE len == Min({W, Len(rest) - w.total})
<1>1. /\ cur # 0 /\ pipe = "windows" /\ pipe' = pipe /\ ~w.active /\ n <= len
      /\ out' = out \o SubSeq(rest, w.total + 1, w.total + n)
      /\ \/ /\ e = "msgsize" /\ n < len
            /\ w' = [total |-> w.total, active |-> TRUE, len |-> len, ftotal |-> n,
                     chunk |-> Max({1, Min({W, (len - n) \div 2})}), tick |-> FALSE]
            /\ UNCHANGED <<cur, seg, rest, result, torn>>
         \/ ChunkReturns(n, e = "other")
  BY DEF SendChunk
<1>2. /\ w.ftotal = 0 /\ w.total \in Nat /\ w.total < Len(rest) /\ Base \in Nat /\ Len(rest) \in Nat /\ W \in Nat
  BY <1>1, Limits, WireAssumption DEF Counted, SenderType, Writes
<1>3. len \in Nat /\ w.total + len <= Len(rest)
  <2>1. Len(rest) - w.total \in Nat
    BY <1>2
  <2>2. len \in Nat /\ len <= Len(rest) - w.total
    BY <1>2, <2>1, MinOf
  <2> QED BY <1>2, <2>2
<1> HIDE DEF len
<1>4. Position = Base + w.total /\ w.total + n <= Len(rest)
  <2>1. n <= len /\ Position = Base + w.total + 0
    BY <1>1, <1>2 DEF Position
  <2> QED BY <1>2, <1>3, <2>1
<1>5. Pushes(n) /\ Position \in Nat /\ Position + n <= Size(cur)
  BY <1>1, <1>2, <1>4, Push
<1>6. ASSUME n < len,
             w' = [total |-> w.total, active |-> TRUE, len |-> len, ftotal |-> n,
                   chunk |-> Max({1, Min({W, (len - n) \div 2})}), tick |-> FALSE],
             UNCHANGED <<cur, seg, rest, result, torn>>
      PROVE  Outcome(Position + n) /\ SenderType' /\ Counted'
  <2> DEFINE chunk == Max({1, Min({W, (len - n) \div 2})})
  <2>1. chunk \in Nat /\ chunk >= 1
    <3>1. (len - n) \div 2 \in Nat
      BY <1>3, <1>6
    <3>2. Min({W, (len - n) \div 2}) \in Nat
      BY <1>2, <3>1, MinOf
    <3> QED BY <3>2, MaxOf
  <2>2. w' = [total |-> w.total, active |-> TRUE, len |-> len, ftotal |-> n, chunk |-> chunk, tick |-> FALSE]
    BY <1>6
  <2> HIDE DEF chunk
  <2>3. /\ w' \in Writes /\ w'.total = w.total /\ w'.ftotal = n /\ w'.active /\ w'.len = len
        /\ w'.chunk > 0
    BY <1>2, <1>3, <2>1, <2>2 DEF Writes
  <2>4. Base' = Base /\ Position' = Position + n
    BY <1>2, <1>4, <1>6, <2>3 DEF Base, Position, Size
  <2>5. SenderType'
    BY <1>6, <2>3 DEF SenderType
  <2>6. Counted'
    BY <1>1, <1>2, <1>3, <1>6, <2>3, <2>4 DEF Counted
  <2> QED BY <1>6, <2>4, <2>5, <2>6 DEF Outcome
<1>7. CASE ChunkReturns(n, e = "other")
  <2>1. Position + n = Base + w.total + n /\ (e = "other") \in BOOLEAN
    BY <1>4
  <2>2. Outcome(Base + w.total + n) /\ SenderType' /\ Counted'
    BY <1>1, <1>4, <1>7, <2>1, ChunkDone
  <2> QED BY <1>1, <1>5, <2>1, <2>2
<1> QED BY <1>1, <1>5, <1>6, <1>7

LEMMA PieceEffect ==
  ASSUME SenderType, Counted, out \in Seq(Byte), NEW n \in Nat, NEW e \in Errors, SendPiece(n, e)
  PROVE  cur # 0 /\ Pushes(n) /\ Position \in Nat /\ Position + n <= Size(cur) /\ Outcome(Position + n) /\ SenderType' /\ Counted'
<1> DEFINE len == Min({w.chunk, w.len - w.ftotal})
           ftotal == w.ftotal + n
<1>1. /\ cur # 0 /\ pipe = "windows" /\ pipe' = pipe /\ w.active /\ n <= len
      /\ out' = out \o SubSeq(rest, w.total + w.ftotal + 1, w.total + ftotal)
      /\ \/ /\ n = 0 /\ w.chunk > 1 /\ w' = [w EXCEPT !.chunk = @ \div 2, !.tick = ~@]
            /\ UNCHANGED <<cur, seg, rest, result, torn>>
         \/ /\ ftotal < w.len /\ w' = [w EXCEPT !.ftotal = ftotal]
            /\ UNCHANGED <<cur, seg, rest, result, torn>>
         \/ \E err \in BOOLEAN : ChunkReturns(ftotal, err)
  BY DEF SendPiece
<1>2. /\ w \in Writes /\ w.total \in Nat /\ w.len \in Nat /\ w.ftotal \in Nat /\ w.chunk \in Nat
      /\ w.total + w.len <= Len(rest) /\ w.ftotal < w.len /\ w.chunk > 0
      /\ Base \in Nat /\ Len(rest) \in Nat
  BY <1>1, Limits DEF Counted, SenderType, Writes
<1>3. ftotal \in Nat /\ ftotal <= w.len
  <2>1. w.len - w.ftotal \in Nat
    BY <1>2
  <2>2. len <= w.len - w.ftotal /\ len \in Nat
    BY <1>2, <2>1, MinOf
  <2>3. n <= len
    BY <1>1
  <2> HIDE DEF len
  <2> QED BY <1>2, <2>2, <2>3
<1> HIDE DEF len
<1>4. Pushes(n) /\ Position \in Nat /\ Position + n <= Size(cur)
  <2> DEFINE a == w.total + w.ftotal
  <2>1. /\ a \in Nat /\ a + n <= Len(rest) /\ Position = Base + a /\ a + n = w.total + ftotal
    <3>1. w.total \in Nat /\ w.ftotal \in Nat /\ Base \in Nat /\ Position = Base + w.total + w.ftotal
      BY <1>2 DEF Position
    <3>2. w.total + w.len <= Len(rest) /\ w.len \in Nat /\ Len(rest) \in Nat /\ w.ftotal + n <= w.len
      BY <1>2, <1>3
    <3>3. w.total + w.ftotal + n = w.total + (w.ftotal + n)
      BY <3>1
    <3>4. a + n <= Len(rest)
      BY <3>1, <3>2, SMTT(60)
    <3>5. a + n = w.total + ftotal
      BY <3>3
    <3>6. a \in Nat /\ Position = Base + a
      BY <3>1
    <3> QED BY <3>4, <3>5, <3>6
  <2>2. out' = out \o SubSeq(rest, a + 1, a + n)
    BY <1>1, <2>1
  <2> HIDE DEF a
  <2> QED BY <1>1, <2>1, <2>2, Push
<1>5. ASSUME n = 0, w.chunk > 1, w' = [w EXCEPT !.chunk = @ \div 2, !.tick = ~@],
             UNCHANGED <<cur, seg, rest, result, torn>>
      PROVE  Outcome(Position + n) /\ SenderType' /\ Counted'
  <2>1. w.chunk \div 2 \in Nat /\ w.chunk \div 2 > 0
    BY <1>2, <1>5
  <2>2. /\ w' \in Writes /\ w'.total = w.total /\ w'.ftotal = w.ftotal /\ w'.active = w.active
        /\ w'.len = w.len /\ w'.chunk > 0
    BY <1>2, <1>5, <2>1 DEF Writes
  <2>3. Base' = Base /\ Position' = Position + n
    <3>1. Base' = Base
      BY <1>5 DEF Base, Size
    <3> QED BY <1>4, <1>5, <2>2, <3>1 DEF Position
  <2>4. SenderType'
    BY <1>5, <2>2 DEF SenderType
  <2>5. Counted'
    BY <1>1, <1>5, <2>2, <2>3 DEF Counted
  <2> QED BY <1>5, <2>3, <2>4, <2>5 DEF Outcome
<1>6. ASSUME ftotal < w.len, w' = [w EXCEPT !.ftotal = ftotal], UNCHANGED <<cur, seg, rest, result, torn>>
      PROVE  Outcome(Position + n) /\ SenderType' /\ Counted'
  <2>1. /\ w' \in Writes /\ w'.total = w.total /\ w'.ftotal = ftotal /\ w'.active = w.active
        /\ w'.len = w.len /\ w'.chunk = w.chunk
    BY <1>2, <1>3, <1>6 DEF Writes
  <2>2. Base' = Base /\ Position' = Position + n
    <3>1. Base' = Base
      BY <1>6 DEF Base, Size
    <3> QED BY <1>2, <2>1, <3>1 DEF Position
  <2>3. SenderType'
    BY <1>6, <2>1 DEF SenderType
  <2> HIDE DEF ftotal
  <2>4. Counted'
    BY <1>1, <1>6, <2>1, <2>2 DEF Counted
  <2> QED BY <1>6, <2>2, <2>3, <2>4 DEF Outcome
<1>7. ASSUME NEW err \in BOOLEAN, ChunkReturns(ftotal, err)
      PROVE  Outcome(Position + n) /\ SenderType' /\ Counted'
  <2>1. Position + n = Base + w.total + ftotal /\ w.total + ftotal <= Len(rest)
    BY <1>2, <1>3, SMTT(60) DEF Position
  <2> HIDE DEF ftotal
  <2>2. Outcome(Base + w.total + ftotal) /\ SenderType' /\ Counted'
    BY <1>1, <1>3, <1>7, <2>1, ChunkDone
  <2> QED BY <2>1, <2>2
<1> QED BY <1>1, <1>4, <1>5, <1>6, <1>7

\* Every step of a write pushes some bytes of the current frame, and counts them.
LEMMA WriteEffect ==
  ASSUME SenderType, Counted, out \in Seq(Byte), WriteStep
  PROVE  /\ cur # 0 /\ SenderType' /\ Counted' /\ UNCHANGED <<pipe, receiver>>
         /\ Position \in Nat
         /\ \E n \in Nat : Pushes(n) /\ Position + n <= Size(cur) /\ Outcome(Position + n)
<1>1. CASE \E n \in 0..Max({HdrLen} \cup {payload[f] : f \in Frames}), err \in BOOLEAN : PlainWrite(n, err)
  <2>1. PICK n \in Nat, err \in BOOLEAN : PlainWrite(n, err)
    BY <1>1
  <2>2. UNCHANGED <<pipe, receiver>>
    BY <2>1 DEF PlainWrite
  <2> QED BY <2>1, <2>2, PlainEffect
<1>2. CASE \E n \in 0..W, e \in Errors : SendChunk(n, e) \/ SendPiece(n, e)
  <2>1. PICK n \in 0..W, e \in Errors : SendChunk(n, e) \/ SendPiece(n, e)
    BY <1>2
  <2>2. n \in Nat
    BY WireAssumption
  <2>3. UNCHANGED <<pipe, receiver>>
    BY <2>1 DEF SendChunk, SendPiece
  <2> QED BY <2>1, <2>2, <2>3, ChunkEffect, PieceEffect
<1> QED BY <1>1, <1>2 DEF WriteStep

-----------------------------------------------------------------------------
(* What is on the stream *)

LEMMA ByteAt ==
  ASSUME NEW s \in Seq(Byte), NEW k \in 1..Len(s)
  PROVE  s[k] \in Byte /\ s[k][1] \in Frames /\ s[k][2] \in Nat /\ s[k] = <<s[k][1], s[k][2]>>
<1>1. s[k] \in Frames \X Nat
  BY DEF Byte
<1> QED BY <1>1 DEF Byte

LEMMA Absent ==
  ASSUME out \in Seq(Byte), NEW f
  PROVE  OnStream(f, 0) <=> \A k \in 1..Len(out) : out[k][1] # f
<1>1. Len(out) \in Nat
  OBVIOUS
<1>2. ASSUME \A k \in 1..Len(out) : out[k][1] # f PROVE OnStream(f, 0)
  <2>1. 0 \in 0..Len(out) /\ 0 + 0 <= Len(out)
    BY <1>1
  <2> QED BY <1>2, <2>1 DEF OnStream
<1>3. ASSUME OnStream(f, 0), NEW k \in 1..Len(out) PROVE out[k][1] # f
  BY <1>1, <1>3 DEF OnStream
<1> QED BY <1>2, <1>3

\* Nobody is on the stream before its turn.
LEMMA NoneAhead ==
  ASSUME WireTypeOK, Counted, InTurns, Prefixes, cur # 0, NEW k \in 1..Len(out)
  PROVE  out[k][1] <= cur
<1>1. out \in Seq(Byte) /\ out[k][1] \in Frames /\ cur \in Frames /\ result[cur] = "none"
  BY ByteAt DEF WireTypeOK, Counted
<1>2. ASSUME cur < out[k][1] PROVE FALSE
  <2>1. result[out[k][1]] = "none"
    BY <1>1, <1>2 DEF InTurns
  <2>2. out[k][1] # cur
    BY <1>1, <1>2, Lengths
  <2>3. OnStream(out[k][1], 0)
    BY <1>1, <2>1, <2>2 DEF Prefixes
  <2> QED BY <1>1, <2>3, Absent
<1> QED BY <1>1, <1>2, Lengths

\* The current frame stays at the end of the stream.
LEMMA AtTheEnd ==
  ASSUME WireTypeOK, Prefixes, cur # 0, Position \in Nat, NEW n \in Nat, Pushes(n)
  PROVE  LET q == Position + n IN
         /\ q <= Len(out')
         /\ \A i \in 1..q : out'[Len(out') - q + i] = <<cur, i>>
         /\ \A k \in 1..(Len(out') - q) : out'[k][1] # cur
<1> DEFINE p == Position
           q == p + n
           a == Len(out) - p
<1>1. /\ Len(out) \in Nat /\ p \in Nat /\ p <= Len(out) /\ a \in Nat /\ Len(out') = Len(out) + n
      /\ Len(out') - q = a /\ q <= Len(out') /\ q \in Nat
  BY DEF WireTypeOK, Prefixes, Pushes
<1>2. /\ \A i \in 1..p : out[a + i] = <<cur, i>>
      /\ \A k \in 1..a : out[k][1] # cur
      /\ \A k \in 1..Len(out) : out'[k] = out[k]
      /\ \A i \in 1..n : out'[Len(out) + i] = <<cur, p + i>>
  BY DEF Prefixes, Pushes
<1> HIDE DEF p
<1>3. ASSUME NEW i \in 1..q PROVE out'[a + i] = <<cur, i>>
  <2>1. CASE i <= p
    <3>1. i \in 1..p /\ a + i \in 1..Len(out)
      BY <1>1, <2>1
    <3> QED BY <1>2, <3>1
  <2>2. CASE i > p
    <3>1. i - p \in 1..n /\ a + i = Len(out) + (i - p) /\ p + (i - p) = i
      BY <1>1, <2>2
    <3> QED BY <1>2, <3>1
  <2> QED BY <1>1, <2>1, <2>2
<1>4. \A k \in 1..a : out'[k][1] # cur
  BY <1>1, <1>2
<1> QED BY <1>1, <1>3, <1>4 DEF p

\* The other frames are where they were.
LEMMA OthersStay ==
  ASSUME WireTypeOK, NEW n \in Nat, Pushes(n), NEW f \in Frames, f # cur, NEW m \in Nat, OnStream(f, m)
  PROVE  OnStream(f, m)'
<1>1. PICK a \in 0..Len(out) :
         /\ a + m <= Len(out)
         /\ \A i \in 1..m : out[a+i] = <<f, i>>
         /\ \A k \in 1..Len(out) : out[k][1] = f => k \in (a+1)..(a+m)
  BY DEF OnStream
<1>2. /\ Len(out) \in Nat /\ Len(out') = Len(out) + n
      /\ \A k \in 1..Len(out) : out'[k] = out[k]
      /\ \A i \in 1..n : out'[Len(out) + i] = <<cur, Position + i>>
  <2>1. out \in Seq(Byte)
    BY DEF WireTypeOK
  <2>2. Len(out) \in Nat
    BY <2>1
  <2> QED BY <2>2 DEF Pushes
<1>3. a \in 0..Len(out') /\ a + m <= Len(out')
  BY <1>1, <1>2
<1>4. ASSUME NEW i \in 1..m PROVE out'[a+i] = <<f, i>>
  <2>1. a + i \in 1..Len(out)
    BY <1>1, <1>2
  <2> QED BY <1>1, <1>2, <2>1
<1>5. ASSUME NEW k \in 1..Len(out'), out'[k][1] = f PROVE k \in (a+1)..(a+m)
  <2>1. CASE k \in 1..Len(out)
    BY <1>1, <1>2, <1>5, <2>1
  <2>2. CASE k \notin 1..Len(out)
    <3>1. k - Len(out) \in 1..n /\ Len(out) + (k - Len(out)) = k
      BY <1>2, <2>2
    <3>2. out'[k] = <<cur, Position + (k - Len(out))>>
      BY <1>2, <3>1
    <3> QED BY <1>5, <3>2
  <2> QED BY <2>1, <2>2
<1> QED BY <1>3, <1>4, <1>5 DEF OnStream

\* The sender's and the stream's part of a step.
SenderInv == WireTypeOK /\ Counted /\ InTurns /\ Prefixes

\* The stream only grows, by bytes of the current frame.
Grows ==
  /\ out' \in Seq(Byte) /\ Len(out) <= Len(out')
  /\ \A k \in 1..Len(out) : out'[k] = out[k]
  /\ \A k \in 1..Len(out') : k > Len(out) => cur # 0 /\ out'[k][1] = cur

LEMMA WriteKeepsTurns ==
  ASSUME SenderInv, WriteStep
  PROVE  InTurns'
<1>1. /\ cur # 0
      /\ \/ cur' = cur /\ result' = result
         \/ \E r \in {"ok", "err"} : cur' = 0 /\ result' = [result EXCEPT ![cur] = r]
  <2>1. SenderType /\ Counted /\ out \in Seq(Byte)
    BY SenderTyped DEF SenderInv, WireTypeOK
  <2>2. cur # 0 /\ \E n \in Nat : Outcome(Position + n)
    BY <2>1, WriteEffect
  <2> QED BY <2>2 DEF Outcome
<1>2. result \in [Frames -> {"none", "ok", "err"}]
  BY DEF SenderInv, WireTypeOK
<1>3. 0 \notin Frames
  BY DEF Frames
<1> QED BY <1>1, <1>2, <1>3 DEF SenderInv, InTurns

LEMMA WriteKeepsPrefixes ==
  ASSUME SenderInv, WriteStep
  PROVE  Prefixes' /\ Grows
<1>1. /\ WireTypeOK /\ Counted /\ InTurns /\ Prefixes /\ out \in Seq(Byte) /\ Len(out) \in Nat
      /\ result \in [Frames -> {"none", "ok", "err"}] /\ torn \in BOOLEAN /\ 0 \notin Frames
  BY Lengths, SMTT(60) DEF SenderInv, WireTypeOK
<1>2. PICK n \in Nat : Pushes(n) /\ Position + n <= Size(cur) /\ Outcome(Position + n)
  BY <1>1, WriteEffect, SenderTyped
<1>3. cur \in Frames /\ cur # 0 /\ Position \in Nat /\ result[cur] = "none" /\ Size(cur) \in Nat
  BY <1>1, WriteEffect, SenderTyped, Lengths DEF WireTypeOK, Counted
<1>c. PICK c \in Frames : c = cur
  BY <1>3
<1>q. PICK q \in Nat : q = Position + n
  BY <1>3
<1>4. /\ q <= Len(out')
      /\ \A i \in 1..q : out'[Len(out') - q + i] = <<c, i>>
      /\ \A k \in 1..(Len(out') - q) : out'[k][1] # c
  BY <1>1, <1>2, <1>3, <1>c, <1>q, AtTheEnd
<1>5. /\ \/ cur' = c /\ UNCHANGED <<result, torn>> /\ Position' = q
         \/ q = Size(c) /\ cur' = 0 /\ result' = [result EXCEPT ![c] = "ok"] /\ torn' = torn
         \/ q < Size(c) /\ cur' = 0 /\ result' = [result EXCEPT ![c] = "err"] /\ torn' = (torn \/ q > 0)
      /\ Size(c) \in Nat
  BY <1>2, <1>3, <1>c, <1>q DEF Outcome
<1>6. out' \in Seq(Byte) /\ Len(out') = Len(out) + n /\ Len(out') \in Nat /\ \A k \in 1..Len(out) : out'[k] = out[k]
  BY <1>2 DEF Pushes
<1>7. ASSUME NEW k \in 1..Len(out'), k > Len(out) PROVE out'[k][1] = c
  <2>1. k - Len(out) \in 1..n /\ Len(out) + (k - Len(out)) = k
    BY <1>1, <1>6, <1>7
  <2>2. out'[Len(out) + (k - Len(out))] = <<cur, Position + (k - Len(out))>>
    BY <1>2, <2>1 DEF Pushes
  <2> QED BY <1>c, <2>1, <2>2
<1>8. Grows
  BY <1>1, <1>3, <1>c, <1>6, <1>7 DEF Grows
<1>9. OnStream(c, q)'
  <2>1. Len(out') - q \in 0..Len(out') /\ (Len(out') - q) + q <= Len(out')
    BY <1>4, <1>6
  <2>2. \A k \in 1..Len(out') : out'[k][1] = c => k \in ((Len(out') - q) + 1)..((Len(out') - q) + q)
    BY <1>4, <1>6, <2>1
  <2> QED BY <1>4, <2>1, <2>2 DEF OnStream
<1>10. ASSUME NEW f \in Frames, f # c, NEW m \in Nat, OnStream(f, m) PROVE OnStream(f, m)'
  BY <1>1, <1>2, <1>c, <1>10, OthersStay
<1>11. \A f \in Frames : f # c => result'[f] = result[f]
  BY <1>1, <1>5
<1>12. OkIffWritten'
  <2>1. ASSUME NEW f \in Frames, result'[f] = "ok" PROVE OnStream(f, Size(f))'
    <3>1. CASE f = c
      BY <1>1, <1>3, <1>c, <1>5, <1>9, <2>1, <3>1
    <3>2. CASE f # c
      <4>1. OnStream(f, Size(f)) /\ Size(f) \in Nat
        BY <1>1, <1>11, <2>1, <3>2, Lengths DEF Prefixes, OkIffWritten
      <4>2. PICK m \in Nat : m = Size(f)
        BY <4>1
      <4>3. OnStream(f, m)'
        BY <1>10, <3>2, <4>1, <4>2
      <4> QED BY <4>2, <4>3
    <3> QED BY <3>1, <3>2
  <2>2. ASSUME NEW f \in Frames, result'[f] = "err" PROVE \E m \in 0..(Size(f)-1) : OnStream(f, m)'
    <3>1. CASE f = c
      <4>1. q \in 0..(Size(c) - 1)
        BY <1>1, <1>3, <1>c, <1>5, <2>2, <3>1
      <4> QED BY <1>9, <3>1, <4>1
    <3>2. CASE f # c
      <4>1. PICK m \in 0..(Size(f)-1) : OnStream(f, m)
        BY <1>1, <1>11, <2>2, <3>2 DEF Prefixes, OkIffWritten
      <4> QED BY <1>10, <3>2, <4>1
    <3> QED BY <3>1, <3>2
  <2> QED BY <2>1, <2>2 DEF OkIffWritten
<1>13. ASSUME NEW f \in Frames, result'[f] = "none" /\ f # cur' PROVE OnStream(f, 0)'
  <2>1. f # c
    BY <1>1, <1>5, <1>13
  <2>2. result[f] = "none" /\ f # cur
    BY <1>c, <1>11, <1>13, <2>1
  <2> QED BY <1>1, <1>10, <2>1, <2>2 DEF Prefixes
<1>14. ASSUME NEW f \in Frames, result'[f] = "err" /\ ~torn' PROVE OnStream(f, 0)'
  <2>1. CASE f = c
    <3>1. result' = [result EXCEPT ![c] = "err"] /\ (q > 0 => torn')
      BY <1>1, <1>3, <1>c, <1>5, <1>14, <2>1
    <3>2. q = 0
      BY <1>14, <3>1
    <3> QED BY <1>9, <2>1, <3>2
  <2>2. CASE f # c
    <3>1. result[f] = "err" /\ ~torn
      BY <1>1, <1>5, <1>11, <1>14, <2>2
    <3> QED BY <1>1, <1>10, <2>2, <3>1 DEF Prefixes
  <2> QED BY <2>1, <2>2
<1>15. ASSUME NEW k \in 1..Len(out'), NEW l \in 1..Len(out'), k < l PROVE out'[k][1] <= out'[l][1]
  <2>1. CASE l <= Len(out)
    <3>1. k \in 1..Len(out) /\ l \in 1..Len(out)
      BY <1>1, <1>6, <1>15, <2>1
    <3> QED BY <1>1, <1>6, <1>15, <3>1 DEF Prefixes
  <2>2. CASE l > Len(out) /\ k <= Len(out)
    <3>1. k \in 1..Len(out)
      BY <1>1, <1>6, <2>2
    <3>2. out[k][1] <= cur
      BY <1>1, <1>3, <3>1, NoneAhead
    <3> QED BY <1>c, <1>6, <1>7, <2>2, <3>1, <3>2
  <2>3. CASE l > Len(out) /\ k > Len(out)
    <3>1. c \in Nat
      BY Lengths
    <3> QED BY <1>7, <2>3, <3>1
  <2> QED BY <1>1, <1>6, <2>1, <2>2, <2>3
<1>16. ASSUME cur' # 0
       PROVE  /\ Position' <= Len(out')
              /\ \A i \in 1..Position' : out'[Len(out') - Position' + i] = <<cur', i>>
              /\ \A k \in 1..(Len(out') - Position') : out'[k][1] # cur'
  <2>1. cur' = c /\ Position' = q
    BY <1>5, <1>16
  <2> QED BY <1>4, <2>1
<1>17. Prefixes'
  <2>1. \A f \in Frames : (result'[f] = "none" /\ f # cur') => OnStream(f, 0)'
    BY <1>13
  <2>2. \A f \in Frames : (result'[f] = "err" /\ ~torn') => OnStream(f, 0)'
    BY <1>14
  <2> QED BY <1>12, <2>1, <2>2, <1>15, <1>16 DEF Prefixes
<1> QED BY <1>8, <1>17

\* A frame is begun: nothing of it is on the stream.
LEMMA BeginKeepsSender ==
  ASSUME SenderInv, NEW f \in Frames, WriteFrame(f)
  PROVE  SenderType' /\ Counted' /\ InTurns' /\ Prefixes' /\ Grows
<1>1. /\ WireTypeOK /\ Counted /\ InTurns /\ Prefixes /\ out \in Seq(Byte) /\ Len(out) \in Nat
      /\ result \in [Frames -> {"none", "ok", "err"}] /\ torn \in BOOLEAN /\ w \in Writes
  BY SenderTyped DEF SenderInv, SenderType, WireTypeOK
<1>2. /\ cur = 0 /\ result[f] = "none" /\ \A e \in 1..(f-1) : result[e] # "none"
      /\ cur' = f /\ seg' = "header" /\ rest' = Header(f)
      /\ pipe' = pipe /\ w' = w /\ result' = result /\ torn' = torn /\ out' = out
  BY DEF WriteFrame
<1>3. /\ HdrLen \in Nat /\ HdrLen > 1 /\ Len(Header(f)) = HdrLen /\ Header(f) \in Seq(Byte)
      /\ \A i \in 1..HdrLen : Header(f)[i] = <<f, i>>
  BY Lengths
<1>4. w.total = 0 /\ w.ftotal = 0 /\ ~w.active
  BY <1>1, <1>2 DEF Counted
<1>5. Base' = 0 /\ Position' = 0
  <2>1. Base' = HdrLen - HdrLen
    BY <1>2, <1>3 DEF Base
  <2> QED BY <1>2, <1>3, <1>4, <2>1 DEF Position
<1>6. SenderType'
  BY <1>1, <1>2, <1>3 DEF SenderType
<1>7. Counted'
  <2>1. Header(f) # <<>>
    BY <1>3
  <2>2. rest' # <<>> /\ Len(rest') = HdrLen /\ seg' = "header" /\ cur' = f /\ cur' # 0
    BY <1>2, <1>3, <2>1, Lengths
  <2>3. \A i \in 1..Len(rest') : rest'[i] = <<cur', Base' + i>>
    BY <1>2, <1>3, <1>5
  <2>4. w'.total = 0 /\ w'.ftotal = 0 /\ ~w'.active
    BY <1>2, <1>4
  <2>5. result'[cur'] = "none" /\ w'.total < Len(rest')
    BY <1>2, <1>3, <1>4, <2>2
  <2> QED BY <1>3, <2>2, <2>3, <2>4, <2>5 DEF Counted
<1>8. InTurns'
  <2>1. ASSUME NEW e \in Frames, NEW g \in Frames, e < g /\ (result[g] # "none" \/ g = f)
        PROVE  result[e] # "none"
    <3>1. CASE g = f
      <4>1. e \in 1..(f-1)
        BY <2>1, <3>1, Lengths
      <4> QED BY <1>2, <4>1
    <3>2. CASE g # f
      BY <1>1, <2>1, <3>2 DEF InTurns
    <3> QED BY <3>1, <3>2
  <2> QED BY <1>2, <2>1 DEF InTurns
<1>9. Prefixes'
  <2>1. OnStream(f, 0)
    BY <1>1, <1>2, Lengths DEF Prefixes
  <2>2. \A k \in 1..Len(out) : out[k][1] # f
    BY <1>1, <2>1, Absent
  <2>0. ASSUME NEW g \in Frames, NEW m \in Nat, OnStream(g, m) PROVE OnStream(g, m)'
    BY <1>2, <2>0 DEF OnStream
  <2>3. OkIffWritten'
    <3>1. ASSUME NEW g \in Frames, result'[g] = "ok" PROVE OnStream(g, Size(g))'
      <4>1. PICK m \in Nat : m = Size(g)
        BY Lengths
      <4>2. OnStream(g, m)
        BY <1>1, <1>2, <3>1, <4>1 DEF Prefixes, OkIffWritten
      <4> QED BY <2>0, <4>1, <4>2
    <3>2. ASSUME NEW g \in Frames, result'[g] = "err" PROVE \E m \in 0..(Size(g)-1) : OnStream(g, m)'
      BY <1>1, <1>2, <2>0, <3>2 DEF Prefixes, OkIffWritten
    <3> QED BY <3>1, <3>2 DEF OkIffWritten
  <2>4. \A g \in Frames : /\ (result'[g] = "none" /\ g # cur') => OnStream(g, 0)'
                          /\ (result'[g] = "err" /\ ~torn') => OnStream(g, 0)'
    BY <1>1, <1>2, <2>0 DEF Prefixes
  <2>5. /\ Position' <= Len(out')
        /\ \A i \in 1..Position' : out'[Len(out') - Position' + i] = <<cur', i>>
        /\ \A k \in 1..(Len(out') - Position') : out'[k][1] # cur'
    BY <1>1, <1>2, <1>5, <2>2
  <2>6. \A k, l \in 1..Len(out') : k < l => out'[k][1] <= out'[l][1]
    BY <1>1, <1>2 DEF Prefixes
  <2> QED BY <2>3, <2>4, <2>5, <2>6 DEF Prefixes
<1>10. Grows
  BY <1>1, <1>2 DEF Grows
<1> QED BY <1>6, <1>7, <1>8, <1>9, <1>10

-----------------------------------------------------------------------------
(* What the receiver does *)

ReceiverType ==
  /\ rpos \in Nat /\ cache \in Seq(Byte) /\ buf \in Seq(Byte) /\ need \in Nat
  /\ got \in Seq(Seq(Byte)) /\ stage \in {"prefix", "header", "payload", "failed", "ended"}

\* The bytes of the frame that Decode is reading, and those in the cache.
LEMMA Fills ==
  ASSUME WireTypeOK, Received, NEW n \in 1..R, FillCache(n)
  PROVE  ReceiverType' /\ Received' /\ From' = From
<1>1. /\ cache = <<>> /\ rpos + n <= Len(out) /\ cache' = SubSeq(out, rpos + 1, rpos + n) /\ rpos' = rpos + n
      /\ UNCHANGED <<out, buf, stage, need, got>>
  BY DEF FillCache
<1>2. /\ rpos \in Nat /\ n \in Nat /\ out \in Seq(Byte) /\ buf \in Seq(Byte) /\ Len(out) \in Nat /\ Len(buf) \in Nat
      /\ Len(cache) = 0
  BY <1>1, WireAssumption DEF WireTypeOK
<1>3. /\ cache' \in Seq(Byte) /\ Len(cache') = n /\ \A i \in 1..n : cache'[i] = out[rpos + i]
  <2>1. rpos <= rpos + n /\ rpos + n \in Nat /\ (rpos + n) - rpos = n
    BY <1>2
  <2>2. PICK b \in Nat : b = rpos + n
    BY <2>1
  <2>3. /\ SubSeq(out, rpos + 1, b) \in Seq(Byte) /\ Len(SubSeq(out, rpos + 1, b)) = b - rpos
        /\ \A i \in 1..(b - rpos) : SubSeq(out, rpos + 1, b)[i] = out[rpos + i]
    BY <1>1, <1>2, <2>1, <2>2, Part
  <2> QED BY <1>1, <2>1, <2>2, <2>3
<1>4. From = rpos - Len(buf) /\ From' = From /\ From \in Nat
  BY <1>1, <1>2, <1>3 DEF From, Received
<1>5. ReceiverType'
  BY <1>1, <1>2, <1>3 DEF ReceiverType, WireTypeOK
<1>6. \A i \in 1..n : cache'[i] = out[From + Len(buf) + i]
  BY <1>2, <1>3, <1>4
<1>7. Received'
  BY <1>1, <1>2, <1>3, <1>4, <1>6 DEF Received
<1> QED BY <1>4, <1>5, <1>7

\* Read hands the next bytes of the stream on.
LEMMA Reads ==
  ASSUME WireTypeOK, Received, NEW n \in 1..R, Decode(n)
  PROVE  LET b == buf \o SubSeq(cache, 1, n) IN
         /\ stage \in {"prefix", "header", "payload"}
         /\ b \in Seq(Byte) /\ Len(b) = Len(buf) + n /\ Len(b) <= need /\ n <= Len(cache)
         /\ From + Len(b) <= Len(out)
         /\ \A i \in 1..Len(b) : b[i] = out[From + i]
         /\ cache' \in Seq(Byte) /\ Len(cache') = Len(cache) - n
         /\ \A i \in 1..Len(cache') : cache'[i] = out[From + Len(b) + i]
         /\ UNCHANGED <<pipe, sender, out, rpos>>
<1> DEFINE b == buf \o SubSeq(cache, 1, n)
<1>1. /\ stage \in {"prefix", "header", "payload"} /\ n = Min({Len(cache), need - Len(buf)})
      /\ cache' = SubSeq(cache, n + 1, Len(cache)) /\ UNCHANGED <<pipe, sender, out, rpos>>
  BY DEF Decode, Read, WireTypeOK
<1>2. /\ n \in Nat /\ cache \in Seq(Byte) /\ buf \in Seq(Byte) /\ need \in Nat /\ rpos \in Nat /\ out \in Seq(Byte)
      /\ Len(cache) \in Nat /\ Len(buf) \in Nat /\ Len(out) \in Nat
  BY WireAssumption DEF WireTypeOK
<1>3. /\ rpos <= Len(out) /\ From \in Nat /\ Len(buf) < need
      /\ \A i \in 1..Len(buf) : buf[i] = out[From + i]
      /\ \A i \in 1..Len(cache) : cache[i] = out[From + Len(buf) + i]
  BY <1>1 DEF Received
<1>4. n <= Len(cache) /\ n <= need - Len(buf)
  <2>1. need - Len(buf) \in Nat
    BY <1>2, <1>3
  <2> QED BY <1>1, <1>2, <2>1, MinOf
<1>5. /\ b \in Seq(Byte) /\ Len(b) = Len(buf) + n
      /\ \A k \in 1..Len(buf) : b[k] = buf[k]
      /\ \A i \in 1..n : b[Len(buf) + i] = cache[i]
  <2> DEFINE z == 0
  <2>1. z \in Nat /\ z <= n /\ n - z = n /\ z + 1 = 1 /\ \A i \in 1..n : z + i = i
    BY <1>2
  <2> HIDE DEF z
  <2>2. LET u == buf \o SubSeq(cache, z + 1, n) IN
         /\ u \in Seq(Byte) /\ Len(u) = Len(buf) + (n - z)
         /\ \A k \in 1..Len(buf) : u[k] = buf[k]
         /\ \A i \in 1..(n - z) : u[Len(buf) + i] = cache[z + i]
    BY <1>2, <1>4, <2>1, Joined
  <2> QED BY <2>1, <2>2
<1> HIDE DEF b
<1>6. /\ cache' \in Seq(Byte) /\ Len(cache') = Len(cache) - n
      /\ \A i \in 1..(Len(cache) - n) : cache'[i] = cache[n + i]
  <2>1. PICK m \in Nat : m = Len(cache)
    BY <1>2
  <2>2. /\ SubSeq(cache, n + 1, m) \in Seq(Byte) /\ Len(SubSeq(cache, n + 1, m)) = m - n
        /\ \A i \in 1..(m - n) : SubSeq(cache, n + 1, m)[i] = cache[n + i]
    BY <1>2, <1>4, <2>1, Part
  <2> QED BY <1>1, <2>1, <2>2
<1>7. From + Len(b) <= Len(out) /\ Len(b) <= need /\ Len(b) \in Nat
  BY <1>2, <1>3, <1>4, <1>5 DEF From
<1>8. ASSUME NEW i \in 1..Len(b) PROVE b[i] = out[From + i]
  <2>1. CASE i <= Len(buf)
    <3>1. i \in 1..Len(buf)
      BY <1>2, <2>1
    <3>2. b[i] = buf[i] /\ buf[i] = out[From + i]
      BY <1>3, <1>5, <3>1
    <3> QED BY <3>2
  <2>2. CASE i > Len(buf)
    <3>1. i - Len(buf) \in 1..n /\ Len(buf) + (i - Len(buf)) = i
      BY <1>2, <1>5, <2>2
    <3>2. b[i] = cache[i - Len(buf)] /\ i - Len(buf) \in 1..Len(cache)
      BY <1>2, <1>4, <1>5, <3>1
    <3>3. From + Len(buf) + (i - Len(buf)) = From + i
      BY <1>2, <1>3
    <3> QED BY <1>3, <3>2, <3>3
  <2> QED BY <1>2, <1>7, <2>1, <2>2
<1>9. ASSUME NEW i \in 1..(Len(cache) - n) PROVE cache'[i] = out[From + Len(b) + i]
  <2>1. n + i \in 1..Len(cache) /\ From + Len(buf) + (n + i) = From + Len(b) + i
    BY <1>2, <1>3, <1>4, <1>5
  <2> QED BY <1>3, <1>6, <2>1
<1> QED BY <1>1, <1>4, <1>5, <1>6, <1>7, <1>8, <1>9 DEF b

\* What Decode makes of the bytes b of the frame read so far.
Goes(b) ==
  /\ buf' = b /\ got' = got
  /\ \/ Len(b) < need /\ stage' = stage /\ need' = need
     \/ stage = "prefix" /\ stage' = "header" /\ need' = HdrLen
     \/ stage = "prefix" /\ FALSE \in Magic(b) /\ stage' = "failed" /\ need' = need
     \/ stage = "header" /\ \E p \in LenField(b) : p > 0 /\ stage' = "payload" /\ need' = HdrLen + p

Delivers(b) ==
  /\ buf' = <<>> /\ got' = Append(got, b) /\ stage' = "prefix" /\ need' = Prefix
  /\ stage = "payload" \/ (stage = "header" /\ 0 \in LenField(b))

LEMMA LengthField ==
  ASSUME NEW b \in Seq(Byte), Len(b) = HdrLen
  PROVE  LenField(b) \subseteq Nat
<1>1. HdrLen \in 1..Len(b) /\ \A f \in Frames : payload[f] \in Nat
  BY Lengths, WireAssumption
<1>2. b[HdrLen][1] \in Frames
  BY <1>1, ByteAt
<1> QED BY <1>1, <1>2 DEF LenField

LEMMA Decodes ==
  ASSUME WireTypeOK, Received, NEW n \in 1..R, Decode(n)
  PROVE  \E b \in Seq(Byte) :
           /\ stage \in {"prefix", "header", "payload"}
           /\ Len(b) = Len(buf) + n /\ n \in Nat /\ Len(b) <= need /\ n <= Len(cache)
           /\ From + Len(b) <= Len(out)
           /\ \A i \in 1..Len(b) : b[i] = out[From + i]
           /\ cache' \in Seq(Byte) /\ Len(cache') = Len(cache) - n
           /\ \A i \in 1..Len(cache') : cache'[i] = out[From + Len(b) + i]
           /\ UNCHANGED <<pipe, sender, out, rpos>>
           /\ Goes(b) \/ (Len(b) = need /\ Delivers(b))
           /\ Goes(b) => Len(b) = need \/ (stage' = stage /\ need' = need)
<1>1. n \in Nat /\ Prefix \in Nat /\ HdrLen \in Nat
  BY WireAssumption
<1>2. PICK b : b = buf \o SubSeq(cache, 1, n)
  OBVIOUS
<1>3. /\ stage \in {"prefix", "header", "payload"}
      /\ b \in Seq(Byte) /\ Len(b) = Len(buf) + n /\ Len(b) <= need /\ n <= Len(cache)
      /\ From + Len(b) <= Len(out)
      /\ \A i \in 1..Len(b) : b[i] = out[From + i]
      /\ cache' \in Seq(Byte) /\ Len(cache') = Len(cache) - n
      /\ \A i \in 1..Len(cache') : cache'[i] = out[From + Len(b) + i]
      /\ UNCHANGED <<pipe, sender, out, rpos>>
  BY <1>2, Reads
<1>4. need \in Nat /\ Len(b) \in Nat
  BY <1>3 DEF WireTypeOK
<1>5. /\ Len(b) < need => buf' = b /\ UNCHANGED <<stage, need, got>>
      /\ Len(b) >= need =>
          \/ stage = "prefix" /\ TRUE \in Magic(b) /\ buf' = b /\ Stage("header", HdrLen)
          \/ stage = "prefix" /\ FALSE \in Magic(b) /\ buf' = b /\ Stage("failed", need)
          \/ /\ stage = "header"
             /\ \E p \in LenField(b) :
                  IF p = 0 THEN buf' = <<>> /\ Deliver(b)
                  ELSE buf' = b /\ Stage("payload", HdrLen + p)
          \/ stage = "payload" /\ buf' = <<>> /\ Deliver(b)
  <2>1. IF Len(b) < need THEN buf' = b /\ UNCHANGED <<stage, need, got>>
        ELSE \/ stage = "prefix" /\ TRUE \in Magic(b) /\ buf' = b /\ Stage("header", HdrLen)
             \/ stage = "prefix" /\ FALSE \in Magic(b) /\ buf' = b /\ Stage("failed", need)
             \/ /\ stage = "header"
                /\ \E p \in LenField(b) :
                     IF p = 0 THEN buf' = <<>> /\ Deliver(b)
                     ELSE buf' = b /\ Stage("payload", HdrLen + p)
             \/ stage = "payload" /\ buf' = <<>> /\ Deliver(b)
    BY <1>2 DEF Decode
  <2>2. Len(b) >= need => ~(Len(b) < need)
    BY <1>4
  <2> QED BY <2>1, <2>2
<1>6. CASE Len(b) < need
  BY <1>1, <1>3, <1>5, <1>6 DEF Goes
<1>7. CASE Len(b) = need
  <2>1. Goes(b) \/ Delivers(b)
    <3>1. CASE stage = "header" /\ \E p \in LenField(b) :
                  IF p = 0 THEN buf' = <<>> /\ Deliver(b)
                  ELSE buf' = b /\ Stage("payload", HdrLen + p)
      <4>1. Len(b) = HdrLen
        BY <1>7, <3>1 DEF Received
      <4>2. \A p \in LenField(b) : p # 0 => p > 0
        BY <1>3, <4>1, LengthField
      <4> QED BY <3>1, <4>2 DEF Goes, Delivers, Stage, Deliver
    <3>2. CASE ~(stage = "header" /\ \E p \in LenField(b) :
                  IF p = 0 THEN buf' = <<>> /\ Deliver(b)
                  ELSE buf' = b /\ Stage("payload", HdrLen + p))
      <4>1. \/ stage = "prefix" /\ TRUE \in Magic(b) /\ buf' = b /\ Stage("header", HdrLen)
            \/ stage = "prefix" /\ FALSE \in Magic(b) /\ buf' = b /\ Stage("failed", need)
            \/ stage = "payload" /\ buf' = <<>> /\ Deliver(b)
        <5>1. Len(b) >= need
          BY <1>4, <1>7
        <5> QED BY <1>5, <3>2, <5>1
      <4>2. CASE stage = "prefix" /\ buf' = b /\ Stage("header", HdrLen)
        BY <4>2 DEF Goes, Stage
      <4>3. CASE stage = "prefix" /\ FALSE \in Magic(b) /\ buf' = b /\ Stage("failed", need)
        BY <4>3 DEF Goes, Stage
      <4>4. CASE stage = "payload" /\ buf' = <<>> /\ Deliver(b)
        BY <4>4 DEF Delivers, Deliver
      <4> QED BY <4>1, <4>2, <4>3, <4>4
    <3> QED BY <3>1, <3>2
  <2> QED BY <1>1, <1>3, <1>7, <2>1
<1>8. Len(b) < need \/ Len(b) = need
  <2>1. Len(b) <= need
    BY <1>3
  <2> QED BY <1>4, <2>1
<1> QED BY <1>6, <1>7, <1>8

LEMMA DecodeKeeps ==
  ASSUME WireTypeOK, Received, NEW n \in 1..R, Decode(n)
  PROVE  ReceiverType' /\ Received'
<1>1. PICK b \in Seq(Byte) :
           /\ stage \in {"prefix", "header", "payload"}
           /\ Len(b) = Len(buf) + n /\ n \in Nat /\ Len(b) <= need /\ n <= Len(cache)
           /\ From + Len(b) <= Len(out)
           /\ \A i \in 1..Len(b) : b[i] = out[From + i]
           /\ cache' \in Seq(Byte) /\ Len(cache') = Len(cache) - n
           /\ \A i \in 1..Len(cache') : cache'[i] = out[From + Len(b) + i]
           /\ UNCHANGED <<pipe, sender, out, rpos>>
           /\ Goes(b) \/ (Len(b) = need /\ Delivers(b))
           /\ Goes(b) => Len(b) = need \/ (stage' = stage /\ need' = need)
  BY Decodes
<1>2. /\ Len(b) \in Nat /\ Len(buf) \in Nat /\ Len(cache) \in Nat /\ Len(out) \in Nat /\ need \in Nat
      /\ rpos \in Nat /\ got \in Seq(Seq(Byte)) /\ From \in Nat /\ rpos <= Len(out)
      /\ Prefix \in Nat /\ HdrLen \in Nat /\ Prefix < HdrLen /\ Prefix > 0
  BY WireAssumption DEF WireTypeOK, Received
<1>3. From = rpos - Len(cache) - Len(buf) /\ From' = rpos - Len(cache') - Len(buf')
  BY <1>1 DEF From
<1>4. /\ stage = "prefix" => need = Prefix
      /\ stage = "header" => need = HdrLen
      /\ stage = "payload" => Len(buf) >= HdrLen
  BY DEF Received
<1>5. CASE Goes(b)
  <2>1. buf' = b /\ got' = got /\ From' = From
    <3>1. buf' = b /\ got' = got
      BY <1>5 DEF Goes
    <3>2. Len(buf') = Len(buf) + n /\ Len(cache') = Len(cache) - n /\ n \in Nat
      BY <1>1, <3>1
    <3> QED BY <1>2, <1>3, <3>1, <3>2
  <2>2. /\ stage' \in {"prefix", "header", "payload", "failed", "ended"} /\ need' \in Nat
        /\ stage' \in {"prefix", "header", "payload"} => Len(b) < need'
        /\ stage' = "prefix" => need' = Prefix
        /\ stage' = "header" => need' = HdrLen
        /\ stage' = "payload" => Len(b) >= HdrLen
    <3>1. CASE Len(b) < need /\ stage' = stage /\ need' = need
      BY <1>1, <1>2, <1>4, <3>1
    <3>2. CASE Len(b) = need /\ stage = "prefix" /\ stage' = "header" /\ need' = HdrLen
      BY <1>2, <1>4, <3>2
    <3>3. CASE stage = "prefix" /\ stage' = "failed" /\ need' = need
      BY <1>2, <3>3
    <3>4. CASE Len(b) = need /\ stage = "header" /\ \E p \in LenField(b) : p > 0 /\ stage' = "payload" /\ need' = HdrLen + p
      <4>1. Len(b) = HdrLen
        BY <1>4, <3>4
      <4>2. PICK p \in Nat : p > 0 /\ stage' = "payload" /\ need' = HdrLen + p
        BY <3>4, <4>1, LengthField
      <4> QED BY <1>2, <4>1, <4>2
    <3> QED BY <1>1, <1>2, <1>5, <3>1, <3>2, <3>3, <3>4 DEF Goes
  <2>3. ReceiverType'
    BY <1>1, <1>2, <2>1, <2>2 DEF ReceiverType
  <2>4. Received'
    BY <1>1, <1>2, <2>1, <2>2 DEF Received
  <2> QED BY <2>3, <2>4
<1>6. CASE Len(b) = need /\ Delivers(b)
  <2>1. buf' = <<>> /\ got' = Append(got, b) /\ stage' = "prefix" /\ need' = Prefix /\ Len(buf') = 0
    BY <1>6 DEF Delivers
  <2>2. From' = From + Len(b)
    BY <1>1, <1>2, <1>3, <2>1
  <2>3. got' \in Seq(Seq(Byte))
    BY <1>2, <2>1
  <2>4. ReceiverType'
    BY <1>1, <1>2, <2>1, <2>3 DEF ReceiverType
  <2>5. \A i \in 1..Len(cache') : cache'[i] = out'[From' + Len(buf') + i]
    <3>1. From' + Len(buf') = From + Len(b)
      BY <1>2, <2>1, <2>2
    <3> QED BY <1>1, <3>1
  <2>6. Received'
    BY <1>1, <1>2, <2>1, <2>2, <2>5 DEF Received
  <2> QED BY <2>4, <2>6
<1> QED BY <1>1, <1>5, <1>6

-----------------------------------------------------------------------------
(* Where the frames are *)

\* A write that goes on has not pushed all of its frame.
LEMMA Below ==
  ASSUME SenderType, Counted, cur # 0
  PROVE  Position \in Nat /\ Position < Size(cur)
<1>1. /\ cur \in Frames /\ Len(rest) \in Nat /\ Len(rest) > 0 /\ Base \in Nat /\ Base + Len(rest) <= Size(cur)
      /\ Size(cur) \in Nat
  BY Limits, Lengths
<1>2. w.total \in Nat /\ w.ftotal \in Nat /\ w.len \in Nat /\ w.active \in BOOLEAN
  BY DEF SenderType, Writes
<1>3. w.total + w.ftotal < Len(rest)
  <2>1. CASE w.active
    BY <1>1, <1>2, <2>1 DEF Counted
  <2>2. CASE ~w.active
    BY <1>1, <1>2, <2>2 DEF Counted
  <2> QED BY <2>1, <2>2
<1> QED BY <1>1, <1>2, <1>3 DEF Position

\* The bytes of the frame that byte k belongs to.
LEMMA Located ==
  ASSUME SenderInv, ~torn, NEW k \in 1..Len(out), NEW f \in Frames, out[k][1] = f
  PROVE  \E a \in Nat, m \in 1..Size(f) :
           /\ a + m <= Len(out) /\ k \in (a+1)..(a+m)
           /\ \A i \in 1..m : out[a+i] = <<f, i>>
           /\ \A l \in 1..Len(out) : out[l][1] = f => l \in (a+1)..(a+m)
           /\ (m = Size(f) /\ result[f] = "ok") \/ (m < Size(f) /\ a + m = Len(out))
<1>1. /\ WireTypeOK /\ Counted /\ InTurns /\ Prefixes /\ out \in Seq(Byte) /\ Len(out) \in Nat
      /\ result[f] \in {"none", "ok", "err"} /\ Size(f) \in Nat /\ f # 0 /\ SenderType
  <2>1. WireTypeOK /\ Counted /\ InTurns /\ Prefixes /\ SenderType
    BY SenderTyped DEF SenderInv
  <2>2. out \in Seq(Byte) /\ Len(out) \in Nat /\ result[f] \in {"none", "ok", "err"}
    BY <2>1 DEF WireTypeOK
  <2> QED BY <2>1, <2>2, Lengths
<1>2. ~OnStream(f, 0)
  BY <1>1, Absent
<1>3. CASE result[f] = "ok"
  <2>1. PICK a \in 0..Len(out) :
          /\ a + Size(f) <= Len(out)
          /\ \A i \in 1..Size(f) : out[a+i] = <<f, i>>
          /\ \A l \in 1..Len(out) : out[l][1] = f => l \in (a+1)..(a+Size(f))
    BY <1>1, <1>3 DEF Prefixes, OkIffWritten, OnStream
  <2>2. a \in Nat /\ Size(f) \in 1..Size(f) /\ k \in (a+1)..(a+Size(f))
    BY <1>1, <2>1
  <2> QED BY <1>3, <2>1, <2>2
<1>4. CASE result[f] = "none"
  <2>1. cur = f
    BY <1>1, <1>2, <1>4 DEF Prefixes
  <2>2. PICK m \in Nat : m = Position
    BY <1>1, <2>1, Below
  <2>3. m < Size(f)
    BY <1>1, <2>1, <2>2, Below
  <2>4. /\ m <= Len(out)
        /\ \A i \in 1..m : out[Len(out) - m + i] = <<f, i>>
        /\ \A l \in 1..(Len(out) - m) : out[l][1] # f
    BY <1>1, <2>1, <2>2 DEF Prefixes
  <2>5. PICK a \in Nat : a = Len(out) - m
    <3>1. Len(out) - m \in Nat
      BY <1>1, <2>2, <2>4
    <3> QED BY <3>1
  <2>6. \A l \in 1..Len(out) : out[l][1] = f => l \in (a+1)..(a+m)
    BY <1>1, <2>4, <2>5
  <2>7. k \in (a+1)..(a+m) /\ a + m = Len(out) /\ a + m <= Len(out) /\ m \in 1..Size(f)
    BY <1>1, <2>2, <2>3, <2>5, <2>6
  <2>8. \A i \in 1..m : out[a+i] = <<f, i>>
    BY <2>4, <2>5
  <2> QED BY <2>3, <2>6, <2>7, <2>8
<1>5. CASE result[f] = "err"
  BY <1>1, <1>2, <1>5 DEF Prefixes
<1> QED BY <1>1, <1>3, <1>4, <1>5

\* From the first byte of f on, there is f and then the first byte of the next.
LEMMA FrameAt ==
  ASSUME SenderInv, ~torn, NEW k \in Nat, k < Len(out), NEW f \in Frames, out[k+1][1] = f, out[k+1][2] = 1
  PROVE  /\ \A i \in 1..Size(f) : k + i <= Len(out) => out[k+i] = <<f, i>>
         /\ k + Size(f) <= Len(out) => result[f] = "ok"
         /\ k + Size(f) < Len(out) => out[k + Size(f) + 1][2] = 1
         /\ \A l \in 1..Len(out) : out[l][1] = f => l > k /\ l <= k + Size(f)
<1>1. out \in Seq(Byte) /\ Len(out) \in Nat /\ Size(f) \in Nat /\ f \in Nat
  BY Lengths DEF SenderInv, WireTypeOK
<1>2. k + 1 \in 1..Len(out)
  BY <1>1
<1>3. PICK a \in Nat, m \in 1..Size(f) :
           /\ a + m <= Len(out) /\ k + 1 \in (a+1)..(a+m)
           /\ \A i \in 1..m : out[a+i] = <<f, i>>
           /\ \A l \in 1..Len(out) : out[l][1] = f => l \in (a+1)..(a+m)
           /\ (m = Size(f) /\ result[f] = "ok") \/ (m < Size(f) /\ a + m = Len(out))
  BY <1>2, Located
<1>4. a = k
  <2>1. (k + 1) - a \in 1..m /\ a + ((k + 1) - a) = k + 1
    BY <1>1, <1>3
  <2>2. out[k+1] = <<f, (k + 1) - a>>
    BY <1>3, <2>1
  <2>3. (k + 1) - a = 1
    BY <2>2
  <2> QED BY <1>1, <1>3, <2>3
<1>5. ASSUME NEW i \in 1..Size(f), k + i <= Len(out) PROVE out[k+i] = <<f, i>>
  <2>1. i \in 1..m
    BY <1>1, <1>3, <1>4, <1>5
  <2> QED BY <1>3, <1>4, <2>1
<1>6. k + Size(f) <= Len(out) => result[f] = "ok" /\ m = Size(f)
  BY <1>1, <1>3, <1>4
<1>7. ASSUME NEW l \in 1..Len(out), out[l][1] = f PROVE l > k /\ l <= k + Size(f)
  BY <1>1, <1>3, <1>4, <1>7
<1>8. ASSUME k + Size(f) < Len(out) PROVE out[k + Size(f) + 1][2] = 1
  <2>1. PICK l \in Nat : l = k + Size(f)
    BY <1>1
  <2>2. l \in 1..Len(out) /\ l + 1 \in 1..Len(out) /\ m = Size(f) /\ m \in 1..m /\ l = a + m
    BY <1>1, <1>3, <1>4, <1>6, <1>8, <2>1, SMTT(60)
  <2>3. PICK g \in Frames : g = out[l+1][1]
    BY <1>1, <2>2, ByteAt
  <2>4. PICK b \in Nat, o \in 1..Size(g) :
           /\ b + o <= Len(out) /\ l + 1 \in (b+1)..(b+o)
           /\ \A i \in 1..o : out[b+i] = <<g, i>>
    <3>1. PICK x \in 1..Len(out) : x = l + 1
      BY <2>2
    <3>2. \E b \in Nat, o \in 1..Size(g) :
           /\ b + o <= Len(out) /\ x \in (b+1)..(b+o)
           /\ \A i \in 1..o : out[b+i] = <<g, i>>
           /\ \A y \in 1..Len(out) : out[y][1] = g => y \in (b+1)..(b+o)
           /\ (o = Size(g) /\ result[g] = "ok") \/ (o < Size(g) /\ b + o = Len(out))
      BY <2>3, <3>1, Located
    <3> QED BY <3>1, <3>2
  <2>5. g # f
    <3>1. l + 1 \notin (a+1)..(a+m)
      BY <1>1, <2>2
    <3> QED BY <1>3, <2>2, <2>3, <3>1
  <2>6. out[l] = <<f, m>>
    BY <1>3, <2>2
  <2>7. ~(l > b)
    <3>1. ASSUME l > b PROVE out[l] = <<g, l - b>>
      <4>1. l - b \in 1..o /\ b + (l - b) = l
        BY <1>1, <2>4, <3>1, Lengths
      <4> QED BY <2>4, <4>1
    <3> QED BY <2>5, <2>6, <3>1
  <2>8. b = l /\ 1 \in 1..o
    BY <1>1, <2>4, <2>7, Lengths
  <2>9. out[l+1] = <<g, 1>>
    BY <2>4, <2>8
  <2> QED BY <2>1, <2>9
<1> QED BY <1>5, <1>6, <1>7, <1>8

-----------------------------------------------------------------------------
(* What the receiver has *)

\* The writer leaves the receiver's view alone.
LEMMA WriteKeepsReceived ==
  ASSUME WireTypeOK, Received, Grows, UNCHANGED receiver
  PROVE  Received' /\ From' = From
<1>1. /\ rpos' = rpos /\ cache' = cache /\ buf' = buf /\ stage' = stage /\ need' = need
      /\ Len(out) <= Len(out') /\ \A k \in 1..Len(out) : out'[k] = out[k] /\ out' \in Seq(Byte)
  BY DEF receiver, Grows
<1>2. Len(out) \in Nat /\ Len(out') \in Nat /\ rpos \in Nat /\ Len(cache) \in Nat /\ Len(buf) \in Nat
      /\ From \in Nat /\ rpos <= Len(out)
  BY <1>1 DEF WireTypeOK, Received, Grows
<1>3. From' = From
  BY <1>1 DEF From
<1>4. \A i \in 1..Len(buf) : From + i \in 1..Len(out)
  BY <1>2 DEF From
<1>5. \A i \in 1..Len(cache) : From + Len(buf) + i \in 1..Len(out)
  BY <1>2 DEF From
<1>6. \A i \in 1..Len(buf') : buf'[i] = out'[From' + i]
  BY <1>1, <1>3, <1>4 DEF Received
<1>7. \A i \in 1..Len(cache') : cache'[i] = out'[From' + Len(buf') + i]
  BY <1>1, <1>3, <1>5 DEF Received
<1>8. Received'
  BY <1>1, <1>2, <1>3, <1>6, <1>7 DEF Received
<1> QED BY <1>3, <1>8

\* What is written next is the next frame, when all before it was delivered.
LEMMA WriteKeepsClean ==
  ASSUME SenderInv, Received, Clean, WriteStep, Grows, UNCHANGED receiver
  PROVE  Clean'
<1> SUFFICES ASSUME ~torn' PROVE InStep' /\ Before'
  BY DEF Clean
<1>1. /\ WireTypeOK /\ Counted /\ InTurns /\ Prefixes /\ SenderType
  BY SenderTyped DEF SenderInv
<1>2. PICK n \in Nat : Pushes(n) /\ Outcome(Position + n)
  BY <1>1, WriteEffect DEF WireTypeOK
<1>3. /\ cur # 0 /\ cur \in Frames /\ result[cur] = "none" /\ Position \in Nat /\ torn \in BOOLEAN
      /\ result \in [Frames -> {"none", "ok", "err"}] /\ got \in Seq(Seq(Byte))
      /\ out \in Seq(Byte) /\ Len(out) \in Nat
  <2>1. /\ torn \in BOOLEAN /\ result \in [Frames -> {"none", "ok", "err"}] /\ got \in Seq(Seq(Byte))
        /\ out \in Seq(Byte)
    BY <1>1 DEF WireTypeOK
  <2>2. cur # 0 /\ Position \in Nat
    BY <1>1, <2>1, WriteEffect
  <2>3. cur \in Frames /\ result[cur] = "none"
    BY <1>1, <2>2 DEF WireTypeOK, Counted
  <2> QED BY <2>1, <2>2, <2>3
<1>4. /\ ~torn /\ \A f \in Frames : result[f] = "ok" => result'[f] = "ok"
  BY <1>2, <1>3 DEF Outcome
<1>5. InStep /\ Before
  BY <1>4 DEF Clean
<1>6. /\ From' = From /\ From \in Nat /\ From <= Len(out) /\ Received'
  <2>1. /\ rpos <= Len(out) /\ rpos \in Nat /\ Len(cache) \in Nat /\ Len(buf) \in Nat
    BY <1>1 DEF WireTypeOK, Received
  <2> QED BY <1>1, <1>3, <2>1, WriteKeepsReceived DEF Received, From
<1>7. /\ rpos' = rpos /\ cache' = cache /\ buf' = buf /\ stage' = stage /\ need' = need /\ got' = got
      /\ Len(out) <= Len(out') /\ \A k \in 1..Len(out) : out'[k] = out[k]
      /\ \A k \in 1..Len(out') : k > Len(out) => out'[k][1] = cur
      /\ Len(out') \in Nat
  BY DEF receiver, Grows
<1>8. \A i \in 1..Len(got) : FrameOf(got[i]) \in Frames /\ result[FrameOf(got[i])] = "ok" /\ FrameOf(got[i]) # cur
  BY <1>3, <1>5 DEF Before
<1>9. ASSUME From < Len(out') PROVE out'[From + 1][2] = 1
  <2>1. CASE From < Len(out)
    <3>1. From + 1 \in 1..Len(out)
      BY <1>3, <1>6, <2>1
    <3>2. out'[From + 1] = out[From + 1]
      BY <1>7, <3>1
    <3>3. out[From + 1][2] = 1
      BY <1>5, <2>1 DEF InStep
    <3> QED BY <3>2, <3>3
  <2>2. CASE From = Len(out)
    <3>1. Position = 0
      <4>1. SUFFICES ASSUME Position > 0 PROVE FALSE
        BY <1>3
      <4>2. /\ Position <= Len(out) /\ \A i \in 1..Position : out[Len(out) - Position + i] = <<cur, i>>
        BY <1>1, <1>3 DEF Prefixes
      <4>3. Position \in 1..Position /\ (Len(out) - Position) + Position = Len(out) /\ Len(out) \in 1..From
        BY <1>3, <2>2, <4>1, <4>2
      <4>4. out[Len(out)] = <<cur, Position>>
        BY <4>2, <4>3
      <4>5. \E i \in 1..Len(got) : FrameOf(got[i]) = cur
        BY <1>5, <4>3, <4>4 DEF Before
      <4> QED BY <1>8, <4>5
    <3>2. n > 0 /\ 1 \in 1..n
      BY <1>2, <1>3, <1>9, <2>2 DEF Pushes
    <3>3. out'[Len(out) + 1] = <<cur, Position + 1>>
      BY <1>2, <3>2 DEF Pushes
    <3> QED BY <2>2, <3>1, <3>3
  <2> QED BY <1>3, <1>6, <2>1, <2>2
<1>10. stage' = "payload" => need' = Size(out'[From + 1][1])
  <2>1. SUFFICES ASSUME stage = "payload" PROVE need = Size(out'[From + 1][1])
    BY <1>7
  <2>2. From + 1 \in 1..Len(out)
    <3>1. Len(buf) >= HdrLen /\ HdrLen > 1 /\ HdrLen \in Nat
      BY <2>1, WireAssumption DEF Received
    <3>2. From + Len(buf) <= Len(out) /\ Len(buf) \in Nat
      <4>1. rpos <= Len(out) /\ rpos \in Nat /\ Len(cache) \in Nat /\ Len(buf) \in Nat
        BY <1>1 DEF WireTypeOK, Received
      <4> QED BY <1>3, <4>1 DEF From
    <3> QED BY <1>3, <1>6, <3>1, <3>2
  <2> QED BY <1>5, <1>7, <2>1, <2>2 DEF InStep
<1>11. InStep'
  BY <1>5, <1>6, <1>7, <1>9, <1>10 DEF InStep
<1>12. \A i \in 1..Len(got') : /\ FrameOf(got'[i]) \in Frames /\ got'[i] = Bytes(FrameOf(got'[i]))
                               /\ result'[FrameOf(got'[i])] = "ok"
  BY <1>4, <1>5, <1>7 DEF Before
<1>13. \A k \in 1..From : \E i \in 1..Len(got) : FrameOf(got[i]) = out'[k][1]
  <2>1. \A k \in 1..From : k \in 1..Len(out)
    BY <1>3, <1>6
  <2> QED BY <1>5, <1>7, <2>1 DEF Before
<1>14. ASSUME NEW k \in 1..Len(out'), k > From, NEW i \in 1..Len(got) PROVE FrameOf(got[i]) # out'[k][1]
  <2>1. CASE k \in 1..Len(out)
    BY <1>5, <1>7, <1>14, <2>1 DEF Before
  <2>2. CASE k \notin 1..Len(out)
    <3>1. k > Len(out)
      BY <1>3, <1>7, <2>2
    <3> QED BY <1>7, <1>8, <3>1
  <2> QED BY <2>1, <2>2
<1>15. Before'
  BY <1>5, <1>6, <1>7, <1>12, <1>13, <1>14 DEF Before
<1> QED BY <1>11, <1>15

\* Decode keeps in step with the frames, and delivers the next one.
LEMMA DecodeKeepsClean ==
  ASSUME SenderInv, Received, Clean, NEW n \in 1..R, Decode(n)
  PROVE  Clean'
<1> SUFFICES ASSUME ~torn' PROVE InStep' /\ Before'
  BY DEF Clean
<1>0. WireTypeOK /\ Counted /\ InTurns /\ Prefixes
  BY DEF SenderInv
<1>1. PICK b \in Seq(Byte) :
           /\ stage \in {"prefix", "header", "payload"}
           /\ Len(b) = Len(buf) + n /\ n \in Nat /\ Len(b) <= need /\ n <= Len(cache)
           /\ From + Len(b) <= Len(out)
           /\ \A i \in 1..Len(b) : b[i] = out[From + i]
           /\ Len(cache') = Len(cache) - n
           /\ UNCHANGED <<pipe, sender, out, rpos>>
           /\ Goes(b) \/ (Len(b) = need /\ Delivers(b))
           /\ Goes(b) => Len(b) = need \/ (stage' = stage /\ need' = need)
  <2>1. \E b \in Seq(Byte) :
           /\ stage \in {"prefix", "header", "payload"}
           /\ Len(b) = Len(buf) + n /\ n \in Nat /\ Len(b) <= need /\ n <= Len(cache)
           /\ From + Len(b) <= Len(out)
           /\ \A i \in 1..Len(b) : b[i] = out[From + i]
           /\ cache' \in Seq(Byte) /\ Len(cache') = Len(cache) - n
           /\ \A i \in 1..Len(cache') : cache'[i] = out[From + Len(b) + i]
           /\ UNCHANGED <<pipe, sender, out, rpos>>
           /\ Goes(b) \/ (Len(b) = need /\ Delivers(b))
           /\ Goes(b) => Len(b) = need \/ (stage' = stage /\ need' = need)
    BY <1>0, Decodes
  <2> QED BY <2>1
<1>2. /\ Len(b) \in Nat /\ Len(buf) \in Nat /\ Len(cache) \in Nat /\ Len(out) \in Nat /\ need \in Nat /\ n > 0
      /\ rpos \in Nat /\ got \in Seq(Seq(Byte)) /\ From \in Nat /\ out \in Seq(Byte)
      /\ Prefix \in Nat /\ HdrLen \in Nat /\ Prefix < HdrLen /\ Prefix > 0
      /\ result \in [Frames -> {"none", "ok", "err"}]
  BY <1>0, <1>1, WireAssumption, SMTT(60) DEF WireTypeOK, Received
<1>3. /\ cur' = cur /\ result' = result /\ torn' = torn /\ out' = out /\ rpos' = rpos /\ ~torn
  BY <1>1 DEF sender
<1>4. InStep /\ Before
  BY <1>3 DEF Clean
<1>5. /\ stage = "prefix" => need = Prefix
      /\ stage = "header" => need = HdrLen
      /\ stage = "payload" => Len(buf) >= HdrLen
  BY DEF Received
\* The frame that is being read.
<1>6. From < Len(out) /\ From + 1 \in 1..Len(out) /\ Len(b) > 0
  BY <1>1, <1>2
<1>7. PICK f \in Frames : f = out[From + 1][1]
  BY <1>2, <1>6, ByteAt
<1>8. /\ out[From + 1][2] = 1
      /\ stage = "payload" => need = Size(f)
  BY <1>4, <1>6, <1>7 DEF InStep
<1>9. /\ \A i \in 1..Size(f) : From + i <= Len(out) => out[From + i] = <<f, i>>
      /\ From + Size(f) <= Len(out) => result[f] = "ok"
      /\ From + Size(f) < Len(out) => out[From + Size(f) + 1][2] = 1
      /\ \A l \in 1..Len(out) : out[l][1] = f => l > From /\ l <= From + Size(f)
  <2>1. PICK k \in Nat : k = From
    BY <1>2
  <2>2. k < Len(out) /\ out[k+1][1] = f /\ out[k+1][2] = 1
    BY <1>6, <1>7, <1>8, <2>1
  <2>3. /\ \A i \in 1..Size(f) : k + i <= Len(out) => out[k+i] = <<f, i>>
        /\ k + Size(f) <= Len(out) => result[f] = "ok"
        /\ k + Size(f) < Len(out) => out[k + Size(f) + 1][2] = 1
        /\ \A l \in 1..Len(out) : out[l][1] = f => l > k /\ l <= k + Size(f)
    BY <1>3, <2>2, FrameAt
  <2> QED BY <2>1, <2>3
<1>10. Size(f) = HdrLen + payload[f] /\ payload[f] \in Nat /\ Size(f) \in Nat /\ f \in Nat
  BY Lengths DEF Size
<1>11. Len(b) <= Size(f)
  <2>1. Len(b) \in Nat /\ Len(b) <= need /\ need \in Nat /\ stage \in {"prefix", "header", "payload"}
    BY <1>1, <1>2
  <2>2. need \in {Prefix, HdrLen, Size(f)}
    BY <1>5, <1>8, <2>1
  <2>3. Prefix <= Size(f) /\ HdrLen <= Size(f)
    BY <1>2, <1>10
  <2>4. need <= Size(f)
    BY <1>10, <2>2, <2>3
  <2> QED BY <1>10, <2>1, <2>4
<1>12. \A i \in 1..Len(b) : b[i] = <<f, i>>
  <2>1. \A i \in 1..Len(b) : i \in 1..Size(f) /\ From + i <= Len(out)
    BY <1>1, <1>2, <1>10, <1>11, SMTT(60)
  <2> QED BY <1>1, <1>9, <2>1
<1>13. Len(b) = Prefix => FALSE \notin Magic(b)
  <2>1. SUFFICES ASSUME Len(b) = Prefix PROVE FALSE \notin Magic(b)
    OBVIOUS
  <2>2. \A i \in 1..Prefix : b[i][2] = i
    BY <1>12, <2>1
  <2> QED BY <2>2 DEF Magic
<1>14. Len(b) = HdrLen => LenField(b) = {payload[f]}
  <2>1. SUFFICES ASSUME Len(b) = HdrLen PROVE LenField(b) = {payload[f]}
    OBVIOUS
  <2>2. b[HdrLen] = <<f, HdrLen>>
    BY <1>2, <1>12, <2>1
  <2> QED BY <2>2 DEF LenField
<1>15. From = rpos - Len(cache) - Len(buf) /\ From' = rpos - Len(cache') - Len(buf')
  BY <1>3 DEF From
<1>16. CASE Goes(b)
  <2>1. buf' = b /\ got' = got
    BY <1>16 DEF Goes
  <2>2. From' = From
    <3>1. Len(buf') = Len(buf) + n /\ Len(cache') = Len(cache) - n
      BY <1>1, <2>1
    <3> QED BY <1>2, <1>15, <3>1
  <2>3. stage' # "failed" /\ (stage' = "payload" => need' = Size(f))
    <3>1. CASE Len(b) < need /\ stage' = stage /\ need' = need
      BY <1>1, <1>8, <3>1
    <3>2. CASE stage = "prefix" /\ stage' = "header"
      BY <3>2
    <3>3. CASE stage = "prefix" /\ FALSE \in Magic(b) /\ stage' = "failed" /\ need' = need
      <4>1. Len(b) = Prefix
        BY <1>1, <1>5, <1>16, <3>3
      <4> QED BY <1>13, <3>3, <4>1
    <3>4. CASE stage = "header" /\ \E p \in LenField(b) : p > 0 /\ stage' = "payload" /\ need' = HdrLen + p
      <4>1. Len(b) = HdrLen
        BY <1>1, <1>5, <1>16, <3>4
      <4> QED BY <1>10, <1>14, <3>4, <4>1
    <3> QED BY <1>16, <3>1, <3>2, <3>3, <3>4 DEF Goes
  <2>4. InStep'
    BY <1>3, <1>7, <1>8, <2>2, <2>3 DEF InStep
  <2>5. Before'
    BY <1>3, <1>4, <2>1, <2>2 DEF Before
  <2> QED BY <2>4, <2>5
<1>17. CASE Len(b) = need /\ Delivers(b)
  <2>1. buf' = <<>> /\ got' = Append(got, b) /\ stage' = "prefix" /\ need' = Prefix /\ Len(buf') = 0
    BY <1>17 DEF Delivers
  <2>2. From' = From + Len(b)
    <3>1. Len(b) = Len(buf) + n /\ Len(cache') = Len(cache) - n /\ n \in Nat
      BY <1>1
    <3>2. From' = rpos - (Len(cache) - n) - 0 /\ From = rpos - Len(cache) - Len(buf)
      BY <1>15, <2>1, <3>1
    <3> QED BY <1>2, <3>1, <3>2
  <2>3. Len(b) = Size(f)
    <3>1. CASE stage = "payload"
      BY <1>8, <1>17, <3>1
    <3>2. CASE stage = "header" /\ 0 \in LenField(b)
      <4>1. Len(b) = HdrLen
        BY <1>5, <1>17, <3>2
      <4>2. payload[f] = 0
        BY <1>14, <3>2, <4>1
      <4> QED BY <1>2, <1>10, <4>1, <4>2
    <3> QED BY <1>17, <3>1, <3>2 DEF Delivers
  <2>4. b = Bytes(f) /\ result[f] = "ok" /\ FrameOf(b) = f
    <3>1. b = Bytes(f)
      BY <1>12, <2>3, AllBytes
    <3>2. result[f] = "ok"
      BY <1>1, <1>9, <2>3
    <3>3. b[1] = <<f, 1>>
      BY <1>2, <1>6, <1>12
    <3> QED BY <3>1, <3>2, <3>3 DEF FrameOf
  <2>5. InStep'
    <3>1. ASSUME From' < Len(out) PROVE out[From' + 1][2] = 1
      BY <1>9, <2>2, <2>3, <3>1
    <3> QED BY <1>3, <2>1, <3>1 DEF InStep
  <2>6. ASSUME NEW i \in 1..Len(got) PROVE FrameOf(got[i]) < f
    <3>1. PICK e \in Frames : e = FrameOf(got[i]) /\ result[e] = "ok"
      BY <1>4 DEF Before
    <3>2. PICK a \in 0..Len(out) : a + Size(e) <= Len(out) /\ \A j \in 1..Size(e) : out[a+j] = <<e, j>>
      BY <1>0, <3>1 DEF Prefixes, OkIffWritten, OnStream
    <3>3. Size(e) \in Nat /\ Size(e) > 1 /\ e \in Nat
      BY Lengths
    <3>4. a + 1 \in 1..Len(out) /\ out[a + 1] = <<e, 1>>
      BY <1>2, <3>2, <3>3, SMTT(60)
    <3>5. ~(a + 1 > From)
      BY <1>4, <3>1, <3>4 DEF Before
    <3>6. e <= f
      <4>1. a + 1 < From + 1
        BY <1>2, <3>4, <3>5
      <4>2. out[a + 1][1] <= out[From + 1][1]
        BY <1>0, <1>6, <3>4, <4>1 DEF Prefixes
      <4> QED BY <1>7, <3>4, <4>2
    <3>7. e # f
      <4>1. From + 1 > From
        BY <1>2
      <4> QED BY <1>4, <1>6, <1>7, <3>1, <4>1 DEF Before
    <3> QED BY <1>10, <3>1, <3>3, <3>6, <3>7
  <2>7. PICK g \in Nat : g = Len(got)
    BY <1>2
  <2>8. /\ Len(got') = g + 1 /\ got'[g + 1] = b /\ \A i \in 1..g : got'[i] = got[i]
    BY <1>2, <2>1, <2>7
  <2>9. \A i \in 1..(g + 1) : i = g + 1 \/ i \in 1..g
    BY <2>7
  <2>10. ASSUME NEW i \in 1..Len(got') PROVE /\ FrameOf(got'[i]) \in Frames /\ got'[i] = Bytes(FrameOf(got'[i]))
                                            /\ result'[FrameOf(got'[i])] = "ok"
    <3>1. CASE i = g + 1
      BY <1>3, <2>4, <2>8, <3>1
    <3>2. CASE i \in 1..g
      BY <1>3, <1>4, <2>7, <2>8, <3>2 DEF Before
    <3> QED BY <2>8, <2>9, <3>1, <3>2
  <2>11. ASSUME NEW i \in 1..Len(got'), NEW j \in 1..Len(got'), i < j PROVE FrameOf(got'[i]) < FrameOf(got'[j])
    <3>1. CASE j = g + 1
      <4>1. i \in 1..g
        BY <2>7, <2>8, <2>11, <3>1
      <4> QED BY <2>4, <2>6, <2>7, <2>8, <3>1, <4>1
    <3>2. CASE j \in 1..g
      <4>1. i \in 1..g
        BY <2>7, <2>8, <2>11, <3>2
      <4> QED BY <1>4, <2>7, <2>8, <2>11, <3>2, <4>1 DEF Before
    <3> QED BY <2>8, <2>9, <3>1, <3>2
  <2>12. ASSUME NEW k \in 1..From' PROVE \E i \in 1..Len(got') : FrameOf(got'[i]) = out'[k][1]
    <3>1. CASE k \in 1..From
      <4>1. PICK i \in 1..Len(got) : FrameOf(got[i]) = out[k][1]
        BY <1>4, <3>1 DEF Before
      <4>2. i \in 1..Len(got') /\ got'[i] = got[i]
        BY <2>7, <2>8
      <4> QED BY <1>3, <4>1, <4>2
    <3>2. CASE k \notin 1..From
      <4>1. k - From \in 1..Size(f) /\ From + (k - From) = k /\ k <= Len(out)
        <5>1. k \in 1..(From + Size(f)) /\ From + Size(f) <= Len(out)
          BY <1>1, <2>2, <2>3
        <5> QED BY <1>2, <1>10, <3>2, <5>1, SMTT(60)
      <4>2. out[k] = <<f, k - From>>
        BY <1>9, <4>1
      <4>3. g + 1 \in 1..Len(got')
        BY <2>7, <2>8
      <4> QED BY <1>3, <2>4, <2>8, <4>2, <4>3
    <3> QED BY <3>1, <3>2
  <2>13. ASSUME NEW k \in 1..Len(out'), k > From', NEW i \in 1..Len(got') PROVE FrameOf(got'[i]) # out'[k][1]
    <3>1. k > From /\ ~(k <= From + Size(f)) /\ k \in 1..Len(out)
      <4>1. k > From + Size(f) /\ k \in 1..Len(out)
        BY <1>3, <2>2, <2>3, <2>13
      <4>2. PICK h \in Nat, z \in Nat, o \in Nat : h = From /\ z = Size(f) /\ o = Len(out)
        BY <1>2, <1>10
      <4>3. k > h /\ ~(k <= h + z)
        <5>1. k > h + z /\ k \in 1..o
          BY <4>1, <4>2
        <5> QED BY <5>1
      <4> QED BY <4>1, <4>2, <4>3
    <3>2. CASE i = g + 1
      BY <1>3, <1>9, <2>4, <2>8, <3>1, <3>2
    <3>3. CASE i \in 1..g
      BY <1>3, <1>4, <2>7, <2>8, <3>1, <3>3 DEF Before
    <3> QED BY <2>8, <2>9, <3>2, <3>3
  <2>14. Before'
    BY <2>10, <2>11, <2>12, <2>13 DEF Before
  <2> QED BY <2>5, <2>14
<1> QED BY <1>1, <1>16, <1>17

-----------------------------------------------------------------------------
(* The invariant *)

WireInv == SenderInv /\ Received /\ Clean

LEMMA WireBegins == WireInit => WireInv
<1> SUFFICES ASSUME WireInit PROVE WireInv
  OBVIOUS
<1>1. /\ pipe \in {"plain", "windows"} /\ cur = 0 /\ seg = "header" /\ rest = <<>> /\ w = NoWrite
      /\ result = [f \in Frames |-> "none"] /\ torn = FALSE
      /\ out = <<>> /\ rpos = 0 /\ cache = <<>> /\ buf = <<>>
      /\ stage = "prefix" /\ need = Prefix /\ got = <<>>
  BY WireAssumption DEF WireInit
<1>2. Prefix \in Nat /\ Prefix > 0 /\ 0 \notin Frames
  BY WireAssumption DEF Frames
<1>3. w \in Writes /\ w.ftotal = 0 /\ w.total = 0 /\ ~w.active
  BY <1>1 DEF NoWrite, Writes
<1>4. WireTypeOK
  <2>1. <<>> \in Seq(Byte) /\ <<>> \in Seq(Seq(Byte))
    OBVIOUS
  <2>2. result \in [Frames -> {"none", "ok", "err"}]
    BY <1>1
  <2> QED BY <1>1, <1>2, <1>3, <2>1, <2>2 DEF WireTypeOK, Writes
<1>5. Counted
  BY <1>1, <1>3 DEF Counted
<1>6. InTurns
  BY <1>1, <1>2 DEF InTurns
<1>7. Prefixes
  <2>1. \A f \in Frames : result[f] = "none" /\ OnStream(f, 0)
    <3>1. out \in Seq(Byte) /\ Len(out) = 0
      BY <1>1
    <3>2. \A f \in Frames : OnStream(f, 0)
      BY <3>1, Absent
    <3> QED BY <1>1, <3>2
  <2> QED BY <1>1, <2>1 DEF Prefixes, OkIffWritten
<1>8. From = 0
  <2>1. Len(cache) = 0 /\ Len(buf) = 0
    BY <1>1
  <2>2. rpos = 0
    BY <1>1
  <2> QED BY <2>1, <2>2 DEF From
<1>9. Received
  BY <1>1, <1>2, <1>8 DEF Received
<1>10. Clean
  BY <1>1, <1>8 DEF Clean, InStep, Before
<1> QED BY <1>4, <1>5, <1>6, <1>7, <1>9, <1>10 DEF WireInv, SenderInv

LEMMA Typed ==
  ASSUME pipe' \in {"plain", "windows"}, SenderType', out' \in Seq(Byte), ReceiverType'
  PROVE  WireTypeOK'
BY DEF SenderType, ReceiverType, WireTypeOK, Writes

LEMMA ReceiverStays ==
  ASSUME WireTypeOK, UNCHANGED receiver
  PROVE  ReceiverType'
BY DEF WireTypeOK, ReceiverType, receiver

\* A step that leaves the sender and the stream alone.
LEMMA SenderStays ==
  ASSUME SenderInv, UNCHANGED <<pipe, sender, out>>
  PROVE  SenderType' /\ Counted' /\ InTurns' /\ Prefixes'
<1>1. /\ WireTypeOK /\ Counted /\ InTurns /\ Prefixes /\ SenderType
      /\ pipe' = pipe /\ cur' = cur /\ seg' = seg /\ rest' = rest /\ w' = w /\ result' = result /\ torn' = torn /\ out' = out
  BY SenderTyped DEF SenderInv, sender
<1>2. SenderType'
  BY <1>1 DEF SenderType
<1>3. Base' = Base /\ Position' = Position
  <2>1. Base' = Base
    BY <1>1 DEF Base, Size
  <2> QED BY <1>1, <2>1 DEF Position
<1>4. Counted'
  BY <1>1, <1>3 DEF Counted
<1>5. InTurns'
  BY <1>1 DEF InTurns
<1>6. Prefixes'
  <2>1. \A f \in Frames, n \in Nat : OnStream(f, n) => OnStream(f, n)'
    BY <1>1 DEF OnStream
  <2>2. OkIffWritten'
    <3>1. \A f \in Frames : Size(f) \in Nat
      BY Lengths
    <3>2. ASSUME NEW f \in Frames, result'[f] = "ok" PROVE OnStream(f, Size(f))'
      <4>1. PICK n \in Nat : n = Size(f)
        BY <3>1
      <4>2. OnStream(f, n)
        BY <1>1, <3>2, <4>1 DEF Prefixes, OkIffWritten
      <4> QED BY <2>1, <4>1, <4>2
    <3>3. ASSUME NEW f \in Frames, result'[f] = "err" PROVE \E n \in 0..(Size(f)-1) : OnStream(f, n)'
      BY <1>1, <2>1, <3>3 DEF Prefixes, OkIffWritten
    <3> QED BY <3>2, <3>3 DEF OkIffWritten
  <2>3. \A f \in Frames : /\ (result'[f] = "none" /\ f # cur') => OnStream(f, 0)'
                          /\ (result'[f] = "err" /\ ~torn') => OnStream(f, 0)'
    BY <1>1, <2>1 DEF Prefixes
  <2>4. cur' # 0 =>
          /\ Position' <= Len(out')
          /\ \A i \in 1..Position' : out'[Len(out') - Position' + i] = <<cur', i>>
          /\ \A k \in 1..(Len(out') - Position') : out'[k][1] # cur'
    BY <1>1, <1>3 DEF Prefixes
  <2>5. \A k, l \in 1..Len(out') : k < l => out'[k][1] <= out'[l][1]
    BY <1>1 DEF Prefixes
  <2> QED BY <2>2, <2>3, <2>4, <2>5 DEF Prefixes
<1> QED BY <1>2, <1>4, <1>5, <1>6

\* A step that leaves the results, the stream and the frame being read alone.
LEMMA CleanStays ==
  ASSUME Clean, UNCHANGED <<result, torn, out, got, need>>, From' = From,
         stage' = stage \/ stage' = "ended"
  PROVE  Clean'
<1> SUFFICES ASSUME ~torn' PROVE InStep' /\ Before'
  BY DEF Clean
<1>1. InStep /\ Before
  BY DEF Clean
<1>2. InStep'
  BY <1>1 DEF InStep
<1>3. Before'
  BY <1>1 DEF Before
<1> QED BY <1>2, <1>3

LEMMA WireInductive == WireInv /\ [WireNext]_wireVars => WireInv'
<1> SUFFICES ASSUME WireInv, [WireNext]_wireVars PROVE WireInv'
  OBVIOUS
<1>1. SenderInv /\ Received /\ Clean /\ WireTypeOK /\ out \in Seq(Byte) /\ pipe \in {"plain", "windows"}
  BY DEF WireInv, SenderInv, WireTypeOK
<1>2. ASSUME NEW f \in Frames, WriteFrame(f) PROVE WireInv'
  <2>1. pipe' = pipe /\ out' = out /\ result' = result /\ torn' = torn /\ UNCHANGED receiver
    BY <1>2 DEF WriteFrame
  <2>2. SenderType' /\ Counted' /\ InTurns' /\ Prefixes' /\ Grows
    BY <1>1, <1>2, BeginKeepsSender
  <2>3. Received' /\ From' = From
    BY <1>1, <2>1, <2>2, WriteKeepsReceived
  <2>4. WireTypeOK'
    BY <1>1, <2>1, <2>2, ReceiverStays, Typed
  <2>5. Clean'
    BY <1>1, <2>1, <2>3, CleanStays DEF receiver
  <2> QED BY <2>2, <2>3, <2>4, <2>5 DEF WireInv, SenderInv
<1>3. ASSUME WriteStep PROVE WireInv'
  <2>1. SenderType' /\ Counted' /\ UNCHANGED <<pipe, receiver>>
    BY <1>1, <1>3, WriteEffect, SenderTyped DEF SenderInv
  <2>2. InTurns' /\ Prefixes' /\ Grows
    BY <1>1, <1>3, WriteKeepsTurns, WriteKeepsPrefixes
  <2>3. Received'
    BY <1>1, <2>1, <2>2, WriteKeepsReceived
  <2>4. WireTypeOK'
    BY <1>1, <2>1, <2>2, ReceiverStays, Typed DEF Grows
  <2>5. Clean'
    BY <1>1, <1>3, <2>1, <2>2, WriteKeepsClean
  <2> QED BY <2>1, <2>2, <2>3, <2>4, <2>5 DEF WireInv, SenderInv
<1>4. ASSUME NEW n \in 1..R, FillCache(n) PROVE WireInv'
  <2>1. UNCHANGED <<pipe, sender, out>> /\ UNCHANGED <<result, torn, out, got, need>> /\ stage' = stage
    BY <1>4 DEF FillCache, sender
  <2>2. SenderType' /\ Counted' /\ InTurns' /\ Prefixes'
    BY <1>1, <2>1, SenderStays
  <2>3. ReceiverType' /\ Received' /\ From' = From
    BY <1>1, <1>4, Fills
  <2>4. WireTypeOK'
    BY <1>1, <2>1, <2>2, <2>3, Typed
  <2>5. Clean'
    BY <1>1, <2>1, <2>3, CleanStays
  <2> QED BY <2>2, <2>3, <2>4, <2>5 DEF WireInv, SenderInv
<1>5. ASSUME ReceiveFails PROVE WireInv'
  <2>1. /\ UNCHANGED <<pipe, sender, out>> /\ UNCHANGED <<result, torn, out, got, need>> /\ stage' = "ended"
        /\ UNCHANGED <<rpos, cache, buf>>
    BY <1>5 DEF ReceiveFails, sender
  <2>2. SenderType' /\ Counted' /\ InTurns' /\ Prefixes'
    BY <1>1, <2>1, SenderStays
  <2>3. From' = From
    BY <2>1 DEF From
  <2>4. ReceiverType'
    BY <1>1, <2>1 DEF ReceiverType, WireTypeOK
  <2>5. Received'
    BY <1>1, <2>1, <2>3 DEF Received
  <2>6. WireTypeOK'
    BY <1>1, <2>1, <2>2, <2>4, Typed
  <2>7. Clean'
    BY <1>1, <2>1, <2>3, CleanStays
  <2> QED BY <2>2, <2>5, <2>6, <2>7 DEF WireInv, SenderInv
<1>6. ASSUME NEW n \in 1..R, Decode(n) PROVE WireInv'
  <2>1. UNCHANGED <<pipe, sender, out>>
    BY <1>6 DEF Decode
  <2>2. SenderType' /\ Counted' /\ InTurns' /\ Prefixes'
    BY <1>1, <2>1, SenderStays
  <2>3. ReceiverType' /\ Received'
    BY <1>1, <1>6, DecodeKeeps
  <2>4. WireTypeOK'
    BY <1>1, <2>1, <2>2, <2>3, Typed
  <2>5. Clean'
    BY <1>1, <1>6, DecodeKeepsClean
  <2> QED BY <2>2, <2>3, <2>4, <2>5 DEF WireInv, SenderInv
<1>7. ASSUME UNCHANGED wireVars PROVE WireInv'
  <2>1. UNCHANGED <<pipe, sender, out>> /\ UNCHANGED <<result, torn, out, got, need>> /\ UNCHANGED receiver /\ stage' = stage
    BY <1>7 DEF wireVars, sender, receiver
  <2>2. SenderType' /\ Counted' /\ InTurns' /\ Prefixes'
    BY <1>1, <2>1, SenderStays
  <2>3. From' = From /\ Received'
    <3>1. Grows
      BY <1>1, <2>1 DEF Grows
    <3> QED BY <1>1, <2>1, <3>1, WriteKeepsReceived
  <2>4. WireTypeOK'
    BY <1>1, <2>1, <2>2, ReceiverStays, Typed
  <2>5. Clean'
    BY <1>1, <2>1, <2>3, CleanStays
  <2> QED BY <2>2, <2>3, <2>4, <2>5 DEF WireInv, SenderInv
<1> QED BY <1>2, <1>3, <1>4, <1>5, <1>6, <1>7 DEF WireNext

LEMMA WireInvAlways == WireSpec => []WireInv
<1> QED BY WireBegins, WireInductive, PTL DEF WireSpec

\* The writer's buffers and counters, the stream, and the reader's cache and
\* buffer hold bytes of frames throughout.
THEOREM WireTypeCorrect == WireSpec => []WireTypeOK
<1>1. WireInv => WireTypeOK
  BY DEF WireInv, SenderInv
<1> QED BY <1>1, WireInvAlways, PTL

\* WriteFrame answers nil exactly when the whole frame went out, each byte once
\* and in order, whatever sizes Write and WSASend accept and refuse.
THEOREM OkMeansWritten == WireSpec => []OkIffWritten
<1>1. WireInv => OkIffWritten
  BY DEF WireInv, SenderInv, Prefixes
<1> QED BY <1>1, WireInvAlways, PTL

\* A frame that was written whole and is before a delivered one was delivered.
LEMMA NoGap ==
  ASSUME WireInv, ~torn, NEW i \in 1..Len(got), NEW e \in Frames, e < FrameOf(got[i]), result[e] = "ok"
  PROVE  \E j \in 1..(i-1) : got[j] = Bytes(e)
<1>1. /\ WireTypeOK /\ Prefixes /\ Before /\ From \in Nat
  BY DEF WireInv, SenderInv, Clean, Received
<1>2. /\ out \in Seq(Byte) /\ Len(out) \in Nat /\ got \in Seq(Seq(Byte)) /\ Len(got) \in Nat
  <2>1. out \in Seq(Byte) /\ got \in Seq(Seq(Byte))
    BY <1>1 DEF WireTypeOK
  <2> QED BY <2>1
<1>3. PICK f \in Frames : f = FrameOf(got[i]) /\ result[f] = "ok"
  BY <1>1 DEF Before
<1>4. ASSUME NEW g \in Frames, result[g] = "ok" PROVE \E k \in 1..Len(out) : out[k][1] = g
  <2>1. PICK a \in 0..Len(out) : a + Size(g) <= Len(out) /\ \A j \in 1..Size(g) : out[a+j] = <<g, j>>
    BY <1>1, <1>4 DEF Prefixes, OkIffWritten, OnStream
  <2>2. Size(g) \in Nat /\ Size(g) > 1
    BY Lengths
  <2>3. a + 1 \in 1..Len(out) /\ out[a + 1] = <<g, 1>>
    BY <1>2, <2>1, <2>2
  <2> QED BY <2>3
<1>5. PICK k \in 1..Len(out) : out[k][1] = e
  BY <1>4
<1>6. PICK l \in 1..Len(out) : out[l][1] = f
  BY <1>3, <1>4
<1>7. e \in Nat /\ f \in Nat /\ e < f
  BY <1>3, Lengths
<1>8. k < l
  <2>1. ~(l < k)
    BY <1>1, <1>5, <1>6, <1>7 DEF Prefixes
  <2>2. k # l
    BY <1>5, <1>6, <1>7
  <2> QED BY <1>2, <2>1, <2>2
<1>9. ~(l > From)
  BY <1>1, <1>3, <1>6 DEF Before
<1>10. k \in 1..From
  BY <1>1, <1>2, <1>8, <1>9
<1>11. PICK j \in 1..Len(got) : FrameOf(got[j]) = e
  BY <1>1, <1>5, <1>10 DEF Before
<1>12. got[j] = Bytes(e)
  BY <1>1, <1>11 DEF Before
<1>13. j < i
  <2>1. ~(i < j)
    BY <1>1, <1>3, <1>7, <1>11 DEF Before
  <2>2. i # j
    BY <1>3, <1>7, <1>11
  <2> QED BY <1>2, <2>1, <2>2
<1> QED BY <1>2, <1>12, <1>13

\* Until a write fails in the middle of a frame, the reader delivers exactly the
\* frames that were written whole, in order, and rejects nothing, however the
\* receives cut the stream.
THEOREM DeliversWhatWasSent == WireSpec => []DeliveredAsSent
<1>1. ASSUME WireInv PROVE DeliveredAsSent
  <2> SUFFICES ASSUME ~torn
               PROVE  /\ stage # "failed"
                      /\ \A i \in 1..Len(got) :
                           LET f == FrameOf(got[i]) IN
                           /\ f \in Frames /\ result[f] = "ok" /\ got[i] = Bytes(f)
                           /\ \A j \in 1..(i-1) : FrameOf(got[j]) < f
                           /\ \A e \in 1..(f-1) : result[e] = "ok" => \E j \in 1..(i-1) : got[j] = Bytes(e)
    BY DEF DeliveredAsSent
  <2>1. WireTypeOK /\ InStep /\ Before
    BY <1>1 DEF WireInv, SenderInv, Clean
  <2>2. stage # "failed"
    BY <2>1 DEF InStep
  <2>3. Len(got) \in Nat
    BY <2>1 DEF WireTypeOK
  <2>4. ASSUME NEW i \in 1..Len(got)
        PROVE  LET f == FrameOf(got[i]) IN
               /\ f \in Frames /\ result[f] = "ok" /\ got[i] = Bytes(f)
               /\ \A j \in 1..(i-1) : FrameOf(got[j]) < f
               /\ \A e \in 1..(f-1) : result[e] = "ok" => \E j \in 1..(i-1) : got[j] = Bytes(e)
    <3>1. FrameOf(got[i]) \in Frames /\ result[FrameOf(got[i])] = "ok" /\ got[i] = Bytes(FrameOf(got[i]))
      BY <2>1 DEF Before
    <3>2. ASSUME NEW j \in 1..(i-1) PROVE FrameOf(got[j]) < FrameOf(got[i])
      <4>1. j \in 1..Len(got) /\ j < i
        BY <2>3
      <4> QED BY <2>1, <4>1 DEF Before
    <3>3. ASSUME NEW e \in 1..(FrameOf(got[i])-1), result[e] = "ok" PROVE \E j \in 1..(i-1) : got[j] = Bytes(e)
      <4>1. PICK f \in Frames : f = FrameOf(got[i])
        BY <3>1
      <4>2. e \in Frames /\ e < f
        BY <4>1, WireAssumption DEF Frames
      <4> QED BY <1>1, <3>3, <4>1, <4>2, NoGap
    <3> QED BY <3>1, <3>2, <3>3
  <2> QED BY <2>2, <2>4
<1> QED BY <1>1, WireInvAlways, PTL
=============================================================================
