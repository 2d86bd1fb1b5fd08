-------------------------------- MODULE Dial --------------------------------
(***************************************************************************)
(* How a node dials its parent under a context: net.Dialer for TCP, a QUIC *)
(* session and then its stream, the Android provider, and the two raw      *)
(* sockets, RFCOMM by channel on Linux and Winsock RFCOMM on Windows,      *)
(* where a goroutine sits in Connect while the dial selects between its    *)
(* result and the context.  (RFCOMM by UUID on Linux is in Bluez.)         *)
(*                                                                         *)
(* A raw socket is known by a number that the system gives out again once  *)
(* it is closed, so the model keeps who holds the number.                  *)
(***************************************************************************)
CONSTANT Transports

ASSUME DialAssumption ==
  Transports \subseteq {"none", "tcp", "quic", "android", "channel", "windows"}

VARIABLES
  transport,  \* what this node dials over; "none": it dials nobody
  ctxDone,    \* the context of the dial has ended
  dial,       \* the dial: "start", "stream", "select", "defer", "ok", "failed"
  holder,     \* who holds the socket (its number): "free", "dial", "other"
  connector,  \* the goroutine in Connect: "none", "ready", "busy", "ok", "err"
  touched     \* history: a call of ours reached a socket of somebody else

dialVars == <<transport, ctxDone, dial, holder, connector, touched>>

DialInit ==
  /\ transport \in Transports /\ ctxDone = FALSE
  /\ dial = "start" /\ holder = "free" /\ connector = "none" /\ touched = FALSE

Raw == transport \in {"channel", "windows"}

Goes(from, to) == dial = from /\ dial' = to

\* close(2) or Closesocket on the number, whoever holds it now.
CloseNumber == holder' = "free" /\ touched' = (touched \/ holder = "other")

\* The timeout of the context, or its owner ends it.
CtxEnds ==
  /\ transport # "none" /\ ~ctxDone /\ ctxDone' = TRUE
  /\ UNCHANGED <<transport, dial, holder, connector, touched>>

\* The rest of the process opens and closes sockets: it may get the number.
Reused ==
  /\ Raw /\ dial # "start"
  /\ \/ holder = "free" /\ holder' = "other"
     \/ holder = "other" /\ holder' = "free"
  /\ UNCHANGED <<transport, ctxDone, dial, connector, touched>>

-----------------------------------------------------------------------------
(* Dials that the Go runtime, quic-go or the Android provider carry out *)

\* The dial answers a connection, or fails.
Returns(to) ==
  /\ \/ Goes("start", to) /\ holder' = "dial"
     \/ Goes("start", "failed") /\ UNCHANGED holder
  /\ UNCHANGED <<transport, ctxDone, connector, touched>>

TcpDial     == transport = "tcp" /\ Returns("ok")
AndroidDial == transport = "android" /\ Returns("ok")
QuicDial    == transport = "quic" /\ Returns("stream")

\* OpenStreamSync; without a stream the session is closed again.
OpenStream ==
  /\ \/ Goes("stream", "ok") /\ UNCHANGED holder
     \/ Goes("stream", "failed") /\ holder' = "free"
  /\ UNCHANGED <<transport, ctxDone, connector, touched>>

-----------------------------------------------------------------------------
(* Raw sockets *)

\* The socket (and on Windows its Bind) succeeds and Connect is started, or the
\* dial ends here with no socket left.
OpenSocket ==
  /\ Raw
  /\ \/ Goes("start", "select") /\ holder' = "dial" /\ connector' = "ready"
     \/ Goes("start", "failed") /\ UNCHANGED <<holder, connector>>
  /\ UNCHANGED <<transport, ctxDone, touched>>

\* The goroutine gets to its Connect, on whatever the number means by then.
CallConnect ==
  /\ connector = "ready"
  /\ connector' \in (CASE holder = "dial" -> {"busy"}
                       [] holder = "free" -> {"err"}
                       [] OTHER -> {"ok", "err"})
  /\ touched' = (touched \/ holder = "other")
  /\ UNCHANGED <<transport, ctxDone, dial, holder>>

ConnectReturns ==
  /\ connector = "busy" /\ connector' \in {"ok", "err"}
  /\ UNCHANGED <<transport, ctxDone, dial, holder, touched>>

\* The context's case closes the socket.  On Linux the deferred function then
\* knows it is closed; on Windows s still holds the number and it closes again.
SelectCtx ==
  /\ ctxDone /\ Goes("select", IF transport = "windows" THEN "defer" ELSE "failed")
  /\ CloseNumber
  /\ UNCHANGED <<transport, ctxDone, connector>>

DeferredClose ==
  /\ Goes("defer", "failed") /\ CloseNumber
  /\ UNCHANGED <<transport, ctxDone, connector>>

\* Connect failed: the deferred function closes the socket.
SelectErr ==
  /\ connector = "err" /\ Goes("select", "failed") /\ CloseNumber
  /\ UNCHANGED <<transport, ctxDone, connector>>

\* Faulty variant: the deferred function closes what the pipe now owns.
SelectOkNotTransferred ==
  /\ connector = "ok" /\ Goes("select", "ok") /\ CloseNumber
  /\ UNCHANGED <<transport, ctxDone, connector>>

\* Connected: the socket becomes the pipe's.
SelectOk ==
  /\ connector = "ok" /\ Goes("select", "ok")
  /\ UNCHANGED <<transport, ctxDone, holder, connector, touched>>

DialNext ==
  \/ TcpDial \/ AndroidDial \/ QuicDial \/ OpenStream \/ OpenSocket
  \/ SelectCtx \/ DeferredClose \/ SelectErr \/ SelectOk

ConnectorNext == CallConnect \/ ConnectReturns

-----------------------------------------------------------------------------
\* A number that went to another socket is used by a dial, or by the connection
\* it returned, only after the context ended: the race between the closing of a
\* cancelled dial (or read) and the goroutine still on its way to the system
\* call.  In particular a dial that failed or succeeded by itself closes its
\* socket once, and the pipe owns what it was given.
ForeignOnlyAfterCancel == touched => ctxDone
=============================================================================
