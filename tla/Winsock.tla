------------------------------ MODULE Winsock -------------------------------
(***************************************************************************)
(* The RFCOMM listener of Windows (native_windows.go): a Winsock socket    *)
(* and an SDP record.  Close may be called by several goroutines while     *)
(* Accept is on its way to the system; only the first call does the work,  *)
(* in three steps, and the others return at once.  As in Dial, the system  *)
(* gives the number of a closed socket out again, so the model keeps who   *)
(* holds it.                                                               *)
(***************************************************************************)
VARIABLES
  lnSock,   \* winListener.lnSock: "none" (no listener yet), "number", "invalid"
  number,   \* who holds the number: "free", "listener", "other"
  record,   \* the service record is registered (svcRegDone)
  closing,  \* the Close that won the swap of closed: [pc, by]; pc is "none",
            \* "delete", "socket", "forget" or "done"
  strayed   \* history: calls that reached a socket of somebody else

winsock == <<lnSock, number, record, closing, strayed>>

WinsockInit ==
  /\ lnSock = "none" /\ number = "free" /\ record = FALSE
  /\ closing = [pc |-> "none", by |-> "none"] /\ strayed = {}

\* listenNative: the socket, Bind, Listen and the service record.  When one of
\* them fails nothing is left: listenNative closes what it had.
ListenNative ==
  /\ lnSock' = "number" /\ number' = "listener" /\ record' = TRUE
  /\ UNCHANGED <<closing, strayed>>

-----------------------------------------------------------------------------
(* Close *)

\* Faulty variant: every call closes.
CloseAgain(g) ==
  /\ closing' = [pc |-> "delete", by |-> g]
  /\ UNCHANGED <<lnSock, number, record, strayed>>

\* Close as called by g: all but the first return at once.
CloseListener(g) ==
  /\ closing' = IF closing.pc = "none" THEN [pc |-> "delete", by |-> g] ELSE closing
  /\ UNCHANGED <<lnSock, number, record, strayed>>

\* g is still inside Close.
InClose(g) == closing.by = g /\ closing.pc # "done"

Closes(from, to) == closing.pc = from /\ closing' = [closing EXCEPT !.pc = to]

\* Best effort: when the deletion fails the record stays.
DeleteService ==
  /\ Closes("delete", "socket") /\ record' \in {FALSE, record}
  /\ UNCHANGED <<lnSock, number, strayed>>

CloseSocket ==
  /\ Closes("socket", "forget")
  /\ number' = "free" /\ strayed' = IF number = "other" THEN strayed \cup {"close"} ELSE strayed
  /\ UNCHANGED <<lnSock, record>>

Forget ==
  /\ Closes("forget", "done") /\ lnSock' = "invalid"
  /\ UNCHANGED <<number, record, strayed>>

CloseStep == DeleteService \/ CloseSocket \/ Forget

-----------------------------------------------------------------------------
(* Accept *)

\* acceptSock after the closed check.  The field is read without a lock and
\* before the call: it may be the number also when it has been forgotten.
EnterAccept ==
  /\ strayed' = IF number = "other" THEN strayed \cup {"accept"} ELSE strayed
  /\ UNCHANGED <<lnSock, number, record, closing>>

\* The system call waits at the listening socket, or at somebody else's.
Waits == number # "free"

\* The rest of the process opens and closes sockets.
NumberReused ==
  /\ lnSock # "none"
  /\ \/ number = "free" /\ number' = "other"
     \/ number = "other" /\ number' = "free"
  /\ UNCHANGED <<lnSock, record, closing, strayed>>
=============================================================================
