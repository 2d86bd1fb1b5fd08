---------------------------- MODULE SelfRegister ----------------------------
(***************************************************************************)
(* bootstrap.SelfRegister: a node without a nodeID dials its parent, sends *)
(* register, reads the answer, perhaps does the same with login, and       *)
(* closes the connection, all under one context with a timeout.  Every     *)
(* send and every read runs in a helper goroutine that the caller leaves   *)
(* behind when the context ends first.                                     *)
(*                                                                         *)
(* A frame is what parseRegisterResp and assertLoginOK look at: the status *)
(* ("garbled" when the JSON is not readable), whether the code is 1, and   *)
(* the node_id.  Action, header and message ID are read by neither.        *)
(***************************************************************************)
EXTENDS Dial, Naturals, Sequences

CONSTANTS
  NodeIDs,    \* node_ids the parent may assign
  MaxNotices  \* bound on frames the parent sends without being asked

ASSUME RegisterAssumption == NodeIDs \subseteq Nat \ {0} /\ MaxNotices \in Nat

VARIABLES
  doLogin,    \* opts.DoLogin
  step,       \* SelfRegister: "dial", "send", "recv", "done"
  round,      \* "register" or "login"
  helper,     \* the goroutine of the last send or read: [op, st, got], st being
              \* "lost" when its call went to the socket of somebody else
  connClosed, \* conn.Close was called
  nodeID,     \* the local variable nodeID
  outcome,    \* what SelfRegister returned: [err, node]
  inbox,      \* frames on their way from the parent
  lost,       \* the connection broke, or the parent closed it
  asked,      \* requests the parent has received
  verdict,    \* what the parent decided about the registration: [err, node]
  loginOK,    \* what it decided about the login: "none", "yes", "no"
  notices     \* frames it sent without being asked

parent  == <<inbox, lost, asked, verdict, loginOK, notices>>
caller  == <<doLogin, step, round, nodeID, outcome>>
regVars == <<dialVars, caller, helper, connClosed, parent>>

Frame(status, ok, node) == [status |-> status, ok |-> ok, node |-> node]
Garbled == Frame("garbled", FALSE, 0)
Sent    == Frame("sent", TRUE, 0)
Broken  == Frame("broken", FALSE, 0)

Granted(n) == [err |-> "none", node |-> n]
Failed(e)  == [err |-> e, node |-> 0]
Open       == Failed("open")

Helper(op, st) == [op |-> op, st |-> st, got |-> Broken]

RegInit ==
  /\ DialInit
  /\ doLogin \in BOOLEAN /\ step = "dial" /\ round = "register" /\ nodeID = 0 /\ outcome = Open
  /\ helper = Helper("send", "none") /\ connClosed = FALSE
  /\ inbox = <<>> /\ lost = FALSE /\ asked = 0 /\ verdict = Open /\ loginOK = "none" /\ notices = 0

-----------------------------------------------------------------------------
(* The connection *)

\* os.NewFile on the blocking RFCOMM descriptor: the runtime closes it when the
\* call in progress has returned, and Close does not interrupt that call.
HeldByCall == transport = "channel" /\ helper.st = "busy"

\* conn.Close: once, and after a Close nothing.
CloseConn ==
  /\ connClosed' = TRUE
  /\ IF connClosed \/ HeldByCall THEN UNCHANGED <<holder, touched>> ELSE CloseNumber

\* A call of the helper ends.
Ends(got) ==
  /\ helper' = [helper EXCEPT !.st = "ended", !.got = got]
  /\ holder' = IF HeldByCall /\ connClosed THEN "free" ELSE holder
  /\ UNCHANGED <<transport, ctxDone, dial, connector, touched, caller, connClosed>>

\* Read and Write of the Windows pipe do not look at closed: after Close they
\* go to the system with the old number, which may be a stranger's by now.
\* The others look first.
OnStrangers == connClosed /\ transport = "windows" /\ holder = "other"
Strays ==
  /\ OnStrangers
  /\ helper' = [helper EXCEPT !.st = "lost"] /\ touched' = TRUE
  /\ UNCHANGED <<transport, ctxDone, dial, holder, connector, caller, connClosed, parent>>

HelperStarts ==
  /\ helper.st = "ready"
  /\ \/ /\ ~connClosed
        /\ helper' = [helper EXCEPT !.st = "busy"]
        /\ UNCHANGED <<dialVars, caller, connClosed, parent>>
     \/ connClosed /\ ~OnStrangers /\ Ends(Broken) /\ UNCHANGED parent
     \/ Strays

\* A frame takes several system calls, and the next one strays.
HelperGoesOn == helper.st = "busy" /\ Strays

\* The stranger's socket lets the call go; nobody looks at what it brings.
StrayEnds == helper.st = "lost" /\ Ends(Broken) /\ UNCHANGED parent

\* The call fails: the connection broke, or was closed under the call.
HelperFails ==
  /\ helper.st = "busy" /\ (lost \/ (connClosed /\ transport # "channel"))
  /\ Ends(Broken) /\ UNCHANGED parent

\* The request is written and gets to the parent.
HelperSends ==
  /\ helper.st = "busy" /\ helper.op = "send" /\ ~lost
  /\ Ends(Sent)
  /\ asked' = asked + 1 /\ UNCHANGED <<inbox, lost, verdict, loginOK, notices>>

\* Decode returns the next frame, whatever it is; the caller may be gone.
HelperReads ==
  /\ helper.st = "busy" /\ helper.op = "recv" /\ inbox # <<>>
  /\ Ends(Head(inbox))
  /\ inbox' = Tail(inbox) /\ UNCHANGED <<lost, asked, verdict, loginOK, notices>>

-----------------------------------------------------------------------------
(* SelfRegister itself *)

\* parseRegisterResp: pending and rejected come first, then code and node_id.
ParseRegisterResp(f) ==
  CASE f.status \in {"pending", "rejected"} -> Failed(f.status)
    [] f.status \notin {"pending", "rejected", "garbled"} /\ f.ok /\ f.node # 0 -> Granted(f.node)
    [] OTHER -> Failed("failed")

\* Faulty variant: any readable answer to the login will do.
LoginReadable(f) == f.status # "garbled"

AssertLoginOK(f) == f.status # "garbled" /\ f.ok

Return(r) ==
  /\ step' = "done" /\ outcome' = r
  /\ CloseConn
  /\ UNCHANGED <<transport, ctxDone, dial, connector, doLogin, round, nodeID, helper, parent>>

\* To the next send or read, with a new helper.
Proceed(s, r, n) ==
  /\ step' = s /\ round' = r /\ nodeID' = n /\ helper' = Helper(s, "ready")
  /\ UNCHANGED <<dialVars, doLogin, outcome, connClosed, parent>>

DialDone ==
  /\ step = "dial"
  /\ \/ dial = "ok" /\ Proceed("send", "register", 0)
     \/ /\ dial = "failed" /\ step' = "done" /\ outcome' = Failed("failed")
        /\ UNCHANGED <<dialVars, doLogin, round, nodeID, helper, connClosed, parent>>

SendDone ==
  /\ step = "send" /\ helper.st = "ended"
  /\ \/ helper.got = Sent /\ Proceed("recv", round, nodeID)
     \/ helper.got = Broken /\ Return(Failed("failed"))

RecvDone ==
  /\ step = "recv" /\ helper.st = "ended"
  /\ LET f == helper.got  r == ParseRegisterResp(f)
     IN CASE f = Broken -> Return(Failed("failed"))
          [] f # Broken /\ round = "login" ->
               Return(IF AssertLoginOK(f) THEN Granted(nodeID) ELSE Failed("failed"))
          [] OTHER -> IF r.err = "none" /\ doLogin THEN Proceed("send", "login", r.node)
                      ELSE Return(r)

\* Faulty variant: only the read watches the context.
CtxCaseOfRead == step = "recv" /\ ctxDone /\ Return(Failed("failed"))

\* The context's case in runConnOp and recvFrame: close and leave the helper.
CtxCase == step \in {"send", "recv"} /\ ctxDone /\ Return(Failed("failed"))

-----------------------------------------------------------------------------
(* The parent, over the wire *)

\* What a parent of the old and of the new form answers to a register.
RegisterAnswers ==
  {<<Granted(n), Frame("approved", TRUE, n)>> : n \in NodeIDs}
  \cup {<<Granted(n), Frame("", TRUE, n)>> : n \in NodeIDs}
  \cup {<<Failed("pending"), Frame("pending", FALSE, 0)>>,
        <<Failed("rejected"), Frame("rejected", FALSE, 0)>>,
        <<Failed("failed"), Frame("", FALSE, 0)>>,
        <<Failed("failed"), Frame("approved", TRUE, 0)>>,
        <<Failed("failed"), Garbled>>}
  \cup {<<Failed("pending"), Frame("pending", TRUE, n)>> : n \in NodeIDs}

LoginAnswers == {<<"yes", Frame("", TRUE, 0)>>, <<"no", Frame("", FALSE, 0)>>, <<"no", Garbled>>}

ParentAnswers ==
  /\ ~lost
  /\ \/ /\ asked = 1 /\ verdict = Open
        /\ \E a \in RegisterAnswers : verdict' = a[1] /\ inbox' = Append(inbox, a[2])
        /\ UNCHANGED loginOK
     \/ /\ asked = 2 /\ loginOK = "none"
        /\ \E a \in LoginAnswers : loginOK' = a[1] /\ inbox' = Append(inbox, a[2])
        /\ UNCHANGED verdict
  /\ UNCHANGED <<dialVars, caller, helper, connClosed, lost, asked, notices>>

\* A frame nobody asked for, such as one the parent broadcasts to its children.
Notice ==
  /\ dial = "ok" /\ ~lost /\ notices < MaxNotices
  /\ \E f \in {Garbled} \cup {Frame("", TRUE, n) : n \in NodeIDs} : inbox' = Append(inbox, f)
  /\ notices' = notices + 1
  /\ UNCHANGED <<dialVars, caller, helper, connClosed, lost, asked, verdict, loginOK>>

Lose ==
  /\ dial = "ok" /\ ~lost /\ lost' = TRUE
  /\ UNCHANGED <<dialVars, caller, helper, connClosed, inbox, asked, verdict, loginOK, notices>>

-----------------------------------------------------------------------------
session == <<caller, helper, connClosed, parent>>

CallerNext == DialDone \/ SendDone \/ RecvDone \/ CtxCase

RegNext ==
  \/ (CtxEnds \/ Reused \/ DialNext \/ ConnectorNext) /\ UNCHANGED session
  \/ HelperStarts \/ HelperFails \/ HelperSends \/ HelperReads \/ HelperGoesOn \/ StrayEnds
  \/ CallerNext \/ ParentAnswers \/ Notice \/ Lose

RegSpec == RegInit /\ [][RegNext]_regVars

\* The timeout comes; goroutines go on; Connect ends by itself, and DialContext,
\* DialAddr and OpenStreamSync end with the context.  The provider's Dial, the
\* parent, the network and whoever has the number now owe nothing.
RegFairness ==
  /\ WF_regVars(CtxEnds /\ UNCHANGED session)
  /\ WF_regVars(transport # "android" /\ DialNext /\ UNCHANGED session)
  /\ WF_regVars(ConnectorNext /\ UNCHANGED session)
  /\ WF_regVars(HelperStarts) /\ WF_regVars(HelperFails) /\ WF_regVars(CallerNext)

-----------------------------------------------------------------------------
(* Properties *)

RegTypeOK ==
  /\ transport \in Transports /\ ctxDone \in BOOLEAN /\ touched \in BOOLEAN
  /\ doLogin \in BOOLEAN /\ connClosed \in BOOLEAN /\ lost \in BOOLEAN
  /\ dial \in {"start", "stream", "select", "defer", "ok", "failed"}
  /\ holder \in {"free", "dial", "other"}
  /\ connector \in {"none", "ready", "busy", "ok", "err"}
  /\ step \in {"dial", "send", "recv", "done"} /\ round \in {"register", "login"}
  /\ helper.st \in {"none", "ready", "busy", "lost", "ended"} /\ nodeID \in NodeIDs \cup {0}
  /\ outcome.node \in NodeIDs \cup {0} /\ verdict.node \in NodeIDs \cup {0}
  /\ asked \in 0..2 /\ loginOK \in {"none", "yes", "no"} /\ notices \in 0..MaxNotices

\* SelfRegister always returns and leaves nothing behind, no socket and no
\* goroutine, whatever the parent and the network do.  Three exceptions: the
\* Android provider's Dial does not know the context; a read or write on an
\* RFCOMM channel of Linux outlives the Close until the peer does something;
\* and one on the Windows pipe that comes after the Close waits at the socket
\* that has got the number meanwhile, until that one's owner or peer does.
EndsReleased ==
  <>[](\/ /\ step = "done" /\ holder # "dial"
          /\ helper.st \in {"none", "ended", "lost"} /\ connector \notin {"ready", "busy"}
       \/ transport = "android" /\ dial = "start"
       \/ transport = "none"
       \/ HeldByCall /\ connClosed)

\* When SelfRegister returns, its socket or session is closed, whichever step
\* failed and whatever the helper is doing; only a call in progress on a blocking
\* descriptor keeps it until the call ends, and the close is then on record.
ClosedAtReturn == step = "done" => holder # "dial" \/ (HeldByCall /\ connClosed)

\* Unless a frame nobody asked for got in between, a node reports itself
\* registered only with the node_id its parent gave it, and after the parent's
\* yes to the login if it logs in; and when neither timeout nor loss cut it
\* short, its outcome is the parent's verdict.
OutcomeAsAnswered ==
  (step = "done" /\ dial = "ok" /\ notices = 0) =>
     /\ outcome.err = "none" => outcome = verdict /\ (doLogin => loginOK = "yes")
     /\ (~ctxDone /\ ~lost) => outcome = IF doLogin /\ verdict.err = "none" /\ loginOK = "no"
                                        THEN Failed("failed") ELSE verdict
=============================================================================
