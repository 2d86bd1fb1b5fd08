---------------------------- MODULE Node_proofs -----------------------------
(***************************************************************************)
(* Proofs about the two parts of a node's life outside the server:         *)
(* SelfRegister, over any transport and with any node_ids, and Permission, *)
(* for any handlers, core configs and addresses.                           *)
(***************************************************************************)
EXTENDS SelfRegister, Permission, WellFoundedInduction, TLAPS

-----------------------------------------------------------------------------
(* Frames and outcomes *)

Frames ==
  [status : {"garbled", "sent", "broken", "pending", "rejected", "approved", ""},
   ok : BOOLEAN, node : NodeIDs \cup {0}]

Outcomes ==
  [err : {"none", "open", "pending", "rejected", "failed"}, node : NodeIDs \cup {0}]

LEMMA FramesTyped ==
  /\ Garbled \in Frames /\ Sent \in Frames /\ Broken \in Frames /\ Sent # Broken
  /\ \A s \in {"approved", ""}, n \in NodeIDs : Frame(s, TRUE, n) \in Frames
  /\ Open \in Outcomes /\ Failed("failed") \in Outcomes
<1>1. Garbled \in Frames /\ Sent \in Frames /\ Broken \in Frames
  BY DEF Garbled, Sent, Broken, Frame, Frames
<1>2. Sent.status = "sent" /\ Broken.status = "broken"
  BY DEF Sent, Broken, Frame
<1>3. \A s \in {"approved", ""}, n \in NodeIDs : Frame(s, TRUE, n) \in Frames
  BY DEF Frame, Frames
<1>4. Open \in Outcomes /\ Failed("failed") \in Outcomes
  BY DEF Open, Failed, Outcomes
<1>5. QED
  BY <1>1, <1>2, <1>3, <1>4

\* parseRegisterResp reads out of an answer what the parent decided.
LEMMA AnswersParsed ==
  ASSUME NEW v, NEW f, <<v, f>> \in RegisterAnswers
  PROVE  /\ v \in Outcomes /\ f \in Frames /\ v.err # "open" /\ f # Broken
         /\ ParseRegisterResp(f) = v
         /\ v.err = "none" => v = Granted(v.node)
<1>0. NodeIDs \subseteq Nat \ {0}
  BY RegisterAssumption
<1>1. ASSUME NEW s \in {"approved", ""}, NEW n \in NodeIDs, v = Granted(n), f = Frame(s, TRUE, n)
      PROVE  /\ v \in Outcomes /\ f \in Frames /\ v.err # "open" /\ f # Broken
             /\ ParseRegisterResp(f) = v
             /\ v.err = "none" => v = Granted(v.node)
  <2>1. v.err = "none" /\ v.node = n /\ v \in Outcomes
    BY <1>1 DEF Granted, Outcomes
  <2>2. f.status = s /\ f.ok = TRUE /\ f.node = n /\ f \in Frames
    BY <1>1 DEF Frame, Frames
  <2>3. Broken.status = "broken"
    BY DEF Broken, Frame
  <2>4. ParseRegisterResp(f) = Granted(n)
    BY <1>0, <1>1, <2>2 DEF ParseRegisterResp
  <2>5. QED
    BY <1>1, <2>1, <2>2, <2>3, <2>4
<1>2. ASSUME NEW e \in {"pending", "rejected", "failed"}, NEW s \in {"pending", "rejected", "", "approved", "garbled"},
             NEW b \in BOOLEAN, NEW n \in NodeIDs \cup {0}, v = Failed(e), f = Frame(s, b, n),
             s = e \/ (e = "failed" /\ s \in {"", "approved", "garbled"} /\ (b => n = 0))
      PROVE  /\ v \in Outcomes /\ f \in Frames /\ v.err # "open" /\ f # Broken
             /\ ParseRegisterResp(f) = v
             /\ v.err = "none" => v = Granted(v.node)
  <2>1. v.err = e /\ v \in Outcomes
    BY <1>2 DEF Failed, Outcomes
  <2>2. f.status = s /\ f.ok = b /\ f.node = n /\ f \in Frames
    BY <1>2 DEF Frame, Frames
  <2>3. Broken.status = "broken"
    BY DEF Broken, Frame
  <2>4. ParseRegisterResp(f) = Failed(e)
    BY <1>0, <1>2, <2>2 DEF ParseRegisterResp
  <2>5. QED
    BY <1>2, <2>1, <2>2, <2>3, <2>4
<1>3. \/ \E s \in {"approved", ""}, n \in NodeIDs : v = Granted(n) /\ f = Frame(s, TRUE, n)
      \/ v = Failed("pending") /\ f = Frame("pending", FALSE, 0)
      \/ v = Failed("rejected") /\ f = Frame("rejected", FALSE, 0)
      \/ v = Failed("failed") /\ f = Frame("", FALSE, 0)
      \/ v = Failed("failed") /\ f = Frame("approved", TRUE, 0)
      \/ v = Failed("failed") /\ f = Frame("garbled", FALSE, 0)
      \/ \E n \in NodeIDs : v = Failed("pending") /\ f = Frame("pending", TRUE, n)
  BY DEF RegisterAnswers, Garbled
<1>4. QED
  BY <1>1, <1>2, <1>3

LEMMA LoginsAsserted ==
  ASSUME NEW v, NEW f, <<v, f>> \in LoginAnswers
  PROVE  v \in {"yes", "no"} /\ f \in Frames /\ f # Broken /\ (AssertLoginOK(f) <=> v = "yes")
<1>1. \/ v = "yes" /\ f = Frame("", TRUE, 0)
      \/ v = "no" /\ f = Frame("", FALSE, 0)
      \/ v = "no" /\ f = Frame("garbled", FALSE, 0)
  BY DEF LoginAnswers, Garbled
<1>2. ASSUME NEW s \in {"", "garbled"}, NEW b \in BOOLEAN, f = Frame(s, b, 0)
      PROVE  f \in Frames /\ f # Broken /\ f.status = s /\ f.ok = b
  <2>1. f \in Frames /\ f.status = s /\ f.ok = b
    BY <1>2 DEF Frame, Frames
  <2>2. Broken.status = "broken"
    BY DEF Broken, Frame
  <2>3. QED
    BY <2>1, <2>2
<1>3. QED
  BY <1>1, <1>2 DEF AssertLoginOK

-----------------------------------------------------------------------------
(* Types of the registration *)

DialTypes ==
  /\ transport \in Transports /\ ctxDone \in BOOLEAN /\ touched \in BOOLEAN
  /\ dial \in {"start", "stream", "select", "defer", "ok", "failed"}
  /\ holder \in {"free", "dial", "other"}
  /\ connector \in {"none", "ready", "busy", "ok", "err"}
HelperType ==
  helper \in [op : {"send", "recv"}, st : {"none", "ready", "busy", "lost", "ended"}, got : Frames]
CallerTypes ==
  /\ doLogin \in BOOLEAN /\ connClosed \in BOOLEAN
  /\ step \in {"dial", "send", "recv", "done"} /\ round \in {"register", "login"}
  /\ nodeID \in NodeIDs \cup {0} /\ outcome \in Outcomes
ParentTypes ==
  /\ inbox \in Seq(Frames) /\ lost \in BOOLEAN /\ verdict \in Outcomes
  /\ asked \in 0..2 /\ loginOK \in {"none", "yes", "no"} /\ notices \in 0..MaxNotices

\* Each round sends one request, also when the caller has left the helper.
AskedOnce ==
  /\ step = "dial" => asked = 0 /\ round = "register" /\ helper.st = "none"
  /\ round = "register" => asked <= 1
  /\ helper.op = "send" /\ helper.st \in {"ready", "busy"} =>
        asked <= 1 /\ (round = "register" => asked = 0)

RegTypes == DialTypes /\ HelperType /\ CallerTypes /\ ParentTypes /\ AskedOnce

LEMMA InitRegTypes == RegInit => RegTypes
<1> SUFFICES ASSUME RegInit PROVE RegTypes
  OBVIOUS
<1>1. HelperType /\ helper.st = "none"
  BY FramesTyped DEF RegInit, Helper, HelperType
<1>2. DialTypes
  BY DEF RegInit, DialInit, DialTypes
<1>3. asked = 0 /\ round = "register" /\ step = "dial"
  BY DEF RegInit
<1>4. inbox = <<>> /\ outcome = Open /\ verdict = Open /\ Open \in Outcomes
  BY FramesTyped DEF RegInit
<1>5. CallerTypes
  BY <1>4 DEF RegInit, CallerTypes
<1>6. ParentTypes
  <2>1. inbox \in Seq(Frames)
    BY <1>4
  <2>2. lost \in BOOLEAN /\ loginOK = "none" /\ notices = 0 /\ MaxNotices \in Nat
    BY RegisterAssumption DEF RegInit
  <2>3. QED
    BY <1>3, <1>4, <2>1, <2>2 DEF ParentTypes
<1>7. AskedOnce
  BY <1>1, <1>3 DEF AskedOnce
<1>8. QED
  BY <1>1, <1>2, <1>5, <1>6, <1>7 DEF RegTypes

\* The dial's own steps, the context and the other sockets of the process.
LEMMA DialTyped ==
  ASSUME DialTypes, CtxEnds \/ Reused \/ DialNext \/ ConnectorNext
  PROVE  DialTypes'
<1>1. CASE CtxEnds \/ Reused
  BY <1>1 DEF DialTypes, CtxEnds, Reused
<1>2. CASE TcpDial \/ AndroidDial \/ QuicDial \/ OpenStream
  BY <1>2 DEF DialTypes, TcpDial, AndroidDial, QuicDial, Returns, Goes, OpenStream
<1>3. CASE OpenSocket \/ SelectOk
  BY <1>3 DEF DialTypes, OpenSocket, Goes, SelectOk
<1>4. CASE SelectCtx \/ DeferredClose \/ SelectErr
  BY <1>4 DEF DialTypes, SelectCtx, DeferredClose, SelectErr, Goes, CloseNumber
<1>5. CASE ConnectReturns
  BY <1>5 DEF DialTypes, ConnectReturns
<1>6. CASE CallConnect
  BY <1>6 DEF DialTypes, CallConnect
<1>7. QED
  BY <1>1, <1>2, <1>3, <1>4, <1>5, <1>6 DEF DialNext, ConnectorNext

\* A call of the helper ends with what it got.
LEMMA EndsTyped ==
  ASSUME RegTypes, NEW got \in Frames, Ends(got)
  PROVE  /\ DialTypes' /\ HelperType' /\ CallerTypes'
         /\ helper'.st = "ended" /\ helper'.got = got /\ helper'.op = helper.op
         /\ UNCHANGED <<transport, ctxDone, dial, connector, doLogin, step, round, nodeID, outcome,
                        connClosed>>
<1>1. UNCHANGED <<transport, ctxDone, dial, connector, doLogin, step, round, nodeID, outcome, connClosed>>
  BY DEF Ends, caller
<1>2. /\ HelperType' /\ helper'.st = "ended" /\ helper'.got = got /\ helper'.op = helper.op
  BY DEF RegTypes, HelperType, Ends
<1>3. holder' \in {"free", "dial", "other"} /\ touched' \in BOOLEAN
  BY DEF RegTypes, DialTypes, Ends
<1>4. DialTypes'
  BY <1>1, <1>3 DEF RegTypes, DialTypes
<1>5. CallerTypes'
  BY <1>1 DEF RegTypes, CallerTypes
<1>6. QED
  BY <1>1, <1>2, <1>4, <1>5

\* The caller returns r and closes the connection.
LEMMA ReturnTyped ==
  ASSUME RegTypes, NEW r \in Outcomes, Return(r)
  PROVE  /\ RegTypes' /\ step' = "done" /\ outcome' = r /\ connClosed' = TRUE
         /\ UNCHANGED <<transport, ctxDone, dial, connector, doLogin, round, nodeID, helper, parent>>
<1>1. /\ step' = "done" /\ outcome' = r /\ connClosed' = TRUE
      /\ UNCHANGED <<transport, ctxDone, dial, connector, doLogin, round, nodeID, helper, parent>>
  BY DEF Return, CloseConn
<1>2. holder' \in {"free", "dial", "other"} /\ touched' \in BOOLEAN
  BY DEF RegTypes, DialTypes, Return, CloseConn, CloseNumber
<1>3. DialTypes'
  BY <1>1, <1>2 DEF RegTypes, DialTypes
<1>4. HelperType' /\ CallerTypes' /\ ParentTypes'
  BY <1>1 DEF RegTypes, HelperType, CallerTypes, ParentTypes, parent
<1>5. AskedOnce'
  BY <1>1 DEF RegTypes, AskedOnce, parent
<1>6. QED
  BY <1>1, <1>3, <1>4, <1>5 DEF RegTypes

\* To the next send or read, with a new helper.
LEMMA ProceedTyped ==
  ASSUME RegTypes, NEW s \in {"send", "recv"}, NEW r \in {"register", "login"},
         NEW n \in NodeIDs \cup {0}, Proceed(s, r, n)
  PROVE  /\ DialTypes' /\ HelperType' /\ CallerTypes' /\ ParentTypes'
         /\ helper'.op = s /\ helper'.st = "ready" /\ step' = s /\ round' = r /\ nodeID' = n
         /\ UNCHANGED <<dialVars, doLogin, outcome, connClosed, parent>>
<1>1. /\ step' = s /\ round' = r /\ nodeID' = n /\ helper' = Helper(s, "ready")
      /\ UNCHANGED <<dialVars, doLogin, outcome, connClosed, parent>>
  BY DEF Proceed
<1>2. HelperType' /\ helper'.op = s /\ helper'.st = "ready"
  BY <1>1, FramesTyped DEF HelperType, Helper
<1>3. DialTypes' /\ ParentTypes'
  BY <1>1 DEF RegTypes, DialTypes, ParentTypes, dialVars, parent
<1>4. CallerTypes'
  BY <1>1 DEF RegTypes, CallerTypes
<1>5. QED
  BY <1>1, <1>2, <1>3, <1>4

LEMMA ParseTyped ==
  ASSUME NEW f \in Frames
  PROVE  ParseRegisterResp(f) \in Outcomes /\ ParseRegisterResp(f).node \in NodeIDs \cup {0}
<1>1. ASSUME NEW e \in {"pending", "rejected", "failed"}, ParseRegisterResp(f) = Failed(e)
      PROVE  ParseRegisterResp(f) \in Outcomes
  BY <1>1 DEF Failed, Outcomes
<1>2. ASSUME ParseRegisterResp(f) = Granted(f.node) PROVE ParseRegisterResp(f) \in Outcomes
  <2>1. f.node \in NodeIDs \cup {0}
    BY DEF Frames
  <2>2. QED
    BY <1>2, <2>1 DEF Granted, Outcomes
<1>3. \/ \E e \in {"pending", "rejected", "failed"} : ParseRegisterResp(f) = Failed(e)
      \/ ParseRegisterResp(f) = Granted(f.node)
  BY DEF ParseRegisterResp
<1>4. ParseRegisterResp(f) \in Outcomes
  BY <1>1, <1>2, <1>3
<1>5. QED
  BY <1>4 DEF Outcomes

LEMMA AnswersArePairs ==
  \A a \in RegisterAnswers \cup LoginAnswers : a = <<a[1], a[2]>>
<1>1. \A a \in RegisterAnswers : \E v, f : a = <<v, f>>
  BY DEF RegisterAnswers
<1>2. \A a \in LoginAnswers : \E v, f : a = <<v, f>>
  BY DEF LoginAnswers
<1>3. \A v, f : <<v, f>>[1] = v /\ <<v, f>>[2] = f
  OBVIOUS
<1>4. QED
  BY <1>1, <1>2, <1>3

\* What the parent answers to the one and to the other request.
LEMMA ParentSteps ==
  ASSUME ParentAnswers
  PROVE  /\ ~lost /\ UNCHANGED <<dialVars, caller, helper, connClosed, lost, asked, notices>>
         /\ \/ /\ asked = 1 /\ verdict = Open /\ UNCHANGED loginOK
               /\ \E f \in Frames : <<verdict', f>> \in RegisterAnswers /\ inbox' = Append(inbox, f)
            \/ /\ asked = 2 /\ loginOK = "none" /\ UNCHANGED verdict
               /\ \E f \in Frames : <<loginOK', f>> \in LoginAnswers /\ inbox' = Append(inbox, f)
<1>1. ~lost /\ UNCHANGED <<dialVars, caller, helper, connClosed, lost, asked, notices>>
  BY DEF ParentAnswers
<1>2. ASSUME NEW a \in RegisterAnswers, verdict' = a[1], inbox' = Append(inbox, a[2])
      PROVE  \E f \in Frames : <<verdict', f>> \in RegisterAnswers /\ inbox' = Append(inbox, f)
  <2>1. <<a[1], a[2]>> \in RegisterAnswers
    BY AnswersArePairs
  <2>2. a[2] \in Frames
    BY <2>1, AnswersParsed
  <2>3. QED
    BY <1>2, <2>1, <2>2
<1>3. ASSUME NEW a \in LoginAnswers, loginOK' = a[1], inbox' = Append(inbox, a[2])
      PROVE  \E f \in Frames : <<loginOK', f>> \in LoginAnswers /\ inbox' = Append(inbox, f)
  <2>1. <<a[1], a[2]>> \in LoginAnswers
    BY AnswersArePairs
  <2>2. a[2] \in Frames
    BY <2>1, LoginsAsserted
  <2>3. QED
    BY <1>3, <2>1, <2>2
<1>4. \/ /\ asked = 1 /\ verdict = Open /\ UNCHANGED loginOK
         /\ \E a \in RegisterAnswers : verdict' = a[1] /\ inbox' = Append(inbox, a[2])
      \/ /\ asked = 2 /\ loginOK = "none" /\ UNCHANGED verdict
         /\ \E a \in LoginAnswers : loginOK' = a[1] /\ inbox' = Append(inbox, a[2])
  BY DEF ParentAnswers
<1>5. QED
  BY <1>1, <1>2, <1>3, <1>4

LEMMA NextRegTypes == RegTypes /\ [RegNext]_regVars => RegTypes'
<1> SUFFICES ASSUME RegTypes, [RegNext]_regVars PROVE RegTypes'
  OBVIOUS
<1>1. CASE (CtxEnds \/ Reused \/ DialNext \/ ConnectorNext) /\ UNCHANGED session
  <2>1. DialTypes'
    BY <1>1, DialTyped DEF RegTypes
  <2>2. HelperType' /\ CallerTypes' /\ ParentTypes' /\ AskedOnce'
    BY <1>1 DEF RegTypes, HelperType, CallerTypes, ParentTypes, AskedOnce, session, caller, parent
  <2>3. QED
    BY <2>1, <2>2 DEF RegTypes
<1>2. CASE helper.st = "ready" /\ helper' = [helper EXCEPT !.st = "busy"]
           /\ UNCHANGED <<dialVars, caller, connClosed, parent>>
  <2>1. HelperType' /\ helper'.st = "busy" /\ helper'.op = helper.op
    BY <1>2 DEF RegTypes, HelperType
  <2>2. DialTypes' /\ CallerTypes' /\ ParentTypes'
    BY <1>2 DEF RegTypes, DialTypes, CallerTypes, ParentTypes, dialVars, caller, parent
  <2>3. AskedOnce'
    BY <1>2, <2>1 DEF RegTypes, AskedOnce, caller, parent
  <2>4. QED
    BY <2>1, <2>2, <2>3 DEF RegTypes
<1>3. CASE helper.st \in {"ready", "busy"} /\ Strays
  <2>1. /\ HelperType' /\ helper'.st = "lost" /\ touched' = TRUE
        /\ UNCHANGED <<transport, ctxDone, dial, holder, connector, caller, connClosed, parent>>
    BY <1>3 DEF RegTypes, HelperType, Strays
  <2>2. DialTypes' /\ CallerTypes' /\ ParentTypes'
    BY <2>1 DEF RegTypes, DialTypes, CallerTypes, ParentTypes, caller, parent
  <2>3. AskedOnce'
    <3>1. step # "dial"
      BY <1>3 DEF RegTypes, AskedOnce
    <3>2. QED
      BY <2>1, <3>1 DEF RegTypes, AskedOnce, caller, parent
  <2>4. QED
    BY <2>1, <2>2, <2>3 DEF RegTypes
<1>4. ASSUME Ends(Broken), helper.st \in {"ready", "busy", "lost"}, UNCHANGED parent PROVE RegTypes'
  <2>1. /\ DialTypes' /\ HelperType' /\ CallerTypes' /\ helper'.st = "ended" /\ UNCHANGED <<step, round>>
    BY <1>4, EndsTyped, FramesTyped
  <2>2. ParentTypes'
    BY <1>4 DEF RegTypes, ParentTypes, parent
  <2>3. AskedOnce'
    BY <1>4, <2>1 DEF RegTypes, AskedOnce, parent
  <2>4. QED
    BY <2>1, <2>2, <2>3 DEF RegTypes
<1>5. CASE HelperStarts \/ HelperFails \/ HelperGoesOn \/ StrayEnds
  BY <1>2, <1>3, <1>4, <1>5 DEF HelperStarts, HelperFails, HelperGoesOn, StrayEnds
<1>6. CASE HelperSends
  <2>1. /\ helper.st = "busy" /\ helper.op = "send" /\ Ends(Sent) /\ asked' = asked + 1
        /\ UNCHANGED <<inbox, lost, verdict, loginOK, notices>>
    BY <1>6 DEF HelperSends
  <2>2. /\ DialTypes' /\ HelperType' /\ CallerTypes' /\ helper'.st = "ended" /\ UNCHANGED <<step, round>>
    BY <2>1, EndsTyped, FramesTyped
  <2>3. asked \in 0..1 /\ (round = "register" => asked = 0) /\ step # "dial"
    BY <2>1 DEF RegTypes, AskedOnce, ParentTypes
  <2>4. ParentTypes'
    BY <2>1, <2>3 DEF RegTypes, ParentTypes
  <2>5. AskedOnce'
    BY <2>1, <2>2, <2>3 DEF AskedOnce
  <2>6. QED
    BY <2>2, <2>4, <2>5 DEF RegTypes
<1>7. CASE HelperReads
  <2>1. /\ helper.st = "busy" /\ inbox # <<>> /\ Ends(Head(inbox)) /\ inbox' = Tail(inbox)
        /\ UNCHANGED <<lost, asked, verdict, loginOK, notices>>
    BY <1>7 DEF HelperReads
  <2>2. inbox \in Seq(Frames)
    BY DEF RegTypes, ParentTypes
  <2>3. Head(inbox) \in Frames /\ Tail(inbox) \in Seq(Frames)
    BY <2>1, <2>2
  <2>4. /\ DialTypes' /\ HelperType' /\ CallerTypes' /\ helper'.st = "ended" /\ UNCHANGED <<step, round>>
    BY <2>1, <2>3, EndsTyped
  <2>5. ParentTypes'
    BY <2>1, <2>3 DEF RegTypes, ParentTypes
  <2>6. AskedOnce'
    BY <2>1, <2>4 DEF RegTypes, AskedOnce
  <2>7. QED
    BY <2>4, <2>5, <2>6 DEF RegTypes
<1>8. ASSUME NEW s \in {"send", "recv"}, NEW r \in {"register", "login"},
             NEW n \in NodeIDs \cup {0}, Proceed(s, r, n), s = "send" => asked <= 1,
             r = "register" => round = "register", s = "send" /\ r = "register" => asked = 0
      PROVE  RegTypes'
  <2>1. /\ DialTypes' /\ HelperType' /\ CallerTypes' /\ ParentTypes'
        /\ helper'.op = s /\ helper'.st = "ready" /\ step' = s /\ round' = r /\ UNCHANGED parent
    BY <1>8, ProceedTyped
  <2>2. AskedOnce'
    BY <1>8, <2>1 DEF RegTypes, AskedOnce, parent
  <2>3. QED
    BY <2>1, <2>2 DEF RegTypes
<1>9. Failed("failed") \in Outcomes
  BY FramesTyped
<1>10. CASE DialDone
  <2>1. step = "dial" /\ asked = 0 /\ round = "register"
    BY <1>10 DEF DialDone, RegTypes, AskedOnce
  <2>2. CASE Proceed("send", "register", 0)
    BY <1>8, <2>1, <2>2
  <2>3. CASE /\ step' = "done" /\ outcome' = Failed("failed")
             /\ UNCHANGED <<dialVars, doLogin, round, nodeID, helper, connClosed, parent>>
    <3>1. DialTypes' /\ HelperType' /\ ParentTypes'
      BY <2>3 DEF RegTypes, DialTypes, HelperType, ParentTypes, dialVars, parent
    <3>2. CallerTypes'
      BY <1>9, <2>3 DEF RegTypes, CallerTypes
    <3>3. AskedOnce'
      BY <2>3 DEF RegTypes, AskedOnce, parent
    <3>4. QED
      BY <3>1, <3>2, <3>3 DEF RegTypes
  <2>4. QED
    BY <1>10, <2>2, <2>3 DEF DialDone
<1>11. CASE SendDone
  <2>1. nodeID \in NodeIDs \cup {0} /\ round \in {"register", "login"}
    BY DEF RegTypes, CallerTypes
  <2>2. Proceed("recv", round, nodeID) \/ Return(Failed("failed"))
    BY <1>11 DEF SendDone
  <2>3. QED
    BY <1>8, <1>9, <2>1, <2>2, ReturnTyped
<1>12. CASE RecvDone
  <2> DEFINE f == helper.got
             r == ParseRegisterResp(f)
  <2>1. f \in Frames /\ nodeID \in NodeIDs \cup {0}
    BY DEF RegTypes, HelperType, CallerTypes
  <2>2. r \in Outcomes /\ r.node \in NodeIDs \cup {0}
    BY <2>1, ParseTyped
  <2>3. Granted(nodeID) \in Outcomes
    BY <2>1 DEF Granted, Outcomes
  <2>4. \/ \E o \in {Failed("failed"), Granted(nodeID), r} : Return(o)
        \/ round = "register" /\ Proceed("send", "login", r.node)
    BY <1>12 DEF RecvDone, RegTypes, CallerTypes
  <2>5. round = "register" => asked <= 1
    BY DEF RegTypes, AskedOnce
  <2> HIDE DEF r
  <2>6. QED
    BY <1>8, <1>9, <2>2, <2>3, <2>4, <2>5, ReturnTyped
<1>13. CASE CtxCase
  BY <1>9, <1>13, ReturnTyped DEF CtxCase
<1>14. CASE ParentAnswers
  <2>1. UNCHANGED <<dialVars, caller, helper, connClosed, lost, asked, notices>>
    BY <1>14, ParentSteps
  <2>2. inbox \in Seq(Frames)
    BY DEF RegTypes, ParentTypes
  <2>3. inbox' \in Seq(Frames)
    <3>1. \E f \in Frames : inbox' = Append(inbox, f)
      BY <1>14, ParentSteps
    <3>2. QED
      BY <2>2, <3>1
  <2>4. verdict' \in Outcomes /\ loginOK' \in {"none", "yes", "no"}
    BY <1>14, ParentSteps, AnswersParsed, LoginsAsserted DEF RegTypes, ParentTypes
  <2>5. DialTypes' /\ HelperType' /\ CallerTypes' /\ AskedOnce'
    BY <2>1 DEF RegTypes, DialTypes, HelperType, CallerTypes, AskedOnce, dialVars, caller
  <2>6. ParentTypes'
    BY <2>1, <2>3, <2>4 DEF RegTypes, ParentTypes
  <2>7. QED
    BY <2>5, <2>6 DEF RegTypes
<1>15. CASE Notice
  <2>1. /\ UNCHANGED <<dialVars, caller, helper, connClosed, lost, asked, verdict, loginOK>>
        /\ notices < MaxNotices /\ notices' = notices + 1
    BY <1>15 DEF Notice
  <2>2. \E f \in Frames : inbox' = Append(inbox, f)
    BY <1>15, FramesTyped DEF Notice
  <2>3. inbox \in Seq(Frames)
    BY DEF RegTypes, ParentTypes
  <2>4. inbox' \in Seq(Frames)
    BY <2>2, <2>3
  <2>5. DialTypes' /\ HelperType' /\ CallerTypes' /\ AskedOnce'
    BY <2>1 DEF RegTypes, DialTypes, HelperType, CallerTypes, AskedOnce, dialVars, caller
  <2>6. ParentTypes'
    BY <2>1, <2>4, RegisterAssumption DEF RegTypes, ParentTypes
  <2>7. QED
    BY <2>5, <2>6 DEF RegTypes
<1>16. CASE Lose
  <2>1. /\ UNCHANGED <<dialVars, caller, helper, connClosed, inbox, asked, verdict, loginOK, notices>>
        /\ lost' = TRUE
    BY <1>16 DEF Lose
  <2>2. DialTypes' /\ HelperType' /\ CallerTypes' /\ AskedOnce'
    BY <2>1 DEF RegTypes, DialTypes, HelperType, CallerTypes, AskedOnce, dialVars, caller
  <2>3. ParentTypes'
    BY <2>1 DEF RegTypes, ParentTypes
  <2>4. QED
    BY <2>2, <2>3 DEF RegTypes
<1>17. CASE UNCHANGED regVars
  BY <1>17 DEF RegTypes, DialTypes, HelperType, CallerTypes, ParentTypes, AskedOnce,
     regVars, dialVars, caller, parent
<1>18. QED
  BY <1>1, <1>5, <1>6, <1>7, <1>10, <1>11, <1>12, <1>13, <1>14, <1>15, <1>16, <1>17
     DEF RegNext, CallerNext

\* Every variable of a registration stays in its type; in particular the
\* parent never receives more than the two requests, whatever it sends and
\* whenever the caller leaves a helper behind.
THEOREM RegTypeCorrect == RegSpec => []RegTypeOK
<1>1. RegTypes => RegTypeOK
  BY DEF RegTypes, DialTypes, HelperType, CallerTypes, ParentTypes, RegTypeOK, Outcomes
<1>2. QED
  BY <1>1, InitRegTypes, NextRegTypes, PTL DEF RegSpec

-----------------------------------------------------------------------------
(* The socket *)

\* The caller closes the connection as its last step, and what it sends and
\* reads goes over a dialled one; a call strays only after the close.
InTurn ==
  /\ connClosed => step = "done"
  /\ step \in {"send", "recv"} => dial = "ok"
  /\ step # "dial" => dial \in {"ok", "failed"}
  /\ helper.st = "lost" => connClosed

\* Until the context ends, the number is ours from Connect to Close, and
\* nobody is left behind on the way to a system call.
OursUntilCancel ==
  ~ctxDone =>
     /\ ~touched /\ dial # "defer"
     /\ dial \in {"stream", "select"} \/ (dial = "ok" /\ ~connClosed) => holder = "dial"
     /\ connector \in {"ready", "busy"} => dial = "select"
     /\ connClosed => helper.st = "ended"

SocketInv == InTurn /\ OursUntilCancel

LEMMA InitSocket == RegInit => SocketInv
  BY DEF RegInit, DialInit, Helper, SocketInv, InTurn, OursUntilCancel

LEMMA DialSocket ==
  ASSUME RegTypes, SocketInv, CtxEnds \/ Reused \/ DialNext \/ ConnectorNext, UNCHANGED session
  PROVE  SocketInv'
<1>1. UNCHANGED <<step, connClosed, helper>>
  BY DEF session, caller
<1>2. CASE CtxEnds
  BY <1>1, <1>2 DEF CtxEnds, SocketInv, InTurn, OursUntilCancel
<1>3. CASE Reused
  BY <1>1, <1>3 DEF Reused, SocketInv, InTurn, OursUntilCancel
<1>4. CASE TcpDial \/ AndroidDial \/ QuicDial \/ OpenStream
  BY <1>1, <1>4 DEF TcpDial, AndroidDial, QuicDial, Returns, Goes, OpenStream, SocketInv, InTurn,
     OursUntilCancel
<1>5. CASE OpenSocket \/ SelectOk
  BY <1>1, <1>5 DEF OpenSocket, Goes, SelectOk, SocketInv, InTurn, OursUntilCancel
<1>6. CASE SelectCtx \/ DeferredClose \/ SelectErr
  <2>1. /\ dial \in {"select", "defer"} /\ dial' \in {"defer", "failed"} /\ UNCHANGED <<ctxDone, connector>>
        /\ touched' = (touched \/ holder = "other")
        /\ ~ctxDone => dial' = "failed" /\ (connector = "err" \/ dial = "defer")
    BY <1>6 DEF SelectCtx, DeferredClose, SelectErr, Goes, CloseNumber
  <2>2. InTurn'
    BY <1>1, <2>1 DEF SocketInv, InTurn
  <2>3. OursUntilCancel'
    BY <1>1, <2>1 DEF SocketInv, OursUntilCancel
  <2>4. QED
    BY <2>2, <2>3 DEF SocketInv
<1>7. CASE ConnectReturns
  BY <1>1, <1>7 DEF ConnectReturns, SocketInv, InTurn, OursUntilCancel
<1>8. CASE CallConnect
  <2>1. /\ connector = "ready" /\ UNCHANGED <<ctxDone, dial, holder>>
        /\ touched' = (touched \/ holder = "other")
        /\ (holder = "dial" => connector' = "busy")
    BY <1>8 DEF CallConnect
  <2>2. QED
    BY <1>1, <2>1 DEF SocketInv, InTurn, OursUntilCancel
<1>9. QED
  BY <1>2, <1>3, <1>4, <1>5, <1>6, <1>7, <1>8 DEF DialNext, ConnectorNext

LEMMA EndsSocket ==
  ASSUME RegTypes, SocketInv, NEW got \in Frames, Ends(got), helper.st # "ended"
  PROVE  SocketInv'
<1>1. /\ helper'.st = "ended" /\ UNCHANGED <<ctxDone, dial, connector, step, connClosed>>
  BY EndsTyped
<1>2. InTurn'
  BY <1>1 DEF SocketInv, InTurn
<1>3. ~ctxDone => ~connClosed
  BY DEF SocketInv, OursUntilCancel
<1>4. ~connClosed => UNCHANGED <<touched, holder>>
  BY DEF Ends, RegTypes, DialTypes, CallerTypes
<1>5. OursUntilCancel'
  BY <1>1, <1>3, <1>4 DEF SocketInv, OursUntilCancel
<1>6. QED
  BY <1>2, <1>5 DEF SocketInv

LEMMA ReturnSocket ==
  ASSUME RegTypes, SocketInv, NEW r \in Outcomes, Return(r), step \in {"send", "recv"},
         helper.st = "ended" \/ ctxDone
  PROVE  SocketInv'
<1>1. /\ step' = "done" /\ connClosed' = TRUE /\ UNCHANGED <<ctxDone, dial, connector, helper>>
  BY ReturnTyped
<1>2. dial = "ok" /\ ~connClosed
  BY DEF SocketInv, InTurn
<1>3. InTurn'
  BY <1>1, <1>2 DEF InTurn
<1>4. ~ctxDone => ~touched' 
  <2>1. ~ctxDone => holder = "dial" /\ ~touched
    BY <1>2 DEF SocketInv, OursUntilCancel
  <2>2. QED
    BY <2>1 DEF Return, CloseConn, CloseNumber
<1>5. OursUntilCancel'
  BY <1>1, <1>2, <1>4 DEF SocketInv, OursUntilCancel
<1>6. QED
  BY <1>3, <1>5 DEF SocketInv

LEMMA ProceedSocket ==
  ASSUME RegTypes, SocketInv, NEW s \in {"send", "recv"}, NEW r \in {"register", "login"},
         NEW n \in NodeIDs \cup {0}, Proceed(s, r, n), step # "done", dial = "ok"
  PROVE  SocketInv'
<1>1. step' = s /\ helper'.st = "ready"
      /\ UNCHANGED <<ctxDone, dial, holder, connector, touched, connClosed>>
  BY ProceedTyped DEF dialVars
<1>2. ~connClosed
  BY DEF SocketInv, InTurn
<1>3. QED
  BY <1>1, <1>2 DEF SocketInv, InTurn, OursUntilCancel

LEMMA NextSocket == RegTypes /\ SocketInv /\ [RegNext]_regVars => SocketInv'
<1> SUFFICES ASSUME RegTypes, SocketInv, [RegNext]_regVars PROVE SocketInv'
  OBVIOUS
<1>0. Failed("failed") \in Outcomes /\ Broken \in Frames /\ Sent \in Frames
  BY FramesTyped
<1>1. CASE (CtxEnds \/ Reused \/ DialNext \/ ConnectorNext) /\ UNCHANGED session
  BY <1>1, DialSocket
<1>2. CASE HelperStarts \/ HelperFails \/ HelperGoesOn \/ StrayEnds
  <2>1. CASE Ends(Broken) /\ helper.st # "ended"
    BY <1>0, <2>1, EndsSocket
  <2>2. CASE helper.st = "ready" /\ ~connClosed /\ helper' = [helper EXCEPT !.st = "busy"]
             /\ UNCHANGED <<dialVars, caller, connClosed, parent>>
    <3>1. helper'.st = "busy"
      BY <2>2 DEF RegTypes, HelperType
    <3>2. QED
      BY <2>2, <3>1 DEF dialVars, caller, SocketInv, InTurn, OursUntilCancel
  <2>3. CASE helper.st \in {"ready", "busy"} /\ Strays
    <3>1. /\ helper'.st = "lost" /\ connClosed
          /\ UNCHANGED <<ctxDone, dial, step, connClosed>>
      BY <2>3 DEF RegTypes, HelperType, Strays, OnStrangers, caller
    <3>2. ctxDone
      BY <2>3, <3>1 DEF SocketInv, OursUntilCancel
    <3>3. QED
      BY <3>1, <3>2 DEF SocketInv, InTurn, OursUntilCancel
  <2>4. QED
    BY <1>2, <2>1, <2>2, <2>3 DEF HelperStarts, HelperFails, HelperGoesOn, StrayEnds
<1>3. CASE HelperSends
  BY <1>0, <1>3, EndsSocket DEF HelperSends
<1>4. CASE HelperReads
  <2>1. inbox \in Seq(Frames) /\ inbox # <<>>
    BY <1>4 DEF HelperReads, RegTypes, ParentTypes
  <2>2. Head(inbox) \in Frames
    BY <2>1
  <2>3. QED
    BY <1>4, <2>2, EndsSocket DEF HelperReads
<1>5. CASE DialDone
  <2>1. CASE dial = "ok" /\ Proceed("send", "register", 0)
    BY <1>5, <2>1, ProceedSocket DEF DialDone
  <2>2. CASE /\ dial = "failed" /\ step' = "done"
             /\ UNCHANGED <<dialVars, doLogin, round, nodeID, helper, connClosed, parent>>
    BY <2>2 DEF dialVars, SocketInv, InTurn, OursUntilCancel
  <2>3. QED
    BY <1>5, <2>1, <2>2 DEF DialDone
<1>6. CASE SendDone
  <2>1. nodeID \in NodeIDs \cup {0} /\ round \in {"register", "login"}
    BY DEF RegTypes, CallerTypes
  <2>2. /\ step = "send" /\ helper.st = "ended"
        /\ Proceed("recv", round, nodeID) \/ Return(Failed("failed"))
    BY <1>6 DEF SendDone
  <2>3. dial = "ok"
    BY <2>2 DEF SocketInv, InTurn
  <2>4. QED
    BY <1>0, <2>1, <2>2, <2>3, ReturnSocket, ProceedSocket
<1>7. CASE RecvDone
  <2> DEFINE f == helper.got
             r == ParseRegisterResp(f)
  <2>1. f \in Frames /\ nodeID \in NodeIDs \cup {0}
    BY DEF RegTypes, HelperType, CallerTypes
  <2>2. r \in Outcomes /\ r.node \in NodeIDs \cup {0}
    BY <2>1, ParseTyped
  <2>3. Granted(nodeID) \in Outcomes
    BY <2>1 DEF Granted, Outcomes
  <2>4. /\ step = "recv" /\ helper.st = "ended"
        /\ \/ \E o \in {Failed("failed"), Granted(nodeID), r} : Return(o)
           \/ Proceed("send", "login", r.node)
    BY <1>7 DEF RecvDone
  <2>5. dial = "ok"
    BY <2>4 DEF SocketInv, InTurn
  <2> HIDE DEF r
  <2>6. QED
    BY <1>0, <2>2, <2>3, <2>4, <2>5, ReturnSocket, ProceedSocket
<1>8. CASE CtxCase
  BY <1>0, <1>8, ReturnSocket DEF CtxCase
<1>9. CASE UNCHANGED <<dialVars, caller, helper, connClosed>>
  BY <1>9 DEF dialVars, caller, SocketInv, InTurn, OursUntilCancel
<1>10. QED
  BY <1>1, <1>2, <1>3, <1>4, <1>5, <1>6, <1>7, <1>8, <1>9
     DEF RegNext, CallerNext, ParentAnswers, Notice, Lose, regVars

\* Over every transport, a call of the dial or of the connection it returned
\* reaches a socket of somebody else only after the context has ended: a dial
\* that fails or succeeds by itself closes its socket at most once.
THEOREM OthersOnlyAfterCancel == RegSpec => []ForeignOnlyAfterCancel
<1>1. SocketInv => ForeignOnlyAfterCancel
  BY DEF SocketInv, OursUntilCancel, ForeignOnlyAfterCancel
<1>2. RegTypes /\ SocketInv /\ [RegNext]_regVars => (RegTypes /\ SocketInv)'
  BY NextRegTypes, NextSocket
<1>3. QED
  BY <1>1, <1>2, InitRegTypes, InitSocket, PTL DEF RegSpec

-----------------------------------------------------------------------------
(* The release of the socket *)

\* A dial has no socket before it starts and after it failed; a connection that
\* was closed keeps it for a call in progress only; who returned did either.
Released ==
  /\ dial \in {"start", "defer", "failed"} => holder # "dial"
  /\ connClosed => holder # "dial" \/ HeldByCall
  /\ step = "done" => connClosed \/ dial = "failed"
  /\ step = "dial" => ~connClosed

LEMMA DialReleased ==
  ASSUME RegTypes, SocketInv, Released, CtxEnds \/ Reused \/ DialNext \/ ConnectorNext,
         UNCHANGED session
  PROVE  Released'
<1>1. UNCHANGED <<step, connClosed, helper>>
  BY DEF session, caller
<1> USE <1>1 DEF Released, HeldByCall, SocketInv, InTurn
<1>2. CASE CtxEnds \/ Reused
  BY <1>2 DEF CtxEnds, Reused
<1>3. CASE TcpDial \/ AndroidDial \/ QuicDial \/ OpenStream
  BY <1>3 DEF TcpDial, AndroidDial, QuicDial, Returns, Goes, OpenStream
<1>4. CASE OpenSocket \/ SelectOk
  BY <1>4 DEF OpenSocket, Goes, SelectOk
<1>5. CASE SelectCtx \/ DeferredClose \/ SelectErr
  BY <1>5 DEF SelectCtx, DeferredClose, SelectErr, Goes, CloseNumber
<1>6. CASE CallConnect \/ ConnectReturns
  BY <1>6 DEF CallConnect, ConnectReturns
<1>7. QED
  BY <1>2, <1>3, <1>4, <1>5, <1>6 DEF DialNext, ConnectorNext

LEMMA EndsReleases ==
  ASSUME Released, NEW got, Ends(got)
  PROVE  Released'
<1>1. UNCHANGED <<transport, dial, step, connClosed>>
  BY DEF Ends, caller
<1>2. holder' = IF HeldByCall /\ connClosed THEN "free" ELSE holder
  BY DEF Ends
<1>3. QED
  BY <1>1, <1>2 DEF Released

LEMMA ReturnReleases ==
  ASSUME SocketInv, Released, NEW r, Return(r), step \in {"send", "recv"}
  PROVE  Released'
<1>1. /\ step' = "done" /\ connClosed' = TRUE /\ UNCHANGED <<transport, dial, helper>>
      /\ dial = "ok" /\ ~connClosed
  BY DEF Return, CloseConn, SocketInv, InTurn
<1>2. holder' = "free" \/ HeldByCall
  BY <1>1 DEF Return, CloseConn, CloseNumber
<1>3. QED
  BY <1>1, <1>2 DEF Released, HeldByCall

LEMMA ProceedReleases ==
  ASSUME SocketInv, Released, NEW s \in {"send", "recv"}, NEW r, NEW n, Proceed(s, r, n),
         step # "done", dial = "ok"
  PROVE  Released'
<1>1. step' = s /\ UNCHANGED <<dial, holder, connClosed>> /\ ~connClosed
  BY DEF Proceed, dialVars, SocketInv, InTurn
<1>2. QED
  BY <1>1 DEF Released

LEMMA NextReleased == RegTypes /\ SocketInv /\ Released /\ [RegNext]_regVars => Released'
<1> SUFFICES ASSUME RegTypes, SocketInv, Released, [RegNext]_regVars PROVE Released'
  OBVIOUS
<1>1. CASE (CtxEnds \/ Reused \/ DialNext \/ ConnectorNext) /\ UNCHANGED session
  BY <1>1, DialReleased
<1>2. CASE HelperStarts \/ HelperGoesOn \/ StrayEnds
  <2>1. CASE ~connClosed /\ UNCHANGED <<dialVars, caller, connClosed, parent>>
    BY <2>1 DEF dialVars, caller, Released
  <2>2. CASE Ends(Broken)
    BY <2>2, EndsReleases
  <2>3. CASE Strays
    BY <2>3 DEF Strays, OnStrangers, caller, Released
  <2>4. QED
    BY <1>2, <2>1, <2>2, <2>3 DEF HelperStarts, HelperGoesOn, StrayEnds
<1>3. CASE HelperFails \/ HelperSends \/ HelperReads
  <2>1. \E got : Ends(got)
    BY <1>3 DEF HelperFails, HelperSends, HelperReads
  <2>2. QED
    BY <2>1, EndsReleases
<1>4. CASE DialDone
  <2>1. CASE dial = "ok" /\ Proceed("send", "register", 0)
    BY <1>4, <2>1, ProceedReleases DEF DialDone
  <2>2. CASE /\ dial = "failed" /\ step' = "done"
             /\ UNCHANGED <<dialVars, doLogin, round, nodeID, helper, connClosed, parent>>
    BY <1>4, <2>2 DEF dialVars, DialDone, Released, HeldByCall
  <2>3. QED
    BY <1>4, <2>1, <2>2 DEF DialDone
<1>5. CASE SendDone \/ RecvDone \/ CtxCase
  <2>1. step \in {"send", "recv"} /\ dial = "ok"
    BY <1>5 DEF SendDone, RecvDone, CtxCase, SocketInv, InTurn
  <2>2. \/ \E r : Return(r)
        \/ \E s \in {"send", "recv"} : \E r, n : Proceed(s, r, n)
    BY <1>5 DEF SendDone, RecvDone, CtxCase
  <2>3. QED
    BY <2>1, <2>2, ReturnReleases, ProceedReleases
<1>6. CASE UNCHANGED <<dialVars, caller, helper, connClosed>>
  BY <1>6 DEF dialVars, caller, Released, HeldByCall
<1>7. QED
  BY <1>1, <1>2, <1>3, <1>4, <1>5, <1>6
     DEF RegNext, CallerNext, ParentAnswers, Notice, Lose, regVars

\* Over every transport, when SelfRegister has returned its socket is closed, or
\* closed as soon as a call on a blocking descriptor ends: the safety half of
\* EndsReleased.
THEOREM ReturnsWithoutSocket == RegSpec => []ClosedAtReturn
<1>1. RegInit => Released
  BY DEF RegInit, DialInit, Released
<1>2. Released => ClosedAtReturn
  BY DEF Released, ClosedAtReturn
<1>3. RegTypes /\ SocketInv /\ Released /\ [RegNext]_regVars => (RegTypes /\ SocketInv /\ Released)'
  BY NextRegTypes, NextSocket, NextReleased
<1>4. QED
  BY <1>1, <1>2, <1>3, InitRegTypes, InitSocket, PTL DEF RegSpec

-----------------------------------------------------------------------------
(* The conversation, while no frame came that nobody asked for *)

\* Where the registration is: not yet with the parent; with it, or answered;
\* its answer f read.
Unsent == asked = 0 /\ verdict = Open /\ loginOK = "none" /\ inbox = <<>>
Registering ==
  /\ asked = 1 /\ loginOK = "none"
  /\ \/ verdict = Open /\ inbox = <<>>
     \/ \E f \in Frames : inbox = <<f>> /\ <<verdict, f>> \in RegisterAnswers
Registered(f) ==
  asked = 1 /\ loginOK = "none" /\ inbox = <<>> /\ <<verdict, f>> \in RegisterAnswers

\* Where the login is, after a registration that was granted.
LoginUnsent ==
  /\ asked = 1 /\ loginOK = "none" /\ inbox = <<>>
  /\ verdict = Granted(nodeID) /\ doLogin
LoggingIn ==
  /\ asked = 2 /\ verdict = Granted(nodeID) /\ doLogin
  /\ \/ loginOK = "none" /\ inbox = <<>>
     \/ \E f \in Frames : inbox = <<f>> /\ <<loginOK, f>> \in LoginAnswers
LoggedIn(f) ==
  asked = 2 /\ verdict = Granted(nodeID) /\ doLogin /\ <<loginOK, f>> \in LoginAnswers

Before == IF round = "register" THEN Unsent ELSE LoginUnsent
Out == IF round = "register" THEN Registering ELSE LoggingIn
Back(f) == IF round = "register" THEN Registered(f) ELSE LoggedIn(f)

\* What SelfRegister has returned.
Outcome ==
  \/ outcome = Failed("failed") /\ (ctxDone \/ lost)
  \/ verdict # Open /\ outcome = verdict /\ ~(doLogin /\ verdict.err = "none")
  \/ verdict # Open /\ doLogin /\ loginOK = "yes" /\ outcome = verdict
  \/ verdict # Open /\ doLogin /\ verdict.err = "none" /\ loginOK = "no" /\ outcome = Failed("failed")

Conversation ==
  /\ step = "dial" => Unsent
  /\ step = "send" => /\ helper.op = "send"
                      /\ helper.st # "ended" => Before
                      /\ helper.st = "ended" => \/ helper.got = Broken /\ lost
                                                \/ helper.got = Sent /\ Out
  /\ step = "recv" => /\ helper.op = "recv"
                      /\ helper.st # "ended" => Out
                      /\ helper.st = "ended" => \/ helper.got = Broken /\ lost
                                                \/ helper.got # Broken /\ Back(helper.got)
  /\ step = "done" /\ dial = "ok" => Outcome

LEMMA InitConversation == RegInit => Conversation
  BY DEF RegInit, DialInit, Conversation, Unsent

\* Nothing the conversation speaks about changes, or only the helper gets busy
\* or the context or the connection ends.
LEMMA ConversationAside ==
  ASSUME RegTypes, Conversation, UNCHANGED <<caller, inbox, asked, verdict, loginOK>>,
         helper'.op = helper.op, helper'.got = helper.got,
         (helper'.st = "ended") <=> (helper.st = "ended"),
         ctxDone => ctxDone', lost => lost', step = "done" /\ dial' = "ok" => dial = "ok"
  PROVE  Conversation'
<1>1. /\ Unsent' <=> Unsent
      /\ Before' <=> Before
      /\ Out' <=> Out
      /\ Outcome => Outcome'
  BY DEF caller, Unsent, Before, Out, LoginUnsent, Registering, LoggingIn, Outcome
<1>2. Back(helper.got)' <=> Back(helper.got)
  BY DEF caller, Back, Registered, LoggedIn
<1>3. UNCHANGED step
  BY DEF caller
<1>4. QED
  BY <1>1, <1>2, <1>3 DEF Conversation

LEMMA OneFrame ==
  ASSUME NEW f
  PROVE  <<f>> # <<>> /\ Head(<<f>>) = f /\ Tail(<<f>>) = <<>> /\ Append(<<>>, f) = <<f>>
OBVIOUS

\* The helper, for a caller that waits or for one that has left.
LEMMA ConversationHelper ==
  ASSUME RegTypes, SocketInv, Conversation,
         \/ HelperStarts \/ HelperFails \/ HelperSends \/ HelperReads
         \/ HelperGoesOn \/ StrayEnds
  PROVE  Conversation'
<1>0. step \in {"dial", "send", "recv", "done"} /\ (step = "dial" => helper.st = "none")
      /\ (connClosed => step = "done") /\ round \in {"register", "login"}
  BY DEF RegTypes, CallerTypes, AskedOnce, SocketInv, InTurn
<1>1. helper.st \in {"ready", "busy", "lost"} /\ step # "dial"
  BY <1>0 DEF HelperStarts, HelperFails, HelperSends, HelperReads, HelperGoesOn, StrayEnds
<1>2. CASE helper' = [helper EXCEPT !.st = "busy"] /\ UNCHANGED <<dialVars, caller, parent>>
  <2>1. helper'.op = helper.op /\ helper'.got = helper.got /\ helper'.st = "busy"
    BY <1>2 DEF RegTypes, HelperType
  <2>2. /\ UNCHANGED <<caller, inbox, asked, verdict, loginOK>>
        /\ (ctxDone => ctxDone') /\ (lost => lost') /\ UNCHANGED dial
    BY <1>2 DEF dialVars, parent
  <2>3. QED
    BY <1>1, <2>1, <2>2, ConversationAside
<1>9. CASE Strays
  <2>1. /\ helper'.op = helper.op /\ helper'.got = helper.got /\ helper'.st = "lost"
        /\ UNCHANGED <<caller, inbox, asked, verdict, loginOK, ctxDone, lost, dial>>
    BY <1>9 DEF RegTypes, HelperType, Strays, parent
  <2>2. QED
    BY <1>1, <2>1, ConversationAside
\* It has ended: the caller may read what it got.
<1>3. ASSUME NEW got \in Frames, Ends(got),
             step = "send" => \/ got = Broken /\ lost'
                              \/ got = Sent /\ Out',
             step = "recv" => \/ got = Broken /\ lost'
                              \/ got # Broken /\ Back(got)',
             Outcome => Outcome'
      PROVE  Conversation'
  <2>1. /\ helper'.st = "ended" /\ helper'.got = got /\ helper'.op = helper.op
        /\ UNCHANGED <<ctxDone, dial, step, round>>
    BY <1>3, EndsTyped
  <2>2. Back(helper.got)' <=> Back(got)'
    BY <2>1 DEF Back, Registered, LoggedIn
  <2>3. QED
    BY <1>1, <1>3, <2>1, <2>2 DEF Conversation
<1>4. ASSUME NEW got \in Frames, Ends(got), UNCHANGED <<verdict, loginOK, lost>>
      PROVE  Outcome => Outcome'
  <2>1. UNCHANGED <<ctxDone, outcome, doLogin>>
    BY <1>4, EndsTyped
  <2>2. QED
    BY <1>4, <2>1 DEF Outcome
<1>5. CASE Ends(Broken) /\ UNCHANGED parent /\ (lost \/ connClosed)
  <2>1. UNCHANGED <<verdict, loginOK, lost>>
    BY <1>5 DEF parent
  <2>2. Broken \in Frames
    BY FramesTyped
  <2>3. step \in {"send", "recv"} => lost'
    BY <1>0, <1>5, <2>1
  <2>4. QED
    BY <1>3, <1>4, <1>5, <2>1, <2>2, <2>3
<1>6. CASE HelperSends
  <2>1. /\ helper.op = "send" /\ Ends(Sent) /\ asked' = asked + 1
        /\ UNCHANGED <<inbox, lost, verdict, loginOK, notices>>
    BY <1>6 DEF HelperSends
  <2>2. Sent \in Frames
    BY FramesTyped
  <2>3. UNCHANGED <<round, nodeID, doLogin>>
    BY <2>1, <2>2, EndsTyped
  <2>4. step # "recv"
    BY <2>1 DEF Conversation
  <2>5. ASSUME step = "send" PROVE Out'
    <3>1. Before
      BY <1>1, <2>5 DEF Conversation
    <3>2. CASE round = "register"
      <4>1. Registering'
        BY <2>1, <3>1, <3>2 DEF Before, Unsent, Registering
      <4>2. QED
        BY <2>3, <3>2, <4>1 DEF Out
    <3>3. CASE round = "login"
      <4>1. LoggingIn'
        BY <2>1, <2>3, <3>1, <3>3 DEF Before, LoginUnsent, LoggingIn
      <4>2. QED
        BY <2>3, <3>3, <4>1 DEF Out
    <3>4. QED
      BY <1>0, <3>2, <3>3
  <2>6. Outcome => Outcome'
    BY <1>4, <2>1, <2>2
  <2>7. QED
    BY <1>3, <2>1, <2>2, <2>4, <2>5, <2>6
<1>7. CASE HelperReads
  <2>1. /\ helper.op = "recv" /\ inbox # <<>> /\ Ends(Head(inbox)) /\ inbox' = Tail(inbox)
        /\ UNCHANGED <<lost, asked, verdict, loginOK, notices>>
    BY <1>7 DEF HelperReads
  <2>2. inbox \in Seq(Frames)
    BY DEF RegTypes, ParentTypes
  <2>3. PICK f \in Frames : f = Head(inbox)
    BY <2>1, <2>2
  <2>4. Ends(f) /\ UNCHANGED <<round, nodeID, doLogin>>
    BY <2>1, <2>3, EndsTyped
  <2>5. step # "send"
    BY <2>1 DEF Conversation
  <2>6. ASSUME step = "recv" PROVE f # Broken /\ Back(f)'
    <3>1. Out
      BY <1>1, <2>6 DEF Conversation
    <3>2. CASE round = "register"
      <4>1. /\ asked = 1 /\ loginOK = "none"
            /\ \E g \in Frames : inbox = <<g>> /\ <<verdict, g>> \in RegisterAnswers
        BY <2>1, <3>1, <3>2 DEF Out, Registering
      <4>2. inbox = <<f>> /\ <<verdict, f>> \in RegisterAnswers /\ inbox' = <<>>
        BY <2>1, <2>3, <4>1, OneFrame
      <4>3. f # Broken
        BY <4>2, AnswersParsed
      <4>4. Registered(f)'
        BY <2>1, <4>1, <4>2 DEF Registered
      <4>5. QED
        BY <2>4, <3>2, <4>3, <4>4 DEF Back
    <3>3. CASE round = "login"
      <4>1. /\ asked = 2 /\ verdict = Granted(nodeID) /\ doLogin
            /\ \E g \in Frames : inbox = <<g>> /\ <<loginOK, g>> \in LoginAnswers
        BY <2>1, <3>1, <3>3 DEF Out, LoggingIn
      <4>2. inbox = <<f>> /\ <<loginOK, f>> \in LoginAnswers
        BY <2>1, <2>3, <4>1, OneFrame
      <4>3. f # Broken
        BY <4>2, LoginsAsserted
      <4>4. LoggedIn(f)'
        BY <2>1, <2>4, <4>1, <4>2 DEF LoggedIn
      <4>5. QED
        BY <2>4, <3>3, <4>3, <4>4 DEF Back
    <3>4. QED
      BY <1>0, <3>2, <3>3
  <2>7. Outcome => Outcome'
    BY <1>4, <2>1, <2>4
  <2>8. QED
    BY <1>3, <2>4, <2>5, <2>6, <2>7
<1>8. QED
  <2>1. helper.st = "lost" => connClosed
    BY DEF SocketInv, InTurn
  <2>2. QED
    BY <1>2, <1>5, <1>6, <1>7, <1>9, <2>1
       DEF HelperStarts, HelperFails, HelperGoesOn, StrayEnds

\* The caller goes on to its next send or read.
LEMMA ConversationProceeds ==
  ASSUME RegTypes, Conversation, NEW s \in {"send", "recv"}, NEW r \in {"register", "login"},
         NEW n \in NodeIDs \cup {0}, Proceed(s, r, n), IF s = "send" THEN Before' ELSE Out'
  PROVE  Conversation'
<1>1. helper'.op = s /\ helper'.st = "ready" /\ step' = s
  BY ProceedTyped
<1>2. QED
  BY <1>1 DEF Conversation

\* The caller returns r.
LEMMA ConversationReturns ==
  ASSUME RegTypes, NEW r \in Outcomes, Return(r),
         \/ r = Failed("failed") /\ (ctxDone \/ lost)
         \/ verdict # Open /\ r = verdict /\ ~(doLogin /\ verdict.err = "none")
         \/ verdict # Open /\ doLogin /\ loginOK = "yes" /\ r = verdict
         \/ /\ verdict # Open /\ doLogin /\ verdict.err = "none" /\ loginOK = "no"
            /\ r = Failed("failed")
  PROVE  Conversation'
<1>1. step' = "done" /\ outcome' = r /\ UNCHANGED <<ctxDone, doLogin, lost, verdict, loginOK>>
  BY ReturnTyped DEF parent
<1>2. Outcome'
  BY <1>1 DEF Outcome
<1>3. QED
  BY <1>1, <1>2 DEF Conversation

LEMMA ConversationCaller ==
  ASSUME RegTypes, SocketInv, Conversation, CallerNext
  PROVE  Conversation'
<1>0. /\ round \in {"register", "login"} /\ nodeID \in NodeIDs \cup {0} /\ helper.got \in Frames
      /\ Failed("failed") \in Outcomes /\ Sent # Broken
  BY FramesTyped DEF RegTypes, CallerTypes, HelperType
<1>1. CASE DialDone
  <2>1. CASE Proceed("send", "register", 0)
    <3>1. Unsent
      BY <1>1 DEF DialDone, Conversation
    <3>2. UNCHANGED <<asked, verdict, loginOK, inbox>> /\ round' = "register"
      BY <2>1 DEF Proceed, parent
    <3>3. Before'
      BY <3>1, <3>2 DEF Before, Unsent
    <3>4. QED
      BY <2>1, <3>3, ConversationProceeds
  <2>2. CASE step' = "done" /\ dial = "failed" /\ UNCHANGED dialVars
    BY <2>2 DEF Conversation, dialVars
  <2>3. QED
    BY <1>1, <2>1, <2>2 DEF DialDone
<1>2. CASE SendDone
  <2>1. step = "send" /\ helper.st = "ended"
    BY <1>2 DEF SendDone
  <2>2. CASE helper.got = Sent /\ Proceed("recv", round, nodeID)
    <3>1. Out
      BY <1>0, <2>1, <2>2 DEF Conversation
    <3>2. UNCHANGED <<asked, verdict, loginOK, inbox, round, nodeID, doLogin>>
      BY <2>2 DEF Proceed, parent
    <3>3. Out'
      BY <3>1, <3>2 DEF Out, Registering, LoggingIn
    <3>4. QED
      BY <1>0, <2>2, <3>3, ConversationProceeds
  <2>3. CASE helper.got = Broken /\ Return(Failed("failed"))
    <3>1. lost
      BY <1>0, <2>1, <2>3 DEF Conversation
    <3>2. QED
      BY <1>0, <2>3, <3>1, ConversationReturns
  <2>4. QED
    BY <1>2, <2>2, <2>3 DEF SendDone
<1>3. CASE RecvDone
  <2> DEFINE f == helper.got
             r == ParseRegisterResp(f)
  <2>1. step = "recv" /\ helper.st = "ended"
    BY <1>3 DEF RecvDone
  <2>2. CASE f = Broken
    <3>1. lost
      BY <2>1, <2>2 DEF Conversation
    <3>2. Return(Failed("failed"))
      BY <1>3, <2>2 DEF RecvDone
    <3>3. QED
      BY <1>0, <3>1, <3>2, ConversationReturns
  <2>3. CASE f # Broken /\ round = "login"
    <3>1. LoggedIn(f)
      BY <2>1, <2>3 DEF Conversation, Back
    <3>2. Return(IF AssertLoginOK(f) THEN Granted(nodeID) ELSE Failed("failed"))
      BY <1>3, <2>3 DEF RecvDone
    <3>3. /\ verdict = Granted(nodeID) /\ doLogin /\ loginOK \in {"yes", "no"}
          /\ AssertLoginOK(f) <=> loginOK = "yes"
      BY <3>1, LoginsAsserted DEF LoggedIn
    <3>4. verdict.err = "none" /\ Open.err = "open"
      BY <3>3 DEF Granted, Open, Failed
    <3>5. Granted(nodeID) \in Outcomes
      BY <1>0 DEF Granted, Outcomes
    <3>6. CASE AssertLoginOK(f)
      <4>1. Return(Granted(nodeID))
        BY <3>2, <3>6
      <4>2. QED
        BY <3>3, <3>4, <3>5, <3>6, <4>1, ConversationReturns
    <3>7. CASE ~AssertLoginOK(f)
      <4>1. Return(Failed("failed"))
        BY <3>2, <3>7
      <4>2. QED
        BY <1>0, <3>3, <3>4, <3>7, <4>1, ConversationReturns
    <3>8. QED
      BY <3>6, <3>7
  <2>4. CASE f # Broken /\ round = "register"
    <3>1. Registered(f)
      BY <2>1, <2>4 DEF Conversation, Back
    <3>2. /\ <<verdict, f>> \in RegisterAnswers /\ verdict \in Outcomes
          /\ r = verdict /\ verdict.err # "open" /\ (verdict.err = "none" => verdict = Granted(verdict.node))
      BY <3>1, AnswersParsed DEF Registered
    <3>3. verdict # Open
      <4>1. Open.err = "open"
        BY DEF Open, Failed
      <4>2. QED
        BY <3>2, <4>1
    <3>4. IF verdict.err = "none" /\ doLogin THEN Proceed("send", "login", verdict.node)
          ELSE Return(verdict)
      BY <1>3, <2>4, <3>2 DEF RecvDone
    <3>5. CASE verdict.err = "none" /\ doLogin
      <4>1. PICK n \in NodeIDs \cup {0} : n = verdict.node
        BY <3>2 DEF Outcomes
      <4>2. Proceed("send", "login", n) /\ verdict = Granted(n)
        BY <3>2, <3>4, <3>5, <4>1
      <4>3. UNCHANGED <<asked, verdict, loginOK, inbox, doLogin>> /\ round' = "login" /\ nodeID' = n
        BY <4>2 DEF Proceed, parent
      <4>4. LoginUnsent'
        BY <3>1, <3>5, <4>2, <4>3 DEF Registered, LoginUnsent
      <4>5. Before'
        BY <4>3, <4>4 DEF Before
      <4>6. QED
        BY <4>2, <4>5, ConversationProceeds
    <3>6. CASE ~(verdict.err = "none" /\ doLogin)
      <4>1. Return(verdict)
        BY <3>4, <3>6
      <4>2. PICK o \in Outcomes : o = verdict
        BY <3>2
      <4>3. QED
        BY <3>3, <3>6, <4>1, <4>2, ConversationReturns
    <3>7. QED
      BY <3>5, <3>6
  <2>5. QED
    BY <1>0, <2>2, <2>3, <2>4
<1>4. CASE CtxCase
  BY <1>0, <1>4, ConversationReturns DEF CtxCase
<1>5. QED
  BY <1>1, <1>2, <1>3, <1>4 DEF CallerNext

\* The parent answers.
LEMMA ConversationParent ==
  ASSUME RegTypes, Conversation, ParentAnswers
  PROVE  Conversation'
<1>0. round \in {"register", "login"} /\ step \in {"dial", "send", "recv", "done"}
  BY DEF RegTypes, CallerTypes
<1>1. UNCHANGED <<ctxDone, dial, doLogin, step, round, nodeID, outcome, helper, lost, asked>>
  BY ParentSteps DEF dialVars, caller
<1>2. verdict = Granted(nodeID) => verdict # Open
  <2>1. Granted(nodeID).err = "none" /\ Open.err = "open"
    BY DEF Granted, Open, Failed
  <2>2. QED
    BY <2>1
<1>3. CASE /\ asked = 1 /\ verdict = Open /\ UNCHANGED loginOK
           /\ \E f \in Frames : <<verdict', f>> \in RegisterAnswers /\ inbox' = Append(inbox, f)
  <2>1. ~Before
    BY <1>2, <1>3 DEF Before, Unsent, LoginUnsent
  <2>2. ~Back(helper.got)
    <3>1. Open.err = "open"
      BY DEF Open, Failed
    <3>2. \A f : <<Open, f>> \notin RegisterAnswers
      BY <3>1, AnswersParsed
    <3>3. QED
      BY <1>2, <1>3, <3>2 DEF Back, Registered, LoggedIn
  <2>3. Out => Out'
    <3> SUFFICES ASSUME Out PROVE Out'
      OBVIOUS
    <3>1. round = "register" /\ loginOK = "none" /\ inbox = <<>>
      <4>1. round = "register"
        BY <1>0, <1>2, <1>3 DEF Out, LoggingIn
      <4>2. \A f : <<Open, f>> \notin RegisterAnswers
        <5>1. Open.err = "open"
          BY DEF Open, Failed
        <5>2. QED
          BY <5>1, AnswersParsed
      <4>3. QED
        BY <1>3, <4>1, <4>2 DEF Out, Registering
    <3>2. \E f \in Frames : inbox' = <<f>> /\ <<verdict', f>> \in RegisterAnswers
      BY <1>3, <3>1, OneFrame
    <3>3. QED
      BY <1>1, <1>3, <3>1, <3>2 DEF Out, Registering
  <2>4. Outcome => Outcome'
    BY <1>1, <1>3 DEF Outcome
  <2>5. ~Unsent
    BY <1>3 DEF Unsent
  <2>6. QED
    BY <1>1, <2>1, <2>2, <2>3, <2>4, <2>5 DEF Conversation
<1>4. CASE /\ asked = 2 /\ loginOK = "none" /\ UNCHANGED verdict
           /\ \E f \in Frames : <<loginOK', f>> \in LoginAnswers /\ inbox' = Append(inbox, f)
  <2>1. ~Before /\ ~Unsent
    BY <1>4 DEF Before, Unsent, LoginUnsent
  <2>2. \A f : <<"none", f>> \notin LoginAnswers
    BY LoginsAsserted
  <2>3. ~Back(helper.got)
    BY <1>4, <2>2 DEF Back, Registered, LoggedIn
  <2>4. Out => Out'
    <3> SUFFICES ASSUME Out PROVE Out'
      OBVIOUS
    <3>1. round = "login"
      BY <1>0, <1>4 DEF Out, Registering
    <3>2. inbox = <<>> /\ verdict = Granted(nodeID) /\ doLogin
      BY <1>4, <2>2, <3>1 DEF Out, LoggingIn
    <3>3. \E f \in Frames : inbox' = <<f>> /\ <<loginOK', f>> \in LoginAnswers
      BY <1>4, <3>2, OneFrame
    <3>4. LoggingIn'
      BY <1>1, <1>4, <3>2, <3>3 DEF LoggingIn
    <3>5. QED
      BY <1>1, <3>1, <3>4 DEF Out
  <2>5. Outcome => Outcome'
    BY <1>1, <1>4 DEF Outcome
  <2>6. QED
    BY <1>1, <2>1, <2>3, <2>4, <2>5 DEF Conversation
<1>5. QED
  BY <1>3, <1>4, ParentSteps

\* No frame came that nobody asked for, or everything is as it should be.
Quiet == notices = 0 => Conversation

LEMMA NextConversation == RegTypes /\ SocketInv /\ Quiet /\ [RegNext]_regVars => Quiet'
<1> SUFFICES ASSUME RegTypes, SocketInv, Quiet, [RegNext]_regVars, notices' = 0
             PROVE  Conversation'
  BY DEF Quiet
<1>1. notices = 0 /\ ~Notice
  <2>1. notices \in Nat
    BY RegisterAssumption DEF RegTypes, ParentTypes
  <2>2. ~Notice
    <3>1. Notice => notices' = notices + 1
      BY DEF Notice
    <3>2. notices' # notices + 1
      BY <2>1
    <3>3. QED
      BY <3>1, <3>2
  <2>3. UNCHANGED notices
    BY <2>2 DEF RegNext, regVars, session, parent, CallerNext, DialDone, SendDone, RecvDone, CtxCase,
       Proceed, Return, HelperStarts, HelperFails, HelperSends, HelperReads, HelperGoesOn, StrayEnds,
       Strays, ParentAnswers, Lose
  <2>4. QED
    BY <2>2, <2>3
<1>2. Conversation
  BY <1>1 DEF Quiet
<1>3. CASE (CtxEnds \/ Reused \/ DialNext \/ ConnectorNext) /\ UNCHANGED session
  <2>1. /\ UNCHANGED <<caller, inbox, asked, verdict, loginOK, lost, helper>>
    BY <1>3 DEF session, parent
  <2>2. ctxDone => ctxDone'
    BY <1>3 DEF CtxEnds, Reused, DialNext, ConnectorNext, TcpDial, AndroidDial, QuicDial, Returns,
       OpenStream, OpenSocket, SelectCtx, DeferredClose, SelectErr, SelectOk, CallConnect, ConnectReturns
  <2>3. dial \in {"ok", "failed"} => UNCHANGED dial
    BY <1>3 DEF CtxEnds, Reused, DialNext, ConnectorNext, TcpDial, AndroidDial, QuicDial, Returns,
       OpenStream, OpenSocket, SelectCtx, DeferredClose, SelectErr, SelectOk, CallConnect,
       ConnectReturns, Goes
  <2>4. step = "done" => dial \in {"ok", "failed"}
    BY DEF SocketInv, InTurn
  <2>5. QED
    BY <1>2, <2>1, <2>2, <2>3, <2>4, ConversationAside
<1>4. CASE Lose \/ UNCHANGED regVars
  <2>1. /\ UNCHANGED <<caller, inbox, asked, verdict, loginOK, helper, ctxDone, dial>>
        /\ lost => lost'
    BY <1>4 DEF Lose, regVars, parent, dialVars
  <2>2. QED
    BY <1>2, <2>1, ConversationAside
<1>5. QED
  BY <1>1, <1>2, <1>3, <1>4, ConversationHelper, ConversationCaller, ConversationParent DEF RegNext

\* Whatever node_ids there are and whenever timeouts and losses come: unless a
\* frame nobody asked for got in between, SelfRegister reports a node
\* registered only with the node_id its parent gave it, after the parent's yes
\* to the login if it logs in, and its outcome is the parent's verdict when
\* neither timeout nor loss cut it short.
THEOREM ReportsTheVerdict == RegSpec => []OutcomeAsAnswered
<1> DEFINE Inv == RegTypes /\ SocketInv /\ Quiet
<1>1. RegInit => Inv
  BY InitRegTypes, InitSocket, InitConversation DEF Quiet
<1>2. Inv /\ [RegNext]_regVars => Inv'
  BY NextRegTypes, NextSocket, NextConversation
<1>3. Inv => OutcomeAsAnswered
  <2> SUFFICES ASSUME Inv, step = "done", dial = "ok", notices = 0
               PROVE  /\ outcome.err = "none" => outcome = verdict /\ (doLogin => loginOK = "yes")
                      /\ (~ctxDone /\ ~lost) =>
                            outcome = IF doLogin /\ verdict.err = "none" /\ loginOK = "no"
                                     THEN Failed("failed") ELSE verdict
    BY DEF OutcomeAsAnswered
  <2>1. Outcome
    BY DEF Quiet, Conversation
  <2>2. Failed("failed").err = "failed"
    BY DEF Failed
  <2>3. QED
    BY <2>1, <2>2 DEF Outcome
<1>4. QED
  BY <1>1, <1>2, <1>3, PTL DEF RegSpec

-----------------------------------------------------------------------------
(* The contents of a Config *)

\* A Go map with keys in S and values in T.
MapOf(S, T) == UNION {[D -> T] : D \in SUBSET S}

Contents == [role : Roles, perms : SUBSET Perms, nodes : MapOf(Members, Roles),
             roles : MapOf(Roles, SUBSET Perms)]

LEMMA MapIntro ==
  ASSUME NEW S, NEW T, NEW D \in SUBSET S, NEW f \in [D -> T]
  PROVE  f \in MapOf(S, T)
BY DEF MapOf

LEMMA MapElim ==
  ASSUME NEW S, NEW T, NEW f \in MapOf(S, T)
  PROVE  DOMAIN f \in SUBSET S /\ f \in [DOMAIN f -> T]
BY DEF MapOf

LEMMA EmptyMap ==
  ASSUME NEW S, NEW T
  PROVE  <<>> \in MapOf(S, T)
<1>1. <<>> \in [{} -> T]
  OBVIOUS
<1> QED BY <1>1, MapIntro

LEMMA WithMap ==
  ASSUME NEW S, NEW T, NEW f \in MapOf(S, T), NEW k \in S, NEW v \in T
  PROVE  With(f, k, v) \in MapOf(S, T)
<1>1. DOMAIN f \in SUBSET S /\ f \in [DOMAIN f -> T]
  BY MapElim
<1>2. With(f, k, v) \in [DOMAIN f \cup {k} -> T]
  BY <1>1 DEF With
<1> QED BY <1>1, <1>2, MapIntro

LEMMA WithoutMap ==
  ASSUME NEW S, NEW T, NEW f \in MapOf(S, T), NEW keys
  PROVE  Without(f, keys) \in MapOf(S, T)
<1>1. DOMAIN f \in SUBSET S /\ f \in [DOMAIN f -> T]
  BY MapElim
<1>2. Without(f, keys) \in [DOMAIN f \ keys -> T]
  BY <1>1 DEF Without
<1> QED BY <1>1, <1>2, MapIntro

\* A set of natural numbers that is not empty has a least one.
LEMMA LeastNatural ==
  ASSUME NEW Q \in SUBSET Nat, Q # {}
  PROVE  \E m \in Q : \A x \in Q : m <= x
<1> DEFINE R == OpToRel(<, Nat)
<1>1. IsWellFoundedOn(R, Nat)
  BY NatLessThanWellFounded
<1>2. \A x, m \in Nat : x < m => <<x, m>> \in R
  BY DEF OpToRel
<1> HIDE DEF R
<1>3. \E m \in Q : \A x \in Q : ~(<<x, m>> \in R)
  BY <1>1, WFMin
<1>4. PICK m \in Q : \A x \in Q : ~(<<x, m>> \in R)
  BY <1>3
<1>5. \A x \in Q : ~(x < m)
  BY <1>2, <1>4
<1>6. \A x \in Q : m <= x
  BY <1>5
<1> QED BY <1>6

\* A set of positions that is not empty has a last one.
LEMMA LastPosition ==
  ASSUME NEW n \in Nat, NEW P \in SUBSET (1..n), P # {}
  PROVE  \E i \in P : \A j \in P : j <= i
<1> DEFINE Q == {n - i : i \in P}
<1>0. \A i \in P : i \in Nat /\ n - i \in Nat
  OBVIOUS
<1>1. Q \in SUBSET Nat
  BY <1>0
<1>2. Q # {}
  OBVIOUS
<1>3. \E m \in Q : \A x \in Q : m <= x
  <2> HIDE DEF Q
  <2> QED BY <1>1, <1>2, LeastNatural
<1>4. PICK i \in P : \A x \in Q : n - i <= x
  BY <1>3
<1>5. ASSUME NEW j \in P PROVE j <= i
  <2>1. n - i <= n - j
    BY <1>4
  <2> QED BY <1>0, <2>1
<1> QED BY <1>5

\* parseNodeRoles and parseRolePerms keep, of each key, the last well-formed entry.
LEMMA KeepsTheLast ==
  ASSUME NEW K, NEW V, NEW text \in Seq([key : K, val : V, ok : BOOLEAN])
  PROVE  /\ DOMAIN Parsed(text) = {text[i].key : i \in {i \in DOMAIN text : text[i].ok}}
         /\ \A k \in DOMAIN Parsed(text) :
              \E i \in DOMAIN text :
                /\ text[i].ok /\ text[i].key = k /\ Parsed(text)[k] = text[i].val
                /\ \A j \in DOMAIN text : text[j].ok /\ text[j].key = k => j <= i
         /\ Parsed(text) \in MapOf(K, V)
<1> DEFINE Good == {i \in DOMAIN text : text[i].ok}
           Keys == {text[i].key : i \in Good}
           Last(k) == CHOOSE i \in Good : text[i].key = k /\ \A j \in Good : text[j].key = k => j <= i
<1>1. Parsed(text) = [k \in Keys |-> text[Last(k)].val]
  BY DEF Parsed
<1>2. DOMAIN text = 1..Len(text) /\ Len(text) \in Nat
  OBVIOUS
<1>3. ASSUME NEW k \in Keys
      PROVE  \E i \in Good : text[i].key = k /\ \A j \in Good : text[j].key = k => j <= i
  <2> DEFINE P == {i \in Good : text[i].key = k}
  <2>1. P \in SUBSET (1..Len(text)) /\ P # {}
    BY <1>2
  <2>2. PICK i \in P : \A j \in P : j <= i
    BY <1>2, <2>1, LastPosition
  <2> QED BY <2>2
<1>4. ASSUME NEW k \in Keys
      PROVE  Last(k) \in Good /\ text[Last(k)].key = k /\ \A j \in Good : text[j].key = k => j <= Last(k)
  BY <1>3
<1>5. \A i \in Good : text[i] \in [key : K, val : V, ok : BOOLEAN]
  <2> DEFINE Entries == [key : K, val : V, ok : BOOLEAN]
  <2>1. text \in Seq(Entries)
    OBVIOUS
  <2> HIDE DEF Entries
  <2>2. \A i \in 1..Len(text) : text[i] \in Entries
    BY <2>1
  <2> QED BY <1>2, <2>2 DEF Entries
<1> HIDE DEF Last
<1>6. Keys \in SUBSET K /\ Parsed(text) \in [Keys -> V]
  BY <1>1, <1>4, <1>5
<1>7. Parsed(text) \in MapOf(K, V)
  BY <1>6, MapIntro
<1>8. DOMAIN Parsed(text) = Keys
  BY <1>1
<1>9. ASSUME NEW k \in Keys
      PROVE  \E i \in DOMAIN text :
               /\ text[i].ok /\ text[i].key = k /\ Parsed(text)[k] = text[i].val
               /\ \A j \in DOMAIN text : text[j].ok /\ text[j].key = k => j <= i
  <2>1. Parsed(text)[k] = text[Last(k)].val
    BY <1>1
  <2>2. Last(k) \in DOMAIN text /\ text[Last(k)].ok
    BY <1>4
  <2>3. \A j \in DOMAIN text : text[j].ok /\ text[j].key = k => j <= Last(k)
    BY <1>4
  <2> QED BY <1>4, <2>1, <2>2, <2>3
<1>10. QED
  BY <1>7, <1>8, <1>9

LEMMA BaseContents == Base \in Contents
BY EmptyMap, PermAssumption DEF Base, Contents

LEMMA LoadedContents ==
  ASSUME NEW k \in DOMAIN Settings
  PROVE  NewConfig(Settings[k]) \in Contents
<1> DEFINE s == Settings[k]
<1>1. "role" \in DOMAIN s => s.role \in Roles
  BY SettingsAssumption
<1>2. "perms" \in DOMAIN s => s.perms \in SUBSET Perms
  BY SettingsAssumption
<1>3. "nodes" \in DOMAIN s => Parsed(s.nodes) \in MapOf(Members, Roles)
  BY SettingsAssumption, KeepsTheLast
<1>4. "roles" \in DOMAIN s => Parsed(s.roles) \in MapOf(Roles, SUBSET Perms)
  BY SettingsAssumption, KeepsTheLast
<1>5. /\ Base.role \in Roles /\ Base.perms \in SUBSET Perms
      /\ Base.nodes \in MapOf(Members, Roles) /\ Base.roles \in MapOf(Roles, SUBSET Perms)
  BY BaseContents DEF Contents
<1> QED BY <1>1, <1>2, <1>3, <1>4, <1>5 DEF NewConfig, Contents

LEMMA FirstReplica == NewConfig(<<>>) \in Contents
<1>1. NewConfig(<<>>) = [role |-> Base.role, perms |-> Base.perms, nodes |-> Base.nodes,
                         roles |-> Base.roles]
  BY DEF NewConfig
<1> QED BY <1>1, BaseContents DEF Contents

LEMMA AppliedContents ==
  ASSUME NEW c \in Contents, NEW s \in Contents
  PROVE  Applied(c, s) \in Contents
BY DEF Applied, Contents

LEMMA UpsertContents ==
  ASSUME NEW c \in Contents, NEW n \in Members, NEW role \in Roles \cup {""},
         NEW perms \in SUBSET Perms
  PROVE  /\ [c EXCEPT !.nodes = Without(@, {n})] \in Contents
         /\ role # "" => [c EXCEPT !.nodes = With(@, n, role),
                                  !.roles = IF perms = {} THEN @ ELSE With(@, role, perms)] \in Contents
<1>1. Without(c.nodes, {n}) \in MapOf(Members, Roles)
  BY WithoutMap DEF Contents
<1>2. role # "" => With(c.nodes, n, role) \in MapOf(Members, Roles)
  BY WithMap DEF Contents
<1>3. role # "" => With(c.roles, role, perms) \in MapOf(Roles, SUBSET Perms)
  BY WithMap DEF Contents
<1> QED BY <1>1, <1>2, <1>3 DEF Contents

LEMMA InvalidateContents ==
  ASSUME NEW c \in Contents, NEW ids \in SUBSET Members
  PROVE  [c EXCEPT !.nodes = IF ids = {} THEN <<>> ELSE Without(@, ids)] \in Contents
<1>1. Without(c.nodes, ids) \in MapOf(Members, Roles) /\ <<>> \in MapOf(Members, Roles)
  BY WithoutMap, EmptyMap DEF Contents
<1> QED BY <1>1 DEF Contents

-----------------------------------------------------------------------------
(* SharedConfig *)

SharedTypes ==
  /\ cfgOf \in [Handlers -> DOMAIN Settings] /\ addr \in [DOMAIN Settings -> Addresses]
  /\ sharedConfigs \in [Addresses -> Handlers \cup {"none"}]
  /\ building \in SUBSET Handlers /\ inst \in [Handlers -> Handlers \cup {"none"}]

\* Whoever has a Config has the one stored for its address, which a handler
\* with that address built and has itself.
HasStored ==
  \A h \in Handlers : inst[h] # "none" => sharedConfigs[Key(h)] = inst[h]
StoredByOwn ==
  \A a \in Addresses : sharedConfigs[a] # "none" =>
     Key(sharedConfigs[a]) = a /\ inst[sharedConfigs[a]] = sharedConfigs[a]
StillBuilding ==
  \A h \in building : inst[h] = "none"

SharedInv == SharedTypes /\ HasStored /\ StoredByOwn /\ StillBuilding

LEMMA KeysAreAddresses ==
  ASSUME SharedTypes, NEW h \in Handlers
  PROVE  Key(h) \in Addresses
  BY DEF SharedTypes, Key

LEMMA InitShared == PermInit => SharedInv
<1> SUFFICES ASSUME PermInit PROVE SharedInv
  OBVIOUS
<1>1. SharedTypes
  BY DEF PermInit, SharedTypes
<1>2. HasStored
  BY DEF PermInit, HasStored
<1>3. StoredByOwn
  BY DEF PermInit, StoredByOwn
<1>4. StillBuilding
  BY DEF PermInit, StillBuilding
<1>5. QED
  BY <1>1, <1>2, <1>3, <1>4 DEF SharedInv

LEMMA NextShared == SharedInv /\ [PermNext]_permVars => SharedInv'
<1> SUFFICES ASSUME SharedInv, [PermNext]_permVars PROVE SharedInv'
  OBVIOUS
<1>0. SharedTypes /\ HasStored /\ StoredByOwn /\ StillBuilding /\ "none" \notin Handlers
  BY PermAssumption DEF SharedInv
<1>1. CASE UNCHANGED <<cfgOf, addr, sharedConfigs, building, inst>>
  BY <1>0, <1>1 DEF SharedInv, SharedTypes, HasStored, StoredByOwn, StillBuilding, Key
<1>2. ASSUME NEW h \in Handlers, LookUp(h) PROVE SharedInv'
  <2> DEFINE a == Key(h)
  <2>1. a \in Addresses /\ sharedConfigs[a] \in Handlers \cup {"none"}
    BY <1>0, KeysAreAddresses DEF SharedTypes
  <2>2. /\ inst[h] = "none" /\ UNCHANGED <<cfgOf, addr, sharedConfigs>>
        /\ \A g : Key(g)' = Key(g)
    BY <1>2 DEF LookUp, Key
  <2>3. CASE sharedConfigs[a] # "none"
    <3>1. inst' = [inst EXCEPT ![h] = sharedConfigs[a]] /\ UNCHANGED building /\ h \notin building
      BY <1>2, <2>3 DEF LookUp
    <3>2. /\ inst' \in [Handlers -> Handlers \cup {"none"}] /\ inst'[h] = sharedConfigs[a]
          /\ \A g \in Handlers : g # h => inst'[g] = inst[g]
      BY <1>0, <2>1, <3>1 DEF SharedTypes
    <3>3. SharedTypes'
      BY <1>0, <2>2, <3>1, <3>2 DEF SharedTypes
    <3>4. HasStored'
      BY <1>0, <2>2, <3>2 DEF HasStored
    <3>5. StoredByOwn'
      BY <1>0, <2>2, <3>2 DEF StoredByOwn, SharedTypes
    <3>6. StillBuilding'
      BY <1>0, <3>1, <3>2 DEF StillBuilding, SharedTypes
    <3>7. QED
      BY <3>3, <3>4, <3>5, <3>6 DEF SharedInv
  <2>4. CASE sharedConfigs[a] = "none"
    <3>1. building' = building \cup {h} /\ UNCHANGED inst
      BY <1>2, <2>4 DEF LookUp
    <3>2. SharedTypes'
      BY <1>0, <2>2, <3>1 DEF SharedTypes
    <3>3. HasStored' /\ StoredByOwn'
      BY <1>0, <2>2, <3>1 DEF HasStored, StoredByOwn
    <3>4. StillBuilding'
      BY <1>0, <2>2, <3>1 DEF StillBuilding
    <3>5. QED
      BY <3>2, <3>3, <3>4 DEF SharedInv
  <2>5. QED
    BY <2>3, <2>4
<1>3. ASSUME NEW h \in Handlers, LoadOrStore(h) PROVE SharedInv'
  <2> DEFINE a == Key(h)
             actual == IF sharedConfigs[a] = "none" THEN h ELSE sharedConfigs[a]
  <2>1. a \in Addresses /\ sharedConfigs[a] \in Handlers \cup {"none"}
    BY <1>0, KeysAreAddresses DEF SharedTypes
  <2>2. /\ h \in building /\ building' = building \ {h} /\ UNCHANGED <<cfgOf, addr>>
        /\ sharedConfigs' = [sharedConfigs EXCEPT ![a] = actual]
        /\ inst' = [inst EXCEPT ![h] = actual]
    BY <1>3 DEF LoadOrStore
  <2>3. inst[h] = "none"
    BY <1>0, <2>2 DEF StillBuilding
  <2>4. /\ actual \in Handlers /\ (sharedConfigs[a] # "none" => actual = sharedConfigs[a])
        /\ (sharedConfigs[a] = "none" => actual = h)
    BY <2>1
  <2>5. Key(actual) = a /\ (actual = h \/ inst[actual] = actual)
    BY <1>0, <2>1, <2>4 DEF StoredByOwn
  <2> HIDE DEF actual
  <2>6. /\ inst' \in [Handlers -> Handlers \cup {"none"}] /\ inst'[h] = actual
        /\ \A g \in Handlers : g # h => inst'[g] = inst[g]
    BY <1>0, <2>2, <2>4 DEF SharedTypes
  <2>7. /\ sharedConfigs' \in [Addresses -> Handlers \cup {"none"}] /\ sharedConfigs'[a] = actual
        /\ \A b \in Addresses : b # a => sharedConfigs'[b] = sharedConfigs[b]
    BY <1>0, <2>1, <2>2, <2>4 DEF SharedTypes
  <2>8. \A g : Key(g)' = Key(g)
    BY <2>2 DEF Key
  <2> HIDE DEF a
  <2>9. SharedTypes'
    BY <1>0, <2>2, <2>6, <2>7 DEF SharedTypes
  <2>10. HasStored'
    <3> SUFFICES ASSUME NEW g \in Handlers, inst'[g] # "none"
                 PROVE  sharedConfigs'[Key(g)] = inst'[g]
      BY <2>8 DEF HasStored
    <3>1. CASE g = h
      BY <2>6, <2>7, <3>1 DEF a
    <3>2. CASE g # h
      <4>1. sharedConfigs[Key(g)] = inst[g] /\ inst'[g] = inst[g] /\ Key(g) \in Addresses
        BY <1>0, <2>6, <3>2, KeysAreAddresses DEF HasStored
      <4>2. Key(g) = a => actual = inst[g]
        BY <2>4, <4>1
      <4>3. QED
        BY <2>7, <4>1, <4>2
    <3>3. QED
      BY <3>1, <3>2
  <2>11. StoredByOwn'
    <3> SUFFICES ASSUME NEW b \in Addresses, sharedConfigs'[b] # "none"
                 PROVE  /\ Key(sharedConfigs'[b]) = b
                        /\ inst'[sharedConfigs'[b]] = sharedConfigs'[b]
      BY <2>8 DEF StoredByOwn
    <3>1. CASE b = a
      BY <2>4, <2>5, <2>6, <2>7, <3>1
    <3>2. CASE b # a
      <4>1. /\ sharedConfigs'[b] = sharedConfigs[b] /\ sharedConfigs[b] \in Handlers
            /\ Key(sharedConfigs[b]) = b /\ inst[sharedConfigs[b]] = sharedConfigs[b]
        BY <1>0, <2>7, <3>2 DEF StoredByOwn, SharedTypes
      <4>2. sharedConfigs[b] # h
        BY <1>0, <2>3, <4>1
      <4>3. QED
        BY <2>6, <4>1, <4>2
    <3>3. QED
      BY <3>1, <3>2
  <2>12. StillBuilding'
    BY <1>0, <2>2, <2>6 DEF StillBuilding, SharedTypes
  <2>13. QED
    BY <2>9, <2>10, <2>11, <2>12 DEF SharedInv
<1>4. QED
  BY <1>1, <1>2, <1>3
     DEF PermNext, permVars, Snapshot, UpsertNode, InvalidateNodes, Change, ApplySnapshot

\* However the first calls of any number of handlers race, those of one core
\* config have one Config, built from their own core config, unless that got
\* the address of a collected one whose Config is still stored.
THEOREM OneConfig == PermSpec => []OneShared
<1>1. SharedInv => OneShared
  <2> SUFFICES ASSUME SharedInv, NEW g \in Handlers, NEW h \in Handlers,
                      inst[g] # "none", inst[h] # "none"
               PROVE  /\ cfgOf[g] = cfgOf[h] => inst[g] = inst[h]
                      /\ cfgOf[inst[h]] = cfgOf[h] \/ addr[cfgOf[inst[h]]] = addr[cfgOf[h]]
    BY DEF OneShared
  <2>1. sharedConfigs[Key(g)] = inst[g] /\ sharedConfigs[Key(h)] = inst[h] /\ Key(h) \in Addresses
    BY KeysAreAddresses DEF SharedInv, HasStored
  <2>2. Key(inst[h]) = Key(h)
    BY <2>1 DEF SharedInv, StoredByOwn
  <2>3. QED
    BY <2>1, <2>2 DEF Key
<1>2. QED
  BY <1>1, InitShared, NextShared, PTL DEF PermSpec

-----------------------------------------------------------------------------
(* Snapshots *)

\* The last snapshot is on its way, or has arrived and was applied.
SyncInv ==
  /\ DOMAIN conf = Handlers /\ synced \in Handlers \cup {"none"}
  /\ synced # "none" =>
       /\ inst[synced] = synced
       /\ \/ wire = <<conf[synced]>>
          \/ /\ wire = <<>>
             /\ LET c == conf[synced]
                IN  \/ c.perms = {} \/ c.nodes = <<>> \/ c.roles = <<>>
                    \/ /\ replica.role = c.role /\ replica.perms = c.perms
                       /\ replica.nodes = c.nodes /\ replica.roles = c.roles

LEMMA InitSync == PermInit => SyncInv
  BY DEF PermInit, SyncInv

\* The Config that was sent is not touched.
LEMMA SyncAside ==
  ASSUME SyncInv, UNCHANGED <<replica, wire>>, DOMAIN conf' = Handlers,
         synced' \in {synced, "none"},
         synced' # "none" => inst'[synced] = inst[synced] /\ conf'[synced] = conf[synced]
  PROVE  SyncInv'
  BY DEF SyncInv

LEMMA NextSync == SharedInv /\ SyncInv /\ [PermNext]_permVars => SyncInv'
<1> SUFFICES ASSUME SharedInv, SyncInv, [PermNext]_permVars PROVE SyncInv'
  OBVIOUS
<1>0. /\ "none" \notin Handlers /\ DOMAIN conf = Handlers /\ synced \in Handlers \cup {"none"}
      /\ synced # "none" => inst[synced] = synced
      /\ inst \in [Handlers -> Handlers \cup {"none"}]
  BY PermAssumption DEF SyncInv, SharedInv, SharedTypes
<1>1. ASSUME NEW h \in Handlers, LookUp(h) PROVE SyncInv'
  <2>1. /\ inst[h] = "none" /\ UNCHANGED <<conf, replica, wire, synced>>
        /\ \A g \in Handlers : g # h => inst'[g] = inst[g]
    BY <1>0, <1>1 DEF LookUp
  <2>2. QED
    BY <1>0, <2>1, SyncAside
<1>2. ASSUME NEW h \in Handlers, LoadOrStore(h) PROVE SyncInv'
  <2>1. inst[h] = "none" /\ UNCHANGED <<replica, wire, synced>>
    BY <1>2 DEF LoadOrStore, SharedInv, StillBuilding
  <2>2. \A g \in Handlers : g # h => inst'[g] = inst[g]
    BY <1>0, <1>2 DEF LoadOrStore
  <2>3. DOMAIN conf' = Handlers /\ \A g \in Handlers : g # h => conf'[g] = conf[g]
    <3>1. PICK c : conf' = [conf EXCEPT ![h] = c]
      BY <1>2 DEF LoadOrStore
    <3>2. QED
      BY <1>0, <3>1
  <2>4. QED
    BY <1>0, <2>1, <2>2, <2>3, SyncAside
<1>3. ASSUME NEW h \in Handlers, NEW c, Change(h, c) PROVE SyncInv'
  <2>1. /\ inst[h] # "none" /\ UNCHANGED <<inst, replica, wire>>
        /\ conf' = [conf EXCEPT ![inst[h]] = c]
        /\ synced' = IF synced = inst[h] THEN "none" ELSE synced
    BY <1>3 DEF Change
  <2>2. DOMAIN conf' = Handlers /\ \A g \in Handlers : g # inst[h] => conf'[g] = conf[g]
    BY <1>0, <2>1
  <2>3. QED
    BY <1>0, <2>1, <2>2, SyncAside
<1>4. ASSUME NEW h \in Handlers, Snapshot(h) PROVE SyncInv'
  <2>1. /\ inst[h] # "none" /\ wire' = <<conf[inst[h]]>> /\ synced' = inst[h]
        /\ UNCHANGED <<inst, conf, replica>>
    BY <1>4 DEF Snapshot
  <2>2. inst[inst[h]] = inst[h] /\ inst[h] \in Handlers
    <3>1. Key(h) \in Addresses /\ sharedConfigs[Key(h)] = inst[h]
      BY <2>1, KeysAreAddresses DEF SharedInv, HasStored
    <3>2. QED
      BY <1>0, <2>1, <3>1 DEF SharedInv, StoredByOwn
  <2>3. QED
    BY <1>0, <2>1, <2>2 DEF SyncInv
<1>5. CASE ApplySnapshot
  <2>1. /\ wire # <<>> /\ wire' = <<>> /\ replica' = Applied(replica, Head(wire))
        /\ UNCHANGED <<inst, conf, synced>>
    BY <1>5 DEF ApplySnapshot
  <2>2. CASE synced = "none"
    BY <1>0, <2>1, <2>2 DEF SyncInv
  <2>3. CASE synced # "none"
    <3> DEFINE c == conf[synced]
    <3>1. wire = <<c>>
      BY <2>1, <2>3 DEF SyncInv
    <3>2. replica' = Applied(replica, c)
      <4>1. Head(<<c>>) = c
        OBVIOUS
      <4>2. QED
        BY <2>1, <3>1, <4>1
    <3>3. \/ c.perms = {} \/ c.nodes = <<>> \/ c.roles = <<>>
          \/ /\ replica'.role = c.role /\ replica'.perms = c.perms
             /\ replica'.nodes = c.nodes /\ replica'.roles = c.roles
      BY <3>2 DEF Applied
    <3>4. QED
      BY <1>0, <2>1, <2>3, <3>3 DEF SyncInv
  <2>4. QED
    BY <2>2, <2>3
<1>6. CASE UNCHANGED permVars
  BY <1>0, <1>6, SyncAside DEF permVars
<1>7. QED
  BY <1>1, <1>2, <1>3, <1>4, <1>5, <1>6 DEF PermNext, UpsertNode, InvalidateNodes

\* Configs with the same four parts answer every question alike.
LEMMA SameAnswers ==
  ASSUME NEW c, NEW d, c.role = d.role, c.perms = d.perms, c.nodes = d.nodes, c.roles = d.roles
  PROVE  /\ \A n, p : Has(c, n, p) <=> Has(d, n, p)
         /\ \A r : /\ HasRole(c, r) <=> HasRole(d, r)
                   /\ ResolvePermsForRole(c, r) = ResolvePermsForRole(d, r)
<1>1. \A n : ResolveRole(c, n) = ResolveRole(d, n)
  BY DEF ResolveRole
<1>2. \A n : ResolvePerms(c, n) = ResolvePerms(d, n)
  BY <1>1 DEF ResolvePerms
<1>3. \A n, p : Has(c, n, p) <=> Has(d, n, p)
  BY <1>2 DEF Has
<1>4. QED
  BY <1>3 DEF HasRole, ResolvePermsForRole

\* However changes, snapshots and their application interleave: when the last
\* snapshot has arrived and its Config has not changed since, the other node
\* answers every question as that Config does, unless a part of it is empty.
THEOREM ReplicaInStep == PermSpec => []SyncedUnlessEmpty
<1> DEFINE Inv == SharedInv /\ SyncInv
<1>1. PermInit => Inv
  BY InitShared, InitSync
<1>2. Inv /\ [PermNext]_permVars => Inv'
  BY NextShared, NextSync
<1>3. Inv => SyncedUnlessEmpty
  <2> SUFFICES ASSUME Inv, synced # "none", wire = <<>>
               PROVE  LET c == conf[synced]
                      IN  \/ c.perms = {} \/ c.nodes = <<>> \/ c.roles = <<>>
                          \/ /\ \A n \in Members, p \in Perms : Has(replica, n, p) <=> Has(c, n, p)
                             /\ \A r \in Roles :
                                  /\ HasRole(replica, r) <=> HasRole(c, r)
                                  /\ ResolvePermsForRole(replica, r) = ResolvePermsForRole(c, r)
    BY DEF SyncedUnlessEmpty
  <2> DEFINE c == conf[synced]
  <2>1. \/ c.perms = {} \/ c.nodes = <<>> \/ c.roles = <<>>
        \/ /\ replica.role = c.role /\ replica.perms = c.perms
           /\ replica.nodes = c.nodes /\ replica.roles = c.roles
    <3>1. <<c>> # <<>>
      OBVIOUS
    <3>2. QED
      BY <3>1 DEF SyncInv
  <2> HIDE DEF c
  <2>2. \/ c.perms = {} \/ c.nodes = <<>> \/ c.roles = <<>>
        \/ /\ \A n \in Members, p \in Perms : Has(replica, n, p) <=> Has(c, n, p)
           /\ \A r \in Roles : /\ HasRole(replica, r) <=> HasRole(c, r)
                               /\ ResolvePermsForRole(replica, r) = ResolvePermsForRole(c, r)
    BY <2>1, SameAnswers
  <2>3. QED
    BY <2>2 DEF c
<1>4. QED
  BY <1>1, <1>2, <1>3, PTL DEF PermSpec

-----------------------------------------------------------------------------
(* The types of the shared Configs and of the replica *)

ConfigTypes ==
  /\ conf \in [Handlers -> Contents] /\ replica \in Contents
  /\ wire \in Seq(Contents)
  /\ synced \in Handlers \cup {"none"} /\ changes \in 0..MaxChanges

LEMMA ChangeTyped ==
  ASSUME SharedTypes, ConfigTypes, NEW h \in Handlers, NEW c \in Contents, Change(h, c)
  PROVE  ConfigTypes'
<1>1. inst[h] \in Handlers
  BY DEF Change, SharedTypes
<1>2. conf' = [conf EXCEPT ![inst[h]] = c] /\ UNCHANGED <<replica, wire>>
  BY DEF Change
<1>3. /\ synced' = (IF synced = inst[h] THEN "none" ELSE synced)
      /\ changes < MaxChanges /\ changes' = changes + 1
  BY DEF Change
<1>4. changes' \in 0..MaxChanges
  BY <1>3, PermAssumption DEF ConfigTypes
<1> QED BY <1>1, <1>2, <1>3, <1>4 DEF ConfigTypes

LEMMA NextConfigTypes == SharedTypes /\ ConfigTypes /\ [PermNext]_permVars => ConfigTypes'
<1> SUFFICES ASSUME SharedTypes, ConfigTypes, [PermNext]_permVars PROVE ConfigTypes'
  OBVIOUS
<1>1. CASE UNCHANGED <<conf, replica, wire, synced, changes>>
  BY <1>1 DEF ConfigTypes
<1>2. ASSUME NEW h \in Handlers, LoadOrStore(h) PROVE ConfigTypes'
  <2>1. NewConfig(Settings[cfgOf[h]]) \in Contents
    BY LoadedContents DEF SharedTypes
  <2>2. /\ conf' = [conf EXCEPT ![h] = NewConfig(Settings[cfgOf[h]])]
        /\ UNCHANGED <<replica, wire, synced, changes>>
    BY <1>2 DEF LoadOrStore
  <2>3. conf' \in [Handlers -> Contents]
    BY <2>1, <2>2 DEF ConfigTypes
  <2>4. QED
    BY <2>2, <2>3 DEF ConfigTypes
<1>3. ASSUME NEW h \in Handlers, Snapshot(h) PROVE ConfigTypes'
  <2>1. inst[h] \in Handlers
    BY <1>3 DEF Snapshot, SharedTypes
  <2>2. wire' = <<conf[inst[h]]>> /\ conf[inst[h]] \in Contents
    BY <1>3, <2>1 DEF Snapshot, ConfigTypes
  <2>3. wire' \in Seq(Contents)
    BY <2>2
  <2>4. QED
    BY <1>3, <2>1, <2>3 DEF Snapshot, ConfigTypes
<1>4. ASSUME NEW h \in Handlers, NEW n \in Members, NEW r \in Roles \cup {""},
             NEW p \in SUBSET Perms, UpsertNode(h, n, r, p)
      PROVE  ConfigTypes'
  <2>1. inst[h] \in Handlers
    BY <1>4 DEF UpsertNode, Change, SharedTypes
  <2> DEFINE c == conf[inst[h]]
  <2>2. c \in Contents
    BY <2>1 DEF ConfigTypes
  <2>3. CASE r = ""
    <3>1. Change(h, [c EXCEPT !.nodes = Without(@, {n})])
      BY <1>4, <2>3 DEF UpsertNode
    <3>2. [c EXCEPT !.nodes = Without(@, {n})] \in Contents
      BY <2>2, UpsertContents
    <3>3. QED
      BY <3>1, <3>2, ChangeTyped
  <2>4. CASE r # ""
    <3> DEFINE d == [c EXCEPT !.nodes = With(@, n, r), !.roles = IF p = {} THEN @ ELSE With(@, r, p)]
    <3>1. Change(h, d)
      BY <1>4, <2>4 DEF UpsertNode
    <3>2. d \in Contents
      BY <2>2, <2>4, UpsertContents
    <3> HIDE DEF d
    <3>3. QED
      BY <3>1, <3>2, ChangeTyped
  <2>5. QED
    BY <2>3, <2>4
<1>5. ASSUME NEW h \in Handlers, NEW ids \in SUBSET Members, InvalidateNodes(h, ids)
      PROVE  ConfigTypes'
  <2>1. inst[h] \in Handlers
    BY <1>5 DEF InvalidateNodes, Change, SharedTypes
  <2>2. conf[inst[h]] \in Contents
    BY <2>1 DEF ConfigTypes
  <2> DEFINE d == [conf[inst[h]] EXCEPT !.nodes = IF ids = {} THEN <<>> ELSE Without(@, ids)]
  <2>3. Change(h, d)
    BY <1>5 DEF InvalidateNodes
  <2>4. d \in Contents
    BY <2>2, InvalidateContents
  <2> HIDE DEF d
  <2>5. QED
    BY <2>3, <2>4, ChangeTyped
<1>6. CASE ApplySnapshot
  <2>1. /\ wire # <<>> /\ wire' = <<>> /\ replica' = Applied(replica, Head(wire))
        /\ UNCHANGED <<conf, synced, changes>>
    BY <1>6 DEF ApplySnapshot
  <2>2. Head(wire) \in Contents
    BY <2>1 DEF ConfigTypes
  <2>3. replica' \in Contents
    BY <2>1, <2>2, AppliedContents DEF ConfigTypes
  <2>4. wire' \in Seq(Contents)
    BY <2>1
  <2>5. QED
    BY <2>1, <2>3, <2>4 DEF ConfigTypes
<1>7. QED
  BY <1>1, <1>2, <1>3, <1>4, <1>5, <1>6 DEF PermNext, permVars, LookUp

\* Every Config, the replica included, maps nodes to roles and roles to permissions,
\* whatever the core configs say, however they are changed and copied.
THEOREM PermTypeCorrect == PermSpec => []PermTypeOK
<1> DEFINE Inv == SharedInv /\ ConfigTypes
<1>1. PermInit => Inv
  <2> SUFFICES ASSUME PermInit PROVE ConfigTypes
    BY InitShared
  <2>1. conf = [h \in Handlers |-> Base] /\ replica = NewConfig(<<>>)
    BY DEF PermInit
  <2>2. wire = <<>> /\ synced = "none" /\ changes = 0
    BY DEF PermInit
  <2>3. wire \in Seq(Contents) /\ Len(wire) = 0
    BY <2>2
  <2>4. QED
    BY <2>1, <2>2, <2>3, BaseContents, FirstReplica, PermAssumption DEF ConfigTypes
<1>2. Inv /\ [PermNext]_permVars => Inv'
  BY NextShared, NextConfigTypes DEF SharedInv
<1>3. Inv => PermTypeOK
  <2> SUFFICES ASSUME SharedTypes, ConfigTypes PROVE PermTypeOK
    BY DEF SharedInv
  <2>1. \A c \in {conf[h] : h \in Handlers} \cup {replica} : c \in Contents
    BY DEF ConfigTypes
  <2>2. ASSUME NEW c \in Contents
        PROVE  /\ c.role \in Roles /\ c.perms \subseteq Perms
               /\ DOMAIN c.nodes \subseteq Members /\ DOMAIN c.roles \subseteq Roles
               /\ \A n \in DOMAIN c.nodes : c.nodes[n] \in Roles
               /\ \A r \in DOMAIN c.roles : c.roles[r] \subseteq Perms
    <3>1. /\ c.role \in Roles /\ c.perms \in SUBSET Perms
          /\ c.nodes \in MapOf(Members, Roles) /\ c.roles \in MapOf(Roles, SUBSET Perms)
      BY DEF Contents
    <3>2. DOMAIN c.nodes \in SUBSET Members /\ c.nodes \in [DOMAIN c.nodes -> Roles]
      BY <3>1, MapElim
    <3>3. DOMAIN c.roles \in SUBSET Roles /\ c.roles \in [DOMAIN c.roles -> SUBSET Perms]
      BY <3>1, MapElim
    <3>4. QED
      BY <3>1, <3>2, <3>3
  <2>3. QED
    BY <2>1, <2>2 DEF PermTypeOK, SharedTypes, ConfigTypes
<1> HIDE DEF Inv
<1>4. QED
  BY <1>1, <1>2, <1>3, PTL DEF PermSpec
=============================================================================
