-------------------------- MODULE Routing_proofs --------------------------
(***************************************************************************)
(* Proofs about Routing for every tree of hubs, every set of frames, any   *)
(* number of link losses and drops, and any bind, right or wrong.          *)
(***************************************************************************)
EXTENDS Routing, TLAPS, FiniteSetTheorems

\* Hubs are connected along the tree only: a connection is removed, never made
\* between hubs of which neither is the other's parent.
OnTree == \A n, m \in Nodes : <<n, m>> \in links => parentOf[n] = m \/ parentOf[m] = n

-----------------------------------------------------------------------------
(* One hub *)

LEMMA HopOfType == ASSUME NEW h \in Nat PROVE HopOf(h) \in Nat /\ HopOf(h) >= 1
BY RoutingAssumption DEF HopOf

\* Copies only go to connected hubs, and only when more than one hop is left.
LEMMA CopiesLinked ==
  ASSUME TypeOK, NEW p \in flight, NEW m \in Copies(p)
  PROVE  m \in Nodes /\ <<p.at, m>> \in links /\ HopOf(p.hop) > 1
<1>1. links \subseteq Nodes \X Nodes
  BY DEF TypeOK, Links
<1>2. HopAvailable(p.hop)
  BY DEF Copies
<1>3. m \in BroadcastTo(p) \/ m \in ForwardTo(p)
  <2>1. CASE Decide(p) = "broadcast"
    BY <1>2, <2>1 DEF Copies
  <2>2. CASE Decide(p) = "forward"
    BY <1>2, <2>2 DEF Copies
  <2>3. CASE Decide(p) \notin {"broadcast", "forward"}
    BY <1>2, <2>3 DEF Copies
  <2> QED BY <2>1, <2>2, <2>3
<1>4. <<p.at, m>> \in links
  BY <1>3 DEF BroadcastTo, ForwardTo
<1> QED BY <1>1, <1>2, <1>4 DEF HopAvailable

\* What one reception leaves in flight: what was there, and copies of p.
LEMMA RouteFlight ==
  ASSUME TypeOK, NEW p \in flight, Route(p), NEW q \in flight', q \notin flight
  PROVE  \E m \in Copies(p) : q = Forwarded(p, m)
BY DEF Route

\* A copy is a packet with one hop less and one forward more.
LEMMA ForwardedFields ==
  ASSUME TypeOK, NEW p \in flight, NEW m \in Copies(p)
  PROVE  /\ Forwarded(p, m) \in Packet
         /\ Forwarded(p, m).f = p.f /\ Forwarded(p, m).at = m /\ Forwarded(p, m).from = p.at
         /\ Forwarded(p, m).hop = HopOf(p.hop) - 1
         /\ Forwarded(p, m).used = p.used + 1
<1>1. p \in Packet
  BY DEF TypeOK
<1>2. p.f \in Frames /\ p.hop \in Nat /\ p.used \in Nat /\ p.at \in Nodes
  BY <1>1 DEF Packet
<1>3. HopOf(p.hop) - 1 \in Nat /\ p.used + 1 \in Nat
  BY <1>2, HopOfType
<1>4. m \in Nodes
  BY CopiesLinked
<1> QED BY <1>2, <1>3, <1>4 DEF Forwarded, Packet

-----------------------------------------------------------------------------
(* Types *)

LEMMA InitType == Init => TypeOK
BY RoutingAssumption DEF Init, TypeOK, Links, Packet

LEMMA VisitType ==
  ASSUME TypeOK, NEW p \in flight, Visit(p)
  PROVE  visits' \in [Frames -> [Nodes -> Nat]]
<1>1. p.f \in Frames /\ p.at \in Nodes
  BY DEF TypeOK, Packet
<1>2. visits \in [Frames -> [Nodes -> Nat]]
  BY DEF TypeOK
<1> QED BY <1>1, <1>2 DEF Visit

LEMMA TypeStep == TypeOK /\ [Next]_vars => TypeOK'
<1> SUFFICES ASSUME TypeOK, [Next]_vars PROVE TypeOK'
  OBVIOUS
<1> USE RoutingAssumption
<1>1. ASSUME NEW f \in Frames, NEW n \in Nodes, NEW m \in Nodes, Send(f, n, m) PROVE TypeOK'
  <2>1. hdr[f].hop \in Nat
    OBVIOUS
  <2>2. [f |-> f, hop |-> HopOf(hdr[f].hop), used |-> 0, at |-> m, from |-> n] \in Packet
    BY <2>1, HopOfType DEF Packet
  <2> QED BY <1>1, <2>2 DEF TypeOK, Send, hist
<1>2. ASSUME NEW p \in flight, NoHandler(p) PROVE TypeOK'
  BY <1>2, VisitType DEF TypeOK, NoHandler, Stops, Visit
<1>3. ASSUME NEW p \in flight, Mismatch(p) PROVE TypeOK'
  BY <1>3, VisitType DEF TypeOK, Mismatch, Stops, Visit
<1>4. ASSUME NEW p \in flight, Route(p) PROVE TypeOK'
  <2>1. flight' \subseteq Packet
    BY <1>4, RouteFlight, ForwardedFields DEF TypeOK
  <2>2. visits' \in [Frames -> [Nodes -> Nat]] /\ UNCHANGED <<links, index, sent, churn, lost>>
    <3>1. Visit(p)
      BY <1>4 DEF Route
    <3> QED BY <3>1, VisitType DEF Visit
  <2>3. handled' \in [Frames -> [Nodes -> Nat]]
    <3>1. p.f \in Frames /\ p.at \in Nodes /\ handled \in [Frames -> [Nodes -> Nat]]
      BY DEF TypeOK, Packet
    <3> QED BY <1>4, <3>1 DEF Route
  <2> QED BY <2>1, <2>2, <2>3 DEF TypeOK
<1>5. ASSUME NEW n \in Nodes, NEW m \in Nodes, LoseLink(n, m) PROVE TypeOK'
  <2>1. index' \in [Nodes -> [Nodes -> Ids]]
    BY <1>5 DEF TypeOK, LoseLink, Ids
  <2>2. links' \subseteq Links /\ churn' \in Nat /\ flight' \subseteq Packet
    BY <1>5 DEF TypeOK, LoseLink
  <2>3. UNCHANGED <<sent, lost, visits, handled>>
    BY <1>5 DEF LoseLink, hist
  <2> QED BY <2>1, <2>2, <2>3 DEF TypeOK
<1>6. ASSUME NEW n \in Nodes, NEW m \in Nodes, NEW t \in Nodes, Bind(n, t, m) PROVE TypeOK'
  <2>1. index' \in [Nodes -> [Nodes -> Ids]]
    BY <1>6 DEF TypeOK, Bind, Ids
  <2> QED BY <1>6, <2>1 DEF TypeOK, Bind, hist
<1>7. ASSUME NEW p \in flight, Drop(p) PROVE TypeOK'
  BY <1>7 DEF TypeOK, Drop, Packet, hist
<1>8. CASE UNCHANGED vars
  BY <1>8 DEF TypeOK, vars, hist
<1> QED BY <1>1, <1>2, <1>3, <1>4, <1>5, <1>6, <1>7, <1>8 DEF Next, Receive

\* The routing state keeps its types; in particular a hop limit in flight is
\* never negative.
THEOREM TypeCorrect == Spec => []TypeOK
BY InitType, TypeStep, PTL DEF Spec

-----------------------------------------------------------------------------
(* The hop budget *)

LEMMA HopStep == TypeOK /\ HopBudget /\ [Next]_vars => HopBudget'
<1> SUFFICES ASSUME TypeOK, HopBudget, [Next]_vars, NEW q \in flight', q \notin flight
             PROVE  q.hop >= 1 /\ q.hop + q.used = HopOf(hdr[q.f].hop)
  BY DEF HopBudget
<1>1. ASSUME NEW f \in Frames, NEW n \in Nodes, NEW m \in Nodes, Send(f, n, m)
      PROVE  q.hop >= 1 /\ q.hop + q.used = HopOf(hdr[q.f].hop)
  <2>1. hdr[f].hop \in Nat
    BY RoutingAssumption
  <2>2. q = [f |-> f, hop |-> HopOf(hdr[f].hop), used |-> 0, at |-> m, from |-> n]
    BY <1>1 DEF Send
  <2> QED BY <2>1, <2>2, HopOfType
<1>2. ASSUME NEW p \in flight, Route(p)
      PROVE  q.hop >= 1 /\ q.hop + q.used = HopOf(hdr[q.f].hop)
  <2>1. PICK m \in Copies(p) : q = Forwarded(p, m)
    BY <1>2, RouteFlight
  <2>2. q.f = p.f /\ q.hop = HopOf(p.hop) - 1 /\ q.used = p.used + 1
    BY <2>1, ForwardedFields
  <2>3. p.hop \in Nat /\ p.used \in Nat /\ HopOf(p.hop) > 1 /\ HopOf(p.hop) \in Nat
    BY CopiesLinked, HopOfType DEF TypeOK, Packet
  <2>4. HopOf(p.hop) = p.hop /\ p.hop + p.used = HopOf(hdr[p.f].hop)
    BY <2>3 DEF HopBudget, HopOf
  <2> QED BY <2>2, <2>3, <2>4
<1>3. ASSUME NEW p \in flight, NoHandler(p) \/ Mismatch(p) PROVE FALSE
  BY <1>3 DEF NoHandler, Mismatch, Stops
<1>4. ASSUME NEW n \in Nodes, NEW m \in Nodes, LoseLink(n, m) PROVE FALSE
  BY <1>4 DEF LoseLink
<1>5. ASSUME NEW n \in Nodes, NEW m \in Nodes, NEW t \in Nodes, Bind(n, t, m) PROVE FALSE
  BY <1>5 DEF Bind
<1>6. ASSUME NEW p \in flight, Drop(p) PROVE FALSE
  BY <1>6 DEF Drop
<1>7. CASE UNCHANGED vars
  BY <1>7 DEF vars
<1> QED BY <1>1, <1>2, <1>3, <1>4, <1>5, <1>6, <1>7 DEF Next, Receive

\* PreRoute bounds forwarding for every topology and every content of the
\* indexes: hops left and forwards made add up to the limit the frame began with,
\* and at least one hop is left.
THEOREM HopLimitBoundsForwarding == Spec => []HopBudget
<1>1. Init => TypeOK /\ HopBudget
  BY InitType DEF Init, HopBudget
<1>2. TypeOK /\ HopBudget /\ [Next]_vars => (TypeOK /\ HopBudget)'
  BY TypeStep, HopStep
<1> QED BY <1>1, <1>2, PTL DEF Spec

-----------------------------------------------------------------------------
(* Broadcasts *)

LEMMA OnTreeStep == OnTree /\ [Next]_vars => OnTree'
<1> SUFFICES ASSUME OnTree, [Next]_vars, NEW n \in Nodes, NEW m \in Nodes, <<n, m>> \in links'
             PROVE  parentOf[n] = m \/ parentOf[m] = n
  BY DEF OnTree
<1>1. <<n, m>> \in links
  BY DEF Next, Send, Receive, NoHandler, Mismatch, Stops, Route, Visit, Drop, LoseLink, Bind, vars
<1> QED BY <1>1 DEF OnTree

LEMMA DownStep == TypeOK /\ OnTree /\ BroadcastGoesDown /\ [Next]_vars => BroadcastGoesDown'
<1> SUFFICES ASSUME TypeOK, OnTree, BroadcastGoesDown, [Next]_vars, NEW q \in flight',
                    q \notin flight, hdr[q.f].tgt = None, q.used > 0
             PROVE  parentOf[q.at] = q.from
  BY DEF BroadcastGoesDown
<1>1. ASSUME NEW f \in Frames, NEW n \in Nodes, NEW m \in Nodes, Send(f, n, m) PROVE FALSE
  BY <1>1 DEF Send
<1>2. ASSUME NEW p \in flight, Route(p) PROVE parentOf[q.at] = q.from
  <2>1. PICK m \in Copies(p) : q = Forwarded(p, m)
    BY <1>2, RouteFlight
  <2>2. q.f = p.f /\ q.at = m /\ q.from = p.at
    BY <2>1, ForwardedFields
  <2>3. hdr[p.f].tgt = None
    BY <2>2
  <2>4. Decide(p) # "forward"
    BY <2>3 DEF Decide
  <2>5. m \in BroadcastTo(p)
    BY <2>4 DEF Copies
  <2>6. <<p.at, m>> \in links /\ m # parentOf[p.at] /\ m \in Nodes /\ p.at \in Nodes
    BY <2>5, CopiesLinked DEF BroadcastTo, TypeOK, Packet
  <2> QED BY <2>2, <2>6 DEF OnTree
<1>3. ASSUME NEW p \in flight, NoHandler(p) \/ Mismatch(p) PROVE FALSE
  BY <1>3 DEF NoHandler, Mismatch, Stops
<1>4. ASSUME NEW n \in Nodes, NEW m \in Nodes, LoseLink(n, m) PROVE FALSE
  BY <1>4 DEF LoseLink
<1>5. ASSUME NEW n \in Nodes, NEW m \in Nodes, NEW t \in Nodes, Bind(n, t, m) PROVE FALSE
  BY <1>5 DEF Bind
<1>6. ASSUME NEW p \in flight, Drop(p) PROVE FALSE
  BY <1>6 DEF Drop
<1>7. CASE UNCHANGED vars
  BY <1>7 DEF vars
<1> QED BY <1>1, <1>2, <1>3, <1>4, <1>5, <1>6, <1>7 DEF Next, Receive

\* handleBroadcast never sends a broadcast up: in every tree, every copy of a
\* broadcast travels from a parent to its child.
THEOREM BroadcastsDescend == Spec => []BroadcastGoesDown
<1>1. Init => TypeOK /\ OnTree /\ BroadcastGoesDown
  BY InitType, RoutingAssumption DEF Init, OnTree, BroadcastGoesDown
<1>2. TypeOK /\ OnTree /\ BroadcastGoesDown /\ [Next]_vars => (TypeOK /\ OnTree /\ BroadcastGoesDown)'
  BY TypeStep, OnTreeStep, DownStep
<1> QED BY <1>1, <1>2, PTL DEF Spec

-----------------------------------------------------------------------------
(* Nothing is duplicated: the inductive invariant *)

Addressed(f) == Msg(f) /\ hdr[f].tgt # None
Broadcast(f) == hdr[f].tgt = None

\* A frame that was not sent has left no trace.
Unsent ==
  \A f \in Frames : f \notin sent =>
    /\ \A p \in flight : p.f # f
    /\ \A n \in Nodes : visits[f][n] = 0 /\ handled[f][n] = 0

\* A frame for one node is in one place, and nowhere once it was handled.
Single(f) ==
  /\ \A p, q \in flight : (p.f = f /\ q.f = f) => p = q
  /\ \A n \in Nodes : handled[f][n] > 0 =>
       n = hdr[f].tgt /\ handled[f][n] = 1 /\ \A p \in flight : p.f # f

\* The hub has got the broadcast f, or a copy is on its way there.
Reached(f, n) == visits[f][n] > 0 \/ \E p \in flight : p.f = f /\ p.at = n

\* A broadcast starts at one hub; every other hub it has reached lies deeper in
\* the tree and has it from its parent, which has been visited.
StartsAt(f, top, depth) ==
  \A n \in Nodes : Reached(f, n) =>
    \/ n = top
    \/ parentOf[n] \in Nodes /\ visits[f][parentOf[n]] > 0 /\ depth[n] > depth[top]

\* A hub gets one copy: on its way or received.
OneEach(f) ==
  /\ \A p, q \in flight : (p.f = f /\ q.f = f /\ p.at = q.at) => p = q
  /\ \A p \in flight : p.f = f => visits[f][p.at] = 0
  /\ \A n \in Nodes : visits[f][n] <= 1

IsDepth(depth) ==
  /\ depth \in [Nodes -> Nat]
  /\ \A n \in Nodes : parentOf[n] # None => depth[n] = depth[parentOf[n]] + 1

Spread(f) == OneEach(f) /\ \E top \in Nodes, depth \in [Nodes -> Nat] :
                             IsDepth(depth) /\ StartsAt(f, top, depth)

Apart == /\ Unsent
         /\ \A f \in Frames : Addressed(f) => Single(f)
         /\ \A f \in Frames : Broadcast(f) => Spread(f)

-----------------------------------------------------------------------------
(* What a reception does *)

LEMMA Reception ==
  ASSUME TypeOK, NEW p \in flight, NoHandler(p) \/ Mismatch(p) \/ Route(p)
  PROVE  /\ p.f \in Frames /\ p.at \in Nodes /\ sent' = sent
         /\ \A f \in Frames, n \in Nodes :
              visits'[f][n] = IF f = p.f /\ n = p.at THEN visits[f][n] + 1 ELSE visits[f][n]
         /\ \A q \in flight' : (q \in flight /\ q # p) \/ \E m \in Copies(p) : q = Forwarded(p, m)
         /\ \A f \in Frames, n \in Nodes :
              \/ handled'[f][n] = handled[f][n]
              \/ f = p.f /\ n = p.at /\ CallsHandler(p) /\ handled'[f][n] = handled[f][n] + 1
<1>1. p.f \in Frames /\ p.at \in Nodes
  BY DEF TypeOK, Packet
<1>2. visits \in [Frames -> [Nodes -> Nat]] /\ handled \in [Frames -> [Nodes -> Nat]]
  BY DEF TypeOK
<1>3. Visit(p)
  BY DEF NoHandler, Mismatch, Stops, Route
<1>4. \A q \in flight' : (q \in flight /\ q # p) \/ \E m \in Copies(p) : q = Forwarded(p, m)
  BY DEF NoHandler, Mismatch, Stops, Route
<1>5. handled' = handled \/ (CallsHandler(p) /\ handled' = [handled EXCEPT ![p.f][p.at] = @ + 1])
  BY DEF NoHandler, Mismatch, Stops, Route
<1>6. \A f \in Frames, n \in Nodes :
        visits'[f][n] = IF f = p.f /\ n = p.at THEN visits[f][n] + 1 ELSE visits[f][n]
  BY <1>1, <1>2, <1>3 DEF Visit
<1>7. \A f \in Frames, n \in Nodes :
        \/ handled'[f][n] = handled[f][n]
        \/ f = p.f /\ n = p.at /\ CallsHandler(p) /\ handled'[f][n] = handled[f][n] + 1
  BY <1>1, <1>2, <1>5
<1> QED BY <1>1, <1>3, <1>4, <1>6, <1>7 DEF Visit

\* A frame for one node moves to one place, or is handled at its target.
LEMMA AddressedMoves ==
  ASSUME TypeOK, NEW p \in flight, Addressed(p.f)
  PROVE  /\ \A m, k \in Copies(p) : m = k
         /\ CallsHandler(p) => p.at = hdr[p.f].tgt /\ Copies(p) = {}
<1>1. ~hdr[p.f].cmd /\ ~hdr[p.f].auth /\ hdr[p.f].tgt # None
  BY DEF Addressed, Msg
<1>2. Decide(p) \in {"drop", "forward", "local"} /\ (Decide(p) = "local" => hdr[p.f].tgt = p.at)
  BY <1>1 DEF Decide
<1>3. Copies(p) \subseteq ForwardTo(p) /\ (Decide(p) # "forward" => Copies(p) = {})
  BY <1>2 DEF Copies
<1>4. \A m, k \in NextLink(p) : m = k
  BY DEF NextLink
<1>5. \A m, k \in Copies(p) : m = k
  BY <1>3, <1>4 DEF ForwardTo
<1>6. CallsHandler(p) => Decide(p) = "local"
  BY <1>1, <1>2 DEF CallsHandler
<1> QED BY <1>2, <1>3, <1>5, <1>6

\* A broadcast is only copied to children.
LEMMA BroadcastCopies ==
  ASSUME TypeOK, OnTree, NEW p \in flight, Broadcast(p.f), NEW m \in Copies(p)
  PROVE  m \in Nodes /\ parentOf[m] = p.at
<1>1. Decide(p) # "forward"
  BY DEF Decide, Broadcast
<1>2. m \in BroadcastTo(p)
  BY <1>1 DEF Copies
<1>3. m \in Nodes /\ p.at \in Nodes /\ <<p.at, m>> \in links /\ m # parentOf[p.at]
  BY <1>2 DEF BroadcastTo, TypeOK, Packet
<1> QED BY <1>3 DEF OnTree

-----------------------------------------------------------------------------
(* Nothing is duplicated: the steps *)

\* What a step that is no reception can do to the frames in flight: one frame
\* is sent for the first time, or some are dropped or lost with their connection.
LEMMA OtherSteps ==
  ASSUME TypeOK, [Next]_vars,
         ~ \E p \in flight : NoHandler(p) \/ Mismatch(p) \/ Route(p)
  PROVE  /\ visits' = visits /\ handled' = handled
         /\ \/ flight' \subseteq flight /\ sent' = sent
            \/ \E f \in Frames \ sent, q \in Packet :
                 q.f = f /\ flight' = flight \cup {q} /\ sent' = sent \cup {f}
<1> USE RoutingAssumption DEF hist
<1>1. ASSUME NEW f \in Frames, NEW n \in Nodes, NEW m \in Nodes, Send(f, n, m)
      PROVE  /\ visits' = visits /\ handled' = handled
             /\ \E q \in Packet : q.f = f /\ flight' = flight \cup {q} /\ sent' = sent \cup {f}
             /\ f \notin sent
  <2> DEFINE q == [f |-> f, hop |-> HopOf(hdr[f].hop), used |-> 0, at |-> m, from |-> n]
  <2>1. hdr[f].hop \in Nat
    OBVIOUS
  <2>2. q \in Packet
    BY <2>1, HopOfType DEF Packet
  <2> QED BY <1>1, <2>2 DEF Send
<1>2. ASSUME NEW n \in Nodes, NEW m \in Nodes, LoseLink(n, m)
      PROVE  visits' = visits /\ handled' = handled /\ flight' \subseteq flight /\ sent' = sent
  BY <1>2 DEF LoseLink
<1>3. ASSUME NEW n \in Nodes, NEW m \in Nodes, NEW t \in Nodes, Bind(n, t, m)
      PROVE  visits' = visits /\ handled' = handled /\ flight' = flight /\ sent' = sent
  BY <1>3 DEF Bind
<1>4. ASSUME NEW p \in flight, Drop(p)
      PROVE  visits' = visits /\ handled' = handled /\ flight' \subseteq flight /\ sent' = sent
  BY <1>4 DEF Drop
<1>5. CASE UNCHANGED vars
  BY <1>5 DEF vars
<1> QED BY <1>1, <1>2, <1>3, <1>4, <1>5 DEF Next, Receive

LEMMA UnsentStep == TypeOK /\ Unsent /\ [Next]_vars => Unsent'
<1> SUFFICES ASSUME TypeOK, Unsent, [Next]_vars, NEW f \in Frames, f \notin sent'
             PROVE  /\ \A p \in flight' : p.f # f
                    /\ \A n \in Nodes : visits'[f][n] = 0 /\ handled'[f][n] = 0
  BY DEF Unsent
<1>1. ASSUME NEW p \in flight, NoHandler(p) \/ Mismatch(p) \/ Route(p)
      PROVE  /\ \A q \in flight' : q.f # f
             /\ \A n \in Nodes : visits'[f][n] = 0 /\ handled'[f][n] = 0
  <2>1. f \notin sent /\ p.f # f
    BY <1>1, Reception DEF Unsent
  <2>2. \A q \in flight' : q.f # f
    BY <1>1, <2>1, Reception, ForwardedFields DEF Unsent
  <2>3. \A n \in Nodes : visits'[f][n] = visits[f][n] /\ handled'[f][n] = handled[f][n]
    BY <1>1, <2>1, Reception
  <2> QED BY <2>1, <2>2, <2>3 DEF Unsent
<1>2. CASE ~ \E p \in flight : NoHandler(p) \/ Mismatch(p) \/ Route(p)
  BY <1>2, OtherSteps DEF Unsent
<1> QED BY <1>1, <1>2

LEMMA SingleStep ==
  ASSUME TypeOK, Unsent, [Next]_vars, NEW f \in Frames, Addressed(f), Single(f)
  PROVE  Single(f)'
<1>0. handled \in [Frames -> [Nodes -> Nat]]
  BY DEF TypeOK
<1>1. ASSUME NEW p \in flight, NoHandler(p) \/ Mismatch(p) \/ Route(p), p.f = f
      PROVE  Single(f)'
  <2>1. \A q \in flight' : q.f = f => \E m \in Copies(p) : q = Forwarded(p, m)
    BY <1>1, Reception DEF Single
  <2>2. \A q, r \in flight' : (q.f = f /\ r.f = f) => q = r
    BY <1>1, <2>1, AddressedMoves
  <2>3. \A n \in Nodes : handled[f][n] = 0
    BY <1>0, <1>1 DEF Single
  <2>4. ASSUME NEW n \in Nodes, handled'[f][n] > 0
        PROVE  n = hdr[f].tgt /\ handled'[f][n] = 1 /\ \A q \in flight' : q.f # f
    <3>1. n = p.at /\ CallsHandler(p) /\ handled'[f][n] = 1
      BY <1>1, <2>3, <2>4, Reception
    <3> QED BY <1>1, <2>1, <3>1, AddressedMoves
  <2> QED BY <2>2, <2>4 DEF Single
<1>2. ASSUME NEW p \in flight, NoHandler(p) \/ Mismatch(p) \/ Route(p), p.f # f
      PROVE  Single(f)'
  <2>1. \A q \in flight' : q.f = f => q \in flight
    BY <1>2, Reception, ForwardedFields
  <2>2. \A n \in Nodes : handled'[f][n] = handled[f][n]
    BY <1>2, Reception
  <2> QED BY <2>1, <2>2 DEF Single
<1>3. CASE ~ \E p \in flight : NoHandler(p) \/ Mismatch(p) \/ Route(p)
  <2>1. CASE flight' \subseteq flight
    BY <1>3, <2>1, OtherSteps DEF Single
  <2>2. ASSUME NEW g \in Frames \ sent, NEW q \in Packet, q.f = g, flight' = flight \cup {q}
        PROVE  Single(f)'
    <3>1. handled' = handled
      BY <1>3, OtherSteps
    <3>2. CASE g = f
      BY <2>2, <3>1, <3>2 DEF Single, Unsent
    <3>3. CASE g # f
      BY <2>2, <3>1, <3>3 DEF Single
    <3> QED BY <3>2, <3>3
  <2> QED BY <1>3, <2>1, <2>2, OtherSteps
<1> QED BY <1>1, <1>2, <1>3

LEMMA SpreadStep ==
  ASSUME TypeOK, OnTree, Unsent, [Next]_vars, NEW f \in Frames, Broadcast(f), Spread(f)
  PROVE  Spread(f)'
<1>0. visits \in [Frames -> [Nodes -> Nat]] /\ \A p \in flight : p.at \in Nodes
  BY DEF TypeOK, Packet
<1>a. PICK top \in Nodes, depth \in [Nodes -> Nat] : IsDepth(depth) /\ StartsAt(f, top, depth)
  BY DEF Spread
<1>1. ASSUME NEW p \in flight, NoHandler(p) \/ Mismatch(p) \/ Route(p), p.f = f
      PROVE  Spread(f)'
  <2>0. p.at \in Nodes /\ \A n \in Nodes :
          visits'[f][n] = IF n = p.at THEN visits[f][n] + 1 ELSE visits[f][n]
    BY <1>1, Reception
  <2>1. \A q \in flight' : q.f = f =>
          (q \in flight /\ q # p) \/ \E m \in Copies(p) : q = Forwarded(p, m)
    BY <1>1, Reception
  <2>2. visits[f][p.at] = 0
    BY <1>1 DEF Spread, OneEach
  <2>3. ASSUME NEW m \in Copies(p)
        PROVE  m \in Nodes /\ parentOf[m] = p.at /\ ~Reached(f, m) /\ m # p.at
               /\ depth[m] > depth[top] /\ Forwarded(p, m).at = m
    <3>1. m \in Nodes /\ parentOf[m] = p.at /\ Forwarded(p, m).at = m
      BY <1>1, <2>3, BroadcastCopies, ForwardedFields
    <3>2. Reached(f, p.at)
      BY <1>1 DEF Reached
    <3>3. depth[p.at] >= depth[top] /\ depth[m] = depth[p.at] + 1
          /\ depth[p.at] \in Nat /\ depth[top] \in Nat /\ depth[m] \in Nat
      BY <1>a, <2>0, <3>1, <3>2, RoutingAssumption DEF StartsAt, IsDepth
    <3>4. m # top /\ m # p.at
      BY <3>3
    <3>5. ~Reached(f, m)
      BY <1>a, <2>2, <3>1, <3>4 DEF StartsAt
    <3> QED BY <3>1, <3>3, <3>4, <3>5
  <2>4. OneEach(f)'
    <3>1. \A q, r \in flight' : (q.f = f /\ r.f = f /\ q.at = r.at) => q = r
      BY <2>1, <2>3 DEF Spread, OneEach, Reached
    <3>2. ASSUME NEW q \in flight', q.f = f PROVE visits'[f][q.at] = 0
      <4>1. CASE q \in flight /\ q # p
        BY <1>0, <1>1, <2>0, <3>2, <4>1 DEF Spread, OneEach
      <4>2. ASSUME NEW m \in Copies(p), q = Forwarded(p, m) PROVE visits'[f][q.at] = 0
        BY <1>0, <2>0, <2>3, <4>2 DEF Reached
      <4> QED BY <2>1, <3>2, <4>1, <4>2
    <3>3. \A n \in Nodes : visits'[f][n] <= 1
      BY <1>0, <2>0, <2>2 DEF Spread, OneEach
    <3> QED BY <3>1, <3>2, <3>3 DEF OneEach
  <2>5. ASSUME NEW n \in Nodes, Reached(f, n)'
        PROVE  \/ n = top
               \/ parentOf[n] \in Nodes /\ visits'[f][parentOf[n]] > 0 /\ depth[n] > depth[top]
    <3>1. \A x \in Nodes : visits[f][x] > 0 => visits'[f][x] > 0
      BY <1>0, <2>0
    <3>2. CASE Reached(f, n)
      BY <1>a, <3>1, <3>2 DEF StartsAt
    <3>3. CASE ~Reached(f, n)
      <4>1. visits'[f][n] = 0
        BY <1>0, <1>1, <2>0, <3>3 DEF Reached
      <4>2. PICK m \in Copies(p) : n = m
        BY <2>1, <2>3, <2>5, <3>3, <4>1 DEF Reached
      <4> QED BY <1>0, <2>0, <2>3, <4>2
    <3> QED BY <3>2, <3>3
  <2>6. StartsAt(f, top, depth)'
    BY <2>5 DEF StartsAt
  <2> QED BY <1>a, <2>4, <2>6 DEF Spread, IsDepth
<1>2. ASSUME NEW p \in flight, NoHandler(p) \/ Mismatch(p) \/ Route(p), p.f # f
      PROVE  Spread(f)'
  <2>1. \A q \in flight' : q.f = f => q \in flight
    BY <1>2, Reception, ForwardedFields
  <2>2. \A n \in Nodes : visits'[f][n] = visits[f][n]
    BY <1>2, Reception
  <2>3. OneEach(f)'
    BY <1>0, <2>1, <2>2 DEF Spread, OneEach
  <2>4. StartsAt(f, top, depth)'
    BY <1>a, <2>1, <2>2 DEF StartsAt, Reached
  <2> QED BY <1>a, <2>3, <2>4 DEF Spread, IsDepth
<1>3. CASE ~ \E p \in flight : NoHandler(p) \/ Mismatch(p) \/ Route(p)
  <2>0. visits' = visits
    BY <1>3, OtherSteps
  <2>1. CASE flight' \subseteq flight
    <3>1. OneEach(f)'
      BY <2>0, <2>1 DEF Spread, OneEach
    <3>2. StartsAt(f, top, depth)'
      BY <1>a, <2>0, <2>1 DEF StartsAt, Reached
    <3> QED BY <1>a, <3>1, <3>2 DEF Spread, IsDepth
  <2>2. ASSUME NEW g \in Frames \ sent, NEW q \in Packet, q.f = g, flight' = flight \cup {q}
        PROVE  Spread(f)'
    <3>2. CASE g = f
      <4>1. q.at \in Nodes
        BY DEF Packet
      <4>2. \A n \in Nodes : visits'[f][n] = 0 /\ (Reached(f, n)' => n = q.at)
        BY <1>0, <2>0, <2>2, <3>2 DEF Unsent, Reached
      <4>3. OneEach(f)'
        BY <2>0, <2>2, <3>2, <4>1, <4>2 DEF OneEach, Unsent
      <4>4. StartsAt(f, q.at, depth)'
        BY <4>2 DEF StartsAt
      <4> QED BY <1>a, <4>1, <4>3, <4>4 DEF Spread, IsDepth
    <3>3. CASE g # f
      <4>1. OneEach(f)'
        BY <2>0, <2>2, <3>3 DEF Spread, OneEach
      <4>2. StartsAt(f, top, depth)'
        BY <1>a, <2>0, <2>2, <3>3 DEF StartsAt, Reached
      <4> QED BY <1>a, <4>1, <4>2 DEF Spread, IsDepth
    <3> QED BY <3>2, <3>3
  <2> QED BY <1>3, <2>1, <2>2, OtherSteps
<1> QED BY <1>1, <1>2, <1>3

LEMMA InitApart == Init => Apart
<1> SUFFICES ASSUME Init PROVE Apart
  OBVIOUS
<1>1. Unsent /\ \A f \in Frames : Single(f) /\ OneEach(f)
  BY DEF Init, Unsent, Single, OneEach
<1>2. ASSUME NEW f \in Frames, Broadcast(f) PROVE Spread(f)
  <2>1. \A n \in Nodes : ~Reached(f, n)
    BY DEF Init, Reached
  <2>2. PICK depth \in [Nodes -> 0..Cardinality(Nodes)] :
          \A n \in Nodes : parentOf[n] # None => depth[n] = depth[parentOf[n]] + 1
    BY TreeAssumption
  <2>3. 0..Cardinality(Nodes) \subseteq Nat
    BY TreeAssumption, FS_CardinalityType
  <2>4. depth \in [Nodes -> Nat] /\ IsDepth(depth)
    BY <2>2, <2>3 DEF IsDepth
  <2>5. PICK top \in Nodes : TRUE
    BY TreeAssumption
  <2>6. StartsAt(f, top, depth)
    BY <2>1 DEF StartsAt
  <2> QED BY <1>1, <2>4, <2>6 DEF Spread
<1> QED BY <1>1, <1>2 DEF Apart

\* Forwarding moves a frame and broadcasting spreads it over disjoint subtrees:
\* in every tree, with any links lost and any index, no hub receives a broadcast
\* twice, and a frame for one node is handled there alone and once.
THEOREM NothingDuplicated == Spec => []NeverDuplicated
<1>1. Init => TypeOK /\ OnTree /\ Apart
  BY InitType, InitApart, RoutingAssumption DEF Init, OnTree
<1>2. TypeOK /\ OnTree /\ Apart /\ [Next]_vars => (TypeOK /\ OnTree /\ Apart)'
  <2>1. TypeOK /\ OnTree /\ Apart /\ [Next]_vars => Apart'
    BY UnsentStep, SingleStep, SpreadStep DEF Apart, Addressed, Broadcast, Msg
  <2> QED BY <2>1, TypeStep, OnTreeStep
<1>3. TypeOK /\ Apart => NeverDuplicated
  <2> SUFFICES ASSUME TypeOK, Apart, NEW f \in Frames
               PROVE  /\ Broadcast(f) => \A n \in Nodes : visits[f][n] <= 1
                      /\ Addressed(f) => Cardinality({p \in flight : p.f = f}) <= 1
                      /\ Addressed(f) => \A n \in Nodes : handled[f][n] > 0 =>
                                            n = hdr[f].tgt /\ handled[f][n] = 1
    BY DEF NeverDuplicated, Broadcast, Addressed
  <2> DEFINE S == {p \in flight : p.f = f}
  <2>1. Broadcast(f) => \A n \in Nodes : visits[f][n] <= 1
    BY DEF Apart, Spread, OneEach
  <2>2. Addressed(f) => \A n \in Nodes : handled[f][n] > 0 =>
                          n = hdr[f].tgt /\ handled[f][n] = 1
    BY DEF Apart, Single
  <2>3. ASSUME Addressed(f) PROVE Cardinality(S) <= 1
    <3>1. CASE S = {}
      BY <3>1, FS_EmptySet
    <3>2. CASE S # {}
      <4>1. PICK p : S = {p}
        BY <2>3, <3>2 DEF Apart, Single
      <4> QED BY <4>1, FS_Singleton
    <3> QED BY <3>1, <3>2
  <2> QED BY <2>1, <2>2, <2>3
<1> QED BY <1>1, <1>2, <1>3, PTL DEF Spec
=============================================================================
