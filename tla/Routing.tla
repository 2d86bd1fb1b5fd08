------------------------------ MODULE Routing ------------------------------
(***************************************************************************)
(* What happens to frames in a tree of hubs: process.DispatcherProcess     *)
(* .route on every hub (handler lookup, source check, pre-routing, handler *)
(* call), HeaderRouter.Decide, and PreRoutingProcess with its forwarding   *)
(* to an indexed child, to a child known by its metadata or to the parent, *)
(* and its broadcast to the children.  A hub is named by its nodeID; a     *)
(* connection at n to m is the pair <<n, m>>.  Queues and workers are in   *)
(* Dispatcher, the tables of one hub in ConnManager: here a removal cleans *)
(* the index, and binds come from outside.                                 *)
(***************************************************************************)
EXTENDS Naturals, FiniteSets

CONSTANTS
  Nodes,       \* nodeIDs
  parentOf,    \* the parent a hub dials, None for the root
  Initial,     \* connections at the start
  Bound,       \* connections whose "nodeID" metadata is set (to the peer)
  Index0,      \* the routing indexes at the start
  Frames,      \* frame names
  hdr,         \* their headers [src, tgt, cmd, auth, hop]; None stands for ID 0
  firstHop,    \* the neighbours a frame may be sent to by its source
  Handles,     \* hubs with a handler, or a fallback, for each frame's sub-protocol
  AllowSourceMismatch, AcceptCmd,  \* frames whose handler declares it
  ForwardMode, \* hubs with forwarding enabled
  DefaultHop,  \* header.DefaultHopLimit
  Movable,     \* nodes whose index entries may be updated
  MaxFaults,   \* bound on link losses, index updates and frames no queue had room for
  None

Links == Nodes \X Nodes
Ids   == Nodes \cup {None}

ASSUME RoutingAssumption ==
  /\ None \notin Nodes
  /\ parentOf \in [Nodes -> Ids]
  /\ Initial \subseteq Links /\ Bound \subseteq Links
  /\ \A n, m \in Nodes : <<n, m>> \in Initial => parentOf[n] = m \/ parentOf[m] = n
  /\ Index0 \in [Nodes -> [Nodes -> Ids]]
  /\ hdr \in [Frames -> [src : Ids, tgt : Ids, cmd : BOOLEAN, auth : BOOLEAN, hop : Nat]]
  /\ firstHop \in [Frames -> SUBSET Nodes]
  /\ Handles \in [Frames -> SUBSET Nodes] /\ ForwardMode \subseteq Nodes
  /\ AllowSourceMismatch \subseteq Frames /\ AcceptCmd \subseteq Frames
  /\ Movable \subseteq Nodes /\ DefaultHop \in Nat /\ DefaultHop > 1
  /\ MaxFaults \in Nat

\* The parents a deployment configures make a tree: no hub is above itself.
ASSUME TreeAssumption ==
  /\ IsFiniteSet(Nodes) /\ Nodes # {}
  /\ \E depth \in [Nodes -> 0..Cardinality(Nodes)] :
        \A n \in Nodes : parentOf[n] # None => depth[n] = depth[parentOf[n]] + 1

VARIABLES
  links,     \* the connections each hub manages
  index,     \* the nodeIndex of each hub
  sent,      \* frames that were sent
  flight,    \* frames on their way: [f, hop, used, at, from]
  churn,     \* link losses and index updates so far
  lost,      \* frames of which a queue refused a copy
  visits,    \* history: receptions of each frame at each hub
  handled    \* history: handler calls for each frame at each hub

hist == <<visits, handled>>
vars == <<links, index, sent, flight, churn, lost, hist>>

Packet == [f : Frames, hop : Nat, used : Nat, at : Nodes, from : Nodes]

Init ==
  /\ links = Initial /\ index = Index0
  /\ sent = {} /\ flight = {} /\ churn = 0 /\ lost = {}
  /\ visits = [f \in Frames |-> [n \in Nodes |-> 0]]
  /\ handled = [f \in Frames |-> [n \in Nodes |-> 0]]

-----------------------------------------------------------------------------
(* One hub *)

\* GetByNode; nodeID 0 is never indexed.
GetByNode(n, id) == IF id = None THEN None ELSE index[n][id]

\* sourceMismatch
SourceMismatch(p) ==
  LET src == hdr[p.f].src IN
  /\ p.f \notin AllowSourceMismatch
  /\ \/ <<p.at, p.from>> \notin Bound
     \/ /\ src # p.from
        /\ parentOf[p.at] # p.from
        /\ GetByNode(p.at, src) # p.from

\* HeaderRouter.Decide
Decide(p) ==
  LET h == hdr[p.f] IN
  IF h.src = None /\ ~h.auth THEN "drop"
  ELSE IF h.auth \/ h.cmd THEN "hopDispatch"
  ELSE IF h.tgt = None THEN "broadcast"
  ELSE IF h.tgt # p.at THEN "forward"
  ELSE "local"

\* The hop limit a hub works with: 0 means not set.
HopOf(h) == IF h = 0 THEN DefaultHop ELSE h

\* Faulty variant: the last hop is spent on one more forward.
HopExhaustedLate(h) == HopOf(h) > 0

HopAvailable(h) == HopOf(h) > 1

\* Faulty variant: every connection gets a copy.
BroadcastEverywhere(p) == {m \in Nodes : <<p.at, m>> \in links}

\* handleBroadcast: every child but the one the frame came from.
BroadcastTo(p) ==
  {m \in Nodes : <<p.at, m>> \in links /\ m # p.from /\ m # parentOf[p.at]}

\* Faulty variant: the index of the children is not consulted.
UpOnly(p) == {parentOf[p.at]} \ {None, p.from}

\* forwardToLocalChild and forwardToParent: the connection a frame leaves on.
\* An indexed connection is taken whatever it is; one that is no longer managed
\* makes Send fail, and the frame is lost.
NextLink(p) ==
  LET t == hdr[p.f].tgt IN
  IF index[p.at][t] # None THEN {index[p.at][t]}
  ELSE IF <<p.at, t>> \in Bound \cap links THEN {t}
  ELSE IF parentOf[p.at] \notin {None, p.from} THEN {parentOf[p.at]}
  ELSE {}

ForwardTo(p) == {m \in NextLink(p) : <<p.at, m>> \in links}

\* PreRoute: where copies of the frame go.
Copies(p) ==
  IF p.at \notin ForwardMode \/ ~HopAvailable(p.hop) THEN {}
  ELSE CASE Decide(p) = "broadcast" -> BroadcastTo(p)
         [] Decide(p) = "forward"   -> ForwardTo(p)
         [] OTHER                   -> {}

\* cloneForForward and the send to hub m.
Forwarded(p, m) == [f |-> p.f, hop |-> HopOf(p.hop) - 1, used |-> p.used + 1,
                    at |-> m, from |-> p.at]

\* Faulty variant: the handler is called whatever PreRoute answers.
CallsAlways(p) == TRUE

\* route: PreRoute says continue, or shouldInterceptCmd.
CallsHandler(p) ==
  \/ Decide(p) \in {"hopDispatch", "local"}
  \/ hdr[p.f].cmd /\ p.f \in AcceptCmd

-----------------------------------------------------------------------------
(* Steps *)

\* Server.Send by a handler or client at n to a neighbour.
Send(f, n, m) ==
  /\ f \notin sent /\ <<n, m>> \in links /\ m \in firstHop[f]
  /\ hdr[f].src \in {n, None}
  /\ sent' = sent \cup {f}
  /\ flight' = flight \cup {[f |-> f, hop |-> HopOf(hdr[f].hop), used |-> 0,
                             at |-> m, from |-> n]}
  /\ UNCHANGED <<links, index, churn, lost, hist>>

Visit(p) ==
  /\ visits' = [visits EXCEPT ![p.f][p.at] = @ + 1]
  /\ UNCHANGED <<links, index, sent, churn, lost>>

\* Faulty variant: the refused frame is kept.
StopsNot(p) == p \in flight /\ UNCHANGED vars

\* route stops before pre-routing: no handler, or the source check fails.
Stops(p) ==
  /\ p \in flight
  /\ flight' = flight \ {p}
  /\ Visit(p)
  /\ UNCHANGED handled

NoHandler(p) == p.at \notin Handles[p.f] /\ Stops(p)

Mismatch(p) == p.at \in Handles[p.f] /\ SourceMismatch(p) /\ Stops(p)

\* The rest of route: pre-routing, and the handler if it is called.
Route(p) ==
  /\ p \in flight /\ p.at \in Handles[p.f] /\ ~SourceMismatch(p)
  /\ flight' = (flight \ {p}) \cup {Forwarded(p, m) : m \in Copies(p)}
  /\ Visit(p)
  /\ handled' = IF CallsHandler(p) THEN [handled EXCEPT ![p.f][p.at] = @ + 1] ELSE handled

\* A copy is given up where it waits for room: by OnReceive at p.at, which drops
\* the frame when its queue is full or a context is done, or by the send of
\* p.from, which gives up at its enqueue timeout (forwardOrDrop logs it).
Drop(p) ==
  /\ p \in flight /\ churn + Cardinality(lost \cup {p.f}) <= MaxFaults
  /\ flight' = flight \ {p}
  /\ lost' = lost \cup {p.f}
  /\ UNCHANGED <<links, index, sent, churn, hist>>

\* A connection is lost at both ends; frames on it are lost and both ends clean
\* their index.
LoseLink(n, m) ==
  /\ churn + Cardinality(lost) < MaxFaults /\ <<n, m>> \in links
  /\ churn' = churn + 1
  /\ links' = links \ {<<n, m>>, <<m, n>>}
  /\ index' = [x \in Nodes |-> [t \in Nodes |->
                IF {x, index[x][t]} = {n, m} THEN None ELSE index[x][t]]]
  /\ flight' = {p \in flight : {p.at, p.from} # {n, m}}
  /\ UNCHANGED <<sent, lost, hist>>

\* UpdateNodeIndex by a login handler, right or wrong about where t lives.
Bind(n, t, m) ==
  /\ churn + Cardinality(lost) < MaxFaults /\ <<n, m>> \in links /\ t \in Movable
  /\ churn' = churn + 1
  /\ index' = [index EXCEPT ![n][t] = m]
  /\ UNCHANGED <<links, sent, flight, lost, hist>>

Receive == \E p \in flight : NoHandler(p) \/ Mismatch(p) \/ Route(p)

Next ==
  \/ \E f \in Frames, n, m \in Nodes : Send(f, n, m)
  \/ Receive
  \/ \E p \in flight : Drop(p)
  \/ \E n, m \in Nodes : LoseLink(n, m) \/ \E t \in Nodes : Bind(n, t, m)

Spec == Init /\ [][Next]_vars

\* A frame on a live connection is read and routed, unless it is dropped first.
FairSpec == Spec /\ WF_vars(Receive)

-----------------------------------------------------------------------------
(* Properties *)

TypeOK ==
  /\ links \subseteq Links /\ index \in [Nodes -> [Nodes -> Ids]]
  /\ sent \subseteq Frames /\ flight \subseteq Packet /\ churn \in Nat
  /\ lost \subseteq Frames
  /\ visits \in [Frames -> [Nodes -> Nat]]
  /\ handled \in [Frames -> [Nodes -> Nat]]

\* Every forward takes a hop from the budget the frame started with, whatever
\* the indexes say, wrong binds and routing loops included: a frame is
\* forwarded fewer times than its hop limit.
HopBudget ==
  \A p \in flight : p.hop >= 1 /\ p.hop + p.used = HopOf(hdr[p.f].hop)

\* A broadcast only goes down the tree: after its first hop it is always
\* received from the parent, so it never loops.
BroadcastGoesDown ==
  \A p \in flight : (hdr[p.f].tgt = None /\ p.used > 0) => parentOf[p.at] = p.from

Msg(f) == ~hdr[f].cmd /\ ~hdr[f].auth

\* Nothing is duplicated on the way: no hub gets the same broadcast twice, and a
\* frame for one node is handled there and nowhere else, and once, for forwarding
\* moves the one copy.
NeverDuplicated ==
  \A f \in Frames :
    /\ hdr[f].tgt = None => \A n \in Nodes : visits[f][n] <= 1
    /\ (Msg(f) /\ hdr[f].tgt # None) =>
         /\ \A n \in Nodes : handled[f][n] > 0 => n = hdr[f].tgt /\ handled[f][n] = 1
         /\ Cardinality({p \in flight : p.f = f}) <= 1

\* All frames come to rest.
Quiesces == <>[](flight = {})

\* A frame for another hub gets there, up to the common ancestor and down again,
\* and is handled, or one of three things kept it: a hub on the way, or the target,
\* has no handler for its sub-protocol, a queue had no room for it, or connections
\* or indexes changed.  (For hubs that all forward, indexes that were right, and
\* a hop limit that is enough for the longest way.)
Reaches ==
  \A f \in {g \in Frames : Msg(g) /\ hdr[g].tgt # None
                           /\ HopOf(hdr[g].hop) >= Cardinality(Nodes) - 1} :
     (f \in sent /\ churn = 0) ~>
        \/ handled[f][hdr[f].tgt] = 1
        \/ \E n \in Nodes \ Handles[f] : visits[f][n] > 0
        \/ f \in lost
        \/ churn > 0
=============================================================================
