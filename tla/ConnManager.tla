---------------------------- MODULE ConnManager ----------------------------
(***************************************************************************)
(* connmgr.Manager: the table of live connections, the nodeID and deviceID *)
(* reverse indexes, and the lifecycle hooks.  Every method takes the       *)
(* manager's lock for its table updates and runs hooks, evictions and      *)
(* Close() after releasing it, so a locked section is one action and each  *)
(* of the trailing calls is an action of its own, owed by a counter.       *)
(*                                                                         *)
(* The callers are the ones server.go and the listeners give the manager:  *)
(* a listener or the parent link adds a connection once and closes it if   *)
(* Add fails; the OnAdd hook starts serveConn, which removes the           *)
(* connection by its ID when the read loop ends; login handlers bind       *)
(* nodeIDs and deviceIDs to the connection their frame came from, possibly *)
(* after that connection was removed.                                      *)
(***************************************************************************)
EXTENDS Naturals

CONSTANTS
  Conns,      \* connection objects
  Ids,        \* connection IDs; a TCP ID (local->remote) may be reused
  idOf,       \* idOf[c]: what c.ID() returns
  Nodes,      \* nodeIDs other than 0
  Devices,    \* non-empty deviceIDs
  WithDevice, \* connections that may report a deviceID
  None,       \* nil / absent
  MaxEvict    \* bound on evictions of one ID that are pending at once

ASSUME ConnAssumption == /\ idOf \in [Conns -> Ids]
                         /\ None \notin Conns \cup Nodes \cup Devices
                         /\ WithDevice \subseteq Conns /\ MaxEvict \in Nat

VARIABLES
  conns,      \* Manager.conns
  nodeIndex,  \* Manager.nodeIndex
  devIndex,   \* Manager.devIndex
  metaNode,   \* the "nodeID" metadata of each connection
  metaDev,    \* the "deviceID" metadata of each connection
  phase,      \* what Add answered for the connection, "fresh" before it
  addDue,     \* connections whose OnAdd hook has yet to run
  serving,    \* connections with a running serveConn goroutine
  hookDue,    \* OnRemove calls owed to each connection
  closeDue,   \* Close calls owed to each connection
  hookRuns,   \* OnRemove calls made for each connection
  closed,     \* connections whose Close was called
  evicting,   \* UpdateNodeIndex calls about to Remove this ID
  lateBound,  \* history: bound in an index while not managed
  direct,     \* history: the nodeID each connection last bound directly
  disturbed   \* history: nodeIDs whose binding changed other than by a direct
              \* bind or a removal

tables == <<conns, nodeIndex, devIndex>>
metas  == <<metaNode, metaDev>>
tails  == <<hookDue, closeDue, hookRuns, closed>>
hist   == <<lateBound, direct, disturbed>>
vars   == <<tables, metas, phase, addDue, serving, tails, evicting, hist>>

TypeOK ==
  /\ conns \in [Ids -> Conns \cup {None}]
  /\ nodeIndex \in [Nodes -> Conns \cup {None}]
  /\ devIndex \in [Devices -> Conns \cup {None}]
  /\ metaNode \in [Conns -> Nodes \cup {None}]
  /\ metaDev \in [Conns -> Devices \cup {None}]
  /\ phase \in [Conns -> {"fresh", "added", "rejected"}]
  /\ addDue \subseteq Conns /\ serving \subseteq Conns
  /\ hookDue \in [Conns -> Nat]
  /\ closeDue \in [Conns -> Nat]
  /\ hookRuns \in [Conns -> Nat]
  /\ closed \subseteq Conns
  /\ evicting \in [Ids -> Nat]
  /\ lateBound \subseteq Conns
  /\ direct \in [Conns -> Nodes \cup {None}]
  /\ disturbed \subseteq Nodes

Init ==
  /\ conns = [i \in Ids |-> None]
  /\ nodeIndex = [n \in Nodes |-> None]
  /\ devIndex = [d \in Devices |-> None]
  /\ metaNode = [c \in Conns |-> None]
  /\ metaDev = [c \in Conns |-> None]
  /\ phase = [c \in Conns |-> "fresh"]
  /\ addDue = {} /\ serving = {} /\ closed = {}
  /\ hookDue = [c \in Conns |-> 0]
  /\ closeDue = [c \in Conns |-> 0]
  /\ hookRuns = [c \in Conns |-> 0]
  /\ evicting = [i \in Ids |-> 0]
  /\ lateBound = {}
  /\ direct = [c \in Conns |-> None]
  /\ disturbed = {}

Managed(c) == conns[idOf[c]] = c

-----------------------------------------------------------------------------
(* The index helpers that run under the lock. *)

\* addNodeIndexLocked / addDeviceIndexLocked: the metadata value k, when set,
\* is bound to c without looking at a previous binding.
Indexed(index, k, c) == IF k = None THEN index ELSE [index EXCEPT ![k] = c]

\* Faulty variant: removal forgets the indexes.
NotUnindexed(index, c) == index

\* removeNodeIndexLocked / removeDeviceIndexLocked: every entry of c goes.
Unindexed(index, c) == [k \in DOMAIN index |-> IF index[k] = c THEN None ELSE index[k]]

\* The locked half of Remove(i); the connection found is owed its hook.
RemoveLocked(i) ==
  IF conns[i] = None
  THEN UNCHANGED <<tables, hookDue>>
  ELSE /\ nodeIndex' = Unindexed(nodeIndex, conns[i])
       /\ devIndex' = Unindexed(devIndex, conns[i])
       /\ conns' = [conns EXCEPT ![i] = None]
       /\ hookDue' = [hookDue EXCEPT ![conns[i]] = @ + 1]

\* isDirectBind of UpdateNodeIndex
IsDirectBind(n, c) == metaNode[c] = n

\* Faulty variant: the conflict is only seen between connections of one ID.
EvictSameId(n, c) ==
  /\ nodeIndex[n] \notin {None, c}
  /\ IsDirectBind(n, c) /\ idOf[c] = idOf[nodeIndex[n]]

\* A live connection that held n directly is displaced by a direct bind of c.
DirectConflict(n, c) ==
  /\ nodeIndex[n] \notin {None, c}
  /\ IsDirectBind(n, c) /\ IsDirectBind(n, nodeIndex[n])

-----------------------------------------------------------------------------
(* Callers: metadata and registration. *)

\* A handler (or a dialer, before Add) stores the identity in the metadata.
SetNodeMeta(c, n) ==
  /\ metaNode' = [metaNode EXCEPT ![c] = n]
  /\ disturbed' = disturbed \cup ({direct[c]} \ {None, n})
  /\ UNCHANGED <<tables, metaDev, phase, addDue, serving, tails, evicting, lateBound, direct>>

SetDevMeta(c, d) ==
  /\ metaDev' = [metaDev EXCEPT ![c] = d]
  /\ UNCHANGED <<tables, metaNode, phase, addDue, serving, tails, evicting, hist>>

\* Add of an ID that is free.
Add(c) ==
  /\ phase[c] = "fresh"
  /\ conns[idOf[c]] = None
  /\ conns' = [conns EXCEPT ![idOf[c]] = c]
  /\ nodeIndex' = Indexed(nodeIndex, metaNode[c], c)
  /\ devIndex' = Indexed(devIndex, metaDev[c], c)
  /\ phase' = [phase EXCEPT ![c] = "added"]
  /\ addDue' = addDue \cup {c}
  /\ disturbed' = disturbed \cup ({metaNode[c]} \ {None})
  /\ UNCHANGED <<metas, serving, tails, evicting, lateBound, direct>>

\* Faulty variant: the caller of the failed Add does not close the connection.
RejectedKept(c) ==
  /\ phase[c] = "fresh" /\ conns[idOf[c]] # None
  /\ phase' = [phase EXCEPT ![c] = "rejected"]
  /\ UNCHANGED <<tables, metas, addDue, serving, tails, evicting, hist>>

\* Add of an ID that is taken: "conn exists", and the caller closes it.
AddRejected(c) ==
  /\ phase[c] = "fresh"
  /\ conns[idOf[c]] # None
  /\ phase' = [phase EXCEPT ![c] = "rejected"]
  /\ closeDue' = [closeDue EXCEPT ![c] = @ + 1]
  /\ UNCHANGED <<tables, metas, addDue, serving, hookDue, hookRuns, closed, evicting, hist>>

\* The OnAdd hook, outside the lock: it starts serveConn.
OnAdd(c) ==
  /\ c \in addDue
  /\ addDue' = addDue \ {c}
  /\ serving' = serving \cup {c}
  /\ UNCHANGED <<tables, metas, phase, tails, evicting, hist>>

-----------------------------------------------------------------------------
(* Removal: by the read loop, by a caller, by an eviction, by CloseAll. *)

\* serveConn: ReadLoop returned; whatever is registered under the ID goes.
ServeExit(c) ==
  /\ c \in serving
  /\ serving' = serving \ {c}
  /\ RemoveLocked(idOf[c])
  /\ UNCHANGED <<metas, phase, addDue, closeDue, hookRuns, closed, evicting, hist>>

\* Remove(i) called by a handler.
Remove(i) ==
  /\ conns[i] # None
  /\ RemoveLocked(i)
  /\ UNCHANGED <<metas, phase, addDue, serving, closeDue, hookRuns, closed, evicting, hist>>

\* The Remove that UpdateNodeIndex makes after releasing the lock.
Evict(i) ==
  /\ evicting[i] > 0
  /\ evicting' = [evicting EXCEPT ![i] = @ - 1]
  /\ RemoveLocked(i)
  /\ UNCHANGED <<metas, phase, addDue, serving, closeDue, hookRuns, closed, hist>>

\* Faulty variant: the hook runs and the connection is left open.
HookOnly(c) ==
  /\ hookDue[c] > 0
  /\ hookDue' = [hookDue EXCEPT ![c] = @ - 1]
  /\ hookRuns' = [hookRuns EXCEPT ![c] = @ + 1]
  /\ UNCHANGED <<tables, metas, phase, addDue, serving, closeDue, closed, evicting, hist>>

\* The unlocked half of Remove and CloseAll: the OnRemove hook, then Close.
OnRemove(c) ==
  /\ hookDue[c] > 0
  /\ hookDue' = [hookDue EXCEPT ![c] = @ - 1]
  /\ hookRuns' = [hookRuns EXCEPT ![c] = @ + 1]
  /\ closeDue' = [closeDue EXCEPT ![c] = @ + 1]
  /\ UNCHANGED <<tables, metas, phase, addDue, serving, closed, evicting, hist>>

Close(c) ==
  /\ closeDue[c] > 0
  /\ closeDue' = [closeDue EXCEPT ![c] = @ - 1]
  /\ closed' = closed \cup {c}
  /\ UNCHANGED <<tables, metas, phase, addDue, serving, hookDue, hookRuns, evicting, hist>>

\* Faulty variant: the table is not emptied.
CloseAllKeeps ==
  /\ hookDue' = [c \in Conns |-> IF Managed(c) THEN hookDue[c] + 1 ELSE hookDue[c]]
  /\ UNCHANGED <<tables, metas, phase, addDue, serving, closeDue, hookRuns, closed, evicting, hist>>

\* CloseAll: snapshot and empty the three maps in one locked section.
CloseAll ==
  /\ hookDue' = [c \in Conns |-> IF Managed(c) THEN hookDue[c] + 1 ELSE hookDue[c]]
  /\ conns' = [i \in Ids |-> None]
  /\ nodeIndex' = [n \in Nodes |-> None]
  /\ devIndex' = [d \in Devices |-> None]
  /\ UNCHANGED <<metas, phase, addDue, serving, closeDue, hookRuns, closed, evicting, hist>>

-----------------------------------------------------------------------------
(* Index updates by login handlers; c was added at some time. *)

Late(c) == IF Managed(c) THEN lateBound ELSE lateBound \cup {c}

UpdateNodeIndex(n, c) ==
  /\ phase[c] = "added"
  /\ nodeIndex' = [nodeIndex EXCEPT ![n] = c]
  /\ \/ /\ DirectConflict(n, c)
        /\ evicting[idOf[nodeIndex[n]]] < MaxEvict
        /\ evicting' = [evicting EXCEPT ![idOf[nodeIndex[n]]] = @ + 1]
     \/ /\ ~DirectConflict(n, c)
        /\ evicting' = evicting
  /\ lateBound' = Late(c)
  /\ direct' = IF IsDirectBind(n, c) THEN [direct EXCEPT ![c] = n] ELSE direct
  /\ disturbed' = IF IsDirectBind(n, c) THEN disturbed ELSE disturbed \cup {n}
  /\ UNCHANGED <<conns, devIndex, metas, phase, addDue, serving, tails>>

\* UpdateNodeIndex(n, nil)
RemoveNodeIndex(n) ==
  /\ nodeIndex' = [nodeIndex EXCEPT ![n] = None]
  /\ disturbed' = disturbed \cup {n}
  /\ UNCHANGED <<conns, devIndex, metas, phase, addDue, serving, tails, evicting, lateBound, direct>>

UpdateDeviceIndex(d, c) ==
  /\ phase[c] = "added"
  /\ devIndex' = [devIndex EXCEPT ![d] = c]
  /\ lateBound' = Late(c)
  /\ UNCHANGED <<conns, nodeIndex, metas, phase, addDue, serving, tails, evicting, direct, disturbed>>

\* UpdateDeviceIndex(d, nil)
RemoveDeviceIndex(d) ==
  /\ devIndex' = [devIndex EXCEPT ![d] = None]
  /\ UNCHANGED <<conns, nodeIndex, metas, phase, addDue, serving, tails, evicting, hist>>

-----------------------------------------------------------------------------
Next ==
  \/ \E c \in Conns :
       \/ \E n \in Nodes \cup {None} : SetNodeMeta(c, n)
       \/ c \in WithDevice /\ \E d \in Devices \cup {None} : SetDevMeta(c, d)
       \/ Add(c) \/ AddRejected(c) \/ OnAdd(c) \/ ServeExit(c)
       \/ OnRemove(c) \/ Close(c)
       \/ \E n \in Nodes : UpdateNodeIndex(n, c)
       \/ c \in WithDevice /\ \E d \in Devices : UpdateDeviceIndex(d, c)
  \/ \E i \in Ids : Remove(i) \/ Evict(i)
  \/ \E n \in Nodes : RemoveNodeIndex(n)
  \/ \E d \in Devices : RemoveDeviceIndex(d)
  \/ CloseAll

Spec == Init /\ [][Next]_vars

\* The calls owed after an unlock are made by goroutines that are already
\* running, and the read loop of a closed pipe returns.
Fairness ==
  /\ \A c \in Conns : /\ WF_vars(OnAdd(c)) /\ WF_vars(OnRemove(c)) /\ WF_vars(Close(c))
                      /\ WF_vars(c \in closed /\ ServeExit(c))
  /\ \A i \in Ids : WF_vars(Evict(i))

FairSpec == Spec /\ Fairness

-----------------------------------------------------------------------------
(* Properties *)

\* However the read loop's Remove, a handler's Remove, an eviction and CloseAll
\* race, the OnRemove hook is owed to or has run for a connection at most once,
\* and not while the connection is managed: Server's hook closes the
\* connection's writer and publishes conn.closed exactly once.
RemovedOnce ==
  \A c \in Conns : /\ hookRuns[c] + hookDue[c] <= 1
                   /\ Managed(c) => hookRuns[c] + hookDue[c] = 0

\* A connection handed to Add is never lost: it is managed, or somebody is on
\* the way to closing it, or it is closed.  This covers the rejected Add, whose
\* caller must close the connection.
NoLeak ==
  \A c \in Conns : phase[c] # "fresh" =>
     Managed(c) \/ hookDue[c] > 0 \/ closeDue[c] > 0 \/ c \in closed

\* Remove and CloseAll clean both indexes: an entry for a connection that is no
\* longer managed can only come from a bind made after the removal.
StaleOnlyByLateBind ==
  /\ \A n \in Nodes : nodeIndex[n] # None =>
       Managed(nodeIndex[n]) \/ nodeIndex[n] \in lateBound
  /\ \A d \in Devices : devIndex[d] # None =>
       Managed(devIndex[d]) \/ devIndex[d] \in lateBound

\* A nodeID that only direct binds and removals have touched has one direct
\* connection: of two managed ones, the Remove of one is on its way.
DirectUniqueUndisturbed ==
  \A n \in Nodes \ disturbed, c1, c2 \in Conns :
     /\ c1 # c2 /\ Managed(c1) /\ Managed(c2)
     /\ direct[c1] = n /\ direct[c2] = n
     => evicting[idOf[c1]] > 0 \/ evicting[idOf[c2]] > 0

\* A connection that left the table, or never entered it, gets closed, and the
\* serveConn goroutine that Server.Stop waits for ends, even when the removal
\* overtakes the OnAdd hook that starts it.
RemovedIsClosed ==
  \A c \in Conns : (phase[c] # "fresh" /\ ~Managed(c)) ~>
                     (c \in closed /\ c \notin serving /\ c \notin addDue)

\* Where each connection is in the life the manager promises.
lifeOf == [c \in Conns |-> IF phase[c] = "fresh" THEN "fresh"
                          ELSE IF Managed(c)      THEN "managed"
                          ELSE IF hookDue[c] > 0  THEN "removed"
                          ELSE IF closeDue[c] > 0 THEN "closing"
                          ELSE "closed"]

Life == INSTANCE ConnLife WITH life <- lifeOf

\* The manager implements ConnLife: however Remove, evictions, CloseAll, the
\* read loop's exit and a reused ID interleave, each connection goes forward
\* through its life without a step skipped, repeated or undone.
LivesAsPromised == Life!Spec
=============================================================================
