------------------------ MODULE ConnManager_proofs ------------------------
(***************************************************************************)
(* Proofs about ConnManager for every set of connections, every assignment *)
(* of IDs (reused or not), every set of nodeIDs and deviceIDs.             *)
(***************************************************************************)
EXTENDS ConnManager, TLAPS

-----------------------------------------------------------------------------
(* The inductive invariant *)

\* The table is keyed by the connections' own IDs and holds added ones only.
Keyed == \A i \in Ids : conns[i] # None => idOf[conns[i]] = i /\ phase[conns[i]] = "added"

\* A connection that was not added was never owed a removal nor bound.
Untouched ==
  \A c \in Conns : phase[c] # "added" =>
     hookDue[c] = 0 /\ hookRuns[c] = 0 /\ direct[c] = None

\* A direct bind still agrees with the metadata unless the nodeID is disturbed.
DirectAgrees ==
  \A c \in Conns : (direct[c] # None /\ direct[c] \notin disturbed) => metaNode[c] = direct[c]

\* A managed connection that bound an undisturbed nodeID directly has the index
\* entry, or its eviction is on the way.
HoldsOrEvicted ==
  \A c \in Conns : (Managed(c) /\ direct[c] # None /\ direct[c] \notin disturbed) =>
     nodeIndex[direct[c]] = c \/ evicting[idOf[c]] > 0

Accounts == Keyed /\ Untouched /\ RemovedOnce /\ NoLeak
Direct == DirectAgrees /\ HoldsOrEvicted

-----------------------------------------------------------------------------
(* What the helpers that run under the lock do to the tables. *)

LEMMA UnindexedType ==
  ASSUME NEW K, NEW index \in [K -> Conns \cup {None}], NEW c
  PROVE  /\ Unindexed(index, c) \in [K -> Conns \cup {None}]
         /\ \A k \in K : Unindexed(index, c)[k] = IF index[k] = c THEN None ELSE index[k]
BY DEF Unindexed

\* RemoveLocked(i) takes the connection of i out of the table and out of both
\* indexes and leaves every other connection where it is.
LEMMA RemoveLockedEffect ==
  ASSUME TypeOK, NEW i \in Ids, RemoveLocked(i)
  PROVE  /\ conns' = [conns EXCEPT ![i] = None]
         /\ nodeIndex' \in [Nodes -> Conns \cup {None}]
         /\ devIndex' \in [Devices -> Conns \cup {None}]
         /\ hookDue' \in [Conns -> Nat]
         /\ \A n \in Nodes : nodeIndex'[n] = IF nodeIndex[n] = conns[i] THEN None ELSE nodeIndex[n]
         /\ \A d \in Devices : devIndex'[d] = IF devIndex[d] = conns[i] THEN None ELSE devIndex[d]
         /\ \A c \in Conns : hookDue'[c] = IF c = conns[i] THEN hookDue[c] + 1 ELSE hookDue[c]
<1> USE ConnAssumption
<1>1. CASE conns[i] = None
  BY <1>1 DEF TypeOK, RemoveLocked, tables
<1>2. CASE conns[i] # None
  <2>1. conns[i] \in Conns
    BY <1>2 DEF TypeOK
  <2>2. /\ nodeIndex' = Unindexed(nodeIndex, conns[i])
        /\ devIndex' = Unindexed(devIndex, conns[i])
        /\ conns' = [conns EXCEPT ![i] = None]
        /\ hookDue' = [hookDue EXCEPT ![conns[i]] = @ + 1]
    BY <1>2 DEF RemoveLocked
  <2>3. nodeIndex \in [Nodes -> Conns \cup {None}] /\ devIndex \in [Devices -> Conns \cup {None}]
    BY DEF TypeOK
  <2>4. hookDue \in [Conns -> Nat]
    BY DEF TypeOK
  <2> QED BY <2>1, <2>2, <2>3, <2>4, UnindexedType
<1> QED BY <1>1, <1>2

-----------------------------------------------------------------------------
(* Types *)

LEMMA InitType == Init => TypeOK
BY ConnAssumption DEF Init, TypeOK

LEMMA TypeStep == TypeOK /\ [Next]_vars => TypeOK'
<1> SUFFICES ASSUME TypeOK, [Next]_vars PROVE TypeOK'
  OBVIOUS
<1> USE ConnAssumption DEF tables, metas, tails, hist
<1>1. ASSUME NEW c \in Conns, NEW n \in Nodes \cup {None}, SetNodeMeta(c, n) PROVE TypeOK'
  BY <1>1 DEF TypeOK, SetNodeMeta
<1>2. ASSUME NEW c \in Conns, NEW d \in Devices \cup {None}, SetDevMeta(c, d) PROVE TypeOK'
  BY <1>2 DEF TypeOK, SetDevMeta
<1>3. ASSUME NEW c \in Conns, Add(c) PROVE TypeOK'
  <2>1. /\ nodeIndex' \in [Nodes -> Conns \cup {None}]
        /\ devIndex' \in [Devices -> Conns \cup {None}]
    <3>1. nodeIndex \in [Nodes -> Conns \cup {None}] /\ metaNode[c] \in Nodes \cup {None}
      BY DEF TypeOK
    <3>2. devIndex \in [Devices -> Conns \cup {None}] /\ metaDev[c] \in Devices \cup {None}
      BY DEF TypeOK
    <3> QED BY <1>3, <3>1, <3>2 DEF Add, Indexed
  <2> QED BY <1>3, <2>1 DEF TypeOK, Add
<1>4. ASSUME NEW c \in Conns, AddRejected(c) PROVE TypeOK'
  BY <1>4 DEF TypeOK, AddRejected
<1>5. ASSUME NEW c \in Conns, OnAdd(c) PROVE TypeOK'
  BY <1>5 DEF TypeOK, OnAdd
<1>6. ASSUME NEW c \in Conns, ServeExit(c) PROVE TypeOK'
  <2>1. RemoveLocked(idOf[c]) /\ idOf[c] \in Ids
    BY <1>6 DEF ServeExit
  <2> QED BY <1>6, <2>1, RemoveLockedEffect DEF TypeOK, ServeExit
<1>7. ASSUME NEW i \in Ids, Remove(i) PROVE TypeOK'
  BY <1>7, RemoveLockedEffect DEF TypeOK, Remove
<1>8. ASSUME NEW i \in Ids, Evict(i) PROVE TypeOK'
  BY SMTT(30), <1>8, RemoveLockedEffect DEF TypeOK, Evict
<1>9. ASSUME NEW c \in Conns, OnRemove(c) PROVE TypeOK'
  BY <1>9 DEF TypeOK, OnRemove
<1>10. ASSUME NEW c \in Conns, Close(c) PROVE TypeOK'
  BY <1>10 DEF TypeOK, Close
<1>11. CASE CloseAll
  BY <1>11 DEF TypeOK, CloseAll
<1>12. ASSUME NEW n \in Nodes, NEW c \in Conns, UpdateNodeIndex(n, c) PROVE TypeOK'
  <2>1. evicting' \in [Ids -> Nat]
    BY <1>12 DEF TypeOK, UpdateNodeIndex
  <2>2. lateBound' \subseteq Conns
    BY <1>12 DEF TypeOK, UpdateNodeIndex, Late
  <2> QED BY <1>12, <2>1, <2>2 DEF TypeOK, UpdateNodeIndex
<1>13. ASSUME NEW n \in Nodes, RemoveNodeIndex(n) PROVE TypeOK'
  BY <1>13 DEF TypeOK, RemoveNodeIndex
<1>14. ASSUME NEW d \in Devices, NEW c \in Conns, UpdateDeviceIndex(d, c) PROVE TypeOK'
  BY <1>14 DEF TypeOK, UpdateDeviceIndex, Late
<1>15. ASSUME NEW d \in Devices, RemoveDeviceIndex(d) PROVE TypeOK'
  BY <1>15 DEF TypeOK, RemoveDeviceIndex
<1>16. CASE UNCHANGED vars
  BY <1>16 DEF TypeOK, vars
<1> QED
  BY <1>1, <1>2, <1>3, <1>4, <1>5, <1>6, <1>7, <1>8, <1>9, <1>10, <1>11, <1>12, <1>13, <1>14,
     <1>15, <1>16 DEF Next

\* The manager's tables keep their types: every entry is a connection or absent,
\* every counter a natural number, for all values of the constants.
THEOREM TypeCorrect == Spec => []TypeOK
BY InitType, TypeStep, PTL DEF Spec

-----------------------------------------------------------------------------
(* Who owes what to a connection *)

\* A removal moves the connection of i from managed to owed its hook.
LEMMA RemovalAccounts ==
  ASSUME TypeOK, Accounts, NEW i \in Ids, RemoveLocked(i),
         UNCHANGED <<phase, closeDue, hookRuns, closed, direct>>
  PROVE  Accounts'
<1> USE ConnAssumption
<1>1. /\ conns' = [conns EXCEPT ![i] = None]
      /\ \A c \in Conns : hookDue'[c] = IF c = conns[i] THEN hookDue[c] + 1 ELSE hookDue[c]
  BY RemoveLockedEffect
<1>2. /\ conns \in [Ids -> Conns \cup {None}] /\ hookDue \in [Conns -> Nat]
      /\ hookRuns \in [Conns -> Nat] /\ phase \in [Conns -> {"fresh", "added", "rejected"}]
  BY DEF TypeOK
<1>3. Keyed'
  BY <1>1, <1>2 DEF Accounts, Keyed
<1>4. \A c \in Conns : c = conns[i] => phase[c] = "added" /\ idOf[c] = i /\ Managed(c) /\ ~Managed(c)'
  BY <1>1, <1>2 DEF Accounts, Keyed, Managed
<1>5. \A c \in Conns : Managed(c)' => Managed(c) /\ c # conns[i]
  BY <1>1, <1>2, <1>4 DEF Managed
<1>6. \A c \in Conns : Managed(c) /\ c # conns[i] => Managed(c)'
  BY <1>1, <1>2 DEF Managed
<1>7. Untouched'
  BY <1>1, <1>2, <1>4 DEF Accounts, Untouched
<1>8. RemovedOnce'
  BY <1>1, <1>2, <1>4, <1>5 DEF Accounts, RemovedOnce
<1>9. NoLeak'
  BY <1>1, <1>2, <1>4, <1>6 DEF Accounts, NoLeak
<1> QED BY <1>3, <1>7, <1>8, <1>9 DEF Accounts

LEMMA AccountsStep == TypeOK /\ Accounts /\ [Next]_vars => Accounts'
<1> SUFFICES ASSUME TypeOK, Accounts, [Next]_vars PROVE Accounts'
  OBVIOUS
<1> USE ConnAssumption DEF tables, metas, tails, hist
<1>0. UNCHANGED <<conns, phase, hookDue, closeDue, hookRuns, closed, direct>> => Accounts'
  BY DEF Accounts, Keyed, Untouched, RemovedOnce, NoLeak, Managed
<1>1. ASSUME NEW c \in Conns, NEW n \in Nodes \cup {None}, SetNodeMeta(c, n) PROVE Accounts'
  BY <1>0, <1>1 DEF SetNodeMeta
<1>2. ASSUME NEW c \in Conns, NEW d \in Devices \cup {None}, SetDevMeta(c, d) PROVE Accounts'
  BY <1>0, <1>2 DEF SetDevMeta
<1>3. ASSUME NEW c \in Conns, Add(c) PROVE Accounts'
  <2>1. /\ phase[c] = "fresh" /\ conns[idOf[c]] = None
        /\ conns' = [conns EXCEPT ![idOf[c]] = c]
        /\ phase' = [phase EXCEPT ![c] = "added"]
        /\ UNCHANGED <<hookDue, closeDue, hookRuns, closed, direct>>
    BY <1>3 DEF Add
  <2>2. /\ conns \in [Ids -> Conns \cup {None}] /\ idOf[c] \in Ids
        /\ phase \in [Conns -> {"fresh", "added", "rejected"}]
    BY DEF TypeOK
  <2>3. Keyed'
    BY <2>1, <2>2 DEF Accounts, Keyed
  <2>4. \A x \in Conns : x # c => (Managed(x)' <=> Managed(x))
    BY <2>1, <2>2 DEF Managed
  <2>5. Managed(c)'
    BY <2>1, <2>2 DEF Managed
  <2>6. Untouched'
    BY <2>1, <2>2 DEF Accounts, Untouched
  <2>7. RemovedOnce'
    <3>1. hookDue[c] = 0 /\ hookRuns[c] = 0
      BY <2>1 DEF Accounts, Untouched
    <3> QED BY <2>1, <2>4, <3>1 DEF Accounts, RemovedOnce
  <2>8. NoLeak'
    BY <2>1, <2>2, <2>4, <2>5 DEF Accounts, NoLeak
  <2> QED BY <2>3, <2>6, <2>7, <2>8 DEF Accounts
<1>4. ASSUME NEW c \in Conns, AddRejected(c) PROVE Accounts'
  <2>1. /\ phase[c] = "fresh" /\ phase' = [phase EXCEPT ![c] = "rejected"]
        /\ closeDue' = [closeDue EXCEPT ![c] = @ + 1]
        /\ UNCHANGED <<conns, hookDue, hookRuns, closed, direct>>
    BY <1>4 DEF AddRejected
  <2>2. /\ conns \in [Ids -> Conns \cup {None}] /\ closeDue \in [Conns -> Nat]
        /\ phase \in [Conns -> {"fresh", "added", "rejected"}]
    BY DEF TypeOK
  <2>3. Keyed' /\ Untouched' /\ RemovedOnce'
    BY <2>1, <2>2 DEF Accounts, Keyed, Untouched, RemovedOnce, Managed
  <2>4. NoLeak'
    BY <2>1, <2>2 DEF Accounts, NoLeak, Managed
  <2> QED BY <2>3, <2>4 DEF Accounts
<1>5. ASSUME NEW c \in Conns, OnAdd(c) PROVE Accounts'
  BY <1>0, <1>5 DEF OnAdd
<1>6. ASSUME NEW c \in Conns, ServeExit(c) PROVE Accounts'
  <2>1. idOf[c] \in Ids
    OBVIOUS
  <2> QED BY <1>6, <2>1, RemovalAccounts DEF ServeExit
<1>7. ASSUME NEW i \in Ids, Remove(i) PROVE Accounts'
  BY <1>7, RemovalAccounts DEF Remove
<1>8. ASSUME NEW i \in Ids, Evict(i) PROVE Accounts'
  BY <1>8, RemovalAccounts DEF Evict
<1>9. ASSUME NEW c \in Conns, OnRemove(c) PROVE Accounts'
  <2>1. /\ hookDue[c] > 0 /\ hookDue' = [hookDue EXCEPT ![c] = @ - 1]
        /\ hookRuns' = [hookRuns EXCEPT ![c] = @ + 1]
        /\ closeDue' = [closeDue EXCEPT ![c] = @ + 1]
        /\ UNCHANGED <<conns, phase, closed, direct>>
    BY <1>9 DEF OnRemove
  <2>2. /\ closeDue \in [Conns -> Nat] /\ hookDue \in [Conns -> Nat]
        /\ hookRuns \in [Conns -> Nat]
    BY DEF TypeOK
  <2>3. Keyed'
    BY <2>1 DEF Accounts, Keyed
  <2>4. Untouched' /\ RemovedOnce' /\ NoLeak'
    BY <2>1, <2>2 DEF Accounts, Untouched, RemovedOnce, NoLeak, Managed
  <2> QED BY <2>3, <2>4 DEF Accounts
<1>10. ASSUME NEW c \in Conns, Close(c) PROVE Accounts'
  BY <1>10 DEF TypeOK, Accounts, Keyed, Untouched, RemovedOnce, NoLeak, Managed, Close
<1>11. CASE CloseAll
  <2>1. /\ hookDue' = [c \in Conns |-> IF Managed(c) THEN hookDue[c] + 1 ELSE hookDue[c]]
        /\ conns' = [i \in Ids |-> None]
        /\ UNCHANGED <<phase, closeDue, hookRuns, closed, direct>>
    BY <1>11 DEF CloseAll
  <2>2. hookDue \in [Conns -> Nat] /\ hookRuns \in [Conns -> Nat]
    BY DEF TypeOK
  <2>3. \A c \in Conns : ~Managed(c)'
    BY <2>1 DEF Managed
  <2>4. \A c \in Conns : Managed(c) => phase[c] = "added"
    BY DEF Accounts, Keyed, Managed
  <2>5. Keyed' /\ Untouched'
    BY <2>1, <2>2, <2>4 DEF Accounts, Keyed, Untouched
  <2>6. RemovedOnce' /\ NoLeak'
    BY <2>1, <2>2, <2>3 DEF Accounts, RemovedOnce, NoLeak
  <2> QED BY <2>5, <2>6 DEF Accounts
<1>12. ASSUME NEW n \in Nodes, NEW c \in Conns, UpdateNodeIndex(n, c) PROVE Accounts'
  <2>1. /\ phase[c] = "added"
        /\ \A x \in Conns : x # c => direct'[x] = direct[x]
        /\ UNCHANGED <<conns, phase, hookDue, closeDue, hookRuns, closed>>
    BY <1>12 DEF UpdateNodeIndex, TypeOK
  <2> QED BY <2>1 DEF Accounts, Keyed, Untouched, RemovedOnce, NoLeak, Managed
<1>13. ASSUME NEW n \in Nodes, RemoveNodeIndex(n) PROVE Accounts'
  BY <1>0, <1>13 DEF RemoveNodeIndex
<1>14. ASSUME NEW d \in Devices, NEW c \in Conns, UpdateDeviceIndex(d, c) PROVE Accounts'
  BY <1>0, <1>14 DEF UpdateDeviceIndex
<1>15. ASSUME NEW d \in Devices, RemoveDeviceIndex(d) PROVE Accounts'
  BY <1>0, <1>15 DEF RemoveDeviceIndex
<1>16. CASE UNCHANGED vars
  BY <1>0, <1>16 DEF vars
<1> QED
  BY <1>1, <1>2, <1>3, <1>4, <1>5, <1>6, <1>7, <1>8, <1>9, <1>10, <1>11, <1>12, <1>13, <1>14,
     <1>15, <1>16 DEF Next

LEMMA InitAccounts == Init => Accounts
BY ConnAssumption DEF Init, Accounts, Keyed, Untouched, RemovedOnce, NoLeak, Managed

\* However Remove, evictions and CloseAll race, the OnRemove hook of Server runs
\* at most once per connection and never while the connection is managed.
THEOREM HookAtMostOnce == Spec => []RemovedOnce
<1>1. Init => TypeOK /\ Accounts
  BY InitType, InitAccounts
<1>2. TypeOK /\ Accounts /\ [Next]_vars => (TypeOK /\ Accounts)'
  BY TypeStep, AccountsStep
<1>3. Accounts => RemovedOnce
  BY DEF Accounts
<1> QED BY <1>1, <1>2, <1>3, PTL DEF Spec

\* No connection given to Add is lost: it is managed, closed, or a goroutine
\* still owes it its hook or its Close.
THEOREM NothingLeaks == Spec => []NoLeak
<1>1. Init => TypeOK /\ Accounts
  BY InitType, InitAccounts
<1>2. TypeOK /\ Accounts /\ [Next]_vars => (TypeOK /\ Accounts)'
  BY TypeStep, AccountsStep
<1>3. Accounts => NoLeak
  BY DEF Accounts
<1> QED BY <1>1, <1>2, <1>3, PTL DEF Spec

-----------------------------------------------------------------------------
(* The indexes *)

\* A removal takes away the entries of the connection it removes, and no other
\* connection stops being managed.
LEMMA RemovalIndexed ==
  ASSUME TypeOK, Keyed, StaleOnlyByLateBind, NEW i \in Ids, RemoveLocked(i),
         UNCHANGED lateBound
  PROVE  StaleOnlyByLateBind'
<1> USE ConnAssumption
<1>1. /\ conns' = [conns EXCEPT ![i] = None]
      /\ \A n \in Nodes : nodeIndex'[n] = IF nodeIndex[n] = conns[i] THEN None ELSE nodeIndex[n]
      /\ \A d \in Devices : devIndex'[d] = IF devIndex[d] = conns[i] THEN None ELSE devIndex[d]
  BY RemoveLockedEffect
<1>2. /\ conns \in [Ids -> Conns \cup {None}]
      /\ nodeIndex \in [Nodes -> Conns \cup {None}] /\ devIndex \in [Devices -> Conns \cup {None}]
  BY DEF TypeOK
<1>3. \A c \in Conns : Managed(c) /\ c # conns[i] => Managed(c)'
  BY <1>1, <1>2 DEF Managed
<1>4. ASSUME NEW n \in Nodes, nodeIndex'[n] # None
      PROVE  Managed(nodeIndex[n])' \/ nodeIndex'[n] \in lateBound'
  <2>1. nodeIndex'[n] = nodeIndex[n] /\ nodeIndex[n] # conns[i] /\ nodeIndex[n] \in Conns
    BY <1>1, <1>2, <1>4
  <2>2. Managed(nodeIndex[n]) \/ nodeIndex[n] \in lateBound
    BY <1>4, <2>1 DEF StaleOnlyByLateBind
  <2> QED BY <1>3, <2>1, <2>2 DEF Managed
<1>5. ASSUME NEW d \in Devices, devIndex'[d] # None
      PROVE  Managed(devIndex[d])' \/ devIndex'[d] \in lateBound'
  <2>1. devIndex'[d] = devIndex[d] /\ devIndex[d] # conns[i] /\ devIndex[d] \in Conns
    BY <1>1, <1>2, <1>5
  <2>2. Managed(devIndex[d]) \/ devIndex[d] \in lateBound
    BY <1>5, <2>1 DEF StaleOnlyByLateBind
  <2> QED BY <1>3, <2>1, <2>2 DEF Managed
<1> QED BY <1>4, <1>5 DEF StaleOnlyByLateBind, Managed

LEMMA IndexStep ==
  TypeOK /\ Accounts /\ StaleOnlyByLateBind /\ [Next]_vars => StaleOnlyByLateBind'
<1> SUFFICES ASSUME TypeOK, Keyed, StaleOnlyByLateBind, [Next]_vars PROVE StaleOnlyByLateBind'
  BY DEF Accounts
<1> USE ConnAssumption DEF tables, metas, tails, hist
<1>0. UNCHANGED <<conns, nodeIndex, devIndex, lateBound>> => StaleOnlyByLateBind'
  BY DEF StaleOnlyByLateBind, Managed
<1>1. ASSUME NEW c \in Conns, NEW n \in Nodes \cup {None}, SetNodeMeta(c, n) PROVE StaleOnlyByLateBind'
  BY <1>0, <1>1 DEF SetNodeMeta
<1>2. ASSUME NEW c \in Conns, NEW d \in Devices \cup {None}, SetDevMeta(c, d) PROVE StaleOnlyByLateBind'
  BY <1>0, <1>2 DEF SetDevMeta
<1>3. ASSUME NEW c \in Conns, Add(c) PROVE StaleOnlyByLateBind'
  <2>1. /\ conns \in [Ids -> Conns \cup {None}] /\ idOf[c] \in Ids
        /\ nodeIndex \in [Nodes -> Conns \cup {None}] /\ metaNode[c] \in Nodes \cup {None}
        /\ devIndex \in [Devices -> Conns \cup {None}] /\ metaDev[c] \in Devices \cup {None}
    BY DEF TypeOK
  <2>2. /\ conns[idOf[c]] = None /\ conns' = [conns EXCEPT ![idOf[c]] = c]
        /\ nodeIndex' = Indexed(nodeIndex, metaNode[c], c)
        /\ devIndex' = Indexed(devIndex, metaDev[c], c)
        /\ lateBound' = lateBound
    BY <1>3 DEF Add
  <2>3. /\ \A n \in Nodes : nodeIndex'[n] \in {c, nodeIndex[n]}
        /\ \A d \in Devices : devIndex'[d] \in {c, devIndex[d]}
    BY <2>1, <2>2 DEF Indexed
  <2>4. \A x \in Conns : Managed(x) => Managed(x)'
    BY <2>1, <2>2 DEF Managed
  <2>5. Managed(c)'
    BY <2>1, <2>2 DEF Managed
  <2> QED BY <2>1, <2>2, <2>3, <2>4, <2>5 DEF StaleOnlyByLateBind, Managed
<1>4. ASSUME NEW c \in Conns, AddRejected(c) PROVE StaleOnlyByLateBind'
  BY <1>0, <1>4 DEF AddRejected
<1>5. ASSUME NEW c \in Conns, OnAdd(c) PROVE StaleOnlyByLateBind'
  BY <1>0, <1>5 DEF OnAdd
<1>6. ASSUME NEW c \in Conns, ServeExit(c) PROVE StaleOnlyByLateBind'
  <2>1. idOf[c] \in Ids
    OBVIOUS
  <2> QED BY <1>6, <2>1, RemovalIndexed DEF ServeExit
<1>7. ASSUME NEW i \in Ids, Remove(i) PROVE StaleOnlyByLateBind'
  BY <1>7, RemovalIndexed DEF Remove
<1>8. ASSUME NEW i \in Ids, Evict(i) PROVE StaleOnlyByLateBind'
  BY <1>8, RemovalIndexed DEF Evict
<1>9. ASSUME NEW c \in Conns, OnRemove(c) PROVE StaleOnlyByLateBind'
  BY <1>0, <1>9 DEF OnRemove
<1>10. ASSUME NEW c \in Conns, Close(c) PROVE StaleOnlyByLateBind'
  BY <1>0, <1>10 DEF Close
<1>11. CASE CloseAll
  BY <1>11 DEF CloseAll, StaleOnlyByLateBind
<1>12. ASSUME NEW n \in Nodes, NEW c \in Conns, UpdateNodeIndex(n, c) PROVE StaleOnlyByLateBind'
  BY <1>12 DEF UpdateNodeIndex, StaleOnlyByLateBind, Managed, Late, TypeOK
<1>13. ASSUME NEW n \in Nodes, RemoveNodeIndex(n) PROVE StaleOnlyByLateBind'
  BY <1>13 DEF RemoveNodeIndex, StaleOnlyByLateBind, Managed, TypeOK
<1>14. ASSUME NEW d \in Devices, NEW c \in Conns, UpdateDeviceIndex(d, c) PROVE StaleOnlyByLateBind'
  BY <1>14 DEF UpdateDeviceIndex, StaleOnlyByLateBind, Managed, Late, TypeOK
<1>15. ASSUME NEW d \in Devices, RemoveDeviceIndex(d) PROVE StaleOnlyByLateBind'
  BY <1>15 DEF RemoveDeviceIndex, StaleOnlyByLateBind, Managed, TypeOK
<1>16. CASE UNCHANGED vars
  BY <1>0, <1>16 DEF vars
<1> QED
  BY <1>1, <1>2, <1>3, <1>4, <1>5, <1>6, <1>7, <1>8, <1>9, <1>10, <1>11, <1>12, <1>13, <1>14,
     <1>15, <1>16 DEF Next

\* Remove and CloseAll leave no index entry behind: one that points to a
\* connection out of the table was bound by a login handler after the removal.
THEOREM IndexesAreClean == Spec => []StaleOnlyByLateBind
<1>1. Init => TypeOK /\ Accounts /\ StaleOnlyByLateBind
  BY InitType, InitAccounts DEF Init, StaleOnlyByLateBind
<1>2. TypeOK /\ Accounts /\ StaleOnlyByLateBind /\ [Next]_vars
        => (TypeOK /\ Accounts /\ StaleOnlyByLateBind)'
  BY TypeStep, AccountsStep, IndexStep
<1> QED BY <1>1, <1>2, PTL DEF Spec
-----------------------------------------------------------------------------
(* One direct connection per nodeID *)

LEMMA RemovalDirect ==
  ASSUME TypeOK, Keyed, Direct, NEW i \in Ids, RemoveLocked(i),
         UNCHANGED <<metaNode, direct, disturbed>>,
         \A j \in Ids : j # i => evicting'[j] = evicting[j]
  PROVE  Direct'
<1> USE ConnAssumption
<1>1. /\ conns' = [conns EXCEPT ![i] = None]
      /\ \A n \in Nodes : nodeIndex'[n] = IF nodeIndex[n] = conns[i] THEN None ELSE nodeIndex[n]
  BY RemoveLockedEffect
<1>2. /\ conns \in [Ids -> Conns \cup {None}] /\ direct \in [Conns -> Nodes \cup {None}]
  BY DEF TypeOK
<1>3. DirectAgrees'
  BY DEF Direct, DirectAgrees
<1>4. ASSUME NEW c \in Conns, Managed(c)', direct[c] # None, direct[c] \notin disturbed
      PROVE  nodeIndex'[direct[c]] = c \/ evicting'[idOf[c]] > 0
  <2>1. idOf[c] # i /\ Managed(c) /\ c # conns[i] /\ idOf[c] \in Ids
    BY <1>1, <1>2, <1>4 DEF Managed, Keyed
  <2>2. nodeIndex[direct[c]] = c \/ evicting[idOf[c]] > 0
    BY <1>4, <2>1 DEF Direct, HoldsOrEvicted
  <2> QED BY <1>1, <1>2, <1>4, <2>1, <2>2
<1> QED BY <1>3, <1>4 DEF Direct, HoldsOrEvicted

LEMMA DirectStep == TypeOK /\ Accounts /\ Direct /\ [Next]_vars => Direct'
<1> SUFFICES ASSUME TypeOK, Accounts, Direct, [Next]_vars PROVE Direct'
  OBVIOUS
<1> USE ConnAssumption DEF tables, metas, tails, hist
<1>a. Keyed /\ Untouched
  BY DEF Accounts
<1>0. UNCHANGED <<conns, nodeIndex, metaNode, direct, disturbed, evicting>> => Direct'
  BY DEF Direct, DirectAgrees, HoldsOrEvicted, Managed
<1>1. ASSUME NEW c \in Conns, NEW n \in Nodes \cup {None}, SetNodeMeta(c, n) PROVE Direct'
  BY <1>1 DEF SetNodeMeta, Direct, DirectAgrees, HoldsOrEvicted, Managed, TypeOK
<1>2. ASSUME NEW c \in Conns, NEW d \in Devices \cup {None}, SetDevMeta(c, d) PROVE Direct'
  BY <1>0, <1>2 DEF SetDevMeta
<1>3. ASSUME NEW c \in Conns, Add(c) PROVE Direct'
  <2>1. /\ conns \in [Ids -> Conns \cup {None}] /\ idOf[c] \in Ids
        /\ nodeIndex \in [Nodes -> Conns \cup {None}] /\ metaNode[c] \in Nodes \cup {None}
        /\ direct \in [Conns -> Nodes \cup {None}]
    BY DEF TypeOK
  <2>2. /\ phase[c] = "fresh" /\ conns[idOf[c]] = None
        /\ conns' = [conns EXCEPT ![idOf[c]] = c]
        /\ nodeIndex' = Indexed(nodeIndex, metaNode[c], c)
        /\ disturbed' = disturbed \cup ({metaNode[c]} \ {None})
        /\ UNCHANGED <<metaNode, direct, evicting>>
    BY <1>3 DEF Add
  <2>3. \A n \in Nodes : n \notin disturbed' => nodeIndex'[n] = nodeIndex[n]
    BY <2>1, <2>2 DEF Indexed
  <2>4. \A x \in Conns : x # c /\ Managed(x)' => Managed(x)
    BY <2>1, <2>2 DEF Managed
  <2>5. direct[c] = None
    BY <1>a, <2>2 DEF Untouched
  <2>6. DirectAgrees'
    BY <2>2 DEF Direct, DirectAgrees
  <2>7. HoldsOrEvicted'
    BY <2>1, <2>2, <2>3, <2>4, <2>5 DEF Direct, HoldsOrEvicted
  <2> QED BY <2>6, <2>7 DEF Direct
<1>4. ASSUME NEW c \in Conns, AddRejected(c) PROVE Direct'
  BY <1>0, <1>4 DEF AddRejected
<1>5. ASSUME NEW c \in Conns, OnAdd(c) PROVE Direct'
  BY <1>0, <1>5 DEF OnAdd
<1>6. ASSUME NEW c \in Conns, ServeExit(c) PROVE Direct'
  <2>1. idOf[c] \in Ids
    OBVIOUS
  <2> QED BY <1>6, <1>a, <2>1, RemovalDirect DEF ServeExit
<1>7. ASSUME NEW i \in Ids, Remove(i) PROVE Direct'
  BY <1>7, <1>a, RemovalDirect DEF Remove
<1>8. ASSUME NEW i \in Ids, Evict(i) PROVE Direct'
  <2>1. \A j \in Ids : j # i => evicting'[j] = evicting[j]
    BY <1>8 DEF Evict, TypeOK
  <2> QED BY <1>8, <1>a, <2>1, RemovalDirect DEF Evict
<1>9. ASSUME NEW c \in Conns, OnRemove(c) PROVE Direct'
  BY <1>0, <1>9 DEF OnRemove
<1>10. ASSUME NEW c \in Conns, Close(c) PROVE Direct'
  BY <1>0, <1>10 DEF Close
<1>11. CASE CloseAll
  BY <1>11 DEF CloseAll, Direct, DirectAgrees, HoldsOrEvicted, Managed
<1>12. ASSUME NEW n \in Nodes, NEW c \in Conns, UpdateNodeIndex(n, c) PROVE Direct'
  <2>1. /\ nodeIndex' = [nodeIndex EXCEPT ![n] = c]
        /\ UNCHANGED <<conns, metaNode>>
    BY <1>12 DEF UpdateNodeIndex
  <2>2. /\ nodeIndex \in [Nodes -> Conns \cup {None}] /\ evicting \in [Ids -> Nat]
        /\ direct \in [Conns -> Nodes \cup {None}] /\ n # None
    BY DEF TypeOK
  <2>3. \A i \in Ids : evicting'[i] >= evicting[i]
    BY <1>12, <2>2 DEF UpdateNodeIndex
  <2>4. CASE ~IsDirectBind(n, c)
    <3>1. direct' = direct /\ disturbed' = disturbed \cup {n}
      BY <1>12, <2>4 DEF UpdateNodeIndex
    <3>2. DirectAgrees'
      BY <2>1, <3>1 DEF Direct, DirectAgrees
    <3>3. ASSUME NEW x \in Conns, Managed(x)', direct[x] # None, direct[x] \notin disturbed'
          PROVE  nodeIndex'[direct[x]] = x \/ evicting'[idOf[x]] > 0
      <4>1. Managed(x) /\ direct[x] # n /\ direct[x] \in Nodes /\ idOf[x] \in Ids
        BY <2>1, <2>2, <3>1, <3>3 DEF Managed
      <4>2. nodeIndex[direct[x]] = x \/ evicting[idOf[x]] > 0
        BY <3>1, <3>3, <4>1 DEF Direct, HoldsOrEvicted
      <4>3. nodeIndex'[direct[x]] = nodeIndex[direct[x]]
        BY <2>1, <2>2, <4>1
      <4>4. evicting'[idOf[x]] >= evicting[idOf[x]]
        BY <2>3, <4>1
      <4>5. evicting[idOf[x]] \in Nat /\ evicting'[idOf[x]] \in Nat
        BY <2>2, <4>1, TypeStep DEF TypeOK
      <4> QED BY <4>2, <4>3, <4>4, <4>5
    <3> QED BY <3>1, <3>2, <3>3 DEF Direct, HoldsOrEvicted
  <2>5. CASE IsDirectBind(n, c)
    <3>1. direct' = [direct EXCEPT ![c] = n] /\ disturbed' = disturbed
      BY <1>12, <2>5 DEF UpdateNodeIndex
    <3>2. DirectAgrees'
      BY <2>1, <2>2, <2>5, <3>1 DEF Direct, DirectAgrees, IsDirectBind
    <3>3. ASSUME NEW x \in Conns, Managed(x)', direct'[x] # None, direct'[x] \notin disturbed'
          PROVE  nodeIndex'[direct'[x]] = x \/ evicting'[idOf[x]] > 0
      <4>1. CASE x = c
        BY <2>1, <2>2, <3>1, <4>1
      <4>2. CASE x # c
        <5>1. direct'[x] = direct[x] /\ Managed(x) /\ metaNode[x] = direct[x]
          BY <2>1, <2>2, <3>1, <3>3, <4>2 DEF Managed, Direct, DirectAgrees
        <5>2. nodeIndex[direct[x]] = x \/ evicting[idOf[x]] > 0
          BY <3>1, <3>3, <5>1 DEF Direct, HoldsOrEvicted
        <5>3. CASE nodeIndex[n] = x /\ direct[x] = n
          <6>1. DirectConflict(n, c)
            BY <2>5, <4>2, <5>1, <5>3 DEF DirectConflict, IsDirectBind
          <6>2. evicting' = [evicting EXCEPT ![idOf[x]] = @ + 1]
            BY <1>12, <5>3, <6>1 DEF UpdateNodeIndex
          <6> QED BY <2>2, <6>2
        <5>4. CASE evicting[idOf[x]] > 0
          <6>1. idOf[x] \in Ids
            OBVIOUS
          <6>2. evicting[idOf[x]] \in Nat /\ evicting'[idOf[x]] \in Nat
            BY <2>2, <6>1, TypeStep DEF TypeOK
          <6> QED BY <2>3, <5>4, <6>1, <6>2
        <5>5. CASE nodeIndex[direct[x]] = x /\ direct[x] # n
          <6>1. direct[x] \in Nodes
            BY <2>2, <3>3, <5>1
          <6> QED BY <2>1, <2>2, <5>1, <5>5, <6>1
        <5> QED BY <5>2, <5>3, <5>4, <5>5
      <4> QED BY <4>1, <4>2
    <3> QED BY <3>2, <3>3 DEF Direct, HoldsOrEvicted
  <2> QED BY <2>4, <2>5
<1>13. ASSUME NEW n \in Nodes, RemoveNodeIndex(n) PROVE Direct'
  BY <1>13 DEF RemoveNodeIndex, Direct, DirectAgrees, HoldsOrEvicted, Managed, TypeOK
<1>14. ASSUME NEW d \in Devices, NEW c \in Conns, UpdateDeviceIndex(d, c) PROVE Direct'
  BY <1>0, <1>14 DEF UpdateDeviceIndex
<1>15. ASSUME NEW d \in Devices, RemoveDeviceIndex(d) PROVE Direct'
  BY <1>0, <1>15 DEF RemoveDeviceIndex
<1>16. CASE UNCHANGED vars
  BY <1>0, <1>16 DEF vars
<1> QED
  BY <1>1, <1>2, <1>3, <1>4, <1>5, <1>6, <1>7, <1>8, <1>9, <1>10, <1>11, <1>12, <1>13, <1>14,
     <1>15, <1>16 DEF Next

\* Among connections bound directly to the same nodeID, which nothing but direct
\* binds and removals touched, at most one is neither gone nor about to be
\* removed by the UpdateNodeIndex that displaced it.
THEOREM OneDirectConnection == Spec => []DirectUniqueUndisturbed
<1>1. Init => TypeOK /\ Accounts /\ Direct
  <2>1. Init => Direct
    BY ConnAssumption DEF Init, Direct, DirectAgrees, HoldsOrEvicted
  <2> QED BY <2>1, InitType, InitAccounts
<1>2. TypeOK /\ Accounts /\ Direct /\ [Next]_vars => (TypeOK /\ Accounts /\ Direct)'
  BY TypeStep, AccountsStep, DirectStep
<1>3. TypeOK /\ Accounts /\ Direct => DirectUniqueUndisturbed
  BY ConnAssumption DEF TypeOK, Direct, HoldsOrEvicted, DirectUniqueUndisturbed
<1> QED BY <1>1, <1>2, <1>3, PTL DEF Spec

-----------------------------------------------------------------------------
(* The manager implements ConnLife *)

\* A step that leaves the stage of every other connection alone and moves c's
\* from one stage to another is that step of the abstract life.
LEMMA OneMoves ==
  ASSUME NEW c \in Conns, NEW from, NEW to, lifeOf[c] = from, lifeOf'[c] = to,
         \A x \in Conns : x # c => lifeOf'[x] = lifeOf[x]
  PROVE  Life!Passes(c, from, to)
BY DEF Life!Passes, lifeOf

\* A removal takes the connection of i, when there is one, out of the table.
LEMMA RemovalTakesOut ==
  ASSUME TypeOK, Accounts, NEW i \in Ids, RemoveLocked(i), UNCHANGED <<phase, closeDue>>
  PROVE  [Life!Next]_lifeOf
<1> USE ConnAssumption
<1>1. /\ conns' = [conns EXCEPT ![i] = None]
      /\ \A c \in Conns : hookDue'[c] = IF c = conns[i] THEN hookDue[c] + 1 ELSE hookDue[c]
  BY RemoveLockedEffect
<1>2. /\ conns \in [Ids -> Conns \cup {None}] /\ hookDue \in [Conns -> Nat]
  BY DEF TypeOK
<1>3. CASE conns[i] = None
  <2>1. UNCHANGED lifeOf
    BY <1>1, <1>2, <1>3 DEF lifeOf, Managed
  <2> QED BY <2>1
<1>4. CASE conns[i] # None
  <2>1. PICK c \in Conns : c = conns[i]
    BY <1>2, <1>4
  <2>2. phase[c] = "added" /\ idOf[c] = i
    BY <1>4, <2>1 DEF Accounts, Keyed
  <2>3. Managed(c) /\ ~Managed(c)' /\ hookDue'[c] > 0 /\ phase'[c] = "added"
    BY <1>1, <1>2, <2>1, <2>2 DEF Managed
  <2>4. \A x \in Conns : x # c => (Managed(x)' <=> Managed(x)) /\ hookDue'[x] = hookDue[x]
    BY <1>1, <1>2, <2>1 DEF Managed
  <2>5. lifeOf[c] = "managed" /\ lifeOf'[c] = "removed"
    BY <2>2, <2>3 DEF lifeOf
  <2>6. \A x \in Conns : x # c => lifeOf'[x] = lifeOf[x]
    BY <2>4 DEF lifeOf
  <2>7. lifeOf' = [x \in Conns |-> IF x \in {c} THEN "removed" ELSE lifeOf[x]]
    BY <2>5, <2>6 DEF lifeOf
  <2>8. {c} \in SUBSET {x \in Conns : lifeOf[x] = "managed"} /\ Life!TakeOut({c})
    BY <2>5, <2>7 DEF Life!TakeOut
  <2> QED BY <2>8 DEF Life!Next
<1> QED BY <1>3, <1>4

\* Every step of the manager is a step of the abstract life or leaves it alone.
LEMMA LifeStep == TypeOK /\ Accounts /\ [Next]_vars => [Life!Next]_lifeOf
<1> SUFFICES ASSUME TypeOK, Accounts, [Next]_vars PROVE [Life!Next]_lifeOf
  OBVIOUS
<1> USE ConnAssumption DEF tables, metas, tails, hist
<1>0. UNCHANGED <<conns, phase, hookDue, closeDue>> => UNCHANGED lifeOf
  BY DEF lifeOf, Managed
<1>1. /\ conns \in [Ids -> Conns \cup {None}] /\ hookDue \in [Conns -> Nat]
      /\ closeDue \in [Conns -> Nat] /\ hookRuns \in [Conns -> Nat]
      /\ phase \in [Conns -> {"fresh", "added", "rejected"}]
  BY DEF TypeOK
<1>2. ASSUME NEW c \in Conns, NEW n \in Nodes \cup {None}, SetNodeMeta(c, n)
      PROVE  [Life!Next]_lifeOf
  BY <1>0, <1>2 DEF SetNodeMeta
<1>3. ASSUME NEW c \in Conns, NEW d \in Devices \cup {None}, SetDevMeta(c, d)
      PROVE  [Life!Next]_lifeOf
  BY <1>0, <1>3 DEF SetDevMeta
<1>4. ASSUME NEW c \in Conns, Add(c) PROVE Life!Admit(c)
  <2>1. /\ phase[c] = "fresh" /\ conns[idOf[c]] = None
        /\ conns' = [conns EXCEPT ![idOf[c]] = c]
        /\ phase' = [phase EXCEPT ![c] = "added"]
        /\ UNCHANGED <<hookDue, closeDue>>
    BY <1>4 DEF Add
  <2>2. \A x \in Conns : x # c => (Managed(x)' <=> Managed(x)) /\ phase'[x] = phase[x]
    BY <1>1, <2>1 DEF Managed
  <2>3. Managed(c)' /\ phase'[c] = "added"
    BY <1>1, <2>1 DEF Managed
  <2>4. lifeOf[c] = "fresh" /\ lifeOf'[c] = "managed"
    BY <2>1, <2>3 DEF lifeOf
  <2>5. \A x \in Conns : x # c => lifeOf'[x] = lifeOf[x]
    BY <2>1, <2>2 DEF lifeOf
  <2> QED BY <2>4, <2>5, OneMoves DEF Life!Admit
<1>5. ASSUME NEW c \in Conns, AddRejected(c) PROVE Life!Refuse(c)
  <2>1. /\ phase[c] = "fresh" /\ phase' = [phase EXCEPT ![c] = "rejected"]
        /\ closeDue' = [closeDue EXCEPT ![c] = @ + 1]
        /\ UNCHANGED <<conns, hookDue>>
    BY <1>5 DEF AddRejected
  <2>2. ~Managed(c) /\ hookDue[c] = 0
    BY <1>1, <2>1 DEF Accounts, Keyed, Untouched, Managed
  <2>3. phase'[c] = "rejected" /\ closeDue'[c] > 0 /\ ~Managed(c)' /\ hookDue'[c] = 0
    BY <1>1, <2>1, <2>2 DEF Managed
  <2>4. lifeOf[c] = "fresh" /\ lifeOf'[c] = "closing"
    BY <2>1, <2>3 DEF lifeOf
  <2>5. \A x \in Conns : x # c => lifeOf'[x] = lifeOf[x]
    BY <1>1, <2>1 DEF lifeOf, Managed
  <2> QED BY <2>4, <2>5, OneMoves DEF Life!Refuse
<1>6. ASSUME NEW c \in Conns, OnAdd(c) PROVE [Life!Next]_lifeOf
  BY <1>0, <1>6 DEF OnAdd
<1>7. ASSUME NEW c \in Conns, ServeExit(c) PROVE [Life!Next]_lifeOf
  BY <1>7, RemovalTakesOut DEF ServeExit
<1>8. ASSUME NEW i \in Ids, Remove(i) PROVE [Life!Next]_lifeOf
  BY <1>8, RemovalTakesOut DEF Remove
<1>9. ASSUME NEW i \in Ids, Evict(i) PROVE [Life!Next]_lifeOf
  BY <1>9, RemovalTakesOut DEF Evict
<1>10. ASSUME NEW c \in Conns, OnRemove(c) PROVE Life!Hook(c)
  <2>1. /\ hookDue[c] > 0 /\ hookDue' = [hookDue EXCEPT ![c] = @ - 1]
        /\ closeDue' = [closeDue EXCEPT ![c] = @ + 1]
        /\ UNCHANGED <<conns, phase>>
    BY <1>10 DEF OnRemove
  <2>2. phase[c] = "added" /\ ~Managed(c) /\ hookDue[c] = 1
    BY <1>1, <2>1 DEF Accounts, Untouched, RemovedOnce
  <2>3. ~Managed(c)' /\ hookDue'[c] = 0 /\ closeDue'[c] > 0 /\ phase'[c] = "added"
    BY <1>1, <2>1, <2>2 DEF Managed
  <2>4. lifeOf[c] = "removed" /\ lifeOf'[c] = "closing"
    BY <2>2, <2>3 DEF lifeOf
  <2>5. \A x \in Conns : x # c => lifeOf'[x] = lifeOf[x]
    BY <1>1, <2>1 DEF lifeOf, Managed
  <2> QED BY <2>4, <2>5, OneMoves DEF Life!Hook
<1>11. ASSUME NEW c \in Conns, Close(c) PROVE UNCHANGED lifeOf \/ Life!Close(c)
  <2>1. /\ closeDue[c] > 0 /\ closeDue' = [closeDue EXCEPT ![c] = @ - 1]
        /\ UNCHANGED <<conns, phase, hookDue>>
    BY <1>11 DEF Close
  <2>2. \A x \in Conns : x # c => lifeOf'[x] = lifeOf[x]
    BY <1>1, <2>1 DEF lifeOf, Managed
  <2>3. CASE lifeOf'[c] = lifeOf[c]
    BY <2>2, <2>3 DEF lifeOf
  <2>4. CASE lifeOf'[c] # lifeOf[c]
    <3>1. lifeOf[c] = "closing" /\ lifeOf'[c] = "closed"
      BY <1>1, <2>1, <2>4 DEF lifeOf, Managed
    <3> QED BY <2>2, <3>1, OneMoves DEF Life!Close
  <2> QED BY <2>3, <2>4
<1>12. ASSUME CloseAll PROVE [Life!Next]_lifeOf
  <2> DEFINE S == {c \in Conns : Managed(c)}
  <2>1. /\ hookDue' = [c \in Conns |-> IF Managed(c) THEN hookDue[c] + 1 ELSE hookDue[c]]
        /\ conns' = [i \in Ids |-> None]
        /\ UNCHANGED <<phase, closeDue>>
    BY <1>12 DEF CloseAll
  <2>2. \A c \in S : phase[c] = "added" /\ hookDue'[c] > 0
    BY <1>1, <2>1 DEF Accounts, Keyed, Managed
  <2>3. \A c \in Conns : ~Managed(c)' /\ (c \notin S => hookDue'[c] = hookDue[c])
    BY <2>1 DEF Managed
  <2>4. S \in SUBSET {c \in Conns : lifeOf[c] = "managed"}
    BY <2>2 DEF lifeOf
  <2>5. lifeOf' = [c \in Conns |-> IF c \in S THEN "removed" ELSE lifeOf[c]]
    BY <2>1, <2>2, <2>3 DEF lifeOf
  <2> QED BY <2>4, <2>5 DEF Life!Next, Life!TakeOut
<1>13. ASSUME NEW n \in Nodes, NEW c \in Conns, UpdateNodeIndex(n, c) PROVE [Life!Next]_lifeOf
  BY <1>0, <1>13 DEF UpdateNodeIndex
<1>14. ASSUME NEW n \in Nodes, RemoveNodeIndex(n) PROVE [Life!Next]_lifeOf
  BY <1>0, <1>14 DEF RemoveNodeIndex
<1>15. ASSUME NEW d \in Devices, NEW c \in Conns, UpdateDeviceIndex(d, c)
       PROVE  [Life!Next]_lifeOf
  BY <1>0, <1>15 DEF UpdateDeviceIndex
<1>16. ASSUME NEW d \in Devices, RemoveDeviceIndex(d) PROVE [Life!Next]_lifeOf
  BY <1>0, <1>16 DEF RemoveDeviceIndex
<1>17. CASE UNCHANGED vars
  BY <1>0, <1>17 DEF vars
<1>18. \A c \in Conns : (Life!Admit(c) \/ Life!Refuse(c) \/ Life!Hook(c) \/ Life!Close(c)) => Life!Next
  BY DEF Life!Next
<1> QED
  BY <1>2, <1>3, <1>4, <1>5, <1>6, <1>7, <1>8, <1>9, <1>10, <1>11, <1>12, <1>13, <1>14, <1>15,
     <1>16, <1>17, <1>18 DEF Next

\* The manager implements ConnLife for every set of connections and every reuse
\* of IDs: no connection is hooked twice, closed before its hook or revived.
THEOREM ImplementsConnLife == Spec => LivesAsPromised
<1>1. Init => TypeOK /\ Accounts
  BY InitType, InitAccounts
<1>2. TypeOK /\ Accounts /\ [Next]_vars => (TypeOK /\ Accounts)'
  BY TypeStep, AccountsStep
<1>3. Init => Life!Init
  BY DEF Init, Life!Init, lifeOf
<1> QED BY <1>1, <1>2, <1>3, LifeStep, PTL DEF Spec, LivesAsPromised, Life!Spec
=============================================================================
