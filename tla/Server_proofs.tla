--------------------------- MODULE Server_proofs ----------------------------
(***************************************************************************)
(* Proofs about Server for any sets of children and of parents.            *)
(***************************************************************************)
EXTENDS Server, TLAPS, FiniteSetTheorems

-----------------------------------------------------------------------------
(* The inductive invariant *)

\* The goroutine that is about to add a connection owns it: nobody else has
\* touched it since it was accepted or dialled.
Owned ==
  /\ lst.pc \in {"add", "onadd"} => lst.conn \in Children
  /\ lst.pc = "add" => st[lst.conn] = "open"
  /\ ppc \in {"add", "onadd", "set", "wait"} => pconn \in Parents
  /\ ppc = "add" => st[pconn] = "open"

\* The managed parent is the one in the loop's variable, and the loop has not
\* gone back to dialling.
TheLoops ==
  \A c \in Parents : st[c] = "managed" => c = pconn /\ ppc \in {"onadd", "set", "wait", "exit"}

\* While the loop waits, it waits for its own connection: the channel closes
\* only when that has left the manager.
WaitsForIts ==
  ppc = "wait" => \/ down = "open" /\ connID = pconn
                  \/ down = "closed" /\ st[pconn] # "managed"

\* Before Start there is no parent loop and no listener; after Stop there is no
\* Start.
NotYet == (~start /\ stop = "idle") => ppc = "off" /\ lst.pc = "off"

IInv == Owned /\ TheLoops /\ WaitsForIts /\ NotYet

-----------------------------------------------------------------------------
(* Types *)

LEMMA InitType == Init => TypeOK
<1> SUFFICES ASSUME Init PROVE TypeOK
  OBVIOUS
<1>1. /\ start \in BOOLEAN /\ ctxDone \in BOOLEAN
      /\ pipeClosed \subseteq Conns /\ sweep \subseteq Conns /\ earlyDown \subseteq Parents
      /\ st \in [Conns -> {"none"}] /\ serve \in [Conns -> {"none"}]
  BY DEF Init
<1>2. /\ lst \in [pc : {"off"}, conn : Conns \cup {None}]
      /\ ppc = "off" /\ pconn = None /\ connID = None /\ down = "nil" /\ stop = "idle"
  BY DEF Init
<1> QED BY <1>1, <1>2 DEF TypeOK

LEMMA TypeStep == TypeOK /\ Owned /\ [Next]_vars => TypeOK'
<1> SUFFICES ASSUME TypeOK, Owned, [Next]_vars PROVE TypeOK'
  OBVIOUS
<1> USE ServerAssumption DEF TypeOK, Conns, loop, halt, Set, Serve, AtP
<1>1. CASE Start \/ StopCalled \/ ListenerFails \/ StopExpires
  BY ZenonT(60), <1>1 DEF Start, StopCalled, ListenerFails, StopCancels, StopExpires
<1>2. CASE Listener
  <2>1. CASE ListenerAdds
    BY <2>1 DEF ListenerAdds, Owned
  <2>2. CASE ListenerOnAdd
    BY <2>2 DEF ListenerOnAdd, Owned
  <2>3. CASE ListenerExits
    BY <2>3 DEF ListenerExits
  <2> QED BY <1>2, <2>1, <2>2, <2>3 DEF Listener
<1>3. CASE ParentLoop
  <2>1. CASE CheckCtx \/ DialFails \/ WakeDown \/ Sleep
    BY <2>1 DEF CheckCtx, DialFails, WakeDown, Sleep
  <2>2. ASSUME NEW c \in Parents, DialOk(c) PROVE TypeOK'
    BY <2>2 DEF DialOk
  <2>3. CASE ParentAdd \/ ParentOnAdd
    BY <2>3 DEF ParentAdd, ParentOnAdd, Owned
  <2>4. CASE SetConn \/ WakeCtx
    BY <2>4 DEF SetConn, WakeCtx, Owned
  <2> QED BY <1>3, <2>1, <2>2, <2>3, <2>4 DEF ParentLoop
<1>4. CASE StopSteps
  BY <1>4 DEF StopSteps, StopShutsDown, StopWaited, StopClosesAll, StopReturns, Managed
<1>5. ASSUME NEW c \in Conns, Accept(c) \/ ReadLoopEnds(c) \/ Remove(c)
      PROVE  TypeOK'
  BY <1>5 DEF Accept, ReadLoopEnds, Remove
<1>6. ASSUME NEW c \in Conns, OnRemove(c) PROVE TypeOK'
  BY <1>6 DEF OnRemove, NotifyDown
<1>7. ASSUME NEW c \in Conns, Close(c) \/ ServeDone(c) PROVE TypeOK'
  BY <1>7 DEF Close, ServeDone
<1>8. CASE UNCHANGED vars
  BY <1>8 DEF vars
<1> QED BY <1>1, <1>2, <1>3, <1>4, <1>5, <1>6, <1>7, <1>8 DEF Next

-----------------------------------------------------------------------------
(* One parent *)

LEMMA InitInv == Init => IInv
BY DEF Init, IInv, Owned, TheLoops, WaitsForIts, NotYet, Conns

LEMMA OwnedStep == TypeOK /\ IInv /\ [Next]_vars => Owned'
<1> SUFFICES ASSUME TypeOK, IInv, [Next]_vars PROVE Owned'
  OBVIOUS
<1> USE ServerAssumption DEF TypeOK, Conns, loop, halt, Set, Serve, AtP, IInv, Owned
<1>1. CASE Start \/ StopCalled \/ ListenerFails \/ StopExpires
  BY <1>1 DEF Start, StopCalled, ListenerFails, StopCancels, StopExpires
<1>2. CASE Listener
  BY <1>2 DEF Listener, ListenerAdds, ListenerOnAdd, ListenerExits
<1>3. CASE ParentLoop
  <2>1. CASE CheckCtx \/ DialFails \/ WakeDown \/ Sleep
    BY <2>1 DEF CheckCtx, DialFails, WakeDown, Sleep
  <2>2. ASSUME NEW c \in Parents, DialOk(c) PROVE Owned'
    BY <2>2 DEF DialOk
  <2>3. CASE ParentAdd \/ ParentOnAdd \/ SetConn \/ WakeCtx
    BY <2>3 DEF ParentAdd, ParentOnAdd, SetConn, WakeCtx
  <2> QED BY <1>3, <2>1, <2>2, <2>3 DEF ParentLoop
<1>4. CASE StopSteps
  BY <1>4 DEF StopSteps, StopShutsDown, StopWaited, StopClosesAll, StopReturns
<1>5. ASSUME NEW c \in Conns, Accept(c) PROVE Owned'
  BY <1>5 DEF Accept
<1>6. ASSUME NEW c \in Conns, ReadLoopEnds(c) \/ Remove(c) PROVE Owned'
  BY <1>6 DEF ReadLoopEnds, Remove
<1>7. ASSUME NEW c \in Conns, OnRemove(c) \/ Close(c) \/ ServeDone(c) PROVE Owned'
  BY <1>7 DEF OnRemove, Close, ServeDone
<1>8. CASE UNCHANGED vars
  BY <1>8 DEF vars
<1> QED BY <1>1, <1>2, <1>3, <1>4, <1>5, <1>6, <1>7, <1>8 DEF Next

LEMMA LoopStep == TypeOK /\ IInv /\ [Next]_vars => (TheLoops /\ WaitsForIts /\ NotYet)'
<1> SUFFICES ASSUME TypeOK, IInv, [Next]_vars PROVE (TheLoops /\ WaitsForIts /\ NotYet)'
  OBVIOUS
<1> USE ServerAssumption DEF TypeOK, Conns, loop, halt, Set, Serve, AtP, IInv, Owned, TheLoops,
           WaitsForIts, NotYet
<1>1. CASE Start \/ StopCalled \/ ListenerFails \/ StopExpires
  BY <1>1 DEF Start, StopCalled, ListenerFails, StopCancels, StopExpires
<1>2. CASE Listener
  <2>1. CASE ListenerAdds
    BY <2>1 DEF ListenerAdds
  <2>2. CASE ListenerOnAdd \/ ListenerExits
    BY <2>2 DEF ListenerOnAdd, ListenerExits
  <2> QED BY <1>2, <2>1, <2>2 DEF Listener
<1>3. CASE ParentLoop
  <2>1. CASE CheckCtx \/ DialFails \/ WakeDown \/ Sleep
    BY <2>1 DEF CheckCtx, DialFails, WakeDown, Sleep
  <2>2. ASSUME NEW c \in Parents, DialOk(c) PROVE (TheLoops /\ WaitsForIts /\ NotYet)'
    BY <2>2 DEF DialOk
  <2>3. CASE ParentAdd \/ ParentOnAdd \/ SetConn \/ WakeCtx
    BY <2>3 DEF ParentAdd, ParentOnAdd, SetConn, WakeCtx
  <2> QED BY <1>3, <2>1, <2>2, <2>3 DEF ParentLoop
<1>4. CASE StopSteps
  BY <1>4 DEF StopSteps, StopShutsDown, StopWaited, StopClosesAll, StopReturns
<1>5. ASSUME NEW c \in Conns, Accept(c) \/ ReadLoopEnds(c) \/ Remove(c)
      PROVE  (TheLoops /\ WaitsForIts /\ NotYet)'
  BY <1>5 DEF Accept, ReadLoopEnds, Remove
<1>6. ASSUME NEW c \in Conns, OnRemove(c) PROVE (TheLoops /\ WaitsForIts /\ NotYet)'
  BY <1>6 DEF OnRemove, NotifyDown
<1>7. ASSUME NEW c \in Conns, Close(c) \/ ServeDone(c) PROVE (TheLoops /\ WaitsForIts /\ NotYet)'
  BY <1>7 DEF Close, ServeDone
<1>8. CASE UNCHANGED vars
  BY <1>8 DEF vars
<1> QED BY <1>1, <1>2, <1>3, <1>4, <1>5, <1>6, <1>7, <1>8 DEF Next

LEMMA InvStep == TypeOK /\ IInv /\ [Next]_vars => (TypeOK /\ IInv)'
BY TypeStep, OwnedStep, LoopStep DEF IInv

LEMMA Inductive == Spec => [](TypeOK /\ IInv)
BY InitType, InitInv, InvStep, PTL DEF Spec

\* The server's state keeps its types.
THEOREM TypeCorrect == Spec => []TypeOK
BY Inductive, PTL

\* However removals, Stop and reconnections race, the parent loop never has a
\* second parent in the manager: it dials again only when OnRemove has closed the
\* channel of its own connection.
THEOREM AtMostOneParent == Spec => []OneParent
<1>1. TypeOK /\ IInv => OneParent
  <2> SUFFICES ASSUME TypeOK, IInv PROVE Cardinality(Managed \cap Parents) <= 1
    BY DEF OneParent
  <2>1. Managed \cap Parents \in SUBSET {pconn}
    BY DEF Managed, IInv, TheLoops
  <2>2. IsFiniteSet({pconn}) /\ Cardinality({pconn}) = 1
    BY FS_Singleton
  <2> QED BY <2>1, <2>2, FS_Subset
<1> QED BY <1>1, Inductive, PTL

-----------------------------------------------------------------------------
(* The wake-up of the parent loop *)

\* What makes WokenUnlessEarly inductive: a hook that runs before setConn is recorded.
EarlyRecorded == (ppc \in {"onadd", "set"} /\ Gone(pconn)) => pconn \in earlyDown

LEMMA WakeStep ==
  TypeOK /\ IInv /\ WokenUnlessEarly /\ EarlyRecorded /\ [Next]_vars
    => (WokenUnlessEarly /\ EarlyRecorded)'
<1> DEFINE J == WokenUnlessEarly /\ EarlyRecorded
<1> SUFFICES ASSUME TypeOK, IInv, J, [Next]_vars PROVE J'
  OBVIOUS
<1> USE ServerAssumption DEF TypeOK, Conns, loop, halt, Set, Serve, AtP, IInv, Owned,
           WaitsForIts, WokenUnlessEarly, EarlyRecorded, Gone
<1>1. CASE Start \/ StopCalled \/ ListenerFails \/ StopExpires
  BY <1>1 DEF Start, StopCalled, ListenerFails, StopCancels, StopExpires
<1>2. CASE Listener
  <2>1. CASE ListenerAdds
    BY <2>1 DEF ListenerAdds
  <2>2. CASE ListenerOnAdd \/ ListenerExits
    BY <2>2 DEF ListenerOnAdd, ListenerExits
  <2> QED BY <1>2, <2>1, <2>2 DEF Listener
<1>3. CASE ParentLoop
  <2>1. CASE CheckCtx \/ DialFails \/ WakeDown \/ WakeCtx \/ Sleep
    BY <2>1 DEF CheckCtx, DialFails, WakeDown, WakeCtx, Sleep
  <2>2. ASSUME NEW c \in Parents, DialOk(c) PROVE J'
    BY <2>2 DEF DialOk
  <2>3. CASE ParentAdd \/ ParentOnAdd \/ SetConn
    BY <2>3 DEF ParentAdd, ParentOnAdd, SetConn
  <2> QED BY <1>3, <2>1, <2>2, <2>3 DEF ParentLoop
<1>4. CASE StopSteps
  BY <1>4 DEF StopSteps, StopShutsDown, StopWaited, StopClosesAll, StopReturns
<1>5. ASSUME NEW c \in Conns, Accept(c) \/ ReadLoopEnds(c) \/ Remove(c) PROVE J'
  BY <1>5 DEF Accept, ReadLoopEnds, Remove
<1>6. ASSUME NEW c \in Conns, OnRemove(c) PROVE J'
  BY <1>6 DEF OnRemove, NotifyDown
<1>7. ASSUME NEW c \in Conns, Close(c) \/ ServeDone(c) PROVE J'
  BY <1>7 DEF Close, ServeDone
<1>8. CASE UNCHANGED vars
  BY <1>8 DEF vars
<1> QED BY <1>1, <1>2, <1>3, <1>4, <1>5, <1>6, <1>7, <1>8 DEF Next

\* No wake-up of runParentLink is lost other than by a hook that ran before
\* setConn (the finding of run ServerReattach): the safety half of
\* ReattachUnlessEarly, for any number of reconnections.
THEOREM WakeUpNotLost == Spec => []WokenUnlessEarly
<1>1. Init => WokenUnlessEarly /\ EarlyRecorded
  BY DEF Init, WokenUnlessEarly, EarlyRecorded
<1> QED BY <1>1, Inductive, WakeStep, PTL DEF Spec

-----------------------------------------------------------------------------
(* Every connection has a goroutine that sees to it *)

LEMMA AttendedStep == TypeOK /\ IInv /\ Attended /\ [Next]_vars => Attended'
<1> SUFFICES ASSUME TypeOK, IInv, Attended, [Next]_vars PROVE Attended'
  OBVIOUS
<1> USE ServerAssumption DEF TypeOK, Conns, loop, halt, Set, Serve, AtP, Attended
<1>1. CASE Start \/ StopCalled \/ ListenerFails \/ StopExpires
  BY <1>1 DEF IInv, NotYet, Start, StopCalled, ListenerFails, StopCancels, StopExpires
<1>2. CASE Listener
  <2>1. CASE ListenerAdds
    BY <2>1 DEF ListenerAdds, IInv, Owned
  <2>2. CASE ListenerOnAdd
    BY <2>2 DEF ListenerOnAdd, IInv, Owned
  <2>3. CASE ListenerExits
    BY <2>3 DEF ListenerExits
  <2> QED BY <1>2, <2>1, <2>2, <2>3 DEF Listener
<1>3. CASE ParentLoop
  <2>1. CASE CheckCtx \/ DialFails \/ WakeDown \/ WakeCtx \/ Sleep \/ SetConn
    BY <2>1 DEF CheckCtx, DialFails, WakeDown, WakeCtx, Sleep, SetConn
  <2>2. ASSUME NEW c \in Parents, DialOk(c) PROVE Attended'
    BY <2>2 DEF DialOk
  <2>3. CASE ParentAdd
    BY <2>3 DEF ParentAdd, IInv, Owned
  <2>4. CASE ParentOnAdd
    BY <2>4 DEF ParentOnAdd, IInv, Owned
  <2> QED BY <1>3, <2>1, <2>2, <2>3, <2>4 DEF ParentLoop
<1>4. CASE StopSteps
  BY <1>4 DEF StopSteps, StopShutsDown, StopWaited, StopClosesAll, StopReturns
<1>5. ASSUME NEW c \in Conns, Accept(c) PROVE Attended'
  BY <1>5 DEF Accept
<1>6. ASSUME NEW c \in Conns, ReadLoopEnds(c) PROVE Attended'
  BY <1>6 DEF ReadLoopEnds
<1>7. ASSUME NEW c \in Conns, Remove(c) \/ Close(c) \/ ServeDone(c) PROVE Attended'
  BY <1>7 DEF Remove, Close, ServeDone
<1>8. ASSUME NEW c \in Conns, OnRemove(c) PROVE Attended'
  BY <1>8 DEF OnRemove
<1>9. CASE UNCHANGED vars
  BY <1>9 DEF vars
<1> QED BY <1>1, <1>2, <1>3, <1>4, <1>5, <1>6, <1>7, <1>8, <1>9 DEF Next

\* However accepting, dialling, removals and Stop race, no connection is orphaned:
\* whoever opened it still has it in hand, or it has a read loop that will take it
\* out.  The safety half of CancelReleases.
THEOREM NoneOrphaned == Spec => []Attended
<1>1. Init => Attended
  BY DEF Init, Attended
<1> QED BY <1>1, Inductive, AttendedStep, PTL DEF Spec

-----------------------------------------------------------------------------
(* The server's use of the manager implements ConnLife *)

\* One connection passes from one stage of its life to the next.
LEMMA OneMoves ==
  ASSUME TypeOK, NEW c \in Conns, NEW s, st' = [st EXCEPT ![c] = s],
         NEW from, NEW to, lifeOf[c] = from, lifeOf'[c] = to
  PROVE  Life!Passes(c, from, to)
<1>1. \A x \in Conns : x # c => lifeOf'[x] = lifeOf[x]
  BY DEF TypeOK, lifeOf
<1>2. /\ DOMAIN lifeOf = Conns /\ lifeOf = [x \in Conns |-> lifeOf[x]]
      /\ lifeOf' = [x \in Conns |-> lifeOf'[x]]
  BY DEF lifeOf
<1>3. lifeOf' = [lifeOf EXCEPT ![c] = to]
  BY <1>1, <1>2
<1> QED BY <1>3 DEF Life!Passes

\* Managed connections are taken out by one step, alone or all together.
LEMMA TakenOut ==
  ASSUME TypeOK, NEW S \in SUBSET Managed,
         st' = [c \in Conns |-> IF c \in S THEN "removed" ELSE st[c]]
  PROVE  Life!Next
<1>1. S \in SUBSET {c \in Conns : lifeOf[c] = "managed"}
  BY DEF Managed, lifeOf
<1>2. lifeOf' = [c \in Conns |-> IF c \in S THEN "removed" ELSE lifeOf[c]]
  BY DEF lifeOf
<1> QED BY <1>1, <1>2 DEF Life!Next, Life!TakeOut

LEMMA LifeStep == TypeOK /\ IInv /\ [Next]_vars => [Life!Next]_lifeOf
<1> SUFFICES ASSUME TypeOK, IInv, [Next]_vars PROVE [Life!Next]_lifeOf
  OBVIOUS
<1>0. st' = st => UNCHANGED lifeOf
  BY DEF lifeOf
<1>a. st \in [Conns -> {"none", "open", "managed", "removed", "hooked", "closed"}]
  BY DEF TypeOK
<1>1. CASE Start \/ StopCalled \/ ListenerFails \/ StopExpires
  BY <1>0, <1>1 DEF Start, StopCalled, ListenerFails, StopCancels, StopExpires
<1>2. CASE ListenerOnAdd \/ ListenerExits
  BY <1>0, <1>2 DEF ListenerOnAdd, ListenerExits
<1>3. ASSUME NEW c \in Conns, st[c] = "open", Set(c, "managed") PROVE Life!Next
  <2>1. lifeOf[c] = "fresh" /\ lifeOf'[c] = "managed"
    BY <1>a, <1>3 DEF Set, lifeOf
  <2> QED BY <1>3, <2>1, OneMoves DEF Set, Life!Next, Life!Admit
<1>4. CASE ListenerAdds
  BY <1>3, <1>4 DEF ListenerAdds, IInv, Owned, Conns
<1>5. CASE ParentAdd
  BY <1>3, <1>5 DEF ParentAdd, AtP, IInv, Owned, Conns
<1>6. CASE CheckCtx \/ DialFails \/ ParentOnAdd \/ SetConn \/ WakeDown \/ WakeCtx \/ Sleep
  BY <1>0, <1>6 DEF CheckCtx, DialFails, ParentOnAdd, SetConn, WakeDown, WakeCtx, Sleep
<1>7. ASSUME NEW c \in Conns, st[c] = "none", Set(c, "open") PROVE UNCHANGED lifeOf
  BY <1>a, <1>7 DEF Set, lifeOf
<1>8. CASE StopShutsDown \/ StopWaited \/ StopReturns
  BY <1>0, <1>8 DEF StopShutsDown, StopWaited, StopReturns
<1>9. CASE StopClosesAll
  <2>1. st' = [c \in Conns |-> IF c \in Managed THEN "removed" ELSE st[c]]
    BY <1>9 DEF StopClosesAll, Managed
  <2> QED BY <2>1, TakenOut
<1>10. ASSUME NEW c \in Conns, st[c] = "managed", Set(c, "removed") PROVE Life!Next
  <2>1. {c} \in SUBSET Managed /\ st' = [x \in Conns |-> IF x \in {c} THEN "removed" ELSE st[x]]
    BY <1>a, <1>10 DEF Managed, Set
  <2> QED BY <2>1, TakenOut
<1>11. ASSUME NEW c \in Conns, ReadLoopEnds(c) \/ Remove(c) PROVE [Life!Next]_lifeOf
  BY <1>0, <1>10, <1>11 DEF ReadLoopEnds, Remove
<1>12. ASSUME NEW c \in Conns, OnRemove(c) PROVE Life!Next
  <2>1. lifeOf[c] = "removed" /\ lifeOf'[c] = "closing"
    BY <1>a, <1>12 DEF OnRemove, Set, lifeOf
  <2> QED BY <1>12, <2>1, OneMoves DEF OnRemove, Set, Life!Next, Life!Hook
<1>13. ASSUME NEW c \in Conns, Close(c) PROVE Life!Next
  <2>1. lifeOf[c] = "closing" /\ lifeOf'[c] = "closed"
    BY <1>a, <1>13 DEF Close, Set, lifeOf
  <2> QED BY <1>13, <2>1, OneMoves DEF Close, Set, Life!Next, Life!Close
<1>14. ASSUME NEW c \in Conns, Accept(c) \/ ServeDone(c) PROVE [Life!Next]_lifeOf
  BY <1>0, <1>7, <1>14 DEF Accept, ServeDone
<1>15. ASSUME NEW c \in Parents, DialOk(c) PROVE [Life!Next]_lifeOf
  BY <1>7, <1>15 DEF DialOk, Conns
<1>16. CASE UNCHANGED vars
  BY <1>0, <1>16 DEF vars
<1> QED BY <1>1, <1>2, <1>4, <1>5, <1>6, <1>8, <1>9, <1>11, <1>12, <1>13, <1>14, <1>15, <1>16
        DEF Next, Listener, ParentLoop, StopSteps

\* The server implements ConnLife for any number of children and parents: every
\* connection it adds is taken out once, by whoever comes first, gets its hook and
\* is then closed.
THEOREM ImplementsConnLife == Spec => LivesAsPromised
<1>1. Init => Life!Init
  BY DEF Init, Life!Init, lifeOf
<1> QED BY <1>1, Inductive, LifeStep, PTL DEF Spec, LivesAsPromised, Life!Spec
=============================================================================
