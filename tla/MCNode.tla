------------------------------- MODULE MCNode -------------------------------
(* A small instance of SelfRegister, of Permission and of Wire: what a node  *)
(* does outside the server, and the frames it sends and reads.  They share   *)
(* no state, so a behaviour shows one of them: a node with a preset nodeID   *)
(* does not register (transport "none"), and its permissions or the frames   *)
(* on one of its pipes are what happens.                                     *)
EXTENDS SelfRegister, Permission, Wire

Entry(key, val) == [key |-> key, val |-> val, ok |-> TRUE]
IllFormed(key, val) == [key |-> key, val |-> val, ok |-> FALSE]

\* A core config with every key, among them an overwritten and an ill-formed
\* entry, and one without a role whose default permissions are empty.
Texts == <<
  [role |-> "node", perms |-> {"p"},
   nodes |-> <<Entry(1, "admin"), IllFormed(1, "node")>>,
   roles |-> <<Entry("admin", {"p"}), Entry("admin", {"*"})>>],
  [perms |-> {}, nodes |-> <<Entry(1, "admin")>>, roles |-> <<>>] >>

\* A long, an empty and a short payload.
LongEmptyShort == <<10, 0, 2>>

Permits == transport = "none" /\ ~doLogin
Framing == transport = "none" /\ doLogin

Init ==
  /\ RegInit /\ PermInit /\ WireInit
  /\ ~Permits => (\A h \in Handlers : cfgOf[h] = 1) /\ (\A k \in DOMAIN Texts : addr[k] = 1)
  /\ ~Framing => pipe = "plain"

Next == \/ RegNext /\ UNCHANGED <<permVars, wireVars>>
        \/ Permits /\ PermNext /\ UNCHANGED <<regVars, wireVars>>
        \/ Framing /\ WireNext /\ UNCHANGED <<regVars, permVars>>

Spec == Init /\ [][Next]_<<regVars, permVars, wireVars>> /\ RegFairness /\ WireFairness
=============================================================================
