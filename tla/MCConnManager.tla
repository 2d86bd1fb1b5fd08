--------------------------- MODULE MCConnManager ---------------------------
(* A small instance of ConnManager.  c1 and c2 share an ID, as two TCP       *)
(* connections from the same remote port do one after the other; c3 has its  *)
(* own and may report a device.                                              *)
EXTENDS ConnManager

CONSTANTS c1, c2, c3, i1, i2

SharedIds == [c \in Conns |-> IF c = c3 THEN i2 ELSE i1]

\* c1 meets c2 or c3, not both: ConnManager_proofs has the invariants for any
\* number of connections.
OneCompanion ==
  \E c \in {c2, c3} : phase'[c] = "fresh" /\ metaNode'[c] = None /\ metaDev'[c] = None
=============================================================================
