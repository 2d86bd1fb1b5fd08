-------------------------- MODULE MCSendDispatcher --------------------------
(* Small instances of SendDispatcher: t1 and t2 go to connection a, t3 to b. *)
EXTENDS SendDispatcher

CONSTANTS t1, t2, t3, a, b

MCconnOf == [t \in Tasks |-> IF t = t3 /\ b \in Conns THEN b ELSE a]
MCshardOf == [c \in Conns |-> CHOOSE s \in Shards : TRUE]

\* Two bounds of the liveness run.  Beside the removal of b, which has no frames,
\* there is one frame for a; and a failed write leaves nothing on the wire, which
\* no goroutine looks at.
Bounded ==
  /\ caller'[t2] = "idle" \/ remover'[b].pc = "idle"
  /\ \A c \in Conns : \A k \in 1..Len(wire'[c]) : wire'[c][k][2] # "cut"
=============================================================================
