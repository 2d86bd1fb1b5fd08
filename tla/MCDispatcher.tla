---------------------------- MODULE MCDispatcher ----------------------------
(* A small instance of Dispatcher: f1 and f2 come from one connection, g1    *)
(* from another that the hash puts on the same queue, h1 from a third that   *)
(* has the other queue.  f1 and g1, and f2 and h1, share a sub-protocol; f1  *)
(* and h1, and f2 and g1, go between the same nodes.                         *)
EXTENDS Dispatcher

CONSTANTS f1, f2, g1, h1, c1, c2, c3, ab, cd

MCconnOf == [f \in Frames |-> CASE f = g1 -> c2 [] f = h1 -> c3 [] OTHER -> c1]
MCsubOf  == [f \in Frames |-> IF f \in {f1, g1} THEN 2 ELSE 3]
MCpairOf == [f \in Frames |-> IF f \in {f1, h1} THEN ab ELSE cd]
MChash   == [x \in {c1, c2, c3, ab, cd} |-> IF x \in {c3, ab} THEN 7 ELSE 4]
=============================================================================
