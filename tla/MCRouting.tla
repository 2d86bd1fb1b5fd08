----------------------------- MODULE MCRouting -----------------------------
(* A tree of four hubs: a and b are children of r, c is a child of a.        *)
EXTENDS Routing

CONSTANTS r, a, b, c, up, down, cast, zero, anon

TreeParent == [n \in Nodes |-> IF n = r THEN None ELSE IF n = c THEN a ELSE r]
TreeLinks == {<<n, m>> \in Links : parentOf[n] = m \/ parentOf[m] = n}

\* After login every hub knows the subtree below each of its children.
TreeIndex == [n \in Nodes |-> [t \in Nodes |->
  IF n = r THEN (IF t = c THEN a ELSE IF t = r THEN None ELSE t)
  ELSE IF n = a /\ t = c THEN c ELSE None]]

Msgs == [src |-> None, tgt |-> None, cmd |-> FALSE, auth |-> FALSE, hop |-> 0]
Headers == [f \in Frames |->
  CASE f = up   -> [Msgs EXCEPT !.src = c, !.tgt = b, !.hop = 3]
    [] f = down -> [Msgs EXCEPT !.src = r, !.tgt = c]
    [] f = cast -> [Msgs EXCEPT !.src = r]
    [] f = zero -> [Msgs EXCEPT !.cmd = TRUE, !.tgt = r]
    [] f = anon -> [Msgs EXCEPT !.auth = TRUE, !.tgt = r]]

\* For down, the hub a on its way has no handler; for the others, c has none.
Handlers == [f \in Frames |-> IF f = down THEN {r, b, c} ELSE {r, a, b}]

FirstHops == [f \in Frames |-> CASE f \in {up, down} -> {a} [] f = cast -> {a, b}
                                 [] OTHER -> {r}]
=============================================================================
