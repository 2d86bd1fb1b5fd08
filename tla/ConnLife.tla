------------------------------ MODULE ConnLife ------------------------------
(***************************************************************************)
(* What the connection manager promises about each connection handed to    *)
(* it, whoever adds, removes, evicts or sweeps it: it is refused or        *)
(* managed; once out of the table its OnRemove hook is owed, runs once,    *)
(* and only then the connection is closed, for good.  ConnManager and      *)
(* Server, which reduces the manager to one state per connection, both     *)
(* implement this module.                                                  *)
(***************************************************************************)
CONSTANT Conns

VARIABLE life   \* "fresh", "managed", "removed", "closing" or "closed"

TypeOK == life \in [Conns -> {"fresh", "managed", "removed", "closing", "closed"}]

Init == life = [c \in Conns |-> "fresh"]

Passes(c, from, to) == life[c] = from /\ life' = [life EXCEPT ![c] = to]

\* Add accepts the connection, or the caller of Add has to close it.
Admit(c)  == Passes(c, "fresh", "managed")
Refuse(c) == Passes(c, "fresh", "closing")

\* One locked section takes one connection (Remove) or several (CloseAll) out.
TakeOut(S) ==
  life' = [c \in Conns |-> IF c \in S THEN "removed" ELSE life[c]]

Hook(c)  == Passes(c, "removed", "closing")
Close(c) == Passes(c, "closing", "closed")

Next == \/ \E c \in Conns : Admit(c) \/ Refuse(c) \/ Hook(c) \/ Close(c)
        \/ \E S \in SUBSET {c \in Conns : life[c] = "managed"} : TakeOut(S)

Spec == Init /\ [][Next]_life
=============================================================================
