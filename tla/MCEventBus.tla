----------------------------- MODULE MCEventBus -----------------------------
(* Small instances of EventBus: every call is about the same event name.     *)
EXTENDS EventBus

OneKey == [x \in Calls |-> CHOOSE k \in Keys : TRUE]
=============================================================================
