---------------------------- MODULE MCListeners -----------------------------
(* Small instances of Listeners: what the process may be set up with.        *)
EXTENDS Listeners

Four == {[kids |-> <<"tcp", "quic">>, dials |-> FALSE, closes |-> TRUE],
         [kids |-> <<"rfcomm">>, dials |-> FALSE, closes |-> TRUE],
         [kids |-> <<"rfcomm">>, dials |-> TRUE, closes |-> FALSE],
         [kids |-> <<"winsock">>, dials |-> FALSE, closes |-> TRUE]}

\* RFCOMM on BlueZ alone, beside a dial by UUID.
Rfcomm == {[kids |-> <<"rfcomm">>, dials |-> TRUE, closes |-> TRUE]}
=============================================================================
