-------------------------------- MODULE MCRoom --------------------------------
(* Instances of Room for TLC. *)
EXTENDS Room

\* The options NewRoom makes, with and without restricted broadcasts.
BothRooms == {[restricted |-> r, onClose |-> TRUE] : r \in BOOLEAN}

\* The option of example/websocket, which has no OnClose.
ExampleRoom == {[restricted |-> FALSE, onClose |-> FALSE]}
===============================================================================
