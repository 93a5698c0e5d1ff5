-------------------------- MODULE MCWebSocketClient --------------------------
(* The bounds are numbers, given in the .cfg file: four application calls   *)
(* and one lost connection make up to five sockets, across which a queue of *)
(* two overflows.                                                           *)
EXTENDS WebSocketClient
=============================================================================
