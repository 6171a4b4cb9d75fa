---------------------------- MODULE WebSocketMC ----------------------------
(***************************************************************************)
(* An instance of WebSocket.                                               *)
(***************************************************************************)
EXTENDS WebSocket
=============================================================================
