--------------------------- MODULE MCWsConnection ---------------------------
(***************************************************************************)
(* TLC instance of WsConnection: the server's thread and another one send  *)
(* two messages; the peer sends two frames, together or apart.             *)
(***************************************************************************)
EXTENDS WsConnection

MCSenders == {"server", "runner"}
=============================================================================
