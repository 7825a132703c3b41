------------------------ MODULE MCWebSocketSession ------------------------
(* Model values for the runs of WebSocketSession.                          *)
EXTENDS WebSocketSession

CONSTANTS w1, w2

MCClients == {w1, w2}
===========================================================================
