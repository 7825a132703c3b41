----------------------------- MODULE MCBridge -----------------------------
(* Model values for the run of Bridge.                                     *)
EXTENDS Bridge

CONSTANTS w1, w2

MCClients == {w1, w2}
===========================================================================
