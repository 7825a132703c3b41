--------------------------- MODULE MCKeepAlive ---------------------------
(* Model values and symmetry for the runs of KeepAlive.                    *)
EXTENDS KeepAlive, TLC

CONSTANTS w1, w2, w3

MCClients == {w1, w2, w3}

\* Clients are compared for equality only.
MCSymmetry == Permutations(MCClients)
==========================================================================
