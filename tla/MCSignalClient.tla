-------------------------- MODULE MCSignalClient --------------------------
(* Model values and symmetry for the runs of SignalClient.                 *)
EXTENDS SignalClient, TLC

CONSTANTS b1, b2, b3, b4, t1, t2, c1, a1, w1, w2

MCBuses == {b1, b2, b3, b4}
MCThreeBuses == {b1, b2, b3}
MCTasks == {t1, t2}
MCOneTask == {t1}
MCOneCall == {c1}
MCAccounts == {a1}
MCClients == {w1, w2}
MCOneClient == {w1}
MCNone == {}

\* Buses and tasks are compared for equality only.
MCSymmetry == Permutations(MCBuses) \cup Permutations(MCTasks)
===========================================================================
