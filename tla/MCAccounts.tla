---------------------------- MODULE MCAccounts ----------------------------
(* Model values for the runs of Accounts.                                  *)
EXTENDS Accounts

CONSTANTS a, b

MCNumbers == {a, b}
===========================================================================
