------------------------------- MODULE MCApi -------------------------------
(* The bounds for the run of Api.                                          *)
EXTENDS Api

MCOddKinds == {Missing, "text", "infinity"}
============================================================================
