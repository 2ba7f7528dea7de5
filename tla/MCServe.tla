------------------------------- MODULE MCServe -------------------------------
(* An instance of Serve for TLC.                                            *)
EXTENDS Serve, TLC

CONSTANTS c1, c2

TwoConns == {c1, c2}
AllFaults == {"start", "loop", "kill"}
=============================================================================
