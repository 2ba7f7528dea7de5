-------------------------------- MODULE MCAcme --------------------------------
(* An instance of Acme for TLC.                                             *)
EXTENDS Acme, TLC

CONSTANTS d1, d2

TwoDomains == {d1, d2}
EarlyWindow == {1}
AllFaults == {"load", "order", "chain", "store", "refuse", "slow"}
=============================================================================
