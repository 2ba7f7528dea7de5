----------------------------- MODULE MCAuditLog -----------------------------
(* Instances of AuditLog for TLC.                                           *)
EXTENDS AuditLog

CONSTANTS worker, cli

OneProc == {worker}
TwoProcs == {worker, cli}
AllFaults == {"kill", "io", "power"}
=============================================================================
