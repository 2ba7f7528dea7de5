---------------------------- MODULE MCOpsEngine ----------------------------
(* Instances of OpsEngine for TLC.                                          *)
EXTENDS OpsEngine, TLC

CONSTANTS a, c1, c2, c3

OneTarget == {a}
NoTargets == {}
TwoContents == {c1, c2}
ThreeContents == {c1, c2, c3}
OnlyThird == {c3}
NoContents == {}
OneCommit == {1}
TwoCommits == {1, 2}
OneTick == {1}
HookFaults == {"hook"}
AllFaults == {"crash", "io", "hook"}
AllKinds == {"apply", "restore", "service", "confirm", "rollback"}
=============================================================================
