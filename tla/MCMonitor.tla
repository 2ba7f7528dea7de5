----------------------------- MODULE MCMonitor -----------------------------
(* Instances of Monitor for TLC.                                            *)
EXTENDS Monitor, TLC

CONSTANTS a, c1, c2

OneTarget == {a}
TwoContents == {c1, c2}
OnlySecond == {c2}
NoContents == {}
NoTargets == {}

TwoCommits == {1, 2}
Timeouts == {0, 2}
OneTick == {1}
AllButPower == {"crash", "io", "hook"}
CrashOrPower == {"crash", "power"}
=============================================================================
