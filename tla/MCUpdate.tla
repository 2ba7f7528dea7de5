------------------------------ MODULE MCUpdate ------------------------------
EXTENDS Update, TLC

CONSTANTS u1, u2

TwoUpdaters == {u1, u2}
FourReleases == 1..4
OneSick == {2}
OneRefused == {4}
=============================================================================
