----------------------------- MODULE MCWebAuth -----------------------------
EXTENDS WebAuth, TLC

CONSTANTS u1, r1, r2

OneUser == {u1}
AllKinds == Kinds
TwoReqs == {r1, r2}
Symmetric == Permutations(TwoReqs)
=============================================================================
