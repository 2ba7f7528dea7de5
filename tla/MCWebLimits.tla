---------------------------- MODULE MCWebLimits ----------------------------
EXTENDS WebLimits, TLC

CONSTANTS i1, i2, n1, n2, s1, s2, t1, t2, t3

TwoIps == {i1, i2}
TwoNames == {n1, n2}
TwoSlots == {s1, s2}
ThreeTokens == {t1, t2, t3}
Symmetric == Permutations(TwoIps) \cup Permutations(TwoNames)
             \cup Permutations(TwoSlots) \cup Permutations(ThreeTokens)
=============================================================================
