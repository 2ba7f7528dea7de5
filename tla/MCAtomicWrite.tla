--------------------------- MODULE MCAtomicWrite ---------------------------
(* AtomicWrite on two contents, with backup names for a handful of writes.  *)
EXTENDS AtomicWrite

CONSTANTS a, b, LastStamp
MCContent == {a, b}
MCStamp == 1 .. LastStamp
=============================================================================
