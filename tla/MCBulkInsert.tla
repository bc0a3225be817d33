---------------------------- MODULE MCBulkInsert ----------------------------
(* An instance of BulkInsert for TLC.  The limits lie below, at and above    *)
(* half of MaxInt, so that with the largest of them the sum of sizes wraps.  *)
EXTENDS BulkInsert

\* An unfinished document, and small, middling and large ones.
MCSizes == {-1, 1, 2, 5, 11}
=============================================================================
