----------------------------- MODULE MCSyncPool -----------------------------
(* An instance of SyncPool for TLC: every way a list of up to four hosts can *)
(* mix the master, an unusable address and two secondaries.                  *)
EXTENDS SyncPool

CONSTANTS p, a, b, bad, c1, c2

MCHostLists ==
    { <<>>, <<p>>, <<bad>>, <<a>>, <<a, p, b>>, <<p, a, bad, b>>, <<a, b, p>>,
      <<bad, p, a>>, <<b, a>> }
=============================================================================
