----------------------------- MODULE MCObjectId -----------------------------
(* Instances of ObjectId for TLC: processes, and connections, are           *)
(* interchangeable.                                                         *)
EXTENDS ObjectId, TLC

Symm == Permutations(Processes) \cup Permutations(Conns)
=============================================================================
