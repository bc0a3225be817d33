-------------------------- MODULE MCRecoveryCache --------------------------
(* Instances of RecoveryCache for TLC: connections, credentials, and servers *)
(* of which all are seeds and hosts, are interchangeable.                    *)
EXTENDS RecoveryCache, TLC

Symm == Permutations(Conns) \cup Permutations(Users) \cup Permutations(Servers)
=============================================================================
