----------------------------- MODULE ReplicaSet -----------------------------
(* What failover and the recovery cache say about a replica set in common.  *)

CONSTANTS
    Servers,    \* members of the replica set that can be connected to
    None,       \* NULL: no address, no credentials, or a closed descriptor
    MaxSeeds    \* bound: length of a seed list
=============================================================================
