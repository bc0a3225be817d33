--------------------------- MODULE MCBsonDocument ---------------------------
(* Instances of BsonDocument for TLC.                                       *)
EXTENDS BsonDocument, TLC

CONSTANTS big, small

\* A document with two elements, and a smaller one that goes into it.
MCNested == (big :> 2) @@ (small :> 1)
=============================================================================
