----------------------------- MODULE SyncCursor -----------------------------
(***************************************************************************)
(* The cursor of mongo-sync-cursor.c: mongo_sync_cursor_new on the first   *)
(* batch of a query, mongo_sync_cursor_next, which moves through the batch *)
(* and fetches the next one (mongo_sync_cmd_get_more) when it runs out,    *)
(* mongo_sync_cursor_get_data and mongo_sync_cursor_free.                  *)
(*                                                                         *)
(* The result set is the documents 1..Docs.  The server hands them out in  *)
(* batches and may forget the cursor; an exchange with it may fail before  *)
(* or after the server has moved its own cursor on, and the connection may  *)
(* fail over to another server, which does not know the cursor.            *)
(***************************************************************************)
EXTENDS Naturals, Integers, Sequences

CONSTANTS
    Docs,       \* how many documents match the query
    None,       \* NULL
    MaxFaults   \* bound: exchanges that fail and cursors the server forgets

ASSUME SyncCursorAssumption ==
    /\ Docs \in Nat \ {0} /\ MaxFaults \in Nat
    /\ None \notin Nat /\ None \notin Seq(Nat)

VARIABLES
    phase,      \* "none" (no cursor), "open"
    results,    \* cursor->results: the documents of the packet, or None
    returned,   \* cursor->ph.returned
    cid,        \* cursor->ph.cursor_id: 0, or 1 for the id the server gave
    offset,     \* cursor->offset
    answer,     \* what the last mongo_sync_cursor_next returned
    left,       \* the first document the server has not handed out
    srvOpen,    \* the server that answered the query holds the cursor
    moved,      \* the connection leads to another server
    delivered,  \* the documents the cursor has stood on, in order
    trouble,    \* of the cursor: a next that returned FALSE, a kill that was lost or
                \* went to another server
    faults      \* faults so far

vars == <<phase, results, returned, cid, offset, answer, left, srvOpen, moved, delivered,
          trouble, faults>>

Batch(first, n) == [k \in 1..n |-> first + k - 1]

\* The batch of n documents the server sends next, and the cursor id with it:
\* 0 once it knows that nothing is left.
Handed(n, id) ==
    /\ results' = Batch(left, n)
    /\ returned' = n
    /\ cid' = id
    /\ left' = left + n
    /\ srvOpen' = (id # 0)
    /\ left + n <= Docs => id # 0

Fault == faults < MaxFaults /\ faults' = faults + 1

New ==
    /\ phase = "none"
    /\ phase' = "open"
    /\ \E n \in 1..Docs, id \in {0, 1} :
         /\ results' = Batch(1, n)
         /\ returned' = n
         /\ cid' = id
         /\ left' = n + 1
         /\ srvOpen' = (id # 0)
         /\ n < Docs => id # 0
    /\ offset' = -1
    /\ answer' = "none"
    /\ delivered' = <<>>
    /\ trouble' = {}
    /\ moved' = FALSE
    /\ UNCHANGED faults

ServerForgets ==
    /\ Fault
    /\ srvOpen
    /\ srvOpen' = FALSE
    /\ UNCHANGED <<phase, results, returned, cid, offset, answer, left, moved, delivered, trouble>>

\* mongo_sync_reconnect: before a packet of this cursor is sent, or by a command
\* of somebody else who uses the connection; another one may lead it back.
Moves ==
    /\ Fault
    /\ phase = "open"
    /\ moved' = ~moved
    /\ UNCHANGED <<phase, results, returned, cid, offset, answer, left, srvOpen, delivered, trouble>>

-----------------------------------------------------------------------------
(* mongo_sync_cursor_get_data and mongo_sync_cursor_next.                  *)

\* mongo_wire_reply_packet_get_nth_document (results, offset + 1).
Data(rs, off) == IF rs # None /\ off + 1 \in DOMAIN rs THEN rs[off + 1] ELSE None

Deliver(rs, off) ==
    /\ answer' = "TRUE"
    /\ delivered' = IF Data(rs, off) = None THEN delivered ELSE Append(delivered, Data(rs, off))
    /\ UNCHANGED <<phase, trouble>>

\* Mutant: one document too early.
ExhaustedEarly == offset >= returned - 2
Exhausted == offset >= returned - 1

NextInBatch ==
    /\ phase = "open"
    /\ ~Exhausted
    /\ offset' = offset + 1
    /\ Deliver(results, offset')
    /\ UNCHANGED <<results, returned, cid, left, srvOpen, moved, faults>>

\* Mutant: the place in the old batch is kept.
PlaceInNewBatchKept == offset + 1
PlaceInNewBatch == 0

\* The reply holds at most as many documents as the batch before it.
NextFetched ==
    /\ phase = "open"
    /\ Exhausted
    /\ srvOpen /\ ~moved /\ cid # 0
    /\ \E n \in 1..returned, id \in {0, 1} :
         /\ left + n - 1 <= Docs
         /\ Handed(n, id)
    /\ offset' = PlaceInNewBatch
    /\ Deliver(results', offset')
    /\ UNCHANGED <<moved, faults>>

\* Mutant: the reply header is forgotten with the reply.
HeaderAfterFailureCleared == cid' = 0 /\ UNCHANGED returned
HeaderAfterFailure == UNCHANGED <<returned, cid>>

\* Mutant: the old batch is kept, and the place in it is not.
NextFailsKeepingBatch ==
    /\ phase = "open"
    /\ Exhausted
    /\ offset' = -1
    /\ answer' = "FALSE"
    /\ trouble' = trouble \cup {"next"}
    /\ HeaderAfterFailure
    /\ UNCHANGED <<phase, results, delivered>>

NextFails ==
    /\ phase = "open"
    /\ Exhausted
    /\ results' = None
    /\ offset' = -1
    /\ answer' = "FALSE"
    /\ trouble' = trouble \cup {"next"}
    /\ HeaderAfterFailure
    /\ UNCHANGED <<phase, delivered>>

\* No such cursor, or nothing left in it.
NextRefused ==
    /\ cid = 0 \/ ~srvOpen \/ moved \/ left > Docs
    /\ NextFails
    /\ srvOpen' = (srvOpen /\ (cid = 0 \/ moved))
    /\ UNCHANGED <<left, moved, faults>>

\* The request or its reply is lost, or the reply is not accepted
\* (_mongo_sync_packet_check_error takes an "err" key in a document for one).
NextCutOff ==
    /\ Fault
    /\ NextFails
    /\ \/ UNCHANGED <<left, srvOpen>>
       \/ /\ srvOpen /\ ~moved /\ cid # 0
          /\ \E n \in 1..returned :
               /\ left + n - 1 <= Docs
               /\ left' = left + n
               /\ srvOpen' \in BOOLEAN
               /\ left' <= Docs => srvOpen'
    /\ UNCHANGED moved

\* mongo_sync_cursor_free: mongo_sync_cmd_kill_cursors, whose result is not
\* looked at, for the id the cursor has.
Free ==
    /\ phase = "open"
    /\ phase' = "none"
    /\ results' = None
    /\ \/ ~moved /\ srvOpen' = (srvOpen /\ cid = 0) /\ UNCHANGED <<trouble, faults>>
       \/ /\ (moved /\ UNCHANGED faults) \/ Fault
          /\ UNCHANGED srvOpen /\ trouble' = trouble \cup {"kill"}
    /\ UNCHANGED <<returned, cid, offset, answer, left, moved, delivered>>

-----------------------------------------------------------------------------
Init ==
    /\ phase = "none"
    /\ results = None
    /\ returned = 0 /\ cid = 0 /\ offset = -1
    /\ answer = "none"
    /\ left = 1
    /\ srvOpen = FALSE /\ moved = FALSE
    /\ delivered = <<>>
    /\ trouble = {}
    /\ faults = 0

Next ==
    \/ New \/ Free
    \/ NextInBatch \/ NextFetched \/ NextRefused \/ NextCutOff
    \/ ServerForgets \/ Moves

Spec == Init /\ [][Next]_vars

-----------------------------------------------------------------------------
(* Properties.                                                             *)

TypeOK ==
    /\ phase \in {"none", "open"}
    /\ results = None \/ results \in Seq(1..Docs)
    /\ returned \in 0..Docs
    /\ cid \in {0, 1}
    /\ offset \in -1..(returned - 1)
    /\ answer \in {"none", "TRUE", "FALSE"}
    /\ left \in 1..(Docs + 1)
    /\ srvOpen \in BOOLEAN /\ moved \in BOOLEAN
    /\ delivered \in Seq(1..Docs)
    /\ trouble \subseteq {"next", "kill"}
    /\ faults \in 0..MaxFaults

\* Until mongo_sync_cursor_next returns FALSE, the cursor has stood on every
\* document of the result set in turn, across the batches, and each time it
\* returned TRUE mongo_sync_cursor_get_data has the document it moved to.
Gapless ==
    phase = "open" /\ "next" \notin trouble =>
        /\ delivered = Batch(1, Len(delivered))
        /\ answer = "TRUE" =>
             /\ delivered # <<>>
             /\ Data(results, offset) = delivered[Len(delivered)]

\* However the iteration is continued after a failure, no document comes twice
\* and none comes before one that precedes it.
NoRepeat == \A k, l \in DOMAIN delivered : k < l => delivered[k] < delivered[l]

\* A cursor that is freed is not left open at the server, also when the last
\* fetch had failed, unless the request to kill it is lost or the connection has
\* failed over and the request goes to another server.
Released == phase = "none" /\ srvOpen => "kill" \in trouble

\* Without faults an iteration that has returned FALSE has reached the end.
EndIsReal == faults = 0 /\ answer = "FALSE" => Len(delivered) = Docs
=============================================================================
