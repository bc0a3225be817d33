---------------------------- MODULE GridFSRemove ----------------------------
(***************************************************************************)
(* Listing, removing and reading the files of one GridFS by several        *)
(* clients: mongo_sync_gridfs_list and mongo_sync_gridfs_remove, which     *)
(* deletes the metadata and then the chunks of each file its cursor shows, *)
(* and mongo_sync_gridfs_chunked_find with the chunk cursor.               *)
(*                                                                         *)
(* mongo_sync_cmd_delete asks for no getLastError, in safe mode neither: a *)
(* request that is lost after it was sent returns TRUE.                    *)
(***************************************************************************)
EXTENDS Naturals, FiniteSets

CONSTANTS
    Ids,        \* the files: every one is complete at the beginning
    Removers,   \* who removes files
    Readers,    \* who reads files chunk by chunk
    Count,      \* how many chunks each file has
    None,       \* no file
    MaxFaults   \* bound: exchanges that go wrong

ASSUME GridFSRemoveAssumption ==
    /\ Count \in Nat \ {0}
    /\ MaxFaults \in Nat
    /\ None \notin Ids

VARIABLES
    listed,     \* ids in the files collection
    stored,     \* ids whose chunks are in the chunks collection
    task,       \* the call of each remover
    reader,     \* the file object and chunk cursor of each reader
    lostMeta,   \* ids whose metadata a delete that returned TRUE has left
    lostChunks, \* ids whose chunks a remover has left behind
    faults

vars == <<listed, stored, task, reader, lostMeta, lostChunks, faults>>

\* pc: "idle", "next" (at the head of the loop), "meta", "chunks".  batch is what
\* is left of the cursor's packet, rest what the server has not handed out,
\* wanted what the query matched, cut whether the cursor ended on an error.
NoTask == [pc |-> "idle", batch |-> {}, rest |-> {}, id |-> None, wanted |-> {},
           cut |-> FALSE, answer |-> "none"]

\* seen counts the chunks delivered, ended the reason the cursor stopped for.
NoReader == [id |-> None, held |-> 0, seen |-> 0, ended |-> "no"]

Fault == faults < MaxFaults /\ faults' = faults + 1

-----------------------------------------------------------------------------
(* mongo_sync_gridfs_remove.                                               *)

\* mongo_sync_gridfs_list: the query and its first batch.  A query that matches
\* nothing is an error, as one that fails.
List(c, query) ==
    LET wanted == query \cap listed IN
    /\ task[c].pc = "idle"
    /\ \/ \E batch \in (SUBSET wanted) \ {{}} :
            task' = [task EXCEPT ![c] = [NoTask EXCEPT
                        !.pc = "next", !.batch = batch, !.rest = wanted \ batch,
                        !.wanted = wanted]]
       \/ wanted = {} /\ task' = [task EXCEPT ![c] = [NoTask EXCEPT !.answer = "FALSE"]]
    /\ UNCHANGED <<listed, stored, reader, lostMeta, lostChunks, faults>>

Ends(c, answer, cut) ==
    task' = [task EXCEPT ![c] = [@ EXCEPT !.pc = "idle", !.batch = {}, !.rest = {},
                                          !.id = None, !.answer = answer, !.cut = cut]]

ListFails(c) ==
    /\ task[c].pc = "idle"
    /\ Fault
    /\ task' = [task EXCEPT ![c] = [NoTask EXCEPT !.answer = "FALSE"]]
    /\ UNCHANGED <<listed, stored, reader, lostMeta, lostChunks>>

\* mongo_sync_cursor_next moves to a document of the batch.
\* Mutant: it stays where it is.
AdvancedNot(batch, id) == batch
Advanced(batch, id) == batch \ {id}

NextFile(c) ==
    /\ task[c].pc = "next"
    /\ \E id \in task[c].batch :
         task' = [task EXCEPT ![c].pc = "meta", ![c].id = id, ![c].batch = Advanced(@, id)]
    /\ UNCHANGED <<listed, stored, reader, lostMeta, lostChunks, faults>>

\* The next batch: what is still there of the rest.
NextBatch(c) ==
    LET left == task[c].rest \cap listed IN
    /\ task[c].pc = "next" /\ task[c].batch = {}
    /\ \E batch \in (SUBSET left) \ {{}} :
         task' = [task EXCEPT ![c].batch = batch, ![c].rest = left \ batch]
    /\ UNCHANGED <<listed, stored, reader, lostMeta, lostChunks, faults>>

\* There is none, or it cannot be fetched: the loop ends either way.
NoMore(c) ==
    /\ task[c].pc = "next" /\ task[c].batch = {}
    /\ \/ task[c].rest \cap listed = {} /\ Ends(c, "TRUE", FALSE) /\ UNCHANGED faults
       \/ Fault /\ Ends(c, "TRUE", TRUE)
    /\ UNCHANGED <<listed, stored, reader, lostMeta, lostChunks>>

\* The delete in the files collection, which may be lost unnoticed.
DeleteMeta(c) ==
    LET id == task[c].id IN
    /\ task[c].pc = "meta"
    /\ \/ listed' = listed \ {id} /\ UNCHANGED <<lostMeta, faults>>
       \/ Fault /\ lostMeta' = lostMeta \cup {id} /\ UNCHANGED listed
    /\ task' = [task EXCEPT ![c].pc = "chunks"]
    /\ UNCHANGED <<stored, reader, lostChunks>>

\* It cannot be sent: remove returns FALSE, and the chunks are left alone.
\* Mutant: the chunks are deleted all the same.
AfterMetaFailureOn(c) == task' = [task EXCEPT ![c].pc = "chunks"]
AfterMetaFailure(c) == Ends(c, "FALSE", FALSE)

DeleteMetaFails(c) ==
    /\ task[c].pc = "meta"
    /\ Fault
    /\ AfterMetaFailure(c)
    /\ UNCHANGED <<listed, stored, reader, lostMeta, lostChunks>>

\* What the query on files_id matches.
\* Mutant: it is made on _id, like the one for the metadata.
ChunksOfFileById(id) == {}
ChunksOfFile(id) == {id}

\* The delete in the chunks collection; whether it fails is not looked at.
\* Mutant: the loop ends after the first file.
AfterFileStop(c) == Ends(c, "TRUE", FALSE)
AfterFile(c) == task' = [task EXCEPT ![c].pc = "next", ![c].id = None]

DeleteChunks(c) ==
    LET id == task[c].id IN
    /\ task[c].pc = "chunks"
    /\ \/ stored' = stored \ ChunksOfFile(id) /\ UNCHANGED <<lostChunks, faults>>
       \/ Fault /\ lostChunks' = lostChunks \cup {id} /\ UNCHANGED stored
    /\ AfterFile(c)
    /\ UNCHANGED <<listed, reader, lostMeta>>

-----------------------------------------------------------------------------
(* mongo_sync_gridfs_chunked_find and the cursor over the chunks.          *)

ReaderUnchanged == UNCHANGED <<listed, stored, task, lostMeta, lostChunks>>

\* A find that fails leaves no object behind.
FindFile(r, id) ==
    /\ reader[r].id = None
    /\ id \in listed
    /\ reader' = [reader EXCEPT ![r] = [NoReader EXCEPT !.id = id]]
    /\ ReaderUnchanged /\ UNCHANGED faults

\* mongo_sync_cursor_next is at the end of the cursor's packet.
\* Mutant: one chunk too early.
ExhaustedEarly(f) == f.held <= f.seen + 1
Exhausted(f) == f.held = f.seen

\* mongo_sync_gridfs_chunked_file_cursor_new, or the cursor fetches on: some
\* more of the chunks, sorted by number, arrive.
FetchChunks(r) ==
    LET f == reader[r] IN
    /\ f.id # None /\ f.ended = "no" /\ Exhausted(f)
    /\ f.id \in stored
    /\ \E upto \in (f.held + 1)..Count : reader' = [reader EXCEPT ![r].held = upto]
    /\ ReaderUnchanged /\ UNCHANGED faults

\* mongo_sync_gridfs_chunked_file_cursor_get_chunk, from the cursor's packet.
GetChunk(r) ==
    /\ reader[r].id # None /\ ~Exhausted(reader[r])
    /\ reader' = [reader EXCEPT ![r].seen = @ + 1]
    /\ ReaderUnchanged /\ UNCHANGED faults

\* Nothing more arrives: the end, or not.
WalkEnds(r) ==
    LET f == reader[r]
        Ended(why) == reader' = [reader EXCEPT ![r].ended = why]
    IN
    /\ f.id # None /\ f.ended = "no" /\ Exhausted(f)
    /\ \/ (f.id \notin stored \/ f.held = Count) /\ Ended("empty") /\ UNCHANGED faults
       \/ Fault /\ Ended("error")
    /\ ReaderUnchanged

FreeFile(r) ==
    /\ reader[r].id # None
    /\ reader' = [reader EXCEPT ![r] = NoReader]
    /\ ReaderUnchanged /\ UNCHANGED faults

-----------------------------------------------------------------------------
Init ==
    /\ listed = Ids /\ stored = Ids
    /\ task = [c \in Removers |-> NoTask]
    /\ reader = [r \in Readers |-> NoReader]
    /\ lostMeta = {} /\ lostChunks = {}
    /\ faults = 0

Loop(c) ==
    \/ NextFile(c) \/ NextBatch(c) \/ NoMore(c)
    \/ DeleteMeta(c) \/ DeleteMetaFails(c) \/ DeleteChunks(c)

Next ==
    \/ \E c \in Removers : Loop(c) \/ ListFails(c) \/ \E query \in SUBSET Ids : List(c, query)
    \/ \E r \in Readers : \/ \E id \in Ids : FindFile(r, id)
                          \/ FetchChunks(r) \/ GetChunk(r) \/ WalkEnds(r) \/ FreeFile(r)

Spec == Init /\ [][Next]_vars

\* A call that runs goes on: each of its exchanges ends.
FairSpec == Spec /\ \A c \in Removers : WF_vars(Loop(c))

-----------------------------------------------------------------------------
(* Properties.                                                             *)

Tasks == [pc : {"idle", "next", "meta", "chunks"}, batch : SUBSET Ids, rest : SUBSET Ids,
          id : Ids \cup {None}, wanted : SUBSET Ids, cut : BOOLEAN,
          answer : {"none", "TRUE", "FALSE"}]

Walks == [id : Ids \cup {None}, held : 0..Count, seen : 0..Count,
          ended : {"no", "empty", "error"}]

TypeOK ==
    /\ listed \subseteq Ids /\ stored \subseteq Ids
    /\ task \in [Removers -> Tasks]
    /\ reader \in [Readers -> Walks]
    /\ \A r \in Readers : reader[r].seen <= reader[r].held
    /\ lostMeta \subseteq Ids /\ lostChunks \subseteq Ids
    /\ faults \in 0..MaxFaults

\* A file that can be found has its chunks, whoever else removes it at the same
\* time, unless the delete of its metadata was lost without a word.
ListedHasChunks == \A id \in listed : id \in stored \/ id \in lostMeta

\* Chunks without metadata belong to a file that some call is about to finish
\* removing, or whose chunks a call failed to delete and went on.
OrphansAccounted ==
    \A id \in stored \ listed :
        \/ id \in lostChunks
        \/ \E c \in Removers : task[c].pc = "chunks" /\ task[c].id = id

\* What a remove that saw its cursor to the end has matched is gone, except for
\* a file whose delete was lost.
RemovedIsGone ==
    \A c \in Removers : task[c].answer = "TRUE" /\ ~task[c].cut =>
        task[c].wanted \cap listed \subseteq lostMeta

\* A walk over the chunks that ended without an error and before the last one
\* has met a removal: of the file it holds, by a call that found it listed.
ShortWalkMeansRemoval ==
    \A r \in Readers : reader[r].ended = "empty" /\ reader[r].seen < Count =>
        /\ reader[r].id \notin stored
        /\ reader[r].id \in listed => reader[r].id \in lostMeta

\* Every remove returns.
RemoveReturns == \A c \in Removers : task[c].pc = "next" ~> task[c].pc = "idle"
=============================================================================
