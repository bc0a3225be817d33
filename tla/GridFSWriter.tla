---------------------------- MODULE GridFSWriter ----------------------------
(***************************************************************************)
(* Files written to one GridFS: the stream writer of sync-gridfs-stream.c  *)
(* (new, write, close) and the upload of a whole buffer                    *)
(* (mongo_sync_gridfs_chunked_file_new_from_buffer), by several writers    *)
(* into the same chunks and files collections.                             *)
(*                                                                         *)
(* Bytes are numbered by their place in what the writer has taken over, so *)
(* that a buffer is how many of the last bytes it holds, a chunk is where  *)
(* its bytes begin and how many they are, and the MD5 sum is the number of *)
(* bytes digested.  An insert without safe mode is acknowledged by nobody: *)
(* it may be lost, or refused as a duplicate, and still return TRUE.       *)
(***************************************************************************)
EXTENDS Naturals, Integers, FiniteSets

CONSTANTS
    Writers,    \* who writes: each opens one stream or uploads one buffer
    Ids,        \* the object ids that files are given, or that are drawn
    ChunkSize,  \* gfs->chunk_size
    MaxBytes,   \* bound: bytes a writer hands over
    MaxFaults   \* bound: inserts that go wrong

ASSUME GridFSWriterAssumption ==
    /\ ChunkSize \in Nat \ {0}
    /\ MaxBytes \in Nat
    /\ MaxFaults \in Nat
    /\ Ids # {}

VARIABLES
    safe,       \* the connection is in safe mode
    stream,     \* the stream or the running upload of each writer
    chunks,     \* the chunks collection
    files,      \* the files collection
    given,      \* bytes that each writer has handed over
    broken,     \* writers that a call has answered FALSE or NULL
    dropped,    \* writers whose close answered TRUE although its last chunk failed
    lost,       \* ids with an insert that returned TRUE and stored nothing
    faults      \* inserts that have gone wrong so far

vars == <<safe, stream, chunks, files, given, broken, dropped, lost, faults>>

\* pc: "none", "open", "write" (in stream_write), "meta" (in stream_close, the
\* last chunk is out), "upload", "listing" (the upload inserts its metadata),
\* "freed".  uploads is that it is no stream but an upload.  chunk is
\* current_chunk or chunk_n, summed the digested bytes, todo what is left of the
\* caller's buffer.
NoStream == [pc |-> "none", uploads |-> FALSE, id |-> CHOOSE i \in Ids : TRUE, buffer |-> 0,
             length |-> 0, chunk |-> 0, summed |-> 0, todo |-> 0]

Least(a, b) == IF a <= b THEN a ELSE b

-----------------------------------------------------------------------------
(* Inserting a document.                                                   *)

\* The answers of mongo_sync_cmd_insert: ok is what it returns, kept whether
\* the document was stored.  A duplicate key is told in safe mode only, a lost
\* request as well; in safe mode the answer may be lost after the insert.
Answers(duplicate) ==
    {[ok |-> ~(duplicate /\ safe), kept |-> ~duplicate, cost |-> 0]} \cup
    IF faults = MaxFaults THEN {} ELSE
        {[ok |-> FALSE, kept |-> FALSE, cost |-> 1],
         IF safe THEN [ok |-> FALSE, kept |-> ~duplicate, cost |-> 1]
                 ELSE [ok |-> TRUE, kept |-> FALSE, cost |-> 1]}

Record(w, a) ==
    /\ faults' = faults + a.cost
    /\ lost' = IF a.ok /\ ~a.kept THEN lost \cup {stream[w].id} ELSE lost

\* What the caller is told of an insert.
Tell(w, a) ==
    /\ broken' = IF a.ok THEN broken ELSE broken \cup {w}
    /\ UNCHANGED dropped

\* The unique index that mongo_sync_gridfs_new has created.
\* Mutant: it has not.
HasChunkUnindexed(id, n) == FALSE
HasChunk(id, n) == \E c \in chunks : c.id = id /\ c.n = n

Chunk(w, n, from, size) ==
    [id |-> stream[w].id, n |-> n, by |-> w, from |-> from, size |-> size]

\* _stream_chunk_write
ChunkWrite(w, from, size, a) ==
    /\ a \in Answers(HasChunk(stream[w].id, stream[w].chunk))
    /\ chunks' = IF a.kept THEN chunks \cup {Chunk(w, stream[w].chunk, from, size)} ELSE chunks
    /\ Record(w, a)
    /\ UNCHANGED <<safe, files>>

FileInsert(w, a) ==
    /\ a \in Answers(\E f \in files : f.id = stream[w].id)
    /\ files' = IF a.kept
                THEN files \cup {[id |-> stream[w].id, by |-> w, length |-> stream[w].length,
                                  summed |-> stream[w].summed]}
                ELSE files
    /\ Record(w, a) /\ Tell(w, a)
    /\ UNCHANGED <<safe, chunks, given>>

-----------------------------------------------------------------------------
(* The stream writer.                                                      *)

\* The id is that of the metadata, or one drawn.
StreamNew(w) ==
    /\ stream[w].pc = "none"
    /\ \E id \in Ids : stream' = [stream EXCEPT ![w] = [NoStream EXCEPT !.pc = "open", !.id = id]]
    /\ UNCHANGED <<safe, chunks, files, given, broken, dropped, lost, faults>>

StreamWrite(w) ==
    /\ stream[w].pc = "open"
    /\ \E size \in 1..(MaxBytes - given[w]) :
         /\ stream' = [stream EXCEPT ![w].pc = "write", ![w].todo = size]
         /\ given' = [given EXCEPT ![w] = @ + size]
    /\ UNCHANGED <<safe, chunks, files, broken, dropped, lost, faults>>

\* One round of the loop: csize bytes go into the buffer.
Taken(w) ==
    LET s == stream[w]
        csize == Least(s.todo, ChunkSize - s.buffer)
    IN  [s EXCEPT !.buffer = @ + csize, !.length = @ + csize, !.todo = @ - csize]

\* Mutant: what is left after one round is forgotten.
GoesOnNever(s) == [s EXCEPT !.pc = "open", !.todo = 0]
GoesOn(s) == [s EXCEPT !.pc = IF s.todo = 0 THEN "open" ELSE "write"]

Fill(w) ==
    /\ stream[w].pc = "write"
    /\ Taken(w).buffer < ChunkSize
    /\ stream' = [stream EXCEPT ![w] = GoesOn(Taken(w))]
    /\ UNCHANGED <<safe, chunks, files, given, broken, dropped, lost, faults>>

\* Mutant: the chunk is given up when its insert fails.
AfterChunkSkipping(s, ok) ==
    IF ok THEN GoesOn([s EXCEPT !.summed = @ + ChunkSize, !.buffer = 0, !.chunk = @ + 1])
          ELSE [s EXCEPT !.pc = "open", !.todo = 0, !.buffer = 0, !.chunk = @ + 1]
AfterChunk(s, ok) ==
    IF ok THEN GoesOn([s EXCEPT !.summed = @ + ChunkSize, !.buffer = 0, !.chunk = @ + 1])
          ELSE [s EXCEPT !.pc = "open", !.todo = 0]

FillAndFlush(w) ==
    LET s == Taken(w) IN
    /\ stream[w].pc = "write"
    /\ s.buffer = ChunkSize
    /\ \E a \in Answers(HasChunk(s.id, s.chunk)) :
         /\ ChunkWrite(w, s.length - s.buffer, s.buffer, a) /\ Tell(w, a)
         /\ stream' = [stream EXCEPT ![w] = AfterChunk(s, a.ok)]
    /\ UNCHANGED given

\* Something is left for a last chunk.
HasTail(s) == s.buffer > 0

\* mongo_sync_gridfs_stream_close: the last chunk.  If it fails, the stream is
\* freed and TRUE returned, without metadata.
CloseChunk(w) ==
    LET s == stream[w] IN
    /\ s.pc = "open" /\ HasTail(s)
    /\ \E a \in Answers(HasChunk(s.id, s.chunk)) :
         /\ ChunkWrite(w, s.length - s.buffer, s.buffer, a)
         /\ stream' = [stream EXCEPT
                ![w] = IF a.ok THEN [s EXCEPT !.pc = "meta", !.summed = @ + s.buffer]
                               ELSE [s EXCEPT !.pc = "freed"]]
         /\ dropped' = IF a.ok THEN dropped ELSE dropped \cup {w}
    /\ UNCHANGED <<given, broken>>

\* Nothing is buffered: no chunk, and no metadata either.
CloseEmpty(w) ==
    /\ stream[w].pc = "open" /\ ~HasTail(stream[w])
    /\ stream' = [stream EXCEPT ![w].pc = "freed"]
    /\ UNCHANGED <<safe, chunks, files, given, broken, dropped, lost, faults>>

\* When the metadata cannot be inserted, close returns FALSE and frees nothing:
\* the stream is what it was, and may be closed again.
CloseMeta(w) ==
    /\ stream[w].pc = "meta"
    /\ \E a \in Answers(\E f \in files : f.id = stream[w].id) :
         /\ FileInsert(w, a)
         /\ stream' = [stream EXCEPT ![w].pc = IF a.ok THEN "freed" ELSE "open"]

-----------------------------------------------------------------------------
(* mongo_sync_gridfs_chunked_file_new_from_buffer.                         *)

Upload(w) ==
    /\ stream[w].pc = "none"
    /\ \E id \in Ids, size \in 1..MaxBytes :
         /\ stream' = [stream EXCEPT
                ![w] = [NoStream EXCEPT !.pc = "upload", !.uploads = TRUE, !.id = id,
                                        !.todo = size]]
         /\ given' = [given EXCEPT ![w] = size]
    /\ UNCHANGED <<safe, chunks, files, broken, dropped, lost, faults>>

\* The sum is updated before the insert, which does not matter to an upload: if
\* the insert fails it returns NULL, and the chunks so far remain.
UploadChunk(w) ==
    LET s == stream[w]
        csize == Least(s.todo, ChunkSize)
    IN
    /\ s.pc = "upload"
    /\ \E a \in Answers(HasChunk(s.id, s.chunk)) :
         /\ ChunkWrite(w, s.length, csize, a) /\ Tell(w, a)
         /\ stream' = [stream EXCEPT ![w] = [s EXCEPT
                !.pc = IF ~a.ok THEN "freed" ELSE IF s.todo = csize THEN "listing" ELSE "upload",
                !.length = @ + csize, !.summed = @ + csize, !.todo = @ - csize,
                !.chunk = @ + 1]]
    /\ UNCHANGED given

UploadMeta(w) ==
    /\ stream[w].pc = "listing"
    /\ \E a \in Answers(\E f \in files : f.id = stream[w].id) :
         /\ FileInsert(w, a)
         /\ stream' = [stream EXCEPT ![w].pc = "freed"]

-----------------------------------------------------------------------------
Init ==
    /\ safe \in BOOLEAN
    /\ stream = [w \in Writers |-> NoStream]
    /\ chunks = {} /\ files = {}
    /\ given = [w \in Writers |-> 0]
    /\ broken = {} /\ dropped = {} /\ lost = {}
    /\ faults = 0

WriterStep(w) ==
    \/ StreamNew(w) \/ StreamWrite(w) \/ Fill(w) \/ FillAndFlush(w)
    \/ CloseChunk(w) \/ CloseEmpty(w) \/ CloseMeta(w)
    \/ Upload(w) \/ UploadChunk(w) \/ UploadMeta(w)

Next == \E w \in Writers : WriterStep(w)

Spec == Init /\ [][Next]_vars

-----------------------------------------------------------------------------
(* Properties.                                                             *)

StreamType ==
    [pc : {"none", "open", "write", "meta", "upload", "listing", "freed"},
     uploads : BOOLEAN, id : Ids, buffer : 0..ChunkSize, length : Nat, chunk : Nat, summed : Nat, todo : Nat]

TypeOK ==
    /\ safe \in BOOLEAN
    /\ stream \in [Writers -> StreamType]
    /\ \A c \in chunks : /\ c.id \in Ids /\ c.by \in Writers
                         /\ c.n \in Nat /\ c.from \in Nat /\ c.size \in 1..ChunkSize
    /\ \A f \in files : /\ f.id \in Ids /\ f.by \in Writers
                        /\ f.length \in Nat \ {0} /\ f.summed \in Nat
    /\ given \in [Writers -> 0..MaxBytes]
    /\ broken \subseteq Writers /\ dropped \subseteq Writers
    /\ lost \subseteq Ids
    /\ faults \in 0..MaxFaults

ChunksOf(id) == {c \in chunks : c.id = id}

\* mongo_sync_gridfs_file_get_chunks: the quotient, rounded up.
FileChunks(f) == (f.length + ChunkSize - 1) \div ChunkSize

FileChunk(f, n) ==
    [id |-> f.id, n |-> n, by |-> f.by, from |-> n * ChunkSize,
     size |-> Least(ChunkSize, f.length - n * ChunkSize)]

\* A file that has metadata has all its chunks and no other, each with the
\* bytes of its place, and the length and sum they have: chunks are inserted
\* before the metadata, a chunk that fails holds the stream at its number, and
\* the unique index keeps two writers of one id apart.  Without safe mode this
\* is so unless an insert of that id was lost without a word.
ListedIsComplete ==
    \A f \in files : safe \/ f.id \notin lost =>
        /\ ChunksOf(f.id) = {FileChunk(f, n) : n \in 0..(FileChunks(f) - 1)}
        /\ f.summed = f.length

\* A writer that was never answered FALSE or NULL, and has closed its stream or
\* ended its upload, has a file with everything it handed over, also when that
\* was written in pieces that cross chunks.  Without safe mode an insert of that
\* id may have been lost, or refused as a duplicate, without a word.  The code
\* itself loses the file of a stream in two cases, in safe mode too, and close
\* returns TRUE without metadata (sync-gridfs-stream.c:454-468): when the last
\* chunk could not be inserted (dropped), and when nothing was left for one
\* because the length is a multiple of the chunk size.
ClosedIsWhole ==
    \A w \in Writers :
        /\ stream[w].pc = "freed" /\ w \notin broken \cup dropped
        /\ safe \/ stream[w].id \notin lost
        /\ stream[w].uploads \/ given[w] % ChunkSize # 0
        => \E f \in files : f.by = w /\ f.length = given[w]

\* Once a file has metadata no writer changes its chunks any more: not one that
\* closes the same stream again after an error, and not another one of that id.
ListedIsFrozen ==
    [][\A f \in files : safe \/ f.id \notin lost' =>
          f \in files' /\ ChunksOf(f.id)' = ChunksOf(f.id)]_vars
=============================================================================
