---------------------------- MODULE GridFSReader ----------------------------
(***************************************************************************)
(* A GridFS file that is read back: the stream reader of                   *)
(* sync-gridfs-stream.c (find, read, seek, close).  A chunk may fail to    *)
(* arrive, and the chunks may be removed by somebody else at any time.     *)
(*                                                                         *)
(* Bytes are numbered by their place in the file.  What a read copies is   *)
(* not kept: the byte it takes from the loaded chunk is the one at the     *)
(* stream's position exactly when the two places are equal.                *)
(***************************************************************************)
EXTENDS Naturals, Integers

CONSTANTS
    ChunkSize,  \* the file's chunkSize
    Header,     \* bytes before the data of a chunk of the old binary subtype (4)
    MaxLength,  \* bound: the length of the file
    None,       \* NULL
    MaxFaults   \* bound: queries that fail, and removals

ASSUME GridFSReaderAssumption ==
    /\ ChunkSize \in Nat \ {0} /\ Header \in Nat \ {0}
    /\ MaxLength \in Nat /\ MaxFaults \in Nat
    /\ None \notin Int

VARIABLES
    length, binary,     \* the file: its length, the subtype of its chunks
    present,            \* its chunks are in the collection
    pc,                 \* "none", "open", "read" (in stream_read)
    offset, current,    \* file.offset, file.current_chunk
    data,               \* reader.chunk.data: the number of the chunk it is, or None
    place, start,       \* reader.chunk.offset and start_offset
    size, pos,          \* the running read: bytes wanted, bytes copied
    answer,             \* what the last call returned; "bytes" is the value of pos
    missed,             \* a chunk of the file has not arrived since the last one that was
                        \* sought
    beyond,             \* a chunk behind the last one of the file has been asked for since
    faults

file == <<length, binary, present>>
stream == <<offset, current, data, place, start>>
excuses == <<missed, beyond>>
vars == <<file, pc, stream, size, pos, answer, excuses, faults>>

Least(a, b) == IF a <= b THEN a ELSE b

\* mongo_sync_gridfs_file_get_chunks
Chunks == (length + ChunkSize - 1) \div ChunkSize

\* The data bytes of chunk n, its header not counted.
DataSize(n) == Least(ChunkSize, length - n * ChunkSize)

Fault == faults < MaxFaults /\ faults' = faults + 1

Removed ==
    /\ Fault
    /\ present /\ present' = FALSE
    /\ UNCHANGED <<length, binary, pc, stream, size, pos, answer, excuses>>

-----------------------------------------------------------------------------
(* The stream reader.                                                      *)

\* mongo_sync_gridfs_stream_find: a file of no length is an error.
Find ==
    /\ pc = "none"
    /\ \/ /\ present /\ length > 0
          /\ pc' = "open" /\ answer' = "TRUE"
          /\ offset' = 0 /\ current' = 0 /\ data' = None /\ place' = 0 /\ start' = 0
          /\ missed' = FALSE /\ beyond' = FALSE
          /\ UNCHANGED faults
       \/ /\ \/ ~(present /\ length > 0) /\ UNCHANGED faults
             \/ Fault
          /\ answer' = "NULL"
          /\ UNCHANGED <<pc, stream, excuses>>
    /\ UNCHANGED <<file, size, pos>>

\* _stream_seek_chunk when the chunk arrives.
Loaded(n) ==
    /\ present /\ n < Chunks
    /\ data' = n
    /\ start' = IF binary THEN Header ELSE start
    /\ UNCHANGED faults

\* And when it does not, or is none of the file's.
NotLoaded(n) ==
    /\ \/ ~(present /\ n < Chunks) /\ UNCHANGED faults
       \/ Fault
    /\ data' = None
    /\ \/ n < Chunks /\ missed' = TRUE /\ UNCHANGED beyond
       \/ n >= Chunks /\ beyond' = TRUE /\ UNCHANGED missed
    /\ UNCHANGED start

\* mongo_sync_gridfs_stream_read: a stream without data begins with chunk 0.
Read(n) ==
    /\ pc = "open"
    /\ size' = n /\ pos' = 0
    /\ \/ /\ data # None
          /\ pc' = "read"
          /\ UNCHANGED <<stream, answer, excuses, faults>>
       \/ /\ data = None
          /\ Loaded(0)
          /\ place' = 0 /\ pc' = "read"
          /\ UNCHANGED <<offset, current, answer, excuses>>
       \/ /\ data = None
          /\ NotLoaded(0)
          /\ answer' = "-1"
          /\ UNCHANGED <<pc, offset, current, place>>
    /\ UNCHANGED file

More == pos < size /\ offset + start < length

\* The bytes copied in one round.
Round == Least(size - pos, DataSize(data) - place)

\* Mutant: the end of the chunk is not noticed before the next round.
ChunkEndsLate(p, o) == p + start > DataSize(data) /\ o + start < length
ChunkEnds(p, o) == p + start >= DataSize(data) /\ o + start < length

Copy ==
    /\ pc = "read" /\ More
    /\ offset' = offset + Round
    /\ pos' = pos + Round
    /\ \/ /\ ~ChunkEnds(place + Round, offset')
          /\ place' = place + Round
          /\ UNCHANGED <<pc, current, data, start, answer, excuses, faults>>
       \/ /\ ChunkEnds(place + Round, offset')
          /\ current' = current + 1
          /\ Loaded(current')
          /\ place' = 0
          /\ UNCHANGED <<pc, answer, excuses>>
       \/ /\ ChunkEnds(place + Round, offset')
          /\ current' = current + 1
          /\ NotLoaded(current')
          /\ place' = place + Round
          /\ answer' = "-1" /\ pc' = "open"
    /\ UNCHANGED <<file, size>>

ReadReturns ==
    /\ pc = "read" /\ ~More
    /\ pc' = "open"
    /\ answer' = "bytes"
    /\ UNCHANGED <<file, stream, size, pos, excuses, faults>>

Whence == {"SEEK_SET", "SEEK_CUR", "SEEK_END"}

\* mongo_sync_gridfs_stream_seek: the position asked for, if it is in the file.
Target(to, whence) ==
    CASE whence = "SEEK_SET" -> to
      [] whence = "SEEK_CUR" -> to + offset
      [] whence = "SEEK_END" -> to + length

InFile(to, whence) == Target(to, whence) \in 0..length

\* Where no chunk is fetched, and TRUE is the answer.
Stays(to, whence) ==
    \/ whence = "SEEK_SET" /\ to = offset
    \/ whence = "SEEK_CUR" /\ to = 0

\* Mutant: the place in the chunk stays 0.
PlaceOfStart(p) == 0
PlaceOf(p) == p % ChunkSize

Seek(to, whence) ==
    LET target == Target(to, whence) IN
    /\ pc = "open"
    /\ \/ /\ Stays(to, whence) /\ (whence = "SEEK_CUR" => InFile(to, whence))
          /\ answer' = "TRUE"
          /\ UNCHANGED <<stream, excuses, faults>>
       \/ /\ ~InFile(to, whence) /\ ~(whence = "SEEK_SET" /\ Stays(to, whence))
          /\ answer' = "FALSE"
          /\ UNCHANGED <<stream, excuses, faults>>
       \/ /\ InFile(to, whence) /\ ~Stays(to, whence)
          /\ Loaded(target \div ChunkSize)
          /\ place' = PlaceOf(target)
          /\ current' = target \div ChunkSize
          /\ offset' = target
          /\ missed' = FALSE /\ beyond' = FALSE
          /\ answer' = "TRUE"
       \/ /\ InFile(to, whence) /\ ~Stays(to, whence)
          /\ NotLoaded(target \div ChunkSize)
          /\ answer' = "FALSE"
          /\ UNCHANGED <<place, current, offset>>
    /\ UNCHANGED <<file, pc, size, pos>>

\* mongo_sync_gridfs_stream_close of a reader.
Close ==
    /\ pc = "open"
    /\ pc' = "none" /\ answer' = "TRUE"
    /\ UNCHANGED <<file, stream, size, pos, excuses, faults>>

-----------------------------------------------------------------------------
Init ==
    /\ length \in 0..MaxLength /\ binary \in BOOLEAN /\ present = TRUE
    /\ pc = "none"
    /\ offset = 0 /\ current = 0 /\ data = None /\ place = 0 /\ start = 0
    /\ size = 0 /\ pos = 0
    /\ answer = "none"
    /\ missed = FALSE /\ beyond = FALSE
    /\ faults = 0

Library == Copy \/ ReadReturns

Next ==
    \/ Find \/ Close
    \/ \E n \in 1..(MaxLength + 1) : Read(n)
    \/ \E to \in -MaxLength..MaxLength, whence \in Whence : Seek(to, whence)
    \/ Library
    \/ Removed

Spec == Init /\ [][Next]_vars

-----------------------------------------------------------------------------
(* Properties.                                                             *)

TypeOK ==
    /\ length \in 0..MaxLength /\ binary \in BOOLEAN /\ present \in BOOLEAN
    /\ pc \in {"none", "open", "read"}
    /\ offset \in 0..(length + ChunkSize)
    /\ current \in Nat
    /\ data = None \/ data \in 0..(Chunks - 1)
    /\ place \in 0..ChunkSize
    /\ start \in {0, Header}
    /\ size \in Nat /\ pos \in 0..size
    /\ answer \in {"none", "bytes", "-1", "TRUE", "FALSE", "NULL"}
    /\ missed \in BOOLEAN /\ beyond \in BOOLEAN
    /\ faults \in 0..MaxFaults

\* The byte a read would take next is the one at the stream's position.
Aligned ==
    IF data = None THEN offset = 0 /\ current = 0
                   ELSE data = current /\ data * ChunkSize + place = offset

\* However reads of any size and seeks follow one another, what is read is the
\* content of the file at the position, as long as no chunk of the file has
\* failed to arrive since the last seek that fetched one.  The one exception
\* while every chunk arrives is a file of whole chunks: a seek to its end asks
\* for the chunk behind the last one, returns FALSE, and leaves the stream at
\* its old offset without data, so that the next read delivers chunk 0
\* (sync-gridfs-stream.c:418-422, :243).
ReadsContent ==
    pc # "none" /\ ~binary /\ ~missed /\ ~(beyond /\ length % ChunkSize = 0)
    => Aligned /\ offset <= length

\* Each round of a read copies something, and only bytes of the loaded chunk,
\* also with the old subtype and after a chunk has failed to arrive.
RoundInChunk ==
    pc = "read" /\ More => data # None /\ Round > 0 /\ place + Round <= DataSize(data)
=============================================================================
