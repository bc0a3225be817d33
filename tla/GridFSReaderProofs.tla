------------------------- MODULE GridFSReaderProofs -------------------------
(***************************************************************************)
(* Proofs about GridFSReader, for any chunk size, any length of the file   *)
(* and any number of faults.                                               *)
(***************************************************************************)
EXTENDS GridFSReader, TLAPS

\* The place in the loaded chunk is within it, and before its end while the
\* file has more.
InChunk ==
    data # None =>
        /\ place <= DataSize(data)
        /\ offset + start < length => place < DataSize(data)

StartOK == ~binary => start = 0

ReadLoaded == pc = "read" => data # None

\* Every chunk of the file has arrived, and no other was asked for.
Straight == ~binary /\ ~missed /\ ~beyond

Content == pc # "none" /\ Straight => Aligned /\ offset <= length

\* Only a file of whole chunks makes the library ask for one behind the last.
BeyondOK == beyond /\ ~binary /\ ~missed => length % ChunkSize = 0

IInv == TypeOK /\ InChunk /\ StartOK /\ ReadLoaded /\ Content /\ BeyondOK

-----------------------------------------------------------------------------
(* Arithmetic of chunks.                                                   *)

LEMMA Division ==
    ASSUME NEW a \in Nat, NEW b \in Nat \ {0}
    PROVE  /\ a \div b \in Nat /\ a % b \in 0..(b - 1)
           /\ a = b * (a \div b) + (a % b)
<1>1. a \div b \in Nat
  OBVIOUS
<1>2. a % b \in 0..(b - 1)
  OBVIOUS
<1>3. a = b * (a \div b) + (a % b)
  OBVIOUS
<1>. QED  BY <1>1, <1>2, <1>3

LEMMA Monotone ==
    ASSUME NEW a \in Nat, NEW b \in Nat, a <= b, NEW c \in Nat
    PROVE  a * c <= b * c
OBVIOUS

LEMMA LessByMore == \A a, b, c \in Nat : a + b < c => a < c
OBVIOUS

\* Every chunk of the file has data, and ends within it.
LEMMA ChunkHasData ==
    ASSUME length \in Nat, NEW n \in Nat, n < Chunks
    PROVE  DataSize(n) \in 1..ChunkSize /\ DataSize(n) <= length - n * ChunkSize
<1>. DEFINE q == (length + ChunkSize - 1) \div ChunkSize
<1>1. q \in Nat /\ ChunkSize * q <= length + ChunkSize - 1
  BY GridFSReaderAssumption, Division
<1>2. n + 1 <= q
  BY <1>1 DEF Chunks
<1>. HIDE DEF q
<1>3. (n + 1) * ChunkSize <= q * ChunkSize
  BY <1>1, <1>2, Monotone, GridFSReaderAssumption
<1>4. (n + 1) * ChunkSize = n * ChunkSize + ChunkSize /\ q * ChunkSize = ChunkSize * q
  BY <1>1, GridFSReaderAssumption
<1>5. n * ChunkSize \in Nat
  BY GridFSReaderAssumption
<1>6. n * ChunkSize < length
  BY <1>1, <1>3, <1>4, <1>5, GridFSReaderAssumption
<1>. QED  BY <1>5, <1>6, GridFSReaderAssumption DEF DataSize, Least

\* A chunk that begins within the file is one of its chunks.
LEMMA ChunkExists ==
    ASSUME length \in Nat, NEW n \in Nat, n * ChunkSize < length
    PROVE  n < Chunks
<1>. DEFINE q == (length + ChunkSize - 1) \div ChunkSize
            r == (length + ChunkSize - 1) % ChunkSize
<1>1. /\ q \in Nat /\ r \in 0..(ChunkSize - 1) /\ length + ChunkSize - 1 = ChunkSize * q + r
      /\ ChunkSize \in Nat
  BY GridFSReaderAssumption, Division
<1>. HIDE DEF q, r
<1>2. ChunkSize * q = q * ChunkSize /\ n * ChunkSize \in Nat /\ q * ChunkSize \in Nat
  BY <1>1
<1>3. n * ChunkSize < q * ChunkSize
  BY <1>1, <1>2
<1>4. ~(q <= n)
  BY <1>1, <1>2, <1>3, Monotone
<1>. QED  BY <1>1, <1>4 DEF Chunks, q

\* If the chunk of a place in the file is none of its chunks, that place is its
\* end, and the file a multiple of the chunk size.
LEMMA WholeChunks ==
    ASSUME length \in Nat, NEW n \in Nat, n * ChunkSize <= length, n >= Chunks, Chunks \in Nat
    PROVE  length % ChunkSize = 0
<1>1. n * ChunkSize \in Nat /\ ChunkSize \in Nat \ {0} /\ ChunkSize * n = n * ChunkSize
  BY GridFSReaderAssumption
<1>2. length = ChunkSize * n
  BY <1>1, ChunkExists
<1>3. (ChunkSize * n) % ChunkSize = 0
  <2>. DEFINE q == (ChunkSize * n) \div ChunkSize
              r == (ChunkSize * n) % ChunkSize
  <2>1. q \in Nat /\ r \in 0..(ChunkSize - 1) /\ ChunkSize * n = ChunkSize * q + r
    BY <1>1, Division
  <2>. HIDE DEF q, r
  <2>2. /\ q * ChunkSize \in Nat /\ ChunkSize * q = q * ChunkSize
        /\ (n + 1) * ChunkSize = n * ChunkSize + ChunkSize
        /\ (q + 1) * ChunkSize = q * ChunkSize + ChunkSize
    BY <1>1, <2>1
  <2>3. ~(n + 1 <= q)
    BY <1>1, <2>1, <2>2, Monotone
  <2>4. ~(q + 1 <= n)
    BY <1>1, <2>1, <2>2, Monotone
  <2>5. q = n
    BY <2>1, <2>3, <2>4
  <2>6. ChunkSize * n = ChunkSize * q /\ ChunkSize * n \in Nat
    BY <1>1, <2>5
  <2>7. r = 0
    BY <2>1, <2>6
  <2>. QED  BY <2>7 DEF r
<1>. QED  BY <1>2, <1>3

LEMMA RangeFacts ==
    ASSUME TypeOK
    PROVE  /\ length \in Nat /\ offset \in Nat /\ place \in Nat /\ start \in Nat /\ current \in Nat
           /\ Chunks \in Nat
           /\ data # None => data \in Nat /\ data < Chunks
<1>1. length + ChunkSize - 1 \in Nat
  BY GridFSReaderAssumption DEF TypeOK
<1>2. Chunks \in Nat
  BY <1>1, Division, GridFSReaderAssumption DEF Chunks
<1>. QED  BY <1>2, GridFSReaderAssumption DEF TypeOK

LEMMA LoadedType ==
    ASSUME TypeOK, NEW n \in Nat, Loaded(n), UNCHANGED file
    PROVE  data' = n /\ data' # None /\ data' \in 0..(Chunks' - 1) /\ start' \in {0, Header}
           /\ (StartOK => StartOK') /\ n < Chunks /\ faults' \in 0..MaxFaults
<1>1. Chunks \in Nat /\ Chunks' = Chunks
  BY RangeFacts DEF Chunks, file
<1>. QED  BY <1>1, GridFSReaderAssumption DEF Loaded, TypeOK, StartOK, file

LEMMA FaultType == TypeOK /\ (Fault \/ UNCHANGED faults) => faults' \in 0..MaxFaults
BY GridFSReaderAssumption DEF TypeOK, Fault

\* What the invariant says of a step that leaves the stream alone.
LEMMA StreamKept ==
    ASSUME IInv, UNCHANGED <<length, binary, stream, excuses>>,
           present' \in BOOLEAN, pc' \in {"none", "open", "read"}, pc' # "none" => pc # "none",
           pc' = "read" => data # None, size' \in Nat, pos' \in 0..size',
           answer' \in {"none", "bytes", "-1", "TRUE", "FALSE", "NULL"}, faults' \in 0..MaxFaults
    PROVE  IInv'
BY DEF IInv, TypeOK, InChunk, StartOK, ReadLoaded, Content, Aligned, DataSize, Chunks, stream,
       Straight, BeyondOK, excuses

\* A chunk that does not arrive, or is none of the file's.
LEMMA NotLoadedFacts ==
    ASSUME IInv, NEW n \in Nat, NotLoaded(n), UNCHANGED file, Straight => n * ChunkSize <= length
    PROVE  /\ data' = None /\ start' = start /\ faults' \in 0..MaxFaults
           /\ missed' \in BOOLEAN /\ beyond' \in BOOLEAN
           /\ ~Straight' /\ BeyondOK'
<1>1. faults' \in 0..MaxFaults
  BY FaultType DEF NotLoaded, IInv
<1>2. /\ data' = None /\ start' = start
      /\ \/ n < Chunks /\ missed' = TRUE /\ beyond' = beyond
         \/ n >= Chunks /\ beyond' = TRUE /\ missed' = missed
  BY DEF NotLoaded
<1>3. missed \in BOOLEAN /\ beyond \in BOOLEAN
  BY DEF IInv, TypeOK
<1>4. BeyondOK'
  <2>1. CASE missed' = TRUE
    BY <2>1 DEF BeyondOK
  <2>2. CASE n >= Chunks /\ beyond' = TRUE /\ missed' = missed
    <3>1. Straight => length % ChunkSize = 0
      BY <2>2, WholeChunks, RangeFacts DEF IInv
    <3>. QED  BY <1>3, <2>2, <3>1 DEF IInv, BeyondOK, Straight, file
  <2>. QED  BY <1>2, <2>1, <2>2
<1>. QED  BY <1>1, <1>2, <1>3, <1>4 DEF Straight

-----------------------------------------------------------------------------
(* One lemma per action.                                                   *)

LEMMA FindIInv == ASSUME IInv, Find PROVE IInv'
<1>1. faults' \in 0..MaxFaults
  BY FaultType DEF Find, IInv
<1>2. CASE UNCHANGED <<pc, stream, excuses>>
  BY <1>1, <1>2, StreamKept DEF Find, IInv, TypeOK, ReadLoaded, file
<1>3. CASE /\ pc' = "open" /\ answer' = "TRUE" /\ missed' = FALSE /\ beyond' = FALSE
           /\ offset' = 0 /\ current' = 0 /\ data' = None /\ place' = 0 /\ start' = 0
  <2>1. TypeOK'
    <3>1. UNCHANGED <<length, binary, present, size, pos>> /\ pc' = "open"
          /\ missed' \in BOOLEAN /\ beyond' \in BOOLEAN
      BY <1>3 DEF Find, file
    <3>2. offset' \in 0..(length' + ChunkSize) /\ current' \in Nat /\ place' \in 0..ChunkSize
      BY <1>3, <3>1, GridFSReaderAssumption DEF IInv, TypeOK
    <3>3. start' \in {0, Header} /\ data' = None /\ answer' = "TRUE"
      BY <1>3
    <3>. QED  BY <1>1, <3>1, <3>2, <3>3 DEF IInv, TypeOK
  <2>2. Content'
    BY <1>3, <2>1, GridFSReaderAssumption DEF Content, Aligned, TypeOK
  <2>. QED  BY <1>3, <2>1, <2>2 DEF IInv, InChunk, StartOK, ReadLoaded, BeyondOK
<1>. QED  BY <1>2, <1>3 DEF Find

LEMMA ReadIInv == ASSUME IInv, NEW n \in Nat, Read(n) PROVE IInv'
<1>1. pc = "open" /\ size' = n /\ pos' = 0 /\ pos' \in 0..size' /\ UNCHANGED file
  BY DEF Read
<1>2. CASE data # None /\ pc' = "read" /\ UNCHANGED <<stream, answer, excuses, faults>>
  BY <1>1, <1>2, StreamKept DEF IInv, TypeOK, file
<1>3. CASE data = None /\ Loaded(0) /\ place' = 0 /\ pc' = "read" /\ UNCHANGED <<offset, current, answer, excuses>>
  <2>1. /\ data' = 0 /\ data' # None /\ data' \in 0..(Chunks' - 1) /\ start' \in {0, Header}
        /\ StartOK' /\ 0 < Chunks /\ faults' \in 0..MaxFaults
    BY <1>1, <1>3, LoadedType DEF IInv
  <2>2. TypeOK'
    BY <1>1, <1>3, <2>1, GridFSReaderAssumption DEF IInv, TypeOK, file, excuses
  <2>3. DataSize(0) \in 1..ChunkSize /\ DataSize(0)' = DataSize(0)
    BY <1>1, <2>1, ChunkHasData, RangeFacts DEF IInv, DataSize, file
  <2>4. InChunk'
    BY <1>3, <2>1, <2>3, GridFSReaderAssumption DEF InChunk, DataSize
  <2>5. Content'
    BY <1>1, <1>3, <2>1, GridFSReaderAssumption
       DEF IInv, Content, Aligned, Straight, file, excuses
  <2>6. BeyondOK'
    BY <1>1, <1>3 DEF IInv, BeyondOK, file, excuses
  <2>. QED  BY <1>3, <2>1, <2>2, <2>4, <2>5, <2>6 DEF IInv, ReadLoaded
<1>4. CASE data = None /\ NotLoaded(0) /\ answer' = "-1" /\ UNCHANGED <<pc, offset, current, place>>
  <2>1. 0 \in Nat /\ 0 * ChunkSize <= length
    BY RangeFacts, GridFSReaderAssumption DEF IInv
  <2>2. /\ data' = None /\ start' = start /\ faults' \in 0..MaxFaults
        /\ missed' \in BOOLEAN /\ beyond' \in BOOLEAN
        /\ ~Straight' /\ BeyondOK'
    BY <1>1, <1>4, <2>1, NotLoadedFacts
  <2>. QED
    BY <1>1, <1>4, <2>2 DEF IInv, TypeOK, InChunk, StartOK, ReadLoaded, Content, file
<1>. QED  BY <1>2, <1>3, <1>4 DEF Read

\* What one round of a read copies.
LEMMA RoundFacts ==
    ASSUME IInv, pc = "read", More
    PROVE  /\ data # None /\ Round \in Nat /\ Round > 0
           /\ place + Round <= DataSize(data) /\ Round <= size - pos
           /\ DataSize(data) \in 1..ChunkSize /\ DataSize(data) <= length - data * ChunkSize
<1>1. data # None
  BY DEF IInv, ReadLoaded
<1>2. DataSize(data) \in 1..ChunkSize /\ DataSize(data) <= length - data * ChunkSize
  BY <1>1, ChunkHasData, RangeFacts DEF IInv
<1>3. place < DataSize(data)
  BY <1>1 DEF IInv, InChunk, More
<1>. QED  BY <1>1, <1>2, <1>3, RangeFacts, GridFSReaderAssumption DEF IInv, TypeOK, Round, Least, More

LEMMA CopyIInv == ASSUME IInv, Copy PROVE IInv'
<1>. DEFINE to == offset + Round
            p == place + Round
<1>0. pc = "read" /\ More /\ offset' = to /\ pos' = pos + Round /\ UNCHANGED <<file, size>>
  BY DEF Copy
<1>1. /\ data # None /\ Round \in Nat /\ Round > 0
      /\ p <= DataSize(data) /\ Round <= size - pos
      /\ DataSize(data) \in 1..ChunkSize /\ DataSize(data) <= length - data * ChunkSize
  BY <1>0, RoundFacts
<1>2. /\ length \in Nat /\ offset \in Nat /\ place \in Nat /\ start \in Nat /\ current \in Nat
      /\ data \in Nat /\ data * ChunkSize \in Nat /\ offset + start < length
  BY <1>0, <1>1, RangeFacts, GridFSReaderAssumption DEF IInv, More
<1>3. offset' \in 0..(length' + ChunkSize) /\ pos' \in 0..size' /\ p \in 0..ChunkSize
  BY <1>0, <1>1, <1>2, GridFSReaderAssumption DEF IInv, TypeOK, file
<1>4. Straight =>
        start = 0 /\ data = current /\ to = data * ChunkSize + p /\ to <= length
  BY <1>0, <1>1, <1>2, GridFSReaderAssumption DEF IInv, Content, Aligned, StartOK, Straight
<1>5. CASE /\ ~ChunkEnds(p, to) /\ place' = p
           /\ UNCHANGED <<pc, current, data, start, answer, excuses, faults>>
  <2>1. TypeOK'
    BY <1>0, <1>3, <1>5 DEF IInv, TypeOK, file, Chunks, excuses
  <2>2. p + start < DataSize(data) \/ ~(to + start < length)
    BY <1>1, <1>2, <1>5, GridFSReaderAssumption DEF ChunkEnds
  <2>3. p < DataSize(data) \/ ~(to + start < length)
    BY <1>1, <1>2, <2>2, GridFSReaderAssumption
  <2>4. InChunk'
    BY <1>0, <1>1, <1>5, <2>3 DEF InChunk, DataSize, file
  <2>5. Content'
    BY <1>0, <1>1, <1>4, <1>5 DEF Content, Aligned, Straight, file, excuses
  <2>6. BeyondOK'
    BY <1>0, <1>5 DEF IInv, BeyondOK, file, excuses
  <2>. QED  BY <1>0, <1>1, <1>5, <2>1, <2>4, <2>5, <2>6 DEF IInv, StartOK, ReadLoaded, file
<1>6. CASE /\ ChunkEnds(p, to) /\ current' = current + 1 /\ Loaded(current') /\ place' = 0
           /\ UNCHANGED <<pc, answer, excuses>>
  <2>1. /\ data' = current + 1 /\ data' # None /\ data' \in 0..(Chunks' - 1)
        /\ start' \in {0, Header} /\ StartOK' /\ current + 1 < Chunks /\ faults' \in 0..MaxFaults
    BY <1>0, <1>2, <1>6, LoadedType DEF IInv
  <2>2. TypeOK'
    BY <1>0, <1>2, <1>3, <1>6, <2>1, GridFSReaderAssumption DEF IInv, TypeOK, file, excuses
  <2>3. DataSize(current + 1) \in 1..ChunkSize /\ DataSize(current + 1)' = DataSize(current + 1)'
    BY <1>2, <2>1, ChunkHasData
  <2>4. InChunk'
    BY <1>0, <1>6, <2>1, <2>3, GridFSReaderAssumption DEF InChunk, DataSize, file
  <2>5. Content'
    <3>1. SUFFICES ASSUME Straight PROVE Aligned' /\ offset' <= length'
      BY <1>0, <1>6 DEF Content, Straight, file, excuses
    <3>2. start = 0 /\ data = current /\ to = data * ChunkSize + p /\ to <= length
      BY <1>0, <1>4, <3>1
    <3>3. p = DataSize(data) /\ to < length
      BY <1>1, <1>2, <1>6, <3>2, GridFSReaderAssumption DEF ChunkEnds
    <3>4. p = ChunkSize
      BY <1>1, <1>2, <3>2, <3>3, GridFSReaderAssumption DEF DataSize, Least
    <3>5. (data + 1) * ChunkSize = data * ChunkSize + ChunkSize
      BY <1>2, GridFSReaderAssumption
    <3>6. to = (current + 1) * ChunkSize + 0
      BY <1>2, <3>2, <3>4, <3>5, GridFSReaderAssumption
    <3>. QED  BY <1>0, <1>6, <2>1, <3>2, <3>6 DEF Aligned, file
  <2>6. BeyondOK'
    BY <1>0, <1>6 DEF IInv, BeyondOK, file, excuses
  <2>. QED  BY <1>6, <2>1, <2>2, <2>4, <2>5, <2>6 DEF IInv, ReadLoaded
<1>7. CASE /\ ChunkEnds(p, to) /\ current' = current + 1 /\ NotLoaded(current') /\ place' = p
           /\ answer' = "-1" /\ pc' = "open"
  <2>1. ASSUME Straight PROVE (current + 1) * ChunkSize <= length
    <3>1. start = 0 /\ data = current /\ to = data * ChunkSize + p
      BY <1>4, <2>1
    <3>2. p = DataSize(data) /\ to < length
      BY <1>1, <1>2, <1>7, <3>1, GridFSReaderAssumption DEF ChunkEnds
    <3>3. p = ChunkSize
      BY <1>1, <1>2, <3>1, <3>2, GridFSReaderAssumption DEF DataSize, Least
    <3>4. (data + 1) * ChunkSize = data * ChunkSize + ChunkSize
      BY <1>2, GridFSReaderAssumption
    <3>. QED  BY <1>2, <3>1, <3>2, <3>3, <3>4, GridFSReaderAssumption
  <2>2. /\ data' = None /\ start' = start /\ faults' \in 0..MaxFaults
        /\ missed' \in BOOLEAN /\ beyond' \in BOOLEAN
        /\ ~Straight' /\ BeyondOK'
    <3>1. current + 1 \in Nat /\ NotLoaded(current + 1)
      BY <1>2, <1>7
    <3>. QED  BY <1>0, <2>1, <3>1, NotLoadedFacts
  <2>. QED
    BY <1>0, <1>2, <1>3, <1>7, <2>2
       DEF IInv, TypeOK, InChunk, StartOK, ReadLoaded, Content, file
<1>. QED  BY <1>5, <1>6, <1>7 DEF Copy

\* A seek that has fetched the chunk of its target.
LEMMA Sought ==
    ASSUME IInv, UNCHANGED <<file, pc, size, pos>>, pc = "open",
           NEW target \in 0..length, Loaded(target \div ChunkSize),
           place' = target % ChunkSize, current' = target \div ChunkSize,
           offset' = target, missed' = FALSE, beyond' = FALSE, answer' = "TRUE"
    PROVE  IInv'
<1>1. target \in Nat /\ target <= length /\ length \in Nat
  BY RangeFacts DEF IInv
<1>2. PICK n \in Nat : n = target \div ChunkSize
  BY <1>1, Division, GridFSReaderAssumption
<1>3. place' \in 0..(ChunkSize - 1) /\ target = ChunkSize * n + place'
  BY <1>1, <1>2, Division, GridFSReaderAssumption
<1>4. /\ data' = n /\ data' # None /\ data' \in 0..(Chunks' - 1) /\ start' \in {0, Header}
      /\ StartOK' /\ n < Chunks /\ faults' \in 0..MaxFaults
  BY <1>2, LoadedType DEF IInv
<1>5. TypeOK'
  <2>1. /\ UNCHANGED <<length, binary, present, pc, size, pos>>
        /\ missed' \in BOOLEAN /\ beyond' \in BOOLEAN
    BY DEF file
  <2>2. offset' \in 0..(length' + ChunkSize) /\ current' \in Nat /\ place' \in 0..ChunkSize
    BY <1>1, <1>2, <1>3, <2>1, GridFSReaderAssumption
  <2>. QED  BY <1>4, <2>1, <2>2 DEF IInv, TypeOK
<1>6. n * ChunkSize \in Nat /\ target = n * ChunkSize + place'
  BY <1>3, GridFSReaderAssumption
<1>7. place' <= DataSize(n) /\ (target < length => place' < DataSize(n))
  BY <1>1, <1>3, <1>6, GridFSReaderAssumption DEF DataSize, Least
<1>8. InChunk'
  <2>1. start' \in Nat
    BY <1>4, GridFSReaderAssumption
  <2>2. place' \in Nat /\ length' = length
    BY <1>3, GridFSReaderAssumption DEF file
  <2>3. offset' + start' < length' => target < length
    BY <1>1, <2>1, <2>2, LessByMore, Zenon
  <2>4. (place <= DataSize(data))' /\ (target < length => (place < DataSize(data))')
    BY <1>4, <1>7, <2>2 DEF DataSize, file
  <2>. QED  BY <2>3, <2>4 DEF InChunk
<1>9. Content'
  BY <1>1, <1>2, <1>4, <1>6 DEF Content, Aligned, file
<1>. QED  BY <1>4, <1>5, <1>8, <1>9 DEF IInv, ReadLoaded, BeyondOK

LEMMA SeekIInv ==
    ASSUME IInv, NEW to \in Int, NEW whence \in Whence, Seek(to, whence) PROVE IInv'
<1>. DEFINE target == Target(to, whence)
            n == target \div ChunkSize
<1>0. pc = "open" /\ UNCHANGED <<file, pc, size, pos>>
  BY DEF Seek
<1>1. CASE answer' \in {"TRUE", "FALSE"} /\ UNCHANGED <<stream, excuses, faults>>
  BY <1>0, <1>1, StreamKept DEF IInv, TypeOK, file
<1>2. CASE /\ InFile(to, whence) /\ Loaded(n) /\ place' = PlaceOf(target) /\ current' = n
           /\ offset' = target /\ missed' = FALSE /\ beyond' = FALSE /\ answer' = "TRUE"
  <2>1. target \in 0..length
    BY <1>2 DEF InFile
  <2>. QED  BY <1>0, <1>2, <2>1, Sought DEF PlaceOf
<1>3. CASE /\ InFile(to, whence) /\ NotLoaded(n) /\ answer' = "FALSE"
           /\ UNCHANGED <<place, current, offset>>
  <2>1. target \in Nat /\ target <= length /\ ChunkSize \in Nat \ {0}
    BY <1>3, RangeFacts, GridFSReaderAssumption DEF InFile, IInv
  <2>. HIDE DEF target
  <2>2. n \in Nat /\ n * ChunkSize <= length
    <3>1. PICK q \in Nat, r \in 0..(ChunkSize - 1) : q = n /\ target = ChunkSize * q + r
      BY <2>1, Division
    <3>2. ChunkSize * q = q * ChunkSize /\ q * ChunkSize \in Nat
      BY <2>1
    <3>. QED  BY <2>1, <3>1, <3>2, RangeFacts DEF IInv
  <2>3. /\ data' = None /\ start' = start /\ faults' \in 0..MaxFaults
        /\ missed' \in BOOLEAN /\ beyond' \in BOOLEAN
        /\ ~Straight' /\ BeyondOK'
    BY <1>0, <1>3, <2>2, NotLoadedFacts
  <2>. QED
    BY <1>0, <1>3, <2>3 DEF IInv, TypeOK, InChunk, StartOK, ReadLoaded, Content, file
<1>. QED  BY <1>1, <1>2, <1>3 DEF Seek

-----------------------------------------------------------------------------
LEMMA InitIInv == Init => IInv
<1>1. Init => TypeOK
  <2>. SUFFICES ASSUME Init PROVE TypeOK
    OBVIOUS
  <2>1. length \in 0..MaxLength /\ binary \in BOOLEAN /\ present \in BOOLEAN
    BY DEF Init
  <2>2. offset \in 0..(length + ChunkSize)
    BY GridFSReaderAssumption DEF Init
  <2>3. current \in Nat /\ data = None /\ place \in 0..ChunkSize /\ start \in {0, Header}
    BY GridFSReaderAssumption DEF Init
  <2>4. size \in Nat /\ pos \in 0..size
    BY DEF Init
  <2>5. missed \in BOOLEAN /\ beyond \in BOOLEAN /\ pc = "none" /\ answer = "none"
    BY DEF Init
  <2>6. faults \in 0..MaxFaults
    BY GridFSReaderAssumption DEF Init
  <2>. QED  BY <2>1, <2>2, <2>3, <2>4, <2>5, <2>6 DEF TypeOK
<1>. QED  BY <1>1 DEF Init, IInv, InChunk, StartOK, ReadLoaded, Content, BeyondOK

LEMMA StepIInv == IInv /\ [Next]_vars => IInv'
<1>. SUFFICES ASSUME IInv, [Next]_vars PROVE IInv'
  OBVIOUS
<1>1. CASE Find
  BY <1>1, FindIInv
<1>2. CASE Close
  BY <1>2, StreamKept DEF Close, IInv, TypeOK, file
<1>3. ASSUME NEW n \in 1..(MaxLength + 1), Read(n) PROVE IInv'
  BY <1>3, ReadIInv, GridFSReaderAssumption
<1>4. ASSUME NEW to \in -MaxLength..MaxLength, NEW whence \in Whence, Seek(to, whence) PROVE IInv'
  BY <1>4, SeekIInv, GridFSReaderAssumption
<1>5. CASE Copy
  BY <1>5, CopyIInv
<1>6. CASE ReadReturns
  BY <1>6, StreamKept DEF ReadReturns, IInv, TypeOK, file
<1>7. CASE Removed
  BY <1>7, StreamKept, FaultType DEF Removed, IInv, TypeOK, ReadLoaded
<1>8. CASE UNCHANGED vars
  BY <1>8, StreamKept DEF vars, IInv, TypeOK, ReadLoaded, file
<1>. QED  BY <1>1, <1>2, <1>3, <1>4, <1>5, <1>6, <1>7, <1>8 DEF Next, Library

LEMMA Inductive == Spec => []IInv
BY InitIInv, StepIInv, PTL DEF Spec

\* Every value the stream keeps is of its type.
THEOREM TypeCorrect == Spec => []TypeOK
<1>1. IInv => TypeOK
  BY DEF IInv
<1>. QED  BY <1>1, Inductive, PTL

\* A read takes the bytes at the stream's position (sync-gridfs-stream.c:219-275),
\* while the file's chunks arrive and, if the file has whole chunks only, no seek
\* to its end has failed.
THEOREM ReadsTheContent == Spec => []ReadsContent
<1>1. IInv => ReadsContent
  BY DEF IInv, Content, Straight, BeyondOK, ReadsContent
<1>. QED  BY <1>1, Inductive, PTL

\* A round copies something, and never past the loaded chunk (sync-gridfs-stream.c:248-261).
THEOREM RoundsStayInChunk == Spec => []RoundInChunk
<1>1. IInv => RoundInChunk
  BY RoundFacts DEF RoundInChunk
<1>. QED  BY <1>1, Inductive, PTL
=============================================================================
