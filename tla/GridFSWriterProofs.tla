-------------------------- MODULE GridFSWriterProofs --------------------------
(***************************************************************************)
(* Proofs about GridFSWriter, for any writers and ids, any chunk size, any *)
(* lengths and any number of faults, and, at the end, about ObjectId.      *)
(***************************************************************************)
EXTENDS GridFSWriter, ObjectId, TLAPS

\* Two files never have one id, and neither have two chunks one number in it.
UniqueKeys ==
    /\ \A f, g \in files : f.id = g.id => f = g
    /\ \A c, d \in chunks : c.id = d.id /\ c.n = d.n => c = d

\* Nothing of this id was lost without a word.
Good(id) == safe \/ id \notin lost

\* The chunk of writer w with number n and size bytes, all before it being full.
Piece(w, n, size) ==
    [id |-> stream[w].id, n |-> n, by |-> w, from |-> n * ChunkSize, size |-> size]

\* A call has failed, or close has dropped the last chunk without a word.
Excused == broken \cup dropped

Live == {"open", "write", "meta", "upload", "listing"}

\* How a stream's counters belong together, and what it has taken over.
Progress(w) ==
    LET s == stream[w] IN
    /\ s.pc = "none" => given[w] = 0 /\ w \notin Excused
    /\ s.pc \in {"open", "write", "meta"} =>
         ~s.uploads /\ s.length = s.chunk * ChunkSize + s.buffer
    /\ s.pc \in {"open", "meta", "listing"} => s.todo = 0
    /\ s.pc = "meta" => s.buffer > 0
    /\ s.pc = "upload" => s.length = s.chunk * ChunkSize /\ s.todo > 0
    /\ s.pc \in {"upload", "listing"} => s.summed = s.length
    /\ s.pc \in Live /\ w \notin Excused => given[w] = s.length + s.todo

\* Chunks 0..(n - 1) are full, and chunk n has the rest.
AllStored(w, n, size) ==
    (\A m \in 0..(n - 1) : Piece(w, m, ChunkSize) \in chunks) /\ Piece(w, n, size) \in chunks

\* What a stream has counted as written is in the collection.  Once its next
\* number is taken it can never get past it, nor list anything.
Stored(w) ==
    LET s == stream[w] IN
    /\ s.pc \in {"open", "write", "upload"} /\ Good(s.id) =>
         \A n \in 0..(s.chunk - 1) : Piece(w, n, ChunkSize) \in chunks
    /\ s.pc \in {"open", "write"} /\ Good(s.id) =>
         s.summed = s.chunk * ChunkSize \/ HasChunk(s.id, s.chunk)
    /\ s.pc = "meta" /\ Good(s.id) => s.summed = s.length /\ AllStored(w, s.chunk, s.buffer)
    /\ s.pc = "listing" =>
         \E n \in Nat, size \in 1..ChunkSize :
            /\ s.chunk = n + 1 /\ s.length = n * ChunkSize + size
            /\ Good(s.id) => AllStored(w, n, size)

\* A chunk is behind its writer, or is the one that holds it.
Owned ==
    \A c \in chunks :
        LET s == stream[c.by] IN
        /\ s.pc # "none" /\ s.id = c.id /\ c.n <= s.chunk
        /\ s.pc \in {"upload", "listing"} => c.n < s.chunk

\* The chunks before it are there, of the same writer.
Prefix ==
    \A c \in chunks : Good(c.id) =>
        \A m \in 0..(c.n - 1) : \E d \in chunks : d.id = c.id /\ d.n = m /\ d.by = c.by

Complete(f) ==
    /\ ChunksOf(f.id) = {FileChunk(f, n) : n \in 0..(FileChunks(f) - 1)}
    /\ f.summed = f.length

\* The writer of a listed file is done with it, or held by a number that is taken.
Filed ==
    \A f \in files :
        LET s == stream[f.by] IN
        /\ s.pc # "none" /\ s.id = f.id
        /\ Good(f.id) => /\ Complete(f) /\ s.pc \in {"open", "write", "freed"}
                         /\ s.pc # "freed" => HasChunk(f.id, s.chunk)

IInv ==
    /\ TypeOK /\ UniqueKeys
    /\ \A w \in Writers : Progress(w) /\ Stored(w)
    /\ Owned /\ Prefix /\ Filed /\ ClosedIsWhole

-----------------------------------------------------------------------------
(* Arithmetic of chunks.                                                   *)

LEMMA Division ==
    ASSUME NEW a \in Nat, NEW b \in Nat \ {0}
    PROVE  /\ a \div b \in Nat /\ a % b \in 0..(b - 1)
           /\ a = b * (a \div b) + (a % b)
OBVIOUS

LEMMA Monotone ==
    ASSUME NEW a \in Nat, NEW b \in Nat, a <= b, NEW c \in Nat
    PROVE  a * c <= b * c
OBVIOUS

LEMMA Products ==
    ASSUME NEW n \in Nat
    PROVE  /\ n * ChunkSize \in Nat /\ ChunkSize * n = n * ChunkSize
           /\ (n + 1) * ChunkSize = n * ChunkSize + ChunkSize
BY GridFSWriterAssumption

\* A number with a quotient and a remainder has no other.
LEMMA OneQuotient ==
    ASSUME NEW q \in Nat, NEW r \in 0..(ChunkSize - 1), NEW a \in Nat, a = q * ChunkSize + r
    PROVE  a \div ChunkSize = q /\ a % ChunkSize = r
<1>. DEFINE d == a \div ChunkSize
            e == a % ChunkSize
<1>1. d \in Nat /\ e \in 0..(ChunkSize - 1) /\ a = ChunkSize * d + e
  BY Division, GridFSWriterAssumption
<1>. HIDE DEF d, e
<1>2. /\ d * ChunkSize \in Nat /\ ChunkSize * d = d * ChunkSize /\ (d + 1) * ChunkSize = d * ChunkSize + ChunkSize
  BY <1>1, Products
<1>3. /\ q * ChunkSize \in Nat /\ (q + 1) * ChunkSize = q * ChunkSize + ChunkSize
  BY Products
<1>4. ChunkSize \in Nat
  BY GridFSWriterAssumption
<1>5. ~(q < d)
  <2>. SUFFICES ASSUME q < d PROVE FALSE
    OBVIOUS
  <2>1. (q + 1) * ChunkSize <= d * ChunkSize
    <3>1. q + 1 \in Nat /\ q + 1 <= d
      BY <1>1
    <3>. QED  BY <1>1, <1>4, <3>1, Monotone
  <2>. QED  BY <1>1, <1>2, <1>3, <1>4, <2>1
<1>6. ~(d < q)
  <2>. SUFFICES ASSUME d < q PROVE FALSE
    OBVIOUS
  <2>1. (d + 1) * ChunkSize <= q * ChunkSize
    <3>1. d + 1 \in Nat /\ d + 1 <= q
      BY <1>1
    <3>. QED  BY <1>1, <1>4, <3>1, Monotone
  <2>. QED  BY <1>1, <1>2, <1>3, <1>4, <2>1
<1>7. d = q
  BY <1>1, <1>5, <1>6
<1>8. e = r
  BY <1>1, <1>2, <1>3, <1>7
<1>. QED  BY <1>7, <1>8 DEF d, e

\* A file of n full chunks and one of size bytes.
LEMMA ChunkCount ==
    ASSUME NEW n \in Nat, NEW size \in 1..ChunkSize, NEW f, f.length = n * ChunkSize + size
    PROVE  FileChunks(f) = n + 1
<1>. DEFINE a == f.length + ChunkSize - 1
<1>1. n * ChunkSize \in Nat /\ (n + 1) * ChunkSize = n * ChunkSize + ChunkSize
  BY Products
<1>2. size - 1 \in 0..(ChunkSize - 1) /\ a \in Nat /\ a = (n + 1) * ChunkSize + (size - 1)
  BY <1>1, GridFSWriterAssumption
<1>3. n + 1 \in Nat
  OBVIOUS
<1>. HIDE DEF a
<1>4. a \div ChunkSize = n + 1
  BY <1>2, <1>3, OneQuotient
<1>. QED  BY <1>4 DEF FileChunks, a

LEMMA ChunkSizes ==
    ASSUME NEW n \in Nat, NEW size \in 1..ChunkSize, NEW f, f.length = n * ChunkSize + size,
           NEW m \in 0..n
    PROVE  Least(ChunkSize, f.length - m * ChunkSize) = IF m = n THEN size ELSE ChunkSize
<1>1. n * ChunkSize \in Nat /\ m * ChunkSize \in Nat /\ ChunkSize \in Nat
  BY Products, GridFSWriterAssumption
<1>2. CASE m = n
  BY <1>1, <1>2 DEF Least
<1>3. CASE m # n
  <2>1. m + 1 \in Nat /\ m + 1 <= n /\ m \in Nat
    BY <1>3
  <2>2. (m + 1) * ChunkSize <= n * ChunkSize
    BY <1>1, <2>1, Monotone
  <2>3. (m + 1) * ChunkSize = m * ChunkSize + ChunkSize
    BY <2>1, Products
  <2>. QED  BY <1>1, <1>3, <2>2, <2>3 DEF Least
<1>. QED  BY <1>2, <1>3
-----------------------------------------------------------------------------
(* Chunks and files.                                                       *)

LEMMA ChunkTypes ==
    ASSUME TypeOK, NEW c \in chunks
    PROVE  /\ c.id \in Ids /\ c.by \in Writers /\ c.n \in Nat /\ c.from \in Nat
           /\ c.size \in 1..ChunkSize
BY DEF TypeOK

\* The chunks of an id of which nothing was lost have one writer.
LEMMA OneOwner ==
    ASSUME TypeOK, UniqueKeys, Prefix, NEW c \in chunks, NEW d \in chunks,
           c.id = d.id, Good(c.id)
    PROVE  c.by = d.by
<1>1. ASSUME NEW e \in chunks, Good(e.id)
      PROVE  \E g \in chunks : g.id = e.id /\ g.n = 0 /\ g.by = e.by
  <2>1. e.n \in Nat
    BY ChunkTypes
  <2>2. CASE e.n = 0
    BY <2>2
  <2>3. CASE e.n # 0
    <3>1. 0 \in 0..(e.n - 1)
      BY <2>1, <2>3
    <3>. QED  BY <1>1, <3>1 DEF Prefix
  <2>. QED  BY <2>2, <2>3
<1>2. PICK c0 \in chunks : c0.id = c.id /\ c0.n = 0 /\ c0.by = c.by
  BY <1>1
<1>3. PICK d0 \in chunks : d0.id = d.id /\ d0.n = 0 /\ d0.by = d.by
  BY <1>1
<1>4. c0 = d0
  BY <1>2, <1>3 DEF UniqueKeys
<1>. QED  BY <1>2, <1>3, <1>4

\* Of a writer that has stored all its chunks the file is complete.
LEMMA CompleteFile ==
    ASSUME TypeOK, UniqueKeys, Prefix, NEW w \in Writers, NEW n \in Nat, NEW size \in 1..ChunkSize,
           AllStored(w, n, size), Good(stream[w].id),
           \A c \in chunks : c.by = w => c.n <= n,
           NEW f, f.id = stream[w].id, f.by = w, f.length = n * ChunkSize + size,
           f.summed = f.length
    PROVE  Complete(f)
<1>1. FileChunks(f) - 1 = n
  <2>1. FileChunks(f) = n + 1
    BY ChunkCount
  <2>. QED  BY <2>1
<1>2. ASSUME NEW m \in 0..n PROVE FileChunk(f, m) \in chunks
  <2>1. Least(ChunkSize, f.length - m * ChunkSize) = IF m = n THEN size ELSE ChunkSize
    BY ChunkSizes
  <2>2. FileChunk(f, m) = Piece(w, m, IF m = n THEN size ELSE ChunkSize)
    BY <2>1 DEF FileChunk, Piece
  <2>3. m # n => m \in 0..(n - 1)
    OBVIOUS
  <2>. QED  BY <2>2, <2>3 DEF AllStored
<1>3. ASSUME NEW c \in chunks, c.id = f.id PROVE \E m \in 0..n : c = FileChunk(f, m)
  <2>1. Piece(w, n, size) \in chunks
    BY DEF AllStored
  <2>2. c.by = w
    BY <1>3, <2>1, OneOwner DEF Piece
  <2>3. c.n \in 0..n
    BY <2>2, ChunkTypes
  <2>4. FileChunk(f, c.n) \in chunks
    BY <1>2, <2>3
  <2>5. c = FileChunk(f, c.n)
    BY <1>3, <2>4 DEF UniqueKeys, FileChunk
  <2>. QED  BY <2>3, <2>5
<1>4. ChunksOf(f.id) = {FileChunk(f, m) : m \in 0..n}
  <2>1. \A c \in ChunksOf(f.id) : c \in {FileChunk(f, m) : m \in 0..n}
    BY <1>3 DEF ChunksOf
  <2>2. \A m \in 0..n : FileChunk(f, m) \in ChunksOf(f.id)
    BY <1>2 DEF ChunksOf, FileChunk
  <2>. QED  BY <2>1, <2>2
<1>. QED  BY <1>1, <1>4 DEF Complete

\* A complete file has a chunk 0.
LEMMA HasFirst ==
    ASSUME NEW f \in files, TypeOK, Complete(f)
    PROVE  \E c \in chunks : c.id = f.id /\ c.n = 0 /\ c.by = f.by
<1>1. FileChunks(f) \in Nat /\ FileChunks(f) >= 1
  <2>. DEFINE a == f.length + ChunkSize - 1
              q == a \div ChunkSize
  <2>1. f.length \in Nat \ {0} /\ ChunkSize \in Nat \ {0}
    BY GridFSWriterAssumption DEF TypeOK
  <2>2. a \in Nat /\ a >= ChunkSize
    BY <2>1
  <2>. HIDE DEF a
  <2>3. q \in Nat /\ a % ChunkSize \in 0..(ChunkSize - 1) /\ a = ChunkSize * q + (a % ChunkSize)
    BY <2>1, <2>2, Division
  <2>. HIDE DEF q
  <2>4. q # 0
    <3>. SUFFICES ASSUME q = 0 PROVE FALSE
      OBVIOUS
    <3>1. ChunkSize * q = 0
      BY <2>1
    <3>2. a = a % ChunkSize
      BY <2>2, <2>3, <3>1
    <3>. QED  BY <2>1, <2>2, <2>3, <3>2
  <2>. QED  BY <2>3, <2>4 DEF FileChunks, q, a
<1>2. 0 \in 0..(FileChunks(f) - 1)
  BY <1>1
<1>3. FileChunk(f, 0) \in ChunksOf(f.id)
  BY <1>2 DEF Complete
<1>. QED  BY <1>3 DEF ChunksOf, FileChunk

-----------------------------------------------------------------------------
(* What an insert answers.                                                 *)

LEMMA AnswerFacts ==
    ASSUME TypeOK, NEW w \in Writers, NEW dup \in BOOLEAN, NEW a \in Answers(dup), Record(w, a)
    PROVE  /\ a.ok \in BOOLEAN /\ a.kept \in BOOLEAN
           /\ a.kept => ~dup
           /\ a.ok => a.kept \/ (~safe /\ stream[w].id \in lost')
           /\ faults' \in 0..MaxFaults
           /\ lost \subseteq lost' /\ lost' \subseteq lost \cup {stream[w].id}
<1>1. safe \in BOOLEAN /\ faults \in 0..MaxFaults /\ MaxFaults \in Nat
  BY GridFSWriterAssumption DEF TypeOK
<1>2. /\ a.ok \in BOOLEAN /\ a.kept \in BOOLEAN /\ (a.kept => ~dup)
      /\ (a.ok /\ ~a.kept => ~safe)
  <2>1. \/ a = [ok |-> ~(dup /\ safe), kept |-> ~dup, cost |-> 0]
        \/ a = [ok |-> FALSE, kept |-> FALSE, cost |-> 1]
        \/ safe /\ a = [ok |-> FALSE, kept |-> ~dup, cost |-> 1]
        \/ ~safe /\ a = [ok |-> TRUE, kept |-> FALSE, cost |-> 1]
    BY Zenon DEF Answers
  <2>2. CASE a = [ok |-> ~(dup /\ safe), kept |-> ~dup, cost |-> 0]
    <3>1. a.ok = ~(dup /\ safe) /\ a.kept = ~dup
      BY <2>2, Zenon
    <3>. QED  BY <1>1, <3>1, Zenon
  <2>3. CASE a = [ok |-> FALSE, kept |-> FALSE, cost |-> 1]
    <3>1. a.ok = FALSE /\ a.kept = FALSE
      BY <2>3, Zenon
    <3>. QED  BY <3>1, Zenon
  <2>4. CASE safe /\ a = [ok |-> FALSE, kept |-> ~dup, cost |-> 1]
    <3>1. a.ok = FALSE /\ a.kept = ~dup
      BY <2>4, Zenon
    <3>. QED  BY <3>1, Zenon
  <2>5. CASE ~safe /\ a = [ok |-> TRUE, kept |-> FALSE, cost |-> 1]
    <3>1. a.ok = TRUE /\ a.kept = FALSE
      BY <2>5, Zenon
    <3>. QED  BY <2>5, <3>1, Zenon
  <2>. QED  BY <2>1, <2>2, <2>3, <2>4, <2>5, Zenon
<1>3. a.cost = 0 \/ (a.cost = 1 /\ faults # MaxFaults)
  BY DEF Answers
<1>4. faults' \in 0..MaxFaults
  BY <1>1, <1>3 DEF Record
<1>5. lost' = IF a.ok /\ ~a.kept THEN lost \cup {stream[w].id} ELSE lost
  BY DEF Record
<1>. QED  BY <1>2, <1>4, <1>5

\* What a failed insert does to the writer, whoever is told.
Excuses(w, a) ==
    /\ broken' \subseteq broken \cup {w} /\ dropped' \subseteq dropped \cup {w}
    /\ Excused' = IF a.ok THEN Excused ELSE Excused \cup {w}

LEMMA Told ==
    ASSUME NEW w, NEW a, Tell(w, a)
    PROVE  Excuses(w, a)
BY DEF Tell, Excuses, Excused

-----------------------------------------------------------------------------
(* A step of one writer.                                                   *)

\* Writer w goes on to s; what it never does is change its id or count back.
Goes(w, s) ==
    /\ s \in StreamType /\ stream' = [stream EXCEPT ![w] = s] /\ safe' = safe
    /\ s.pc # "none"
    /\ stream[w].pc = "none" \/ (s.id = stream[w].id /\ s.chunk >= stream[w].chunk)

LEMMA Streams ==
    ASSUME TypeOK, NEW w \in Writers, NEW s, Goes(w, s)
    PROVE  /\ stream' \in [Writers -> StreamType]
           /\ stream'[w] = s /\ \A v \in Writers \ {w} : stream'[v] = stream[v]
BY DEF TypeOK, Goes

LEMMA OthersKept ==
    ASSUME IInv, NEW w \in Writers, NEW s, Goes(w, s), chunks \subseteq chunks', lost \subseteq lost',
           NEW v \in Writers \ {w}, v \in Excused' <=> v \in Excused, given'[v] = given[v]
    PROVE  Progress(v)' /\ Stored(v)'
<1>1. stream'[v] = stream[v]
  BY Streams DEF IInv
<1>2. Progress(v) /\ Stored(v)
  BY DEF IInv
<1>3. Progress(v)'
  BY <1>1, <1>2 DEF Progress
<1>4. \A id : Good(id)' => Good(id)
  BY DEF Good, Goes
<1>5. \A n, size : Piece(v, n, size)' = Piece(v, n, size)
  BY <1>1 DEF Piece
<1>6. \A id, n : HasChunk(id, n) => HasChunk(id, n)'
  BY DEF HasChunk
<1>7. \A n, size : AllStored(v, n, size) => AllStored(v, n, size)'
  BY <1>5 DEF AllStored
<1>8. Stored(v)'
  BY <1>1, <1>2, <1>4, <1>5, <1>6, <1>7 DEF Stored
<1>. QED  BY <1>3, <1>8

\* A step that inserts nothing.
LEMMA QuietStep ==
    ASSUME IInv, NEW w \in Writers, NEW s, Goes(w, s),
           UNCHANGED <<chunks, files, lost, broken, dropped, faults>>,
           given' \in [Writers -> 0..MaxBytes], \A v \in Writers \ {w} : given'[v] = given[v],
           Progress(w)', Stored(w)',
           stream[w].pc # "freed",
           stream[w].pc # "none" => s.chunk = stream[w].chunk /\ s.pc \in {"open", "write", "freed"},
           s.pc = "freed" => w \in Excused \/ (~s.uploads /\ given'[w] % ChunkSize = 0)
    PROVE  IInv'
<1>1. stream' \in [Writers -> StreamType] /\ stream'[w] = s /\ \A v \in Writers \ {w} : stream'[v] = stream[v]
  BY Streams DEF IInv
<1>2. TypeOK' /\ UniqueKeys'
  BY <1>1 DEF IInv, TypeOK, UniqueKeys, Goes
<1>3. \A v \in Writers : Progress(v)' /\ Stored(v)'
  BY OthersKept DEF Excused
<1>4. \A id : Good(id)' = Good(id)
  BY DEF Good, Goes
<1>5. Owned'
  <2>. SUFFICES ASSUME NEW c \in chunks
                PROVE  /\ stream'[c.by].pc # "none" /\ stream'[c.by].id = c.id /\ c.n <= stream'[c.by].chunk
                       /\ stream'[c.by].pc \in {"upload", "listing"} => c.n < stream'[c.by].chunk
    BY DEF Owned
  <2>1. /\ stream[c.by].pc # "none" /\ stream[c.by].id = c.id /\ c.n <= stream[c.by].chunk
        /\ stream[c.by].pc \in {"upload", "listing"} => c.n < stream[c.by].chunk
        /\ c.by \in Writers
    BY ChunkTypes DEF IInv, Owned
  <2>. QED  BY <1>1, <2>1 DEF Goes
<1>6. Prefix'
  BY <1>4 DEF IInv, Prefix
<1>7. Filed'
  <2>1. \A f : Complete(f)' = Complete(f)
    BY DEF Complete, ChunksOf, FileChunk, FileChunks
  <2>2. \A id, n : HasChunk(id, n)' = HasChunk(id, n)
    BY DEF HasChunk
  <2>. SUFFICES ASSUME NEW f \in files
                PROVE  /\ stream'[f.by].pc # "none" /\ stream'[f.by].id = f.id
                       /\ Good(f.id) => /\ Complete(f) /\ stream'[f.by].pc \in {"open", "write", "freed"}
                                        /\ stream'[f.by].pc # "freed" => HasChunk(f.id, stream'[f.by].chunk)
    BY <1>4, <2>1, <2>2 DEF Filed
  <2>3. /\ stream[f.by].pc # "none" /\ stream[f.by].id = f.id
        /\ Good(f.id) => /\ Complete(f) /\ stream[f.by].pc \in {"open", "write", "freed"}
                         /\ stream[f.by].pc # "freed" => HasChunk(f.id, stream[f.by].chunk)
        /\ f.by \in Writers
    BY DEF IInv, Filed, TypeOK
  <2>4. CASE f.by # w
    BY <1>1, <2>3, <2>4
  <2>5. CASE f.by = w
    BY <1>1, <2>3, <2>5 DEF Goes
  <2>. QED  BY <2>4, <2>5
<1>8. ClosedIsWhole'
  BY <1>1, <1>4 DEF IInv, ClosedIsWhole, Good, Excused
<1>. QED  BY <1>2, <1>3, <1>5, <1>6, <1>7, <1>8 DEF IInv

\* The number of the chunk that is written is taken, if the id is listed.
LEMMA ListedIsTaken ==
    ASSUME IInv, NEW w \in Writers, stream[w].pc \in {"open", "write", "upload"},
           NEW f \in files, f.id = stream[w].id, Good(f.id)
    PROVE  HasChunk(stream[w].id, stream[w].chunk)
<1>1. Complete(f) /\ stream[f.by].pc \in {"open", "write", "freed"}
      /\ (stream[f.by].pc # "freed" => HasChunk(f.id, stream[f.by].chunk))
  BY DEF IInv, Filed
<1>2. CASE f.by = w
  BY <1>1, <1>2
<1>3. CASE f.by # w
  <2>1. PICK c \in chunks : c.id = f.id /\ c.n = 0 /\ c.by = f.by
    BY <1>1, HasFirst DEF IInv
  <2>2. stream[w].chunk \in Nat
    BY DEF IInv, TypeOK, StreamType
  <2>3. CASE stream[w].chunk = 0
    BY <2>1, <2>3 DEF HasChunk
  <2>4. CASE stream[w].chunk # 0
    <3>1. 0 \in 0..(stream[w].chunk - 1)
      BY <2>2, <2>4
    <3>2. Piece(w, 0, ChunkSize) \in chunks
      BY <3>1 DEF IInv, Stored
    <3>3. Piece(w, 0, ChunkSize).by = c.by
      BY <2>1, <3>2, OneOwner DEF IInv, Piece
    <3>. QED  BY <1>3, <2>1, <3>3 DEF Piece
  <2>. QED  BY <2>3, <2>4
<1>. QED  BY <1>2, <1>3

\* What an insert of the next chunk does.
Inserts(w, size, a) ==
    /\ stream[w].pc \in {"open", "write", "upload"} /\ size \in 1..ChunkSize
    /\ a \in Answers(HasChunk(stream[w].id, stream[w].chunk))
    /\ chunks' = IF a.kept THEN chunks \cup {Piece(w, stream[w].chunk, size)} ELSE chunks
    /\ Record(w, a) /\ Excuses(w, a)
    /\ UNCHANGED <<safe, files, given>>

LEMMA InsertFacts ==
    ASSUME IInv, NEW w \in Writers, NEW size, NEW a, Inserts(w, size, a)
    PROVE  /\ a.ok \in BOOLEAN /\ a.kept \in BOOLEAN
           /\ a.kept => ~HasChunk(stream[w].id, stream[w].chunk)
           /\ chunks \subseteq chunks' /\ lost \subseteq lost'
           /\ \A id : Good(id)' => Good(id)
           /\ \A id : a.ok /\ id = stream[w].id /\ Good(id)' => a.kept
           /\ a.ok => Excused' = Excused
           /\ ~a.ok => Excused' = Excused \cup {w}
           /\ faults' \in 0..MaxFaults /\ lost' \subseteq Ids
           /\ broken' \subseteq Writers /\ dropped' \subseteq Writers
<1>. DEFINE dup == HasChunk(stream[w].id, stream[w].chunk)
<1>1. dup \in BOOLEAN /\ a \in Answers(dup) /\ Record(w, a) /\ TypeOK
  BY DEF Inserts, HasChunk, IInv
<1>. HIDE DEF dup
<1>2. /\ a.ok \in BOOLEAN /\ a.kept \in BOOLEAN
      /\ a.kept => ~dup
      /\ a.ok => a.kept \/ (~safe /\ stream[w].id \in lost')
      /\ faults' \in 0..MaxFaults
      /\ lost \subseteq lost' /\ lost' \subseteq lost \cup {stream[w].id}
  BY <1>1, AnswerFacts
<1>3. /\ stream[w].id \in Ids /\ lost \subseteq Ids
      /\ broken \subseteq Writers /\ dropped \subseteq Writers
  BY DEF IInv, TypeOK, StreamType
<1>7. /\ broken' \subseteq Writers /\ dropped' \subseteq Writers
      /\ a.ok => Excused' = Excused
      /\ ~a.ok => Excused' = Excused \cup {w}
  BY <1>3 DEF Inserts, Excuses
<1>4. chunks \subseteq chunks'
  BY DEF Inserts
<1>5. \A id : Good(id)' => Good(id)
  BY <1>2 DEF Good, Inserts
<1>6. \A id : a.ok /\ id = stream[w].id /\ Good(id)' => a.kept
  BY <1>2 DEF Good, Inserts
<1>. QED  BY <1>2, <1>3, <1>4, <1>5, <1>6, <1>7 DEF dup

\* A listed file keeps its chunks, whoever inserts.
LEMMA ListedKeepsChunks ==
    ASSUME IInv, NEW w \in Writers, stream[w].pc \in {"open", "write", "upload"},
           NEW a \in Answers(HasChunk(stream[w].id, stream[w].chunk)), Record(w, a),
           NEW c, c.id = stream[w].id, chunks' = IF a.kept THEN chunks \cup {c} ELSE chunks,
           NEW f \in files, Good(f.id)
    PROVE  ChunksOf(f.id)' = ChunksOf(f.id)
<1>1. CASE f.id = stream[w].id
  <2>. DEFINE dup == HasChunk(stream[w].id, stream[w].chunk)
  <2>1. dup \in BOOLEAN /\ dup
    BY <1>1, ListedIsTaken DEF HasChunk
  <2>. HIDE DEF dup
  <2>2. a \in Answers(dup)
    BY DEF dup
  <2>3. ~a.kept
    BY <2>1, <2>2, AnswerFacts DEF IInv
  <2>. QED  BY <2>3 DEF ChunksOf
<1>2. CASE f.id # stream[w].id
  BY <1>2 DEF ChunksOf
<1>. QED  BY <1>1, <1>2

LEMMA ChunkStep ==
    ASSUME IInv, NEW w \in Writers, NEW size, NEW a, Inserts(w, size, a), NEW s, Goes(w, s),
           Progress(w)', Stored(w)',
           IF stream[w].pc = "upload" THEN s.chunk = stream[w].chunk + 1
           ELSE /\ s.pc \in {"open", "write", "meta", "freed"}
                /\ ~a.ok => s.pc \in {"open", "freed"} /\ s.chunk = stream[w].chunk,
           s.pc = "freed" => ~a.ok
    PROVE  IInv'
<1>. DEFINE new == Piece(w, stream[w].chunk, size)
<1>1. stream' \in [Writers -> StreamType] /\ stream'[w] = s /\ \A v \in Writers \ {w} : stream'[v] = stream[v]
  BY Streams DEF IInv
<1>2. /\ a.ok \in BOOLEAN /\ a.kept \in BOOLEAN
      /\ a.kept => ~HasChunk(stream[w].id, stream[w].chunk)
      /\ chunks \subseteq chunks' /\ lost \subseteq lost'
      /\ \A id : Good(id)' => Good(id)
      /\ \A id : a.ok /\ id = stream[w].id /\ Good(id)' => a.kept
      /\ a.ok => Excused' = Excused
      /\ ~a.ok => Excused' = Excused \cup {w}
      /\ faults' \in 0..MaxFaults /\ lost' \subseteq Ids
      /\ broken' \subseteq Writers /\ dropped' \subseteq Writers
  BY InsertFacts
<1>3. /\ stream[w] \in StreamType /\ stream[w].pc \in {"open", "write", "upload"}
      /\ stream[w].chunk \in Nat /\ stream[w].id \in Ids /\ size \in 1..ChunkSize
  BY DEF IInv, TypeOK, StreamType, Inserts
<1>4. /\ new.id = stream[w].id /\ new.n = stream[w].chunk /\ new.by = w
      /\ new.from \in Nat /\ new.size = size
  BY <1>3, Products DEF Piece
<1>. HIDE DEF new
<1>5. chunks' = chunks \/ (a.kept /\ chunks' = chunks \cup {new})
  BY DEF Inserts, new
<1>6. TypeOK'
  <2>1. \A c \in chunks' : /\ c.id \in Ids /\ c.by \in Writers
                           /\ c.n \in Nat /\ c.from \in Nat /\ c.size \in 1..ChunkSize
    BY <1>3, <1>4, <1>5, ChunkTypes DEF IInv
  <2>. QED  BY <1>1, <1>2, <2>1 DEF IInv, TypeOK, Inserts
<1>7. UniqueKeys'
  <2>1. \A c \in chunks : a.kept => ~(c.id = new.id /\ c.n = new.n)
    BY <1>2, <1>4 DEF HasChunk
  <2>. QED  BY <1>5, <2>1 DEF IInv, UniqueKeys, Inserts
<1>8. \A v \in Writers : Progress(v)' /\ Stored(v)'
  <2>1. \A v \in Writers \ {w} : (v \in Excused' <=> v \in Excused) /\ given'[v] = given[v]
    BY <1>2 DEF Inserts
  <2>. QED  BY <1>2, <2>1, OthersKept
<1>9. Owned'
  <2>. SUFFICES ASSUME NEW c \in chunks'
                PROVE  /\ stream'[c.by].pc # "none" /\ stream'[c.by].id = c.id /\ c.n <= stream'[c.by].chunk
                       /\ stream'[c.by].pc \in {"upload", "listing"} => c.n < stream'[c.by].chunk
    BY DEF Owned
  <2>0. s.chunk \in Nat /\ s.id = stream[w].id /\ s.chunk >= stream[w].chunk /\ s.pc # "none"
        /\ (s.pc \in {"upload", "listing"} => s.chunk = stream[w].chunk + 1)
    BY <1>3 DEF Goes, StreamType
  <2>1. CASE c \in chunks
    <3>1. /\ stream[c.by].pc # "none" /\ stream[c.by].id = c.id /\ c.n <= stream[c.by].chunk
          /\ stream[c.by].pc \in {"upload", "listing"} => c.n < stream[c.by].chunk
          /\ c.by \in Writers /\ c.n \in Nat
      BY <2>1, ChunkTypes DEF IInv, Owned
    <3>2. CASE c.by # w
      BY <1>1, <3>1, <3>2
    <3>3. CASE c.by = w
      BY <1>1, <1>3, <2>0, <3>1, <3>3
    <3>. QED  BY <3>2, <3>3
  <2>2. CASE c = new
    BY <1>1, <1>3, <1>4, <2>0, <2>2
  <2>. QED  BY <1>5, <2>1, <2>2
<1>10. Prefix'
  <2>. SUFFICES ASSUME NEW c \in chunks', Good(c.id)', NEW m \in 0..(c.n - 1)
                PROVE  \E d \in chunks' : d.id = c.id /\ d.n = m /\ d.by = c.by
    BY DEF Prefix
  <2>1. CASE c \in chunks
    BY <1>2, <2>1 DEF IInv, Prefix
  <2>2. CASE c = new
    <3>1. Piece(w, m, ChunkSize) \in chunks
      BY <1>2, <1>3, <1>4, <2>2 DEF IInv, Stored
    <3>. QED  BY <1>2, <1>4, <2>2, <3>1 DEF Piece
  <2>. QED  BY <1>5, <2>1, <2>2
<1>11. Filed'
  <2>1. files' = files /\ \A f \in files : f.by \in Writers
    BY DEF Inserts, IInv, TypeOK
  <2>2. \A id, n : HasChunk(id, n) => HasChunk(id, n)'
    BY <1>2 DEF HasChunk
  <2>3. \A f \in files : Good(f.id) /\ Complete(f) => Complete(f)'
    <3>1. \A f \in files : Good(f.id) => ChunksOf(f.id)' = ChunksOf(f.id)
      BY <1>3, <1>4, ListedKeepsChunks DEF Inserts, new
    <3>. QED  BY <3>1 DEF Complete, FileChunk, FileChunks
  <2>. SUFFICES ASSUME NEW f \in files
                PROVE  /\ stream'[f.by].pc # "none" /\ stream'[f.by].id = f.id
                       /\ Good(f.id)' => /\ Complete(f)' /\ stream'[f.by].pc \in {"open", "write", "freed"}
                                         /\ stream'[f.by].pc # "freed" => HasChunk(f.id, stream[f.by].chunk)'
    BY <2>1 DEF Filed
  <2>4. /\ stream[f.by].pc # "none" /\ stream[f.by].id = f.id
        /\ Good(f.id) => /\ Complete(f) /\ stream[f.by].pc \in {"open", "write", "freed"}
                         /\ stream[f.by].pc # "freed" => HasChunk(f.id, stream[f.by].chunk)
    BY DEF IInv, Filed
  <2>5. CASE f.by # w
    BY <1>1, <1>2, <2>1, <2>2, <2>3, <2>4, <2>5
  <2>6. CASE f.by = w
    <3>1. stream'[w].pc # "none" /\ stream'[w].id = f.id
      BY <1>1, <1>3, <2>4, <2>6 DEF Goes
    <3>2. ASSUME Good(f.id)'
          PROVE  /\ Complete(f)' /\ stream'[w].pc \in {"open", "write", "freed"}
                 /\ HasChunk(f.id, stream[w].chunk)'
      <4>1. Good(f.id) /\ HasChunk(f.id, stream[w].chunk) /\ stream[w].pc # "upload"
        BY <1>2, <1>3, <2>4, <2>6, <3>2
      <4>2. ~a.kept /\ ~a.ok
        BY <1>2, <2>4, <2>6, <3>2, <4>1
      <4>3. s.pc \in {"open", "freed"} /\ s.chunk = stream[w].chunk
        BY <4>1, <4>2
      <4>. QED  BY <1>1, <2>2, <2>3, <2>4, <4>1, <4>3
    <3>. QED  BY <2>6, <3>1, <3>2
  <2>. QED  BY <2>5, <2>6
<1>12. ClosedIsWhole'
  <2>1. \A v \in Writers \ {w} : v \in Excused' <=> v \in Excused
    BY <1>2
  <2>2. s.pc = "freed" => w \in Excused'
    BY <1>2
  <2>. QED  BY <1>1, <1>2, <2>1, <2>2 DEF IInv, ClosedIsWhole, Good, Inserts, Excused
<1>. QED  BY <1>6, <1>7, <1>8, <1>9, <1>10, <1>11, <1>12 DEF IInv

\* The insert of the metadata, when all n + 1 chunks are out.
LEMMA FileStep ==
    ASSUME IInv, NEW w \in Writers, stream[w].pc \in {"meta", "listing"},
           NEW a \in Answers(\E f \in files : f.id = stream[w].id), FileInsert(w, a),
           NEW pc \in {"open", "freed"}, stream' = [stream EXCEPT ![w].pc = pc],
           stream[w].pc = "listing" => pc = "freed",
           stream[w].pc = "meta" => pc = IF a.ok THEN "freed" ELSE "open",
           NEW n \in Nat, NEW size \in 1..ChunkSize, stream[w].length = n * ChunkSize + size,
           Good(stream[w].id) => AllStored(w, n, size),
           \A c \in chunks : c.by = w => c.n <= n,
           stream[w].pc = "meta" => n = stream[w].chunk
    PROVE  IInv'
<1>. DEFINE s == [stream[w] EXCEPT !.pc = pc]
            id == stream[w].id
            dup == \E f \in files : f.id = stream[w].id
            new == [id |-> id, by |-> w, length |-> stream[w].length, summed |-> stream[w].summed]
<1>1. stream[w] \in StreamType /\ safe \in BOOLEAN
  BY DEF IInv, TypeOK
<1>2. /\ s \in StreamType /\ s.pc = pc /\ s.id = id /\ s.chunk = stream[w].chunk
      /\ s.length = stream[w].length /\ s.buffer = stream[w].buffer /\ s.todo = stream[w].todo
      /\ s.summed = stream[w].summed /\ s.uploads = stream[w].uploads
  BY <1>1 DEF StreamType
<1>3. Goes(w, s) /\ UNCHANGED <<safe, chunks, given>>
  BY <1>1, <1>2 DEF IInv, TypeOK, Goes, StreamType, FileInsert
<1>. HIDE DEF s
<1>4. stream' \in [Writers -> StreamType] /\ stream'[w] = s /\ \A v \in Writers \ {w} : stream'[v] = stream[v]
  BY <1>3, Streams DEF IInv
<1>5. dup \in BOOLEAN /\ a \in Answers(dup) /\ Record(w, a)
  BY DEF FileInsert
<1>6. /\ a.ok \in BOOLEAN /\ a.kept \in BOOLEAN
      /\ a.kept => ~dup
      /\ a.ok => a.kept \/ (~safe /\ id \in lost')
      /\ faults' \in 0..MaxFaults
      /\ lost \subseteq lost' /\ lost' \subseteq lost \cup {id}
      /\ Excused' = IF a.ok THEN Excused ELSE Excused \cup {w}
      /\ broken' \subseteq Writers /\ dropped' \subseteq Writers
  <2>. HIDE DEF dup
  <2>1. /\ a.ok \in BOOLEAN /\ a.kept \in BOOLEAN
        /\ a.kept => ~dup
        /\ a.ok => a.kept \/ (~safe /\ id \in lost')
        /\ faults' \in 0..MaxFaults
        /\ lost \subseteq lost' /\ lost' \subseteq lost \cup {id}
    BY <1>5, AnswerFacts DEF IInv
  <2>2. Excuses(w, a)
    BY Told DEF FileInsert
  <2>3. broken \subseteq Writers /\ dropped \subseteq Writers
    BY DEF IInv, TypeOK
  <2>. QED  BY <2>1, <2>2, <2>3 DEF Excuses
<1>7. /\ \A i : Good(i)' => Good(i)
      /\ a.ok => a.kept \/ ~(safe' \/ id \in Ids \ lost')
  BY <1>3, <1>6 DEF Good
<1>8. files' = IF a.kept THEN files \cup {new} ELSE files
  BY DEF FileInsert
<1>9. /\ id \in Ids /\ stream[w].length \in Nat \ {0} /\ stream[w].summed \in Nat
      /\ stream[w].chunk \in Nat
  BY <1>1, Products DEF StreamType
<1>10. TypeOK'
  BY <1>3, <1>4, <1>6, <1>8, <1>9 DEF IInv, TypeOK
<1>11. UniqueKeys'
  BY <1>3, <1>6, <1>8 DEF IInv, UniqueKeys
<1>12. /\ Progress(w) /\ Stored(w) /\ stream[w].todo = 0
       /\ Good(id) => stream[w].summed = stream[w].length
  BY DEF IInv, Progress, Stored
<1>13. \A v \in Writers \ {w} : Progress(v)' /\ Stored(v)'
  <2>1. \A v \in Writers \ {w} : (v \in Excused' <=> v \in Excused) /\ given'[v] = given[v]
    BY <1>3, <1>6
  <2>. QED  BY <1>3, <1>6, <2>1, OthersKept
<1>14. Progress(w)'
  BY <1>2, <1>3, <1>4, <1>6, <1>12 DEF Progress, Live
<1>15. stream[w].pc = "meta" /\ Good(id) => HasChunk(id, stream[w].chunk)
  BY DEF AllStored, Piece, HasChunk
<1>16. Stored(w)'
  <2>1. \A m : Piece(w, m, ChunkSize)' = Piece(w, m, ChunkSize)
    BY <1>2, <1>4 DEF Piece
  <2>2. pc = "open" /\ Good(id) => \A m \in 0..(stream[w].chunk - 1) : Piece(w, m, ChunkSize) \in chunks
    BY DEF AllStored
  <2>3. HasChunk(id, stream[w].chunk) => HasChunk(stream[w].id, stream[w].chunk)'
    BY <1>2, <1>3, <1>4 DEF HasChunk
  <2>. QED  BY <1>2, <1>3, <1>4, <1>7, <1>15, <2>1, <2>2, <2>3 DEF Stored
<1>17. Owned'
  <2>. SUFFICES ASSUME NEW c \in chunks
                PROVE  /\ stream'[c.by].pc # "none" /\ stream'[c.by].id = c.id /\ c.n <= stream'[c.by].chunk
                       /\ stream'[c.by].pc \in {"upload", "listing"} => c.n < stream'[c.by].chunk
    BY <1>3 DEF Owned
  <2>1. /\ stream[c.by].pc # "none" /\ stream[c.by].id = c.id /\ c.n <= stream[c.by].chunk
        /\ stream[c.by].pc \in {"upload", "listing"} => c.n < stream[c.by].chunk
        /\ c.by \in Writers
    BY ChunkTypes DEF IInv, Owned
  <2>. QED  BY <1>2, <1>4, <2>1
<1>18. Prefix'
  BY <1>3, <1>7 DEF IInv, Prefix
<1>19. \A f : Complete(f)' = Complete(f)
  BY <1>3 DEF Complete, ChunksOf, FileChunk, FileChunks
<1>20. Filed'
  <2>0. \A i, m : HasChunk(i, m)' = HasChunk(i, m)
    BY <1>3 DEF HasChunk
  <2>. SUFFICES ASSUME NEW f \in files'
                PROVE  /\ stream'[f.by].pc # "none" /\ stream'[f.by].id = f.id
                       /\ Good(f.id)' => /\ Complete(f) /\ stream'[f.by].pc \in {"open", "write", "freed"}
                                         /\ stream'[f.by].pc # "freed" => HasChunk(f.id, stream[f.by].chunk)'
    BY <1>19 DEF Filed
  <2>1. CASE f \in files
    <3>1. /\ stream[f.by].pc # "none" /\ stream[f.by].id = f.id
          /\ Good(f.id) => /\ Complete(f) /\ stream[f.by].pc \in {"open", "write", "freed"}
                           /\ stream[f.by].pc # "freed" => HasChunk(f.id, stream[f.by].chunk)
          /\ f.by \in Writers
      BY <2>1 DEF IInv, Filed, TypeOK
    <3>2. CASE f.by # w
      <4>1. HasChunk(f.id, stream[f.by].chunk)' = HasChunk(f.id, stream[f.by].chunk)
        BY <1>3, <1>4, <3>1, <3>2 DEF HasChunk
      <4>. QED  BY <1>4, <1>7, <3>1, <3>2, <4>1
    <3>3. CASE f.by = w
      BY <1>2, <1>4, <1>7, <3>1, <3>3
    <3>. QED  BY <3>2, <3>3
  <2>2. CASE f = new
    <3>1. f.id = id /\ f.by = w /\ f.length = n * ChunkSize + size /\ f.summed = stream[w].summed
      BY <2>2
    <3>2. ASSUME Good(id) PROVE Complete(f)
      <4>1. f.summed = f.length
        BY <1>12, <3>1, <3>2
      <4>. QED  BY <3>1, <3>2, <4>1, CompleteFile DEF IInv
    <3>3. pc # "freed" /\ Good(id) => HasChunk(id, stream[w].chunk)
      BY <1>15
    <3>4. HasChunk(f.id, stream[f.by].chunk)' = HasChunk(id, stream[w].chunk)
      BY <1>2, <1>3, <1>4, <3>1 DEF HasChunk
    <3>. QED  BY <1>2, <1>4, <1>7, <3>1, <3>2, <3>3, <3>4
  <2>. QED  BY <1>8, <2>1, <2>2
<1>21. ClosedIsWhole'
  <2>. SUFFICES ASSUME NEW v \in Writers, stream'[v].pc = "freed", v \notin Excused',
                       safe' \/ stream'[v].id \notin lost',
                       stream'[v].uploads \/ given'[v] % ChunkSize # 0
                PROVE  \E f \in files' : f.by = v /\ f.length = given'[v]
    BY DEF ClosedIsWhole, Excused
  <2>1. CASE v # w
    <3>1. /\ stream[v].pc = "freed" /\ v \notin Excused /\ (safe \/ stream[v].id \notin lost)
          /\ stream[v].uploads \/ given[v] % ChunkSize # 0
      BY <1>3, <1>4, <1>6, <2>1
    <3>2. \E f \in files : f.by = v /\ f.length = given[v]
      BY <3>1 DEF IInv, ClosedIsWhole, Excused
    <3>. QED  BY <1>3, <1>8, <3>2
  <2>2. CASE v = w
    <3>1. a.ok /\ w \notin Excused
      BY <1>6, <2>2
    <3>2. a.kept
      BY <1>2, <1>4, <1>7, <1>9, <2>2, <3>1
    <3>3. given[w] = stream[w].length
      BY <1>9, <1>12, <3>1 DEF Progress, Live
    <3>4. new \in files' /\ new.by = w /\ new.length = given[w]
      BY <1>8, <3>2, <3>3
    <3>. QED  BY <1>3, <2>2, <3>4
  <2>. QED  BY <2>1, <2>2
<1>. QED
  BY <1>10, <1>11, <1>13, <1>14, <1>16, <1>17, <1>18, <1>20, <1>21 DEF IInv
-----------------------------------------------------------------------------
(* The actions that insert nothing.                                        *)

LEMMA NoStreamFacts ==
    /\ NoStream \in StreamType
    /\ NoStream.buffer = 0 /\ NoStream.length = 0 /\ NoStream.chunk = 0
    /\ NoStream.summed = 0 /\ NoStream.todo = 0 /\ NoStream.uploads = FALSE
BY GridFSWriterAssumption DEF NoStream, StreamType

LEMMA StreamNewStep ==
    ASSUME IInv, NEW w \in Writers, StreamNew(w)
    PROVE  IInv'
<1>1. PICK id \in Ids : stream' = [stream EXCEPT ![w] = [NoStream EXCEPT !.pc = "open", !.id = id]]
  BY DEF StreamNew
<1>. DEFINE s == [NoStream EXCEPT !.pc = "open", !.id = id]
<1>0. s \in StreamType
  BY NoStreamFacts DEF StreamType
<1>2. /\ s \in StreamType /\ s.pc = "open" /\ s.buffer = 0 /\ s.length = 0 /\ s.chunk = 0
      /\ s.summed = 0 /\ s.todo = 0 /\ s.uploads = FALSE
  BY <1>0, NoStreamFacts DEF StreamType
<1>3. stream' = [stream EXCEPT ![w] = s]
  BY <1>1
<1>. HIDE DEF s
<1>4. Goes(w, s) /\ UNCHANGED <<safe, chunks, files, given, broken, dropped, lost, faults>>
  BY <1>2, <1>3 DEF StreamNew, Goes
<1>5. stream'[w] = s /\ stream[w].pc = "none" /\ given[w] = 0 /\ w \notin Excused
  BY <1>4, Streams DEF IInv, StreamNew, Progress
<1>6. ChunkSize \in Nat /\ 0 * ChunkSize = 0
  BY GridFSWriterAssumption
<1>7. Progress(w)'
  BY <1>2, <1>4, <1>5, <1>6 DEF Progress, Live
<1>8. Stored(w)'
  BY <1>2, <1>5, <1>6 DEF Stored
<1>. QED  BY <1>2, <1>4, <1>5, <1>7, <1>8, QuietStep DEF IInv, TypeOK

LEMMA UploadStep ==
    ASSUME IInv, NEW w \in Writers, Upload(w)
    PROVE  IInv'
<1>1. PICK id \in Ids, size \in 1..MaxBytes :
         /\ stream' = [stream EXCEPT
                ![w] = [NoStream EXCEPT !.pc = "upload", !.uploads = TRUE, !.id = id,
                                        !.todo = size]]
         /\ given' = [given EXCEPT ![w] = size]
  BY DEF Upload
<1>. DEFINE s == [NoStream EXCEPT !.pc = "upload", !.uploads = TRUE, !.id = id, !.todo = size]
<1>10. size \in Nat /\ size > 0 /\ size \in 0..MaxBytes
  BY GridFSWriterAssumption
<1>0. s \in StreamType
  BY <1>10, NoStreamFacts DEF StreamType
<1>2. /\ s \in StreamType /\ s.pc = "upload" /\ s.buffer = 0 /\ s.length = 0 /\ s.chunk = 0
      /\ s.summed = 0 /\ s.todo = size
  BY <1>0, NoStreamFacts DEF StreamType
<1>3. stream' = [stream EXCEPT ![w] = s]
  BY <1>1
<1>. HIDE DEF s
<1>4. Goes(w, s) /\ UNCHANGED <<safe, chunks, files, broken, dropped, lost, faults>>
  BY <1>2, <1>3 DEF Upload, Goes
<1>5. stream'[w] = s /\ stream[w].pc = "none" /\ w \notin Excused
  BY <1>4, Streams DEF IInv, Upload, Progress
<1>6. /\ given' \in [Writers -> 0..MaxBytes] /\ given'[w] = size
      /\ \A v \in Writers \ {w} : given'[v] = given[v]
  BY <1>1, <1>10 DEF IInv, TypeOK
<1>7. ChunkSize \in Nat /\ 0 * ChunkSize = 0
  BY GridFSWriterAssumption
<1>8. Progress(w)'
  BY <1>10, <1>2, <1>4, <1>5, <1>6, <1>7 DEF Progress, Live
<1>9. Stored(w)'
  BY <1>2, <1>5, <1>7 DEF Stored
<1>. QED  BY <1>2, <1>4, <1>5, <1>6, <1>8, <1>9, QuietStep

LEMMA StreamWriteStep ==
    ASSUME IInv, NEW w \in Writers, StreamWrite(w)
    PROVE  IInv'
<1>1. PICK size \in 1..(MaxBytes - given[w]) :
         /\ stream' = [stream EXCEPT ![w].pc = "write", ![w].todo = size]
         /\ given' = [given EXCEPT ![w] = @ + size]
  BY DEF StreamWrite
<1>. DEFINE s == [stream[w] EXCEPT !.pc = "write", !.todo = size]
<1>2. stream[w] \in StreamType /\ stream[w].pc = "open" /\ given[w] \in 0..MaxBytes /\ MaxBytes \in Nat
  BY GridFSWriterAssumption DEF IInv, TypeOK, StreamWrite
<1>10. size \in Nat /\ size > 0 /\ given[w] + size \in 0..MaxBytes
  BY <1>2
<1>11. stream' = [stream EXCEPT ![w] = s]
  BY <1>1, <1>2 DEF IInv, TypeOK
<1>0. s \in StreamType
  BY <1>2, <1>10 DEF StreamType
<1>3. /\ s.pc = "write" /\ s.id = stream[w].id /\ s.buffer = stream[w].buffer
      /\ s.length = stream[w].length /\ s.chunk = stream[w].chunk
      /\ s.summed = stream[w].summed /\ s.todo = size /\ s.uploads = stream[w].uploads
  BY <1>2 DEF StreamType
<1>4. Goes(w, s) /\ UNCHANGED <<safe, chunks, files, broken, dropped, lost, faults>>
  <2>1. stream[w].chunk \in Nat
    BY <1>2 DEF StreamType
  <2>2. UNCHANGED <<safe, chunks, files, broken, dropped, lost, faults>>
    BY DEF StreamWrite
  <2>3. s.pc # "none" /\ s.chunk >= stream[w].chunk
    BY <1>3, <2>1
  <2>. HIDE DEF s
  <2>. QED  BY <1>0, <1>3, <1>11, <2>2, <2>3, Zenon DEF Goes
<1>. HIDE DEF s
<1>5. stream'[w] = s
  BY <1>4, Streams DEF IInv
<1>6. /\ given' \in [Writers -> 0..MaxBytes] /\ given'[w] = given[w] + size
      /\ \A v \in Writers \ {w} : given'[v] = given[v]
  BY <1>1, <1>2, <1>10 DEF IInv, TypeOK
<1>7. Progress(w) /\ Stored(w)
  BY DEF IInv
<1>12. Excused' = Excused
  BY <1>4 DEF Excused
<1>8. Progress(w)'
  BY <1>10, <1>12, <1>2, <1>3, <1>5, <1>6, <1>7 DEF Progress, Live, StreamType
<1>9. Stored(w)'
  BY <1>2, <1>3, <1>4, <1>5, <1>7 DEF Stored, Good, HasChunk, Piece
<1>. QED  BY <1>2, <1>3, <1>4, <1>6, <1>8, <1>9, QuietStep

\* One round of stream_write.
LEMMA TakenFacts ==
    ASSUME IInv, NEW w \in Writers, stream[w].pc = "write"
    PROVE  \E csize \in Nat :
             /\ Taken(w) \in StreamType
             /\ Taken(w).buffer = stream[w].buffer + csize
             /\ Taken(w).length = stream[w].length + csize
             /\ Taken(w).todo = stream[w].todo - csize
             /\ Taken(w).id = stream[w].id /\ Taken(w).chunk = stream[w].chunk
             /\ Taken(w).summed = stream[w].summed /\ ~Taken(w).uploads
             /\ Taken(w).length = Taken(w).chunk * ChunkSize + Taken(w).buffer
             /\ w \notin Excused => given[w] = Taken(w).length + Taken(w).todo
<1>. DEFINE csize == Least(stream[w].todo, ChunkSize - stream[w].buffer)
<1>1. stream[w] \in StreamType /\ Progress(w) /\ ChunkSize \in Nat
  BY GridFSWriterAssumption DEF IInv, TypeOK
<1>2. /\ stream[w].buffer \in 0..ChunkSize /\ stream[w].length \in Nat /\ stream[w].chunk \in Nat
      /\ stream[w].summed \in Nat /\ stream[w].todo \in Nat
      /\ stream[w].length = stream[w].chunk * ChunkSize + stream[w].buffer
      /\ w \notin Excused => given[w] = stream[w].length + stream[w].todo
      /\ stream[w].chunk * ChunkSize \in Nat /\ ~stream[w].uploads
  BY <1>1, Products DEF StreamType, Progress, Live
<1>3. csize \in Nat /\ csize <= stream[w].todo /\ stream[w].buffer + csize \in 0..ChunkSize
  BY <1>1, <1>2 DEF Least
<1>. DEFINE t == [stream[w] EXCEPT !.buffer = @ + csize, !.length = @ + csize, !.todo = @ - csize]
<1>4. Taken(w) = t
  BY DEF Taken
<1>. HIDE DEF csize
<1>10. /\ stream[w].length + csize \in Nat /\ stream[w].todo - csize \in Nat
       /\ stream[w].buffer + csize \in 0..ChunkSize
  BY <1>2, <1>3
<1>8. t \in StreamType
  BY <1>1, <1>10 DEF StreamType
<1>9. /\ t.buffer = stream[w].buffer + csize /\ t.length = stream[w].length + csize
      /\ t.todo = stream[w].todo - csize
      /\ t.id = stream[w].id /\ t.chunk = stream[w].chunk /\ t.summed = stream[w].summed
      /\ t.uploads = stream[w].uploads
  BY <1>1 DEF StreamType
<1>. HIDE DEF t
<1>5. /\ Taken(w) \in StreamType
      /\ Taken(w).buffer = stream[w].buffer + csize
      /\ Taken(w).length = stream[w].length + csize
      /\ Taken(w).todo = stream[w].todo - csize
      /\ Taken(w).id = stream[w].id /\ Taken(w).chunk = stream[w].chunk
      /\ Taken(w).summed = stream[w].summed /\ ~Taken(w).uploads
  BY <1>2, <1>4, <1>8, <1>9
<1>6. Taken(w).length = Taken(w).chunk * ChunkSize + Taken(w).buffer
  BY <1>2, <1>3, <1>5
<1>7. w \notin Excused => given[w] = Taken(w).length + Taken(w).todo
  BY <1>2, <1>3, <1>5
<1>. QED  BY <1>3, <1>5, <1>6, <1>7

LEMMA FillStep ==
    ASSUME IInv, NEW w \in Writers, Fill(w)
    PROVE  IInv'
<1>. DEFINE t == Taken(w)
            s == GoesOn(t)
<1>1. /\ stream[w].pc = "write" /\ stream' = [stream EXCEPT ![w] = s]
      /\ UNCHANGED <<safe, chunks, files, given, broken, dropped, lost, faults>>
      /\ Progress(w) /\ Stored(w)
  BY DEF Fill, IInv
<1>2. /\ t \in StreamType /\ t.id = stream[w].id /\ t.chunk = stream[w].chunk
      /\ t.summed = stream[w].summed /\ t.length = t.chunk * ChunkSize + t.buffer
      /\ ~t.uploads
      /\ w \notin Excused => given[w] = t.length + t.todo
  BY <1>1, TakenFacts
<1>. HIDE DEF t
<1>3. /\ s \in StreamType /\ s.id = t.id /\ s.chunk = t.chunk /\ s.summed = t.summed
      /\ s.uploads = t.uploads
      /\ s.length = t.length /\ s.buffer = t.buffer /\ s.todo = t.todo
      /\ s.pc = IF t.todo = 0 THEN "open" ELSE "write"
  BY <1>2 DEF GoesOn, StreamType
<1>. HIDE DEF s
<1>4. Goes(w, s)
  BY <1>1, <1>2, <1>3 DEF Goes, StreamType
<1>5. stream'[w] = s
  BY <1>4, Streams DEF IInv
<1>9. Excused' = Excused
  BY <1>1 DEF Excused
<1>6. Progress(w)'
  BY <1>1, <1>2, <1>3, <1>5, <1>9 DEF Progress, Live, StreamType
<1>7. Stored(w)'
  BY <1>1, <1>2, <1>3, <1>5 DEF Stored, Good, HasChunk, Piece
<1>8. given' \in [Writers -> 0..MaxBytes]
  BY <1>1 DEF IInv, TypeOK
<1>. QED  BY <1>1, <1>2, <1>3, <1>4, <1>6, <1>7, <1>8, QuietStep

LEMMA CloseEmptyStep ==
    ASSUME IInv, NEW w \in Writers, CloseEmpty(w)
    PROVE  IInv'
<1>. DEFINE s == [stream[w] EXCEPT !.pc = "freed"]
<1>1. /\ stream[w] \in StreamType /\ stream[w].pc = "open" /\ ~(stream[w].buffer > 0)
      /\ stream' = [stream EXCEPT ![w].pc = "freed"]
      /\ UNCHANGED <<safe, chunks, files, given, broken, dropped, lost, faults>>
      /\ Progress(w) /\ Stored(w) /\ given \in [Writers -> 0..MaxBytes]
  BY DEF CloseEmpty, HasTail, IInv, TypeOK
<1>2. /\ s \in StreamType /\ s.pc = "freed" /\ s.id = stream[w].id /\ s.chunk = stream[w].chunk
      /\ s.uploads = stream[w].uploads
  BY <1>1 DEF StreamType
<1>3. Goes(w, s)
  BY <1>1, <1>2 DEF Goes, StreamType, IInv, TypeOK
<1>. HIDE DEF s
<1>4. stream'[w] = s
  BY <1>3, Streams DEF IInv
<1>5. Progress(w)' /\ Stored(w)'
  BY <1>2, <1>4 DEF Progress, Stored, Live
<1>7. ~s.uploads
  BY <1>1, <1>2 DEF Progress
<1>6. w \in Excused \/ given'[w] % ChunkSize = 0
  <2>. SUFFICES ASSUME w \notin Excused PROVE given[w] % ChunkSize = 0
    BY <1>1
  <2>1. stream[w].buffer = 0 /\ stream[w].chunk \in Nat /\ ChunkSize \in Nat \ {0}
    BY <1>1, GridFSWriterAssumption DEF StreamType
  <2>2. given[w] = stream[w].length + stream[w].todo /\ stream[w].todo = 0
        /\ stream[w].length = stream[w].chunk * ChunkSize + 0
    BY <1>1, <2>1 DEF Progress, Live
  <2>3. given[w] \in Nat /\ given[w] = stream[w].chunk * ChunkSize + 0
    BY <1>1, <2>2, Products, <2>1
  <2>4. 0 \in 0..(ChunkSize - 1)
    BY <2>1
  <2>. QED  BY <2>1, <2>3, <2>4, OneQuotient
<1>. QED  BY <1>1, <1>2, <1>3, <1>5, <1>6, <1>7, QuietStep
-----------------------------------------------------------------------------
(* The actions that insert a chunk.                                        *)

\* What is stored after the insert.
LEMMA InsertStored ==
    ASSUME IInv, NEW w \in Writers, NEW size, NEW a, Inserts(w, size, a), NEW s, Goes(w, s)
    PROVE  \A id : id = stream[w].id /\ Good(id)' =>
             /\ \A n \in 0..(stream[w].chunk - 1) : Piece(w, n, ChunkSize)' \in chunks'
             /\ a.ok => /\ \A n : n = stream[w].chunk => Piece(w, n, size)' \in chunks'
                        /\ stream[w].pc \in {"open", "write"} =>
                             stream[w].summed = stream[w].chunk * ChunkSize
             /\ HasChunk(id, stream[w].chunk) => \A n : n = stream[w].chunk => HasChunk(id, n)'
<1>. SUFFICES ASSUME NEW id, id = stream[w].id, Good(id)'
              PROVE
             /\ \A n \in 0..(stream[w].chunk - 1) : Piece(w, n, ChunkSize)' \in chunks'
             /\ a.ok => /\ \A n : n = stream[w].chunk => Piece(w, n, size)' \in chunks'
                        /\ stream[w].pc \in {"open", "write"} =>
                             stream[w].summed = stream[w].chunk * ChunkSize
             /\ HasChunk(id, stream[w].chunk) => \A n : n = stream[w].chunk => HasChunk(id, n)'
  OBVIOUS
<1>1. /\ a.kept => ~HasChunk(stream[w].id, stream[w].chunk)
      /\ chunks \subseteq chunks' /\ Good(id) /\ (a.ok => a.kept)
  BY InsertFacts
<1>2. \A n, z : Piece(w, n, z)' = Piece(w, n, z)
  <2>1. stream'[w].id = stream[w].id
    BY Streams DEF Goes, Inserts, IInv
  <2>. QED  BY <2>1 DEF Piece
<1>3. stream[w].pc \in {"open", "write", "upload"} /\ Stored(w)
  BY DEF Inserts, IInv
<1>4. \A n \in 0..(stream[w].chunk - 1) : Piece(w, n, ChunkSize) \in chunks
  BY <1>1, <1>3 DEF Stored
<1>5. a.ok => Piece(w, stream[w].chunk, size) \in chunks'
  BY <1>1 DEF Inserts
<1>6. a.ok /\ stream[w].pc \in {"open", "write"} => stream[w].summed = stream[w].chunk * ChunkSize
  BY <1>1, <1>3 DEF Stored
<1>7. \A n : HasChunk(id, n) => HasChunk(id, n)'
  BY <1>1 DEF HasChunk
<1>. QED  BY <1>1, <1>2, <1>4, <1>5, <1>6, <1>7

LEMMA FillAndFlushStep ==
    ASSUME IInv, NEW w \in Writers, FillAndFlush(w)
    PROVE  IInv'
<1>. DEFINE t == Taken(w)
<1>1. PICK a \in Answers(HasChunk(t.id, t.chunk)) :
         /\ stream[w].pc = "write" /\ t.buffer = ChunkSize /\ given' = given
         /\ ChunkWrite(w, t.length - t.buffer, t.buffer, a) /\ Tell(w, a)
         /\ stream' = [stream EXCEPT ![w] = AfterChunk(t, a.ok)]
  BY DEF FillAndFlush
<1>2. /\ t \in StreamType /\ t.id = stream[w].id /\ t.chunk = stream[w].chunk
      /\ t.summed = stream[w].summed /\ t.length = t.chunk * ChunkSize + t.buffer
      /\ ~t.uploads
      /\ w \notin Excused => given[w] = t.length + t.todo
  BY <1>1, TakenFacts
<1>. HIDE DEF t
<1>3. /\ t.chunk \in Nat /\ t.chunk * ChunkSize \in Nat /\ ChunkSize \in Nat \ {0}
      /\ (t.chunk + 1) * ChunkSize = t.chunk * ChunkSize + ChunkSize
      /\ t.summed \in Nat /\ t.todo \in Nat /\ t.length \in Nat /\ t.id \in Ids
  BY <1>2, Products, GridFSWriterAssumption DEF StreamType
<1>4. Chunk(w, stream[w].chunk, t.length - t.buffer, t.buffer) = Piece(w, stream[w].chunk, ChunkSize)
  BY <1>1, <1>2, <1>3 DEF Chunk, Piece
<1>5. Inserts(w, ChunkSize, a)
  <2>1. stream[w].pc \in {"open", "write", "upload"} /\ ChunkSize \in 1..ChunkSize
    BY <1>1, <1>3
  <2>2. Excuses(w, a)
    BY <1>1, Told
  <2>. QED  BY <1>1, <1>4, <2>1, <2>2, Zenon DEF Inserts, ChunkWrite
<1>. DEFINE s == AfterChunk(t, a.ok)
            u == [t EXCEPT !.summed = @ + ChunkSize, !.buffer = 0, !.chunk = @ + 1]
<1>6. CASE a.ok
  <2>1. u \in StreamType
    <3>1. t.summed + ChunkSize \in Nat /\ 0 \in 0..ChunkSize /\ t.chunk + 1 \in Nat
      BY <1>3
    <3>. QED  BY <1>2, <3>1 DEF StreamType
  <2>2. /\ u.summed = t.summed + ChunkSize /\ u.buffer = 0 /\ u.chunk = t.chunk + 1
        /\ u.id = t.id /\ u.length = t.length /\ u.todo = t.todo /\ u.uploads = t.uploads
    BY <1>2 DEF StreamType
  <2>3. s = GoesOn(u)
    BY <1>6 DEF AfterChunk
  <2>. HIDE DEF s, u
  <2>4. /\ s \in StreamType /\ s.pc = IF t.todo = 0 THEN "open" ELSE "write"
        /\ s.summed = t.summed + ChunkSize /\ s.buffer = 0 /\ s.chunk = t.chunk + 1
        /\ s.id = t.id /\ s.length = t.length /\ s.todo = t.todo /\ s.uploads = t.uploads
    BY <2>1, <2>2, <2>3 DEF GoesOn, StreamType
  <2>5. Goes(w, s)
    BY <1>1, <1>2, <1>3, <2>4 DEF Goes, ChunkWrite, s
  <2>6. stream'[w] = s /\ Excused' = Excused
    BY <1>5, <1>6, <2>5, Streams, InsertFacts DEF IInv
  <2>7. Progress(w)'
    BY <1>1, <1>2, <1>3, <2>4, <2>6 DEF Progress, Live
  <2>8. Stored(w)'
    <3>0. \A id : id = stream[w].id /\ Good(id)' =>
             /\ \A n \in 0..(t.chunk - 1) : Piece(w, n, ChunkSize)' \in chunks'
             /\ \A n : n = t.chunk => Piece(w, n, ChunkSize)' \in chunks'
             /\ t.summed = t.chunk * ChunkSize
      BY <1>1, <1>2, <1>5, <1>6, <2>5, InsertStored
    <3>1. \A id : id = stream[w].id /\ Good(id)' =>
             /\ \A n \in 0..t.chunk : Piece(w, n, ChunkSize)' \in chunks'
             /\ t.summed = t.chunk * ChunkSize
      BY <1>3, <3>0
    <3>2. s.pc \in {"open", "write"}
      BY <2>4
    <3>. QED  BY <1>2, <1>3, <2>4, <2>6, <3>1, <3>2 DEF Stored
  <2>9. s.pc \in {"open", "write"} /\ s.pc # "freed"
    BY <2>4
  <2>. QED  BY <1>1, <1>5, <1>6, <2>5, <2>7, <2>8, <2>9, ChunkStep
<1>7. CASE ~a.ok
  <2>1. s = [t EXCEPT !.pc = "open", !.todo = 0]
    BY <1>7 DEF AfterChunk
  <2>. HIDE DEF s
  <2>2. s \in StreamType
    BY <1>2, <2>1 DEF StreamType
  <2>3. /\ s.pc = "open" /\ s.summed = t.summed /\ s.buffer = t.buffer /\ s.chunk = t.chunk
        /\ s.id = t.id /\ s.length = t.length /\ s.todo = 0 /\ s.uploads = t.uploads
    BY <1>2, <2>1 DEF StreamType
  <2>4. Goes(w, s)
    BY <1>1, <1>2, <1>3, <2>2, <2>3 DEF Goes, ChunkWrite, s
  <2>5. stream'[w] = s /\ w \in Excused'
    BY <1>5, <1>7, <2>4, Streams, InsertFacts DEF IInv
  <2>6. Progress(w)'
    BY <1>1, <1>2, <1>3, <2>3, <2>5 DEF Progress, Live
  <2>7. Stored(w)'
    <3>1. \A id : id = stream[w].id /\ Good(id)' =>
             /\ \A n \in 0..(t.chunk - 1) : Piece(w, n, ChunkSize)' \in chunks'
             /\ HasChunk(id, t.chunk) => \A n : n = t.chunk => HasChunk(id, n)'
      BY <1>1, <1>2, <1>3, <1>5, <2>4, InsertStored
    <3>2. Stored(w) /\ \A id : Good(id)' => Good(id)
      BY <1>5, InsertFacts DEF IInv
    <3>. QED  BY <1>1, <1>2, <1>3, <2>3, <2>5, <3>1, <3>2 DEF Stored
  <2>. QED  BY <1>1, <1>2, <1>5, <1>7, <2>3, <2>4, <2>6, <2>7, ChunkStep
<1>8. a.ok \in BOOLEAN
  BY <1>5, InsertFacts
<1>. QED  BY <1>6, <1>7, <1>8
LEMMA CloseChunkStep ==
    ASSUME IInv, NEW w \in Writers, CloseChunk(w)
    PROVE  IInv'
<1>. DEFINE t == stream[w]
<1>1. PICK a \in Answers(HasChunk(t.id, t.chunk)) :
         /\ t.pc = "open" /\ t.buffer > 0 /\ given' = given
         /\ ChunkWrite(w, t.length - t.buffer, t.buffer, a)
         /\ stream' = [stream EXCEPT
                ![w] = IF a.ok THEN [t EXCEPT !.pc = "meta", !.summed = @ + t.buffer]
                               ELSE [t EXCEPT !.pc = "freed"]]
         /\ dropped' = (IF a.ok THEN dropped ELSE dropped \cup {w}) /\ broken' = broken
  BY DEF CloseChunk, HasTail
<1>2. /\ t \in StreamType /\ t.length = t.chunk * ChunkSize + t.buffer /\ t.todo = 0
      /\ ~t.uploads
      /\ w \notin Excused => given[w] = t.length + t.todo
  BY <1>1 DEF IInv, TypeOK, Progress, Live
<1>3. /\ t.chunk \in Nat /\ t.chunk * ChunkSize \in Nat /\ ChunkSize \in Nat \ {0}
      /\ t.summed \in Nat /\ t.buffer \in 1..ChunkSize /\ t.length \in Nat /\ t.id \in Ids
  BY <1>1, <1>2, Products, GridFSWriterAssumption DEF StreamType
<1>4. Chunk(w, t.chunk, t.length - t.buffer, t.buffer) = Piece(w, t.chunk, t.buffer)
  BY <1>1, <1>2, <1>3 DEF Chunk, Piece
<1>5. Inserts(w, t.buffer, a)
  <2>1. t.pc \in {"open", "write", "upload"}
    BY <1>1
  <2>2. Excuses(w, a)
    BY <1>1 DEF Excuses, Excused
  <2>. QED  BY <1>1, <1>3, <1>4, <2>1, <2>2, Zenon DEF Inserts, ChunkWrite
<1>6. CASE a.ok
  <2>. DEFINE s == [t EXCEPT !.pc = "meta", !.summed = @ + t.buffer]
  <2>1. s \in StreamType
    <3>1. t.summed + t.buffer \in Nat
      BY <1>3
    <3>. QED  BY <1>2, <3>1 DEF StreamType
  <2>2. /\ s.pc = "meta" /\ s.summed = t.summed + t.buffer /\ s.buffer = t.buffer
        /\ s.chunk = t.chunk /\ s.id = t.id /\ s.length = t.length /\ s.todo = t.todo
        /\ s.uploads = t.uploads
    BY <1>2 DEF StreamType
  <2>3. stream' = [stream EXCEPT ![w] = s]
    BY <1>1, <1>6
  <2>. HIDE DEF s
  <2>4. Goes(w, s)
    <3>1. safe' = safe
      BY <1>1 DEF ChunkWrite
    <3>2. s.chunk >= t.chunk /\ s.pc # "none"
      BY <1>3, <2>1, <2>2, <2>3
    <3>. QED  BY <2>1, <2>2, <2>3, <3>1, <3>2, Zenon DEF Goes
  <2>5. stream'[w] = s /\ Excused' = Excused
    BY <1>5, <1>6, <2>4, Streams, InsertFacts DEF IInv
  <2>6. Progress(w)'
    BY <1>1, <1>2, <1>3, <2>2, <2>5 DEF Progress, Live
  <2>7. Stored(w)'
    <3>1. \A id : id = t.id /\ Good(id)' =>
             /\ \A n \in 0..(t.chunk - 1) : Piece(w, n, ChunkSize)' \in chunks'
             /\ \A n : n = t.chunk => Piece(w, n, t.buffer)' \in chunks'
             /\ t.summed = t.chunk * ChunkSize
      BY <1>1, <1>5, <1>6, <2>4, InsertStored
    <3>2. \A n : Piece(w, n, t.buffer)' = Piece(w, n, stream[w].buffer)'
      BY <2>2, <2>5 DEF Piece
    <3>3. \A id : id = t.id /\ Good(id)' => AllStored(w, stream[w].chunk, stream[w].buffer)'
      BY <2>2, <2>5, <3>1, <3>2 DEF AllStored
    <3>. QED  BY <1>2, <1>3, <2>2, <2>5, <3>1, <3>3 DEF Stored
  <2>. QED  BY <1>1, <1>5, <1>6, <2>2, <2>4, <2>6, <2>7, ChunkStep
<1>7. CASE ~a.ok
  <2>. DEFINE s == [t EXCEPT !.pc = "freed"]
  <2>1. s \in StreamType /\ s.pc = "freed" /\ s.chunk = t.chunk /\ s.id = t.id
    BY <1>2 DEF StreamType
  <2>2. stream' = [stream EXCEPT ![w] = s]
    BY <1>1, <1>7
  <2>. HIDE DEF s
  <2>3. Goes(w, s)
    <3>1. safe' = safe
      BY <1>1 DEF ChunkWrite
    <3>2. s.chunk >= t.chunk /\ s.pc # "none"
      BY <1>3, <2>1, <2>2
    <3>. QED  BY <2>1, <2>2, <3>1, <3>2, Zenon DEF Goes
  <2>4. Progress(w)' /\ Stored(w)'
    <3>1. stream'[w] = s
      BY <2>3, Streams DEF IInv
    <3>. QED  BY <2>1, <3>1 DEF Progress, Stored, Live
  <2>. QED  BY <1>1, <1>5, <1>7, <2>1, <2>3, <2>4, ChunkStep
<1>8. a.ok \in BOOLEAN
  BY <1>5, InsertFacts
<1>. QED  BY <1>6, <1>7, <1>8

LEMMA UploadChunkStep ==
    ASSUME IInv, NEW w \in Writers, UploadChunk(w)
    PROVE  IInv'
<1>. DEFINE t == stream[w]
<1>0. PICK csize : csize = Least(t.todo, ChunkSize)
  OBVIOUS
<1>. DEFINE pc(ok) == IF ~ok THEN "freed" ELSE IF t.todo = csize THEN "listing" ELSE "upload"
<1>1. PICK a \in Answers(HasChunk(t.id, t.chunk)) :
         /\ t.pc = "upload" /\ given' = given
         /\ ChunkWrite(w, t.length, csize, a) /\ Tell(w, a)
         /\ stream' = [stream EXCEPT ![w] = [t EXCEPT
                !.pc = IF ~a.ok THEN "freed" ELSE IF t.todo = csize THEN "listing" ELSE "upload",
                !.length = @ + csize, !.summed = @ + csize, !.todo = @ - csize,
                !.chunk = @ + 1]]
  BY <1>0 DEF UploadChunk
<1>2. /\ t \in StreamType /\ t.length = t.chunk * ChunkSize /\ t.todo > 0 /\ t.summed = t.length
      /\ w \notin Excused => given[w] = t.length + t.todo
  BY <1>1 DEF IInv, TypeOK, Progress, Live
<1>3. /\ t.chunk \in Nat /\ t.chunk * ChunkSize \in Nat /\ ChunkSize \in Nat \ {0}
      /\ (t.chunk + 1) * ChunkSize = t.chunk * ChunkSize + ChunkSize
      /\ t.summed \in Nat /\ t.length \in Nat /\ t.todo \in Nat /\ t.id \in Ids
  BY <1>2, Products, GridFSWriterAssumption DEF StreamType
<1>4. /\ csize \in 1..ChunkSize /\ csize <= t.todo /\ t.todo - csize \in Nat
      /\ t.todo # csize => csize = ChunkSize
  BY <1>0, <1>2, <1>3 DEF Least
<1>5. Chunk(w, t.chunk, t.length, csize) = Piece(w, t.chunk, csize)
  BY <1>2 DEF Chunk, Piece
<1>6. Inserts(w, csize, a)
  <2>1. t.pc \in {"open", "write", "upload"}
    BY <1>1
  <2>2. Excuses(w, a)
    BY <1>1, Told
  <2>. QED  BY <1>1, <1>4, <1>5, <2>1, <2>2, Zenon DEF Inserts, ChunkWrite
<1>. DEFINE s == [t EXCEPT !.pc = pc(a.ok), !.length = @ + csize, !.summed = @ + csize,
                           !.todo = @ - csize, !.chunk = @ + 1]
<1>7. stream' = [stream EXCEPT ![w] = s]
  BY <1>1
<1>8. pc(a.ok) \in {"freed", "listing", "upload"}
  OBVIOUS
<1>9. s \in StreamType
  <2>1. t.length + csize \in Nat /\ t.summed + csize \in Nat /\ t.chunk + 1 \in Nat
    BY <1>3, <1>4
  <2>. HIDE DEF pc
  <2>. QED  BY <1>2, <1>4, <1>8, <2>1 DEF StreamType
<1>10. /\ s.pc = pc(a.ok) /\ s.length = t.length + csize /\ s.summed = t.summed + csize
       /\ s.todo = t.todo - csize /\ s.chunk = t.chunk + 1 /\ s.id = t.id
  <2>. HIDE DEF pc
  <2>. QED  BY <1>2 DEF StreamType
<1>. HIDE DEF s
<1>11. Goes(w, s)
  <2>1. safe' = safe
    BY <1>1 DEF ChunkWrite
  <2>2. s.chunk >= t.chunk /\ s.pc # "none"
    BY <1>3, <1>8, <1>10
  <2>. QED  BY <1>7, <1>9, <1>10, <2>1, <2>2, Zenon DEF Goes
<1>12. stream'[w] = s
  BY <1>11, Streams DEF IInv
<1>13. a.ok \in BOOLEAN /\ (a.ok => Excused' = Excused)
  BY <1>6, InsertFacts
<1>14. ASSUME a.ok PROVE Progress(w)' /\ Stored(w)'
  <2>1. s.pc = IF t.todo = csize THEN "listing" ELSE "upload"
    BY <1>10, <1>14
  <2>2. Progress(w)'
    BY <1>1, <1>2, <1>3, <1>4, <1>10, <1>12, <1>13, <1>14, <2>1 DEF Progress, Live
  <2>3. \A id : id = t.id /\ Good(id)' =>
             /\ \A n \in 0..(t.chunk - 1) : Piece(w, n, ChunkSize)' \in chunks'
             /\ \A n : n = t.chunk => Piece(w, n, csize)' \in chunks'
    BY <1>6, <1>11, <1>14, InsertStored
  <2>4. CASE t.todo = csize
    <3>1. \A id, n : id = t.id /\ Good(id)' /\ n = t.chunk => AllStored(w, n, csize)'
      BY <1>3, <2>3 DEF AllStored
    <3>2. /\ s.pc = "listing" /\ s.chunk = t.chunk + 1 /\ s.length = t.chunk * ChunkSize + csize
          /\ s.id = t.id
      BY <1>2, <1>10, <2>1, <2>4
    <3>. QED  BY <1>3, <1>4, <1>12, <2>2, <3>1, <3>2 DEF Stored
  <2>5. CASE t.todo # csize
    <3>1. s.pc = "upload" /\ csize = ChunkSize /\ s.chunk = t.chunk + 1 /\ s.id = t.id
      BY <1>4, <1>10, <2>1, <2>5
    <3>2. \A id : id = t.id /\ Good(id)' => \A n \in 0..t.chunk : Piece(w, n, ChunkSize)' \in chunks'
      BY <1>3, <2>3, <3>1
    <3>. QED  BY <1>3, <1>12, <2>2, <3>1, <3>2 DEF Stored
  <2>. QED  BY <2>4, <2>5
<1>15. ASSUME ~a.ok PROVE Progress(w)' /\ Stored(w)'
  BY <1>10, <1>12, <1>15 DEF Progress, Stored, Live
<1>16. s.pc = "freed" => ~a.ok
  BY <1>10
<1>. QED  BY <1>1, <1>6, <1>10, <1>11, <1>13, <1>14, <1>15, <1>16, ChunkStep

-----------------------------------------------------------------------------
(* The actions that insert metadata.                                       *)

LEMMA CloseMetaStep ==
    ASSUME IInv, NEW w \in Writers, CloseMeta(w)
    PROVE  IInv'
<1>. DEFINE t == stream[w]
<1>1. PICK a \in Answers(\E f \in files : f.id = t.id) :
         /\ t.pc = "meta" /\ FileInsert(w, a)
         /\ stream' = [stream EXCEPT ![w].pc = IF a.ok THEN "freed" ELSE "open"]
  BY DEF CloseMeta
<1>2. /\ t \in StreamType /\ t.length = t.chunk * ChunkSize + t.buffer /\ t.buffer > 0
      /\ Good(t.id) => AllStored(w, t.chunk, t.buffer)
  BY <1>1 DEF IInv, TypeOK, Progress, Stored
<1>3. t.chunk \in Nat /\ t.buffer \in 1..ChunkSize
  BY <1>2 DEF StreamType
<1>4. \A c \in chunks : c.by = w => c.n <= t.chunk
  BY DEF IInv, Owned
<1>5. (IF a.ok THEN "freed" ELSE "open") \in {"open", "freed"}
  OBVIOUS
<1>. QED  BY <1>1, <1>2, <1>3, <1>4, <1>5, FileStep

LEMMA UploadMetaStep ==
    ASSUME IInv, NEW w \in Writers, UploadMeta(w)
    PROVE  IInv'
<1>. DEFINE t == stream[w]
<1>1. PICK a \in Answers(\E f \in files : f.id = t.id) :
         /\ t.pc = "listing" /\ FileInsert(w, a)
         /\ stream' = [stream EXCEPT ![w].pc = "freed"]
  BY DEF UploadMeta
<1>2. PICK n \in Nat, size \in 1..ChunkSize :
         /\ t.chunk = n + 1 /\ t.length = n * ChunkSize + size
         /\ Good(t.id) => AllStored(w, n, size)
  BY <1>1 DEF IInv, Stored
<1>3. \A c \in chunks : c.by = w => c.n <= n
  BY <1>1, <1>2, ChunkTypes DEF IInv, Owned
<1>. QED  BY <1>1, <1>2, <1>3, FileStep

-----------------------------------------------------------------------------
(* The theorems.                                                           *)

LEMMA InitIInv == Init => IInv
<1>. SUFFICES ASSUME Init PROVE IInv
  OBVIOUS
<1>1. TypeOK
  BY NoStreamFacts, GridFSWriterAssumption DEF Init, TypeOK
<1>2. \A w \in Writers : Progress(w) /\ Stored(w)
  BY DEF Init, NoStream, Progress, Stored, Live, Excused
<1>. QED
  BY <1>1, <1>2 DEF Init, IInv, UniqueKeys, Owned, Prefix, Filed, ClosedIsWhole, NoStream

LEMMA StepIInv == IInv /\ [Next]_vars => IInv'
<1>. SUFFICES ASSUME IInv, [Next]_vars PROVE IInv'
  OBVIOUS
<1>1. ASSUME NEW w \in Writers, WriterStep(w)
      PROVE  IInv'
  <2>1. StreamNew(w) => IInv'
    BY StreamNewStep
  <2>2. StreamWrite(w) => IInv'
    BY StreamWriteStep
  <2>3. Fill(w) => IInv'
    BY FillStep
  <2>4. FillAndFlush(w) => IInv'
    BY FillAndFlushStep
  <2>5. CloseChunk(w) => IInv'
    BY CloseChunkStep
  <2>6. CloseEmpty(w) => IInv'
    BY CloseEmptyStep
  <2>7. CloseMeta(w) => IInv'
    BY CloseMetaStep
  <2>8. Upload(w) => IInv'
    BY UploadStep
  <2>9. UploadChunk(w) => IInv'
    BY UploadChunkStep
  <2>10. UploadMeta(w) => IInv'
    BY UploadMetaStep
  <2>. QED
    BY <1>1, <2>1, <2>2, <2>3, <2>4, <2>5, <2>6, <2>7, <2>8, <2>9, <2>10, Zenon DEF WriterStep
<1>2. CASE UNCHANGED vars
  <2>1. UNCHANGED <<safe, stream, chunks, files, given, broken, dropped, lost, faults>>
    BY <1>2 DEF vars
  <2>2. /\ \A id : Good(id)' = Good(id)
        /\ \A id, n : HasChunk(id, n)' = HasChunk(id, n)
        /\ \A w, n, size : Piece(w, n, size)' = Piece(w, n, size)
        /\ \A f : Complete(f)' = Complete(f)
    BY <2>1 DEF Good, HasChunk, Piece, Complete, ChunksOf, FileChunk, FileChunks
  <2>3. \A w, n, size : AllStored(w, n, size)' = AllStored(w, n, size)
    BY <2>1, <2>2 DEF AllStored
  <2>4. ASSUME NEW w \in Writers PROVE Progress(w)' /\ Stored(w)'
    <3>1. Progress(w) /\ Stored(w)
      BY DEF IInv
    <3>2. Progress(w)'
      BY <2>1, <3>1 DEF Progress, Excused
    <3>3. Stored(w)'
      BY <2>1, <2>2, <2>3, <3>1 DEF Stored
    <3>. QED  BY <3>2, <3>3
  <2>5. TypeOK' /\ UniqueKeys' /\ ClosedIsWhole'
    BY <2>1 DEF IInv, TypeOK, UniqueKeys, ClosedIsWhole
  <2>6. Owned' /\ Prefix' /\ Filed'
    BY <2>1, <2>2 DEF IInv, Owned, Prefix, Filed
  <2>. QED  BY <2>4, <2>5, <2>6 DEF IInv
<1>. QED  BY <1>1, <1>2 DEF Next

LEMMA Inductive == Spec => []IInv
BY InitIInv, StepIInv, PTL DEF Spec

\* Every stream, chunk and file has its type (sync-gridfs-stream.c:103-161).
THEOREM TypeCorrect == Spec => []TypeOK
<1>1. IInv => TypeOK
  BY DEF IInv
<1>. QED  BY <1>1, Inductive, PTL

\* Metadata that is found describes chunks that are all there, no other, and the
\* bytes in their order, whoever else writes under the same id and whichever
\* inserts fail (sync-gridfs-stream.c:279-360 and 432-507,
\* sync-gridfs-chunk.c:209-327).
THEOREM ListedFilesAreComplete == Spec => []ListedIsComplete
<1>1. IInv => ListedIsComplete
  BY DEF IInv, Filed, Complete, Good, ListedIsComplete
<1>. QED  BY <1>1, Inductive, PTL

\* What a writer handed over without being refused is listed in its full length,
\* but for the two streams that close loses while it answers TRUE: one whose last
\* chunk could not be inserted, and one of whole chunks (sync-gridfs-stream.c:454-468).
THEOREM ClosedFilesAreWhole == Spec => []ClosedIsWhole
<1>1. IInv => ClosedIsWhole
  BY DEF IInv
<1>. QED  BY <1>1, Inductive, PTL

\* No insert gives a listed file a chunk more: its next number is taken, or its
\* writer is done (sync-gridfs-stream.c:279-360).
THEOREM ListedFilesAreFrozen == Spec => ListedIsFrozen
<1>. DEFINE A == \A f \in files : safe \/ f.id \notin lost' =>
                    f \in files' /\ ChunksOf(f.id)' = ChunksOf(f.id)
<1>1. IInv /\ [Next]_vars => [A]_vars
  <2>. SUFFICES ASSUME IInv, Next, NEW f \in files, safe \/ f.id \notin lost'
                PROVE  f \in files' /\ ChunksOf(f.id)' = ChunksOf(f.id)
    BY DEF vars
  <2>1. PICK w \in Writers : WriterStep(w)
    BY DEF Next
  <2>2. CASE chunks' = chunks /\ files \subseteq files'
    BY <2>2 DEF ChunksOf
  <2>3. ASSUME NEW from, NEW size, NEW a, ChunkWrite(w, from, size, a),
               stream[w].pc \in {"open", "write", "upload"}
        PROVE  f \in files' /\ ChunksOf(f.id)' = ChunksOf(f.id)
    <3>. DEFINE c == Chunk(w, stream[w].chunk, from, size)
    <3>1. /\ a \in Answers(HasChunk(stream[w].id, stream[w].chunk)) /\ Record(w, a)
          /\ chunks' = IF a.kept THEN chunks \cup {c} ELSE chunks
          /\ files' = files
      BY <2>3 DEF ChunkWrite
    <3>2. c.id = stream[w].id
      BY DEF Chunk
    <3>3. Good(f.id)
      BY <3>1 DEF Good, Record
    <3>. HIDE DEF c
    <3>. QED  BY <2>3, <3>1, <3>2, <3>3, ListedKeepsChunks
  <2>4. CASE StreamNew(w) \/ StreamWrite(w) \/ Fill(w) \/ CloseEmpty(w) \/ Upload(w)
    BY <2>2, <2>4 DEF StreamNew, StreamWrite, Fill, CloseEmpty, Upload
  <2>5. CASE CloseMeta(w) \/ UploadMeta(w)
    BY <2>2, <2>5 DEF CloseMeta, UploadMeta, FileInsert
  <2>6. CASE FillAndFlush(w)
    BY <2>3, <2>6 DEF FillAndFlush
  <2>7. CASE CloseChunk(w)
    BY <2>3, <2>7 DEF CloseChunk
  <2>8. CASE UploadChunk(w)
    BY <2>3, <2>8 DEF UploadChunk
  <2>. QED  BY <2>1, <2>4, <2>5, <2>6, <2>7, <2>8 DEF WriterStep
<1>. QED  BY <1>1, Inductive, PTL DEF ListedIsFrozen, Spec
-----------------------------------------------------------------------------
(* The object ids a writer gives its files, drawn by any processes on any  *)
(* connections.                                                            *)

OidTypes ==
    /\ now \in Nat /\ machine_id \in [Processes -> Int]
    /\ pidOf \in [Processes -> Nat] /\ pid \in [Processes -> Int] /\ own \in [Processes -> Int]
    /\ owner \in [Conns -> Processes]
    /\ request \in [Conns -> Int] /\ sent \in [Conns -> Int] /\ resets \in [Conns -> Nat]
    /\ drawn \subseteq [oid : [time : Int, machine : Int, pid : Int, seq : Int],
                        own : BOOLEAN, conn : Conns, sent : Int, resets : Nat]

\* A process that called oid_init itself keeps the lower half of its pid, and so
\* do the ids it drew since.
OwnPid ==
    /\ \A p \in Processes : own[p] # -1 => pidOf[p] # 0 /\ pid[p] = pidOf[p] % Half
    /\ \A d \in drawn : d.own =>
         own[owner[d.conn]] # -1 /\ d.oid.pid = pidOf[owner[d.conn]] % Half

\* While a connection has one socket, its request ids keep their distance from
\* the number of requests sent.
SeqCounts ==
    /\ \A d \in drawn : d.resets <= resets[d.conn]
    /\ \A c \in Conns, r \in Nat : \E off \in Int :
         /\ r = resets[c] => request[c] = sent[c] + off
         /\ \A d \in drawn : d.conn = c /\ d.resets = r => d.oid.seq = (d.sent + off) % SeqMod

OidInv == OidTypes /\ OwnPid /\ SeqCounts

\* Numbers that agree in the lower bits are equal, or far apart.
LEMMA SameRemainder ==
    ASSUME NEW S \in Nat \ {0}, NEW a \in Int, NEW b \in Int, a % S = b % S, a - b < S, b - a < S
    PROVE  a = b
<1>. DEFINE q == a \div S
            p == b \div S
            r == a % S
<1>1. q \in Int /\ p \in Int /\ r \in Int
  OBVIOUS
<1>2. a = S * q + r /\ b = S * p + r
  OBVIOUS
<1>. HIDE DEF q, p, r
<1>3. a - b = S * (q - p)
  BY <1>1, <1>2
<1>4. q - p >= 1 => S * (q - p) >= S
  BY <1>1
<1>5. q - p <= -1 => S * (q - p) <= -S
  BY <1>1
<1>6. q - p = 0
  BY <1>1, <1>3, <1>4, <1>5
<1>. QED  BY <1>1, <1>2, <1>6

LEMMA OidStep ==
    ASSUME OidInv, ObjectIdNext PROVE OidInv'
<1>1. OidTypes /\ OwnPid /\ SeqCounts
  BY DEF OidInv
<1>2. \A d \in drawn : d.conn \in Conns /\ owner[d.conn] \in Processes
  BY <1>1 DEF OidTypes
<1>3. Half \in Nat \ {0} /\ SeqMod \in Nat \ {0} /\ MachineLow \in Nat \ {0} /\ Machines \in Nat \ {0}
  BY ObjectIdAssumption
\* Time passes, and processes begin.
<1>4. ASSUME OidTypes', own' = own, UNCHANGED <<owner, request, sent, resets, drawn>>,
             \A p \in Processes : pidOf[p] # 0 => pidOf'[p] = pidOf[p] /\ pid'[p] = pid[p]
      PROVE  OidInv'
  <2>1. OwnPid'
    BY <1>1, <1>2, <1>4 DEF OwnPid
  <2>2. SeqCounts'
    BY <1>1, <1>4 DEF SeqCounts
  <2>. QED  BY <1>4, <2>1, <2>2 DEF OidInv
<1>5. ASSUME Tick PROVE OidInv'
  BY <1>1, <1>4, <1>5 DEF Tick, statics, connections, OidTypes
<1>6. ASSUME NEW p \in Processes, NEW n \in Pids, Start(p, n) PROVE OidInv'
  <2>1. n \in Nat
    BY DEF Pids
  <2>2. pidOf[p] = 0 /\ pidOf' = [pidOf EXCEPT ![p] = n]
        /\ UNCHANGED <<now, machine_id, pid, own, owner, request, sent, resets, drawn>>
    BY <1>6 DEF Start, Running, statics, connections
  <2>. QED  BY <1>1, <1>4, <2>1, <2>2 DEF OidTypes
<1>7. ASSUME NEW parent \in Processes, NEW p \in Processes, NEW n \in Pids,
             Fork(parent, p, n)
      PROVE  OidInv'
  <2>1. n \in Nat
    BY DEF Pids
  <2>2. /\ pidOf[p] = 0 /\ pidOf' = [pidOf EXCEPT ![p] = n]
        /\ machine_id' = [machine_id EXCEPT ![p] = machine_id[parent]]
        /\ pid' = [pid EXCEPT ![p] = pid[parent]]
        /\ UNCHANGED <<now, own, owner, request, sent, resets, drawn>>
    BY <1>7 DEF Fork, Running, connections
  <2>3. OidTypes'
    BY <1>1, <2>1, <2>2 DEF OidTypes
  <2>. QED  BY <1>1, <1>4, <2>2, <2>3 DEF OidTypes
<1>8. ASSUME NEW p \in Processes, NEW mid \in 0..(Machines - 1), OidInit(p, mid) PROVE OidInv'
  <2>1. /\ pidOf[p] # 0 /\ mid \in Int /\ mid # -1
        /\ machine_id' = [machine_id EXCEPT ![p] = Modulated(mid, pid[p])]
        /\ pid' = [pid EXCEPT ![p] = pidOf[p] % Half] /\ own' = [own EXCEPT ![p] = mid]
        /\ UNCHANGED <<now, pidOf, owner, request, sent, resets, drawn>>
    BY <1>3, <1>8 DEF OidInit, Running, LowHalf, os, connections
  <2>2. Modulated(mid, pid[p]) \in Int
    BY <1>3, <2>1 DEF Modulated
  <2>3. pidOf[p] % Half \in Int
    BY <1>1, <1>3 DEF OidTypes
  <2>4. OidTypes'
    BY <1>1, <2>1, <2>2, <2>3 DEF OidTypes
  <2>5. OwnPid'
    BY <1>1, <1>2, <2>1 DEF OwnPid, OidTypes
  <2>6. SeqCounts'
    BY <1>1, <2>1 DEF SeqCounts
  <2>. QED  BY <2>4, <2>5, <2>6 DEF OidInv
\* An id is drawn.
<1>9. ASSUME NEW c \in Conns, OidNew(c) PROVE OidInv'
  <2>. DEFINE p == owner[c]
              d == [oid |-> Oid(c), own |-> own[p] # -1, conn |-> c,
                    sent |-> sent[c], resets |-> resets[c]]
  <2>1. drawn' = drawn \cup {d}
        /\ UNCHANGED <<now, pidOf, machine_id, pid, own, owner, request, sent, resets>>
    BY <1>9 DEF OidNew, os, statics, connections
  <2>2. Oid(c) = [time |-> now, machine |-> machine_id[p] % MachineLow, pid |-> pid[p],
                       seq |-> request[c] % SeqMod]
    BY DEF Oid, Seq24
  <2>3. p \in Processes /\ machine_id[p] % MachineLow \in Int /\ request[c] % SeqMod \in Int
    BY <1>1, <1>3 DEF OidTypes
  <2>4. /\ d \in [oid : [time : Int, machine : Int, pid : Int, seq : Int],
                  own : BOOLEAN, conn : Conns, sent : Int, resets : Nat]
        /\ d.conn = c /\ d.sent = sent[c] /\ d.resets = resets[c] /\ d.own = (own[p] # -1)
        /\ d.oid.pid = pid[p] /\ d.oid.seq = request[c] % SeqMod
    BY <1>1, <2>2, <2>3 DEF OidTypes
  <2>. HIDE DEF d
  <2>5. OidTypes'
    BY <1>1, <2>1, <2>4 DEF OidTypes
  <2>6. OwnPid'
    BY <1>1, <2>1, <2>3, <2>4 DEF OwnPid
  <2>7. SeqCounts'
    <3>1. \A e \in drawn' : e.resets <= resets'[e.conn]
      BY <1>1, <2>1, <2>4 DEF SeqCounts, OidTypes
    <3>2. ASSUME NEW b \in Conns, NEW r \in Nat
          PROVE  \E off \in Int :
                   /\ r = resets'[b] => request'[b] = sent'[b] + off
                   /\ \A e \in drawn' : e.conn = b /\ e.resets = r => e.oid.seq = (e.sent + off) % SeqMod
      <4>1. PICK off \in Int :
                   /\ r = resets[b] => request[b] = sent[b] + off
                   /\ \A e \in drawn : e.conn = b /\ e.resets = r => e.oid.seq = (e.sent + off) % SeqMod
        BY <1>1 DEF SeqCounts
      <4>2. d.conn = b /\ d.resets = r => d.oid.seq = (d.sent + off) % SeqMod
        BY <2>4, <4>1
      <4>. QED  BY <2>1, <4>1, <4>2
    <3>. QED  BY <3>1, <3>2 DEF SeqCounts
  <2>. QED  BY <2>5, <2>6, <2>7 DEF OidInv
\* A packet is sent.
<1>10. ASSUME NEW c \in Conns, Send(c) PROVE OidInv'
  <2>1. /\ request' = [request EXCEPT ![c] = @ + 1] /\ sent' = [sent EXCEPT ![c] = @ + 1]
        /\ UNCHANGED <<now, pidOf, machine_id, pid, own, owner, resets, drawn>>
    BY <1>10 DEF Send, os, statics
  <2>2. OidTypes'
    BY <1>1, <2>1 DEF OidTypes
  <2>3. OwnPid'
    BY <1>1, <2>1 DEF OwnPid
  <2>4. \A b \in Conns, off \in Int : request[b] = sent[b] + off => request'[b] = sent'[b] + off
    BY <1>1, <2>1 DEF OidTypes
  <2>5. SeqCounts'
    BY <1>1, <2>1, <2>4 DEF SeqCounts
  <2>. QED  BY <2>2, <2>3, <2>5 DEF OidInv
\* A connection is given another socket: nothing was drawn on that one yet.
<1>11. ASSUME NEW c \in Conns, ConnectReplace(c) PROVE OidInv'
  <2>1. /\ request' = [request EXCEPT ![c] = -1] /\ resets' = [resets EXCEPT ![c] = @ + 1]
        /\ UNCHANGED <<now, pidOf, machine_id, pid, own, owner, sent, drawn>>
    BY <1>11 DEF ConnectReplace, os, statics
  <2>2. OidTypes'
    BY <1>1, <2>1 DEF OidTypes
  <2>3. OwnPid'
    BY <1>1, <2>1 DEF OwnPid
  <2>4. resets'[c] = resets[c] + 1 /\ \A b \in Conns \ {c} : resets'[b] = resets[b] /\ request'[b] = request[b]
    BY <1>1, <2>1 DEF OidTypes
  <2>5. \A d \in drawn : d.resets <= resets'[d.conn]
    BY <1>1, <1>2, <2>4 DEF SeqCounts, OidTypes
  <2>6. ASSUME NEW b \in Conns, NEW r \in Nat
        PROVE  \E off \in Int :
                 /\ r = resets'[b] => request'[b] = sent'[b] + off
                 /\ \A d \in drawn' : d.conn = b /\ d.resets = r => d.oid.seq = (d.sent + off) % SeqMod
    <3>1. CASE b = c /\ r = resets'[c]
      <4>1. request'[c] = -1 /\ sent'[c] = sent[c] /\ sent[c] \in Int /\ resets[c] \in Nat
        BY <1>1, <2>1 DEF OidTypes
      <4>2. \A d \in drawn : ~(d.conn = c /\ d.resets = r)
        BY <1>1, <2>4, <3>1, <4>1 DEF SeqCounts
      <4>3. -1 - sent[c] \in Int /\ request'[c] = sent'[c] + (-1 - sent[c])
        BY <4>1
      <4>. QED  BY <2>1, <3>1, <4>2, <4>3
    <3>2. CASE b # c \/ r # resets'[c]
      <4>1. r = resets'[b] => r = resets[b] /\ request'[b] = request[b] /\ sent'[b] = sent[b]
        BY <2>1, <2>4, <3>2
      <4>. QED  BY <1>1, <2>1, <4>1 DEF SeqCounts
    <3>. QED  BY <3>1, <3>2
  <2>7. SeqCounts'
    BY <2>1, <2>5, <2>6 DEF SeqCounts
  <2>. QED  BY <2>2, <2>3, <2>7 DEF OidInv
<1>. QED  BY <1>5, <1>6, <1>7, <1>8, <1>9, <1>10, <1>11 DEF ObjectIdNext

\* Two ids drawn on one connection by its process, while it had one socket and
\* sent some requests in between, but fewer than the sequence numbers there are.
LEMMA SequenceTellsApart ==
    ASSUME OidInv, NEW d \in drawn, NEW e \in drawn, d.oid = e.oid
    PROVE  SameProcess(d, e)
<1>1. d.sent \in Int /\ e.sent \in Int /\ d.conn \in Conns /\ d.resets \in Nat
  BY DEF OidInv, OidTypes
<1>2. SUFFICES ASSUME d.conn = e.conn, d.resets = e.resets,
                      d.sent - e.sent < SeqMod, e.sent - d.sent < SeqMod
               PROVE  d.sent = e.sent
  BY <1>1, ObjectIdAssumption DEF SameProcess
<1>3. PICK off \in Int :
        \A x \in drawn : x.conn = d.conn /\ x.resets = d.resets => x.oid.seq = (x.sent + off) % SeqMod
  BY <1>1 DEF OidInv, SeqCounts
<1>4. (d.sent + off) % SeqMod = (e.sent + off) % SeqMod
  BY <1>2, <1>3
<1>5. SeqMod \in Nat \ {0}
  BY ObjectIdAssumption
<1>6. d.sent + off = e.sent + off
  <2>1. d.sent + off \in Int /\ e.sent + off \in Int
        /\ (d.sent + off) - (e.sent + off) < SeqMod /\ (e.sent + off) - (d.sent + off) < SeqMod
    BY <1>1, <1>2, <1>5
  <2>. QED  BY <1>4, <1>5, <2>1, SameRemainder
<1>. QED  BY <1>1, <1>6

\* Two draws give the same id only for the reasons named: in one process, on two
\* connections, without a request between them, over a reconnect or after the
\* sequence numbers went round; in two, for the lower halves of their pids or an
\* oid_init that was not called (mongo-utils.c:33-85).
THEOREM CollisionsAreExplained ==
    ObjectIdSpec => []CollisionsExplained
<1>1. ObjectIdInit => OidInv
  <2>. SUFFICES ASSUME ObjectIdInit PROVE OidInv
    OBVIOUS
  <2>1. OidTypes /\ OwnPid
    BY DEF ObjectIdInit, OidTypes, OwnPid
  <2>2. \A c \in Conns : request[c] = sent[c] + 0
    BY DEF ObjectIdInit
  <2>3. SeqCounts
    BY <2>2 DEF ObjectIdInit, SeqCounts
  <2>. QED  BY <2>1, <2>3 DEF OidInv
<1>2. OidInv /\ [ObjectIdNext]_objectIdVars => OidInv'
  <2>1. OidInv /\ UNCHANGED objectIdVars => OidInv'
    BY DEF objectIdVars, os, statics, connections, OidInv, OidTypes, OwnPid, SeqCounts
  <2>. QED  BY <2>1, OidStep
<1>3. OidInv => CollisionsExplained
  <2>1. ASSUME OidInv, NEW d \in drawn, NEW e \in drawn, d.oid = e.oid
        PROVE  TwoProcesses(d, e)
    BY <2>1 DEF OidInv, OwnPid, TwoProcesses
  <2>. QED  BY <2>1, SequenceTellsApart DEF CollisionsExplained
<1>. QED  BY <1>1, <1>2, <1>3, PTL DEF ObjectIdSpec
=============================================================================
