------------------------- MODULE GridFSRemoveProofs -------------------------
(***************************************************************************)
(* Proofs about GridFSRemove, for any files, removers and readers, any     *)
(* number of chunks and any number of faults.                              *)
(***************************************************************************)
EXTENDS GridFSRemove, TLAPS, FiniteSetTheorems

\* What a remover knows: of the file whose chunks it is about to delete, that
\* the metadata is gone or its delete was lost; and that whatever it has
\* matched and is still listed is before it, unless that delete was lost.
Ahead(t) == t.batch \cup t.rest \cup (IF t.pc = "meta" THEN {t.id} ELSE {})

TaskInv ==
    \A c \in Removers :
        LET t == task[c] IN
        /\ t.pc \in {"meta", "chunks"} => t.id \in Ids
        /\ t.pc = "chunks" => t.id \notin listed \/ t.id \in lostMeta
        /\ t.pc # "idle" => t.answer = "none" /\ t.wanted \cap listed \subseteq lostMeta \cup Ahead(t)

IInv ==
    TypeOK /\ TaskInv /\ ListedHasChunks /\ OrphansAccounted /\ RemovedIsGone
    /\ ShortWalkMeansRemoval

-----------------------------------------------------------------------------
\* Nothing is listed or stored anew, and a lost delete stays lost.
Shrinks == listed' \subseteq listed /\ stored' \subseteq stored /\ lostMeta \subseteq lostMeta'

LEMMA NoTaskType == NoTask \in Tasks /\ NoReader \in Walks
BY GridFSRemoveAssumption DEF NoTask, NoReader, Tasks, Walks

LEMMA FaultType == TypeOK /\ (Fault \/ UNCHANGED faults) => faults' \in 0..MaxFaults
BY GridFSRemoveAssumption DEF TypeOK, Fault

\* A step that touches only the entry of one remover keeps what the others know.
LEMMA OtherTasks ==
    ASSUME IInv, Shrinks, NEW c \in Removers, NEW t \in Tasks,
           task' = [task EXCEPT ![c] = t],
           t.pc \in {"meta", "chunks"} => t.id \in Ids,
           t.pc = "chunks" => t.id \notin listed' \/ t.id \in lostMeta',
           t.pc # "idle" => t.answer = "none"
                            /\ t.wanted \cap listed' \subseteq lostMeta' \cup Ahead(t),
           t.answer = "TRUE" /\ ~t.cut => t.wanted \cap listed' \subseteq lostMeta'
    PROVE  TaskInv' /\ RemovedIsGone' /\ task' \in [Removers -> Tasks]
<1>1. \A d \in Removers : task'[d] = IF d = c THEN t ELSE task[d]
  BY DEF IInv, TypeOK
<1>2. TaskInv'
  <2> SUFFICES ASSUME NEW d \in Removers
               PROVE  /\ task'[d].pc \in {"meta", "chunks"} => task'[d].id \in Ids
                      /\ task'[d].pc = "chunks" => task'[d].id \notin listed' \/ task'[d].id \in lostMeta'
                      /\ task'[d].pc # "idle" =>
                           /\ task'[d].answer = "none"
                           /\ task'[d].wanted \cap listed' \subseteq lostMeta' \cup Ahead(task'[d])
    BY DEF TaskInv
  <2>. QED  BY <1>1 DEF IInv, TaskInv, Shrinks
<1>3. RemovedIsGone'
  BY <1>1 DEF IInv, RemovedIsGone, Shrinks
<1>. QED  BY <1>2, <1>3 DEF IInv, TypeOK

-----------------------------------------------------------------------------
\* The calls of remove, action by action: each keeps what the removers know.
Kept == TaskInv' /\ RemovedIsGone' /\ task' \in [Removers -> Tasks]

LEMMA KeptByOthers ==
    ASSUME IInv, Shrinks, task' = task PROVE Kept
BY DEF IInv, TypeOK, TaskInv, RemovedIsGone, Shrinks, Kept, Ahead

LEMMA KeptByListing ==
    ASSUME IInv, NEW c \in Removers,
           (\E query \in SUBSET Ids : List(c, query)) \/ ListFails(c)
    PROVE  Kept
<1>1. Shrinks
  BY DEF List, ListFails, Shrinks
<1>2. CASE ListFails(c)
  <2>. DEFINE t == [NoTask EXCEPT !.answer = "FALSE"]
  <2>1. t \in Tasks /\ t.pc = "idle" /\ t.answer = "FALSE"
    BY DEF NoTask, Tasks
  <2>2. task' = [task EXCEPT ![c] = t]
    BY <1>2 DEF ListFails
  <2>. QED  BY <1>1, <2>1, <2>2, OtherTasks DEF Kept
<1>3. ASSUME NEW query \in SUBSET Ids, List(c, query) PROVE Kept
  <2>. DEFINE wanted == query \cap listed
  <2>1. CASE task' = [task EXCEPT ![c] = [NoTask EXCEPT !.answer = "FALSE"]]
    <3>. DEFINE t == [NoTask EXCEPT !.answer = "FALSE"]
    <3>1. t \in Tasks /\ t.pc = "idle" /\ t.answer = "FALSE"
      BY DEF NoTask, Tasks
    <3>. QED  BY <1>1, <2>1, <3>1, OtherTasks DEF Kept
  <2>2. ASSUME NEW batch \in SUBSET wanted,
               task' = [task EXCEPT ![c] = [NoTask EXCEPT !.pc = "next",
                         !.batch = batch, !.rest = wanted \ batch, !.wanted = wanted]]
        PROVE  Kept
    <3>. DEFINE t == [NoTask EXCEPT !.pc = "next", !.batch = batch,
                                    !.rest = wanted \ batch, !.wanted = wanted]
    <3>1. /\ t \in Tasks /\ t.pc = "next" /\ t.answer = "none" /\ t.wanted = wanted
          /\ t.batch = batch /\ t.rest = wanted \ batch
      BY DEF NoTask, Tasks
    <3>2. t.wanted \cap listed' \subseteq lostMeta' \cup Ahead(t)
      BY <3>1 DEF Ahead
    <3>. HIDE DEF t
    <3>3. task' = [task EXCEPT ![c] = t]
      BY <2>2 DEF t
    <3>. QED  BY <1>1, <3>1, <3>2, <3>3, OtherTasks DEF Kept
  <2>. QED  BY <1>3, <2>1, <2>2 DEF List
<1>. QED  BY <1>2, <1>3

\* The head of the loop: a file, the next batch, or the end.
LEMMA KeptByNextFile ==
    ASSUME IInv, NEW c \in Removers, NextFile(c) PROVE Kept
<1>1. Shrinks
  BY DEF NextFile, Shrinks
<1>2. PICK id \in task[c].batch :
        task' = [task EXCEPT ![c].pc = "meta", ![c].id = id, ![c].batch = Advanced(@, id)]
  BY DEF NextFile
<1>. DEFINE t == [task[c] EXCEPT !.pc = "meta", !.id = id, !.batch = @ \ {id}]
<1>3. task[c] \in Tasks /\ task[c].pc = "next"
  BY DEF IInv, TypeOK, NextFile
<1>4. id \in Ids
  BY <1>2, <1>3 DEF Tasks
<1>5. /\ t \in Tasks /\ t.pc = "meta" /\ t.id = id /\ t.batch = task[c].batch \ {id}
      /\ t.rest = task[c].rest /\ t.wanted = task[c].wanted /\ t.answer = task[c].answer
  BY <1>3, <1>4 DEF Tasks
<1>6. task' = [task EXCEPT ![c] = t]
  BY <1>2 DEF Advanced, IInv, TypeOK
<1>7. task[c].answer = "none" /\ task[c].wanted \cap listed \subseteq lostMeta \cup Ahead(task[c])
  BY <1>3 DEF IInv, TaskInv
<1>. HIDE DEF t
<1>8. t.wanted \cap listed' \subseteq lostMeta' \cup Ahead(t)
  BY <1>1, <1>3, <1>5, <1>7 DEF Ahead, Shrinks
<1>. QED  BY <1>1, <1>4, <1>5, <1>6, <1>7, <1>8, OtherTasks DEF Kept

LEMMA KeptByNextBatch ==
    ASSUME IInv, NEW c \in Removers, NextBatch(c) PROVE Kept
<1>. DEFINE left == task[c].rest \cap listed
<1>1. Shrinks
  BY DEF NextBatch, Shrinks
<1>2. PICK batch \in SUBSET left :
        task' = [task EXCEPT ![c].batch = batch, ![c].rest = left \ batch]
  BY DEF NextBatch
<1>. DEFINE t == [task[c] EXCEPT !.batch = batch, !.rest = left \ batch]
<1>3. task[c] \in Tasks /\ task[c].pc = "next" /\ task[c].batch = {}
  BY DEF IInv, TypeOK, NextBatch
<1>4. /\ t \in Tasks /\ t.pc = "next" /\ t.batch = batch /\ t.rest = left \ batch
      /\ t.wanted = task[c].wanted /\ t.answer = task[c].answer
  BY <1>2, <1>3 DEF Tasks
<1>5. task' = [task EXCEPT ![c] = t]
  BY <1>2 DEF IInv, TypeOK
<1>6. task[c].answer = "none" /\ task[c].wanted \cap listed \subseteq lostMeta \cup Ahead(task[c])
  BY <1>3 DEF IInv, TaskInv
<1>. HIDE DEF t
<1>7. t.wanted \cap listed' \subseteq lostMeta' \cup Ahead(t)
  BY <1>1, <1>2, <1>3, <1>4, <1>6 DEF Ahead, Shrinks
<1>. QED  BY <1>1, <1>4, <1>5, <1>6, <1>7, OtherTasks DEF Kept

\* A call that ends has nothing left to know, unless it says all went well.
LEMMA KeptByEnding ==
    ASSUME IInv, Shrinks, NEW c \in Removers, NEW answer \in {"TRUE", "FALSE"},
           NEW cut \in BOOLEAN, Ends(c, answer, cut),
           answer = "TRUE" /\ ~cut => task[c].wanted \cap listed' \subseteq lostMeta'
    PROVE  Kept
<1>. DEFINE t == [task[c] EXCEPT !.pc = "idle", !.batch = {}, !.rest = {},
                                 !.id = None, !.answer = answer, !.cut = cut]
<1>1. task[c] \in Tasks
  BY DEF IInv, TypeOK
<1>2. t \in Tasks /\ t.pc = "idle" /\ t.answer = answer /\ t.cut = cut /\ t.wanted = task[c].wanted
  BY <1>1 DEF Tasks
<1>3. task' = [task EXCEPT ![c] = t]
  BY DEF Ends, IInv, TypeOK
<1>. HIDE DEF t
<1>. QED  BY <1>2, <1>3, OtherTasks DEF Kept

LEMMA KeptByNoMore ==
    ASSUME IInv, NEW c \in Removers, NoMore(c) PROVE Kept
<1>1. Shrinks
  BY DEF NoMore, Shrinks
<1>2. task[c].pc = "next" /\ task[c].batch = {}
  BY DEF NoMore
<1>3. task[c].wanted \cap listed \subseteq lostMeta \cup task[c].rest
  BY <1>2 DEF IInv, TaskInv, Ahead
<1>4. CASE task[c].rest \cap listed = {} /\ Ends(c, "TRUE", FALSE)
  BY <1>1, <1>3, <1>4, KeptByEnding DEF NoMore, Shrinks
<1>5. CASE Ends(c, "TRUE", TRUE)
  BY <1>1, <1>5, KeptByEnding
<1>. QED  BY <1>4, <1>5 DEF NoMore

\* The delete in the files collection: done, lost, or not sent.
LEMMA KeptByDeleteMeta ==
    ASSUME IInv, NEW c \in Removers, DeleteMeta(c) PROVE Kept
<1>. DEFINE t == [task[c] EXCEPT !.pc = "chunks"]
<1>1. task[c] \in Tasks /\ task[c].pc = "meta" /\ task[c].id \in Ids
  BY DEF IInv, TypeOK, TaskInv, DeleteMeta
<1>2. Shrinks
  BY DEF DeleteMeta, Shrinks
<1>3. /\ t \in Tasks /\ t.pc = "chunks" /\ t.id = task[c].id /\ t.batch = task[c].batch
      /\ t.rest = task[c].rest /\ t.wanted = task[c].wanted /\ t.answer = task[c].answer
  BY <1>1 DEF Tasks
<1>4. task' = [task EXCEPT ![c] = t]
  BY DEF DeleteMeta, IInv, TypeOK
<1>5. task[c].id \notin listed' \/ task[c].id \in lostMeta'
  BY DEF DeleteMeta
<1>6. task[c].answer = "none" /\ task[c].wanted \cap listed \subseteq lostMeta \cup Ahead(task[c])
  BY <1>1 DEF IInv, TaskInv
<1>. HIDE DEF t
<1>7. t.wanted \cap listed' \subseteq lostMeta' \cup Ahead(t)
  BY <1>1, <1>2, <1>3, <1>5, <1>6 DEF Ahead, Shrinks
<1>. QED  BY <1>1, <1>2, <1>3, <1>4, <1>5, <1>6, <1>7, OtherTasks DEF Kept

LEMMA KeptByDeleteMetaFails ==
    ASSUME IInv, NEW c \in Removers, DeleteMetaFails(c) PROVE Kept
<1>1. Shrinks
  BY DEF DeleteMetaFails, Shrinks
<1>. QED  BY <1>1, KeptByEnding DEF DeleteMetaFails, AfterMetaFailure

LEMMA KeptByDeleteChunks ==
    ASSUME IInv, NEW c \in Removers, DeleteChunks(c) PROVE Kept
<1>. DEFINE t == [task[c] EXCEPT !.pc = "next", !.id = None]
<1>1. task[c] \in Tasks /\ task[c].pc = "chunks"
  BY DEF IInv, TypeOK, DeleteChunks
<1>2. Shrinks
  BY DEF DeleteChunks, Shrinks
<1>3. /\ t \in Tasks /\ t.pc = "next" /\ t.batch = task[c].batch
      /\ t.rest = task[c].rest /\ t.wanted = task[c].wanted /\ t.answer = task[c].answer
  BY <1>1 DEF Tasks
<1>4. task' = [task EXCEPT ![c] = t]
  BY DEF DeleteChunks, AfterFile, IInv, TypeOK
<1>5. task[c].answer = "none" /\ task[c].wanted \cap listed \subseteq lostMeta \cup Ahead(task[c])
  BY <1>1 DEF IInv, TaskInv
<1>. HIDE DEF t
<1>6. t.wanted \cap listed' \subseteq lostMeta' \cup Ahead(t)
  BY <1>1, <1>2, <1>3, <1>5 DEF Ahead, Shrinks
<1>. QED  BY <1>2, <1>3, <1>4, <1>5, <1>6, OtherTasks DEF Kept

-----------------------------------------------------------------------------
\* The two collections, and what a remover owes them.
LEMMA ChunksKeptByRemoval ==
    ASSUME IInv, NEW c \in Removers, Loop(c) PROVE ListedHasChunks' /\ OrphansAccounted'
<1>. USE DEF IInv, TypeOK, ListedHasChunks, OrphansAccounted
<1>1. CASE NextFile(c)
  <2>1. \A d \in Removers : task[d].pc = "chunks" => task'[d] = task[d]
    BY <1>1 DEF NextFile
  <2>. QED  BY <1>1, <2>1 DEF NextFile
<1>2. CASE NextBatch(c)
  <2>1. \A d \in Removers : task[d].pc = "chunks" => task'[d] = task[d]
    BY <1>2 DEF NextBatch
  <2>. QED  BY <1>2, <2>1 DEF NextBatch
<1>3. CASE NoMore(c)
  <2>1. \A d \in Removers : task[d].pc = "chunks" => task'[d] = task[d]
    BY <1>3 DEF NoMore, Ends
  <2>. QED  BY <1>3, <2>1 DEF NoMore
<1>4. CASE DeleteMeta(c)
  <2>1. /\ \A d \in Removers : task[d].pc = "chunks" => task'[d] = task[d]
        /\ task'[c].pc = "chunks" /\ task'[c].id = task[c].id
    BY <1>4 DEF DeleteMeta, Tasks
  <2>. QED  BY <1>4, <2>1 DEF DeleteMeta
<1>5. CASE DeleteMetaFails(c)
  <2>1. \A d \in Removers : task[d].pc = "chunks" => task'[d] = task[d]
    BY <1>5 DEF DeleteMetaFails, AfterMetaFailure, Ends
  <2>. QED  BY <1>5, <2>1 DEF DeleteMetaFails
<1>6. CASE DeleteChunks(c)
  <2>1. \A d \in Removers \ {c} : task'[d] = task[d]
    BY <1>6 DEF DeleteChunks, AfterFile
  <2>2. ListedHasChunks'
    BY <1>6 DEF DeleteChunks, ChunksOfFile, TaskInv
  <2>3. OrphansAccounted'
    BY <1>6, <2>1 DEF DeleteChunks, ChunksOfFile
  <2>. QED  BY <2>2, <2>3
<1>. QED  BY <1>1, <1>2, <1>3, <1>4, <1>5, <1>6 DEF Loop

LEMMA ChunksKeptByListing ==
    ASSUME IInv, NEW c \in Removers,
           (\E query \in SUBSET Ids : List(c, query)) \/ ListFails(c)
    PROVE  ListedHasChunks' /\ OrphansAccounted'
<1>1. /\ task[c].pc = "idle" /\ UNCHANGED <<listed, stored, lostMeta, lostChunks>>
      /\ \A d \in Removers : task[d].pc = "chunks" => task'[d] = task[d]
  BY DEF List, ListFails, IInv, TypeOK
<1>. QED  BY <1>1 DEF IInv, ListedHasChunks, OrphansAccounted

LEMMA ChunksKeptByReading ==
    ASSUME IInv, UNCHANGED <<listed, stored, task, lostMeta, lostChunks>>
    PROVE  ListedHasChunks' /\ OrphansAccounted'
BY DEF IInv, ListedHasChunks, OrphansAccounted

-----------------------------------------------------------------------------
\* The readers.
WalkOK == reader \in [Readers -> Walks] /\ \A r \in Readers : reader[r].seen <= reader[r].held

LEMMA WalkKept ==
    ASSUME IInv, Shrinks, reader' = reader PROVE WalkOK' /\ ShortWalkMeansRemoval'
BY DEF IInv, TypeOK, WalkOK, Shrinks, ShortWalkMeansRemoval

LEMMA WalkStep ==
    ASSUME IInv, NEW r \in Readers,
           (\E id \in Ids : FindFile(r, id)) \/ FetchChunks(r) \/ GetChunk(r) \/ WalkEnds(r) \/ FreeFile(r)
    PROVE  WalkOK' /\ ShortWalkMeansRemoval'
<1>. DEFINE f == reader[r]
            Fine(g) == /\ g \in Walks /\ g.seen <= g.held
                       /\ g.ended = "empty" /\ g.seen < Count =>
                            g.id \notin stored /\ (g.id \in listed => g.id \in lostMeta)
<1>0. f \in Walks /\ f.seen <= f.held /\ Fine(f)
  BY DEF IInv, TypeOK, ShortWalkMeansRemoval
<1>1. ASSUME NEW g \in Walks, Fine(g), reader' = [reader EXCEPT ![r] = g], ReaderUnchanged
      PROVE  WalkOK' /\ ShortWalkMeansRemoval'
  BY <1>1 DEF IInv, TypeOK, WalkOK, ShortWalkMeansRemoval, ReaderUnchanged
<1>2. ASSUME NEW id \in Ids, FindFile(r, id) PROVE WalkOK' /\ ShortWalkMeansRemoval'
  <2>. DEFINE g == [NoReader EXCEPT !.id = id]
  <2>1. g \in Walks /\ g.seen = 0 /\ g.held = 0 /\ g.ended = "no"
    BY GridFSRemoveAssumption DEF NoReader, Walks
  <2>. HIDE DEF g
  <2>2. Fine(g)
    BY <2>1
  <2>3. reader' = [reader EXCEPT ![r] = g] /\ ReaderUnchanged
    BY <1>2 DEF FindFile, g
  <2>. HIDE DEF Fine
  <2>. QED  BY <1>1, <2>1, <2>2, <2>3
<1>3. CASE FetchChunks(r)
  <2>1. PICK upto \in (f.held + 1)..Count : reader' = [reader EXCEPT ![r].held = upto]
    BY <1>3 DEF FetchChunks
  <2>. DEFINE g == [f EXCEPT !.held = upto]
  <2>2. g \in Walks /\ g.seen = f.seen /\ g.held = upto /\ g.ended = "no" /\ f.seen <= upto
    BY <1>0, <1>3, <2>1, GridFSRemoveAssumption DEF FetchChunks, Walks
  <2>. HIDE DEF g
  <2>3. Fine(g)
    BY <2>2
  <2>4. reader' = [reader EXCEPT ![r] = g] /\ ReaderUnchanged
    BY <1>3, <2>1 DEF FetchChunks, g, IInv, TypeOK
  <2>. HIDE DEF Fine
  <2>. QED  BY <1>1, <2>2, <2>3, <2>4
<1>4. CASE GetChunk(r)
  <2>. DEFINE g == [f EXCEPT !.seen = @ + 1]
  <2>1. /\ g \in Walks /\ g.seen = f.seen + 1 /\ g.held = f.held /\ g.ended = f.ended
        /\ g.id = f.id /\ f.seen + 1 <= f.held
    BY <1>0, <1>4, GridFSRemoveAssumption DEF GetChunk, Exhausted, Walks
  <2>. HIDE DEF g
  <2>2. Fine(g)
    BY <1>0, <2>1, GridFSRemoveAssumption DEF Walks
  <2>3. reader' = [reader EXCEPT ![r] = g] /\ ReaderUnchanged
    BY <1>4 DEF GetChunk, g, IInv, TypeOK
  <2>. HIDE DEF Fine
  <2>. QED  BY <1>1, <2>1, <2>2, <2>3
<1>5. CASE WalkEnds(r)
  <2>1. PICK why \in {"empty", "error"} :
          /\ reader' = [reader EXCEPT ![r].ended = why]
          /\ why = "empty" => f.id \notin stored \/ f.held = Count
    BY <1>5 DEF WalkEnds
  <2>. DEFINE g == [f EXCEPT !.ended = why]
  <2>2. g \in Walks /\ g.seen = f.seen /\ g.held = f.held /\ g.ended = why /\ g.id = f.id
    BY <1>0 DEF Walks
  <2>. HIDE DEF g
  <2>3. f.seen = f.held
    BY <1>5 DEF WalkEnds, Exhausted
  <2>4. f.id \notin stored => (f.id \in listed => f.id \in lostMeta)
    BY DEF IInv, ListedHasChunks
  <2>5. Fine(g)
    BY <1>0, <2>1, <2>2, <2>3, <2>4, GridFSRemoveAssumption DEF Walks
  <2>6. reader' = [reader EXCEPT ![r] = g] /\ ReaderUnchanged
    BY <1>5, <2>1 DEF WalkEnds, g, IInv, TypeOK
  <2>. HIDE DEF Fine
  <2>. QED  BY <1>1, <2>2, <2>5, <2>6
<1>6. CASE FreeFile(r)
  <2>1. NoReader \in Walks /\ NoReader.seen = 0 /\ NoReader.held = 0 /\ NoReader.ended = "no"
    BY GridFSRemoveAssumption DEF NoReader, Walks
  <2>2. Fine(NoReader)
    BY <2>1
  <2>3. reader' = [reader EXCEPT ![r] = NoReader] /\ ReaderUnchanged
    BY <1>6 DEF FreeFile
  <2>. HIDE DEF Fine
  <2>. QED  BY <1>1, <2>1, <2>2, <2>3
<1>. QED  BY <1>2, <1>3, <1>4, <1>5, <1>6

-----------------------------------------------------------------------------
\* The invariant is inductive.
LEMMA InitIInv == Init => IInv
<1>. SUFFICES ASSUME Init PROVE IInv
  OBVIOUS
<1>1. TypeOK
  BY NoTaskType, GridFSRemoveAssumption DEF Init, TypeOK, NoReader
<1>2. \A c \in Removers : task[c].pc = "idle" /\ task[c].answer = "none"
  BY DEF Init, NoTask
<1>3. \A r \in Readers : reader[r].ended = "no"
  BY DEF Init, NoReader
<1>4. TaskInv /\ RemovedIsGone
  BY <1>2 DEF TaskInv, RemovedIsGone
<1>5. ListedHasChunks /\ OrphansAccounted
  BY DEF Init, ListedHasChunks, OrphansAccounted
<1>6. ShortWalkMeansRemoval
  BY <1>3 DEF ShortWalkMeansRemoval
<1>. QED  BY <1>1, <1>4, <1>5, <1>6 DEF IInv

\* The sets stay within the files, and faults within its bound.
SetsOK ==
    /\ listed \subseteq Ids /\ stored \subseteq Ids /\ lostMeta \subseteq Ids
    /\ lostChunks \subseteq Ids /\ faults \in 0..MaxFaults

LEMMA StepIInv == IInv /\ [Next]_vars => IInv'
<1>. SUFFICES ASSUME IInv, [Next]_vars PROVE IInv'
  OBVIOUS
<1>0. ASSUME Kept, SetsOK', WalkOK', ListedHasChunks', OrphansAccounted', ShortWalkMeansRemoval'
      PROVE  IInv'
  BY <1>0 DEF Kept, SetsOK, WalkOK, IInv, TypeOK
<1>1. ASSUME NEW c \in Removers, Loop(c) PROVE IInv'
  <2>1. Kept
    BY <1>1, KeptByNextFile, KeptByNextBatch, KeptByNoMore, KeptByDeleteMeta,
       KeptByDeleteMetaFails, KeptByDeleteChunks DEF Loop
  <2>2. Shrinks /\ reader' = reader /\ (Fault \/ UNCHANGED faults)
    BY <1>1 DEF Loop, NextFile, NextBatch, NoMore, DeleteMeta, DeleteMetaFails, DeleteChunks, Shrinks
  <2>3. lostMeta' \subseteq Ids /\ lostChunks' \subseteq Ids
    BY <1>1 DEF Loop, NextFile, NextBatch, NoMore, DeleteMeta, DeleteMetaFails, DeleteChunks,
                IInv, TypeOK, TaskInv
  <2>4. SetsOK'
    BY <2>2, <2>3, FaultType DEF SetsOK, Shrinks, IInv, TypeOK
  <2>. QED  BY <1>0, <1>1, <2>1, <2>2, <2>4, ChunksKeptByRemoval, WalkKept
<1>2. ASSUME NEW c \in Removers, (\E query \in SUBSET Ids : List(c, query)) \/ ListFails(c)
      PROVE  IInv'
  <2>1. Shrinks /\ UNCHANGED <<reader, lostMeta, lostChunks>> /\ (Fault \/ UNCHANGED faults)
    BY <1>2 DEF List, ListFails, Shrinks
  <2>2. SetsOK'
    BY <2>1, FaultType DEF SetsOK, Shrinks, IInv, TypeOK
  <2>. QED  BY <1>0, <1>2, <2>1, <2>2, KeptByListing, ChunksKeptByListing, WalkKept
<1>3. ASSUME NEW r \in Readers,
             \/ \E id \in Ids : FindFile(r, id)
             \/ FetchChunks(r) \/ GetChunk(r) \/ WalkEnds(r) \/ FreeFile(r)
      PROVE  IInv'
  <2>1. UNCHANGED <<listed, stored, task, lostMeta, lostChunks>> /\ (Fault \/ UNCHANGED faults)
    BY <1>3 DEF FindFile, FetchChunks, GetChunk, WalkEnds, FreeFile, ReaderUnchanged
  <2>2. SetsOK'
    BY <2>1, FaultType DEF SetsOK, IInv, TypeOK
  <2>3. Kept
    BY <2>1, KeptByOthers DEF Shrinks
  <2>4. WalkOK' /\ ShortWalkMeansRemoval'
    BY <1>3, WalkStep
  <2>. QED  BY <1>0, <2>1, <2>2, <2>3, <2>4, ChunksKeptByReading
<1>4. CASE UNCHANGED vars
  BY <1>4 DEF vars, IInv, TypeOK, TaskInv, Ahead, ListedHasChunks, OrphansAccounted, RemovedIsGone,
              ShortWalkMeansRemoval
<1>. QED  BY <1>1, <1>2, <1>3, <1>4 DEF Next

LEMMA Inductive == Spec => []IInv
BY InitIInv, StepIInv, PTL DEF Spec

\* Every value the calls keep is of its type (sync-gridfs.c:280-345).
THEOREM TypeCorrect == Spec => []TypeOK
<1>1. IInv => TypeOK
  BY DEF IInv
<1>. QED  BY <1>1, Inductive, PTL

\* Metadata never outlives its chunks, unless a delete was lost (sync-gridfs.c:297-340).
THEOREM ListedFilesHaveChunks == Spec => []ListedHasChunks
<1>1. IInv => ListedHasChunks
  BY DEF IInv
<1>. QED  BY <1>1, Inductive, PTL

\* Chunks without metadata are on their way out, or a delete failed (sync-gridfs.c:323-339).
THEOREM OrphansAreAccounted == Spec => []OrphansAccounted
<1>1. IInv => OrphansAccounted
  BY DEF IInv
<1>. QED  BY <1>1, Inductive, PTL

\* TRUE from a remove that saw the end of its list means the files are gone
\* (sync-gridfs.c:297-345).
THEOREM RemovedFilesAreGone == Spec => []RemovedIsGone
<1>1. IInv => RemovedIsGone
  BY DEF IInv
<1>. QED  BY <1>1, Inductive, PTL

\* A walk over chunks that is short without an error met a removal
\* (sync-gridfs-chunk.c:125-157).
THEOREM ShortWalksMeetRemovals == Spec => []ShortWalkMeansRemoval
<1>1. IInv => ShortWalkMeansRemoval
  BY DEF IInv
<1>. QED  BY <1>1, Inductive, PTL
-----------------------------------------------------------------------------
(* A remove is short: what is left of it.                                  *)

Stage(p) == IF p = "meta" THEN 3 ELSE IF p = "chunks" THEN 2 ELSE 1

\* The most steps a call can still make: three for each file of the packet, one
\* more for each file still to be fetched, and the end.
StepsLeft(t) ==
    IF t.pc = "idle" THEN 0
    ELSE 3 * Cardinality(t.batch) + 4 * Cardinality(t.rest) + Stage(t.pc)

Bounded ==
    \A c \in Removers : task[c].pc # "idle" =>
        StepsLeft(task[c]) \in 1..(4 * Cardinality(task[c].wanted))

LEMMA SizeType ==
    ASSUME IsFiniteSet(Ids), NEW S \in SUBSET Ids
    PROVE  IsFiniteSet(S) /\ Cardinality(S) \in Nat
<1>1. IsFiniteSet(S)
  BY FS_Subset
<1>. QED  BY <1>1, FS_CardinalityType

LEMMA StepsLeftType ==
    ASSUME IsFiniteSet(Ids), NEW t \in Tasks
    PROVE  StepsLeft(t) \in Nat /\ (t.pc # "idle" => StepsLeft(t) > 0)
<1>1. Cardinality(t.batch) \in Nat /\ Cardinality(t.rest) \in Nat
  BY SizeType DEF Tasks
<1>. QED  BY <1>1 DEF StepsLeft, Stage

\* A step of the loop takes one step off, and leaves what the call matched.
LEMMA LoopShortens ==
    ASSUME IsFiniteSet(Ids), TypeOK, NEW c \in Removers, Loop(c)
    PROVE  \E t \in Tasks :
             /\ task' = [task EXCEPT ![c] = t]
             /\ t.wanted = task[c].wanted
             /\ task[c].pc # "idle" /\ StepsLeft(t) < StepsLeft(task[c])
<1>. DEFINE s == task[c]
<1>1. s \in Tasks
  BY DEF TypeOK
<1>2. /\ s.batch \in SUBSET Ids /\ s.rest \in SUBSET Ids
      /\ Cardinality(s.batch) \in Nat /\ Cardinality(s.rest) \in Nat
      /\ IsFiniteSet(s.batch) /\ IsFiniteSet(s.rest)
  BY <1>1, SizeType DEF Tasks
<1>3. ASSUME NEW answer \in {"TRUE", "FALSE"}, NEW cut \in BOOLEAN, Ends(c, answer, cut),
             s.pc # "idle"
      PROVE  \E t \in Tasks :
               /\ task' = [task EXCEPT ![c] = t]
               /\ t.wanted = s.wanted
               /\ StepsLeft(t) < StepsLeft(s)
  <2>. DEFINE t == [s EXCEPT !.pc = "idle", !.batch = {}, !.rest = {},
                             !.id = None, !.answer = answer, !.cut = cut]
  <2>1. t \in Tasks /\ t.pc = "idle" /\ t.wanted = s.wanted
    BY <1>1 DEF Tasks
  <2>2. task' = [task EXCEPT ![c] = t]
    BY <1>3 DEF Ends
  <2>3. StepsLeft(t) = 0 /\ StepsLeft(s) > 0 /\ StepsLeft(s) \in Nat
    BY <1>1, <1>3, <2>1, StepsLeftType DEF StepsLeft
  <2>. HIDE DEF t
  <2>. QED  BY <2>1, <2>2, <2>3
<1>4. CASE NextFile(c)
  <2>1. PICK id \in s.batch :
          task' = [task EXCEPT ![c].pc = "meta", ![c].id = id, ![c].batch = Advanced(@, id)]
    BY <1>4 DEF NextFile
  <2>. DEFINE t == [s EXCEPT !.pc = "meta", !.id = id, !.batch = @ \ {id}]
  <2>2. t \in Tasks /\ t.pc = "meta" /\ t.batch = s.batch \ {id} /\ t.rest = s.rest
        /\ t.wanted = s.wanted
    BY <1>1, <1>2 DEF Tasks
  <2>3. task' = [task EXCEPT ![c] = t]
    BY <2>1 DEF Advanced, TypeOK
  <2>4. Cardinality(t.batch) = Cardinality(s.batch) - 1
    <3>1. Cardinality(s.batch \ {id}) = Cardinality(s.batch) - 1
      BY <1>2, <2>1, FS_RemoveElement
    <3>. QED  BY <2>2, <3>1
  <2>. HIDE DEF t
  <2>5. s.pc = "next" /\ StepsLeft(t) < StepsLeft(s)
    BY <1>2, <1>4, <2>2, <2>4 DEF NextFile, StepsLeft, Stage
  <2>. QED  BY <2>2, <2>3, <2>5
<1>5. CASE NextBatch(c)
  <2>. DEFINE left == s.rest \cap listed
  <2>1. PICK batch \in (SUBSET left) \ {{}} :
          task' = [task EXCEPT ![c].batch = batch, ![c].rest = left \ batch]
    BY <1>5 DEF NextBatch
  <2>. DEFINE t == [s EXCEPT !.batch = batch, !.rest = left \ batch]
  <2>2. t \in Tasks /\ t.pc = s.pc /\ t.batch = batch /\ t.rest = left \ batch
        /\ t.wanted = s.wanted
    BY <1>1, <1>2 DEF Tasks
  <2>3. task' = [task EXCEPT ![c] = t]
    BY <2>1 DEF TypeOK
  <2>4. /\ Cardinality(batch) \in Nat /\ Cardinality(left \ batch) \in Nat
        /\ Cardinality(batch) > 0
        /\ Cardinality(batch) + Cardinality(left \ batch) <= Cardinality(s.rest)
    <3>1. left \in SUBSET s.rest /\ batch \in SUBSET s.rest /\ batch # {}
          /\ batch \cap (left \ batch) = {} /\ batch \cup (left \ batch) = left
      OBVIOUS
    <3>2. /\ IsFiniteSet(left) /\ IsFiniteSet(batch) /\ IsFiniteSet(left \ batch)
          /\ Cardinality(left) <= Cardinality(s.rest)
      <4>1. IsFiniteSet(left) /\ Cardinality(left) <= Cardinality(s.rest)
        BY <1>2, <3>1, FS_Subset
      <4>2. IsFiniteSet(batch)
        BY <1>2, <3>1, FS_Subset
      <4>3. IsFiniteSet(left \ batch)
        BY <4>1, FS_Difference
      <4>. QED  BY <4>1, <4>2, <4>3
    <3>3. Cardinality(left) = Cardinality(batch) + Cardinality(left \ batch)
      <4>1. Cardinality(left \ batch) = Cardinality(left) - Cardinality(left \cap batch)
        BY <3>2, FS_Difference
      <4>2. Cardinality(left \cap batch) = Cardinality(batch)
        <5>1. left \cap batch = batch
          BY <2>1
        <5>. QED  BY <5>1, Zenon
      <4>3. Cardinality(left) \in Nat /\ Cardinality(batch) \in Nat
        BY <3>2, FS_CardinalityType
      <4>. HIDE DEF left
      <4>. QED  BY <4>1, <4>2, <4>3
    <3>4. Cardinality(batch) \in Nat /\ Cardinality(left \ batch) \in Nat
          /\ Cardinality(batch) # 0
      BY <3>1, <3>2, FS_CardinalityType, FS_EmptySet
    <3>. QED  BY <3>2, <3>3, <3>4
  <2>. HIDE DEF t, left
  <2>5. s.pc = "next" /\ s.batch = {}
    BY <1>5 DEF NextBatch
  <2>6. StepsLeft(t) < StepsLeft(s)
    BY <1>2, <2>2, <2>4, <2>5 DEF StepsLeft, Stage
  <2>. QED  BY <2>2, <2>3, <2>5, <2>6
<1>6. CASE NoMore(c) \/ DeleteMetaFails(c)
  <2>1. s.pc # "idle" /\ \E answer \in {"TRUE", "FALSE"}, cut \in BOOLEAN : Ends(c, answer, cut)
    BY <1>6 DEF NoMore, DeleteMetaFails, AfterMetaFailure
  <2>. QED  BY <1>3, <2>1
<1>7. CASE DeleteMeta(c)
  <2>. DEFINE t == [s EXCEPT !.pc = "chunks"]
  <2>1. t \in Tasks /\ t.pc = "chunks" /\ t.batch = s.batch /\ t.rest = s.rest
        /\ t.wanted = s.wanted
    BY <1>1 DEF Tasks
  <2>2. s.pc = "meta" /\ task' = [task EXCEPT ![c] = t]
    BY <1>7 DEF DeleteMeta, TypeOK
  <2>. HIDE DEF t
  <2>3. StepsLeft(t) < StepsLeft(s)
    BY <1>2, <2>1, <2>2 DEF StepsLeft, Stage
  <2>. QED  BY <2>1, <2>2, <2>3
<1>8. CASE DeleteChunks(c)
  <2>. DEFINE t == [s EXCEPT !.pc = "next", !.id = None]
  <2>1. t \in Tasks /\ t.pc = "next" /\ t.batch = s.batch /\ t.rest = s.rest
        /\ t.wanted = s.wanted
    BY <1>1 DEF Tasks
  <2>2. s.pc = "chunks" /\ task' = [task EXCEPT ![c] = t]
    BY <1>8 DEF DeleteChunks, AfterFile, TypeOK
  <2>. HIDE DEF t
  <2>3. StepsLeft(t) < StepsLeft(s)
    BY <1>2, <2>1, <2>2 DEF StepsLeft, Stage
  <2>. QED  BY <2>1, <2>2, <2>3
<1>. QED  BY <1>4, <1>5, <1>6, <1>7, <1>8 DEF Loop

\* What somebody else does leaves a call where it is; a call begins with what
\* it has matched before it.
LEMMA OthersLeave ==
    ASSUME IsFiniteSet(Ids), TypeOK, [Next]_vars, NEW c \in Removers, ~Loop(c)
    PROVE  \/ task'[c] = task[c]
           \/ task[c].pc = "idle" /\ task'[c].pc = "idle"
           \/ /\ task[c].pc = "idle"
              /\ StepsLeft(task'[c]) \in 1..(4 * Cardinality(task'[c].wanted))
<1>1. ASSUME NEW d \in Removers, Loop(d) PROVE task'[c] = task[c]
  <2>1. d # c
    BY <1>1
  <2>2. PICK t \in Tasks : task' = [task EXCEPT ![d] = t]
    BY <1>1, LoopShortens
  <2>. QED  BY <2>1, <2>2 DEF TypeOK
<1>2. ASSUME NEW d \in Removers, ListFails(d)
      PROVE  task'[c] = task[c] \/ (task[c].pc = "idle" /\ task'[c].pc = "idle")
  BY <1>2 DEF ListFails, NoTask, TypeOK
<1>3. ASSUME NEW d \in Removers, NEW query \in SUBSET Ids, List(d, query)
      PROVE  \/ task'[c] = task[c]
             \/ task[c].pc = "idle" /\ task'[c].pc = "idle"
             \/ /\ task[c].pc = "idle"
                /\ StepsLeft(task'[c]) \in 1..(4 * Cardinality(task'[c].wanted))
  <2>. DEFINE wanted == query \cap listed
  <2>1. task[d].pc = "idle"
    BY <1>3 DEF List
  <2>2. CASE task' = [task EXCEPT ![d] = [NoTask EXCEPT !.answer = "FALSE"]]
    BY <2>1, <2>2 DEF NoTask, TypeOK
  <2>3. ASSUME NEW batch \in (SUBSET wanted) \ {{}},
               task' = [task EXCEPT ![d] = [NoTask EXCEPT
                          !.pc = "next", !.batch = batch, !.rest = wanted \ batch,
                          !.wanted = wanted]],
               c = d
        PROVE  StepsLeft(task'[c]) \in 1..(4 * Cardinality(task'[c].wanted))
    <3>1. task'[c].pc = "next" /\ task'[c].batch = batch /\ task'[c].rest = wanted \ batch
          /\ task'[c].wanted = wanted
      BY <2>3 DEF NoTask, TypeOK
    <3>2. wanted \in SUBSET Ids /\ batch \in SUBSET Ids /\ wanted \ batch \in SUBSET Ids
          /\ batch \cap (wanted \ batch) = {} /\ batch \cup (wanted \ batch) = wanted
          /\ batch # {}
      BY <2>3
    <3>3. /\ IsFiniteSet(batch) /\ IsFiniteSet(wanted \ batch)
          /\ Cardinality(batch) \in Nat /\ Cardinality(wanted \ batch) \in Nat
      BY <3>2, SizeType
    <3>4. Cardinality(wanted) = Cardinality(batch) + Cardinality(wanted \ batch)
      BY <3>2, <3>3, FS_Union, FS_EmptySet
    <3>5. Cardinality(batch) # 0
      BY <3>2, <3>3, FS_EmptySet
    <3>. HIDE DEF wanted
    <3>. QED  BY <3>1, <3>3, <3>4, <3>5 DEF StepsLeft, Stage
  <2>4. d # c => task'[c] = task[c]
    BY <1>3 DEF List, TypeOK
  <2>. QED  BY <1>3, <2>1, <2>2, <2>3, <2>4 DEF List
<1>4. CASE UNCHANGED task
  BY <1>4
<1>5. ASSUME NEW r \in Readers,
             \/ \E id \in Ids : FindFile(r, id)
             \/ FetchChunks(r) \/ GetChunk(r) \/ WalkEnds(r) \/ FreeFile(r)
      PROVE  UNCHANGED task
  BY <1>5 DEF FindFile, FetchChunks, GetChunk, WalkEnds, FreeFile, ReaderUnchanged
<1>. QED  BY <1>1, <1>2, <1>3, <1>4, <1>5 DEF Next, vars

\* A call of mongo_sync_gridfs_remove makes at most four steps for each file
\* that its query matched, whatever other clients remove meanwhile: each of its
\* steps is one less, and nobody else's step gives it more to do.
THEOREM RemovesAreShort ==
    ASSUME IsFiniteSet(Ids)
    PROVE  Spec =>
             /\ []Bounded
             /\ [][\A c \in Removers : task[c].pc # "idle" =>
                     \/ Loop(c) /\ StepsLeft(task'[c]) < StepsLeft(task[c])
                     \/ ~Loop(c) /\ task'[c] = task[c]]_vars
<1>1. Init => Bounded
  BY DEF Init, Bounded, NoTask
<1>2. TypeOK /\ TypeOK' /\ Bounded /\ [Next]_vars => Bounded'
  <2>. SUFFICES ASSUME TypeOK, TypeOK', Bounded, [Next]_vars, NEW c \in Removers,
                       task'[c].pc # "idle"
                PROVE  StepsLeft(task'[c]) \in 1..(4 * Cardinality(task'[c].wanted))
    BY DEF Bounded
  <2>1. CASE Loop(c)
    <3>1. PICK t \in Tasks :
            /\ task' = [task EXCEPT ![c] = t]
            /\ t.wanted = task[c].wanted
            /\ task[c].pc # "idle" /\ StepsLeft(t) < StepsLeft(task[c])
      BY <2>1, LoopShortens
    <3>2. task'[c] = t
      BY <3>1 DEF TypeOK
    <3>3. StepsLeft(t) \in Nat /\ StepsLeft(t) > 0
      BY <3>2, StepsLeftType
    <3>4. StepsLeft(task[c]) \in 1..(4 * Cardinality(task[c].wanted))
      BY <3>1 DEF Bounded
    <3>5. Cardinality(task[c].wanted) \in Nat
      BY SizeType DEF TypeOK, Tasks
    <3>. QED  BY <3>1, <3>2, <3>3, <3>4, <3>5
  <2>2. CASE ~Loop(c)
    BY <2>2, OthersLeave DEF Bounded
  <2>. QED  BY <2>1, <2>2
<1>3. TypeOK /\ [Next]_vars =>
        [\A c \in Removers : task[c].pc # "idle" =>
            \/ Loop(c) /\ StepsLeft(task'[c]) < StepsLeft(task[c])
            \/ ~Loop(c) /\ task'[c] = task[c]]_vars
  <2>. SUFFICES ASSUME TypeOK, [Next]_vars, NEW c \in Removers, task[c].pc # "idle"
                PROVE  \/ Loop(c) /\ StepsLeft(task'[c]) < StepsLeft(task[c])
                       \/ ~Loop(c) /\ task'[c] = task[c]
    OBVIOUS
  <2>1. CASE Loop(c)
    <3>1. PICK t \in Tasks :
            task' = [task EXCEPT ![c] = t] /\ StepsLeft(t) < StepsLeft(task[c])
      BY <2>1, LoopShortens
    <3>2. task'[c] = t
      BY <3>1 DEF TypeOK
    <3>. QED  BY <2>1, <3>1, <3>2
  <2>2. CASE ~Loop(c)
    BY <2>2, OthersLeave
  <2>. QED  BY <2>1, <2>2
<1>. QED  BY <1>1, <1>2, <1>3, TypeCorrect, PTL DEF Spec
=============================================================================
