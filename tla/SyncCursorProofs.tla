--------------------------- MODULE SyncCursorProofs ---------------------------
(***************************************************************************)
(* Proofs about SyncCursor, for any number of documents, any sizes of the  *)
(* batches and any number of faults.                                       *)
(***************************************************************************)
EXTENDS SyncCursor, SequenceTheorems, TLAPS

\* How far in the result set the cursor stands.
Place == left - returned + offset

\* The loaded batch is the last the server has handed out, and what has been
\* delivered lies before the place of the cursor in it.
BatchInv ==
    phase = "open" =>
        /\ returned >= 1 /\ left - returned >= 1
        /\ results = None \/ results = Batch(left - returned, returned)
        /\ \A k \in 1..Len(delivered) :
             delivered[k] < left /\ (results # None => delivered[k] <= Place)

\* Before the first failure everything up to that place has been delivered.
WholeInv ==
    phase = "open" /\ "next" \notin trouble =>
        /\ results # None /\ Len(delivered) = Place
        /\ \A k \in 1..Len(delivered) : delivered[k] = k
        /\ answer = "TRUE" => offset >= 0

\* What the server still holds, the cursor knows the id of.
ServerInv ==
    /\ phase = "open" /\ srvOpen => cid # 0
    /\ answer = "FALSE" => "next" \in trouble

\* Without a fault the server forgets nothing before the end.
FaultlessInv ==
    faults = 0 =>
        /\ ~moved
        /\ phase = "open" => (cid = 0 => left > Docs) /\ (srvOpen \/ cid = 0 \/ left > Docs)
        /\ "next" \in trouble => results = None /\ left > Docs /\ Len(delivered) = Docs

IInv ==
    /\ TypeOK /\ BatchInv /\ WholeInv /\ ServerInv /\ FaultlessInv
    /\ NoRepeat /\ Released

-----------------------------------------------------------------------------
(* Batches and sequences.                                                  *)

LEMMA BatchFacts ==
    ASSUME NEW first \in Nat \ {0}, NEW n \in Nat
    PROVE  /\ Batch(first, n) \in Seq(Nat) /\ Len(Batch(first, n)) = n
           /\ DOMAIN Batch(first, n) = 1..n
           /\ \A k \in 1..n : Batch(first, n)[k] = first + k - 1
           /\ Batch(first, n) # None
<1>. DEFINE b == Batch(first, n)
<1>1. b \in [1..n -> Nat] /\ DOMAIN b = 1..n /\ \A k \in 1..n : b[k] = first + k - 1
  BY DEF Batch
<1>. HIDE DEF b
<1>2. b \in Seq(Nat) /\ Len(b) = n
  BY <1>1
<1>. QED  BY <1>1, <1>2, SyncCursorAssumption DEF b

LEMMA FunctionIsSeq ==
    ASSUME NEW S, NEW n \in Nat, NEW f \in [1..n -> S] PROVE f \in Seq(S)
OBVIOUS

\* Places in a batch that is not empty.
LEMMA Differences ==
    /\ \A a, b \in Int : a - b >= 1 => a - b \in Nat \ {0}
    /\ \A a, b, c \in Int : a - b >= 1 /\ c >= a => c - b >= 1
OBVIOUS

LEMMA BatchType ==
    ASSUME NEW first \in Nat \ {0}, NEW n \in Nat, first + n - 1 <= Docs
    PROVE  Batch(first, n) \in Seq(1..Docs)
<1>. DEFINE b == Batch(first, n)
<1>1. Docs \in Nat
  BY SyncCursorAssumption
<1>2. \A k \in 1..n : first + k - 1 \in 1..Docs
  BY <1>1
<1>3. b \in [1..n -> 1..Docs]
  BY <1>2 DEF Batch
<1>. QED  BY <1>3, FunctionIsSeq

\* What get_data finds in a loaded batch.
LEMMA DataFacts ==
    ASSUME NEW first \in Nat \ {0}, NEW n \in Nat, NEW off \in 0..(n - 1)
    PROVE  Data(Batch(first, n), off) = first + off /\ first + off # None
<1>1. off + 1 \in 1..n
  OBVIOUS
<1>2. Batch(first, n)[off + 1] = first + off
  BY <1>1, BatchFacts
<1>3. first + off \in Nat
  OBVIOUS
<1>. QED  BY <1>1, <1>2, <1>3, BatchFacts, SyncCursorAssumption DEF Data

LEMMA DeliveredFacts ==
    ASSUME TypeOK
    PROVE  /\ Len(delivered) \in Nat /\ DOMAIN delivered = 1..Len(delivered)
           /\ \A k \in 1..Len(delivered) : delivered[k] \in 1..Docs
           /\ left \in Nat /\ returned \in Nat /\ offset \in Int /\ Docs \in Nat
BY LenProperties, SyncCursorAssumption DEF TypeOK

LEMMA AppendFacts ==
    ASSUME TypeOK, NEW d \in 1..Docs, delivered' = Append(delivered, d)
    PROVE  /\ delivered' \in Seq(1..Docs) /\ Len(delivered') = Len(delivered) + 1
           /\ delivered'[Len(delivered) + 1] = d
           /\ \A k \in 1..Len(delivered) : delivered'[k] = delivered[k]
           /\ \A k \in 1..Len(delivered') : k \in 1..Len(delivered) \/ k = Len(delivered) + 1
<1>1. delivered \in Seq(1..Docs) /\ Len(delivered) \in Nat
  BY DeliveredFacts DEF TypeOK
<1>2. delivered' \in Seq(1..Docs) /\ Len(delivered') = Len(delivered) + 1
  BY <1>1
<1>3. delivered'[Len(delivered) + 1] = d /\ \A k \in 1..Len(delivered) : delivered'[k] = delivered[k]
  BY <1>1
<1>. QED  BY <1>1, <1>2, <1>3

LEMMA FaultType == TypeOK /\ (Fault \/ UNCHANGED faults) => faults' \in 0..MaxFaults
BY SyncCursorAssumption DEF TypeOK, Fault

-----------------------------------------------------------------------------
(* A next that returns TRUE.                                               *)

\* The cursor moves on to the document d, which is the next one or, after a
\* failure, a later one.
LEMMA Delivers ==
    ASSUME IInv, phase = "open", NEW d \in 1..Docs, TypeOK', ServerInv', FaultlessInv',
           delivered' = Append(delivered, d), UNCHANGED <<phase, trouble>>,
           answer' = "TRUE", offset' >= 0,
           returned' >= 1, left' - returned' >= 1, results' = Batch(left' - returned', returned'),
           Place' = d, d < left',
           \A k \in 1..Len(delivered) : delivered[k] < d,
           "next" \notin trouble => d = Len(delivered) + 1
    PROVE  IInv'
<1>1. /\ Len(delivered') = Len(delivered) + 1 /\ delivered'[Len(delivered) + 1] = d
      /\ \A k \in 1..Len(delivered) : delivered'[k] = delivered[k]
      /\ \A k \in 1..Len(delivered') : k \in 1..Len(delivered) \/ k = Len(delivered) + 1
  BY AppendFacts DEF IInv
<1>2. Len(delivered) \in Nat /\ \A k \in 1..Len(delivered) : delivered[k] \in 1..Docs
  BY DeliveredFacts DEF IInv
<1>3. left' \in Nat /\ returned' \in Nat /\ offset' \in Int
  BY SyncCursorAssumption DEF TypeOK
<1>4. results' # None
  <2>1. left' - returned' \in Nat \ {0}
    <3>1. left' \in Int /\ returned' \in Int
      BY <1>3
    <3>. QED  BY <3>1, Differences, Zenon
  <2>. QED  BY <1>3, <2>1, BatchFacts
<1>5. \A k \in 1..Len(delivered') : delivered'[k] <= d /\ delivered'[k] < left'
  BY <1>1, <1>2, <1>3
<1>6. BatchInv'
  BY <1>5 DEF BatchInv
<1>7. WholeInv'
  <2>. SUFFICES ASSUME "next" \notin trouble PROVE
           /\ results' # None /\ Len(delivered') = Place'
           /\ \A k \in 1..Len(delivered') : delivered'[k] = k
           /\ answer' = "TRUE" => offset' >= 0
    BY DEF WholeInv
  <2>1. \A k \in 1..Len(delivered) : delivered[k] = k
    BY DEF IInv, WholeInv
  <2>. QED  BY <1>1, <1>4, <2>1
<1>8. NoRepeat'
  <2>1. DOMAIN delivered' = 1..Len(delivered')
    BY LenProperties DEF TypeOK
  <2>2. \A k, l \in 1..Len(delivered) : k < l => delivered[k] < delivered[l]
    BY DeliveredFacts DEF IInv, NoRepeat
  <2>. SUFFICES ASSUME NEW k \in 1..Len(delivered'), NEW l \in 1..Len(delivered'), k < l
                PROVE  delivered'[k] < delivered'[l]
    BY <2>1 DEF NoRepeat
  <2>3. k \in 1..Len(delivered)
    BY <1>1, <1>2
  <2>. QED  BY <1>1, <2>2, <2>3
<1>9. Released'
  BY DEF Released
<1>. QED  BY <1>6, <1>7, <1>8, <1>9 DEF IInv

LEMMA NextInBatchIInv == ASSUME IInv, NextInBatch PROVE IInv'
<1>1. /\ phase = "open" /\ offset' = offset + 1 /\ answer' = "TRUE"
      /\ UNCHANGED <<phase, trouble, results, returned, cid, left, srvOpen, moved, faults>>
  BY DEF NextInBatch, Deliver
<1>2. /\ left \in Nat /\ returned \in Nat /\ offset \in Int /\ offset >= -1 /\ Docs \in Nat
      /\ left <= Docs + 1 /\ returned >= 1 /\ left - returned >= 1
  BY <1>1, SyncCursorAssumption DEF IInv, TypeOK, BatchInv
<1>3. offset' \in 0..(returned - 1)
  BY <1>1, <1>2 DEF NextInBatch, Exhausted
<1>4. CASE results = None
  <2>1. delivered' = delivered
    BY <1>1, <1>4 DEF NextInBatch, Deliver, Data
  <2>2. TypeOK'
    BY <1>1, <1>2, <1>3, <2>1 DEF IInv, TypeOK
  <2>3. "next" \in trouble
    BY <1>1, <1>4 DEF IInv, WholeInv
  <2>4. BatchInv' /\ WholeInv' /\ ServerInv' /\ FaultlessInv' /\ NoRepeat' /\ Released'
    BY <1>1, <1>4, <2>1, <2>3
       DEF IInv, BatchInv, WholeInv, ServerInv, FaultlessInv, NoRepeat, Released
  <2>. QED  BY <2>2, <2>4 DEF IInv
<1>5. CASE results # None
  <2>. DEFINE d == left - returned + offset'
  <2>1. results = Batch(left - returned, returned)
    BY <1>1, <1>5 DEF IInv, BatchInv
  <2>2. Data(results, offset') = d /\ d # None
    BY <1>2, <1>3, <2>1, DataFacts
  <2>3. delivered' = Append(delivered, d)
    BY <2>2 DEF NextInBatch, Deliver
  <2>4. d \in 1..Docs /\ d < left
    <3>. HIDE DEF d
    <3>1. PICK o \in 0..(returned - 1) : o = offset'
      BY <1>3
    <3>2. d = left - returned + o
      BY <3>1 DEF d
    <3>. QED  BY <1>2, <3>2
  <2>5. TypeOK'
    BY <1>1, <1>2, <1>3, <2>3, <2>4, AppendFacts DEF IInv, TypeOK
  <2>6. \A k \in 1..Len(delivered) : delivered[k] < d
    <3>1. \A k \in 1..Len(delivered) : delivered[k] <= Place /\ delivered[k] \in 1..Docs
      BY <1>1, <1>5, DeliveredFacts DEF IInv, BatchInv
    <3>2. d = Place + 1 /\ Place \in Int
      BY <1>1, <1>2 DEF Place
    <3>. QED  BY <3>1, <3>2
  <2>7. "next" \notin trouble => d = Len(delivered) + 1
    BY <1>1, <1>2 DEF IInv, WholeInv, Place
  <2>8. ServerInv'
    BY <1>1 DEF IInv, ServerInv
  <2>9. FaultlessInv'
    BY <1>1, <1>5 DEF IInv, FaultlessInv
  <2>10. Place' = d
    BY <1>1 DEF Place
  <2>. HIDE DEF d
  <2>11. results' = Batch(left' - returned', returned')
    BY <1>1, <2>1
  <2>. QED
    BY <1>1, <1>2, <1>3, <2>3, <2>4, <2>5, <2>6, <2>7, <2>8, <2>9, <2>10, <2>11, Delivers
<1>. QED  BY <1>4, <1>5

LEMMA NextFetchedIInv == ASSUME IInv, NextFetched PROVE IInv'
<1>1. PICK n \in 1..returned, id \in {0, 1} : left + n - 1 <= Docs /\ Handed(n, id)
  BY DEF NextFetched
<1>2. /\ phase = "open" /\ offset' = 0 /\ answer' = "TRUE"
      /\ UNCHANGED <<phase, trouble, moved, faults>>
  BY DEF NextFetched, Deliver, PlaceInNewBatch
<1>3. /\ results' = Batch(left, n) /\ returned' = n /\ cid' = id /\ left' = left + n
      /\ srvOpen' = (id # 0) /\ (left + n <= Docs => id # 0)
  BY <1>1 DEF Handed
<1>4. left \in Nat \ {0} /\ returned \in Nat /\ offset \in Int /\ offset <= returned - 1 /\ Docs \in Nat
  BY SyncCursorAssumption DEF IInv, TypeOK
<1>5. Data(results', offset') = left /\ left # None
  BY <1>1, <1>2, <1>3, <1>4, DataFacts
<1>6. delivered' = Append(delivered, left)
  BY <1>5 DEF NextFetched, Deliver
<1>7. left \in 1..Docs
  BY <1>1, <1>4
<1>8. TypeOK'
  <2>1. results' \in Seq(1..Docs)
    BY <1>1, <1>3, <1>4, BatchType
  <2>2. delivered' \in Seq(1..Docs)
    BY <1>6, <1>7, AppendFacts DEF IInv
  <2>3. returned' \in 0..Docs /\ left' \in 1..(Docs + 1) /\ offset' \in -1..(returned' - 1)
    BY <1>1, <1>2, <1>3, <1>4
  <2>4. srvOpen' \in BOOLEAN
    BY <1>3
  <2>. QED  BY <1>2, <1>3, <2>1, <2>2, <2>3, <2>4 DEF IInv, TypeOK
<1>9. \A k \in 1..Len(delivered) : delivered[k] < left
  BY <1>2 DEF IInv, BatchInv
<1>10. "next" \notin trouble => left = Len(delivered) + 1
  BY <1>2, <1>4 DEF IInv, WholeInv, Place, NextFetched, Exhausted
<1>11. ServerInv'
  BY <1>2, <1>3 DEF ServerInv
<1>12. FaultlessInv'
  <2>. SUFFICES ASSUME faults = 0
                PROVE  /\ ~moved
                       /\ cid' = 0 => left' > Docs
                       /\ srvOpen' \/ cid' = 0 \/ left' > Docs
                       /\ "next" \notin trouble
    BY <1>2 DEF FaultlessInv
  <2>1. ~moved /\ ("next" \in trouble => left > Docs)
    BY DEF IInv, FaultlessInv
  <2>2. "next" \notin trouble
    BY <1>7, <1>4, <2>1
  <2>3. cid' = 0 => left' > Docs
    BY <1>1, <1>3, <1>4
  <2>4. srvOpen' \/ cid' = 0
    BY <1>3
  <2>. QED  BY <2>1, <2>2, <2>3, <2>4
<1>13. left' - returned' = left /\ left < left' /\ Place' = left
  BY <1>1, <1>2, <1>3, <1>4 DEF Place
<1>. QED
  BY <1>1, <1>2, <1>3, <1>4, <1>6, <1>7, <1>8, <1>9, <1>10, <1>11, <1>12, <1>13, Delivers

-----------------------------------------------------------------------------
(* A next that returns FALSE.                                              *)

LEMMA Fails ==
    ASSUME IInv, NextFails, left' \in Nat, left' >= left, left' <= Docs + 1,
           srvOpen' \in BOOLEAN, moved' = moved, srvOpen' => srvOpen,
           faults' \in 0..MaxFaults,
           faults' = 0 => faults = 0 /\ left' > Docs /\ left' = left
    PROVE  IInv'
<1>1. /\ phase = "open" /\ results' = None /\ offset' = -1 /\ answer' = "FALSE"
      /\ trouble' = trouble \cup {"next"} /\ UNCHANGED <<phase, delivered, returned, cid>>
  BY DEF NextFails, HeaderAfterFailure
<1>2. left \in Nat /\ returned \in Nat /\ offset \in -1..(returned - 1) /\ Docs \in Nat
      /\ Len(delivered) \in Nat /\ left >= 1 /\ left <= Docs + 1
  BY DeliveredFacts, SyncCursorAssumption DEF IInv, TypeOK
<1>3. TypeOK'
  <2>1. left' \in 1..(Docs + 1) /\ offset' \in -1..(returned' - 1)
    BY <1>1, <1>2
  <2>. QED  BY <1>1, <2>1 DEF IInv, TypeOK
<1>4. BatchInv'
  <2>1. left' - returned' >= 1 /\ returned' >= 1
    <3>1. left - returned >= 1 /\ returned >= 1
      BY <1>1 DEF IInv, BatchInv
    <3>2. left' \in Int /\ left \in Int /\ returned \in Int
      BY <1>2
    <3>3. left' - returned >= 1
      BY <3>1, <3>2, Differences, Zenon
    <3>. QED  BY <1>1, <3>1, <3>3
  <2>2. \A k \in 1..Len(delivered) : delivered[k] < left'
    BY <1>1, <1>2, DeliveredFacts DEF IInv, BatchInv
  <2>. QED  BY <1>1, <2>1, <2>2 DEF BatchInv
<1>5. WholeInv' /\ Released'
  BY <1>1 DEF WholeInv, Released
<1>6. ServerInv'
  BY <1>1 DEF IInv, ServerInv
<1>7. FaultlessInv'
  <2>. SUFFICES ASSUME faults' = 0 PROVE FaultlessInv'
    BY DEF FaultlessInv
  <2>1. ~moved'
    BY DEF IInv, FaultlessInv
  <2>2. Len(delivered) = Docs
    <3>1. CASE "next" \in trouble
      BY <3>1 DEF IInv, FaultlessInv
    <3>2. CASE "next" \notin trouble
      <4>1. Len(delivered) = left - returned + offset
        BY <1>1, <3>2 DEF IInv, WholeInv, Place
      <4>2. offset >= returned - 1
        BY DEF NextFails, Exhausted
      <4>. QED  BY <1>2, <4>1, <4>2
    <3>. QED  BY <3>1, <3>2
  <2>. QED  BY <1>1, <2>1, <2>2 DEF FaultlessInv
<1>8. NoRepeat'
  BY <1>1 DEF IInv, NoRepeat
<1>. QED  BY <1>3, <1>4, <1>5, <1>6, <1>7, <1>8 DEF IInv

LEMMA NextRefusedIInv == ASSUME IInv, NextRefused PROVE IInv'
<1>1. NextFails /\ UNCHANGED <<left, moved, faults>> /\ srvOpen' = (srvOpen /\ (cid = 0 \/ moved))
  BY DEF NextRefused
<1>2. phase = "open" /\ left \in Nat /\ left <= Docs + 1 /\ faults \in 0..MaxFaults
  BY <1>1, SyncCursorAssumption DEF IInv, TypeOK, NextFails
<1>3. faults = 0 => left > Docs
  BY <1>2 DEF IInv, FaultlessInv, NextRefused
<1>4. srvOpen' \in BOOLEAN /\ (srvOpen' => srvOpen)
  BY <1>1
<1>5. left' \in Nat /\ left' >= left /\ left' <= Docs + 1
  BY <1>1, <1>2
<1>. QED  BY <1>1, <1>2, <1>3, <1>4, <1>5, Fails

LEMMA NextCutOffIInv == ASSUME IInv, NextCutOff PROVE IInv'
<1>1. Fault /\ NextFails /\ moved' = moved
  BY DEF NextCutOff
<1>2. faults' \in 0..MaxFaults /\ faults' # 0
  BY <1>1, FaultType, SyncCursorAssumption DEF Fault, IInv, TypeOK
<1>3. left \in Nat /\ left <= Docs + 1 /\ srvOpen \in BOOLEAN /\ Docs \in Nat /\ returned \in Nat
  BY SyncCursorAssumption DEF IInv, TypeOK
<1>4. CASE UNCHANGED <<left, srvOpen>>
  <2>1. left' \in Nat /\ left' >= left /\ left' <= Docs + 1
    BY <1>3, <1>4
  <2>. QED  BY <1>1, <1>2, <1>3, <1>4, <2>1, Fails
<1>5. ASSUME srvOpen, NEW n \in 1..returned, left + n - 1 <= Docs, left' = left + n, srvOpen' \in BOOLEAN
      PROVE  IInv'
  <2>1. left' \in Nat /\ left' >= left /\ left' <= Docs + 1
    BY <1>3, <1>5
  <2>. QED  BY <1>1, <1>2, <1>3, <1>5, <2>1, Fails
<1>. QED  BY <1>4, <1>5 DEF NextCutOff

-----------------------------------------------------------------------------
(* A cursor begins and ends, and what happens around it.                   *)

LEMMA NewIInv == ASSUME IInv, New PROVE IInv'
<1>1. PICK n \in 1..Docs, id \in {0, 1} :
        /\ results' = Batch(1, n) /\ returned' = n /\ cid' = id /\ left' = n + 1
        /\ srvOpen' = (id # 0) /\ (n < Docs => id # 0)
  BY DEF New
<1>2. /\ phase' = "open" /\ offset' = -1 /\ answer' = "none" /\ delivered' = <<>>
      /\ trouble' = {} /\ moved' = FALSE /\ faults' = faults
  BY DEF New
<1>3. n \in Nat /\ Docs \in Nat /\ faults \in 0..MaxFaults
  BY SyncCursorAssumption DEF IInv, TypeOK
<1>4. delivered' \in Seq(1..Docs) /\ Len(delivered') = 0
  BY <1>2, EmptySeq
<1>5. TypeOK'
  <2>1. results' \in Seq(1..Docs)
    BY <1>1, <1>3, BatchType
  <2>2. returned' \in 0..Docs /\ left' \in 1..(Docs + 1) /\ offset' \in -1..(returned' - 1)
    BY <1>1, <1>2, <1>3
  <2>3. srvOpen' \in BOOLEAN /\ cid' \in {0, 1}
    BY <1>1
  <2>. QED  BY <1>2, <1>3, <1>4, <2>1, <2>2, <2>3 DEF TypeOK
<1>6. left' - returned' = 1 /\ Place' = 0 /\ returned' >= 1 /\ results' = Batch(left' - returned', returned')
  BY <1>1, <1>2, <1>3 DEF Place
<1>7. results' # None
  BY <1>1, <1>3, BatchFacts
<1>8. BatchInv'
  BY <1>4, <1>6 DEF BatchInv
<1>9. WholeInv'
  BY <1>2, <1>4, <1>6, <1>7 DEF WholeInv
<1>10. ServerInv' /\ Released'
  BY <1>1, <1>2 DEF ServerInv, Released
<1>11. FaultlessInv'
  <2>1. cid' = 0 => left' > Docs
    BY <1>1, <1>3
  <2>2. srvOpen' \/ cid' = 0
    BY <1>1
  <2>. QED  BY <1>2, <2>1, <2>2 DEF FaultlessInv
<1>12. NoRepeat'
  BY <1>2 DEF NoRepeat
<1>. QED  BY <1>5, <1>8, <1>9, <1>10, <1>11, <1>12 DEF IInv

LEMMA FreeIInv == ASSUME IInv, Free PROVE IInv'
<1>1. /\ phase = "open" /\ phase' = "none" /\ results' = None /\ (Fault \/ UNCHANGED faults)
      /\ UNCHANGED <<returned, cid, offset, answer, left, moved, delivered>>
  BY DEF Free
<1>2. /\ trouble \subseteq trouble' /\ trouble' \subseteq trouble \cup {"kill"}
      /\ srvOpen' \in BOOLEAN
  BY DEF Free, IInv, TypeOK
<1>3. faults' \in 0..MaxFaults
  BY <1>1, FaultType DEF IInv
<1>4. TypeOK'
  BY <1>1, <1>2, <1>3 DEF IInv, TypeOK
<1>5. BatchInv' /\ WholeInv' /\ NoRepeat'
  BY <1>1 DEF IInv, BatchInv, WholeInv, NoRepeat
<1>6. ServerInv'
  BY <1>1, <1>2 DEF IInv, ServerInv
<1>7. faults' = 0 => faults = 0
  BY <1>1, SyncCursorAssumption DEF Fault, IInv, TypeOK
<1>8. FaultlessInv'
  BY <1>1, <1>2, <1>7 DEF IInv, FaultlessInv
<1>9. Released'
  BY <1>1 DEF IInv, ServerInv, Released, Free
<1>. QED  BY <1>4, <1>5, <1>6, <1>8, <1>9 DEF IInv

LEMMA AroundIInv == ASSUME IInv, ServerForgets \/ Moves PROVE IInv'
<1>1. /\ Fault /\ (srvOpen' => srvOpen) /\ srvOpen' \in BOOLEAN /\ moved' \in BOOLEAN
      /\ UNCHANGED <<phase, results, returned, cid, offset, answer, left, delivered, trouble>>
  <2>1. srvOpen \in BOOLEAN /\ moved \in BOOLEAN
    BY DEF IInv, TypeOK
  <2>2. CASE ServerForgets
    BY <2>1, <2>2, Zenon DEF ServerForgets
  <2>3. CASE Moves
    <3>1. moved' = ~moved /\ srvOpen' = srvOpen
      BY <2>3 DEF Moves
    <3>2. moved' \in BOOLEAN
      BY <2>1, <3>1, Zenon
    <3>3. /\ Fault
          /\ UNCHANGED <<phase, results, returned, cid, offset, answer, left, delivered, trouble>>
      BY <2>3 DEF Moves
    <3>. QED  BY <2>1, <3>1, <3>2, <3>3, Zenon
  <2>. QED  BY <2>2, <2>3
<1>2. faults' \in 0..MaxFaults /\ faults' # 0
  BY <1>1, FaultType, SyncCursorAssumption DEF Fault, IInv, TypeOK
<1>3. TypeOK'
  BY <1>1, <1>2 DEF IInv, TypeOK
<1>4. BatchInv' /\ WholeInv'
  BY <1>1 DEF IInv, BatchInv, WholeInv, Place
<1>5. ServerInv' /\ FaultlessInv' /\ NoRepeat' /\ Released'
  BY <1>1, <1>2 DEF IInv, ServerInv, FaultlessInv, NoRepeat, Released
<1>. QED  BY <1>3, <1>4, <1>5 DEF IInv

-----------------------------------------------------------------------------
LEMMA InitIInv == Init => IInv
<1>. SUFFICES ASSUME Init PROVE IInv
  OBVIOUS
<1>1. TypeOK
  <2>1. delivered \in Seq(1..Docs)
    BY EmptySeq DEF Init
  <2>2. returned \in 0..Docs /\ left \in 1..(Docs + 1) /\ offset \in -1..(returned - 1)
        /\ faults \in 0..MaxFaults
    BY SyncCursorAssumption DEF Init
  <2>. QED  BY <2>1, <2>2 DEF Init, TypeOK
<1>. QED
  BY <1>1 DEF Init, IInv, BatchInv, WholeInv, ServerInv, FaultlessInv, NoRepeat, Released

LEMMA StepIInv == IInv /\ [Next]_vars => IInv'
<1>. SUFFICES ASSUME IInv, [Next]_vars PROVE IInv'
  OBVIOUS
<1>1. CASE UNCHANGED vars
  <2>1. TypeOK' /\ ServerInv' /\ FaultlessInv' /\ NoRepeat' /\ Released'
    BY <1>1 DEF vars, IInv, TypeOK, ServerInv, FaultlessInv, NoRepeat, Released
  <2>2. BatchInv' /\ WholeInv'
    BY <1>1 DEF vars, IInv, BatchInv, WholeInv, Place
  <2>. QED  BY <2>1, <2>2 DEF IInv
<1>. QED
  BY <1>1, NewIInv, FreeIInv, NextInBatchIInv, NextFetchedIInv, NextRefusedIInv, NextCutOffIInv,
     AroundIInv DEF Next

LEMMA Inductive == Spec => []IInv
BY InitIInv, StepIInv, PTL DEF Spec

\* Every value the cursor keeps is of its type.
THEOREM TypeCorrect == Spec => []TypeOK
<1>1. IInv => TypeOK
  BY DEF IInv
<1>. QED  BY <1>1, Inductive, PTL

\* Nothing is left out before the first FALSE (mongo-sync-cursor.c:53-80).
THEOREM NothingIsSkipped == Spec => []Gapless
<1>1. ASSUME IInv PROVE Gapless
  <2>. SUFFICES ASSUME phase = "open", "next" \notin trouble
                PROVE  /\ delivered = Batch(1, Len(delivered))
                       /\ answer = "TRUE" => /\ delivered # <<>>
                                             /\ Data(results, offset) = delivered[Len(delivered)]
    BY DEF Gapless
  <2>1. /\ Len(delivered) \in Nat /\ delivered \in Seq(1..Docs)
        /\ left \in Nat /\ returned \in Nat /\ offset \in Int /\ offset <= returned - 1
    BY <1>1, DeliveredFacts DEF IInv, TypeOK
  <2>2. Len(delivered) = Place /\ results # None /\ \A k \in 1..Len(delivered) : delivered[k] = k
    BY <1>1 DEF IInv, WholeInv
  <2>3. results = Batch(left - returned, returned) /\ left - returned >= 1 /\ returned >= 1
    BY <1>1, <2>2 DEF IInv, BatchInv
  <2>4. delivered = Batch(1, Len(delivered))
    <3>1. /\ Batch(1, Len(delivered)) \in Seq(Nat) /\ Len(Batch(1, Len(delivered))) = Len(delivered)
          /\ \A k \in 1..Len(delivered) : Batch(1, Len(delivered))[k] = 1 + k - 1
      <4>1. 1 \in Nat \ {0}
        OBVIOUS
      <4>. QED  BY <2>1, <4>1, BatchFacts
    <3>2. delivered \in Seq(Nat)
      <4>1. 1..Docs \subseteq Nat
        BY SyncCursorAssumption
      <4>. QED  BY <2>1, <4>1, SeqMonotonic
    <3>3. \A k \in 1..Len(delivered) : Batch(1, Len(delivered))[k] = delivered[k]
      BY <2>1, <2>2, <3>1
    <3>. QED  BY <3>1, <3>2, <3>3, SeqEqual
  <2>5. ASSUME answer = "TRUE"
        PROVE  delivered # <<>> /\ Data(results, offset) = delivered[Len(delivered)]
    <3>1. offset \in 0..(returned - 1)
      BY <1>1, <2>1, <2>5 DEF IInv, WholeInv
    <3>2. Data(results, offset) = left - returned + offset
      <4>1. left - returned \in Nat \ {0}
        BY <2>1, <2>3
      <4>. QED  BY <2>1, <2>3, <3>1, <4>1, DataFacts
    <3>3. Len(delivered) >= 1 /\ Len(delivered) = left - returned + offset
      BY <2>1, <2>2, <2>3, <3>1 DEF Place
    <3>. QED  BY <2>1, <2>2, <3>2, <3>3
  <2>. QED  BY <2>4, <2>5
<1>. QED  BY <1>1, Inductive, PTL

\* Nothing comes twice or out of order, failures or not (mongo-sync-cursor.c:53-80).
THEOREM NothingIsRepeated == Spec => []NoRepeat
<1>1. IInv => NoRepeat
  BY DEF IInv
<1>. QED  BY <1>1, Inductive, PTL

\* The server's cursor is released, or the kill went astray (mongo-sync-cursor.c:82-96).
THEOREM CursorsAreReleased == Spec => []Released
<1>1. IInv => Released
  BY DEF IInv
<1>. QED  BY <1>1, Inductive, PTL

\* FALSE without a fault is the end of the result set (mongo-sync-cursor.c:62-79).
THEOREM FalseIsTheEnd == Spec => []EndIsReal
<1>1. IInv => EndIsReal
  BY DEF IInv, ServerInv, FaultlessInv, EndIsReal
<1>. QED  BY <1>1, Inductive, PTL
=============================================================================
