-------------------------- MODULE BulkInsertProofs --------------------------
(***************************************************************************)
(* Proofs about BulkInsert, for documents of every size, every value of    *)
(* max_insert_size and integers of every width, and, after them, about     *)
(* BsonDocument, which needs the same sums and the same induction.         *)
(***************************************************************************)
EXTENDS BulkInsert, BsonDocument, TLAPS, SequenceTheorems, WellFoundedInduction

\* What the packets of the call hold: the documents before this index.
Covered == IF packets = <<>> THEN 0 ELSE End(Len(packets))

\* The state between two steps of the loop.  That a packet is never empty rests
\* on the size: it is 0 before the first document, and below the limit after
\* it, because a document that alone reaches the limit was refused.
LoopInv ==
    /\ pc \in {"fill", "send"} => Covered = pos
    /\ pc = "fill" =>
         /\ pos < N /\ pos <= i /\ c = i - pos
         /\ c = 0 => size = 0
         /\ c = 1 => size < max
         /\ \A k \in DOMAIN docs : docs[k] < max
    /\ pc \in {"send", "verify"} =>
         /\ c >= 1 /\ pos + c <= N /\ size = 0
         /\ \A k \in DOMAIN docs : docs[k] < max
    /\ pc = "verify" => packets # <<>> /\ Covered = pos + c
    /\ result = "ok" /\ pc = "idle" => packets # <<>> /\ Covered = N

IInv == TypeOK /\ Tiled /\ LoopInv

-----------------------------------------------------------------------------
\* A list of documents is a sequence of sizes.
LEMMA ListType ==
    ASSUME NEW ds \in Lists
    PROVE  /\ Len(ds) \in Nat
           /\ DOMAIN ds = 1..Len(ds)
           /\ \A k \in 1..Len(ds) : ds[k] \in Sizes
<1>1. PICK n \in 0..MaxDocs : ds \in [1..n -> Sizes]
  BY DEF Lists
<1>2. n \in Nat
  BY BulkInsertAssumption
<1>3. ds \in Seq(Sizes)
  BY <1>1, <1>2, SeqDef
<1>. QED  BY <1>3, LenProperties, ElementOfSeq

\* gint32 addition of a document's size stays within the width.
LEMMA WrapType ==
    ASSUME NEW x \in (-MaxInt - 1)..MaxInt, NEW d \in Sizes
    PROVE  /\ Wrap(x + d) \in (-MaxInt - 1)..MaxInt
           /\ x = 0 => Wrap(x + d) = d
<1>1. MaxInt \in Nat /\ d \in Int /\ -1 <= d /\ d <= MaxInt
  BY BulkInsertAssumption
<1>. QED  BY <1>1 DEF Wrap

\* max_insert_size is positive (mongo_sync_conn_set_max_insert_size).
LEMMA LimitType == ASSUME NEW m \in Limits PROVE m \in Int /\ 1 <= m
BY BulkInsertAssumption

\* One more packet that begins where the others end keeps the tiling.
LEMMA TiledAppend ==
    ASSUME TypeOK, Tiled, NEW p \in [first : Nat, count : Nat], p.first = Covered,
           packets' = Append(packets, p)
    PROVE  /\ packets' \in Seq([first : Nat, count : Nat])
           /\ packets' # <<>>
           /\ Covered' = p.first + p.count
           /\ Tiled'
<1>1. packets \in Seq([first : Nat, count : Nat]) /\ Len(packets) \in Nat
  BY LenProperties DEF TypeOK
<1>2. /\ packets' \in Seq([first : Nat, count : Nat])
      /\ Len(packets') = Len(packets) + 1
      /\ DOMAIN packets' = 1..(Len(packets) + 1)
      /\ \A k \in 1..(Len(packets) + 1) :
            packets'[k] = IF k = Len(packets) + 1 THEN p ELSE packets[k]
  BY <1>1, AppendProperties
<1>3. packets' # <<>>
  BY <1>1, <1>2
<1>4. Covered' = p.first + p.count
  BY <1>1, <1>2, <1>3 DEF Covered, End
<1>5. \A k \in DOMAIN packets' : packets'[k].first = IF k = 1 THEN 0 ELSE End(k - 1)'
  <2> SUFFICES ASSUME NEW k \in 1..(Len(packets) + 1)
               PROVE  packets'[k].first = IF k = 1 THEN 0 ELSE End(k - 1)'
    BY <1>2
  <2>1. CASE k <= Len(packets)
    <3>1. k \in DOMAIN packets
      BY <1>1, <2>1, LenProperties
    <3>2. packets[k].first = IF k = 1 THEN 0 ELSE End(k - 1)
      BY <3>1 DEF Tiled
    <3>3. ASSUME k # 1 PROVE End(k - 1)' = End(k - 1)
      <4>1. k - 1 \in 1..(Len(packets) + 1) /\ k - 1 # Len(packets) + 1
        BY <1>1, <2>1, <3>3
      <4>2. packets'[k - 1] = packets[k - 1]
        BY <1>2, <4>1
      <4>. QED  BY <4>2 DEF End
    <3>. QED  BY <1>1, <1>2, <2>1, <3>2, <3>3
  <2>2. CASE k = Len(packets) + 1 /\ packets = <<>>
    BY <1>2, <2>2 DEF Covered
  <2>3. CASE k = Len(packets) + 1 /\ packets # <<>>
    <3>1. Len(packets) # 0
      BY <1>1, <2>3, EmptySeq
    <3>2. End(k - 1)' = End(Len(packets))
      BY <1>1, <1>2, <2>3, <3>1 DEF End
    <3>. QED  BY <1>1, <1>2, <2>3, <3>1, <3>2 DEF Covered
  <2>. QED  BY <1>1, <2>1, <2>2, <2>3
<1>. QED  BY <1>2, <1>3, <1>4, <1>5 DEF Tiled

\* The tiling depends on nothing but the packets.
LEMMA TiledStutter ==
    ASSUME UNCHANGED packets
    PROVE  Tiled' = Tiled /\ Covered' = Covered
BY DEF Tiled, Covered, End

-----------------------------------------------------------------------------
\* The inductive invariant holds before the first call.
LEMMA InitInv == Init => IInv
<1> SUFFICES ASSUME Init PROVE IInv
  OBVIOUS
<1>1. <<>> \in Lists
  <2>1. <<>> \in [1..0 -> Sizes] /\ 0 \in 0..MaxDocs
    BY BulkInsertAssumption
  <2>. QED  BY <2>1 DEF Lists
<1>2. TypeOK
  BY <1>1, BulkInsertAssumption, EmptySeq DEF Init, TypeOK, N
<1>. QED  BY <1>2 DEF Init, IInv, Tiled, LoopInv

\* Every step keeps the inductive invariant.
LEMMA NextInv == IInv /\ [Next]_vars => IInv'
<1> SUFFICES ASSUME IInv, [Next]_vars PROVE IInv'
  OBVIOUS
<1>0. /\ N \in Nat /\ DOMAIN docs = 1..N
      /\ \A k \in 1..N : docs[k] \in Sizes
      /\ max \in Int /\ 1 <= max
      /\ MaxInt \in Nat
  BY ListType, LimitType, BulkInsertAssumption DEF IInv, TypeOK, N
<1>1. ASSUME NEW m \in Limits, SetMaxInsertSize(m) PROVE IInv'
  <2>1. TypeOK'
    BY <1>1, EmptySeq DEF IInv, TypeOK, SetMaxInsertSize, N
  <2>. QED  BY <1>1, <2>1 DEF IInv, SetMaxInsertSize, Tiled, LoopInv
<1>2. ASSUME NEW ds \in Lists, Insert(ds) PROVE IInv'
  <2>0. Len(ds) \in Nat /\ DOMAIN ds = 1..Len(ds) /\ (ds # <<>> => Len(ds) > 0)
    <3>1. Len(ds) \in Nat /\ DOMAIN ds = 1..Len(ds) /\ \A k \in 1..Len(ds) : ds[k] \in Sizes
      BY ListType
    <3>2. PICK n \in 0..MaxDocs : ds \in [1..n -> Sizes]
      BY DEF Lists
    <3>3. ds \in Seq(Sizes)
      BY <3>2, SeqDef, BulkInsertAssumption
    <3>. QED  BY <3>1, <3>3, EmptySeq
  <2>1. TypeOK'
    BY <1>0, <1>2, <2>0, EmptySeq DEF IInv, TypeOK, Insert, N
  <2>2. Tiled'
    BY <1>2 DEF Insert, Tiled
  <2>3. LoopInv'
    BY <1>0, <1>2, <2>0 DEF IInv, LoopInv, Insert, N, Covered
  <2>. QED  BY <2>1, <2>2, <2>3 DEF IInv
<1>3. CASE Fill
  <2>1. Wrap(size + docs[i + 1]) \in (-MaxInt - 1)..MaxInt /\ docs[i + 1] \in Sizes
        /\ (size = 0 => Wrap(size + docs[i + 1]) = docs[i + 1])
    <3>1. i + 1 \in 1..N
      BY <1>0, <1>3 DEF Fill, IInv, TypeOK
    <3>. QED  BY <1>0, <3>1, WrapType DEF IInv, TypeOK
  <2>2. c + 1 \in 0..N /\ i + 1 \in 1..N
    BY <1>0, <1>3 DEF Fill, IInv, TypeOK, LoopInv
  <2>3. TypeOK'
    BY <1>0, <1>3, <2>1, <2>2 DEF Fill, IInv, TypeOK, N
  <2>4. LoopInv'
    <3>1. UNCHANGED <<docs, max, pc, pos, packets, result>> /\ N' = N /\ Covered' = Covered
      BY <1>3, TiledStutter DEF Fill, N
    <3>2. i' = i + 1 /\ c' = c + 1 /\ c = i - pos /\ pos <= i /\ pos < N /\ Covered = pos
          /\ pos \in Int /\ i \in Int /\ c \in Int /\ c >= 0
      BY <1>0, <1>3 DEF Fill, IInv, TypeOK, LoopInv
    <3>3. c' = 1 => size' < max
      <4>1. docs[i + 1] < max
        BY <1>0, <1>3, <2>2 DEF Fill, IInv, LoopInv
      <4>. QED  BY <1>3, <2>1, <3>2, <4>1 DEF Fill, IInv, LoopInv
    <3>4. \A k \in DOMAIN docs : docs[k] < max
      BY <1>3 DEF Fill, IInv, LoopInv
    <3>5. c' # 0 /\ c' = i' - pos /\ pos <= i'
      BY <3>2
    <3>6. pc = "fill"
      BY <1>3 DEF Fill
    <3>. QED  BY <3>1, <3>2, <3>3, <3>4, <3>5, <3>6 DEF LoopInv
  <2>. QED  BY <1>3, <2>3, <2>4, TiledStutter DEF Fill, IInv
<1>4. CASE Cut
  <2>1. Kept >= 1 /\ Kept \in 0..N /\ pos + Kept <= N
    <3>1. c \in Nat /\ i \in 0..N /\ pos \in 0..N /\ c = i - pos /\ pos < N
      BY <1>0, <1>4 DEF Cut, IInv, TypeOK, LoopInv
    <3>2. c # 0
      BY <1>0, <1>4, <3>1 DEF Cut, IInv, LoopInv
    <3>3. c = 1 => ~(i < N)
      BY <1>0, <1>4, <3>1 DEF Cut, IInv, LoopInv
    <3>. QED  BY <1>0, <3>1, <3>2, <3>3 DEF Kept
  <2>2. TypeOK'
    BY <1>0, <1>4, <2>1 DEF Cut, SizeAfterCut, IInv, TypeOK, N
  <2>3. LoopInv'
    BY <1>0, <1>4, <2>1, TiledStutter DEF Cut, SizeAfterCut, IInv, TypeOK, LoopInv, N
  <2>. QED  BY <1>4, <2>2, <2>3, TiledStutter DEF Cut, IInv
<1>10. CASE SendOverlong
  <2>1. TypeOK'
    BY <1>10 DEF SendOverlong, IInv, TypeOK, N
  <2>. QED  BY <1>10, <2>1, TiledStutter DEF SendOverlong, IInv, LoopInv, N
<1>5. CASE Send
  <2> DEFINE p == [first |-> pos, count |-> c]
  <2>1. p \in [first : Nat, count : Nat] /\ p.first = Covered /\ p.count = c /\ p.first = pos
    BY <1>0, <1>5 DEF Send, IInv, TypeOK, LoopInv
  <2>2. /\ packets' \in Seq([first : Nat, count : Nat])
        /\ packets' # <<>>
        /\ Covered' = pos + c
        /\ Tiled'
    BY <1>5, <2>1, TiledAppend DEF Send, IInv
  <2>3. TypeOK'
    BY <1>0, <1>5, <2>2 DEF Send, IInv, TypeOK, N
  <2>4. LoopInv'
    BY <1>0, <1>5, <2>2 DEF Send, IInv, TypeOK, LoopInv, N
  <2>. QED  BY <2>2, <2>3, <2>4 DEF IInv
<1>6. CASE SendFails
  <2>1. TypeOK'
    BY <1>6 DEF SendFails, IInv, TypeOK, N
  <2>. QED  BY <1>6, <2>1, TiledStutter DEF SendFails, IInv, LoopInv, N
<1>7. CASE Verified
  <2>1. NextPos \in 0..N /\ c \in 0..N
    BY <1>0, <1>7 DEF Verified, NextPos, IInv, TypeOK, LoopInv
  <2>2. TypeOK'
    BY <1>0, <1>7, <2>1 DEF Verified, IInv, TypeOK, N
  <2>3. LoopInv'
    <3>1. UNCHANGED <<docs, max, size, packets>> /\ N' = N /\ Covered' = Covered
      BY <1>7, TiledStutter DEF Verified, N
    <3>2. /\ pc = "verify" /\ c >= 1 /\ pos + c <= N /\ size = 0
          /\ packets # <<>> /\ Covered = pos + c
          /\ \A k \in DOMAIN docs : docs[k] < max
          /\ pos \in Int /\ c \in Int
      BY <1>0, <1>7 DEF Verified, IInv, TypeOK, LoopInv
    <3>3. CASE NextPos < N
      <4>1. pc' = "fill" /\ i' = pos + c /\ pos' = pos + c /\ c' = 0 /\ i' - pos' = 0
        BY <1>7, <3>2, <3>3 DEF Verified, NextPos
      <4>. QED  BY <1>0, <3>1, <3>2, <3>3, <4>1 DEF LoopInv, NextPos
    <3>4. CASE ~(NextPos < N)
      <4>1. pc' = "idle" /\ pos + c = N
        BY <1>0, <1>7, <3>2, <3>4 DEF Verified, NextPos
      <4>. QED  BY <3>1, <3>2, <4>1 DEF LoopInv
    <3>. QED  BY <3>3, <3>4
  <2>. QED  BY <1>7, <2>2, <2>3, TiledStutter DEF Verified, IInv
<1>8. CASE VerifyFails
  <2>1. TypeOK'
    BY <1>8 DEF VerifyFails, IInv, TypeOK, N
  <2>. QED  BY <1>8, <2>1, TiledStutter DEF VerifyFails, IInv, LoopInv, N
<1>9. CASE UNCHANGED vars
  <2>1. TypeOK'
    BY <1>9 DEF vars, IInv, TypeOK, N
  <2>. QED  BY <1>9, <2>1, TiledStutter DEF vars, IInv, LoopInv, N
<1>. QED  BY <1>1, <1>2, <1>3, <1>4, <1>5, <1>6, <1>7, <1>8, <1>9, <1>10 DEF Next

\* The inductive invariant holds throughout.
LEMMA Inductive == Spec => []IInv
BY InitInv, NextInv, PTL DEF Spec

\* The locals of mongo_sync_cmd_insert_n keep to their ranges.
THEOREM TypeCorrect == Spec => []TypeOK
<1>1. IInv => TypeOK
  BY DEF IInv
<1>. QED  BY Inductive, <1>1, PTL

\* mongo_sync_cmd_insert_n sends the documents in order, each once, however
\* its packets are cut and wherever it stops.
THEOREM TilesDocuments == Spec => []Tiled
<1>1. IInv => Tiled
  BY DEF IInv
<1>. QED  BY Inductive, <1>1, PTL

\* mongo_sync_cmd_insert_n never makes an empty packet, and so gets on.
THEOREM MakesProgress == Spec => []ChunkProgress
<1>1. IInv => ChunkProgress
  BY DEF IInv, LoopInv, ChunkProgress
<1>. QED  BY Inductive, <1>1, PTL

\* When mongo_sync_cmd_insert_n returns TRUE its packets hold every document.
THEOREM SuccessIsComplete == Spec => []AllSent
<1>1. IInv => AllSent
  BY DEF IInv, LoopInv, AllSent, Covered
<1>. QED  BY Inductive, <1>1, PTL
-----------------------------------------------------------------------------
(* The sum of a packet's sizes.  A definition by recursion over Nat is      *)
(* opened here once: its function exists, and so obeys the recursion.       *)

Less == OpToRel(<, Nat)

LEMMA SetInduction ==
    ASSUME NEW P \in SUBSET Nat, 0 \in P, \A n \in P : n + 1 \in P
    PROVE  P = Nat
<1>1. IsWellFoundedOn(Less, Nat)
  BY NatLessThanWellFounded DEF Less
<1>2. SUFFICES ASSUME Nat \ P # {} PROVE FALSE
  OBVIOUS
<1>3. PICK n \in Nat \ P : \A m \in Nat \ P : ~(<<m, n>> \in Less)
  BY <1>1, <1>2, WFMin
<1>4. n # 0 /\ n - 1 \in Nat /\ n - 1 < n
  OBVIOUS
<1>5. <<n - 1, n>> \in Less
  BY <1>4 DEF Less, OpToRel
<1>6. n - 1 \in P
  BY <1>3, <1>4, <1>5
<1>7. (n - 1) + 1 \in P
  BY <1>6
<1>. QED  BY <1>3, <1>7

IsSum(g, n, h) == g[0] = 0 /\ \A k \in 1..n : g[k] = g[k - 1] + h[k]

LEMMA SumExists ==
    ASSUME NEW h PROVE \A n \in Nat : \E g : IsSum(g, n, h)
<1>. DEFINE P == {n \in Nat : \E g : IsSum(g, n, h)}
<1>1. 0 \in P
  <2>1. IsSum([k \in {0} |-> 0], 0, h)
    BY DEF IsSum
  <2>. QED  BY <2>1
<1>2. ASSUME NEW n \in P PROVE n + 1 \in P
  <2>1. n \in Nat
    OBVIOUS
  <2>2. PICK g : IsSum(g, n, h)
    OBVIOUS
  <2>. DEFINE f == [k \in 0..(n + 1) |-> IF k = n + 1 THEN g[n] + h[n + 1] ELSE g[k]]
  <2>3. f[0] = 0
    BY <2>1, <2>2 DEF IsSum
  <2>4. ASSUME NEW k \in 1..(n + 1) PROVE f[k] = f[k - 1] + h[k]
    <3>1. k - 1 \in 0..(n + 1) /\ k - 1 # n + 1 /\ k \in 0..(n + 1)
      BY <2>1
    <3>2. f[k - 1] = g[k - 1]
      BY <3>1
    <3>3. CASE k = n + 1
      BY <2>1, <3>1, <3>2, <3>3
    <3>4. CASE k # n + 1
      <4>1. k \in 1..n
        BY <2>1, <3>4
      <4>2. f[k] = g[k]
        BY <3>1, <3>4
      <4>. QED  BY <2>2, <3>2, <4>1, <4>2 DEF IsSum
    <3>. QED  BY <3>3, <3>4
  <2>. HIDE DEF f
  <2>5. IsSum(f, n + 1, h)
    BY <2>3, <2>4 DEF IsSum
  <2>. QED  BY <2>1, <2>5
<1>. HIDE DEF P
<1>3. P \in SUBSET Nat
  BY DEF P
<1>4. P = Nat
  BY <1>1, <1>2, <1>3, SetInduction
<1>. QED  BY <1>4 DEF P

LEMMA SumUnique ==
    ASSUME NEW h, NEW n \in Nat, NEW m \in Nat, n <= m, NEW f, NEW g,
           IsSum(f, n, h), IsSum(g, m, h)
    PROVE  f[n] = g[n]
<1>. DEFINE P == {k \in Nat : k <= n => f[k] = g[k]}
<1>1. 0 \in P
  BY DEF IsSum
<1>2. ASSUME NEW k \in P PROVE k + 1 \in P
  <2>1. k \in Nat /\ k + 1 \in Nat /\ (k + 1) - 1 = k
    OBVIOUS
  <2>2. ASSUME k + 1 <= n PROVE f[k + 1] = g[k + 1]
    <3>1. k + 1 \in 1..n /\ k + 1 \in 1..m /\ f[k] = g[k]
      BY <2>1, <2>2
    <3>. QED  BY <2>1, <3>1 DEF IsSum
  <2>. QED  BY <2>1, <2>2
<1>. HIDE DEF P
<1>3. P \in SUBSET Nat
  BY DEF P
<1>4. P = Nat
  BY <1>1, <1>2, <1>3, SetInduction
<1>. QED  BY <1>4 DEF P

SumsOf(f, h) == f = [k \in Nat |-> IF k = 0 THEN 0 ELSE f[k - 1] + h[k]]

LEMMA SumsExist == ASSUME NEW h PROVE \E f : SumsOf(f, h)
<1>. DEFINE G(k) == CHOOSE g : IsSum(g, k, h)
            f == [k \in Nat |-> G(k)[k]]
<1>1. \A k \in Nat : IsSum(G(k), k, h)
  BY SumExists
<1>. HIDE DEF G
<1>2. G(0)[0] = 0
  BY <1>1 DEF IsSum
<1>3. ASSUME NEW k \in Nat, k # 0 PROVE G(k)[k] = G(k - 1)[k - 1] + h[k]
  <2>1. k - 1 \in Nat /\ k - 1 <= k /\ k \in 1..k
    BY <1>3
  <2>2. G(k)[k] = G(k)[k - 1] + h[k]
    BY <1>1, <2>1 DEF IsSum
  <2>3. IsSum(G(k), k, h) /\ IsSum(G(k - 1), k - 1, h)
    BY <1>1, <2>1
  <2>4. G(k - 1)[k - 1] = G(k)[k - 1]
    BY <2>1, <2>3, SumUnique
  <2>. QED  BY <2>2, <2>4
<1>4. \A k \in Nat : k # 0 => k - 1 \in Nat
  OBVIOUS
<1>5. f = [k \in Nat |-> IF k = 0 THEN 0 ELSE f[k - 1] + h[k]]
  BY <1>2, <1>3, <1>4
<1>. HIDE DEF f, G
<1>. QED  BY <1>5 DEF SumsOf

\* The sums that Bytes computes, of the sizes in ds after the first ones.
Sum(ds, first) ==
    CHOOSE f : f = [k \in Nat |-> IF k = 0 THEN 0 ELSE f[k - 1] + ds[first + k]]

LEMMA BytesIsSum == ASSUME NEW p PROVE Bytes(p) = Sum(docs, p.first)[p.count]
BY DEF Bytes, Sum

LEMMA SumStep ==
    ASSUME NEW ds, NEW first
    PROVE  /\ Sum(ds, first)[0] = 0
           /\ \A k \in Nat : Sum(ds, first)[k + 1] = Sum(ds, first)[k] + ds[first + (k + 1)]
<1>. DEFINE h == [k \in Nat |-> ds[first + k]]
<1>1. \A k \in Nat : h[k] = ds[first + k]
  OBVIOUS
<1>. HIDE DEF h
<1>2. PICK f : SumsOf(f, h)
  BY SumsExist
<1>3. f = [k \in Nat |-> IF k = 0 THEN 0 ELSE f[k - 1] + ds[first + k]]
  BY <1>1, <1>2 DEF SumsOf
<1>. DEFINE s == Sum(ds, first)
<1>4. s = [k \in Nat |-> IF k = 0 THEN 0 ELSE s[k - 1] + ds[first + k]]
  BY <1>3 DEF Sum
<1>. HIDE DEF s
<1>5. s[0] = 0
  BY <1>4
<1>6. ASSUME NEW k \in Nat PROVE s[k + 1] = s[k] + ds[first + (k + 1)]
  <2>1. k + 1 \in Nat /\ k + 1 # 0 /\ (k + 1) - 1 = k
    OBVIOUS
  <2>. QED  BY <1>4, <2>1
<1>. QED  BY <1>5, <1>6 DEF s

-----------------------------------------------------------------------------
(* The size of the packets.                                                 *)

\* The n documents of ds after the first ones are finished.
Finished(ds, first, n) == \A k \in (first + 1)..(first + n) : ds[k] > 0

\* Below half the width of a gint32, the size compared with the limit is that
\* of the documents so far, if mongo_wire_cmd_insert_n can take them; without
\* the last of them it was below the limit.  So the last packet, too, is smaller
\* than twice the limit.
SizeInv ==
    2 * max <= MaxInt + 1 =>
        /\ pc = "fill" =>
             /\ Finished(docs, pos, c) => size = Sum(docs, pos)[c]
             /\ c >= 1 /\ Finished(docs, pos, c - 1) => Sum(docs, pos)[c - 1] < max
        /\ pc = "send" /\ pos + c < N /\ Finished(docs, pos, c) => Sum(docs, pos)[c] < max
        /\ pc = "send" /\ Finished(docs, pos, c) => Sum(docs, pos)[c] <= 2 * max - 2

Fits ==
    /\ \A k \in DOMAIN packets :
         End(k) < N /\ 2 * max <= MaxInt + 1 =>
             Sum(docs, packets[k].first)[packets[k].count] < max
    /\ Preamble + 2 * max <= MaxInt + 2 => pc # "undefined"

\* Adding a finished document below the limit to a size below it.
LEMMA NoWrap ==
    ASSUME NEW m \in Limits, 2 * m <= MaxInt + 1, NEW x \in (-MaxInt - 1)..MaxInt, x < m,
           NEW d \in Int, 0 < d, d < m
    PROVE  Wrap(x + d) = x + d
<1>1. MaxInt \in Nat /\ m \in Int /\ m <= MaxInt
  BY BulkInsertAssumption
<1>. QED  BY <1>1 DEF Wrap

LEMMA SizeTypes ==
    ASSUME IInv
    PROVE  /\ N \in Nat /\ DOMAIN docs = 1..N
           /\ \A k \in 1..N : docs[k] \in Int
           /\ max \in Limits /\ max \in Int /\ pos \in 0..N /\ i \in 0..N /\ c \in 0..N
           /\ size \in (-MaxInt - 1)..MaxInt /\ MaxInt \in Nat
<1>1. docs \in Lists /\ max \in Limits /\ N = Len(docs)
  BY DEF IInv, TypeOK, N
<1>2. \A d \in Sizes : d \in Int
  BY BulkInsertAssumption
<1>. QED  BY <1>1, <1>2, ListType, LimitType, BulkInsertAssumption DEF IInv, TypeOK

\* The sum of the first sizes of the list is an integer.
LEMMA SumType ==
    ASSUME IInv, NEW n \in Nat, pos + n <= N
    PROVE  Sum(docs, pos)[n] \in Int
<1>. DEFINE P == {k \in Nat : pos + k <= N => Sum(docs, pos)[k] \in Int}
<1>1. 0 \in P
  BY SumStep
<1>2. ASSUME NEW k \in P PROVE k + 1 \in P
  <2>1. Sum(docs, pos)[k + 1] = Sum(docs, pos)[k] + docs[pos + (k + 1)]
    BY SumStep
  <2>2. N \in Nat /\ pos \in 0..N /\ k \in Nat /\ \A j \in 1..N : docs[j] \in Int
    BY SizeTypes
  <2>3. pos + (k + 1) <= N => pos + (k + 1) \in 1..N /\ pos + k <= N
    BY <2>2
  <2>. QED  BY <2>1, <2>2, <2>3
<1>. HIDE DEF P
<1>3. P \in SUBSET Nat
  BY DEF P
<1>4. P = Nat
  BY <1>1, <1>2, <1>3, SetInduction
<1>. QED  BY <1>4 DEF P

LEMMA FillSize == ASSUME IInv, SizeInv, Fill PROVE SizeInv'
<1>. DEFINE s == Sum(docs, pos)
<1>1. /\ pc = "fill" /\ pc' = pc /\ i < N /\ size < max
      /\ size' = Wrap(size + docs[i + 1]) /\ c' = c + 1
      /\ UNCHANGED <<docs, max, pos>> /\ i = pos + c
  BY SizeTypes DEF Fill, IInv, LoopInv
<1>2. c \in Nat /\ pos + (c + 1) = i + 1 /\ i + 1 \in 1..N /\ pos \in Nat
  <2>1. N \in Nat /\ pos \in 0..N /\ i \in 0..N /\ c \in 0..N
    BY SizeTypes
  <2>. QED  BY <1>1, <2>1
<1>3. s[c + 1] = s[c] + docs[i + 1]
  BY <1>2, SumStep
<1>. HIDE DEF s
<1>4. ASSUME 2 * max <= MaxInt + 1, Finished(docs, pos, c) PROVE size = s[c]
  BY <1>1, <1>4 DEF SizeInv, s
<1>5. ASSUME 2 * max <= MaxInt + 1, Finished(docs, pos, c + 1) PROVE size' = s[c + 1]
  <2>1. Finished(docs, pos, c) /\ docs[i + 1] > 0
    BY <1>2, <1>5 DEF Finished
  <2>2. docs[i + 1] \in Int /\ docs[i + 1] < max
    BY <1>1, <1>2, SizeTypes DEF IInv, LoopInv
  <2>3. Wrap(size + docs[i + 1]) = size + docs[i + 1]
    BY <1>1, <1>5, <2>1, <2>2, SizeTypes, NoWrap
  <2>. QED  BY <1>1, <1>3, <1>4, <1>5, <2>1, <2>3
<1>6. ASSUME 2 * max <= MaxInt + 1, Finished(docs, pos, c) PROVE s[c] < max
  BY <1>1, <1>4, <1>6
<1>7. (c + 1) - 1 = c
  BY <1>2
<1>. QED  BY <1>1, <1>5, <1>6, <1>7 DEF SizeInv, s

LEMMA CutSize == ASSUME IInv, SizeInv, Cut PROVE SizeInv'
<1>1. /\ pc = "fill" /\ pc' = "send" /\ c' = Kept /\ UNCHANGED <<docs, max, pos>>
      /\ N' = N /\ i = pos + c
  BY SizeTypes DEF Cut, IInv, LoopInv, N
<1>0. c \in Int /\ pos \in Int /\ i \in Int /\ N \in Int /\ max \in Int /\ max >= 1
  BY SizeTypes, LimitType
<1>2. CASE i < N
  <2>1. Kept = c - 1 /\ c >= 1
    <3>1. max >= 1 /\ (c = 0 => size = 0) /\ ~(size < max)
      BY <1>1, <1>2, SizeTypes, LimitType DEF Cut, IInv, LoopInv
    <3>. QED  BY <1>2, <3>1, SizeTypes DEF Kept
  <2>2. Sum(docs, pos)[c - 1] \in Int
    <3>1. c - 1 \in Nat /\ pos + (c - 1) <= N
      BY <1>0, <1>1, <1>2, <2>1
    <3>. QED  BY <3>1, SumType
  <2>. QED  BY <1>0, <1>1, <2>1, <2>2 DEF SizeInv
<1>3. CASE ~(i < N)
  <2>1. ~(pos' + c' < N')
    BY <1>1, <1>3, SizeTypes DEF Kept
  <2>2. Kept = c /\ c >= 1 /\ c - 1 \in Nat /\ (c - 1) + 1 = c /\ pos + c \in 1..N
    BY <1>0, <1>1, <1>3, SizeTypes DEF Kept, Cut, IInv, LoopInv
  <2>3. /\ Sum(docs, pos)[c] = Sum(docs, pos)[c - 1] + docs[pos + c]
        /\ Sum(docs, pos)[c - 1] \in Int
    <3>1. pos + (c - 1) <= N
      BY <1>0, <2>2
    <3>2. Sum(docs, pos)[c - 1] \in Int
      BY <2>2, <3>1, SumType
    <3>3. Sum(docs, pos)[(c - 1) + 1] = Sum(docs, pos)[c - 1] + docs[pos + ((c - 1) + 1)]
      BY <2>2, SumStep
    <3>. QED  BY <2>2, <3>2, <3>3
  <2>4. docs[pos + c] \in Int /\ docs[pos + c] < max
    BY <1>1, <2>2, SizeTypes DEF IInv, LoopInv
  <2>5. Finished(docs, pos, c) => Finished(docs, pos, c - 1)
    BY <1>0, <2>2 DEF Finished
  <2>. QED  BY <1>0, <1>1, <2>1, <2>2, <2>3, <2>4, <2>5 DEF SizeInv
<1>. QED  BY <1>2, <1>3

LEMMA SizeStep == IInv /\ SizeInv /\ [Next]_vars => SizeInv'
<1>. SUFFICES ASSUME IInv, SizeInv, [Next]_vars PROVE SizeInv'
  OBVIOUS
<1>1. ASSUME pc' \notin {"fill", "send"} PROVE SizeInv'
  BY <1>1 DEF SizeInv
<1>2. ASSUME c' = 0, size' = 0, pc' = "fill" PROVE SizeInv'
  BY <1>2, SumStep DEF SizeInv
<1>3. ASSUME NEW m \in Limits, SetMaxInsertSize(m) PROVE SizeInv'
  BY <1>1, <1>3 DEF SetMaxInsertSize
<1>4. ASSUME NEW ds \in Lists, Insert(ds) PROVE SizeInv'
  BY <1>1, <1>2, <1>4 DEF Insert
<1>5. CASE Send \/ SendOverlong \/ SendFails \/ VerifyFails
  BY <1>1, <1>5 DEF Send, SendOverlong, SendFails, VerifyFails
<1>6. CASE Verified
  BY <1>1, <1>2, <1>6 DEF Verified, IInv, LoopInv
<1>7. CASE UNCHANGED vars
  BY <1>7 DEF vars, SizeInv, N
<1>. QED  BY <1>3, <1>4, <1>5, <1>6, <1>7, FillSize, CutSize DEF Next

LEMMA SendFits == ASSUME IInv, SizeInv, Fits, Send PROVE Fits'
<1>. DEFINE p == [first |-> pos, count |-> c]
<1>1. /\ packets \in Seq([first : Nat, count : Nat]) /\ p \in [first : Nat, count : Nat]
      /\ packets' = Append(packets, p) /\ pc = "send" /\ pc' = "verify" /\ UNCHANGED <<docs, max>> /\ N' = N
  BY SizeTypes DEF Send, IInv, TypeOK, N
<1>2. Finished(docs, pos, c)
  BY DEF Send, Buildable, Finished
<1>. HIDE DEF p
<1>3. /\ Len(packets) \in Nat /\ DOMAIN packets = 1..Len(packets)
      /\ DOMAIN packets' = 1..(Len(packets) + 1)
      /\ \A k \in 1..(Len(packets) + 1) :
            packets'[k] = IF k = Len(packets) + 1 THEN p ELSE packets[k]
  BY <1>1, LenProperties, AppendProperties
<1>4. ASSUME NEW k \in 1..(Len(packets) + 1),
             packets'[k].first + packets'[k].count < N, 2 * max <= MaxInt + 1
      PROVE  Sum(docs, packets'[k].first)[packets'[k].count] < max
  <2>1. CASE k = Len(packets) + 1
    <3>1. packets'[k].first = pos /\ packets'[k].count = c
      BY <1>3, <2>1 DEF p
    <3>. QED  BY <1>1, <1>2, <1>4, <3>1 DEF SizeInv
  <2>2. CASE k # Len(packets) + 1
    <3>1. k \in DOMAIN packets /\ packets'[k] = packets[k]
      BY <1>3, <2>2
    <3>. QED  BY <1>4, <3>1 DEF Fits, End
  <2>. QED  BY <2>1, <2>2
<1>. QED  BY <1>1, <1>3, <1>4 DEF Fits, End

\* A packet of finished documents is not overlong.
LEMMA OverlongFits == ASSUME IInv, SizeInv, Fits, SendOverlong PROVE Fits'
<1>1. pc = "send" /\ Finished(docs, pos, c) /\ UNCHANGED <<packets, docs, max>> /\ N' = N
  BY DEF SendOverlong, Buildable, Finished, N
<1>. DEFINE s == Sum(docs, pos)[c]
<1>2. Preamble + s > MaxInt
  BY BytesIsSum DEF SendOverlong, Overlong
<1>3. s \in Int
  <2>1. c \in Nat /\ pos + c <= N
    BY <1>1, SizeTypes DEF IInv, LoopInv
  <2>. QED  BY <2>1, SumType
<1>4. 2 * max <= MaxInt + 1 => s <= 2 * max - 2
  BY <1>1 DEF SizeInv
<1>. HIDE DEF s
<1>5. max \in Int /\ MaxInt \in Int /\ Preamble \in Int /\ Preamble >= 1
  BY SizeTypes, BulkInsertAssumption
<1>6. ~(Preamble + 2 * max <= MaxInt + 2)
  BY <1>2, <1>3, <1>4, <1>5
<1>. QED  BY <1>1, <1>6 DEF Fits, End

LEMMA FitsStep == IInv /\ SizeInv /\ Fits /\ [Next]_vars => Fits'
<1>. SUFFICES ASSUME IInv, SizeInv, Fits, [Next]_vars PROVE Fits'
  OBVIOUS
<1>1. ASSUME packets' = <<>>, pc' # "undefined" PROVE Fits'
  BY <1>1 DEF Fits
<1>2. ASSUME UNCHANGED <<packets, docs, max>>, pc' = pc \/ pc' # "undefined" PROVE Fits'
  BY <1>2 DEF Fits, End, N
<1>. QED
  BY <1>1, <1>2, SendFits, OverlongFits
     DEF Next, vars, SetMaxInsertSize, Insert, Fill, Cut, SendFails,
     Verified, VerifyFails

\* A packet that mongo_sync_cmd_insert_n cuts off before the end of the list is
\* smaller than max_insert_size, and none outgrows the size it is allocated with,
\* as long as twice max_insert_size is within a gint32.
THEOREM PacketsFit == Spec => []CutFits
<1>1. Init => SizeInv /\ Fits
  BY DEF Init, SizeInv, Fits
<1>2. Fits => CutFits
  BY BytesIsSum DEF Fits, CutFits
<1>. QED  BY <1>1, <1>2, SizeStep, FitsStep, Inductive, PTL DEF Spec
-----------------------------------------------------------------------------
(* Documents and cursors: any number of documents and elements, of any     *)
(* types and lengths.                                                      *)

\* An element whose type is not that of a nested document, and one whose type is:
\* a reader skips what the append wrote, and the document in it is a finished one.
PlainTypes == StringTypes \cup {"binary", "regexp"} \cup DOMAIN FixedSize
PlainElements ==
    {e \in [key : Nat, type : PlainTypes, size : Nat, bytes : Nat, inner : {None}] :
        Skip(e) = e.bytes}
InnerDocuments ==
    {d \in [state : {"finished"}, elems : Seq(PlainElements), len : Nat] :
        d.len = Size(d.elems) + 1}
NestedElements ==
    {e \in [key : Nat, type : NestedTypes, size : Nat, bytes : Nat, inner : InnerDocuments] :
        Skip(e) = e.bytes}
Elements == PlainElements \cup NestedElements

Width(e) == HeaderSize(e) + e.bytes

\* The bytes before each element, but for the length, as Offset computes them.
Widths(es) == CHOOSE f : f = [k \in Nat |-> IF k = 0 THEN 0 ELSE f[k - 1] + Width(es[k])]

LEMMA OffsetIsWidths == ASSUME NEW es, NEW k PROVE Offset(es, k) = 4 + Widths(es)[k - 1]
BY DEF Offset, Widths, Width

LEMMA WidthsStep ==
    ASSUME NEW es
    PROVE  /\ Widths(es)[0] = 0
           /\ \A k \in Nat : Widths(es)[k + 1] = Widths(es)[k] + Width(es[k + 1])
<1>. DEFINE h == [k \in Nat |-> Width(es[k])]
<1>1. \A k \in Nat : h[k] = Width(es[k])
  OBVIOUS
<1>. HIDE DEF h
<1>2. PICK f : SumsOf(f, h)
  BY SumsExist
<1>3. f = [k \in Nat |-> IF k = 0 THEN 0 ELSE f[k - 1] + Width(es[k])]
  BY <1>1, <1>2 DEF SumsOf
<1>. DEFINE s == Widths(es)
<1>4. s = [k \in Nat |-> IF k = 0 THEN 0 ELSE s[k - 1] + Width(es[k])]
  BY <1>3 DEF Widths
<1>. HIDE DEF s
<1>5. s[0] = 0
  BY <1>4
<1>6. ASSUME NEW k \in Nat PROVE s[k + 1] = s[k] + Width(es[k + 1])
  <2>1. k + 1 \in Nat /\ k + 1 # 0 /\ (k + 1) - 1 = k
    OBVIOUS
  <2>. QED  BY <1>4, <2>1
<1>. QED  BY <1>5, <1>6 DEF s

LEMMA WidthType == ASSUME NEW e \in Elements PROVE Width(e) \in Nat \ {0} /\ Skip(e) = e.bytes
BY DEF Elements, PlainElements, NestedElements, Width, HeaderSize

\* An element begins where the one before it ends.
LEMMA OffsetStep ==
    ASSUME NEW es \in Seq(Elements)
    PROVE  /\ Offset(es, 1) = 4
           /\ \A k \in 1..Len(es) : Offset(es, k + 1) = Offset(es, k) + Width(es[k])
           /\ \A k \in 1..(Len(es) + 1) : Offset(es, k) \in Nat
<1>. DEFINE s == Widths(es)
            P == {k \in Nat : k <= Len(es) => s[k] \in Nat}
<1>1. s[0] = 0 /\ \A k \in Nat : s[k + 1] = s[k] + Width(es[k + 1])
  BY WidthsStep
<1>2. Len(es) \in Nat /\ \A k \in 1..Len(es) : Width(es[k]) \in Nat
  <2>1. \A k \in 1..Len(es) : es[k] \in Elements
    OBVIOUS
  <2>. QED  BY <2>1, WidthType
<1>3. \A k : Offset(es, k) = 4 + s[k - 1]
  BY OffsetIsWidths
<1>. HIDE DEF s
<1>4. 0 \in P
  BY <1>1
<1>5. ASSUME NEW k \in P PROVE k + 1 \in P
  <2>1. SUFFICES ASSUME k + 1 <= Len(es) PROVE s[k + 1] \in Nat
    OBVIOUS
  <2>2. k \in Nat /\ k + 1 \in 1..Len(es) /\ k <= Len(es)
    BY <1>2, <2>1
  <2>3. s[k] \in Nat /\ Width(es[k + 1]) \in Nat /\ s[k + 1] = s[k] + Width(es[k + 1])
    BY <1>1, <1>2, <2>2
  <2>. QED  BY <2>3
<1>6. P = Nat
  <2>1. P \in SUBSET Nat
    OBVIOUS
  <2>. HIDE DEF P
  <2>. QED  BY <1>4, <1>5, <2>1, SetInduction
<1>7. \A k \in 0..Len(es) : s[k] \in Nat
  BY <1>2, <1>6
<1>8. Offset(es, 1) = 4
  <2>1. Offset(es, 1) = 4 + s[1 - 1] /\ s[0] = 0
    BY <1>1, <1>3
  <2>. QED  BY <2>1
<1>9. ASSUME NEW k \in 1..Len(es) PROVE Offset(es, k + 1) = Offset(es, k) + Width(es[k])
  <2>1. k - 1 \in 0..Len(es) /\ (k - 1) + 1 = k /\ (k + 1) - 1 = k
    BY <1>2
  <2>2. s[k] = s[k - 1] + Width(es[k])
    BY <1>1, <2>1
  <2>3. Offset(es, k + 1) = 4 + s[k] /\ Offset(es, k) = 4 + s[k - 1]
    BY <1>3, <2>1
  <2>4. s[k - 1] \in Nat /\ Width(es[k]) \in Nat
    BY <1>2, <1>7, <2>1
  <2>. QED  BY <2>2, <2>3, <2>4
<1>10. ASSUME NEW k \in 1..(Len(es) + 1) PROVE Offset(es, k) \in Nat
  <2>1. k - 1 \in 0..Len(es)
    BY <1>2
  <2>. QED  BY <1>3, <1>7, <2>1
<1>. QED  BY <1>8, <1>9, <1>10

\* Later elements have later offsets.
LEMMA OffsetsGrow ==
    ASSUME NEW es \in Seq(Elements), NEW j \in 1..(Len(es) + 1), NEW k \in 1..(Len(es) + 1), j < k
    PROVE  Offset(es, j) < Offset(es, k)
<1>. DEFINE o(x) == Offset(es, x)
            P == {n \in Nat : j + n + 1 <= Len(es) + 1 => o(j) < o(j + n + 1)}
<1>1. \A x \in 1..Len(es) : o(x + 1) = o(x) + Width(es[x])
  BY OffsetStep
<1>2. \A x \in 1..(Len(es) + 1) : o(x) \in Nat
  BY OffsetStep
<1>3. Len(es) \in Nat /\ \A x \in 1..Len(es) : Width(es[x]) \in Nat \ {0}
  <2>1. \A x \in 1..Len(es) : es[x] \in Elements
    OBVIOUS
  <2>. QED  BY <2>1, WidthType
<1>. HIDE DEF o
<1>4. ASSUME NEW x \in 1..Len(es) PROVE o(x) < o(x + 1)
  <2>1. x \in 1..(Len(es) + 1) /\ x + 1 \in 1..(Len(es) + 1)
    BY <1>3
  <2>. QED  BY <1>1, <1>2, <1>3, <2>1
<1>5. 0 \in P
  BY <1>3, <1>4
<1>6. ASSUME NEW n \in P PROVE n + 1 \in P
  <2>1. n \in Nat
    OBVIOUS
  <2>2. SUFFICES ASSUME j + (n + 1) + 1 <= Len(es) + 1 PROVE o(j) < o(j + (n + 1) + 1)
    OBVIOUS
  <2>3. o(j) < o(j + n + 1)
    BY <1>3, <2>1, <2>2
  <2>4. j + n + 1 \in 1..Len(es) /\ (j + n + 1) + 1 = j + (n + 1) + 1
    BY <1>3, <2>1, <2>2
  <2>5. o(j + n + 1) < o(j + (n + 1) + 1)
    BY <1>4, <2>4
  <2>6. o(j) \in Nat /\ o(j + n + 1) \in Nat /\ o(j + (n + 1) + 1) \in Nat
    BY <1>2, <1>3, <2>1, <2>2
  <2>. QED  BY <2>3, <2>5, <2>6
<1>7. P = Nat
  <2>1. P \in SUBSET Nat
    OBVIOUS
  <2>. HIDE DEF P
  <2>. QED  BY <1>5, <1>6, <2>1, SetInduction
<1>8. k - j - 1 \in Nat /\ j + (k - j - 1) + 1 = k /\ k <= Len(es) + 1
  BY <1>3
<1>9. k - j - 1 \in P
  BY <1>7, <1>8
<1>. QED  BY <1>8, <1>9 DEF o

\* The element that begins at an offset is the one of that offset.
LEMMA AtOffset ==
    ASSUME NEW es \in Seq(Elements)
    PROVE  /\ \A k \in 1..Len(es) : At(es, Offset(es, k)) = k
           /\ \A p : (\A k \in 1..Len(es) : Offset(es, k) # p) => At(es, p) = 0
<1>1. DOMAIN es = 1..Len(es) /\ Len(es) \in Nat
  OBVIOUS
<1>2. ASSUME NEW j \in 1..Len(es), NEW k \in 1..Len(es), Offset(es, j) = Offset(es, k)
      PROVE  j = k
  <2>1. j \in 1..(Len(es) + 1) /\ k \in 1..(Len(es) + 1)
    BY <1>1
  <2>2. ~(j < k) /\ ~(k < j)
    BY <1>2, <2>1, OffsetsGrow, OffsetStep
  <2>. QED  BY <1>1, <2>2
<1>. QED  BY <1>1, <1>2 DEF At

\* Appending moves no element and adds its bytes at the end.
LEMMA AppendSize ==
    ASSUME NEW es \in Seq(Elements), NEW e \in Elements
    PROVE  /\ Append(es, e) \in Seq(Elements)
           /\ Size(Append(es, e)) = Size(es) + Width(e)
<1>. DEFINE t == Append(es, e)
            P == {k \in Nat : k <= Len(es) => Widths(t)[k] = Widths(es)[k]}
<1>1. Len(t) = Len(es) + 1 /\ t[Len(es) + 1] = e /\ Len(es) \in Nat /\ t \in Seq(Elements)
  OBVIOUS
<1>2. \A k \in 1..Len(es) : t[k] = es[k]
  OBVIOUS
<1>. HIDE DEF t
<1>3. 0 \in P
  BY WidthsStep
<1>4. ASSUME NEW k \in P PROVE k + 1 \in P
  <2>1. k + 1 <= Len(es) => t[k + 1] = es[k + 1]
    BY <1>1, <1>2
  <2>2. k \in Nat /\ (k + 1 <= Len(es) => k <= Len(es))
    BY <1>1
  <2>3. /\ Widths(t)[k + 1] = Widths(t)[k] + Width(t[k + 1])
        /\ Widths(es)[k + 1] = Widths(es)[k] + Width(es[k + 1])
    BY <2>2, WidthsStep
  <2>. QED  BY <2>1, <2>2, <2>3
<1>5. P = Nat
  <2>1. P \in SUBSET Nat
    OBVIOUS
  <2>. HIDE DEF P
  <2>. QED  BY <1>3, <1>4, <2>1, SetInduction
<1>6. Widths(t)[Len(es)] = Widths(es)[Len(es)]
  BY <1>1, <1>5
<1>7. Offset(t, Len(es) + 1) = Offset(es, Len(es) + 1)
  BY <1>1, <1>6, OffsetIsWidths
<1>8. Len(es) + 1 \in 1..Len(t)
  BY <1>1
<1>9. Offset(t, (Len(es) + 1) + 1) = Offset(t, Len(es) + 1) + Width(t[Len(es) + 1])
  BY <1>1, <1>8, OffsetStep
<1>10. Size(t) = Offset(t, (Len(es) + 1) + 1) /\ Size(es) = Offset(es, Len(es) + 1)
  BY <1>1 DEF Size
<1>. QED  BY <1>1, <1>7, <1>9, <1>10 DEF t

-----------------------------------------------------------------------------
(* The lengths of documents.                                               *)

\* The length of a document is that of its elements, and one more when it is
\* finished.
SoundDocuments ==
    {d \in [state : {"none", "open", "finished"}, elems : Seq(Elements), len : Nat] :
        /\ d.state = "open" => d.len = Size(d.elems)
        /\ d.state = "finished" => d.len = Size(d.elems) + 1}

LengthsInv == documents \in [Handles -> SoundDocuments]

Empty == [state |-> "open", elems |-> <<>>, len |-> 4]

LEMMA EmptySound == Empty \in SoundDocuments /\ NoDoc \in SoundDocuments
<1>1. <<>> \in Seq(Elements) /\ Len(<<>>) = 0
  OBVIOUS
<1>2. ASSUME NEW es \in Seq(Elements), Len(es) = 0 PROVE Size(es) = 4
  <2>1. Len(es) + 1 = 1
    BY <1>2
  <2>. QED  BY <2>1, OffsetStep DEF Size
<1>3. Size(<<>>) = 4
  BY <1>1, <1>2
<1>. QED  BY <1>1, <1>3 DEF Empty, NoDoc, SoundDocuments

LEMMA SizeType == ASSUME NEW es \in Seq(Elements) PROVE Size(es) \in Nat
<1>1. Len(es) + 1 \in 1..(Len(es) + 1)
  OBVIOUS
<1>. QED  BY <1>1, OffsetStep DEF Size

LEMMA AppendSound ==
    ASSUME NEW d \in SoundDocuments, d.state = "open", NEW e \in Elements
    PROVE  Appended(d, e) \in SoundDocuments /\ Appended(d, e).state = "open"
<1>1. d.elems \in Seq(Elements) /\ d.len \in Nat /\ d.len = Size(d.elems)
  BY DEF SoundDocuments
<1>2. Append(d.elems, e) \in Seq(Elements)
      /\ Size(Append(d.elems, e)) = Size(d.elems) + Width(e)
  BY <1>1, AppendSize
<1>3. d.len + HeaderSize(e) + e.bytes = d.len + Width(e) /\ Width(e) \in Nat
  <2>1. HeaderSize(e) \in Nat /\ e.bytes \in Nat
    BY DEF Elements, PlainElements, NestedElements, HeaderSize
  <2>. QED  BY <1>1, <2>1 DEF Width
<1>4. d \in [state : {"none", "open", "finished"}, elems : Seq(Elements), len : Nat]
  BY DEF SoundDocuments
<1>5. Appended(d, e) = [d EXCEPT !.elems = Append(d.elems, e), !.len = d.len + Width(e)]
  BY <1>3, <1>4 DEF Appended
<1>6. /\ Appended(d, e) \in [state : {"none", "open", "finished"}, elems : Seq(Elements), len : Nat]
      /\ Appended(d, e).state = "open" /\ Appended(d, e).elems = Append(d.elems, e)
      /\ Appended(d, e).len = d.len + Width(e)
  <2>1. d.len + Width(e) \in Nat
    BY <1>1, <1>3
  <2>. DEFINE es == Append(d.elems, e)
              n == d.len + Width(e)
              r == Appended(d, e)
  <2>2. es \in Seq(Elements) /\ n \in Nat /\ r = [d EXCEPT !.elems = es, !.len = n]
    BY <1>2, <1>5, <2>1
  <2>. HIDE DEF es, n, r
  <2>3. /\ r \in [state : {"none", "open", "finished"}, elems : Seq(Elements), len : Nat]
        /\ r.state = "open" /\ r.elems = es /\ r.len = n
    BY <1>4, <2>2
  <2>. QED  BY <2>3 DEF es, n, r
<1>. QED  BY <1>1, <1>2, <1>6 DEF SoundDocuments

\* A finished document with no other inside can be put into one.
LEMMA InnerIsSound ==
    ASSUME NEW d \in SoundDocuments, d.state = "finished",
           \A k \in DOMAIN d.elems : d.elems[k].type \notin NestedTypes
    PROVE  d \in InnerDocuments
<1>1. d \in [state : {"none", "open", "finished"}, elems : Seq(Elements), len : Nat]
      /\ d.len = Size(d.elems) + 1
  BY DEF SoundDocuments
<1>2. DOMAIN d.elems = 1..Len(d.elems) /\ Len(d.elems) \in Nat /\ d.elems \in Seq(Elements)
  BY <1>1
<1>3. \A k \in 1..Len(d.elems) : d.elems[k] \in PlainElements
  <2>1. \A k \in 1..Len(d.elems) : d.elems[k] \in Elements /\ d.elems[k].type \notin NestedTypes
    BY <1>2
  <2>. QED  BY <2>1 DEF Elements, NestedElements
<1>4. d.elems \in Seq(PlainElements)
  BY <1>2, <1>3
<1>5. d \in [state : {"finished"}, elems : Seq(PlainElements), len : Nat]
  BY <1>1, <1>4
<1>. QED  BY <1>1, <1>5 DEF InnerDocuments

\* The other way round: what was inside a document is one of its own.
LEMMA InnerElements == ASSUME NEW es \in Seq(PlainElements) PROVE es \in Seq(Elements)
<1>1. \A k \in 1..Len(es) : es[k] \in Elements
  BY DEF Elements
<1>. QED  BY <1>1

LEMMA InnerIsDocument ==
    ASSUME NEW d \in InnerDocuments PROVE d \in SoundDocuments
BY InnerElements DEF InnerDocuments, SoundDocuments

LEMMA FixedTypes ==
    ASSUME NEW t \in DOMAIN FixedSize
    PROVE  /\ FixedSize[t] \in Nat
           /\ t \notin StringTypes /\ t \notin NestedTypes /\ t \notin {"binary", "regexp"}
BY DEF FixedSize, StringTypes, NestedTypes, DocumentTypes

\* What the append of each type writes is what a reader skips.
LEMMA StringsAreElements ==
    ASSUME NEW key \in Nat, NEW t \in StringTypes, NEW n \in Nat
    PROVE  StringElement(key, t, n) \in Elements
<1>. DEFINE e == StringElement(key, t, n)
<1>1. e = [key |-> key, type |-> t, size |-> n + 1, bytes |-> 4 + n + 1, inner |-> None]
  BY DEF StringElement, Element
<1>2. Skip(e) = (n + 1) + 4
  BY <1>1 DEF Skip, StringTypes, NestedTypes, DocumentTypes
<1>3. (n + 1) + 4 = 4 + n + 1 /\ n + 1 \in Nat /\ 4 + n + 1 \in Nat
  OBVIOUS
<1>4. /\ e \in [key : Nat, type : PlainTypes, size : Nat, bytes : Nat, inner : {None}]
      /\ e.bytes = 4 + n + 1
  BY <1>1, <1>3 DEF PlainTypes
<1>. HIDE DEF e
<1>5. e \in Elements
  BY <1>2, <1>3, <1>4 DEF Elements, PlainElements
<1>. QED  BY <1>5 DEF e

LEMMA BinariesAreElements ==
    ASSUME NEW key \in Nat, NEW n \in Nat PROVE BinaryElement(key, n) \in Elements
BY DEF BinaryElement, Element, Skip, Elements, PlainElements, PlainTypes,
       StringTypes, NestedTypes, DocumentTypes

LEMMA ExpressionsAreElements ==
    ASSUME NEW key \in Nat, NEW n \in Nat, NEW m \in Nat PROVE RegexElement(key, n, m) \in Elements
BY DEF RegexElement, Element, Skip, Elements, PlainElements, PlainTypes,
       StringTypes, NestedTypes, DocumentTypes

LEMMA FixedAreElements ==
    ASSUME NEW key \in Nat, NEW t \in DOMAIN FixedSize
    PROVE  FixedElement(key, t) \in Elements
<1>1. FixedElement(key, t) =
        [key |-> key, type |-> t, size |-> 0, bytes |-> FixedSize[t], inner |-> None]
  BY DEF FixedElement, Element
<1>2. Skip(FixedElement(key, t)) = FixedSize[t]
  BY <1>1, FixedTypes DEF Skip
<1>. QED  BY <1>1, <1>2, FixedTypes DEF Elements, PlainElements, PlainTypes

LEMMA DocumentsAreElements ==
    ASSUME NEW key \in Nat, NEW n \in Nat, NEW d \in InnerDocuments
    PROVE  /\ \A t \in DocumentTypes : DocumentElement(key, t, d) \in Elements
           /\ ScopeElement(key, n, d) \in Elements
<1>1. d.len \in Nat
  BY DEF InnerDocuments
<1>2. \A t \in NestedTypes : t \notin StringTypes /\ t \notin {"binary", "regexp"}
  BY DEF StringTypes, NestedTypes, DocumentTypes
<1>3. ASSUME NEW t \in NestedTypes, NEW b \in Nat
      PROVE  Element(key, t, b, b, d) \in Elements
  <2>. DEFINE e == Element(key, t, b, b, d)
  <2>1. e = [key |-> key, type |-> t, size |-> b, bytes |-> b, inner |-> d]
    BY DEF Element
  <2>2. Skip(e) = b
    BY <1>2, <2>1 DEF Skip
  <2>3. /\ e \in [key : Nat, type : NestedTypes, size : Nat, bytes : Nat, inner : InnerDocuments]
        /\ e.bytes = b
    BY <2>1
  <2>. HIDE DEF e
  <2>4. e \in Elements
    BY <2>2, <2>3 DEF Elements, NestedElements
  <2>. QED  BY <2>4 DEF e
<1>4. \A t \in DocumentTypes : t \in NestedTypes
  BY DEF NestedTypes
<1>5. "js_code_w_scope" \in NestedTypes /\ 8 + n + 1 + d.len \in Nat
  BY <1>1 DEF NestedTypes
<1>. QED  BY <1>1, <1>3, <1>4, <1>5 DEF DocumentElement, ScopeElement

LEMMA AvailableAreElements ==
    ASSUME LengthsInv, NEW h \in Handles, NEW e \in Available(h)
    PROVE  e \in Elements
<1>1. Keys \subseteq Nat /\ Lengths \subseteq Nat
  BY BsonDocumentAssumption
<1>2. \/ \E k \in Keys, t \in StringTypes, n \in Lengths : e = StringElement(k, t, n)
      \/ \E k \in Keys, n \in Lengths : e = BinaryElement(k, n)
      \/ \E k \in Keys, n \in Lengths : e = RegexElement(k, n, 1)
      \/ \E k \in Keys, t \in DOMAIN FixedSize : e = FixedElement(k, t)
      \/ \E k \in Keys, j \in Handles :
           /\ documents[j].state = "finished"
           /\ \A x \in DOMAIN documents[j].elems : documents[j].elems[x].type \notin NestedTypes
           /\ \/ \E t \in DocumentTypes : e = DocumentElement(k, t, documents[j])
              \/ \E n \in Lengths : e = ScopeElement(k, n, documents[j])
  BY DEF Available
<1>3. ASSUME NEW j \in Handles, documents[j].state = "finished",
             \A x \in DOMAIN documents[j].elems : documents[j].elems[x].type \notin NestedTypes
      PROVE  documents[j] \in InnerDocuments
  <2>1. documents[j] \in SoundDocuments
    BY DEF LengthsInv
  <2>. QED  BY <1>3, <2>1, InnerIsSound
<1>. QED  BY <1>1, <1>2, <1>3, StringsAreElements, BinariesAreElements, ExpressionsAreElements,
             FixedAreElements, DocumentsAreElements

\* A document that is built of its elements, whatever was refused.
LEMMA BuiltSound ==
    ASSUME NEW args, Len(args) = 1 \/ Len(args) = 2,
           \A k \in 1..Len(args) : args[k] \in Elements \/ args[k] = Refused
    PROVE  Built(args) \in SoundDocuments /\ Built(args).state = "open"
<1>. DEFINE Add(d, a) == IF a = Refused THEN d ELSE Appended(d, a)
<1>1. ASSUME NEW d \in SoundDocuments, d.state = "open", NEW k \in 1..Len(args)
      PROVE  Add(d, args[k]) \in SoundDocuments /\ Add(d, args[k]).state = "open"
  BY <1>1, AppendSound
<1>2. Empty \in SoundDocuments /\ Empty.state = "open"
  BY EmptySound DEF Empty
<1>3. Built(args) =
        IF Len(args) = 1 THEN Add(Empty, args[1]) ELSE Add(Add(Empty, args[1]), args[2])
  BY DEF Built, Empty
<1>4. 1 \in 1..Len(args) /\ (Len(args) # 1 => 2 \in 1..Len(args))
  OBVIOUS
<1>. HIDE DEF Add
<1>5. Add(Empty, args[1]) \in SoundDocuments /\ Add(Empty, args[1]).state = "open"
  BY <1>1, <1>2, <1>4
<1>6. Len(args) # 1 => Add(Add(Empty, args[1]), args[2]) \in SoundDocuments
                       /\ Add(Add(Empty, args[1]), args[2]).state = "open"
  BY <1>1, <1>4, <1>5
<1>. QED  BY <1>3, <1>5, <1>6

CursorTypes ==
    cursor.on \in Handles \cup {None} /\ cursor = [on |-> cursor.on, pos |-> cursor.pos]

\* Set puts a document at its place.
LEMMA SetSound ==
    ASSUME LengthsInv, NEW h \in Handles, NEW d \in SoundDocuments, Set(h, d)
    PROVE  LengthsInv'
BY DEF LengthsInv, Set

LEMMA LengthsStep ==
    ASSUME LengthsInv, CursorTypes, BsonNext PROVE LengthsInv'
<1>1. \A h \in Handles : documents[h] \in SoundDocuments
  BY DEF LengthsInv
<1>2. Empty \in SoundDocuments /\ NoDoc \in SoundDocuments
  BY EmptySound
<1>3. ASSUME UNCHANGED documents PROVE LengthsInv'
  BY <1>3 DEF LengthsInv
\* A document that is finished gets a last byte; one that is taken from the data
\* of another loses it.
<1>4. ASSUME NEW d \in SoundDocuments, d.state # "none"
      PROVE  [d EXCEPT !.state = "finished", !.len = IF d.state = "open" THEN @ + 1 ELSE @]
             \in SoundDocuments
  <2>. DEFINE r == [d EXCEPT !.state = "finished", !.len = IF d.state = "open" THEN @ + 1 ELSE @]
  <2>1. /\ d \in [state : {"none", "open", "finished"}, elems : Seq(Elements), len : Nat]
        /\ d.state = "open" => d.len = Size(d.elems)
        /\ d.state = "finished" => d.len = Size(d.elems) + 1
    BY DEF SoundDocuments
  <2>2. /\ r \in [state : {"none", "open", "finished"}, elems : Seq(Elements), len : Nat]
        /\ r.state = "finished" /\ r.elems = d.elems
        /\ r.len = IF d.state = "open" THEN d.len + 1 ELSE d.len
    <3>. DEFINE n == IF d.state = "open" THEN d.len + 1 ELSE d.len
    <3>1. r = [d EXCEPT !.state = "finished", !.len = n]
      BY <2>1
    <3>2. n \in Nat
      BY <2>1
    <3>. HIDE DEF n, r
    <3>3. /\ r \in [state : {"none", "open", "finished"}, elems : Seq(Elements), len : Nat]
          /\ r.state = "finished" /\ r.elems = d.elems /\ r.len = n
      BY <2>1, <3>1, <3>2
    <3>. QED  BY <3>3 DEF n
  <2>. HIDE DEF r
  <2>3. r \in SoundDocuments
    BY <1>4, <2>1, <2>2 DEF SoundDocuments
  <2>. QED  BY <2>3 DEF r
<1>5. ASSUME NEW d \in SoundDocuments, d.state = "finished" PROVE Copied(d) \in SoundDocuments
  <2>. DEFINE r == Copied(d)
  <2>1. /\ d \in [state : {"none", "open", "finished"}, elems : Seq(Elements), len : Nat]
        /\ d.len = Size(d.elems) + 1 /\ Size(d.elems) \in Nat
    BY <1>5, SizeType DEF SoundDocuments
  <2>2. d.len - 1 \in Nat /\ d.len - 1 = Size(d.elems)
    BY <2>1
  <2>3. /\ r \in [state : {"none", "open", "finished"}, elems : Seq(Elements), len : Nat]
        /\ r.state = "open" /\ r.elems = d.elems /\ r.len = d.len - 1
    BY <2>1, <2>2 DEF Copied
  <2>. HIDE DEF r
  <2>4. r \in SoundDocuments
    BY <2>2, <2>3 DEF SoundDocuments
  <2>. QED  BY <2>4 DEF r
<1>6. ASSUME NEW h \in Handles, New(h) \/ Reset(h) PROVE LengthsInv'
  <2>1. Set(h, Empty)
    BY <1>6 DEF New, Reset, Empty
  <2>. QED  BY <1>2, <2>1, SetSound
<1>7. ASSUME NEW h \in Handles, Free(h) PROVE LengthsInv'
  <2>1. Set(h, NoDoc)
    BY <1>7 DEF Free
  <2>. QED  BY <1>2, <2>1, SetSound
<1>8. ASSUME NEW h \in Handles, Finish(h) PROVE LengthsInv'
  <2>1. CASE documents[h].state = "finished"
    <3>1. Set(h, documents[h])
      BY <1>8, <2>1 DEF Finish
    <3>. QED  BY <1>1, <3>1, SetSound
  <2>2. CASE documents[h].state # "finished"
    <3>1. documents[h].state # "none" /\ documents[h].state = "open"
      BY <1>1, <1>8, <2>2 DEF Finish, SoundDocuments
    <3>. DEFINE r == [documents[h] EXCEPT !.state = "finished",
                                          !.len = IF documents[h].state = "open" THEN @ + 1 ELSE @]
    <3>2. r = [documents[h] EXCEPT !.state = "finished", !.len = @ + 1]
      BY <3>1
    <3>3. Set(h, r)
      <4>. HIDE DEF r
      <4>. QED  BY <1>8, <2>2, <3>2 DEF Finish
    <3>4. r \in SoundDocuments
      BY <1>1, <1>4, <3>1
    <3>. HIDE DEF r
    <3>. QED  BY <3>3, <3>4, SetSound
  <2>. QED  BY <2>1, <2>2
<1>9. ASSUME NEW h \in Handles, AppendRefused(h) PROVE LengthsInv'
  BY <1>3, <1>9 DEF AppendRefused
<1>10. ASSUME NEW h \in Handles, NEW from \in Handles, NewFromData(h, from) PROVE LengthsInv'
  <2>1. Set(h, Copied(documents[from])) /\ documents[from].state = "finished"
    BY <1>10 DEF NewFromData
  <2>2. Copied(documents[from]) \in SoundDocuments
    BY <1>1, <1>5, <2>1
  <2>. QED  BY <2>1, <2>2, SetSound
<1>11. ASSUME NEW h \in Handles, NEW e \in Available(h), AppendElement(h, e) PROVE LengthsInv'
  <2>1. Set(h, Appended(documents[h], e)) /\ documents[h].state = "open"
    BY <1>11 DEF AppendElement
  <2>2. Appended(documents[h], e) \in SoundDocuments
    BY <1>1, <2>1, AvailableAreElements, AppendSound
  <2>. QED  BY <2>1, <2>2, SetSound
<1>12. ASSUME NEW h \in Handles, NEW args \in Arguments(h), Build(h, args) PROVE LengthsInv'
  <2>. DEFINE one == Available(h) \cup {Refused, Unsupported}
  <2>1. \/ \E a \in one : args = <<a>>
        \/ \E a, b \in one : args = <<a, b>>
    BY DEF Arguments
  <2>2. Len(args) = 1 \/ Len(args) = 2
    BY <2>1
  <2>3. \A k \in 1..Len(args) : args[k] \in one /\ k \in DOMAIN args
    BY <2>1
  <2>4. CASE Set(h, Built(args)) /\ \A k \in DOMAIN args : args[k] # Unsupported
    <3>1. \A k \in 1..Len(args) : args[k] \in Elements \/ args[k] = Refused
      BY <2>3, <2>4, AvailableAreElements
    <3>2. Built(args) \in SoundDocuments
      BY <2>2, <3>1, BuiltSound
    <3>. QED  BY <2>4, <3>2, SetSound
  <2>5. CASE UNCHANGED documents
    BY <1>3, <2>5
  <2>. HIDE DEF one
  <2>6. \/ UNCHANGED documents
        \/ Set(h, Built(args)) /\ \A k \in DOMAIN args : args[k] # Unsupported
    BY <1>12 DEF Build
  <2>. QED  BY <2>4, <2>5, <2>6
<1>13. ASSUME NEW h \in Handles, NEW j \in Handles, NEW key \in Keys, BuildAndFree(h, j, key)
       PROVE  LengthsInv'
  <2>. DEFINE inner == [documents[j] EXCEPT !.state = "finished",
                                            !.len = IF documents[j].state = "open" THEN @ + 1 ELSE @]
              d == Built(<<DocumentElement(key, "document", inner)>>)
  <2>1. /\ documents[j].state # "none" /\ \A x \in DOMAIN inner.elems : inner.elems[x].type \notin NestedTypes
        /\ documents' = [documents EXCEPT ![h] = d, ![j] = NoDoc]
    BY <1>13 DEF BuildAndFree
  <2>2. inner \in SoundDocuments
    BY <1>1, <1>4, <2>1
  <2>3. inner.state = "finished"
    <3>1. documents[j] \in [state : {"none", "open", "finished"}, elems : Seq(Elements), len : Nat]
      BY <1>1 DEF SoundDocuments
    <3>. QED  BY <3>1
  <2>. HIDE DEF inner
  <2>4. inner \in InnerDocuments
    BY <2>1, <2>2, <2>3, InnerIsSound
  <2>5. key \in Nat /\ 0 \in Nat /\ "document" \in DocumentTypes
    BY BsonDocumentAssumption DEF DocumentTypes
  <2>6. DocumentElement(key, "document", inner) \in Elements
    BY <2>4, <2>5, DocumentsAreElements
  <2>7. d \in SoundDocuments
    <3>. DEFINE args == <<DocumentElement(key, "document", inner)>>
    <3>1. Len(args) = 1 /\ \A k \in 1..Len(args) : args[k] \in Elements
      BY <2>6
    <3>. HIDE DEF args
    <3>2. Built(args) \in SoundDocuments
      BY <3>1, BuiltSound
    <3>. QED  BY <3>2 DEF args
  <2>. HIDE DEF d
  <2>. QED  BY <1>2, <2>1, <2>7 DEF LengthsInv
\* What is taken out of a document was whole inside it.
<1>14. ASSUME NEW h \in Handles, GetNested(h) PROVE LengthsInv'
  <2>. DEFINE under == documents[cursor.on]
              k == At(under.elems, cursor.pos)
              e == under.elems[k]
  <2>1. /\ cursor.on # None /\ k # 0 /\ e.type \in NestedTypes
        /\ Set(h, [state |-> "finished", elems |-> e.inner.elems, len |-> 4 + Body(e.inner) + 1])
    BY <1>14 DEF GetNested, Aimed, Here, Under
  <2>2. cursor.on \in Handles
    BY <2>1 DEF CursorTypes
  <2>3. under.elems \in Seq(Elements)
    BY <1>1, <2>2 DEF SoundDocuments
  <2>4. k \in DOMAIN under.elems
    BY <2>1 DEF At
  <2>5. e \in Elements
    BY <2>3, <2>4
  <2>. HIDE DEF e
  <2>6. e.inner \in InnerDocuments
    <3>1. \A t \in PlainTypes : t \notin NestedTypes
      BY FixedTypes DEF PlainTypes, StringTypes, NestedTypes, DocumentTypes
    <3>. QED  BY <2>1, <2>5, <3>1 DEF Elements, PlainElements, NestedElements
  <2>. DEFINE d == [state |-> "finished", elems |-> e.inner.elems, len |-> 4 + Body(e.inner) + 1]
  <2>7. e.inner.elems \in Seq(Elements) /\ e.inner.len = Size(e.inner.elems) + 1 /\ e.inner.len \in Nat
    BY <2>6, InnerElements DEF InnerDocuments
  <2>8. 4 + Body(e.inner) + 1 = e.inner.len
    BY <2>7 DEF Body
  <2>9. d \in SoundDocuments
    BY <2>7, <2>8 DEF SoundDocuments
  <2>. HIDE DEF d
  <2>10. Set(h, d)
    BY <2>1 DEF d
  <2>. QED  BY <2>9, <2>10, SetSound
\* No other use of a cursor changes a document.
<1>15. ASSUME Cursors, \A h \in Handles : ~GetNested(h) PROVE LengthsInv'
  <2>1. ASSUME CursorFree \/ CursorNext \/ GetStray PROVE UNCHANGED documents
    BY <2>1 DEF CursorFree, CursorNext, GetStray, Stays, Moves, Misread, Crash
  <2>2. ASSUME NEW h, CursorNew(h) PROVE UNCHANGED documents
    BY <2>2 DEF CursorNew
  <2>3. ASSUME NEW h, NEW k, DocumentFind(h, k) PROVE UNCHANGED documents
    BY <2>3 DEF DocumentFind
  <2>4. ASSUME NEW k, NEW p, Search(k, p) PROVE UNCHANGED documents
    BY <2>4 DEF Search, Found, Stays, Moves, Misread, Crash
  <2>5. ASSUME NEW t, Get(t) PROVE UNCHANGED documents
    BY <2>5 DEF Get, Stays, Crash
  <2>6. UNCHANGED documents
    BY <1>15, <2>1, <2>2, <2>3, <2>4, <2>5 DEF Cursors, CursorFind, CursorFindNext
  <2>. QED  BY <1>3, <2>6
<1>16. ASSUME Documents PROVE LengthsInv'
  BY <1>6, <1>7, <1>8, <1>9, <1>10, <1>11, <1>12, <1>13, <1>16 DEF Documents
<1>. QED  BY <1>14, <1>15, <1>16 DEF BsonNext

-----------------------------------------------------------------------------
(* The loop that looks for a key.                                          *)

\* The elements of that name from j on and before t, and the first of them.
Hits(es, name, j, t) == {m \in j..(t - 1) : es[m].key = name}
First(S) == CHOOSE m \in S : \A q \in S : m <= q

\* Where the loop stops that begins with element j: 0 without a hit.
Stop(es, name, j, t) ==
    IF Hits(es, name, j, t) = {} THEN 0 ELSE Offset(es, First(Hits(es, name, j, t)))

LEMMA FirstIsFirst ==
    ASSUME NEW S \in SUBSET Nat, S # {} PROVE First(S) \in S /\ \A q \in S : First(S) <= q
<1>1. IsWellFoundedOn(Less, Nat)
  BY NatLessThanWellFounded DEF Less
<1>2. PICK m \in S : \A q \in S : ~(<<q, m>> \in Less)
  BY <1>1, WFMin
<1>3. \A x, y \in Nat : <<x, y>> \in Less <=> x < y
  BY DEF Less, OpToRel
<1>4. \A q \in S : m <= q
  <2>1. \A q \in S : q \in Nat /\ m \in Nat
    OBVIOUS
  <2>2. \A q \in S : ~(q < m)
    BY <1>2, <1>3, <2>1, Zenon
  <2>. QED  BY <2>1, <2>2
<1>. QED  BY <1>4 DEF First

LEMMA StopAtEnd == ASSUME NEW es, NEW name, NEW t \in Nat PROVE Stop(es, name, t, t) = 0
<1>1. Hits(es, name, t, t) = {}
  BY DEF Hits
<1>. QED  BY <1>1 DEF Stop

LEMMA StopStep ==
    ASSUME NEW es, NEW name, NEW t \in Nat, NEW k \in 1..(t - 1)
    PROVE  Stop(es, name, k, t) =
               IF es[k].key = name THEN Offset(es, k) ELSE Stop(es, name, k + 1, t)
<1>1. ASSUME es[k].key = name PROVE Stop(es, name, k, t) = Offset(es, k)
  <2>. DEFINE S == Hits(es, name, k, t)
  <2>1. S \in SUBSET Nat /\ k \in S /\ \A q \in S : k <= q
    BY <1>1 DEF Hits
  <2>. HIDE DEF S
  <2>2. First(S) \in S /\ First(S) <= k /\ k <= First(S) /\ First(S) \in Nat
    BY <2>1, FirstIsFirst
  <2>3. First(S) = k /\ S # {}
    BY <2>1, <2>2
  <2>. QED  BY <2>3 DEF Stop, S
<1>2. ASSUME es[k].key # name PROVE Stop(es, name, k, t) = Stop(es, name, k + 1, t)
  <2>1. Hits(es, name, k, t) = Hits(es, name, k + 1, t)
    BY <1>2 DEF Hits
  <2>. QED  BY <2>1 DEF Stop
<1>. QED  BY <1>1, <1>2

\* One round of the loop at position p, its next round being f.
Round(f, es, name, to, p) ==
    IF p >= to THEN 0
    ELSE LET k == At(es, p) IN
         IF k = 0 THEN Astray
         ELSE IF es[k].key = name THEN p
         ELSE f[p + HeaderSize(es[k]) + Skip(es[k])]

Scanning(f, es, name, to) == f = [p \in Nat |-> Round(f, es, name, to, p)]

LEMMA ScanIsChosen ==
    ASSUME NEW es, NEW name, NEW from, NEW to
    PROVE  Scan(es, name, from, to) = (CHOOSE f : Scanning(f, es, name, to))[from]
BY DEF Scan, Scanning, Round

\* Before t: what element k begins with, and where the next one begins.
LEMMA NextRound ==
    ASSUME NEW es \in Seq(Elements), NEW t \in 1..(Len(es) + 1), NEW k \in 1..Len(es)
    PROVE  /\ Offset(es, k) \in Nat
           /\ Offset(es, k) + HeaderSize(es[k]) + Skip(es[k]) = Offset(es, k + 1)
           /\ At(es, Offset(es, k)) = k
           /\ Offset(es, k) < Offset(es, t) <=> k < t
           /\ Offset(es, t) \in Nat
<1>1. Len(es) \in Nat /\ k \in 1..(Len(es) + 1) /\ es[k] \in Elements
  OBVIOUS
<1>2. /\ Offset(es, k) \in Nat /\ Offset(es, t) \in Nat
      /\ Offset(es, k + 1) = Offset(es, k) + Width(es[k])
  BY <1>1, OffsetStep
<1>3. /\ Skip(es[k]) = es[k].bytes /\ es[k].bytes \in Nat /\ HeaderSize(es[k]) \in Nat
  BY <1>1 DEF Elements, PlainElements, NestedElements, HeaderSize
<1>4. At(es, Offset(es, k)) = k
  BY AtOffset
<1>5. k < t => Offset(es, k) < Offset(es, t)
  BY <1>1, OffsetsGrow
<1>6. t < k => Offset(es, t) < Offset(es, k)
  BY <1>1, OffsetsGrow
<1>7. Offset(es, k) < Offset(es, t) <=> k < t
  BY <1>1, <1>2, <1>5, <1>6
<1>8. Offset(es, k) + HeaderSize(es[k]) + Skip(es[k]) = Offset(es, k + 1)
  BY <1>2, <1>3 DEF Width
<1>. QED  BY <1>2, <1>4, <1>7, <1>8

LEMMA ScanExists ==
    ASSUME NEW es \in Seq(Elements), NEW name, NEW t \in 1..(Len(es) + 1)
    PROVE  \E f : Scanning(f, es, name, Offset(es, t))
<1>. DEFINE to == Offset(es, t)
            V(p) == IF p >= to THEN 0
                    ELSE IF At(es, p) = 0 THEN Astray ELSE Stop(es, name, At(es, p), t)
            f == [p \in Nat |-> V(p)]
<1>1. ASSUME NEW p \in Nat PROVE V(p) = Round(f, es, name, to, p)
  <2>1. CASE p >= to \/ At(es, p) = 0
    BY <2>1 DEF Round
  <2>2. CASE ~(p >= to) /\ At(es, p) # 0
    <3>. DEFINE k == At(es, p)
    <3>1. DOMAIN es = 1..Len(es) /\ Len(es) \in Nat /\ t \in Nat
      OBVIOUS
    <3>2. k \in 1..Len(es) /\ Offset(es, k) = p
      BY <2>2, <3>1 DEF At
    <3>. HIDE DEF k
    <3>3. /\ p + HeaderSize(es[k]) + Skip(es[k]) = Offset(es, k + 1)
          /\ p < to <=> k < t
          /\ to \in Nat
      BY <3>2, NextRound
    <3>4. k < t /\ k \in 1..(t - 1)
      BY <2>2, <3>1, <3>2, <3>3
    <3>5. V(p) = Stop(es, name, k, t)
      BY <2>2 DEF k
    <3>6. CASE es[k].key = name
      <4>1. Stop(es, name, k, t) = p
        BY <3>1, <3>2, <3>4, <3>6, StopStep
      <4>2. Round(f, es, name, to, p) = p
        BY <2>2, <3>6 DEF Round, k
      <4>. QED  BY <3>5, <4>1, <4>2
    <3>7. CASE es[k].key # name
      <4>. DEFINE q == Offset(es, k + 1)
      <4>1. Stop(es, name, k, t) = Stop(es, name, k + 1, t)
        BY <3>1, <3>4, <3>7, StopStep
      <4>2. k + 1 \in 1..(Len(es) + 1)
        BY <3>1, <3>2
      <4>3. q \in Nat
        BY <4>2, OffsetStep
      <4>4. Round(f, es, name, to, p) = V(q)
        <5>1. Round(f, es, name, to, p) = f[q]
          BY <2>2, <3>3, <3>7 DEF Round, k
        <5>. QED  BY <4>3, <5>1
      <4>5. CASE k + 1 = t
        <5>1. V(q) = 0
          BY <3>3, <4>5
        <5>2. Stop(es, name, k + 1, t) = 0
          BY <3>1, <4>5, StopAtEnd
        <5>. QED  BY <3>5, <4>1, <4>4, <5>1, <5>2
      <4>6. CASE k + 1 # t
        <5>1. k + 1 < t /\ k + 1 \in 1..Len(es)
          BY <3>1, <3>2, <3>4, <4>6
        <5>2. At(es, q) = k + 1 /\ q < to
          BY <5>1, NextRound
        <5>3. V(q) = Stop(es, name, k + 1, t)
          <6>1. ~(q >= to) /\ k + 1 # 0
            BY <3>2, <3>3, <4>3, <5>2
          <6>. QED  BY <5>2, <6>1
        <5>. QED  BY <3>5, <4>1, <4>4, <5>3
      <4>. QED  BY <4>5, <4>6
    <3>. QED  BY <3>6, <3>7
  <2>. QED  BY <2>1, <2>2
<1>. HIDE DEF V
<1>2. f = [p \in Nat |-> Round(f, es, name, to, p)]
  BY <1>1
<1>. HIDE DEF f
<1>. QED  BY <1>2 DEF Scanning

\* From element j on the loop stops at the first element of that name.
LEMMA ScanFinds ==
    ASSUME NEW es \in Seq(Elements), NEW name, NEW t \in 1..(Len(es) + 1), NEW j \in 1..t
    PROVE  Scan(es, name, Offset(es, j), Offset(es, t)) = Stop(es, name, j, t)
<1>. DEFINE to == Offset(es, t)
            f == CHOOSE g : Scanning(g, es, name, to)
            P == {n \in Nat : n < t => f[Offset(es, t - n)] = Stop(es, name, t - n, t)}
<1>1. Scanning(f, es, name, to)
  BY ScanExists
<1>. HIDE DEF f
<1>2. \A p \in Nat : f[p] = Round(f, es, name, to, p)
  BY <1>1 DEF Scanning
<1>3. Len(es) \in Nat /\ t \in Nat /\ to \in Nat
  BY OffsetStep
<1>4. 0 \in P
  <2>1. f[to] = 0
    BY <1>2, <1>3 DEF Round
  <2>2. t - 0 = t
    BY <1>3
  <2>. QED  BY <1>3, <2>1, <2>2, StopAtEnd
<1>5. ASSUME NEW n \in P PROVE n + 1 \in P
  <2>1. n \in Nat
    OBVIOUS
  <2>2. SUFFICES ASSUME n + 1 < t
                 PROVE  f[Offset(es, t - (n + 1))] = Stop(es, name, t - (n + 1), t)
    BY <2>1
  <2>. DEFINE k == t - (n + 1)
  <2>3. k \in 1..Len(es) /\ k \in 1..(t - 1) /\ k < t /\ k + 1 = t - n /\ n < t
    BY <1>3, <2>1, <2>2
  <2>4. f[Offset(es, k + 1)] = Stop(es, name, k + 1, t)
    BY <2>3
  <2>. HIDE DEF P, k
  <2>5. /\ Offset(es, k) \in Nat
        /\ Offset(es, k) + HeaderSize(es[k]) + Skip(es[k]) = Offset(es, k + 1)
        /\ At(es, Offset(es, k)) = k
        /\ Offset(es, k) < to
    BY <2>3, NextRound
  <2>6. ~(Offset(es, k) >= to) /\ k # 0
    BY <1>3, <2>3, <2>5
  <2>7. f[Offset(es, k)] =
          IF es[k].key = name THEN Offset(es, k) ELSE f[Offset(es, k + 1)]
    BY <1>2, <2>5, <2>6 DEF Round
  <2>8. Stop(es, name, k, t) =
          IF es[k].key = name THEN Offset(es, k) ELSE Stop(es, name, k + 1, t)
    BY <1>3, <2>3, StopStep
  <2>9. f[Offset(es, k)] = Stop(es, name, k, t)
    BY <2>4, <2>7, <2>8
  <2>. QED  BY <2>9 DEF k
<1>6. P = Nat
  <2>1. P \in SUBSET Nat
    OBVIOUS
  <2>. HIDE DEF P
  <2>. QED  BY <1>4, <1>5, <2>1, SetInduction
<1>7. t - j \in Nat /\ t - j < t /\ t - (t - j) = j
  BY <1>3
<1>8. f[Offset(es, j)] = Stop(es, name, j, t)
  <2>1. t - j \in P
    BY <1>6, <1>7
  <2>. QED  BY <1>7, <2>1
<1>. QED  BY <1>8, ScanIsChosen DEF f

-----------------------------------------------------------------------------
(* The cursor.                                                             *)

AtElement(es, p) == \E k \in 1..Len(es) : p = Offset(es, k)

\* A cursor that was used as it should be is new or at an element and its value,
\* and the document under it is finished.
CursorInv ==
    cursor.on # None /\ ~excused =>
        /\ documents[cursor.on].state = "finished"
        /\ cursor.pos = 0 \/ AtElement(documents[cursor.on].elems, cursor.pos)
        /\ cursor.pos # 0 => value_pos = ValueAt(documents[cursor.on].elems, cursor.pos)

BsonInv == LengthsInv /\ CursorTypes /\ CursorInv

\* The element at the cursor, 0 for a new one.
LEMMA PlaceOfCursor ==
    ASSUME NEW es \in Seq(Elements), NEW p, p = 0 \/ AtElement(es, p)
    PROVE  /\ At(es, p) \in 0..Len(es)
           /\ p = 0 => At(es, p) = 0
           /\ p # 0 => At(es, p) # 0 /\ p = Offset(es, At(es, p))
<1>1. Len(es) \in Nat
  OBVIOUS
<1>2. CASE p = 0
  <2>1. \A k \in 1..Len(es) : Offset(es, k) # 0
    <3>1. ASSUME NEW k \in 1..Len(es) PROVE Offset(es, k) # 0
      <4>1. 1 \in 1..(Len(es) + 1) /\ k \in 1..(Len(es) + 1)
        BY <1>1
      <4>2. Offset(es, 1) = 4 /\ Offset(es, k) \in Nat
        BY <4>1, OffsetStep
      <4>3. 1 < k => Offset(es, 1) < Offset(es, k)
        BY <4>1, OffsetsGrow
      <4>. QED  BY <4>2, <4>3
    <3>. QED  BY <3>1
  <2>2. At(es, p) = 0
    BY <1>2, <2>1, AtOffset
  <2>. QED  BY <1>1, <1>2, <2>2
<1>3. CASE p # 0
  <2>1. PICK k \in 1..Len(es) : p = Offset(es, k)
    BY <1>3 DEF AtElement
  <2>2. At(es, p) = k
    BY <2>1, AtOffset
  <2>. QED  BY <1>1, <1>3, <2>1, <2>2
<1>. QED  BY <1>2, <1>3

\* The document under such a cursor.
LEMMA UnderCursor ==
    ASSUME BsonInv, cursor.on # None, ~excused
    PROVE  /\ Under = documents[cursor.on] /\ Under.state = "finished"
           /\ Under.elems \in Seq(Elements)
           /\ Under.len - 1 = Offset(Under.elems, Len(Under.elems) + 1)
           /\ cursor.pos = 0 \/ AtElement(Under.elems, cursor.pos)
           /\ cursor.pos # 0 => value_pos = ValueAt(Under.elems, cursor.pos)
<1>1. Under = documents[cursor.on]
  BY DEF Under
<1>2. Under \in SoundDocuments
  BY <1>1 DEF BsonInv, LengthsInv, CursorTypes
<1>3. /\ Under.state = "finished" /\ (cursor.pos = 0 \/ AtElement(Under.elems, cursor.pos))
      /\ cursor.pos # 0 => value_pos = ValueAt(Under.elems, cursor.pos)
  BY <1>1 DEF BsonInv, CursorInv
<1>4. Under.elems \in Seq(Elements) /\ Under.len = Size(Under.elems) + 1
  BY <1>2, <1>3 DEF SoundDocuments
<1>5. Size(Under.elems) \in Nat
  BY <1>4, SizeType
<1>6. Under.len - 1 = Size(Under.elems)
  BY <1>4, <1>5
<1>. QED  BY <1>1, <1>3, <1>4, <1>6 DEF Size

\* The cursor goes to an element.
LEMMA MovesToElement ==
    ASSUME NEW es \in Seq(Elements), es = Under.elems, NEW k \in 1..Len(es),
           NEW a, Moves(Offset(es, k), a)
    PROVE  /\ cursor' = [cursor EXCEPT !.pos = Offset(es, k)]
           /\ value_pos' = ValueAt(es, Offset(es, k))
           /\ answer' = a /\ UNCHANGED documents
<1>1. At(es, Offset(es, k)) = k /\ k # 0
  BY AtOffset
<1>. QED  BY <1>1 DEF Moves, Answers

\* What bson_cursor_next does.
LEMMA NextOutcome ==
    ASSUME BsonInv, cursor.on # None, ~excused, CursorNext,
           NEW es, es = Under.elems, NEW here, here = At(es, cursor.pos)
    PROVE  /\ es \in Seq(Elements) /\ here \in 0..Len(es) /\ UNCHANGED <<documents, excused>>
           /\ here = Len(es) => answer' = "FALSE" /\ UNCHANGED <<cursor, value_pos>>
           /\ here # Len(es) =>
                /\ answer' = "TRUE" /\ cursor' = [cursor EXCEPT !.pos = Offset(es, here + 1)]
                /\ value_pos' = ValueAt(es, Offset(es, here + 1))
<1>1. /\ Under.state = "finished" /\ es \in Seq(Elements)
      /\ Under.len - 1 = Offset(es, Len(es) + 1)
      /\ cursor.pos = 0 \/ AtElement(es, cursor.pos)
      /\ cursor.pos # 0 => value_pos = ValueAt(es, cursor.pos)
  BY UnderCursor
<1>2. /\ here \in 0..Len(es)
      /\ cursor.pos = 0 => here = 0
      /\ cursor.pos # 0 => here # 0 /\ cursor.pos = Offset(es, here)
  BY <1>1, PlaceOfCursor
<1>3. Len(es) \in Nat /\ Len(es) + 1 \in 1..(Len(es) + 1)
  BY <1>1
<1>. DEFINE p == Offset(es, here + 1)
<1>4. p \in Nat /\ Offset(es, Len(es) + 1) \in Nat
  <2>1. here + 1 \in 1..(Len(es) + 1)
    BY <1>2, <1>3
  <2>. QED  BY <1>1, <1>3, <2>1, OffsetStep
<1>5. AtEnd(p) <=> here = Len(es)
  <2>1. here = Len(es) => p = Offset(es, Len(es) + 1)
    OBVIOUS
  <2>2. here # Len(es) => here + 1 \in 1..Len(es) /\ here + 1 < Len(es) + 1
    BY <1>2, <1>3
  <2>3. here # Len(es) => p < Offset(es, Len(es) + 1)
    BY <1>1, <1>3, <2>2, NextRound
  <2>. QED  BY <1>1, <1>4, <2>1, <2>3 DEF AtEnd
<1>6. /\ cursor.pos = 0 => p = 4
      /\ cursor.pos # 0 => p = cursor.pos + HeaderSize(Here) + Skip(Here)
  <2>1. cursor.pos = 0 => here + 1 = 1
    BY <1>2
  <2>2. cursor.pos # 0 => here \in 1..Len(es)
    BY <1>2, <1>3
  <2>3. Here = es[here]
    BY DEF Here
  <2>4. Offset(es, 1) = 4
    BY <1>1, OffsetStep
  <2>5. cursor.pos # 0 =>
          p = Offset(es, here) + HeaderSize(es[here]) + Skip(es[here])
    BY <1>1, <1>3, <2>2, NextRound
  <2>. QED  BY <1>2, <2>1, <2>3, <2>4, <2>5
<1>. HIDE DEF p
<1>7. /\ UNCHANGED excused
      /\ IF AtEnd(p) THEN Stays("FALSE") ELSE Moves(p, "TRUE")
  <2>1. CASE cursor.pos = 0
    BY <1>1, <1>6, <2>1 DEF CursorNext
  <2>2. CASE cursor.pos # 0
    <3>1. Aimed
      BY <1>1, <1>2, <2>2 DEF Aimed
    <3>2. value_pos = cursor.pos + HeaderSize(Here)
      BY <1>1, <1>2, <2>2 DEF ValueAt, Here
    <3>3. /\ UNCHANGED excused
          /\ IF AtEnd(value_pos + Skip(Here)) THEN Stays("FALSE")
             ELSE Moves(value_pos + Skip(Here), "TRUE")
      BY <1>1, <2>2, <3>1 DEF CursorNext
    <3>. QED  BY <1>6, <2>2, <3>2, <3>3
  <2>. QED  BY <2>1, <2>2
<1>8. here = Len(es) => answer' = "FALSE" /\ UNCHANGED <<cursor, value_pos, documents>>
  BY <1>5, <1>7 DEF Stays, Answers
<1>9. ASSUME here # Len(es)
      PROVE  /\ answer' = "TRUE" /\ cursor' = [cursor EXCEPT !.pos = p] /\ UNCHANGED documents
             /\ value_pos' = ValueAt(es, p)
  <2>1. Moves(p, "TRUE")
    BY <1>5, <1>7, <1>9
  <2>2. here + 1 \in 1..Len(es)
    BY <1>2, <1>3, <1>9
  <2>. QED  BY <1>1, <2>1, <2>2, MovesToElement DEF p
<1>. QED  BY <1>1, <1>2, <1>7, <1>8, <1>9 DEF p

\* What a search does whose loop stops at a hit, or at none.
LEMMA SearchOutcome ==
    ASSUME BsonInv, cursor.on # None, ~excused, cursor.pos # 0,
           NEW es, es = Under.elems, NEW name, NEW S \in SUBSET (1..Len(es)),
           NEW p, p = (IF S = {} THEN 0 ELSE Offset(es, First(S))), Search(name, p)
    PROVE  /\ UNCHANGED documents /\ ~excused'
           /\ S = {} => answer' = "FALSE" /\ UNCHANGED <<cursor, value_pos>>
           /\ S # {} => /\ answer' = "TRUE" /\ First(S) \in S
                        /\ cursor' = [cursor EXCEPT !.pos = Offset(es, First(S))]
                        /\ value_pos' = ValueAt(es, Offset(es, First(S)))
<1>1. /\ Under.state = "finished" /\ es \in Seq(Elements)
      /\ cursor.pos = 0 \/ AtElement(es, cursor.pos)
  BY UnderCursor
<1>2. \A k \in 1..Len(es) : Offset(es, k) \in Nat /\ Offset(es, k) # 0
  <2>1. ASSUME NEW k \in 1..Len(es) PROVE Offset(es, k) \in Nat /\ Offset(es, k) # 0
    <3>1. k \in 1..(Len(es) + 1)
      BY <1>1
    <3>2. Offset(es, k) \in Nat /\ At(es, Offset(es, k)) = k
      BY <1>1, <3>1, OffsetStep, AtOffset
    <3>3. At(es, 0) = 0
      BY <1>1, PlaceOfCursor
    <3>. QED  BY <3>2, <3>3
  <2>. QED  BY <2>1
<1>3. cursor.pos # Astray
  <2>1. cursor.pos \in Nat
    BY <1>1, <1>2 DEF AtElement
  <2>. QED  BY <2>1 DEF Astray
<1>4. Found(p) /\ ~excused'
  BY <1>1, <1>3 DEF Search
<1>5. CASE S = {}
  BY <1>4, <1>5 DEF Found, Stays, Answers
<1>6. CASE S # {}
  <2>1. S \in SUBSET Nat
    BY <1>1
  <2>2. First(S) \in S
    BY <1>6, <2>1, FirstIsFirst
  <2>3. p # 0 /\ p # Astray
    <3>1. p = Offset(es, First(S)) /\ First(S) \in 1..Len(es)
      BY <1>6, <2>2
    <3>2. p \in Nat /\ p # 0
      BY <1>2, <3>1
    <3>. QED  BY <3>2 DEF Astray
  <2>4. Moves(Offset(es, First(S)), "TRUE")
    BY <1>4, <1>6, <2>3 DEF Found
  <2>. QED  BY <1>1, <1>4, <1>6, <2>2, <2>4, MovesToElement
<1>. QED  BY <1>5, <1>6

\* From the cursor to the end, and from the first element to the cursor.
LEMMA ScansOfCursor ==
    ASSUME BsonInv, cursor.on # None, ~excused, cursor.pos # 0,
           NEW es, es = Under.elems, NEW here, here = At(es, cursor.pos), NEW name
    PROVE  /\ es \in Seq(Elements) /\ here \in 1..Len(es)
           /\ Scan(es, name, cursor.pos, Under.len - 1) = Stop(es, name, here, Len(es) + 1)
           /\ Scan(es, name, 4, cursor.pos) = Stop(es, name, 1, here)
<1>1. /\ es \in Seq(Elements) /\ Under.len - 1 = Offset(es, Len(es) + 1)
      /\ cursor.pos = 0 \/ AtElement(es, cursor.pos)
  BY UnderCursor
<1>2. here \in 0..Len(es) /\ here # 0 /\ cursor.pos = Offset(es, here)
  BY <1>1, PlaceOfCursor
<1>3. Len(es) \in Nat
  BY <1>1
<1>4. here \in 1..(Len(es) + 1) /\ Len(es) + 1 \in 1..(Len(es) + 1) /\ 1 \in 1..here
  BY <1>2, <1>3
<1>5. Scan(es, name, Offset(es, here), Offset(es, Len(es) + 1))
        = Stop(es, name, here, Len(es) + 1)
  BY <1>1, <1>4, ScanFinds
<1>6. Scan(es, name, Offset(es, 1), Offset(es, here)) = Stop(es, name, 1, here)
  BY <1>1, <1>4, ScanFinds
<1>7. Offset(es, 1) = 4 /\ here \in 1..Len(es)
  BY <1>1, <1>2, <1>3, OffsetStep
<1>. QED  BY <1>1, <1>2, <1>5, <1>6, <1>7

\* What is done to documents leaves the one under the cursor as it is, unless it
\* is reset.
LEMMA DocumentsStep ==
    ASSUME BsonInv, Documents
    PROVE  /\ UNCHANGED <<cursor, value_pos>>
           /\ cursor.on # None /\ ~excused' => ~excused /\ documents'[cursor.on] = documents[cursor.on]
<1>. DEFINE Spared == /\ UNCHANGED <<cursor, value_pos>>
                      /\ cursor.on # None /\ ~excused' =>
                           ~excused /\ documents'[cursor.on] = documents[cursor.on]
<1>1. DOMAIN documents = Handles /\ documents = [h \in Handles |-> documents[h]]
  BY DEF BsonInv, LengthsInv
<1>2. cursor.on # None /\ ~excused =>
        cursor.on \in Handles /\ documents[cursor.on].state = "finished"
  BY DEF BsonInv, CursorTypes, CursorInv
<1>3. ASSUME NEW h \in Handles, NEW d, Set(h, d), UNCHANGED <<cursor, value_pos, excused>>,
             \/ documents[h].state # "finished" \/ cursor.on # h \/ d = documents[h]
      PROVE  Spared
  BY <1>1, <1>2, <1>3 DEF Set
<1>4. ASSUME NEW h \in Handles,
             New(h) \/ Finish(h) \/ Reset(h) \/ Free(h) \/ AppendRefused(h)
      PROVE  Spared
  <2>1. CASE New(h)
    BY <1>3, <2>1 DEF New, OnlyDocs
  <2>2. CASE Finish(h)
    BY <1>3, <2>2 DEF Finish, OnlyDocs
  <2>3. CASE Reset(h)
    <3>1. /\ Set(h, Empty) /\ UNCHANGED <<cursor, value_pos>>
          /\ excused' = (excused \/ cursor.on = h)
      BY <2>3 DEF Reset, Cursored, Empty
    <3>2. ~excused' => cursor.on # h /\ ~excused
      BY <3>1
    <3>3. cursor.on # h /\ cursor.on \in Handles => documents'[cursor.on] = documents[cursor.on]
      BY <1>1, <3>1 DEF Set
    <3>. QED  BY <1>2, <3>1, <3>2, <3>3
  <2>4. CASE Free(h)
    BY <1>3, <2>4 DEF Free, OnlyDocs, Cursored
  <2>5. CASE AppendRefused(h)
    BY <2>5 DEF AppendRefused, OnlyDocs
  <2>. QED  BY <1>4, <2>1, <2>2, <2>3, <2>4, <2>5
<1>5. ASSUME NEW h \in Handles, NEW j \in Handles, NewFromData(h, j) PROVE Spared
  BY <1>3, <1>5 DEF NewFromData, OnlyDocs
<1>6. ASSUME NEW h \in Handles, NEW j \in Handles, NEW k \in Keys, BuildAndFree(h, j, k) PROVE Spared
  <2>1. PICK d : documents' = [documents EXCEPT ![h] = d, ![j] = NoDoc]
    BY <1>6 DEF BuildAndFree
  <2>2. /\ documents[h].state = "none" /\ cursor.on # j
        /\ UNCHANGED <<cursor, value_pos, excused>>
    BY <1>6 DEF BuildAndFree, OnlyDocs, Cursored
  <2>. QED  BY <1>1, <1>2, <2>1, <2>2
<1>7. ASSUME NEW h \in Handles, NEW e, AppendElement(h, e) PROVE Spared
  BY <1>3, <1>7 DEF AppendElement, OnlyDocs
<1>8. ASSUME NEW h \in Handles, NEW args, Build(h, args) PROVE Spared
  BY <1>3, <1>8 DEF Build, OnlyDocs
<1>. QED  BY <1>4, <1>5, <1>6, <1>7, <1>8 DEF Documents

LEMMA CursorStep ==
    ASSUME BsonInv, BsonNext PROVE (CursorTypes /\ CursorInv)'
<1>1. LengthsInv /\ CursorTypes /\ CursorInv
  BY DEF BsonInv
\* The cursor moves over a document, or not at all.
<1>2. ASSUME UNCHANGED documents, cursor' = [cursor EXCEPT !.pos = cursor'.pos],
             cursor.on # None /\ ~excused' =>
                /\ ~excused
                /\ \/ UNCHANGED <<cursor, value_pos>>
                   \/ /\ AtElement(Under.elems, cursor'.pos)
                      /\ value_pos' = ValueAt(Under.elems, cursor'.pos)
      PROVE  (CursorTypes /\ CursorInv)'
  <2>1. cursor'.on = cursor.on /\ CursorTypes'
    BY <1>1, <1>2 DEF CursorTypes
  <2>. QED  BY <1>1, <1>2, <2>1 DEF CursorInv, Under
<1>3. cursor = [cursor EXCEPT !.pos = cursor.pos]
  BY <1>1 DEF CursorTypes
<1>4. \A p : [cursor EXCEPT !.pos = p].pos = p
  BY <1>1 DEF CursorTypes
<1>5. CASE Documents
  BY <1>1, <1>5, DocumentsStep DEF CursorTypes, CursorInv
\* A step after which the cursor is excused.
<1>6. ASSUME Stays("TRUE") \/ Stays("FALSE") \/ Crash \/ Misread
             \/ (\E p, a : Moves(p, a)),
             cursor.on # None => excused'
      PROVE  (CursorTypes /\ CursorInv)'
  <2>1. UNCHANGED documents /\ (cursor' = cursor \/ \E p : cursor' = [cursor EXCEPT !.pos = p])
    BY <1>6 DEF Stays, Crash, Misread, Moves
  <2>2. cursor' = [cursor EXCEPT !.pos = cursor'.pos]
    BY <1>3, <1>4, <2>1
  <2>. QED  BY <1>2, <1>6, <2>1, <2>2
<1>7. CASE CursorFree
  BY <1>1, <1>7 DEF CursorFree, NoCursor, CursorTypes, CursorInv
<1>8. ASSUME NEW h \in Handles, CursorNew(h) PROVE (CursorTypes /\ CursorInv)'
  BY <1>1, <1>8 DEF CursorNew, CursorTypes, CursorInv
<1>9. ASSUME NEW h \in Handles, GetNested(h) PROVE (CursorTypes /\ CursorInv)'
  <2>1. /\ documents[h].state = "none" /\ Under.state = "finished"
        /\ UNCHANGED <<cursor, value_pos, excused>>
        /\ \E d : documents' = [documents EXCEPT ![h] = d]
    BY <1>9 DEF GetNested, OnlyDocs, Set
  <2>2. cursor.on # None => cursor.on \in Handles /\ cursor.on # h
    BY <1>1, <2>1 DEF CursorTypes, Under
  <2>3. cursor.on # None => documents'[cursor.on] = documents[cursor.on]
    BY <1>1, <2>1, <2>2 DEF LengthsInv
  <2>. QED  BY <1>1, <2>1, <2>3 DEF CursorTypes, CursorInv
\* bson_find begins at the first element.
<1>10. ASSUME NEW h \in Handles, NEW k \in Keys, DocumentFind(h, k) PROVE (CursorTypes /\ CursorInv)'
  <2>. DEFINE es == documents[h].elems
              found == Scan(es, k, 4, documents[h].len - 1)
  <2>1. /\ UNCHANGED documents /\ cursor.on = None
        /\ \/ UNCHANGED <<cursor, value_pos>>
           \/ /\ cursor' = [on |-> h, pos |-> found] /\ value_pos' = ValueAt(es, found)
              /\ documents[h].state = "finished" /\ found # 0
    BY <1>10 DEF DocumentFind
  <2>2. CASE UNCHANGED <<cursor, value_pos>>
    BY <1>1, <2>1, <2>2 DEF CursorTypes, CursorInv
  <2>3. CASE /\ cursor' = [on |-> h, pos |-> found] /\ value_pos' = ValueAt(es, found)
             /\ documents[h].state = "finished" /\ found # 0
    <3>1. documents[h] \in SoundDocuments
      BY <1>1 DEF LengthsInv
    <3>2. es \in Seq(Elements) /\ documents[h].len = Size(es) + 1
      BY <2>3, <3>1 DEF SoundDocuments
    <3>3. documents[h].len - 1 = Offset(es, Len(es) + 1)
      BY <3>2, SizeType DEF Size
    <3>4. Len(es) \in Nat /\ Len(es) + 1 \in 1..(Len(es) + 1) /\ 1 \in 1..(Len(es) + 1)
      BY <3>2
    <3>5. Offset(es, 1) = 4
      BY <3>2, OffsetStep
    <3>6. Scan(es, k, Offset(es, 1), Offset(es, Len(es) + 1)) = Stop(es, k, 1, Len(es) + 1)
      BY <3>2, <3>4, ScanFinds
    <3>. DEFINE S == Hits(es, k, 1, Len(es) + 1)
    <3>7. found = Stop(es, k, 1, Len(es) + 1)
      BY <3>3, <3>5, <3>6
    <3>8. S # {} /\ found = Offset(es, First(S))
      BY <2>3, <3>7 DEF Stop
    <3>9. S \in SUBSET Nat /\ \A m \in S : m \in 1..Len(es)
      BY <3>4 DEF Hits
    <3>. HIDE DEF S, found
    <3>10. AtElement(es, found)
      BY <3>8, <3>9, FirstIsFirst DEF AtElement
    <3>. QED  BY <2>1, <2>3, <3>10 DEF CursorTypes, CursorInv
  <2>. HIDE DEF found
  <2>. QED  BY <2>1, <2>2, <2>3
<1>11. CASE CursorNext
  <2>1. CASE cursor.on # None /\ ~excused
    <3>. DEFINE es == Under.elems
                here == At(es, cursor.pos)
    <3>1. /\ es \in Seq(Elements) /\ here \in 0..Len(es) /\ UNCHANGED <<documents, excused>>
          /\ here = Len(es) => UNCHANGED <<cursor, value_pos>>
          /\ here # Len(es) =>
               /\ cursor' = [cursor EXCEPT !.pos = Offset(es, here + 1)]
               /\ value_pos' = ValueAt(es, Offset(es, here + 1))
      BY <1>11, <2>1, NextOutcome
    <3>. HIDE DEF here
    <3>2. CASE here = Len(es)
      BY <1>2, <1>3, <2>1, <3>1, <3>2
    <3>3. CASE here # Len(es)
      <4>1. here + 1 \in 1..Len(es)
        BY <3>1, <3>3
      <4>2. cursor'.pos = Offset(es, here + 1)
        BY <1>4, <3>1, <3>3
      <4>3. AtElement(es, cursor'.pos)
        BY <4>1, <4>2 DEF AtElement
      <4>. QED  BY <1>2, <2>1, <3>1, <3>3, <4>2, <4>3
    <3>. QED  BY <3>2, <3>3
  <2>2. CASE ~(cursor.on # None /\ ~excused)
    <3>1. cursor.on # None => excused'
      BY <1>11, <2>2 DEF CursorNext
    <3>2. Stays("FALSE") \/ Crash \/ Misread \/ \E p : Moves(p, "TRUE")
      BY <1>11 DEF CursorNext
    <3>. QED  BY <1>6, <3>1, <3>2
  <2>. QED  BY <2>1, <2>2
\* A search that finds something moves to an element.
<1>12. ASSUME NEW k, NEW p, Search(k, p),
              cursor.on # None /\ ~excused /\ cursor.pos # 0 =>
                \E S \in SUBSET (1..Len(Under.elems)) :
                    p = IF S = {} THEN 0 ELSE Offset(Under.elems, First(S))
       PROVE  (CursorTypes /\ CursorInv)'
  <2>1. CASE cursor.on # None /\ ~excused /\ cursor.pos # 0
    <3>. DEFINE es == Under.elems
    <3>1. PICK S \in SUBSET (1..Len(es)) : p = IF S = {} THEN 0 ELSE Offset(es, First(S))
      BY <1>12, <2>1
    <3>. HIDE DEF es
    <3>2. /\ UNCHANGED documents /\ ~excused'
          /\ S = {} => UNCHANGED <<cursor, value_pos>>
          /\ S # {} => /\ First(S) \in S
                       /\ cursor' = [cursor EXCEPT !.pos = Offset(es, First(S))]
                       /\ value_pos' = ValueAt(es, Offset(es, First(S)))
      BY <1>12, <2>1, <3>1, SearchOutcome DEF es
    <3>3. CASE S = {}
      BY <1>2, <1>3, <2>1, <3>2, <3>3
    <3>4. CASE S # {}
      <4>1. cursor'.pos = Offset(es, First(S)) /\ First(S) \in 1..Len(es)
        BY <1>4, <3>2, <3>4
      <4>2. AtElement(es, cursor'.pos)
        BY <4>1 DEF AtElement
      <4>. QED  BY <1>2, <2>1, <3>2, <3>4, <4>1, <4>2 DEF es
    <3>. QED  BY <3>3, <3>4
  <2>2. CASE ~(cursor.on # None /\ ~excused /\ cursor.pos # 0)
    <3>1. cursor.on # None => excused'
      BY <1>12, <2>2 DEF Search
    <3>2. Stays("FALSE") \/ Crash \/ Misread \/ Moves(p, "TRUE")
      BY <1>12 DEF Search, Found
    <3>. QED  BY <1>6, <3>1, <3>2
  <2>. QED  BY <2>1, <2>2
<1>13. ASSUME NEW k \in Keys, CursorFind(k) \/ CursorFindNext(k)
       PROVE  (CursorTypes /\ CursorInv)'
  <2>. DEFINE es == Under.elems
              here == At(es, cursor.pos)
              A == Hits(es, k, here, Len(es) + 1)
              B == Hits(es, k, 1, here)
  <2>1. ASSUME cursor.on # None /\ ~excused /\ cursor.pos # 0
        PROVE  /\ A \in SUBSET (1..Len(es)) /\ B \in SUBSET (1..Len(es))
               /\ Scan(es, k, cursor.pos, Under.len - 1) =
                    IF A = {} THEN 0 ELSE Offset(es, First(A))
               /\ Scan(es, k, 4, cursor.pos) = IF B = {} THEN 0 ELSE Offset(es, First(B))
    <3>1. /\ es \in Seq(Elements) /\ here \in 1..Len(es)
          /\ Scan(es, k, cursor.pos, Under.len - 1) = Stop(es, k, here, Len(es) + 1)
          /\ Scan(es, k, 4, cursor.pos) = Stop(es, k, 1, here)
      BY <2>1, ScansOfCursor
    <3>2. Len(es) \in Nat
      BY <3>1
    <3>. HIDE DEF es, here
    <3>3. A \in SUBSET (1..Len(es)) /\ B \in SUBSET (1..Len(es))
      BY <3>1, <3>2 DEF Hits
    <3>. QED  BY <3>1, <3>3 DEF Stop
  <2>2. CASE CursorFindNext(k)
    <3>. HIDE DEF A, B, here
    <3>. QED  BY <1>12, <2>1, <2>2 DEF CursorFindNext
  <2>3. CASE CursorFind(k)
    <3>. DEFINE p == ScanAround(es, k, cursor.pos, Under.len - 1)
    <3>1. Search(k, p)
      BY <2>3 DEF CursorFind
    <3>2. p = Scan(es, k, cursor.pos, Under.len - 1) \/ p = Scan(es, k, 4, cursor.pos)
      BY DEF ScanAround
    <3>. HIDE DEF A, B, here, p
    <3>. QED  BY <1>12, <2>1, <3>1, <3>2
  <2>. QED  BY <1>13, <2>2, <2>3
<1>14. ASSUME NEW t \in Types, Get(t) PROVE (CursorTypes /\ CursorInv)'
  <2>1. UNCHANGED <<documents, cursor, value_pos, excused>>
    BY <1>14 DEF Get, Stays, Crash
  <2>. QED  BY <1>1, <2>1 DEF CursorTypes, CursorInv
<1>16. CASE GetStray
  <2>1. UNCHANGED <<documents, cursor, value_pos, excused>>
    BY <1>16 DEF GetStray, Stays, Crash
  <2>. QED  BY <1>1, <2>1 DEF CursorTypes, CursorInv
<1>15. CASE Cursors
  BY <1>7, <1>8, <1>9, <1>10, <1>11, <1>13, <1>14, <1>15, <1>16 DEF Cursors
<1>. QED  BY <1>5, <1>15 DEF BsonNext

-----------------------------------------------------------------------------
(* What bson.c promises.                                                   *)

LEMMA BsonInductive == BsonSpec => []BsonInv
<1>1. BsonInit => BsonInv
  <2>1. NoDoc \in SoundDocuments
    BY EmptySound
  <2>. QED  BY <2>1 DEF BsonInit, NoCursor, BsonInv, LengthsInv, CursorTypes, CursorInv
<1>2. BsonInv /\ [BsonNext]_bsonVars => BsonInv'
  <2>1. BsonInv /\ BsonNext => BsonInv'
    BY LengthsStep, CursorStep DEF BsonInv
  <2>2. BsonInv /\ UNCHANGED bsonVars => BsonInv'
    BY DEF bsonVars, BsonInv, LengthsInv, CursorTypes, CursorInv
  <2>. QED  BY <2>1, <2>2
<1>. QED  BY <1>1, <1>2, PTL DEF BsonSpec

\* Appended to, built, finished, reset, copied, put into one another or taken
\* out again: a document's length is that of its elements (bson.c:233-800).
THEOREM LengthsAgree == BsonSpec => []LengthsAdd
<1>1. BsonInv => LengthsAdd
  <2>1. SUFFICES ASSUME BsonInv, NEW h \in Handles
                 PROVE  /\ documents[h].state = "open" => documents[h].len = Size(documents[h].elems)
                        /\ documents[h].state = "finished" =>
                             documents[h].len = Size(documents[h].elems) + 1
                        /\ \A k \in DOMAIN documents[h].elems :
                             documents[h].elems[k].inner # None =>
                               documents[h].elems[k].inner.len =
                                 Size(documents[h].elems[k].inner.elems) + 1
    BY DEF LengthsAdd
  <2>2. documents[h] \in SoundDocuments
    BY <2>1 DEF BsonInv, LengthsInv
  <2>3. \A e \in Elements : e.inner # None => e.inner.len = Size(e.inner.elems) + 1
    BY DEF Elements, PlainElements, NestedElements, InnerDocuments
  <2>4. \A k \in DOMAIN documents[h].elems : documents[h].elems[k] \in Elements
    BY <2>2 DEF SoundDocuments
  <2>. QED  BY <2>2, <2>3, <2>4 DEF SoundDocuments
<1>. QED  BY <1>1, BsonInductive, PTL

\* From a new cursor bson_cursor_next meets every element once and in order, in
\* any document, since it skips what was appended (bson.c:781-870).
THEOREM CursorWalks == BsonSpec => WalksInOrder
<1>. DEFINE A == Ready /\ CursorNext =>
                   LET here == At(Under.elems, cursor.pos) IN
                   IF here = Len(Under.elems) THEN answer' = "FALSE" /\ cursor' = cursor
                   ELSE answer' = "TRUE" /\ cursor.pos' = Offset(Under.elems, here + 1)
<1>1. BsonInv => A
  <2>1. SUFFICES ASSUME BsonInv, CursorNext, cursor.on # None, ~excused,
                        NEW es, es = Under.elems, NEW here, here = At(es, cursor.pos)
                 PROVE  IF here = Len(es) THEN answer' = "FALSE" /\ cursor' = cursor
                        ELSE answer' = "TRUE" /\ cursor'.pos = Offset(es, here + 1)
    BY DEF Ready
  <2>2. \A p : [cursor EXCEPT !.pos = p].pos = p
    BY <2>1 DEF BsonInv, CursorTypes
  <2>3. /\ here = Len(es) => answer' = "FALSE" /\ cursor' = cursor
        /\ here # Len(es) =>
             answer' = "TRUE" /\ cursor' = [cursor EXCEPT !.pos = Offset(es, here + 1)]
    BY <2>1, NextOutcome
  <2>. QED  BY <2>2, <2>3
<1>2. BsonInv => [A]_bsonVars
  BY <1>1
<1>. QED  BY <1>2, BsonInductive, PTL DEF WalksInOrder

\* Wherever a cursor is, bson_cursor_find finds the first element of that name
\* from there on, or else the first of all (bson.c:872-945).
THEOREM CursorFinds == BsonSpec => FindsWhatIsThere
<1>. DEFINE A == \A name \in Keys : Ready /\ cursor.pos # 0 /\ CursorFind(name) =>
                   LET here == At(Under.elems, cursor.pos)
                       after == {k \in Holders(name) : k >= here}
                       best == IF after # {} THEN after ELSE Holders(name)
                   IN  IF best = {} THEN answer' = "FALSE" /\ cursor' = cursor
                       ELSE /\ answer' = "TRUE"
                            /\ \E k \in best : /\ \A j \in best : k <= j
                                               /\ cursor.pos' = Offset(Under.elems, k)
<1>1. BsonInv => A
  <2>. DEFINE Outcome(es, best) ==
                IF best = {} THEN answer' = "FALSE" /\ cursor' = cursor
                ELSE /\ answer' = "TRUE"
                     /\ \E k \in best : /\ \A j \in best : k <= j
                                        /\ cursor'.pos = Offset(es, k)
              After(name, here) == {k \in Holders(name) : k >= here}
              Best(name, after) == IF after # {} THEN after ELSE Holders(name)
  <2>0. SUFFICES ASSUME BsonInv, NEW name \in Keys, CursorFind(name),
                        cursor.on # None, ~excused, cursor.pos # 0
                 PROVE  Outcome(Under.elems,
                                Best(name, After(name, At(Under.elems, cursor.pos))))
    BY DEF Ready
  <2>. DEFINE es == Under.elems
              here == At(es, cursor.pos)
              after == After(name, here)
              best == Best(name, after)
  <2>1. /\ es = Under.elems /\ here = At(es, cursor.pos)
        /\ after = {k \in Holders(name) : k >= here}
        /\ best = IF after # {} THEN after ELSE Holders(name)
    OBVIOUS
  <2>. HIDE DEF es, here, after, best
  <2>2. /\ es \in Seq(Elements) /\ here \in 1..Len(es)
        /\ Scan(es, name, cursor.pos, Under.len - 1) = Stop(es, name, here, Len(es) + 1)
        /\ Scan(es, name, 4, cursor.pos) = Stop(es, name, 1, here)
    BY <2>0, <2>1, ScansOfCursor
  <2>3. Len(es) \in Nat /\ DOMAIN es = 1..Len(es)
    BY <2>2
  <2>4. Holders(name) = {k \in 1..Len(es) : es[k].key = name}
    BY <2>1, <2>3 DEF Holders
  <2>5. after = Hits(es, name, here, Len(es) + 1)
    BY <2>1, <2>2, <2>3, <2>4 DEF Hits
  <2>6. after = {} => Holders(name) = Hits(es, name, 1, here)
    BY <2>2, <2>3, <2>4, <2>5 DEF Hits
  <2>7. best \in SUBSET (1..Len(es))
    BY <2>1, <2>4
  <2>. DEFINE p == ScanAround(es, name, cursor.pos, Under.len - 1)
  <2>8. \A k \in 1..Len(es) : Offset(es, k) # 0
    <3>1. ASSUME NEW k \in 1..Len(es), Offset(es, k) = 0 PROVE FALSE
      BY <2>2, <2>3, <3>1, AtOffset, PlaceOfCursor
    <3>. QED  BY <3>1
  <2>9. p = IF best = {} THEN 0 ELSE Offset(es, First(best))
    <3>1. CASE after = {}
      <4>1. Scan(es, name, cursor.pos, Under.len - 1) = 0
        BY <2>2, <2>5, <3>1 DEF Stop
      <4>2. p = Stop(es, name, 1, here)
        BY <2>2, <4>1 DEF ScanAround
      <4>. QED  BY <2>1, <2>6, <3>1, <4>2 DEF Stop
    <3>2. CASE after # {}
      <4>1. best = after /\ best \in SUBSET Nat
        BY <2>1, <2>7, <3>2
      <4>2. First(best) \in 1..Len(es)
        BY <2>7, <3>2, <4>1, FirstIsFirst
      <4>3. Scan(es, name, cursor.pos, Under.len - 1) = Offset(es, First(best))
        BY <2>2, <2>5, <3>2, <4>1 DEF Stop
      <4>4. Offset(es, First(best)) # 0
        BY <2>8, <4>2
      <4>. QED  BY <3>2, <4>1, <4>3, <4>4 DEF ScanAround
    <3>. QED  BY <3>1, <3>2
  <2>10. Search(name, p)
    BY <2>0, <2>1 DEF CursorFind
  <2>. HIDE DEF p
  <2>11. /\ best = {} => answer' = "FALSE" /\ cursor' = cursor
         /\ best # {} => answer' = "TRUE" /\ First(best) \in best
                         /\ cursor' = [cursor EXCEPT !.pos = Offset(es, First(best))]
    BY <2>0, <2>1, <2>7, <2>9, <2>10, SearchOutcome
  <2>12. best # {} => \A j \in best : First(best) <= j
    <3>1. best \in SUBSET Nat
      BY <2>7
    <3>. QED  BY <3>1, FirstIsFirst
  <2>13. \A q : [cursor EXCEPT !.pos = q].pos = q
    BY <2>0 DEF BsonInv, CursorTypes
  <2>14. Outcome(es, best)
    BY <2>11, <2>12, <2>13
  <2>. QED  BY <2>14 DEF es, here, after, best
<1>2. BsonInv => [A]_bsonVars
  BY <1>1
<1>. QED  BY <1>2, BsonInductive, PTL DEF FindsWhatIsThere
=============================================================================
