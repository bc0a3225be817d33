----------------------------- MODULE BulkInsert -----------------------------
(***************************************************************************)
(* mongo_sync_cmd_insert_n, on which mongo_sync_cmd_insert rests: a list   *)
(* of documents is cut into packets by size, and each packet is sent and,  *)
(* in safe mode, verified before the next one is filled.                   *)
(*                                                                         *)
(* A document is the number bson_size returns for it, -1 when it is not    *)
(* finished.  What can happen to one packet is module SyncCommand; here    *)
(* sending and verifying succeed or fail.                                  *)
(***************************************************************************)
EXTENDS Integers, Sequences

CONSTANTS
    Sizes,      \* what bson_size may return
    Limits,     \* values of max_insert_size (positive, see set_max_insert_size)
    MaxInt,     \* the largest value of a gint32
    Preamble,   \* bytes of a packet before its documents
    MaxDocs     \* bound: documents in a call

ASSUME BulkInsertAssumption ==
    /\ MaxInt \in Nat /\ MaxDocs \in Nat /\ Preamble \in Nat \ {0}
    /\ Limits \subseteq 1..MaxInt
    /\ Sizes \subseteq -1..MaxInt

VARIABLES
    docs,       \* the documents of the call
    max,        \* conn->max_insert_size
    pc,         \* "idle", "fill", "send" or "verify", "undefined" at the end
    pos, i, c, size,    \* locals of mongo_sync_cmd_insert_n
    packets,    \* the packets sent: index of the first document, and how many
    result      \* "none", "ok", "fail", or "EINVAL" or "EMSGSIZE" at once

vars == <<docs, max, pc, pos, i, c, size, packets, result>>

N == Len(docs)
Lists == UNION {[1..n -> Sizes] : n \in 0..MaxDocs}

\* gint32 addition.
Wrap(x) ==
    IF x > MaxInt THEN x - 2 * (MaxInt + 1)
    ELSE IF x < -MaxInt - 1 THEN x + 2 * (MaxInt + 1)
    ELSE x

SetMaxInsertSize(m) ==
    /\ pc = "idle"
    /\ max' = m
    /\ packets' = <<>>      \* the record of the call before
    /\ result' = "none"
    /\ UNCHANGED <<docs, pc, pos, i, c, size>>

\* Nothing is sent when one document alone does not fit.
Insert(ds) ==
    /\ pc = "idle"
    /\ docs' = ds
    /\ pos' = 0 /\ i' = 0 /\ c' = 0 /\ size' = 0
    /\ packets' = <<>>
    /\ \/ /\ ds = <<>>
          /\ pc' = "idle" /\ result' = "EINVAL"
       \/ /\ \E k \in DOMAIN ds : ds[k] >= max
          /\ pc' = "idle" /\ result' = "EMSGSIZE"
       \/ /\ ds # <<>> /\ \A k \in DOMAIN ds : ds[k] < max
          /\ pc' = "fill" /\ result' = "none"
    /\ UNCHANGED max

\* One round of the inner loop.
Fill ==
    /\ pc = "fill"
    /\ i < N /\ size < max
    /\ size' = Wrap(size + docs[i + 1])
    /\ i' = i + 1
    /\ c' = c + 1
    /\ UNCHANGED <<docs, max, pc, pos, packets, result>>

\* Mutants: the document that made the packet too large stays in it; one is
\* taken off even when the list has run out.
KeptAll == c
KeptOneLess == c - 1
Kept == IF i < N THEN c - 1 ELSE c

SizeAfterCut == 0

Cut ==
    /\ pc = "fill"
    /\ ~(i < N /\ size < max)
    /\ size' = SizeAfterCut
    /\ c' = Kept
    /\ pc' = "send"
    /\ UNCHANGED <<docs, max, pos, i, packets, result>>

\* mongo_wire_cmd_insert_n refuses a packet without documents, and documents
\* that are not finished.
Buildable == c > 0 /\ \A k \in (pos + 1)..(pos + c) : docs[k] > 0

\* The size of a packet's documents.
Bytes(p) ==
    LET sum[k \in Nat] == IF k = 0 THEN 0 ELSE sum[k - 1] + docs[p.first + k]
    IN  sum[p.count]

Overlong == Preamble + Bytes([first |-> pos, count |-> c]) > MaxInt

Send ==
    /\ pc = "send"
    /\ Buildable /\ ~Overlong
    /\ packets' = Append(packets, [first |-> pos, count |-> c])
    /\ pc' = "verify"
    /\ UNCHANGED <<docs, max, pos, i, c, size, result>>

\* The size of a packet is a gint32, and nobody looks at its sum: it is allocated
\* with one size, or not at all, and filled with another.
SendOverlong ==
    /\ pc = "send"
    /\ Buildable /\ Overlong
    /\ pc' = "undefined"
    /\ UNCHANGED <<docs, max, pos, i, c, size, packets, result>>

SendFails ==
    /\ pc = "send"
    /\ pc' = "idle"
    /\ result' = "fail"
    /\ UNCHANGED <<docs, max, pos, i, c, size, packets>>

\* Mutant: the next packet begins where the filling stopped.
NextPosAfterFill == i
NextPos == pos + c

Verified ==
    /\ pc = "verify"
    /\ pos' = NextPos
    /\ IF NextPos < N
         THEN pc' = "fill" /\ i' = NextPos /\ c' = 0 /\ UNCHANGED result
         ELSE pc' = "idle" /\ result' = "ok" /\ UNCHANGED <<i, c>>
    /\ UNCHANGED <<docs, max, size, packets>>

\* Mutant: the rest is given up, and the call succeeds.
VerifyFailsUnnoticed ==
    /\ pc = "verify"
    /\ pc' = "idle"
    /\ result' = "ok"
    /\ UNCHANGED <<docs, max, pos, i, c, size, packets>>
VerifyFails ==
    /\ pc = "verify"
    /\ pc' = "idle"
    /\ result' = "fail"
    /\ UNCHANGED <<docs, max, pos, i, c, size, packets>>

-----------------------------------------------------------------------------
Init ==
    /\ docs = <<>>
    /\ max \in Limits
    /\ pc = "idle"
    /\ pos = 0 /\ i = 0 /\ c = 0 /\ size = 0
    /\ packets = <<>>
    /\ result = "none"

Next ==
    \/ \E m \in Limits : SetMaxInsertSize(m)
    \/ \E ds \in Lists : Insert(ds)
    \/ Fill \/ Cut \/ Send \/ SendOverlong \/ SendFails \/ Verified \/ VerifyFails

Spec == Init /\ [][Next]_vars

-----------------------------------------------------------------------------
(* Properties.                                                             *)

TypeOK ==
    /\ docs \in Lists
    /\ max \in Limits
    /\ pc \in {"idle", "fill", "send", "verify", "undefined"}
    /\ pos \in 0..N /\ i \in 0..N /\ c \in 0..N
    /\ size \in (-MaxInt - 1)..MaxInt
    /\ packets \in Seq([first : Nat, count : Nat])
    /\ result \in {"none", "ok", "fail", "EINVAL", "EMSGSIZE"}

\* The index after the last document of packet k.
End(k) == packets[k].first + packets[k].count

\* The packets carry the documents in order, each of them in one packet only
\* and none left out: the first begins at the first document, each other where
\* the one before it ends (mongo-sync.c:906-937).
Tiled ==
    \A k \in DOMAIN packets :
        packets[k].first = IF k = 1 THEN 0 ELSE End(k - 1)

\* TRUE means that the packets hold every document.
AllSent ==
    pc = "idle" /\ result = "ok" => packets # <<>> /\ End(Len(packets)) = N

\* No packet is empty, whatever the sizes and whether or not their sum wraps:
\* the loop gets on, and its requests are never refused for want of documents.
ChunkProgress == pc = "send" => c >= 1

\* As long as max_insert_size is at most half of a gint32, no sum of sizes wraps:
\* a packet that is followed by another one is smaller than max_insert_size, and
\* every packet, the last one too, has the size it was allocated with.
CutFits ==
    /\ \A k \in DOMAIN packets :
         End(k) < N /\ 2 * max <= MaxInt + 1 => Bytes(packets[k]) < max
    /\ Preamble + 2 * max <= MaxInt + 2 => pc # "undefined"
=============================================================================
