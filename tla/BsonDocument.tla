---------------------------- MODULE BsonDocument ----------------------------
(***************************************************************************)
(* BSON documents of bson.c, and a cursor over one of them: documents are  *)
(* appended to, built, finished, reset, copied, put into one another and   *)
(* taken out again, while a cursor that was made earlier is still used.    *)
(*                                                                         *)
(* A document is the sequence of its elements and the length of its byte   *)
(* array; of an element the model has the key, the type, the bytes of the  *)
(* value, and the size by which a reader skips it.  A key is the number of *)
(* its letters.  The elements are of the types that bson.h can append; the *)
(* others come from a server only.  A cursor is two positions in the byte  *)
(* array, of an element and of its value; after a reset they may point     *)
(* into the middle of other elements.                                      *)
(***************************************************************************)
EXTENDS Naturals, Integers, Sequences

CONSTANTS
    Handles,    \* documents of the application
    Keys,       \* the names of elements, as the numbers of their letters
    Types,      \* the types of elements that are appended
    Lengths,    \* lengths of strings, binaries and expressions
    MaxElems,   \* bound: elements of each document
    None        \* NULL

ASSUME BsonDocumentAssumption ==
    /\ Keys \subseteq Nat /\ Lengths \subseteq Nat
    /\ MaxElems \in [Handles -> Nat]

VARIABLES
    documents,       \* [state, elems, len] of each document
    cursor,     \* [on, pos]: the document and the position, 0 for a new cursor
    value_pos,  \* its position of the value, behind the key that was at pos
    excused,    \* the cursor was used on a document that has been reset, or new
    answer,     \* what the last call returned, NULL being FALSE
    crashed     \* the program has used the data of an unfinished document, or
                \* stray bytes for a size

bsonVars == <<documents, cursor, value_pos, excused, answer, crashed>>

NoDoc == [state |-> "none", elems |-> <<>>, len |-> 0]
NoCursor == [on |-> None, pos |-> 0]

\* A position that is not the beginning of an element.
Astray == -1

-----------------------------------------------------------------------------
(* Elements.                                                               *)

StringTypes == {"string", "js_code", "symbol"}
DocumentTypes == {"document", "array"}
NestedTypes == DocumentTypes \cup {"js_code_w_scope"}
FixedSize == [double |-> 8, oid |-> 12, boolean |-> 1, utc_datetime |-> 8, null |-> 0,
              int32 |-> 4, timestamp |-> 8, int64 |-> 8]

Element(key, type, size, bytes, inner) ==
    [key |-> key, type |-> type, size |-> size, bytes |-> bytes, inner |-> inner]

StringElement(key, type, n) == Element(key, type, n + 1, 4 + n + 1, None)
BinaryElement(key, n) == Element(key, "binary", n, 4 + 1 + n, None)
RegexElement(key, n, m) == Element(key, "regexp", n + m, n + 1 + m + 1, None)
FixedElement(key, type) == Element(key, type, 0, FixedSize[type], None)
DocumentElement(key, type, doc) == Element(key, type, doc.len, doc.len, doc)
ScopeElement(key, n, doc) ==
    Element(key, "js_code_w_scope", 8 + n + 1 + doc.len, 8 + n + 1 + doc.len, doc)

\* _bson_get_block_size: the bytes of a value, computed from what it says of itself.
\* Mutant: the subtype of a binary is not counted.
SkipNoSubtype(e) ==
    CASE e.type \in StringTypes \cup {"binary"} -> e.size + 4
      [] e.type \in NestedTypes -> e.size
      [] e.type = "regexp" -> e.size + 2
      [] OTHER -> FixedSize[e.type]
Skip(e) ==
    CASE e.type \in StringTypes -> e.size + 4
      [] e.type \in NestedTypes -> e.size
      [] e.type = "binary" -> e.size + 4 + 1
      [] e.type = "regexp" -> e.size + 2
      [] OTHER -> FixedSize[e.type]

\* The type, the key and its end.
HeaderSize(e) == 1 + e.key + 1

\* The bytes before element k, the length of the document included.
Offset(elems, k) ==
    LET sum[j \in Nat] == IF j = 0 THEN 0 ELSE sum[j - 1] + (HeaderSize(elems[j]) + elems[j].bytes)
    IN  4 + sum[k - 1]

Size(elems) == Offset(elems, Len(elems) + 1)

\* The element that begins at a position, 0 if none does.
At(elems, pos) ==
    IF \E k \in DOMAIN elems : Offset(elems, k) = pos
    THEN CHOOSE k \in DOMAIN elems : Offset(elems, k) = pos ELSE 0

\* The end of the key of that element.
ValueAt(elems, pos) ==
    IF At(elems, pos) = 0 THEN Astray ELSE pos + HeaderSize(elems[At(elems, pos)])

-----------------------------------------------------------------------------
(* Documents.                                                              *)

Cursored(h) == cursor.on = h

Set(h, doc) == documents' = [documents EXCEPT ![h] = doc]
Answers(a) == answer' = a
OnlyDocs == UNCHANGED <<cursor, value_pos, excused, crashed>>

New(h) ==
    /\ documents[h].state = "none"
    /\ Set(h, [state |-> "open", elems |-> <<>>, len |-> 4])
    /\ Answers("TRUE") /\ OnlyDocs

\* bson_new_from_data of all but the last byte of a finished document.
\* Mutant: of all of it.
CopiedWhole(doc) == [doc EXCEPT !.state = "open"]
Copied(doc) == [doc EXCEPT !.state = "open", !.len = @ - 1]

NewFromData(h, from) ==
    /\ documents[h].state = "none" /\ documents[from].state = "finished"
    /\ Len(documents[from].elems) <= MaxElems[h]
    /\ Set(h, Copied(documents[from]))
    /\ Answers("TRUE") /\ OnlyDocs

Appended(doc, e) ==
    [doc EXCEPT !.elems = Append(@, e), !.len = @ + HeaderSize(e) + e.bytes]

\* The elements that may be appended to h; a nested document is a finished one.
Available(h) ==
    {StringElement(k, t, n) : k \in Keys, t \in StringTypes \cap Types, n \in Lengths} \cup
    {BinaryElement(k, n) : k \in Keys, n \in (IF "binary" \in Types THEN Lengths \ {0} ELSE {})} \cup
    {RegexElement(k, n, 1) : k \in Keys, n \in (IF "regexp" \in Types THEN Lengths ELSE {})} \cup
    {FixedElement(k, t) : k \in Keys, t \in DOMAIN FixedSize \cap Types} \cup
    UNION {{DocumentElement(k, t, documents[i]) : t \in DocumentTypes \cap Types} \cup
           {ScopeElement(k, n, documents[i]) :
                n \in (IF "js_code_w_scope" \in Types THEN Lengths ELSE {})} :
           k \in Keys, i \in {j \in Handles \ {h} : documents[j].state = "finished"
                                   /\ \A e \in DOMAIN documents[j].elems : documents[j].elems[e].type \notin NestedTypes}}

AppendElement(h, e) ==
    /\ documents[h].state = "open" /\ Len(documents[h].elems) < MaxElems[h]
    /\ Set(h, Appended(documents[h], e))
    /\ Answers("TRUE") /\ OnlyDocs

\* A finished document, and a value that cannot be appended.
AppendRefused(h) ==
    /\ documents[h].state # "none"
    /\ Answers("FALSE")
    /\ UNCHANGED documents /\ OnlyDocs

Finish(h) ==
    /\ documents[h].state # "none"
    /\ Set(h, IF documents[h].state = "finished" THEN documents[h]
              ELSE [documents[h] EXCEPT !.state = "finished", !.len = @ + 1])
    /\ Answers("TRUE") /\ OnlyDocs

Reset(h) ==
    /\ documents[h].state # "none"
    /\ Set(h, [state |-> "open", elems |-> <<>>, len |-> 4])
    /\ excused' = (excused \/ Cursored(h))
    /\ Answers("TRUE")
    /\ UNCHANGED <<cursor, value_pos, crashed>>

\* Not under a cursor.
Free(h) ==
    /\ documents[h].state # "none" /\ ~Cursored(h)
    /\ Set(h, NoDoc)
    /\ Answers("TRUE") /\ OnlyDocs

-----------------------------------------------------------------------------
(* bson_build and bson_build_full of up to two elements.                   *)

\* What an argument may be besides an element: a value that its append refuses,
\* and a type that cannot be built.
Refused == Element(0, "refused", 0, 0, None)
Unsupported == Element(0, "unsupported", 0, 0, None)
Arguments(h) ==
    LET one == Available(h) \cup {Refused, Unsupported}
    IN  {<<a>> : a \in one} \cup {<<a, b>> : a, b \in one}

\* What an append returns is not looked at.
Built(args) ==
    LET Add(doc, a) == IF a = Refused THEN doc ELSE Appended(doc, a)
        first == Add([state |-> "open", elems |-> <<>>, len |-> 4], args[1])
    IN  IF Len(args) = 1 THEN first ELSE Add(first, args[2])

Build(h, args) ==
    /\ documents[h].state = "none" /\ Len(args) <= MaxElems[h]
    /\ IF \E j \in DOMAIN args : args[j] = Unsupported
       THEN Answers("FALSE") /\ UNCHANGED documents
       ELSE Answers("TRUE") /\ Set(h, Built(args))
    /\ OnlyDocs

\* A document that is to be freed after it was added is finished before.
BuildAndFree(h, i, key) ==
    LET inner == [documents[i] EXCEPT !.state = "finished",
                                 !.len = IF documents[i].state = "open" THEN @ + 1 ELSE @]
    IN
    /\ documents[h].state = "none" /\ documents[i].state # "none" /\ i # h /\ ~Cursored(i)
    /\ \A e \in DOMAIN inner.elems : inner.elems[e].type \notin NestedTypes
    /\ MaxElems[h] > 0 /\ "document" \in Types
    /\ documents' = [documents EXCEPT ![h] = Built(<<DocumentElement(key, "document", inner)>>), ![i] = NoDoc]
    /\ Answers("TRUE") /\ OnlyDocs

-----------------------------------------------------------------------------
(* The cursor.                                                             *)

Under == documents[cursor.on]
Here == Under.elems[At(Under.elems, cursor.pos)]

\* The two positions belong together: not after a reset put other keys there.
Aimed == At(Under.elems, cursor.pos) # 0 /\ value_pos = ValueAt(Under.elems, cursor.pos)

Moves(pos, a) ==
    /\ cursor' = [cursor EXCEPT !.pos = IF At(Under.elems, pos) = 0 THEN Astray ELSE pos]
    /\ value_pos' = ValueAt(Under.elems, pos)
    /\ Answers(a)
    /\ UNCHANGED <<documents, crashed>>

Stays(a) ==
    /\ Answers(a)
    /\ UNCHANGED <<documents, cursor, value_pos, crashed>>

Crash ==
    /\ crashed' = TRUE
    /\ UNCHANGED <<documents, cursor, value_pos, answer>>

\* The bytes at the positions are taken for an element, whatever they are.
Misread ==
    \/ Crash
    \/ Stays("FALSE")
    \/ Moves(Astray, "TRUE")
    \/ \E k \in DOMAIN Under.elems : Moves(Offset(Under.elems, k), "TRUE")

CursorNew(h) ==
    /\ cursor.on = None /\ documents[h].state = "finished"
    /\ cursor' = [on |-> h, pos |-> 0] /\ value_pos' = 0 /\ excused' = FALSE
    /\ Answers("TRUE")
    /\ UNCHANGED <<documents, crashed>>

CursorFree ==
    /\ cursor.on # None
    /\ cursor' = NoCursor /\ value_pos' = 0 /\ excused' = FALSE
    /\ Answers("TRUE")
    /\ UNCHANGED <<documents, crashed>>

\* Nothing begins at pos or after it.
AtEnd(pos) == pos >= Under.len - 1

CursorNext ==
    /\ cursor.on # None
    /\ \/ /\ cursor.pos = 0
          /\ IF Under.state # "finished" \/ AtEnd(4) THEN Stays("FALSE") ELSE Moves(4, "TRUE")
       \/ /\ cursor.pos # 0 /\ Under.state # "finished"
          /\ Crash
       \/ /\ cursor.pos # 0 /\ Under.state = "finished"
          /\ IF ~Aimed THEN Misread
             ELSE LET pos == value_pos + Skip(Here)
                  IN  IF AtEnd(pos) THEN Stays("FALSE") ELSE Moves(pos, "TRUE")
    /\ UNCHANGED excused

\* The loop of _bson_cursor_find: the position of the first element of that name
\* from one position on and before another, 0 if there is none, Astray if an
\* element is skipped to where none begins.
Scan(elems, name, from, to) ==
    LET at[pos \in Nat] ==
          IF pos >= to THEN 0
          ELSE LET k == At(elems, pos) IN
               IF k = 0 THEN Astray
               ELSE IF elems[k].key = name THEN pos
               ELSE at[pos + HeaderSize(elems[k]) + Skip(elems[k])]
    IN  at[from]

\* Mutant: the search does not wrap over.
ScanAroundNot(elems, name, pos, end) == Scan(elems, name, pos, end)
ScanAround(elems, name, pos, end) ==
    LET found == Scan(elems, name, pos, end)
    IN  IF found = 0 THEN Scan(elems, name, 4, pos) ELSE found

Found(pos) ==
    IF pos = 0 THEN Stays("FALSE") ELSE IF pos = Astray THEN Misread ELSE Moves(pos, "TRUE")

\* A cursor that is new is at the length of the document, which is no element.
Search(name, pos) ==
    /\ cursor.on # None
    /\ IF Under.state # "finished" THEN Crash
       ELSE IF cursor.pos = Astray THEN Misread ELSE Found(pos)
    /\ excused' = (excused \/ cursor.pos = 0)

CursorFind(name) == Search(name, ScanAround(Under.elems, name, cursor.pos, Under.len - 1))

CursorFindNext(name) == Search(name, Scan(Under.elems, name, cursor.pos, Under.len - 1))

\* bson_find: a new cursor, and only if the key is found.
DocumentFind(h, name) ==
    LET found == Scan(documents[h].elems, name, 4, documents[h].len - 1) IN
    /\ cursor.on = None /\ documents[h].state # "none"
    /\ IF documents[h].state = "finished" /\ found # 0
       THEN /\ cursor' = [on |-> h, pos |-> found]
            /\ value_pos' = ValueAt(documents[h].elems, found)
            /\ Answers("TRUE")
       ELSE UNCHANGED <<cursor, value_pos>> /\ Answers("FALSE")
    /\ excused' = FALSE
    /\ UNCHANGED <<documents, crashed>>

\* Every bson_cursor_get_* compares the type first; a new cursor has none.
Get(type) ==
    /\ cursor.on # None
    /\ IF cursor.pos # 0 /\ Under.state # "finished" THEN Crash
       ELSE IF cursor.pos = 0 THEN Stays("FALSE")
       ELSE IF At(Under.elems, cursor.pos) = 0 THEN \E a \in {"TRUE", "FALSE"} : Stays(a)
       ELSE Stays(IF Here.type = type THEN "TRUE" ELSE "FALSE")
    /\ UNCHANGED excused

\* The bytes between the length and the end of a nested document are copied, and
\* the copy is finished.
Body(doc) == doc.len - 4 - 1

GetNested(h) ==
    /\ cursor.on # None /\ documents[h].state = "none" /\ Under.state = "finished"
    /\ Aimed /\ Here.type \in NestedTypes
    /\ Len(Here.inner.elems) <= MaxElems[h]
    /\ Set(h, [state |-> "finished", elems |-> Here.inner.elems, len |-> 4 + Body(Here.inner) + 1])
    /\ Answers("TRUE") /\ OnlyDocs

\* The bytes say how many of them are copied.
GetStray ==
    /\ cursor.on # None /\ cursor.pos # 0 /\ Under.state = "finished" /\ ~Aimed
    /\ Stays("FALSE") \/ Crash
    /\ UNCHANGED excused

-----------------------------------------------------------------------------
BsonInit ==
    /\ documents = [h \in Handles |-> NoDoc]
    /\ cursor = NoCursor /\ value_pos = 0 /\ excused = FALSE
    /\ answer = "none" /\ crashed = FALSE

Documents ==
    \E h \in Handles :
        \/ New(h) \/ Finish(h) \/ Reset(h) \/ Free(h) \/ AppendRefused(h)
        \/ \E i \in Handles : NewFromData(h, i) \/ \E k \in Keys : BuildAndFree(h, i, k)
        \/ \E e \in Available(h) : AppendElement(h, e)
        \/ \E args \in Arguments(h) : Build(h, args)

Cursors ==
    \/ CursorFree \/ CursorNext \/ GetStray
    \/ \E h \in Handles : CursorNew(h) \/ GetNested(h) \/ \E k \in Keys : DocumentFind(h, k)
    \/ \E k \in Keys : CursorFind(k) \/ CursorFindNext(k)
    \/ \E t \in Types : Get(t)

BsonNext == ~crashed /\ (Documents \/ Cursors)

BsonSpec == BsonInit /\ [][BsonNext]_bsonVars

-----------------------------------------------------------------------------
(* Properties.                                                             *)

\* However a document came about, the length it ends up with is that of its
\* elements, and so is that of every document inside it: also of one that was
\* copied to be extended, finished twice, or taken out of another one.
LengthsAdd ==
    \A h \in Handles :
        LET doc == documents[h] IN
        /\ doc.state = "open" => doc.len = Size(doc.elems)
        /\ doc.state = "finished" => doc.len = Size(doc.elems) + 1
        /\ \A k \in DOMAIN doc.elems :
             doc.elems[k].inner # None =>
                doc.elems[k].inner.len = Size(doc.elems[k].inner.elems) + 1

Ready == cursor.on # None /\ Under.state = "finished" /\ ~excused

Holders(name) == {k \in DOMAIN Under.elems : Under.elems[k].key = name}

\* From a new cursor bson_cursor_next meets each element once and in order, and
\* returns FALSE only behind the last.
WalksInOrder ==
    [][Ready /\ CursorNext =>
          LET here == At(Under.elems, cursor.pos) IN
          IF here = Len(Under.elems) THEN answer' = "FALSE" /\ cursor' = cursor
          ELSE answer' = "TRUE" /\ cursor.pos' = Offset(Under.elems, here + 1)]_bsonVars

\* Wherever the cursor is, bson_cursor_find finds a key that the document has:
\* at or after the cursor, or else the first.  If not, the cursor stays.
FindsWhatIsThere ==
    [][\A name \in Keys : Ready /\ cursor.pos # 0 /\ CursorFind(name) =>
          LET here == At(Under.elems, cursor.pos)
              after == {k \in Holders(name) : k >= here}
              best == IF after # {} THEN after ELSE Holders(name)
          IN  IF best = {} THEN answer' = "FALSE" /\ cursor' = cursor
              ELSE /\ answer' = "TRUE"
                   /\ \E k \in best : /\ \A j \in best : k <= j
                                      /\ cursor.pos' = Offset(Under.elems, k)]_bsonVars
=============================================================================
