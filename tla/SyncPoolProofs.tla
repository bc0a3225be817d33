---------------------------- MODULE SyncPoolProofs ----------------------------
(***************************************************************************)
(* Proofs about SyncPool, for any clients, any host lists and any number   *)
(* of master and slave connections.                                        *)
(***************************************************************************)
EXTENDS SyncPool, WellFoundedInduction, SequenceTheorems, FiniteSetTheorems, TLAPS

\* What the two lists hold while they are filled and after it: pool_ids count
\* on from list to list, and a pool that has a slave has all it was asked for.
Lists ==
    /\ nmasters \in Nat /\ nslaves \in Int /\ j \in Nat
    /\ masters \in Seq(Nat) /\ slaves \in Seq([id : Nat, at : Nat]) /\ Len(hosts) \in Nat
    /\ \A k \in 1..Len(masters) : masters[k] = k - 1
    /\ \A k \in 1..Len(slaves) : slaves[k].id = nmasters + k
    /\ phase = "masters" => Len(masters) <= nmasters /\ slaves = <<>>
    /\ phase \in {"slaves", "ready"} => Len(masters) = nmasters
    /\ phase \in {"masters", "slaves"} => nslaves \in Nat /\ Len(slaves) <= nslaves
    /\ phase = "slaves" => Len(slaves) = 0 \/ (j # 0 /\ Secondaries # {})
    /\ phase = "ready" => Len(slaves) = 0 \/ nslaves = Len(slaves)

\* Only pooled connections are held, and only while the pool is there.
Holding ==
    /\ held \in [Clients -> SUBSET (MasterConns \cup SlaveConns)]
    /\ phase # "ready" => inUse = {} /\ \A c \in Clients : held[c] = {}
    /\ InUseIffHeld /\ ExclusiveHandOut

Phases == {"none", "masters", "slaves", "ready", "crashed"}

GotType == got \in [master : BOOLEAN, conn : Conns \cup {None}]

IInv == phase \in Phases /\ Lists /\ Holding /\ GotType

-----------------------------------------------------------------------------
(* The least element of a set of positions.                                *)

Less == OpToRel(<, Nat)

LEMMA LessMeansLess == \A x, y \in Nat : <<x, y>> \in Less <=> x < y
BY DEF Less, OpToRel

LEMMA LessWellFounded == IsWellFoundedOn(Less, Nat)
BY NatLessThanWellFounded DEF Less

LEMMA HasLeast ==
    ASSUME NEW S \in SUBSET Nat, S # {} PROVE \E p \in S : \A q \in S : p <= q
<1>1. PICK p \in S : \A q \in S : ~(<<q, p>> \in Less)
  BY LessWellFounded, WFMin
<1>2. p \in Nat /\ \A q \in S : q \in Nat
  OBVIOUS
<1>3. \A q \in S : ~(q < p)
  BY <1>1, <1>2, LessMeansLess, Zenon
<1>. QED  BY <1>2, <1>3

LEMMA LeastIsIn ==
    ASSUME NEW S \in SUBSET Nat, S # {} PROVE Least(S) \in S
BY HasLeast DEF Least

\* A free connection of a list is found when there is one.
LEMMA FirstFreeIsFree ==
    ASSUME NEW C, \A c \in C : c[2] \in Nat, Free(C) # {} PROVE FirstFree(C) \in Free(C)
<1>. DEFINE S == {c[2] : c \in Free(C)}
<1>1. S \in SUBSET Nat /\ S # {}
  BY DEF Free
<1>2. PICK p \in S : \A q \in S : p <= q
  BY <1>1, HasLeast
<1>3. \E c \in Free(C) : \A d \in Free(C) : c[2] <= d[2]
  BY <1>2
<1>. QED  BY <1>3 DEF FirstFree

LEMMA ConnTypes ==
    ASSUME Lists
    PROVE  /\ \A c \in MasterConns \cup SlaveConns : c \in Conns /\ c[2] \in Nat
           /\ MasterConns \subseteq MasterConns \cup SlaveConns
<1>1. Len(masters) \in Nat /\ Len(slaves) \in Nat
  BY LenProperties DEF Lists
<1>. QED  BY <1>1 DEF MasterConns, SlaveConns, Conns

\* What pick hands out is a connection of the pool that nobody holds.
LEMMA PickedIsFree ==
    ASSUME Lists, NEW wantMaster \in BOOLEAN
    PROVE  Picked(wantMaster) = None \/ Picked(wantMaster) \in (MasterConns \cup SlaveConns) \ inUse
<1>1. CASE ~wantMaster /\ Free(SlaveConns) # {}
  <2>1. FirstFree(SlaveConns) \in Free(SlaveConns)
    BY <1>1, FirstFreeIsFree, ConnTypes
  <2>. QED  BY <1>1, <2>1 DEF Picked, Free
<1>2. CASE ~(~wantMaster /\ Free(SlaveConns) # {}) /\ Free(MasterConns) # {}
  <2>1. FirstFree(MasterConns) \in Free(MasterConns)
    BY <1>2, FirstFreeIsFree, ConnTypes
  <2>. QED  BY <1>2, <2>1 DEF Picked, Free
<1>3. CASE ~(~wantMaster /\ Free(SlaveConns) # {}) /\ Free(MasterConns) = {}
  BY <1>3 DEF Picked
<1>. QED  BY <1>1, <1>2, <1>3

\* The search for a secondary fails only if there is none, or before any was
\* found.
LEMMA SearchFinds ==
    ASSUME Lists
    PROVE  /\ NextSecondary = -1 \/ (NextSecondary \in Nat /\ Secondaries # {})
           /\ NextSecondary = -1 => Secondaries = {} \/ j = 0
<1>. DEFINE onwards == {p \in Secondaries : p >= j}
<1>1. Secondaries \in SUBSET Nat /\ onwards \in SUBSET Nat /\ onwards \subseteq Secondaries
  BY DEF Lists, Secondaries
<1>2. CASE onwards # {}
  <2>1. Least(onwards) \in Nat /\ Secondaries # {}
    BY <1>1, <1>2, LeastIsIn
  <2>2. NextSecondary = Least(onwards)
    BY <1>2 DEF NextSecondary
  <2>. QED  BY <2>1, <2>2
<1>3. CASE onwards = {} /\ j # 0 /\ Secondaries # {}
  <2>1. Least(Secondaries) \in Nat
    BY <1>1, <1>3, LeastIsIn
  <2>2. NextSecondary = Least(Secondaries)
    BY <1>3 DEF NextSecondary
  <2>. QED  BY <1>3, <2>1, <2>2
<1>4. CASE onwards = {} /\ ~(j # 0 /\ Secondaries # {})
  BY <1>4 DEF NextSecondary
<1>. QED  BY <1>2, <1>3, <1>4

-----------------------------------------------------------------------------
(* Filling the pool.                                                       *)

\* Nobody holds anything before and after a step that builds the pool.
LEMMA NobodyHolds ==
    ASSUME Holding, phase # "ready", UNCHANGED <<inUse, held, got>> PROVE Holding'
BY DEF Holding, InUseIffHeld, ExclusiveHandOut

LEMMA NewLists ==
    ASSUME NEW n \in 0..MaxMasters, NEW m \in 0..MaxSlaves, NEW list \in HostLists, New(n, m, list)
    PROVE  Lists'
<1>1. nmasters' \in Nat /\ nslaves' \in Nat /\ j' \in Nat /\ Len(hosts)' \in Nat
  BY SyncPoolAssumption DEF New
<1>2. masters' = <<>> /\ slaves' = <<>> /\ phase' = "masters"
  BY DEF New
<1>3. masters' \in Seq(Nat) /\ slaves' \in Seq([id : Nat, at : Nat]) /\ Len(masters') = 0 /\ Len(slaves') = 0
  BY <1>2, EmptySeq
<1>. QED  BY <1>1, <1>2, <1>3 DEF Lists

LEMMA AddMasterLists == ASSUME Lists, AddMaster PROVE Lists'
<1>1. Len(masters) \in Nat /\ masters \in Seq(Nat)
  BY LenProperties DEF Lists
<1>2. /\ masters' \in Seq(Nat) /\ Len(masters') = Len(masters) + 1
      /\ \A k \in 1..Len(masters') : masters'[k] = k - 1
  BY <1>1 DEF AddMaster, Lists
<1>3. /\ phase = "masters" /\ Len(masters) < nmasters
      /\ UNCHANGED <<phase, nmasters, nslaves, slaves, hosts, j>>
  BY DEF AddMaster
<1>4. Len(masters') <= nmasters'
  BY <1>1, <1>2, <1>3 DEF Lists
<1>. QED  BY <1>2, <1>3, <1>4 DEF Lists

LEMMA AddSlaveLists == ASSUME Lists, AddSlave PROVE Lists'
<1>1. Len(slaves) \in Nat /\ slaves \in Seq([id : Nat, at : Nat]) /\ nmasters \in Nat
  BY LenProperties DEF Lists
<1>2. NextSecondary \in Nat /\ Secondaries # {}
  BY SearchFinds DEF AddSlave
<1>. DEFINE new == [id |-> SlaveId(Len(slaves)), at |-> NextSecondary]
<1>3. new \in [id : Nat, at : Nat] /\ new.id = nmasters + (Len(slaves) + 1)
  BY <1>1, <1>2 DEF SlaveId
<1>4. slaves' = Append(slaves, new) /\ j' = NextSecondary + 1
  BY DEF AddSlave
<1>. HIDE DEF new
<1>5. /\ slaves' \in Seq([id : Nat, at : Nat]) /\ Len(slaves') = Len(slaves) + 1
      /\ \A k \in 1..Len(slaves') : slaves'[k] = IF k = Len(slaves) + 1 THEN new ELSE slaves[k]
  BY <1>1, <1>3, <1>4
<1>6. /\ phase = "slaves" /\ Len(slaves) < nslaves
      /\ UNCHANGED <<phase, nmasters, nslaves, masters, hosts>>
  BY DEF AddSlave
<1>7. \A k \in 1..Len(slaves') : slaves'[k].id = nmasters + k
  <2>. SUFFICES ASSUME NEW k \in 1..Len(slaves') PROVE slaves'[k].id = nmasters + k
    OBVIOUS
  <2>1. CASE k = Len(slaves) + 1
    BY <1>1, <1>3, <1>5, <2>1
  <2>2. CASE k # Len(slaves) + 1
    <3>1. k \in 1..Len(slaves)
      BY <1>1, <1>5, <2>2
    <3>2. slaves'[k] = slaves[k]
      BY <1>5, <2>2
    <3>. QED  BY <3>1, <3>2 DEF Lists
  <2>. QED  BY <2>1, <2>2
<1>8. j' \in Nat /\ j' # 0 /\ Secondaries' # {}
  BY <1>2, <1>4, <1>6 DEF Secondaries
<1>9. Len(slaves') <= nslaves' /\ nslaves' \in Nat
  BY <1>1, <1>5, <1>6 DEF Lists
<1>. QED  BY <1>5, <1>6, <1>7, <1>8, <1>9 DEF Lists

LEMMA FillEndsLists ==
    ASSUME Lists, MastersDone \/ NoSecondary \/ SlavesDone \/ ConnectFails PROVE Lists'
<1>1. Len(slaves) \in Nat /\ UNCHANGED <<masters, slaves, hosts, j, nmasters>>
  BY LenProperties DEF Lists, MastersDone, NoSecondary, SlavesDone, ConnectFails, poolVars
<1>2. CASE MastersDone
  <2>1. phase = "masters" /\ phase' = "slaves" /\ nslaves' = nslaves /\ Len(masters) = nmasters
    BY <1>2 DEF MastersDone, poolVars
  <2>2. Len(slaves) = 0
    BY <2>1, EmptySeq DEF Lists
  <2>. QED  BY <1>1, <2>1, <2>2 DEF Lists
<1>3. CASE NoSecondary
  <2>1. phase = "slaves" /\ phase' = "ready" /\ nslaves' = Len(slaves) - 1
    BY <1>3 DEF NoSecondary
  <2>2. Len(slaves) = 0
    BY <1>3, <2>1, SearchFinds DEF NoSecondary, Lists
  <2>. QED  BY <1>1, <2>1, <2>2 DEF Lists
<1>4. CASE SlavesDone
  <2>1. phase = "slaves" /\ phase' = "ready" /\ nslaves' = nslaves /\ Len(slaves) >= nslaves
    BY <1>4 DEF SlavesDone, poolVars
  <2>. QED  BY <1>1, <2>1 DEF Lists
<1>5. CASE ConnectFails
  <2>1. phase' = "crashed" /\ nslaves' = nslaves
    BY <1>5 DEF ConnectFails, poolVars
  <2>. QED  BY <1>1, <2>1 DEF Lists
<1>. QED  BY <1>2, <1>3, <1>4, <1>5

-----------------------------------------------------------------------------
(* Handing out and taking back.                                            *)

\* A pool_id leads back to the connection that has it.
LEMMA IdLeadsBack ==
    ASSUME Lists, phase = "ready", NEW c \in MasterConns \cup SlaveConns
    PROVE  Slot(PoolId(c)) = c /\ ~OutOfRange(PoolId(c))
<1>1. Len(masters) \in Nat /\ Len(slaves) \in Nat /\ nmasters \in Nat /\ Len(masters) = nmasters
  BY LenProperties DEF Lists
<1>2. ASSUME NEW k \in 1..Len(masters), c = <<"master", k>>
      PROVE  Slot(PoolId(c)) = c /\ ~OutOfRange(PoolId(c))
  <2>1. PoolId(c) = k - 1
    BY <1>2 DEF PoolId, Lists
  <2>2. ~IsSlaveId(k - 1)
    BY <1>1 DEF IsSlaveId
  <2>3. (k - 1) + 1 = k
    BY <1>1
  <2>. QED  BY <1>2, <2>1, <2>2, <2>3 DEF Slot, OutOfRange
<1>3. ASSUME NEW k \in 1..Len(slaves), c = <<"slave", k>>
      PROVE  Slot(PoolId(c)) = c /\ ~OutOfRange(PoolId(c))
  <2>1. PoolId(c) = nmasters + k
    BY <1>3 DEF PoolId, Lists
  <2>2. IsSlaveId(nmasters + k) /\ (nmasters + k) - nmasters = k
    BY <1>1 DEF IsSlaveId
  <2>3. nslaves = Len(slaves)
    BY <1>1 DEF Lists
  <2>4. ~OutOfRange(nmasters + k)
    BY <1>1, <2>2, <2>3 DEF OutOfRange
  <2>. QED  BY <1>3, <2>1, <2>2, <2>4 DEF Slot
<1>. QED  BY <1>2, <1>3 DEF MasterConns, SlaveConns

LEMMA SameConns ==
    UNCHANGED <<masters, slaves>> => UNCHANGED <<MasterConns, SlaveConns>>
BY DEF MasterConns, SlaveConns

LEMMA PickIInv ==
    ASSUME IInv, NEW client \in Clients, NEW wantMaster \in BOOLEAN, Pick(client, wantMaster)
    PROVE  IInv'
<1>1. phase = "ready" /\ UNCHANGED <<phase, poolVars>>
  BY DEF Pick
<1>2. Lists' /\ UNCHANGED <<MasterConns, SlaveConns>>
  BY <1>1, SameConns DEF IInv, Lists, Secondaries, poolVars
<1>3. PICK c : c = Picked(wantMaster)
  OBVIOUS
<1>4. c = None \/ c \in (MasterConns \cup SlaveConns) \ inUse
  BY <1>3, PickedIsFree DEF IInv
<1>5. GotType'
  BY <1>3, <1>4, ConnTypes DEF Pick, GotType, IInv
<1>6. CASE c = None
  <2>1. UNCHANGED <<held, inUse>>
    BY <1>3, <1>6 DEF Pick
  <2>. QED  BY <1>1, <1>2, <1>5, <2>1 DEF IInv, Holding, InUseIffHeld, ExclusiveHandOut
<1>7. CASE c # None
  <2>1. inUse' = inUse \cup {c} /\ held' = [held EXCEPT ![client] = @ \cup {c}]
    BY <1>3, <1>7 DEF Pick
  <2>2. c \in MasterConns \cup SlaveConns /\ \A d \in Clients : c \notin held[d]
    BY <1>4, <1>7 DEF IInv, Holding, InUseIffHeld
  <2>3. \A d \in Clients : held'[d] = IF d = client THEN held[d] \cup {c} ELSE held[d]
    BY <2>1 DEF IInv, Holding
  <2>4. held' \in [Clients -> SUBSET (MasterConns \cup SlaveConns)]
    BY <2>1, <2>2 DEF IInv, Holding
  <2>5. InUseIffHeld'
    BY <2>1, <2>3 DEF IInv, Holding, InUseIffHeld
  <2>6. ExclusiveHandOut'
    BY <2>2, <2>3 DEF IInv, Holding, ExclusiveHandOut
  <2>. QED  BY <1>1, <1>2, <1>5, <2>4, <2>5, <2>6 DEF IInv, Holding
<1>. QED  BY <1>6, <1>7

LEMMA ReturnIInv ==
    ASSUME IInv, NEW client \in Clients, NEW c \in held[client], Return(client, c)
    PROVE  IInv'
<1>1. phase = "ready" /\ UNCHANGED <<phase, poolVars, got>>
  BY DEF Return
<1>2. Lists' /\ UNCHANGED <<MasterConns, SlaveConns>> /\ GotType'
  BY <1>1, SameConns DEF IInv, Lists, Secondaries, poolVars, GotType
<1>3. c \in MasterConns \cup SlaveConns
  BY DEF IInv, Holding
<1>4. inUse' = inUse \ {c} /\ held' = [held EXCEPT ![client] = @ \ {c}]
  BY <1>1, <1>3, IdLeadsBack DEF Return, IInv
<1>5. \A d \in Clients : held'[d] = IF d = client THEN held[d] \ {c} ELSE held[d]
  BY <1>4 DEF IInv, Holding
<1>6. held' \in [Clients -> SUBSET (MasterConns \cup SlaveConns)]
  BY <1>4 DEF IInv, Holding
<1>7. \A d \in Clients : d # client => c \notin held[d]
  BY DEF IInv, Holding, ExclusiveHandOut
<1>8. InUseIffHeld'
  BY <1>4, <1>5, <1>7 DEF IInv, Holding, InUseIffHeld
<1>9. ExclusiveHandOut'
  BY <1>5 DEF IInv, Holding, ExclusiveHandOut
<1>. QED  BY <1>1, <1>2, <1>6, <1>8, <1>9 DEF IInv, Holding

-----------------------------------------------------------------------------
(* The invariant is inductive.                                             *)

\* Nothing is held: what a pool starts and ends with.
LEMMA EmptyHolding ==
    ASSUME inUse = {}, held = [c \in Clients |-> {}] PROVE Holding
BY DEF Holding, InUseIffHeld, ExclusiveHandOut

LEMMA InitIInv == Init => IInv
<1>. SUFFICES ASSUME Init PROVE IInv
  OBVIOUS
<1>1. Lists
  BY EmptySeq DEF Init, Lists
<1>2. Holding
  BY EmptyHolding DEF Init
<1>. QED  BY <1>1, <1>2 DEF Init, IInv, Phases, GotType, NoPick

LEMMA StepIInv == IInv /\ [Next]_vars => IInv'
<1>. SUFFICES ASSUME IInv, [Next]_vars PROVE IInv'
  OBVIOUS
<1>1. ASSUME NEW n \in 0..MaxMasters, NEW m \in 0..MaxSlaves, NEW list \in HostLists, New(n, m, list)
      PROVE  IInv'
  <2>1. Holding'
    BY <1>1 DEF New, Holding, InUseIffHeld, ExclusiveHandOut
  <2>. QED  BY <1>1, <2>1, NewLists DEF IInv, New, Phases, GotType, NoPick
<1>2. CASE AddMaster
  BY <1>2, AddMasterLists, NobodyHolds DEF IInv, AddMaster, GotType
<1>3. CASE AddSlave
  BY <1>3, AddSlaveLists, NobodyHolds DEF IInv, AddSlave, GotType
<1>4. CASE MastersDone \/ NoSecondary \/ SlavesDone \/ ConnectFails
  <2>1. phase # "ready" /\ UNCHANGED <<inUse, held, got>> /\ phase' \in Phases
    BY <1>4 DEF MastersDone, NoSecondary, SlavesDone, ConnectFails, Phases
  <2>. QED  BY <1>4, <2>1, FillEndsLists, NobodyHolds DEF IInv, GotType
<1>5. ASSUME NEW client \in Clients, NEW wantMaster \in BOOLEAN, Pick(client, wantMaster) PROVE IInv'
  BY <1>5, PickIInv
<1>6. ASSUME NEW client \in Clients, NEW c \in held[client], Return(client, c) PROVE IInv'
  BY <1>6, ReturnIInv
<1>7. CASE PoolFree
  <2>1. Holding'
    BY <1>7 DEF PoolFree, Holding, InUseIffHeld, ExclusiveHandOut
  <2>2. Lists'
    BY <1>7, EmptySeq DEF PoolFree, IInv, Lists
  <2>. QED  BY <1>7, <2>1, <2>2 DEF IInv, PoolFree, Phases, GotType, NoPick
<1>8. CASE UNCHANGED vars
  <2>1. Lists'
    BY <1>8 DEF vars, IInv, Lists, Secondaries
  <2>2. Holding'
    BY <1>8, SameConns DEF vars, IInv, Holding, InUseIffHeld, ExclusiveHandOut
  <2>. QED  BY <1>8, <2>1, <2>2 DEF vars, IInv, GotType
<1>. QED
  BY <1>1, <1>2, <1>3, <1>4, <1>5, <1>6, <1>7, <1>8 DEF Next, Crashed

LEMMA Inductive == Spec => []IInv
BY InitIInv, StepIInv, PTL DEF Spec

\* Every value the pool keeps is of its type.
THEOREM TypeCorrect == Spec => []TypeOK
<1>1. ASSUME IInv PROVE TypeOK
  <2>1. \A c \in Clients : held[c] \subseteq Conns
    BY <1>1, ConnTypes DEF IInv, Holding
  <2>2. inUse \subseteq Conns /\ held \in [Clients -> SUBSET Conns]
    BY <1>1, <2>1 DEF IInv, Holding, InUseIffHeld
  <2>. QED  BY <1>1, <2>2 DEF IInv, Lists, GotType, TypeOK, Phases
<1>. QED  BY <1>1, Inductive, PTL

\* A connection is never with two clients (mongo-sync-pool.c:179-224).
THEOREM HandedOutOnce == Spec => []ExclusiveHandOut
<1>1. IInv => ExclusiveHandOut
  BY DEF IInv, Holding
<1>. QED  BY <1>1, Inductive, PTL

\* The flags are those of the connections that are held (mongo-sync-pool.c:227-269).
THEOREM FlagsMatchHolders == Spec => []InUseIffHeld
<1>1. IInv => InUseIffHeld
  BY DEF IInv, Holding
<1>. QED  BY <1>1, Inductive, PTL

\* The pool_id of a connection finds its place again (mongo-sync-pool.c:227-269).
THEOREM IdsFindConnections == Spec => []IdFindsConnection
<1>1. IInv => IdFindsConnection
  BY IdLeadsBack DEF IInv, IdFindsConnection
<1>. QED  BY <1>1, Inductive, PTL
-----------------------------------------------------------------------------
(* The spread of the slave connections.                                    *)

\* The slave connections of list s to the server at p: Load, for any list.
LoadIn(s, p) == Cardinality({k \in 1..Len(s) : s[k].at = p})

\* The search goes round the secondaries: those before its position are one
\* connection ahead of the others, which all have the same number.
Spread ==
    /\ phase = "none" => slaves = <<>>
    /\ phase # "none" =>
         \E m \in Nat : \A p \in Secondaries : LoadIn(slaves, p) = IF p < j THEN m + 1 ELSE m

LEMMA LeastIsLeast ==
    ASSUME NEW S \in SUBSET Nat, S # {}, NEW q \in S PROVE Least(S) <= q
BY HasLeast DEF Least

\* One more connection to the server at e.at.
LEMMA LoadAppend ==
    ASSUME NEW s, NEW t, NEW e, NEW p, Len(s) \in Nat, Len(t) = Len(s) + 1,
           t[Len(s) + 1] = e, \A k \in 1..Len(s) : t[k] = s[k]
    PROVE  /\ LoadIn(s, p) \in Nat
           /\ LoadIn(t, p) = IF e.at = p THEN LoadIn(s, p) + 1 ELSE LoadIn(s, p)
<1>. DEFINE P(u) == {k \in 1..Len(u) : u[k].at = p}
            n == Len(s) + 1
<1>1. IsFiniteSet(P(s)) /\ n \notin P(s)
  <2>1. IsFiniteSet(1..Len(s))
    BY FS_Interval
  <2>2. P(s) \in SUBSET (1..Len(s))
    OBVIOUS
  <2>. QED  BY <2>1, <2>2, FS_Subset
<1>2. P(t) = IF e.at = p THEN P(s) \cup {n} ELSE P(s)
  OBVIOUS
<1>. HIDE DEF P
<1>3. Cardinality(P(s)) \in Nat
  BY <1>1, FS_CardinalityType
<1>4. Cardinality(P(s) \cup {n}) = Cardinality(P(s)) + 1
  BY <1>1, FS_AddElement
<1>5. Cardinality(P(t)) = IF e.at = p THEN Cardinality(P(s)) + 1 ELSE Cardinality(P(s))
  BY <1>2, <1>4
<1>. QED  BY <1>3, <1>5 DEF P, LoadIn

LEMMA EmptyLoad ==
    ASSUME NEW s, s = <<>>, NEW p PROVE LoadIn(s, p) = 0
<1>1. {k \in 1..Len(s) : s[k].at = p} = {}
  OBVIOUS
<1>. QED  BY <1>1, FS_EmptySet DEF LoadIn

LEMMA AddSlaveSpread == ASSUME Lists, Spread, AddSlave PROVE Spread'
<1>. DEFINE q == NextSecondary
            e == [id |-> SlaveId(Len(slaves)), at |-> q]
            onwards == {p \in Secondaries : p >= j}
<1>1. /\ phase = "slaves" /\ phase' = phase /\ Secondaries' = Secondaries
      /\ slaves' = Append(slaves, e) /\ j' = q + 1 /\ q # -1
  BY DEF AddSlave, Secondaries
<1>2. /\ slaves \in Seq([id : Nat, at : Nat]) /\ j \in Nat
      /\ Secondaries \in SUBSET Nat /\ onwards \in SUBSET Nat
  BY DEF Lists, Secondaries
<1>3. e \in [id : Nat, at : Nat] /\ e.at = q /\ q \in Nat
  <2>1. Len(slaves) \in Nat /\ nmasters \in Nat
    BY LenProperties DEF Lists
  <2>. QED  BY <1>1, <2>1, SearchFinds DEF SlaveId
<1>4. \A p : /\ LoadIn(slaves, p) \in Nat
             /\ LoadIn(slaves', p) =
                  IF p = q THEN LoadIn(slaves, p) + 1 ELSE LoadIn(slaves, p)
  <2>. HIDE DEF e, q
  <2>. SUFFICES ASSUME NEW p
                PROVE  /\ LoadIn(slaves, p) \in Nat
                       /\ LoadIn(slaves', p) =
                            IF p = q THEN LoadIn(slaves, p) + 1 ELSE LoadIn(slaves, p)
    OBVIOUS
  <2>. DEFINE S == [id : Nat, at : Nat]
  <2>1. slaves \in Seq(S) /\ e \in S /\ slaves' = Append(slaves, e)
    BY <1>1, <1>2, <1>3
  <2>. HIDE DEF S
  <2>2. /\ LoadIn(slaves, p) \in Nat
        /\ LoadIn(slaves', p) = IF e.at = p THEN LoadIn(slaves, p) + 1 ELSE LoadIn(slaves, p)
    <3>1. /\ Len(slaves) \in Nat /\ Len(slaves') = Len(slaves) + 1
          /\ slaves'[Len(slaves) + 1] = e
          /\ \A k \in 1..Len(slaves) : slaves'[k] = slaves[k]
      BY <2>1
    <3>. QED  BY <3>1, LoadAppend
  <2>. QED  BY <1>3, <2>2
<1>5. PICK m \in Nat : \A p \in Secondaries : LoadIn(slaves, p) = IF p < j THEN m + 1 ELSE m
  BY <1>1 DEF Spread
<1>6. CASE onwards # {}
  <2>1. q = Least(onwards)
    BY <1>6 DEF NextSecondary
  <2>2. q \in Secondaries /\ q >= j /\ \A p \in Secondaries : p >= j => q <= p
    BY <1>2, <1>6, <2>1, LeastIsIn, LeastIsLeast
  <2>. HIDE DEF q
  <2>3. \A p \in Secondaries : LoadIn(slaves', p) = IF p < q + 1 THEN m + 1 ELSE m
    BY <1>2, <1>3, <1>4, <1>5, <2>2
  <2>. QED  BY <1>1, <2>3 DEF Spread
<1>7. CASE onwards = {}
  <2>1. q = Least(Secondaries) /\ Secondaries # {}
    BY <1>1, <1>7 DEF NextSecondary
  <2>2. q \in Secondaries /\ \A p \in Secondaries : q <= p /\ p < j
    BY <1>2, <1>7, <2>1, LeastIsIn, LeastIsLeast
  <2>. HIDE DEF q
  <2>3. \A p \in Secondaries : LoadIn(slaves', p) = IF p < q + 1 THEN (m + 1) + 1 ELSE m + 1
    BY <1>2, <1>3, <1>4, <1>5, <2>2
  <2>. QED  BY <1>1, <2>3 DEF Spread
<1>. QED  BY <1>6, <1>7

LEMMA SpreadAlways == Spec => []Spread
<1>1. Init => Spread
  BY DEF Init, Spread
<1>2. IInv /\ Spread /\ [Next]_vars => Spread'
  <2>. SUFFICES ASSUME IInv, Spread, [Next]_vars PROVE Spread'
    OBVIOUS
  <2>1. ASSUME NEW n \in 0..MaxMasters, NEW m \in 0..MaxSlaves, NEW list \in HostLists,
               New(n, m, list)
        PROVE  Spread'
    <3>1. slaves' = <<>> /\ j' = 0
      BY <2>1 DEF New
    <3>2. \A p : LoadIn(slaves', p) = 0
      BY <3>1, EmptyLoad
    <3>3. \A p \in Secondaries' : p \in Int /\ p >= 0
      BY DEF Secondaries
    <3>4. \A p \in Secondaries' : LoadIn(slaves', p) = IF p < j' THEN 0 + 1 ELSE 0
      BY <3>1, <3>2, <3>3
    <3>. QED  BY <3>1, <3>4 DEF Spread
  <2>2. CASE AddSlave
    BY <2>2, AddSlaveSpread DEF IInv
  <2>3. CASE PoolFree
    BY <2>3 DEF PoolFree, Spread
  <2>4. ASSUME UNCHANGED <<slaves, hosts, j>>, phase # "none" \/ phase' = phase,
               phase' = "none" => phase = "none"
        PROVE  Spread'
    <3>1. Secondaries' = Secondaries /\ \A p : LoadIn(slaves', p) = LoadIn(slaves, p)
      BY <2>4 DEF Secondaries
    <3>. QED  BY <2>4, <3>1 DEF Spread
  <2>5. CASE \/ AddMaster \/ MastersDone \/ NoSecondary \/ SlavesDone \/ ConnectFails
             \/ UNCHANGED vars
    BY <2>4, <2>5 DEF AddMaster, MastersDone, NoSecondary, SlavesDone, ConnectFails, vars, poolVars
  <2>6. ASSUME NEW client \in Clients, NEW wantMaster \in BOOLEAN, Pick(client, wantMaster)
        PROVE  Spread'
    BY <2>4, <2>6 DEF Pick, poolVars
  <2>7. ASSUME NEW client \in Clients, NEW c \in held[client], Return(client, c) PROVE Spread'
    BY <2>4, <2>7 DEF Return, poolVars
  <2>. QED
    BY <2>1, <2>2, <2>3, <2>5, <2>6, <2>7 DEF Next, Crashed
<1>. QED  BY <1>1, <1>2, Inductive, PTL DEF Spec

\* No secondary is ever given two connections more than another
\* (mongo-sync-pool.c:121-168).
THEOREM SlavesSpreadEvenly == Spec => []EvenSpread
<1>1. Lists /\ Spread => EvenSpread
  <2>. SUFFICES ASSUME Lists, Spread, NEW p \in Secondaries, NEW q \in Secondaries
                PROVE  LoadIn(slaves, p) <= LoadIn(slaves, q) + 1
    BY DEF EvenSpread, Load, LoadIn
  <2>1. CASE phase = "none"
    BY <2>1, EmptyLoad DEF Spread
  <2>2. CASE phase # "none"
    <3>1. p \in Int /\ q \in Int /\ j \in Nat
      BY DEF Secondaries, Lists
    <3>. QED  BY <2>2, <3>1 DEF Spread
  <2>. QED  BY <2>1, <2>2
<1>. QED  BY <1>1, Inductive, SpreadAlways, PTL DEF IInv
=============================================================================
