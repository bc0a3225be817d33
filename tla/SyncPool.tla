------------------------------- MODULE SyncPool -------------------------------
(***************************************************************************)
(* The connection pool (mongo-sync-pool.c): mongo_sync_pool_new, which     *)
(* connects to the master and, round-robin, to the secondaries the probe   *)
(* connection reports, mongo_sync_pool_pick, mongo_sync_pool_return and    *)
(* mongo_sync_pool_free.                                                   *)
(*                                                                         *)
(* The pool has no lock: its calls do not overlap, but the clients of one  *)
(* thread (or of several that serialise their calls) hold connections for  *)
(* overlapping periods and return them in any order.                       *)
(*                                                                         *)
(* A pooled connection is named <<list, position>>, its place in one of    *)
(* the pool's two lists; mongo_sync_pool_return never sees that name and   *)
(* has to find the place again from the connection's pool_id.              *)
(***************************************************************************)
EXTENDS Integers, Sequences, FiniteSets

CONSTANTS
    Clients,     \* users of the pool
    Self,        \* the host:port mongo_sync_pool_new is given
    Bad,         \* an address mongo_util_parse_addr refuses
    HostLists,   \* host lists the probe's ismaster reply may carry
    None,        \* NULL
    MaxMasters,  \* bound: nmasters
    MaxSlaves    \* bound: nslaves

ASSUME SyncPoolAssumption ==
    /\ MaxMasters \in Nat /\ MaxSlaves \in Nat
    /\ \A list \in HostLists : Len(list) \in Nat

VARIABLES
    phase,      \* "none", "masters", "slaves" (being filled), "ready", "crashed"
    nmasters,   \* pool->nmasters
    nslaves,    \* pool->nslaves
    masters,    \* pool->masters: the pool_id of each connection
    slaves,     \* pool->slaves: [id |-> pool_id, at |-> index into hosts]
    hosts,      \* conn->super.rs.hosts of the probe connection
    j,          \* where the search for the next secondary starts
    inUse,      \* pooled connections whose in_use flag is set
    held,       \* client |-> the connections it has picked and not returned
    got         \* what the last pick returned, and what it was asked for

vars == <<phase, nmasters, nslaves, masters, slaves, hosts, j, inUse, held, got>>

poolVars == <<nmasters, nslaves, masters, slaves, hosts, j>>

NoPick == [master |-> FALSE, conn |-> None]

MasterConns == {<<"master", k>> : k \in 1..Len(masters)}
SlaveConns == {<<"slave", k>> : k \in 1..Len(slaves)}

PoolId(c) == IF c[1] = "master" THEN masters[c[2]] ELSE slaves[c[2]].id

-----------------------------------------------------------------------------
(* mongo_sync_pool_new.                                                    *)

\* The probe has connected and is_master has answered TRUE.
New(n, m, list) ==
    /\ phase = "none"
    /\ n + m > 0
    /\ phase' = "masters"
    /\ nmasters' = n
    /\ nslaves' = m
    /\ masters' = <<>>
    /\ slaves' = <<>>
    /\ hosts' = list
    /\ j' = 0
    /\ inUse' = {}
    /\ held' = [c \in Clients |-> {}]
    /\ got' = NoPick

\* Connection i gets pool_id i, counting from 0.
AddMaster ==
    /\ phase = "masters"
    /\ Len(masters) < nmasters
    /\ masters' = Append(masters, Len(masters))
    /\ UNCHANGED <<phase, nmasters, nslaves, slaves, hosts, j, inUse, held, got>>

MastersDone ==
    /\ phase = "masters"
    /\ Len(masters) = nmasters
    /\ phase' = "slaves"
    /\ UNCHANGED <<poolVars, inUse, held, got>>

\* Positions (from 0) of the probe's host list that name another server.
Secondaries == {p \in 0..(Len(hosts) - 1) : hosts[p + 1] \notin {Self, Bad}}

Least(S) == CHOOSE p \in S : \A q \in S : p <= q

\* The search goes on from position j and, unless it began at the head of the
\* list, starts over there once it has run off the end.
NextSecondaryFromHead == IF Secondaries # {} THEN Least(Secondaries) ELSE -1
NextSecondary ==
    LET onwards == {p \in Secondaries : p >= j} IN
    IF onwards # {} THEN Least(onwards)
    ELSE IF j # 0 /\ Secondaries # {} THEN Least(Secondaries)
    ELSE -1

SlaveIdOffByOne(k) == nmasters + k
SlaveId(k) == nmasters + k + 1

AddSlave ==
    /\ phase = "slaves"
    /\ Len(slaves) < nslaves
    /\ NextSecondary # -1
    /\ slaves' = Append(slaves, [id |-> SlaveId(Len(slaves)), at |-> NextSecondary])
    /\ j' = NextSecondary + 1
    /\ UNCHANGED <<phase, nmasters, nslaves, masters, hosts, inUse, held, got>>

\* pool->nslaves = i - 1, where i is the number of slaves connected so far.
NoSecondary ==
    /\ phase = "slaves"
    /\ Len(slaves) < nslaves
    /\ NextSecondary = -1
    /\ nslaves' = Len(slaves) - 1
    /\ phase' = "ready"
    /\ UNCHANGED <<nmasters, masters, slaves, hosts, j, inUse, held, got>>

SlavesDone ==
    /\ phase = "slaves"
    /\ Len(slaves) >= nslaves
    /\ phase' = "ready"
    /\ UNCHANGED <<poolVars, inUse, held, got>>

\* _mongo_sync_pool_connect returns NULL, and the result is dereferenced.
ConnectFails ==
    /\ \/ phase = "masters" /\ Len(masters) < nmasters
       \/ phase = "slaves" /\ Len(slaves) < nslaves /\ NextSecondary # -1
    /\ phase' = "crashed"
    /\ UNCHANGED <<poolVars, inUse, held, got>>

Crashed == phase = "crashed" /\ UNCHANGED vars

-----------------------------------------------------------------------------
(* mongo_sync_pool_pick and mongo_sync_pool_return.                        *)

Free(C) == C \ inUse

\* The first free connection of a list.
FirstFree(C) == CHOOSE c \in Free(C) : \A d \in Free(C) : c[2] <= d[2]

Picked(wantMaster) ==
    IF ~wantMaster /\ Free(SlaveConns) # {} THEN FirstFree(SlaveConns)
    ELSE IF Free(MasterConns) # {} THEN FirstFree(MasterConns)
    ELSE None

PickUnmarked(client, wantMaster) ==
    /\ phase = "ready"
    /\ LET c == Picked(wantMaster) IN
         /\ got' = [master |-> wantMaster, conn |-> c]
         /\ held' = IF c = None THEN held ELSE [held EXCEPT ![client] = @ \cup {c}]
    /\ UNCHANGED <<phase, poolVars, inUse>>
Pick(client, wantMaster) ==
    /\ phase = "ready"
    /\ LET c == Picked(wantMaster) IN
         /\ got' = [master |-> wantMaster, conn |-> c]
         /\ inUse' = IF c = None THEN inUse ELSE inUse \cup {c}
         /\ held' = IF c = None THEN held ELSE [held EXCEPT ![client] = @ \cup {c}]
    /\ UNCHANGED <<phase, poolVars>>

\* The slot mongo_sync_pool_return takes pool_id to mean.
IsSlaveId(id) == id > nmasters
OutOfRangeOffByOne(id) == IsSlaveId(id) /\ (id - nmasters >= nslaves \/ nslaves = 0)
OutOfRange(id) == IsSlaveId(id) /\ (id - nmasters > nslaves \/ nslaves = 0)
Slot(id) == IF IsSlaveId(id) THEN <<"slave", id - nmasters>> ELSE <<"master", id + 1>>

Return(client, c) ==
    /\ phase = "ready"
    /\ c \in held[client]
    /\ held' = [held EXCEPT ![client] = @ \ {c}]
    /\ inUse' = IF OutOfRange(PoolId(c)) THEN inUse ELSE inUse \ {Slot(PoolId(c))}
    /\ UNCHANGED <<phase, poolVars, got>>

\* Connections still held are closed under their holders, who must not use
\* them any more.
PoolFree ==
    /\ phase = "ready"
    /\ phase' = "none"
    /\ masters' = <<>>
    /\ slaves' = <<>>
    /\ inUse' = {}
    /\ held' = [c \in Clients |-> {}]
    /\ got' = NoPick
    /\ UNCHANGED <<nmasters, nslaves, hosts, j>>

-----------------------------------------------------------------------------
Init ==
    /\ phase = "none"
    /\ nmasters = 0
    /\ nslaves = 0
    /\ masters = <<>>
    /\ slaves = <<>>
    /\ hosts = <<>>
    /\ j = 0
    /\ inUse = {}
    /\ held = [c \in Clients |-> {}]
    /\ got = NoPick

Next ==
    \/ \E n \in 0..MaxMasters, m \in 0..MaxSlaves, list \in HostLists : New(n, m, list)
    \/ AddMaster \/ MastersDone
    \/ AddSlave \/ NoSecondary \/ SlavesDone
    \/ ConnectFails \/ Crashed
    \/ \E client \in Clients, wantMaster \in BOOLEAN : Pick(client, wantMaster)
    \/ \E client \in Clients : \E c \in held[client] : Return(client, c)
    \/ PoolFree

Spec == Init /\ [][Next]_vars

-----------------------------------------------------------------------------
(* Properties.                                                             *)

Conns == {"master", "slave"} \X Nat

TypeOK ==
    /\ phase \in {"none", "masters", "slaves", "ready", "crashed"}
    /\ nmasters \in Nat
    /\ nslaves \in Int
    /\ masters \in Seq(Nat)
    /\ slaves \in Seq([id : Nat, at : Nat])
    /\ j \in Nat
    /\ inUse \subseteq Conns
    /\ held \in [Clients -> SUBSET Conns]
    /\ got \in [master : BOOLEAN, conn : Conns \cup {None}]

\* No connection is in the hands of two clients: each runs its request and
\* reads the reply on a socket nobody else writes to.
ExclusiveHandOut ==
    \A c, d \in Clients : c # d => held[c] \cap held[d] = {}

\* The in_use flags set are exactly those of the connections somebody holds:
\* a return frees that connection and no other, so none is lost to the pool
\* or handed out while it is in use.
InUseIffHeld == inUse = UNION {held[c] : c \in Clients}

\* The pool_id of every pooled connection leads mongo_sync_pool_return to the
\* place of that very connection, and is never out of its range.
IdFindsConnection ==
    phase = "ready" =>
        \A c \in MasterConns \cup SlaveConns :
            Slot(PoolId(c)) = c /\ ~OutOfRange(PoolId(c))

\* The slave connections are spread evenly over the secondaries, however the
\* host list interleaves them with the master and with unusable addresses.
Load(p) == Cardinality({k \in 1..Len(slaves) : slaves[k].at = p})
EvenSpread ==
    \A p, q \in Secondaries : Load(p) <= Load(q) + 1
=============================================================================
