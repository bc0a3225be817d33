---------------------------- MODULE RecoveryCache ----------------------------
(***************************************************************************)
(* The connection recovery cache of mongo-sync.c: what it knows of the     *)
(* replica set and the credentials goes into each connection made from it  *)
(* (mongo_sync_connect_recovery_cache) and comes back when one is closed   *)
(* (mongo_sync_disconnect).  Several connections may be made from one      *)
(* cache; the application closes all of them before it frees the cache.    *)
(*                                                                         *)
(* What mongo_sync_reconnect does to a connection is taken from Reconnect: *)
(* it answers a ping, or is led to another server and forgets its hosts    *)
(* and primary, or NULL is returned and the object is left as it is.  To   *)
(* which server a connection leads makes no difference here.               *)
(***************************************************************************)
EXTENDS ReplicaSet, Naturals, Sequences

CONSTANTS
    Conns,      \* connection objects
    BadAddress, \* an address that mongo_util_parse_addr refuses
    Users,      \* credentials
    Seeds,      \* addresses the application adds as seeds
    Hosts       \* the members' own list of hosts

ASSUME RecoveryCacheAssumption ==
    /\ BadAddress \notin Servers /\ None \notin Servers \cup {BadAddress} \cup Users
    /\ Servers \cap Users = {}
    /\ Seeds \cup Hosts \subseteq Servers \cup {BadAddress}
    /\ MaxSeeds \in Nat

VARIABLES
    cache,      \* [seeds, hosts, primary, user]
    conn,       \* the same of each connection, or Closed
    elected,    \* the member that is the master
    known,      \* seeds and credentials entrusted to the library
    newer,      \* what came into the cache since a connection was made
    lost        \* <<reason, item>>: what was lost in a known way

cacheVars == <<cache, conn, elected, known, newer, lost>>

Addresses == Servers \cup {BadAddress}
Nothing == [seeds |-> <<>>, hosts |-> {}, primary |-> None, user |-> None]
Closed == [open |-> FALSE, rs |-> Nothing]

Elements(s) == {s[k] : k \in DOMAIN s}
Items(rs) == Elements(rs.seeds) \cup ({rs.user} \ {None})
Live == {c \in Conns : conn[c].open}

\* Items given anew are no longer lost.
Entrust(items) ==
    /\ known' = known \cup items
    /\ lost' = {l \in lost : l[2] \notin items}

-----------------------------------------------------------------------------
(* The cache by itself.                                                    *)

CacheSeedAdd(h) ==
    /\ Len(cache.seeds) < MaxSeeds
    /\ cache' = [cache EXCEPT !.seeds = Append(@, h)]
    /\ Entrust({h})
    /\ newer' = [c \in Conns |-> IF c \in Live THEN newer[c] \cup {h} ELSE {}]
    /\ UNCHANGED <<conn, elected>>

\* The application drops what the cache has; a connection may still hold it.
Discard ==
    /\ cache # Nothing
    /\ cache' = Nothing
    /\ known' = UNION {Items(conn[c].rs) : c \in Live}
    /\ lost' = {}
    /\ UNCHANGED <<conn, elected, newer>>

-----------------------------------------------------------------------------
(* mongo_sync_connect_recovery_cache.                                      *)

\* _recovery_cache_load.
\* Mutant: the seeds are not loaded.
LoadedWithoutSeeds(rs) == [rs EXCEPT !.seeds = <<>>]
Loaded(rs) == rs

\* The primary, the seeds and the hosts are tried in this order; each may
\* accept after those before it have refused.
Targets == ({cache.primary} \cup Elements(cache.seeds) \cup cache.hosts) \cap Servers

Connected(c, rs) == conn' = [conn EXCEPT ![c] = [open |-> TRUE, rs |-> rs]]

\* When none accepts, NULL is returned and nothing has changed.  With slaveok the connection
\* is returned as it is, and the cache stays.
ConnectSlaveok(c) ==
    /\ ~conn[c].open
    /\ Targets # {}
    /\ Connected(c, Loaded(cache))
    /\ newer' = [newer EXCEPT ![c] = {}]
    /\ UNCHANGED <<cache, elected, known, lost>>

\* Without, the cache is emptied and mongo_sync_reconnect (c, FALSE) called.
Reconnected(c) ==
    \/ Connected(c, Loaded(cache))
    \/ Connected(c, [Loaded(cache) EXCEPT !.hosts = {}, !.primary = None])

ConnectForced(c) ==
    /\ ~conn[c].open
    /\ Targets # {}
    /\ cache' = Nothing
    /\ Reconnected(c)
    /\ newer' = [newer EXCEPT ![c] = {}]
    /\ UNCHANGED <<elected, known, lost>>

\* It returns NULL: the connection object is lost, with all it was given.
ConnectForcedFails(c) ==
    /\ ~conn[c].open
    /\ Targets # {}
    /\ cache' = Nothing
    /\ lost' = lost \cup {<<"reconnect", i>> : i \in Items(cache)}
    /\ UNCHANGED <<conn, elected, known, newer>>

-----------------------------------------------------------------------------
(* The life of a connection.                                               *)

Changed(c, rs) == conn' = [conn EXCEPT ![c].rs = rs]

ConnSeedAdd(c, h) ==
    /\ conn[c].open /\ Len(conn[c].rs.seeds) < MaxSeeds
    /\ Changed(c, [conn[c].rs EXCEPT !.seeds = Append(@, h)])
    /\ Entrust({h})
    /\ UNCHANGED <<cache, elected, newer>>

ConnAuthenticate(c, u) ==
    /\ conn[c].open
    /\ Changed(c, [conn[c].rs EXCEPT !.user = u])
    /\ known' = known \cup {u}
    /\ lost' = {l \in lost : l[2] # u} \cup
               (IF conn[c].rs.user \in {None, u} THEN {} ELSE {<<"replaced", conn[c].rs.user>>})
    /\ UNCHANGED <<cache, elected, newer>>

\* mongo_sync_cmd_is_master, of the check before a command.
ConnIsMaster(c) ==
    /\ conn[c].open
    /\ Changed(c, [conn[c].rs EXCEPT !.hosts = Hosts, !.primary = elected])
    /\ UNCHANGED <<cache, elected, known, newer, lost>>

\* _mongo_sync_connect_replace, of a reconnect that found another server.
ConnFailover(c) ==
    /\ conn[c].open
    /\ Changed(c, [conn[c].rs EXCEPT !.hosts = {}, !.primary = None])
    /\ UNCHANGED <<cache, elected, known, newer, lost>>

\* _recovery_cache_store: the cache is discarded, then copied into.
\* Mutant: the seeds are not copied.
StoredWithoutSeeds(rs) == [rs EXCEPT !.seeds = <<>>]
Stored(rs) == rs

ConnDisconnect(c) ==
    LET rs == conn[c].rs IN
    /\ conn[c].open
    /\ cache' = Stored(rs)
    /\ conn' = [conn EXCEPT ![c] = Closed]
    /\ lost' = lost \cup {<<"older", i>> : i \in newer[c]}
    /\ newer' = [d \in Conns |-> IF d \in Live \ {c} THEN newer[d] \cup Items(rs) ELSE {}]
    /\ UNCHANGED <<elected, known>>

-----------------------------------------------------------------------------
(* The replica set.                                                        *)

\* Another member becomes the master.
ElectMember(s) ==
    /\ elected' = s
    /\ UNCHANGED <<cache, conn, known, newer, lost>>

-----------------------------------------------------------------------------
CacheInit ==
    /\ cache = Nothing
    /\ conn = [c \in Conns |-> Closed]
    /\ elected \in Servers
    /\ known = {} /\ lost = {}
    /\ newer = [c \in Conns |-> {}]

CacheNext ==
    \/ \E h \in Seeds : CacheSeedAdd(h) \/ \E c \in Conns : ConnSeedAdd(c, h)
    \/ Discard
    \/ \E c \in Conns :
         \/ ConnectSlaveok(c) \/ ConnectForced(c) \/ ConnectForcedFails(c)
         \/ ConnIsMaster(c) \/ ConnFailover(c) \/ ConnDisconnect(c)
         \/ \E u \in Users : ConnAuthenticate(c, u)
    \/ \E s \in Servers : ElectMember(s)

CacheSpec == CacheInit /\ [][CacheNext]_cacheVars

-----------------------------------------------------------------------------
(* Properties.                                                             *)

\* A seed or the credentials that the library was given are in the cache or in
\* an open connection, except in three cases: a connect that failed after the
\* cache was emptied, credentials replaced by others, and what came into the
\* cache while an older connection was open that was closed later.
Accounted ==
    \A i \in known :
        \/ i \in Items(cache)
        \/ \E c \in Live : i \in Items(conn[c].rs)
        \/ \E why \in {"reconnect", "replaced", "older"} : <<why, i>> \in lost
=============================================================================
