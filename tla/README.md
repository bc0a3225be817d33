# A TLA+ development of libmongo-client

libmongo-client is a C client library for MongoDB. This directory holds TLA+
modules that model its stateful parts, TLC configurations that check them on
small instances, and TLAPS proofs of their main invariants for every value of
their constants. Paths below are relative to the repository's `src/` directory
(so `mongo-sync.c` is `src/src/mongo-sync.c` of the mapped sources).

Contents

1. The system: components, state, operations, interactions
2. What is hard about it
3. Modules and how they correspond to the code
4. What is checked: the runs, their bounds and their fairness
5. Where code and documentation or tests disagree
6. What is proved
7. What is not modelled, and why
8. Plan


## 1. The system

The library is layered. Each layer keeps its state in a struct that the
application owns; nothing runs in the background, and nothing is locked. A call
runs to its end in the caller's thread, blocking on the socket. Concurrency
comes from outside: the servers, the network, other clients of a pool, and the
time between two calls.

| component | files | state | operations |
|---|---|---|---|
| BSON documents | `bson.c` | growing buffer, `finished` flag; cursor position | append, finish, reset, find, next |
| Wire packets | `mongo-wire.c` | header and data | one constructor per command; reply accessors |
| Sockets | `mongo-client.c` | descriptor, `request_id`, time-out | connect, disconnect, packet send, packet recv |
| Connection and failover | `mongo-sync.c` | descriptor, hosts, seeds, primary, flags, credentials | connect, reconnect, seed add, setters, disconnect |
| Recovery cache | `mongo-sync.c` | hosts, seeds, primary, credentials kept beside the connection | new, free, discard, seed add, connect |
| Command layer | `mongo-sync.c` | `last_error`, safe mode, auto-reconnect, the ids of the requests | every `mongo_sync_cmd_*` |
| Bulk insert | `mongo-sync.c` | locals of `mongo_sync_cmd_insert_n`, `max_insert_size` | insert, insert_n |
| Connection pool | `mongo-sync-pool.c` | two lists of connections with `pool_id` and `in_use` | new, pick, return, free |
| Cursor | `mongo-sync-cursor.c` | a reply packet, its header, an offset | new, next, get_data, free |
| GridFS | `sync-gridfs*.c` | chunk size, stream buffers and offsets, a cursor over chunks | upload, stream write/read/seek/close, list, remove |
| Object ids, addresses | `mongo-utils.c` | machine id, sequence number | oid_init, oid_new, parse_addr |

How they interact. The command layer builds a packet (wire), makes its own
checks over the same socket (`_mongo_cmd_verify_slaveok`,
`_mongo_cmd_ensure_conn`), sends it (`_mongo_sync_packet_send`) and reads one
reply (`_mongo_sync_packet_recv`). The send may call `mongo_sync_reconnect`,
which opens connections, pings them through the command layer and calls itself
on them; when it re-authenticates, the command layer may call it again on the
same object. The cursor, the bulk insert and GridFS are loops over commands. The
pool hands out connection objects, each of which then does all of this alone.

What makes each part correct:

* Failover: the caller's object always owns an open socket of its own; the
  socket is exchanged only for one that passed the check that was asked for;
  failure changes nothing; every call returns.
* Command layer: a reply is never taken for the answer to another request; a
  write goes only to a server that said it is the master; a write that is
  reported as verified was applied once; every command returns.
* Bulk insert: the packets partition the list, in order, and respect the limit.
* Pool: a connection is in one client's hands; a return frees that connection.
* Cursor: every document once, in order; the server's cursor is released.
* Recovery cache: seeds and credentials are in the cache or in a connection, or
  their loss has one of three reasons.
* GridFS, writing: a file with metadata has all its chunks and no other, whatever
  inserts fail and whoever else writes; a closed stream has what was handed over, but
  for two cases the property names.
* GridFS, reading: the bytes are those of the stream's position; no read leaves a
  chunk; every round gets on.
* GridFS, removing: metadata never outlives its chunks; a remove that says TRUE
  has removed what it listed; every remove returns.
* Object ids: two draws are equal only for reasons that are known.
* BSON: the length is that of the elements; a cursor steps from element to element,
  whatever was appended, copied or nested.


## 2. What is hard about it

The list with its lines is `hazards` in `PROJECT.json`. In short:

* members of the replica set fail, restart and change roles between any two
  exchanges of a failover that is itself a recursion (`mongo-sync.c:271-393`);
* the failover re-enters itself through the re-authentication;
* an error path half-way down the recursion must not close a socket in use, nor
  leak one, nor return one nobody checked;
* descriptors are compared with 0 to mean "none" (`mongo-sync.c:259`);
* request ids are reused (a packet is built before the checks that precede it
  are sent, and takes the same id), and late replies stay in the socket;
* a send that fails is tried again after a reconnect;
* positions are decoded from ids that count from two different bases
  (`mongo-sync-pool.c:97`, `:143`, `:241-262`);
* the cut of a bulk insert takes one document back, except at the end, and neither the
  running size nor the packet's own looks at overflow;
* an error string that anything on the way of a call may leave behind is read as the
  answer to a write (`mongo-sync.c:1424`);
* a cursor is used on after a fetch that failed before or after the server moved;
* the recovery cache is emptied before the connection made from it is checked, and
  overwritten by whichever connection is closed last (`mongo-sync.c:2135`, `:406`);
* an insert of a chunk that is reported as failed may have been applied, and one
  that is reported as done may be lost (`sync-gridfs-stream.c:342`);
* a stream, written or read, treats the end of a file of whole chunks unlike any other;
* two clients remove the same files, and a third walks over their chunks;
* ids are drawn by threads, connections and forked processes in the same second;
* a search in a document starts at the cursor's own element and wraps over the end
  (`bson.c:894`), and a cursor may outlive what its document contained, with two positions
  in it that then no longer belong together.


## 3. Modules and how they correspond to the code

`PROJECT.json` maps every definition to its lines. A library call that makes
network exchanges is a sequence of actions, one per exchange, because that is
where the environment can interfere; code between two exchanges is one step.

`ReplicaSet` declares the constants that `Reconnect` and `RecoveryCache` share: the
servers, the absent value and the number of seeds a user may add. `RecoveryCache`,
`ObjectId` and `BsonDocument` have names of their own for what every specification has
(`CacheInit`, `ObjectIdNext`, `BsonSpec`, ...), so that one proof module can extend
each of them together with the component it works with.

### Reconnect (and ReplicaSet, Failover, MCReconnect, ReconnectProofs)

`mongo_sync_connect`, `mongo_sync_reconnect`, `_mongo_sync_connect_replace`,
`mongo_sync_cmd_is_master`, the re-authentication, `mongo_sync_disconnect`, the
seeds and flags, over a replica set whose members go down, come back, are elected
and step down, and links that break.

| module | code |
|---|---|
| `stack` | one `mongo_sync_connection` per activation of the recursion; `stack[1]` is the caller's |
| a frame's `pc`, `i` | where the activation is, and the index in the list it walks |
| `peer`, `alive` | the descriptor table, and which sockets still transfer data |
| `pending`, `out` | activations suspended inside `mongo_sync_cmd_authenticate`; the loop variable `out` of `_mongo_sync_packet_send` |
| `creds`, `authed` | `auth.db/user/pw` are set; sockets the server authenticated |
| `role`, `view` | the servers; the `primary` key their ismaster replies carry |
| `ghost` | what the running call is observed to do; no action's guard or program variable depends on it |

Actions follow the function from top to bottom: `PingAnswered`/`PingFails`
(287-292), `MasterFound`/`NotMaster` (293-294), `RefreshHosts` (296-298),
`TryPrimary` (306-330), `TryHosts` (335-359), `TrySeeds` (363-389),
`NestedReturnsConn`/`NestedReturnsNull` (319-327 and its two copies),
`ReturnConn`/`ReturnNull`, then `GetNonce`, `AuthenticateAccepted`,
`AuthenticateFails`, `SendFailsReconnect` and `ResumeAuthentication`.
`NestedReturnsNull` keeps what the code does: nothing is replaced, the
connection that had been opened is not disconnected, and the caller's own
connection is returned as if all was well.
`ResumeAuthentication` goes on with an authentication after another one made inside it
has freed `conn->auth.db`, `user` and `pw`, which it still reads: what it then sends is
accepted or refused.

A connection is the descriptor it holds; the bytes exchanged over it are not
modelled. An exchange succeeds on a live link and fails on any other.

`Failover` is the abstract specification: a connection, the socket under it, and
the rule under which a call may exchange it and what it may then return.
`Reconnect!ImplementsFailover` is
that specification under the mapping at the end of `Reconnect`.

### SyncCommand (and SyncCommandProofs)

One connection and the whole path of a command: the checks before it, the send
with its retry, the reply, `getLastError` in safe mode, and `last_error`. The
commands are grouped by what the code tells apart: `insert`, `update`, `delete`
(no reply), `query`, `getmore`, `custom` (any command that needs no master),
`create` (any that does), `kill`, and `reset` (sent with `check_conn = FALSE`).

| module | code |
|---|---|
| `rid`, `id`, `xid` | `super.request_id`; the id the packet was built with; the id `_mongo_sync_packet_recv` compares |
| `flags`, `lastError` | `auto_reconnect`, `slaveok`, `safe_mode`; `last_error` |
| `pc`, `awaiting` | the exchange the command is in (`slaveok`, `ensure`, `gle`, and for `mongo_sync_reconnect` `rping`, `rmaster`, `rrefresh`, the search `rother`, and `rnonce`, `rauth` of the re-authentication), and whether its request is out |
| `out`, `back` | the retry flag of `_mongo_sync_packet_send`; who called reconnect |
| `reqs`, `reps`, `link`, `timed` | the socket: two FIFO queues, broken or not, with or without a time-out |
| `master`, `srvError` | the server at the other end |

A reconnect is its checks of the present socket, exchange by exchange, followed
by one step with an outcome `Reconnect` allows: NULL (`ReconnectFails`),
another socket that passed the check (`Reconnected(TRUE)`), or a connection that
passed none: `Reconnected(FALSE)` and `ReconnectedToNothing`. The last two
are what `Failover` calls `loose`, and the safety properties name them as
the exception. Then, if the connection has credentials, come the two exchanges of
`mongo_sync_cmd_authenticate` (`AfterLogin`), whose result `mongo_sync_reconnect` does not
look at: the server may refuse them, and its errmsg is then the `last_error` of the
connection. They may find the socket broken and reconnect the object once more
(`LoginReconnects`), which leaves a connection that is `loose`. Each message knows whether it belongs to the exchange in
progress (`mine`); the library does not see that field, the properties do. `ghost`
records what a property needs to know of the past: how often the write was
applied, whether a master was seen (`mastered`), whether the connection is `loose`,
and whether a command has failed, or an authentication been refused, since the error was
last forgotten (`blamed`).

### BulkInsert (and MCBulkInsert, BulkInsertProofs)

`mongo_sync_cmd_insert_n`, loop by loop, with the gint32 arithmetic of its
running size. A document is the number `bson_size` returns, -1 for one that is
not finished. `mongo_sync_cmd_insert` collects its arguments and calls it. The packet
is built by `mongo_wire_cmd_insert_n`, which adds the sizes up in a gint32 of its own:
when that and the `Preamble` (flags and namespace) pass `MaxInt` (`Overlong`), memory is
allocated with one size and filled with another, and the model ends (`SendOverlong`).

### SyncPool (and MCSyncPool, SyncPoolProofs)

`mongo_sync_pool_new` connection by connection, with the search for the next
secondary in the host list, then `pick`, `return` and `free` by several
clients in any order. A client returns only what it picked. The calls do not
overlap: the code has no lock and makes no claim to the contrary.

### SyncCursor (and SyncCursorProofs)

`mongo_sync_cursor_new`, `next`, `get_data` and `free` over a server with a
cursor of its own, which it may forget, and exchanges that fail before or after
the server has moved. A get_more may fail over to another server (`moved`), which
does not know the cursor. Documents are numbers, a batch is a run of them, and the
server chooses how long each batch is.

### RecoveryCache (and MCRecoveryCache; proofs at the end of ReconnectProofs)

The cache and several connections made from it: seeds added to either,
`mongo_sync_connect_recovery_cache` with and without `slaveok`, authentication,
`is_master`, the failover of an open connection, and `mongo_sync_disconnect`, which
stores the connection's knowledge in the cache. `ConnectForced` and
`ConnectForcedFails` keep the order of the code: the cache is discarded, then
`mongo_sync_reconnect` is called, whose outcomes are those `Reconnect` allows.
`known`, `newer` and `lost` record, for the property, what the library was given,
what came into the cache while a connection was open, and why something was lost.

### GridFSWriter (and GridFSWriterProofs)

`mongo_sync_gridfs_stream_new`, `write`, `close`, and the upload of a buffer, by
several writers into one pair of collections. One round of the write loop is an
action (`Fill`, or `FillAndFlush` with the insert of a chunk); `CloseChunk`,
`CloseMeta` and `CloseEmpty` are the three things `close` may do, and `uploads` tells an
upload from a stream. `broken` are the writers that were answered FALSE or NULL, `dropped`
those whose `close` returned TRUE although it could not insert the last chunk. A byte is its
place in what the writer handed over, so that a chunk is where its bytes begin and
how many they are, and the MD5 sum is the number of bytes digested. `Answers` is
what `mongo_sync_cmd_insert` may say of an insert and what became of the document, with
and without safe mode, including the duplicate the unique index refuses.

### GridFSReader (and GridFSReaderProofs)

`mongo_sync_gridfs_stream_find`, `read` (one action per round), `seek` and `close`,
over a file whose chunks may fail to arrive or be removed. `offset` and `current`
are the place in the file, `data`, `place` and `start` the loaded chunk;
`start` stays what it was when a chunk of the newer subtype is loaded, as in the code.
For the property, `missed` says that a chunk of the file did not arrive, `beyond` that the
stream itself asked for one the file does not have.

### GridFSRemove (and GridFSRemoveProofs)

`mongo_sync_gridfs_list` and `remove` by several clients, with one action per
delete, and `mongo_sync_gridfs_chunked_find` with the chunk cursor by readers. The
cursor hands out batches of what is still in the collection; a delete may fail, or
be lost and return TRUE, because deletes are not verified.

### ObjectId (and MCObjectId; proofs at the end of GridFSWriterProofs)

`mongo_util_oid_init` and `mongo_util_oid_new` as GridFS draws ids: the sequence
number is the request id of the connection. Processes start, fork and call
`oid_init`; connections send requests and are given other sockets, which puts
their request id at -1, up to `MaxResets` times. The widths 2^16, 2^24 and 2^32 are
constants.

### BsonDocument (and MCBsonDocument; proofs at the end of BulkInsertProofs)

Documents as the sequence of their elements and the length of the byte array, with
append, build, finish, reset, copy, nesting and taking a nested document out again,
and one cursor, which is two positions in the byte array, of an element (`cursor.pos`) and of
its value (`value_pos`). What a reader skips (`Skip`, from `_bson_get_block_size`) and what
an append writes are separate definitions, as they are in the code, for every type that
can be appended. A cursor over a document that was reset and filled anew may stand in the
middle of an element (`Astray`), or at one whose value is elsewhere (`Aimed` is that the
positions belong together): `next` then takes bytes for what they are not (`Misread`), and
so does taking out a nested document (`GetStray`). A key is the number of its letters;
`_bson_cursor_find` compares the lengths and then the whole keys (`bson.c:913`), so it
finds equal keys only. Documents nest one level deep: what is nested has no nested
element itself.


## 4. What is checked

| run | instance | what it shows |
|---|---|---|
| `reconnect` | 2 servers and a bad address, descriptors 0..2, 2 faults | `FdOwnership`, `OpenAccounted`, `VerifiedReturn`, `ReauthOnFailover` |
| `reconnect_promise` | 2 servers, descriptors 1..3, 2 seeds, 1 fault, fairness | `ImplementsFailover`, `SettingsKept`, `CallReturns` |
| `command` | insert, query, reset; request ids up to 2, 2 faults, fairness | `NoCrossTalk`, `MasterBeforeWrite`, `SafeAck`, `FalseAlarmHasCause`, `CallReturns`, at most one application of a write (in `TypeOK`) |
| `bulk` | up to 4 documents of 5 sizes, 3 limits, a 5-bit integer, a preamble of 2 bytes | `Tiled`, `AllSent`, `ChunkProgress`, `CutFits` |
| `pool` | 2 clients, up to 2 masters and 3 slaves, 9 host lists | `ExclusiveHandOut`, `InUseIffHeld`, `IdFindsConnection`, `EvenSpread` |
| `cursor` | 5 documents, any batching, 2 faults | `Gapless`, `NoRepeat`, `Released`, `EndIsReal` |
| `cache` | 2 connections, 2 servers that are seeds and hosts, a bad address among the hosts, 1 user, up to 2 seeds each | `Accounted` |
| `gridfs_writer` | 2 writers, 2 ids, chunks of 2 bytes, 5 bytes each, 2 faults | `ListedIsComplete`, `ClosedIsWhole`, `ListedIsFrozen` |
| `gridfs_reader` | chunks of 3 bytes, a header of 1, files of up to 7 bytes, 2 faults | `ReadsContent`, `RoundInChunk` |
| `gridfs_remove` | 2 files of 2 chunks, 2 removers, 1 reader, 1 fault, fairness | `ListedHasChunks`, `OrphansAccounted`, `RemovedIsGone`, `ShortWalkMeansRemoval`, `RemoveReturns` |
| `objectid` | 2 processes, 2 connections, pids of 2 halves of 2 values, 2 draws in 2 seconds, 2 requests and 1 other socket per connection | `CollisionsExplained` |
| `bson_document` | a document of 2 elements and one of 1 that goes into it, 2 keys | `LengthsAdd`, `WalksInOrder`, `FindsWhatIsThere` |

The bounds, all of them constants:

* `Fds` (Reconnect). The descriptor table is finite in the program as well, and
  a full table is a case of its own. With three descriptors the recursion is up to
  three deep: an outermost activation, one in the middle that both was called and
  calls, and an innermost one, so each kind of caller and callee occurs.
  Descriptor 0 is in the table of `reconnect`, because the code treats it as
  none, and absent in `reconnect_promise`, where the exception it makes would only
  add states.
* `Servers`, `Members`. Two members are a primary and another one, or two that
  disagree; the list the members report also holds an address
  `mongo_util_parse_addr` refuses in `reconnect`.
* `MaxEvents`. Two faults in one call or in successive calls: one that makes the
  failover necessary and one that hits it on the way.
* `MaxSeeds`. One seed is added by connecting; in `reconnect_promise` the application
  adds a second one.
* `MaxId`, `MaxFaults` (SyncCommand). No command begins past request id 2; a
  reconnect resets the ids, so that behaviours go on from there. Two commands are
  enough for a reply of the first to meet the second; two faults for a late reply
  followed by a broken link. The theorems of section 6 hold without these bounds.
* `Commands` (SyncCommand). An insert is what every write is, and the one that is also
  verified and sets `last_error` itself; a query has the slaveok check and clears the
  error; a reset is sent without a check and never reconnects. The other kinds differ
  from these in one of the sets `Writes`, `Verified` and `Reads` or in `ForceMaster`; the
  theorems hold for all of them.
* `MaxDocs`, `Sizes`, `MaxInt` (BulkInsert). Four documents give a cut in the
  first packet, in a later one, and a last one of one document. With the largest
  limit the sum of two sizes passes `MaxInt`, as two sums near 2^31 do. With the
  two others no sum does, that of a packet with its `Preamble` included.
* `MaxMasters`, `MaxSlaves`, `Clients` (SyncPool). Two masters separate the
  ranges of master and slave ids; three slaves on two secondaries wrap round the
  host list. The host lists put the master and a bad address at each end and
  between secondaries.
* `Docs`, `MaxFaults` (SyncCursor). Five documents: batches of one, and
  batches longer than one followed by shorter ones.
* `MaxSeeds`, `Conns` (RecoveryCache). Two connections of one cache can be closed in
  the order they were opened or in the other. With two seeds a connection made from a
  seed can be given another, and one that came into the cache meanwhile can be
  overwritten. There is one user here; that credentials replace others is left to the
  theorem, which holds for any.
* `MaxBytes`, `ChunkSize` (GridFSWriter). Five bytes in chunks of two: a write that
  fills a chunk exactly, crosses one, or crosses two and leaves a tail, and a
  close with and without a tail. Two writers draw the same id or two.
* `MaxLength`, `ChunkSize`, `Header` (GridFSReader). Three chunks, of which the last
  is whole, short, or shorter than the header; seeks to any place and beyond.
* `Ids`, `Count` (GridFSRemove). Two files and two batches, so that a file listed in
  the first batch or the second may be gone when its turn comes; two chunks, so
  that a walk can stop between them.
* `Half`, `SeqMod`, `Machines`, `MachineLow`, `MaxTime`, `MaxRequests`, `MaxResets`,
  `MaxDraws` (ObjectId). Each width is two values, the least that has a carry, a sign and a
  wrap. A connection is given another socket once, which is what puts two connections, or
  one before and after, at the same request id; the theorem holds for any number.
* `MaxElems`, `Types`, `Lengths` (BsonDocument). Two elements, so that one can be
  searched before, at and after the cursor. The run appends binaries, documents
  and scoped code, whose skip size is computed in three different ways; the
  module has every type that can be appended.

Where TLC checks deadlock, it finds none: the pool's process end is a
stuttering step (`Crashed`), and everything else can always begin another call. The
check is off for the writers, which open one file each and are then done, for the
reader, which may have closed a stream whose chunks are gone, and for BSON
documents and the bulk insert, where undefined behaviour ends the model.
`SyncCommand` begins no command past `MaxId`, yet the application can then still
change its flags.

Fairness. `Reconnect!FairSpec` asks for weak fairness of `Library`, the step of
the call in progress: a running thread goes on, and an exchange ends with a reply
or an error. `SyncCommand!FairSpec` asks for that and for weak fairness of
`ServerHandles`: a request that has arrived over a link that works is answered.
`GridFSRemove!FairSpec` asks for weak fairness of each remover's own steps
(`Loop(c)`), with the same justification: each of its exchanges ends.
Nothing is assumed about faults, elections or the application. A library step
that waits for a reply is not enabled before the reply, the break of the link
or the time-out, so a server that never answers on a socket without a time-out is
excluded by the second assumption only; in the program such a call does
hang, which is what `mongo_connection_set_timeout` is for.


## 5. Where code and documentation or tests disagree

The models follow the code. Where the documentation, a comment or a test says
something else, the property that comes nearest names the case as an exception, so that
everything outside the exception is checked.

| the code | what is said | the exception in |
|---|---|---|
| when a nested call returned NULL, `mongo_sync_reconnect` returns the connection it was given, although nothing on it was verified (`mongo-sync.c:319-327`) | an available node is returned, or NULL (`mongo-sync.h:139-146`) | `VerifiedReturn`, `Failover` (`loose`) |
| without a primary the recursion repeats itself on one server with the same hosts until the process has no descriptors left | it cannot loop (`mongo-sync.c:317-318`) | `CallReturns` (it ends there) |
| an update that was applied and confirmed is reported as failed when an earlier command left a `last_error`, or a re-authentication refused on the way (`mongo-sync.c:1424`, `:792-794`, `:353-356`) | TRUE on success (`mongo-sync.h:265`) | `FalseAlarmHasCause` |
| the last packet of a bulk insert may exceed `max_insert_size` (`mongo-sync.c:918`) | past the size the request is split (`mongo-sync.h:239-243`) | `CutFits` |
| the size of a packet is an unchecked gint32 sum: with `max_insert_size` above 2^30 it may wrap, and the packet is written past its allocation (`mongo-wire.c:275-294`) | one can set the maximum size (`mongo-sync.h:240-246`) | `CutFits` (`undefined`) |
| after a failed fetch `mongo_sync_cursor_next` may return TRUE with no document behind it (`mongo-sync-cursor.c:74`) | TRUE if the cursor could be advanced (`mongo-sync-cursor.h:69-71`) | `Gapless` (`trouble`) |
| a connect from the cache calls `mongo_sync_reconnect (c, FALSE)` and may return a secondary (`mongo-sync.c:2136`) | the test expects the master (`tests/unit/mongo/sync/sync_connect_from_cache_enforce_primary.c:35-36`) | none: `RecoveryCache!Reconnected` does not tell servers apart |
| a stream whose length is a multiple of the chunk size is closed without metadata, and its file cannot be found (`sync-gridfs-stream.c:454-464`) | close writes out the metadata (`sync-gridfs-stream.h:125-127`) | `ClosedIsWhole` (streams, not uploads) |
| a stream whose last chunk cannot be inserted is closed without metadata, freed, and TRUE is returned, in safe mode too (`sync-gridfs-stream.c:456-468`, `:506`) | TRUE on success, FALSE otherwise (`sync-gridfs-stream.h:131`) | `ClosedIsWhole` (`dropped`) |
| a close whose metadata cannot be inserted returns FALSE and frees nothing; the stream still has its last chunk buffered, and a second close inserts it and digests it again (`sync-gridfs-stream.c:460-464`, `:484-491`) | resources are freed in all cases (`sync-gridfs-stream.h:125-127`) | `GridFSWriter!CloseMeta`; `ListedIsComplete` (`lost`) without safe mode, `ClosedIsWhole` (`broken`, `dropped`) with it |
| a seek to the end of a file of whole chunks asks for a chunk there is not, returns FALSE and leaves the stream at its old offset without data, so that the next read delivers chunk 0 (`sync-gridfs-stream.c:418-422`, `:243`) | seek to an arbitrary position (`sync-gridfs-stream.h:108-117`); the test seeks to the end and expects TRUE (`tests/func/mongo/sync-gridfs-stream/f_sync_gridfs_stream.c:422-423`) | `ReadsContent` (`beyond`) |
| the header of the old binary subtype is counted against the chunk and the file, so that four bytes of each chunk are skipped (`sync-gridfs-stream.c:265`) | the start offset supports the subtype (`libmongo-private.h:206-207`) | `ReadsContent` (`binary`) |
| after a chunk could not be fetched, a seek to the offset where the stream stands does nothing, and the next read begins with chunk 0 (`sync-gridfs-stream.c:384-386`, `:243`) | seek to an arbitrary position (`sync-gridfs-stream.h:108-117`) | `ReadsContent` (`missed`) |
| `mongo_sync_gridfs_remove` returns TRUE when its cursor ended on an error (`sync-gridfs.c:299`) | TRUE if all files were deleted (`sync-gridfs.h:116-117`) | `RemovedIsGone` (`cut`) |
| `oid_init` shifts the static `pid`, not the pid it was given: the high half never reaches the id (`mongo-utils.c:55`) | half the bits modulate the machine id (`mongo-utils.c:49-52`) | `CollisionsExplained` |
| `bson_cursor_find_next` finds the element the cursor stands on (`bson.c:951`) | past the current one (`bson.h:606-608`) | `FindsWhatIsThere` |
| a cursor over a document that was reset and not finished dereferences NULL (`bson.c:871`) | an error if passed an open object (`bson.h:552-553`) | `BsonDocument!Crash` |
| `bson_build` goes on without an element that was refused (`bson.c:316`) | NULL on error (`bson.h:219-221`) | `BsonDocument`, the build |

Deviations the models contain and no property is about: discovered hosts are
tried before the seeds (`mongo-sync.c:335` against `mongo-sync.h:124-125`);
reads fail over as writes do (`mongo-sync.c:1031` against `NEWS:318-320`); an
`EPROTO` in the check before a write ends the command without a reconnect
(`mongo-sync.c:548`); `pick` searches from the head of the list and is not
round-robin (`mongo-sync-pool.c:192` against `mongo-sync-pool.h:37-39`);
`nslaves` becomes one less than the number of slaves, -1 for none
(`mongo-sync-pool.c:138`); a connection that fails while the pool is being
filled is dereferenced as NULL (`mongo-sync-pool.c:98`, `:144`).


## 6. What is proved

Every theorem holds for all values of the constants that satisfy the module's
named assumption (`SyncCommandAssumption` and so on), which TLC evaluates in the
runs. Each proof module follows one plan: an invariant `IInv` as a conjunction of named
parts, that the initial states satisfy it, one lemma per action, that every step keeps it, and
then one theorem per property. Each `IInv` was model-checked before it was proved.

Every invariant and every action property of the runs is stated by a theorem, and so is
the refinement of `Failover`; what remains with TLC alone is at the end of this section.

The proofs about `RecoveryCache`, `ObjectId` and `BsonDocument` stand at the end of the
proof module of the component they work with: a connection reconnects, a file needs
an id, a packet is a sum of documents. That module extends both components, whose variables
are disjoint, and each theorem is about the component's own specification
(`CacheSpec => []Accounted`, `ObjectIdSpec => CollisionsExplained`,
`BsonSpec => []LengthsAdd`). Nothing that is assumed of the other component's
constants is used in them.

Three theorems bound how long a call can be. They are the half of liveness that can
be proved: every step inside a call brings it nearer to its end. That a step is always
possible, and is taken, is what TLC adds (below).

**ReconnectProofs**

* `TypeCorrect`: `Spec => []TypeOK`.
* `Ownership`: `Spec => []FdOwnership`. The invariant is inductive together with
  the types; the step that matters is `NestedReturnsConn`, where the socket of
  the object that is freed moves to the one below and the old one is closed.
* `ReturnedIsVerified`: `Spec => []VerifiedReturn`. `VerifiedReturn` speaks only
  of the moment a call has returned, and is far from inductive. The invariant
  `VerifiedInv` has two parts. `PendingInv`: an activation is suspended inside an
  authentication only if the call has recorded a re-entry, so that without that
  excuse `force` still is the flag the call was made with. `SettledInv`: from the
  moment an activation has settled on its connection ("done", or authenticating)
  until the call returns it, the socket on top of the stack is one that passed the
  check; `NestedReturnsConn` carries it to the object below.
* `FailoverReauthenticates`: `Spec => []ReauthOnFailover`. The property compares the
  socket that comes back with the one the call began with, so its invariant, `RunInv`,
  follows the caller's object through the whole call. `WaitInv`: all activations but the top
  one wait. `AuthInv`: an authenticate call recurs only as a re-entry that is on
  record. `KeptInv`: until the caller's activation settles, its object has the socket
  the call began with. `ReauthInv`: once it is done with another socket and nothing
  excuses it, that socket is authenticated.
* `DescriptorsAccounted`: `Spec => []OpenAccounted`. No descriptor leaks, but for the
  abandoned connection and descriptor 0. It rests on `Ownership`: closing or handing
  over one object's descriptor leaves the others accounted for.
* `FailoverKeepsSettings`: `Spec => SettingsKept`, from `CallerKept`, what every step
  leaves of the caller's object, and `SlaveokInv`, because the object that
  `_mongo_sync_connect_replace` takes over was made with the caller's flag.
* `FailoverImplemented`: `Spec => ImplementsFailover`, that is, `Reconnect` implements
  `Failover`. The refinement mapping shows the caller's socket, whether a call is in
  progress, and what it observed. Opening a connection, a check that fails, a list that is
  refreshed and everything inside the recursion are stutters (`PromiseStutter`); a check that is
  answered is `Answer`, a NULL or a re-entry `Loosen`, the return into the caller's object
  `Exchange`; the ends of the call are `Succeed` and `Fail`, and that the socket
  returned was checked is `SettledInv`, that NULL leaves the old one `KeptInv`.
* `CallTerminates`: every step made while a call is in progress, of the library or of the
  environment, makes `Left` smaller in an order that is proved well-founded. `Left` is a
  sixtuple: the faults to come; whether the call may still reconnect; the activations
  suspended in it; the descriptors a search may still open; how many activations there
  are to return from, or places of the search to go through; the addresses left in the
  list at hand. The second is the delicate one. A re-authentication whose send fails
  reconnects, and that authenticates again, without a bound in the code. `Steady` says why it
  happens once between two faults: it searches for any server (`force` is off), and
  such a search settles on a socket that works or on none at all. The fourth is why
  the recursion of the search ends: every activation owns a descriptor (`Ownership`).
  `PlaceInv`: only the caller's object authenticates. The hypothesis `IsFiniteSet(Fds)` is the
  process's limit on descriptors; that faults are finitely many is `MaxEvents`, for any value.
* `NestingBounded`: `mongo_sync_reconnect` is active at most `Cardinality(Fds)` times at
  once, and the activations suspended in an authentication are at most one more than
  the faults so far. The model cuts neither recursion off; this is the bound that holds.
  The first is not small: without a primary the search does use every
  descriptor (section 5).
* `ItemsAccounted`: `RecoveryCache`'s `Accounted` for any number of connections of one
  cache. What makes it inductive is `OlderIsCovered`: whatever a connection would overwrite
  in the cache when it is closed came in after it was made, is in an open
  connection as well, or was reported lost. Without it a disconnect may overwrite
  the last copy of a seed.

**SyncCommandProofs**

* `TypeCorrect`, `RepliesAreOwn`, `WritesGoToTheMaster`, `SafeModeConfirms`,
  `FalseAlarmsHaveCauses`: `TypeOK` (with at most one application of a write),
  `NoCrossTalk`, `MasterBeforeWrite`, `SafeAck` and `FalseAlarmHasCause`, for any set
  of commands and any number of requests and faults.
* The invariant says what the two queues of a socket may contain. `Once`: the write
  of the command is in flight at most once, and not before the command's packet was
  sent. `Ids`: on a socket that was checked, requests and replies stand in the
  order of their ids, none above the latest, and the id that is waited for is the
  latest and belongs to the own exchange; a packet built before the checks is
  sent with an older id only when nothing is in flight (`Sendable`), which is why
  the reuse of ids does no harm. `GleOld` holds on every path, also over a
  connection nobody checked: the id of a getLastError is never used again.
  `Ack`: between a write and the getLastError that confirms it there is
  nothing in the queue, so that the server's error status is that of the write.
  `Blame` ties `last_error` to an earlier failure or to a refused login. Two parts follow a
  reconnect through its re-authentication: `Bare` (the new socket carries nothing but that
  exchange) and `Elected` (the socket passed the check the reconnect was made for).
* `CommandsAreShort`: a command with its checks, up to three reconnects (one for the check of
  each kind and one for the packet), retries and getLastError takes at most 41 steps of the
  library. Each of them makes `StepsLeft` smaller, and nothing the server or the links do makes
  it larger: no loop of retries hides in the paths between the checks. It holds for
  any number of faults, because the code retries no exchange twice.

**BulkInsertProofs**

* `TypeCorrect`, `TilesDocuments`, `MakesProgress`, `SuccessIsComplete`: the
  invariants `TypeOK`, `Tiled`, `ChunkProgress`, `AllSent` for any sizes, limits,
  number of documents and integer width. The inductive invariant `LoopInv` ties
  the locals together in each state of the loop. The argument for progress is that
  no document alone reaches the limit (it would have been refused with EMSGSIZE),
  so the inner loop takes at least two documents whenever it stops because of the
  size, and giving one back leaves one; this does not depend on the sum being
  free of overflow.
* `PacketsFit`: `Spec => []CutFits`. Here the sums do matter. `SizeInv`: while twice the
  limit is within the integer, the variable `size` is the true sum of the documents taken, and that
  sum without its last document is below the limit; one more document below the
  limit cannot wrap (`NoWrap`). So the last packet, too, is smaller than twice the limit,
  and the packet's own sum does not wrap (`OverlongFits`). The sum is a function over the naturals, defined by
  recursion. That there is such a function is proved from its finite beginnings, by
  induction over a set of naturals (`SetInduction`, which rests on a non-empty set having a
  least element, and so takes no operator as a parameter).
* `LengthsAgree`: `BsonDocument`'s `LengthsAdd`. `SoundDocuments` says that a document's
  length is the sum of its elements and 4, and one more when it is finished, and
  that a nested element holds a finished document of that kind. `AvailableAreElements` is
  the other half: what a reader skips of an element is what its append wrote, for every type
  that can be appended.
* `CursorWalks` and `CursorFinds`: `WalksInOrder` and `FindsWhatIsThere`. `CursorInv`: a
  cursor that was used as the documentation asks is new or at an element of a finished
  document, and its value position is that element's. `OffsetsGrow` makes positions and elements one and the same, so a step of
  `next` is from an element to the one behind it. The loop of `find` is a recursive
  function of the position; `ScanFinds` gives its value in closed form, the first
  element of that name between the place where it begins and its end (`Stop`), from
  the last element down, by the same argument as for the sums.

**SyncPoolProofs**

* `HandedOutOnce`, `FlagsMatchHolders`, `IdsFindConnections`: `ExclusiveHandOut`,
  `InUseIffHeld`, `IdFindsConnection`. `Lists` says which ids the two lists hold
  while the pool is filled, so that decoding an id leads back to its place; `Holding`
  that the clients' sets are disjoint and that a flag is set exactly for what is held.
  That `pick` finds a first free connection rests on every non-empty set of naturals
  having a least element.
* `SlavesSpreadEvenly`: `EvenSpread`. `Spread`: there is a number of rounds `m` such that the
  secondaries before the search position `j` have `m + 1` connections and the others `m`. The
  step looks for the next secondary from `j` on, and after the last one begins again at
  the first, which is where `m` grows.

**SyncCursorProofs**

* `NothingIsSkipped`, `NothingIsRepeated`, `CursorsAreReleased`, `FalseIsTheEnd`:
  `Gapless`, `NoRepeat`, `Released`, `EndIsReal`. `BatchInv`: the loaded batch is the
  last the server handed out, and what was delivered lies before the cursor's place in
  it. `WholeInv`: before the first failure everything up to that place was delivered.
  `ServerInv`: what the server still holds, the cursor knows the id of.
  `FaultlessInv`: without a fault the server forgets nothing before the end.

**GridFSWriterProofs**

* `ListedFilesAreComplete`, `ClosedFilesAreWhole`, `ListedFilesAreFrozen`:
  `ListedIsComplete`, `ClosedIsWhole`, `ListedIsFrozen`. `UniqueKeys` is the unique
  index. `Progress` ties a stream's counters to what it was handed. `Stored`: what a
  stream counted as written is in the collection, unless its next number is taken, in
  which case it never gets past it. `Owned`: a chunk is behind its writer, or is the one
  that holds it. `Prefix`: the chunks before it are there, of the same writer, so that
  of two writers with one id the one without number 0 has none. `Filed`: the writer of a
  listed file is done, or held by a number that is taken. `Excused` are the
  writers that were told of a failure or whose last chunk was dropped: of all others, what
  was taken from the caller is in the stream or in the collection (`Progress`).
* `CollisionsAreExplained`: `ObjectId`'s `CollisionsExplained`, for any processes,
  connections and widths. `OwnPid`: a process that called `oid_init` keeps the lower half of
  its own pid, and its ids carry it. `SeqCounts`: as long as a connection keeps its socket, its
  request id is the number of requests sent and a constant, so that two equal sequence
  numbers are a whole round apart, or belong to one request (`SameRemainder`).

**GridFSReaderProofs**

* `ReadsTheContent`, `RoundsStayInChunk`: `ReadsContent`, `RoundInChunk`. `InChunk`
  keeps the place within the data of the loaded chunk, and before its end while the
  file has more; `StartOK` says that without the old binary subtype nothing is skipped,
  `ReadLoaded` that a round begins with a chunk loaded. `Content` is the alignment of the
  stream as long as it asked for chunks of the file only and they arrived (`Straight`), and
  `BeyondOK` that only in a file of whole chunks it ever asks for another. The arithmetic is that of
  quotient and remainder by the chunk size.

**GridFSRemoveProofs**

* `ListedFilesHaveChunks`, `OrphansAreAccounted`, `RemovedFilesAreGone`,
  `ShortWalksMeetRemovals`. `TaskInv` says of each running remove that what it
  matched and is still listed is in its packet, still at the server, or the file at hand,
  unless a delete that said TRUE was lost.
* `RemovesAreShort`: a remove takes at most four steps for each file it matched, its own
  steps take one off, and those of other clients leave it as it is, although they
  remove files and chunks from under it. `IsFiniteSet(Ids)`: a collection is finite.

What is model-checked and not proved: that a call returns under fairness (`CallReturns` of
`Reconnect` and of `SyncCommand`, `RemoveReturns`). `CallTerminates`,
`CommandsAreShort` and `RemovesAreShort` prove that it cannot go on for ever; what is left
to TLC is that some step of the call is always enabled, which needs ENABLED and the
fairness conditions, out of the prover's reach.

The theorems about documents are about those the model can make, with one level of
nesting; the runs' other bounds (sizes, numbers of objects) are
constants, which the theorems leave open.


## 7. What is not modelled, and why

* Packet encoding (`mongo-wire.c`) and the values of BSON elements: sequential
  functions of bytes, which the unit tests reach. Where a module depends on what
  they refuse or return, it models that (`BulkInsert!Buildable`, `SyncCursor!Data`).
* `bson_validate_key`, `bson_type_as_string`: they keep no state.
* Partial sends and receives: they leave a socket out of step, which the
  models treat as a broken one.
* Threads inside the library: there are none, and no object may be used by two
  threads at once. Two threads that pick from one pool are outside its contract.
* Memory exhaustion: GLib ends the process.
* What an authentication does after another one, made inside it by a reconnect of the same
  object, has freed the strings of `conn->auth` it was given (`mongo-sync.c:50-63`,
  `:1818-1831`): the models let the server accept or refuse it; the program may end there.
* Elements that cannot be appended and come from a server only (`DBPOINTER`, `UNDEFINED`,
  `MIN`, `MAX`), and types without a size, at which a cursor stops (the -1 of
  `_bson_get_block_size`): the documents are those the library makes.
* What a cursor over changed bytes reads (`bson.c:871`): the model leaves it open, and a
  nested document taken out from there is no document of the model any more (`GetStray`).
* `mongo_sync_cmd_user_add`, `user_remove`, `index_*`, `drop`, `count`, `exists`:
  compositions of the commands SyncCommand has; they keep no state.
* `mongo_util_parse_addr` is the set of addresses it refuses; that it takes an
  address apart correctly is a matter of text. `mongo_util_oid_as_string` prints.
* `compat.c`: stand-ins for GLib and libc functions. The public headers: declarations
  and documentation.
* What a pooled connection leads to after it has failed over: neither the pool nor
  the connection promises it, and the next command's check decides
  (`MasterBeforeWrite`).


## 8. Plan

Done, in the order of importance: failover with its abstract specification; the
command layer; bulk insert; pool; cursor; recovery cache; GridFS written, read
and removed; object ids; BSON documents; the proofs of section 6, among them that the
calls of the failover, the command layer and the removal of files end.

What would come next:

1. A composition of `SyncCursor` with `SyncCommand`, so that the failover under a
   cursor is the one of the command layer rather than a choice, and the properties of
   the cursor proved of the composition.
2. The outcomes `RecoveryCache` allows of `mongo_sync_reconnect` derived from `Failover`
   rather than restated, now that `Reconnect` is proved to implement it.
3. Documents nested to any depth, whose elements would be a tree.
4. Packets: what the constructors of `mongo-wire.c` refuse and what the accessors of
   a reply return at its last document.
