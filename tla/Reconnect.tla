------------------------------ MODULE Reconnect ------------------------------
(***************************************************************************)
(* The connection object of the synchronous API and its failover:          *)
(* mongo_sync_connect, mongo_sync_reconnect, _mongo_sync_connect_replace,  *)
(* mongo_sync_cmd_is_master, mongo_sync_cmd_ping, the re-authentication    *)
(* that follows a reconnect, and mongo_sync_disconnect.                    *)
(*                                                                         *)
(* mongo_sync_reconnect calls itself on every connection it opens, so the  *)
(* state is a stack of connection objects: stack[1] is the caller's, every *)
(* other one was opened by the activation below it.  A re-authentication   *)
(* that cannot send its packet calls mongo_sync_reconnect again on the     *)
(* SAME object; those suspended activations are kept in `pending'.         *)
(*                                                                         *)
(* Replica set members fail, restart and elect a primary between any two   *)
(* network exchanges of the library.  An exchange (a packet sent and its   *)
(* reply received) is one step.  A link that is not alive stands for every *)
(* reason an exchange fails: reset, time-out, or a reply out of step.      *)
(***************************************************************************)
EXTENDS ReplicaSet, Naturals, Sequences, FiniteSets

CONSTANTS
    Addrs,      \* addresses the library may hold; Addrs \ Servers cannot
                \* be parsed (mongo_util_parse_addr) or never resolve
    Members,    \* the "hosts" (then "passives") of an ismaster reply
    Fds,        \* descriptors the process may open
    Slaveok,    \* the values of slaveok the application uses
    MaxEvents   \* bound: faults and role changes in a behaviour

ASSUME ReconnectAssumption ==
    /\ Servers \subseteq Addrs
    /\ None \notin Addrs
    /\ Members \in Seq(Addrs)
    /\ Fds \subseteq Nat /\ None \notin Fds
    /\ Slaveok \subseteq BOOLEAN
    /\ MaxEvents \in Nat
    /\ MaxSeeds \in Nat

VARIABLES
    stack,      \* connection objects, one per activation of the recursion
    peer,       \* fd |-> the server at its other end, None when closed
    alive,      \* fds over which an exchange succeeds
    authed,     \* fds the server has authenticated
    creds,      \* the caller's connection has auth.db, auth.user, auth.pw
    auto,       \* the caller's connection's auto_reconnect flag
    force,      \* force_master of the activation that is running
    pending,    \* activations suspended inside mongo_sync_cmd_authenticate
    out,        \* _mongo_sync_packet_send: the packet is being sent again
    op,         \* the library call in progress, or the last one
    result,     \* what it returned: "none" while it runs
    role,       \* server |-> "down", "secondary" or "primary"
    view,       \* the "primary" key a secondary's ismaster reply carries
    events,     \* faults and role changes so far
    ghost       \* observations of the current call, for the properties

progVars == <<stack, peer, authed, creds, auto, force, pending, out, op,
              result, ghost>>
vars == <<progVars, alive, role, view, events>>

Pcs == {"idle", "ping", "master", "refresh", "primary", "hosts", "seeds",
        "wait", "getnonce", "authenticate", "done", "null"}

\* The parts of struct _mongo_sync_connection that reconnecting touches,
\* with the local state of the activation working on the object.
Frame == [fd : Fds, slaveok : BOOLEAN, primary : Addrs \cup {None},
          hosts : Seq(Addrs), seeds : Seq(Addrs), pc : Pcs, i : Nat]

Pending == [force : BOOLEAN, pc : {"getnonce", "authenticate"}]

Depth == Len(stack)
Top == stack[Depth]
Open == {fd \in Fds : peer[fd] # None}
Up(a) == a \in Servers /\ role[a] # "down"
Idle == Depth = 1 /\ Top.pc = "idle"

SetTop(f) == stack' = [stack EXCEPT ![Depth] = f]
Goto(f, pc) == [f EXCEPT !.pc = pc]

-----------------------------------------------------------------------------
(* The replica set and the network.                                        *)

Event == events < MaxEvents /\ events' = events + 1

ServerDown(s) ==
    /\ Event
    /\ role[s] # "down"
    /\ role' = [role EXCEPT ![s] = "down"]
    /\ alive' = {fd \in alive : peer[fd] # s}
    /\ UNCHANGED <<progVars, view>>

ServerUp(s) ==
    /\ Event
    /\ role[s] = "down"
    /\ role' = [role EXCEPT ![s] = "secondary"]
    /\ UNCHANGED <<progVars, alive, view>>

\* A deposed primary may still believe it is one for a while.
Elect(s) ==
    /\ Event
    /\ role[s] = "secondary"
    /\ role' = [role EXCEPT ![s] = "primary"]
    /\ view' \in {view, s}
    /\ UNCHANGED <<progVars, alive>>

StepDown(s) ==
    /\ Event
    /\ role[s] = "primary"
    /\ role' = [role EXCEPT ![s] = "secondary"]
    /\ view' \in {view, None}
    /\ UNCHANGED <<progVars, alive>>

LinkBreaks(fd) ==
    /\ Event
    /\ fd \in alive
    /\ alive' = alive \ {fd}
    /\ UNCHANGED <<progVars, role, view>>

Environment ==
    \/ \E s \in Servers : ServerDown(s) \/ ServerUp(s) \/ Elect(s) \/ StepDown(s)
    \/ \E fd \in Fds : LinkBreaks(fd)

-----------------------------------------------------------------------------
(* mongo_sync_connect.                                                     *)

Connectable(a) == Up(a) /\ Open # Fds

NewConnectionMaster(a, fd, slaveok, pc) ==
    [fd |-> fd, slaveok |-> FALSE, primary |-> None, hosts |-> <<>>,
     seeds |-> <<a>>, pc |-> pc, i |-> 1]
NewConnection(a, fd, slaveok, pc) ==
    [fd |-> fd, slaveok |-> slaveok, primary |-> None, hosts |-> <<>>,
     seeds |-> <<a>>, pc |-> pc, i |-> 1]

\* socket () returns the lowest descriptor that is not open.
OpenSocket(a, fd) ==
    /\ Up(a)
    /\ fd \in Fds \ Open
    /\ \A g \in Fds \ Open : fd <= g
    /\ peer' = [peer EXCEPT ![fd] = a]
    /\ alive' = alive \cup {fd}

\* What closing the descriptors in set S leaves of the descriptor table.
CloseSockets(S) ==
    /\ peer' = [fd \in Fds |-> IF fd \in S THEN None ELSE peer[fd]]
    /\ alive' = alive \ S
    /\ authed' = authed \ S

\* An ismaster reply over connection object c updates its replica set
\* knowledge: "primary" only when the server is not the master itself.
IsMasterReply(c) ==
    LET s == peer[c.fd] IN
    [c EXCEPT !.primary = IF role[s] # "primary" /\ view # None THEN view ELSE @,
              !.hosts = Members]

\* mongo_sync_cmd_is_master on connection object c: what it leaves of c, and
\* what it returns.
AfterIsMaster(c) == IF c.fd \in alive THEN IsMasterReply(c) ELSE c
IsMaster(c) == c.fd \in alive /\ role[peer[c.fd]] = "primary"

\* _mongo_sync_connect_replace: old takes over new's socket and forgets the
\* hosts it knew.  Its own socket is closed unless it is descriptor 0.
ReplacedNoFd(old, new) ==
    [old EXCEPT !.slaveok = new.slaveok, !.primary = None, !.hosts = <<>>]
Replaced(old, new) ==
    [old EXCEPT !.fd = new.fd, !.slaveok = new.slaveok,
                !.primary = None, !.hosts = <<>>]
ClosedByReplaceNew(old, new) == {new.fd}
ClosedByReplaceNothing(old, new) == {}
ClosedByReplace(old, new) ==
    IF old.fd # 0 /\ old.fd # new.fd THEN {old.fd} ELSE {}

-----------------------------------------------------------------------------
(* Calls of the application, made while no other call is in progress.      *)

\* What the current call is observed to do: the socket it began with, the
\* sockets that passed its check, what excuses it from returning one of them,
\* and (over all calls) the sockets of abandoned connections.
Observations == [fd0 : Fds \cup {None}, checked : SUBSET Fds,
                 excuse : SUBSET {"null", "auth", "reentry"}, lost : SUBSET Fds]
NoObservation == [fd0 |-> None, checked |-> {}, excuse |-> {}, lost |-> {}]

Begin(name, pc) ==
    /\ Idle
    /\ SetTop(Goto(Top, pc))
    /\ op' = name
    /\ result' = "none"
    /\ ghost' = [ghost EXCEPT !.fd0 = Top.fd, !.checked = {}, !.excuse = {}]

Connect(a, slaveok) ==
    /\ stack = <<>>
    /\ \E fd \in Fds :
         /\ OpenSocket(a, fd)
         /\ stack' = <<NewConnection(a, fd, slaveok, "idle")>>
    /\ op' = "connect"
    /\ result' = "conn"
    /\ creds' = FALSE
    /\ auto' = FALSE
    /\ UNCHANGED <<authed, force, pending, out, ghost, role, view, events>>

ConnectFails(a) ==
    /\ stack = <<>>
    /\ ~Connectable(a)
    /\ op' = "connect"
    /\ result' = "null"
    /\ UNCHANGED <<stack, peer, alive, authed, creds, auto, force, pending,
                   out, ghost, role, view, events>>

Disconnect ==
    /\ Idle
    /\ CloseSockets({Top.fd})
    /\ stack' = <<>>
    /\ creds' = FALSE
    /\ auto' = FALSE
    /\ op' = "disconnect"
    /\ result' = "none"
    /\ UNCHANGED <<force, pending, out, ghost, role, view, events>>

SeedAdd(a) ==
    /\ Idle
    /\ Len(Top.seeds) < MaxSeeds
    /\ SetTop([Top EXCEPT !.seeds = Append(@, a)])
    /\ UNCHANGED <<peer, alive, authed, creds, auto, force, pending, out, op,
                   result, ghost, role, view, events>>

SetSlaveok(b) ==
    /\ Idle
    /\ SetTop([Top EXCEPT !.slaveok = b])
    /\ UNCHANGED <<peer, alive, authed, creds, auto, force, pending, out, op,
                   result, ghost, role, view, events>>

SetAutoReconnect(b) ==
    /\ Idle
    /\ auto' = b
    /\ UNCHANGED <<stack, peer, alive, authed, creds, force, pending, out, op,
                   result, ghost, role, view, events>>

CmdIsMaster ==
    /\ Idle
    /\ SetTop(AfterIsMaster(Top))
    /\ UNCHANGED <<peer, alive, authed, creds, auto, force, pending, out, op,
                   result, ghost, role, view, events>>

Authenticate ==
    /\ Begin("authenticate", "getnonce")
    /\ force' = FALSE
    /\ out' = FALSE
    /\ UNCHANGED <<peer, alive, authed, creds, auto, pending, role, view, events>>

Reconnect(forceMaster) ==
    /\ Begin("reconnect", "ping")
    /\ force' = forceMaster
    /\ UNCHANGED <<peer, alive, authed, creds, auto, pending, out, role, view,
                   events>>

-----------------------------------------------------------------------------
(* The steps of mongo_sync_reconnect.                                      *)

Running(pc) == Depth > 0 /\ Top.pc = pc

\* The socket answered; it has passed the check of this activation if it
\* answered as a master or none was asked for.
Check(fd, master) ==
    ghost' = [ghost EXCEPT !.checked = IF force => master THEN @ \cup {fd} ELSE @]

Local == UNCHANGED <<peer, alive, authed, creds, auto, force, pending, out,
                     op, result, role, view, events>>

PingFails ==
    /\ Running("ping")
    /\ Top.fd \notin alive
    /\ SetTop(Goto(Top, "primary"))
    /\ UNCHANGED ghost
    /\ Local

AfterPingUnforced == "done"
AfterPing == IF force THEN "master" ELSE "done"

PingAnswered ==
    /\ Running("ping")
    /\ Top.fd \in alive
    /\ SetTop(Goto(Top, AfterPing))
    /\ Check(Top.fd, FALSE)
    /\ Local

MasterFound ==
    /\ Running("master")
    /\ IsMaster(Top)
    /\ SetTop(Goto(AfterIsMaster(Top), "done"))
    /\ Check(Top.fd, IsMaster(Top))
    /\ Local

NotMaster ==
    /\ Running("master")
    /\ ~IsMaster(Top)
    /\ SetTop(Goto(AfterIsMaster(Top), "refresh"))
    /\ UNCHANGED ghost
    /\ Local

\* The second ismaster only refreshes the host list: its answer is not used.
RefreshHosts ==
    /\ Running("refresh")
    /\ SetTop(Goto(AfterIsMaster(Top), "primary"))
    /\ UNCHANGED ghost
    /\ Local

\* Connect to a and call mongo_sync_reconnect on the new connection.
TryAddress(a) ==
    /\ \E fd \in Fds :
         /\ OpenSocket(a, fd)
         /\ stack' = Append([stack EXCEPT ![Depth] = Goto(Top, "wait")],
                            NewConnection(a, fd, Top.slaveok, "ping"))
    /\ UNCHANGED <<authed, creds, auto, force, pending, out, op, result, ghost,
                   role, view, events>>

\* Leave address list `from' for the next one, or give up after the seeds.
MoveOn(f, to) ==
    /\ SetTop([f EXCEPT !.pc = to, !.i = 1])
    /\ UNCHANGED ghost
    /\ Local

RetryAddress == UNCHANGED vars
SkipAddress ==
    /\ SetTop([Top EXCEPT !.i = @ + 1])
    /\ UNCHANGED ghost
    /\ Local

TryPrimary ==
    /\ Running("primary")
    /\ IF Top.primary # None /\ Connectable(Top.primary)
         THEN TryAddress(Top.primary)
         ELSE MoveOn(Top, "hosts")

TryHosts ==
    /\ Running("hosts")
    /\ IF Top.i > Len(Top.hosts) THEN MoveOn(Top, "seeds")
       ELSE IF Connectable(Top.hosts[Top.i]) THEN TryAddress(Top.hosts[Top.i])
       ELSE SkipAddress

TrySeeds ==
    /\ Running("seeds")
    /\ IF Top.i > Len(Top.seeds) THEN MoveOn(Top, "null")
       ELSE IF Connectable(Top.seeds[Top.i]) THEN TryAddress(Top.seeds[Top.i])
       ELSE SkipAddress

-----------------------------------------------------------------------------
(* Returning from an activation.                                           *)

\* The caller's object goes on to mongo_sync_cmd_authenticate when it has
\* credentials; the ones opened by the recursion never have any.
AfterNestedNoAuth == "done"
AfterNested == IF Depth = 2 /\ creds THEN "getnonce" ELSE "done"

Pop(caller) ==
    stack' = [k \in 1..(Depth - 1) |-> IF k = Depth - 1 THEN caller ELSE stack[k]]

NestedReturnsConn ==
    /\ Running("done")
    /\ Depth > 1
    /\ LET old == stack[Depth - 1] IN
         /\ CloseSockets(ClosedByReplace(old, Top))
         /\ Pop(Goto(Replaced(old, Top), AfterNested))
    /\ out' = FALSE
    /\ UNCHANGED <<creds, auto, force, pending, op, result, ghost, role, view,
                   events>>

\* _mongo_sync_connect_replace does nothing with NULL; the activation below
\* returns its own, unchanged connection all the same, and the connection it
\* had opened is never disconnected.
NestedReturnsNull ==
    /\ Running("null")
    /\ Depth > 1
    /\ Pop(Goto(stack[Depth - 1], AfterNested))
    /\ ghost' = [ghost EXCEPT !.excuse = @ \cup {"null"}, !.lost = @ \cup {Top.fd}]
    /\ out' = FALSE
    /\ UNCHANGED <<peer, alive, authed, creds, auto, force, pending, op, result,
                   role, view, events>>

Finish(r) ==
    /\ Depth = 1
    /\ pending = <<>>
    /\ SetTop(Goto(Top, "idle"))
    /\ result' = r
    /\ UNCHANGED <<peer, alive, authed, creds, auto, force, pending, out, op,
                   ghost, role, view, events>>

ReturnConn == Running("done") /\ Finish("conn")
ReturnNull == Running("null") /\ Finish("null")

\* mongo_sync_reconnect (conn, FALSE), called by _mongo_sync_packet_send for
\* mongo_sync_cmd_authenticate, returns: the packet is sent again, or, on
\* NULL, the authentication fails and its activation goes on regardless.  An
\* authentication made inside that call has freed the strings of conn->auth
\* this one was given and still reads (mongo-sync.c:1818-1831): what it sends
\* next may be accepted or refused below, a crash is left out.
ResumeAuthentication ==
    /\ Depth = 1
    /\ pending # <<>>
    /\ LET p == pending[Len(pending)] IN
         /\ \/ Running("done") /\ SetTop(Goto(Top, p.pc)) /\ out' = TRUE
            \/ Running("null") /\ SetTop(Goto(Top, "done")) /\ out' = FALSE
         /\ force' = p.force
         /\ pending' = [k \in 1..(Len(pending) - 1) |-> pending[k]]
    /\ UNCHANGED <<peer, alive, authed, creds, auto, op, result, ghost, role,
                   view, events>>

-----------------------------------------------------------------------------
(* mongo_sync_cmd_authenticate: "getnonce", then "authenticate".           *)

GetNonce ==
    /\ Running("getnonce")
    /\ Top.fd \in alive
    /\ SetTop(Goto(Top, "authenticate"))
    /\ out' = FALSE
    /\ UNCHANGED <<peer, alive, authed, creds, auto, force, pending, op, result,
                   ghost, role, view, events>>

\* A packet sent again goes out on another socket than the one its nonce
\* came from, and is refused.
AuthenticateAccepted ==
    /\ Running("authenticate")
    /\ Top.fd \in alive
    /\ ~out
    /\ SetTop(Goto(Top, "done"))
    /\ authed' = authed \cup {Top.fd}
    /\ creds' = TRUE
    /\ UNCHANGED <<peer, alive, auto, force, pending, out, op, result, ghost,
                   role, view, events>>

\* The server refuses, or the reply does not arrive, or the packet cannot be
\* sent and there is no (second) reconnect: mongo_sync_reconnect ignores it.
AuthenticateFails ==
    /\ \/ Running("getnonce") /\ Top.fd \notin alive
       \/ Running("authenticate")
    /\ SetTop(Goto(Top, "done"))
    /\ ghost' = [ghost EXCEPT !.excuse = @ \cup {"auth"}]
    /\ UNCHANGED <<peer, alive, authed, creds, auto, force, pending, out, op,
                   result, role, view, events>>

\* The packet cannot be sent: _mongo_sync_packet_send reconnects, whatever
\* kind of server the suspended activation is looking for.
SendFailsReconnect ==
    /\ Running("getnonce") \/ Running("authenticate")
    /\ Top.fd \notin alive
    /\ auto
    /\ ~out
    /\ SetTop(Goto(Top, "ping"))
    /\ pending' = Append(pending, [force |-> force, pc |-> Top.pc])
    /\ force' = FALSE
    /\ ghost' = [ghost EXCEPT !.excuse = @ \cup {"reentry"}]
    /\ UNCHANGED <<peer, alive, authed, creds, auto, out, op, result, role,
                   view, events>>

-----------------------------------------------------------------------------
Init ==
    /\ stack = <<>>
    /\ peer = [fd \in Fds |-> None]
    /\ alive = {}
    /\ authed = {}
    /\ creds = FALSE
    /\ auto = FALSE
    /\ force = FALSE
    /\ pending = <<>>
    /\ out = FALSE
    /\ op = "none"
    /\ result = "none"
    /\ role \in [Servers -> {"down", "secondary", "primary"}]
    /\ view \in Servers \cup {None}
    /\ events = 0
    /\ ghost = NoObservation

Application ==
    \/ \E a \in Addrs : SeedAdd(a) \/ ConnectFails(a)
    \/ \E a \in Addrs, b \in Slaveok : Connect(a, b)
    \/ \E b \in Slaveok : SetSlaveok(b)
    \/ \E b \in BOOLEAN : SetAutoReconnect(b) \/ Reconnect(b)
    \/ Disconnect
    \/ CmdIsMaster
    \/ Authenticate

\* One step of the library call in progress.
Library ==
    \/ PingFails \/ PingAnswered
    \/ MasterFound \/ NotMaster \/ RefreshHosts
    \/ TryPrimary \/ TryHosts \/ TrySeeds
    \/ NestedReturnsConn \/ NestedReturnsNull
    \/ ReturnConn \/ ReturnNull \/ ResumeAuthentication
    \/ GetNonce \/ AuthenticateAccepted \/ AuthenticateFails
    \/ SendFailsReconnect

Next == Environment \/ Application \/ Library

Spec == Init /\ [][Next]_vars

\* The library call in progress is a running thread: it keeps stepping, and
\* every exchange ends, with a reply or with an error.
FairSpec == Spec /\ WF_vars(Library)

-----------------------------------------------------------------------------
(* Properties.                                                             *)

TypeOK ==
    /\ stack \in Seq(Frame)
    /\ peer \in [Fds -> Servers \cup {None}]
    /\ alive \subseteq Fds
    /\ authed \subseteq Fds
    /\ creds \in BOOLEAN
    /\ auto \in BOOLEAN
    /\ force \in BOOLEAN
    /\ pending \in Seq(Pending)
    /\ out \in BOOLEAN
    /\ op \in {"none", "connect", "disconnect", "reconnect", "authenticate"}
    /\ result \in {"none", "conn", "null"}
    /\ role \in [Servers -> {"down", "secondary", "primary"}]
    /\ view \in Servers \cup {None}
    /\ events \in 0..MaxEvents
    /\ ghost \in Observations

\* Every live connection object holds a descriptor that is open, and no two
\* objects hold the same one: _mongo_sync_connect_replace hands the new
\* socket over before the new object is freed and closes only the old one,
\* so no later exchange runs on a closed (or reused) descriptor.
FdOwnership ==
    /\ \A k \in 1..Depth : stack[k].fd \in Open
    /\ \A k, l \in 1..Depth : k # l => stack[k].fd # stack[l].fd

\* Every open descriptor belongs to a live object, except those of the
\* connections abandoned when a nested mongo_sync_reconnect returns NULL, and
\* descriptor 0, which _mongo_sync_connect_replace takes for "no socket".
OpenAccounted ==
    \A fd \in Open : \/ \E k \in 1..Depth : stack[k].fd = fd
                     \/ fd \in ghost.lost
                     \/ fd = 0

\* mongo_sync_reconnect returned its connection: unless a nested call had
\* returned NULL, or the re-authentication reconnected on its own, the socket
\* it now holds answered the check of this very call (ping, and ismaster =
\* true when force_master was given).
VerifiedReturn ==
    (op = "reconnect" /\ result = "conn" /\ Idle
        /\ ghost.excuse \cap {"null", "reentry"} = {})
      => stack[1].fd \in ghost.checked

\* A connection that has credentials and comes back from a successful
\* failover is authenticated on the socket it came back with, provided the
\* re-authentication was not refused or cut off.
ReauthOnFailover ==
    (op = "reconnect" /\ result = "conn" /\ Idle /\ creds /\ ghost.excuse = {}
        /\ stack[1].fd # ghost.fd0)
      => stack[1].fd \in authed

\* Failover keeps what the application configured on its connection object:
\* the seeds (the only addresses left after a replace) and slaveok.
SettingsKept ==
    [][(Library /\ Depth > 0) =>
         /\ stack'[1].seeds = stack[1].seeds
         /\ stack'[1].slaveok = stack[1].slaveok
         /\ creds => creds']_vars

\* Every call returns: the recursion ends, at the latest when each nested
\* activation's socket has used up the descriptors of the process.
CallReturns == (Depth > 0 /\ stack[1].pc # "idle") ~> Idle

\* The recursion seen from the caller's connection only.
Promise == INSTANCE Failover WITH
    fd <- IF stack = <<>> THEN None ELSE stack[1].fd,
    was <- ghost.fd0,
    call <- IF stack = <<>> \/ stack[1].pc = "idle" THEN "none" ELSE op,
    answered <- ghost.checked,
    loose <- ghost.excuse \cap {"null", "reentry"} # {},
    result <- result

\* mongo_sync_reconnect and mongo_sync_cmd_authenticate, with everything they
\* call, exchange the caller's socket only as Failover allows.
ImplementsFailover == Promise!Spec
=============================================================================
