------------------------------ MODULE ObjectId ------------------------------
(***************************************************************************)
(* The object ids of mongo-utils.c (mongo_util_oid_init, mongo_util_oid_new)*)
(* as GridFS draws them: the sequence number is the id of the last request *)
(* sent on the connection.  Processes on one or several machines, forks of *)
(* them, and the connections each of them has.                             *)
(*                                                                         *)
(* Half stands for 2^16, Machines for 2^32, of which MachineLow = 2^24 go  *)
(* into an id, and SeqMod for 2^24.                                        *)
(***************************************************************************)
EXTENDS Naturals, Integers, FiniteSets

CONSTANTS
    Processes,  \* processes
    Conns,      \* connections
    Half,       \* values of the half of a pid that is kept
    Machines, MachineLow, SeqMod,
    MaxTime,    \* bound: seconds that pass
    MaxRequests,\* bound: the request id of a connection
    MaxResets,  \* bound: times a connection is given another socket
    MaxDraws    \* bound: ids drawn

ASSUME ObjectIdAssumption ==
    /\ Half \in Nat \ {0} /\ Half % 2 = 0
    /\ SeqMod \in Nat \ {0} /\ MachineLow \in Nat \ {0} /\ Machines \in Nat \ {0}
    /\ MaxTime \in Nat /\ MaxRequests \in Nat /\ MaxResets \in Nat /\ MaxDraws \in Nat

VARIABLES
    now,        \* time ()
    pidOf,      \* getpid () of each process, 0 while there is none
    machine_id, pid,    \* the static variables of each process
    own,        \* the machine id each began with in oid_init, -1: not called
    owner,      \* the process that has each connection
    request,    \* super.request_id of each connection
    sent,       \* requests ever sent on it
    resets,     \* times it was given another socket
    drawn       \* the ids drawn, with their circumstances

os == <<now, pidOf>>
statics == <<machine_id, pid, own>>
connections == <<owner, request, sent, resets>>
objectIdVars == <<os, statics, connections, drawn>>

Pids == 1..(Half * Half - 1)
Running == {p \in Processes : pidOf[p] # 0}

-----------------------------------------------------------------------------
(* Time and processes.                                                     *)

Tick ==
    /\ now < MaxTime
    /\ now' = now + 1
    /\ UNCHANGED <<pidOf, statics, connections, drawn>>

Start(p, n) ==
    /\ p \notin Running
    /\ pidOf' = [pidOf EXCEPT ![p] = n]
    /\ UNCHANGED <<now, statics, connections, drawn>>

\* A copy of another process, with another number.  It opens connections of its
\* own.
Fork(parent, p, n) ==
    /\ p \notin Running /\ parent \in Running /\ n # pidOf[parent]
    /\ pidOf' = [pidOf EXCEPT ![p] = n]
    /\ machine_id' = [machine_id EXCEPT ![p] = machine_id[parent]]
    /\ pid' = [pid EXCEPT ![p] = pid[parent]]
    /\ UNCHANGED <<now, own, connections, drawn>>

-----------------------------------------------------------------------------
(* mongo_util_oid_init.                                                    *)

\* (gint16)p, its bits read as a number.
\* Mutant: it is set once only.
LowHalfOnce(old, n) == IF old = 0 THEN n % Half ELSE old
LowHalf(old, n) == n % Half

\* machine_id ^ (pid >> 16), pid being the static variable: its sign, spread
\* over all bits.
Modulated(mid, old) == IF old >= Half \div 2 THEN Machines - 1 - mid ELSE mid

\* mid is the machine id of the application or, if that is 0, a random number.
OidInit(p, mid) ==
    /\ p \in Running
    /\ machine_id' = [machine_id EXCEPT ![p] = Modulated(mid, pid[p])]
    /\ pid' = [pid EXCEPT ![p] = LowHalf(@, pidOf[p])]
    /\ own' = [own EXCEPT ![p] = mid]
    /\ UNCHANGED <<os, connections, drawn>>

-----------------------------------------------------------------------------
(* mongo_util_oid_new, with the request id of a connection.                *)

\* Mutant: two bytes of the sequence number are kept.
SeqTwoBytes(r) == r % (SeqMod \div 2)
Seq24(r) == r % SeqMod

Oid(c) ==
    LET p == owner[c] IN
    [time |-> now, machine |-> machine_id[p] % MachineLow, pid |-> pid[p], seq |-> Seq24(request[c])]

\* It returns NULL before oid_init, and whenever one of the two is 0.
OidNew(c) ==
    LET p == owner[c] IN
    /\ machine_id[p] # 0 /\ pid[p] # 0
    /\ Cardinality(drawn) < MaxDraws
    /\ drawn' = drawn \cup {[oid |-> Oid(c), own |-> own[p] # -1, conn |-> c,
                             sent |-> sent[c], resets |-> resets[c]]}
    /\ UNCHANGED <<os, statics, connections>>

\* A packet is sent: its id is one more, and is remembered.
Send(c) ==
    /\ owner[c] \in Running /\ sent[c] < MaxRequests
    /\ request' = [request EXCEPT ![c] = @ + 1]
    /\ sent' = [sent EXCEPT ![c] = @ + 1]
    /\ UNCHANGED <<os, statics, owner, resets, drawn>>

\* _mongo_sync_connect_replace
ConnectReplace(c) ==
    /\ owner[c] \in Running /\ resets[c] < MaxResets
    /\ request' = [request EXCEPT ![c] = -1]
    /\ resets' = [resets EXCEPT ![c] = @ + 1]
    /\ UNCHANGED <<os, statics, owner, sent, drawn>>

-----------------------------------------------------------------------------
ObjectIdInit ==
    /\ now = 0
    /\ pidOf = [p \in Processes |-> 0]
    /\ machine_id = [p \in Processes |-> 0] /\ pid = [p \in Processes |-> 0]
    /\ own = [p \in Processes |-> -1]
    /\ owner \in [Conns -> Processes]
    /\ request = [c \in Conns |-> 0]
    /\ sent = request /\ resets = request
    /\ drawn = {}

ObjectIdNext ==
    \/ Tick
    \/ \E p \in Processes :
         \/ \E n \in Pids : Start(p, n) \/ \E parent \in Processes : Fork(parent, p, n)
         \/ \E mid \in 0..(Machines - 1) : OidInit(p, mid)
    \/ \E c \in Conns : OidNew(c) \/ Send(c) \/ ConnectReplace(c)

ObjectIdSpec == ObjectIdInit /\ [][ObjectIdNext]_objectIdVars

-----------------------------------------------------------------------------
(* Properties.                                                             *)

\* Why one process may draw an id twice in a second: nothing was sent on the
\* connection in between, it was given another socket, 2^24 requests were sent,
\* or two connections have sent equally many.
SameProcess(d, e) ==
    \/ d.conn # e.conn
    \/ d.sent = e.sent
    \/ d.resets # e.resets
    \/ d.sent - e.sent >= SeqMod \/ e.sent - d.sent >= SeqMod

\* Why two processes may: one of them has not called oid_init since it was
\* forked, or their pids agree in the lower half.
TwoProcesses(d, e) ==
    ~d.own \/ ~e.own \/ pidOf[owner[d.conn]] % Half = pidOf[owner[e.conn]] % Half

\* Two draws give the same id for these reasons only.
CollisionsExplained ==
    \A d, e \in drawn : d # e /\ d.oid = e.oid =>
        IF owner[d.conn] = owner[e.conn] THEN SameProcess(d, e) ELSE TwoProcesses(d, e)
=============================================================================
