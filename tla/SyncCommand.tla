----------------------------- MODULE SyncCommand -----------------------------
(***************************************************************************)
(* The command layer of the synchronous API over one connection: every     *)
(* mongo_sync_cmd_* call with the preemptive checks it makes               *)
(* (_mongo_cmd_verify_slaveok, _mongo_cmd_ensure_conn), the send that may  *)
(* reconnect and try again (_mongo_sync_packet_send), the matching of      *)
(* replies with request ids (_mongo_sync_packet_recv), and safe mode with  *)
(* its getLastError (_mongo_sync_cmd_verify_result) and last_error string. *)
(*                                                                         *)
(* mongo_sync_reconnect is its two checks of the present socket followed   *)
(* by one step with the outcomes module Reconnect allows: NULL, another    *)
(* socket that passed the check, or (`loose') a connection nobody checked; *)
(* and by the two exchanges of its re-authentication.                      *)
(*                                                                         *)
(* A socket is a pair of FIFO queues.  Every request and reply in them     *)
(* says whether it belongs to the exchange in progress (`mine'): that is   *)
(* what the ids are for, and the library cannot see it.                    *)
(***************************************************************************)
EXTENDS Integers, Sequences

CONSTANTS
    Commands,   \* the commands the application issues
    MaxId,      \* bound: no command begins past this request id (the gint32 of
                \* the program wraps after 2^32 requests on one socket)
    MaxFaults   \* bound: links that break, replies that come too late and
                \* changes of master in a behaviour

VARIABLES
    rid,        \* super.request_id
    flags,      \* auto_reconnect, slaveok, safe_mode
    lastError,  \* last_error is not NULL
    kind,       \* the command in progress, or the last one
    pc,         \* where it is
    awaiting,   \* the request of the exchange at pc has been sent
    id,         \* the id the command's packet was built with
    xid,        \* the id the reply must carry
    out,        \* _mongo_sync_packet_send: the packet is being sent again
    back,       \* where mongo_sync_reconnect returns to
    result,     \* "none" while the command runs, then "ok" or "fail"
    link,       \* the present socket still transfers data
    timed,      \* mongo_connection_set_timeout was called on that socket
    reqs, reps, \* its requests and replies in flight
    master,     \* the server at its other end is the master
    srvError,   \* that server's error status of the last write it received
    faults,     \* faults so far
    ghost       \* observations, for the properties: blamed is that a command has failed or
                \* an authentication been refused since a query succeeded, the error was
                \* reset, or the socket was new

connVars == <<rid, flags, lastError>>
cmdVars == <<kind, pc, awaiting, id, xid, out, back, result>>
sockVars == <<link, timed, reqs, reps, master, srvError>>
vars == <<connVars, cmdVars, sockVars, faults, ghost>>

Writes == {"insert", "update", "delete"}
Verified == {"insert", "update"}
Reads == {"query", "getmore"}
Kinds == Writes \cup Reads \cup {"custom", "create", "kill", "reset"}
HasReply(k) == k \notin Writes \cup {"kill"}

\* The exchanges a command makes besides its own packet: is_master for the
\* checks, getlasterror for safe mode, and those of a reconnect: its checks,
\* and the getnonce and authenticate at its end.
Checks == {"slaveok", "ensure", "rmaster", "rrefresh"}
Logins == {"rnonce", "rauth"}
Exchanges == Checks \cup Logins \cup {"gle", "rping"}
RequestOf(x) == CASE x \in Checks -> "ismaster" [] x = "gle" -> "gle" [] x = "rping" -> "ping"
                  [] x \in Logins -> "custom"

ASSUME SyncCommandAssumption ==
    Commands \subseteq Kinds /\ MaxId \in Nat /\ MaxFaults \in Nat

NextId(n) == n + 1

\* What is in flight when another command begins, and when another exchange of
\* the same command does: the write it may follow still is the command's.
Stale(q) == [k \in DOMAIN q |-> [q[k] EXCEPT !.mine = FALSE]]
Superseded(q) == [k \in DOMAIN q |-> [q[k] EXCEPT !.mine = @ /\ q[k].kind \in Writes]]

ForceMaster(k) ==
    \/ k \in Writes \cup {"create"}
    \/ k = "query" /\ ~flags.slaveok

-----------------------------------------------------------------------------
(* The server, the network and the application.                            *)

\* A write sets the connection's error status; everything else is answered.
ServerHandles ==
    /\ link
    /\ reqs # <<>>
    /\ LET r == Head(reqs) IN
         /\ reqs' = Tail(reqs)
         /\ \E good \in BOOLEAN :
              /\ srvError' = IF r.kind \in Writes THEN ~good ELSE srvError /\ r.kind # "reset"
              /\ r.kind = "ismaster" => good = master
              /\ r.kind = "gle" => good = ~srvError
              /\ r.kind \in {"ping", "kill", "reset"} => good
              /\ reps' = IF HasReply(r.kind)
                           THEN Append(reps, [to |-> r.id, kind |-> r.kind,
                                              good |-> good, mine |-> r.mine])
                           ELSE reps
              /\ ghost' = IF r.kind \in Writes /\ r.mine /\ good
                            THEN [ghost EXCEPT !.applied = @ + 1] ELSE ghost
    /\ UNCHANGED <<connVars, cmdVars, link, timed, master, faults>>

Fault == faults < MaxFaults /\ faults' = faults + 1

LinkBreaks ==
    /\ Fault
    /\ link
    /\ link' = FALSE
    /\ reqs' = <<>>
    /\ reps' = <<>>
    /\ UNCHANGED <<connVars, cmdVars, timed, master, srvError, ghost>>

MasterChanges ==
    /\ Fault
    /\ master' = ~master
    /\ UNCHANGED <<connVars, cmdVars, link, timed, reqs, reps, srvError, ghost>>

SetFlags(f) ==
    /\ pc = "idle"
    /\ flags' = f
    /\ UNCHANGED <<rid, lastError, cmdVars, sockVars, faults, ghost>>

SetTimeout ==
    /\ pc = "idle"
    /\ timed' = TRUE
    /\ UNCHANGED <<connVars, cmdVars, link, reqs, reps, master, srvError, faults, ghost>>

-----------------------------------------------------------------------------
(* How a command begins, ends and moves on.                                *)

Return(r) == pc' = "idle" /\ result' = r /\ awaiting' = FALSE

\* Where the command goes once its packet is built.
ToSend == IF ForceMaster(kind) THEN "ensure" ELSE "send"

\* r is the request id of the socket at this moment.
BuildPacket(r) ==
    /\ id' = NextId(r)
    /\ pc' = ToSend
    /\ awaiting' = FALSE

VerifySlaveok(k) == k \in Reads /\ ~flags.slaveok /\ flags.safe

\* mongo_sync_cmd_reset_error forgets the connection's own error first.
\* Mutant: it leaves that to the server.
ErrorBeforeAlways(k) == lastError
ErrorBefore(k) == lastError /\ k # "reset"

Begin(k) ==
    /\ pc = "idle"
    /\ rid < MaxId
    /\ kind' = k
    /\ result' = "none"
    /\ out' = FALSE
    /\ awaiting' = FALSE
    /\ id' = NextId(rid)
    /\ pc' = IF VerifySlaveok(k) THEN "slaveok"
             ELSE IF ForceMaster(k) THEN "ensure" ELSE "send"
    /\ lastError' = ErrorBefore(k)
    /\ reqs' = Stale(reqs)
    /\ reps' = Stale(reps)
    /\ ghost' = [ghost EXCEPT !.applied = 0, !.mastered = FALSE,
                             !.blamed = k # "reset" /\ (@ \/ result = "fail")]
    /\ UNCHANGED <<rid, flags, xid, back, link, timed, master, srvError, faults>>

\* mongo_sync_reconnect, called from here with force_master for a check.
ReconnectFrom(from) ==
    /\ pc' = "rping"
    /\ back' = from
    /\ awaiting' = FALSE
\* Mutant: a retried send reconnects to whatever answers.
ForceReconnectForChecksOnly == back \in {"slaveok", "ensure"}
ForceReconnect == back \in {"slaveok", "ensure"} \/ ForceMaster(kind)

\* It returned a connection.
ResumeAfterReconnect(r) ==
    IF back = "slaveok" THEN BuildPacket(r) /\ UNCHANGED out
    ELSE /\ pc' = "send"
         /\ awaiting' = FALSE
         /\ out' = (back = "send")
         /\ UNCHANGED id

-----------------------------------------------------------------------------
(* _mongo_sync_cmd_custom (check_conn = FALSE) for the internal exchanges. *)

\* The reply at the head of the queue answers an exchange of this kind: its
\* id matches and the keys the caller looks for are there.
Matches(h, x) ==
    /\ h.to = xid
    /\ IF x \in {"rping", "rauth"} THEN h.kind \notin Reads ELSE h.kind = RequestOf(x)

\* What the caller reads in it.  A ping and an authenticate look at "ok" only,
\* which is 1 in an answer to is_master or getlasterror whatever it says.
Says(h, x) ==
    IF ~Matches(h, x) THEN "EPROTO"
    ELSE IF h.good \/ (x \in {"rping", "rauth"} /\ h.kind \in {"ismaster", "gle"}) THEN "yes"
    ELSE "no"

\* What follows an exchange x that ends with answer a: "yes", "no", "EPROTO"
\* or another "error".

\* _mongo_cmd_verify_slaveok and _mongo_cmd_ensure_conn: only a wrong answer
\* stops a call that may reconnect.
AfterCheck(x, a) ==
    /\ x \in {"slaveok", "ensure"}
    /\ UNCHANGED out
    /\ \/ /\ a = "yes" /\ x = "slaveok"
          /\ BuildPacket(rid)
          /\ UNCHANGED <<back, result, lastError>>
       \/ /\ a = "yes" /\ x = "ensure"
          /\ pc' = "send" /\ awaiting' = FALSE
          /\ UNCHANGED <<id, back, result, lastError>>
       \/ /\ a \in {"no", "error"} /\ flags.auto
          /\ ReconnectFrom(x)
          /\ UNCHANGED <<id, result, lastError>>
       \/ /\ a # "yes" /\ (flags.auto => a = "EPROTO")
          /\ Return("fail")
          /\ lastError' = (lastError \/ kind = "insert")
          /\ UNCHANGED <<id, back>>

\* The checks mongo_sync_reconnect makes of the present socket.
AfterReconnectCheck(x, a) ==
    /\ \/ /\ x = "rping" /\ a = "yes" /\ ~ForceReconnect
          /\ ResumeAfterReconnect(rid)
       \/ /\ x = "rmaster" /\ a = "yes"
          /\ ResumeAfterReconnect(rid)
       \/ /\ x = "rping" /\ a = "yes" /\ ForceReconnect
          /\ pc' = "rmaster" /\ awaiting' = FALSE /\ UNCHANGED <<id, out>>
       \/ /\ x = "rmaster" /\ a # "yes"
          /\ pc' = "rrefresh" /\ awaiting' = FALSE /\ UNCHANGED <<id, out>>
       \/ /\ x = "rrefresh" \/ (x = "rping" /\ a # "yes")
          /\ pc' = "rother" /\ awaiting' = FALSE /\ UNCHANGED <<id, out>>
    /\ UNCHANGED <<back, result, lastError>>

\* mongo_sync_cmd_get_last_error as _mongo_sync_cmd_verify_result uses it: an
\* answer without an error is replaced by the connection's own last_error.
AfterGetLastError(x, a) ==
    /\ x = "gle"
    /\ Return(IF a = "yes" /\ ~lastError THEN "ok" ELSE "fail")
    /\ lastError' = (lastError \/ a # "yes")
    /\ UNCHANGED <<id, out, back>>

\* mongo_sync_cmd_authenticate at the end of mongo_sync_reconnect, which does
\* not look at its result: a refusal leaves its errmsg, if it has one, in
\* last_error.
AfterLogin(x, a) ==
    /\ x \in Logins
    /\ \/ x = "rnonce" /\ a = "yes"
          /\ pc' = "rauth" /\ awaiting' = FALSE /\ UNCHANGED <<id, out>>
       \/ ResumeAfterReconnect(rid)
    /\ lastError' \in IF a = "no" THEN BOOLEAN ELSE {lastError}
    /\ UNCHANGED <<back, result>>

AfterExchange(x, a) ==
    \/ AfterCheck(x, a) \/ AfterReconnectCheck(x, a) \/ AfterGetLastError(x, a)
    \/ AfterLogin(x, a)

ExchangeSent ==
    /\ pc \in Exchanges /\ ~awaiting
    /\ link
    /\ rid' = NextId(rid)
    /\ xid' = NextId(rid)
    /\ awaiting' = TRUE
    /\ reqs' = Append(Superseded(reqs), [id |-> NextId(rid), kind |-> RequestOf(pc), mine |-> TRUE])
    /\ reps' = Stale(reps)
    /\ UNCHANGED <<flags, lastError, kind, pc, id, out, back, result, link, timed, master,
                   srvError, faults, ghost>>

\* Nothing gets through any more; the send itself may or may not notice.
ExchangeCutOff ==
    /\ pc \in Exchanges
    /\ ~link
    /\ rid' \in {rid} \cup (IF awaiting THEN {} ELSE {NextId(rid)})
    /\ AfterExchange(pc, "error")
    /\ UNCHANGED <<flags, kind, xid, sockVars, faults, ghost>>

ExchangeTimesOut ==
    /\ pc \in Exchanges /\ awaiting
    /\ timed /\ reps = <<>>
    /\ Fault
    /\ AfterExchange(pc, "error")
    /\ UNCHANGED <<rid, flags, kind, xid, sockVars, ghost>>

Answered ==
    /\ pc \in Exchanges /\ awaiting
    /\ reps # <<>>
    /\ LET h == Head(reps)
           a == Says(h, pc)
       IN  /\ AfterExchange(pc, a)
           /\ ghost' = [ghost EXCEPT
                 !.crossed = @ \/ (Matches(h, pc) /\ ~h.mine),
                 !.mastered = @ \/ (pc \in Checks /\ a = "yes"),
                 !.blamed = @ \/ (pc \in Logins /\ a = "no")]
    /\ reps' = Tail(reps)
    /\ UNCHANGED <<rid, flags, kind, xid, link, timed, reqs, master, srvError, faults>>

-----------------------------------------------------------------------------
(* The rest of mongo_sync_reconnect: every other member is tried.          *)

NewSocket ==
    /\ link' = TRUE
    /\ timed' = FALSE
    /\ reqs' = <<>>
    /\ reps' = <<>>
    /\ srvError' = FALSE

\* Whether the connection has credentials, with which mongo_sync_reconnect then
\* authenticates, is left open.
ReauthenticateOrResume(r) ==
    \/ pc' = "rnonce" /\ awaiting' = FALSE /\ UNCHANGED <<id, out>>
    \/ ResumeAfterReconnect(r)

\* _mongo_sync_connect_replace puts the request id at -1.  The new connection
\* passed the check it was put to, or (checked = FALSE) none at all.
Reconnected(checked) ==
    /\ pc = "rother"
    /\ NewSocket
    /\ master' \in BOOLEAN
    /\ checked /\ ForceReconnect => master'
    /\ ghost' = [ghost EXCEPT !.mastered = checked /\ ForceReconnect,
                             !.loose = @ \/ ~checked, !.blamed = FALSE]
    /\ rid' = -1
    /\ ReauthenticateOrResume(-1)
    /\ lastError' = FALSE
    /\ UNCHANGED <<flags, kind, xid, back, result, faults>>

\* A nested mongo_sync_reconnect returned NULL, and this one its old socket.
ReconnectedToNothing ==
    /\ pc = "rother"
    /\ ghost' = [ghost EXCEPT !.loose = TRUE]
    /\ ReauthenticateOrResume(rid)
    /\ UNCHANGED <<connVars, kind, xid, back, result, sockVars, faults>>

\* The re-authentication finds the socket broken and reconnects the same
\* object once more, then sends the packet it had built to the new socket.
\* A re-authentication in there may be refused.
LoginReconnects ==
    /\ pc \in Logins /\ ~awaiting
    /\ ~link /\ flags.auto
    /\ link' = TRUE /\ timed' = FALSE /\ srvError' = FALSE /\ reps' = <<>>
    /\ master' \in BOOLEAN
    /\ rid' = NextId(rid) /\ xid' = NextId(rid) /\ awaiting' = TRUE
    /\ reqs' = <<[id |-> NextId(rid), kind |-> "custom", mine |-> TRUE]>>
    /\ lastError' \in BOOLEAN
    /\ ghost' = [ghost EXCEPT !.mastered = FALSE, !.loose = TRUE, !.blamed = lastError']
    /\ UNCHANGED <<flags, kind, pc, id, out, back, result, faults>>

ReconnectFails ==
    /\ pc = "rother"
    /\ Return("fail")
    /\ lastError' = (lastError \/ kind = "insert")
    /\ UNCHANGED <<rid, flags, kind, id, xid, out, back, sockVars, faults, ghost>>

-----------------------------------------------------------------------------
(* The command's own packet.                                               *)

\* Mutant: the loop goes on after a send that succeeded.
AfterSendNoBreak == pc' = "send" /\ UNCHANGED <<awaiting, result>>
\* Mutant: no write is verified.
AfterSendUnverified ==
    IF HasReply(kind) THEN pc' = "recv" /\ awaiting' = TRUE /\ UNCHANGED result
    ELSE Return("ok")
AfterSend ==
    IF HasReply(kind) THEN pc' = "recv" /\ awaiting' = TRUE /\ UNCHANGED result
    ELSE IF kind \in Verified /\ flags.safe THEN pc' = "gle" /\ awaiting' = FALSE
                                                /\ UNCHANGED result
    ELSE Return("ok")

PacketSent ==
    /\ pc = "send"
    /\ rid' = id
    /\ xid' = id
    /\ reqs' = IF link THEN Append(Superseded(reqs), [id |-> id, kind |-> kind, mine |-> TRUE])
                       ELSE reqs
    /\ reps' = Stale(reps)
    /\ AfterSend
    /\ UNCHANGED <<flags, lastError, kind, id, out, back, link, timed, master, srvError,
                   faults, ghost>>

\* Mutant: every failed send is retried.
MayRetryAlways == flags.auto /\ kind # "reset"
\* reset is sent with check_conn = FALSE: it never reconnects.
MayRetry == flags.auto /\ kind # "reset" /\ ~out

SendFails ==
    /\ pc = "send"
    /\ ~link
    /\ IF MayRetry THEN ReconnectFrom("send") /\ UNCHANGED <<result, lastError>>
       ELSE /\ Return("fail")
            /\ lastError' = (lastError \/ kind = "insert")
            /\ UNCHANGED back
    /\ UNCHANGED <<rid, flags, kind, id, xid, out, sockVars, faults, ghost>>

\* Mutant: the id is not compared.
AcceptsAnyId(h) ==
    /\ h.kind # "gle"
    /\ kind \notin Reads => h.kind \notin Reads

\* The reply at the head of the queue is taken for an answer to the command.
Accepts(h) ==
    /\ h.to = xid
    /\ h.kind # "gle"
    /\ kind \notin Reads => h.kind \notin Reads

\* _mongo_sync_packet_recv and _mongo_sync_packet_check_error.  A query clears
\* last_error; one whose first document has an "err" key is a failure and
\* sets it.  A command that fails stores its errmsg there, if it has one.
ReplyReceived ==
    /\ pc = "recv"
    /\ reps # <<>>
    /\ LET h == Head(reps)
           success == Accepts(h) /\ h.good
       IN  /\ Return(IF success THEN "ok" ELSE "fail")
           /\ \/ success /\ lastError' = (lastError /\ kind \notin Reads)
              \/ ~success /\ UNCHANGED lastError
              \/ ~success /\ h.to = xid /\ lastError' \in BOOLEAN
           /\ ghost' = [ghost EXCEPT !.crossed = @ \/ (Accepts(h) /\ ~h.mine),
                                    !.blamed = @ /\ ~(success /\ kind \in Reads)]
    /\ reps' = Tail(reps)
    /\ UNCHANGED <<rid, flags, kind, id, xid, out, back, link, timed, reqs, master, srvError,
                   faults>>

NoReply ==
    /\ pc = "recv"
    /\ reps = <<>>
    /\ \/ ~link /\ UNCHANGED faults
       \/ timed /\ Fault
    /\ Return("fail")
    /\ UNCHANGED <<connVars, kind, id, xid, out, back, sockVars, ghost>>

-----------------------------------------------------------------------------
Init ==
    /\ rid = 0
    /\ flags = [auto |-> FALSE, slaveok |-> FALSE, safe |-> FALSE]
    /\ lastError = FALSE
    /\ kind = "custom" /\ pc = "idle" /\ awaiting = FALSE
    /\ id = 0 /\ xid = 0 /\ out = FALSE /\ back = "send" /\ result = "none"
    /\ link = TRUE /\ timed = FALSE /\ reqs = <<>> /\ reps = <<>>
    /\ master \in BOOLEAN /\ srvError = FALSE
    /\ faults = 0
    /\ ghost = [applied |-> 0, mastered |-> FALSE,
                loose |-> FALSE, crossed |-> FALSE, blamed |-> FALSE]

FlagSettings == [auto : BOOLEAN, slaveok : BOOLEAN, safe : BOOLEAN]

Application ==
    \/ \E f \in FlagSettings : SetFlags(f)
    \/ SetTimeout
    \/ \E k \in Commands : Begin(k)

Library ==
    \/ ExchangeSent \/ ExchangeCutOff \/ ExchangeTimesOut \/ Answered
    \/ (\E checked \in BOOLEAN : Reconnected(checked))
    \/ ReconnectedToNothing \/ ReconnectFails \/ LoginReconnects
    \/ PacketSent \/ SendFails \/ ReplyReceived \/ NoReply

Next == Application \/ Library \/ ServerHandles \/ LinkBreaks \/ MasterChanges

Spec == Init /\ [][Next]_vars

FairSpec == Spec /\ WF_vars(Library) /\ WF_vars(ServerHandles)

-----------------------------------------------------------------------------
(* Properties.                                                             *)

Requests == [id : Int, kind : Kinds \cup {"ismaster", "gle", "ping"}, mine : BOOLEAN]
Replies == [to : Int, kind : Kinds \cup {"ismaster", "gle", "ping"},
            good : BOOLEAN, mine : BOOLEAN]

\* The types of the state, and a bound a type cannot give: a write that was
\* issued once is applied at most once, however often it is sent again
\* (mongo-sync.c:624-650).
TypeOK ==
    /\ rid \in Int /\ id \in Int /\ xid \in Int
    /\ flags \in FlagSettings
    /\ kind \in Kinds
    /\ pc \in Exchanges \cup {"idle", "send", "recv", "rother"}
    /\ back \in {"slaveok", "ensure", "send"}
    /\ result \in {"none", "ok", "fail"}
    /\ {lastError, awaiting, out, link, timed, master, srvError} \subseteq BOOLEAN
    /\ reqs \in Seq(Requests) /\ reps \in Seq(Replies)
    /\ faults \in 0..MaxFaults
    /\ ghost.applied \in 0..1

\* No exchange takes the reply of another one for its own, although request
\* ids are reused (the id of a write is also the id of the is_master call that
\* precedes it) and late replies stay in the socket (mongo-sync.c:675-680).
\* The exception is a reconnect whose nested call returned NULL: it hands back
\* the old socket with what is queued there.
NoCrossTalk == ghost.crossed => ghost.loose

\* A write is sent only to a server that said it is the master since the call
\* began, on every path of checks, reconnects and retries
\* (mongo-sync.c:609-651), connections nobody checked excepted.
MasterBeforeWrite ==
    pc = "send" /\ ForceMaster(kind) => ghost.mastered \/ ghost.loose

\* In safe mode an insert or update that returns TRUE was applied by the
\* server exactly once: not lost on a link that was already down, and not one
\* the server refused (mongo-sync.c:817-841).
SafeAck ==
    [][/\ pc # "idle" /\ pc' = "idle" /\ result' = "ok"
       /\ kind \in Verified /\ flags.safe
       => ghost'.applied = 1]_vars

\* Every command returns, whatever breaks meanwhile, when the server answers
\* what it receives (mongo-sync.c:624-650: a send is retried only once).
CallReturns == pc # "idle" ~> pc = "idle"

\* In safe mode a write whose confirmation arrives is reported as failed only
\* because an earlier command failed, or because the server refused the
\* re-authentication after a failover (of this call even), and since then no
\* query has succeeded, the socket was not replaced and the error not reset.
\* No check, time-out or second send on the way of the call makes it so.  The
\* code gives last_error for the answer (mongo-sync.c:1424-1425), whatever
\* has stored it there (mongo-sync.c:792-794).
FalseAlarmHasCause ==
    [][/\ pc = "gle" /\ pc' = "idle" /\ result' = "fail"
       /\ reps # <<>> /\ Matches(Head(reps), pc) /\ Head(reps).good
       => ghost.blamed]_vars
=============================================================================
