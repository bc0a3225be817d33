--------------------------- MODULE SyncCommandProofs ---------------------------
(***************************************************************************)
(* Proofs about SyncCommand, for any commands, any number of requests and  *)
(* any number of faults.                                                   *)
(***************************************************************************)
EXTENDS SyncCommand, SequenceTheorems, TLAPS

\* The observations have their types as well.
GhostType == [applied : 0..1, mastered : BOOLEAN, loose : BOOLEAN, crossed : BOOLEAN,
              blamed : BOOLEAN]

\* A broken link carries nothing, and only a call that expects a reply waits.
Flow ==
    /\ ~link => reqs = <<>> /\ reps = <<>>
    /\ awaiting => pc \in Exchanges \cup {"recv"}
    /\ pc = "recv" => awaiting /\ HasReply(kind)

\* Where the command is before its packet is out.
Before == Checks \cup Logins \cup {"rping", "rother", "send"}

\* The request k is the write of the command in progress.
IsOwnWrite(k) == reqs[k].mine /\ reqs[k].kind \in Writes

\* The write is in flight once at most, and not any more when it is applied.
Once ==
    /\ \A j, k \in DOMAIN reqs : IsOwnWrite(j) /\ IsOwnWrite(k) => j = k
    /\ \A k \in DOMAIN reqs : IsOwnWrite(k) => ghost.applied = 0
    /\ pc \in Before => ghost.applied = 0 /\ \A k \in DOMAIN reqs : ~IsOwnWrite(k)

\* Request ids of getlasterror are never used again, on any path.
GleOld ==
    /\ \A k \in DOMAIN reqs : reqs[k].kind = "gle" =>
         reqs[k].id <= rid /\ (pc \in Before => reqs[k].id < id)
    /\ \A k \in DOMAIN reps : reps[k].kind = "gle" =>
         reps[k].to <= rid /\ (pc \in Before => reps[k].to < id)

\* Nothing stands between the write and the getlasterror that confirms it, so
\* that the answer is about this write.
Confirmed == ~srvError => ghost.applied = 1
Ack ==
    pc = "gle" =>
        /\ ~awaiting /\ link =>
             IF reqs = <<>> THEN Confirmed ELSE IsOwnWrite(Len(reqs))
        /\ awaiting =>
             /\ \A k \in DOMAIN reqs : reqs[k].kind = "gle" /\ reqs[k].id = xid =>
                  /\ k = Len(reqs)
                  /\ IF k = 1 THEN Confirmed ELSE IsOwnWrite(k - 1)
             /\ \A k \in DOMAIN reps :
                  reps[k].kind = "gle" /\ reps[k].to = xid /\ reps[k].good => ghost.applied = 1

\* Replies and requests stand in the order of their ids, up to the latest.
Sorted ==
    /\ \A k \in DOMAIN reps : reps[k].to <= rid
    /\ \A k \in DOMAIN reqs : reqs[k].id <= rid
    /\ \A j, k \in DOMAIN reps : j < k => reps[j].to < reps[k].to
    /\ \A j, k \in DOMAIN reqs : j < k => reqs[j].id < reqs[k].id
    /\ \A j \in DOMAIN reps, k \in DOMAIN reqs : reps[j].to < reqs[k].id

\* The id that is waited for is the latest, and carried by the own exchange only.
Own ==
    awaiting =>
        /\ xid = rid
        /\ \A k \in DOMAIN reps : reps[k].to = xid => reps[k].mine
        /\ \A k \in DOMAIN reqs : reqs[k].id = xid => reqs[k].mine

\* A packet with an older id is sent only when nothing is in flight.
Sendable == pc = "send" => id = rid + 1 \/ (reqs = <<>> /\ reps = <<>>)

\* A new socket carries nothing but the exchange of its re-authentication.
Bare ==
    pc \in Logins =>
        /\ ~timed
        /\ Len(reqs) + Len(reps) <= IF awaiting THEN 1 ELSE 0

\* As long as every socket was checked.
Ids == ~ghost.loose => Sorted /\ Own /\ Sendable /\ Bare

\* The new socket is the one the reconnect was to find.
Elected == pc \in Logins /\ ForceReconnect => ghost.mastered \/ ghost.loose

\* The error string is that of an earlier command or re-authentication.
Blame == lastError => ghost.blamed \/ (pc = "idle" /\ result = "fail")

IInv ==
    /\ TypeOK /\ ghost \in GhostType /\ Flow
    /\ Once /\ GleOld /\ Ack
    /\ Ids /\ NoCrossTalk /\ MasterBeforeWrite /\ Elected /\ Blame

-----------------------------------------------------------------------------
(* Queues.                                                                 *)

LEMMA FunctionIsSeq ==
    ASSUME NEW S, NEW n \in Nat, NEW f \in [1..n -> S]
    PROVE  f \in Seq(S) /\ Len(f) = n /\ DOMAIN f = 1..n
OBVIOUS

LEMMA SupersededFacts ==
    ASSUME NEW q \in Seq(Requests)
    PROVE  /\ Superseded(q) \in Seq(Requests) /\ Len(Superseded(q)) = Len(q)
           /\ \A k \in 1..Len(q) :
                /\ Superseded(q)[k].id = q[k].id /\ Superseded(q)[k].kind = q[k].kind
                /\ Superseded(q)[k].mine <=> (q[k].mine /\ q[k].kind \in Writes)
<1>. DEFINE p == Superseded(q)
<1>1. Len(q) \in Nat /\ DOMAIN q = 1..Len(q)
  OBVIOUS
<1>2. ASSUME NEW k \in 1..Len(q)
      PROVE  /\ [q[k] EXCEPT !.mine = @ /\ q[k].kind \in Writes] \in Requests
             /\ p[k].id = q[k].id /\ p[k].kind = q[k].kind
             /\ p[k].mine <=> (q[k].mine /\ q[k].kind \in Writes)
  <2>1. q[k] \in Requests
    OBVIOUS
  <2>2. p[k] = [q[k] EXCEPT !.mine = @ /\ q[k].kind \in Writes]
    BY <1>1 DEF Superseded
  <2>3. (q[k].mine /\ q[k].kind \in Writes) \in BOOLEAN
    OBVIOUS
  <2>. QED  BY <2>1, <2>2, <2>3 DEF Requests
<1>3. p \in [1..Len(q) -> Requests]
  BY <1>1, <1>2 DEF Superseded
<1>. HIDE DEF p
<1>4. p \in Seq(Requests) /\ Len(p) = Len(q)
  BY <1>1, <1>3, FunctionIsSeq
<1>. QED  BY <1>2, <1>4 DEF p

LEMMA StaleRequests ==
    ASSUME NEW q \in Seq(Requests)
    PROVE  /\ Stale(q) \in Seq(Requests) /\ Len(Stale(q)) = Len(q)
           /\ \A k \in 1..Len(q) : /\ Stale(q)[k].id = q[k].id /\ Stale(q)[k].kind = q[k].kind
                                   /\ ~Stale(q)[k].mine
<1>. DEFINE p == Stale(q)
<1>1. Len(q) \in Nat /\ DOMAIN q = 1..Len(q)
  OBVIOUS
<1>2. \A k \in 1..Len(q) : q[k] \in Requests
  OBVIOUS
<1>3. \A k \in 1..Len(q) : p[k] \in Requests /\ p[k].id = q[k].id /\ p[k].kind = q[k].kind /\ ~p[k].mine
  BY <1>1, <1>2 DEF Stale, Requests
<1>4. p \in [1..Len(q) -> Requests]
  BY <1>1, <1>3 DEF Stale
<1>. HIDE DEF p
<1>5. p \in Seq(Requests) /\ Len(p) = Len(q)
  BY <1>1, <1>4, FunctionIsSeq
<1>. QED  BY <1>3, <1>5 DEF p

LEMMA StaleReplies ==
    ASSUME NEW q \in Seq(Replies)
    PROVE  /\ Stale(q) \in Seq(Replies) /\ Len(Stale(q)) = Len(q)
           /\ \A k \in 1..Len(q) : /\ Stale(q)[k].to = q[k].to /\ Stale(q)[k].kind = q[k].kind
                                   /\ Stale(q)[k].good = q[k].good /\ ~Stale(q)[k].mine
<1>. DEFINE p == Stale(q)
<1>1. Len(q) \in Nat /\ DOMAIN q = 1..Len(q)
  OBVIOUS
<1>2. \A k \in 1..Len(q) : q[k] \in Replies
  OBVIOUS
<1>3. \A k \in 1..Len(q) : /\ p[k] \in Replies /\ p[k].to = q[k].to /\ p[k].kind = q[k].kind
                           /\ p[k].good = q[k].good /\ ~p[k].mine
  BY <1>1, <1>2 DEF Stale, Replies
<1>4. p \in [1..Len(q) -> Replies]
  BY <1>1, <1>3 DEF Stale
<1>. HIDE DEF p
<1>5. p \in Seq(Replies) /\ Len(p) = Len(q)
  BY <1>1, <1>4, FunctionIsSeq
<1>. QED  BY <1>3, <1>5 DEF p

LEMMA Appended ==
    ASSUME NEW S, NEW q \in Seq(S), NEW e \in S
    PROVE  /\ Append(q, e) \in Seq(S) /\ Len(Append(q, e)) = Len(q) + 1
           /\ \A k \in 1..Len(q) : Append(q, e)[k] = q[k]
           /\ Append(q, e)[Len(q) + 1] = e
OBVIOUS

LEMMA Queues ==
    ASSUME TypeOK
    PROVE  /\ Len(reqs) \in Nat /\ DOMAIN reqs = 1..Len(reqs)
           /\ Len(reps) \in Nat /\ DOMAIN reps = 1..Len(reps)
           /\ \A k \in DOMAIN reqs : reqs[k].id \in Int /\ reqs[k].mine \in BOOLEAN
           /\ \A k \in DOMAIN reps : /\ reps[k].to \in Int /\ reps[k].mine \in BOOLEAN
                                     /\ reps[k].good \in BOOLEAN
<1>1. reqs \in Seq(Requests) /\ reps \in Seq(Replies)
  BY DEF TypeOK
<1>2. /\ Len(reqs) \in Nat /\ DOMAIN reqs = 1..Len(reqs)
      /\ Len(reps) \in Nat /\ DOMAIN reps = 1..Len(reps)
  BY <1>1
<1>3. /\ \A k \in DOMAIN reqs : reqs[k] \in Requests
      /\ \A k \in DOMAIN reps : reps[k] \in Replies
  BY <1>1, <1>2
<1>. QED  BY <1>2, <1>3 DEF Requests, Replies
-----------------------------------------------------------------------------
(* Where an exchange leads.                                                *)

LEMMA Kept == ASSUME TypeOK PROVE /\ rid \in Int /\ id \in Int /\ xid \in Int /\ lastError \in BOOLEAN
                                  /\ awaiting \in BOOLEAN /\ out \in BOOLEAN /\ link \in BOOLEAN
                                  /\ timed \in BOOLEAN /\ master \in BOOLEAN /\ srvError \in BOOLEAN
BY DEF TypeOK

\* What a step of the command may do to its own state.
Moved ==
    /\ awaiting' = FALSE
    /\ pc' \in Before \cup {"idle"} /\ (pc' \in Before => pc \in Before)
    /\ id' \in {id, rid + 1}
    /\ back' \in {"slaveok", "ensure", "send"} /\ out' \in BOOLEAN
    /\ result' \in {"none", "ok", "fail"} /\ lastError' \in BOOLEAN
    /\ lastError' => lastError \/ (pc' = "idle" /\ result' = "fail") \/ pc \in Logins

\* Where nothing may be in flight on a socket that was checked.
Quiet == pc \in Logins \cup {"send"}

LEMMA BuildMoves ==
    ASSUME NEW r \in Int, BuildPacket(r)
    PROVE  /\ awaiting' = FALSE /\ id' = r + 1 /\ pc' \in Before \ Logins
           /\ pc' = "send" => ~ForceMaster(kind)
BY DEF BuildPacket, ToSend, NextId, Before, Checks, Logins

LEMMA ResumeMoves ==
    ASSUME NEW r \in Int, ResumeAfterReconnect(r), TypeOK
    PROVE  /\ awaiting' = FALSE /\ id' \in {id, r + 1} /\ pc' \in Before \ Logins
           /\ out' \in BOOLEAN
           /\ pc' = "send" => back \in {"ensure", "send"} \/ ~ForceMaster(kind)
<1>1. back \in {"slaveok", "ensure", "send"} /\ out \in BOOLEAN
  BY DEF TypeOK
<1>2. CASE back = "slaveok"
  <2>1. BuildPacket(r) /\ out' = out
    BY <1>2 DEF ResumeAfterReconnect
  <2>. QED  BY <1>1, <2>1, BuildMoves
<1>3. CASE back # "slaveok"
  <2>1. pc' = "send" /\ awaiting' = FALSE /\ out' = (back = "send") /\ id' = id
    BY <1>3 DEF ResumeAfterReconnect
  <2>. QED  BY <1>1, <1>3, <2>1 DEF Before, Logins
<1>. QED  BY <1>2, <1>3

LEMMA ReauthenticateMoves ==
    ASSUME NEW r \in Int, ReauthenticateOrResume(r), TypeOK
    PROVE  /\ awaiting' = FALSE /\ id' \in {id, r + 1} /\ pc' \in Before /\ out' \in BOOLEAN
           /\ pc' = "send" => back \in {"ensure", "send"} \/ ~ForceMaster(kind)
<1>1. CASE pc' = "rnonce" /\ awaiting' = FALSE /\ UNCHANGED <<id, out>>
  BY <1>1, Kept DEF Before, Logins
<1>2. CASE ResumeAfterReconnect(r)
  BY <1>2, ResumeMoves
<1>. QED  BY <1>1, <1>2 DEF ReauthenticateOrResume

LEMMA CheckMoves ==
    ASSUME TypeOK, NEW a \in {"yes", "no", "error", "EPROTO"}, AfterCheck(pc, a)
    PROVE  /\ Moved /\ pc' \notin Logins
           /\ pc' = "send" => a = "yes" /\ (ForceMaster(kind) => pc \in Checks)
           /\ pc' = "idle" => result' = "fail"
<1>0. pc \in {"slaveok", "ensure"} /\ pc \in Before /\ pc \in Checks /\ out' = out
  BY DEF AfterCheck, Before, Checks, Logins
<1>. USE <1>0, Kept DEF Moved
<1>1. CASE a = "yes" /\ pc = "slaveok" /\ BuildPacket(rid) /\ UNCHANGED <<back, result, lastError>>
  <2>1. back' = back /\ result' = result /\ lastError' = lastError
    BY <1>1
  <2>2. back' \in {"slaveok", "ensure", "send"} /\ result' \in {"none", "ok", "fail"}
        /\ "idle" \notin Before
    BY <2>1 DEF TypeOK, Before, Checks, Logins
  <2>3. lastError' \in BOOLEAN /\ out' \in BOOLEAN
    BY <2>1
  <2>4. /\ awaiting' = FALSE /\ id' \in {id, rid + 1} /\ pc' \in Before /\ pc' \notin Logins
    BY <1>1, BuildMoves, Kept
  <2>. QED  BY <1>1, <2>1, <2>2, <2>3, <2>4
<1>2. CASE a = "yes" /\ pc' = "send" /\ awaiting' = FALSE /\ UNCHANGED <<id, back, result, lastError>>
  BY <1>2 DEF TypeOK, Before, Logins
<1>3. CASE ReconnectFrom(pc) /\ UNCHANGED <<id, result, lastError>>
  BY <1>3 DEF ReconnectFrom, TypeOK, Before, Logins
<1>4. CASE Return("fail") /\ lastError' = (lastError \/ kind = "insert") /\ UNCHANGED <<id, back>>
  BY <1>4 DEF Return, TypeOK, Before, Checks, Logins
<1>. QED  BY <1>1, <1>2, <1>3, <1>4, Zenon DEF AfterCheck

LEMMA ReconnectCheckMoves ==
    ASSUME TypeOK, NEW a \in {"yes", "no", "error", "EPROTO"}, AfterReconnectCheck(pc, a)
    PROVE  /\ Moved /\ pc' # "idle" /\ pc' \notin Logins
           /\ pc' = "send" => a = "yes" /\ (ForceMaster(kind) => pc \in Checks)
<1>0. back' = back /\ result' = result /\ lastError' = lastError
  BY DEF AfterReconnectCheck
<1>. USE <1>0, Kept DEF Moved
<1>1. CASE pc = "rping" /\ a = "yes" /\ ~ForceReconnect /\ ResumeAfterReconnect(rid)
  <2>1. pc \in Before /\ "idle" \notin Before
    BY <1>1 DEF Before, Checks, Logins
  <2>2. pc' = "send" => ~ForceMaster(kind)
    BY <1>1, ResumeMoves DEF ForceReconnect
  <2>. QED  BY <1>1, <2>1, <2>2, ResumeMoves DEF TypeOK
<1>2. CASE pc = "rmaster" /\ a = "yes" /\ ResumeAfterReconnect(rid)
  <2>1. pc \in Before /\ pc \in Checks /\ "idle" \notin Before
    BY <1>2 DEF Before, Checks, Logins
  <2>. QED  BY <1>2, <2>1, ResumeMoves DEF TypeOK
<1>3. CASE pc \in {"rping", "rmaster", "rrefresh"} /\ pc' \in {"rmaster", "rrefresh", "rother"}
           /\ awaiting' = FALSE /\ UNCHANGED <<id, out>>
  BY <1>3 DEF TypeOK, Before, Checks, Logins
<1>. QED  BY <1>1, <1>2, <1>3 DEF AfterReconnectCheck

LEMMA GleMoves ==
    ASSUME TypeOK, NEW a \in {"yes", "no", "error", "EPROTO"}, AfterGetLastError(pc, a)
    PROVE  /\ Moved /\ pc = "gle" /\ pc' = "idle"
           /\ result' = "ok" => a = "yes"
           /\ result' = "fail" /\ a = "yes" => lastError
<1>1. /\ pc = "gle" /\ pc' = "idle" /\ awaiting' = FALSE /\ id' = id /\ out' = out /\ back' = back
      /\ result' = IF a = "yes" /\ ~lastError THEN "ok" ELSE "fail"
      /\ lastError' = (lastError \/ a # "yes")
  BY DEF AfterGetLastError, Return
<1>2. lastError' \in BOOLEAN /\ (lastError' => lastError \/ result' = "fail")
  BY <1>1, Kept
<1>3. pc' \notin Before
  BY <1>1 DEF Before, Checks, Logins
<1>4. back' \in {"slaveok", "ensure", "send"} /\ out' \in BOOLEAN /\ result' \in {"none", "ok", "fail"}
  BY <1>1 DEF TypeOK
<1>5. (result' = "ok" => a = "yes") /\ (result' = "fail" /\ a = "yes" => lastError)
  BY <1>1, Kept
<1>. QED  BY <1>1, <1>2, <1>3, <1>4, <1>5 DEF Moved

LEMMA LoginMoves ==
    ASSUME TypeOK, NEW a \in {"yes", "no", "error", "EPROTO"}, AfterLogin(pc, a)
    PROVE  /\ Moved /\ pc \in Logins /\ pc' # "idle"
           /\ back' = back
           /\ pc' = "send" => ForceReconnect \/ ~ForceMaster(kind)
           /\ pc' \in Logins => a = "yes"
           /\ lastError' => lastError \/ a = "no"
<1>1. /\ pc \in Logins /\ back' = back /\ result' = result
      /\ lastError' \in IF a = "no" THEN BOOLEAN ELSE {lastError}
  BY DEF AfterLogin
<1>2. lastError' \in BOOLEAN /\ (lastError' => lastError \/ a = "no")
  BY <1>1, Kept
<1>3. back' \in {"slaveok", "ensure", "send"} /\ result' \in {"none", "ok", "fail"}
  BY <1>1 DEF TypeOK
<1>4. pc \in Before /\ "idle" \notin Before
  BY <1>1 DEF Before, Checks, Logins
<1>5. CASE a = "yes" /\ pc' = "rauth" /\ awaiting' = FALSE /\ UNCHANGED <<id, out>>
  BY <1>1, <1>2, <1>3, <1>4, <1>5, Kept DEF Moved, Before, Logins
<1>6. CASE ResumeAfterReconnect(rid)
  <2>1. /\ awaiting' = FALSE /\ id' \in {id, rid + 1} /\ pc' \in Before \ Logins
        /\ out' \in BOOLEAN
        /\ pc' = "send" => back \in {"ensure", "send"} \/ ~ForceMaster(kind)
    BY <1>6, ResumeMoves, Kept
  <2>. QED  BY <1>1, <1>2, <1>3, <1>4, <2>1 DEF Moved, ForceReconnect
<1>. QED  BY <1>5, <1>6 DEF AfterLogin

LEMMA ExchangeMoves ==
    ASSUME TypeOK, NEW a \in {"yes", "no", "error", "EPROTO"}, AfterExchange(pc, a)
    PROVE  /\ Moved
           /\ Quiet' /\ pc \notin Logins =>
                pc' = "send" /\ a = "yes" /\ (ForceMaster(kind) => pc \in Checks)
           /\ pc \in Logins =>
                /\ back' = back
                /\ pc' = "send" => ForceReconnect \/ ~ForceMaster(kind)
                /\ pc' \in Logins => a = "yes"
                /\ lastError' => lastError \/ a = "no"
           /\ pc' = "idle" /\ result' = "ok" => pc = "gle" /\ a = "yes"
           /\ pc = "gle" /\ result' = "fail" /\ a = "yes" => lastError
<1>1. CASE AfterCheck(pc, a)
  <2>1. pc \in {"slaveok", "ensure"} /\ pc \notin Logins
    BY <1>1 DEF AfterCheck, Logins
  <2>. QED  BY <1>1, <2>1, CheckMoves DEF Quiet
<1>2. CASE AfterReconnectCheck(pc, a)
  <2>1. pc \in {"rping", "rmaster", "rrefresh"} /\ pc \notin Logins
    BY <1>2 DEF AfterReconnectCheck, Logins
  <2>. QED  BY <1>2, <2>1, ReconnectCheckMoves DEF Quiet
<1>3. CASE AfterGetLastError(pc, a)
  BY <1>3, GleMoves DEF Quiet, Logins
<1>4. CASE AfterLogin(pc, a)
  BY <1>4, LoginMoves DEF Logins
<1>. QED  BY <1>1, <1>2, <1>3, <1>4 DEF AfterExchange
-----------------------------------------------------------------------------
(* A step that sends nothing and takes one reply at most.                  *)

Drops == reps' = reps \/ (reps # <<>> /\ reps' = Tail(reps))

LEMMA DropFacts ==
    ASSUME TypeOK, Drops
    PROVE  /\ \E d \in {0, 1} : \A k \in DOMAIN reps' : k + d \in DOMAIN reps /\ reps'[k] = reps[k + d]
           /\ DOMAIN reps' = 1..Len(reps') /\ Len(reps') \in Nat
           /\ reps' \in Seq(Replies)
           /\ reps = <<>> => reps' = <<>>
<1>1. reps \in Seq(Replies) /\ Len(reps) \in Nat /\ DOMAIN reps = 1..Len(reps)
  BY DEF TypeOK
<1>2. CASE reps' = reps
  <2>1. \A k \in DOMAIN reps' : k + 0 \in DOMAIN reps /\ reps'[k] = reps[k + 0]
    BY <1>1, <1>2
  <2>. QED  BY <1>1, <1>2, <2>1
<1>3. CASE reps # <<>> /\ reps' = Tail(reps)
  <2>1. /\ reps' \in Seq(Replies) /\ Len(reps') = Len(reps) - 1
        /\ \A k \in 1..Len(reps') : reps'[k] = reps[k + 1]
    BY <1>1, <1>3, HeadTailProperties
  <2>2. Len(reps') \in Nat /\ DOMAIN reps' = 1..Len(reps')
    BY <2>1
  <2>3. \A k \in DOMAIN reps' : k + 1 \in DOMAIN reps /\ reps'[k] = reps[k + 1]
    BY <1>1, <2>1, <2>2
  <2>. QED  BY <1>3, <2>1, <2>2, <2>3
<1>. QED  BY <1>2, <1>3 DEF Drops

LEMMA Settle ==
    ASSUME IInv, Drops, Moved, UNCHANGED <<reqs, link>>,
           ghost'.applied = ghost.applied, ghost.loose => ghost'.loose, rid' \in {rid, rid + 1},
           Quiet' /\ ~ghost'.loose => reqs = <<>> /\ reps' = <<>> /\ (pc' \in Logins => ~timed')
    PROVE  Flow' /\ Once' /\ GleOld' /\ Ack' /\ Ids'
<1>. DEFINE n == Len(reqs)
<1>1. /\ TypeOK /\ rid \in Int /\ rid' \in Int /\ rid' >= rid /\ id \in Int
      /\ n \in Nat /\ DOMAIN reqs = 1..n
      /\ \A k \in DOMAIN reqs : reqs[k].id \in Int
      /\ \A k \in DOMAIN reps : reps[k].to \in Int
      /\ Flow /\ Once /\ GleOld /\ Ids
  BY Queues, Kept DEF IInv
<1>2. PICK d \in {0, 1} : \A k \in DOMAIN reps' : k + d \in DOMAIN reps /\ reps'[k] = reps[k + d]
  BY <1>1, DropFacts
<1>3. DOMAIN reps' = 1..Len(reps') /\ Len(reps') \in Nat /\ (reps = <<>> => reps' = <<>>)
  BY <1>1, DropFacts
<1>4. awaiting' = FALSE /\ pc' \in Before \cup {"idle"} /\ (pc' \in Before => pc \in Before)
      /\ id' \in {id, rid + 1}
  BY DEF Moved
<1>5. pc' # "recv" /\ pc' # "gle"
  BY <1>4 DEF Before, Checks, Logins
<1>6. Flow'
  BY <1>1, <1>3, <1>4, <1>5 DEF Flow
<1>7. Once'
  BY <1>1, <1>4 DEF Once, IsOwnWrite
<1>8. GleOld'
  <2>1. \A k \in DOMAIN reqs : reqs[k].kind = "gle" =>
            reqs[k].id <= rid' /\ (pc' \in Before => reqs[k].id < id')
    BY <1>1, <1>4 DEF GleOld
  <2>2. \A k \in DOMAIN reps : reps[k].kind = "gle" =>
            reps[k].to <= rid' /\ (pc' \in Before => reps[k].to < id')
    BY <1>1, <1>4 DEF GleOld
  <2>3. \A k \in DOMAIN reps' : reps'[k].kind = "gle" =>
            reps'[k].to <= rid' /\ (pc' \in Before => reps'[k].to < id')
    BY <1>2, <2>2
  <2>. QED  BY <2>1, <2>3 DEF GleOld
<1>9. Ack'
  BY <1>5 DEF Ack
<1>10. Ids'
  <2>. SUFFICES ASSUME ~ghost'.loose PROVE Sorted' /\ Own' /\ Sendable' /\ Bare'
    BY DEF Ids
  <2>1. Sorted
    BY <1>1 DEF Ids
  <2>2. /\ \A k \in DOMAIN reps' : reps'[k].to <= rid'
        /\ \A k \in DOMAIN reqs : reqs[k].id <= rid'
    <3>1. /\ \A k \in DOMAIN reps : reps[k].to <= rid'
          /\ \A k \in DOMAIN reqs : reqs[k].id <= rid'
      BY <1>1, <2>1 DEF Sorted
    <3>. QED  BY <1>2, <3>1
  <2>3. \A j, k \in DOMAIN reps' : j < k => reps'[j].to < reps'[k].to
    <3>. SUFFICES ASSUME NEW j \in DOMAIN reps', NEW k \in DOMAIN reps', j < k
                  PROVE  reps'[j].to < reps'[k].to
      OBVIOUS
    <3>1. j + d < k + d /\ j + d \in DOMAIN reps /\ k + d \in DOMAIN reps
      BY <1>2, <1>3
    <3>. QED  BY <1>2, <2>1, <3>1 DEF Sorted
  <2>4. \A j \in DOMAIN reps', k \in DOMAIN reqs : reps'[j].to < reqs[k].id
    BY <1>2, <2>1 DEF Sorted
  <2>5. \A j, k \in DOMAIN reqs : j < k => reqs[j].id < reqs[k].id
    BY <2>1 DEF Sorted
  <2>6. Sorted'
    BY <2>2, <2>3, <2>4, <2>5 DEF Sorted
  <2>7. Own'
    BY <1>4 DEF Own
  <2>8. Sendable'
    BY DEF Sendable, Quiet
  <2>9. Bare'
    <3>. SUFFICES ASSUME pc' \in Logins PROVE ~timed' /\ Len(reqs') + Len(reps') <= 0
      BY <1>4 DEF Bare
    <3>1. reqs' = <<>> /\ reps' = <<>> /\ ~timed'
      BY DEF Quiet
    <3>2. Len(reqs') = 0 /\ Len(reps') = 0
      BY <3>1, EmptySeq
    <3>. QED  BY <3>1, <3>2
  <2>. QED  BY <2>6, <2>7, <2>8, <2>9
<1>. QED  BY <1>6, <1>7, <1>8, <1>9, <1>10
LEMMA SettleStep ==
    ASSUME IInv, Drops, Moved, UNCHANGED <<reqs, link, kind, xid, srvError>>,
           ghost' \in GhostType, ghost'.applied = ghost.applied, ghost.loose => ghost'.loose,
           rid' \in {rid, rid + 1}, faults' \in 0..MaxFaults, flags' \in FlagSettings,
           timed' \in BOOLEAN, master' \in BOOLEAN,
           Quiet' /\ ~ghost'.loose => reqs = <<>> /\ reps' = <<>> /\ (pc' \in Logins => ~timed'),
           NoCrossTalk', MasterBeforeWrite', Elected', Blame'
    PROVE  IInv'
<1>1. TypeOK /\ rid \in Int /\ id \in Int
  BY Kept DEF IInv
<1>2. Flow' /\ Once' /\ GleOld' /\ Ack' /\ Ids'
  BY Settle
<1>3. reps' \in Seq(Replies)
  BY <1>1, DropFacts
<1>4. rid' \in Int /\ id' \in Int /\ ghost'.applied \in 0..1
  BY <1>1 DEF Moved, GhostType
<1>5. /\ pc' \in Exchanges \cup {"idle", "send", "recv", "rother"}
      /\ back' \in {"slaveok", "ensure", "send"} /\ result' \in {"none", "ok", "fail"}
  BY DEF Moved, Before, Exchanges
<1>6. {lastError', awaiting', out', link', timed', master', srvError'} \subseteq BOOLEAN
  BY <1>1, Kept DEF Moved
<1>7. kind' \in Kinds /\ xid' \in Int /\ reqs' \in Seq(Requests)
  BY <1>1 DEF TypeOK
<1>8. TypeOK'
  BY <1>3, <1>4, <1>5, <1>6, <1>7 DEF TypeOK
<1>. QED  BY <1>2, <1>8 DEF IInv

-----------------------------------------------------------------------------
(* The application, and the steps that give up.                            *)

LEMMA Observed ==
    ASSUME IInv
    PROVE  /\ ghost \in GhostType /\ ghost.applied \in 0..1
           /\ ghost.mastered \in BOOLEAN /\ ghost.loose \in BOOLEAN
           /\ ghost.crossed \in BOOLEAN /\ ghost.blamed \in BOOLEAN
           /\ faults \in 0..MaxFaults /\ MaxFaults \in Nat /\ flags \in FlagSettings
           /\ timed \in BOOLEAN /\ master \in BOOLEAN
BY SyncCommandAssumption, Kept DEF IInv, GhostType, TypeOK

LEMMA FaultCounts == ASSUME IInv, Fault PROVE faults' \in 0..MaxFaults
BY Observed DEF Fault

LEMMA IdleMoves ==
    ASSUME IInv, pc = "idle", UNCHANGED <<lastError, cmdVars>>
    PROVE  Moved /\ pc' = "idle" /\ (lastError' => ghost.blamed \/ result' = "fail")
<1>1. awaiting = FALSE
  <2>1. awaiting \in BOOLEAN /\ (awaiting => pc \in Exchanges \cup {"recv"})
    BY Kept DEF IInv, Flow
  <2>. QED  BY <2>1 DEF Exchanges, Checks, Logins
<1>2. /\ pc' = pc /\ awaiting' = awaiting /\ id' = id /\ out' = out /\ back' = back
      /\ result' = result /\ lastError' = lastError
  BY DEF cmdVars
<1>3. lastError => ghost.blamed \/ result = "fail"
  BY DEF IInv, Blame
<1>4. /\ back \in {"slaveok", "ensure", "send"} /\ result \in {"none", "ok", "fail"}
      /\ out \in BOOLEAN /\ lastError \in BOOLEAN /\ pc \notin Before
  BY Kept DEF IInv, TypeOK, Before, Checks, Logins
<1>. QED  BY <1>1, <1>2, <1>3, <1>4 DEF Moved

LEMMA SetFlagsStep ==
    ASSUME IInv, NEW f \in FlagSettings, SetFlags(f)
    PROVE  IInv'
<1>1. /\ pc = "idle" /\ UNCHANGED <<rid, lastError, cmdVars, sockVars, faults, ghost>> /\ flags' = f
  BY DEF SetFlags
<1>2. Moved /\ pc' = "idle" /\ (lastError' => ghost.blamed \/ result' = "fail")
  BY <1>1, IdleMoves
<1>3. /\ UNCHANGED <<reqs, reps, link, kind, xid, srvError, timed, master>> /\ Drops
  BY <1>1 DEF sockVars, cmdVars, Drops
<1>4. NoCrossTalk' /\ MasterBeforeWrite' /\ Blame'
  BY <1>1, <1>2 DEF IInv, NoCrossTalk, MasterBeforeWrite, Blame
<1>5. ~Quiet' /\ Elected'
  BY <1>2 DEF Quiet, Elected, Logins
<1>. QED  BY <1>1, <1>2, <1>3, <1>4, <1>5, Observed, SettleStep

LEMMA SetTimeoutStep ==
    ASSUME IInv, SetTimeout
    PROVE  IInv'
<1>1. /\ pc = "idle" /\ timed' = TRUE
      /\ UNCHANGED <<connVars, cmdVars, link, reqs, reps, master, srvError, faults, ghost>>
  BY DEF SetTimeout
<1>2. UNCHANGED <<rid, flags, lastError, kind, xid>> /\ Drops
  BY <1>1 DEF connVars, cmdVars, Drops
<1>3. Moved /\ pc' = "idle" /\ (lastError' => ghost.blamed \/ result' = "fail")
  BY <1>1, <1>2, IdleMoves
<1>4. NoCrossTalk' /\ MasterBeforeWrite' /\ Blame'
  BY <1>1, <1>3 DEF IInv, NoCrossTalk, MasterBeforeWrite, Blame
<1>5. ~Quiet' /\ Elected'
  BY <1>3 DEF Quiet, Elected, Logins
<1>. QED  BY <1>1, <1>2, <1>3, <1>4, <1>5, Observed, SettleStep

\* A step that leads on from a place that is not idle, without a packet.
LEMMA BlameKept ==
    ASSUME IInv, Moved, pc # "idle", ghost' = ghost,
           (pc \in Logins /\ lastError') => lastError
    PROVE  Blame' /\ NoCrossTalk'
BY DEF IInv, Moved, Blame, NoCrossTalk

\* A re-authentication leads on with the socket that was chosen.
LEMMA ElectionKept ==
    ASSUME IInv, UNCHANGED <<flags, kind>>, ghost.mastered => ghost'.mastered,
           ghost.loose => ghost'.loose, Quiet' => pc \in Logins,
           pc \in Logins => /\ back' = back
                            /\ pc' = "send" => ForceReconnect \/ ~ForceMaster(kind)
    PROVE  MasterBeforeWrite' /\ Elected'
<1>1. (ForceMaster(kind)' <=> ForceMaster(kind))
  BY DEF ForceMaster
<1>2. pc \in Logins => (ForceReconnect' <=> ForceReconnect)
  BY <1>1 DEF ForceReconnect
<1>3. pc \in Logins /\ ForceReconnect => ghost'.mastered \/ ghost'.loose
  BY DEF IInv, Elected
<1>. QED  BY <1>1, <1>2, <1>3 DEF MasterBeforeWrite, Elected, Quiet

LEMMA ExchangeCutOffStep ==
    ASSUME IInv, ExchangeCutOff
    PROVE  IInv'
<1>1. /\ pc \in Exchanges /\ AfterExchange(pc, "error")
      /\ UNCHANGED <<flags, kind, xid, sockVars, faults, ghost>>
      /\ rid' \in {rid} \cup (IF awaiting THEN {} ELSE {NextId(rid)})
  BY DEF ExchangeCutOff
<1>2. rid' \in {rid, rid + 1}
  BY <1>1 DEF NextId
<1>3. /\ Moved /\ pc' \notin Logins /\ (Quiet' => pc \in Logins)
      /\ pc \in Logins => /\ back' = back /\ (lastError' => lastError)
                          /\ pc' = "send" => ForceReconnect \/ ~ForceMaster(kind)
  BY <1>1, ExchangeMoves DEF IInv, Quiet
<1>4. UNCHANGED <<reqs, reps, link, srvError, timed, master>> /\ Drops
  BY <1>1 DEF sockVars, Drops
<1>5. pc # "idle"
  BY <1>1 DEF Exchanges, Checks, Logins
<1>6. Blame' /\ NoCrossTalk' /\ MasterBeforeWrite' /\ Elected'
  BY <1>1, <1>3, <1>5, BlameKept, ElectionKept
<1>7. reqs = <<>> /\ reps' = <<>>
  BY <1>4 DEF IInv, Flow, ExchangeCutOff
<1>. QED  BY <1>1, <1>2, <1>3, <1>4, <1>6, <1>7, Observed, SettleStep

LEMMA ExchangeTimesOutStep ==
    ASSUME IInv, ExchangeTimesOut
    PROVE  IInv'
<1>1. /\ pc \in Exchanges /\ Fault /\ AfterExchange(pc, "error")
      /\ UNCHANGED <<rid, flags, kind, xid, sockVars, ghost>>
  BY DEF ExchangeTimesOut
<1>2. /\ Moved /\ (Quiet' => pc \in Logins)
      /\ pc \in Logins => /\ back' = back /\ (lastError' => lastError)
                          /\ pc' = "send" => ForceReconnect \/ ~ForceMaster(kind)
  BY <1>1, ExchangeMoves DEF IInv
<1>3. UNCHANGED <<reqs, reps, link, srvError, timed, master>> /\ Drops
  BY <1>1 DEF sockVars, Drops
<1>4. pc # "idle"
  BY <1>1 DEF Exchanges, Checks, Logins
<1>5. Blame' /\ NoCrossTalk' /\ MasterBeforeWrite' /\ Elected'
  BY <1>1, <1>2, <1>4, BlameKept, ElectionKept
<1>6. Quiet' => ghost'.loose
  BY <1>1, <1>2 DEF ExchangeTimesOut, IInv, Ids, Bare
<1>. QED  BY <1>1, <1>2, <1>3, <1>5, <1>6, FaultCounts, Observed, SettleStep

\* The call returns a failure.
LEMMA FailMoves ==
    ASSUME IInv, Return("fail"), UNCHANGED <<id, out, back>>,
           lastError' = (lastError \/ kind = "insert") \/ lastError' = lastError \/ lastError' = TRUE
    PROVE  Moved /\ pc' = "idle" /\ result' = "fail"
<1>1. pc' = "idle" /\ result' = "fail" /\ awaiting' = FALSE
  BY DEF Return
<1>2. lastError' \in BOOLEAN
  BY Kept DEF IInv
<1>3. back' \in {"slaveok", "ensure", "send"} /\ out' \in BOOLEAN
  BY Kept DEF IInv, TypeOK
<1>. QED  BY <1>1, <1>2, <1>3 DEF Moved, Before, Checks, Logins

LEMMA ReconnectFailsStep ==
    ASSUME IInv, ReconnectFails
    PROVE  IInv'
<1>1. /\ pc = "rother" /\ Return("fail") /\ lastError' = (lastError \/ kind = "insert")
      /\ UNCHANGED <<rid, flags, kind, id, xid, out, back, sockVars, faults, ghost>>
  BY DEF ReconnectFails
<1>2. Moved /\ pc' = "idle" /\ result' = "fail"
  BY <1>1, FailMoves
<1>3. UNCHANGED <<reqs, reps, link, srvError, timed, master>> /\ Drops
  BY <1>1 DEF sockVars, Drops
<1>4. Blame' /\ NoCrossTalk' /\ MasterBeforeWrite' /\ Elected' /\ ~Quiet'
  BY <1>1, <1>2, BlameKept DEF MasterBeforeWrite, Elected, Quiet, Logins
<1>. QED  BY <1>1, <1>2, <1>3, <1>4, Observed, SettleStep

LEMMA NoReplyStep ==
    ASSUME IInv, NoReply
    PROVE  IInv'
<1>1. /\ pc = "recv" /\ Return("fail") /\ (faults' = faults \/ Fault)
      /\ UNCHANGED <<connVars, kind, id, xid, out, back, sockVars, ghost>>
  BY DEF NoReply
<1>2. UNCHANGED <<rid, flags, lastError, reqs, reps, link, srvError, timed, master>> /\ Drops
  BY <1>1 DEF sockVars, connVars, Drops
<1>3. Moved /\ pc' = "idle" /\ result' = "fail"
  BY <1>1, <1>2, FailMoves
<1>4. Blame' /\ NoCrossTalk' /\ MasterBeforeWrite' /\ Elected' /\ ~Quiet'
  BY <1>1, <1>3, BlameKept DEF MasterBeforeWrite, Elected, Quiet, Logins
<1>5. faults' \in 0..MaxFaults
  BY <1>1, FaultCounts, Observed
<1>. QED  BY <1>1, <1>2, <1>3, <1>4, <1>5, Observed, SettleStep

LEMMA SendFailsStep ==
    ASSUME IInv, SendFails
    PROVE  IInv'
<1>1. /\ pc = "send" /\ UNCHANGED <<rid, flags, kind, id, xid, out, sockVars, faults, ghost>>
      /\ IF MayRetry THEN ReconnectFrom("send") /\ UNCHANGED <<result, lastError>>
         ELSE /\ Return("fail")
              /\ lastError' = (lastError \/ kind = "insert")
              /\ UNCHANGED back
  BY DEF SendFails
<1>2. Moved /\ pc' \notin Logins \cup {"send"}
  <2>1. CASE MayRetry
    <3>1. pc' = "rping" /\ back' = "send" /\ awaiting' = FALSE /\ result' = result /\ lastError' = lastError
      BY <1>1, <2>1 DEF ReconnectFrom
    <3>2. result' \in {"none", "ok", "fail"} /\ lastError' \in BOOLEAN /\ out' \in BOOLEAN
      BY <1>1, <3>1, Kept DEF IInv, TypeOK
    <3>. QED  BY <1>1, <3>1, <3>2 DEF Moved, Before, Logins
  <2>2. CASE ~MayRetry
    BY <1>1, <2>2, FailMoves DEF Logins
  <2>. QED  BY <2>1, <2>2
<1>3. UNCHANGED <<reqs, reps, link, srvError, timed, master>> /\ Drops
  BY <1>1 DEF sockVars, Drops
<1>4. Blame' /\ NoCrossTalk' /\ MasterBeforeWrite' /\ Elected' /\ ~Quiet'
  BY <1>1, <1>2, BlameKept DEF MasterBeforeWrite, Elected, Quiet, Logins
<1>. QED  BY <1>1, <1>2, <1>3, <1>4, Observed, SettleStep
-----------------------------------------------------------------------------
(* A connection nobody checked.                                            *)

LEMMA ReconnectedToNothingStep ==
    ASSUME IInv, ReconnectedToNothing
    PROVE  IInv'
<1>1. /\ pc = "rother" /\ ghost' = [ghost EXCEPT !.loose = TRUE] /\ ReauthenticateOrResume(rid)
      /\ UNCHANGED <<connVars, kind, xid, back, result, sockVars, faults>>
  BY DEF ReconnectedToNothing
<1>2. UNCHANGED <<rid, flags, lastError, reqs, reps, link, srvError, timed, master>> /\ Drops
  BY <1>1 DEF sockVars, connVars, Drops
<1>3. /\ ghost' \in GhostType /\ ghost'.loose = TRUE /\ ghost'.applied = ghost.applied
      /\ ghost'.blamed = ghost.blamed
  BY <1>1, Observed DEF GhostType
<1>4. Moved
  <2>1. /\ awaiting' = FALSE /\ id' \in {id, rid + 1} /\ pc' \in Before /\ out' \in BOOLEAN
    BY <1>1, ReauthenticateMoves, Kept DEF IInv
  <2>2. back' \in {"slaveok", "ensure", "send"} /\ result' \in {"none", "ok", "fail"} /\ lastError' \in BOOLEAN
    BY <1>1, <1>2, Kept DEF IInv, TypeOK
  <2>3. pc \in Before
    BY <1>1 DEF Before
  <2>. QED  BY <1>2, <2>1, <2>2, <2>3 DEF Moved
<1>5. NoCrossTalk' /\ MasterBeforeWrite' /\ Elected'
  BY <1>3 DEF NoCrossTalk, MasterBeforeWrite, Elected
<1>6. Blame'
  BY <1>1, <1>2, <1>3 DEF IInv, Blame
<1>. QED  BY <1>1, <1>2, <1>3, <1>4, <1>5, <1>6, Observed, SettleStep

-----------------------------------------------------------------------------
(* Replies.                                                                *)

\* The observations of a reply.
LEMMA Observes ==
    ASSUME IInv, NEW c \in BOOLEAN, NEW m \in BOOLEAN, NEW b \in BOOLEAN,
           ghost' = [ghost EXCEPT !.crossed = c, !.mastered = m, !.blamed = b]
    PROVE  /\ ghost' \in GhostType /\ ghost'.applied = ghost.applied /\ ghost'.loose = ghost.loose
           /\ ghost'.crossed = c /\ ghost'.mastered = m /\ ghost'.blamed = b
<1>1. ghost \in GhostType
  BY Observed
<1>2. ghost' \in GhostType
  BY <1>1 DEF GhostType
<1>. QED  BY <1>1, <1>2 DEF GhostType

LEMMA HeadFacts ==
    ASSUME IInv, reps # <<>>
    PROVE  /\ 1 \in DOMAIN reps /\ Head(reps) = reps[1] /\ Head(reps) \in Replies
           /\ Head(reps).to \in Int /\ Head(reps).good \in BOOLEAN /\ Head(reps).mine \in BOOLEAN
<1>1. reps \in Seq(Replies)
  BY DEF IInv, TypeOK
<1>2. 1 \in DOMAIN reps /\ Head(reps) = reps[1] /\ Head(reps) \in Replies
  BY <1>1
<1>. QED  BY <1>2 DEF Replies

\* A reply that is waited for is the exchange's own, and the last thing in flight.
LEMMA Awaited ==
    ASSUME IInv, awaiting, reps # <<>>, Head(reps).to = xid, ~ghost.loose
    PROVE  Head(reps).mine /\ reqs = <<>> /\ Tail(reps) = <<>>
<1>1. /\ 1 \in DOMAIN reps /\ Head(reps) = reps[1] /\ TypeOK /\ Sorted /\ Own
      /\ reps \in Seq(Replies) /\ reqs \in Seq(Requests) /\ rid \in Int
  BY HeadFacts DEF IInv, Ids, TypeOK
<1>2. Head(reps).mine /\ reps[1].to = rid
  BY <1>1 DEF Own
<1>3. /\ Len(reqs) \in Nat /\ DOMAIN reqs = 1..Len(reqs)
      /\ Len(reps) \in Nat /\ DOMAIN reps = 1..Len(reps)
      /\ \A k \in DOMAIN reqs : reqs[k].id \in Int
      /\ \A k \in DOMAIN reps : reps[k].to \in Int
  BY <1>1, Queues
<1>4. reqs = <<>>
  <2>. SUFFICES ASSUME reqs # <<>> PROVE FALSE
    OBVIOUS
  <2>1. 1 \in DOMAIN reqs
    BY <1>1, <1>3
  <2>2. reps[1].to < reqs[1].id /\ reqs[1].id <= rid
    BY <1>1, <2>1 DEF Sorted
  <2>. QED  BY <1>1, <1>2, <1>3, <2>1, <2>2
<1>5. Len(reps) = 1
  <2>. SUFFICES ASSUME Len(reps) # 1 PROVE FALSE
    OBVIOUS
  <2>1. 2 \in DOMAIN reps /\ 1 < 2
    BY <1>1, <1>3
  <2>2. reps[1].to < reps[2].to /\ reps[2].to <= rid
    BY <1>1, <2>1 DEF Sorted
  <2>. QED  BY <1>1, <1>2, <1>3, <2>1, <2>2
<1>6. Tail(reps) = <<>>
  <2>1. Tail(reps) \in Seq(Replies) /\ Len(Tail(reps)) = 0
    BY <1>1, <1>5, HeadTailProperties
  <2>. QED  BY <2>1, EmptySeq
<1>. QED  BY <1>2, <1>4, <1>6

\* The answer in a re-authentication is the last thing in flight as well.
LEMMA OnlyAnswer ==
    ASSUME IInv, pc \in Logins, awaiting, reps # <<>>, ~ghost.loose
    PROVE  reqs = <<>> /\ Tail(reps) = <<>> /\ ~timed
<1>1. /\ reqs \in Seq(Requests) /\ reps \in Seq(Replies)
      /\ ~timed /\ Len(reqs) + Len(reps) <= 1
  BY DEF IInv, TypeOK, Ids, Bare
<1>2. Len(reps) \in Nat /\ Len(reqs) \in Nat /\ Len(reps) >= 1
  <2>1. 1 \in DOMAIN reps /\ TypeOK
    BY HeadFacts DEF IInv
  <2>2. DOMAIN reps = 1..Len(reps) /\ Len(reps) \in Nat /\ Len(reqs) \in Nat
    BY <2>1, Queues
  <2>3. 1 \in 1..Len(reps)
    BY <2>1, <2>2
  <2>. QED  BY <2>2, <2>3
<1>3. Len(reqs) = 0 /\ Len(reps) = 1
  <2>1. Len(reqs) + Len(reps) <= 1
    BY <1>1
  <2>. DEFINE n == Len(reqs)
              m == Len(reps)
  <2>2. n \in Nat /\ m \in Nat /\ m >= 1 /\ n + m <= 1
    BY <1>2, <2>1
  <2>. HIDE DEF n, m
  <2>3. n = 0 /\ m = 1
    BY <2>2
  <2>. QED  BY <2>3 DEF n, m
<1>4. Tail(reps) \in Seq(Replies) /\ Len(Tail(reps)) = 0
  BY <1>1, <1>3, HeadTailProperties
<1>. QED  BY <1>1, <1>3, <1>4, EmptySeq

LEMMA ReplyReceivedStep ==
    ASSUME IInv, ReplyReceived
    PROVE  IInv'
<1>. DEFINE h == Head(reps)
            success == Accepts(h) /\ h.good
            c == ghost.crossed \/ (Accepts(h) /\ ~h.mine)
            b == ghost.blamed /\ ~(success /\ kind \in Reads)
<1>1. /\ pc = "recv" /\ reps # <<>> /\ reps' = Tail(reps)
      /\ Return(IF success THEN "ok" ELSE "fail")
      /\ \/ success /\ lastError' = (lastError /\ kind \notin Reads)
         \/ ~success /\ UNCHANGED lastError
         \/ ~success /\ h.to = xid /\ lastError' \in BOOLEAN
      /\ ghost' = [ghost EXCEPT !.crossed = @ \/ (Accepts(h) /\ ~h.mine),
                                !.blamed = @ /\ ~(success /\ kind \in Reads)]
      /\ UNCHANGED <<rid, flags, kind, id, xid, out, back, link, timed, reqs, master, srvError,
                     faults>>
  BY DEF ReplyReceived
<1>2. awaiting /\ h.mine \in BOOLEAN /\ h.good \in BOOLEAN
  BY <1>1, HeadFacts DEF IInv, Flow
<1>3. c \in BOOLEAN /\ b \in BOOLEAN /\ success \in BOOLEAN
  BY <1>2, Observed DEF Accepts
<1>4. ghost' = [ghost EXCEPT !.crossed = c, !.mastered = ghost.mastered, !.blamed = b]
  <2>1. ghost' = [ghost EXCEPT !.crossed = c, !.blamed = b]
    BY <1>1
  <2>. HIDE DEF c, b
  <2>. QED  BY <2>1, Observed DEF GhostType
<1>5. c => ghost.loose
  <2>1. ASSUME ~ghost.loose, Accepts(h) PROVE h.mine
    BY <1>1, <1>2, <2>1, Awaited DEF Accepts
  <2>. QED  BY <2>1 DEF IInv, NoCrossTalk
<1>6. pc' = "idle" /\ awaiting' = FALSE /\ result' = IF success THEN "ok" ELSE "fail"
  BY <1>1 DEF Return
<1>7. lastError' \in BOOLEAN /\ (lastError' => b \/ ~success)
  <2>1. lastError => ghost.blamed
    BY <1>1 DEF IInv, Blame
  <2>2. lastError \in BOOLEAN
    BY Kept DEF IInv
  <2>3. CASE success /\ lastError' = (lastError /\ kind \notin Reads)
    <3>1. (lastError /\ kind \notin Reads) \in BOOLEAN
      OBVIOUS
    <3>2. lastError' => lastError /\ kind \notin Reads
      BY <2>3
    <3>. QED  BY <2>1, <2>3, <3>1, <3>2
  <2>4. CASE ~success
    BY <1>1, <2>2, <2>4, Zenon
  <2>. QED  BY <1>1, <2>3, <2>4
<1>. HIDE DEF c, b, success
<1>8. /\ ghost' \in GhostType /\ ghost'.applied = ghost.applied /\ ghost'.loose = ghost.loose
      /\ ghost'.crossed = c /\ ghost'.mastered = ghost.mastered /\ ghost'.blamed = b
  BY <1>3, <1>4, Observed, Observes
<1>9. Moved
  <2>1. back' \in {"slaveok", "ensure", "send"} /\ out' \in BOOLEAN /\ result' \in {"none", "ok", "fail"}
    BY <1>1, <1>6, Kept DEF IInv, TypeOK
  <2>2. pc' \notin Before
    BY <1>6 DEF Before, Checks, Logins
  <2>3. lastError' => lastError \/ result' = "fail"
    BY <1>1, <1>6 DEF success
  <2>. QED  BY <1>1, <1>6, <1>7, <2>1, <2>2, <2>3 DEF Moved
<1>10. NoCrossTalk' /\ MasterBeforeWrite' /\ Blame' /\ Elected' /\ ~Quiet'
  BY <1>5, <1>6, <1>7, <1>8 DEF NoCrossTalk, MasterBeforeWrite, Blame, Elected, Quiet, Logins
<1>. QED  BY <1>1, <1>6, <1>8, <1>9, <1>10, Observed, SettleStep DEF Drops

LEMMA AnsweredStep ==
    ASSUME IInv, Answered
    PROVE  IInv'
<1>. DEFINE h == Head(reps)
            a == Says(h, pc)
            c == ghost.crossed \/ (Matches(h, pc) /\ ~h.mine)
            m == ghost.mastered \/ (pc \in Checks /\ a = "yes")
            b == ghost.blamed \/ (pc \in Logins /\ a = "no")
<1>1. /\ pc \in Exchanges /\ awaiting /\ reps # <<>> /\ reps' = Tail(reps)
      /\ AfterExchange(pc, a)
      /\ ghost' = [ghost EXCEPT !.crossed = @ \/ (Matches(h, pc) /\ ~h.mine),
                                !.mastered = @ \/ (pc \in Checks /\ a = "yes"),
                                !.blamed = @ \/ (pc \in Logins /\ a = "no")]
      /\ UNCHANGED <<rid, flags, kind, xid, link, timed, reqs, master, srvError, faults>>
  BY DEF Answered
<1>2. h.mine \in BOOLEAN /\ h.good \in BOOLEAN
  BY <1>1, HeadFacts
<1>3. c \in BOOLEAN /\ m \in BOOLEAN /\ b \in BOOLEAN
  <2>1. Matches(h, pc) \in BOOLEAN
    BY DEF Matches
  <2>. QED  BY <1>2, <2>1, Observed
<1>4. ghost' = [ghost EXCEPT !.crossed = c, !.mastered = m, !.blamed = b]
  BY <1>1
<1>5. ASSUME ~ghost.loose, Matches(h, pc) PROVE h.mine /\ reqs = <<>> /\ Tail(reps) = <<>>
  BY <1>1, <1>5, Awaited DEF Matches
<1>6. c => ghost.loose
  BY <1>5 DEF IInv, NoCrossTalk
<1>7. a \in {"yes", "no", "error", "EPROTO"} /\ (a = "yes" => Matches(h, pc))
  BY DEF Says
<1>8. /\ pc \in Checks /\ a = "yes" => m
      /\ ghost.mastered => m
      /\ ghost.blamed => b
      /\ pc \in Logins /\ a = "no" => b
  OBVIOUS
<1>. HIDE DEF a, c, m, b
<1>9. /\ Moved
      /\ Quiet' /\ pc \notin Logins =>
           pc' = "send" /\ a = "yes" /\ (ForceMaster(kind) => pc \in Checks)
      /\ pc \in Logins => /\ back' = back /\ (lastError' => lastError \/ a = "no")
                          /\ pc' = "send" => ForceReconnect \/ ~ForceMaster(kind)
  BY <1>1, <1>7, ExchangeMoves DEF IInv
<1>10. /\ ghost' \in GhostType /\ ghost'.applied = ghost.applied /\ ghost'.loose = ghost.loose
       /\ ghost'.crossed = c /\ ghost'.mastered = m /\ ghost'.blamed = b
  BY <1>3, <1>4, Observed, Observes
<1>11. NoCrossTalk'
  BY <1>6, <1>10 DEF NoCrossTalk
<1>12. MasterBeforeWrite' /\ Elected'
  <2>1. CASE pc \in Logins
    BY <1>1, <1>8, <1>9, <1>10, <2>1, ElectionKept
  <2>2. CASE pc \notin Logins
    <3>1. ForceMaster(kind)' <=> ForceMaster(kind)
      BY <1>1 DEF ForceMaster
    <3>. QED  BY <1>8, <1>9, <1>10, <2>2, <3>1 DEF MasterBeforeWrite, Elected, Quiet, Logins
  <2>. QED  BY <2>1, <2>2
<1>13. Blame'
  <2>1. pc # "idle"
    BY <1>1 DEF Exchanges, Checks, Logins
  <2>2. lastError => ghost.blamed
    BY <2>1 DEF IInv, Blame
  <2>. QED  BY <1>8, <1>9, <1>10, <2>2 DEF Moved, Blame
<1>14. Quiet' /\ ~ghost'.loose => reqs = <<>> /\ reps' = <<>> /\ (pc' \in Logins => ~timed')
  <2>. SUFFICES ASSUME Quiet', ~ghost.loose
                PROVE  reqs = <<>> /\ reps' = <<>> /\ (pc' \in Logins => ~timed')
    BY <1>10
  <2>1. CASE pc \in Logins
    BY <1>1, <2>1, OnlyAnswer
  <2>2. CASE pc \notin Logins
    BY <1>1, <1>5, <1>7, <1>9, <2>2 DEF Logins
  <2>. QED  BY <2>1, <2>2
<1>. QED  BY <1>1, <1>9, <1>10, <1>11, <1>12, <1>13, <1>14, Observed, SettleStep DEF Drops
-----------------------------------------------------------------------------
(* Links and sockets.                                                      *)

LEMMA LinkBreaksStep ==
    ASSUME IInv, LinkBreaks
    PROVE  IInv'
<1>1. /\ Fault /\ link' = FALSE /\ reqs' = <<>> /\ reps' = <<>>
      /\ UNCHANGED <<connVars, cmdVars, timed, master, srvError, ghost>>
  BY DEF LinkBreaks
<1>2. UNCHANGED <<rid, flags, lastError, kind, pc, awaiting, id, xid, out, back, result>>
  BY <1>1 DEF connVars, cmdVars
<1>3. TypeOK'
  <2>1. reqs' \in Seq(Requests) /\ reps' \in Seq(Replies)
    BY <1>1, EmptySeq
  <2>2. {lastError', awaiting', out', link', timed', master', srvError'} \subseteq BOOLEAN
    BY <1>1, <1>2, Kept DEF IInv
  <2>3. ghost'.applied \in 0..1 /\ faults' \in 0..MaxFaults
    BY <1>1, FaultCounts, Observed
  <2>. QED  BY <1>1, <1>2, <2>1, <2>2, <2>3 DEF IInv, TypeOK
<1>4. Flow' /\ Once' /\ GleOld' /\ Ack'
  BY <1>1, <1>2 DEF IInv, Flow, Once, GleOld, Ack
<1>5. Ids'
  <2>1. Len(reqs') = 0 /\ Len(reps') = 0
    BY <1>1, EmptySeq
  <2>2. Bare => Bare'
    BY <1>1, <1>2, <2>1 DEF Bare
  <2>. QED  BY <1>1, <1>2, <2>2 DEF IInv, Ids, Sorted, Own, Sendable
<1>6. NoCrossTalk' /\ MasterBeforeWrite' /\ Elected' /\ Blame' /\ ghost' \in GhostType
  BY <1>1, <1>2 DEF IInv, NoCrossTalk, MasterBeforeWrite, Elected, ForceReconnect, ForceMaster, Blame
<1>. QED  BY <1>3, <1>4, <1>5, <1>6 DEF IInv

LEMMA MasterChangesStep ==
    ASSUME IInv, MasterChanges
    PROVE  IInv'
<1>1. /\ Fault /\ master' = ~master
      /\ UNCHANGED <<connVars, cmdVars, link, timed, reqs, reps, srvError, ghost>>
  BY DEF MasterChanges
<1>2. UNCHANGED <<rid, flags, lastError, kind, pc, awaiting, id, xid, out, back, result>>
  BY <1>1 DEF connVars, cmdVars
<1>3. TypeOK'
  <2>1. {lastError', awaiting', out', link', timed', master', srvError'} \subseteq BOOLEAN
    BY <1>1, <1>2, Kept DEF IInv
  <2>2. faults' \in 0..MaxFaults
    BY <1>1, FaultCounts
  <2>. QED  BY <1>1, <1>2, <2>1, <2>2 DEF IInv, TypeOK
<1>4. Flow' /\ Once' /\ GleOld'
  BY <1>1, <1>2 DEF IInv, Flow, Once, IsOwnWrite, GleOld
<1>5. Ack'
  BY <1>1, <1>2 DEF IInv, Ack, Confirmed, IsOwnWrite
<1>6. Ids'
  BY <1>1, <1>2 DEF IInv, Ids, Sorted, Own, Sendable, Bare
<1>7. NoCrossTalk' /\ MasterBeforeWrite' /\ Elected' /\ Blame' /\ ghost' \in GhostType
  BY <1>1, <1>2 DEF IInv, NoCrossTalk, MasterBeforeWrite, Elected, ForceReconnect, ForceMaster, Blame
<1>. QED  BY <1>3, <1>4, <1>5, <1>6, <1>7 DEF IInv

LEMMA ReconnectedStep ==
    ASSUME IInv, NEW checked \in BOOLEAN, Reconnected(checked)
    PROVE  IInv'
<1>. DEFINE m == checked /\ ForceReconnect
            l == ghost.loose \/ ~checked
<1>1. /\ pc = "rother" /\ NewSocket /\ master' \in BOOLEAN /\ lastError' = FALSE
      /\ ghost' = [ghost EXCEPT !.mastered = checked /\ ForceReconnect,
                                !.loose = @ \/ ~checked, !.blamed = FALSE]
      /\ UNCHANGED <<flags, kind, xid, back, result, faults>>
  BY DEF Reconnected
<1>2. rid' = -1 /\ ReauthenticateOrResume(-1)
  BY DEF Reconnected
<1>3. link' = TRUE /\ timed' = FALSE /\ reqs' = <<>> /\ reps' = <<>> /\ srvError' = FALSE
  BY <1>1 DEF NewSocket
<1>4. m \in BOOLEAN /\ l \in BOOLEAN
  OBVIOUS
<1>5. ghost' = [ghost EXCEPT !.mastered = m, !.loose = l, !.blamed = FALSE]
  BY <1>1
<1>6. /\ ghost' \in GhostType /\ ghost'.applied = ghost.applied /\ ghost'.crossed = ghost.crossed
      /\ (ghost'.mastered <=> m) /\ (ghost'.loose <=> l)
  <2>. HIDE DEF m, l
  <2>1. ghost' \in GhostType
    BY <1>4, <1>5, Observed DEF GhostType
  <2>2. ghost'.applied = ghost.applied /\ ghost'.crossed = ghost.crossed /\ ghost'.mastered = m
        /\ ghost'.loose = l
    BY <1>4, <1>5, Observed DEF GhostType
  <2>. QED  BY <2>1, <2>2
<1>7. /\ awaiting' = FALSE /\ id' \in {id, -1 + 1} /\ pc' \in Before /\ out' \in BOOLEAN
      /\ pc' = "send" => back \in {"ensure", "send"} \/ ~ForceMaster(kind)
  <2>1. -1 \in Int /\ TypeOK
    BY DEF IInv
  <2>. QED  BY <1>2, <2>1, ReauthenticateMoves
<1>8. pc' # "idle" /\ pc' # "gle" /\ pc' # "recv" /\ pc' \in Exchanges \cup {"send", "rother"}
  BY <1>7 DEF Before, Exchanges, Checks, Logins
<1>9. ghost.applied = 0
  BY <1>1 DEF IInv, Once, Before
<1>10. TypeOK'
  <2>1. reqs' \in Seq(Requests) /\ reps' \in Seq(Replies)
    BY <1>3, EmptySeq
  <2>2. {lastError', awaiting', out', link', timed', master', srvError'} \subseteq BOOLEAN
    BY <1>1, <1>3, <1>7
  <2>3. ghost'.applied \in 0..1
    BY <1>6, <1>9
  <2>4. rid' \in Int /\ id' \in Int
    BY <1>2, <1>7, Kept DEF IInv
  <2>. QED  BY <1>1, <1>8, <2>1, <2>2, <2>3, <2>4 DEF IInv, TypeOK
<1>11. Flow' /\ Once' /\ GleOld' /\ Ack' /\ Ids'
  <2>1. Len(reqs') = 0 /\ Len(reps') = 0
    BY <1>3, EmptySeq
  <2>2. Bare'
    BY <1>3, <1>7, <2>1 DEF Bare
  <2>. QED  BY <1>3, <1>6, <1>7, <1>8, <1>9, <1>10, <2>2
            DEF Flow, Once, GleOld, Ack, Ids, Sorted, Own, Sendable
<1>12. NoCrossTalk'
  BY <1>6 DEF IInv, NoCrossTalk
<1>13. MasterBeforeWrite' /\ Elected'
  <2>1. (ForceMaster(kind)' <=> ForceMaster(kind)) /\ (ForceReconnect' <=> ForceReconnect)
    BY <1>1 DEF ForceMaster, ForceReconnect
  <2>2. ~checked => ghost'.loose
    BY <1>6
  <2>3. pc' = "send" /\ ForceMaster(kind) => ForceReconnect
    BY <1>7 DEF ForceReconnect
  <2>. QED  BY <1>6, <2>1, <2>2, <2>3 DEF MasterBeforeWrite, Elected
<1>14. Blame'
  BY <1>1 DEF Blame
<1>. QED  BY <1>6, <1>10, <1>11, <1>12, <1>13, <1>14 DEF IInv

LEMMA LoginReconnectsStep ==
    ASSUME IInv, LoginReconnects
    PROVE  IInv'
<1>. DEFINE e == [id |-> rid + 1, kind |-> "custom", mine |-> TRUE]
<1>1. /\ pc \in Logins /\ rid' = rid + 1 /\ xid' = rid + 1 /\ awaiting' = TRUE
      /\ link' = TRUE /\ timed' = FALSE /\ srvError' = FALSE /\ reps' = <<>> /\ reqs' = <<e>>
      /\ master' \in BOOLEAN /\ lastError' \in BOOLEAN
      /\ ghost' = [ghost EXCEPT !.mastered = FALSE, !.loose = TRUE, !.blamed = lastError']
      /\ UNCHANGED <<flags, kind, pc, id, out, back, result, faults>>
  BY DEF LoginReconnects, NextId
<1>2. /\ ghost' \in GhostType /\ ghost'.applied = ghost.applied /\ ghost'.loose
      /\ ghost'.blamed = lastError'
  BY <1>1, Observed DEF GhostType
<1>3. e \in Requests /\ e.kind = "custom" /\ e.id = rid + 1 /\ rid \in Int
  BY Kept DEF IInv, Requests, Kinds
<1>. HIDE DEF e
<1>4. reqs' \in Seq(Requests) /\ reps' \in Seq(Replies) /\ DOMAIN reps' = {}
      /\ DOMAIN reqs' = {1} /\ reqs'[1] = e
  BY <1>1, <1>3, EmptySeq
<1>5. pc \in Before /\ pc \in Exchanges /\ pc # "gle" /\ pc # "recv" /\ pc # "send"
  BY <1>1 DEF Before, Exchanges, Checks, Logins
<1>6. TypeOK'
  <2>1. {lastError', awaiting', out', link', timed', master', srvError'} \subseteq BOOLEAN
    BY <1>1, Kept DEF IInv
  <2>2. ghost'.applied \in 0..1
    BY <1>2 DEF GhostType
  <2>. QED  BY <1>1, <1>3, <1>4, <2>1, <2>2 DEF IInv, TypeOK
<1>7. Flow' /\ Ack' /\ Ids'
  BY <1>1, <1>2, <1>5 DEF Flow, Ack, Ids
<1>8. Once'
  <2>1. ghost.applied = 0
    BY <1>5 DEF IInv, Once
  <2>2. \A k \in DOMAIN reqs' : ~IsOwnWrite(k)'
    BY <1>3, <1>4 DEF IsOwnWrite, Writes
  <2>. QED  BY <1>2, <2>1, <2>2 DEF Once
<1>9. GleOld'
  BY <1>3, <1>4 DEF GleOld
<1>10. NoCrossTalk' /\ MasterBeforeWrite' /\ Elected' /\ Blame'
  BY <1>2 DEF NoCrossTalk, MasterBeforeWrite, Elected, Blame
<1>. QED  BY <1>2, <1>6, <1>7, <1>8, <1>9, <1>10 DEF IInv
-----------------------------------------------------------------------------
(* What goes into the queues.                                              *)

LEMMA BeginStep ==
    ASSUME IInv, NEW k \in Commands, Begin(k)
    PROVE  IInv'
<1>. DEFINE b == k # "reset" /\ (ghost.blamed \/ result = "fail")
<1>1. /\ pc = "idle" /\ kind' = k /\ result' = "none" /\ out' = FALSE /\ awaiting' = FALSE
      /\ id' = rid + 1 /\ lastError' = (lastError /\ k # "reset")
      /\ pc' = IF VerifySlaveok(k) THEN "slaveok" ELSE IF ForceMaster(k) THEN "ensure" ELSE "send"
      /\ reqs' = Stale(reqs) /\ reps' = Stale(reps)
      /\ UNCHANGED <<rid, flags, xid, back, link, timed, master, srvError, faults>>
  BY DEF Begin, NextId, ErrorBefore
<1>2. ghost' = [ghost EXCEPT !.applied = 0, !.mastered = FALSE, !.blamed = b]
  BY DEF Begin
<1>3. b \in BOOLEAN
  OBVIOUS
<1>4. /\ ghost' \in GhostType /\ ghost'.applied = 0 /\ ghost'.loose = ghost.loose
      /\ ghost'.crossed = ghost.crossed /\ (ghost'.blamed <=> b)
  <2>. HIDE DEF b
  <2>0. ghost \in GhostType /\ 0 \in 0..1
    BY DEF IInv
  <2>1. ghost' \in GhostType
    BY <1>2, <1>3, <2>0 DEF GhostType
  <2>2. /\ ghost'.applied = 0 /\ ghost'.loose = ghost.loose
        /\ ghost'.crossed = ghost.crossed /\ ghost'.blamed = b
    BY <1>2, Observed DEF GhostType
  <2>. QED  BY <2>1, <2>2
<1>5. /\ TypeOK /\ rid \in Int /\ DOMAIN reqs = 1..Len(reqs) /\ DOMAIN reps = 1..Len(reps)
      /\ reqs \in Seq(Requests) /\ reps \in Seq(Replies)
      /\ \A j \in DOMAIN reqs : reqs[j].id \in Int
      /\ \A j \in DOMAIN reps : reps[j].to \in Int
  BY Queues, Kept DEF IInv, TypeOK
<1>6. /\ reqs' \in Seq(Requests) /\ Len(reqs') = Len(reqs) /\ DOMAIN reqs' = 1..Len(reqs)
      /\ \A j \in DOMAIN reqs : /\ reqs'[j].id = reqs[j].id /\ reqs'[j].kind = reqs[j].kind
                                /\ ~reqs'[j].mine
  BY <1>1, <1>5, StaleRequests, LenProperties
<1>7. /\ reps' \in Seq(Replies) /\ Len(reps') = Len(reps) /\ DOMAIN reps' = 1..Len(reps)
      /\ \A j \in DOMAIN reps : reps'[j].to = reps[j].to /\ reps'[j].kind = reps[j].kind
  BY <1>1, <1>5, StaleReplies, LenProperties
<1>8. pc' \in {"slaveok", "ensure", "send"}
  BY <1>1
<1>9. TypeOK'
  <2>1. kind' \in Kinds
    BY <1>1, SyncCommandAssumption
  <2>2. {lastError', awaiting', out', link', timed', master', srvError'} \subseteq BOOLEAN
    BY <1>1, <1>5, Kept
  <2>3. faults' \in 0..MaxFaults /\ flags' \in FlagSettings
    BY <1>1, Observed
  <2>4. pc' \in Exchanges \cup {"idle", "send", "recv", "rother"}
    BY <1>8 DEF Exchanges, Checks, Logins
  <2>. QED  BY <1>1, <1>4, <1>5, <1>6, <1>7, <2>1, <2>2, <2>3, <2>4 DEF TypeOK
<1>10. Flow'
  <2>1. reqs = <<>> => reqs' = <<>>
    BY <1>5, <1>6, EmptySeq
  <2>2. reps = <<>> => reps' = <<>>
    BY <1>5, <1>7, EmptySeq
  <2>. QED  BY <1>1, <1>8, <2>1, <2>2 DEF IInv, Flow
<1>11. Once'
  BY <1>4, <1>5, <1>6 DEF Once, IsOwnWrite
<1>12. GleOld'
  <2>1. \A j \in DOMAIN reqs : reqs[j].kind = "gle" => reqs[j].id <= rid /\ reqs[j].id < rid + 1
    BY <1>5 DEF IInv, GleOld
  <2>2. \A j \in DOMAIN reps : reps[j].kind = "gle" => reps[j].to <= rid /\ reps[j].to < rid + 1
    BY <1>5 DEF IInv, GleOld
  <2>. QED  BY <1>1, <1>5, <1>6, <1>7, <2>1, <2>2 DEF GleOld
<1>13. Ack'
  BY <1>8 DEF Ack
<1>14. Ids'
  <2>. SUFFICES ASSUME ~ghost.loose PROVE Sorted' /\ Own' /\ Sendable' /\ Bare'
    BY <1>4 DEF Ids
  <2>1. Sorted
    BY DEF IInv, Ids
  <2>2. \A j \in DOMAIN reps' : reps'[j].to <= rid'
    BY <1>1, <1>5, <1>7, <2>1 DEF Sorted
  <2>3. \A j \in DOMAIN reqs' : reqs'[j].id <= rid'
    BY <1>1, <1>5, <1>6, <2>1 DEF Sorted
  <2>4. \A i, j \in DOMAIN reps' : i < j => reps'[i].to < reps'[j].to
    BY <1>5, <1>7, <2>1 DEF Sorted
  <2>5. \A i, j \in DOMAIN reqs' : i < j => reqs'[i].id < reqs'[j].id
    BY <1>5, <1>6, <2>1 DEF Sorted
  <2>6. \A i \in DOMAIN reps', j \in DOMAIN reqs' : reps'[i].to < reqs'[j].id
    BY <1>5, <1>6, <1>7, <2>1 DEF Sorted
  <2>7. Sorted'
    BY <2>2, <2>3, <2>4, <2>5, <2>6 DEF Sorted
  <2>. QED  BY <1>1, <1>8, <2>7 DEF Own, Sendable, Bare, Logins
<1>15. NoCrossTalk'
  BY <1>4 DEF IInv, NoCrossTalk
<1>16. MasterBeforeWrite' /\ Elected'
  BY <1>1, <1>8 DEF MasterBeforeWrite, Elected, ForceMaster, Logins
<1>17. Blame'
  <2>1. lastError => ghost.blamed \/ result = "fail"
    BY DEF IInv, Blame
  <2>. QED  BY <1>1, <1>4, <2>1 DEF Blame
<1>. QED  BY <1>4, <1>9, <1>10, <1>11, <1>12, <1>13, <1>14, <1>15, <1>16, <1>17 DEF IInv

\* A request goes out behind those in flight.
Pushes(e) == reqs' = Append(Superseded(reqs), e) /\ reps' = Stale(reps)

LEMMA Pushed ==
    ASSUME TypeOK, NEW e \in Requests, Pushes(e)
    PROVE  /\ reqs' \in Seq(Requests) /\ Len(reqs') = Len(reqs) + 1
           /\ DOMAIN reqs' = 1..(Len(reqs) + 1) /\ reqs'[Len(reqs) + 1] = e
           /\ \A k \in 1..Len(reqs) :
                /\ reqs'[k].id = reqs[k].id /\ reqs'[k].kind = reqs[k].kind
                /\ reqs'[k].mine <=> (reqs[k].mine /\ reqs[k].kind \in Writes)
           /\ reps' \in Seq(Replies) /\ DOMAIN reps' = 1..Len(reps) /\ DOMAIN reps = 1..Len(reps)
           /\ \A k \in 1..Len(reps) : /\ reps'[k].to = reps[k].to /\ reps'[k].kind = reps[k].kind
                                      /\ reps'[k].good = reps[k].good
<1>1. reqs \in Seq(Requests) /\ reps \in Seq(Replies)
  BY DEF TypeOK
<1>2. /\ Superseded(reqs) \in Seq(Requests) /\ Len(Superseded(reqs)) = Len(reqs)
      /\ \A k \in 1..Len(reqs) :
           /\ Superseded(reqs)[k].id = reqs[k].id /\ Superseded(reqs)[k].kind = reqs[k].kind
           /\ Superseded(reqs)[k].mine <=> (reqs[k].mine /\ reqs[k].kind \in Writes)
  BY <1>1, SupersededFacts
<1>3. /\ reqs' \in Seq(Requests) /\ Len(reqs') = Len(reqs) + 1
      /\ \A k \in 1..Len(reqs) : reqs'[k] = Superseded(reqs)[k]
      /\ reqs'[Len(reqs) + 1] = e
  BY <1>2, Appended DEF Pushes
<1>4. DOMAIN reqs' = 1..(Len(reqs) + 1)
  BY <1>3, LenProperties
<1>5. /\ reps' \in Seq(Replies) /\ Len(reps') = Len(reps)
      /\ \A k \in 1..Len(reps) : /\ reps'[k].to = reps[k].to /\ reps'[k].kind = reps[k].kind
                                 /\ reps'[k].good = reps[k].good
  BY <1>1, StaleReplies DEF Pushes
<1>6. DOMAIN reps' = 1..Len(reps) /\ DOMAIN reps = 1..Len(reps)
  BY <1>1, <1>5, LenProperties
<1>. QED  BY <1>2, <1>3, <1>4, <1>5, <1>6

LEMMA PushedIds ==
    ASSUME TypeOK, Sorted, NEW e \in Requests, Pushes(e), e.mine,
           e.id = rid + 1 \/ (reqs = <<>> /\ reps = <<>>), rid' = e.id, xid' = e.id
    PROVE  Sorted' /\ Own'
<1>. DEFINE n == Len(reqs)
            m == Len(reps)
<1>1. /\ DOMAIN reqs' = 1..(n + 1) /\ reqs'[n + 1] = e
      /\ \A k \in 1..n : reqs'[k].id = reqs[k].id
      /\ DOMAIN reps' = 1..m
      /\ \A k \in 1..m : reps'[k].to = reps[k].to
  BY Pushed
<1>2. /\ n \in Nat /\ DOMAIN reqs = 1..n /\ m \in Nat /\ DOMAIN reps = 1..m /\ rid \in Int
      /\ \A k \in 1..n : reqs[k].id \in Int
      /\ \A k \in 1..m : reps[k].to \in Int
  BY Queues, Kept
<1>3. e.id \in Int
  BY DEF Requests
<1>4. (\A k \in 1..n : reqs[k].id < e.id) /\ (\A k \in 1..m : reps[k].to < e.id)
  <2>1. CASE e.id = rid + 1
    <3>1. (\A k \in 1..n : reqs[k].id <= rid) /\ (\A k \in 1..m : reps[k].to <= rid)
      BY <1>2 DEF Sorted
    <3>. QED  BY <1>2, <2>1, <3>1
  <2>2. CASE reqs = <<>> /\ reps = <<>>
    <3>1. n = 0 /\ m = 0
      BY <2>2, EmptySeq
    <3>. QED  BY <3>1
  <2>. QED  BY <2>1, <2>2
<1>5. \A k \in 1..(n + 1) : k \in 1..n \/ k = n + 1
  BY <1>2
<1>6. /\ \A k \in DOMAIN reps' : reps'[k].to <= rid'
      /\ \A k \in DOMAIN reqs' : reqs'[k].id <= rid'
  <2>1. \A k \in 1..m : reps'[k].to <= rid'
    BY <1>1, <1>2, <1>3, <1>4
  <2>2. \A k \in 1..n : reqs'[k].id <= rid'
    BY <1>1, <1>2, <1>3, <1>4
  <2>3. reqs'[n + 1].id <= rid'
    BY <1>1, <1>3
  <2>. QED  BY <1>1, <1>5, <2>1, <2>2, <2>3
<1>7. \A j, k \in DOMAIN reps' : j < k => reps'[j].to < reps'[k].to
  BY <1>1, <1>2 DEF Sorted
<1>8. \A j, k \in DOMAIN reqs' : j < k => reqs'[j].id < reqs'[k].id
  <2>. SUFFICES ASSUME NEW j \in 1..(n + 1), NEW k \in 1..(n + 1), j < k
                PROVE  reqs'[j].id < reqs'[k].id
    BY <1>1
  <2>1. j \in 1..n
    BY <1>2
  <2>2. CASE k \in 1..n
    BY <1>1, <1>2, <2>1, <2>2 DEF Sorted
  <2>3. CASE k = n + 1
    BY <1>1, <1>4, <2>1, <2>3
  <2>. QED  BY <1>5, <2>2, <2>3
<1>9. \A j \in DOMAIN reps', k \in DOMAIN reqs' : reps'[j].to < reqs'[k].id
  <2>. SUFFICES ASSUME NEW j \in 1..m, NEW k \in 1..(n + 1)
                PROVE  reps'[j].to < reqs'[k].id
    BY <1>1
  <2>2. CASE k \in 1..n
    BY <1>1, <1>2, <2>2 DEF Sorted
  <2>3. CASE k = n + 1
    BY <1>1, <1>4, <2>3
  <2>. QED  BY <1>5, <2>2, <2>3
<1>10. /\ \A k \in DOMAIN reps' : reps'[k].to # xid'
       /\ \A k \in DOMAIN reqs' : reqs'[k].id = xid' => reqs'[k].mine
  BY <1>1, <1>2, <1>3, <1>4, <1>5
<1>11. Sorted'
  BY <1>6, <1>7, <1>8, <1>9 DEF Sorted
<1>12. Own'
  BY <1>10 DEF Own
<1>. QED  BY <1>11, <1>12
LEMMA ExchangeSentStep ==
    ASSUME IInv, ExchangeSent
    PROVE  IInv'
<1>. DEFINE e == [id |-> rid + 1, kind |-> RequestOf(pc), mine |-> TRUE]
            n == Len(reqs)
            m == Len(reps)
<1>1. /\ pc \in Exchanges /\ ~awaiting /\ link /\ rid' = rid + 1 /\ xid' = rid + 1 /\ awaiting' = TRUE
      /\ UNCHANGED <<flags, lastError, kind, pc, id, out, back, result, link, timed, master,
                     srvError, faults, ghost>>
  BY DEF ExchangeSent, NextId
<1>2. Pushes(e)
  BY DEF ExchangeSent, NextId, Pushes
<1>3. /\ e.id = rid + 1 /\ e.mine /\ e.kind \in {"ismaster", "gle", "ping", "custom"}
      /\ (e.kind = "gle" <=> pc = "gle")
  BY <1>1 DEF RequestOf, Exchanges, Checks, Logins
<1>4. e \in Requests
  BY <1>3, Kept DEF IInv, Requests, Kinds
<1>5. e.kind \notin Writes
  BY <1>3 DEF Writes
<1>. HIDE DEF e
<1>6. /\ reqs' \in Seq(Requests) /\ Len(reqs') = n + 1
      /\ DOMAIN reqs' = 1..(n + 1) /\ reqs'[n + 1] = e
      /\ \A k \in 1..n : /\ reqs'[k].id = reqs[k].id /\ reqs'[k].kind = reqs[k].kind
                         /\ reqs'[k].mine <=> (reqs[k].mine /\ reqs[k].kind \in Writes)
      /\ reps' \in Seq(Replies) /\ DOMAIN reps' = 1..m /\ DOMAIN reps = 1..m
      /\ \A k \in 1..m : /\ reps'[k].to = reps[k].to /\ reps'[k].kind = reps[k].kind
                         /\ reps'[k].good = reps[k].good
  BY <1>2, <1>4, Pushed DEF IInv
<1>7. /\ TypeOK /\ n \in Nat /\ DOMAIN reqs = 1..n /\ m \in Nat /\ rid \in Int /\ id \in Int
      /\ \A k \in 1..n : reqs[k].id \in Int
      /\ \A k \in 1..m : reps[k].to \in Int
      /\ \A k \in 1..(n + 1) : k \in 1..n \/ k = n + 1
  BY Queues, Kept DEF IInv
<1>8. \A k \in 1..(n + 1) : IsOwnWrite(k)' => k \in 1..n /\ IsOwnWrite(k)
  BY <1>5, <1>6, <1>7 DEF IsOwnWrite
<1>9. \A k \in 1..n : IsOwnWrite(k) => IsOwnWrite(k)'
  BY <1>6 DEF IsOwnWrite
<1>10. TypeOK'
  BY <1>1, <1>6, <1>7 DEF TypeOK
<1>11. Flow'
  <2>1. pc # "recv"
    BY <1>1 DEF Exchanges, Checks, Logins
  <2>. QED  BY <1>1, <2>1 DEF Flow
<1>12. Once'
  <2>1. Once
    BY DEF IInv
  <2>. QED  BY <1>1, <1>6, <1>7, <1>8, <2>1 DEF Once
<1>13. GleOld'
  <2>1. \A k \in 1..n : reqs[k].kind = "gle" => reqs[k].id <= rid /\ (pc \in Before => reqs[k].id < id)
    BY <1>7 DEF IInv, GleOld
  <2>2. \A k \in 1..m : reps[k].kind = "gle" => reps[k].to <= rid /\ (pc \in Before => reps[k].to < id)
    BY <1>6 DEF IInv, GleOld
  <2>3. \A k \in 1..n : reqs'[k].kind = "gle" => reqs'[k].id <= rid' /\ (pc' \in Before => reqs'[k].id < id')
    BY <1>1, <1>6, <1>7, <2>1
  <2>4. \A k \in 1..m : reps'[k].kind = "gle" => reps'[k].to <= rid' /\ (pc' \in Before => reps'[k].to < id')
    BY <1>1, <1>6, <1>7, <2>2
  <2>5. e.kind = "gle" => pc' \notin Before
    BY <1>1, <1>3 DEF Before, Checks, Logins
  <2>6. e.id <= rid'
    BY <1>1, <1>3, <1>7
  <2>. QED  BY <1>6, <1>7, <2>3, <2>4, <2>5, <2>6 DEF GleOld
<1>14. Ack'
  <2>. SUFFICES ASSUME pc = "gle"
                PROVE  /\ \A k \in 1..(n + 1) : reqs'[k].kind = "gle" /\ reqs'[k].id = xid' =>
                            /\ k = n + 1
                            /\ IF k = 1 THEN Confirmed' ELSE IsOwnWrite(k - 1)'
                       /\ \A k \in 1..m :
                            reps'[k].kind = "gle" /\ reps'[k].to = xid' /\ reps'[k].good
                              => ghost'.applied = 1
    BY <1>1, <1>6 DEF Ack
  <2>1. IF reqs = <<>> THEN Confirmed ELSE IsOwnWrite(n)
    BY <1>1 DEF IInv, Ack
  <2>2. \A k \in 1..m : ~(reps'[k].kind = "gle" /\ reps'[k].to = xid')
    BY <1>1, <1>6, <1>7 DEF IInv, GleOld
  <2>3. \A k \in 1..n : ~(reqs'[k].kind = "gle" /\ reqs'[k].id = xid')
    BY <1>1, <1>6, <1>7 DEF IInv, GleOld
  <2>4. ASSUME NEW k \in 1..(n + 1), k = n + 1
        PROVE  IF k = 1 THEN Confirmed' ELSE IsOwnWrite(k - 1)'
    <3>1. CASE reqs = <<>>
      <4>1. k = 1
        BY <2>4, <3>1, EmptySeq
      <4>. QED  BY <1>1, <2>1, <3>1, <4>1 DEF Confirmed
    <3>2. CASE reqs # <<>>
      <4>1. n # 0
        BY <1>7, <3>2, EmptySeq DEF TypeOK
      <4>2. k - 1 \in 1..n /\ k - 1 = n /\ k # 1
        BY <1>7, <2>4, <4>1
      <4>3. IsOwnWrite(k - 1)
        BY <2>1, <3>2, <4>2
      <4>. QED  BY <1>9, <4>2, <4>3
    <3>. QED  BY <3>1, <3>2
  <2>. QED  BY <1>7, <2>2, <2>3, <2>4
<1>15. Ids'
  <2>1. pc # "send"
    BY <1>1 DEF Exchanges, Checks, Logins
  <2>. SUFFICES ASSUME ~ghost.loose PROVE Sorted' /\ Own' /\ Bare'
    BY <1>1, <2>1 DEF Ids, Sendable
  <2>2. Sorted /\ Bare
    BY DEF IInv, Ids
  <2>3. Len(reqs') = n + 1 /\ Len(reps') = m
    BY <1>6, <1>7, LenProperties
  <2>4. Bare'
    <3>. SUFFICES ASSUME pc \in Logins PROVE ~timed' /\ Len(reqs') + Len(reps') <= 1
      BY <1>1 DEF Bare
    <3>1. ~timed /\ n + m <= 0
      BY <1>1, <2>2 DEF Bare
    <3>. QED  BY <1>1, <1>7, <2>3, <3>1
  <2>. QED  BY <1>1, <1>2, <1>3, <1>4, <1>7, <2>2, <2>4, PushedIds
<1>16. NoCrossTalk' /\ MasterBeforeWrite' /\ Elected' /\ Blame' /\ ghost' \in GhostType
  <2>1. Elected'
    BY <1>1 DEF IInv, Elected, ForceReconnect, ForceMaster
  <2>. QED  BY <1>1, <2>1 DEF IInv, NoCrossTalk, MasterBeforeWrite, ForceMaster, Blame, Exchanges,
                              Checks, Logins
<1>. QED  BY <1>10, <1>11, <1>12, <1>13, <1>14, <1>15, <1>16 DEF IInv

LEMMA PacketSentStep ==
    ASSUME IInv, PacketSent
    PROVE  IInv'
<1>. DEFINE e == [id |-> id, kind |-> kind, mine |-> TRUE]
            n == Len(reqs)
            m == Len(reps)
<1>1. /\ pc = "send" /\ rid' = id /\ xid' = id /\ AfterSend
      /\ UNCHANGED <<flags, lastError, kind, id, out, back, link, timed, master, srvError,
                     faults, ghost>>
  BY DEF PacketSent
<1>2. /\ TypeOK /\ kind \in Kinds /\ id \in Int /\ rid \in Int /\ result \in {"none", "ok", "fail"}
      /\ flags \in FlagSettings /\ reqs \in Seq(Requests) /\ reps \in Seq(Replies)
      /\ n \in Nat /\ DOMAIN reqs = 1..n /\ m \in Nat /\ DOMAIN reps = 1..m
      /\ \A k \in 1..n : reqs[k].id \in Int
      /\ \A k \in 1..m : reps[k].to \in Int
      /\ \A k \in 1..(n + 1) : k \in 1..n \/ k = n + 1
  BY Queues DEF IInv, TypeOK
<1>3. /\ pc' \in {"recv", "gle", "idle"} /\ awaiting' \in BOOLEAN
      /\ result' \in {"none", "ok", "fail"}
      /\ awaiting' => pc' = "recv"
      /\ pc' = "recv" => awaiting' /\ HasReply(kind)
      /\ pc' = "gle" => kind \in Verified
  BY <1>1, <1>2 DEF AfterSend, Return
<1>4. pc \in Before /\ pc' \notin Before
  BY <1>1, <1>3 DEF Before, Checks, Logins
<1>5. /\ ghost.applied = 0 /\ \A k \in 1..n : ~IsOwnWrite(k)
      /\ \A k \in 1..n : reqs[k].kind = "gle" => reqs[k].id < id
      /\ \A k \in 1..m : reps[k].kind = "gle" => reps[k].to < id
  BY <1>2, <1>4 DEF IInv, Once, GleOld
<1>6. /\ NoCrossTalk' /\ MasterBeforeWrite' /\ Elected' /\ Blame' /\ ghost' \in GhostType
      /\ pc' \notin Logins
  BY <1>1, <1>3 DEF IInv, NoCrossTalk, MasterBeforeWrite, Elected, Logins, Blame
<1>7. /\ reqs' \in Seq(Requests) /\ reps' \in Seq(Replies)
      /\ (~link => reqs' = <<>> /\ reps' = <<>>)
      /\ Once' /\ GleOld' /\ Ack' /\ Ids'
  <2>1. CASE link
    <3>1. Pushes(e)
      BY <2>1 DEF PacketSent, Pushes
    <3>2. /\ e \in Requests /\ e.id = id /\ e.mine /\ e.kind = kind
      BY <1>2 DEF Requests
    <3>3. e.kind # "gle"
      BY <1>2, <3>2 DEF Kinds, Writes, Reads
    <3>. HIDE DEF e
    <3>4. /\ reqs' \in Seq(Requests) /\ Len(reqs') = n + 1
          /\ DOMAIN reqs' = 1..(n + 1) /\ reqs'[n + 1] = e
          /\ \A k \in 1..n : /\ reqs'[k].id = reqs[k].id /\ reqs'[k].kind = reqs[k].kind
                             /\ reqs'[k].mine <=> (reqs[k].mine /\ reqs[k].kind \in Writes)
          /\ reps' \in Seq(Replies) /\ DOMAIN reps' = 1..m
          /\ \A k \in 1..m : reps'[k].to = reps[k].to /\ reps'[k].kind = reps[k].kind
      BY <1>2, <3>1, <3>2, Pushed
    <3>5. \A k \in 1..(n + 1) : IsOwnWrite(k)' => k = n + 1
      BY <1>2, <1>5, <3>4 DEF IsOwnWrite
    <3>6. Once'
      BY <1>1, <1>4, <1>5, <3>4, <3>5 DEF Once
    <3>7. GleOld'
      <4>0. \A x \in Int : x < id => x <= rid'
        BY <1>1, <1>2
      <4>1. \A k \in 1..n : reqs'[k].kind = "gle" => reqs'[k].id <= rid'
        BY <1>2, <1>5, <3>4, <4>0
      <4>2. \A k \in 1..m : reps'[k].kind = "gle" => reps'[k].to <= rid'
        BY <1>2, <1>5, <3>4, <4>0
      <4>. QED  BY <1>2, <1>4, <3>3, <3>4, <4>1, <4>2 DEF GleOld
    <3>8. Ack'
      <4>. SUFFICES ASSUME pc' = "gle" PROVE reqs' # <<>> /\ IsOwnWrite(Len(reqs))'
        BY <1>3 DEF Ack
      <4>1. kind \in Writes
        BY <1>3 DEF Verified, Writes
      <4>2. Len(reqs') = n + 1 /\ n + 1 # 0
        BY <1>2, <3>4
      <4>3. reqs' # <<>>
        BY <3>4, <4>2, EmptySeq
      <4>4. IsOwnWrite(Len(reqs))'
        BY <3>2, <3>4, <4>1 DEF IsOwnWrite
      <4>. QED  BY <4>3, <4>4
    <3>9. Ids'
      <4>. SUFFICES ASSUME ~ghost.loose PROVE Sorted' /\ Own'
        BY <1>1, <1>3, <1>6 DEF Ids, Sendable, Bare
      <4>1. Sorted /\ (id = rid + 1 \/ (reqs = <<>> /\ reps = <<>>))
        BY <1>1 DEF IInv, Ids, Sendable
      <4>. QED  BY <1>1, <1>2, <3>1, <3>2, <4>1, PushedIds
    <3>. QED  BY <2>1, <3>4, <3>6, <3>7, <3>8, <3>9
  <2>2. CASE ~link
    <3>1. reqs = <<>> /\ reps = <<>>
      BY <2>2 DEF IInv, Flow
    <3>2. m = 0 /\ n = 0
      BY <3>1, EmptySeq
    <3>3. reqs' = <<>> /\ reps' = Stale(reps)
      BY <2>2, <3>1 DEF PacketSent
    <3>4. reps' = <<>>
      BY <1>2, <3>2, <3>3, StaleReplies, EmptySeq
    <3>5. DOMAIN reqs' = {} /\ DOMAIN reps' = {}
      BY <3>3, <3>4
    <3>6. link' = link
      BY <1>1
    <3>. QED  BY <1>1, <1>3, <1>4, <1>6, <2>2, <3>3, <3>4, <3>5, <3>6
              DEF Once, GleOld, Ack, Ids, Sorted, Own, Sendable, Bare
  <2>. QED  BY <2>1, <2>2, Kept DEF IInv
<1>8. TypeOK'
  <2>1. pc' \in Exchanges \cup {"idle", "send", "recv", "rother"}
    BY <1>3 DEF Exchanges, Checks, Logins
  <2>. QED  BY <1>1, <1>2, <1>3, <1>7, <2>1 DEF TypeOK
<1>9. Flow'
  BY <1>1, <1>3, <1>7 DEF Flow, HasReply
<1>. QED  BY <1>6, <1>7, <1>8, <1>9 DEF IInv
-----------------------------------------------------------------------------
(* The server takes the oldest request and may answer it.                  *)

LEMMA ServerHandlesStep ==
    ASSUME IInv, ServerHandles
    PROVE  IInv'
<1>. DEFINE n == Len(reqs)
            m == Len(reps)
            r == reqs[1]
<1>1. /\ TypeOK /\ link /\ reqs # <<>>
      /\ reqs \in Seq(Requests) /\ reps \in Seq(Replies)
      /\ n \in Nat /\ DOMAIN reqs = 1..n /\ m \in Nat /\ DOMAIN reps = 1..m
      /\ rid \in Int /\ id \in Int /\ xid \in Int /\ srvError \in BOOLEAN
      /\ \A k \in 1..n : reqs[k].id \in Int
      /\ \A k \in 1..m : reps[k].to \in Int
  BY Queues, Kept DEF IInv, TypeOK, ServerHandles
<1>2. /\ n >= 1 /\ 1 \in 1..n /\ Head(reqs) = r
  BY <1>1, EmptySeq
<1>3. r \in Requests
  BY <1>1, <1>2
<1>4. PICK good \in BOOLEAN :
        /\ srvError' = IF r.kind \in Writes THEN ~good ELSE srvError /\ r.kind # "reset"
        /\ r.kind = "gle" => good = ~srvError
        /\ reps' = IF HasReply(r.kind)
                     THEN Append(reps, [to |-> r.id, kind |-> r.kind, good |-> good, mine |-> r.mine])
                     ELSE reps
        /\ ghost' = IF r.kind \in Writes /\ r.mine /\ good
                      THEN [ghost EXCEPT !.applied = @ + 1] ELSE ghost
  BY <1>2 DEF ServerHandles
<1>5. UNCHANGED <<rid, flags, lastError, kind, pc, awaiting, id, xid, out, back, result, link,
                  timed, master, faults>>
  BY DEF ServerHandles, connVars, cmdVars
<1>6. /\ reqs' \in Seq(Requests) /\ Len(reqs') = n - 1 /\ DOMAIN reqs' = 1..(n - 1)
      /\ \A k \in 1..(n - 1) : k + 1 \in 1..n /\ k + 1 # 1 /\ reqs'[k] = reqs[k + 1]
  <2>1. reqs' = Tail(reqs)
    BY DEF ServerHandles
  <2>2. /\ reqs' \in Seq(Requests) /\ Len(reqs') = n - 1
        /\ \A k \in 1..Len(reqs') : reqs'[k] = reqs[k + 1]
    BY <1>1, <2>1, HeadTailProperties
  <2>. QED  BY <1>1, <1>2, <2>2, LenProperties
<1>7. /\ \A k \in 1..(n - 1) : IsOwnWrite(k)' <=> IsOwnWrite(k + 1)
      /\ IsOwnWrite(1) <=> (r.kind \in Writes /\ r.mine)
  BY <1>6 DEF IsOwnWrite
<1>. DEFINE Answer(k) == /\ k = m + 1 /\ HasReply(r.kind) /\ reps'[k].to = r.id
                         /\ reps'[k].kind = r.kind /\ reps'[k].good = good /\ reps'[k].mine = r.mine
<1>8. /\ reps' \in Seq(Replies) /\ Len(reps') \in {m, m + 1}
      /\ \A k \in DOMAIN reps' : (k \in 1..m /\ reps'[k] = reps[k]) \/ Answer(k)
  <2>1. CASE HasReply(r.kind)
    <3>. DEFINE e == [to |-> r.id, kind |-> r.kind, good |-> good, mine |-> r.mine]
    <3>1. e \in Replies
      BY <1>3 DEF Requests, Replies
    <3>2. reps' = Append(reps, e)
      BY <1>4, <2>1
    <3>3. e.to = r.id /\ e.kind = r.kind /\ e.good = good /\ e.mine = r.mine
      OBVIOUS
    <3>. HIDE DEF e
    <3>4. /\ reps' \in Seq(Replies) /\ Len(reps') = m + 1
          /\ \A k \in 1..m : reps'[k] = reps[k]
          /\ reps'[m + 1] = e
      BY <1>1, <3>1, <3>2, Appended
    <3>5. DOMAIN reps' = 1..(m + 1)
      BY <3>4, LenProperties
    <3>6. \A k \in 1..(m + 1) : k \in 1..m \/ k = m + 1
      BY <1>1
    <3>. QED  BY <2>1, <3>3, <3>4, <3>5, <3>6
  <2>2. CASE ~HasReply(r.kind)
    BY <1>1, <1>4, <2>2
  <2>. QED  BY <2>1, <2>2
<1>9. IsOwnWrite(1) => ghost.applied = 0
  BY <1>1, <1>2 DEF IInv, Once
<1>10. /\ ghost' \in GhostType
       /\ ghost'.applied = IF IsOwnWrite(1) /\ good THEN 1 ELSE ghost.applied
       /\ ghost'.mastered = ghost.mastered /\ ghost'.loose = ghost.loose
       /\ ghost'.crossed = ghost.crossed /\ ghost'.blamed = ghost.blamed
  <2>1. ghost \in GhostType
    BY DEF IInv
  <2>2. CASE IsOwnWrite(1) /\ good
    <3>1. ghost' = [ghost EXCEPT !.applied = @ + 1] /\ ghost.applied + 1 = 1
      BY <1>4, <1>7, <1>9, <2>2
    <3>2. 1 \in 0..1
      OBVIOUS
    <3>. QED  BY <2>1, <2>2, <3>1, <3>2 DEF GhostType
  <2>3. CASE ~(IsOwnWrite(1) /\ good)
    BY <1>4, <1>7, <2>1, <2>3
  <2>. QED  BY <2>2, <2>3
<1>11. TypeOK'
  <2>1. srvError' \in BOOLEAN
    BY <1>1, <1>4
  <2>2. ghost'.applied \in 0..1
    BY <1>10 DEF GhostType
  <2>. QED  BY <1>1, <1>5, <1>6, <1>8, <2>1, <2>2 DEF TypeOK
<1>12. Flow'
  BY <1>1, <1>5 DEF IInv, Flow, HasReply
<1>13. Once'
  <2>1. Once
    BY DEF IInv
  <2>2. \A j, k \in 1..(n - 1) : IsOwnWrite(j)' /\ IsOwnWrite(k)' => j = k
    <3>. SUFFICES ASSUME NEW j \in 1..(n - 1), NEW k \in 1..(n - 1), IsOwnWrite(j)', IsOwnWrite(k)'
                  PROVE  j = k
      OBVIOUS
    <3>1. j + 1 = k + 1
      BY <1>1, <1>6, <1>7, <2>1 DEF Once
    <3>. QED  BY <3>1
  <2>3. \A k \in 1..(n - 1) : IsOwnWrite(k)' => ghost.applied = 0 /\ ~IsOwnWrite(1)
    BY <1>1, <1>2, <1>6, <1>7, <2>1 DEF Once
  <2>4. pc \in Before => ghost.applied = 0 /\ ~IsOwnWrite(1) /\ \A k \in 1..(n - 1) : ~IsOwnWrite(k)'
    BY <1>1, <1>2, <1>6, <1>7, <2>1 DEF Once
  <2>. QED  BY <1>5, <1>6, <1>10, <2>2, <2>3, <2>4 DEF Once
<1>14. GleOld'
  <2>1. GleOld
    BY DEF IInv
  <2>2. \A k \in DOMAIN reqs' : reqs'[k].kind = "gle" =>
           reqs'[k].id <= rid /\ (pc \in Before => reqs'[k].id < id)
    BY <1>1, <1>6, <2>1 DEF GleOld
  <2>3. \A k \in DOMAIN reps' : reps'[k].kind = "gle" =>
           reps'[k].to <= rid /\ (pc \in Before => reps'[k].to < id)
    BY <1>1, <1>2, <1>8, <2>1 DEF GleOld
  <2>. QED  BY <1>5, <2>2, <2>3 DEF GleOld
<1>15. IsOwnWrite(1) => Confirmed'
  BY <1>4, <1>7, <1>10 DEF Confirmed
<1>16. Ack'
  <2>. SUFFICES ASSUME pc = "gle" PROVE Ack'
    BY <1>5 DEF Ack
  <2>1. CASE ~awaiting
    <3>1. IsOwnWrite(n)
      BY <1>1, <2>1 DEF IInv, Ack
    <3>2. CASE n = 1
      <4>1. Confirmed' /\ reqs' = <<>>
        BY <1>6, <1>15, <3>1, <3>2, EmptySeq
      <4>. QED  BY <1>5, <2>1, <4>1 DEF Ack
    <3>3. CASE n # 1
      <4>1. n - 1 \in 1..(n - 1) /\ (n - 1) + 1 = n /\ n - 1 # 0
        BY <1>1, <1>2, <3>3
      <4>2. \A k \in 1..(n - 1) : k = n - 1 => IsOwnWrite(k)'
        BY <1>7, <3>1, <4>1
      <4>3. IsOwnWrite(Len(reqs))'
        BY <1>6, <4>1, <4>2 DEF IsOwnWrite
      <4>4. reqs' # <<>>
        BY <1>6, <4>1, EmptySeq
      <4>. QED  BY <1>5, <2>1, <4>3, <4>4 DEF Ack
    <3>. QED  BY <3>2, <3>3
  <2>2. CASE awaiting
    <3>1. /\ \A k \in 1..n : reqs[k].kind = "gle" /\ reqs[k].id = xid =>
               k = n /\ IF k = 1 THEN Confirmed ELSE IsOwnWrite(k - 1)
          /\ \A k \in 1..m : reps[k].kind = "gle" /\ reps[k].to = xid /\ reps[k].good
               => ghost.applied = 1
      BY <1>1, <2>2 DEF IInv, Ack
    <3>2. \A k \in DOMAIN reqs' : reqs'[k].kind = "gle" /\ reqs'[k].id = xid' =>
               k = Len(reqs') /\ IF k = 1 THEN Confirmed' ELSE IsOwnWrite(k - 1)'
      <4>. SUFFICES ASSUME NEW k \in 1..(n - 1), reqs'[k].kind = "gle", reqs'[k].id = xid
                    PROVE  k = n - 1 /\ IF k = 1 THEN Confirmed' ELSE IsOwnWrite(k - 1)'
        BY <1>5, <1>6
      <4>1. k + 1 = n /\ IsOwnWrite((k + 1) - 1)
        <5>1. k + 1 \in 1..n /\ k + 1 # 1 /\ reqs[k + 1].kind = "gle" /\ reqs[k + 1].id = xid
          BY <1>6
        <5>2. \A j \in 1..n : j # 1 /\ reqs[j].kind = "gle" /\ reqs[j].id = xid
                 => j = n /\ IsOwnWrite(j - 1)
          BY <3>1
        <5>. QED  BY <5>1, <5>2, Zenon
      <4>2. k = n - 1 /\ (k + 1) - 1 = k
        <5>1. n \in Nat
          BY <1>1
        <5>2. k \in Int
          BY <1>1
        <5>3. k + 1 = n
          BY <4>1, Zenon
        <5>. QED  BY <5>1, <5>2, <5>3
      <4>3. CASE k = 1
        BY <1>15, <4>1, <4>2, <4>3
      <4>4. CASE k # 1
        <5>1. k - 1 \in 1..(n - 1) /\ (k - 1) + 1 = k
          BY <1>1, <4>4
        <5>2. \A j \in 1..(n - 1) : j = k - 1 => IsOwnWrite(j)'
          BY <1>7, <4>1, <4>2, <5>1
        <5>. QED  BY <4>2, <4>4, <5>1, <5>2
      <4>. QED  BY <4>3, <4>4
    <3>3. \A k \in DOMAIN reps' : reps'[k].kind = "gle" /\ reps'[k].to = xid' /\ reps'[k].good
               => ghost'.applied = 1
      <4>. SUFFICES ASSUME NEW k \in DOMAIN reps', reps'[k].kind = "gle", reps'[k].to = xid,
                           reps'[k].good
                    PROVE  ghost.applied = 1
        BY <1>5, <1>10
      <4>1. CASE k \in 1..m /\ reps'[k] = reps[k]
        BY <3>1, <4>1
      <4>2. CASE Answer(k)
        <5>1. r.kind = "gle" /\ r.id = xid /\ good
          BY <4>2
        <5>2. ~srvError
          BY <1>4, <5>1
        <5>3. Confirmed
          BY <1>2, <3>1, <5>1
        <5>. QED  BY <5>2, <5>3 DEF Confirmed
      <4>. QED  BY <1>8, <4>1, <4>2
    <3>. QED  BY <1>5, <2>2, <3>2, <3>3 DEF Ack
  <2>. QED  BY <2>1, <2>2
<1>17. Ids'
  <2>. SUFFICES ASSUME ~ghost.loose PROVE Sorted' /\ Own' /\ Sendable' /\ Bare'
    BY <1>10 DEF Ids
  <2>1. /\ \A k \in 1..m : reps[k].to <= rid
        /\ \A k \in 1..n : reqs[k].id <= rid
        /\ \A j, k \in 1..m : j < k => reps[j].to < reps[k].to
        /\ \A j, k \in 1..n : j < k => reqs[j].id < reqs[k].id
        /\ \A j \in 1..m, k \in 1..n : reps[j].to < reqs[k].id
        /\ Own /\ Sendable
    BY <1>1 DEF IInv, Ids, Sorted
  <2>2. \A k \in DOMAIN reps' : reps'[k].to <= rid'
    BY <1>2, <1>5, <1>8, <2>1
  <2>3. \A k \in DOMAIN reqs' : reqs'[k].id <= rid'
    BY <1>5, <1>6, <2>1
  <2>4. ASSUME NEW j \in DOMAIN reps', NEW k \in DOMAIN reps', j < k
        PROVE  reps'[j].to < reps'[k].to
    <3>1. j \in 1..(m + 1) /\ k \in 1..(m + 1)
      BY <1>1, <1>8
    <3>2. j \in 1..m /\ reps'[j] = reps[j]
      BY <1>1, <1>8, <2>4, <3>1
    <3>. QED  BY <1>2, <1>8, <2>1, <2>4, <3>2
  <2>5. ASSUME NEW j \in DOMAIN reqs', NEW k \in DOMAIN reqs', j < k
        PROVE  reqs'[j].id < reqs'[k].id
    <3>1. j + 1 \in 1..n /\ k + 1 \in 1..n /\ j + 1 < k + 1
      BY <1>1, <1>6, <2>5
    <3>. QED  BY <1>6, <2>1, <3>1
  <2>6. ASSUME NEW j \in DOMAIN reps', NEW k \in DOMAIN reqs'
        PROVE  reps'[j].to < reqs'[k].id
    <3>1. k + 1 \in 1..n /\ 1 < k + 1 /\ reqs'[k] = reqs[k + 1]
      BY <1>1, <1>6
    <3>2. r.id < reqs[k + 1].id
      BY <1>2, <2>1, <3>1
    <3>. QED  BY <1>8, <2>1, <3>1, <3>2
  <2>7. Sorted'
    BY <2>2, <2>3, <2>4, <2>5, <2>6 DEF Sorted
  <2>8. Own'
    <3>. SUFFICES ASSUME awaiting
                  PROVE  /\ xid = rid
                         /\ \A k \in DOMAIN reps' : reps'[k].to = xid => reps'[k].mine
                         /\ \A k \in DOMAIN reqs' : reqs'[k].id = xid => reqs'[k].mine
      BY <1>5 DEF Own
    <3>1. /\ xid = rid
          /\ \A k \in 1..m : reps[k].to = xid => reps[k].mine
          /\ \A k \in 1..n : reqs[k].id = xid => reqs[k].mine
      BY <1>1, <2>1 DEF Own
    <3>. QED  BY <1>2, <1>6, <1>8, <3>1
  <2>9. Sendable'
    BY <1>1, <1>5, <2>1 DEF Sendable
  <2>10. Bare'
    <3>1. Len(reqs') + Len(reps') <= n + m /\ Len(reqs') + Len(reps') \in Int
      BY <1>1, <1>6, <1>8
    <3>2. Bare
      BY DEF IInv, Ids
    <3>. QED  BY <1>1, <1>5, <3>1, <3>2 DEF Bare
  <2>. QED  BY <2>7, <2>8, <2>9, <2>10
<1>18. NoCrossTalk' /\ Blame'
  BY <1>5, <1>10 DEF IInv, NoCrossTalk, Blame
<1>19. MasterBeforeWrite' /\ Elected'
  BY <1>5, <1>10 DEF IInv, MasterBeforeWrite, Elected, ForceReconnect, ForceMaster
<1>. QED  BY <1>10, <1>11, <1>12, <1>13, <1>14, <1>16, <1>17, <1>18, <1>19 DEF IInv
-----------------------------------------------------------------------------
(* The invariant.                                                          *)

LEMMA InitIInv == ASSUME Init PROVE IInv
<1>1. /\ ghost = [applied |-> 0, mastered |-> FALSE, loose |-> FALSE, crossed |-> FALSE,
                  blamed |-> FALSE]
      /\ rid = 0 /\ id = 0 /\ xid = 0 /\ kind = "custom" /\ pc = "idle" /\ awaiting = FALSE
      /\ out = FALSE /\ back = "send" /\ result = "none" /\ lastError = FALSE
      /\ link = TRUE /\ timed = FALSE /\ reqs = <<>> /\ reps = <<>>
      /\ master \in BOOLEAN /\ srvError = FALSE /\ faults = 0
      /\ flags = [auto |-> FALSE, slaveok |-> FALSE, safe |-> FALSE]
  BY DEF Init
<1>2. ghost \in GhostType /\ ghost.applied = 0 /\ ~ghost.crossed
  <2>1. 0 \in 0..1
    OBVIOUS
  <2>. QED  BY <1>1, <2>1 DEF GhostType
<1>3. flags \in FlagSettings /\ kind \in Kinds /\ faults \in 0..MaxFaults
  BY <1>1, SyncCommandAssumption DEF FlagSettings, Kinds
<1>4. reqs \in Seq(Requests) /\ reps \in Seq(Replies) /\ DOMAIN reqs = {} /\ DOMAIN reps = {}
  BY <1>1
<1>5. TypeOK
  <2>1. {lastError, awaiting, out, link, timed, master, srvError} \subseteq BOOLEAN
    BY <1>1
  <2>2. ghost.applied \in 0..1
    BY <1>2
  <2>. QED  BY <1>1, <1>3, <1>4, <2>1, <2>2 DEF TypeOK
<1>6. pc \notin Before
  BY <1>1 DEF Before, Checks, Logins
<1>7. Flow /\ Ack /\ Own /\ Sendable /\ Bare /\ Blame /\ MasterBeforeWrite /\ Elected
  BY <1>1 DEF Flow, Ack, Own, Sendable, Bare, Blame, MasterBeforeWrite, Elected, Logins
<1>8. Once /\ GleOld /\ Sorted
  BY <1>4, <1>6 DEF Once, GleOld, Sorted
<1>. QED  BY <1>2, <1>5, <1>7, <1>8 DEF IInv, Ids, NoCrossTalk

LEMMA StepIInv == IInv /\ [Next]_vars => IInv'
<1>. SUFFICES ASSUME IInv, [Next]_vars PROVE IInv'
  OBVIOUS
<1>1. CASE Application
  <2>1. ASSUME NEW f \in FlagSettings, SetFlags(f) PROVE IInv'
    BY <2>1, SetFlagsStep
  <2>2. ASSUME NEW k \in Commands, Begin(k) PROVE IInv'
    BY <2>2, BeginStep
  <2>. QED  BY <1>1, <2>1, <2>2, SetTimeoutStep DEF Application
<1>2. CASE Library
  <2>1. ASSUME NEW checked \in BOOLEAN, Reconnected(checked) PROVE IInv'
    BY <2>1, ReconnectedStep
  <2>. QED  BY <1>2, <2>1, ExchangeSentStep, ExchangeCutOffStep, ExchangeTimesOutStep, AnsweredStep,
               ReconnectedToNothingStep, LoginReconnectsStep, ReconnectFailsStep, PacketSentStep, SendFailsStep,
               ReplyReceivedStep, NoReplyStep DEF Library
<1>3. CASE ServerHandles \/ LinkBreaks \/ MasterChanges
  BY <1>3, ServerHandlesStep, LinkBreaksStep, MasterChangesStep
<1>4. CASE UNCHANGED vars
  <2>1. /\ UNCHANGED <<rid, flags, lastError, kind, pc, awaiting, id, xid, out, back, result>>
        /\ UNCHANGED <<link, timed, reqs, reps, master, srvError, faults, ghost>>
    BY <1>4 DEF vars, connVars, cmdVars, sockVars
  <2>2. /\ TypeOK' /\ ghost' \in GhostType /\ Flow' /\ Blame' /\ NoCrossTalk' /\ MasterBeforeWrite'
        /\ Elected'
    BY <2>1 DEF IInv, TypeOK, Flow, Blame, NoCrossTalk, MasterBeforeWrite, Elected, ForceReconnect,
                ForceMaster
  <2>3. Once' /\ GleOld'
    BY <2>1 DEF IInv, Once, GleOld, IsOwnWrite
  <2>4. Ack'
    BY <2>1 DEF IInv, Ack, IsOwnWrite, Confirmed
  <2>5. Ids'
    BY <2>1 DEF IInv, Ids, Sorted, Own, Sendable, Bare
  <2>. QED  BY <2>2, <2>3, <2>4, <2>5 DEF IInv
<1>. QED  BY <1>1, <1>2, <1>3, <1>4 DEF Next

LEMMA Inductive == Spec => []IInv
BY InitIInv, StepIInv, PTL DEF Spec
-----------------------------------------------------------------------------
(* The theorems.                                                           *)

\* Every variable keeps its type, and a write that was issued once is applied
\* at most once, however often it is sent again (mongo-sync.c:624-650).
THEOREM TypeCorrect == Spec => []TypeOK
<1>1. IInv => TypeOK
  BY DEF IInv
<1>. QED  BY <1>1, Inductive, PTL

\* No exchange takes another one's reply for its own, on any socket that was
\* checked, however many requests share an id (mongo-sync.c:675-680).
THEOREM RepliesAreOwn == Spec => []NoCrossTalk
<1>1. IInv => NoCrossTalk
  BY DEF IInv
<1>. QED  BY <1>1, Inductive, PTL

\* No path of checks, reconnects and retries sends a write to a server that did
\* not say that it is the master (mongo-sync.c:609-651).
THEOREM WritesGoToTheMaster == Spec => []MasterBeforeWrite
<1>1. IInv => MasterBeforeWrite
  BY DEF IInv
<1>. QED  BY <1>1, Inductive, PTL

\* The steps that do not end a command.
LEMMA GoesOn ==
    ASSUME IInv, pc # "idle",
           \/ Application \/ ExchangeSent \/ ServerHandles \/ LinkBreaks \/ MasterChanges
           \/ ReconnectedToNothing \/ LoginReconnects
           \/ \E checked \in BOOLEAN : Reconnected(checked)
    PROVE  pc' # "idle"
<1>1. CASE Application
  BY <1>1 DEF Application, SetFlags, SetTimeout, Begin
<1>2. CASE ExchangeSent \/ ServerHandles \/ LinkBreaks \/ MasterChanges
  BY <1>2 DEF ExchangeSent, ServerHandles, LinkBreaks, MasterChanges, cmdVars
<1>3. ASSUME NEW r \in Int, ReauthenticateOrResume(r) PROVE pc' # "idle"
  BY <1>3, ReauthenticateMoves DEF IInv, Before, Checks, Logins
<1>4. CASE ReconnectedToNothing
  <2>1. rid \in Int /\ ReauthenticateOrResume(rid)
    BY <1>4, Kept DEF IInv, ReconnectedToNothing
  <2>. QED  BY <1>3, <2>1
<1>5. ASSUME NEW checked \in BOOLEAN, Reconnected(checked) PROVE pc' # "idle"
  <2>1. -1 \in Int
    OBVIOUS
  <2>2. ReauthenticateOrResume(-1)
    BY <1>5 DEF Reconnected
  <2>. QED  BY <1>3, <2>1, <2>2
<1>6. CASE LoginReconnects
  BY <1>6 DEF LoginReconnects
<1>. QED  BY <1>1, <1>2, <1>4, <1>5, <1>6

\* The answer a getlasterror takes.
LEMMA AnswerMoves ==
    ASSUME IInv, Answered, pc' = "idle"
    PROVE  /\ result' = "ok" =>
                pc = "gle" /\ Matches(Head(reps), pc) /\ Head(reps).good
           /\ pc = "gle" /\ result' = "fail" /\ Matches(Head(reps), pc) /\ Head(reps).good
                => lastError
           /\ awaiting /\ reps # <<>> /\ ghost'.applied = ghost.applied
<1>. DEFINE h == Head(reps)
            a == Says(h, pc)
<1>1. /\ awaiting /\ reps # <<>> /\ AfterExchange(pc, a)
      /\ ghost' = [ghost EXCEPT !.crossed = @ \/ (Matches(h, pc) /\ ~h.mine),
                                !.mastered = @ \/ (pc \in Checks /\ a = "yes"),
                                !.blamed = @ \/ (pc \in Logins /\ a = "no")]
  BY DEF Answered
<1>2. ghost'.applied = ghost.applied
  BY <1>1, Observed DEF GhostType
<1>3. /\ a \in {"yes", "no", "error", "EPROTO"}
      /\ pc = "gle" => (a = "yes" <=> Matches(h, pc) /\ h.good)
  BY <1>1, HeadFacts DEF Says
<1>. HIDE DEF a
<1>4. /\ result' = "ok" => pc = "gle" /\ a = "yes"
      /\ pc = "gle" /\ result' = "fail" /\ a = "yes" => lastError
  BY <1>1, <1>3, ExchangeMoves DEF IInv
<1>. QED  BY <1>1, <1>2, <1>3, <1>4

\* An insert or update that succeeds in safe mode was applied exactly once
\* (mongo-sync.c:817-841).
THEOREM SafeModeConfirms == Spec => SafeAck
<1>. DEFINE Ends == /\ pc # "idle" /\ pc' = "idle" /\ result' = "ok"
                    /\ kind \in Verified /\ flags.safe
            A == Ends => ghost'.applied = 1
<1>1. IInv /\ [Next]_vars => [A]_vars
  <2>. SUFFICES ASSUME IInv, Next, Ends PROVE ghost'.applied = 1
    OBVIOUS
  <2>1. ~HasReply(kind)
    BY DEF Verified, HasReply, Writes
  <2>2. CASE Answered
    <3>1. /\ pc = "gle" /\ Matches(Head(reps), pc) /\ Head(reps).good
          /\ awaiting /\ reps # <<>> /\ ghost'.applied = ghost.applied
      BY <2>2, AnswerMoves
    <3>2. 1 \in DOMAIN reps /\ Head(reps) = reps[1]
      BY <3>1, HeadFacts
    <3>3. RequestOf("gle") = "gle"
      BY DEF RequestOf, Checks, Logins
    <3>4. reps[1].kind = "gle" /\ reps[1].to = xid
      BY <3>1, <3>2, <3>3 DEF Matches
    <3>. QED  BY <3>1, <3>2, <3>4 DEF IInv, Ack
  <2>3. ~(ExchangeCutOff \/ ExchangeTimesOut)
    <3>. SUFFICES ASSUME AfterExchange(pc, "error") PROVE FALSE
      BY DEF ExchangeCutOff, ExchangeTimesOut
    <3>. QED  BY ExchangeMoves DEF IInv, Quiet
  <2>4. ~(ReconnectFails \/ NoReply \/ SendFails)
    BY DEF ReconnectFails, NoReply, SendFails, ReconnectFrom, Return
  <2>5. ~PacketSent
    BY <2>1 DEF PacketSent, AfterSend
  <2>6. ~ReplyReceived
    BY <2>1 DEF ReplyReceived, IInv, Flow
  <2>. QED  BY <2>2, <2>3, <2>4, <2>5, <2>6, GoesOn DEF Next, Library
<1>. QED  BY <1>1, Inductive, PTL DEF Spec, SafeAck

\* What safe mode reports as a failure although the server confirmed it is the
\* failure of an earlier command, or the refusal of a re-authentication after a
\* failover (mongo-sync.c:792-794, 1424-1425).
THEOREM FalseAlarmsHaveCauses == Spec => FalseAlarmHasCause
<1>. DEFINE Alarm == /\ pc = "gle" /\ pc' = "idle" /\ result' = "fail"
                     /\ reps # <<>> /\ Matches(Head(reps), pc) /\ Head(reps).good
            A == Alarm => ghost.blamed
<1>1. IInv /\ [Next]_vars => [A]_vars
  <2>. SUFFICES ASSUME IInv, Next, Alarm PROVE ghost.blamed
    OBVIOUS
  <2>1. CASE Answered
    <3>1. lastError
      BY <2>1, AnswerMoves
    <3>. QED  BY <3>1 DEF IInv, Blame
  <2>2. ~(ExchangeCutOff \/ ExchangeTimesOut)
    BY DEF ExchangeCutOff, ExchangeTimesOut, IInv, Flow
  <2>3. ~(ReconnectFails \/ NoReply \/ SendFails \/ PacketSent \/ ReplyReceived)
    BY DEF ReconnectFails, NoReply, SendFails, PacketSent, ReplyReceived
  <2>. QED  BY <2>1, <2>2, <2>3, GoesOn DEF Next, Library
<1>. QED  BY <1>1, Inductive, PTL DEF Spec, FalseAlarmHasCause
-----------------------------------------------------------------------------
(* A command is short: what is left of it.                                 *)

\* The request of the exchange at pc has yet to be sent.
Unsent == IF awaiting THEN 0 ELSE 1

\* The steps of mongo_sync_reconnect still to be made from a place in it.
InReconnect ==
    IF pc = "rping" THEN 9 + Unsent
    ELSE IF pc = "rmaster" THEN 7 + Unsent
    ELSE IF pc = "rrefresh" THEN 5 + Unsent
    ELSE IF pc = "rother" THEN 4
    ELSE IF pc = "rnonce" THEN 2 + Unsent
    ELSE IF pc = "rauth" THEN Unsent
    ELSE 0

\* And those that follow it.
AfterReconnect == IF back = "slaveok" THEN 29 ELSE IF back = "ensure" THEN 16 ELSE 4

\* The most steps the command in progress can still make: two for an exchange,
\* eleven for a reconnect, of which there is one for each check and one for the
\* packet.
StepsLeft ==
    IF pc = "idle" THEN 0
    ELSE IF pc = "recv" THEN 1
    ELSE IF pc = "gle" THEN 1 + Unsent
    ELSE IF pc = "send" THEN (IF out THEN 3 ELSE 15)
    ELSE IF pc = "ensure" THEN 27 + Unsent
    ELSE IF pc = "slaveok" THEN 40 + Unsent
    ELSE InReconnect + AfterReconnect

LEMMA StepsLeftType == StepsLeft \in 0..41 /\ InReconnect \in 0..10 /\ AfterReconnect \in 4..29
BY DEF StepsLeft, InReconnect, AfterReconnect, Unsent

LEMMA ResumeShortens ==
    ASSUME TypeOK, pc \in {"rping", "rmaster", "rother", "rnonce", "rauth"}, NEW r \in Int,
           ResumeAfterReconnect(r)
    PROVE  StepsLeft' < StepsLeft
<1>1. StepsLeft >= AfterReconnect /\ StepsLeft \in Int
  <2>1. StepsLeft = InReconnect + AfterReconnect
    BY DEF StepsLeft
  <2>. QED  BY <2>1, StepsLeftType
<1>2. StepsLeft' \in Int
  BY DEF StepsLeft, InReconnect, AfterReconnect, Unsent
<1>3. CASE back = "slaveok"
  <2>1. pc' \in {"ensure", "send"}
    BY <1>3 DEF ResumeAfterReconnect, BuildPacket, ToSend
  <2>2. StepsLeft' <= 28 /\ AfterReconnect = 29
    BY <1>3, <2>1 DEF StepsLeft, AfterReconnect, Unsent
  <2>. QED  BY <1>1, <1>2, <2>2
<1>4. CASE back = "ensure"
  <2>1. pc' = "send"
    BY <1>4 DEF ResumeAfterReconnect
  <2>2. StepsLeft' <= 15 /\ AfterReconnect = 16
    BY <1>4, <2>1 DEF StepsLeft, AfterReconnect
  <2>. QED  BY <1>1, <1>2, <2>2
<1>5. CASE back = "send"
  <2>1. pc' = "send" /\ out'
    BY <1>5 DEF ResumeAfterReconnect
  <2>2. StepsLeft' = 3 /\ AfterReconnect = 4
    BY <1>5, <2>1 DEF StepsLeft, AfterReconnect
  <2>. QED  BY <1>1, <1>2, <2>2
<1>. QED  BY <1>3, <1>4, <1>5 DEF TypeOK

LEMMA ExchangeShortens ==
    ASSUME TypeOK, NEW a, AfterExchange(pc, a)
    PROVE  StepsLeft' < StepsLeft
<1>1. CASE AfterCheck(pc, a)
  <2>1. StepsLeft = (IF pc = "ensure" THEN 27 ELSE 40) + Unsent /\ Unsent \in 0..1
    BY <1>1 DEF AfterCheck, StepsLeft, Unsent
  <2>2. CASE pc = "slaveok" /\ BuildPacket(rid)
    <3>1. pc' \in {"ensure", "send"} /\ awaiting' = FALSE
      BY <2>2 DEF BuildPacket, ToSend
    <3>. QED  BY <2>1, <2>2, <3>1 DEF StepsLeft, Unsent
  <2>3. CASE pc' = "send"
    BY <2>1, <2>3 DEF StepsLeft
  <2>4. CASE ReconnectFrom(pc)
    BY <1>1, <2>1, <2>4 DEF ReconnectFrom, StepsLeft, InReconnect, AfterReconnect, Unsent, AfterCheck
  <2>5. CASE pc' = "idle"
    BY <2>1, <2>5 DEF StepsLeft
  <2>. QED  BY <1>1, <2>2, <2>3, <2>4, <2>5 DEF AfterCheck, Return
<1>2. CASE AfterReconnectCheck(pc, a)
  <2>1. CASE pc \in {"rping", "rmaster"} /\ ResumeAfterReconnect(rid)
    BY <2>1, ResumeShortens DEF TypeOK
  <2>2. CASE ~(pc \in {"rping", "rmaster"} /\ ResumeAfterReconnect(rid))
    <3>1. /\ back' = back /\ awaiting' = FALSE
          /\ \/ pc = "rping" /\ pc' \in {"rmaster", "rother"}
             \/ pc = "rmaster" /\ pc' = "rrefresh"
             \/ pc = "rrefresh" /\ pc' = "rother"
      BY <1>2, <2>2 DEF AfterReconnectCheck
    <3>. QED  BY <3>1 DEF StepsLeft, InReconnect, AfterReconnect, Unsent, TypeOK
  <2>. QED  BY <2>1, <2>2
<1>3. CASE AfterGetLastError(pc, a)
  BY <1>3 DEF AfterGetLastError, Return, StepsLeft, Unsent
<1>4. CASE AfterLogin(pc, a)
  <2>1. pc \in {"rnonce", "rauth"} /\ back' = back
    BY <1>4 DEF AfterLogin, Logins
  <2>2. CASE ResumeAfterReconnect(rid)
    BY <2>1, <2>2, Kept, ResumeShortens
  <2>3. CASE pc = "rnonce" /\ pc' = "rauth" /\ awaiting' = FALSE
    BY <2>1, <2>3 DEF StepsLeft, InReconnect, AfterReconnect, Unsent, TypeOK
  <2>. QED  BY <1>4, <2>2, <2>3 DEF AfterLogin
<1>. QED  BY <1>1, <1>2, <1>3, <1>4 DEF AfterExchange

LEMMA LibraryShortens == TypeOK /\ Library => StepsLeft' < StepsLeft /\ pc # "idle"
<1>. SUFFICES ASSUME TypeOK, Library PROVE StepsLeft' < StepsLeft /\ pc # "idle"
  OBVIOUS
<1>1. CASE ExchangeSent
  <2>1. /\ pc \in Exchanges /\ ~awaiting /\ awaiting'
        /\ UNCHANGED <<pc, out, back>>
    BY <1>1 DEF ExchangeSent
  <2>. QED  BY <2>1 DEF StepsLeft, InReconnect, AfterReconnect, Unsent, Exchanges, Checks, Logins, TypeOK
<1>2. CASE ExchangeCutOff \/ ExchangeTimesOut \/ Answered
  <2>1. pc \in Exchanges /\ \E a : AfterExchange(pc, a)
    BY <1>2 DEF ExchangeCutOff, ExchangeTimesOut, Answered
  <2>. QED  BY <2>1, ExchangeShortens DEF Exchanges, Checks, Logins
<1>3. CASE ReconnectedToNothing \/ \E checked \in BOOLEAN : Reconnected(checked)
  <2>1. pc = "rother"
    BY <1>3 DEF ReconnectedToNothing, Reconnected
  <2>2. (\E r \in Int : ReauthenticateOrResume(r)) /\ back' = back
    <3>1. CASE ReconnectedToNothing
      BY <3>1 DEF ReconnectedToNothing, TypeOK
    <3>2. ASSUME NEW checked \in BOOLEAN, Reconnected(checked)
          PROVE  (\E r \in Int : ReauthenticateOrResume(r)) /\ back' = back
      <4>1. -1 \in Int /\ ReauthenticateOrResume(-1) /\ back' = back
        BY <3>2 DEF Reconnected
      <4>. QED  BY <4>1
    <3>. QED  BY <1>3, <3>1, <3>2
  <2>3. PICK r \in Int : ReauthenticateOrResume(r)
    BY <2>2
  <2>4. CASE ResumeAfterReconnect(r)
    BY <2>1, <2>4, ResumeShortens
  <2>5. CASE pc' = "rnonce" /\ awaiting' = FALSE
    BY <2>1, <2>2, <2>5 DEF StepsLeft, InReconnect, AfterReconnect, Unsent, TypeOK
  <2>. QED  BY <2>1, <2>3, <2>4, <2>5 DEF ReauthenticateOrResume
<1>4. CASE ReconnectFails \/ NoReply
  <2>1. pc \in {"rother", "recv"} /\ pc' = "idle"
    BY <1>4 DEF ReconnectFails, NoReply, Return
  <2>2. StepsLeft' = 0 /\ StepsLeft >= 1
    BY <2>1, StepsLeftType DEF StepsLeft
  <2>. QED  BY <2>1, <2>2, StepsLeftType
<1>5. CASE PacketSent
  BY <1>5 DEF PacketSent, AfterSend, Return, StepsLeft, Unsent
<1>6. CASE SendFails
  <2>1. /\ pc = "send"
        /\ \/ pc' = "rping" /\ back' = "send" /\ ~out
           \/ pc' = "idle"
    BY <1>6 DEF SendFails, MayRetry, ReconnectFrom, Return
  <2>. QED  BY <2>1 DEF StepsLeft, InReconnect, AfterReconnect, Unsent
<1>7. CASE ReplyReceived
  BY <1>7 DEF ReplyReceived, Return, StepsLeft
<1>8. CASE LoginReconnects
  <2>1. pc \in {"rnonce", "rauth"} /\ pc' = pc /\ back' = back /\ ~awaiting /\ awaiting'
    BY <1>8 DEF LoginReconnects, Logins
  <2>. QED  BY <2>1 DEF StepsLeft, InReconnect, AfterReconnect, Unsent, TypeOK
<1>. QED  BY <1>1, <1>2, <1>3, <1>4, <1>5, <1>6, <1>7, <1>8 DEF Library

\* A command makes 41 steps at most, each exchange counted as two and the
\* search of mongo_sync_reconnect as one, whatever the servers, the network and
\* earlier commands do: every step of the library is one step less, and nobody
\* else's step gives it more to do.
THEOREM CommandsAreShort ==
    Spec => /\ [](StepsLeft \in 0..41 /\ (StepsLeft = 0 <=> pc = "idle"))
            /\ [][pc # "idle" => \/ Library /\ StepsLeft' < StepsLeft
                                 \/ ~Library /\ StepsLeft' = StepsLeft]_vars
<1>1. TypeOK => StepsLeft \in 0..41 /\ (StepsLeft = 0 <=> pc = "idle")
  BY StepsLeftType DEF StepsLeft, Unsent
<1>2. TypeOK /\ [Next]_vars =>
        [pc # "idle" => \/ Library /\ StepsLeft' < StepsLeft
                        \/ ~Library /\ StepsLeft' = StepsLeft]_vars
  <2>. SUFFICES ASSUME TypeOK, Next, pc # "idle"
       PROVE  \/ Library /\ StepsLeft' < StepsLeft
              \/ ~Library /\ StepsLeft' = StepsLeft
    OBVIOUS
  <2>1. CASE Library
    BY <2>1, LibraryShortens
  <2>2. CASE ServerHandles \/ LinkBreaks \/ MasterChanges
    <3>1. UNCHANGED cmdVars
      BY <2>2 DEF ServerHandles, LinkBreaks, MasterChanges
    <3>2. StepsLeft' = StepsLeft
      BY <3>1 DEF cmdVars, StepsLeft, InReconnect, AfterReconnect, Unsent
    <3>3. StepsLeft \in Int
      BY StepsLeftType
    <3>. QED  BY <3>2, <3>3, LibraryShortens
  <2>3. ~Application
    BY DEF Application, SetFlags, SetTimeout, Begin
  <2>. QED  BY <2>1, <2>2, <2>3 DEF Next
<1>. QED  BY <1>1, <1>2, TypeCorrect, PTL DEF Spec
=============================================================================
