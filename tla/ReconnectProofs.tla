--------------------------- MODULE ReconnectProofs ---------------------------
(***************************************************************************)
(* Proofs about Reconnect, for every replica set, descriptor table and     *)
(* recursion depth, and, at the end, about RecoveryCache.                  *)
(***************************************************************************)
EXTENDS Reconnect, RecoveryCache, TLAPS, SequenceTheorems, FiniteSetTheorems,
        WellFoundedInduction

-----------------------------------------------------------------------------
(* The two ways the stack of connection objects is updated.                *)

\* Replacing the top object of a stack of objects leaves a stack of objects.
LEMMA SetTopType ==
    ASSUME NEW S, NEW s \in Seq(S), Len(s) > 0, NEW f \in S
    PROVE  /\ [s EXCEPT ![Len(s)] = f] \in Seq(S)
           /\ Len([s EXCEPT ![Len(s)] = f]) = Len(s)
BY ExceptSeq

\* Taking the top object off and updating the one below it, likewise.
LEMMA PopType ==
    ASSUME NEW S, NEW s \in Seq(S), Len(s) > 1, NEW f \in S,
           NEW t, t = [k \in 1..(Len(s) - 1) |-> IF k = Len(s) - 1 THEN f ELSE s[k]]
    PROVE  /\ t \in Seq(S)
           /\ Len(t) = Len(s) - 1
           /\ \A k \in 1..Len(t) : t[k] = IF k = Len(t) THEN f ELSE s[k]
<1>1. Len(s) - 1 \in Nat
  BY LenProperties
<1>2. \A k \in 1..(Len(s) - 1) : s[k] \in S
  BY ElementOfSeq, LenProperties
<1>3. t \in [1..(Len(s) - 1) -> S]
  BY <1>2
<1>4. t \in Seq(S) /\ Len(t) = Len(s) - 1
  BY <1>1, <1>3, SeqDef
<1>. QED  BY <1>4

-----------------------------------------------------------------------------
(* Type correctness.                                                       *)

\* The object on top is a connection object.
LEMMA TopType ==
    ASSUME TypeOK, Depth > 0
    PROVE  /\ Top \in Frame
           /\ Depth \in Nat
           /\ Depth \in 1..Depth
BY ElementOfSeq, LenProperties DEF TypeOK, Depth, Top

\* Moving an activation on leaves its object a connection object.
LEMMA GotoType ==
    ASSUME NEW f \in Frame, NEW pc \in Pcs
    PROVE  /\ Goto(f, pc) \in Frame
           /\ Goto(f, pc).fd = f.fd
           /\ Goto(f, pc).pc = pc
BY DEF Goto, Frame

\* A step that changes nothing of the stack but its top object.
LEMMA SetTopStep ==
    ASSUME TypeOK, Depth > 0, NEW f \in Frame, SetTop(f)
    PROVE  /\ stack' \in Seq(Frame)
           /\ Len(stack') = Depth
           /\ \A k \in 1..Depth : stack'[k] = IF k = Depth THEN f ELSE stack[k]
BY TopType, SetTopType, ExceptSeq DEF TypeOK, Depth, SetTop

\* A step that returns from the activation on top.
LEMMA PopStep ==
    ASSUME TypeOK, Depth > 1, NEW f \in Frame, Pop(f)
    PROVE  /\ stack' \in Seq(Frame)
           /\ Len(stack') = Depth - 1
           /\ \A k \in 1..(Depth - 1) :
                stack'[k] = IF k = Depth - 1 THEN f ELSE stack[k]
BY PopType DEF TypeOK, Depth, Pop

\* A connection that mongo_sync_cmd_is_master has been called on.
LEMMA AfterIsMasterType ==
    ASSUME TypeOK, NEW c \in Frame
    PROVE  /\ AfterIsMaster(c) \in Frame
           /\ AfterIsMaster(c).fd = c.fd
           /\ AfterIsMaster(c).pc = c.pc
BY ReconnectAssumption DEF TypeOK, AfterIsMaster, IsMasterReply, Frame

\* mongo_sync_connect makes a connection object.
LEMMA NewConnectionType ==
    ASSUME NEW a \in Addrs, NEW fd \in Fds, NEW b \in BOOLEAN, NEW pc \in Pcs
    PROVE  /\ NewConnection(a, fd, b, pc) \in Frame
           /\ NewConnection(a, fd, b, pc).fd = fd
           /\ NewConnection(a, fd, b, pc).pc = pc
<1>1. <<a>> \in Seq(Addrs) /\ <<>> \in Seq(Addrs)
  OBVIOUS
<1>. QED  BY <1>1 DEF NewConnection, Frame

\* Before the first call every variable of the connection has its type.
THEOREM InitType == Init => TypeOK
<1>. SUFFICES ASSUME Init PROVE TypeOK
  OBVIOUS
<1>1. <<>> \in Seq(Frame) /\ <<>> \in Seq(Pending)
  BY EmptySeq
<1>2. peer \in [Fds -> Servers \cup {None}] /\ events \in 0..MaxEvents
  BY ReconnectAssumption DEF Init
<1>3. ghost \in Observations
  BY DEF Init, NoObservation, Observations
<1>. QED  BY <1>1, <1>2, <1>3 DEF Init, TypeOK

\* Faults and role changes keep the types.
LEMMA EnvironmentType == TypeOK /\ Environment => TypeOK'
<1>. SUFFICES ASSUME TypeOK, Environment PROVE TypeOK'
  OBVIOUS
<1>1. UNCHANGED progVars /\ alive' \subseteq Fds
  BY DEF TypeOK, Environment, ServerDown, ServerUp, Elect, StepDown, LinkBreaks
<1>4. Event
  BY DEF Environment, ServerDown, ServerUp, Elect, StepDown, LinkBreaks
<1>5. events' \in 0..MaxEvents
  BY <1>4, ReconnectAssumption DEF TypeOK, Event
<1>2. role' \in [Servers -> {"down", "secondary", "primary"}]
  <2>1. CASE role' = role
    BY <2>1 DEF TypeOK
  <2>2. CASE \E s \in Servers : \E r \in {"down", "secondary", "primary"} :
               role' = [role EXCEPT ![s] = r]
    BY <2>2 DEF TypeOK
  <2>. QED
    BY <2>1, <2>2 DEF Environment, ServerDown, ServerUp, Elect, StepDown, LinkBreaks
<1>3. view' \in Servers \cup {None}
  BY DEF TypeOK, Environment, ServerDown, ServerUp, Elect, StepDown, LinkBreaks
<1>. QED  BY <1>1, <1>2, <1>3, <1>5 DEF TypeOK, progVars

\* Calls of the application keep the types.
LEMMA ApplicationType == TypeOK /\ Application => TypeOK'
<1>. SUFFICES ASSUME TypeOK, Application PROVE TypeOK'
  OBVIOUS
<1>. USE DEF Pcs
<1>1. ASSUME NEW a \in Addrs, SeedAdd(a) PROVE TypeOK'
  <2>1. Depth > 0 /\ Top \in Frame
    BY <1>1, TopType DEF SeedAdd, Idle
  <2>4. Top.seeds \in Seq(Addrs)
    BY <2>1 DEF Frame
  <2>5. Append(Top.seeds, a) \in Seq(Addrs)
    BY <2>4
  <2>2. [Top EXCEPT !.seeds = Append(@, a)] \in Frame
    BY <2>1, <2>5 DEF Frame
  <2>3. stack' \in Seq(Frame)
    BY <1>1, <2>1, <2>2, SetTopStep DEF SeedAdd
  <2>. QED  BY <1>1, <2>3 DEF SeedAdd, TypeOK
<1>2. ASSUME NEW a \in Addrs, ConnectFails(a) PROVE TypeOK'
  BY <1>2 DEF ConnectFails, TypeOK
<1>3. ASSUME NEW a \in Addrs, NEW b \in Slaveok, Connect(a, b) PROVE TypeOK'
  <2>1. PICK fd \in Fds : OpenSocket(a, fd) /\ stack' = <<NewConnection(a, fd, b, "idle")>>
    BY <1>3 DEF Connect
  <2>2. NewConnection(a, fd, b, "idle") \in Frame
    BY NewConnectionType, ReconnectAssumption
  <2>3. stack' \in Seq(Frame)
    BY <2>1, <2>2
  <2>4. peer' \in [Fds -> Servers \cup {None}] /\ alive' \subseteq Fds
    BY <2>1 DEF OpenSocket, Up, TypeOK
  <2>. QED  BY <1>3, <2>3, <2>4 DEF Connect, TypeOK
<1>4. ASSUME NEW b \in Slaveok, SetSlaveok(b) PROVE TypeOK'
  <2>1. Depth > 0 /\ Top \in Frame
    BY <1>4, TopType DEF SetSlaveok, Idle
  <2>2. [Top EXCEPT !.slaveok = b] \in Frame
    BY <2>1, ReconnectAssumption DEF Frame
  <2>3. stack' \in Seq(Frame)
    BY <1>4, <2>1, <2>2, SetTopStep DEF SetSlaveok
  <2>. QED  BY <1>4, <2>3 DEF SetSlaveok, TypeOK
<1>5. ASSUME NEW b \in BOOLEAN, SetAutoReconnect(b) PROVE TypeOK'
  BY <1>5 DEF SetAutoReconnect, TypeOK
<1>6. ASSUME NEW name \in {"reconnect", "authenticate"}, NEW pc \in Pcs, Begin(name, pc)
      PROVE  /\ stack' \in Seq(Frame)
             /\ result' = "none"
             /\ op' \in {"reconnect", "authenticate"}
             /\ ghost' \in Observations
  <2>1. Depth > 0 /\ Top \in Frame
    BY <1>6, TopType DEF Begin, Idle
  <2>2. Goto(Top, pc) \in Frame
    BY <2>1, GotoType
  <2>3. stack' \in Seq(Frame)
    BY <1>6, <2>1, <2>2, SetTopStep DEF Begin
  <2>4. Top.fd \in Fds
    BY <2>1 DEF Frame
  <2>. QED  BY <1>6, <2>3, <2>4 DEF Begin, TypeOK, Observations
<1>7. ASSUME NEW b \in BOOLEAN, Reconnect(b) PROVE TypeOK'
  BY <1>6, <1>7 DEF Reconnect, TypeOK
<1>8. CASE Disconnect
  <2>1. <<>> \in Seq(Frame)
    BY EmptySeq
  <2>2. peer' \in [Fds -> Servers \cup {None}] /\ alive' \subseteq Fds /\ authed' \subseteq Fds
    BY <1>8 DEF Disconnect, CloseSockets, TypeOK
  <2>. QED  BY <1>8, <2>1, <2>2 DEF Disconnect, TypeOK
<1>9. CASE CmdIsMaster
  <2>1. Depth > 0 /\ Top \in Frame
    BY <1>9, TopType DEF CmdIsMaster, Idle
  <2>2. stack' \in Seq(Frame)
    BY <1>9, <2>1, AfterIsMasterType, SetTopStep DEF CmdIsMaster
  <2>. QED  BY <1>9, <2>2 DEF CmdIsMaster, TypeOK
<1>10. CASE Authenticate
  BY <1>6, <1>10 DEF Authenticate, TypeOK
<1>. QED
  BY <1>1, <1>2, <1>3, <1>4, <1>5, <1>7, <1>8, <1>9, <1>10 DEF Application

\* A step of mongo_sync_reconnect that only works on its own connection object.
LEMMA LocalType ==
    ASSUME TypeOK, Depth > 0, NEW f \in Frame, SetTop(f), Local,
           ghost' \in Observations
    PROVE  TypeOK'
BY SetTopStep DEF Local, TypeOK

\* Recording that a socket was checked keeps the type of the observations.
LEMMA CheckType ==
    ASSUME TypeOK, NEW fd \in Fds, NEW master, Check(fd, master)
    PROVE  ghost' \in Observations
BY DEF Check, TypeOK, Observations

\* A step that connects to an address and recurs.
LEMMA TryAddressType ==
    ASSUME TypeOK, Depth > 0, NEW a \in Addrs, TryAddress(a)
    PROVE  TypeOK'
<1>1. PICK fd \in Fds :
        /\ OpenSocket(a, fd)
        /\ stack' = Append([stack EXCEPT ![Depth] = Goto(Top, "wait")],
                           NewConnection(a, fd, Top.slaveok, "ping"))
  BY DEF TryAddress
<1>2. Goto(Top, "wait") \in Frame
  BY TopType, GotoType DEF Pcs
<1>3. Top.slaveok \in BOOLEAN
  BY TopType DEF Frame
<1>4. NewConnection(a, fd, Top.slaveok, "ping") \in Frame
  BY <1>3, NewConnectionType DEF Pcs
<1>5. [stack EXCEPT ![Depth] = Goto(Top, "wait")] \in Seq(Frame)
  BY <1>2, TopType, SetTopType DEF TypeOK, Depth
<1>6. stack' \in Seq(Frame)
  BY <1>1, <1>4, <1>5
<1>7. peer' \in [Fds -> Servers \cup {None}] /\ alive' \subseteq Fds
  BY <1>1 DEF OpenSocket, Up, TypeOK
<1>. QED  BY <1>6, <1>7 DEF TryAddress, TypeOK

\* The steps that try the primary, the hosts and the seeds.
LEMMA MoveOnType ==
    ASSUME TypeOK, Depth > 0, NEW pc \in Pcs, MoveOn(Top, pc)
    PROVE  TypeOK'
<1>1. [Top EXCEPT !.pc = pc, !.i = 1] \in Frame
  BY TopType DEF Frame
<1>. QED  BY <1>1, LocalType DEF MoveOn, TypeOK

\* Moving on to the next address keeps the types.
LEMMA SkipAddressType ==
    ASSUME TypeOK, Depth > 0, SkipAddress
    PROVE  TypeOK'
<1>1. [Top EXCEPT !.i = @ + 1] \in Frame
  BY TopType DEF Frame
<1>. QED  BY <1>1, LocalType DEF SkipAddress, TypeOK

\* Opening a connection to an address, or moving on, keeps the types.
LEMMA TryListType ==
    ASSUME TypeOK, TryPrimary \/ TryHosts \/ TrySeeds
    PROVE  TypeOK'
<1>1. Depth > 0
  BY DEF TryPrimary, TryHosts, TrySeeds, Running
<1>3. \A a : Connectable(a) => a \in Addrs
  BY ReconnectAssumption DEF Connectable, Up
<1>4. "hosts" \in Pcs /\ "seeds" \in Pcs /\ "null" \in Pcs
  BY DEF Pcs
<1>5. CASE TryPrimary
  BY <1>1, <1>3, <1>4, <1>5, TryAddressType, MoveOnType DEF TryPrimary
<1>6. CASE TryHosts
  BY <1>1, <1>3, <1>4, <1>6, TryAddressType, MoveOnType, SkipAddressType DEF TryHosts
<1>7. CASE TrySeeds
  BY <1>1, <1>3, <1>4, <1>7, TryAddressType, MoveOnType, SkipAddressType DEF TrySeeds
<1>. QED  BY <1>5, <1>6, <1>7

\* _mongo_sync_connect_replace leaves a connection object.
LEMMA ReplacedType ==
    ASSUME NEW old \in Frame, NEW new \in Frame
    PROVE  /\ Replaced(old, new) \in Frame
           /\ Replaced(old, new).fd = new.fd
<1>1. <<>> \in Seq(Addrs)
  BY EmptySeq
<1>. QED  BY <1>1 DEF Replaced, Frame

\* Where an activation goes on is a place of the program.
LEMMA AfterNestedType == AfterNested \in Pcs
BY DEF AfterNested, Pcs

\* The object below the top is a connection object.
LEMMA BelowType ==
    ASSUME TypeOK, Depth > 1
    PROVE  stack[Depth - 1] \in Frame /\ Depth - 1 \in 1..Depth
<1>1. Depth \in Nat
  BY LenProperties DEF TypeOK, Depth
<1>2. Depth - 1 \in 1..Depth
  BY <1>1
<1>. QED  BY <1>2, ElementOfSeq DEF TypeOK, Depth

\* Returning to the activation below keeps the types.
LEMMA NestedReturnsType ==
    ASSUME TypeOK, NestedReturnsConn \/ NestedReturnsNull
    PROVE  TypeOK'
<1>1. Depth > 1 /\ Top \in Frame /\ stack[Depth - 1] \in Frame
  BY TopType, BelowType DEF NestedReturnsConn, NestedReturnsNull, Running
<1>2. CASE NestedReturnsConn
  <2>1. Goto(Replaced(stack[Depth - 1], Top), AfterNested) \in Frame
    BY <1>1, ReplacedType, AfterNestedType, GotoType
  <2>2. stack' \in Seq(Frame)
    BY <1>1, <1>2, <2>1, PopStep DEF NestedReturnsConn
  <2>3. peer' \in [Fds -> Servers \cup {None}] /\ alive' \subseteq Fds /\ authed' \subseteq Fds
    BY <1>2 DEF NestedReturnsConn, CloseSockets, TypeOK
  <2>. QED  BY <1>2, <2>2, <2>3 DEF NestedReturnsConn, TypeOK
<1>3. CASE NestedReturnsNull
  <2>1. Goto(stack[Depth - 1], AfterNested) \in Frame
    BY <1>1, AfterNestedType, GotoType
  <2>2. stack' \in Seq(Frame)
    BY <1>1, <1>3, <2>1, PopStep DEF NestedReturnsNull
  <2>3. Top.fd \in Fds
    BY <1>1 DEF Frame
  <2>4. ghost' \in Observations
    BY <1>3, <2>3 DEF NestedReturnsNull, TypeOK, Observations
  <2>. QED  BY <1>3, <2>2, <2>4 DEF NestedReturnsNull, TypeOK
<1>. QED  BY <1>2, <1>3

\* A step that only sends the caller's object on to pc.
LEMMA GotoStep ==
    ASSUME TypeOK, Depth > 0, NEW pc \in Pcs, SetTop(Goto(Top, pc))
    PROVE  stack' \in Seq(Frame)
BY TopType, GotoType, SetTopStep

\* The steps of mongo_sync_cmd_authenticate keep the types.
LEMMA AuthenticationType ==
    ASSUME TypeOK,
           \/ ResumeAuthentication \/ GetNonce
           \/ AuthenticateAccepted \/ AuthenticateFails \/ SendFailsReconnect
    PROVE  TypeOK'
<1>1. Depth > 0 /\ Top \in Frame
  BY TopType DEF ResumeAuthentication, GetNonce, AuthenticateAccepted,
     AuthenticateFails, SendFailsReconnect, Running
<1>2. \A pc \in {"authenticate", "done", "ping", "getnonce"} :
        SetTop(Goto(Top, pc)) => stack' \in Seq(Frame)
  BY <1>1, GotoStep DEF Pcs
<1>3. Top.fd \in Fds
  BY <1>1 DEF Frame
<1>4. CASE ResumeAuthentication
  <2>1. pending[Len(pending)] \in Pending /\ Len(pending) \in Nat \ {0}
    BY <1>4, EmptySeq, ElementOfSeq, LenProperties DEF ResumeAuthentication, TypeOK
  <2>2. /\ pending[Len(pending)].pc \in {"getnonce", "authenticate"}
        /\ pending[Len(pending)].force \in BOOLEAN
    BY <2>1 DEF Pending
  <2>3. stack' \in Seq(Frame)
    BY <1>2, <1>4, <2>2 DEF ResumeAuthentication
  <2>4. \A k \in 1..(Len(pending) - 1) : pending[k] \in Pending
    BY <2>1, ElementOfSeq DEF TypeOK
  <2>5. pending' \in [1..(Len(pending) - 1) -> Pending]
    BY <1>4, <2>4 DEF ResumeAuthentication
  <2>6. pending' \in Seq(Pending)
    BY <2>1, <2>5, SeqDef
  <2>. QED  BY <1>4, <2>2, <2>3, <2>6 DEF ResumeAuthentication, TypeOK
<1>5. CASE GetNonce
  BY <1>2, <1>5 DEF GetNonce, TypeOK
<1>6. CASE AuthenticateAccepted
  BY <1>2, <1>3, <1>6 DEF AuthenticateAccepted, TypeOK
<1>7. CASE AuthenticateFails
  <2>1. ghost' \in Observations
    BY <1>7 DEF AuthenticateFails, TypeOK, Observations
  <2>. QED  BY <1>2, <1>7, <2>1 DEF AuthenticateFails, TypeOK
<1>8. CASE SendFailsReconnect
  <2>1. ghost' \in Observations
    BY <1>8 DEF SendFailsReconnect, TypeOK, Observations
  <2>2. [force |-> force, pc |-> Top.pc] \in Pending
    BY <1>8 DEF SendFailsReconnect, Running, Pending, TypeOK
  <2>3. pending' \in Seq(Pending)
    BY <1>8, <2>2 DEF SendFailsReconnect, TypeOK
  <2>. QED  BY <1>2, <1>8, <2>1, <2>3 DEF SendFailsReconnect, TypeOK
<1>. QED  BY <1>4, <1>5, <1>6, <1>7, <1>8

\* Every step of a library call keeps the types.
LEMMA LibraryType == TypeOK /\ Library => TypeOK'
<1>. SUFFICES ASSUME TypeOK, Library PROVE TypeOK'
  OBVIOUS
<1>1. \A pc \in Pcs : Depth > 0 => Goto(Top, pc) \in Frame
  BY TopType, GotoType
<1>2. \A pc \in Pcs : Depth > 0 => Goto(AfterIsMaster(Top), pc) \in Frame
  BY TopType, AfterIsMasterType, GotoType
<1>3. Depth > 0 => Top.fd \in Fds
  BY TopType DEF Frame
<1>4. /\ "idle" \in Pcs /\ "primary" \in Pcs /\ "master" \in Pcs
      /\ "done" \in Pcs /\ "refresh" \in Pcs
  BY DEF Pcs
<1>5. ghost \in Observations
  BY DEF TypeOK
<1>6. CASE PingFails
  BY <1>1, <1>4, <1>5, <1>6, LocalType DEF PingFails, Running
<1>7. CASE PingAnswered
  BY <1>1, <1>3, <1>4, <1>7, CheckType, LocalType DEF PingAnswered, AfterPing, Running
<1>8. CASE MasterFound
  BY <1>2, <1>3, <1>4, <1>8, CheckType, LocalType DEF MasterFound, Running
<1>9. CASE NotMaster
  BY <1>2, <1>4, <1>5, <1>9, LocalType DEF NotMaster, Running
<1>10. CASE RefreshHosts
  BY <1>2, <1>4, <1>5, <1>10, LocalType DEF RefreshHosts, Running
<1>11. ASSUME NEW r \in {"conn", "null"}, Finish(r) PROVE TypeOK'
  <2>1. stack' \in Seq(Frame)
    BY <1>4, <1>11, GotoStep DEF Finish
  <2>. QED  BY <1>11, <2>1 DEF Finish, TypeOK
<1>12. CASE ReturnConn \/ ReturnNull
  BY <1>11, <1>12 DEF ReturnConn, ReturnNull
<1>. QED
  BY <1>6, <1>7, <1>8, <1>9, <1>10, <1>12, TryListType, NestedReturnsType,
     AuthenticationType DEF Library

\* A step that changes nothing keeps the types.
LEMMA StutterType == TypeOK /\ UNCHANGED vars => TypeOK'
BY DEF TypeOK, vars, progVars

\* The state of a connection object and of the activations working on it is
\* well-formed in every reachable state.
THEOREM TypeCorrect == Spec => []TypeOK
<1>1. TypeOK /\ [Next]_vars => TypeOK'
  BY EnvironmentType, ApplicationType, LibraryType, StutterType DEF Next
<1>. QED  BY <1>1, InitType, PTL DEF Spec

-----------------------------------------------------------------------------
(* Descriptor ownership.                                                   *)

\* What the steps may do to the descriptors that objects hold: nothing, open
\* one more for a new object on top, hand the top object's over to the one
\* below, or drop the top object.
SameFds ==
    /\ Len(stack') = Len(stack)
    /\ \A k \in 1..Depth : stack'[k].fd = stack[k].fd
    /\ UNCHANGED peer

\* Replacing the object on top by one with its socket changes no socket.
LEMMA SetTopFds ==
    ASSUME TypeOK, Depth > 0, NEW f \in Frame, SetTop(f), f.fd = Top.fd, UNCHANGED peer
    PROVE  SameFds
BY SetTopStep DEF SameFds, Depth, Top

\* A step that changes no socket and closes none keeps FdOwnership.
LEMMA SameFdsOwnership ==
    ASSUME FdOwnership, SameFds
    PROVE  FdOwnership'
BY DEF FdOwnership, SameFds, Depth, Open

\* Every step but these leaves each object the descriptor it holds.
LEMMA SameFdsSteps ==
    ASSUME TypeOK, [Next]_vars
    PROVE  \/ SameFds
           \/ \E a \in Addrs, b \in Slaveok : Connect(a, b)
           \/ Disconnect
           \/ Depth > 0 /\ \E a \in Addrs : TryAddress(a)
           \/ NestedReturnsConn
           \/ NestedReturnsNull
<1>. DEFINE Rest ==
           \/ \E a \in Addrs, b \in Slaveok : Connect(a, b)
           \/ Disconnect
           \/ Depth > 0 /\ \E a \in Addrs : TryAddress(a)
           \/ NestedReturnsConn
           \/ NestedReturnsNull
<1>1. UNCHANGED <<stack, peer>> => SameFds
  BY DEF SameFds
<1>2. \A pc \in Pcs : Depth > 0 /\ SetTop(Goto(Top, pc)) /\ UNCHANGED peer => SameFds
  BY TopType, GotoType, SetTopFds
<1>3. \A pc \in Pcs : Depth > 0 /\ SetTop(Goto(AfterIsMaster(Top), pc)) /\ UNCHANGED peer
                     => SameFds
  BY TopType, AfterIsMasterType, GotoType, SetTopFds
<1>4. "idle" \in Pcs /\ "primary" \in Pcs /\ "master" \in Pcs /\ "done" \in Pcs
      /\ "refresh" \in Pcs /\ "getnonce" \in Pcs /\ "authenticate" \in Pcs
      /\ "ping" \in Pcs
  BY DEF Pcs
<1>5. CASE Environment \/ UNCHANGED vars
  BY <1>1, <1>5 DEF Environment, ServerDown, ServerUp, Elect, StepDown, LinkBreaks,
     vars, progVars
<1>6. CASE Application
  <2>1. ASSUME NEW a \in Addrs, SeedAdd(a) PROVE SameFds
    <3>1. Depth > 0 /\ Top \in Frame
      BY <2>1, TopType DEF SeedAdd, Idle
    <3>2. Top.seeds \in Seq(Addrs)
      BY <3>1 DEF Frame
    <3>3. Append(Top.seeds, a) \in Seq(Addrs)
      BY <3>2
    <3>4. [Top EXCEPT !.seeds = Append(@, a)] \in Frame
      BY <3>1, <3>3 DEF Frame
    <3>5. [Top EXCEPT !.seeds = Append(@, a)].fd = Top.fd
      BY <3>1 DEF Frame
    <3>. QED  BY <2>1, <3>1, <3>4, <3>5, SetTopFds DEF SeedAdd
  <2>2. ASSUME NEW b \in Slaveok, SetSlaveok(b) PROVE SameFds
    <3>1. Depth > 0 /\ Top \in Frame
      BY <2>2, TopType DEF SetSlaveok, Idle
    <3>2. [Top EXCEPT !.slaveok = b] \in Frame /\ [Top EXCEPT !.slaveok = b].fd = Top.fd
      BY <3>1, ReconnectAssumption DEF Frame
    <3>. QED  BY <2>2, <3>1, <3>2, SetTopFds DEF SetSlaveok
  <2>3. CASE CmdIsMaster
    BY <2>3, TopType, AfterIsMasterType, SetTopFds DEF CmdIsMaster, Idle
  <2>4. CASE Authenticate \/ \E b \in BOOLEAN : Reconnect(b)
    BY <1>2, <1>4, <2>4 DEF Authenticate, Reconnect, Begin, Idle
  <2>5. CASE \/ \E a \in Addrs : ConnectFails(a)
             \/ \E b \in BOOLEAN : SetAutoReconnect(b)
    BY <1>1, <2>5 DEF ConnectFails, SetAutoReconnect
  <2>. QED  BY <1>6, <2>1, <2>2, <2>3, <2>4, <2>5 DEF Application
<1>7. CASE Library
  <2>1. CASE PingFails \/ PingAnswered
    BY <1>2, <1>4, <2>1 DEF PingFails, PingAnswered, AfterPing, Running, Local
  <2>2. CASE MasterFound \/ NotMaster \/ RefreshHosts
    BY <1>3, <1>4, <2>2 DEF MasterFound, NotMaster, RefreshHosts, Running, Local
  <2>3. CASE TryPrimary \/ TryHosts \/ TrySeeds
    <3>1. Depth > 0 /\ Top \in Frame
      BY <2>3, TopType DEF TryPrimary, TryHosts, TrySeeds, Running
    <3>2. \A pc \in Pcs : /\ [Top EXCEPT !.pc = pc, !.i = 1] \in Frame
                          /\ [Top EXCEPT !.pc = pc, !.i = 1].fd = Top.fd
      BY <3>1 DEF Frame
    <3>3. \A pc \in Pcs : MoveOn(Top, pc) => SameFds
      BY <3>1, <3>2, SetTopFds DEF MoveOn, Local
    <3>4. /\ [Top EXCEPT !.i = @ + 1] \in Frame
          /\ [Top EXCEPT !.i = @ + 1].fd = Top.fd
      BY <3>1 DEF Frame
    <3>5. SkipAddress => SameFds
      BY <3>1, <3>4, SetTopFds DEF SkipAddress, Local
    <3>6. \A a : Connectable(a) => a \in Addrs
      BY ReconnectAssumption DEF Connectable, Up
    <3>7. "hosts" \in Pcs /\ "seeds" \in Pcs /\ "null" \in Pcs
      BY DEF Pcs
    <3>. QED
      BY <2>3, <3>1, <3>3, <3>5, <3>6, <3>7 DEF TryPrimary, TryHosts, TrySeeds
  <2>4. CASE ReturnConn \/ ReturnNull
    BY <1>2, <1>4, <2>4 DEF ReturnConn, ReturnNull, Finish, Running
  <2>5. CASE ResumeAuthentication
    <3>1. pending[Len(pending)] \in Pending
      BY <2>5, EmptySeq, ElementOfSeq, LenProperties DEF ResumeAuthentication, TypeOK
    <3>2. pending[Len(pending)].pc \in Pcs
      BY <3>1 DEF Pending, Pcs
    <3>. QED  BY <1>2, <1>4, <2>5, <3>2 DEF ResumeAuthentication
  <2>6. CASE GetNonce \/ AuthenticateAccepted \/ AuthenticateFails \/ SendFailsReconnect
    BY <1>2, <1>4, <2>6 DEF GetNonce, AuthenticateAccepted, AuthenticateFails,
       SendFailsReconnect, Running
  <2>. QED  BY <1>7, <2>1, <2>2, <2>3, <2>4, <2>5, <2>6 DEF Library
<1>. QED  BY <1>5, <1>6, <1>7 DEF Next

\* mongo_sync_connect keeps FdOwnership.
LEMMA ConnectOwnership ==
    ASSUME TypeOK, FdOwnership, NEW a \in Addrs, NEW b \in Slaveok, Connect(a, b)
    PROVE  FdOwnership'
<1>1. PICK fd \in Fds : OpenSocket(a, fd) /\ stack' = <<NewConnection(a, fd, b, "idle")>>
  BY DEF Connect
<1>2. Len(stack') = 1 /\ stack'[1].fd = fd
  BY <1>1 DEF NewConnection
<1>3. peer'[fd] # None
  BY <1>1, ReconnectAssumption DEF OpenSocket, Up, TypeOK
<1>. QED  BY <1>2, <1>3 DEF FdOwnership, Depth, Open

\* The descriptor of a new connection was closed, so no object holds it.
LEMMA TryAddressOwnership ==
    ASSUME TypeOK, FdOwnership, Depth > 0, NEW a \in Addrs, TryAddress(a)
    PROVE  FdOwnership'
<1>1. PICK fd \in Fds :
        /\ OpenSocket(a, fd)
        /\ stack' = Append([stack EXCEPT ![Depth] = Goto(Top, "wait")],
                           NewConnection(a, fd, Top.slaveok, "ping"))
  BY DEF TryAddress
<1>. DEFINE s == [stack EXCEPT ![Depth] = Goto(Top, "wait")]
            n == NewConnection(a, fd, Top.slaveok, "ping")
<1>2. Goto(Top, "wait") \in Frame /\ Goto(Top, "wait").fd = Top.fd
  BY TopType, GotoType DEF Pcs
<1>3. /\ s \in Seq(Frame)
      /\ Len(s) = Depth
      /\ \A k \in 1..Depth : s[k] = IF k = Depth THEN Goto(Top, "wait") ELSE stack[k]
  BY <1>2, TopType, ExceptSeq DEF TypeOK, Depth
<1>4. \A k \in 1..Depth : s[k].fd = stack[k].fd
  BY <1>2, <1>3 DEF Top
<1>5. n \in Frame /\ n.fd = fd
  BY TopType, NewConnectionType DEF Frame, Pcs
<1>6. /\ Len(stack') = Depth + 1
      /\ \A k \in 1..Depth : stack'[k] = s[k]
      /\ stack'[Depth + 1] = n
  BY <1>1, <1>3, <1>5
<1>7. \A k \in 1..Depth : stack[k].fd \in Open /\ stack[k].fd # fd
  BY <1>1 DEF FdOwnership, OpenSocket
<1>8. Open \cup {fd} = Open'
  BY <1>1, ReconnectAssumption DEF OpenSocket, Up, Open, TypeOK
<1>9. Depth \in Nat
  BY TopType
<1>10. \A k \in 1..(Depth + 1) : stack'[k].fd = IF k = Depth + 1 THEN fd ELSE stack[k].fd
  BY <1>4, <1>5, <1>6, <1>9
<1>11. \A k \in 1..(Depth + 1) : stack'[k].fd \in Open'
  BY <1>7, <1>8, <1>9, <1>10
<1>12. ASSUME NEW k \in 1..(Depth + 1), NEW l \in 1..(Depth + 1), k # l
       PROVE  stack'[k].fd # stack'[l].fd
  BY <1>7, <1>9, <1>10, <1>12 DEF FdOwnership
<1>. QED  BY <1>6, <1>11, <1>12 DEF FdOwnership, Depth

\* Only the descriptor the caller's object gives up is closed, and the top
\* object, whose descriptor it takes over, is gone.
LEMMA NestedReturnsOwnership ==
    ASSUME TypeOK, FdOwnership, NestedReturnsConn \/ NestedReturnsNull
    PROVE  FdOwnership'
<1>1. /\ Depth > 1 /\ Depth \in Nat /\ Top \in Frame
      /\ stack[Depth - 1] \in Frame /\ Depth - 1 \in 1..Depth
  BY TopType, BelowType DEF NestedReturnsConn, NestedReturnsNull, Running
<1>2. /\ Top.fd \in Open
      /\ \A k \in 1..(Depth - 1) : stack[k].fd \in Open /\ stack[k].fd # Top.fd
  BY <1>1 DEF FdOwnership, Top
<1>3. CASE NestedReturnsConn
  <2>. DEFINE f == Goto(Replaced(stack[Depth - 1], Top), AfterNested)
  <2>1. f \in Frame /\ f.fd = Top.fd
    BY <1>1, ReplacedType, AfterNestedType, GotoType
  <2>2. /\ Len(stack') = Depth - 1
        /\ \A k \in 1..(Depth - 1) : stack'[k] = IF k = Depth - 1 THEN f ELSE stack[k]
    BY <1>1, <1>3, <2>1, PopStep DEF NestedReturnsConn
  <2>3. \A k \in 1..(Depth - 1) :
          stack'[k].fd = IF k = Depth - 1 THEN Top.fd ELSE stack[k].fd
    BY <2>1, <2>2
  <2>4. \A fd \in Open : fd # stack[Depth - 1].fd => fd \in Open'
    BY <1>3 DEF NestedReturnsConn, CloseSockets, ClosedByReplace, Open
  <2>5. \A k \in 1..(Depth - 1) : k # Depth - 1 => stack[k].fd # stack[Depth - 1].fd
    BY <1>1 DEF FdOwnership
  <2>6. \A k \in 1..(Depth - 1) : stack'[k].fd \in Open'
    BY <1>1, <1>2, <2>3, <2>4, <2>5
  <2>7. ASSUME NEW k \in 1..(Depth - 1), NEW l \in 1..(Depth - 1), k # l
        PROVE  stack'[k].fd # stack'[l].fd
    BY <1>1, <1>2, <2>3, <2>7 DEF FdOwnership
  <2>. QED  BY <2>2, <2>6, <2>7 DEF FdOwnership, Depth
<1>4. CASE NestedReturnsNull
  <2>. DEFINE f == Goto(stack[Depth - 1], AfterNested)
  <2>1. f \in Frame /\ f.fd = stack[Depth - 1].fd
    BY <1>1, AfterNestedType, GotoType
  <2>2. /\ Len(stack') = Depth - 1
        /\ \A k \in 1..(Depth - 1) : stack'[k] = IF k = Depth - 1 THEN f ELSE stack[k]
    BY <1>1, <1>4, <2>1, PopStep DEF NestedReturnsNull
  <2>3. \A k \in 1..(Depth - 1) : stack'[k].fd = stack[k].fd
    BY <2>1, <2>2
  <2>4. Open' = Open
    BY <1>4 DEF NestedReturnsNull, Open
  <2>. QED  BY <1>1, <1>2, <2>2, <2>3, <2>4 DEF FdOwnership, Depth
<1>. QED  BY <1>3, <1>4

\* No object ever holds a closed descriptor or shares one with another object.
THEOREM Ownership == Spec => []FdOwnership
<1>1. Init => FdOwnership
  BY DEF Init, FdOwnership, Depth
<1>2. TypeOK /\ FdOwnership /\ [Next]_vars => FdOwnership'
  <2>1. TypeOK /\ FdOwnership /\ Disconnect => FdOwnership'
    BY DEF Disconnect, FdOwnership, Depth
  <2>. QED
    BY <2>1, SameFdsSteps, SameFdsOwnership, ConnectOwnership, TryAddressOwnership,
       NestedReturnsOwnership
<1>. QED  BY <1>1, <1>2, TypeCorrect, PTL DEF Spec

-----------------------------------------------------------------------------
(* What a returned connection has been checked for.                        *)

Excused == ghost.excuse \cap {"null", "reentry"} # {}

\* An activation is suspended inside an authentication only during a call
\* that has recorded it.
PendingInv == pending # <<>> => "reentry" \in ghost.excuse /\ ~Idle /\ Depth > 0

\* From the moment an activation has settled on its connection until the call
\* returns it, the socket is one that passed the check.
SettledInv ==
    ( /\ op = "reconnect" /\ ~Excused /\ Depth > 0
      /\ \/ Top.pc \in {"done", "getnonce", "authenticate"}
         \/ Top.pc = "idle" /\ result = "conn" )
    => Top.fd \in ghost.checked

VerifiedInv == PendingInv /\ SettledInv

\* A step that leaves the top object its socket and its place in the code.
LEMMA SameTopVerified ==
    ASSUME VerifiedInv, Depth > 0, Depth' = Depth, Top'.fd = Top.fd, Top'.pc = Top.pc,
           UNCHANGED <<pending, op, result, ghost>>
    PROVE  VerifiedInv'
BY DEF VerifiedInv, PendingInv, SettledInv, Excused, Idle

\* A step of the object on top to pc.
LEMMA GotoTop ==
    ASSUME TypeOK, Depth > 0, NEW f \in Frame, f.fd = Top.fd, SetTop(f)
    PROVE  Depth' = Depth /\ Top' = f /\ Top'.fd = Top.fd
<1>1. Len(stack') = Depth /\ stack'[Depth] = f
  BY TopType, SetTopStep
<1>. QED  BY <1>1 DEF Depth, Top

\* Calls of the application keep the invariant behind VerifiedReturn.
LEMMA ApplicationVerified == TypeOK /\ VerifiedInv /\ Application => VerifiedInv'
<1>. SUFFICES ASSUME TypeOK, VerifiedInv, Application PROVE VerifiedInv'
  OBVIOUS
<1>1. ASSUME NEW a \in Addrs, SeedAdd(a) PROVE VerifiedInv'
  <2>1. Depth > 0 /\ Top \in Frame
    BY <1>1, TopType DEF SeedAdd, Idle
  <2>2. Top.seeds \in Seq(Addrs)
    BY <2>1 DEF Frame
  <2>3. Append(Top.seeds, a) \in Seq(Addrs)
    BY <2>2
  <2>4. /\ [Top EXCEPT !.seeds = Append(@, a)] \in Frame
        /\ [Top EXCEPT !.seeds = Append(@, a)].fd = Top.fd
        /\ [Top EXCEPT !.seeds = Append(@, a)].pc = Top.pc
    BY <2>1, <2>3 DEF Frame
  <2>. QED  BY <1>1, <2>1, <2>4, GotoTop, SameTopVerified DEF SeedAdd
<1>2. ASSUME NEW b \in Slaveok, SetSlaveok(b) PROVE VerifiedInv'
  <2>1. Depth > 0 /\ Top \in Frame
    BY <1>2, TopType DEF SetSlaveok, Idle
  <2>2. /\ [Top EXCEPT !.slaveok = b] \in Frame
        /\ [Top EXCEPT !.slaveok = b].fd = Top.fd
        /\ [Top EXCEPT !.slaveok = b].pc = Top.pc
    BY <2>1, ReconnectAssumption DEF Frame
  <2>. QED  BY <1>2, <2>1, <2>2, GotoTop, SameTopVerified DEF SetSlaveok
<1>3. CASE CmdIsMaster
  <2>1. Depth > 0 /\ Top \in Frame
    BY <1>3, TopType DEF CmdIsMaster, Idle
  <2>. QED
    BY <1>3, <2>1, AfterIsMasterType, GotoTop, SameTopVerified DEF CmdIsMaster
<1>4. CASE \E b \in BOOLEAN : SetAutoReconnect(b)
  BY <1>4 DEF SetAutoReconnect, VerifiedInv, PendingInv, SettledInv, Excused, Idle,
     Top, Depth
<1>5. ASSUME NEW a \in Addrs,
             ConnectFails(a) \/ \E b \in Slaveok : Connect(a, b)
      PROVE  VerifiedInv'
  <2>1. Depth = 0 /\ pending' = pending /\ op' = "connect"
    BY <1>5, EmptySeq DEF ConnectFails, Connect, Depth
  <2>. QED  BY <2>1 DEF VerifiedInv, PendingInv, SettledInv
<1>6. CASE Disconnect
  BY <1>6 DEF Disconnect, VerifiedInv, PendingInv, SettledInv
<1>7. CASE Authenticate
  BY <1>7 DEF Authenticate, Begin, VerifiedInv, PendingInv, SettledInv
<1>8. ASSUME NEW b \in BOOLEAN, Reconnect(b) PROVE VerifiedInv'
  <2>1. Depth > 0 /\ SetTop(Goto(Top, "ping")) /\ pending = <<>> /\ pending' = pending
    BY <1>8 DEF Reconnect, Begin, Idle, VerifiedInv, PendingInv
  <2>2. Top'.pc = "ping"
    BY <2>1, TopType, GotoType, GotoTop DEF Pcs
  <2>. QED  BY <2>1, <2>2 DEF VerifiedInv, PendingInv, SettledInv
<1>. QED
  BY <1>1, <1>2, <1>3, <1>4, <1>5, <1>6, <1>7, <1>8 DEF Application

\* The step moves the top object to a place where it has not settled.
LEMMA UnsettledVerified ==
    ASSUME TypeOK, VerifiedInv, Depth > 0, NEW f \in Frame, SetTop(f), ~Idle,
           f.pc \notin {"done", "getnonce", "authenticate", "idle"},
           pending' = pending, ghost'.excuse = ghost.excuse
    PROVE  VerifiedInv'
<1>1. Depth' = Depth /\ Top' = f
  <2>1. Len(stack') = Depth /\ stack'[Depth] = f
    BY TopType, SetTopStep
  <2>. QED  BY <2>1 DEF Depth, Top
<1>. QED  BY <1>1 DEF VerifiedInv, PendingInv, SettledInv, Idle

\* The step settles the activation on the socket of the top object, which has
\* passed the check.
LEMMA SettledVerified ==
    ASSUME TypeOK, VerifiedInv, Depth > 0, NEW f \in Frame, SetTop(f), ~Idle,
           f.pc \in {"done", "getnonce", "authenticate"},
           pending' = pending, ghost'.excuse = ghost.excuse,
           op = "reconnect" /\ ~Excused => f.fd \in ghost'.checked,
           op' = op
    PROVE  VerifiedInv'
<1>1. Depth' = Depth /\ Top' = f
  <2>1. Len(stack') = Depth /\ stack'[Depth] = f
    BY TopType, SetTopStep
  <2>. QED  BY <2>1 DEF Depth, Top
<1>. QED  BY <1>1 DEF VerifiedInv, PendingInv, SettledInv, Excused, Idle

\* The search for an address keeps it.
LEMMA SearchVerified ==
    ASSUME TypeOK, VerifiedInv,
           \/ PingFails \/ PingAnswered \/ MasterFound \/ NotMaster \/ RefreshHosts
           \/ TryPrimary \/ TryHosts \/ TrySeeds
    PROVE  VerifiedInv'
<1>1. Depth > 0 /\ ~Idle /\ Top \in Frame /\ Top.fd \in Fds
  <2>1. Depth > 0 /\ ~Idle
    BY DEF PingFails, PingAnswered, MasterFound, NotMaster, RefreshHosts, TryPrimary,
       TryHosts, TrySeeds, Running, Idle
  <2>. QED  BY <2>1, TopType DEF Frame
<1>2. \A pc \in Pcs : /\ Goto(Top, pc) \in Frame
                      /\ Goto(Top, pc).pc = pc
                      /\ Goto(Top, pc).fd = Top.fd
  BY <1>1, GotoType
<1>3. \A pc \in Pcs : /\ Goto(AfterIsMaster(Top), pc) \in Frame
                      /\ Goto(AfterIsMaster(Top), pc).pc = pc
                      /\ Goto(AfterIsMaster(Top), pc).fd = Top.fd
  BY <1>1, AfterIsMasterType, GotoType
<1>4. /\ "primary" \in Pcs /\ "master" \in Pcs /\ "done" \in Pcs /\ "null" \in Pcs
      /\ "refresh" \in Pcs /\ "hosts" \in Pcs /\ "seeds" \in Pcs /\ "wait" \in Pcs
      /\ "ping" \in Pcs
  BY DEF Pcs
<1>5. \A master : Check(Top.fd, master) =>
        /\ ghost'.excuse = ghost.excuse
        /\ (force => master) => Top.fd \in ghost'.checked
  BY DEF Check, TypeOK, Observations
<1>6. CASE PingFails
  BY <1>1, <1>2, <1>4, <1>6, UnsettledVerified DEF PingFails, Local
<1>7. CASE PingAnswered
  <2>1. CASE force
    BY <1>1, <1>2, <1>4, <1>5, <1>7, <2>1, UnsettledVerified
    DEF PingAnswered, AfterPing, Local
  <2>2. CASE ~force
    BY <1>1, <1>2, <1>4, <1>5, <1>7, <2>2, SettledVerified
    DEF PingAnswered, AfterPing, Local
  <2>. QED  BY <2>1, <2>2
<1>8. CASE MasterFound
  BY <1>1, <1>3, <1>4, <1>5, <1>8, SettledVerified DEF MasterFound, Local
<1>9. CASE NotMaster
  BY <1>1, <1>3, <1>4, <1>9, UnsettledVerified DEF NotMaster, Local
<1>10. CASE RefreshHosts
  BY <1>1, <1>3, <1>4, <1>10, UnsettledVerified DEF RefreshHosts, Local
<1>11. ASSUME NEW pc \in {"hosts", "seeds", "null"}, MoveOn(Top, pc) PROVE VerifiedInv'
  <2>1. /\ [Top EXCEPT !.pc = pc, !.i = 1] \in Frame
        /\ [Top EXCEPT !.pc = pc, !.i = 1].pc = pc
    BY <1>1, <1>4 DEF Frame
  <2>. QED  BY <1>1, <1>11, <2>1, UnsettledVerified DEF MoveOn, Local
<1>12. ASSUME SkipAddress PROVE VerifiedInv'
  <2>1. /\ [Top EXCEPT !.i = @ + 1] \in Frame
        /\ [Top EXCEPT !.i = @ + 1].fd = Top.fd
        /\ [Top EXCEPT !.i = @ + 1].pc = Top.pc
    BY <1>1 DEF Frame
  <2>. QED
    BY <1>1, <1>12, <2>1, GotoTop, SameTopVerified DEF SkipAddress, Local
<1>13. ASSUME NEW a \in Addrs, TryAddress(a) PROVE VerifiedInv'
  <2>1. PICK fd \in Fds :
          stack' = Append([stack EXCEPT ![Depth] = Goto(Top, "wait")],
                          NewConnection(a, fd, Top.slaveok, "ping"))
    BY <1>13 DEF TryAddress
  <2>2. NewConnection(a, fd, Top.slaveok, "ping") \in Frame
    BY <1>1, <1>4, NewConnectionType DEF Frame
  <2>3. [stack EXCEPT ![Depth] = Goto(Top, "wait")] \in Seq(Frame)
    BY <1>1, <1>2, <1>4, SetTopType DEF TypeOK, Depth
  <2>4. stack'[Len(stack')].pc = "ping" /\ Len(stack') > 0
    BY <2>1, <2>2, <2>3 DEF NewConnection
  <2>5. Depth' > 0 /\ Top'.pc = "ping"
    BY <2>4 DEF Depth, Top
  <2>. QED
    BY <1>13, <2>5 DEF TryAddress, VerifiedInv, PendingInv, SettledInv, Idle
<1>14. \A a : Connectable(a) => a \in Addrs
  BY ReconnectAssumption DEF Connectable, Up
<1>15. CASE TryPrimary \/ TryHosts \/ TrySeeds
  BY <1>11, <1>12, <1>13, <1>14, <1>15 DEF TryPrimary, TryHosts, TrySeeds
<1>. QED  BY <1>6, <1>7, <1>8, <1>9, <1>10, <1>15

\* Returns from an activation keep it.
LEMMA ReturnVerified ==
    ASSUME TypeOK, VerifiedInv,
           NestedReturnsConn \/ NestedReturnsNull \/ ReturnConn \/ ReturnNull
    PROVE  VerifiedInv'
<1>1. Depth > 0 /\ ~Idle /\ Top \in Frame
  BY TopType DEF NestedReturnsConn, NestedReturnsNull, ReturnConn, ReturnNull, Running,
     Idle
<1>2. AfterNested \in {"getnonce", "done"} /\ AfterNested \in Pcs
  BY DEF AfterNested, Pcs
<1>3. CASE NestedReturnsConn
  <2>. DEFINE f == Goto(Replaced(stack[Depth - 1], Top), AfterNested)
  <2>1. f \in Frame /\ f.fd = Top.fd /\ f.pc = AfterNested
    BY <1>1, <1>2, <1>3, BelowType, ReplacedType, GotoType DEF NestedReturnsConn
  <2>2. Len(stack') = Depth - 1 /\ stack'[Depth - 1] = f /\ Depth \in Nat
    BY <1>1, <1>3, <2>1, TopType, PopStep DEF NestedReturnsConn
  <2>3. Depth' > 0 /\ Top' = f
    BY <1>3, <2>2 DEF NestedReturnsConn, Depth, Top
  <2>. QED
    BY <1>1, <1>2, <1>3, <2>1, <2>3
    DEF NestedReturnsConn, Running, VerifiedInv, PendingInv, SettledInv, Excused, Idle
<1>4. CASE NestedReturnsNull
  <2>. DEFINE f == Goto(stack[Depth - 1], AfterNested)
  <2>1. f \in Frame /\ f.pc = AfterNested
    BY <1>2, <1>4, BelowType, GotoType DEF NestedReturnsNull
  <2>2. Len(stack') = Depth - 1 /\ stack'[Depth - 1] = f /\ Depth \in Nat
    BY <1>1, <1>4, <2>1, TopType, PopStep DEF NestedReturnsNull
  <2>3. Depth' > 0 /\ Top' = f
    BY <1>4, <2>2 DEF NestedReturnsNull, Depth, Top
  <2>4. ghost'.excuse = ghost.excuse \cup {"null"}
    BY <1>4 DEF NestedReturnsNull, TypeOK, Observations
  <2>. QED
    BY <1>2, <1>4, <2>1, <2>3, <2>4
    DEF NestedReturnsNull, VerifiedInv, PendingInv, SettledInv, Excused, Idle
<1>5. CASE ReturnConn \/ ReturnNull
  <2>1. Depth' = Depth /\ Top' = Goto(Top, "idle") /\ Top'.fd = Top.fd /\ Top'.pc = "idle"
    <3>1. Goto(Top, "idle") \in Frame /\ Goto(Top, "idle").pc = "idle"
          /\ Goto(Top, "idle").fd = Top.fd
      BY <1>1, GotoType DEF Pcs
    <3>. QED  BY <1>1, <1>5, <3>1, GotoTop DEF ReturnConn, ReturnNull, Finish
  <2>2. pending = <<>> /\ pending' = pending /\ ghost' = ghost /\ op' = op
    BY <1>5 DEF ReturnConn, ReturnNull, Finish
  <2>3. CASE ReturnConn
    BY <1>1, <2>1, <2>2, <2>3
    DEF ReturnConn, Running, VerifiedInv, PendingInv, SettledInv, Excused
  <2>4. CASE ReturnNull
    BY <2>1, <2>2, <2>4 DEF ReturnNull, Finish, VerifiedInv, PendingInv, SettledInv
  <2>. QED  BY <1>5, <2>3, <2>4
<1>. QED  BY <1>3, <1>4, <1>5

\* The steps of mongo_sync_cmd_authenticate keep it.
LEMMA AuthenticationVerified ==
    ASSUME TypeOK, VerifiedInv,
           \/ ResumeAuthentication \/ GetNonce
           \/ AuthenticateAccepted \/ AuthenticateFails \/ SendFailsReconnect
    PROVE  VerifiedInv'
<1>1. Depth > 0 /\ ~Idle /\ Top \in Frame
  BY TopType DEF ResumeAuthentication, GetNonce, AuthenticateAccepted,
     AuthenticateFails, SendFailsReconnect, Running, Idle
<1>2. \A pc \in Pcs : /\ Goto(Top, pc) \in Frame
                      /\ Goto(Top, pc).pc = pc
                      /\ Goto(Top, pc).fd = Top.fd
  BY <1>1, GotoType
<1>3. \A pc \in {"getnonce", "authenticate", "done", "ping"} :
        SetTop(Goto(Top, pc)) => Depth' = Depth /\ Top'.fd = Top.fd /\ Top'.pc = pc
  BY <1>1, <1>2, GotoTop DEF Pcs
<1>4. CASE ResumeAuthentication
  <2>1. "reentry" \in ghost.excuse /\ ghost' = ghost
    BY <1>4 DEF ResumeAuthentication, VerifiedInv, PendingInv
  <2>2. pending[Len(pending)] \in Pending
    BY <1>4, EmptySeq, ElementOfSeq, LenProperties DEF ResumeAuthentication, TypeOK
  <2>3. pending[Len(pending)].pc \in {"getnonce", "authenticate"}
    BY <2>2 DEF Pending
  <2>4. Depth' = Depth /\ Top'.pc # "idle"
    BY <1>3, <1>4, <2>3 DEF ResumeAuthentication
  <2>. QED
    BY <1>1, <2>1, <2>4 DEF VerifiedInv, PendingInv, SettledInv, Excused, Idle
<1>5. CASE GetNonce
  BY <1>1, <1>3, <1>5
  DEF GetNonce, Running, VerifiedInv, PendingInv, SettledInv, Excused, Idle
<1>6. CASE AuthenticateAccepted
  BY <1>1, <1>3, <1>6
  DEF AuthenticateAccepted, Running, VerifiedInv, PendingInv, SettledInv, Excused, Idle
<1>7. CASE AuthenticateFails
  <2>1. /\ ghost'.excuse = ghost.excuse \cup {"auth"}
        /\ ghost'.checked = ghost.checked
    BY <1>7 DEF AuthenticateFails, TypeOK, Observations
  <2>. QED
    BY <1>1, <1>3, <1>7, <2>1
    DEF AuthenticateFails, Running, VerifiedInv, PendingInv, SettledInv, Excused, Idle
<1>8. CASE SendFailsReconnect
  <2>1. ghost'.excuse = ghost.excuse \cup {"reentry"}
    BY <1>8 DEF SendFailsReconnect, TypeOK, Observations
  <2>. QED
    BY <1>1, <1>3, <1>8, <2>1
    DEF SendFailsReconnect, VerifiedInv, PendingInv, SettledInv, Excused, Idle
<1>. QED  BY <1>4, <1>5, <1>6, <1>7, <1>8

LEMMA VerifiedAlways == Spec => []VerifiedInv
<1>1. Init => VerifiedInv
  BY EmptySeq DEF Init, VerifiedInv, PendingInv, SettledInv, Depth
<1>2. TypeOK /\ VerifiedInv /\ [Next]_vars => VerifiedInv'
  <2>. SUFFICES ASSUME TypeOK, VerifiedInv, [Next]_vars PROVE VerifiedInv'
    OBVIOUS
  <2>1. CASE Environment \/ UNCHANGED vars
    <3>1. UNCHANGED progVars
      BY <2>1 DEF Environment, ServerDown, ServerUp, Elect, StepDown, LinkBreaks, vars
    <3>. QED
      BY <3>1 DEF progVars, VerifiedInv, PendingInv, SettledInv, Excused, Idle, Top, Depth
  <2>2. CASE Application
    BY <2>2, ApplicationVerified
  <2>3. CASE Library
    BY <2>3, SearchVerified, ReturnVerified, AuthenticationVerified DEF Library
  <2>. QED  BY <2>1, <2>2, <2>3 DEF Next
<1>. QED  BY <1>1, <1>2, TypeCorrect, PTL DEF Spec

\* A connection that mongo_sync_reconnect returns has passed the check asked
\* for on the socket it now holds, unless a nested call returned NULL or the
\* re-authentication reconnected by itself.
THEOREM ReturnedIsVerified == Spec => []VerifiedReturn
<1>1. VerifiedInv => VerifiedReturn
  BY DEF VerifiedInv, SettledInv, Excused, VerifiedReturn, Idle, Top
<1>. QED  BY <1>1, VerifiedAlways, PTL
-----------------------------------------------------------------------------
(* The shapes of the steps, for the proofs that follow.                    *)

\* An activation that has not settled on a connection.
Search == {"ping", "master", "refresh", "primary", "hosts", "seeds", "null"}

Settled == {"done", "getnonce", "authenticate"}

\* A step of mongo_sync_reconnect that opens nothing and does not return.
SearchStep ==
    \E f \in Frame :
        /\ Depth > 0 /\ Top.pc \in Search
        /\ SetTop(f)
        /\ f.fd = Top.fd /\ f.slaveok = Top.slaveok /\ f.seeds = Top.seeds
        /\ f.pc \in Search \cup {"done"}
        /\ UNCHANGED <<peer, authed, creds, pending, op, result>>
        /\ ghost'.excuse = ghost.excuse /\ ghost'.fd0 = ghost.fd0 /\ ghost'.lost = ghost.lost
        /\ ghost'.checked \in {ghost.checked, ghost.checked \cup {Top.fd}}

\* What a step leaves that replaces the object on top.
LEMMA SetTopShape ==
    ASSUME TypeOK, Depth > 0, NEW f \in Frame, SetTop(f)
    PROVE  /\ Depth \in Nat /\ Depth' = Depth /\ Top' = f
           /\ \A k \in 1..Depth : stack'[k] = IF k = Depth THEN f ELSE stack[k]
BY SetTopStep, TopType DEF Depth, Top

\* What a step leaves that opens a connection and recurs.
LEMMA TryAddressShape ==
    ASSUME TypeOK, Depth > 0, NEW a \in Addrs, TryAddress(a)
    PROVE  \E fd \in Fds \ Open, n \in Frame :
             /\ OpenSocket(a, fd)
             /\ n.fd = fd /\ n.pc = "ping" /\ n.slaveok = Top.slaveok
             /\ Depth \in Nat /\ Depth' = Depth + 1 /\ Top' = n
             /\ \A k \in 1..(Depth + 1) :
                  stack'[k] = IF k = Depth + 1 THEN n
                              ELSE IF k = Depth THEN Goto(Top, "wait") ELSE stack[k]
<1>1. PICK fd \in Fds :
        /\ OpenSocket(a, fd)
        /\ stack' = Append([stack EXCEPT ![Depth] = Goto(Top, "wait")],
                           NewConnection(a, fd, Top.slaveok, "ping"))
  BY DEF TryAddress
<1>. DEFINE s == [stack EXCEPT ![Depth] = Goto(Top, "wait")]
            n == NewConnection(a, fd, Top.slaveok, "ping")
<1>2. Goto(Top, "wait") \in Frame
  BY TopType, GotoType DEF Pcs
<1>3. /\ s \in Seq(Frame) /\ Len(s) = Depth
      /\ \A k \in 1..Depth : s[k] = IF k = Depth THEN Goto(Top, "wait") ELSE stack[k]
  BY <1>2, TopType, ExceptSeq DEF TypeOK, Depth
<1>4. n \in Frame /\ n.fd = fd /\ n.pc = "ping" /\ n.slaveok = Top.slaveok
  <2>1. Top.slaveok \in BOOLEAN
    BY TopType DEF Frame
  <2>2. n \in Frame /\ n.fd = fd /\ n.pc = "ping"
    BY <2>1, NewConnectionType DEF Pcs
  <2>3. n.slaveok = Top.slaveok
    BY DEF NewConnection
  <2>. QED  BY <2>2, <2>3
<1>5. Len(stack') = Depth + 1 /\ stack'[Depth + 1] = n /\ \A k \in 1..Depth : stack'[k] = s[k]
  BY <1>1, <1>3, <1>4
<1>6. fd \in Fds \ Open
  BY <1>1 DEF OpenSocket
<1>7. Depth \in Nat /\ Depth' = Depth + 1 /\ Top' = n
  BY <1>5, TopType DEF Depth, Top
<1>8. \A k \in 1..(Depth + 1) :
        stack'[k] = IF k = Depth + 1 THEN n
                    ELSE IF k = Depth THEN Goto(Top, "wait") ELSE stack[k]
  BY <1>3, <1>5, <1>7
<1>. HIDE DEF n, s
<1>. QED  BY <1>1, <1>4, <1>6, <1>7, <1>8

\* What a return to the activation below leaves.
LEMMA PopShape ==
    ASSUME TypeOK, Depth > 1, NEW f \in Frame, Pop(f)
    PROVE  /\ Depth \in Nat /\ Depth' = Depth - 1 /\ Depth' > 0 /\ Top' = f
           /\ \A k \in 1..(Depth - 1) : stack'[k] = IF k = Depth - 1 THEN f ELSE stack[k]
<1>0. Depth \in Nat
  BY LenProperties DEF TypeOK, Depth
<1>1. Len(stack') = Depth - 1 /\ Depth \in Nat
  BY <1>0, PopStep
<1>2. \A k \in 1..(Depth - 1) : stack'[k] = IF k = Depth - 1 THEN f ELSE stack[k]
  BY PopStep
<1>3. stack'[Depth - 1] = f
  BY <1>1, <1>2
<1>. QED  BY <1>1, <1>2, <1>3 DEF Depth, Top

\* Every step of the search is one of two kinds.
LEMMA SearchSteps ==
    ASSUME TypeOK,
           \/ PingFails \/ PingAnswered \/ MasterFound \/ NotMaster \/ RefreshHosts
           \/ TryPrimary \/ TryHosts \/ TrySeeds
    PROVE  \/ SearchStep
           \/ /\ Depth > 0 /\ Top.pc \in {"primary", "hosts", "seeds"}
              /\ \E a \in Addrs : TryAddress(a)
<1>1. Depth > 0 /\ Top \in Frame /\ Top.fd \in Fds
  <2>1. Depth > 0
    BY DEF PingFails, PingAnswered, MasterFound, NotMaster, RefreshHosts, TryPrimary,
       TryHosts, TrySeeds, Running
  <2>. QED  BY <2>1, TopType DEF Frame
<1>. DEFINE Same(f) == f.fd = Top.fd /\ f.slaveok = Top.slaveok /\ f.seeds = Top.seeds
<1>2. \A pc \in Pcs : Goto(Top, pc) \in Frame /\ Goto(Top, pc).pc = pc /\ Same(Goto(Top, pc))
  BY <1>1 DEF Goto, Frame
<1>3. AfterIsMaster(Top) \in Frame /\ Same(AfterIsMaster(Top))
  BY <1>1, AfterIsMasterType DEF AfterIsMaster, IsMasterReply, Frame
<1>4. \A pc \in Pcs : /\ Goto(AfterIsMaster(Top), pc) \in Frame
                      /\ Goto(AfterIsMaster(Top), pc).pc = pc
                      /\ Same(Goto(AfterIsMaster(Top), pc))
  BY <1>3 DEF Goto, Frame
<1>5. Search \cup {"done"} \subseteq Pcs
  BY DEF Search, Pcs
<1>6. \A master : Check(Top.fd, master) =>
        /\ ghost'.excuse = ghost.excuse /\ ghost'.fd0 = ghost.fd0 /\ ghost'.lost = ghost.lost
        /\ ghost'.checked \in {ghost.checked, ghost.checked \cup {Top.fd}}
  BY DEF Check, TypeOK, Observations
<1>7. ASSUME NEW f \in Frame, Same(f), f.pc \in Search \cup {"done"}, SetTop(f), Local,
             Top.pc \in Search, UNCHANGED ghost \/ \E master : Check(Top.fd, master)
      PROVE  SearchStep
  BY <1>1, <1>6, <1>7 DEF SearchStep, Local
<1>8. CASE PingFails
  <2>1. "primary" \in Search /\ "ping" \in Search
    BY DEF Search
  <2>. QED  BY <1>2, <1>5, <1>7, <1>8, <2>1 DEF PingFails, Running
<1>9. CASE PingAnswered
  <2>1. AfterPing \in Search \cup {"done"} /\ "ping" \in Search
    BY DEF AfterPing, Search
  <2>. QED  BY <1>2, <1>5, <1>7, <1>9, <2>1 DEF PingAnswered, Running
<1>10. CASE MasterFound
  <2>1. "master" \in Search
    BY DEF Search
  <2>. QED  BY <1>4, <1>5, <1>7, <1>10, <2>1 DEF MasterFound, Running
<1>11. CASE NotMaster \/ RefreshHosts
  <2>1. {"master", "refresh", "primary"} \subseteq Search
    BY DEF Search
  <2>. QED  BY <1>4, <1>5, <1>7, <1>11, <2>1 DEF NotMaster, RefreshHosts, Running
<1>12. ASSUME Top.pc \in Search, NEW pc \in {"hosts", "seeds", "null"}, MoveOn(Top, pc)
       PROVE  SearchStep
  <2>1. pc \in Search /\ pc \in Pcs
    BY DEF Search, Pcs
  <2>2. LET f == [Top EXCEPT !.pc = pc, !.i = 1] IN f \in Frame /\ Same(f) /\ f.pc = pc
    BY <1>1, <2>1 DEF Frame
  <2>. QED  BY <1>7, <1>12, <2>1, <2>2 DEF MoveOn
<1>13. ASSUME Top.pc \in Search, SkipAddress PROVE SearchStep
  <2>1. LET f == [Top EXCEPT !.i = @ + 1] IN f \in Frame /\ Same(f) /\ f.pc = Top.pc
    BY <1>1 DEF Frame
  <2>. QED  BY <1>7, <1>13, <2>1 DEF SkipAddress
<1>14. \A a : Connectable(a) => a \in Addrs
  BY ReconnectAssumption DEF Connectable, Up
<1>15. CASE TryPrimary \/ TryHosts \/ TrySeeds
  <2>1. Top.pc \in {"primary", "hosts", "seeds"} /\ {"primary", "hosts", "seeds"} \subseteq Search
    BY <1>15 DEF TryPrimary, TryHosts, TrySeeds, Running, Search
  <2>. QED  BY <1>1, <1>12, <1>13, <1>14, <1>15, <2>1 DEF TryPrimary, TryHosts, TrySeeds
<1>. QED  BY <1>8, <1>9, <1>10, <1>11, <1>15
-----------------------------------------------------------------------------
(* The call in progress, seen from the caller's connection.                *)

\* Below the top every activation waits for the one above it, and a call is
\* in progress exactly while the caller's object is not idle.
WaitInv ==
    /\ \A k \in 1..(Depth - 1) : stack[k].pc = "wait"
    /\ Depth > 1 => Top.pc # "idle"
    /\ Depth > 0 /\ ~Idle => op \in {"reconnect", "authenticate"}

\* mongo_sync_cmd_authenticate runs a mongo_sync_reconnect only as a
\* re-entry, which is on record in `pending'.
AuthInv ==
    op = "authenticate" /\ pending = <<>> /\ Depth > 0 =>
        Depth = 1 /\ Top.pc \in Settled \cup {"idle"}

\* Until the caller's activation settles, its connection has the socket that
\* the call began with.
KeptInv ==
    op = "reconnect" /\ pending = <<>> /\ Depth > 0 /\ stack[1].pc \notin Settled \cup {"idle"} =>
        stack[1].fd = ghost.fd0

\* Once it has settled on another socket, and nothing excuses it, that socket is
\* authenticated or about to be.
ReauthInv ==
    ( /\ op = "reconnect" /\ Depth = 1 /\ creds /\ ghost.excuse = {}
      /\ stack[1].fd # ghost.fd0
      /\ Top.pc = "done" \/ (Top.pc = "idle" /\ result = "conn") )
    => stack[1].fd \in authed

\* Connections opened by the recursion have the flag of the caller's.
SlaveokInv == \A k \in 1..Depth : stack[k].slaveok = stack[1].slaveok

RunInv == WaitInv /\ AuthInv /\ KeptInv /\ ReauthInv /\ SlaveokInv

\* A search changes nothing of the caller's connection.
LEMMA SearchRun == ASSUME TypeOK, RunInv, VerifiedInv, SearchStep PROVE RunInv'
<1>1. PICK f \in Frame :
        /\ Depth > 0 /\ Top.pc \in Search
        /\ SetTop(f)
        /\ f.fd = Top.fd /\ f.slaveok = Top.slaveok /\ f.pc \in Search \cup {"done"}
        /\ UNCHANGED <<peer, authed, creds, pending, op, result>>
        /\ ghost'.excuse = ghost.excuse /\ ghost'.fd0 = ghost.fd0
  BY DEF SearchStep
<1>2. /\ Depth \in Nat /\ Depth' = Depth /\ Top' = f
      /\ \A k \in 1..Depth : stack'[k] = IF k = Depth THEN f ELSE stack[k]
  BY <1>1, SetTopShape
<1>3. Top.pc \notin Settled \cup {"idle"} /\ Top.pc # "idle" /\ f.pc # "idle" /\ ~Idle
  BY <1>1 DEF Search, Settled, Idle
<1>4. stack'[1].fd = stack[1].fd /\ stack'[1].slaveok = stack[1].slaveok
  BY <1>1, <1>2 DEF Top
<1>5. WaitInv'
  BY <1>1, <1>2, <1>3 DEF RunInv, WaitInv, Idle
<1>6. AuthInv'
  BY <1>1, <1>3 DEF RunInv, AuthInv
<1>7. Depth > 1 => stack[1].pc \notin Settled \cup {"idle"}
  BY <1>2 DEF RunInv, WaitInv, Settled
<1>8. Depth = 1 => stack[1] = Top
  BY DEF Top
<1>9. KeptInv'
  BY <1>1, <1>2, <1>3, <1>4, <1>7, <1>8 DEF RunInv, KeptInv
<1>10. ReauthInv'
  BY <1>1, <1>2, <1>3, <1>4, <1>8 DEF RunInv, ReauthInv, KeptInv, VerifiedInv, PendingInv
<1>11. SlaveokInv'
  BY <1>1, <1>2, <1>4 DEF RunInv, SlaveokInv, Top
<1>. QED  BY <1>5, <1>6, <1>9, <1>10, <1>11 DEF RunInv

\* Nor does opening a connection.
LEMMA TryAddressRun ==
    ASSUME TypeOK, RunInv, Depth > 0, Top.pc \in {"primary", "hosts", "seeds"},
           NEW a \in Addrs, TryAddress(a)
    PROVE  RunInv'
<1>1. PICK fd \in Fds \ Open, n \in Frame :
        /\ n.fd = fd /\ n.pc = "ping" /\ n.slaveok = Top.slaveok
        /\ Depth \in Nat /\ Depth' = Depth + 1 /\ Top' = n
        /\ \A k \in 1..(Depth + 1) :
             stack'[k] = IF k = Depth + 1 THEN n
                         ELSE IF k = Depth THEN Goto(Top, "wait") ELSE stack[k]
  BY TryAddressShape
<1>2. UNCHANGED <<authed, creds, pending, op, result, ghost>>
  BY DEF TryAddress
<1>3. /\ Goto(Top, "wait").pc = "wait" /\ Goto(Top, "wait").fd = Top.fd
      /\ Goto(Top, "wait").slaveok = Top.slaveok
  BY TopType DEF Goto, Frame
<1>4. /\ \A k \in 1..Depth : stack'[k] = IF k = Depth THEN Goto(Top, "wait") ELSE stack[k]
      /\ stack'[Depth + 1] = n
  BY <1>1
<1>5. \A k \in 1..Depth : stack'[k].fd = stack[k].fd /\ stack'[k].slaveok = stack[k].slaveok
  BY <1>3, <1>4 DEF Top
<1>6. stack'[1].fd = stack[1].fd /\ stack'[1].slaveok = stack[1].slaveok
  BY <1>1, <1>5
<1>7. \A k \in 1..Depth : stack'[k].pc = "wait"
  BY <1>1, <1>3, <1>4 DEF RunInv, WaitInv
<1>8. Top.pc \notin Settled \cup {"idle"} /\ ~Idle
  BY DEF Settled, Idle
<1>9. WaitInv'
  BY <1>1, <1>2, <1>7, <1>8 DEF RunInv, WaitInv
<1>10. AuthInv'
  BY <1>1, <1>2, <1>8 DEF RunInv, AuthInv
<1>11. stack[1].pc \notin Settled \cup {"idle"}
  BY <1>1, <1>8 DEF RunInv, WaitInv, Settled, Top
<1>12. KeptInv'
  BY <1>1, <1>2, <1>6, <1>11 DEF RunInv, KeptInv
<1>13. ReauthInv'
  BY <1>1 DEF ReauthInv
<1>14. SlaveokInv'
  <2>1. Top.slaveok = stack[1].slaveok
    BY <1>1 DEF RunInv, SlaveokInv, Top
  <2>. QED  BY <1>1, <1>4, <1>5, <1>6, <2>1 DEF RunInv, SlaveokInv
<1>. QED  BY <1>9, <1>10, <1>12, <1>13, <1>14 DEF RunInv

\* Returning to the activation below: it settles.
LEMMA NestedReturnsRun ==
    ASSUME TypeOK, FdOwnership, RunInv, VerifiedInv, NestedReturnsConn \/ NestedReturnsNull
    PROVE  RunInv'
<1>. DEFINE old == stack[Depth - 1]
            f == IF Running("done") THEN Goto(Replaced(old, Top), AfterNested)
                 ELSE Goto(old, AfterNested)
<1>1. Depth > 1 /\ Top \in Frame /\ old \in Frame /\ Depth - 1 \in 1..Depth /\ Depth \in Nat
  BY TopType, BelowType DEF NestedReturnsConn, NestedReturnsNull, Running
<1>2. AfterNested \in {"getnonce", "done"} /\ AfterNested \in Pcs
  BY DEF AfterNested, Pcs
<1>3. ~(Running("done") /\ Running("null"))
  BY DEF Running
<1>4. Replaced(old, Top) \in Frame /\ Replaced(old, Top).slaveok = Top.slaveok
  BY <1>1, ReplacedType DEF Replaced, Frame
<1>5. old.slaveok = Top.slaveok
  BY <1>1 DEF RunInv, SlaveokInv, Top
<1>6. f \in Frame /\ f.pc = AfterNested /\ f.slaveok = old.slaveok
  BY <1>1, <1>2, <1>4, <1>5, GotoType DEF Goto, Frame
<1>7. Pop(f)
  BY <1>3 DEF NestedReturnsConn, NestedReturnsNull
<1>. HIDE DEF f
<1>8. /\ Depth' = Depth - 1 /\ Depth' > 0 /\ Top' = f
      /\ \A k \in 1..(Depth - 1) : stack'[k] = IF k = Depth - 1 THEN f ELSE stack[k]
  BY <1>1, <1>6, <1>7, PopShape
<1>9. UNCHANGED <<creds, pending, op, result>>
  BY DEF NestedReturnsConn, NestedReturnsNull
<1>10. ~Idle /\ ~Idle'
  BY <1>1, <1>2, <1>6, <1>8 DEF Idle
<1>11. WaitInv'
  BY <1>1, <1>2, <1>6, <1>8, <1>9, <1>10 DEF RunInv, WaitInv
<1>12. AuthInv'
  BY <1>1, <1>9 DEF RunInv, AuthInv
<1>13. ghost'.fd0 = ghost.fd0
  BY DEF NestedReturnsConn, NestedReturnsNull, TypeOK, Observations
<1>14. KeptInv'
  <2>1. CASE Depth = 2
    <3>1. stack'[1].pc \in Settled
      BY <1>1, <1>2, <1>6, <1>8, <2>1 DEF Settled
    <3>. QED  BY <3>1 DEF KeptInv
  <2>2. CASE Depth > 2
    <3>1. stack'[1] = stack[1] /\ stack[1].pc = "wait"
      BY <1>1, <1>8, <2>2 DEF RunInv, WaitInv
    <3>. QED  BY <1>1, <1>9, <1>13, <2>2, <3>1 DEF RunInv, KeptInv, Settled
  <2>. QED  BY <1>1, <2>1, <2>2
<1>15. ReauthInv'
  <2>1. CASE NestedReturnsConn
    <3>1. Depth' = 1 /\ creds => Top'.pc = "getnonce"
      BY <1>1, <1>6, <1>8 DEF AfterNested
    <3>. QED  BY <1>9, <3>1 DEF ReauthInv
  <2>2. CASE NestedReturnsNull
    BY <2>2 DEF NestedReturnsNull, ReauthInv, TypeOK, Observations
  <2>. QED  BY <2>1, <2>2
<1>16. SlaveokInv'
  BY <1>1, <1>6, <1>8 DEF RunInv, SlaveokInv
<1>. QED  BY <1>11, <1>12, <1>14, <1>15, <1>16 DEF RunInv

\* The authentication, and the return of a re-entry, settle the caller's object
\* or suspend it.
LEMMA AuthenticationRun ==
    ASSUME TypeOK, RunInv, VerifiedInv,
           \/ ResumeAuthentication \/ GetNonce
           \/ AuthenticateAccepted \/ AuthenticateFails \/ SendFailsReconnect
    PROVE  RunInv'
<1>1. Depth > 0 /\ ~Idle /\ Top \in Frame
  BY TopType DEF ResumeAuthentication, GetNonce, AuthenticateAccepted,
     AuthenticateFails, SendFailsReconnect, Running, Idle
<1>2. PICK pc \in Settled \cup {"ping"} :
        /\ SetTop(Goto(Top, pc))
        /\ pc = "ping" => SendFailsReconnect
  <2>1. CASE ResumeAuthentication
    <3>1. pending[Len(pending)] \in Pending
      BY <2>1, EmptySeq, ElementOfSeq, LenProperties DEF ResumeAuthentication, TypeOK
    <3>. QED  BY <2>1, <3>1 DEF ResumeAuthentication, Pending, Settled
  <2>2. CASE GetNonce \/ AuthenticateAccepted \/ AuthenticateFails \/ SendFailsReconnect
    BY <2>2 DEF GetNonce, AuthenticateAccepted, AuthenticateFails, SendFailsReconnect,
       Settled
  <2>. QED  BY <2>1, <2>2
<1>. DEFINE f == Goto(Top, pc)
<1>3. f \in Frame /\ f.pc = pc /\ f.fd = Top.fd /\ f.slaveok = Top.slaveok
  BY <1>1 DEF Goto, Frame, Settled, Pcs
<1>. HIDE DEF f
<1>4. /\ Depth \in Nat /\ Depth' = Depth /\ Top' = f
      /\ \A k \in 1..Depth : stack'[k] = IF k = Depth THEN f ELSE stack[k]
  BY <1>1, <1>2, <1>3, SetTopShape DEF f
<1>5. UNCHANGED <<op, result>> /\ ghost'.fd0 = ghost.fd0 /\ ghost.excuse \subseteq ghost'.excuse
  BY DEF ResumeAuthentication, GetNonce, AuthenticateAccepted, AuthenticateFails,
     SendFailsReconnect, TypeOK, Observations
<1>6. stack'[1].fd = stack[1].fd /\ stack'[1].slaveok = stack[1].slaveok
  BY <1>1, <1>3, <1>4 DEF Top
<1>7. ~Idle' /\ pc # "idle"
  BY <1>3, <1>4 DEF Idle, Settled
<1>8. WaitInv'
  BY <1>1, <1>3, <1>4, <1>5, <1>7 DEF RunInv, WaitInv
<1>9. pending' # <<>> \/ UNCHANGED pending \/ ResumeAuthentication
  BY DEF GetNonce, AuthenticateAccepted, AuthenticateFails, SendFailsReconnect
<1>10. CASE SendFailsReconnect
  <2>1. pending \in Seq(Pending) /\ pending' = Append(pending, [force |-> force, pc |-> Top.pc])
    BY <1>10 DEF SendFailsReconnect, TypeOK
  <2>2. pending' # <<>>
    BY <2>1
  <2>3. ghost'.excuse # {}
    BY <1>10 DEF SendFailsReconnect, TypeOK, Observations
  <2>4. SlaveokInv'
    BY <1>1, <1>3, <1>4, <1>6 DEF RunInv, SlaveokInv, Top
  <2>. QED  BY <1>8, <2>2, <2>3, <2>4 DEF RunInv, AuthInv, KeptInv, ReauthInv
<1>11. CASE ~SendFailsReconnect
  <2>1. pc \in Settled
    BY <1>2, <1>11
  <2>2. AuthInv'
    <3>1. CASE ResumeAuthentication
      BY <1>3, <1>4, <2>1, <3>1 DEF ResumeAuthentication, AuthInv
    <3>2. CASE ~ResumeAuthentication
      <4>1. UNCHANGED pending
        BY <1>11, <3>2 DEF GetNonce, AuthenticateAccepted, AuthenticateFails
      <4>. QED  BY <1>1, <1>3, <1>4, <1>5, <2>1, <4>1 DEF RunInv, AuthInv
    <3>. QED  BY <3>1, <3>2
  <2>3. KeptInv'
    <3>1. CASE Depth = 1
      BY <1>3, <1>4, <2>1, <3>1 DEF KeptInv
    <3>2. CASE Depth > 1
      <4>1. UNCHANGED pending /\ stack'[1] = stack[1]
        BY <1>4, <1>11, <3>2 DEF ResumeAuthentication, GetNonce, AuthenticateAccepted,
           AuthenticateFails
      <4>. QED  BY <1>1, <1>4, <1>5, <4>1 DEF RunInv, KeptInv
    <3>. QED  BY <1>1, <1>4, <3>1, <3>2
  <2>4. ReauthInv'
    <3>1. CASE ResumeAuthentication
      <4>1. ghost.excuse # {}
        BY <3>1 DEF ResumeAuthentication, VerifiedInv, PendingInv
      <4>. QED  BY <1>5, <4>1 DEF ReauthInv
    <3>2. CASE GetNonce
      <4>1. pc = "authenticate"
        BY <1>1, <1>3, <1>4, <3>2, GotoTop, GotoType DEF GetNonce, Pcs
      <4>. QED  BY <1>3, <1>4, <4>1 DEF ReauthInv
    <3>3. CASE AuthenticateAccepted
      <4>1. authed' = authed \cup {Top.fd}
        BY <3>3 DEF AuthenticateAccepted
      <4>. QED  BY <1>3, <1>4, <1>6, <4>1 DEF ReauthInv, Top
    <3>4. CASE AuthenticateFails
      BY <3>4 DEF AuthenticateFails, ReauthInv, TypeOK, Observations
    <3>. QED  BY <1>11, <3>1, <3>2, <3>3, <3>4
  <2>5. SlaveokInv'
    BY <1>1, <1>3, <1>4, <1>6 DEF RunInv, SlaveokInv, Top
  <2>. QED  BY <1>8, <2>2, <2>3, <2>4, <2>5 DEF RunInv
<1>. QED  BY <1>10, <1>11

\* The call returns.
LEMMA FinishRun ==
    ASSUME TypeOK, RunInv, ReturnConn \/ ReturnNull PROVE RunInv'
<1>1. /\ Depth = 1 /\ SetTop(Goto(Top, "idle")) /\ UNCHANGED <<op, authed, creds, pending, ghost>>
      /\ \/ Top.pc = "done" /\ result' = "conn"
         \/ Top.pc = "null" /\ result' = "null"
  BY DEF ReturnConn, ReturnNull, Finish, Running
<1>2. Top \in Frame /\ Goto(Top, "idle") \in Frame
      /\ Goto(Top, "idle").pc = "idle" /\ Goto(Top, "idle").fd = Top.fd
  BY <1>1, TopType, GotoType DEF Pcs
<1>3. Depth' = 1 /\ Top'.pc = "idle" /\ Top' = stack'[1] /\ Top'.fd = stack[1].fd
  BY <1>1, <1>2, SetTopShape DEF Top
<1>4. Top = stack[1]
  BY <1>1 DEF Top
<1>. QED  BY <1>1, <1>3, <1>4 DEF RunInv, WaitInv, AuthInv, KeptInv, ReauthInv, SlaveokInv, Idle

\* Between two calls.
LEMMA ApplicationRun == ASSUME TypeOK, RunInv, VerifiedInv, Application PROVE RunInv'
<1>1. ASSUME Idle, NEW f \in Frame, SetTop(f), f.fd = Top.fd, f.pc = "idle",
             UNCHANGED <<authed, creds, op, result, ghost>>
      PROVE  RunInv'
  <2>1. Depth = 1 /\ Depth' = 1 /\ Top' = f /\ Top' = stack'[1] /\ Top = stack[1]
    BY <1>1, SetTopShape DEF Idle, Top
  <2>. QED
    BY <1>1, <2>1 DEF RunInv, WaitInv, AuthInv, KeptInv, ReauthInv, SlaveokInv, Idle
<1>2. Idle => Depth = 1 /\ Top \in Frame /\ Top.pc = "idle"
  BY TopType DEF Idle
<1>3. ASSUME NEW a \in Addrs, SeedAdd(a) PROVE RunInv'
  <2>1. Idle
    BY <1>3 DEF SeedAdd
  <2>2. Top.seeds \in Seq(Addrs)
    BY <1>2, <2>1 DEF Frame
  <2>3. Append(Top.seeds, a) \in Seq(Addrs)
    BY <2>2
  <2>4. LET f == [Top EXCEPT !.seeds = Append(@, a)]
        IN  f \in Frame /\ f.fd = Top.fd /\ f.pc = "idle"
    BY <1>2, <2>1, <2>3 DEF Frame
  <2>. QED  BY <1>1, <1>3, <2>1, <2>4 DEF SeedAdd
<1>4. ASSUME NEW b \in Slaveok, SetSlaveok(b) PROVE RunInv'
  <2>1. Idle
    BY <1>4 DEF SetSlaveok
  <2>2. LET f == [Top EXCEPT !.slaveok = b] IN f \in Frame /\ f.fd = Top.fd /\ f.pc = "idle"
    BY <1>2, <2>1, ReconnectAssumption DEF Frame
  <2>. QED  BY <1>1, <1>4, <2>1, <2>2 DEF SetSlaveok
<1>5. CASE CmdIsMaster
  <2>. DEFINE f == AfterIsMaster(Top)
  <2>1. Idle /\ SetTop(f) /\ UNCHANGED <<authed, creds, op, result, ghost>>
    BY <1>5 DEF CmdIsMaster
  <2>2. f \in Frame /\ f.fd = Top.fd /\ f.pc = "idle"
    BY <1>2, <2>1, AfterIsMasterType
  <2>. HIDE DEF f
  <2>. QED  BY <1>1, <2>1, <2>2
<1>6. CASE \E b \in BOOLEAN : SetAutoReconnect(b)
  <2>1. UNCHANGED <<stack, authed, creds, pending, op, result, ghost>>
    BY <1>6 DEF SetAutoReconnect
  <2>. QED
    BY <2>1 DEF RunInv, WaitInv, AuthInv, KeptInv, ReauthInv, SlaveokInv, Idle, Top, Depth
<1>7. ASSUME NEW a \in Addrs, ConnectFails(a) PROVE RunInv'
  <2>1. Depth' = 0
    BY <1>7, EmptySeq DEF ConnectFails, Depth
  <2>. QED  BY <2>1 DEF RunInv, WaitInv, AuthInv, KeptInv, ReauthInv, SlaveokInv
<1>8. ASSUME NEW a \in Addrs, NEW b \in Slaveok, Connect(a, b) PROVE RunInv'
  <2>1. Depth' = 1 /\ Top'.pc = "idle" /\ op' = "connect"
    BY <1>8 DEF Connect, NewConnection, Depth, Top
  <2>. QED
    BY <2>1 DEF RunInv, WaitInv, AuthInv, KeptInv, ReauthInv, SlaveokInv, Idle
<1>9. CASE Disconnect
  <2>1. Depth' = 0
    BY <1>9, EmptySeq DEF Disconnect, Depth
  <2>. QED  BY <2>1 DEF RunInv, WaitInv, AuthInv, KeptInv, ReauthInv, SlaveokInv
<1>10. ASSUME NEW name \in {"reconnect", "authenticate"}, NEW pc \in {"ping", "getnonce"},
              Begin(name, pc), name = "authenticate" => pc = "getnonce"
       PROVE  RunInv'
  <2>1. Idle /\ pc \in Pcs
    BY <1>10 DEF Begin, Pcs
  <2>2. Goto(Top, pc) \in Frame /\ Goto(Top, pc).pc = pc /\ Goto(Top, pc).fd = Top.fd
    BY <1>2, <2>1, GotoType
  <2>3. Depth' = 1 /\ Top'.pc = pc /\ Top'.fd = Top.fd /\ Top' = stack'[1] /\ op' = name
    BY <1>2, <1>10, <2>1, <2>2, SetTopShape DEF Begin, Top
  <2>4. ghost'.fd0 = Top.fd
    BY <1>10 DEF Begin, TypeOK, Observations
  <2>. QED
    BY <1>10, <2>3, <2>4 DEF RunInv, WaitInv, AuthInv, KeptInv, ReauthInv, SlaveokInv,
       Settled, Idle
<1>11. CASE Authenticate
  BY <1>10, <1>11 DEF Authenticate
<1>12. ASSUME NEW b \in BOOLEAN, Reconnect(b) PROVE RunInv'
  BY <1>10, <1>12 DEF Reconnect
<1>. QED
  BY <1>3, <1>4, <1>5, <1>6, <1>7, <1>8, <1>9, <1>11, <1>12 DEF Application

LEMMA RunAlways == Spec => []RunInv
<1>1. Init => RunInv
  BY EmptySeq DEF Init, RunInv, WaitInv, AuthInv, KeptInv, ReauthInv, SlaveokInv, Depth
<1>2. TypeOK /\ FdOwnership /\ VerifiedInv /\ RunInv /\ [Next]_vars => RunInv'
  <2>. SUFFICES ASSUME TypeOK, FdOwnership, VerifiedInv, RunInv, [Next]_vars PROVE RunInv'
    OBVIOUS
  <2>1. CASE Environment \/ UNCHANGED vars
    <3>1. UNCHANGED progVars
      BY <2>1 DEF Environment, ServerDown, ServerUp, Elect, StepDown, LinkBreaks, vars
    <3>. QED
      BY <3>1 DEF progVars, RunInv, WaitInv, AuthInv, KeptInv, ReauthInv, SlaveokInv,
         Idle, Top, Depth
  <2>2. CASE Application
    BY <2>2, ApplicationRun
  <2>3. CASE Library
    <3>1. CASE \/ PingFails \/ PingAnswered \/ MasterFound \/ NotMaster \/ RefreshHosts
               \/ TryPrimary \/ TryHosts \/ TrySeeds
      BY <3>1, SearchSteps, SearchRun, TryAddressRun
    <3>. QED
      BY <2>3, <3>1, NestedReturnsRun, FinishRun, AuthenticationRun DEF Library
  <2>. QED  BY <2>1, <2>2, <2>3 DEF Next
<1>. QED  BY <1>1, <1>2, TypeCorrect, Ownership, VerifiedAlways, PTL DEF Spec

\* A connection with credentials that comes back from a failover on another
\* socket is authenticated there, unless a nested call returned NULL, or the
\* authentication was refused, cut off or sent again.
THEOREM FailoverReauthenticates == Spec => []ReauthOnFailover
<1>1. RunInv => ReauthOnFailover
  BY DEF RunInv, ReauthInv, ReauthOnFailover, Idle
<1>. QED  BY <1>1, RunAlways, PTL

-----------------------------------------------------------------------------
(* Every open descriptor is accounted for.                                 *)

\* A step that neither opens nor closes a descriptor loses none.
LEMMA SameFdsAccounted ==
    ASSUME OpenAccounted, SameFds, ghost.lost \subseteq ghost'.lost
    PROVE  OpenAccounted'
BY DEF OpenAccounted, SameFds, Open, Depth

LEMMA LostGrows == ASSUME TypeOK, [Next]_vars PROVE ghost.lost \subseteq ghost'.lost
<1>1. UNCHANGED ghost => ghost.lost \subseteq ghost'.lost
  OBVIOUS
<1>2. CASE Environment \/ UNCHANGED vars
  BY <1>1, <1>2 DEF Environment, ServerDown, ServerUp, Elect, StepDown, LinkBreaks, vars,
     progVars
<1>3. CASE Application
  BY <1>1, <1>3 DEF Application, SeedAdd, ConnectFails, Connect, SetSlaveok,
     SetAutoReconnect, Reconnect, Disconnect, CmdIsMaster, Authenticate, Begin, TypeOK,
     Observations
<1>4. CASE \/ PingFails \/ PingAnswered \/ MasterFound \/ NotMaster \/ RefreshHosts
           \/ TryPrimary \/ TryHosts \/ TrySeeds
  <2>1. SearchStep \/ \E a \in Addrs : TryAddress(a)
    BY <1>4, SearchSteps
  <2>2. SearchStep => ghost'.lost = ghost.lost
    BY DEF SearchStep
  <2>3. \A a : TryAddress(a) => ghost' = ghost
    BY DEF TryAddress
  <2>. QED  BY <2>1, <2>2, <2>3
<1>5. CASE \/ NestedReturnsConn \/ NestedReturnsNull \/ ReturnConn \/ ReturnNull
           \/ ResumeAuthentication \/ GetNonce \/ AuthenticateAccepted
           \/ AuthenticateFails \/ SendFailsReconnect
  <2>1. CASE NestedReturnsNull \/ AuthenticateFails \/ SendFailsReconnect
    <3>0. ghost \in Observations
      BY DEF TypeOK
    <3>1. CASE NestedReturnsNull
      <4>1. ghost' = [ghost EXCEPT !.excuse = @ \cup {"null"}, !.lost = @ \cup {Top.fd}]
        BY <3>1 DEF NestedReturnsNull
      <4>. QED  BY <3>0, <4>1 DEF Observations
    <3>2. CASE AuthenticateFails \/ SendFailsReconnect
      <4>1. \E e : ghost' = [ghost EXCEPT !.excuse = e]
        BY <3>2 DEF AuthenticateFails, SendFailsReconnect
      <4>. QED  BY <3>0, <4>1 DEF Observations
    <3>. QED  BY <2>1, <3>1, <3>2
  <2>2. CASE \/ NestedReturnsConn \/ ReturnConn \/ ReturnNull
             \/ ResumeAuthentication \/ GetNonce \/ AuthenticateAccepted
    BY <1>1, <2>2 DEF NestedReturnsConn, ReturnConn, ReturnNull, Finish, ResumeAuthentication,
       GetNonce, AuthenticateAccepted
  <2>. QED  BY <1>5, <2>1, <2>2
<1>. QED  BY <1>2, <1>3, <1>4, <1>5 DEF Next, Library

\* Opened descriptors go to the new object; the only ones that no object takes
\* over are that of an abandoned connection, and descriptor 0.
LEMMA StepAccounted == TypeOK /\ OpenAccounted /\ [Next]_vars => OpenAccounted'
<1>. SUFFICES ASSUME TypeOK, OpenAccounted, [Next]_vars PROVE OpenAccounted'
  OBVIOUS
<1>1. ghost.lost \subseteq ghost'.lost
  BY LostGrows
<1>2. CASE SameFds
  BY <1>1, <1>2, SameFdsAccounted
<1>3. ASSUME NEW a \in Addrs, NEW b \in Slaveok, Connect(a, b) PROVE OpenAccounted'
  <2>1. PICK fd \in Fds : OpenSocket(a, fd) /\ stack' = <<NewConnection(a, fd, b, "idle")>>
    BY <1>3 DEF Connect
  <2>2. Depth' = 1 /\ stack'[1].fd = fd /\ Depth = 0
    BY <1>3, <2>1, EmptySeq DEF Connect, NewConnection, Depth
  <2>3. Open' \subseteq Open \cup {fd}
    BY <2>1 DEF OpenSocket, Open, TypeOK
  <2>. QED  BY <1>1, <2>2, <2>3 DEF OpenAccounted
<1>4. CASE Disconnect
  <2>1. Depth = 1 /\ Depth' = 0 /\ Top = stack[1]
    BY <1>4, EmptySeq DEF Disconnect, Idle, Depth, Top
  <2>2. Open' = Open \ {Top.fd}
    BY <1>4 DEF Disconnect, CloseSockets, Open
  <2>. QED  BY <1>1, <2>1, <2>2 DEF OpenAccounted
<1>5. ASSUME Depth > 0, NEW a \in Addrs, TryAddress(a) PROVE OpenAccounted'
  <2>1. PICK fd \in Fds \ Open, n \in Frame :
          /\ OpenSocket(a, fd) /\ n.fd = fd
          /\ Depth \in Nat /\ Depth' = Depth + 1
          /\ \A k \in 1..(Depth + 1) :
               stack'[k] = IF k = Depth + 1 THEN n
                           ELSE IF k = Depth THEN Goto(Top, "wait") ELSE stack[k]
    BY <1>5, TryAddressShape
  <2>2. Goto(Top, "wait").fd = Top.fd
    BY <1>5, TopType DEF Goto, Frame
  <2>3. \A k \in 1..Depth : stack'[k].fd = stack[k].fd
    BY <2>1, <2>2 DEF Top
  <2>4. stack'[Depth'].fd = fd /\ Depth' \in 1..Depth' /\ 1..Depth \subseteq 1..Depth'
    BY <2>1
  <2>5. Open' \subseteq Open \cup {fd}
    BY <2>1 DEF OpenSocket, Open, TypeOK
  <2>. QED  BY <1>1, <2>3, <2>4, <2>5 DEF OpenAccounted
<1>6. CASE NestedReturnsConn \/ NestedReturnsNull
  <2>. DEFINE old == stack[Depth - 1]
              f == IF Running("done") THEN Goto(Replaced(old, Top), AfterNested)
                   ELSE Goto(old, AfterNested)
  <2>1. Depth > 1 /\ Top \in Frame /\ old \in Frame /\ Depth \in Nat /\ AfterNested \in Pcs
    BY <1>6, TopType, BelowType, AfterNestedType DEF NestedReturnsConn, NestedReturnsNull,
       Running
  <2>2. f \in Frame /\ f.fd = IF Running("done") THEN Top.fd ELSE old.fd
    BY <2>1, ReplacedType, GotoType
  <2>3. Pop(f)
    BY <1>6 DEF NestedReturnsConn, NestedReturnsNull, Running
  <2>. HIDE DEF f
  <2>4. /\ Depth' = Depth - 1
        /\ \A k \in 1..(Depth - 1) : stack'[k] = IF k = Depth - 1 THEN f ELSE stack[k]
    BY <2>1, <2>2, <2>3, PopShape
  <2>5. ASSUME NEW fd \in Open', NEW k \in 1..Depth, stack[k].fd = fd
        PROVE  (\E l \in 1..Depth' : stack'[l].fd = fd) \/ fd \in ghost'.lost \/ fd = 0
    <3>1. CASE k < Depth - 1
      BY <2>1, <2>4, <2>5, <3>1
    <3>2. CASE k = Depth - 1
      <4>1. CASE NestedReturnsConn
        <5>1. fd \notin ClosedByReplace(old, Top)
          BY <2>5, <4>1 DEF NestedReturnsConn, CloseSockets, Open
        <5>2. fd = 0 \/ fd = Top.fd
          BY <2>5, <3>2, <5>1 DEF ClosedByReplace
        <5>3. stack'[Depth - 1].fd = Top.fd /\ Depth - 1 \in 1..Depth'
          BY <2>1, <2>2, <2>4, <4>1 DEF NestedReturnsConn
        <5>. QED  BY <5>2, <5>3
      <4>2. CASE NestedReturnsNull
        <5>1. ~Running("done")
          BY <4>2 DEF NestedReturnsNull, Running
        <5>. QED  BY <2>1, <2>2, <2>4, <2>5, <3>2, <5>1
      <4>. QED  BY <1>6, <4>1, <4>2
    <3>3. CASE k = Depth
      <4>1. CASE NestedReturnsConn
        BY <2>1, <2>2, <2>4, <2>5, <3>3, <4>1 DEF NestedReturnsConn, Top
      <4>2. CASE NestedReturnsNull
        BY <2>5, <3>3, <4>2 DEF NestedReturnsNull, TypeOK, Observations, Top
      <4>. QED  BY <1>6, <4>1, <4>2
    <3>. QED  BY <2>1, <3>1, <3>2, <3>3
  <2>6. Open' \subseteq Open
    BY <1>6 DEF NestedReturnsConn, NestedReturnsNull, CloseSockets, Open
  <2>. QED  BY <1>1, <2>5, <2>6 DEF OpenAccounted
<1>. QED  BY <1>2, <1>3, <1>4, <1>5, <1>6, SameFdsSteps

\* No descriptor is left open that nothing holds, except that of a connection
\* abandoned when a nested call returned NULL, and descriptor 0.
THEOREM DescriptorsAccounted == Spec => []OpenAccounted
<1>1. Init => OpenAccounted
  BY DEF Init, OpenAccounted, Open
<1>. QED  BY <1>1, StepAccounted, TypeCorrect, PTL DEF Spec
-----------------------------------------------------------------------------
(* What a step of a call does to the caller's connection.                  *)

LEMMA EmptyStack == TypeOK => (stack = <<>> <=> Depth = 0) /\ Depth \in Nat
BY EmptySeq, LenProperties DEF TypeOK, Depth

\* While a library call makes a step, the caller's object is not idle.
LEMMA CallerRuns ==
    ASSUME TypeOK, RunInv, Library
    PROVE  /\ Depth > 0 /\ Depth \in Nat /\ stack # <<>> /\ stack[1] \in Frame
           /\ stack[1].pc # "idle" /\ op \in {"reconnect", "authenticate"}
<1>1. Depth > 0 /\ Depth \in Nat
  <2>1. Depth > 0
    BY DEF Library, PingFails, PingAnswered, MasterFound, NotMaster, RefreshHosts, TryPrimary,
       TryHosts, TrySeeds, NestedReturnsConn, NestedReturnsNull, ReturnConn, ReturnNull,
       ResumeAuthentication, GetNonce, AuthenticateAccepted, AuthenticateFails,
       SendFailsReconnect, Running
  <2>. QED  BY <2>1, TopType
<1>2. Top.pc # "idle"
  BY DEF Library, PingFails, PingAnswered, MasterFound, NotMaster, RefreshHosts, TryPrimary,
     TryHosts, TrySeeds, NestedReturnsConn, NestedReturnsNull, ReturnConn, ReturnNull,
     ResumeAuthentication, GetNonce, AuthenticateAccepted, AuthenticateFails,
     SendFailsReconnect, Running
<1>3. stack # <<>> /\ stack[1] \in Frame
  BY <1>1, EmptyStack, ElementOfSeq DEF TypeOK, Depth
<1>4. stack[1].pc # "idle"
  BY <1>1, <1>2 DEF RunInv, WaitInv, Top
<1>. QED  BY <1>1, <1>2, <1>3, <1>4 DEF RunInv, WaitInv, Idle

\* The caller's object as a step leaves it that neither returns to it nor ends
\* the call.
CallerKept ==
    /\ stack' # <<>>
    /\ stack'[1].fd = stack[1].fd /\ stack'[1].pc # "idle"
    /\ stack'[1].seeds = stack[1].seeds /\ stack'[1].slaveok = stack[1].slaveok
    /\ creds => creds'
    /\ op' = op /\ result' = result /\ ghost'.fd0 = ghost.fd0

LEMMA SearchKeepsCaller ==
    ASSUME TypeOK, RunInv, Library, SearchStep PROVE CallerKept
<1>1. PICK f \in Frame :
        /\ SetTop(f) /\ f.fd = Top.fd /\ f.slaveok = Top.slaveok /\ f.seeds = Top.seeds
        /\ f.pc \in Search \cup {"done"}
        /\ UNCHANGED <<creds, op, result>> /\ ghost'.fd0 = ghost.fd0
  BY DEF SearchStep
<1>2. /\ Depth' = Depth
      /\ \A k \in 1..Depth : stack'[k] = IF k = Depth THEN f ELSE stack[k]
  BY <1>1, CallerRuns, SetTopShape
<1>3. stack' # <<>>
  BY <1>2, CallerRuns, EmptySeq DEF Depth
<1>. QED  BY <1>1, <1>2, <1>3, CallerRuns DEF CallerKept, Search, Top

LEMMA TryAddressKeepsCaller ==
    ASSUME TypeOK, RunInv, Library, NEW a \in Addrs, TryAddress(a) PROVE CallerKept
<1>1. PICK n \in Frame :
        /\ Depth' = Depth + 1
        /\ \A k \in 1..(Depth + 1) :
             stack'[k] = IF k = Depth + 1 THEN n
                         ELSE IF k = Depth THEN Goto(Top, "wait") ELSE stack[k]
  BY CallerRuns, TryAddressShape
<1>2. stack' # <<>>
  BY <1>1, CallerRuns, EmptySeq DEF Depth
<1>3. /\ Goto(Top, "wait").fd = Top.fd /\ Goto(Top, "wait").pc = "wait"
      /\ Goto(Top, "wait").seeds = Top.seeds /\ Goto(Top, "wait").slaveok = Top.slaveok
  BY CallerRuns, TopType DEF Goto, Frame
<1>4. stack'[1] = IF Depth = 1 THEN Goto(Top, "wait") ELSE stack[1]
  BY <1>1, CallerRuns
<1>5. UNCHANGED <<creds, op, result, ghost>>
  BY DEF TryAddress
<1>. QED  BY <1>2, <1>3, <1>4, <1>5, CallerRuns DEF CallerKept, Top

LEMMA AuthenticationKeepsCaller ==
    ASSUME TypeOK, RunInv, Library,
           \/ ResumeAuthentication \/ GetNonce
           \/ AuthenticateAccepted \/ AuthenticateFails \/ SendFailsReconnect
    PROVE  CallerKept
<1>1. PICK pc \in Settled \cup {"ping"} : SetTop(Goto(Top, pc))
  <2>1. CASE ResumeAuthentication
    <3>1. pending[Len(pending)] \in Pending
      BY <2>1, EmptySeq, ElementOfSeq, LenProperties DEF ResumeAuthentication, TypeOK
    <3>. QED  BY <2>1, <3>1 DEF ResumeAuthentication, Pending, Settled
  <2>2. CASE GetNonce \/ AuthenticateAccepted \/ AuthenticateFails \/ SendFailsReconnect
    BY <2>2 DEF GetNonce, AuthenticateAccepted, AuthenticateFails, SendFailsReconnect,
       Settled
  <2>. QED  BY <2>1, <2>2
<1>. DEFINE f == Goto(Top, pc)
<1>2. /\ f \in Frame /\ f.pc = pc /\ f.fd = Top.fd
      /\ f.slaveok = Top.slaveok /\ f.seeds = Top.seeds
  BY CallerRuns, TopType DEF Goto, Frame, Settled, Pcs
<1>. HIDE DEF f
<1>3. Depth' = Depth /\ \A k \in 1..Depth : stack'[k] = IF k = Depth THEN f ELSE stack[k]
  BY <1>1, <1>2, CallerRuns, SetTopShape DEF f
<1>4. stack' # <<>>
  BY <1>3, CallerRuns, EmptySeq DEF Depth
<1>5. UNCHANGED <<op, result>> /\ ghost'.fd0 = ghost.fd0
  BY DEF ResumeAuthentication, GetNonce, AuthenticateAccepted, AuthenticateFails,
     SendFailsReconnect, TypeOK, Observations
<1>6. creds => creds'
  BY DEF ResumeAuthentication, GetNonce, AuthenticateAccepted, AuthenticateFails,
     SendFailsReconnect
<1>7. pc # "idle"
  BY DEF Settled
<1>. QED  BY <1>2, <1>3, <1>4, <1>5, <1>6, <1>7, CallerRuns DEF CallerKept, Top

\* A nested call that returns to the caller's activation gives its object
\* another socket, or nothing; one further up leaves it alone.
LEMMA NestedReturnsCaller ==
    ASSUME TypeOK, RunInv, Library, NestedReturnsConn \/ NestedReturnsNull
    PROVE  /\ stack' # <<>> /\ stack'[1].pc # "idle"
           /\ stack'[1].seeds = stack[1].seeds /\ stack'[1].slaveok = stack[1].slaveok
           /\ creds => creds'
           /\ op' = op /\ result' = result /\ ghost'.fd0 = ghost.fd0
           /\ stack'[1].fd = IF Depth = 2 /\ NestedReturnsConn THEN Top.fd ELSE stack[1].fd
<1>. DEFINE old == stack[Depth - 1]
            f == IF Running("done") THEN Goto(Replaced(old, Top), AfterNested)
                 ELSE Goto(old, AfterNested)
<1>1. Depth > 1 /\ Top \in Frame /\ old \in Frame /\ Depth \in Nat
  BY TopType, BelowType DEF NestedReturnsConn, NestedReturnsNull, Running
<1>2. AfterNested \in Pcs /\ AfterNested # "idle"
  BY DEF AfterNested, Pcs
<1>3. old.slaveok = Top.slaveok
  BY <1>1 DEF RunInv, SlaveokInv, Top
<1>4. /\ f \in Frame /\ f.pc = AfterNested /\ f.slaveok = old.slaveok /\ f.seeds = old.seeds
      /\ f.fd = IF Running("done") THEN Top.fd ELSE old.fd
  <2>1. /\ Replaced(old, Top) \in Frame /\ Replaced(old, Top).fd = Top.fd
        /\ Replaced(old, Top).slaveok = Top.slaveok /\ Replaced(old, Top).seeds = old.seeds
    BY <1>1, ReplacedType DEF Replaced, Frame
  <2>. QED  BY <1>1, <1>2, <1>3, <2>1 DEF Goto, Frame
<1>5. Pop(f)
  BY DEF NestedReturnsConn, NestedReturnsNull, Running
<1>6. Running("done") <=> NestedReturnsConn
  BY DEF NestedReturnsConn, NestedReturnsNull, Running
<1>. HIDE DEF f
<1>7. /\ Depth' = Depth - 1
      /\ \A k \in 1..(Depth - 1) : stack'[k] = IF k = Depth - 1 THEN f ELSE stack[k]
  BY <1>1, <1>4, <1>5, PopShape
<1>8. stack' # <<>>
  BY <1>1, <1>7, EmptySeq DEF Depth
<1>9. UNCHANGED <<creds, op, result>> /\ ghost'.fd0 = ghost.fd0
  BY DEF NestedReturnsConn, NestedReturnsNull, TypeOK, Observations
<1>10. CASE Depth = 2
  <2>1. stack'[1] = f /\ old = stack[1]
    BY <1>7, <1>10
  <2>. QED  BY <1>2, <1>4, <1>6, <1>8, <1>9, <1>10, <2>1
<1>11. CASE Depth > 2
  <2>1. stack'[1] = stack[1]
    BY <1>1, <1>7, <1>11
  <2>. QED  BY <1>8, <1>9, <1>11, <2>1, CallerRuns
<1>. QED  BY <1>1, <1>10, <1>11

\* The end of the call.
LEMMA FinishCaller ==
    ASSUME TypeOK, RunInv, Library, ReturnConn \/ ReturnNull
    PROVE  /\ Depth = 1 /\ stack' # <<>> /\ stack'[1] = Goto(stack[1], "idle")
           /\ stack'[1].fd = stack[1].fd /\ stack'[1].pc = "idle"
           /\ stack'[1].seeds = stack[1].seeds /\ stack'[1].slaveok = stack[1].slaveok
           /\ UNCHANGED <<creds, op, ghost>>
<1>1. Depth = 1 /\ SetTop(Goto(Top, "idle")) /\ Top = stack[1]
  BY DEF ReturnConn, ReturnNull, Finish, Top
<1>2. Goto(Top, "idle") \in Frame
  BY CallerRuns, TopType, GotoType DEF Pcs
<1>3. Depth' = Depth /\ stack'[1] = Goto(stack[1], "idle")
  BY <1>1, <1>2, CallerRuns, SetTopShape
<1>4. stack' # <<>>
  BY <1>1, <1>3, EmptySeq DEF Depth
<1>5. UNCHANGED <<creds, op, ghost>>
  BY DEF ReturnConn, ReturnNull, Finish
<1>. QED  BY <1>1, <1>3, <1>4, <1>5, CallerRuns DEF Goto, Frame

\* A library call never changes the seeds or the slaveok flag of the caller's
\* connection, nor forgets its credentials.
THEOREM FailoverKeepsSettings == Spec => SettingsKept
<1>1. TypeOK /\ RunInv /\ [Next]_vars =>
        [(Library /\ Depth > 0) =>
           /\ stack'[1].seeds = stack[1].seeds
           /\ stack'[1].slaveok = stack[1].slaveok
           /\ creds => creds']_vars
  <2>. SUFFICES ASSUME TypeOK, RunInv, Library
                PROVE  /\ stack'[1].seeds = stack[1].seeds
                       /\ stack'[1].slaveok = stack[1].slaveok
                       /\ creds => creds'
    OBVIOUS
  <2>1. CASE \/ PingFails \/ PingAnswered \/ MasterFound \/ NotMaster \/ RefreshHosts
             \/ TryPrimary \/ TryHosts \/ TrySeeds
    BY <2>1, SearchSteps, SearchKeepsCaller, TryAddressKeepsCaller DEF CallerKept
  <2>2. CASE NestedReturnsConn \/ NestedReturnsNull
    BY <2>2, NestedReturnsCaller
  <2>3. CASE ReturnConn \/ ReturnNull
    BY <2>3, FinishCaller
  <2>4. CASE \/ ResumeAuthentication \/ GetNonce
             \/ AuthenticateAccepted \/ AuthenticateFails \/ SendFailsReconnect
    BY <2>4, AuthenticationKeepsCaller DEF CallerKept
  <2>. QED  BY <2>1, <2>2, <2>3, <2>4 DEF Library
<1>. QED  BY <1>1, TypeCorrect, RunAlways, PTL DEF Spec, SettingsKept
-----------------------------------------------------------------------------
(* Reconnect implements Failover.                                          *)

\* The caller's connection and the observations of the call are as before.
LEMMA PromiseStutter ==
    ASSUME stack # <<>>, stack' # <<>>, stack'[1].fd = stack[1].fd,
           stack'[1].pc = "idle" <=> stack[1].pc = "idle",
           op' = op, result' = result, ghost'.fd0 = ghost.fd0,
           ghost'.checked = ghost.checked, Excused' <=> Excused
    PROVE  UNCHANGED Promise!vars
BY DEF Promise!vars, Excused

LEMMA PromiseInit == Init => Promise!Init
BY DEF Init, NoObservation, Promise!Init

\* Calls of the application: Connect, Disconnect and Start, or nothing.
LEMMA ApplicationImplements ==
    ASSUME TypeOK, RunInv, Application
    PROVE  Promise!Next \/ UNCHANGED Promise!vars
<1>1. Idle => /\ Depth = 1 /\ Top = stack[1] /\ Top \in Frame /\ Top.pc = "idle"
              /\ stack # <<>> /\ Top.fd \in Fds
  BY TopType, EmptyStack DEF Idle, Top, Frame
<1>2. ASSUME Idle, NEW f \in Frame, SetTop(f), f.fd = Top.fd
      PROVE  stack' # <<>> /\ stack'[1] = f
  <2>1. Depth' = 1 /\ stack'[1] = f
    BY <1>1, <1>2, SetTopShape
  <2>. QED  BY <2>1, EmptySeq DEF Depth
<1>3. ASSUME Idle, NEW f \in Frame, SetTop(f), f.fd = Top.fd, f.pc = "idle",
             UNCHANGED <<op, result, ghost>>
      PROVE  UNCHANGED Promise!vars
  BY <1>1, <1>2, <1>3, PromiseStutter DEF Excused
<1>4. ASSUME NEW a \in Addrs, SeedAdd(a) PROVE UNCHANGED Promise!vars
  <2>1. Idle
    BY <1>4 DEF SeedAdd
  <2>2. Top.seeds \in Seq(Addrs)
    BY <1>1, <2>1 DEF Frame
  <2>3. Append(Top.seeds, a) \in Seq(Addrs)
    BY <2>2
  <2>4. LET f == [Top EXCEPT !.seeds = Append(@, a)]
        IN  f \in Frame /\ f.fd = Top.fd /\ f.pc = "idle"
    BY <1>1, <2>1, <2>3 DEF Frame
  <2>. QED  BY <1>3, <1>4, <2>1, <2>4 DEF SeedAdd
<1>5. ASSUME NEW b \in Slaveok, SetSlaveok(b) PROVE UNCHANGED Promise!vars
  <2>1. Idle
    BY <1>5 DEF SetSlaveok
  <2>2. LET f == [Top EXCEPT !.slaveok = b] IN f \in Frame /\ f.fd = Top.fd /\ f.pc = "idle"
    BY <1>1, <2>1, ReconnectAssumption DEF Frame
  <2>. QED  BY <1>3, <1>5, <2>1, <2>2 DEF SetSlaveok
<1>6. CASE CmdIsMaster
  <2>. DEFINE f == AfterIsMaster(Top)
  <2>1. Idle /\ SetTop(f) /\ UNCHANGED <<op, result, ghost>>
    BY <1>6 DEF CmdIsMaster
  <2>2. f \in Frame /\ f.fd = Top.fd /\ f.pc = "idle"
    BY <1>1, <2>1, AfterIsMasterType
  <2>. HIDE DEF f
  <2>. QED  BY <1>3, <2>1, <2>2
<1>7. ASSUME NEW b \in BOOLEAN, SetAutoReconnect(b) PROVE UNCHANGED Promise!vars
  BY <1>7 DEF SetAutoReconnect, Promise!vars
<1>8. ASSUME NEW a \in Addrs, ConnectFails(a) PROVE Promise!Connect
  BY <1>8 DEF ConnectFails, Promise!Connect
<1>9. ASSUME NEW a \in Addrs, NEW b \in Slaveok, Connect(a, b) PROVE Promise!Connect
  <2>1. PICK fd \in Fds : stack' = <<NewConnection(a, fd, b, "idle")>>
    BY <1>9 DEF Connect
  <2>2. stack' # <<>> /\ stack'[1].fd = fd /\ stack'[1].pc = "idle"
    BY <2>1 DEF NewConnection
  <2>. QED  BY <1>9, <2>2 DEF Connect, Promise!Connect
<1>10. CASE Disconnect
  <2>1. Top.fd # None
    BY <1>1, <1>10, ReconnectAssumption DEF Disconnect
  <2>2. Promise!Disconnect
    BY <1>1, <1>10, <2>1 DEF Disconnect, Promise!Disconnect
  <2>. QED  BY <2>2 DEF Promise!Next
<1>11. ASSUME NEW name \in {"reconnect", "authenticate"}, NEW pc \in {"ping", "getnonce"},
              Begin(name, pc)
       PROVE  Promise!Next
  <2>1. Idle /\ pc \in Pcs /\ pc # "idle"
    BY <1>11 DEF Begin, Pcs
  <2>2. Goto(Top, pc) \in Frame /\ Goto(Top, pc).pc = pc /\ Goto(Top, pc).fd = Top.fd
    BY <1>1, <2>1, GotoType
  <2>3. stack' # <<>> /\ stack'[1].pc = pc /\ stack'[1].fd = Top.fd
    BY <1>2, <1>11, <2>1, <2>2 DEF Begin
  <2>4. ghost'.fd0 = Top.fd /\ ghost'.checked = {} /\ ghost'.excuse = {}
    BY <1>11 DEF Begin, TypeOK, Observations
  <2>5. Top.fd # None
    BY <1>1, <2>1, ReconnectAssumption
  <2>6. op' = name /\ result' = "none"
    BY <1>11 DEF Begin
  <2>7. Promise!Start(name)
    BY <1>1, <2>1, <2>3, <2>4, <2>5, <2>6 DEF Promise!Start
  <2>. QED  BY <2>7 DEF Promise!Next
<1>12. CASE Authenticate
  BY <1>11, <1>12 DEF Authenticate
<1>13. ASSUME NEW b \in BOOLEAN, Reconnect(b) PROVE Promise!Next
  BY <1>11, <1>13 DEF Reconnect
<1>. QED
  BY <1>4, <1>5, <1>6, <1>7, <1>8, <1>9, <1>10, <1>12, <1>13 DEF Application, Promise!Next

\* A search lets the socket on top answer, or does nothing the caller sees.
LEMMA SearchImplements ==
    ASSUME TypeOK, RunInv, Library, SearchStep
    PROVE  Promise!Next \/ UNCHANGED Promise!vars
<1>1. CallerKept /\ stack # <<>> /\ stack[1].pc # "idle" /\ op # "none" /\ Top.fd \in Fds
  BY SearchKeepsCaller, CallerRuns, TopType DEF Frame
<1>2. /\ ghost'.excuse = ghost.excuse
      /\ ghost'.checked \in {ghost.checked, ghost.checked \cup {Top.fd}}
  BY DEF SearchStep
<1>3. CASE ghost'.checked = ghost.checked
  BY <1>1, <1>2, <1>3, PromiseStutter DEF CallerKept, Excused
<1>4. CASE ghost'.checked = ghost.checked \cup {Top.fd}
  <2>1. Promise!Answer(Top.fd)
    BY <1>1, <1>2, <1>4 DEF CallerKept, Promise!Answer
  <2>. QED  BY <1>1, <2>1 DEF Promise!Next
<1>. QED  BY <1>2, <1>3, <1>4

\* Connecting to an address is not seen by the caller.
LEMMA TryAddressImplements ==
    ASSUME TypeOK, RunInv, Library, NEW a \in Addrs, TryAddress(a)
    PROVE  UNCHANGED Promise!vars
<1>1. CallerKept /\ stack # <<>> /\ stack[1].pc # "idle" /\ ghost' = ghost
  BY TryAddressKeepsCaller, CallerRuns DEF TryAddress
<1>. QED  BY <1>1, PromiseStutter DEF CallerKept, Excused

\* A nested call that returns to the caller's activation exchanges its socket.
LEMMA NestedReturnsImplements ==
    ASSUME TypeOK, RunInv, VerifiedInv, Library, NestedReturnsConn \/ NestedReturnsNull
    PROVE  Promise!Next \/ UNCHANGED Promise!vars
<1>1. /\ stack # <<>> /\ stack[1].pc # "idle" /\ op \in {"reconnect", "authenticate"}
      /\ stack' # <<>> /\ stack'[1].pc # "idle"
      /\ op' = op /\ result' = result /\ ghost'.fd0 = ghost.fd0
      /\ stack'[1].fd = IF Depth = 2 /\ NestedReturnsConn THEN Top.fd ELSE stack[1].fd
      /\ Depth > 1 /\ Depth \in Nat /\ Top.fd \in Fds
  BY NestedReturnsCaller, CallerRuns, TopType DEF NestedReturnsConn, NestedReturnsNull, Frame
<1>2. CASE NestedReturnsConn
  <2>1. ghost' = ghost /\ Top.pc = "done"
    BY <1>2 DEF NestedReturnsConn, Running
  <2>2. CASE Depth = 2
    <3>1. Top.fd \in ghost.checked \/ Excused
      <4>1. CASE op = "reconnect"
        BY <1>1, <2>1, <4>1 DEF VerifiedInv, SettledInv
      <4>2. CASE op = "authenticate"
        BY <1>1, <2>2, <4>2 DEF RunInv, AuthInv, VerifiedInv, PendingInv, Excused
      <4>. QED  BY <1>1, <4>1, <4>2
    <3>2. Promise!Exchange(Top.fd)
      BY <1>1, <1>2, <2>1, <2>2, <3>1 DEF Excused, Promise!Exchange
    <3>. QED  BY <1>1, <3>2 DEF Promise!Next
  <2>3. CASE Depth # 2
    BY <1>1, <2>1, <2>3, PromiseStutter DEF Excused
  <2>. QED  BY <2>2, <2>3
<1>3. CASE NestedReturnsNull
  <2>1. /\ ghost'.checked = ghost.checked /\ "null" \in ghost'.excuse
    BY <1>3 DEF NestedReturnsNull, TypeOK, Observations
  <2>2. ~NestedReturnsConn
    BY <1>3 DEF NestedReturnsConn, NestedReturnsNull, Running
  <2>3. Promise!Loosen
    BY <1>1, <2>1, <2>2 DEF Promise!Loosen
  <2>. QED  BY <2>3 DEF Promise!Next
<1>. QED  BY <1>2, <1>3

\* The end of the call: a connection that was checked, or NULL and the socket
\* the call began with.
LEMMA FinishImplements ==
    ASSUME TypeOK, RunInv, VerifiedInv, Library, ReturnConn \/ ReturnNull
    PROVE  Promise!Next
<1>1. /\ stack # <<>> /\ stack[1].pc # "idle" /\ op \in {"reconnect", "authenticate"}
      /\ stack' # <<>> /\ stack'[1].fd = stack[1].fd /\ stack'[1].pc = "idle"
      /\ UNCHANGED <<op, ghost>> /\ Depth = 1 /\ Top = stack[1]
  BY FinishCaller, CallerRuns DEF Top
<1>2. CASE ReturnConn
  <2>1. Top.pc = "done" /\ result' = "conn"
    BY <1>2 DEF ReturnConn, Running, Finish
  <2>2. op = "reconnect" => Top.fd \in ghost.checked \/ Excused
    BY <1>1, <2>1 DEF VerifiedInv, SettledInv
  <2>3. Promise!Succeed
    BY <1>1, <2>1, <2>2 DEF Excused, Promise!Succeed
  <2>. QED  BY <2>3 DEF Promise!Next
<1>3. CASE ReturnNull
  <2>1. Top.pc = "null" /\ result' = "null" /\ pending = <<>>
    BY <1>3 DEF ReturnNull, Running, Finish
  <2>2. op = "reconnect"
    BY <1>1, <2>1 DEF RunInv, AuthInv, Settled
  <2>3. stack[1].fd = ghost.fd0
    BY <1>1, <2>1, <2>2 DEF RunInv, KeptInv, Settled
  <2>4. Promise!Fail
    BY <1>1, <2>1, <2>2, <2>3 DEF Promise!Fail
  <2>. QED  BY <2>4 DEF Promise!Next
<1>. QED  BY <1>2, <1>3

\* An authentication is not seen by the caller, but for its re-entry.
LEMMA AuthenticationImplements ==
    ASSUME TypeOK, RunInv, Library,
           \/ ResumeAuthentication \/ GetNonce
           \/ AuthenticateAccepted \/ AuthenticateFails \/ SendFailsReconnect
    PROVE  Promise!Next \/ UNCHANGED Promise!vars
<1>1. /\ CallerKept /\ stack # <<>> /\ stack[1].pc # "idle"
      /\ op \in {"reconnect", "authenticate"}
  BY AuthenticationKeepsCaller, CallerRuns
<1>2. CASE ResumeAuthentication \/ GetNonce \/ AuthenticateAccepted
  <2>1. ghost' = ghost
    BY <1>2 DEF ResumeAuthentication, GetNonce, AuthenticateAccepted
  <2>. QED  BY <1>1, <2>1, PromiseStutter DEF CallerKept, Excused
<1>3. CASE AuthenticateFails
  <2>1. ghost'.checked = ghost.checked /\ ghost'.excuse = ghost.excuse \cup {"auth"}
    BY <1>3 DEF AuthenticateFails, TypeOK, Observations
  <2>2. Excused' <=> Excused
    BY <2>1 DEF Excused
  <2>. QED  BY <1>1, <2>1, <2>2, PromiseStutter DEF CallerKept
<1>4. CASE SendFailsReconnect
  <2>1. ghost'.checked = ghost.checked /\ "reentry" \in ghost'.excuse
    BY <1>4 DEF SendFailsReconnect, TypeOK, Observations
  <2>2. Promise!Loosen
    BY <1>1, <2>1 DEF CallerKept, Promise!Loosen
  <2>. QED  BY <2>2 DEF Promise!Next
<1>. QED  BY <1>2, <1>3, <1>4

\* Every step of the recursion is a step of Failover, or changes nothing that
\* the holder of the connection is promised anything about.
LEMMA PromiseStep ==
    ASSUME TypeOK, RunInv, VerifiedInv, [Next]_vars
    PROVE  [Promise!Next]_(Promise!vars)
<1>1. CASE Environment \/ UNCHANGED vars
  <2>1. UNCHANGED progVars
    BY <1>1 DEF Environment, ServerDown, ServerUp, Elect, StepDown, LinkBreaks, vars
  <2>. QED  BY <2>1 DEF progVars, Promise!vars
<1>2. CASE Application
  BY <1>2, ApplicationImplements
<1>3. CASE Library
  <2>1. CASE \/ PingFails \/ PingAnswered \/ MasterFound \/ NotMaster \/ RefreshHosts
             \/ TryPrimary \/ TryHosts \/ TrySeeds
    BY <1>3, <2>1, SearchSteps, SearchImplements, TryAddressImplements
  <2>. QED
    BY <1>3, <2>1, NestedReturnsImplements, FinishImplements, AuthenticationImplements
       DEF Library
<1>. QED  BY <1>1, <1>2, <1>3 DEF Next

\* mongo_sync_reconnect and mongo_sync_cmd_authenticate implement Failover: the
\* caller's socket is exchanged only for one that answered the check of the
\* running call, unless the call is on record as having lost that guarantee,
\* and a call that returns NULL leaves it the socket it had.
THEOREM FailoverImplemented == Spec => ImplementsFailover
<1>. QED
  BY PromiseInit, PromiseStep, TypeCorrect, RunAlways, VerifiedAlways, PTL
     DEF Spec, ImplementsFailover, Promise!Spec
-----------------------------------------------------------------------------
(* A call ends: what is left of it.                                        *)

InCall == Depth > 0 /\ ~Idle

Searching == {"ping", "master", "refresh", "primary", "hosts", "seeds"}

\* The call in progress will not reconnect again unless another fault happens:
\* a search for any server, from its first activation on, ends on a socket
\* that works or gives up, and so does what follows it.
Steady ==
    \/ /\ Depth = 1 /\ ~force
       /\ Top.pc \in {"ping", "primary", "hosts", "seeds", "null"}
    \/ /\ Depth = 2 /\ ~force
       /\ Top.fd \in alive
       /\ Top.pc \in {"ping", "done"}
    \/ /\ Depth = 1
       /\ \/ Top.pc \in {"done", "idle"}
          \/ Top.pc \in {"getnonce", "authenticate"} /\ (out \/ Top.fd \in alive)

\* How far an activation has come.
Rank(pc) == CASE pc = "ping" -> 6
              [] pc = "master" -> 5
              [] pc = "refresh" -> 4
              [] pc \in {"primary", "getnonce"} -> 3
              [] pc \in {"hosts", "authenticate"} -> 2
              [] pc \in {"seeds", "done", "null"} -> 1
              [] OTHER -> 0

AddressList == IF Top.pc = "hosts" THEN Top.hosts ELSE Top.seeds

\* What is left of a call: the faults to come, the reconnections of the
\* authentication, the activations suspended in it, the descriptors a search
\* may still open, the places it has to go through or the activations to
\* return from, and the addresses of the list it is in or what is left of an
\* activation that does not search.
ToHappen == MaxEvents - events
ToReconnect == IF Steady THEN 0 ELSE 1
ToOpen == IF Top.pc \in Searching THEN 1 + Cardinality(Fds \ Open) ELSE 0
ToPass == IF Top.pc \in Searching THEN Rank(Top.pc) ELSE Depth
ToTry ==
    IF Top.pc \notin Searching THEN Rank(Top.pc)
    ELSE IF Top.pc \in {"hosts", "seeds"} /\ Top.i <= Len(AddressList)
           THEN Len(AddressList) + 1 - Top.i ELSE 0

Left == <<ToHappen, ToReconnect, Len(pending), ToOpen, ToPass, ToTry>>

\* Sixtuples of naturals, ordered by the first place where they differ.
Measures == [1..6 -> Nat]
NatLess == OpToRel(<, Nat)
Shorter == LexProductOrdering(NatLess, Nat, 6)

\* The order is well-founded: nothing is shorter without end.
LEMMA ShorterWellFounded == IsWellFoundedOn(Shorter, Measures)
<1>1. IsWellFoundedOn(NatLess, Nat)
  BY NatLessThanWellFounded DEF NatLess
<1>. QED  BY <1>1, WFLexProductOrdering DEF Shorter, Measures

LEMMA LexLess ==
    ASSUME NEW p \in Measures, NEW q \in Measures, NEW j \in 1..6,
           p[j] < q[j], \A i \in 1..(j - 1) : p[i] = q[i]
    PROVE  <<p, q>> \in Shorter
<1>1. p[j] \in Nat /\ q[j] \in Nat
  BY DEF Measures
<1>2. <<p[j], q[j]>> \in NatLess
  BY <1>1 DEF NatLess, OpToRel
<1>. QED  BY <1>2 DEF Shorter, LexProductOrdering, Measures

\* What is left of a call is a sixtuple of naturals.
Measured ==
    Depth > 0 =>
        /\ ToHappen \in Nat /\ ToReconnect \in Nat /\ Len(pending) \in Nat
        /\ ToOpen \in Nat /\ ToPass \in Nat /\ ToTry \in Nat
        /\ Left \in Measures

LEMMA LeftType == ASSUME IsFiniteSet(Fds) PROVE TypeOK => Measured
<1>. SUFFICES ASSUME TypeOK, Depth > 0
     PROVE  /\ ToHappen \in Nat /\ ToReconnect \in Nat /\ Len(pending) \in Nat
            /\ ToOpen \in Nat /\ ToPass \in Nat /\ ToTry \in Nat
            /\ Left \in Measures
  BY DEF Measured
<1>1. Top \in Frame /\ Depth \in Nat
  BY TopType
<1>2. ToHappen \in Nat
  BY ReconnectAssumption DEF ToHappen, TypeOK
<1>3. ToReconnect \in Nat
  BY DEF ToReconnect
<1>4. Len(pending) \in Nat
  BY LenProperties DEF TypeOK
<1>5. Cardinality(Fds \ Open) \in Nat
  <2>1. IsFiniteSet(Fds \ Open)
    BY FS_Difference
  <2>. QED  BY <2>1, FS_CardinalityType
<1>6. ToOpen \in Nat
  BY <1>5 DEF ToOpen
<1>7. \A pc : Rank(pc) \in Nat
  BY DEF Rank
<1>8. ToPass \in Nat
  BY <1>1, <1>7 DEF ToPass
<1>9. AddressList \in Seq(Addrs) /\ Top.i \in Nat
  BY <1>1 DEF AddressList, Frame
<1>10. ToTry \in Nat
  <2>1. Len(AddressList) \in Nat
    BY <1>9, LenProperties
  <2>. QED  BY <1>7, <1>9, <2>1 DEF ToTry
<1>11. Left \in Measures
  BY <1>2, <1>3, <1>4, <1>6, <1>8, <1>10 DEF Left, Measures
<1>. QED  BY <1>2, <1>3, <1>4, <1>6, <1>8, <1>10, <1>11

\* What a step of the library has to do to shorten a call: once it is steady
\* it stays so, and the first place that changes falls.
Shortened ==
    /\ Depth' > 0
    /\ events' = events
    /\ Steady => Steady'
    /\ \/ ~Steady /\ Steady' /\ Len(pending') = Len(pending) + 1
       \/ Len(pending') < Len(pending)
       \/ /\ pending' = pending
          /\ \/ ToOpen' < ToOpen
             \/ ToOpen' = ToOpen /\ ToPass' < ToPass
             \/ ToOpen' = ToOpen /\ ToPass' = ToPass /\ ToTry' < ToTry

LEMMA ShortenedIsShorter ==
    ASSUME Measured, Measured', Depth > 0, Shortened
    PROVE  <<Left', Left>> \in Shorter
<1>1. /\ ToHappen \in Nat /\ ToReconnect \in Nat /\ Len(pending) \in Nat
      /\ ToOpen \in Nat /\ ToPass \in Nat /\ ToTry \in Nat
      /\ Left \in Measures
  BY DEF Measured
<1>2. Left' \in Measures /\ ToReconnect' \in Nat
  BY DEF Measured, Shortened
<1>3. /\ Left[1] = ToHappen /\ Left'[1] = ToHappen'
      /\ Left[2] = ToReconnect /\ Left'[2] = ToReconnect'
      /\ Left[3] = Len(pending) /\ Left'[3] = Len(pending')
      /\ Left[4] = ToOpen /\ Left'[4] = ToOpen'
      /\ Left[5] = ToPass /\ Left'[5] = ToPass'
      /\ Left[6] = ToTry /\ Left'[6] = ToTry'
  BY DEF Left
<1>4. ToHappen' = ToHappen
  BY DEF Shortened, ToHappen
<1>5. ToReconnect' < ToReconnect \/ ToReconnect' = ToReconnect
  BY DEF Shortened, ToReconnect
<1>6. CASE ToReconnect' < ToReconnect
  <2>1. \A i \in 1..(2 - 1) : Left'[i] = Left[i]
    BY <1>3, <1>4
  <2>2. Left'[2] < Left[2] /\ 2 \in 1..6
    BY <1>3, <1>6
  <2>. QED  BY <1>1, <1>2, <2>1, <2>2, LexLess
<1>7. CASE ToReconnect' = ToReconnect /\ Len(pending') < Len(pending)
  <2>1. \A i \in 1..(3 - 1) : Left'[i] = Left[i]
    BY <1>3, <1>4, <1>7
  <2>2. Left'[3] < Left[3] /\ 3 \in 1..6
    BY <1>3, <1>7
  <2>. QED  BY <1>1, <1>2, <2>1, <2>2, LexLess
<1>8. CASE ToReconnect' = ToReconnect /\ pending' = pending
  <2>1. CASE ToOpen' < ToOpen
    <3>1. \A i \in 1..(4 - 1) : Left'[i] = Left[i]
      BY <1>3, <1>4, <1>8
    <3>2. Left'[4] < Left[4] /\ 4 \in 1..6
      BY <1>3, <2>1
    <3>. QED  BY <1>1, <1>2, <3>1, <3>2, LexLess
  <2>2. CASE ToOpen' = ToOpen /\ ToPass' < ToPass
    <3>1. \A i \in 1..(5 - 1) : Left'[i] = Left[i]
      BY <1>3, <1>4, <1>8, <2>2
    <3>2. Left'[5] < Left[5] /\ 5 \in 1..6
      BY <1>3, <2>2
    <3>. QED  BY <1>1, <1>2, <3>1, <3>2, LexLess
  <2>3. CASE ToOpen' = ToOpen /\ ToPass' = ToPass /\ ToTry' < ToTry
    <3>1. \A i \in 1..(6 - 1) : Left'[i] = Left[i]
      BY <1>3, <1>4, <1>8, <2>3
    <3>2. Left'[6] < Left[6] /\ 6 \in 1..6
      BY <1>3, <2>3
    <3>. QED  BY <1>1, <1>2, <3>1, <3>2, LexLess
  <2>4. ~(Len(pending') < Len(pending))
    BY <1>1, <1>8
  <2>5. ~(~Steady /\ Steady')
    BY <1>8 DEF ToReconnect
  <2>. QED  BY <1>8, <2>1, <2>2, <2>3, <2>4, <2>5 DEF Shortened
<1>9. ToReconnect' = ToReconnect => Len(pending') < Len(pending) \/ pending' = pending
  BY DEF Shortened, ToReconnect
<1>. QED  BY <1>5, <1>6, <1>7, <1>8, <1>9

\* A step of the search that opens nothing gives up or settles, moves on to a
\* later place, or to the next address of its list.
LEMMA SearchShortened ==
    ASSUME TypeOK, Measured, IsFiniteSet(Fds), Depth > 0, Top.pc \in Searching,
           NEW f \in Frame, SetTop(f), Local, f.fd = Top.fd,
           f.pc = "master" => force,
           f.pc = "refresh" => Top.pc = "master",
           Top.pc = "ping" /\ Top.fd \in alive => f.pc \in {"master", "done"},
           \/ f.pc \in {"done", "null"}
           \/ f.pc \in Searching /\ Rank(f.pc) < Rank(Top.pc)
           \/ /\ f = [Top EXCEPT !.i = @ + 1]
              /\ Top.pc \in {"hosts", "seeds"} /\ Top.i <= Len(AddressList)
    PROVE  Shortened
<1>1. Depth \in Nat /\ Depth' = Depth /\ Top' = f /\ Top \in Frame
  BY SetTopShape, TopType
<1>2. UNCHANGED <<events, alive, force, pending, out, peer>> /\ Open' = Open
  BY DEF Local, Open
<1>3. Steady => Steady'
  <2>1. CASE f = [Top EXCEPT !.i = @ + 1]
    <3>1. f.pc = Top.pc
      BY <1>1, <2>1 DEF Frame
    <3>. QED  BY <1>1, <1>2, <3>1 DEF Steady
  <2>2. CASE f.pc \in {"done", "null", "ping", "primary", "hosts", "seeds", "master", "refresh"}
    BY <1>1, <1>2, <2>2 DEF Steady, Searching
  <2>. QED  BY <2>1, <2>2 DEF Searching
<1>4. Cardinality(Fds \ Open) \in Nat
  <2>1. IsFiniteSet(Fds \ Open)
    BY FS_Difference
  <2>. QED  BY <2>1, FS_CardinalityType
<1>5. CASE f.pc \in {"done", "null"}
  <2>1. ToOpen' < ToOpen
    BY <1>1, <1>4, <1>5 DEF ToOpen, Searching
  <2>. QED  BY <1>1, <1>2, <1>3, <2>1 DEF Shortened
<1>6. CASE f.pc \in Searching /\ Rank(f.pc) < Rank(Top.pc)
  <2>1. ToOpen' = ToOpen /\ ToPass' < ToPass
    BY <1>1, <1>2, <1>6 DEF ToOpen, ToPass
  <2>. QED  BY <1>1, <1>2, <1>3, <2>1 DEF Shortened
<1>7. CASE /\ f = [Top EXCEPT !.i = @ + 1]
           /\ Top.pc \in {"hosts", "seeds"} /\ Top.i <= Len(AddressList)
  <2>1. f.pc = Top.pc /\ f.i = Top.i + 1 /\ f.hosts = Top.hosts /\ f.seeds = Top.seeds
    BY <1>1, <1>7 DEF Frame
  <2>2. ToOpen' = ToOpen /\ ToPass' = ToPass /\ AddressList' = AddressList
    BY <1>1, <1>2, <2>1 DEF ToOpen, ToPass, AddressList
  <2>3. Top.i \in Nat /\ Len(AddressList) \in Nat
    <3>1. AddressList \in Seq(Addrs)
      BY <1>1 DEF AddressList, Frame
    <3>. QED  BY <1>1, <3>1, LenProperties DEF Frame
  <2>4. ToTry' < ToTry
    BY <1>1, <1>7, <2>1, <2>2, <2>3 DEF ToTry, Searching
  <2>. QED  BY <1>1, <1>2, <1>3, <2>2, <2>4 DEF Shortened
<1>. QED  BY <1>5, <1>6, <1>7

\* A step that opens a connection and recurs leaves one descriptor less to
\* open.
LEMMA TryAddressShortened ==
    ASSUME TypeOK, Measured, IsFiniteSet(Fds), Depth > 0,
           Top.pc \in {"primary", "hosts", "seeds"}, NEW a \in Addrs, TryAddress(a)
    PROVE  Shortened
<1>1. PICK fd \in Fds \ Open, n \in Frame :
        /\ OpenSocket(a, fd)
        /\ n.fd = fd /\ n.pc = "ping"
        /\ Depth \in Nat /\ Depth' = Depth + 1 /\ Top' = n
  BY TryAddressShape
<1>2. UNCHANGED <<events, force, pending>> /\ alive' = alive \cup {fd}
  BY <1>1 DEF TryAddress, OpenSocket
<1>3. Fds \ Open' = (Fds \ Open) \ {fd}
  <2>1. peer' = [peer EXCEPT ![fd] = a] /\ a # None
    BY <1>1, ReconnectAssumption DEF OpenSocket
  <2>. QED  BY <1>1, <2>1 DEF Open, TypeOK
<1>4. /\ Cardinality(Fds \ Open) \in Nat
      /\ Cardinality(Fds \ Open') = Cardinality(Fds \ Open) - 1
  <2>1. IsFiniteSet(Fds \ Open)
    BY FS_Difference
  <2>2. Cardinality(Fds \ Open) \in Nat
    BY <2>1, FS_CardinalityType
  <2>3. Cardinality((Fds \ Open) \ {fd}) = Cardinality(Fds \ Open) - 1
    BY <1>1, <2>1, FS_RemoveElement
  <2>. QED  BY <1>3, <2>2, <2>3
<1>5. ToOpen' < ToOpen
  BY <1>1, <1>4 DEF ToOpen, Searching
<1>6. Steady => Steady'
  BY <1>1, <1>2 DEF Steady
<1>. QED  BY <1>1, <1>2, <1>5, <1>6 DEF Shortened

LEMMA SearchingShortens ==
    ASSUME TypeOK, Measured, IsFiniteSet(Fds),
           \/ PingFails \/ PingAnswered \/ MasterFound \/ NotMaster \/ RefreshHosts
           \/ TryPrimary \/ TryHosts \/ TrySeeds
    PROVE  Shortened
<1>1. Depth > 0 /\ Top \in Frame
  <2>1. Depth > 0
    BY DEF PingFails, PingAnswered, MasterFound, NotMaster, RefreshHosts, TryPrimary,
       TryHosts, TrySeeds, Running
  <2>. QED  BY <2>1, TopType
<1>2. \A pc \in Pcs : /\ Goto(Top, pc) \in Frame
                      /\ Goto(Top, pc).pc = pc /\ Goto(Top, pc).fd = Top.fd
  BY <1>1 DEF Goto, Frame
<1>3. \A pc \in Pcs : /\ Goto(AfterIsMaster(Top), pc) \in Frame
                      /\ Goto(AfterIsMaster(Top), pc).pc = pc
                      /\ Goto(AfterIsMaster(Top), pc).fd = Top.fd
  <2>1. AfterIsMaster(Top) \in Frame
    BY <1>1, AfterIsMasterType
  <2>2. AfterIsMaster(Top).fd = Top.fd
    BY <1>1 DEF AfterIsMaster, IsMasterReply, Frame
  <2>. QED  BY <2>1, <2>2 DEF Goto, Frame
<1>4. CASE PingFails
  <2>1. /\ Top.pc = "ping" /\ Top.fd \notin alive /\ Local
        /\ SetTop(Goto(Top, "primary")) /\ "primary" \in Pcs
    BY <1>4 DEF PingFails, Running, Pcs
  <2>2. "primary" \in Searching /\ "ping" \in Searching /\ Rank("primary") < Rank("ping")
    BY DEF Searching, Rank
  <2>. QED  BY <1>1, <1>2, <2>1, <2>2, SearchShortened
<1>5. CASE PingAnswered
  <2>1. /\ Top.pc = "ping" /\ Local
        /\ SetTop(Goto(Top, AfterPing)) /\ AfterPing \in Pcs
        /\ AfterPing = "done" \/ (AfterPing = "master" /\ force)
    BY <1>5 DEF PingAnswered, Running, Pcs, AfterPing
  <2>2. "master" \in Searching /\ "ping" \in Searching /\ Rank("master") < Rank("ping")
    BY DEF Searching, Rank
  <2>. QED  BY <1>1, <1>2, <2>1, <2>2, SearchShortened
<1>6. CASE MasterFound
  <2>1. /\ Top.pc = "master" /\ Local
        /\ SetTop(Goto(AfterIsMaster(Top), "done")) /\ "done" \in Pcs
    BY <1>6 DEF MasterFound, Running, Pcs
  <2>2. "master" \in Searching
    BY DEF Searching
  <2>. QED  BY <1>1, <1>3, <2>1, <2>2, SearchShortened
<1>7. CASE NotMaster
  <2>1. /\ Top.pc = "master" /\ Local
        /\ SetTop(Goto(AfterIsMaster(Top), "refresh")) /\ "refresh" \in Pcs
    BY <1>7 DEF NotMaster, Running, Pcs
  <2>2. "master" \in Searching /\ "refresh" \in Searching /\ Rank("refresh") < Rank("master")
    BY DEF Searching, Rank
  <2>. QED  BY <1>1, <1>3, <2>1, <2>2, SearchShortened
<1>8. CASE RefreshHosts
  <2>1. /\ Top.pc = "refresh" /\ Local
        /\ SetTop(Goto(AfterIsMaster(Top), "primary")) /\ "primary" \in Pcs
    BY <1>8 DEF RefreshHosts, Running, Pcs
  <2>2. "primary" \in Searching /\ "refresh" \in Searching /\ Rank("primary") < Rank("refresh")
    BY DEF Searching, Rank
  <2>. QED  BY <1>1, <1>3, <2>1, <2>2, SearchShortened
<1>9. ASSUME NEW from \in {"primary", "hosts", "seeds"}, NEW pc \in {"hosts", "seeds", "null"},
             Top.pc = from, MoveOn(Top, pc), Rank(pc) < Rank(from) \/ pc = "null"
      PROVE  Shortened
  <2>1. LET f == [Top EXCEPT !.pc = pc, !.i = 1] IN
          f \in Frame /\ f.fd = Top.fd /\ f.pc = pc /\ SetTop(f) /\ Local
    BY <1>1, <1>9 DEF Frame, Pcs, MoveOn
  <2>2. from \in Searching /\ (pc \in Searching \/ pc = "null") /\ pc \notin {"master", "refresh"}
    BY DEF Searching
  <2>. QED  BY <1>1, <1>9, <2>1, <2>2, SearchShortened
<1>10. ASSUME Top.pc \in {"hosts", "seeds"}, Top.i <= Len(AddressList), SkipAddress
       PROVE  Shortened
  <2>1. LET f == [Top EXCEPT !.i = @ + 1] IN
          f \in Frame /\ f.fd = Top.fd /\ f.pc = Top.pc /\ SetTop(f) /\ Local
    BY <1>1, <1>10 DEF Frame, SkipAddress
  <2>2. Top.pc \in Searching
    BY <1>10 DEF Searching
  <2>. QED  BY <1>1, <1>10, <2>1, <2>2, SearchShortened
<1>11. \A a : Connectable(a) => a \in Addrs
  BY ReconnectAssumption DEF Connectable, Up
<1>12. CASE TryPrimary
  <2>1. Top.pc = "primary" /\ Rank("hosts") < Rank("primary")
    BY <1>12 DEF TryPrimary, Running, Rank
  <2>. QED  BY <1>1, <1>9, <1>11, <1>12, <2>1, TryAddressShortened DEF TryPrimary
<1>13. CASE TryHosts
  <2>1. Top.pc = "hosts" /\ Rank("seeds") < Rank("hosts")
    BY <1>13 DEF TryHosts, Running, Rank
  <2>2. CASE Top.i > Len(Top.hosts)
    BY <1>9, <1>13, <2>1, <2>2 DEF TryHosts
  <2>3. CASE ~(Top.i > Len(Top.hosts))
    <3>1. Top.i <= Len(AddressList)
      <4>1. Top.i \in Nat /\ Len(Top.hosts) \in Nat
        BY <1>1, LenProperties DEF Frame
      <4>. QED  BY <2>1, <2>3, <4>1 DEF AddressList
    <3>. QED  BY <1>1, <1>10, <1>11, <1>13, <2>1, <2>3, <3>1, TryAddressShortened DEF TryHosts
  <2>. QED  BY <2>2, <2>3
<1>14. CASE TrySeeds
  <2>1. Top.pc = "seeds"
    BY <1>14 DEF TrySeeds, Running
  <2>2. CASE Top.i > Len(Top.seeds)
    BY <1>9, <1>14, <2>1, <2>2 DEF TrySeeds
  <2>3. CASE ~(Top.i > Len(Top.seeds))
    <3>1. Top.i <= Len(AddressList)
      <4>1. Top.i \in Nat /\ Len(Top.seeds) \in Nat
        BY <1>1, LenProperties DEF Frame
      <4>. QED  BY <2>1, <2>3, <4>1 DEF AddressList
    <3>. QED  BY <1>1, <1>10, <1>11, <1>14, <2>1, <2>3, <3>1, TryAddressShortened DEF TrySeeds
  <2>. QED  BY <2>2, <2>3
<1>. QED  BY <1>4, <1>5, <1>6, <1>7, <1>8, <1>12, <1>13, <1>14

\* A return to the activation below has one activation less to return from,
\* and so has the authentication that follows it on the caller's object.
LEMMA NestedReturnsShortened ==
    ASSUME TypeOK, FdOwnership, NestedReturnsConn \/ NestedReturnsNull
    PROVE  Shortened
<1>1. Depth \in Nat /\ Depth > 1 /\ Top.pc \in {"done", "null"} /\ Top \in Frame
  BY TopType DEF NestedReturnsConn, NestedReturnsNull, Running
<1>. DEFINE old == stack[Depth - 1]
<1>2. PICK f \in Frame :
        /\ Pop(f) /\ f.pc = AfterNested
        /\ NestedReturnsConn => f.fd = Top.fd
  <2>1. old \in Frame
    BY <1>1, BelowType
  <2>2. CASE NestedReturnsConn
    <3>1. /\ Replaced(old, Top) \in Frame
          /\ Replaced(old, Top).fd = Top.fd
      BY <1>1, <2>1, ReplacedType
    <3>. QED  BY <2>2, <3>1, AfterNestedType, GotoType DEF NestedReturnsConn
  <2>3. CASE NestedReturnsNull
    BY <2>1, <2>3, AfterNestedType, GotoType DEF NestedReturnsNull, NestedReturnsConn, Running
  <2>. QED  BY <2>2, <2>3
<1>3. Depth' = Depth - 1 /\ Depth' > 0 /\ Top' = f
  BY <1>1, <1>2, PopShape
<1>4. UNCHANGED <<events, force, pending>> /\ AfterNested \in {"done", "getnonce"}
  BY DEF NestedReturnsConn, NestedReturnsNull, AfterNested
<1>5. ToOpen' = ToOpen /\ ToPass' < ToPass
  BY <1>1, <1>2, <1>3, <1>4 DEF ToOpen, ToPass, Searching
<1>6. Steady => Steady'
  <2>. SUFFICES ASSUME Steady PROVE Steady'
    OBVIOUS
  <2>1. Depth = 2 /\ Top.fd \in alive /\ Top.pc = "done"
    BY <1>1 DEF Steady
  <2>2. NestedReturnsConn /\ f.fd = Top.fd
    BY <1>2, <2>1 DEF NestedReturnsNull, Running
  <2>3. Top.fd \in alive'
    BY <2>1, <2>2 DEF NestedReturnsConn, CloseSockets, ClosedByReplace
  <2>. QED  BY <1>2, <1>3, <1>4, <2>1, <2>2, <2>3 DEF Steady
<1>. QED  BY <1>3, <1>4, <1>5, <1>6 DEF Shortened

\* The caller's activation returns, or goes on with the authentication it had
\* suspended.
LEMMA FinishShortened ==
    ASSUME TypeOK, ReturnConn \/ ReturnNull \/ ResumeAuthentication
    PROVE  Shortened
<1>1. Depth = 1 /\ Top.pc \in {"done", "null"} /\ Top \in Frame
  <2>1. Depth = 1 /\ Top.pc \in {"done", "null"}
    BY DEF ReturnConn, ReturnNull, Finish, ResumeAuthentication, Running
  <2>. QED  BY <2>1, TopType
<1>2. UNCHANGED events
  BY DEF ReturnConn, ReturnNull, Finish, ResumeAuthentication
<1>3. CASE ReturnConn \/ ReturnNull
  <2>1. SetTop(Goto(Top, "idle")) /\ UNCHANGED <<pending, peer>>
    BY <1>3 DEF ReturnConn, ReturnNull, Finish
  <2>2. Depth' = 1 /\ Top'.pc = "idle"
    BY <1>1, <2>1, GotoType, SetTopShape DEF Pcs
  <2>3. ToOpen' = ToOpen /\ ToPass' = ToPass /\ ToTry' < ToTry
    BY <1>1, <2>2 DEF ToOpen, ToPass, ToTry, Searching, Rank
  <2>. QED  BY <1>2, <2>1, <2>2, <2>3 DEF Shortened, Steady
<1>4. CASE ResumeAuthentication
  <2>1. PICK pc \in {"getnonce", "authenticate", "done"} :
          SetTop(Goto(Top, pc)) /\ (pc # "done" => out')
    <3>1. pending[Len(pending)] \in Pending
      BY <1>4, EmptySeq, ElementOfSeq, LenProperties DEF ResumeAuthentication, TypeOK
    <3>. QED  BY <1>4, <3>1 DEF ResumeAuthentication, Pending
  <2>2. Depth' = 1 /\ Top'.pc = pc
    BY <1>1, <2>1, GotoType, SetTopShape DEF Pcs
  <2>3. Len(pending') < Len(pending)
    <3>1. Len(pending) \in Nat /\ Len(pending) > 0
      BY <1>4, EmptySeq, LenProperties DEF ResumeAuthentication, TypeOK
    <3>2. Len(pending) - 1 \in Nat
      BY <3>1
    <3>3. DOMAIN pending' = 1..(Len(pending) - 1)
      BY <1>4 DEF ResumeAuthentication
    <3>4. \A k \in 1..(Len(pending) - 1) : pending[k] \in Pending
      BY <3>1, ElementOfSeq DEF TypeOK
    <3>5. pending' \in Seq(Pending)
      BY <1>4, <3>2, <3>4, SeqDef DEF ResumeAuthentication
    <3>6. Len(pending') = Len(pending) - 1
      BY <3>2, <3>3, <3>5, LenProperties
    <3>. QED  BY <3>1, <3>6
  <2>. QED  BY <1>2, <2>1, <2>2, <2>3 DEF Shortened, Steady
<1>. QED  BY <1>3, <1>4

\* No activation works while the one above it does, and the connections of
\* the recursion are never authenticated.
PlaceInv ==
    Depth > 0 => /\ Top.pc # "wait"
                 /\ Top.pc \in {"getnonce", "authenticate"} => Depth = 1

LEMMA ApplicationPlace == ASSUME TypeOK, PlaceInv, Application PROVE PlaceInv'
<1>1. Idle => Depth = 1 /\ Top \in Frame /\ Top.pc = "idle"
  BY TopType DEF Idle
<1>2. ASSUME Idle, NEW f \in Frame, SetTop(f), f.pc # "wait"
      PROVE  PlaceInv'
  <2>1. Depth' = 1 /\ Top' = f
    BY <1>1, <1>2, SetTopShape
  <2>. QED  BY <1>2, <2>1 DEF PlaceInv
<1>3. ASSUME NEW a \in Addrs, SeedAdd(a) PROVE PlaceInv'
  <2>1. Idle
    BY <1>3 DEF SeedAdd
  <2>2. Top.seeds \in Seq(Addrs)
    BY <1>1, <2>1 DEF Frame
  <2>3. Append(Top.seeds, a) \in Seq(Addrs)
    BY <2>2
  <2>4. LET f == [Top EXCEPT !.seeds = Append(@, a)] IN f \in Frame /\ f.pc = "idle"
    BY <1>1, <2>1, <2>3 DEF Frame
  <2>. QED  BY <1>2, <1>3, <2>1, <2>4 DEF SeedAdd
<1>4. ASSUME NEW b \in Slaveok, SetSlaveok(b) PROVE PlaceInv'
  <2>1. Idle
    BY <1>4 DEF SetSlaveok
  <2>2. LET f == [Top EXCEPT !.slaveok = b] IN f \in Frame /\ f.pc = "idle"
    BY <1>1, <2>1, ReconnectAssumption DEF Frame
  <2>. QED  BY <1>2, <1>4, <2>1, <2>2 DEF SetSlaveok
<1>5. CASE CmdIsMaster
  <2>1. Idle /\ SetTop(AfterIsMaster(Top))
    BY <1>5 DEF CmdIsMaster
  <2>2. AfterIsMaster(Top) \in Frame /\ AfterIsMaster(Top).pc = "idle"
    BY <1>1, <2>1, AfterIsMasterType
  <2>. QED  BY <1>2, <2>1, <2>2
<1>6. CASE \/ \E b \in BOOLEAN : SetAutoReconnect(b)
           \/ \E a \in Addrs : ConnectFails(a)
  <2>1. UNCHANGED stack
    BY <1>6 DEF SetAutoReconnect, ConnectFails
  <2>. QED  BY <2>1 DEF PlaceInv, Top, Depth
<1>7. ASSUME NEW a \in Addrs, NEW b \in Slaveok, Connect(a, b) PROVE PlaceInv'
  <2>1. Depth' = 1 /\ Top'.pc = "idle"
    BY <1>7 DEF Connect, NewConnection, Depth, Top
  <2>. QED  BY <2>1 DEF PlaceInv
<1>8. CASE Disconnect
  <2>1. Depth' = 0
    BY <1>8, EmptySeq DEF Disconnect, Depth
  <2>. QED  BY <2>1 DEF PlaceInv
<1>9. CASE Authenticate \/ \E b \in BOOLEAN : Reconnect(b)
  <2>1. PICK pc \in {"getnonce", "ping"} : Idle /\ SetTop(Goto(Top, pc))
    BY <1>9 DEF Authenticate, Reconnect, Begin
  <2>2. Goto(Top, pc) \in Frame /\ Goto(Top, pc).pc = pc
    BY <1>1, <2>1, GotoType DEF Pcs
  <2>. QED  BY <1>2, <2>1, <2>2
<1>. QED
  BY <1>3, <1>4, <1>5, <1>6, <1>7, <1>8, <1>9 DEF Application

LEMMA LibraryPlace == ASSUME TypeOK, PlaceInv, Library PROVE PlaceInv'
<1>1. Depth > 0 => Depth \in Nat /\ Top \in Frame
  BY TopType
<1>2. ASSUME Depth > 0, NEW pc \in Pcs \ {"wait"}, SetTop(Goto(Top, pc)),
             pc \in {"getnonce", "authenticate"} => Depth = 1
      PROVE  PlaceInv'
  <2>1. Goto(Top, pc) \in Frame /\ Goto(Top, pc).pc = pc
    BY <1>1, <1>2, GotoType
  <2>2. Depth' = Depth /\ Top'.pc = pc
    BY <1>2, <2>1, SetTopShape
  <2>. QED  BY <1>2, <2>2 DEF PlaceInv
<1>3. CASE \/ PingFails \/ PingAnswered \/ MasterFound \/ NotMaster \/ RefreshHosts
           \/ TryPrimary \/ TryHosts \/ TrySeeds
  <2>1. CASE SearchStep
    <3>1. PICK f \in Frame : Depth > 0 /\ SetTop(f) /\ f.pc \in Search \cup {"done"}
      BY <2>1 DEF SearchStep
    <3>2. Top' = f
      BY <3>1, SetTopShape
    <3>. QED  BY <3>1, <3>2 DEF PlaceInv, Search
  <2>2. CASE Depth > 0 /\ \E a \in Addrs : TryAddress(a)
    <3>1. Top'.pc = "ping"
      BY <2>2, TryAddressShape
    <3>. QED  BY <3>1 DEF PlaceInv
  <2>. QED  BY <1>3, <2>1, <2>2, SearchSteps
<1>4. CASE NestedReturnsConn \/ NestedReturnsNull
  <2>1. Depth > 1 /\ Top \in Frame /\ stack[Depth - 1] \in Frame /\ Depth \in Nat
    BY <1>1, <1>4, BelowType DEF NestedReturnsConn, NestedReturnsNull, Running
  <2>2. PICK f \in Frame : Pop(f) /\ f.pc = AfterNested
    BY <1>4, <2>1, ReplacedType, AfterNestedType, GotoType
    DEF NestedReturnsConn, NestedReturnsNull
  <2>3. Depth' = Depth - 1 /\ Top' = f
    BY <2>1, <2>2, PopShape
  <2>. QED  BY <2>1, <2>2, <2>3 DEF PlaceInv, AfterNested
<1>5. CASE ReturnConn \/ ReturnNull
  BY <1>2, <1>5 DEF ReturnConn, ReturnNull, Finish, Pcs
<1>6. CASE ResumeAuthentication
  <2>1. pending[Len(pending)] \in Pending
    BY <1>6, EmptySeq, ElementOfSeq, LenProperties DEF ResumeAuthentication, TypeOK
  <2>. QED  BY <1>2, <1>6, <2>1 DEF ResumeAuthentication, Pending, Pcs
<1>7. CASE GetNonce \/ AuthenticateAccepted \/ AuthenticateFails \/ SendFailsReconnect
  <2>1. Depth > 0 /\ Top.pc \in {"getnonce", "authenticate"} /\ Depth = 1
    BY <1>7 DEF GetNonce, AuthenticateAccepted, AuthenticateFails, SendFailsReconnect, Running,
       PlaceInv
  <2>. QED
    BY <1>2, <1>7, <2>1 DEF GetNonce, AuthenticateAccepted, AuthenticateFails,
       SendFailsReconnect, Pcs
<1>. QED  BY <1>3, <1>4, <1>5, <1>6, <1>7 DEF Library

LEMMA PlaceAlways == Spec => []PlaceInv
<1>1. Init => PlaceInv
  BY EmptySeq DEF Init, PlaceInv, Depth
<1>2. TypeOK /\ PlaceInv /\ [Next]_vars => PlaceInv'
  <2>. SUFFICES ASSUME TypeOK, PlaceInv, [Next]_vars PROVE PlaceInv'
    OBVIOUS
  <2>1. CASE Environment \/ UNCHANGED vars
    <3>1. UNCHANGED stack
      BY <2>1 DEF Environment, ServerDown, ServerUp, Elect, StepDown, LinkBreaks, vars, progVars
    <3>. QED  BY <3>1 DEF PlaceInv, Top, Depth
  <2>. QED  BY <2>1, ApplicationPlace, LibraryPlace DEF Next
<1>. QED  BY <1>1, <1>2, TypeCorrect, PTL DEF Spec

\* A step of the authentication gets further in it, or reconnects, which it
\* does for the last time unless another fault happens.
LEMMA AuthenticationShortened ==
    ASSUME TypeOK, PlaceInv,
           \/ GetNonce \/ AuthenticateAccepted \/ AuthenticateFails
           \/ SendFailsReconnect
    PROVE  Shortened
<1>1. Depth = 1 /\ Top.pc \in {"getnonce", "authenticate"} /\ Top \in Frame
  <2>1. Depth > 0 /\ Top.pc \in {"getnonce", "authenticate"}
    BY DEF GetNonce, AuthenticateAccepted, AuthenticateFails, SendFailsReconnect, Running
  <2>. QED  BY <2>1, TopType DEF PlaceInv
<1>2. UNCHANGED <<events, alive, peer>>
  BY DEF GetNonce, AuthenticateAccepted, AuthenticateFails, SendFailsReconnect
<1>3. CASE SendFailsReconnect
  <2>1. SetTop(Goto(Top, "ping")) /\ ~force' /\ Top.fd \notin alive /\ ~out
    BY <1>3 DEF SendFailsReconnect
  <2>2. Depth' = 1 /\ Top'.pc = "ping"
    BY <1>1, <2>1, GotoType, SetTopShape DEF Pcs
  <2>3. ~Steady /\ Steady'
    BY <1>1, <2>1, <2>2 DEF Steady
  <2>4. Len(pending') = Len(pending) + 1
    BY <1>3 DEF SendFailsReconnect, TypeOK
  <2>. QED  BY <1>2, <2>2, <2>3, <2>4 DEF Shortened
<1>4. CASE GetNonce
  <2>1. SetTop(Goto(Top, "authenticate")) /\ Top.fd \in alive /\ UNCHANGED pending
        /\ Top.pc = "getnonce"
    BY <1>4 DEF GetNonce, Running
  <2>2. Depth' = 1 /\ Top'.pc = "authenticate" /\ Top'.fd = Top.fd
    BY <1>1, <2>1, GotoType, SetTopShape DEF Pcs
  <2>3. Steady'
    BY <1>2, <2>1, <2>2 DEF Steady
  <2>4. ToOpen' = ToOpen /\ ToPass' = ToPass /\ ToTry' < ToTry
    BY <1>1, <2>1, <2>2 DEF ToOpen, ToPass, ToTry, Searching, Rank
  <2>. QED  BY <1>2, <2>1, <2>2, <2>3, <2>4 DEF Shortened
<1>5. CASE AuthenticateAccepted \/ AuthenticateFails
  <2>1. SetTop(Goto(Top, "done")) /\ UNCHANGED pending
    BY <1>5 DEF AuthenticateAccepted, AuthenticateFails
  <2>2. Depth' = 1 /\ Top'.pc = "done"
    BY <1>1, <2>1, GotoType, SetTopShape DEF Pcs
  <2>3. Steady'
    BY <2>2 DEF Steady
  <2>4. ToOpen' = ToOpen /\ ToPass' = ToPass /\ ToTry' < ToTry
    BY <1>1, <2>2 DEF ToOpen, ToPass, ToTry, Searching, Rank
  <2>. QED  BY <1>2, <2>1, <2>2, <2>3, <2>4 DEF Shortened
<1>. QED  BY <1>3, <1>4, <1>5

\* An event is one that will not happen again.
LEMMA EventIsShorter ==
    ASSUME TypeOK, Measured, Measured', Depth > 0, Environment
    PROVE  <<Left', Left>> \in Shorter
<1>1. events' = events + 1 /\ UNCHANGED stack
  BY DEF Environment, ServerDown, ServerUp, Elect, StepDown, LinkBreaks, Event, progVars
<1>2. Depth' = Depth
  BY <1>1 DEF Depth
<1>3. /\ ToHappen' < ToHappen
      /\ Left[1] = ToHappen /\ Left'[1] = ToHappen'
  BY <1>1, ReconnectAssumption DEF ToHappen, TypeOK, Left
<1>4. Left \in Measures /\ Left' \in Measures
  BY <1>2 DEF Measured
<1>. QED  BY <1>3, <1>4, LexLess

\* A call of the library takes finitely many steps: whatever the replica set
\* does, every step made while it is in progress shortens what is left of it, in
\* an order that is well-founded.  The recursion of mongo_sync_reconnect and
\* its re-entry from mongo_sync_cmd_authenticate both end.
THEOREM CallTerminates ==
    ASSUME IsFiniteSet(Fds)
    PROVE  /\ IsWellFoundedOn(Shorter, Measures)
           /\ Spec => [][InCall => <<Left', Left>> \in Shorter]_vars
<1>1. TypeOK => Measured
  BY LeftType
<1>2. TypeOK /\ TypeOK' /\ FdOwnership /\ PlaceInv /\ Measured /\ Measured' /\ [Next]_vars =>
        [InCall => <<Left', Left>> \in Shorter]_vars
  <2>. SUFFICES ASSUME TypeOK, FdOwnership, PlaceInv, Measured, Measured', Next, InCall
       PROVE  <<Left', Left>> \in Shorter
    OBVIOUS
  <2>1. Depth > 0 /\ ~Idle /\ stack # <<>>
    BY EmptyStack DEF InCall
  <2>2. ~Application
    BY <2>1 DEF Application, SeedAdd, ConnectFails, Connect, SetSlaveok, SetAutoReconnect,
       Reconnect, Disconnect, CmdIsMaster, Authenticate, Begin
  <2>3. CASE Library
    <3>1. Shortened
      BY <2>3, SearchingShortens, NestedReturnsShortened, FinishShortened,
         AuthenticationShortened DEF Library
    <3>. QED  BY <2>1, <3>1, ShortenedIsShorter
  <2>. QED  BY <2>1, <2>2, <2>3, EventIsShorter DEF Next
<1>3. Spec => [][InCall => <<Left', Left>> \in Shorter]_vars
  BY <1>1, <1>2, TypeCorrect, Ownership, PlaceAlways, PTL DEF Spec
<1>. QED  BY <1>3, ShorterWellFounded

\* A call that is not steady yet may suspend one activation more; each fault
\* can undo that once.
NestingInv == Len(pending) + ToReconnect <= events + 1

LEMMA LibraryNesting ==
    ASSUME TypeOK, FdOwnership, PlaceInv, Measured, IsFiniteSet(Fds), NestingInv, Library
    PROVE  NestingInv'
<1>1. Shortened
  BY SearchingShortens, NestedReturnsShortened, FinishShortened, AuthenticationShortened
     DEF Library
<1>2. events' = events /\ events \in Nat
  BY <1>1 DEF Shortened, TypeOK
<1>3. Len(pending) \in Nat /\ Len(pending') \in Nat
  <2>1. TypeOK'
    BY LibraryType
  <2>. QED  BY <2>1, LenProperties DEF TypeOK
<1>4. \/ Len(pending') = Len(pending) + 1 /\ ToReconnect = 1 /\ ToReconnect' = 0
      \/ Len(pending') < Len(pending) /\ ToReconnect' <= ToReconnect
      \/ Len(pending') = Len(pending) /\ ToReconnect' <= ToReconnect
  BY <1>1 DEF Shortened, ToReconnect
<1>5. ToReconnect \in 0..1 /\ ToReconnect' \in 0..1
  BY DEF ToReconnect
<1>. QED  BY <1>2, <1>3, <1>4, <1>5 DEF NestingInv

LEMMA DepthBounded ==
    ASSUME TypeOK, FdOwnership, IsFiniteSet(Fds)
    PROVE  Depth <= Cardinality(Fds)
<1>. DEFINE f == [k \in 1..Depth |-> stack[k].fd]
<1>1. Depth \in Nat /\ \A k \in 1..Depth : stack[k] \in Frame
  BY LenProperties, ElementOfSeq DEF TypeOK, Depth
<1>2. f \in [1..Depth -> Fds]
  BY <1>1 DEF Frame
<1>3. \A k, l \in 1..Depth : k # l => f[k] # f[l]
  BY DEF FdOwnership
<1>4. f \in Injection(1..Depth, Fds)
  BY <1>2, <1>3 DEF Injection, IsInjective
<1>5. IsFiniteSet(1..Depth) /\ Cardinality(1..Depth) = Depth
  BY <1>1, FS_Interval
<1>6. Cardinality(1..Depth) <= Cardinality(Fds)
  BY <1>4, <1>5, FS_Injection DEF ExistsInjection
<1>. QED  BY <1>5, <1>6

\* How deep the calls can nest.  The search may use every descriptor of the
\* process, but mongo_sync_reconnect is active at most once for each; and the
\* activations suspended in a re-authentication, which take no descriptor, are
\* at most one more than there were faults.
THEOREM NestingBounded ==
    ASSUME IsFiniteSet(Fds)
    PROVE  Spec => [](Depth <= Cardinality(Fds) /\ Len(pending) <= events + 1)
<1>1. Init => NestingInv
  BY EmptySeq DEF Init, NestingInv, ToReconnect
<1>2. /\ TypeOK /\ TypeOK' /\ FdOwnership /\ PlaceInv /\ Measured /\ VerifiedInv
      /\ NestingInv /\ [Next]_vars
      => NestingInv'
  <2>. SUFFICES ASSUME TypeOK, TypeOK', FdOwnership, PlaceInv, Measured, VerifiedInv, NestingInv,
                       [Next]_vars
                PROVE  NestingInv'
    OBVIOUS
  <2>0. Len(pending) \in Nat /\ events \in Nat /\ events' \in Nat
        /\ ToReconnect \in 0..1 /\ ToReconnect' \in 0..1
    BY LenProperties DEF TypeOK, ToReconnect
  <2>1. CASE Environment
    <3>1. events' = events + 1 /\ pending' = pending
      BY <2>1 DEF Environment, ServerDown, ServerUp, Elect, StepDown, LinkBreaks, Event, progVars
    <3>. QED  BY <2>0, <3>1 DEF NestingInv
  <2>2. CASE Application
    <3>1. (Idle \/ stack = <<>>) /\ pending' = pending
      BY <2>2 DEF Application, SeedAdd, ConnectFails, Connect, SetSlaveok, SetAutoReconnect,
         Reconnect, Disconnect, CmdIsMaster, Authenticate, Begin
    <3>2. pending = <<>>
      BY <3>1, EmptyStack DEF VerifiedInv, PendingInv
    <3>3. Len(pending') \in Int /\ Len(pending') <= 0
      BY <3>1, <3>2, EmptySeq
    <3>4. ToReconnect' <= 1 /\ 0 <= events' /\ ToReconnect' \in Int /\ events' \in Int
      BY <2>0
    <3>5. Len(pending') + ToReconnect' <= events' + 1
      BY <3>3, <3>4
    <3>. QED  BY <3>5 DEF NestingInv
  <2>3. CASE UNCHANGED vars
    <3>1. /\ UNCHANGED <<pending, events>>
          /\ ToReconnect' = ToReconnect
      BY <2>3 DEF vars, progVars, ToReconnect, Steady, Top, Depth
    <3>. QED  BY <3>1 DEF NestingInv
  <2>. QED  BY <2>1, <2>2, <2>3, LibraryNesting DEF Next
<1>3. TypeOK => Measured
  BY LeftType
<1>4. TypeOK /\ FdOwnership /\ NestingInv =>
        Depth <= Cardinality(Fds) /\ Len(pending) <= events + 1
  <2>. SUFFICES ASSUME TypeOK, FdOwnership, NestingInv
                PROVE  Depth <= Cardinality(Fds) /\ Len(pending) <= events + 1
    OBVIOUS
  <2>1. Len(pending) \in Nat /\ events \in Nat /\ ToReconnect \in 0..1
    BY LenProperties DEF TypeOK, ToReconnect
  <2>. QED  BY <2>1, DepthBounded DEF NestingInv
<1>. QED
  BY <1>1, <1>2, <1>3, <1>4, TypeCorrect, Ownership, PlaceAlways, VerifiedAlways, PTL DEF Spec

-----------------------------------------------------------------------------
(* The recovery cache, which a connection is made from and stored into: any*)
(* connections, servers, credentials and seeds.                            *)

\* What the cache and a connection hold.
Held == [seeds : Seq(Addresses), hosts : SUBSET Addresses,
         primary : Addresses \cup {None}, user : Users \cup {None}]

CacheTypes ==
    /\ cache \in Held
    /\ conn \in [Conns -> [open : BOOLEAN, rs : Held]]
    /\ elected \in Servers
    /\ newer \in [Conns -> SUBSET (Addresses \cup Users)]

Reported(i, how) == \E why \in {"reconnect", "replaced", "older"} : <<why, i>> \in how
Kept(i, conns) == \E c \in Conns : conns[c].open /\ i \in Items(conns[c].rs)

\* Whatever a connection would overwrite in the cache when it is closed came
\* in after it was made, is in a connection as well, or was reported lost.
OlderIsCovered ==
    \A c \in Conns : conn[c].open =>
        \A i \in Items(cache) : i \in newer[c] \/ Kept(i, conn) \/ Reported(i, lost)

AllAccounted ==
    \A i \in known : i \in Items(cache) \/ Kept(i, conn) \/ Reported(i, lost)

CacheInv == CacheTypes /\ OlderIsCovered /\ AllAccounted

LEMMA NothingHeld ==
    Nothing \in Held /\ Items(Nothing) = {}
<1>1. Nothing \in Held
  BY DEF Nothing, Held
<1>2. Elements(Nothing.seeds) = {} /\ Nothing.user = None
  BY DEF Nothing, Elements
<1>. QED  BY <1>1, <1>2 DEF Items

LEMMA SeedAppended ==
    ASSUME NEW rs \in Held, NEW h \in Addresses
    PROVE  /\ [rs EXCEPT !.seeds = Append(@, h)] \in Held
           /\ Items([rs EXCEPT !.seeds = Append(@, h)]) = Items(rs) \cup {h}
<1>. DEFINE s == rs.seeds
            t == Append(s, h)
<1>1. s \in Seq(Addresses) /\ t \in Seq(Addresses)
  BY DEF Held
<1>2. Elements(t) = Elements(s) \cup {h}
  <2>1. DOMAIN s = 1..Len(s) /\ DOMAIN t = 1..(Len(s) + 1) /\ Len(s) \in Nat
    BY <1>1
  <2>2. \A k \in 1..Len(s) : t[k] = s[k]
    BY <1>1
  <2>3. t[Len(s) + 1] = h
    BY <1>1
  <2>. HIDE DEF s, t
  <2>. QED  BY <2>1, <2>2, <2>3 DEF Elements
<1>3. [rs EXCEPT !.seeds = Append(@, h)] \in Held
  BY DEF Held
<1>4. [rs EXCEPT !.seeds = Append(@, h)].seeds = t /\ [rs EXCEPT !.seeds = Append(@, h)].user = rs.user
  BY DEF Held
<1>. QED  BY <1>2, <1>3, <1>4 DEF Items

\* The hosts and the primary are no items.
LEMMA SameItems ==
    ASSUME NEW rs \in Held, NEW hs \in SUBSET Addresses, NEW p \in Addresses \cup {None}
    PROVE  /\ [rs EXCEPT !.hosts = hs, !.primary = p] \in Held
           /\ Items([rs EXCEPT !.hosts = hs, !.primary = p]) = Items(rs)
BY DEF Held, Items

LEMMA UserReplaced ==
    ASSUME NEW rs \in Held, NEW u \in Users
    PROVE  /\ [rs EXCEPT !.user = u] \in Held
           /\ Items([rs EXCEPT !.user = u]) = Elements(rs.seeds) \cup {u}
BY RecoveryCacheAssumption DEF Held, Items

\* What a step does to the connections: one of them is changed.
LEMMA KeptElsewhere ==
    ASSUME CacheTypes, NEW c \in Conns, NEW r, NEW i, Kept(i, conn),
           conn' = [conn EXCEPT ![c] = r],
           conn[c].open /\ i \in Items(conn[c].rs) => r.open /\ i \in Items(r.rs)
    PROVE  Kept(i, conn')
BY DEF CacheTypes, Kept

LEMMA CacheStep ==
    ASSUME CacheInv, CacheNext PROVE CacheInv'
<1>. DEFINE items == Items(cache)
            held(c) == Items(conn[c].rs)
<1>1. CacheTypes /\ OlderIsCovered /\ AllAccounted
  BY DEF CacheInv
<1>2. Nothing \in Held /\ Items(Nothing) = {}
  BY NothingHeld
<1>3. Seeds \subseteq Addresses /\ Hosts \subseteq Addresses /\ Servers \subseteq Addresses
  BY RecoveryCacheAssumption DEF Addresses
<1>4. \A c \in Conns : conn[c].rs \in Held /\ conn[c].open \in BOOLEAN
  BY <1>1 DEF CacheTypes
<1>5. ASSUME cache' = Nothing PROVE OlderIsCovered'
  BY <1>2, <1>5 DEF OlderIsCovered

\* The application adds a seed to the cache.
<1>6. ASSUME NEW h \in Seeds, CacheSeedAdd(h) PROVE CacheInv'
  <2>1. /\ cache' = [cache EXCEPT !.seeds = Append(@, h)] /\ conn' = conn /\ elected' = elected
        /\ newer' = [c \in Conns |-> IF conn[c].open THEN newer[c] \cup {h} ELSE {}]
        /\ known' = known \cup {h} /\ lost' = {l \in lost : l[2] \notin {h}}
    BY <1>6 DEF CacheSeedAdd, Entrust, Live
  <2>2. h \in Addresses
    BY <1>3
  <2>3. cache' \in Held /\ Items(cache') = Items(cache) \cup {h}
    BY <1>1, <2>1, <2>2, SeedAppended DEF CacheTypes
  <2>4. \A i : Reported(i, lost) /\ i # h => Reported(i, lost')
    BY <2>1 DEF Reported
  <2>5. CacheTypes'
    BY <1>1, <2>1, <2>2, <2>3 DEF CacheTypes
  <2>6. OlderIsCovered'
    BY <1>1, <2>1, <2>3, <2>4 DEF OlderIsCovered, CacheTypes
  <2>7. AllAccounted'
    BY <1>1, <2>1, <2>3, <2>4 DEF AllAccounted
  <2>. QED  BY <2>5, <2>6, <2>7 DEF CacheInv

\* It discards the cache.
<1>7. ASSUME Discard PROVE CacheInv'
  <2>1. /\ cache' = Nothing /\ conn' = conn /\ elected' = elected /\ newer' = newer
        /\ known' = UNION {Items(conn[c].rs) : c \in {d \in Conns : conn[d].open}}
    BY <1>7 DEF Discard, Live
  <2>2. CacheTypes'
    BY <1>1, <1>2, <2>1 DEF CacheTypes
  <2>3. AllAccounted'
    BY <2>1 DEF AllAccounted, Kept
  <2>. QED  BY <1>5, <2>1, <2>2, <2>3 DEF CacheInv

\* A connection is made of the cache, which stays or is emptied.
<1>8. ASSUME NEW c \in Conns, ~conn[c].open, NEW rs \in Held,
             Items(rs) = Items(cache),
             conn' = [conn EXCEPT ![c] = [open |-> TRUE, rs |-> rs]],
             cache' = cache \/ cache' = Nothing,
             newer' = [newer EXCEPT ![c] = {}],
             elected' = elected /\ known' = known /\ lost' = lost
      PROVE  CacheInv'
  <2>1. CacheTypes'
    BY <1>1, <1>2, <1>8 DEF CacheTypes
  <2>2. \A i : Kept(i, conn) => Kept(i, conn')
    BY <1>1, <1>8, KeptElsewhere
  <2>3. \A i \in Items(cache) : Kept(i, conn')
    BY <1>1, <1>8 DEF Kept, CacheTypes
  <2>4. OlderIsCovered'
    BY <1>2, <1>8, <2>3 DEF OlderIsCovered
  <2>5. AllAccounted'
    BY <1>1, <1>8, <2>2, <2>3 DEF AllAccounted
  <2>. QED  BY <2>1, <2>4, <2>5 DEF CacheInv
<1>9. ASSUME NEW c \in Conns, ConnectSlaveok(c) PROVE CacheInv'
  BY <1>1, <1>8, <1>9 DEF ConnectSlaveok, Connected, Loaded, CacheTypes
<1>10. ASSUME NEW c \in Conns, ConnectForced(c) PROVE CacheInv'
  <2>. DEFINE bare == [cache EXCEPT !.hosts = {}, !.primary = None]
  <2>1. cache \in Held /\ bare \in Held /\ Items(bare) = Items(cache)
    BY <1>1, SameItems DEF CacheTypes
  <2>2. /\ \/ conn' = [conn EXCEPT ![c] = [open |-> TRUE, rs |-> cache]]
           \/ conn' = [conn EXCEPT ![c] = [open |-> TRUE, rs |-> bare]]
        /\ ~conn[c].open /\ cache' = Nothing /\ newer' = [newer EXCEPT ![c] = {}]
        /\ elected' = elected /\ known' = known /\ lost' = lost
    BY <1>10 DEF ConnectForced, Reconnected, Connected, Loaded
  <2>. HIDE DEF bare
  <2>. QED  BY <1>8, <2>1, <2>2
<1>11. ASSUME NEW c \in Conns, ConnectForcedFails(c) PROVE CacheInv'
  <2>1. /\ cache' = Nothing /\ conn' = conn /\ elected' = elected /\ newer' = newer /\ known' = known
        /\ lost' = lost \cup {<<"reconnect", i>> : i \in Items(cache)}
    BY <1>11 DEF ConnectForcedFails
  <2>2. CacheTypes'
    BY <1>1, <1>2, <2>1 DEF CacheTypes
  <2>3. \A i : Reported(i, lost) \/ i \in Items(cache) => Reported(i, lost')
    BY <2>1 DEF Reported
  <2>4. AllAccounted'
    BY <1>1, <2>1, <2>3 DEF AllAccounted
  <2>. QED  BY <1>5, <2>1, <2>2, <2>4 DEF CacheInv

\* What an open connection holds changes; what it loses is reported.
<1>12. ASSUME NEW c \in Conns, conn[c].open, NEW rs \in Held, Changed(c, rs),
              cache' = cache /\ elected' = elected /\ newer' = newer,
              \A i : Kept(i, conn) \/ Reported(i, lost) => Kept(i, conn') \/ Reported(i, lost'),
              \A i \in known' : i \in known \/ Kept(i, conn')
       PROVE  CacheInv'
  <2>1. CacheTypes'
    <3>1. conn' = [conn EXCEPT ![c].rs = rs]
      BY <1>12 DEF Changed
    <3>. QED  BY <1>1, <1>12, <3>1 DEF CacheTypes
  <2>2. \A d \in Conns : conn'[d].open = conn[d].open
    BY <1>1, <1>12 DEF CacheTypes, Changed
  <2>3. OlderIsCovered'
    BY <1>1, <1>12, <2>2 DEF OlderIsCovered
  <2>4. AllAccounted'
    BY <1>1, <1>12 DEF AllAccounted
  <2>. QED  BY <2>1, <2>3, <2>4 DEF CacheInv
<1>13. ASSUME NEW c \in Conns, conn[c].open, NEW rs \in Held, Changed(c, rs)
       PROVE  /\ \A i \in Items(rs) : Kept(i, conn')
              /\ \A i : Kept(i, conn) => Kept(i, conn') \/ i \in Items(conn[c].rs)
  <2>1. conn'[c].open /\ conn'[c].rs = rs /\ \A d \in Conns \ {c} : conn'[d] = conn[d]
    BY <1>1, <1>13 DEF CacheTypes, Changed
  <2>. QED  BY <1>13, <2>1 DEF Kept
<1>14. ASSUME NEW h \in Seeds, NEW c \in Conns, ConnSeedAdd(c, h) PROVE CacheInv'
  <2>. DEFINE rs == [conn[c].rs EXCEPT !.seeds = Append(@, h)]
  <2>1. /\ conn[c].open /\ Changed(c, rs) /\ cache' = cache /\ elected' = elected /\ newer' = newer
        /\ known' = known \cup {h} /\ lost' = {l \in lost : l[2] \notin {h}}
    BY <1>14 DEF ConnSeedAdd, Entrust
  <2>2. h \in Addresses /\ conn[c].rs \in Held
    BY <1>3, <1>4
  <2>3. rs \in Held /\ Items(rs) = Items(conn[c].rs) \cup {h}
    BY <2>2, SeedAppended
  <2>4. \A i : Reported(i, lost) /\ i # h => Reported(i, lost')
    BY <2>1 DEF Reported
  <2>. HIDE DEF rs
  <2>5. /\ \A i \in Items(rs) : Kept(i, conn')
        /\ \A i : Kept(i, conn) => Kept(i, conn') \/ i \in Items(conn[c].rs)
    BY <1>13, <2>1, <2>3
  <2>. QED  BY <1>12, <2>1, <2>3, <2>4, <2>5
<1>15. ASSUME NEW c \in Conns, NEW u \in Users, ConnAuthenticate(c, u) PROVE CacheInv'
  <2>. DEFINE old == conn[c].rs
              rs == [old EXCEPT !.user = u]
              gone == IF old.user \in {None, u} THEN {} ELSE {<<"replaced", old.user>>}
  <2>1. /\ conn[c].open /\ Changed(c, rs) /\ cache' = cache /\ elected' = elected /\ newer' = newer
        /\ known' = known \cup {u} /\ lost' = {l \in lost : l[2] # u} \cup gone
    BY <1>15 DEF ConnAuthenticate
  <2>2. old \in Held
    BY <1>4
  <2>3. rs \in Held /\ Items(rs) = Elements(old.seeds) \cup {u}
    BY <2>2, UserReplaced
  <2>4. \A i : Reported(i, lost) /\ i # u => Reported(i, lost')
    BY <2>1 DEF Reported
  <2>5. \A i \in Items(old) : i \in Items(rs) \/ Reported(i, lost')
    BY <2>1, <2>3 DEF Reported, Items
  <2>. HIDE DEF old, rs
  <2>6. /\ \A i \in Items(rs) : Kept(i, conn')
        /\ \A i : Kept(i, conn) => Kept(i, conn') \/ i \in Items(old)
    BY <1>13, <2>1, <2>3 DEF old
  <2>. QED  BY <1>12, <2>1, <2>3, <2>4, <2>5, <2>6
<1>16. ASSUME NEW c \in Conns, ConnIsMaster(c) \/ ConnFailover(c) PROVE CacheInv'
  <2>1. PICK hs \in SUBSET Addresses, p \in Addresses \cup {None} :
            Changed(c, [conn[c].rs EXCEPT !.hosts = hs, !.primary = p])
    <3>1. Hosts \in SUBSET Addresses /\ {} \in SUBSET Addresses
      BY <1>3
    <3>2. elected \in Addresses
      BY <1>1, <1>3 DEF CacheTypes
    <3>. QED  BY <1>16, <3>1, <3>2 DEF ConnIsMaster, ConnFailover
  <2>. DEFINE rs == [conn[c].rs EXCEPT !.hosts = hs, !.primary = p]
  <2>2. rs \in Held /\ Items(rs) = Items(conn[c].rs)
    BY <1>4, SameItems
  <2>3. conn[c].open /\ UNCHANGED <<cache, elected, newer, known, lost>>
    BY <1>16 DEF ConnIsMaster, ConnFailover
  <2>. HIDE DEF rs
  <2>4. Changed(c, rs)
    BY <2>1 DEF rs
  <2>5. /\ \A i \in Items(rs) : Kept(i, conn')
        /\ \A i : Kept(i, conn) => Kept(i, conn') \/ i \in Items(conn[c].rs)
    BY <1>13, <2>2, <2>3, <2>4
  <2>. QED  BY <1>12, <2>2, <2>3, <2>4, <2>5

\* A connection is closed, and overwrites the cache.
<1>17. ASSUME NEW c \in Conns, ConnDisconnect(c) PROVE CacheInv'
  <2>. DEFINE rs == conn[c].rs
  <2>1. /\ conn[c].open /\ cache' = rs /\ conn' = [conn EXCEPT ![c] = Closed]
        /\ lost' = lost \cup {<<"older", i>> : i \in newer[c]}
        /\ newer' = [d \in Conns |-> IF conn[d].open /\ d # c THEN newer[d] \cup Items(rs) ELSE {}]
        /\ elected' = elected /\ known' = known
    BY <1>17 DEF ConnDisconnect, Stored, Live
  <2>2. rs \in Held /\ Items(rs) \subseteq Addresses \cup Users
    <3>1. rs \in Held
      BY <1>4
    <3>. HIDE DEF rs
    <3>2. Elements(rs.seeds) \subseteq Addresses
      BY <3>1 DEF Held, Elements
    <3>. QED  BY <3>1, <3>2 DEF Held, Items
  <2>3. Closed \in [open : BOOLEAN, rs : Held] /\ ~Closed.open
    BY <1>2 DEF Closed
  <2>4. CacheTypes'
    <3>. HIDE DEF rs
    <3>. QED  BY <1>1, <2>1, <2>2, <2>3 DEF CacheTypes
  <2>5. \A i : Reported(i, lost) \/ i \in newer[c] => Reported(i, lost')
    BY <2>1 DEF Reported
  <2>6. \A i : Kept(i, conn) => i \in Items(rs) \/ Kept(i, conn')
    BY <1>1, <2>1 DEF Kept, CacheTypes
  <2>7. \A d \in Conns : conn'[d].open => newer'[d] = newer[d] \cup Items(rs)
    BY <1>1, <2>1, <2>3 DEF CacheTypes
  <2>8. OlderIsCovered'
    BY <2>1, <2>7 DEF OlderIsCovered
  <2>9. AllAccounted'
    BY <1>1, <2>1, <2>5, <2>6 DEF AllAccounted, OlderIsCovered
  <2>. QED  BY <2>4, <2>8, <2>9 DEF CacheInv
<1>18. ASSUME NEW s \in Servers, ElectMember(s) PROVE CacheInv'
  BY <1>1, <1>18 DEF ElectMember, CacheInv, CacheTypes, OlderIsCovered, AllAccounted
<1>. QED  BY <1>6, <1>7, <1>9, <1>10, <1>11, <1>14, <1>15, <1>16, <1>17, <1>18 DEF CacheNext

\* A seed or the credentials are lost in the three ways only, for any number of
\* connections of one cache, opened and closed in any order
\* (mongo-sync.c:94-200, 396-415 and 2045-2155).
THEOREM ItemsAccounted == CacheSpec => []Accounted
<1>1. CacheInit => CacheInv
  <2>. SUFFICES ASSUME CacheInit PROVE CacheInv
    OBVIOUS
  <2>1. Nothing \in Held /\ Closed = [open |-> FALSE, rs |-> Nothing]
    BY NothingHeld DEF Closed
  <2>2. CacheTypes
    BY <2>1 DEF CacheInit, CacheTypes
  <2>3. OlderIsCovered /\ AllAccounted
    BY <2>1 DEF CacheInit, OlderIsCovered, AllAccounted
  <2>. QED  BY <2>2, <2>3 DEF CacheInv
<1>2. CacheInv /\ [CacheNext]_cacheVars => CacheInv'
  <2>1. CacheInv /\ UNCHANGED cacheVars => CacheInv'
    BY DEF cacheVars, CacheInv, CacheTypes, OlderIsCovered, AllAccounted
  <2>. QED  BY <2>1, CacheStep
<1>3. CacheInv => Accounted
  BY DEF CacheInv, AllAccounted, Kept, Reported, Accounted, Live
<1>. QED  BY <1>1, <1>2, <1>3, PTL DEF CacheSpec
=============================================================================
