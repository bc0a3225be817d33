------------------------------ MODULE Failover ------------------------------
(***************************************************************************)
(* What failover promises the holder of a connection, without the          *)
(* recursion, the host lists or the descriptor table that provide it: the  *)
(* socket under the connection is exchanged only for one that has answered *)
(* the check of the running call, a call that fails leaves the socket      *)
(* alone, and nothing is exchanged while no call is in progress.  A call   *)
(* may lose the first guarantee; it then says so in `loose'.               *)
(***************************************************************************)
CONSTANTS Fds, None

VARIABLES
    fd,         \* the connection's socket, None when there is no connection
    was,        \* the socket when the call began
    call,       \* "none", "reconnect" or "authenticate"
    answered,   \* sockets that answered the check of this call
    loose,      \* the call may end with a socket nobody checked
    result      \* what the last call returned, "none" while one runs

vars == <<fd, was, call, answered, loose, result>>

Init ==
    /\ fd = None /\ was = None /\ call = "none" /\ answered = {} /\ loose = FALSE
    /\ result = "none"

Connect ==
    /\ fd = None
    /\ \/ fd' \in Fds /\ result' = "conn"
       \/ UNCHANGED fd /\ result' = "null"
    /\ UNCHANGED <<was, call, answered, loose>>

Disconnect ==
    /\ fd # None
    /\ call = "none"
    /\ fd' = None
    /\ result' = "none"
    /\ UNCHANGED <<was, call, answered, loose>>

Start(kind) ==
    /\ fd # None
    /\ call = "none"
    /\ call' = kind
    /\ was' = fd
    /\ answered' = {}
    /\ loose' = FALSE
    /\ result' = "none"
    /\ UNCHANGED fd

Answer(f) ==
    /\ call # "none"
    /\ answered' = answered \cup {f}
    /\ UNCHANGED <<fd, was, call, loose, result>>

Loosen ==
    /\ call # "none"
    /\ loose' = TRUE
    /\ UNCHANGED <<fd, was, call, answered, result>>

Exchange(f) ==
    /\ call # "none"
    /\ f \in answered \/ loose
    /\ fd' = f
    /\ UNCHANGED <<was, call, answered, loose, result>>

Succeed ==
    /\ call # "none"
    /\ call = "reconnect" => fd \in answered \/ loose
    /\ call' = "none"
    /\ result' = "conn"
    /\ UNCHANGED <<fd, was, answered, loose>>

Fail ==
    /\ call = "reconnect"
    /\ fd = was
    /\ call' = "none"
    /\ result' = "null"
    /\ UNCHANGED <<fd, was, answered, loose>>

Next ==
    \/ Connect \/ Disconnect
    \/ \E kind \in {"reconnect", "authenticate"} : Start(kind)
    \/ \E f \in Fds : Answer(f) \/ Exchange(f)
    \/ Loosen \/ Succeed \/ Fail

Spec == Init /\ [][Next]_vars
=============================================================================
