---------------------------- MODULE MCReconnect ----------------------------
(* Instances of Reconnect for TLC.                                         *)
EXTENDS Reconnect

CONSTANTS s1, s2, bad

\* The members' own list of hosts; the longer one also holds an address that
\* mongo_util_parse_addr refuses.
MCMembers == <<s1, s2>>
MCMembersBad == <<bad, s1, s2>>
=============================================================================
