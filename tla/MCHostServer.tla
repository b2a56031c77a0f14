---------------------------- MODULE MCHostServer ----------------------------
(* Three clients, some of another version, around one that watches. *)
EXTENDS HostServer

CONSTANTS c1, c2, c3

Current(type) == [type |-> type, version |-> qdbHostMessageVersion]
Old(type)     == [type |-> type, version |-> 0]

Together(first, second, third) ==
    [c \in Clients |-> CASE c = c1 -> first [] c = c2 -> second [] c = c3 -> third]

MCWorkloads ==
    {Together(Current("watch-messages"), Current("messages-and-clear"), Old("stop-server")),
     Together(Current("watch-devices"), Current("devices"), Current("stop-server")),
     Together(Current("watch-messages"), Old("watch-devices"), Current("start-server")),
     Together(Current("messages"), Current("stop-server"), Current("stop-server"))}
=============================================================================
