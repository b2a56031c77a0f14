---------------------------- MODULE MCConnection ----------------------------
(* Connection against an arbitrary device, with values for TLC. *)
EXTENDS Connection

MCDeviceMessages ==
    {QdbMessage("Connect", 0, 0, v) : v \in {qdbProtocolVersion, 2}}
    \cup {QdbMessage("Refuse", 0, 0, r) : r \in {0, NotConnected, UnknownVersion}}
    \cup {QdbMessage(cmd, h, 1, 0) : cmd \in {"Write", "Close", "Ok"}, h \in 1..MaxStreams}
    \cup {QdbMessage("Invalid", 0, 0, 0)}

MCReactions == [call : {"none", "write", "open"}, data : {1}]
=============================================================================
