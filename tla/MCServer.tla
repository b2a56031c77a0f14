------------------------------ MODULE MCServer ------------------------------
(* Server against an arbitrary host, with values for TLC. *)
EXTENDS Server

MCHostMessages ==
    {QdbMessage("Connect", 0, 0, v) : v \in {qdbProtocolVersion, 2}}
    \cup {QdbMessage("Open", h, 0, t) : h \in 1..2, t \in {EchoTag, 9}}
    \cup {QdbMessage(cmd, h, d, 1) : cmd \in {"Write", "Close", "Ok"},
                                     h \in 1..2, d \in 1..MaxStreams}
=============================================================================
