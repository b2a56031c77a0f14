---------------------------- MODULE QdbMessages ----------------------------
(***************************************************************************)
(* The messages of the QDB protocol, the same at both ends of a            *)
(* connection.                                                             *)
(*                                                                         *)
(* A message is a command, the ids of the stream at either end, and its    *)
(* payload.  The payload is abstracted to one number: the version of a     *)
(* Connect, the reason of a Refuse, the service tag of an Open, and the    *)
(* number of the packet that a Write carries (one Write per packet: the    *)
(* packets that take several are the subject of module Stream).            *)
(***************************************************************************)
EXTENDS Queues

Commands == {"Invalid", "Connect", "Refuse", "Open", "Write", "Close", "Ok"}

StreamId == Nat

Message == [command : Commands, hostStream : StreamId,
            deviceStream : StreamId, data : Nat]

QdbMessage(command, host, device, data) ==
    [command |-> command, hostStream |-> host,
     deviceStream |-> device, data |-> data]

qdbProtocolVersion == 1

NotConnected == 1       \* the reasons of a Refuse; every other number is
UnknownVersion == 2     \* read as RefuseReason::Invalid

ConnectMessage == QdbMessage("Connect", 0, 0, qdbProtocolVersion)
=============================================================================
