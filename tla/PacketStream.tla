---------------------------- MODULE PacketStream ----------------------------
(***************************************************************************)
(* What a stream promises in one direction: the reader gets the packets    *)
(* that were written, each of them whole, once and in order.  A stream may *)
(* be cut off at either end at any time: what had been written before may  *)
(* then still arrive, in that order and without gaps, or not.              *)
(***************************************************************************)
EXTENDS Naturals, Sequences

CONSTANT
    Packets           \* what is written

VARIABLES
    written,          \* the packets written so far
    delivered,        \* the packets handed to the reader so far
    status            \* of the stream: open, cut off at the writer, closed

vars == <<written, delivered, status>>

Init ==
    /\ written = <<>> /\ delivered = <<>>
    /\ status = "open"

(* The stream may be cut off as the packet is written. *)
Write(p) ==
    /\ written' = Append(written, p)
    /\ status' = status \/ (status = "open" /\ status' = "cut")
    /\ UNCHANGED delivered

Deliver ==
    /\ status # "closed"
    /\ Len(delivered) < Len(written)
    /\ delivered' = Append(delivered, written[Len(delivered) + 1])
    /\ UNCHANGED <<written, status>>

CutOff ==
    /\ status = "open"
    /\ status' = "cut"
    /\ UNCHANGED <<written, delivered>>

Close ==
    /\ status' = "closed"
    /\ UNCHANGED <<written, delivered>>

Next == (\E p \in Packets : Write(p)) \/ Deliver \/ CutOff \/ Close

Spec == Init /\ [][Next]_vars
=============================================================================
