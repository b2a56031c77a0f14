---------------------------- MODULE MessagePipe ----------------------------
(***************************************************************************)
(* What QdbTransport promises the device's Server of the messages a host   *)
(* sends: whole, in order, none twice.  The host may die, or the cable be  *)
(* pulled, in the middle of a message; that costs the message on its way   *)
(* and at most the first message of the next host, in whose place the      *)
(* Server may see one forged from two hosts' bytes.  Nothing else is lost, *)
(* and nothing is lost from what had already been read.                    *)
(***************************************************************************)
EXTENDS Naturals, Sequences

CONSTANTS
    Messages,         \* what hosts send
    Forgeries         \* what a message cut in two may be mistaken for

VARIABLES
    queue,            \* sent, not handled yet
    torn              \* the last message was cut in two

vars == <<queue, torn>>

Init == queue = <<>> /\ torn = FALSE

Added(S) ==
    /\ queue' # <<>>
    /\ queue'[Len(queue')] \in S
    /\ queue' = Append(queue, queue'[Len(queue')])

Put ==
    /\ ~torn
    /\ Added(Messages)
    /\ UNCHANGED torn

(* The first message after a cut takes the place of the missing half. *)
PutAfterCut ==
    /\ torn
    /\ torn' = FALSE
    /\ UNCHANGED queue \/ Added(Forgeries)

Take ==
    /\ queue # <<>>
    /\ queue' = Tail(queue)
    /\ UNCHANGED torn

(* The sender dies or the cable is pulled. *)
Cut ==
    /\ queue' = queue \/ (queue # <<>> /\ queue' = SubSeq(queue, 1, Len(queue) - 1))
    /\ torn' \in BOOLEAN

(* The receiver starts anew. *)
Clear == queue' = <<>> /\ torn' = FALSE

Next == Put \/ PutAfterCut \/ Take \/ Cut \/ Clear

Spec == Init /\ [][Next]_vars
=============================================================================
