------------------------------ MODULE MCStream ------------------------------
EXTENDS Stream

(* Of one, two and three messages, with bytes that look like a size where a
   message begins. *)
MCPackets == {<<7>>, <<0, 4>>, <<1, 0, 0, 0, 1, 9>>, <<3, 0, 0, 0, 2, 0, 0, 0, 1>>}
=============================================================================
