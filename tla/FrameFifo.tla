------------------------------- MODULE FrameFifo -------------------------------
(***************************************************************************)
(* What a line of frames promises its reader as long as no byte is lost:   *)
(* whole frames, each at most once, in the order they were sent; the frame *)
(* being read may be given up, and a greedy reader drops, with the buffer  *)
(* it read a frame from, what follows in it.                               *)
(***************************************************************************)
EXTENDS Sequences, Naturals

CONSTANTS
  Bodies,   \* the frames that may be sent
  Greedy    \* whether every read drops its buffer, or the first one only

VARIABLES
  queue,   \* the frames still to be read
  got,     \* the frames the reader was given
  broken   \* a byte was lost: nothing is promised, nor looked at, from here on

vars == <<queue, got, broken>>

Init == queue = <<>> /\ got = <<>> /\ broken = FALSE

Put == \E b \in Bodies : queue' = Append(queue, b) /\ UNCHANGED got

\* One frame, or more, leave the queue at once.
Leave(drops) ==
  \E n \in 1..Len(queue) :
    /\ n > 1 => drops
    /\ queue' = SubSeq(queue, n + 1, Len(queue))

Take == Leave(Greedy \/ got = <<>>) /\ got' = Append(got, Head(queue))

GiveUp == Leave(Greedy) /\ UNCHANGED got

Break == broken' = TRUE /\ queue' = <<>> /\ got' = <<>>

Next ==
  /\ ~broken
  /\ \/ (Put \/ Take \/ GiveUp) /\ UNCHANGED broken
     \/ Break

Spec == Init /\ [][Next]_vars
=============================================================================
