------------------------------- MODULE AudioFifo -------------------------------
(***************************************************************************)
(* What a decoupling ring of opensles.c promises to the two sides it       *)
(* separates: a bounded first-in first-out queue of audio frames.  A       *)
(* writer appends frames and loses only what exceeds the capacity, the     *)
(* mixer takes the oldest ones, a whole period unless the queue runs dry,  *)
(* and a reset empties it.  PlayerRing (the ring of one player) implements *)
(* it.                                                                     *)
(***************************************************************************)
EXTENDS Integers, Sequences

CONSTANTS Frame,      \* the frames that are written
          Capacity,   \* frames the ring holds
          Longest,    \* the most frames one write brings
          Period      \* the frames one mix asks for

VARIABLES queue,      \* frames written and not yet taken, oldest first
          block,      \* the frames the mixer took last
          lost        \* whether a write ever exceeded the capacity

fifoVars == <<queue, block, lost>>

Lesser(a, b) == IF a <= b THEN a ELSE b

Writes == UNION {[1..n -> Frame] : n \in 0..Longest}

FifoInit == queue = <<>> /\ block = <<>> /\ lost = FALSE

Put == \E s \in Writes :
          LET room == Capacity - Len(queue) IN
          /\ queue' = queue \o SubSeq(s, 1, Lesser(Len(s), room))
          /\ lost' = (lost \/ Len(s) > room)
          /\ UNCHANGED block

Take == LET n == Lesser(Period, Len(queue)) IN
        /\ block' = SubSeq(queue, 1, n)
        /\ queue' = SubSeq(queue, n + 1, Len(queue))
        /\ UNCHANGED lost

Reset == queue' = <<>> /\ UNCHANGED <<block, lost>>

FifoNext == Put \/ Take \/ Reset

FifoSpec == FifoInit /\ [][FifoNext]_fifoVars
================================================================================
