------------------------------- MODULE MCPointer -------------------------------
(***************************************************************************)
(* NxPointer, MouseSamples for the part of it that reads the mouse, and    *)
(* CursorDraw, on small instances.  They share no state, so a behaviour    *)
(* runs one of them, chosen at its start, while the others rest in an      *)
(* initial state.                                                          *)
(***************************************************************************)
EXTENDS NxPointer, MouseSamples, CursorDraw

CONSTANT MouseAxis     \* the axis this mouse reports its wheel on

VARIABLE part          \* which of the three runs

vars == <<nvars, mousevars, drawvars, part>>

\* A resting mouse, motion both ways, the wheel both ways, and all at once.
Samples ==
    LET S(dx, wheel, left) ==
          [dx |-> dx, wheel_y |-> IF MouseAxis = "y" THEN wheel ELSE 0,
           wheel_x |-> IF MouseAxis = "x" THEN wheel ELSE 0,
           left |-> left, flag |-> left]
    IN  {S(0, 0, FALSE), S(1, 0, FALSE), S(-1, 0, FALSE), S(0, 1, FALSE), S(0, -1, FALSE),
         S(2, 1, TRUE)}

MCInit ==
    /\ Init /\ MouseInit /\ DrawInit
    /\ part \in {"frame", "mouse", "draw"}
    /\ part # "frame" => ~console /\ ~plugged /\ ~gyroReady
    /\ part # "draw" => ~s_png_bytes

MCNext ==
    /\ part' = part
    /\ \/ part = "frame" /\ Next /\ UNCHANGED <<mousevars, drawvars>>
       \/ part = "mouse" /\ MouseNext /\ UNCHANGED <<nvars, drawvars>>
       \/ part = "draw" /\ DrawNext /\ UNCHANGED <<nvars, mousevars>>

MCSpec == MCInit /\ [][MCNext]_vars
===============================================================================
