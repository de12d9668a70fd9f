------------------------------ MODULE LocalFrames ------------------------------
(***************************************************************************)
(* What JNI promises a native caller about local references: frames nest,  *)
(* an object made in a frame lives until it is deleted or the frame is     *)
(* popped, popping frees every object of the frame but the one handed out  *)
(* of it, and a global reference outlives all frames.  JniRefs implements  *)
(* it with one flat table.                                                 *)
(***************************************************************************)
EXTENDS Naturals, Sequences

CONSTANTS Obj,        \* addresses of the objects
          NoObj       \* NULL

VARIABLES stack,      \* the open frames, innermost last: a set of objects each
          globals,    \* objects held by a global reference
          alive       \* objects that are allocated

lfVars == <<stack, globals, alive>>

Inner == Len(stack)

LFInit == stack = <<{}>> /\ globals = {} /\ alive = {}

Make == \E o \in Obj \ alive :
           /\ stack' = [stack EXCEPT ![Inner] = @ \cup {o}]
           /\ alive' = alive \cup {o}
           /\ UNCHANGED globals

Delete == \E o \in stack[Inner] :
             /\ stack' = [stack EXCEPT ![Inner] = @ \ {o}]
             /\ alive' = alive \ {o}
             /\ UNCHANGED globals

Promote == \E o \in stack[Inner] :
              /\ stack' = [stack EXCEPT ![Inner] = @ \ {o}]
              /\ globals' = globals \cup {o}
              /\ UNCHANGED alive

DropGlobal == \E o \in globals :
                 /\ globals' = globals \ {o}
                 /\ alive' = alive \ {o}
                 /\ UNCHANGED stack

Open == stack' = Append(stack, {}) /\ UNCHANGED <<globals, alive>>

Close == /\ Inner > 1
         /\ \E o \in stack[Inner] \cup {NoObj} :
               LET kept == {o} \cap stack[Inner] IN
               /\ stack' = [i \in 1..(Inner - 1) |->
                              IF i = Inner - 1 THEN stack[i] \cup kept ELSE stack[i]]
               /\ alive' = alive \ (stack[Inner] \ kept)
         /\ UNCHANGED globals

LFNext == Make \/ Delete \/ Promote \/ DropGlobal \/ Open \/ Close

LFSpec == LFInit /\ [][LFNext]_lfVars
================================================================================
