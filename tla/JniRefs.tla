-------------------------------- MODULE JniRefs --------------------------------
(***************************************************************************)
(* The reference registry of the fake JNI environment (source/jni_fake.c): *)
(* one table of local references and one stack of frame marks, shared by   *)
(* every thread of the engine under locals_lock.  Each JNI call is one     *)
(* step.  The engine does what JNI allows: it passes local references of   *)
(* its own thread, of any open frame, and global ones; a local reference   *)
(* stays usable when a global or a second local one is made of it.  A flat *)
(* table cannot follow all of that; `strayed' records that the engine left *)
(* what it can.                                                            *)
(*                                                                         *)
(* An object is its address: a freed address may be allocated again, and a *)
(* reference is the address too.  Classes and method ids, which are never  *)
(* freed, are left out.                                                    *)
(***************************************************************************)
EXTENDS Naturals, Sequences, FiniteSets

CONSTANTS Obj,          \* addresses malloc may return
          NoObj,        \* NULL
          Thread,       \* threads of the engine that use JNI
          MaxLocals,    \* MAX_LOCALS
          MaxFrames,    \* MAX_FRAMES
          MaxDepth,     \* bound: frames a thread nests
          MaxRefs       \* bound: references of one kind to an object

ASSUME NoObjAssumption == NoObj \notin Obj
ASSUME SizeAssumption  == MaxLocals \in Nat \ {0} /\ MaxFrames \in Nat \ {0} /\ MaxDepth \in Nat
ASSUME RefsAssumption  == MaxRefs \in Nat \ {0}

VARIABLES
    locals,       \* locals[]: what lies at or above the top is stale
    top,          \* locals_top
    frames,       \* frames[0 .. frame_top)
    heap,         \* objects that are allocated
    globals,      \* JNI's view: how many global references an object has
    depth,        \* JNI's view: how many frames each thread has pushed
    held,         \* JNI's view: how many local references of an object a frame has
    nest,         \* history: the open frames in the order they were pushed
    strayed,      \* history: the engine left what the flat table can follow
    badFree       \* history: free() was called on a freed object

jvars == <<locals, top, frames, heap, globals, depth, held, nest, strayed, badFree>>

Frame == Thread \X (0..MaxDepth)

Unheld == [f \in Frame |-> 0]

Table == {locals[i] : i \in 0..(top - 1)}

Innermost(t) == <<t, depth[t]>>

Init ==
    /\ locals = [i \in 0..(MaxLocals - 1) |-> NoObj] /\ top = 0
    /\ frames = <<>> /\ heap = {}
    /\ globals = [o \in Obj |-> 0] /\ depth = [t \in Thread |-> 0]
    /\ held = [o \in Obj |-> Unheld]
    /\ nest = <<>> /\ strayed = FALSE /\ badFree = FALSE

-------------------------------------------------------------------------------
(* Which references the engine passes. *)

HasLocal(t, o) == \E f \in Frame : f[1] = t /\ held[o][f] > 0

Usable(t) == {o \in Obj : globals[o] > 0 \/ HasLocal(t, o)}

\* The frame pushed last, whose entries are on top of the table.  Beneath all
\* marks the threads that have pushed no frame share the bottom of it.
IsTop(order, f) == IF order = <<>> THEN f[2] = 0 ELSE f = order[Len(order)]

InTop(o) == \A f \in Frame : held[o][f] > 0 => IsTop(nest, f)

-------------------------------------------------------------------------------
(* The helpers of the registry. *)

\* A full table leaks the reference: it is in no frame.
reg_local(o) ==
    IF top < MaxLocals
      THEN locals' = [locals EXCEPT ![top] = o] /\ top' = top + 1
      ELSE UNCHANGED <<locals, top>>

\* Mutant: the hole is closed by dropping the top entry.
Unregister_DropsTop(o) ==
    /\ UNCHANGED locals
    /\ top' = top - 1

\* Take the last entry for o out of the table: the top entry fills its place.
Unregister(o) ==
    LET i == CHOOSE j \in 0..(top - 1) :
                /\ locals[j] = o
                /\ \A k \in (j + 1)..(top - 1) : locals[k] # o
    IN  /\ locals' = [locals EXCEPT ![i] = locals[top - 1]]
        /\ top' = top - 1

free_ref(o) ==
    /\ heap' = heap \ {o}
    /\ badFree' = (badFree \/ o \notin heap)

-------------------------------------------------------------------------------
(* The JNI functions. *)

\* The engine strays when the frame that calls is not the one pushed last.
jni_make_object(t) ==
    \E o \in Obj \ heap :
       /\ held[o][Innermost(t)] < MaxRefs
       /\ heap' = heap \cup {o}
       /\ reg_local(o)
       /\ held' = [held EXCEPT ![o][Innermost(t)] = @ + 1]
       /\ strayed' = (strayed \/ ~IsTop(nest, Innermost(t)))
       /\ UNCHANGED <<frames, globals, depth, nest, badFree>>

\* The object itself is the new reference; the table knows nothing of a second.
NewLocalRef(t) ==
    \E o \in Usable(t) :
       /\ held[o][Innermost(t)] < MaxRefs
       /\ held' = [held EXCEPT ![o][Innermost(t)] = @ + 1]
       /\ strayed' = (strayed \/ held[o] # Unheld)
       /\ UNCHANGED <<locals, top, frames, heap, globals, depth, nest, badFree>>

\* What is not in the table, a promoted or leaked object, is left alone.
DeleteLocalRef(t) ==
    \E o \in Obj : \E f \in Frame :
       /\ f[1] = t /\ held[o][f] > 0
       /\ IF o \in Table
            THEN Unregister(o) /\ free_ref(o)
            ELSE UNCHANGED <<locals, top, heap, badFree>>
       /\ held' = [held EXCEPT ![o][f] = @ - 1]
       /\ strayed' = (strayed \/ (o \in Table /\ ~InTop(o)))
       /\ UNCHANGED <<frames, globals, depth, nest>>

\* Mutant: the promoted reference stays in the table.
NewGlobalRef_StaysLocal(t) ==
    \E o \in Usable(t) :
       /\ globals[o] < MaxRefs
       /\ globals' = [globals EXCEPT ![o] = @ + 1]
       /\ strayed' = (strayed \/ globals[o] > 0 \/ (o \in Table /\ ~InTop(o)))
       /\ UNCHANGED <<locals, top, frames, heap, depth, held, nest, badFree>>

\* The global reference is the object itself.  The local one it is made of stays
\* usable in JNI, and what is global already may be passed.
NewGlobalRef(t) ==
    \E o \in Usable(t) :
       /\ globals[o] < MaxRefs
       /\ IF o \in Table THEN Unregister(o) ELSE UNCHANGED <<locals, top>>
       /\ globals' = [globals EXCEPT ![o] = @ + 1]
       /\ strayed' = (strayed \/ globals[o] > 0 \/ (o \in Table /\ ~InTop(o)))
       /\ UNCHANGED <<frames, heap, depth, held, nest, badFree>>

\* The object goes although JNI keeps it for the references that are left.
DeleteGlobalRef ==
    \E o \in Obj :
       /\ globals[o] > 0
       /\ free_ref(o)
       /\ globals' = [globals EXCEPT ![o] = @ - 1]
       /\ strayed' = (strayed \/ held[o] # Unheld)
       /\ UNCHANGED <<locals, top, frames, depth, held, nest>>

\* A frame that finds the stack of marks full has none.
PushLocalFrame(t) ==
    /\ depth[t] < MaxDepth
    /\ depth' = [depth EXCEPT ![t] = @ + 1]
    /\ nest' = Append(nest, <<t, depth[t] + 1>>)
    /\ frames' = IF Len(frames) < MaxFrames THEN Append(frames, top) ELSE frames
    /\ strayed' = (strayed \/ Len(frames) >= MaxFrames)
    /\ UNCHANGED <<locals, top, heap, globals, held, badFree>>

\* JNI's side of a pop: the frame loses its references, and the one below, which
\* the result is handed to, gets one.  The engine strays when the frame is not
\* the one pushed last, when the result is not of it or global, or when the one
\* below in the table is another thread's.
Leave(t, result) ==
    LET below == <<t, depth[t] - 1>>
        rest  == SubSeq(nest, 1, Len(nest) - 1)
    IN  /\ depth[t] > 0
        /\ result # NoObj => held[result][below] < MaxRefs
        /\ depth' = [depth EXCEPT ![t] = @ - 1]
        /\ nest' = rest
        /\ held' = [o \in Obj |-> [f \in Frame |->
                      IF f = Innermost(t) THEN 0
                      ELSE IF o = result /\ f = below THEN held[o][f] + 1 ELSE held[o][f]]]
        /\ strayed' = (\/ strayed \/ ~IsTop(nest, Innermost(t))
                       \/ /\ result # NoObj
                          /\ \/ held[result][Innermost(t)] = 0 \/ globals[result] > 0
                             \/ ~IsTop(rest, below))

\* Mutant: the result is freed with the rest of the frame.
PopLocalFrame_FreesResult(t) ==
    \E result \in {NoObj} \cup Usable(t) :
       LET mark   == IF frames = <<>> THEN 0 ELSE frames[Len(frames)]
           doomed == mark..(top - 1)
           dead   == {locals[i] : i \in doomed}
           kept   == result # NoObj /\ mark < MaxLocals
       IN  /\ Leave(t, result)
           /\ frames' = IF frames = <<>> THEN <<>> ELSE SubSeq(frames, 1, Len(frames) - 1)
           /\ heap' = heap \ dead
           /\ badFree' = (badFree \/ ~(dead \subseteq heap) \/ Cardinality(dead) < Cardinality(doomed))
           /\ locals' = IF kept THEN [locals EXCEPT ![mark] = result] ELSE locals
           /\ top' = IF kept THEN mark + 1 ELSE mark
           /\ UNCHANGED globals

\* Everything from the mark of the last frame up is freed but the result, which
\* is put in its place.
PopLocalFrame(t) ==
    \E result \in {NoObj} \cup Usable(t) :
       LET mark   == IF frames = <<>> THEN 0 ELSE frames[Len(frames)]
           doomed == {i \in mark..(top - 1) : locals[i] # result}
           dead   == {locals[i] : i \in doomed}
           kept   == result # NoObj /\ mark < MaxLocals
       IN  /\ Leave(t, result)
           /\ frames' = IF frames = <<>> THEN <<>> ELSE SubSeq(frames, 1, Len(frames) - 1)
           /\ heap' = heap \ dead
           /\ badFree' = (badFree \/ ~(dead \subseteq heap) \/ Cardinality(dead) < Cardinality(doomed))
           /\ locals' = IF kept THEN [locals EXCEPT ![mark] = result] ELSE locals
           /\ top' = IF kept THEN mark + 1 ELSE mark
           /\ UNCHANGED globals

Next ==
    \/ \E t \in Thread :
          \/ jni_make_object(t) \/ NewLocalRef(t) \/ DeleteLocalRef(t) \/ NewGlobalRef(t)
          \/ PushLocalFrame(t) \/ PopLocalFrame(t)
    \/ DeleteGlobalRef

Spec == Init /\ [][Next]_jvars

\* An engine that makes no global reference.
LocalsOnly == \A o \in Obj : globals[o] = 0

-------------------------------------------------------------------------------
(* Properties. *)

TypeOK ==
    /\ locals \in [0..(MaxLocals - 1) -> Obj \cup {NoObj}]
    /\ top \in 0..MaxLocals
    /\ frames \in Seq(0..MaxLocals) /\ Len(frames) <= MaxFrames
    /\ heap \subseteq Obj /\ globals \in [Obj -> 0..MaxRefs]
    /\ depth \in [Thread -> 0..MaxDepth]
    /\ held \in [Obj -> [Frame -> 0..MaxRefs]]
    /\ nest \in Seq(Frame)
    /\ strayed \in BOOLEAN /\ badFree \in BOOLEAN

\* What the registry's comment says of DeleteLocalRef and Push/PopLocalFrame,
\* "which we honour here", holds of the table: nothing is freed twice.
HonouredHere == ~badFree

\* Nothing is freed twice by any number of threads, until the engine strays, that
\* is, does one of these, which JNI allows:
\*   - a thread makes an object, or deletes or promotes one, while the frame of that
\*     reference is not the one that was pushed last by any thread;
\*   - it makes a second local or a second global reference of an object;
\*   - it drops the global reference of an object it still has a local one of;
\*   - it pushes a frame when all marks are taken;
\*   - it pops a frame that is not the one pushed last, or hands out of it what is
\*     global or of another frame, or to a frame that is not the one below.
NoDoubleFree == strayed \/ ~badFree

\* A reference JNI lets the engine use, local or global, is an allocated object,
\* until the engine strays in one of those ways.
HeldIsLive ==
    strayed \/ \A o \in Obj : (held[o] # Unheld \/ globals[o] > 0) => o \in heap

\* The table as frames: the marks cut it into their sets.
Bound(i) == IF i = 0 THEN 0 ELSE IF i > Len(frames) THEN top ELSE frames[i]

FrameSets == [i \in 1..(Len(frames) + 1) |-> {locals[j] : j \in Bound(i - 1)..(Bound(i) - 1)}]

Frames == INSTANCE LocalFrames WITH
              stack <- FrameSets, globals <- {o \in Obj : globals[o] > 0}, alive <- heap

\* Until the engine strays in one of those ways, the flat table with its swaps and
\* marks behaves as nested frames of JNI: each call frees what its frame owns, no
\* more (a dangling reference) and no less (a leak).
HonoursFrames == Frames!LFInit /\ [][strayed' \/ Frames!LFNext]_(Frames!lfVars)
===============================================================================
