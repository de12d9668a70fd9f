------------------------------- MODULE NxPointer -------------------------------
(***************************************************************************)
(* Pointer input (source/nx_pointer.c and feed_pointer of source/main.c):  *)
(* once a frame nxp_update reads the pad, the touch panel and a USB mouse, *)
(* decides whether the cursor is shown and which device drives it, and     *)
(* queues pointer events that feed_pointer hands to the engine.            *)
(*                                                                         *)
(* nxp_update is one call of the main thread; its parts are consecutive    *)
(* steps here, in the order of the code, so that the console may be docked *)
(* and the mouse plugged in or out at any point.  Positions are left out:  *)
(* an event is a pointer id and a phase.  The sensitivities and their file *)
(* are the subject of PointerSettings.                                     *)
(***************************************************************************)
EXTENDS Integers, Sequences

CONSTANTS TouchSlots,   \* s_cfg.max_touch_slots
          MaxTouches,   \* bound: fingers the panel reports
          EvCap,        \* the length of s_ev
          PollMax       \* what feed_pointer takes in one frame

ASSUME SlotAssumption == TouchSlots \in Nat /\ MaxTouches \in Nat
\* 8 touch slots and the cursor, 16 events polled, 24 queued.
ASSUME QueueAssumption ==
    /\ EvCap \in Nat /\ PollMax \in Nat
    /\ TouchSlots + 1 <= PollMax /\ PollMax <= EvCap

Cursor == TouchSlots      \* s_cfg.cursor_id: the id after those of the fingers

VARIABLES
    stage,        \* the part of the frame that comes next
    console,      \* the operation mode: docked or handheld
    plugged,      \* whether a USB mouse is plugged in
    wasDocked,    \* s_was_docked
    visible,      \* s_visible: -1 is "not yet decided"
    gyroReady,    \* s_gyro_ready
    gyroOn,       \* s_gyro_on
    mouse,        \* s_mouse_connected
    seen,         \* s_mouse_seen # 0
    mouseTap,     \* do_mouse's result: the left button
    tapPrev,      \* s_tap_prev
    moved,        \* what moved the cursor in this frame: the mouse, the gyro
    touches,      \* s_touch_active: the slots below it are active
    ev,           \* s_ev[0 .. s_nev)
    engineDown,   \* the engine's view: pointers that are down
    bad,          \* history: kinds of pointer whose phases did not fit
    cut           \* history: the cursor was hidden with a tap held

nvars == <<stage, console, plugged, wasDocked, visible, gyroReady, gyroOn, mouse,
           seen, mouseTap, moved, tapPrev, touches, ev, engineDown, bad, cut>>

hardware == <<console, plugged, gyroReady>>
engine   == <<engineDown, bad>>

Event(id, phase) == [id |-> id, phase |-> phase]

AtMost(s, n) == SubSeq(s, 1, IF Len(s) <= n THEN Len(s) ELSE n)

\* push: what exceeds the queue is dropped.
Pushed(s) == AtMost(ev \o s, EvCap)

Init ==
    /\ stage = "pad"
    /\ console \in BOOLEAN /\ plugged \in BOOLEAN /\ gyroReady \in BOOLEAN
    /\ wasDocked = -1 /\ visible = -1 /\ gyroOn = FALSE
    /\ mouse = FALSE /\ seen = FALSE /\ mouseTap = FALSE
    /\ moved = {} /\ tapPrev = FALSE /\ touches = 0 /\ ev = <<>>
    /\ engineDown = {} /\ bad = {} /\ cut = FALSE

-------------------------------------------------------------------------------
(* The console and the mouse, at any time. *)

Dock ==
    /\ console' = ~console
    /\ UNCHANGED <<stage, plugged, wasDocked, visible, gyroReady, gyroOn, mouse,
                   seen, mouseTap, moved, tapPrev, touches, ev, engine, cut>>

Plug ==
    /\ plugged' = ~plugged
    /\ UNCHANGED <<stage, console, wasDocked, visible, gyroReady, gyroOn, mouse,
                   seen, mouseTap, moved, tapPrev, touches, ev, engine, cut>>

-------------------------------------------------------------------------------
(* The parts of nxp_update. *)

\* Docking shows the cursor; a first frame in handheld mode hides it.
AfterDocking ==
    IF wasDocked = (IF console THEN 1 ELSE 0) THEN visible
    ELSE IF console THEN 1
    ELSE IF visible < 0 THEN 0 ELSE visible

\* Mutant: '-' turns the gyro on although a mouse drives the cursor.
GyroAfter_IgnoresMouse(minus) ==
    IF minus /\ gyroReady THEN ~gyroOn ELSE gyroOn

\* '-' toggles the gyro, unless a mouse is connected or no sensor was found.
GyroAfter(minus) ==
    IF minus /\ ~mouse /\ gyroReady THEN ~gyroOn ELSE gyroOn

\* The docking state, '+', '-' and L / R.  A press of '+' toggles the
\* cursor; turning the gyro on and recentring both show it.
PadStage ==
    /\ stage = "pad"
    /\ \E plus, minus, centre \in BOOLEAN :
          LET toggled == IF ~plus THEN AfterDocking
                         ELSE IF AfterDocking > 0 THEN 0 ELSE 1
              turnedOn == GyroAfter(minus) /\ ~gyroOn
          IN
          /\ gyroOn' = GyroAfter(minus)
          /\ visible' = IF turnedOn \/ centre THEN 1 ELSE toggled
    /\ wasDocked' = IF console THEN 1 ELSE 0
    /\ ev' = <<>> /\ moved' = {}
    /\ stage' = "touch"
    /\ UNCHANGED <<hardware, mouse, seen, mouseTap, tapPrev, touches, engine, cut>>

\* do_touch, in handheld mode only.  A finger's id is its index in what the
\* panel reports, so the active slots are always the first ones.
do_touch ==
    /\ stage = "touch"
    /\ IF wasDocked = 1
         THEN UNCHANGED <<touches, ev>>
         ELSE \E fingers \in 0..MaxTouches :
                 LET count == IF fingers > TouchSlots THEN TouchSlots ELSE fingers IN
                 /\ ev' = Pushed([i \in 1..count |->
                                    Event(i - 1, IF i <= touches THEN "move" ELSE "down")]
                                 \o [i \in 1..(touches - count) |-> Event(count + i - 1, "up")])
                 /\ touches' = count
    /\ stage' = "mouse"
    /\ UNCHANGED <<hardware, wasDocked, visible, gyroOn, mouse, seen, mouseTap,
                   moved, tapPrev, engine, cut>>

\* No sample to read: the mouse stays as connected as it was.
MouseSilent ==
    /\ stage = "mouse"
    /\ mouseTap' = FALSE
    /\ stage' = "gyro"
    /\ UNCHANGED <<hardware, wasDocked, visible, gyroOn, mouse, seen, moved, tapPrev,
                   touches, ev, engine, cut>>

\* A mouse is there if it says so or shows activity (motion, the wheel or
\* another button, the left button), which may be that of samples taken before
\* it was unplugged.  It turns the gyro off.  At first sight it is only synced;
\* afterwards moving it shows the cursor.
MouseSampled ==
    /\ stage = "mouse"
    /\ \E flag, motion, other, left \in BOOLEAN :
          LET connected == flag \/ motion \/ other \/ left IN
          /\ connected => plugged \/ mouse
          /\ mouse' = connected
          /\ gyroOn' = (gyroOn /\ ~(connected /\ ~mouse))
          /\ seen' = TRUE
          /\ mouseTap' = left
          /\ visible' = IF seen /\ motion THEN 1 ELSE visible
          /\ moved' = IF seen /\ motion THEN moved \cup {"mouse"} ELSE moved
    /\ stage' = "gyro"
    /\ UNCHANGED <<hardware, wasDocked, tapPrev, touches, ev, engine, cut>>

do_mouse == MouseSilent \/ MouseSampled

\* Gyro pointing, unless a mouse is in; a resting or absent controller, and a
\* motion within the dead zone, do not move the cursor.
do_gyro ==
    /\ stage = "gyro"
    /\ \/ moved' = moved
       \/ gyroOn /\ ~mouse /\ moved' = moved \cup {"gyro"}
    /\ stage' = "cursor"
    /\ UNCHANGED <<hardware, wasDocked, visible, gyroOn, mouse, seen, mouseTap,
                   tapPrev, touches, ev, engine, cut>>

\* Mutant: s_tap_prev outlives a frame in which the cursor was hidden.
CursorStage_KeepsTap ==
    /\ stage = "cursor"
    /\ \E held \in BOOLEAN :
          LET tap   == held \/ mouseTap
              phase == IF tap /\ ~tapPrev THEN <<"down">>
                       ELSE IF tap THEN <<"move">>
                       ELSE IF tapPrev THEN <<"up">> ELSE <<>>
          IN  IF visible > 0
                THEN /\ tapPrev' = tap
                     /\ ev' = Pushed([i \in DOMAIN phase |-> Event(Cursor, phase[i])])
                     /\ cut' = cut
                ELSE /\ tapPrev' = (tapPrev \/ tap)
                     /\ ev' = ev
                     /\ cut' = (cut \/ tapPrev)
    /\ stage' = "feed"
    /\ UNCHANGED <<hardware, wasDocked, visible, gyroOn, mouse, seen, mouseTap,
                   moved, touches, engine>>

\* A, ZR, ZL or the left button tap at the cursor while it is shown.  When it
\* is hidden the tap is forgotten: the engine gets no "up".
CursorStage ==
    /\ stage = "cursor"
    /\ \E held \in BOOLEAN :
          LET tap   == held \/ mouseTap
              phase == IF tap /\ ~tapPrev THEN <<"down">>
                       ELSE IF tap THEN <<"move">>
                       ELSE IF tapPrev THEN <<"up">> ELSE <<>>
          IN  IF visible > 0
                THEN /\ tapPrev' = tap
                     /\ ev' = Pushed([i \in DOMAIN phase |-> Event(Cursor, phase[i])])
                     /\ cut' = cut
                ELSE /\ tapPrev' = FALSE
                     /\ ev' = ev
                     /\ cut' = (cut \/ tapPrev)
    /\ stage' = "feed"
    /\ UNCHANGED <<hardware, wasDocked, visible, gyroOn, mouse, seen, mouseTap,
                   moved, touches, engine>>

-------------------------------------------------------------------------------
(* feed_pointer: nxp_poll, and one engine call per event. *)

Kind(id) == IF id = Cursor THEN "cursor" ELSE "touch"

\* nxp_poll.
Polled == AtMost(ev, PollMax)

\* In one frame a pointer has one event at most.
feed_pointer ==
    /\ stage = "feed"
    /\ LET sent       == {Polled[i] : i \in DOMAIN Polled}
           ids(phase) == {e.id : e \in {s \in sent : s.phase = phase}}
       IN  /\ engineDown' = (engineDown \cup ids("down")) \ ids("up")
           /\ bad' = bad \cup {Kind(e.id) : e \in {s \in sent :
                                  (s.phase = "down") <=> (s.id \in engineDown)}}
    /\ stage' = "pad"
    /\ UNCHANGED <<hardware, wasDocked, visible, gyroOn, mouse, seen, mouseTap,
                   moved, tapPrev, touches, ev, cut>>

Next == Dock \/ Plug \/ PadStage \/ do_touch \/ do_mouse \/ do_gyro \/ CursorStage \/ feed_pointer

Spec == Init /\ [][Next]_nvars

-------------------------------------------------------------------------------
(* Properties. *)

TypeOK ==
    /\ stage \in {"pad", "touch", "mouse", "gyro", "cursor", "feed"}
    /\ {console, plugged, gyroReady, gyroOn, mouse, seen, mouseTap, tapPrev, cut} \subseteq BOOLEAN
    /\ wasDocked \in -1..1 /\ visible \in -1..1
    /\ moved \subseteq {"mouse", "gyro"} /\ touches \in 0..TouchSlots
    /\ ev \in Seq([id : 0..TouchSlots, phase : {"down", "move", "up"}])
    /\ Len(ev) <= EvCap
    /\ engineDown \subseteq 0..TouchSlots /\ bad \subseteq {"touch", "cursor"}

\* "A connected mouse takes priority": gyro pointing is never on together with a
\* connected mouse, in whatever order '-' and the mouse come, and no frame moves
\* the cursor by both, not even the one in which the mouse appears.
GyroYields == ~(mouse /\ gyroOn) /\ moved # {"mouse", "gyro"}

\* Only a cursor tap under which the cursor was hidden has phases that do not fit.
PhasesFit == "touch" \notin bad /\ ("cursor" \in bad => cut)

\* Every pointer the engine sees goes down, moves and comes up in that order,
\* and between frames the engine holds down exactly the fingers the module
\* believes are down, and the cursor's tap - though fingers may be lifted while
\* docked and events pass through two bounded queues.  Only the "up" of a tap
\* under which the cursor was hidden is lost.
EngineAgrees ==
    /\ PhasesFit
    /\ stage = "pad" =>
         /\ engineDown \ {Cursor} = 0..(touches - 1)
         /\ cut \/ (Cursor \in engineDown <=> tapPrev)
===============================================================================
