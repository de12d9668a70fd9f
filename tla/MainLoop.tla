-------------------------------- MODULE MainLoop --------------------------------
(***************************************************************************)
(* One turn of the render loop (source/main.c): pointer events, the        *)
(* keyboard, the music keepalive, the game's frame, the frame pacer.  The  *)
(* game runs inside three of them - the touch events, the key events and   *)
(* e_nativeRender - and may there call BASS and ask for the keyboard; a    *)
(* track may end at any time.  The saves of the loop are Persistence.      *)
(*                                                                         *)
(* Time is kept relative to now: how far away the deadline is, how long    *)
(* ago the last frame ended, and how far apart the ends before it were.    *)
(***************************************************************************)
EXTENDS Integers, MusicKeepalive

CONSTANTS frame_ticks,   \* ticks of a 60th of a second
          MaxLate        \* bound: ticks a frame or a sleep may take too long

ASSUME TimeAssumption == frame_ticks \in Nat \ {0} /\ MaxLate \in Nat

VARIABLES
    stage,           \* where the loop is
    g_kbd_requested, \* the game has asked for the keyboard
    request,         \* history: a request neither withdrawn nor taken up
    left,            \* frame_deadline - now
    spent,           \* ticks since the last frame ended, up to frame_ticks
    gaps             \* history: the same between the ends of the last three frames

kvars == <<g_kbd_requested, request>>
tvars == <<left, spent, gaps>>
loopvars == <<mkvars, stage, kvars, tvars>>

LoopInit ==
    /\ Init
    /\ stage = "head"
    /\ g_kbd_requested = FALSE /\ request = FALSE
    /\ left = frame_ticks /\ spent = frame_ticks /\ gaps = <<frame_ticks, frame_ticks>>

Least(a, b) == IF a < b THEN a ELSE b

\* Ticks go by, no more than MaxLate behind the deadline.
Pass(ticks) ==
    /\ left - ticks >= -MaxLate
    /\ left' = left - ticks
    /\ spent' = Least(spent + ticks, frame_ticks)
    /\ gaps' = gaps

Turn(from, to) == stage = from /\ stage' = to

-------------------------------------------------------------------------------
(* The game, called by the loop, and BASS on its own. *)

Plays ==
    /\ stage \in {"input", "typing", "render"}
    /\ GameCall
    /\ UNCHANGED <<stage, kvars, tvars>>

\* j_CallVoidMethod("ShowKeyboard", show)
ShowKeyboard(show) ==
    /\ stage \in {"input", "typing", "render"}
    /\ g_kbd_requested' = show /\ request' = show
    /\ UNCHANGED <<mkvars, stage, tvars>>

TrackEnds == (\E h \in Channel : End(h)) /\ UNCHANGED <<stage, kvars, tvars>>

-------------------------------------------------------------------------------
(* The loop. *)

\* The loop is left at the system's request.
appletMainLoop ==
    /\ Turn("head", "input") \/ Turn("head", "out")
    /\ UNCHANGED <<mkvars, kvars, tvars>>

feed_pointer == Turn("input", "keyboard") /\ UNCHANGED <<mkvars, kvars, tvars>>

\* Mutant: the request is forgotten when it has been dealt with.
handle_keyboard_ForgetsLate ==
    \/ /\ Turn("keyboard", IF g_kbd_requested THEN "popup" ELSE "keepalive")
       /\ request' = (request /\ ~g_kbd_requested) /\ g_kbd_requested' = g_kbd_requested
       /\ UNCHANGED <<mkvars, tvars>>
    \/ /\ Turn("popup", "typing") /\ UNCHANGED <<mkvars, kvars, tvars>>
    \/ /\ Turn("typing", "keepalive")
       /\ g_kbd_requested' = FALSE /\ request' = request
       /\ UNCHANGED <<mkvars, tvars>>

\* The request is taken up first; without a key handler or a keyboard it comes
\* to nothing.  The player cancels, or the text is typed as key events.
handle_keyboard ==
    \/ /\ g_kbd_requested
       /\ Turn("keyboard", "popup") \/ Turn("keyboard", "keepalive")
       /\ g_kbd_requested' = FALSE /\ request' = FALSE
       /\ UNCHANGED <<mkvars, tvars>>
    \/ /\ ~g_kbd_requested /\ Turn("keyboard", "keepalive")
       /\ UNCHANGED <<mkvars, kvars, tvars>>
    \/ /\ \E ticks \in 0..MaxLate : Pass(ticks)
       /\ Turn("popup", "typing") \/ Turn("popup", "keepalive")
       /\ UNCHANGED <<mkvars, kvars>>
    \/ /\ Turn("typing", "keepalive")
       /\ UNCHANGED <<mkvars, kvars, tvars>>

\* BASS_Update decodes ahead, which is no state here; then the keepalive.
bass_pump ==
    /\ Turn("keepalive", "render")
    /\ bass_music_keepalive
    /\ UNCHANGED <<kvars, tvars>>

\* e_nativeRender, the cursor and the swap take their time.
nativeRender ==
    /\ Turn("render", "pace")
    /\ \E ticks \in 0..(frame_ticks + MaxLate) : Pass(ticks)
    /\ UNCHANGED <<mkvars, kvars>>

\* Mutant: a late frame is caught up with.
FramePacer_CatchesUp ==
    /\ Turn("pace", "head")
    /\ \E over \in 0..MaxLate :
          /\ left > 0 \/ over = 0
          /\ left' = IF left > 0 THEN frame_ticks - over ELSE left + frame_ticks
          /\ gaps' = <<gaps[2], IF left > 0 THEN Least(spent + left + over, frame_ticks) ELSE spent>>
          /\ spent' = 0
    /\ UNCHANGED <<mkvars, kvars>>

\* A frame that is early sleeps and spins up to its deadline, and may be woken
\* too late; the next deadline counts from this one.  A frame that is late starts anew.
FramePacer ==
    /\ Turn("pace", "head")
    /\ \/ /\ left > 0
          /\ \E over \in 0..MaxLate :
                /\ left' = frame_ticks - over
                /\ gaps' = <<gaps[2], Least(spent + left + over, frame_ticks)>>
       \/ /\ left <= 0
          /\ left' = frame_ticks
          /\ gaps' = <<gaps[2], spent>>
    /\ spent' = 0
    /\ UNCHANGED <<mkvars, kvars>>

Loop ==
    \/ appletMainLoop \/ feed_pointer \/ handle_keyboard
    \/ bass_pump \/ nativeRender \/ FramePacer

LoopNext ==
    \/ Loop
    \/ Plays \/ (\E show \in BOOLEAN : ShowKeyboard(show))
    \/ TrackEnds

\* The loop goes on: what it calls returns, also the keyboard.
LoopSpec == LoopInit /\ [][LoopNext]_loopvars /\ WF_loopvars(Loop)

-------------------------------------------------------------------------------
(* Properties. *)

LoopTypeOK ==
    /\ TypeOK
    /\ stage \in {"head", "input", "keyboard", "popup", "typing", "keepalive", "render", "pace", "out"}
    /\ g_kbd_requested \in BOOLEAN /\ request \in BOOLEAN
    /\ left \in -MaxLate..frame_ticks /\ spent \in 0..frame_ticks
    /\ gaps \in (0..frame_ticks) \X (0..frame_ticks)

\* "resync so we don't try to catch up by racing several frames": a frame that
\* is shorter than a 60th of a second comes alone, whatever went before.
NoRacing == gaps[1] + gaps[2] >= frame_ticks

\* A request for the keyboard is taken up or withdrawn, also one that the game
\* makes while the text of the one before is typed.
KeyboardAnswers == request ~> ~request \/ stage = "out"

\* "restart it": the music played last does not stay silent at its end.
MusicLoops == \A h \in Music : Ended(h) ~> ~Ended(h) \/ stage = "out"
================================================================================
