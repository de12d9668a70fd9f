---------------------------- MODULE PointerSettings ----------------------------
(***************************************************************************)
(* The pointer sensitivities and the file they are kept in                 *)
(* (source/nx_pointer.c: do_dpad, the wheel of do_mouse, settings_touch,   *)
(* settings_tick, nxp_save_settings, settings_load; source/main.c: the     *)
(* saves of the applet hook and of the way out).                           *)
(*                                                                         *)
(* A sensitivity is an integer; the D-pad and the wheel move it, the file  *)
(* holds it rounded to a multiple of Grain ("%.2f").  The process can be   *)
(* killed anywhere, also between the truncation of the file and the end of *)
(* the writing.                                                            *)
(***************************************************************************)
EXTENDS Integers

CONSTANTS Device,            \* what has a sensitivity
          Mouse,             \* the one the wheel tunes
          Lowest, Highest,   \* the limits of a sensitivity
          Default,           \* what nxp_init sets
          Grain,             \* the precision of the file
          Debounce           \* SETTINGS_DEBOUNCE_NS

ASSUME DeviceAssumption == Mouse \in Device
ASSUME LevelAssumption ==
    /\ Grain \in Nat \ {0} /\ Lowest \in Nat /\ Highest \in Nat /\ Default \in Lowest..Highest
    /\ Lowest % Grain = 0 /\ Highest % Grain = 0    \* 2, 60, 0.25, 8, 0.10
ASSUME DebounceAssumption == Debounce \in Nat \ {0}

Level == Lowest..Highest

VARIABLES
    stage,    \* "off", "frame", "open" or "write": what comes next
    then,     \* where a save returns: "frame", or "off" on the way out
    sens,     \* s_stick_speed, s_mouse_sens, s_gyro_sens
    cfg_file, \* pointer.cfg: the lines it has; no line at all is also no file
    dirty,    \* s_settings_dirty
    age,      \* time since s_settings_tick, up to Debounce
    idle,     \* history: time since the last D-pad change, up to Debounce
    timed,    \* history: saves by the timer since this burst of presses began
    wheeled,  \* history: the wheel tuned since the last complete save
    cfg_failed    \* history: the last save since the last D-pad change is not complete

svars == <<stage, then, sens, cfg_file, dirty, age, idle, timed, wheeled, cfg_failed>>

Clamped(v) == IF v < Lowest THEN Lowest ELSE IF v > Highest THEN Highest ELSE v

\* What "%.2f" writes.
Rounded(v) == ((v + Grain \div 2) \div Grain) * Grain

NoLines == [d \in {} |-> 0]

\* The lines of the file that are there, over the defaults of nxp_init.
settings_load(f) ==
    [d \in Device |-> IF d \in DOMAIN f THEN Clamped(f[d]) ELSE Default]

SettingsInit ==
    /\ stage = "off" /\ then = "frame"
    /\ sens = [d \in Device |-> Default] /\ cfg_file = NoLines
    /\ dirty = FALSE /\ age = Debounce /\ idle = Debounce
    /\ timed = 0 /\ wheeled = FALSE /\ cfg_failed = FALSE

-------------------------------------------------------------------------------
(* The process starts, and stops. *)

\* Bound: a hand-edited line is just outside the limits.
HandEdit ==
    /\ stage = "off"
    /\ \E d \in Device, v \in {Lowest - Grain, Highest + Grain} :
          cfg_file' = [e \in DOMAIN cfg_file \cup {d} |-> IF e = d THEN v ELSE cfg_file[e]]
    /\ UNCHANGED <<stage, then, sens, dirty, age, idle, timed, wheeled, cfg_failed>>

nxp_init ==
    /\ stage = "off"
    /\ sens' = settings_load(cfg_file)
    /\ stage' = "frame"
    /\ dirty' = FALSE /\ age' = Debounce /\ idle' = Debounce
    /\ timed' = 0 /\ wheeled' = FALSE /\ cfg_failed' = FALSE
    /\ UNCHANGED <<then, cfg_file>>

\* A kill in the middle of a save leaves some of the lines.
Killed ==
    /\ stage # "off"
    /\ IF stage = "write"
         THEN \E lines \in SUBSET Device : cfg_file' = [d \in lines |-> Rounded(sens[d])]
         ELSE cfg_file' = cfg_file
    /\ stage' = "off" /\ then' = "frame"
    /\ dirty' = FALSE
    /\ UNCHANGED <<sens, age, idle, timed, wheeled, cfg_failed>>

-------------------------------------------------------------------------------
(* A frame. *)

UpTo(t) == IF t > Debounce THEN Debounce ELSE t

\* settings_tick, at the end of the frame: time has passed, and a queued save
\* whose time has come is made.
settings_tick ==
    /\ \E dt \in 1..(Debounce + 1) : age' = UpTo(age + dt) /\ idle' = UpTo(idle + dt)
    /\ IF dirty /\ age' >= Debounce
         THEN stage' = "open" /\ timed' = (IF timed < 2 THEN timed + 1 ELSE timed)
         ELSE stage' = "frame" /\ timed' = timed

\* The D-pad tunes the device that drives the cursor.
do_dpad(s, d, step) == [s EXCEPT ![d] = Clamped(@ + step)]

\* The wheel, later in the frame, tunes the mouse by up to eight steps.
Wheel(s, v) == [s EXCEPT ![Mouse] = v]

\* A burst ends when the D-pad is left alone for the time of the timer.
Burst == idle' = 0 /\ timed' = IF idle >= Debounce THEN 0 ELSE timed

\* Mutant: the D-pad tunes but settings_touch is not called.
DpadFrame_NotQueued ==
    /\ stage = "frame"
    /\ \E d \in Device, step \in {-1, 1}, v \in Level, turned \in BOOLEAN :
          LET s == do_dpad(sens, d, step) IN
          /\ sens' = IF turned THEN Wheel(s, v) ELSE s
          /\ wheeled' = (wheeled \/ turned)
    /\ age' = 0 /\ cfg_failed' = FALSE /\ Burst
    /\ UNCHANGED <<stage, then, cfg_file, dirty>>

\* Mutant: the timer runs from the first change of a burst.
DpadFrame_TimerRuns ==
    /\ stage = "frame"
    /\ \E d \in Device, step \in {-1, 1}, v \in Level, turned \in BOOLEAN :
          LET s == do_dpad(sens, d, step) IN
          /\ sens' = IF turned THEN Wheel(s, v) ELSE s
          /\ wheeled' = (wheeled \/ turned)
    /\ dirty' = TRUE /\ age' = (IF dirty THEN age ELSE 0) /\ cfg_failed' = FALSE /\ Burst
    /\ UNCHANGED <<stage, then, cfg_file>>

\* A change by the D-pad queues a save and starts the timer again, so that
\* settings_tick does nothing at the end of this frame.
DpadFrame ==
    /\ stage = "frame"
    /\ \E d \in Device, step \in {-1, 1}, v \in Level, turned \in BOOLEAN :
          LET s == do_dpad(sens, d, step) IN
          /\ sens' = IF turned THEN Wheel(s, v) ELSE s
          /\ wheeled' = (wheeled \/ turned)
    /\ dirty' = TRUE /\ age' = 0 /\ cfg_failed' = FALSE /\ Burst
    /\ UNCHANGED <<stage, then, cfg_file>>

\* The wheel alone queues nothing.
WheelFrame ==
    /\ stage = "frame"
    /\ \E v \in Level : sens' = Wheel(sens, v)
    /\ wheeled' = TRUE
    /\ settings_tick
    /\ UNCHANGED <<then, cfg_file, dirty, cfg_failed>>

QuietFrame ==
    /\ stage = "frame"
    /\ settings_tick
    /\ UNCHANGED <<then, sens, cfg_file, dirty, wheeled, cfg_failed>>

\* The applet hook (focus lost) and the way out save whether or not a save is
\* queued.
AppletSave ==
    /\ stage = "frame"
    /\ stage' = "open"
    /\ UNCHANGED <<then, sens, cfg_file, dirty, age, idle, timed, wheeled, cfg_failed>>

Quit ==
    /\ stage = "frame"
    /\ stage' = "open" /\ then' = "off"
    /\ UNCHANGED <<sens, cfg_file, dirty, age, idle, timed, wheeled, cfg_failed>>

-------------------------------------------------------------------------------
(* nxp_save_settings. *)

Returned == stage' = then /\ then' = "frame"

\* fopen(path, "w") empties the file; if it fails the queued save is dropped.
SaveOpen ==
    /\ stage = "open"
    /\ \/ stage' = "write" /\ then' = then /\ cfg_file' = NoLines /\ UNCHANGED <<dirty, cfg_failed>>
       \/ Returned /\ dirty' = FALSE /\ cfg_failed' = TRUE /\ cfg_file' = cfg_file
    /\ UNCHANGED <<sens, age, idle, timed, wheeled>>

\* The lines that are to be written: some are lost when the card is full.
SaveLines(asked) ==
    \E lines \in SUBSET asked :
        /\ cfg_file' = [d \in lines |-> Rounded(sens[d])]
        /\ cfg_failed' = (lines # asked)
        /\ wheeled' = (wheeled /\ lines # asked)

\* Mutant: one sensitivity is loaded but not written.
SaveWrite_ForgetsMouse ==
    /\ stage = "write"
    /\ SaveLines(Device \ {Mouse})
    /\ dirty' = FALSE
    /\ Returned
    /\ UNCHANGED <<sens, age, idle, timed>>

\* fprintf's and fclose's results are not looked at: lines that could not be
\* written are missing, and the save counts as made.
SaveWrite ==
    /\ stage = "write"
    /\ SaveLines(Device)
    /\ dirty' = FALSE
    /\ Returned
    /\ UNCHANGED <<sens, age, idle, timed>>

nxp_save_settings == SaveOpen \/ SaveWrite
nxp_update == DpadFrame \/ WheelFrame \/ QuietFrame

SettingsNext ==
    \/ HandEdit \/ nxp_init \/ Killed
    \/ nxp_update \/ AppletSave \/ Quit \/ nxp_save_settings

\* The main thread runs frames as long as it lives.
SettingsFairness == WF_svars(nxp_update) /\ WF_svars(nxp_save_settings)

SettingsSpec == SettingsInit /\ [][SettingsNext]_svars /\ SettingsFairness

-------------------------------------------------------------------------------
(* Properties. *)

SettingsTypeOK ==
    /\ stage \in {"off", "frame", "open", "write"} /\ then \in {"frame", "off"}
    /\ sens \in [Device -> Level]
    /\ DOMAIN cfg_file \subseteq Device
    /\ {dirty, wheeled, cfg_failed} \subseteq BOOLEAN
    /\ age \in 0..Debounce /\ idle \in 0..Debounce /\ timed \in 0..2

\* Starting again now would give the sensitivity back, up to the rounding.
Remembered(d) ==
    LET error == settings_load(cfg_file)[d] - sens[d]
    IN  2 * error \in -Grain..Grain

\* While the game runs, a sensitivity that the file does not hold is queued for
\* saving; the exceptions are a save that failed (it is not tried again) and the
\* wheel, which queues nothing.
TuningQueued ==
    stage = "frame" =>
      \A d \in Device : Remembered(d) \/ dirty \/ cfg_failed \/ (d = Mouse /\ wheeled)

\* "A burst of D-pad presses costs exactly one write": presses that follow one
\* another faster than the timer, and the rest after the last of them, make the
\* timer save at most once.
OneWritePerBurst == timed <= 1

\* The file holds what the sensitivities are now.
Written == cfg_file = [d \in Device |-> Rounded(sens[d])]

\* A queued save reaches the file, with every sensitivity as it is then: the
\* exceptions are a player who never leaves the D-pad alone, a process that ends
\* first, and a save that did not complete (it is not tried again).
QueuedIsSaved == []<>(age = 0) \/ [](dirty => <>(Written \/ cfg_failed \/ stage = "off"))

\* "A save is queued whenever a sensitivity changes and committed 3s after the
\* LAST change": a queued save reaches the file, whatever happens to it on the
\* way, as long as the process runs and the D-pad is left alone.
TuningCommitted == []<>(age = 0) \/ [](dirty => <>(Written \/ stage = "off"))
===============================================================================
