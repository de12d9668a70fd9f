------------------------------ MODULE MouseSamples ------------------------------
(***************************************************************************)
(* How do_mouse (source/nx_pointer.c) reads a USB mouse.  The HID service  *)
(* (external) numbers its samples and keeps the last Ring of them, faster  *)
(* than frames are drawn; once a frame do_mouse adds up the samples it has *)
(* not seen, moves the cursor by their motion and tunes the sensitivity by *)
(* their wheel.                                                            *)
(*                                                                         *)
(* A motion is counted in the mouse's units, before the sensitivity is     *)
(* applied, in one dimension and off the edges of the screen; a level of   *)
(* the sensitivity is one notch of the wheel.  The gyro and the cursor     *)
(* that a mouse switches are in NxPointer, the saving of the sensitivity   *)
(* is in PointerSettings.                                                  *)
(***************************************************************************)
EXTENDS Integers, Sequences, FiniteSetsExt

CONSTANTS Sample,         \* [dx, wheel_y, wheel_x : Int, left, flag : BOOLEAN]
          FirstNumber,    \* the sampling number of the first sample
          Ring,           \* samples that are kept: 16
          MaxNotches,     \* notches that count in a frame: 8
          MinSens, MaxSens, StartSens,
          MaxSamples      \* bound: samples taken

ASSUME MouseAssumption ==
    /\ FirstNumber \in Nat /\ {Ring, MaxNotches} \subseteq Nat \ {0} /\ MaxSamples \in Nat
    /\ {MinSens, MaxSens} \subseteq Int /\ StartSens \in MinSens..MaxSens
ASSUME SampleAssumption ==
    /\ \A s \in Sample : {s.dx, s.wheel_y, s.wheel_x} \subseteq Int
    \* A mouse reports its wheel on one axis, on this hardware on wheel_x.
    /\ \E axis \in {"wheel_y", "wheel_x"} : \A s \in Sample : s[axis] = 0

VARIABLES
    samples,            \* what the HID service sampled, from the beginning
    s_mouse_seen,
    s_mouse_connected,
    travelled,          \* how far the mouse moved the cursor
    s_mouse_sens,
    overrun,            \* history: samples that left the ring unread
    synced,             \* history: the samples skipped at first sight
    curbed              \* history: the wheel was cut at MaxNotches or at a limit

mousevars == <<samples, s_mouse_seen, s_mouse_connected, travelled, s_mouse_sens,
               overrun, synced, curbed>>

Number(i) == FirstNumber + i - 1

\* hidGetMouseStates
Buffered == {i \in DOMAIN samples : i > Len(samples) - Ring}

MouseInit ==
    /\ samples = <<>>
    /\ s_mouse_seen = 0 /\ s_mouse_connected = FALSE
    /\ travelled = 0 /\ s_mouse_sens = StartSens
    /\ overrun = {} /\ synced = 0 /\ curbed = FALSE

HidSamples ==
    /\ Len(samples) < MaxSamples
    /\ \E s \in Sample : samples' = Append(samples, s)
    /\ overrun' = overrun \cup {i \in Buffered : i <= Len(samples) + 1 - Ring
                                                 /\ Number(i) > s_mouse_seen}
    /\ UNCHANGED <<s_mouse_seen, s_mouse_connected, travelled, s_mouse_sens, synced, curbed>>

-------------------------------------------------------------------------------
\* Mutant: the newest sample only.
Fresh_Newest == {i \in Buffered : i = Len(samples) /\ Number(i) > s_mouse_seen}

\* "already handled" are those up to s_mouse_seen.
Fresh == {i \in Buffered : Number(i) > s_mouse_seen}

Total(field, set) == MapThenSumSet(LAMBDA i : samples[i][field], set)

\* "Use whichever axis actually reports."
WheelOf(set) ==
    IF Total("wheel_y", set) # 0 THEN Total("wheel_y", set) ELSE Total("wheel_x", set)

\* Several notches in a frame compound, up to MaxNotches.
Notches(wheel) ==
    IF wheel > MaxNotches THEN MaxNotches ELSE IF wheel < -MaxNotches THEN -MaxNotches ELSE wheel

SensClamped(v) == IF v < MinSens THEN MinSens ELSE IF v > MaxSens THEN MaxSens ELSE v

ReadMouse ==
    /\ Buffered # {}
    /\ LET last   == Len(samples)
           left   == samples[last].left /\ Number(last) > 0
           active == \E field \in {"dx", "wheel_y", "wheel_x"} : Total(field, Fresh) # 0
           tuned  == s_mouse_sens + Notches(WheelOf(Fresh))
       IN
       /\ s_mouse_connected' = (samples[last].flag \/ active \/ left)
       /\ s_mouse_seen' = Number(last)
       /\ IF s_mouse_seen = 0
            THEN \* first sight of the mouse: sync, don't jump
                 /\ synced' = last
                 /\ UNCHANGED <<travelled, s_mouse_sens, curbed>>
            ELSE /\ travelled' = travelled + Total("dx", Fresh)
                 /\ s_mouse_sens' = SensClamped(tuned)
                 /\ curbed' = (curbed \/ s_mouse_sens' # s_mouse_sens + WheelOf(Fresh))
                 /\ synced' = synced
    /\ UNCHANGED <<samples, overrun>>

MouseNext == HidSamples \/ ReadMouse

MouseSpec == MouseInit /\ [][MouseNext]_mousevars

-------------------------------------------------------------------------------
(* Properties. *)

\* The samples that should have had an effect by now.
Due == {i \in DOMAIN samples : i > synced /\ Number(i) <= s_mouse_seen} \ overrun

\* "Accumulate every sample we have not processed yet": between the frames, every
\* motion since the mouse was first seen has moved the cursor once, and every
\* notch has tuned the sensitivity once, but for what HID had overwritten before
\* it was read; the wheel may also be cut at its limits.
EverySampleCounts ==
    s_mouse_seen # 0 =>
      /\ travelled = Total("dx", Due)
      /\ s_mouse_sens = StartSens + WheelOf(Due) \/ curbed
===============================================================================
