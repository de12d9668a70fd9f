\* Two tracks and a sound effect.  A frame is two ticks, and may be three late,
\* so that there is more than one frame to catch up with.
SPECIFICATION LoopSpec
CONSTANTS
    Music = {m1, m2}
    Effect = {e1}
    Null = Null
    frame_ticks = 2
    MaxLate = 3
INVARIANTS OnlyWhatWasPlayed NoRacing
PROPERTIES KeyboardAnswers MusicLoops
CHECK_DEADLOCK FALSE
