------------------------------- MODULE MovieAudio -------------------------------
(***************************************************************************)
(* The movie's share of the audio device (source/opensles.c, the           *)
(* opensles_movie_ functions): a decoder thread queues frames, the SDL     *)
(* audio callback mixes them, and the game's thread begins, pauses and     *)
(* ends the movie, creates players and shuts the audio down.  The device   *)
(* is shared with the players: whoever needs it first opens it.            *)
(*                                                                         *)
(* What runs under g_movie_lock is one step.  The callers of this          *)
(* interface are outside source/: one thread controls the movie, one       *)
(* decodes.                                                                *)
(***************************************************************************)
EXTENDS Integers, Sequences

CONSTANTS Frame,        \* audio frames of the movie
          Silence,      \* what calloc leaves in the ring
          Capacity,     \* MOVIE_RING_FRAMES
          Longest,      \* bound: frames of one opensles_movie_queue call
          Period,       \* frames per SDL callback
          MaxQueued     \* bound: frames queued in one movie

ASSUME FrameAssumption == Silence \notin Frame
ASSUME SizeAssumption == Capacity \in Nat \ {0} /\ Period \in Nat \ {0}
ASSUME BoundAssumption == Longest \in Nat /\ MaxQueued \in Nat

VARIABLES
    ring, head, count,    \* g_movie_pcm, g_movie_head, g_movie_count
    active, paused,       \* g_movie_active, g_movie_paused
    queued, played,       \* g_movie_samples_queued, g_movie_samples_played
    lock,                 \* g_movie_lock: "null", "free", "control" (held)
    device,               \* whether g_dev is open
    openedDev,            \* g_movie_opened_dev
    player,               \* whether the engine has a player
    control,              \* what the game's thread is doing
    todo,                 \* the frames a queue call has still to write
    audio,                \* where the audio callback is
    block,                \* history: the movie frames mixed last
    opener                \* history: who opened the device: "none", "movie", "player"

ringVars    == <<ring, head, count, queued, played, active, paused>>
deviceVars  == <<lock, device, openedDev, player, control, opener>>
audioVars   == <<audio, block>>
mvars == <<ringVars, deviceVars, todo, audioVars>>

Lesser(a, b) == IF a <= b THEN a ELSE b

Slot(i) == i % Capacity

Buffers == UNION {[1..n -> Frame] : n \in 0..Longest}

Init ==
    /\ ring = [i \in 0..(Capacity - 1) |-> Silence] /\ head = 0 /\ count = 0
    /\ active = FALSE /\ paused = FALSE /\ queued = 0 /\ played = 0
    /\ lock = "null" /\ device = FALSE /\ openedDev = FALSE /\ player = FALSE
    /\ control = "free" /\ todo = <<>> /\ opener = "none"
    /\ audio = "asleep" /\ block = <<>>

-------------------------------------------------------------------------------
(* The game's thread. *)

\* ensure_device: opens the device unless it is open; SDL may refuse.
ensure_device(who) ==
    /\ device' \in {device, TRUE}
    /\ opener' = IF device' /\ ~device THEN who ELSE opener

\* Mutant: the counters of the last movie are kept.
movie_begin_KeepsCounters ==
    /\ control = "free"
    /\ lock' = IF lock = "null" THEN "free" ELSE lock
    /\ ensure_device("movie")
    /\ IF device'
         THEN /\ openedDev' = ~device
              /\ active' = TRUE /\ paused' = TRUE
              /\ head' = 0 /\ count' = 0
              /\ UNCHANGED <<queued, played>>
         ELSE UNCHANGED <<openedDev, active, paused, head, count, queued, played>>
    /\ UNCHANGED <<ring, player, control, todo, audioVars>>

\* Mutant: the movie always takes the device for its own.
movie_begin_OwnsDevice ==
    /\ control = "free"
    /\ lock' = IF lock = "null" THEN "free" ELSE lock
    /\ ensure_device("movie")
    /\ IF device'
         THEN /\ openedDev' = TRUE
              /\ active' = TRUE /\ paused' = TRUE
              /\ head' = 0 /\ count' = 0 /\ queued' = 0 /\ played' = 0
         ELSE UNCHANGED <<openedDev, active, paused, head, count, queued, played>>
    /\ UNCHANGED <<ring, player, control, todo, audioVars>>

movie_begin ==
    /\ control = "free"
    /\ lock' = IF lock = "null" THEN "free" ELSE lock
    /\ ensure_device("movie")
    /\ IF device'
         THEN /\ openedDev' = ~device
              /\ active' = TRUE /\ paused' = TRUE
              /\ head' = 0 /\ count' = 0 /\ queued' = 0 /\ played' = 0
         ELSE UNCHANGED <<openedDev, active, paused, head, count, queued, played>>
    /\ UNCHANGED <<ring, player, control, todo, audioVars>>

movie_set_paused ==
    /\ control = "free" /\ lock # "null"
    /\ \E on \in BOOLEAN : paused' = IF active THEN on ELSE paused
    /\ UNCHANGED <<ring, head, count, queued, played, active,
                   deviceVars, todo, audioVars>>

\* Mutant: the device is closed before g_movie_lock is given back.
movie_end_HoldsLock ==
    /\ control \in {"free", "shutdown"} /\ lock # "null"
    /\ active' = FALSE /\ paused' = FALSE /\ head' = 0 /\ count' = 0
    /\ lock' = "control"
    /\ control' = IF control = "free" THEN "close" ELSE "closeDown"
    /\ UNCHANGED <<ring, queued, played, device, openedDev, opener, player, todo, audioVars>>

\* opensles_movie_end, under the lock ...
movie_end ==
    /\ control \in {"free", "shutdown"} /\ lock # "null"
    /\ active' = FALSE /\ paused' = FALSE /\ head' = 0 /\ count' = 0
    /\ lock' = "free"
    /\ control' = IF control = "free" THEN "close" ELSE "closeDown"
    /\ UNCHANGED <<ring, queued, played, device, openedDev, opener, player, todo, audioVars>>

\* ... and outside it: SDL_CloseAudioDevice waits for the callback.
movie_close ==
    /\ control \in {"close", "closeDown"}
    /\ openedDev /\ device => audio = "asleep"
    /\ device' = (device /\ ~openedDev)
    /\ opener' = IF device' THEN opener ELSE "none"
    /\ openedDev' = FALSE
    /\ lock' = "free"
    /\ control' = IF control = "close" THEN "free" ELSE "release"
    /\ UNCHANGED <<ringVars, player, todo, audioVars>>

\* eng_CreateAudioPlayer and player_Destroy, as far as the device is concerned.
CreatePlayer ==
    /\ control = "free" /\ ~player
    /\ ensure_device("player")
    /\ player' = TRUE
    /\ UNCHANGED <<ringVars, lock, openedDev, control, todo, audioVars>>

DestroyPlayer ==
    /\ control = "free" /\ player
    /\ player' = FALSE
    /\ UNCHANGED <<ringVars, lock, device, openedDev, opener, control, todo, audioVars>>

\* opensles_shutdown: ends the movie if there was one, frees its ring and its
\* lock, and closes the device.  The decoder has returned by then.
shutdown ==
    /\ control = "free" /\ todo = <<>>
    /\ control' = IF lock = "null" THEN "release" ELSE "shutdown"
    /\ UNCHANGED <<ringVars, lock, device, openedDev, opener, player, todo, audioVars>>

shutdown_release ==
    /\ control = "release"
    /\ lock' = "null"
    /\ control' = "closeAll"
    /\ UNCHANGED <<ringVars, device, openedDev, opener, player, todo, audioVars>>

shutdown_close ==
    /\ control = "closeAll"
    /\ device => audio = "asleep"
    /\ device' = FALSE /\ opener' = "none"
    /\ control' = "down"
    /\ UNCHANGED <<ringVars, lock, openedDev, player, todo, audioVars>>

ControlFinishes == movie_close \/ shutdown_release \/ shutdown_close
                     \/ (control = "shutdown" /\ movie_end)

-------------------------------------------------------------------------------
(* The decoder: opensles_movie_queue. *)

queue_call ==
    /\ todo = <<>> /\ control \notin {"shutdown", "closeDown", "release", "closeAll", "down"}
    /\ todo' \in Buffers
    /\ UNCHANGED <<ringVars, deviceVars, audioVars>>

\* One turn of the loop: what fits is written, the rest waits; a movie that
\* ended makes the call return.
queue_write ==
    /\ todo # <<>> /\ lock # "control"
    /\ LET n == Lesser(Len(todo), Capacity - count)
           place(k) == Slot(k + Capacity - Slot(head + count)) + 1
       IN  IF lock = "null" \/ ~active
             THEN /\ todo' = <<>>
                  /\ UNCHANGED <<ring, count, queued>>
             ELSE /\ queued + n <= MaxQueued
                  /\ ring' = [k \in 0..(Capacity - 1) |->
                                IF place(k) <= n THEN todo[place(k)] ELSE ring[k]]
                  /\ count' = count + n
                  /\ queued' = queued + n
                  /\ todo' = SubSeq(todo, n + 1, Len(todo))
    /\ UNCHANGED <<head, played, active, paused, deviceVars, audioVars>>

-------------------------------------------------------------------------------
(* The audio callback. *)

\* SDL calls it while the device is open.  It looks at g_movie_lock first.
AudioWake ==
    /\ audio = "asleep" /\ device
    /\ audio' = IF lock = "null" THEN "done" ELSE "mix"
    /\ UNCHANGED <<ringVars, deviceVars, todo, block>>

\* Mutant: ring_head is taken for the tail.
mix_movie_FromTail ==
    /\ audio = "mix" /\ lock # "control"
    /\ IF ~active \/ paused
         THEN UNCHANGED <<head, count, played, block>>
         ELSE LET n == Lesser(count, Period) IN
              /\ block' = [i \in 1..n |-> ring[Slot(head + count - n + i - 1)]]
              /\ head' = Slot(head + n)
              /\ count' = count - n
              /\ played' = played + n
    /\ audio' = "done"
    /\ UNCHANGED <<ring, active, paused, queued, deviceVars, todo>>

mix_movie ==
    /\ audio = "mix" /\ lock # "control"
    /\ IF ~active \/ paused
         THEN UNCHANGED <<head, count, played, block>>
         ELSE LET n == Lesser(count, Period) IN
              /\ block' = [i \in 1..n |-> ring[Slot(head + i - 1)]]
              /\ head' = Slot(head + n)
              /\ count' = count - n
              /\ played' = played + n
    /\ audio' = "done"
    /\ UNCHANGED <<ring, active, paused, queued, deviceVars, todo>>

AudioReturn ==
    /\ audio = "done"
    /\ audio' = "asleep"
    /\ UNCHANGED <<ringVars, deviceVars, todo, block>>

-------------------------------------------------------------------------------
Control == movie_begin \/ movie_set_paused \/ movie_end \/ CreatePlayer
             \/ DestroyPlayer \/ shutdown \/ ControlFinishes

Next == Control \/ queue_call \/ queue_write \/ AudioWake \/ mix_movie \/ AudioReturn

\* A call that was made is finished when it can be; a waiting decoder polls.
\* SDL_CloseAudioDevice stops the callback from being called again, so the end
\* of one callback is enough for it to return: strong fairness for the caller.
Fairness ==
    /\ SF_mvars(ControlFinishes)
    /\ WF_mvars(queue_write)
    /\ WF_mvars(AudioWake \/ mix_movie \/ AudioReturn)

Spec == Init /\ [][Next]_mvars /\ Fairness

-------------------------------------------------------------------------------
(* Properties. *)

TypeOK ==
    /\ ring \in [0..(Capacity - 1) -> Frame \cup {Silence}]
    /\ head \in 0..(Capacity - 1) /\ count \in 0..Capacity
    /\ active \in BOOLEAN /\ paused \in BOOLEAN
    /\ queued \in 0..MaxQueued /\ played \in 0..MaxQueued
    /\ lock \in {"null", "free", "control"}
    /\ device \in BOOLEAN /\ openedDev \in BOOLEAN /\ player \in BOOLEAN
    /\ control \in {"free", "close", "shutdown", "closeDown", "release", "closeAll", "down"}
    /\ todo \in Buffers
    /\ audio \in {"asleep", "mix", "done"}
    /\ opener \in {"none", "movie", "player"}

\* The two counters a movie player keeps its picture in step with: while the
\* movie runs, every frame queued has been played or waits in the ring.
ClockAgrees == active => queued = played + count

\* A device that a player opened is not closed by the end of a movie.
PlayersDeviceStays ==
    [][control = "close" /\ opener = "player" => device' = device]_mvars

Buffered == [i \in 1..count |-> ring[Slot(head + i - 1)]]

Fifo == INSTANCE AudioFifo WITH queue <- Buffered, lost <- FALSE

\* The movie's ring is a FIFO that never loses a frame: the decoder waits for
\* room, and only the end or the beginning of a movie empties it.
MovieIsFifo == Fifo!FifoSpec

\* opensles_movie_end returns, though the audio callback takes the lock that
\* movie_end takes and SDL_CloseAudioDevice waits for that callback.
EndReturns == control = "close" ~> control = "free"

\* A decoder that waits for room is let go when the movie ends.
QueueReturns == (todo # <<>> /\ ~active) ~> (todo = <<>> \/ active)

\* Neither the thread that ends a movie nor the one that queues its sound is
\* left waiting, for the callback, for each other or for room.
CallsReturn == EndReturns /\ QueueReturns
================================================================================
