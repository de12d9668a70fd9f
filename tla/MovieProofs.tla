------------------------------ MODULE MovieProofs ------------------------------
(***************************************************************************)
(* Proofs about MovieAudio for every ring, movie and period of the mixer.  *)
(* The invariant says that the counters account for the ring while the     *)
(* movie runs (ClockAgrees, without which played could pass queued), and   *)
(* that the movie only thinks it opened the device if it did (Ownership).  *)
(*                                                                         *)
(* And a proof that the ring implements AudioFifo, where no frame is lost: *)
(* the decoder appends the part of its call for which there is room.       *)
(***************************************************************************)
EXTENDS MovieAudio, SequenceTheorems, TLAPS

\* The device is open if someone opened it; what the movie takes for its own is
\* what it opened, until the audio is shut down for good.
Ownership ==
    /\ device <=> opener # "none"
    /\ control # "down" => (openedDev => opener = "movie")

MovieInv == TypeOK /\ ClockAgrees /\ Ownership

-------------------------------------------------------------------------------
(* Indices. *)

LEMMA SlotCases ==
  /\ \A x \in 0..(2 * Capacity - 1) : Slot(x) = IF x < Capacity THEN x ELSE x - Capacity
  /\ \A x \in Int : Slot(x) \in 0..(Capacity - 1)
  BY SizeAssumption DEF Slot

\* An index that counts from a wrapped one wraps as if nothing had wrapped before.
LEMMA SlotOfSlot ==
  ASSUME NEW h \in 0..(Capacity - 1), NEW i \in Nat, NEW j \in Nat, i + j < Capacity
  PROVE  Slot(Slot(h + i) + j) = Slot(h + i + j)
  BY SizeAssumption, SlotCases

\* Where queue_write looks for the frame of the slot that is i-th from the head.
LEMMA PlaceOf ==
  ASSUME NEW h \in 0..(Capacity - 1), NEW c \in 0..Capacity, NEW i \in 1..Capacity
  PROVE  /\ Slot(h + i - 1) \in 0..(Capacity - 1)
         /\ Slot(Slot(h + i - 1) + Capacity - Slot(h + c)) + 1 =
              IF i <= c THEN Capacity + i - c ELSE i - c
<1>1. /\ Slot(h + i - 1) = IF h + i - 1 < Capacity THEN h + i - 1 ELSE h + i - 1 - Capacity
      /\ Slot(h + c) = IF h + c < Capacity THEN h + c ELSE h + c - Capacity
  BY SizeAssumption, SlotCases
<1>2. PICK k \in Int, t \in Int : k = Slot(h + i - 1) /\ t = Slot(h + c)
  BY <1>1, SizeAssumption
<1>3. k \in 0..(Capacity - 1) /\ k + Capacity - t \in 0..(2 * Capacity - 1)
  BY <1>1, <1>2, SizeAssumption
<1>4. Slot(k + Capacity - t) = IF k < t THEN k + Capacity - t ELSE k - t
  BY <1>1, <1>2, <1>3, SizeAssumption, SlotCases
<1> QED BY <1>1, <1>2, <1>3, <1>4, SizeAssumption

\* The frames of a call are a sequence, and any part of it is a call's.
LEMMA BufferParts ==
  ASSUME NEW s \in Buffers, NEW m \in 1..(Len(s) + 1), NEW n \in 0..Len(s)
  PROVE  /\ s \in Seq(Frame) /\ Len(s) \in 0..Longest
         /\ SubSeq(s, m, n) \in Buffers
<1>1. PICK k \in 0..Longest : s \in [1..k -> Frame]
  BY DEF Buffers
<1>2. s \in Seq(Frame) /\ Len(s) = k /\ k \in Nat /\ Longest \in Nat
  BY <1>1, BoundAssumption
<1>3. PICK t : t = SubSeq(s, m, n)
  OBVIOUS
<1>4. t \in Seq(Frame) /\ Len(t) = IF m <= n THEN n - m + 1 ELSE 0
  <2>1. m \in Int /\ n \in Int /\ m..n \subseteq 1..Len(s)
    BY <1>2
  <2>2. \A i \in m..n : s[i] \in Frame
    BY <1>2, <2>1, ElementOfSeq
  <2> QED BY <1>3, <2>1, <2>2, SubSeqProperties
<1>5. Len(t) \in 0..k
  BY <1>2, <1>4
<1>6. t \in [1..Len(t) -> Frame] /\ Len(t) \in 0..Longest
  BY <1>2, <1>4, <1>5
<1> QED BY <1>2, <1>3, <1>6 DEF Buffers

-------------------------------------------------------------------------------
(* The invariant. *)

\* The decoder's turn: what fits is written and counted.
LEMMA WriteKept == ASSUME MovieInv, queue_write PROVE MovieInv'
<1> DEFINE n == Lesser(Len(todo), Capacity - count)
           place(k) == Slot(k + Capacity - Slot(head + count)) + 1
<1>1. /\ Capacity \in Nat \ {0} /\ head \in 0..(Capacity - 1) /\ count \in 0..Capacity
      /\ todo \in Buffers /\ queued \in Nat /\ MaxQueued \in Nat
  BY SizeAssumption, BoundAssumption DEF MovieInv, TypeOK
<1>2. todo \in Seq(Frame) /\ Len(todo) \in Nat
  BY <1>1, BufferParts, BoundAssumption
<1>3. n \in 0..Len(todo) /\ count + n \in 0..Capacity
  BY <1>1, <1>2 DEF Lesser
<1>4. UNCHANGED <<head, played, active, paused, deviceVars, audioVars>>
  BY DEF queue_write
<1>5. CASE lock = "null" \/ ~active
  <2>1. todo' = <<>> /\ UNCHANGED <<ring, count, queued>>
    BY <1>5 DEF queue_write
  <2>2. <<>> \in Buffers
    <3>1. <<>> \in [1..0 -> Frame] /\ 0 \in 0..Longest
      BY BoundAssumption
    <3> QED BY <3>1 DEF Buffers
  <2> QED BY <1>4, <2>1, <2>2 DEF MovieInv, TypeOK, ClockAgrees, Ownership, deviceVars, audioVars
<1>6. CASE ~(lock = "null" \/ ~active)
  <2>1. /\ queued + n <= MaxQueued
        /\ ring' = [k \in 0..(Capacity - 1) |-> IF place(k) <= n THEN todo[place(k)] ELSE ring[k]]
        /\ count' = count + n /\ queued' = queued + n
        /\ todo' = SubSeq(todo, n + 1, Len(todo))
    BY <1>6 DEF queue_write
  <2>2. ring' \in [0..(Capacity - 1) -> Frame \cup {Silence}]
    <3>1. ASSUME NEW k \in 0..(Capacity - 1), place(k) <= n PROVE todo[place(k)] \in Frame
      <4>1. Slot(head + count) \in 0..(Capacity - 1) /\ head + count \in Int
        BY <1>1, SlotCases
      <4>2. PICK x \in Int : x = k + Capacity - Slot(head + count)
        BY <1>1, <4>1
      <4>3. place(k) \in 1..Capacity
        BY <1>1, <4>2, SlotCases
      <4> HIDE DEF place, n
      <4>4. place(k) \in 1..Len(todo)
        BY <1>1, <1>2, <1>3, <3>1, <4>3
      <4> QED BY <1>2, <4>4, ElementOfSeq
    <3>2. \A k \in 0..(Capacity - 1) : ring[k] \in Frame \cup {Silence}
      BY DEF MovieInv, TypeOK
    <3> HIDE DEF place, n
    <3> QED BY <2>1, <3>1, <3>2
  <2> HIDE DEF n
  <2>3. todo' \in Buffers
    <3>1. n + 1 \in 1..(Len(todo) + 1) /\ Len(todo) \in 0..Len(todo)
      BY <1>2, <1>3
    <3> QED BY <1>1, <2>1, <3>1, BufferParts
  <2>4. count' \in 0..Capacity /\ queued' \in 0..MaxQueued
    BY <1>1, <1>2, <1>3, <2>1
  <2>5. ClockAgrees'
    <3>1. queued = played + count /\ played \in Nat
      BY <1>6, BoundAssumption DEF MovieInv, TypeOK, ClockAgrees
    <3> QED BY <1>1, <1>2, <1>3, <1>4, <2>1, <3>1 DEF ClockAgrees
  <2> QED BY <1>4, <2>2, <2>3, <2>4, <2>5 DEF MovieInv, TypeOK, Ownership, deviceVars, audioVars
<1> QED BY <1>5, <1>6

\* The mixer takes from the ring what it counts as played.
LEMMA MixKept == ASSUME MovieInv, mix_movie PROVE MovieInv'
<1> DEFINE n == Lesser(count, Period)
<1>1. /\ Capacity \in Nat \ {0} /\ head \in 0..(Capacity - 1) /\ count \in 0..Capacity
      /\ queued \in 0..MaxQueued /\ played \in 0..MaxQueued /\ MaxQueued \in Nat /\ Period \in Nat
  BY SizeAssumption, BoundAssumption DEF MovieInv, TypeOK
<1>2. n \in 0..count
  BY <1>1 DEF Lesser
<1>3. UNCHANGED <<ring, active, paused, queued, deviceVars, todo>> /\ audio' = "done"
  BY DEF mix_movie
<1>4. CASE ~active \/ paused
  <2>1. UNCHANGED <<head, count, played>>
    BY <1>4 DEF mix_movie
  <2> QED BY <1>3, <2>1 DEF MovieInv, TypeOK, ClockAgrees, Ownership, deviceVars
<1>5. CASE active /\ ~paused
  <2>1. head' = Slot(head + n) /\ count' = count - n /\ played' = played + n
    BY <1>5 DEF mix_movie
  <2>2. queued = played + count
    BY <1>5 DEF MovieInv, ClockAgrees
  <2> HIDE DEF n
  <2>3. head' \in 0..(Capacity - 1)
    <3>1. head + n \in Int
      BY <1>1, <1>2
    <3> QED BY <2>1, <3>1, SlotCases
  <2>4. count' \in 0..Capacity /\ played' \in 0..MaxQueued /\ queued' = played' + count'
    BY <1>1, <1>2, <1>3, <2>1, <2>2
  <2> QED BY <1>3, <2>3, <2>4 DEF MovieInv, TypeOK, ClockAgrees, Ownership, deviceVars
<1> QED BY <1>4, <1>5

\* The game's thread: it changes the ring or the device, and begin both.
RingInv ==
    /\ ring \in [0..(Capacity - 1) -> Frame \cup {Silence}]
    /\ head \in 0..(Capacity - 1) /\ count \in 0..Capacity
    /\ active \in BOOLEAN /\ paused \in BOOLEAN
    /\ queued \in 0..MaxQueued /\ played \in 0..MaxQueued /\ ClockAgrees

DeviceInv ==
    /\ lock \in {"null", "free", "control"}
    /\ device \in BOOLEAN /\ openedDev \in BOOLEAN /\ player \in BOOLEAN
    /\ control \in {"free", "close", "shutdown", "closeDown", "release", "closeAll", "down"}
    /\ opener \in {"none", "movie", "player"} /\ Ownership

LEMMA Parts ==
  /\ MovieInv <=> RingInv /\ DeviceInv /\ todo \in Buffers /\ audio \in {"asleep", "mix", "done"}
  /\ MovieInv' <=> RingInv' /\ DeviceInv' /\ todo' \in Buffers /\ audio' \in {"asleep", "mix", "done"}
  /\ RingInv /\ UNCHANGED ringVars => RingInv'
  /\ DeviceInv /\ UNCHANGED deviceVars => DeviceInv'
<1>1. MovieInv <=> RingInv /\ DeviceInv /\ todo \in Buffers /\ audio \in {"asleep", "mix", "done"}
  BY DEF MovieInv, TypeOK, RingInv, DeviceInv
<1>4. MovieInv' <=> RingInv' /\ DeviceInv' /\ todo' \in Buffers /\ audio' \in {"asleep", "mix", "done"}
  BY DEF MovieInv, TypeOK, RingInv, DeviceInv
<1>2. RingInv /\ UNCHANGED ringVars => RingInv'
  BY DEF RingInv, ringVars, ClockAgrees
<1>3. DeviceInv /\ UNCHANGED deviceVars => DeviceInv'
  BY DEF DeviceInv, deviceVars, Ownership
<1> QED BY <1>1, <1>2, <1>3, <1>4

\* Whoever needs the device has it opened, unless SDL refuses.
LEMMA Opened ==
  ASSUME NEW who, ensure_device(who), device \in BOOLEAN
  PROVE  /\ device' \in BOOLEAN /\ (device => device')
         /\ opener' = IF device' /\ ~device THEN who ELSE opener
<1>1. device' \in {device, TRUE}
  BY DEF ensure_device
<1>2. opener' = IF device' /\ ~device THEN who ELSE opener
  BY DEF ensure_device
<1> QED BY <1>1, <1>2, Zenon

LEMMA ControlKept ==
  ASSUME RingInv, DeviceInv, Control
  PROVE  RingInv' /\ DeviceInv' /\ UNCHANGED <<todo, audio>>
<1> USE DEF DeviceInv, Ownership
<1>1. CASE movie_begin
  <2>1. UNCHANGED <<ring, player, control, todo, audio>>
    BY <1>1 DEF movie_begin, audioVars
  <2>2. lock' \in {"null", "free", "control"}
    BY <1>1 DEF movie_begin
  <2>3. device' \in BOOLEAN /\ (device => device')
        /\ (opener' = IF device' /\ ~device THEN "movie" ELSE opener)
    BY <1>1, Opened DEF movie_begin
  <2>4. CASE device'
    <3>1. /\ openedDev' = ~device /\ active' = TRUE /\ paused' = TRUE
          /\ head' = 0 /\ count' = 0 /\ queued' = 0 /\ played' = 0
      BY <1>1, <2>4 DEF movie_begin
    <3>2. RingInv'
      BY <2>1, <3>1, SizeAssumption, BoundAssumption DEF RingInv, ClockAgrees
    <3>3. DeviceInv'
      BY <2>1, <2>2, <2>3, <2>4, <3>1
    <3> QED BY <2>1, <3>2, <3>3
  <2>5. CASE ~device'
    <3>1. UNCHANGED <<openedDev, active, paused, head, count, queued, played>>
      BY <1>1, <2>5 DEF movie_begin
    <3>2. RingInv'
      BY <2>1, <3>1, Parts DEF ringVars
    <3>3. DeviceInv'
      BY <2>1, <2>2, <2>3, <2>5, <3>1
    <3> QED BY <2>1, <3>2, <3>3
  <2> QED BY <2>4, <2>5
<1>2. CASE movie_set_paused
  <2>1. UNCHANGED <<ring, head, count, queued, played, active, deviceVars, todo, audio>>
        /\ paused' \in {paused, TRUE, FALSE}
    BY <1>2 DEF movie_set_paused, audioVars
  <2> QED BY <2>1, Parts DEF RingInv, ClockAgrees
<1>3. CASE movie_end
  <2>1. RingInv'
    <3>1. /\ active' = FALSE /\ paused' = FALSE /\ head' = 0 /\ count' = 0
          /\ UNCHANGED <<ring, queued, played>>
      BY <1>3 DEF movie_end
    <3>2. 0 \in 0..(Capacity - 1) /\ 0 \in 0..Capacity
      BY SizeAssumption
    <3>3. ClockAgrees'
      BY <3>1 DEF ClockAgrees
    <3> QED BY <3>1, <3>2, <3>3 DEF RingInv
  <2>2. lock' = "free" /\ control' \in {"close", "closeDown"} /\ control \in {"free", "shutdown"}
    BY <1>3 DEF movie_end
  <2>3. UNCHANGED <<device, openedDev, opener, player, todo, audio>>
    BY <1>3 DEF movie_end, audioVars
  <2> QED BY <2>1, <2>2, <2>3
<1>4. CASE movie_close
  <2>1. UNCHANGED <<ringVars, player, todo, audio>>
    BY <1>4 DEF movie_close, audioVars
  <2>2. /\ device' = (device /\ ~openedDev) /\ openedDev' = FALSE /\ lock' = "free"
        /\ (opener' = IF device' THEN opener ELSE "none") /\ control' \in {"free", "release"}
    BY <1>4 DEF movie_close
  <2> QED BY <2>1, <2>2, Parts
<1>5. CASE CreatePlayer
  <2>1. /\ UNCHANGED <<ringVars, lock, openedDev, control, todo, audio>> /\ player' = TRUE
        /\ control = "free"
    BY <1>5 DEF CreatePlayer, audioVars
  <2>2. device' \in BOOLEAN /\ (device => device')
        /\ (opener' = IF device' /\ ~device THEN "player" ELSE opener)
    BY <1>5, Opened DEF CreatePlayer
  <2> QED BY <2>1, <2>2, Parts
<1>6. CASE DestroyPlayer
  <2>1. /\ UNCHANGED <<ringVars, lock, device, openedDev, opener, control, todo, audio>>
        /\ player' = FALSE
    BY <1>6 DEF DestroyPlayer, audioVars
  <2> QED BY <2>1, Parts
<1>7. CASE shutdown
  <2>1. /\ UNCHANGED <<ringVars, lock, device, openedDev, opener, player, todo, audio>>
        /\ control = "free" /\ control' \in {"release", "shutdown"}
    BY <1>7 DEF shutdown, audioVars
  <2> QED BY <2>1, Parts
<1>8. CASE shutdown_release
  <2>1. /\ UNCHANGED <<ringVars, device, openedDev, opener, player, todo, audio>>
        /\ control = "release" /\ control' = "closeAll" /\ lock' = "null"
    BY <1>8 DEF shutdown_release, audioVars
  <2> QED BY <2>1, Parts
<1>9. CASE shutdown_close
  <2>1. /\ UNCHANGED <<ringVars, lock, openedDev, player, todo, audio>>
        /\ device' = FALSE /\ opener' = "none" /\ control' = "down"
    BY <1>9 DEF shutdown_close, audioVars
  <2> QED BY <2>1, Parts
<1> QED BY <1>1, <1>2, <1>3, <1>4, <1>5, <1>6, <1>7, <1>8, <1>9 DEF Control, ControlFinishes

LEMMA MovieStep == MovieInv /\ [Next]_mvars => MovieInv'
<1> SUFFICES ASSUME MovieInv, [Next]_mvars PROVE MovieInv'
  OBVIOUS
<1>1. RingInv /\ DeviceInv /\ todo \in Buffers /\ audio \in {"asleep", "mix", "done"}
  BY Parts
<1>2. CASE Control
  <2>1. RingInv' /\ DeviceInv' /\ UNCHANGED <<todo, audio>>
    BY <1>1, <1>2, ControlKept
  <2> QED BY <1>1, <2>1, Parts
<1>3. CASE queue_call
  <2>1. UNCHANGED <<ringVars, deviceVars, audio>> /\ todo' \in Buffers
    BY <1>3 DEF queue_call, audioVars
  <2> QED BY <1>1, <2>1, Parts
<1>4. CASE AudioWake \/ AudioReturn
  <2>1. UNCHANGED <<ringVars, deviceVars, todo>> /\ audio' \in {"asleep", "mix", "done"}
    BY <1>4 DEF AudioWake, AudioReturn
  <2> QED BY <1>1, <2>1, Parts
<1>5. CASE UNCHANGED mvars
  <2>1. UNCHANGED <<ringVars, deviceVars, todo, audio>>
    BY <1>5 DEF mvars, audioVars
  <2> QED BY <1>1, <2>1, Parts
<1> QED BY <1>2, <1>3, <1>4, <1>5, WriteKept, MixKept DEF Next

THEOREM MovieCorrect == Spec => []MovieInv
<1>1. Init => MovieInv
  <2> SUFFICES ASSUME Init PROVE MovieInv
    OBVIOUS
  <2>1. 0 \in 0..(Capacity - 1) /\ 0 \in 0..Capacity /\ 0 \in 0..MaxQueued /\ 0 \in 0..Longest
    BY SizeAssumption, BoundAssumption
  <2>2. <<>> \in Buffers
    <3>1. <<>> \in [1..0 -> Frame]
      OBVIOUS
    <3> QED BY <2>1, <3>1 DEF Buffers
  <2> QED BY <2>1, <2>2 DEF Init, MovieInv, TypeOK, ClockAgrees, Ownership
<1> QED BY <1>1, MovieStep, PTL DEF Spec

\* A player of the movie may take queued minus played for what still has to be
\* heard: between the game's thread, the decoder and the mixer no frame is counted
\* twice or missed, whatever the ring's size.
THEOREM MovieClock == Spec => []ClockAgrees
<1>1. MovieInv => ClockAgrees
  BY DEF MovieInv
<1> QED BY <1>1, MovieCorrect, PTL

\* The end of a movie closes the device only if that movie opened it: a player
\* that opened it, before the movie or during it, keeps it.
THEOREM DeviceOfPlayers == Spec => PlayersDeviceStays
<1>1. ASSUME MovieInv, [Next]_mvars, control = "close", opener = "player"
      PROVE  device' = device
  <2>1. ~openedDev /\ device
    BY <1>1 DEF MovieInv, Ownership
  <2>2. CASE movie_close
    BY <2>1, <2>2 DEF movie_close
  <2>3. CASE movie_begin \/ movie_set_paused \/ movie_end \/ CreatePlayer \/ DestroyPlayer \/ shutdown
               \/ shutdown_release \/ shutdown_close
    BY <1>1, <2>3 DEF movie_begin, movie_set_paused, movie_end, CreatePlayer, DestroyPlayer, shutdown,
                      shutdown_release, shutdown_close, deviceVars
  <2>4. CASE queue_call \/ queue_write \/ AudioWake \/ mix_movie \/ AudioReturn \/ UNCHANGED mvars
    BY <2>4 DEF queue_call, queue_write, AudioWake, mix_movie, AudioReturn, mvars, deviceVars
  <2> QED BY <1>1, <2>2, <2>3, <2>4 DEF Next, Control, ControlFinishes
<1>2. MovieInv /\ [Next]_mvars => [control = "close" /\ opener = "player" => device' = device]_mvars
  BY <1>1
<1> QED BY <1>2, MovieCorrect, PTL DEF Spec, PlayersDeviceStays

-------------------------------------------------------------------------------
(* The ring as a queue. *)

Sample == Frame \cup {Silence}

LEMMA BufferedIsSeq ==
  ASSUME TypeOK
  PROVE  Buffered \in Seq(Sample) /\ Len(Buffered) = count
<1>1. count \in Nat /\ head \in Int
  BY SizeAssumption DEF TypeOK
<1>2. ASSUME NEW i \in 1..count PROVE ring[Slot(head + i - 1)] \in Sample
  <2>1. head + i - 1 \in Int
    BY <1>1
  <2>2. Slot(head + i - 1) \in 0..(Capacity - 1)
    BY <2>1, SlotCases
  <2> QED BY <2>2 DEF TypeOK, Sample
<1>3. Buffered \in [1..count -> Sample]
  BY <1>2 DEF Buffered
<1> QED BY <1>1, <1>3

\* A turn of opensles_movie_queue puts the frames for which there is room.
LEMMA WritePuts ==
  ASSUME MovieInv, queue_write, lock # "null", active
  PROVE  Fifo!Put
<1> DEFINE n == Lesser(Len(todo), Capacity - count)
           added == SubSeq(todo, 1, n)
           place(k) == Slot(k + Capacity - Slot(head + count)) + 1
<1>1. Capacity \in Nat \ {0} /\ head \in 0..(Capacity - 1) /\ count \in 0..Capacity /\ todo \in Buffers
  BY SizeAssumption DEF MovieInv, TypeOK
<1>2. todo \in Seq(Frame) /\ Len(todo) \in Nat
  BY <1>1, BufferParts, BoundAssumption
<1>3. n \in 0..Len(todo) /\ count + n \in 0..Capacity
  BY <1>1, <1>2 DEF Lesser
<1>4. /\ ring' = [k \in 0..(Capacity - 1) |-> IF place(k) <= n THEN todo[place(k)] ELSE ring[k]]
      /\ head' = head /\ count' = count + n /\ block' = block
  BY DEF queue_write, audioVars
<1>5. Buffered' = [i \in 1..(count + n) |-> ring'[Slot(head + i - 1)]]
  BY <1>4 DEF Buffered
<1>6. Buffered \in Seq(Sample) /\ Len(Buffered) = count
  BY BufferedIsSeq DEF MovieInv
<1>7. /\ added \in Buffers /\ added \in Seq(Frame) /\ Len(added) = n
      /\ \A i \in 1..n : added[i] = todo[i]
  <2>1. n \in 0..Len(todo) /\ 1 \in 1..(Len(todo) + 1)
    BY <1>2, <1>3
  <2> HIDE DEF n
  <2>2. added \in Buffers
    BY <1>1, <2>1, BufferParts
  <2>3. /\ added \in Seq(Frame) /\ Len(added) = n
        /\ \A i \in 1..n : added[i] = todo[i]
    BY <1>2, <2>1
  <2> QED BY <2>2, <2>3
<1>8. added \in Seq(Sample)
  BY <1>7 DEF Sample
<1> HIDE DEF n, added
<1>9. /\ Buffered \o added \in Seq(Sample) /\ Len(Buffered \o added) = count + n
      /\ \A i \in 1..(count + n) : (Buffered \o added)[i] =
            IF i <= count THEN Buffered[i] ELSE added[i - count]
  BY <1>1, <1>3, <1>6, <1>7, <1>8
<1>10. ASSUME NEW i \in 1..(count + n)
       PROVE  ring'[Slot(head + i - 1)] = (Buffered \o added)[i]
  <2>1. i \in 1..Capacity
    BY <1>1, <1>2, <1>3
  <2>2. /\ Slot(head + i - 1) \in 0..(Capacity - 1)
        /\ place(Slot(head + i - 1)) = IF i <= count THEN Capacity + i - count ELSE i - count
    BY <1>1, <2>1, PlaceOf
  <2>3. ring'[Slot(head + i - 1)] = IF place(Slot(head + i - 1)) <= n
                                      THEN todo[place(Slot(head + i - 1))]
                                      ELSE ring[Slot(head + i - 1)]
    BY <1>4, <2>2
  <2> HIDE DEF place
  <2>4. CASE i <= count
    <3>1. ~(place(Slot(head + i - 1)) <= n)
      BY <1>1, <1>2, <1>3, <2>1, <2>2, <2>4
    <3>2. i \in 1..count
      BY <1>1, <2>1, <2>4
    <3>3. Buffered[i] = ring[Slot(head + i - 1)]
      BY <3>2 DEF Buffered
    <3> QED BY <1>9, <2>3, <2>4, <3>1, <3>3
  <2>5. CASE ~(i <= count)
    <3>1. place(Slot(head + i - 1)) = i - count
      BY <2>2, <2>5
    <3>2. i - count \in 1..n
      BY <1>1, <1>2, <1>3, <2>5
    <3>3. added[i - count] = todo[i - count] /\ i - count <= n
      BY <1>1, <1>2, <1>3, <1>7, <3>2
    <3>4. ring'[Slot(head + i - 1)] = todo[i - count]
      BY <2>3, <3>1, <3>3
    <3> QED BY <1>9, <2>5, <3>3, <3>4
  <2> QED BY <2>4, <2>5
<1>11. Buffered' \in Seq(Sample) /\ Len(Buffered') = count + n
  <2>1. count + n \in Nat
    BY <1>1, <1>2, <1>3
  <2>2. \A i \in 1..(count + n) : (Buffered \o added)[i] \in Sample
    BY <1>9, ElementOfSeq
  <2>3. \A i \in 1..(count + n) : ring'[Slot(head + i - 1)] \in Sample
    BY <1>10, <2>2
  <2> QED BY <1>5, <2>1, <2>3
<1>12. \A i \in 1..(count + n) : Buffered'[i] = (Buffered \o added)[i]
  BY <1>5, <1>10
<1>13. Buffered' = Buffered \o added
  BY <1>9, <1>11, <1>12, SeqEqual
<1>14. Len(added) <= Capacity - Len(Buffered)
  BY <1>1, <1>2, <1>3, <1>6, <1>7
<1>15. SubSeq(added, 1, Fifo!Lesser(Len(added), Capacity - Len(Buffered))) = added
  <2>1. Fifo!Lesser(Len(added), Capacity - Len(Buffered)) = Len(added)
    BY <1>14 DEF Fifo!Lesser
  <2>2. SubSeq(added, 1, Len(added)) = added
    BY <1>7
  <2> QED BY <2>1, <2>2
<1>16. added \in Fifo!Writes
  BY <1>7 DEF Buffers, Fifo!Writes
<1>17. ~(Len(added) > Capacity - Len(Buffered))
  BY <1>1, <1>2, <1>3, <1>6, <1>7
<1> QED BY <1>4, <1>13, <1>15, <1>16, <1>17 DEF Fifo!Put

\* mix_movie takes the oldest frames, a period of them or what there is.
LEMMA MixTakes ==
  ASSUME MovieInv, mix_movie, active, ~paused
  PROVE  Fifo!Take
<1> DEFINE n == Lesser(count, Period)
<1>1. Capacity \in Nat \ {0} /\ head \in 0..(Capacity - 1) /\ count \in 0..Capacity /\ Period \in Nat
  BY SizeAssumption DEF MovieInv, TypeOK
<1>2. n \in 0..count /\ n = Lesser(Period, count)
  BY <1>1 DEF Lesser
<1>3. Buffered \in Seq(Sample) /\ Len(Buffered) = count
  BY BufferedIsSeq DEF MovieInv
<1>4. /\ block' = [i \in 1..n |-> ring[Slot(head + i - 1)]]
      /\ head' = Slot(head + n) /\ count' = count - n /\ ring' = ring
  BY DEF mix_movie
<1>5. \A i \in 1..count : Buffered[i] = ring[Slot(head + i - 1)]
  BY DEF Buffered
<1> HIDE DEF n
<1>6. block' = SubSeq(Buffered, 1, n)
  <2>1. SubSeq(Buffered, 1, n) = [i \in 1..n |-> Buffered[i]]
    BY <1>1, <1>2, <1>3
  <2>2. \A i \in 1..n : Buffered[i] = ring[Slot(head + i - 1)]
    BY <1>1, <1>2, <1>5
  <2> QED BY <1>4, <2>1, <2>2
<1>7. Buffered' = SubSeq(Buffered, n + 1, count)
  <2>1. Buffered' = [i \in 1..(count - n) |-> ring[Slot(Slot(head + n) + i - 1)]]
    BY <1>4 DEF Buffered
  <2>2. SubSeq(Buffered, n + 1, count) = [i \in 1..(count - n) |-> Buffered[i + n]]
    BY <1>1, <1>2, <1>3
  <2>3. ASSUME NEW i \in 1..(count - n)
        PROVE  ring[Slot(Slot(head + n) + i - 1)] = Buffered[i + n]
    <3>1. i - 1 \in Nat /\ n \in Nat /\ n + (i - 1) < Capacity /\ i + n \in 1..count
      BY <1>1, <1>2
    <3>2. Slot(Slot(head + n) + (i - 1)) = Slot(head + n + (i - 1))
      BY <1>1, <3>1, SlotOfSlot
    <3>3. Slot(head + n) \in Int
      BY <1>1, <3>1, SlotCases
    <3>4. Slot(head + n) + (i - 1) = Slot(head + n) + i - 1 /\ head + n + (i - 1) = head + (i + n) - 1
      BY <1>1, <3>1, <3>3
    <3> QED BY <1>5, <3>1, <3>2, <3>4
  <2> QED BY <2>1, <2>2, <2>3
<1>8. Fifo!Lesser(Period, Len(Buffered)) = n
  BY <1>2, <1>3 DEF Fifo!Lesser, Lesser
<1> QED BY <1>3, <1>6, <1>7, <1>8 DEF Fifo!Take

\* A beginning and an end of a movie empty the queue.
LEMMA Emptied == count' = 0 => Buffered' = <<>>
  BY DEF Buffered

LEMMA MovieStepRefines ==
  ASSUME MovieInv, [Next]_mvars
  PROVE  [Fifo!FifoNext]_Fifo!fifoVars
<1>1. CASE (count' = 0 \/ UNCHANGED <<ring, head, count>>) /\ block' = block
  <2>1. CASE count' = 0
    BY <1>1, <2>1, Emptied DEF Fifo!FifoNext, Fifo!Reset
  <2>2. CASE UNCHANGED <<ring, head, count>>
    BY <1>1, <2>2 DEF Fifo!fifoVars, Buffered
  <2> QED BY <1>1, <2>1, <2>2
<1>2. CASE Control
  <2>1. CASE movie_begin
    <3>1. CASE device'
      BY <1>1, <2>1, <3>1 DEF movie_begin, audioVars
    <3>2. CASE ~device'
      BY <1>1, <2>1, <3>2 DEF movie_begin, audioVars
    <3> QED BY <3>1, <3>2
  <2>2. CASE movie_end
    BY <1>1, <2>2 DEF movie_end, audioVars
  <2>3. CASE movie_set_paused \/ CreatePlayer \/ DestroyPlayer \/ shutdown \/ movie_close
               \/ shutdown_release \/ shutdown_close
    BY <1>1, <2>3 DEF movie_set_paused, CreatePlayer, DestroyPlayer, shutdown, movie_close,
                      shutdown_release, shutdown_close, ringVars, audioVars
  <2> QED BY <1>2, <2>1, <2>2, <2>3 DEF Control, ControlFinishes
<1>3. CASE queue_write
  <2>1. CASE lock = "null" \/ ~active
    BY <1>1, <1>3, <2>1 DEF queue_write, audioVars
  <2>2. CASE lock # "null" /\ active
    BY <1>3, <2>2, WritePuts DEF Fifo!FifoNext
  <2> QED BY <2>1, <2>2
<1>4. CASE mix_movie
  <2>1. CASE ~active \/ paused
    BY <1>1, <1>4, <2>1 DEF mix_movie
  <2>2. CASE active /\ ~paused
    BY <1>4, <2>2, MixTakes DEF Fifo!FifoNext
  <2> QED BY <2>1, <2>2
<1>5. CASE queue_call \/ AudioWake \/ AudioReturn \/ UNCHANGED mvars
  BY <1>1, <1>5 DEF queue_call, AudioWake, AudioReturn, mvars, ringVars, audioVars
<1> QED BY <1>2, <1>3, <1>4, <1>5 DEF Next

\* The movie is heard in the order it was decoded, no frame twice and none missing
\* but at an end or a new beginning: waiting for room, the ring loses nothing.
THEOREM MovieRefinesFifo == Spec => MovieIsFifo
<1>1. Init => Fifo!FifoInit
  BY DEF Init, Fifo!FifoInit, Buffered
<1>2. MovieInv /\ [Next]_mvars => [Fifo!FifoNext]_Fifo!fifoVars
  BY MovieStepRefines
<1> QED BY <1>1, <1>2, MovieCorrect, PTL DEF Spec, MovieIsFifo, Fifo!FifoSpec
===============================================================================
