------------------------------- MODULE MainProofs -------------------------------
(***************************************************************************)
(* Proofs about what main.c runs: MainLoop, and SoLoader before it.        *)
(*                                                                         *)
(* The loop, for every number of channels, every length of a frame and     *)
(* every lateness.  The invariant adds to the types why the keepalive      *)
(* restarts only what was played (Remembered) and why two frames never     *)
(* come close (Slack): the time that has gone by and the time left to the  *)
(* deadline make up for a frame that was shorter.                          *)
(*                                                                         *)
(* The loader, for every two files, import table, size of the zone and of  *)
(* pages.  How many calls are left (Left) says which calls are done, so    *)
(* the invariant is what each call has done that stays: Past holds from    *)
(* the call on, and when constructors run.                                 *)
(*                                                                         *)
(* The table of relative relocations, for every set of words: what         *)
(* so_relocate decodes is what the linker encoded (EachMovedOnce).         *)
(***************************************************************************)
EXTENDS MainLoop, SoLoader, FiniteSetTheorems, SequenceTheorems, TLAPS

\* The track to keep looping was played and not stopped since, or is gone; a
\* handle that was freed is never in use again.
Remembered ==
    /\ \A h \in freed : state[h] = "none"
    /\ s_music_handle # Null =>
         /\ s_music_handle \in Channel
         /\ state[s_music_handle] = "none" => s_music_handle \in freed
         /\ state[s_music_handle] = "stopped" => word[s_music_handle] = "play"

\* If the last frame was short, what has been spent of this one and what is left
\* to its deadline make up a whole frame with it.
Slack ==
    \/ gaps[2] = frame_ticks \/ spent = frame_ticks
    \/ gaps[2] + spent + left >= frame_ticks

LoopInv == LoopTypeOK /\ Remembered /\ OnlyWhatWasPlayed /\ NoRacing /\ Slack

-------------------------------------------------------------------------------
(* The music. *)

MusicInv == TypeOK /\ Remembered /\ OnlyWhatWasPlayed

\* A handle is a channel, and not Null.
LEMMA Handles == Music \subseteq Channel /\ Null \notin Channel
  BY HandleAssumption DEF Channel

\* No call of the game, no end of a track and no keepalive starts what the game
\* did not play.
LEMMA MusicStep ==
  ASSUME MusicInv,
         GameCall \/ (\E h \in Channel : End(h)) \/ bass_music_keepalive \/ UNCHANGED mkvars
  PROVE  MusicInv'
<1> USE Handles DEF MusicInv, TypeOK, Remembered, OnlyWhatWasPlayed
<1>1. ASSUME NEW h \in Channel, StreamCreate(h) PROVE MusicInv'
  BY <1>1 DEF StreamCreate
<1>2. ASSUME NEW h \in Channel, StreamFree(h) PROVE MusicInv'
  BY <1>2 DEF StreamFree
<1>3. ASSUME NEW h \in Channel, w_BASS_ChannelPlay(h) PROVE MusicInv'
  BY <1>3 DEF w_BASS_ChannelPlay, r_play, is_music_stream
<1>4. ASSUME NEW h \in Channel, w_BASS_ChannelStop(h) PROVE MusicInv'
  BY <1>4 DEF w_BASS_ChannelStop
<1>5. ASSUME NEW h \in Channel, ChannelPause(h) PROVE MusicInv'
  BY <1>5 DEF ChannelPause
<1>6. ASSUME NEW h \in Channel, End(h) PROVE MusicInv'
  BY <1>6 DEF End
<1>7. CASE bass_music_keepalive
  BY <1>7 DEF bass_music_keepalive, r_isactive, r_play
<1>8. CASE UNCHANGED mkvars
  BY <1>8 DEF mkvars
<1> QED BY <1>1, <1>2, <1>3, <1>4, <1>5, <1>6, <1>7, <1>8 DEF GameCall

-------------------------------------------------------------------------------
(* The time. *)

TimeInv ==
    /\ left \in -MaxLate..frame_ticks /\ spent \in 0..frame_ticks
    /\ gaps \in (0..frame_ticks) \X (0..frame_ticks)
    /\ NoRacing /\ Slack

\* As time passes, what is spent grows by what is no longer left.
LEMMA PassKeepsTime ==
  ASSUME TimeInv, NEW ticks \in Nat, Pass(ticks)
  PROVE  TimeInv'
  BY TimeAssumption DEF TimeInv, NoRacing, Slack, Pass, Least

\* The pacer starts a frame that makes up for the one before, early or late.
LEMMA PacerKeepsTime ==
  ASSUME TimeInv, FramePacer
  PROVE  TimeInv'
<1> USE TimeAssumption DEF TimeInv, NoRacing, Slack, Least
<1>1. spent' = 0
  BY DEF FramePacer
<1>2. CASE left > 0
  <2>1. PICK over \in 0..MaxLate :
          /\ left' = frame_ticks - over
          /\ gaps' = <<gaps[2], Least(spent + left + over, frame_ticks)>>
    BY <1>2 DEF FramePacer
  <2> QED BY <1>1, <1>2, <2>1
<1>3. CASE left <= 0
  <2>1. left' = frame_ticks /\ gaps' = <<gaps[2], spent>>
    BY <1>3 DEF FramePacer
  <2> QED BY <1>1, <1>3, <2>1
<1> QED BY <1>2, <1>3

-------------------------------------------------------------------------------
(* The loop. *)

KeyboardTypes ==
    /\ stage \in {"head", "input", "keyboard", "popup", "typing", "keepalive", "render", "pace", "out"}
    /\ g_kbd_requested \in BOOLEAN /\ request \in BOOLEAN

\* The parts of the invariant.
LEMMA InvParts == LoopInv <=> MusicInv /\ TimeInv /\ KeyboardTypes
  BY DEF LoopInv, MusicInv, TimeInv, KeyboardTypes, LoopTypeOK

\* What a step of the loop does to the music and to the time.
LEMMA StepEffects ==
  ASSUME [LoopNext]_loopvars
  PROVE  /\ GameCall \/ (\E h \in Channel : End(h)) \/ bass_music_keepalive \/ UNCHANGED mkvars
         /\ (\E ticks \in Nat : Pass(ticks)) \/ FramePacer \/ UNCHANGED tvars
<1> USE TimeAssumption
<1>1. CASE Plays \/ TrackEnds \/ \E show \in BOOLEAN : ShowKeyboard(show)
  BY <1>1 DEF Plays, TrackEnds, ShowKeyboard
<1>2. CASE appletMainLoop \/ feed_pointer \/ bass_pump \/ FramePacer
  BY <1>2 DEF appletMainLoop, feed_pointer, bass_pump, FramePacer
<1>3. CASE handle_keyboard
  BY <1>3 DEF handle_keyboard
<1>4. CASE nativeRender
  BY <1>4 DEF nativeRender
<1>5. CASE UNCHANGED loopvars
  BY <1>5 DEF loopvars
<1> QED BY <1>1, <1>2, <1>3, <1>4, <1>5 DEF LoopNext, Loop

\* Every step keeps the loop at one of its places.
LEMMA StepKeepsTypes ==
  ASSUME KeyboardTypes, [LoopNext]_loopvars
  PROVE  KeyboardTypes'
<1> USE DEF KeyboardTypes, kvars, Turn
<1>1. CASE Plays \/ TrackEnds
  BY <1>1 DEF Plays, TrackEnds
<1>2. ASSUME NEW show \in BOOLEAN, ShowKeyboard(show) PROVE KeyboardTypes'
  BY <1>2 DEF ShowKeyboard
<1>3. CASE appletMainLoop \/ feed_pointer \/ bass_pump \/ nativeRender \/ FramePacer
  BY <1>3 DEF appletMainLoop, feed_pointer, bass_pump, nativeRender, FramePacer
<1>4. CASE handle_keyboard
  BY <1>4 DEF handle_keyboard
<1>5. CASE UNCHANGED loopvars
  BY <1>5 DEF loopvars
<1> QED BY <1>1, <1>2, <1>3, <1>4, <1>5 DEF LoopNext, Loop

\* The invariant holds in every state of the loop.
THEOREM LoopInvariant == LoopSpec => []LoopInv
<1>1. LoopInit => LoopInv
  <2> SUFFICES ASSUME LoopInit PROVE LoopInv
    OBVIOUS
  <2>1. MusicInv
    BY DEF LoopInit, Init, MusicInv, TypeOK, Remembered, OnlyWhatWasPlayed
  <2>2. TimeInv
    BY TimeAssumption DEF LoopInit, TimeInv, NoRacing, Slack
  <2>3. KeyboardTypes
    BY DEF LoopInit, KeyboardTypes
  <2> QED BY <2>1, <2>2, <2>3, InvParts
<1>2. LoopInv /\ [LoopNext]_loopvars => LoopInv'
  <2> SUFFICES ASSUME LoopInv, [LoopNext]_loopvars PROVE LoopInv'
    OBVIOUS
  <2>1. MusicInv /\ TimeInv /\ KeyboardTypes
    BY InvParts
  <2>2. MusicInv'
    BY <2>1, StepEffects, MusicStep
  <2>3. TimeInv'
    <3>1. CASE UNCHANGED tvars
      BY <2>1, <3>1 DEF tvars, TimeInv, NoRacing, Slack
    <3> QED BY <2>1, <3>1, StepEffects, PassKeepsTime, PacerKeepsTime
  <2>4. KeyboardTypes'
    BY <2>1, StepKeepsTypes
  <2> QED BY <2>2, <2>3, <2>4 DEF LoopInv, MusicInv, TimeInv, KeyboardTypes, LoopTypeOK
<1> QED BY <1>1, <1>2, PTL DEF LoopSpec

\* The variables of the loop keep their types.
THEOREM LoopTypes == LoopSpec => []LoopTypeOK
<1>1. LoopInv => LoopTypeOK
  BY DEF LoopInv
<1> QED BY LoopInvariant, <1>1, PTL

\* The loop never starts a channel that the game did not play.
THEOREM KeepaliveIsHonest == LoopSpec => []OnlyWhatWasPlayed
<1>1. LoopInv => OnlyWhatWasPlayed
  BY DEF LoopInv
<1> QED BY LoopInvariant, <1>1, PTL

\* Two frames in a row take the time of one at least, however late frames are.
THEOREM PacerDoesNotRace == LoopSpec => []NoRacing
<1>1. LoopInv => NoRacing
  BY DEF LoopInv
<1> QED BY LoopInvariant, <1>1, PTL

-------------------------------------------------------------------------------
(* The loader. *)

Calls == {"load", "relocate", "resolve", "entry", "finalize", "flush", "init", "free"} \X Lib

\* How many calls of load_two_modules are left.
Left == Len(todo)

\* They are the last ones, in their order; after a fatal error none.
InOrder ==
    /\ todo \in Seq(Calls) /\ Left \in 0..15
    /\ \A i \in 1..Left : todo[i] = load_two_modules[15 - Left + i]

\* What the k-th call from the end has done stays done: later calls, and the
\* constructors if there are any, find it so.
Past(k) == (Left \in 1..(k - 1)) \/ ran # <<>>

\* How many are left when it is a call's turn.
TurnOf(call, l) ==
    CASE call = "load"     -> IF l = "bass" THEN 15 ELSE 14
      [] call = "relocate" -> IF l = "bass" THEN 13 ELSE 12
      [] call = "resolve"  -> IF l = "bass" THEN 11 ELSE 10
      [] call = "entry"    -> 9
      [] call = "finalize" -> IF l = "bass" THEN 8 ELSE 7
      [] call = "flush"    -> IF l = "bass" THEN 6 ELSE 5
      [] call = "init"     -> IF l = "bass" THEN 4 ELSE 3
      [] call = "free"     -> IF l = "bass" THEN 2 ELSE 1

\* Each call comes once, at its turn.
LEMMA OrderIs ==
  ASSUME NEW call, NEW l, NEW k \in 1..15, load_two_modules[k] = <<call, l>>
  PROVE  16 - k = TurnOf(call, l)
<1>1. /\ load_two_modules[1] = <<"load", "bass">>
      /\ load_two_modules[2] = <<"load", "game">>
      /\ load_two_modules[3] = <<"relocate", "bass">>
      /\ load_two_modules[4] = <<"relocate", "game">>
      /\ load_two_modules[5] = <<"resolve", "bass">>
  BY DEF load_two_modules
<1>2. /\ load_two_modules[6] = <<"resolve", "game">>
      /\ load_two_modules[7] = <<"entry", "game">>
      /\ load_two_modules[8] = <<"finalize", "bass">>
      /\ load_two_modules[9] = <<"finalize", "game">>
      /\ load_two_modules[10] = <<"flush", "bass">>
  BY DEF load_two_modules
<1>3. /\ load_two_modules[11] = <<"flush", "game">>
      /\ load_two_modules[12] = <<"init", "bass">>
      /\ load_two_modules[13] = <<"init", "game">>
      /\ load_two_modules[14] = <<"free", "bass">>
      /\ load_two_modules[15] = <<"free", "game">>
  BY DEF load_two_modules
<1>4. CASE k \in 1..5
  <2>1. k = 1 \/ k = 2 \/ k = 3 \/ k = 4 \/ k = 5
    BY <1>4
  <2> QED BY <1>1, <2>1 DEF TurnOf
<1>5. CASE k \in 6..10
  <2>1. k = 6 \/ k = 7 \/ k = 8 \/ k = 9 \/ k = 10
    BY <1>5
  <2> QED BY <1>2, <2>1 DEF TurnOf
<1>6. CASE k \in 11..15
  <2>1. k = 11 \/ k = 12 \/ k = 13 \/ k = 14 \/ k = 15
    BY <1>6
  <2> QED BY <1>3, <2>1 DEF TurnOf
<1> QED BY <1>4, <1>5, <1>6

\* A call is made at its turn, and one is left less.
LEMMA OneCallLess ==
  ASSUME InOrder, NEW call, NEW l \in Lib, Doing(call, l)
  PROVE  Left = TurnOf(call, l) /\ Left' = Left - 1 /\ InOrder'
<1>1. todo # <<>> /\ Head(todo) = <<call, l>> /\ todo' = Tail(todo)
  BY DEF Doing
<1>2. /\ todo \in Seq(Calls) /\ Left \in 1..15 /\ todo[1] = <<call, l>>
      /\ todo' \in Seq(Calls) /\ Len(todo') = Left - 1
      /\ \A i \in 1..Len(todo') : todo'[i] = todo[i + 1]
  <2>1. todo \in Seq(Calls) /\ Len(todo) \in 1..15 /\ todo[1] = <<call, l>>
    BY <1>1 DEF InOrder, Left
  <2>2. Tail(todo) \in Seq(Calls) /\ Len(Tail(todo)) = Len(todo) - 1
    BY <1>1, <2>1
  <2>3. \A i \in 1..Len(Tail(todo)) : Tail(todo)[i] = todo[i + 1]
    BY <1>1, <2>1
  <2> QED BY <1>1, <2>1, <2>2, <2>3 DEF Left
<1>3. Left' = Left - 1 /\ Left' \in 0..15
  <2>1. Left' = Len(todo')
    BY DEF Left
  <2> QED BY <1>2, <2>1
<1>4. InOrder'
  <2>1. ASSUME NEW i \in 1..Left' PROVE todo'[i] = load_two_modules[15 - Left' + i]
    <3>1. i + 1 \in 1..Left /\ 15 - Left' + i = 15 - Left + (i + 1)
      BY <1>2, <1>3
    <3>2. todo'[i] = todo[i + 1]
      BY <1>2, <2>1 DEF Left
    <3> QED BY <3>1, <3>2 DEF InOrder
  <2> QED BY <1>2, <1>3, <2>1 DEF InOrder
<1>5. <<call, l>> = load_two_modules[16 - Left]
  <2>1. todo[1] = load_two_modules[15 - Left + 1]
    BY <1>2 DEF InOrder
  <2>2. 15 - Left + 1 = 16 - Left
    BY <1>2
  <2> QED BY <1>2, <2>1, <2>2
<1>6. \A k \in 1..15 : load_two_modules[k] = <<call, l>> => 16 - k = TurnOf(call, l)
  BY OrderIs
<1>7. 16 - Left \in 1..15 /\ 16 - (16 - Left) = Left
  BY <1>2
<1>8. Left = TurnOf(call, l)
  BY <1>5, <1>6, <1>7
<1> QED BY <1>3, <1>4, <1>8

\* ALIGN_MEM gives whole pages.
LEMMA Rounds ==
  ASSUME NEW n \in Nat
  PROVE  /\ Align(n) \in Nat /\ n <= Align(n)
         /\ Align(n) \div Page \in Nat /\ Align(n) = (Align(n) \div Page) * Page
<1> DEFINE q == (n + Page - 1) \div Page
<1>1. Page \in Nat \ {0}
  BY PageAssumption
<1>2. q \in Nat /\ q * Page \in Nat /\ q * Page <= n + Page - 1 /\ n + Page - 1 < q * Page + Page
  BY <1>1
<1>3. Align(n) = q * Page
  BY DEF Align
<1> HIDE DEF q
<1>4. (q * Page) \div Page = q
  BY <1>1, <1>2
<1>5. n <= q * Page
  BY <1>1, <1>2
<1> QED BY <1>2, <1>3, <1>4, <1>5

\* The zone is a whole number of pages: what begins in it is aligned in it.
LEMMA AlignsIn == ASSUME NEW n \in Nat, n <= ZoneSize PROVE Align(n) <= ZoneSize
<1> DEFINE q == Align(n) \div Page
           k == ZoneSize \div Page
<1>1. Page \in Nat \ {0} /\ ZoneSize \in Nat
  BY PageAssumption
<1>2. k \in Nat /\ ZoneSize = k * Page
  BY <1>1, PageAssumption
<1>3. q \in Nat /\ Align(n) = q * Page
  BY Rounds
<1>4. Align(n) <= n + Page - 1
  <2>1. ((n + Page - 1) \div Page) * Page <= n + Page - 1
    BY <1>1
  <2> QED BY <2>1 DEF Align
<1> HIDE DEF q, k
<1>5. q <= k
  <2>1. SUFFICES ASSUME k < q PROVE FALSE
    BY <1>2, <1>3
  <2>2. (k + 1) * Page <= q * Page
    BY <1>1, <1>2, <1>3, <2>1
  <2>3. (k + 1) * Page = k * Page + Page
    BY <1>1, <1>2
  <2>4. k * Page \in Nat /\ q * Page \in Nat
    BY <1>1, <1>2, <1>3
  <2> QED BY <1>1, <1>2, <1>3, <1>4, <2>2, <2>3, <2>4
<1>6. q * Page <= k * Page
  BY <1>1, <1>2, <1>3, <1>5
<1> QED BY <1>2, <1>3, <1>6

\* What lies before the end of q pages lies in one of them.
LEMMA PageBelow ==
  ASSUME NEW u \in Nat, NEW q \in Nat, u < q * Page
  PROVE  u \div Page \in 0..(q - 1)
<1> DEFINE k == u \div Page
<1>1. Page \in Nat \ {0}
  BY PageAssumption
<1>2. k \in Nat /\ k * Page <= u
  BY <1>1
<1> HIDE DEF k
<1>3. k < q
  <2>1. SUFFICES ASSUME q <= k PROVE FALSE
    BY <1>2
  <2>2. q * Page <= k * Page
    BY <1>1, <1>2, <2>1
  <2> QED BY <1>1, <1>2, <2>2
<1> QED BY <1>2, <1>3 DEF k

\* The page of a unit.
LEMMA PageOf ==
  ASSUME NEW a \in Nat, NEW u \in Nat, NEW b \in Nat, a <= u, u < b
  PROVE  u \div Page \in (a \div Page)..(Align(b) \div Page - 1)
<1> DEFINE k == u \div Page
           m == a \div Page
           q == Align(b) \div Page
<1>1. Page \in Nat \ {0}
  BY PageAssumption
<1>2. k \in Nat /\ k * Page <= u /\ u < k * Page + Page
  BY <1>1
<1>3. m \in Nat /\ m * Page <= a /\ a < m * Page + Page
  BY <1>1
<1>4. q \in Nat /\ u < q * Page
  BY <1>1, Rounds
<1> HIDE DEF k, m, q
<1>5. m <= k
  <2>1. SUFFICES ASSUME k < m PROVE FALSE
    BY <1>2, <1>3
  <2>2. k + 1 <= m
    BY <1>2, <1>3, <2>1
  <2>3. (k + 1) * Page <= m * Page
    BY <1>1, <1>2, <1>3, <2>2
  <2>4. (k + 1) * Page = k * Page + Page
    BY <1>1, <1>2
  <2> QED BY <1>1, <1>2, <1>3, <2>3, <2>4
<1>6. k < q
  BY <1>4, PageBelow DEF k
<1> QED BY <1>2, <1>3, <1>4, <1>5, <1>6 DEF k, m, q

-------------------------------------------------------------------------------
\* The other library.
Other(l) == IF l = "bass" THEN "game" ELSE "bass"

\* What so_resolve binds an import to when both libraries are loaded.
Binding(l, n) ==
    IF n \in ImportTable THEN Native(n)
    ELSE IF n \in image[Other(l)].defined THEN At(Other(l), n) ELSE Tainted

\* The functions of the state have a value for each library.
PerLib ==
    /\ \A l \in Lib : image[l] \in Images[l]
    /\ got = [l \in Lib |-> got[l]] /\ code = [l \in Lib |-> code[l]]
    /\ zone \in [Lib -> [from : Nat, to : Nat]]

\* Memory is there as long as a call is left that reads it.
Memory ==
    /\ faults = {}
    /\ Left >= 8 => locked = {}
    /\ Left \in 3..14 => "bass" \in temp
    /\ Left \in 3..13 => "game" \in temp
    /\ ran # <<>> => Left <= 3

Loaded ==
    /\ so_list \in Seq(Lib)
    /\ Left = 15 => Len(so_list) = 0
    /\ Left = 14 => Len(so_list) = 1 /\ so_list[1] = "bass"
    /\ Left \in 1..13 => Len(so_list) = 2 /\ so_list[1] = "bass" /\ so_list[2] = "game"

Zones ==
    /\ zone["bass"].from = 0 /\ zone["bass"].to <= ZoneSize
    /\ Left = 15 => zone["game"] = NoZone
    /\ zone["game"] = NoZone \/ (zone["bass"].to <= zone["game"].from /\ zone["game"].to <= ZoneSize)

Bindings == \A l \in Lib : \A s \in Slots(l) :
    /\ Past(TurnOf("relocate", l)) /\ s[2] \in image[l].defined => got[l][s] = At(l, s[2])
    /\ Past(TurnOf("resolve", l)) /\ s[2] \in image[l].imported => got[l][s] = Binding(l, s[2])

Permissions == \A l \in Lib : Past(TurnOf("finalize", l)) =>
    code[l] = [p \in Pages(l) |-> IF is_x_page(l, p) THEN "rx" ELSE "rw"]

LoaderInv == InOrder /\ PerLib /\ Memory /\ Loaded /\ Zones /\ Bindings /\ Permissions

\* What one call more makes past is what was, and that call.
LEMMA PastBefore ==
  ASSUME InOrder, Left' = Left - 1, ran' = ran, NEW k \in 1..15, Past(k)'
  PROVE  Past(k) \/ Left = k
<1>1. Left \in 0..15
  BY DEF InOrder
<1>2. CASE ran # <<>>
  BY <1>2 DEF Past
<1>3. CASE ran = <<>>
  <2>1. Left' \in 1..(k - 1)
    BY <1>3 DEF Past
  <2> QED BY <1>1, <2>1 DEF Past
<1> QED BY <1>2, <1>3

LEMMA TurnRange ==
  \A l \in Lib : /\ TurnOf("relocate", l) \in {12, 13} /\ TurnOf("resolve", l) \in {10, 11}
                 /\ TurnOf("finalize", l) \in {7, 8}
  BY DEF TurnOf, Lib

LEMMA BindingsRest ==
  ASSUME LoaderInv, UNCHANGED <<image, got>>,
         \A l \in Lib : \A k \in {TurnOf("relocate", l), TurnOf("resolve", l)} : Past(k)' => Past(k)
  PROVE  Bindings'
  BY DEF LoaderInv, Bindings, Binding, Slots, Symbols

LEMMA SameImage ==
  ASSUME image' = image
  PROVE  \A l \in Lib : Pages(l)' = Pages(l) /\ \A p : is_x_page(l, p)' <=> is_x_page(l, p)
<1>1. \A l \in Lib : SegmentEnds(l)' = SegmentEnds(l)
  BY DEF SegmentEnds
<1>2. \A l \in Lib : Pages(l)' = Pages(l)
  BY <1>1, Zenon DEF Pages, load_size
<1>3. \A l \in Lib : \A p : is_x_page(l, p)' <=> is_x_page(l, p)
  BY DEF is_x_page
<1> QED BY <1>2, <1>3

LEMMA PermissionsRest ==
  ASSUME LoaderInv, UNCHANGED <<image, code>>,
         \A l \in Lib : Past(TurnOf("finalize", l))' => Past(TurnOf("finalize", l))
  PROVE  Permissions'
<1>2. \A l \in Lib : Pages(l)' = Pages(l) /\ \A p : is_x_page(l, p)' <=> is_x_page(l, p)
  BY SameImage
<1>4. ASSUME NEW l \in Lib, Past(TurnOf("finalize", l))'
      PROVE  code'[l] = [p \in Pages(l)' |-> IF is_x_page(l, p)' THEN "rx" ELSE "rw"]
  <2>1. code[l] = [p \in Pages(l) |-> IF is_x_page(l, p) THEN "rx" ELSE "rw"]
    BY <1>4 DEF LoaderInv, Permissions
  <2>2. [p \in Pages(l)' |-> IF is_x_page(l, p)' THEN "rx" ELSE "rw"]
          = [p \in Pages(l) |-> IF is_x_page(l, p) THEN "rx" ELSE "rw"]
    BY <1>2
  <2> QED BY <2>1, <2>2
<1> QED BY <1>2, <1>4 DEF Permissions

\* A call at no turn of relocate, resolve or finalize leaves what is past.
LEMMA OthersRest ==
  ASSUME LoaderInv, UNCHANGED <<image, got, code>>, Left' = Left - 1, ran' = ran,
         Left \notin {7, 8, 10, 11, 12, 13}
  PROVE  Bindings' /\ Permissions'
<1>1. \A k \in {7, 8, 10, 11, 12, 13} : Past(k)' => Past(k)
  BY PastBefore DEF LoaderInv
<1> QED BY <1>1, TurnRange, BindingsRest, PermissionsRest

LEMMA LoadSize ==
  ASSUME PerLib, NEW l \in Lib
  PROVE  /\ load_size(l) \in Nat /\ \A s \in image[l].segs : s.to <= load_size(l) /\ s.to \in Nat
         /\ load_size(l) \div Page \in Nat /\ load_size(l) = (load_size(l) \div Page) * Page
<1> DEFINE E == SegmentEnds(l)
           n == CHOOSE n \in E : \A m \in E : m <= n
<1>1. \E s \in image[l].segs : \A r \in image[l].segs : r.to <= s.to
  BY ImageAssumption DEF PerLib
<1>2. \E k \in E : \A m \in E : m <= k
  BY <1>1 DEF SegmentEnds
<1>3. n \in E /\ \A m \in E : m <= n
  <2> HIDE DEF E
  <2> QED BY <1>2
<1>4. \A s \in image[l].segs : s.to \in Nat /\ s.to <= n
  BY <1>3, ImageAssumption DEF PerLib, SegmentEnds
<1>5. n \in Nat
  BY <1>3, ImageAssumption DEF PerLib, SegmentEnds
<1>6. load_size(l) = Align(n)
  BY DEF load_size
<1> HIDE DEF n
<1>7. /\ Align(n) \in Nat /\ n <= Align(n)
      /\ Align(n) \div Page \in Nat /\ Align(n) = (Align(n) \div Page) * Page
  BY <1>5, Rounds
<1> QED BY <1>4, <1>5, <1>6, <1>7

LEMMA LoadKept == ASSUME LoaderInv, NEW l \in Lib, so_load(l) PROVE LoaderInv'
<1>1. Left = TurnOf("load", l) /\ Left' = Left - 1 /\ InOrder'
  BY OneCallLess DEF so_load, LoaderInv
<1>2. Left = (IF l = "bass" THEN 15 ELSE 14) /\ Left' = (IF l = "bass" THEN 14 ELSE 13)
  BY <1>1 DEF TurnOf
<1>3. l = "bass" \/ l = "game"
  BY DEF Lib
<1>4. /\ UNCHANGED <<image, code, locked, ran, faults>>
      /\ so_list' = Append(so_list, l) /\ temp' = temp \cup {l}
      /\ got' = [got EXCEPT ![l] = [s \in Slots(l) |-> Addend]]
      /\ zone' = [zone EXCEPT ![l] = [from |-> base(l), to |-> base(l) + load_size(l)]]
      /\ load_size(l) <= avail(l)
  BY DEF so_load
<1>5. Memory'
  BY <1>2, <1>3, <1>4 DEF LoaderInv, Memory
<1>6. Loaded'
  <2>1. /\ so_list \in Seq(Lib) /\ so_list' = Append(so_list, l)
        /\ so_list' \in Seq(Lib) /\ Len(so_list') = Len(so_list) + 1
        /\ so_list'[Len(so_list) + 1] = l
        /\ \A i \in 1..Len(so_list) : so_list'[i] = so_list[i]
    BY <1>4 DEF LoaderInv, Loaded
  <2> QED BY <1>2, <1>3, <2>1 DEF LoaderInv, Loaded
<1>7. load_size(l) \in Nat
  BY LoadSize DEF LoaderInv
<1>8. PICK size \in Nat, b \in Int, z \in Int :
        size = load_size(l) /\ b = base(l) /\ z = zone["bass"].to /\ 0 <= z /\ z <= ZoneSize
  <2>1. zone["bass"].to \in Nat /\ zone["bass"].to <= ZoneSize
    BY DEF LoaderInv, PerLib, Zones, Lib
  <2>2. base(l) \in Int
    BY <2>1, Rounds DEF base
  <2> QED BY <1>7, <2>1, <2>2
<1>9. b \in Nat /\ IF l = "bass" THEN b = 0 ELSE z <= b
  BY <1>8, Rounds DEF base
<1>10. b + size <= ZoneSize
  <2>1. size <= (IF ZoneSize > b THEN ZoneSize - b ELSE 0)
    BY <1>4, <1>8 DEF avail
  <2>2. CASE l = "bass"
    BY <1>9, <2>1, <2>2, PageAssumption
  <2>3. CASE l # "bass"
    <3>1. b <= ZoneSize
      BY <1>8, <2>3, AlignsIn DEF base
    <3> QED BY <1>8, <1>9, <2>1, <2>3, <3>1, PageAssumption
  <2> QED BY <2>2, <2>3
<1>11. zone' = [zone EXCEPT ![l] = [from |-> b, to |-> b + size]]
  BY <1>4, <1>8
<1>12. zone' \in [Lib -> [from : Nat, to : Nat]]
  BY <1>8, <1>9, <1>11 DEF LoaderInv, PerLib
<1>13. Zones'
  <2>1. CASE l = "bass"
    <3>1. zone'["bass"].from = 0 /\ zone'["bass"].to <= ZoneSize /\ zone'["game"] = NoZone
      BY <1>2, <1>8, <1>9, <1>10, <1>11, <2>1 DEF LoaderInv, PerLib, Zones, Lib
    <3> QED BY <1>2, <2>1, <3>1 DEF Zones
  <2>2. CASE l = "game"
    <3>1. zone'["bass"] = zone["bass"] /\ zone'["game"].from = b /\ zone'["game"].to = b + size
      BY <1>11, <2>2 DEF LoaderInv, PerLib, Lib
    <3>2. z <= b /\ Left' = 13
      BY <1>2, <1>9, <2>2
    <3> QED BY <1>8, <1>10, <3>1, <3>2 DEF LoaderInv, Zones
  <2> QED BY <1>3, <2>1, <2>2
<1>14. PerLib'
  BY <1>4, <1>12 DEF LoaderInv, PerLib
<1>15. \A k \in {7, 8, 10, 11, 12, 13} : Past(k)' => Past(k)
  BY <1>1, <1>2, <1>4, PastBefore DEF LoaderInv
<1>16. Permissions'
  BY <1>4, <1>15, TurnRange, PermissionsRest
<1>17. ran = <<>> /\ \A k \in {10, 11, 12, 13} : ~Past(k)'
  BY <1>2, <1>3, <1>4 DEF LoaderInv, Memory, Past
<1>18. Bindings'
  BY <1>17, TurnRange DEF Bindings
<1> QED BY <1>1, <1>5, <1>6, <1>13, <1>14, <1>16, <1>18 DEF LoaderInv

LEMMA RelocateKept == ASSUME LoaderInv, NEW l \in Lib, so_relocate(l) PROVE LoaderInv'
<1>1. Left = TurnOf("relocate", l) /\ Left' = Left - 1 /\ InOrder'
  BY OneCallLess DEF so_relocate, LoaderInv
<1>2. Left = (IF l = "bass" THEN 13 ELSE 12) /\ Left' = (IF l = "bass" THEN 12 ELSE 11)
  BY <1>1 DEF TurnOf
<1>3. l = "bass" \/ l = "game"
  BY DEF Lib
<1>4. /\ UNCHANGED <<image, zone, so_list, code, locked, temp, ran>>
      /\ got' = [got EXCEPT ![l] =
                    [s \in Slots(l) |-> IF s[2] \in image[l].defined THEN At(l, s[2]) ELSE @[s]]]
      /\ faults' = faults \cup Reads({l}) \cup Temps({l})
  BY DEF so_relocate
<1>5. Memory'
  <2>1. Reads({l}) = {} /\ Temps({l}) = {}
    BY <1>2, <1>3 DEF LoaderInv, Memory, Reads, Temps
  <2>2. faults' = {}
    BY <1>4, <2>1 DEF LoaderInv, Memory
  <2>3. UNCHANGED <<locked, temp, ran>>
    BY <1>4
  <2> QED BY <1>2, <1>3, <2>2, <2>3 DEF LoaderInv, Memory
<1>6. PerLib' /\ Loaded' /\ Zones'
  <2>1. Loaded'
    BY <1>2, <1>3, <1>4 DEF LoaderInv, Loaded
  <2>2. Zones'
    BY <1>2, <1>3, <1>4 DEF LoaderInv, Zones
  <2>3. PerLib'
    BY <1>4 DEF LoaderInv, PerLib
  <2> QED BY <2>1, <2>2, <2>3
<1>7. \A k \in {7, 8, 10, 11, 12, 13} : Past(k)' => Past(k) \/ k = Left
  BY <1>1, <1>2, <1>4, PastBefore DEF LoaderInv
<1>8. Permissions'
  BY <1>2, <1>3, <1>4, <1>7, TurnRange, PermissionsRest
<1>9. ran = <<>> /\ \A k \in {10, 11} : ~Past(k)'
  BY <1>2, <1>3, <1>4 DEF LoaderInv, Memory, Past
<1>10. Bindings'
  <2>1. \A m \in Lib : Slots(m)' = Slots(m)
    BY <1>4 DEF Slots, Symbols
  <2>2. ASSUME NEW m \in Lib, NEW s \in Slots(m), Past(TurnOf("relocate", m))', s[2] \in image[m].defined
        PROVE  got'[m][s] = At(m, s[2])
    <3>1. CASE m = l
      BY <1>4, <2>2, <3>1 DEF LoaderInv, PerLib
    <3>2. CASE m # l
      <4>1. Past(TurnOf("relocate", m))
        BY <1>1, <1>3, <1>7, <2>2, <3>2, TurnRange DEF TurnOf, Lib
      <4>2. got'[m] = got[m]
        BY <1>4, <3>2 DEF LoaderInv, PerLib
      <4> QED BY <2>2, <4>1, <4>2 DEF LoaderInv, Bindings
    <3> QED BY <3>1, <3>2
  <2>3. \A m \in Lib : ~Past(TurnOf("resolve", m))'
    BY <1>9, TurnRange
  <2> QED BY <1>4, <2>1, <2>2, <2>3 DEF Bindings
<1> QED BY <1>1, <1>5, <1>6, <1>8, <1>10 DEF LoaderInv

\* With both libraries on the list an import has one exporter at most.
LEMMA ResolvesTo ==
  ASSUME so_list \in Seq(Lib), Len(so_list) = 2, so_list[1] = "bass", so_list[2] = "game",
         NEW l \in Lib, NEW n
  PROVE  so_resolve_symbol(l, n) = Binding(l, n)
<1> DEFINE k == IF l = "bass" THEN 2 ELSE 1
<1>1. DOMAIN so_list = 1..2
  OBVIOUS
<1>2. k \in DOMAIN so_list /\ so_list[k] = Other(l)
  BY <1>1 DEF Other
<1>3. \A i \in DOMAIN so_list : so_list[i] # l => i = k
  BY <1>1 DEF Lib
<1>4. Other(l) # l
  BY DEF Other
<1> HIDE DEF k
<1>5. CASE n \in image[Other(l)].defined
  <2>1. Exporters(l, n) = {k}
    BY <1>2, <1>3, <1>4, <1>5 DEF Exporters
  <2>2. k \in Int
    BY <1>1, <1>2
  <2>3. First(Exporters(l, n)) = k
    BY <2>1, <2>2 DEF First
  <2> QED BY <1>2, <1>5, <2>1, <2>3 DEF so_resolve_symbol, Binding
<1>6. CASE n \notin image[Other(l)].defined
  <2>1. Exporters(l, n) = {}
    BY <1>2, <1>3, <1>6 DEF Exporters
  <2> QED BY <1>6, <2>1 DEF so_resolve_symbol, Binding
<1> QED BY <1>5, <1>6

LEMMA ResolveKept == ASSUME LoaderInv, NEW l \in Lib, so_resolve(l) PROVE LoaderInv'
<1>1. Left = TurnOf("resolve", l) /\ Left' = Left - 1 /\ InOrder'
  BY OneCallLess DEF so_resolve, LoaderInv
<1>2. Left = (IF l = "bass" THEN 11 ELSE 10) /\ Left' = (IF l = "bass" THEN 10 ELSE 9)
  BY <1>1 DEF TurnOf
<1>3. l = "bass" \/ l = "game"
  BY DEF Lib
<1>4. /\ UNCHANGED <<image, zone, so_list, code, locked, temp, ran>>
      /\ faults' = faults \cup Reads(Searched(l)) \cup Temps({l})
  BY DEF so_resolve
<1>5. got' = [got EXCEPT ![l] =
                [s \in Slots(l) |-> IF s[2] \in image[l].imported
                                      THEN so_resolve_symbol(l, s[2]) ELSE @[s]]]
  BY DEF so_resolve
<1>6. Memory'
  <2>1. Reads(Searched(l)) = {} /\ Temps({l}) = {}
    BY <1>2, <1>3 DEF LoaderInv, Memory, Reads, Temps
  <2>2. faults' = {}
    BY <1>4, <2>1 DEF LoaderInv, Memory
  <2>3. UNCHANGED <<locked, temp, ran>>
    BY <1>4
  <2> QED BY <1>2, <1>3, <2>2, <2>3 DEF LoaderInv, Memory
<1>7. PerLib' /\ Loaded' /\ Zones'
  <2>1. Loaded'
    BY <1>2, <1>3, <1>4 DEF LoaderInv, Loaded
  <2>2. Zones'
    BY <1>2, <1>3, <1>4 DEF LoaderInv, Zones
  <2>3. PerLib'
    BY <1>4, <1>5 DEF LoaderInv, PerLib
  <2> QED BY <2>1, <2>2, <2>3
<1>8. \A k \in {7, 8, 10, 11, 12, 13} : Past(k)' => Past(k) \/ k = Left
  BY <1>1, <1>2, <1>4, PastBefore DEF LoaderInv
<1>9. Permissions'
  BY <1>2, <1>3, <1>4, <1>8, TurnRange, PermissionsRest
<1>10. Bindings'
  <2>1. \A m \in Lib : Slots(m)' = Slots(m)
    BY <1>4 DEF Slots, Symbols
  <2>2. \A m \in Lib : \A n : Binding(m, n)' = Binding(m, n)
    BY <1>4 DEF Binding
  <2>3. \A s \in Slots(l) : got'[l][s] = IF s[2] \in image[l].imported THEN Binding(l, s[2]) ELSE got[l][s]
    <3>1. \A n : so_resolve_symbol(l, n) = Binding(l, n)
      <4>1. Left \in 1..13
        BY <1>2
      <4> QED BY <4>1, ResolvesTo DEF LoaderInv, Loaded
    <3> QED BY <1>5, <3>1 DEF LoaderInv, PerLib
  <2>4. \A m \in Lib \ {l} : got'[m] = got[m]
    BY <1>5 DEF LoaderInv, PerLib
  <2>5. ASSUME NEW m \in Lib, NEW s \in Slots(m), Past(TurnOf("relocate", m))', s[2] \in image[m].defined
        PROVE  got'[m][s] = At(m, s[2])
    <3>1. Past(TurnOf("relocate", m))
      BY <1>2, <1>8, <2>5, TurnRange
    <3>2. got[m][s] = At(m, s[2])
      BY <2>5, <3>1 DEF LoaderInv, Bindings
    <3>3. s[2] \notin image[m].imported
      BY <2>5, ImageAssumption DEF LoaderInv, PerLib
    <3> QED BY <2>3, <2>4, <3>2, <3>3
  <2>6. ASSUME NEW m \in Lib, NEW s \in Slots(m), Past(TurnOf("resolve", m))', s[2] \in image[m].imported
        PROVE  got'[m][s] = Binding(m, s[2])
    <3>1. CASE m = l
      BY <2>3, <2>6, <3>1
    <3>2. CASE m # l
      <4>1. Past(TurnOf("resolve", m))
        BY <1>1, <1>3, <1>8, <2>6, <3>2, TurnRange DEF TurnOf, Lib
      <4> QED BY <2>4, <2>6, <3>2, <4>1 DEF LoaderInv, Bindings
    <3> QED BY <3>1, <3>2
  <2> QED BY <1>4, <2>1, <2>2, <2>5, <2>6 DEF Bindings
<1> QED BY <1>1, <1>6, <1>7, <1>9, <1>10 DEF LoaderInv

LEMMA FinalizeKept == ASSUME LoaderInv, NEW l \in Lib, so_finalize(l) PROVE LoaderInv'
<1>1. Left = TurnOf("finalize", l) /\ Left' = Left - 1 /\ InOrder'
  BY OneCallLess DEF so_finalize, LoaderInv
<1>2. Left = (IF l = "bass" THEN 8 ELSE 7) /\ Left' = (IF l = "bass" THEN 7 ELSE 6)
  BY <1>1 DEF TurnOf
<1>3. l = "bass" \/ l = "game"
  BY DEF Lib
<1>4. UNCHANGED <<image, zone, so_list, got, temp, ran, faults>>
  BY DEF so_finalize
<1>5. code' = [code EXCEPT ![l] = [p \in Pages(l) |-> IF is_x_page(l, p) THEN "rx" ELSE "rw"]]
  BY DEF so_finalize
<1>6. Memory'
  BY <1>2, <1>3, <1>4 DEF LoaderInv, Memory
<1>7. PerLib' /\ Loaded' /\ Zones'
  <2>1. Loaded'
    BY <1>2, <1>3, <1>4 DEF LoaderInv, Loaded
  <2>2. Zones'
    BY <1>2, <1>3, <1>4 DEF LoaderInv, Zones
  <2>3. PerLib'
    BY <1>4, <1>5 DEF LoaderInv, PerLib
  <2> QED BY <2>1, <2>2, <2>3
<1>8. \A k \in {7, 8, 10, 11, 12, 13} : Past(k)' => Past(k) \/ k = Left
  BY <1>1, <1>2, <1>4, PastBefore DEF LoaderInv
<1>9. Bindings'
  BY <1>2, <1>3, <1>4, <1>8, TurnRange, BindingsRest
<1>10. Permissions'
  <2>1. ASSUME NEW m \in Lib, Past(TurnOf("finalize", m))'
        PROVE  code'[m] = [p \in Pages(m) |-> IF is_x_page(m, p) THEN "rx" ELSE "rw"]
    <3>1. CASE m = l
      BY <1>5, <3>1 DEF LoaderInv, PerLib
    <3>2. CASE m # l
      <4>1. Past(TurnOf("finalize", m))
        BY <1>1, <1>3, <1>8, <2>1, <3>2, TurnRange DEF TurnOf, Lib
      <4>2. code'[m] = code[m]
        BY <1>5, <3>2 DEF LoaderInv, PerLib
      <4> QED BY <4>1, <4>2 DEF LoaderInv, Permissions
    <3> QED BY <3>1, <3>2
  <2>2. \A m \in Lib : Pages(m)' = Pages(m) /\ \A p : is_x_page(m, p)' <=> is_x_page(m, p)
    BY <1>4, SameImage
  <2> QED BY <2>1, <2>2 DEF Permissions
<1> QED BY <1>1, <1>6, <1>7, <1>9, <1>10 DEF LoaderInv


\* A call that binds, maps and runs nothing.
LEMMA QuietKept ==
  ASSUME LoaderInv, InOrder', Left' = Left - 1, Left \in {1, 2, 5, 6, 9}, faults' = {},
         UNCHANGED <<image, zone, so_list, got, code, locked, ran>>, Left >= 4 => temp' = temp
  PROVE  LoaderInv'
<1>1. Memory' /\ Loaded' /\ Zones'
  BY DEF LoaderInv, Memory, Loaded, Zones
<1>2. PerLib'
  BY DEF LoaderInv, PerLib
<1>3. Bindings' /\ Permissions'
  BY OthersRest
<1> QED BY <1>1, <1>2, <1>3 DEF LoaderInv

LEMMA EntryKept == ASSUME LoaderInv, resolve_entry_points PROVE LoaderInv'
<1>1. Doing("entry", "game") /\ "game" \in Lib
  BY DEF resolve_entry_points, Lib
<1>2. Left = 9 /\ Left' = Left - 1 /\ InOrder'
  BY <1>1, OneCallLess DEF LoaderInv, TurnOf
<1>3. faults' = {}
  BY <1>2 DEF resolve_entry_points, so_try_find_addr_rx, Reads, LoaderInv, Memory
<1>4. UNCHANGED <<image, zone, so_list, got, code, locked, ran, temp>>
  BY DEF resolve_entry_points
<1> QED BY <1>2, <1>3, <1>4, QuietKept

LEMMA FlushKept == ASSUME LoaderInv, NEW l \in Lib, so_flush_caches(l) PROVE LoaderInv'
<1>1. Left = TurnOf("flush", l) /\ Left' = Left - 1 /\ InOrder'
  BY OneCallLess DEF so_flush_caches, LoaderInv
<1>2. Left \in {5, 6}
  BY <1>1 DEF TurnOf
<1>3. faults' = {} /\ UNCHANGED <<image, zone, so_list, got, code, locked, ran, temp>>
  BY DEF so_flush_caches, LoaderInv, Memory
<1> QED BY <1>1, <1>2, <1>3, QuietKept

LEMMA FreeKept == ASSUME LoaderInv, NEW l \in Lib, so_free_temp(l) PROVE LoaderInv'
<1>1. Left = TurnOf("free", l) /\ Left' = Left - 1 /\ InOrder'
  BY OneCallLess DEF so_free_temp, LoaderInv
<1>2. Left \in {1, 2}
  BY <1>1 DEF TurnOf
<1>3. faults' = {} /\ UNCHANGED <<image, zone, so_list, got, code, locked, ran>>
  BY DEF so_free_temp, LoaderInv, Memory
<1> QED BY <1>1, <1>2, <1>3, QuietKept

\* When constructors run, whatever the calls before them did is past.
LEMMA InitArrayKept == ASSUME LoaderInv, NEW l \in Lib, so_execute_init_array(l) PROVE LoaderInv'
<1>1. Left = TurnOf("init", l) /\ Left' = Left - 1 /\ InOrder'
  BY OneCallLess DEF so_execute_init_array, LoaderInv
<1>2. Left = (IF l = "bass" THEN 4 ELSE 3) /\ Left' = (IF l = "bass" THEN 3 ELSE 2)
  BY <1>1 DEF TurnOf
<1>3. l = "bass" \/ l = "game"
  BY DEF Lib
<1>4. UNCHANGED <<image, zone, so_list, got, code, locked, temp>> /\ faults' = faults \cup Temps({l})
  BY DEF so_execute_init_array
<1>5. Memory'
  <2>1. Temps({l}) = {}
    BY <1>2, <1>3 DEF LoaderInv, Memory, Temps
  <2>2. faults' = {}
    BY <1>4, <2>1 DEF LoaderInv, Memory
  <2>3. UNCHANGED <<locked, temp>>
    BY <1>4
  <2> QED BY <1>2, <1>3, <2>2, <2>3 DEF LoaderInv, Memory
<1>6. PerLib' /\ Loaded' /\ Zones'
  <2>1. Loaded'
    BY <1>2, <1>3, <1>4 DEF LoaderInv, Loaded
  <2>2. Zones'
    BY <1>2, <1>3, <1>4 DEF LoaderInv, Zones
  <2>3. PerLib'
    BY <1>4 DEF LoaderInv, PerLib
  <2> QED BY <2>1, <2>2, <2>3
<1>7. \A k \in {7, 8, 10, 11, 12, 13} : Past(k)
  BY <1>2, <1>3 DEF Past
<1>8. Bindings' /\ Permissions'
  BY <1>4, <1>7, TurnRange, BindingsRest, PermissionsRest
<1> QED BY <1>1, <1>5, <1>6, <1>8 DEF LoaderInv

\* The program ends before constructors run: nothing is past.
LEMMA FatalKept == ASSUME LoaderInv, fatal_error PROVE LoaderInv'
<1>1. todo' = <<>> /\ UNCHANGED <<image, zone, so_list, got, code, locked, temp, ran, faults>>
  BY DEF fatal_error
<1>2. Len(todo') = 0 /\ todo' \in Seq(Calls)
  BY <1>1
<1>3. Left' = 0
  BY <1>2 DEF Left
<1>4. InOrder'
  BY <1>2, <1>3 DEF InOrder
<1>5. Memory' /\ Loaded' /\ Zones'
  BY <1>1, <1>3 DEF LoaderInv, Memory, Loaded, Zones
<1>6. PerLib'
  BY <1>1 DEF LoaderInv, PerLib
<1>7. \A k \in {7, 8, 10, 11, 12, 13} : Past(k)' => Past(k)
  BY <1>1, <1>3 DEF Past
<1>8. Bindings' /\ Permissions'
  BY <1>1, <1>7, TurnRange, BindingsRest, PermissionsRest
<1> QED BY <1>4, <1>5, <1>6, <1>8 DEF LoaderInv

LEMMA LoaderStart == ASSUME LoaderInit PROVE LoaderInv
<1>1. todo \in Seq(Calls) /\ Left = 15
  BY DEF LoaderInit, load_two_modules, Calls, Lib, Left
<1>2. InOrder
  <2>1. \A i \in 1..15 : todo[i] = load_two_modules[15 - 15 + i]
    BY DEF LoaderInit
  <2> QED BY <1>1, <2>1 DEF InOrder
<1>3. ran = <<>> /\ \A k \in {7, 8, 10, 11, 12, 13} : ~Past(k)
  BY <1>1 DEF LoaderInit, Past
<1>4. Memory /\ Loaded /\ Zones
  <2>1. Memory
    BY <1>1 DEF LoaderInit, Memory
  <2>2. Loaded
    BY <1>1 DEF LoaderInit, Loaded
  <2>3. Zones
    BY <1>1, PageAssumption DEF LoaderInit, Zones, NoZone, Lib
  <2> QED BY <2>1, <2>2, <2>3
<1>5. PerLib
  BY DEF LoaderInit, PerLib, NoZone
<1>6. Bindings /\ Permissions
  BY <1>3, TurnRange DEF Bindings, Permissions
<1> QED BY <1>2, <1>4, <1>5, <1>6 DEF LoaderInv

LEMMA LoaderStep == LoaderInv /\ [LoaderNext]_lvars => LoaderInv'
<1>1. ASSUME LoaderInv, UNCHANGED lvars PROVE LoaderInv'
  <2>1. UNCHANGED <<todo, image, zone, so_list, got, code, locked, temp, ran, faults>>
    BY <1>1 DEF lvars
  <2>2. Left' = Left /\ \A k : Past(k)' <=> Past(k)
    BY <2>1 DEF Left, Past
  <2>3. Bindings' /\ Permissions'
    BY <1>1, <2>1, <2>2, BindingsRest, PermissionsRest
  <2>4. (InOrder /\ PerLib /\ Memory /\ Loaded /\ Zones)'
    BY <1>1, <2>1, <2>2 DEF LoaderInv, InOrder, PerLib, Memory, Loaded, Zones
  <2> QED BY <2>3, <2>4 DEF LoaderInv
<1>2. ASSUME LoaderInv, LoaderNext PROVE LoaderInv'
  BY <1>2, LoadKept, RelocateKept, ResolveKept, FinalizeKept, FlushKept, InitArrayKept, FreeKept,
     FatalKept, EntryKept DEF LoaderNext
<1> QED BY <1>1, <1>2

\* The invariant of the loader.
THEOREM LoaderCorrect == LoaderSpec => []LoaderInv
  BY LoaderStart, LoaderStep, PTL DEF LoaderSpec

\* For every two files: no call of load_two_modules reads a library's load_base
\* after it was mapped away, nor its file image after it was freed.
THEOREM NoCallFaults == LoaderSpec => []NoFault
<1>1. LoaderInv => NoFault
  BY DEF LoaderInv, Memory, NoFault
<1> QED BY <1>1, LoaderCorrect, PTL

LEMMA AllBound == ASSUME LoaderInv PROVE BoundBeforeRun
<1> SUFFICES ASSUME ran # <<>>, NEW l \in Lib, NEW s \in Slots(l)
             PROVE  LET m == s[2]
                        definers == {k \in Lib : m \in image[k].defined}
                    IN  got[l][s] = IF l \in definers THEN At(l, m)
                                    ELSE IF m \in ImportTable THEN Native(m)
                                    ELSE IF definers # {} THEN At(CHOOSE k \in definers : TRUE, m)
                                    ELSE Tainted
  BY DEF BoundBeforeRun
<1> DEFINE n == s[2]
           D == {k \in Lib : n \in image[k].defined}
<1>1. Past(TurnOf("relocate", l)) /\ Past(TurnOf("resolve", l))
  BY DEF Past
<1>2. CASE n \in image[l].defined
  BY <1>1, <1>2 DEF LoaderInv, Bindings
<1>3. CASE n \notin image[l].defined
  <2>1. n \in image[l].imported
    BY <1>3 DEF Slots, Symbols
  <2>2. got[l][s] = Binding(l, n)
    BY <1>1, <2>1 DEF LoaderInv, Bindings
  <2>3. D = IF n \in image[Other(l)].defined THEN {Other(l)} ELSE {}
    BY <1>3 DEF Other, Lib
  <2>4. D # {} => (CHOOSE m \in D : TRUE) = Other(l)
    BY <2>3
  <2> QED BY <1>3, <2>2, <2>3, <2>4 DEF Binding
<1> QED BY <1>2, <1>3

\* For every two files and every import table: before a constructor runs, so_relocate
\* and so_resolve have bound every pointer, the import table first.
THEOREM BindsBeforeRun == LoaderSpec => []BoundBeforeRun
  BY AllBound, LoaderCorrect, PTL

LEMMA ZonesFit == ASSUME LoaderInv PROVE ZonesApart
<1>1. /\ zone["bass"].from = 0 /\ zone["bass"].to \in Nat /\ zone["bass"].to <= ZoneSize
      /\ zone["game"].from \in Nat /\ zone["game"].to \in Nat
      /\ \/ zone["game"].from = 0 /\ zone["game"].to = 0
         \/ zone["bass"].to <= zone["game"].from /\ zone["game"].to <= ZoneSize
  BY DEF LoaderInv, PerLib, Zones, NoZone, Lib
<1>2. ZoneSize \in Nat
  BY PageAssumption
<1>3. Extent("bass") \subseteq 0..(ZoneSize - 1) /\ Extent("game") \subseteq 0..(ZoneSize - 1)
  BY <1>1, <1>2 DEF Extent
<1>4. Extent("bass") \cap Extent("game") = {}
  BY <1>1 DEF Extent
<1> QED BY <1>3, <1>4 DEF ZonesApart, Lib

LEMMA PagesFit == ASSUME LoaderInv PROVE PagesFitSegments
<1> SUFFICES ASSUME ran # <<>>, NEW l \in Lib, NEW s \in image[l].segs, NEW u \in s.from..(s.to - 1)
             PROVE  code[l][u \div Page] = IF s.x THEN "rx" ELSE "rw"
  BY DEF PagesFitSegments
<1> DEFINE p == u \div Page
<1>1. s.from \in Nat /\ s.to \in Nat /\ s.x \in BOOLEAN /\ u \in Nat /\ s.from <= u /\ u < s.to
  BY ImageAssumption DEF LoaderInv, PerLib
<1>2. p \in PagesOf(s)
  BY <1>1, PageOf DEF PagesOf
<1>3. p \in Pages(l)
  <2>1. PICK q \in Nat : q = load_size(l) \div Page /\ s.to <= q * Page
    BY LoadSize DEF LoaderInv
  <2>2. q * Page \in Nat
    BY PageAssumption
  <2>3. u < q * Page
    BY <1>1, <2>1, <2>2
  <2> QED BY <1>1, <2>1, <2>3, PageBelow DEF Pages
<1>4. code[l][p] = IF is_x_page(l, p) THEN "rx" ELSE "rw"
  <2>1. Past(TurnOf("finalize", l))
    BY DEF Past
  <2> QED BY <1>3, <2>1 DEF LoaderInv, Permissions
<1>5. CASE s.x
  BY <1>2, <1>4, <1>5 DEF is_x_page
<1>6. CASE ~s.x
  <2>1. \A r \in image[l].segs : r.x => p \notin PagesOf(r)
    BY <1>1, <1>2, <1>6, LinkAssumption, ImageAssumption DEF LoaderInv, PerLib
  <2> QED BY <1>4, <1>6, <2>1 DEF is_x_page
<1> QED BY <1>5, <1>6

\* For every two files, zone and size of a page: the libraries' zones are apart and
\* so_finalize makes exactly the pages of executable segments executable.
THEOREM LayoutIsRight == LoaderSpec => []LayoutFits
<1>1. LoaderInv => LayoutFits
  BY ZonesFit, PagesFit DEF LayoutFits
<1> QED BY <1>1, LoaderCorrect, PTL

--------------------------------------------------------------------------------
(* Induction on finite sets. *)

Smallest(x, T) == x \in T /\ \A y \in T : y \subseteq x => y = x

LEMMA SmallestSet ==
  ASSUME NEW S, NEW T, T \subseteq FiniteSubsetsOf(S), T # {}
  PROVE  \E x : Smallest(x, T)
<1>1. \E x \in T : \A y \in T : <<y, x>> \notin StrictSubsetOrdering(S)
  BY FS_StrictSubsetOrderingWellFounded, WFMin
<1> QED BY <1>1 DEF StrictSubsetOrdering, FiniteSubsetsOf, Smallest

\* The same on natural numbers.
LEMMA SmallestNumber ==
  ASSUME NEW T, T \subseteq Nat, T # {}
  PROVE  \E x \in T : \A y \in T : x <= y
<1> DEFINE R == {ss \in Nat \X Nat : ss[1] < ss[2]}
<1>1. IsWellFoundedOn(R, Nat)
  BY NatLessThanWellFounded DEF OpToRel
<1>2. \A x, y \in Nat : <<y, x>> \notin R => x <= y
  OBVIOUS
<1> HIDE DEF R
<1>3. \E x \in T : \A y \in T : <<y, x>> \notin R
  BY <1>1, WFMin
<1> QED BY <1>2, <1>3

LEMMA WordsFinite == ASSUME NEW S, S \subseteq Word PROVE IsFiniteSet(S)
<1>1. IsFiniteSet(Word)
  BY WordAssumption, FS_Interval DEF Word
<1> QED BY <1>1, FS_Subset

--------------------------------------------------------------------------------
(* The linker's encoding. *)

FirstOf(S) == CHOOSE w \in S : \A v \in S : w <= v

\* What Relr does with one pair, when f does the rest.
Encode(f, p) ==
    IF p[1] = {} THEN <<>>
    ELSE IF Near(p) # {}
      THEN <<[bitmap |-> {w - p[2] : w \in Near(p)}]>> \o f[<<p[1] \ Near(p), p[2] + Bits>>]
      ELSE <<[address |-> FirstOf(p[1])]>> \o f[<<p[1] \ {FirstOf(p[1])}, FirstOf(p[1]) + 1>>]

Encodes(S, f) == f = [p \in (SUBSET S) \X Int |-> Encode(f, p)]

LEMMA RelrIs == Relr = CHOOSE f : Encodes(Word, f)
  BY DEF Relr, Encodes, Encode, FirstOf

LEMMA FirstIs ==
  ASSUME NEW S, S \subseteq Word, S # {}
  PROVE  FirstOf(S) \in S /\ FirstOf(S) \in Nat
<1>1. S \subseteq Nat
  BY WordAssumption DEF Word
<1>2. \E x \in S : \A y \in S : x <= y
  BY <1>1, SmallestNumber
<1> QED BY <1>1, <1>2 DEF FirstOf

\* The pair Relr goes on with has fewer words.
Rest(p) == IF Near(p) # {} THEN <<p[1] \ Near(p), p[2] + Bits>>
           ELSE <<p[1] \ {FirstOf(p[1])}, FirstOf(p[1]) + 1>>

LEMMA RestIs ==
  ASSUME NEW p, p[1] \subseteq Word, p[2] \in Int, p[1] # {}
  PROVE  /\ Rest(p) = <<Rest(p)[1], Rest(p)[2]>> /\ Rest(p)[2] \in Int
         /\ Rest(p)[1] \subseteq p[1] /\ Rest(p)[1] # p[1]
<1>1. FirstOf(p[1]) \in p[1] /\ FirstOf(p[1]) \in Nat
  BY FirstIs
<1>2. Bits \in Nat /\ Near(p) \subseteq p[1]
  BY WordAssumption DEF Near
<1>3. CASE Near(p) # {}
  <2>1. Rest(p) = <<p[1] \ Near(p), p[2] + Bits>>
    BY <1>3 DEF Rest
  <2> QED BY <1>2, <1>3, <2>1
<1>4. CASE Near(p) = {}
  <2>1. Rest(p) = <<p[1] \ {FirstOf(p[1])}, FirstOf(p[1]) + 1>>
    BY <1>4 DEF Rest
  <2> QED BY <1>1, <2>1
<1> QED BY <1>3, <1>4

LEMMA EncodeBy ==
  ASSUME NEW f, NEW g, NEW p, f[Rest(p)] = g[Rest(p)]
  PROVE  Encode(f, p) = Encode(g, p)
<1>1. CASE Near(p) # {}
  BY <1>1 DEF Encode, Rest
<1>2. CASE Near(p) = {}
  BY <1>2 DEF Encode, Rest
<1> QED BY <1>1, <1>2

LEMMA EncodesAt ==
  ASSUME NEW S, NEW f, Encodes(S, f), NEW p \in (SUBSET S) \X Int
  PROVE  f[p] = Encode(f, p)
  BY DEF Encodes

LEMMA EncodesAgree ==
  ASSUME NEW S, NEW f, Encodes(S, f), NEW R, NEW g, Encodes(R, g),
         NEW t, t \subseteq Word, t \subseteq S, t \subseteq R, NEW n \in Int
  PROVE  f[<<t, n>>] = g[<<t, n>>]
<1>1. ASSUME NEW T, T = {u \in SUBSET t : \E k \in Int : f[<<u, k>>] # g[<<u, k>>]}, T # {}
      PROVE  FALSE
  <2>1. T \subseteq FiniteSubsetsOf(t)
    BY <1>1, WordsFinite DEF FiniteSubsetsOf
  <2>2. T # {}
    BY <1>1
  <2>3. PICK u : Smallest(u, T)
    BY <2>1, <2>2, SmallestSet
  <2>4. PICK k \in Int : f[<<u, k>>] # g[<<u, k>>]
    BY <1>1, <2>3 DEF Smallest
  <2>5. u \subseteq t
    BY <1>1, <2>3 DEF Smallest
  <2>6. PICK p : p = <<u, k>>
    OBVIOUS
  <2>7. /\ p[1] = u /\ p[2] = k /\ p[1] \subseteq Word
        /\ p \in (SUBSET S) \X Int /\ p \in (SUBSET R) \X Int
    BY <2>5, <2>6
  <2>8. f[p] = Encode(f, p) /\ g[p] = Encode(g, p)
    BY <2>7, EncodesAt
  <2>9. u # {}
    BY <2>4, <2>6, <2>7, <2>8 DEF Encode
  <2>10. /\ Rest(p) = <<Rest(p)[1], Rest(p)[2]>> /\ Rest(p)[2] \in Int
         /\ Rest(p)[1] \subseteq u /\ Rest(p)[1] # u
    BY <2>7, <2>9, RestIs
  <2>11. Rest(p)[1] \notin T /\ Rest(p)[1] \in SUBSET t
    BY <2>3, <2>5, <2>10 DEF Smallest
  <2>12. f[<<Rest(p)[1], Rest(p)[2]>>] = g[<<Rest(p)[1], Rest(p)[2]>>]
    BY <1>1, <2>10, <2>11
  <2>13. f[Rest(p)] = g[Rest(p)]
    BY <2>10, <2>12
  <2> QED BY <2>4, <2>6, <2>8, <2>13, EncodeBy
<1>2. {u \in SUBSET t : \E k \in Int : f[<<u, k>>] # g[<<u, k>>]} = {}
  BY <1>1
<1> QED BY <1>2

Encoder(S) == CHOOSE f : Encodes(S, f)

\* The recursion of Relr ends.
LEMMA EncodesExists == \E f : Encodes(Word, f)
<1>1. ASSUME NEW T, T = {u \in SUBSET Word : ~ \E f : Encodes(u, f)}, T # {} PROVE FALSE
  <2>1. T \subseteq FiniteSubsetsOf(Word)
    BY <1>1, WordsFinite DEF FiniteSubsetsOf
  <2>2. T # {}
    BY <1>1
  <2>3. PICK x : Smallest(x, T)
    BY <2>1, <2>2, SmallestSet
  <2>4. x \subseteq Word /\ ~ \E f : Encodes(x, f)
    BY <1>1, <2>3 DEF Smallest
  <2>5. ASSUME NEW u, u \subseteq x, u # x
        PROVE  Encodes(u, Encoder(u))
    <3>1. u \notin T /\ u \in SUBSET Word
      BY <2>3, <2>4, <2>5 DEF Smallest
    <3> QED BY <1>1, <3>1 DEF Encoder
  <2> DEFINE v == [p \in (SUBSET x) \X Int |-> Encoder(p[1])[p]]
             f == [p \in (SUBSET x) \X Int |-> Encode(v, p)]
  <2>6. ASSUME NEW p \in (SUBSET x) \X Int, p[1] # x
        PROVE  v[p] = Encode(v, p)
    <3>1. p = <<p[1], p[2]>> /\ p[1] \subseteq x /\ p[2] \in Int /\ p[1] \subseteq Word
      BY <2>4
    <3>2. Encodes(p[1], Encoder(p[1]))
      BY <2>5, <2>6, <3>1
    <3>3. v[p] = Encode(Encoder(p[1]), p)
      <4>1. p \in (SUBSET p[1]) \X Int
        BY <3>1
      <4> QED BY <3>2, <4>1, EncodesAt
    <3>4. CASE p[1] = {}
      BY <3>3, <3>4 DEF Encode
    <3>5. CASE p[1] # {}
      <4>1. PICK r, k : Rest(p) = <<r, k>> /\ k \in Int /\ r \subseteq p[1] /\ r # p[1]
        BY <3>1, <3>5, RestIs
      <4>2. Encodes(r, Encoder(r)) /\ r \subseteq x
        BY <2>5, <3>1, <4>1
      <4>3. Encoder(p[1])[<<r, k>>] = Encoder(r)[<<r, k>>]
        BY <3>1, <3>2, <4>1, <4>2, EncodesAgree
      <4>4. v[<<r, k>>] = Encoder(r)[<<r, k>>]
        BY <4>1, <4>2
      <4> HIDE DEF v
      <4>5. Encoder(p[1])[Rest(p)] = v[Rest(p)]
        BY <4>1, <4>3, <4>4
      <4> QED BY <3>3, <4>5, EncodeBy
    <3> QED BY <3>4, <3>5
  <2>7. \A p \in (SUBSET x) \X Int : p[1] # x => v[p] = f[p]
    BY <2>6
  <2> HIDE DEF v
  <2>8. f = [p \in (SUBSET x) \X Int |-> f[p]] /\ \A p \in (SUBSET x) \X Int : f[p] = Encode(v, p)
    OBVIOUS
  <2> HIDE DEF f
  <2>9. ASSUME NEW p \in (SUBSET x) \X Int PROVE f[p] = Encode(f, p)
    <3>1. CASE p[1] = {}
      BY <2>8, <3>1 DEF Encode
    <3>2. CASE p[1] # {}
      <4>1. p[1] \subseteq x /\ p[2] \in Int /\ p[1] \subseteq Word
        BY <2>4
      <4>2. PICK r, k : Rest(p) = <<r, k>> /\ k \in Int /\ r \subseteq p[1] /\ r # p[1]
        BY <3>2, <4>1, RestIs
      <4>3. <<r, k>> \in (SUBSET x) \X Int /\ <<r, k>>[1] # x
        BY <4>1, <4>2
      <4>4. v[Rest(p)] = f[Rest(p)]
        BY <2>7, <4>2, <4>3
      <4>5. f[p] = Encode(v, p)
        BY <2>8
      <4>6. Encode(v, p) = Encode(f, p)
        BY <4>4, EncodeBy
      <4> QED BY <4>5, <4>6
    <3> QED BY <3>1, <3>2
  <2>10. Encodes(x, f)
    BY <2>8, <2>9 DEF Encodes
  <2> QED BY <2>4, <2>10
<1>2. {u \in SUBSET Word : ~ \E f : Encodes(u, f)} = {}
  BY <1>1
<1>3. Word \in SUBSET Word
  OBVIOUS
<1> QED BY <1>2, <1>3

LEMMA RelrAt == ASSUME NEW p \in (SUBSET Word) \X Int PROVE Relr[p] = Encode(Relr, p)
<1>1. Encodes(Word, Relr)
  BY EncodesExists, RelrIs
<1> QED BY <1>1, EncodesAt

--------------------------------------------------------------------------------
(* so_process_relr, entry by entry. *)

Entry == [address : Int] \cup [bitmap : SUBSET Int]

Process(d, s) == FoldLeft(RelrEntry, d, s)

Folding(d, s, S, f) ==
    f = [t \in SUBSET S |-> IF t = {} THEN d ELSE RelrEntry(f[t \ {Max(t)}], s[Max(t)])]

Folder(d, s) == CHOOSE f : Folding(d, s, DOMAIN s, f)

LEMMA ProcessIs == ASSUME NEW d, NEW s PROVE Process(d, s) = Folder(d, s)[DOMAIN s]
  BY DEF Process, Folder, Folding, FoldLeft, MapThenFoldSet

LEMMA MaxIs ==
  ASSUME NEW n \in Nat, NEW t, t \subseteq 1..n, t # {}
  PROVE  Max(t) \in t /\ \A x \in t : x <= Max(t)
<1>1. PICK T : T = {k \in Nat : \A x \in t : x <= k}
  OBVIOUS
<1>2. T \subseteq Nat /\ n \in T
  BY <1>1
<1>3. T # {}
  BY <1>2
<1>4. PICK m \in T : \A k \in T : m <= k
  BY <1>2, <1>3, SmallestNumber
<1>5. m \in Nat /\ \A x \in t : x <= m
  BY <1>1, <1>4
<1>6. m \in t
  <2>1. SUFFICES ASSUME m \notin t PROVE FALSE
    OBVIOUS
  <2>2. PICK x : x \in t
    OBVIOUS
  <2>3. x \in Nat /\ x >= 1 /\ x <= m
    BY <1>5, <2>2
  <2>4. m - 1 \in Nat
    BY <1>5, <2>3
  <2>5. \A y \in t : y <= m - 1
    BY <1>5, <2>1
  <2>6. m - 1 \in T
    BY <1>1, <2>4, <2>5
  <2> QED BY <1>4, <1>5, <2>6
<1>7. \E x \in t : \A y \in t : x >= y
  BY <1>5, <1>6
<1>8. Max(t) \in t /\ \A y \in t : Max(t) >= y
  BY <1>7 DEF Max
<1> QED BY <1>8

LEMMA FoldingAt ==
  ASSUME NEW d, NEW s, NEW S, NEW f, Folding(d, s, S, f), NEW t \in SUBSET S
  PROVE  f[t] = IF t = {} THEN d ELSE RelrEntry(f[t \ {Max(t)}], s[Max(t)])
  BY DEF Folding

LEMMA FoldingExists ==
  ASSUME NEW d, NEW s, NEW n \in Nat
  PROVE  \E f : Folding(d, s, 1..n, f)
<1>1. ASSUME NEW T, T = {u \in SUBSET (1..n) : ~ \E f : Folding(d, s, u, f)}, T # {} PROVE FALSE
  <2>1. T \subseteq FiniteSubsetsOf(1..n)
    <3>1. IsFiniteSet(1..n)
      BY FS_Interval
    <3> QED BY <1>1, <3>1, FS_Subset DEF FiniteSubsetsOf
  <2>2. T # {}
    BY <1>1
  <2>3. PICK x : Smallest(x, T)
    BY <2>1, <2>2, SmallestSet
  <2>4. x \subseteq 1..n /\ ~ \E f : Folding(d, s, x, f)
    BY <1>1, <2>3 DEF Smallest
  <2>5. CASE x = {}
    <3> DEFINE f == [t \in SUBSET x |-> d]
    <3>1. \A t \in SUBSET x : f[t] = IF t = {} THEN d ELSE RelrEntry(f[t \ {Max(t)}], s[Max(t)])
      BY <2>5
    <3>2. f = [t \in SUBSET x |-> f[t]]
      OBVIOUS
    <3> HIDE DEF f
    <3>3. Folding(d, s, x, f)
      BY <3>1, <3>2 DEF Folding
    <3> QED BY <2>4, <3>3
  <2>6. CASE x # {}
    <3>1. PICK m : m = Max(x)
      OBVIOUS
    <3>2. m \in x /\ \A y \in x : y <= m
      BY <2>4, <2>6, <3>1, MaxIs
    <3>3. PICK r : r = x \ {m}
      OBVIOUS
    <3>4. r \subseteq x /\ r # x /\ m \notin r
      BY <3>2, <3>3
    <3>5. PICK h : Folding(d, s, r, h)
      <4>1. r \notin T /\ r \in SUBSET (1..n)
        BY <2>3, <2>4, <3>4 DEF Smallest
      <4> QED BY <1>1, <4>1
    <3> DEFINE f == [t \in SUBSET x |-> IF m \in t THEN RelrEntry(h[t \ {m}], s[m]) ELSE h[t]]
    <3>6. \A t \in SUBSET r : f[t] = h[t]
      BY <3>4
    <3>7. \A t \in SUBSET x : m \in t => f[t] = RelrEntry(h[t \ {m}], s[m])
      OBVIOUS
    <3>8. f = [t \in SUBSET x |-> f[t]]
      OBVIOUS
    <3> HIDE DEF f
    <3>9. ASSUME NEW t \in SUBSET x
          PROVE  f[t] = IF t = {} THEN d ELSE RelrEntry(f[t \ {Max(t)}], s[Max(t)])
      <4>1. t \ {m} \in SUBSET r
        BY <3>3
      <4>2. CASE m \in t
        <5>1. Max(t) \in t /\ \A y \in t : y <= Max(t)
          BY <2>4, <4>2, MaxIs
        <5>2. Max(t) = m
          <6>1. Max(t) \in x /\ Max(t) \in Nat /\ m \in Nat
            <7>1. Max(t) \in x
              BY <5>1
            <7>2. \A y \in 1..n : y \in Nat
              OBVIOUS
            <7> QED BY <2>4, <3>2, <7>1, <7>2
          <6>2. Max(t) <= m /\ m <= Max(t)
            BY <3>2, <4>2, <5>1, <6>1
          <6> QED BY <6>1, <6>2
        <5>3. f[t \ {m}] = h[t \ {m}]
          BY <3>6, <4>1
        <5>4. f[t] = RelrEntry(h[t \ {m}], s[m])
          BY <3>7, <4>2
        <5> QED BY <4>2, <5>2, <5>3, <5>4
      <4>3. CASE m \notin t
        <5>1. t \in SUBSET r /\ t \ {Max(t)} \in SUBSET r
          BY <3>3, <4>3
        <5>2. f[t] = h[t] /\ f[t \ {Max(t)}] = h[t \ {Max(t)}]
          BY <3>6, <5>1
        <5>3. h[t] = IF t = {} THEN d ELSE RelrEntry(h[t \ {Max(t)}], s[Max(t)])
          BY <3>5, <5>1, FoldingAt
        <5> QED BY <5>2, <5>3
      <4> QED BY <4>2, <4>3
    <3>10. Folding(d, s, x, f)
      BY <3>8, <3>9 DEF Folding
    <3> QED BY <2>4, <3>10
  <2> QED BY <2>5, <2>6
<1>2. {u \in SUBSET (1..n) : ~ \E f : Folding(d, s, u, f)} = {}
  BY <1>1
<1>3. 1..n \in SUBSET (1..n)
  OBVIOUS
<1> QED BY <1>2, <1>3

\* What the first n entries have done.
Upto(d, s, n) == Folder(d, s)[1..n]

LEMMA UptoIs ==
  ASSUME NEW d, NEW s \in Seq(Entry)
  PROVE  /\ Upto(d, s, 0) = d
         /\ \A n \in 1..Len(s) : Upto(d, s, n) = RelrEntry(Upto(d, s, n - 1), s[n])
         /\ Process(d, s) = Upto(d, s, Len(s))
<1>1. Len(s) \in Nat /\ DOMAIN s = 1..Len(s)
  BY LenProperties
<1>2. Folding(d, s, DOMAIN s, Folder(d, s))
  BY <1>1, FoldingExists DEF Folder
<1>3. Upto(d, s, 0) = d
  <2>1. 1..0 = {} /\ {} \in SUBSET DOMAIN s
    OBVIOUS
  <2>2. Folder(d, s)[{}] = d
    BY <1>2, <2>1, FoldingAt
  <2> QED BY <2>1, <2>2 DEF Upto
<1>4. ASSUME NEW n \in 1..Len(s)
      PROVE  Upto(d, s, n) = RelrEntry(Upto(d, s, n - 1), s[n])
  <2>1. n \in Nat /\ n \in 1..n /\ 1..n \subseteq DOMAIN s
    BY <1>1
  <2>2. Max(1..n) \in 1..n /\ \A x \in 1..n : x <= Max(1..n)
    BY <2>1, MaxIs
  <2>3. Max(1..n) = n /\ (1..n) \ {n} = 1..(n - 1) /\ 1..n # {}
    BY <2>1, <2>2
  <2>4. Folder(d, s)[1..n] = RelrEntry(Folder(d, s)[(1..n) \ {Max(1..n)}], s[Max(1..n)])
    <3>1. PICK t : t = 1..n
      OBVIOUS
    <3>2. t \in SUBSET DOMAIN s /\ t # {}
      BY <2>1, <2>3, <3>1
    <3>3. Folder(d, s)[t] = RelrEntry(Folder(d, s)[t \ {Max(t)}], s[Max(t)])
      BY <1>2, <3>2, FoldingAt
    <3> QED BY <3>1, <3>3
  <2> QED BY <2>3, <2>4 DEF Upto
<1>5. Process(d, s) = Upto(d, s, Len(s))
  BY <1>1, ProcessIs DEF Upto
<1> QED BY <1>3, <1>4, <1>5

LEMMA ProcessFirst ==
  ASSUME NEW d, NEW e \in Entry, NEW s \in Seq(Entry)
  PROVE  Process(d, <<e>> \o s) = Process(RelrEntry(d, e), s)
<1>1. PICK q : q = <<e>> \o s
  OBVIOUS
<1>2. /\ q \in Seq(Entry) /\ Len(q) = Len(s) + 1 /\ Len(s) \in Nat
      /\ q[1] = e /\ \A n \in 1..Len(s) : q[n + 1] = s[n]
  BY <1>1, LenProperties
<1>3. PICK c : c = RelrEntry(d, e)
  OBVIOUS
<1>4. ASSUME NEW T, T = {n \in 0..Len(s) : Upto(d, q, n + 1) # Upto(c, s, n)}, T # {} PROVE FALSE
  <2>1. T \subseteq Nat /\ T # {}
    BY <1>4
  <2>2. PICK n \in T : \A k \in T : n <= k
    BY <2>1, SmallestNumber
  <2>3. n \in 0..Len(s) /\ Upto(d, q, n + 1) # Upto(c, s, n)
    BY <1>4
  <2>4. n + 1 \in 1..Len(q) /\ (n + 1) - 1 = n
    BY <1>2, <2>3
  <2>5. Upto(d, q, n + 1) = RelrEntry(Upto(d, q, n), q[n + 1])
    <3>1. q \in Seq(Entry)
      BY <1>2
    <3>2. Upto(d, q, n + 1) = RelrEntry(Upto(d, q, (n + 1) - 1), q[n + 1])
      BY <2>4, <3>1, UptoIs
    <3> QED BY <2>4, <3>2
  <2>6. CASE n = 0
    <3>1. Upto(d, q, 0) = d /\ Upto(c, s, 0) = c
      BY <1>2, UptoIs
    <3> QED BY <1>2, <1>3, <2>3, <2>5, <2>6, <3>1
  <2>7. CASE n # 0
    <3>1. n \in 1..Len(s) /\ n - 1 \in 0..Len(s) /\ (n - 1) + 1 = n /\ ~(n <= n - 1)
      BY <1>2, <2>3, <2>7
    <3>2. n - 1 \notin T
      BY <2>2, <3>1
    <3>3. Upto(d, q, n) = Upto(c, s, n - 1)
      BY <1>4, <3>1, <3>2
    <3>4. \A k \in 1..Len(s) : Upto(c, s, k) = RelrEntry(Upto(c, s, k - 1), s[k])
      BY ONLY s \in Seq(Entry), UptoIs
    <3>5. Upto(c, s, n) = RelrEntry(Upto(c, s, n - 1), s[n])
      BY <3>1, <3>4
    <3> QED BY <1>2, <2>3, <2>5, <3>1, <3>3, <3>5
  <2> QED BY <2>6, <2>7
<1>5. {n \in 0..Len(s) : Upto(d, q, n + 1) # Upto(c, s, n)} = {}
  BY <1>4
<1>6. Upto(d, q, Len(s) + 1) = Upto(c, s, Len(s))
  BY <1>2, <1>5
<1>7. Process(d, q) = Upto(d, q, Len(q)) /\ Process(c, s) = Upto(c, s, Len(s))
  BY <1>2, UptoIs
<1> QED BY <1>1, <1>2, <1>3, <1>6, <1>7

LEMMA ProcessNone == ASSUME NEW d PROVE Process(d, <<>>) = d
<1>1. <<>> \in Seq(Entry) /\ Len(<<>>) = 0
  OBVIOUS
<1>2. Upto(d, <<>>, 0) = d
  BY <1>1, UptoIs
<1>3. Process(d, <<>>) = Upto(d, <<>>, Len(<<>>))
  BY <1>1, UptoIs
<1> QED BY <1>1, <1>2, <1>3

--------------------------------------------------------------------------------
(* What is encoded is decoded. *)

\* The entry of Relr for a pair.
EntryFor(p) == IF Near(p) # {} THEN [bitmap |-> {w - p[2] : w \in Near(p)}]
               ELSE [address |-> FirstOf(p[1])]

LEMMA RelrStep ==
  ASSUME NEW p \in (SUBSET Word) \X Int
  PROVE  /\ p[1] = {} => Relr[p] = <<>>
         /\ p[1] # {} => EntryFor(p) \in Entry /\ Relr[p] = <<EntryFor(p)>> \o Relr[Rest(p)]
<1>1. Relr[p] = Encode(Relr, p)
  BY RelrAt
<1>2. CASE p[1] = {}
  BY <1>1, <1>2 DEF Encode
<1>3. CASE p[1] # {} /\ Near(p) # {}
  <2>1. \A w \in Word : w \in Int
    BY WordAssumption DEF Word
  <2>2. {w - p[2] : w \in Near(p)} \subseteq Int
    BY <2>1 DEF Near
  <2>3. EntryFor(p) \in Entry
    BY <1>3, <2>2 DEF EntryFor, Entry
  <2> QED BY <1>1, <1>3, <2>3 DEF Encode, EntryFor, Rest
<1>4. CASE p[1] # {} /\ Near(p) = {}
  <2>1. FirstOf(p[1]) \in Int
    BY <1>4, FirstIs
  <2>2. EntryFor(p) \in Entry
    BY <1>4, <2>1 DEF EntryFor, Entry
  <2> QED BY <1>1, <1>4, <2>2 DEF Encode, EntryFor, Rest
<1> QED BY <1>2, <1>3, <1>4

LEMMA RelrSeq ==
  ASSUME NEW u, u \subseteq Word, NEW n \in Int
  PROVE  Relr[<<u, n>>] \in Seq(Entry)
<1>1. ASSUME NEW T, T = {v \in SUBSET Word : \E k \in Int : Relr[<<v, k>>] \notin Seq(Entry)},
             T # {}
      PROVE  FALSE
  <2>1. T \subseteq FiniteSubsetsOf(Word)
    BY <1>1, WordsFinite DEF FiniteSubsetsOf
  <2>2. T # {}
    BY <1>1
  <2>3. PICK x : Smallest(x, T)
    BY <2>1, <2>2, SmallestSet
  <2>4. PICK k \in Int : x \subseteq Word /\ Relr[<<x, k>>] \notin Seq(Entry)
    BY <1>1, <2>3 DEF Smallest
  <2>5. PICK p : p = <<x, k>>
    OBVIOUS
  <2>6. p \in (SUBSET Word) \X Int /\ p[1] = x /\ p[2] = k
    BY <2>4, <2>5
  <2>7. CASE x = {}
    <3>1. Relr[p] = <<>>
      BY <2>6, <2>7, RelrStep
    <3> QED BY <2>4, <2>5, <3>1
  <2>8. CASE x # {}
    <3>1. PICK r, m : Rest(p) = <<r, m>> /\ m \in Int /\ r \subseteq x /\ r # x
      BY <2>4, <2>6, <2>8, RestIs
    <3>2. r \notin T /\ r \in SUBSET Word
      BY <2>3, <2>4, <3>1 DEF Smallest
    <3>3. Relr[<<r, m>>] \in Seq(Entry)
      BY <1>1, <3>1, <3>2
    <3>4. EntryFor(p) \in Entry /\ Relr[p] = <<EntryFor(p)>> \o Relr[<<r, m>>]
      BY <2>6, <2>8, <3>1, RelrStep
    <3>5. Relr[p] \in Seq(Entry)
      BY <3>3, <3>4
    <3> QED BY <2>4, <2>5, <3>5
  <2> QED BY <2>7, <2>8
<1>2. {v \in SUBSET Word : \E k \in Int : Relr[<<v, k>>] \notin Seq(Entry)} = {}
  BY <1>1
<1> QED BY <1>2

Counts == [Word -> Nat]

LEMMA Rebases ==
  ASSUME NEW c \in Counts
  PROVE  /\ Rebase(c, {}) = c
         /\ \A A : Rebase(c, A) \in Counts
         /\ \A A, B : A \cap B = {} => Rebase(Rebase(c, A), B) = Rebase(c, A \cup B)
<1>1. Rebase(c, {}) = c
  BY DEF Rebase, Counts
<1>2. \A A : Rebase(c, A) \in Counts
  BY DEF Rebase, Counts
<1>3. ASSUME NEW A, NEW B, A \cap B = {} PROVE Rebase(Rebase(c, A), B) = Rebase(c, A \cup B)
  <2>1. \A w \in Word : Rebase(Rebase(c, A), B)[w] = Rebase(c, A \cup B)[w]
    BY <1>3 DEF Rebase
  <2>2. /\ Rebase(Rebase(c, A), B) = [w \in Word |-> Rebase(Rebase(c, A), B)[w]]
        /\ Rebase(c, A \cup B) = [w \in Word |-> Rebase(c, A \cup B)[w]]
    BY DEF Rebase
  <2> QED BY <2>1, <2>2
<1> QED BY <1>1, <1>2, <1>3

Done == [where : Int, counts : Counts]

\* Where the decoder is fits the pair the encoder is at.
InStep(d, p) == p[2] >= 0 => d.where = p[2]

\* The words that entry stands for.
Covered(p) == IF Near(p) # {} THEN Near(p) ELSE {FirstOf(p[1])}

\* One entry: the words it stands for are moved once, and both are in step again.
LEMMA EntryMoves ==
  ASSUME NEW p \in (SUBSET Word) \X Int, p[1] # {}, NEW d \in Done, InStep(d, p)
  PROVE  /\ RelrEntry(d, EntryFor(p)) \in Done
         /\ RelrEntry(d, EntryFor(p)).counts = Rebase(d.counts, Covered(p))
         /\ InStep(RelrEntry(d, EntryFor(p)), Rest(p))
         /\ p[1] = Covered(p) \cup Rest(p)[1] /\ Covered(p) \cap Rest(p)[1] = {}
<1>1. /\ d.where \in Int /\ d.counts \in Counts /\ p[2] \in Int /\ p[1] \subseteq Word
      /\ Bits \in Nat
  BY WordAssumption DEF Done
<1>2. CASE Near(p) # {}
  <2>1. d.where = p[2]
    BY <1>2 DEF InStep, Near
  <2>2. {d.where + b : b \in {w - p[2] : w \in Near(p)}} = Near(p)
    <3>1. \A w \in Near(p) : d.where + (w - p[2]) = w
      <4>1. \A w \in Word : w \in Int
        BY WordAssumption DEF Word
      <4> QED BY <1>1, <2>1, <4>1 DEF Near
    <3> QED BY <3>1
  <2>3. PICK e : e = EntryFor(p)
    OBVIOUS
  <2>4. e = [bitmap |-> {w - p[2] : w \in Near(p)}]
    BY <1>2, <2>3 DEF EntryFor
  <2>5. "address" \notin DOMAIN e /\ e.bitmap = {w - p[2] : w \in Near(p)}
    BY <2>4
  <2>6. RelrEntry(d, e) = [where |-> d.where + Bits, counts |-> Rebase(d.counts, Near(p))]
    BY <2>2, <2>5 DEF RelrEntry
  <2>7. Rebase(d.counts, Near(p)) \in Counts
    BY <1>1, Rebases
  <2>8. Rest(p) = <<p[1] \ Near(p), p[2] + Bits>> /\ Covered(p) = Near(p) /\ Near(p) \subseteq p[1]
    BY <1>2 DEF Rest, Covered, Near
  <2>9. RelrEntry(d, e) \in Done /\ RelrEntry(d, e).counts = Rebase(d.counts, Covered(p))
    BY <1>1, <2>6, <2>7, <2>8 DEF Done
  <2>10. InStep(RelrEntry(d, e), Rest(p))
    BY <2>1, <2>6, <2>8 DEF InStep
  <2> QED BY <2>3, <2>8, <2>9, <2>10
<1>3. CASE Near(p) = {}
  <2>1. FirstOf(p[1]) \in p[1] /\ FirstOf(p[1]) \in Nat
    BY <1>1, FirstIs
  <2>2. PICK f : f = FirstOf(p[1])
    OBVIOUS
  <2>3. EntryFor(p) = [address |-> f]
    BY <1>3, <2>2 DEF EntryFor
  <2>4. RelrEntry(d, EntryFor(p)) = [where |-> f + 1, counts |-> Rebase(d.counts, {f})]
    BY <2>3 DEF RelrEntry
  <2>5. Rebase(d.counts, {f}) \in Counts
    BY <1>1, Rebases
  <2>6. Rest(p) = <<p[1] \ {f}, f + 1>> /\ Covered(p) = {f}
    BY <1>3, <2>2 DEF Rest, Covered
  <2>7. RelrEntry(d, EntryFor(p)) \in Done
    BY <2>1, <2>2, <2>4, <2>5 DEF Done
  <2>8. InStep(RelrEntry(d, EntryFor(p)), Rest(p))
    BY <2>4, <2>6 DEF InStep
  <2> QED BY <2>1, <2>2, <2>4, <2>6, <2>7, <2>8
<1> QED BY <1>2, <1>3

LEMMA WordsMoveOnce ==
  ASSUME NEW u, u \subseteq Word, NEW n \in Int, NEW c \in Done, InStep(c, <<u, n>>)
  PROVE  Process(c, Relr[<<u, n>>]).counts = Rebase(c.counts, u)
<1> DEFINE Goes(v, k, d) == InStep(d, <<v, k>>) => Process(d, Relr[<<v, k>>]).counts = Rebase(d.counts, v)
<1>1. ASSUME NEW T, T = {v \in SUBSET Word : \E k \in Int, d \in Done : ~Goes(v, k, d)}, T # {}
      PROVE  FALSE
  <2>1. T \subseteq FiniteSubsetsOf(Word)
    BY <1>1, WordsFinite DEF FiniteSubsetsOf
  <2>2. T # {}
    BY <1>1
  <2>3. PICK x : Smallest(x, T)
    BY <2>1, <2>2, SmallestSet
  <2>4. PICK k \in Int, d \in Done : x \subseteq Word /\ ~Goes(x, k, d)
    BY <1>1, <2>3 DEF Smallest
  <2>5. PICK p : p = <<x, k>>
    OBVIOUS
  <2>6. p \in (SUBSET Word) \X Int /\ p[1] = x /\ p[2] = k /\ d.counts \in Counts
    BY <2>4, <2>5 DEF Done
  <2>7. InStep(d, p) /\ Process(d, Relr[p]).counts # Rebase(d.counts, x)
    BY <2>4, <2>5
  <2>8. CASE x = {}
    <3>1. Relr[p] = <<>>
      BY <2>6, <2>8, RelrStep
    <3>2. Process(d, Relr[p]) = d
      BY <3>1, ProcessNone
    <3>3. Rebase(d.counts, x) = d.counts
      BY <2>6, <2>8, Rebases
    <3> QED BY <2>7, <3>2, <3>3
  <2>9. CASE x # {}
    <3>1. PICK r, m : Rest(p) = <<r, m>> /\ m \in Int /\ r \subseteq x /\ r # x
      BY <2>4, <2>6, <2>9, RestIs
    <3>2. PICK e, q : e = EntryFor(p) /\ q = RelrEntry(d, EntryFor(p))
      OBVIOUS
    <3>3. /\ q \in Done /\ q.counts = Rebase(d.counts, Covered(p)) /\ InStep(q, <<r, m>>)
          /\ x = Covered(p) \cup r /\ Covered(p) \cap r = {}
      BY <2>6, <2>7, <2>9, <3>1, <3>2, EntryMoves
    <3>4. e \in Entry /\ Relr[p] = <<e>> \o Relr[<<r, m>>] /\ Relr[<<r, m>>] \in Seq(Entry)
      BY <2>4, <2>6, <2>9, <3>1, <3>2, RelrStep, RelrSeq
    <3>5. Process(d, Relr[p]) = Process(q, Relr[<<r, m>>])
      BY <3>2, <3>4, ProcessFirst
    <3>6. Goes(r, m, q)
      <4>1. r \notin T /\ r \in SUBSET Word
        BY <2>3, <2>4, <3>1 DEF Smallest
      <4> QED BY <1>1, <3>1, <3>3, <4>1
    <3>7. Process(q, Relr[<<r, m>>]).counts = Rebase(q.counts, r)
      BY <3>3, <3>6
    <3>8. Rebase(q.counts, r) = Rebase(d.counts, x)
      BY <2>6, <3>3, Rebases
    <3> QED BY <2>7, <3>5, <3>7, <3>8
  <2> QED BY <2>8, <2>9
<1>2. {v \in SUBSET Word : \E k \in Int, d \in Done : ~Goes(v, k, d)} = {}
  BY <1>1
<1>3. Goes(u, n, c)
  BY <1>2
<1> QED BY <1>3

\* so_process_relr moves the words that the linker encoded, each once.
LEMMA RelocatesOnce ==
  ASSUME NEW u, u \subseteq Word, NEW c \in Counts
  PROVE  so_process_relr(Relr[<<u, -1>>], c) = Rebase(c, u)
<1>1. PICK d : d = [where |-> 0, counts |-> c]
  OBVIOUS
<1>2. d \in Done /\ d.counts = c
  BY <1>1 DEF Done
<1>3. -1 \in Int /\ InStep(d, <<u, -1>>)
  BY DEF InStep
<1>4. Process(d, Relr[<<u, -1>>]).counts = Rebase(c, u)
  BY <1>2, <1>3, WordsMoveOnce
<1> QED BY <1>1, <1>4 DEF so_process_relr, Process

--------------------------------------------------------------------------------
(* The words of a library's pointers to itself. *)

\* They are moved at the library's turn, and before that not at all.
Rebased == \A l \in Lib :
    /\ rebased = [k \in Lib |-> rebased[k]]
    /\ Left >= TurnOf("relocate", l) => rebased[l] = [w \in Word |-> 0]
    /\ Past(TurnOf("relocate", l)) =>
          rebased[l] = [w \in Word |-> IF w \in image[l].relative THEN 1 ELSE 0]

LEMMA RelocateRebases == ASSUME LoaderInv, Rebased, NEW l \in Lib, so_relocate(l) PROVE Rebased'
<1>1. Left = TurnOf("relocate", l) /\ Left' = Left - 1 /\ Left \in {12, 13}
  BY OneCallLess, TurnRange DEF so_relocate, LoaderInv
<1>2. UNCHANGED <<image, ran>> /\ rebased' = [rebased EXCEPT ![l] = so_process_relr(RelrTable(l), rebased[l])]
  BY DEF so_relocate
<1>3. rebased[l] = [w \in Word |-> 0] /\ [w \in Word |-> 0] \in Counts
  <2>1. Left >= TurnOf("relocate", l)
    BY <1>1
  <2>2. [w \in Word |-> 0] \in Counts
    BY DEF Counts
  <2> QED BY <2>1, <2>2 DEF Rebased
<1>4. image[l].relative \subseteq Word
  BY ImageAssumption DEF LoaderInv, PerLib
<1>5. so_process_relr(RelrTable(l), rebased[l]) = Rebase([w \in Word |-> 0], image[l].relative)
  BY <1>3, <1>4, RelocatesOnce DEF RelrTable
<1>6. Rebase([w \in Word |-> 0], image[l].relative)
        = [w \in Word |-> IF w \in image[l].relative THEN 1 ELSE 0]
  BY DEF Rebase
<1>7. /\ rebased = [k \in Lib |-> rebased[k]] /\ rebased' = [k \in Lib |-> rebased'[k]]
      /\ rebased'[l] = [w \in Word |-> IF w \in image[l].relative THEN 1 ELSE 0]
      /\ \A k \in Lib : k # l => rebased'[k] = rebased[k]
  <2>1. rebased = [k \in Lib |-> rebased[k]]
    BY DEF Rebased
  <2>2. rebased' = [k \in Lib |-> IF k = l THEN so_process_relr(RelrTable(l), rebased[l]) ELSE rebased[k]]
    BY <1>2, <2>1
  <2> QED BY <1>5, <1>6, <2>1, <2>2
<1>8. ASSUME NEW k \in Lib, k # l
      PROVE  /\ Left' >= TurnOf("relocate", k) => Left >= TurnOf("relocate", k)
             /\ Past(TurnOf("relocate", k))' => Past(TurnOf("relocate", k))
  <2>1. TurnOf("relocate", k) \in 1..15 /\ TurnOf("relocate", k) # Left
    BY <1>1, <1>8 DEF TurnOf, Lib
  <2>2. Past(TurnOf("relocate", k))' => Past(TurnOf("relocate", k)) \/ Left = TurnOf("relocate", k)
    BY <1>1, <1>2, <2>1, PastBefore DEF LoaderInv
  <2> QED BY <1>1, <2>1, <2>2
<1>9. ~(Left' >= TurnOf("relocate", l))
  BY <1>1
<1> QED BY <1>2, <1>7, <1>8, <1>9 DEF Rebased

LEMMA OthersRebaseNothing ==
  ASSUME LoaderInv, Rebased, UNCHANGED <<image, rebased>>,
         \A l \in Lib : /\ Left' >= TurnOf("relocate", l) => Left >= TurnOf("relocate", l)
                        /\ Past(TurnOf("relocate", l))' => Past(TurnOf("relocate", l))
  PROVE  Rebased'
  BY DEF Rebased

\* Another call than relocate leaves past what was.
LEMMA OtherCall ==
  ASSUME LoaderInv, Rebased, NEW call, NEW l \in Lib, Doing(call, l), call # "relocate",
         call \in {"load", "resolve", "entry", "finalize", "flush", "free"},
         UNCHANGED <<image, rebased, ran>>
  PROVE  Rebased'
<1>1. Left = TurnOf(call, l) /\ Left' = Left - 1 /\ Left \in 0..15
  BY OneCallLess DEF LoaderInv, InOrder
<1>2. Left \notin {12, 13}
  BY <1>1 DEF TurnOf, Lib
<1>3. ASSUME NEW k \in Lib
      PROVE  /\ Left' >= TurnOf("relocate", k) => Left >= TurnOf("relocate", k)
             /\ Past(TurnOf("relocate", k))' => Past(TurnOf("relocate", k))
  <2>1. TurnOf("relocate", k) \in {12, 13}
    BY TurnRange
  <2>2. Past(TurnOf("relocate", k))' => Past(TurnOf("relocate", k)) \/ Left = TurnOf("relocate", k)
    BY <1>1, <2>1, PastBefore DEF LoaderInv
  <2> QED BY <1>1, <1>2, <2>1, <2>2
<1> QED BY <1>3, OthersRebaseNothing

LEMMA RebasedStep == LoaderInv /\ Rebased /\ [LoaderNext]_lvars => Rebased'
<1> SUFFICES ASSUME LoaderInv, Rebased, [LoaderNext]_lvars PROVE Rebased'
  OBVIOUS
<1>1. CASE UNCHANGED lvars
  <2>1. UNCHANGED <<todo, image, rebased, ran>>
    BY <1>1 DEF lvars
  <2>2. Left' = Left /\ \A k : Past(k)' <=> Past(k)
    BY <2>1 DEF Left, Past
  <2> QED BY <2>1, <2>2, OthersRebaseNothing
<1>2. ASSUME NEW l \in Lib, so_load(l) PROVE Rebased'
  BY <1>2, OtherCall DEF so_load
<1>3. ASSUME NEW l \in Lib, so_relocate(l) PROVE Rebased'
  BY <1>3, RelocateRebases
<1>4. ASSUME NEW l \in Lib, so_resolve(l) PROVE Rebased'
  BY <1>4, OtherCall DEF so_resolve
<1>5. ASSUME NEW l \in Lib, so_finalize(l) PROVE Rebased'
  BY <1>5, OtherCall DEF so_finalize
<1>6. ASSUME NEW l \in Lib, so_flush_caches(l) PROVE Rebased'
  BY <1>6, OtherCall DEF so_flush_caches
<1>7. ASSUME NEW l \in Lib, so_free_temp(l) PROVE Rebased'
  BY <1>7, OtherCall DEF so_free_temp
<1>8. CASE resolve_entry_points
  BY <1>8, OtherCall DEF resolve_entry_points, Lib
<1>9. ASSUME NEW l \in Lib, so_execute_init_array(l) PROVE Rebased'
  <2>1. Left = TurnOf("init", l) /\ Left' = Left - 1 /\ UNCHANGED <<image, rebased>>
    BY <1>9, OneCallLess DEF so_execute_init_array, LoaderInv
  <2>2. Left \in {3, 4}
    BY <2>1 DEF TurnOf, Lib
  <2>3. \A k \in Lib : ~(Left' >= TurnOf("relocate", k)) /\ Past(TurnOf("relocate", k))
    BY <2>1, <2>2, TurnRange DEF Past
  <2> QED BY <2>1, <2>3, OthersRebaseNothing
<1>10. CASE fatal_error
  <2>1. todo' = <<>> /\ UNCHANGED <<image, rebased, ran>>
    BY <1>10 DEF fatal_error
  <2>2. Left' = 0
    BY <2>1 DEF Left
  <2>3. \A k \in Lib : ~(Left' >= TurnOf("relocate", k))
                       /\ (Past(TurnOf("relocate", k))' => Past(TurnOf("relocate", k)))
    BY <2>1, <2>2, TurnRange DEF Past
  <2> QED BY <2>1, <2>3, OthersRebaseNothing
<1> QED BY <1>1, <1>2, <1>3, <1>4, <1>5, <1>6, <1>7, <1>8, <1>9, <1>10 DEF LoaderNext

\* For every set of words and every width of a bitmap: when constructors run, each
\* word that RELR names was moved once, and no other.
THEOREM EachMovedOnce == LoaderSpec => []RelativesOnce
<1>1. LoaderInit => Rebased
  <2> SUFFICES ASSUME LoaderInit PROVE Rebased
    OBVIOUS
  <2>1. LoaderInv
    BY LoaderStart
  <2>2. Left = 15 /\ ran = <<>>
    BY DEF LoaderInit, load_two_modules, Left
  <2>3. \A l \in Lib : ~Past(TurnOf("relocate", l))
    BY <2>2, TurnRange DEF Past
  <2> QED BY <2>3 DEF LoaderInit, Rebased
<1>2. Rebased => RelativesOnce
  <2> SUFFICES ASSUME Rebased, ran # <<>>, NEW l \in Lib, NEW w \in Word
               PROVE  rebased[l][w] = IF w \in image[l].relative THEN 1 ELSE 0
    BY DEF RelativesOnce
  <2>1. Past(TurnOf("relocate", l))
    BY DEF Past
  <2> QED BY <2>1 DEF Rebased
<1> QED BY <1>1, <1>2, RebasedStep, LoaderCorrect, PTL DEF LoaderSpec
================================================================================
