------------------------------ MODULE PlayerRing ------------------------------
(***************************************************************************)
(* The decoupling ring of one OpenSL ES player (source/opensles.c) while   *)
(* the player lives: the pump thread that prompts BASS for audio, the SDL  *)
(* audio callback that drains the ring, and the engine thread that drives  *)
(* the player through its interfaces.  Creation and destruction are the    *)
(* subject of PlayerLife.                                                  *)
(*                                                                         *)
(* What runs under p->lock is one step.  What the code reads or writes     *)
(* outside the lock (p->playing, p->cb, p->cb_ctx) is a step of its own.   *)
(* A frame is a member of the set Frame: the width and the gain of a       *)
(* sample are not modelled here.                                           *)
(***************************************************************************)
EXTENDS Integers, Sequences

CONSTANTS Frame,      \* audio frames the engine renders
          Silence,    \* what calloc leaves in the ring
          Rate,       \* p->rate: frames per second
          Burst,      \* bound: frames in one buffer that BASS enqueues
          MaxPrime,   \* bound: frames enqueued outside the callback
          Period,     \* frames per SDL callback (want.samples)
          Callback,   \* the callbacks an engine registers, each with a context
          NoCb        \* a NULL callback, and its context

ASSUME SilenceAssumption == Silence \notin Frame
ASSUME RateAssumption   == Rate \in Nat \ {0}
ASSUME BurstAssumption  == Burst \in Nat \ {0}
ASSUME PrimeAssumption  == MaxPrime \in Nat
ASSUME PeriodAssumption == Period \in Nat \ {0}
ASSUME CallbackAssumption == NoCb \notin Callback

Cap    == Rate            \* ring_cap: one second of frames
Target == Rate \div 3     \* the fill the pump aims at, about 330 ms

VARIABLES
    ring, head, count,    \* p->ring, p->ring_head, p->ring_count
    playing,              \* p->playing
    cb, ctx,              \* p->cb, p->cb_ctx: the registration they come from
    pump,                 \* where the pump thread is in its loop
    fill,                 \* the pump's local: ring_count before the prompt
    misses,               \* the pump's local, saturated at MissCap
    mixer,                \* where the audio callback is in mix_player
    engine,               \* "free", or inside RegisterCallback
    disturbed,            \* history: a registration overlaps the pump's round
    out,                  \* history: the frames mixed last
    lost,                 \* history: bq_Enqueue ever dropped a frame
    called,               \* <<cb, ctx>> as the pump loads them for a prompt
    primed,               \* history: frames enqueued outside the callback
    late                  \* history: prompts and drains since it was stopped

ringVars   == <<ring, head, count, lost>>
engineVars == <<playing, cb, ctx, engine, primed>>
pumpVars   == <<pump, fill, misses, called>>
mixVars    == <<mixer, out>>
vars == <<ringVars, engineVars, pumpVars, mixVars, late, disturbed>>

MissCap == 3              \* bound: the code only tells misses < 3 from the rest
LateCap == 2              \* bound: saturates the late history

Lesser(a, b) == IF a <= b THEN a ELSE b

Buffers(longest) == UNION {[1..n -> Frame] : n \in 0..longest}

Slot(i) == i % Cap

NoLate == [prompt |-> 0, drain |-> 0]

Init ==
    /\ ring = [i \in 0..(Cap - 1) |-> Silence] /\ head = 0 /\ count = 0
    /\ playing = FALSE /\ cb = NoCb /\ ctx = NoCb
    /\ pump = "top" /\ fill = 0 /\ misses = 0
    /\ mixer = "idle" /\ engine = "free"
    /\ out = <<>> /\ lost = FALSE /\ called = <<NoCb, NoCb>>
    /\ primed = 0 /\ late = NoLate /\ disturbed = FALSE

-------------------------------------------------------------------------------
(* The buffer queue interface. *)

\* Mutant: the tail is computed from ring_count alone.
bq_Enqueue_ForgetsHead(s) ==
    LET n == Lesser(Len(s), Cap - count)
        place(k) == Slot(k + Cap - Slot(count)) + 1
    IN  /\ ring' = [k \in 0..(Cap - 1) |->
                      IF place(k) <= n THEN s[place(k)] ELSE ring[k]]
        /\ count' = count + n
        /\ head' = head
        /\ lost' = (lost \/ n < Len(s))

\* The slot a frame of s goes to is the one its distance from the tail says.
bq_Enqueue(s) ==
    LET n == Lesser(Len(s), Cap - count)
        place(k) == Slot(k + Cap - Slot(head + count)) + 1
    IN  /\ ring' = [k \in 0..(Cap - 1) |->
                      IF place(k) <= n THEN s[place(k)] ELSE ring[k]]
        /\ count' = count + n
        /\ head' = head
        /\ lost' = (lost \/ n < Len(s))

bq_Clear ==
    /\ engine = "free"
    /\ head' = 0 /\ count' = 0
    /\ UNCHANGED <<ring, lost, engineVars, pumpVars, mixVars, late, disturbed>>

\* p->cb and p->cb_ctx are stored one after the other with no lock, at any time
\* and whatever the pump is doing; a callback may also be replaced or withdrawn.
RegisterCb ==
    /\ engine = "free"
    /\ cb' \in Callback \cup {NoCb}
    /\ engine' = "register" /\ disturbed' = (pump \notin {"top", "look"})
    /\ UNCHANGED <<ringVars, playing, ctx, primed, pumpVars, mixVars, late>>

RegisterCtx ==
    /\ engine = "register"
    /\ ctx' = cb
    /\ engine' = "free" /\ disturbed' = (pump \notin {"top", "look"})
    /\ UNCHANGED <<ringVars, playing, cb, primed, pumpVars, mixVars, late>>

\* The engine may queue audio outside the callback, before or while it plays.
Prime ==
    /\ engine = "free"
    /\ \E s \in Buffers(Lesser(Burst, MaxPrime - primed)) :
          /\ bq_Enqueue(s)
          /\ primed' = primed + Len(s)
    /\ UNCHANGED <<playing, cb, ctx, engine, pumpVars, mixVars, late, disturbed>>

play_SetPlayState ==
    /\ engine = "free"
    /\ \E on \in BOOLEAN :
          /\ playing' = on
          /\ late' = IF on = playing THEN late ELSE NoLate
    /\ UNCHANGED <<ringVars, cb, ctx, engine, primed, pumpVars, mixVars, disturbed>>

EngineStep == bq_Clear \/ RegisterCb \/ RegisterCtx \/ Prime \/ play_SetPlayState

-------------------------------------------------------------------------------
(* The pump thread. *)

Overdue(kind) == IF playing THEN late
                 ELSE [late EXCEPT ![kind] = Lesser(@ + 1, LateCap)]

\* p->playing and p->cb are read without the lock, in this order.
PumpTop ==
    /\ pump = "top"
    /\ IF ~playing THEN misses' = 0 /\ pump' = "top"
                   ELSE misses' = misses /\ pump' = "look"
    /\ UNCHANGED <<ringVars, engineVars, fill, called, mixVars, late, disturbed>>

\* Mutant: the pump does not look whether a callback is registered.
PumpLook_IgnoresNull ==
    /\ pump = "look"
    /\ misses' = misses /\ pump' = "fill"
    /\ disturbed' = (engine = "register")
    /\ UNCHANGED <<ringVars, engineVars, fill, called, mixVars, late>>

PumpLook ==
    /\ pump = "look"
    /\ IF cb = NoCb THEN misses' = 0 /\ pump' = "top"
                    ELSE misses' = misses /\ pump' = "fill"
    /\ disturbed' = (engine = "register")
    /\ UNCHANGED <<ringVars, engineVars, fill, called, mixVars, late>>

\* Mutant: the pump is content one frame below the target.
PumpFill_OffByOne ==
    /\ pump = "fill"
    /\ fill' = count
    /\ IF count >= Target - 1
         THEN misses' = 0 /\ pump' = "top"
         ELSE misses' = misses /\ pump' = "prompt"
    /\ UNCHANGED <<ringVars, engineVars, called, mixVars, late, disturbed>>

PumpFill ==
    /\ pump = "fill"
    /\ fill' = count
    /\ IF count >= Target
         THEN misses' = 0 /\ pump' = "top"
         ELSE misses' = misses /\ pump' = "prompt"
    /\ UNCHANGED <<ringVars, engineVars, called, mixVars, late, disturbed>>

\* p->cb(&p->bq_vt, p->cb_ctx): C leaves open which of the two is loaded first.
PumpPrompt ==
    /\ \/ /\ pump \in {"prompt", "ctx_loaded"}
          /\ called' = [called EXCEPT ![1] = cb]
          /\ pump' = IF pump = "prompt" THEN "cb_loaded" ELSE "callback"
       \/ /\ pump \in {"prompt", "cb_loaded"}
          /\ called' = [called EXCEPT ![2] = ctx]
          /\ pump' = IF pump = "prompt" THEN "ctx_loaded" ELSE "callback"
    /\ late' = IF pump' = "callback" THEN Overdue("prompt") ELSE late
    /\ UNCHANGED <<ringVars, engineVars, fill, misses, mixVars, disturbed>>

\* BASS's callback: it renders and enqueues one buffer, or has nothing to give.
\* A call through NULL never returns.
BassCallback ==
    /\ pump = "callback" /\ called[1] # NoCb
    /\ \E s \in Buffers(Burst) : bq_Enqueue(s)
    /\ pump' = "refill" /\ called' = <<NoCb, NoCb>>
    /\ UNCHANGED <<engineVars, fill, misses, mixVars, late, disturbed>>

\* Mutant: after a prompt that made progress the pump prompts again at once.
PumpRefill_KeepsPrompting ==
    /\ pump = "refill"
    /\ misses' = IF count > fill THEN 0 ELSE Lesser(misses + 1, MissCap)
    /\ pump' = IF count > fill /\ playing THEN "prompt" ELSE "top"
    /\ UNCHANGED <<ringVars, engineVars, fill, called, mixVars, late, disturbed>>

\* Mutant: the pump looks at the play state before its loop only.
PumpRefill_SkipsPlayState ==
    /\ pump = "refill"
    /\ misses' = IF count > fill THEN 0 ELSE Lesser(misses + 1, MissCap)
    /\ pump' = "fill"
    /\ UNCHANGED <<ringVars, engineVars, fill, called, mixVars, late, disturbed>>

PumpRefill ==
    /\ pump = "refill"
    /\ misses' = IF count > fill THEN 0 ELSE Lesser(misses + 1, MissCap)
    /\ pump' = "top"
    /\ UNCHANGED <<ringVars, engineVars, fill, called, mixVars, late, disturbed>>

pump_thread ==
    PumpTop \/ PumpLook \/ PumpFill \/ PumpPrompt \/ BassCallback \/ PumpRefill

-------------------------------------------------------------------------------
(* The SDL audio callback, for this player. *)

\* mix_player looks at p->playing before it takes the lock.
MixCheck ==
    /\ mixer = "idle"
    /\ playing
    /\ mixer' = "drain"
    /\ UNCHANGED <<ringVars, engineVars, pumpVars, out, late, disturbed>>

MixDrain ==
    /\ mixer = "drain"
    /\ LET n == Lesser(count, Period) IN
          /\ out' = [i \in 1..n |-> ring[Slot(head + i - 1)]]
          /\ head' = Slot(head + n)
          /\ count' = count - n
    /\ late' = Overdue("drain")
    /\ mixer' = "idle"
    /\ UNCHANGED <<ring, lost, engineVars, pumpVars, disturbed>>

mix_player == MixCheck \/ MixDrain

-------------------------------------------------------------------------------
Next == EngineStep \/ pump_thread \/ mix_player

\* Both threads run for ever: the pump sleeps a few milliseconds between its
\* rounds and SDL calls the mixer for every period of the device.  BASS's
\* callback returns.  The engine owes nothing.
Fairness == WF_vars(pump_thread) /\ WF_vars(mix_player)

Spec == Init /\ [][Next]_vars /\ Fairness

-------------------------------------------------------------------------------
(* Properties. *)

TypeOK ==
    /\ ring \in [0..(Cap - 1) -> Frame \cup {Silence}]
    /\ head \in 0..(Cap - 1) /\ count \in 0..Cap
    /\ playing \in BOOLEAN /\ cb \in Callback \cup {NoCb} /\ ctx \in Callback \cup {NoCb}
    /\ pump \in {"top", "look", "fill", "prompt", "cb_loaded", "ctx_loaded",
                 "callback", "refill"}
    /\ fill \in 0..Cap /\ misses \in 0..MissCap
    /\ mixer \in {"idle", "drain"} /\ engine \in {"free", "register"}
    /\ out \in UNION {[1..n -> Frame \cup {Silence}] : n \in 0..Period}
    /\ lost \in BOOLEAN
    /\ called \in (Callback \cup {NoCb}) \X (Callback \cup {NoCb})
    /\ primed \in 0..MaxPrime /\ disturbed \in BOOLEAN
    /\ late \in [{"prompt", "drain"} -> 0..LateCap]

\* The room the pump leaves above its target takes one buffer of BASS and all
\* that the engine queues on its own.
Paced == (Target - 1) + Burst + MaxPrime <= Cap

\* bq_Enqueue never reaches its "ring full: drop excess": the pump paces the
\* engine, whatever the mixer, the engine thread and bq_Clear do in between.
NoDrop == Paced => ~lost

\* A registration is torn by at most the one round of the pump that is under way
\* when it is made: a round that looks at p->cb when bq_RegisterCallback has
\* returned, and meets no other, calls the callback in force with the context of
\* the same registration, and never NULL.  A round that a registration overlaps
\* (disturbed) may call a callback with the context of another, or through NULL:
\* nothing in the code keeps the two stores apart from the pump.
CallbackPairCoherent ==
    pump = "callback" /\ ~disturbed => called = <<cb, ctx>> /\ cb = ctx /\ cb # NoCb

\* After SetPlayState takes a player out of PLAYING the engine is prompted at
\* most once more and the mixer drains at most one more period: both threads
\* look at p->playing again before they go round.
AtMostOneLate == late.prompt <= 1 /\ late.drain <= 1

Buffered == [i \in 1..count |-> ring[Slot(head + i - 1)]]

Fifo == INSTANCE AudioFifo WITH
            Capacity <- Cap, Longest <- Burst,
            queue <- Buffered, block <- out

\* The frames come out of the mixer in the order BASS enqueued them, none
\* twice, none of the calloc'd silence, and none missing unless the ring was
\* full: the ring with its wrapping indices is a bounded FIFO.
RingIsFifo == Fifo!FifoSpec

\* A playing player whose ring is below the target gets its engine prompted,
\* or fills up, stops or loses its callback by other means.
LowRingIsPrompted ==
    (playing /\ cb # NoCb /\ count < Target)
        ~> (pump = "callback" \/ ~playing \/ cb = NoCb \/ count >= Target)
===============================================================================
