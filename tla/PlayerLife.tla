------------------------------- MODULE PlayerLife -------------------------------
(***************************************************************************)
(* Creation and destruction of OpenSL ES players (source/opensles.c):      *)
(* engine threads create and destroy players, each player has a pump       *)
(* thread that starts before the player is registered, and the SDL audio   *)
(* callback walks the registry g_players[] under g_reg_lock.  What a       *)
(* living player does with its ring is the subject of PlayerRing.          *)
(*                                                                         *)
(* A player is its address: a freed one may be allocated again.  Creating  *)
(* and destroying are several steps; what runs under g_reg_lock is one     *)
(* step for an engine thread, while the audio callback holds the lock      *)
(* across its walk.                                                        *)
(***************************************************************************)
EXTENDS Naturals, FiniteSets

CONSTANTS Player,       \* addresses calloc may return for a Player
          NoPlayer,     \* a NULL slot
          Engine,       \* engine threads that create and destroy players
          MaxPlayers    \* MAX_PLAYERS

ASSUME NoPlayerAssumption == NoPlayer \notin Player
ASSUME MaxPlayersAssumption == MaxPlayers \in Nat \ {0}

VARIABLES
    mem,          \* the players that are allocated
    alive,        \* p->alive
    pump,         \* where each pump thread is
    slots,        \* g_players[]
    slotCount,    \* g_player_count
    device,       \* whether g_dev is open
    call,         \* what each engine thread is doing, and to which player
    ready,        \* players returned by CreateAudioPlayer, not being destroyed
    walk,         \* the index the audio callback is at, or Idle
    refused,      \* history: players the registry had no slot for
    peak          \* history: the most players registered at once

pvars == <<mem, alive, pump, slots, slotCount, device, call, ready, walk, refused, peak>>

Slots == 0..(MaxPlayers - 1)
Idle  == MaxPlayers + 1       \* g_reg_lock is free; the callback sleeps

Resting == [at |-> "rest", p |-> NoPlayer]

LockFree == walk = Idle

Registered == {slots[i] : i \in Slots} \ {NoPlayer}

Init ==
    /\ mem = {} /\ alive = {} /\ pump = [p \in Player |-> "none"]
    /\ slots = [i \in Slots |-> NoPlayer] /\ slotCount = 0
    /\ device = FALSE
    /\ call = [e \in Engine |-> Resting] /\ ready = {}
    /\ walk = Idle
    /\ refused = {} /\ peak = 0

-------------------------------------------------------------------------------
(* eng_CreateAudioPlayer *)

\* Allocate the player and its ring, open the device if that succeeds, and
\* start the pump: all before any other thread knows of the player.
CreateStart(e) ==
    /\ call[e] = Resting
    /\ \E p \in Player \ mem :
          /\ mem' = mem \cup {p}
          /\ alive' = alive \cup {p}
          /\ pump' = [pump EXCEPT ![p] = "loop"]
          /\ call' = [call EXCEPT ![e] = [at |-> "register", p |-> p]]
    /\ device' \in {device, TRUE}
    /\ UNCHANGED <<slots, slotCount, ready, walk, refused, peak>>

\* Mutant: the registry always grows, holes are not reused.
CreateRegister_NoReuse(e) ==
    LET p == call[e].p IN
    /\ call[e].at = "register" /\ LockFree
    /\ IF slotCount < MaxPlayers
         THEN /\ slots' = [slots EXCEPT ![slotCount] = p]
              /\ slotCount' = slotCount + 1
              /\ refused' = refused
         ELSE /\ refused' = refused \cup {p}
              /\ UNCHANGED <<slots, slotCount>>
    /\ peak' = LET n == Cardinality({slots'[i] : i \in Slots} \ {NoPlayer})
               IN  IF n > peak THEN n ELSE peak
    /\ ready' = ready \cup {p}
    /\ call' = [call EXCEPT ![e] = Resting]
    /\ UNCHANGED <<mem, alive, pump, device, walk>>

\* The first hole below g_player_count, else a new slot, else none: the call
\* succeeds all the same.
CreateRegister(e) ==
    LET p     == call[e].p
        holes == {i \in Slots : i < slotCount /\ slots[i] = NoPlayer}
    IN
    /\ call[e].at = "register" /\ LockFree
    /\ \/ /\ \E i \in holes : /\ \A j \in holes : i <= j
                              /\ slots' = [slots EXCEPT ![i] = p]
          /\ UNCHANGED <<slotCount, refused>>
       \/ /\ holes = {} /\ slotCount < MaxPlayers
          /\ slots' = [slots EXCEPT ![slotCount] = p]
          /\ slotCount' = slotCount + 1
          /\ refused' = refused
       \/ /\ holes = {} /\ slotCount = MaxPlayers
          /\ refused' = refused \cup {p}
          /\ UNCHANGED <<slots, slotCount>>
    /\ peak' = LET n == Cardinality({slots'[i] : i \in Slots} \ {NoPlayer})
               IN  IF n > peak THEN n ELSE peak
    /\ ready' = ready \cup {p}
    /\ call' = [call EXCEPT ![e] = Resting]
    /\ UNCHANGED <<mem, alive, pump, device, walk>>

-------------------------------------------------------------------------------
(* player_Destroy *)

Advance(e, from, to) ==
    /\ call[e].at = from
    /\ call' = [call EXCEPT ![e] = IF to = "rest" THEN Resting ELSE [@ EXCEPT !.at = to]]

\* The engine destroys a player it was given, once.
DestroyStop(e) ==
    /\ call[e] = Resting
    /\ \E p \in ready :
          /\ alive' = alive \ {p}
          /\ ready' = ready \ {p}
          /\ call' = [call EXCEPT ![e] = [at |-> "join", p |-> p]]
    /\ UNCHANGED <<mem, pump, slots, slotCount, device, walk, refused, peak>>

\* Mutant: the pump is told to stop but not waited for.
DestroyJoin_NoWait(e) ==
    /\ Advance(e, "join", "unregister")
    /\ UNCHANGED <<mem, alive, pump, slots, slotCount, device, ready, walk, refused, peak>>

\* SDL_WaitThread
DestroyJoin(e) ==
    /\ Advance(e, "join", "unregister")
    /\ pump[call[e].p] = "exited"
    /\ pump' = [pump EXCEPT ![call[e].p] = "none"]
    /\ UNCHANGED <<mem, alive, slots, slotCount, device, ready, walk, refused, peak>>

DestroyUnregister(e) ==
    /\ Advance(e, "unregister", "free") /\ LockFree
    /\ slots' = [i \in Slots |-> IF i < slotCount /\ slots[i] = call[e].p
                                   THEN NoPlayer ELSE slots[i]]
    /\ UNCHANGED <<mem, alive, pump, slotCount, device, ready, walk, refused, peak>>

DestroyFree(e) ==
    /\ Advance(e, "free", "rest")
    /\ mem' = mem \ {call[e].p}
    /\ refused' = refused \ {call[e].p}
    /\ UNCHANGED <<alive, pump, slots, slotCount, device, ready, walk, peak>>

EngineCall(e) == DestroyJoin(e) \/ DestroyUnregister(e) \/ DestroyFree(e) \/ CreateRegister(e)

-------------------------------------------------------------------------------
(* The pump threads and the audio callback. *)

\* Mutant: the pump keeps a copy of p->alive (no volatile) and never stops.
PumpRound_StaleAlive(p) ==
    /\ pump[p] = "loop"
    /\ pump' = [pump EXCEPT ![p] = "callback"]
    /\ UNCHANGED <<mem, alive, slots, slotCount, device, call, ready, walk, refused, peak>>

\* while (p->alive): a round that prompts the engine, or the end of the thread.
PumpRound(p) ==
    /\ pump[p] = "loop"
    /\ pump' = [pump EXCEPT ![p] = IF p \in alive THEN "callback" ELSE "exited"]
    /\ UNCHANGED <<mem, alive, slots, slotCount, device, call, ready, walk, refused, peak>>

PumpReturn(p) ==
    /\ pump[p] = "callback"
    /\ pump' = [pump EXCEPT ![p] = "loop"]
    /\ UNCHANGED <<mem, alive, slots, slotCount, device, call, ready, walk, refused, peak>>

PumpThread(p) == PumpRound(p) \/ PumpReturn(p)

\* SDL calls the callback, which takes g_reg_lock ...
AudioEnter ==
    /\ device /\ walk = Idle
    /\ walk' = 0
    /\ UNCHANGED <<mem, alive, pump, slots, slotCount, device, call, ready, refused, peak>>

\* ... mixes the player of each slot in turn, and releases the lock.
AudioMix ==
    /\ walk # Idle
    /\ walk' = IF walk < slotCount THEN walk + 1 ELSE Idle
    /\ UNCHANGED <<mem, alive, pump, slots, slotCount, device, call, ready, refused, peak>>

-------------------------------------------------------------------------------
Next ==
    \/ \E e \in Engine : CreateStart(e) \/ DestroyStop(e) \/ EngineCall(e)
    \/ \E p \in Player : PumpThread(p)
    \/ AudioEnter \/ AudioMix

\* A thread that can run does.  The audio callback holds g_reg_lock for a small
\* part of each period, so a thread that waits for the lock gets it.  A call
\* that was made is finished; no call need be made.
Fairness ==
    /\ \A p \in Player : WF_pvars(PumpThread(p))
    /\ WF_pvars(AudioEnter) /\ WF_pvars(AudioMix)
    /\ \A e \in Engine : SF_pvars(EngineCall(e))

Spec == Init /\ [][Next]_pvars /\ Fairness

-------------------------------------------------------------------------------
(* Properties. *)

TypeOK ==
    /\ mem \subseteq Player /\ alive \subseteq Player /\ ready \subseteq Player
    /\ pump \in [Player -> {"none", "loop", "callback", "exited"}]
    /\ slots \in [Slots -> Player \cup {NoPlayer}] /\ slotCount \in 0..MaxPlayers
    /\ device \in BOOLEAN
    /\ call \in [Engine -> [at : {"rest", "register", "join", "unregister", "free"},
                            p : Player \cup {NoPlayer}]]
    /\ walk \in 0..MaxPlayers \cup {Idle}
    /\ refused \subseteq Player /\ peak \in 0..MaxPlayers

\* No thread touches a player after free(p): a pump thread that still runs and
\* a slot the audio callback may mix both belong to an allocated player.
NoUseAfterFree ==
    /\ \A p \in Player : pump[p] # "none" => p \in mem
    /\ Registered \subseteq mem

\* A player is mixed by the callback exactly once: from CreateAudioPlayer to
\* Destroy it has one slot, below g_player_count, unless the registry was full
\* when it was created.
OneSlotEach ==
    \A p \in ready :
       Cardinality({i \in Slots : i < slotCount /\ slots[i] = p})
          = IF p \in refused THEN 0 ELSE 1

\* The registry never grows beyond the players that lived at once: slots of
\* destroyed players are used again.
NoSlotLeak == slotCount = peak

\* The registry lists the players that are to be mixed, each in one slot, and
\* no slot is lost, in whatever order two threads create and destroy them.
SlotsExact == OneSlotEach /\ NoSlotLeak

\* Destroy returns: the pump leaves its loop and the audio callback lets go of
\* the registry.
DestroyReturns == \A e \in Engine : call[e].at = "join" ~> call[e] = Resting
================================================================================
