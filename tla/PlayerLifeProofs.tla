--------------------------- MODULE PlayerLifeProofs ---------------------------
(***************************************************************************)
(* Proofs about PlayerLife for every number of players, slots and engine   *)
(* threads.  The invariant says who owns a player: a call under way, or    *)
(* the engine (CallsOwn); that a pump runs for an owned player only and    *)
(* has ended when its slot is cleared (PumpsOwn); and that the registry    *)
(* holds each player once and only while it is owned (SlotsOwn).           *)
(***************************************************************************)
EXTENDS PlayerLife, FiniteSetTheorems, FunctionTheorems, TLAPS

Busy(e) == call[e].at # "rest"

CallsOwn ==
    /\ ready \subseteq mem /\ refused \subseteq mem
    /\ \A e \in Engine : Busy(e) => call[e].p \in mem \ ready
    /\ \A e, f \in Engine : Busy(e) /\ Busy(f) /\ call[e].p = call[f].p => e = f

PumpsOwn ==
    /\ \A p \in Player : pump[p] # "none" => p \in mem
    /\ \A e \in Engine : call[e].at \in {"unregister", "free"} => pump[call[e].p] = "none"

SlotsOwn ==
    /\ \A i \in Slots : i >= slotCount => slots[i] = NoPlayer
    /\ \A i, j \in Slots : slots[i] = slots[j] /\ slots[i] # NoPlayer => i = j
    /\ \A i \in Slots : slots[i] # NoPlayer => slots[i] \in mem \ refused
    /\ \A i \in Slots, e \in Engine : call[e].at \in {"register", "free"} => slots[i] # call[e].p
    /\ \A e \in Engine : call[e].at = "register" => call[e].p \notin refused
    /\ \A p \in ready \ refused : \E i \in Slots : slots[i] = p

LifeInv == TypeOK /\ CallsOwn /\ PumpsOwn /\ SlotsOwn /\ peak = slotCount

-------------------------------------------------------------------------------
(* Facts about the registry and the calls. *)

\* A registry whose players differ has as many as it has slots in use: at most
\* the slots below the count, and all of them when there is no hole.
LEMMA RegisteredCount ==
  ASSUME NEW s \in [Slots -> Player \cup {NoPlayer}], NEW c \in 0..MaxPlayers,
         \A i \in Slots : i >= c => s[i] = NoPlayer,
         \A i, j \in Slots : s[i] = s[j] /\ s[i] # NoPlayer => i = j
  PROVE  LET n == Cardinality({s[i] : i \in Slots} \ {NoPlayer}) IN
         /\ n \in 0..c
         /\ (\A i \in Slots : i < c => s[i] # NoPlayer) => n = c
<1> DEFINE R == {s[i] : i \in Slots} \ {NoPlayer}
           used == {i \in Slots : s[i] # NoPlayer}
           f == [i \in used |-> s[i]]
<1>1. used \subseteq 0..(c - 1)
  BY MaxPlayersAssumption DEF Slots
<1>2. IsFiniteSet(0..(c - 1)) /\ Cardinality(0..(c - 1)) = c
  <2>1. c \in Nat /\ 0 \in Int /\ c - 1 \in Int
    BY MaxPlayersAssumption
  <2>2. /\ IsFiniteSet(0..(c - 1))
        /\ Cardinality(0..(c - 1)) = IF 0 > c - 1 THEN 0 ELSE (c - 1) - 0 + 1
    BY <2>1, FS_Interval, Zenon
  <2> QED BY <2>1, <2>2
<1>3. IsFiniteSet(used) /\ Cardinality(used) <= c /\ Cardinality(used) \in Nat
  BY <1>1, <1>2, FS_Subset, FS_CardinalityType
<1>4. ExistsBijection(used, R)
  <2>1. f \in [used -> R]
    OBVIOUS
  <2>2. \A i, j \in used : f[i] = f[j] => i = j
    OBVIOUS
  <2>3. \A p \in R : \E i \in used : f[i] = p
    OBVIOUS
  <2>4. f \in Bijection(used, R)
    BY <2>1, <2>2, <2>3, Fun_IsBij
  <2> QED BY <2>4, Fun_ExistsBij
<1>5. Cardinality(R) = Cardinality(used)
  BY <1>3, <1>4, FS_Bijection
<1>6. ASSUME \A i \in Slots : i < c => s[i] # NoPlayer
      PROVE  used = 0..(c - 1)
  BY <1>1, <1>6, MaxPlayersAssumption DEF Slots
<1>7. (\A i \in Slots : i < c => s[i] # NoPlayer) => Cardinality(used) = c
  BY <1>2, <1>6
<1>8. Cardinality(R) \in 0..c
  BY <1>3, <1>5, MaxPlayersAssumption
<1> QED BY <1>5, <1>7, <1>8

\* A call that goes on keeps its player and touches no other call.
LEMMA AdvanceEffect ==
  ASSUME TypeOK, NEW e \in Engine, NEW from, NEW to \in {"unregister", "free", "rest"},
         Advance(e, from, to)
  PROVE  /\ call' \in [Engine -> [at : {"rest", "register", "join", "unregister", "free"},
                                  p : Player \cup {NoPlayer}]]
         /\ call[e].at = from /\ call'[e].at = to
         /\ to # "rest" => call'[e].p = call[e].p
         /\ \A f \in Engine \ {e} : call'[f] = call[f]
  BY DEF Advance, TypeOK, Resting

\* Each call that begins or ends is recorded for its thread alone.
LEMMA CallEffect ==
  ASSUME TypeOK, NEW e \in Engine, NEW p \in Player \cup {NoPlayer},
         NEW at \in {"rest", "register", "join"},
         call' = [call EXCEPT ![e] = [at |-> at, p |-> p]]
  PROVE  /\ call' \in [Engine -> [at : {"rest", "register", "join", "unregister", "free"},
                                  p : Player \cup {NoPlayer}]]
         /\ call'[e].at = at /\ call'[e].p = p
         /\ \A f \in Engine \ {e} : call'[f] = call[f]
  BY DEF TypeOK
-------------------------------------------------------------------------------
(* The steps, one lemma for each that changes who owns a player. *)

LEMMA StartKept ==
  ASSUME LifeInv, NEW e \in Engine, CreateStart(e)
  PROVE  LifeInv'
<1> USE DEF LifeInv, TypeOK, CallsOwn, PumpsOwn, SlotsOwn, Busy
<1>1. PICK p \in Player \ mem :
        /\ mem' = mem \cup {p} /\ alive' = alive \cup {p}
        /\ pump' = [pump EXCEPT ![p] = "loop"]
        /\ call' = [call EXCEPT ![e] = [at |-> "register", p |-> p]]
  BY DEF CreateStart
<1>2. UNCHANGED <<slots, slotCount, ready, walk, refused, peak>> /\ call[e].at = "rest"
  BY DEF CreateStart, Resting
<1>3. /\ call'[e].at = "register" /\ call'[e].p = p
      /\ \A f \in Engine \ {e} : call'[f] = call[f]
  BY <1>1
<1>4. TypeOK'
  <2>1. device' \in BOOLEAN
    BY DEF CreateStart
  <2>2. call' \in [Engine -> [at : {"rest", "register", "join", "unregister", "free"},
                              p : Player \cup {NoPlayer}]]
    BY <1>1, CallEffect
  <2> QED BY <1>1, <1>2, <2>1, <2>2
<1>5. CallsOwn'
  BY <1>1, <1>2, <1>3
<1>6. PumpsOwn'
  BY <1>1, <1>2, <1>3
<1>7. SlotsOwn'
  BY <1>1, <1>2, <1>3, NoPlayerAssumption
<1> QED BY <1>2, <1>4, <1>5, <1>6, <1>7

LEMMA StopKept ==
  ASSUME LifeInv, NEW e \in Engine, DestroyStop(e)
  PROVE  LifeInv'
<1> USE DEF LifeInv, TypeOK, CallsOwn, PumpsOwn, SlotsOwn, Busy
<1>1. PICK p \in ready :
        /\ alive' = alive \ {p} /\ ready' = ready \ {p}
        /\ call' = [call EXCEPT ![e] = [at |-> "join", p |-> p]]
  BY DEF DestroyStop
<1>2. /\ UNCHANGED <<mem, pump, slots, slotCount, device, walk, refused, peak>>
      /\ call[e].at = "rest"
  BY DEF DestroyStop, Resting
<1>3. /\ call' \in [Engine -> [at : {"rest", "register", "join", "unregister", "free"},
                               p : Player \cup {NoPlayer}]]
      /\ call'[e].at = "join" /\ call'[e].p = p
      /\ \A f \in Engine \ {e} : call'[f] = call[f]
  BY <1>1, CallEffect
<1>4. TypeOK'
  BY <1>1, <1>2, <1>3
<1>5. CallsOwn'
  BY <1>1, <1>2, <1>3
<1>6. PumpsOwn'
  BY <1>1, <1>2, <1>3
<1>7. SlotsOwn'
  BY <1>1, <1>2, <1>3
<1> QED BY <1>2, <1>4, <1>5, <1>6, <1>7

LEMMA JoinKept ==
  ASSUME LifeInv, NEW e \in Engine, DestroyJoin(e)
  PROVE  LifeInv'
<1> USE DEF LifeInv, TypeOK, CallsOwn, PumpsOwn, SlotsOwn, Busy
<1>1. /\ pump' = [pump EXCEPT ![call[e].p] = "none"]
      /\ UNCHANGED <<mem, alive, slots, slotCount, device, ready, walk, refused, peak>>
  BY DEF DestroyJoin
<1>2. /\ call' \in [Engine -> [at : {"rest", "register", "join", "unregister", "free"},
                               p : Player \cup {NoPlayer}]]
      /\ call[e].at = "join" /\ call'[e].at = "unregister" /\ call'[e].p = call[e].p
      /\ \A f \in Engine \ {e} : call'[f] = call[f]
  BY AdvanceEffect DEF DestroyJoin
<1>3. call[e].p \in Player
  BY <1>2
<1>4. TypeOK'
  BY <1>1, <1>2, <1>3
<1>5. CallsOwn'
  <2>1. \A f \in Engine : call'[f].p = call[f].p /\ (Busy(f)' <=> Busy(f))
    BY <1>2
  <2> QED BY <1>1, <2>1
<1>6. PumpsOwn'
  BY <1>1, <1>2, <1>3
<1>7. SlotsOwn'
  <2>1. \A f \in Engine :
          /\ call'[f].p = call[f].p
          /\ call'[f].at \in {"register", "free"} => call'[f].at = call[f].at
    BY <1>2
  <2> QED BY <1>1, <2>1
<1> QED BY <1>1, <1>4, <1>5, <1>6, <1>7

LEMMA UnregisterKept ==
  ASSUME LifeInv, NEW e \in Engine, DestroyUnregister(e)
  PROVE  LifeInv'
<1> USE DEF LifeInv, TypeOK, CallsOwn, PumpsOwn, SlotsOwn, Busy
<1>1. /\ slots' = [i \in Slots |-> IF i < slotCount /\ slots[i] = call[e].p
                                     THEN NoPlayer ELSE slots[i]]
      /\ UNCHANGED <<mem, alive, pump, slotCount, device, ready, walk, refused, peak>>
  BY DEF DestroyUnregister
<1>2. /\ call' \in [Engine -> [at : {"rest", "register", "join", "unregister", "free"},
                               p : Player \cup {NoPlayer}]]
      /\ call[e].at = "unregister" /\ call'[e].at = "free" /\ call'[e].p = call[e].p
      /\ \A f \in Engine \ {e} : call'[f] = call[f]
  BY AdvanceEffect DEF DestroyUnregister
<1>3. call[e].p \in Player /\ call[e].p \notin ready
  BY <1>2
<1>4. \A i \in Slots : slots'[i] = IF slots[i] = call[e].p THEN NoPlayer ELSE slots[i]
  BY <1>1, <1>3, NoPlayerAssumption, MaxPlayersAssumption DEF Slots
<1>5. TypeOK'
  BY <1>1, <1>2
<1>6. CallsOwn'
  <2>1. \A f \in Engine : call'[f].p = call[f].p /\ (Busy(f)' <=> Busy(f))
    BY <1>2
  <2>2. UNCHANGED <<ready, mem, refused>>
    BY <1>1
  <2> QED BY <2>1, <2>2
<1>7. PumpsOwn'
  BY <1>1, <1>2
<1>8. SlotsOwn'
  BY <1>1, <1>2, <1>3, <1>4, NoPlayerAssumption
<1> QED BY <1>1, <1>5, <1>6, <1>7, <1>8

LEMMA FreeKept ==
  ASSUME LifeInv, NEW e \in Engine, DestroyFree(e)
  PROVE  LifeInv'
<1> USE DEF LifeInv, TypeOK, CallsOwn, PumpsOwn, SlotsOwn, Busy
<1>1. /\ mem' = mem \ {call[e].p} /\ refused' = refused \ {call[e].p}
      /\ UNCHANGED <<alive, pump, slots, slotCount, device, ready, walk, peak>>
  BY DEF DestroyFree
<1>2. /\ call' \in [Engine -> [at : {"rest", "register", "join", "unregister", "free"},
                               p : Player \cup {NoPlayer}]]
      /\ call[e].at = "free" /\ call'[e].at = "rest"
      /\ \A f \in Engine \ {e} : call'[f] = call[f]
  BY AdvanceEffect DEF DestroyFree
<1>3. pump[call[e].p] = "none" /\ call[e].p \notin ready
  BY <1>2
<1>4. TypeOK'
  BY <1>1, <1>2
<1>5. CallsOwn'
  BY <1>1, <1>2, <1>3
<1>6. PumpsOwn'
  BY <1>1, <1>2, <1>3
<1>7. SlotsOwn'
  <2>1. \A f \in Engine \ {e} : call'[f].p = call[f].p /\ (Busy(f)' <=> Busy(f))
    BY <1>2
  <2>2. ~Busy(e)' /\ Busy(e) /\ call[e].p \notin ready
    BY <1>2, <1>3
  <2> QED BY <1>1, <1>2, <2>1, <2>2
<1> QED BY <1>1, <1>4, <1>5, <1>6, <1>7

\* A player is registered in a hole, in a slot of its own, or in none if all
\* slots are taken; the count grows only when it is passed.
LEMMA RegisterKept ==
  ASSUME LifeInv, NEW e \in Engine, CreateRegister(e)
  PROVE  LifeInv'
<1> USE DEF LifeInv, TypeOK, CallsOwn, PumpsOwn, SlotsOwn, Busy
<1> DEFINE p == call[e].p
           holes == {i \in Slots : i < slotCount /\ slots[i] = NoPlayer}
           n == Cardinality({slots'[i] : i \in Slots} \ {NoPlayer})
<1>1. /\ call[e].at = "register" /\ ready' = ready \cup {p}
      /\ call' = [call EXCEPT ![e] = Resting]
      /\ peak' = IF n > peak THEN n ELSE peak
      /\ UNCHANGED <<mem, alive, pump, device, walk>>
  BY DEF CreateRegister
<1>2. /\ call' \in [Engine -> [at : {"rest", "register", "join", "unregister", "free"},
                               p : Player \cup {NoPlayer}]]
      /\ call'[e].at = "rest"
      /\ \A f \in Engine \ {e} : call'[f] = call[f]
  BY <1>1, CallEffect DEF Resting
<1>3. p \in Player /\ p # NoPlayer /\ p \in mem \ ready /\ p \notin refused
      /\ \A i \in Slots : slots[i] # p
  BY <1>1, NoPlayerAssumption
<1>4. CallsOwn' /\ PumpsOwn'
  <2>1. refused' \subseteq mem
    BY <1>3 DEF CreateRegister
  <2>2. CallsOwn'
    BY <1>1, <1>2, <1>3, <2>1
  <2>3. PumpsOwn'
    BY <1>1, <1>2
  <2> QED BY <2>2, <2>3
<1>5. CASE \/ refused' = refused /\ \E k \in Slots :
                /\ slots[k] = NoPlayer /\ slots' = [slots EXCEPT ![k] = p]
                /\ \/ k < slotCount /\ slotCount' = slotCount
                   \/ /\ k = slotCount /\ slotCount' = slotCount + 1
                      /\ \A i \in Slots : i < slotCount => slots[i] # NoPlayer
           \/ /\ refused' = refused \cup {p}
              /\ UNCHANGED <<slots, slotCount>>
  <2>1. SlotsOwn' /\ slots' \in [Slots -> Player \cup {NoPlayer}] /\ slotCount' \in 0..MaxPlayers
    <3>1. CASE refused' = refused \cup {p} /\ UNCHANGED <<slots, slotCount>>
      BY <1>1, <1>2, <1>3, <3>1
    <3>2. ASSUME NEW k \in Slots, refused' = refused,
                 slots[k] = NoPlayer, slots' = [slots EXCEPT ![k] = p],
                 \/ k < slotCount /\ slotCount' = slotCount
                 \/ k = slotCount /\ slotCount' = slotCount + 1
          PROVE  SlotsOwn' /\ slots' \in [Slots -> Player \cup {NoPlayer}]
                 /\ slotCount' \in 0..MaxPlayers
      <4>1. slots' \in [Slots -> Player \cup {NoPlayer}] /\ slotCount' \in 0..MaxPlayers
        BY <1>3, <3>2, MaxPlayersAssumption DEF Slots
      <4>2. slots'[k] = p /\ \A i \in Slots \ {k} : slots'[i] = slots[i]
        BY <3>2
      <4>3. \A i \in Slots : i >= slotCount' => i >= slotCount /\ i # k
        BY <3>2, MaxPlayersAssumption DEF Slots
      <4>4. ASSUME NEW q \in ready' \ refused' PROVE \E i \in Slots : slots'[i] = q
        <5>1. CASE q = p
          BY <4>2, <5>1
        <5>2. CASE q # p
          <6>1. q \in ready \ refused /\ q # NoPlayer
            BY <1>1, <3>2, <5>2, NoPlayerAssumption
          <6>2. PICK i \in Slots : slots[i] = q
            BY <6>1
          <6> QED BY <3>2, <4>2, <6>1, <6>2
        <5> QED BY <5>1, <5>2
      <4>5. \A i \in Slots, f \in Engine :
               call'[f].at \in {"register", "free"} => slots'[i] # call'[f].p
        BY <1>1, <1>2, <4>2
      <4>6. \A i, j \in Slots : slots'[i] = slots'[j] /\ slots'[i] # NoPlayer => i = j
        BY <1>3, <4>2
      <4> QED BY <1>1, <1>2, <1>3, <3>2, <4>1, <4>2, <4>3, <4>4, <4>5, <4>6
    <3> QED BY <1>5, <3>1, <3>2
  <2>2. /\ n \in 0..slotCount'
        /\ (\A i \in Slots : i < slotCount' => slots'[i] # NoPlayer) => n = slotCount'
    BY <2>1, RegisteredCount
  <2>3. peak' = slotCount'
    <3> HIDE DEF n
    <3>1. CASE slotCount' = slotCount
      BY <1>1, <2>2, <3>1
    <3>2. CASE slotCount' # slotCount
      <4>1. PICK k \in Slots :
              /\ slots' = [slots EXCEPT ![k] = p] /\ k = slotCount /\ slotCount' = slotCount + 1
              /\ \A i \in Slots : i < slotCount => slots[i] # NoPlayer
        BY <1>5, <3>2
      <4>2. \A i \in Slots : i < slotCount' => slots'[i] # NoPlayer
        BY <1>3, <4>1, MaxPlayersAssumption DEF Slots
      <4> QED BY <1>1, <2>2, <4>1, <4>2
    <3> QED BY <3>1, <3>2
  <2>4. TypeOK'
    <3>1. refused' \subseteq Player /\ ready' \subseteq Player
      BY <1>1, <1>3, <1>5
    <3> QED BY <1>1, <1>2, <2>1, <2>3, <3>1
  <2> QED BY <1>4, <2>1, <2>3, <2>4
<1>6. CASE (\E i \in holes : slots' = [slots EXCEPT ![i] = p]) /\ UNCHANGED <<slotCount, refused>>
  BY <1>5, <1>6
<1>7. CASE holes = {} /\ slotCount < MaxPlayers /\ slots' = [slots EXCEPT ![slotCount] = p]
           /\ slotCount' = slotCount + 1 /\ refused' = refused
  <2>1. slotCount \in Slots
    BY <1>7, MaxPlayersAssumption DEF Slots
  <2>2. slots[slotCount] = NoPlayer
    BY <2>1, MaxPlayersAssumption
  <2>3. \A i \in Slots : i < slotCount => slots[i] # NoPlayer
    BY <1>7
  <2> QED BY <1>5, <1>7, <2>1, <2>2, <2>3
<1>8. CASE refused' = refused \cup {p} /\ UNCHANGED <<slots, slotCount>>
  BY <1>5, <1>8
<1> QED BY <1>6, <1>7, <1>8 DEF CreateRegister

-------------------------------------------------------------------------------
(* The theorems. *)

\* Who owns a player, and what the registry holds, in every reachable state.
THEOREM LifeInvariant == Spec => []LifeInv
<1>1. Init => LifeInv
  <2> SUFFICES ASSUME Init PROVE LifeInv
    OBVIOUS
  <2>1. 0 \in 0..MaxPlayers /\ walk \in 0..MaxPlayers \cup {Idle}
    BY MaxPlayersAssumption DEF Init
  <2>2. TypeOK
    BY <2>1 DEF Init, TypeOK, Resting
  <2> QED BY <2>2 DEF Init, LifeInv, CallsOwn, PumpsOwn, SlotsOwn, Busy, Resting
<1>2. LifeInv /\ [Next]_pvars => LifeInv'
  <2> SUFFICES ASSUME LifeInv, [Next]_pvars PROVE LifeInv'
    OBVIOUS
  <2>1. ASSUME NEW p \in Player, PumpThread(p) PROVE LifeInv'
    <3>1. pump[p] # "none" /\ pump' \in [Player -> {"none", "loop", "callback", "exited"}]
          /\ \A q \in Player \ {p} : pump'[q] = pump[q]
      BY <2>1 DEF PumpThread, PumpRound, PumpReturn, LifeInv, TypeOK
    <3>2. UNCHANGED <<mem, alive, slots, slotCount, device, call, ready, walk, refused, peak>>
      BY <2>1 DEF PumpThread, PumpRound, PumpReturn
    <3>3. PumpsOwn'
      <4>1. \A e \in Engine : call[e].at \in {"unregister", "free"} =>
               call[e].p \in Player \ {p}
        BY <3>1 DEF LifeInv, TypeOK, CallsOwn, PumpsOwn, Busy
      <4>2. \A q \in Player : pump'[q] # "none" => q \in mem
        BY <3>1 DEF LifeInv, PumpsOwn
      <4> QED BY <3>1, <3>2, <4>1, <4>2 DEF LifeInv, PumpsOwn
    <3> QED BY <3>1, <3>2, <3>3 DEF LifeInv, TypeOK, CallsOwn, SlotsOwn, Busy
  <2>2. CASE AudioEnter \/ AudioMix \/ UNCHANGED pvars
    <3>1. UNCHANGED <<mem, alive, pump, slots, slotCount, device, call, ready, refused, peak>>
      BY <2>2 DEF AudioEnter, AudioMix, pvars
    <3>2. walk' \in 0..MaxPlayers \cup {Idle}
      BY <2>2, MaxPlayersAssumption DEF AudioEnter, AudioMix, pvars, LifeInv, TypeOK
    <3> QED BY <3>1, <3>2 DEF LifeInv, TypeOK, CallsOwn, PumpsOwn, SlotsOwn, Busy
  <2> QED BY <2>1, <2>2, StartKept, StopKept, JoinKept, UnregisterKept, FreeKept, RegisterKept
          DEF Next, EngineCall
<1> QED BY <1>1, <1>2, PTL DEF Spec

\* No thread touches a player that was freed: neither its pump nor the audio
\* callback, which mixes what the registry lists.
THEOREM NothingFreedIsUsed == Spec => []NoUseAfterFree
<1>1. LifeInv => NoUseAfterFree
  BY DEF LifeInv, PumpsOwn, SlotsOwn, NoUseAfterFree, Registered
<1> QED BY LifeInvariant, <1>1, PTL

\* The registry lists each player that lives once, unless it was full, and
\* uses the slots of destroyed players again.
THEOREM RegistryIsExact == Spec => []SlotsExact
<1>1. LifeInv => SlotsExact
  <2> SUFFICES ASSUME LifeInv, NEW p \in ready
               PROVE  Cardinality({i \in Slots : i < slotCount /\ slots[i] = p})
                        = IF p \in refused THEN 0 ELSE 1
    BY DEF SlotsExact, OneSlotEach, NoSlotLeak, LifeInv
  <2> DEFINE mine == {i \in Slots : i < slotCount /\ slots[i] = p}
  <2>1. p \in Player /\ p # NoPlayer
    BY NoPlayerAssumption DEF LifeInv, TypeOK
  <2>2. CASE p \in refused
    <3>1. mine = {}
      BY <2>1, <2>2 DEF LifeInv, SlotsOwn
    <3> QED BY <2>2, <3>1, FS_EmptySet
  <2>3. CASE p \notin refused
    <3>1. PICK i \in Slots : slots[i] = p
      BY <2>3 DEF LifeInv, SlotsOwn
    <3>2. i < slotCount
      BY <2>1, <3>1, MaxPlayersAssumption DEF LifeInv, SlotsOwn, TypeOK, Slots
    <3>3. mine = {i}
      BY <2>1, <3>1, <3>2 DEF LifeInv, SlotsOwn
    <3> QED BY <2>3, <3>3, FS_Singleton
  <2> QED BY <2>2, <2>3
<1> QED BY LifeInvariant, <1>1, PTL
===============================================================================
