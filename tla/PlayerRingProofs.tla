--------------------------- MODULE PlayerRingProofs ---------------------------
(***************************************************************************)
(* Proofs about PlayerRing for every rate, buffer length, period and set   *)
(* of frames.  The inductive invariant adds to the type invariant why the  *)
(* pump paces the engine (Pacing), why a round of the pump that no         *)
(* registration overlaps calls the one in force (Pairing) and why each     *)
(* thread overruns a stop at most once (Straggling).                       *)
(*                                                                         *)
(* And a proof that the ring implements AudioFifo: what lies between head  *)
(* and tail, read with wrapping indices, is the queue.  A buffer appends   *)
(* to it, the mixer takes from its front, bq_Clear empties it.             *)
(***************************************************************************)
EXTENDS PlayerRing, SequenceTheorems, TLAPS

\* Where the pump is while a prompt is under way.
Prompting == {"prompt", "cb_loaded", "ctx_loaded", "callback"}

\* While a prompt is under way the ring holds less than the target plus what
\* the engine queued by itself; once it is answered, at most one buffer more.
Pacing ==
    Paced =>
      /\ ~lost
      /\ count <= (Target - 1) + Burst + primed
      /\ pump \in Prompting => count <= (Target - 1) + primed

\* Between two registrations callback and context belong together.  In a round
\* that none overlaps, the pump has seen the callback in force, and what it has
\* loaded so far is of that registration.
Pairing ==
    /\ engine = "free" => cb = ctx
    /\ pump \notin {"top", "look"} /\ ~disturbed => engine = "free" /\ cb # NoCb
    /\ ~disturbed /\ pump \in {"cb_loaded", "callback"} => called[1] = cb
    /\ ~disturbed /\ pump \in {"ctx_loaded", "callback"} => called[2] = ctx

\* A thread that overran a stop has gone back to where it looks at p->playing.
Straggling ==
    /\ late.prompt <= 1 /\ late.drain <= 1
    /\ late.prompt > 0 => ~playing /\ pump \in {"callback", "refill", "top"}
    /\ late.drain > 0 => ~playing /\ mixer = "idle"

IInv == TypeOK /\ Pacing /\ Pairing /\ Straggling

-------------------------------------------------------------------------------
(* Facts about the operators. *)

\* The target and the capacity of a ring are natural numbers and the capacity
\* is positive, whatever the rate.
LEMMA RateFacts == Cap \in Nat \ {0} /\ Target \in Nat
  BY RateAssumption DEF Cap, Target

\* An index taken modulo ring_cap names a slot of the ring.
LEMMA SlotInRing == \A i \in Int : Slot(i) \in 0..(Cap - 1)
  BY RateFacts DEF Slot

\* A buffer is a sequence of frames no longer than its bound.
LEMMA BufferFacts ==
  ASSUME NEW longest \in Nat, NEW s \in Buffers(longest)
  PROVE  /\ s \in Seq(Frame) /\ Len(s) \in 0..longest
         /\ s \in [1..Len(s) -> Frame]
<1>1. PICK n \in 0..longest : s \in [1..n -> Frame]
  BY DEF Buffers
<1>2. s \in Seq(Frame) /\ Len(s) = n
  BY <1>1
<1> QED BY <1>1, <1>2

\* bq_Enqueue keeps the ring well formed; it adds what fits, and drops a frame
\* only when the buffer exceeds the room.
LEMMA EnqueueEffect ==
  ASSUME TypeOK, NEW s \in Seq(Frame), bq_Enqueue(s)
  PROVE  /\ ring' \in [0..(Cap - 1) -> Frame \cup {Silence}]
         /\ head' = head /\ head' \in 0..(Cap - 1)
         /\ count' = count + Lesser(Len(s), Cap - count)
         /\ count' \in 0..Cap
         /\ lost' \in BOOLEAN
         /\ Len(s) <= Cap - count => lost' = lost
<1> DEFINE n == Lesser(Len(s), Cap - count)
           place(k) == Slot(k + Cap - Slot(head + count)) + 1
<1>1. Cap \in Nat \ {0} /\ head \in 0..(Cap - 1) /\ count \in 0..Cap /\ Len(s) \in Nat
  BY RateFacts DEF TypeOK
<1>2. /\ n \in 0..Len(s) /\ count + n \in 0..Cap
      /\ Len(s) <= Cap - count => ~(n < Len(s))
  BY <1>1 DEF Lesser
<1>3. ASSUME NEW k \in 0..(Cap - 1) PROVE place(k) \in Int /\ place(k) >= 1
  <2>. HIDE DEF place
  <2>1. head + count \in Int
    BY <1>1
  <2>2. Slot(head + count) \in 0..(Cap - 1)
    BY <2>1, SlotInRing
  <2>3. k + Cap - Slot(head + count) \in Int
    BY <1>1, <2>2
  <2>4. Slot(k + Cap - Slot(head + count)) \in 0..(Cap - 1)
    BY <2>3, SlotInRing
  <2> QED BY <1>1, <2>4 DEF place
<1>4. ring' = [k \in 0..(Cap - 1) |-> IF place(k) <= n THEN s[place(k)] ELSE ring[k]]
  BY DEF bq_Enqueue
<1>5. ASSUME NEW k \in 0..(Cap - 1)
      PROVE  (IF place(k) <= n THEN s[place(k)] ELSE ring[k]) \in Frame \cup {Silence}
  <2>1. CASE place(k) <= n
    <3>1. place(k) \in 1..Len(s)
      BY <1>1, <1>2, <1>3, <2>1
    <3> QED BY <2>1, <3>1
  <2>2. CASE ~(place(k) <= n)
    BY <2>2 DEF TypeOK
  <2> QED BY <2>1, <2>2
<1>6. ring' \in [0..(Cap - 1) -> Frame \cup {Silence}]
  BY <1>4, <1>5
<1>7. head' = head /\ count' = count + n /\ count' \in 0..Cap
  BY <1>2 DEF bq_Enqueue
<1>8. lost' = (lost \/ n < Len(s)) /\ lost \in BOOLEAN
  BY DEF bq_Enqueue, TypeOK
<1>9. lost' \in BOOLEAN /\ (Len(s) <= Cap - count => lost' = lost)
  BY <1>2, <1>8, Zenon
<1> QED BY <1>1, <1>6, <1>7, <1>9

-------------------------------------------------------------------------------
(* Each part of the invariant, step by step. *)

\* The initial state of a player satisfies the invariant.
LEMMA InitIInv == Init => IInv
<1> SUFFICES ASSUME Init PROVE IInv
  OBVIOUS
<1>1. TypeOK
  <2>1. 0 \in 0..(Cap - 1) /\ 0 \in 0..Cap
    BY RateFacts
  <2>2. out \in [1..0 -> Frame \cup {Silence}] /\ 0 \in 0..Period
    BY PeriodAssumption DEF Init
  <2>3. 0 \in 0..MaxPrime /\ 0 \in 0..Burst
    BY PrimeAssumption, BurstAssumption
  <2>4. late \in [{"prompt", "drain"} -> 0..LateCap]
    BY DEF Init, NoLate, LateCap
  <2>5. ring \in [0..(Cap - 1) -> Frame \cup {Silence}]
    BY DEF Init
  <2>6. /\ called \in (Callback \cup {NoCb}) \X (Callback \cup {NoCb})
        /\ cb \in Callback \cup {NoCb} /\ ctx \in Callback \cup {NoCb}
    BY DEF Init
  <2>7. out \in UNION {[1..n -> Frame \cup {Silence}] : n \in 0..Period}
    BY <2>2
  <2>8. head = 0 /\ count = 0 /\ fill = 0 /\ misses = 0
        /\ primed = 0 /\ playing = FALSE /\ lost = FALSE /\ disturbed = FALSE
        /\ pump = "top" /\ mixer = "idle" /\ engine = "free"
    BY DEF Init
  <2>9. misses \in 0..MissCap
    BY <2>8 DEF MissCap
  <2> QED BY <2>1, <2>3, <2>4, <2>5, <2>6, <2>7, <2>8, <2>9 DEF TypeOK
<1>2. Pacing
  BY RateFacts, BurstAssumption DEF Init, Pacing, Prompting
<1>3. Pairing /\ Straggling
  BY DEF Init, Pairing, Straggling, NoLate
<1> QED BY <1>1, <1>2, <1>3 DEF IInv

\* Every step keeps the types.
LEMMA TypeStep == TypeOK /\ [Next]_vars => TypeOK'
<1> SUFFICES ASSUME TypeOK, [Next]_vars PROVE TypeOK'
  OBVIOUS
<1> USE DEF ringVars, engineVars, pumpVars, mixVars
<1>1. CASE bq_Clear
  <2>1. head' \in 0..(Cap - 1) /\ count' \in 0..Cap
    BY <1>1, RateFacts DEF bq_Clear
  <2> QED BY <1>1, <2>1 DEF TypeOK, bq_Clear
<1>2. CASE RegisterCb
  <2>1. disturbed' \in BOOLEAN
    BY <1>2, Zenon DEF RegisterCb
  <2> QED BY <1>2, <2>1 DEF TypeOK, RegisterCb
<1>3. CASE RegisterCtx
  <2>1. disturbed' \in BOOLEAN
    BY <1>3, Zenon DEF RegisterCtx
  <2> QED BY <1>3, <2>1 DEF TypeOK, RegisterCtx
<1>4. CASE Prime
  <2> DEFINE longest == Lesser(Burst, MaxPrime - primed)
  <2>1. longest \in Nat /\ longest <= MaxPrime - primed
    BY PrimeAssumption, BurstAssumption DEF TypeOK, Lesser
  <2>2. PICK s \in Buffers(longest) : bq_Enqueue(s) /\ primed' = primed + Len(s)
    BY <1>4 DEF Prime
  <2> HIDE DEF longest
  <2>3. s \in Seq(Frame) /\ Len(s) \in 0..longest
    BY <2>1, <2>2, BufferFacts
  <2>4. primed' \in 0..MaxPrime
    BY <2>1, <2>2, <2>3, PrimeAssumption DEF TypeOK
  <2> QED BY <1>4, <2>2, <2>3, <2>4, EnqueueEffect DEF TypeOK, Prime
<1>5. CASE play_SetPlayState
  <2>1. late' \in [{"prompt", "drain"} -> 0..LateCap]
    BY <1>5 DEF TypeOK, play_SetPlayState, NoLate, LateCap
  <2>2. playing' \in BOOLEAN
    BY <1>5, Zenon DEF TypeOK, play_SetPlayState
  <2> QED BY <1>5, <2>1, <2>2 DEF TypeOK, play_SetPlayState
<1>6. CASE PumpTop \/ PumpLook
  <2>1. disturbed' \in BOOLEAN
    BY <1>6, Zenon DEF PumpTop, PumpLook, TypeOK
  <2> QED BY <1>6, <2>1 DEF TypeOK, PumpTop, PumpLook, MissCap
<1>7. CASE PumpFill
  BY <1>7 DEF TypeOK, PumpFill, MissCap
<1>8. CASE PumpPrompt
  <2>1. late' \in [{"prompt", "drain"} -> 0..LateCap]
    BY <1>8 DEF TypeOK, PumpPrompt, Overdue, LateCap, Lesser
  <2>2. called' \in (Callback \cup {NoCb}) \X (Callback \cup {NoCb})
    BY <1>8 DEF TypeOK, PumpPrompt
  <2>3. pump' \in {"cb_loaded", "ctx_loaded", "callback"}
    BY <1>8 DEF PumpPrompt
  <2> QED BY <1>8, <2>1, <2>2, <2>3 DEF TypeOK, PumpPrompt
<1>9. CASE BassCallback
  <2>1. PICK s \in Buffers(Burst) : bq_Enqueue(s)
    BY <1>9 DEF BassCallback
  <2>2. s \in Seq(Frame) /\ Len(s) \in 0..Burst
    BY <2>1, BufferFacts, BurstAssumption
  <2> QED BY <1>9, <2>1, <2>2, EnqueueEffect DEF TypeOK, BassCallback
<1>10. CASE PumpRefill
  BY <1>10 DEF TypeOK, PumpRefill, MissCap, Lesser
<1>11. CASE MixCheck
  BY <1>11 DEF TypeOK, MixCheck
<1>12. CASE MixDrain
  <2> DEFINE n == Lesser(count, Period)
  <2>1. n \in 0..Period /\ n \in 0..count
    BY PeriodAssumption, RateFacts DEF TypeOK, Lesser
  <2>2. out' = [i \in 1..n |-> ring[Slot(head + i - 1)]]
        /\ head' = Slot(head + n) /\ count' = count - n
    BY <1>12 DEF MixDrain
  <2> HIDE DEF n
  <2>3. ASSUME NEW i \in 1..n PROVE ring[Slot(head + i - 1)] \in Frame \cup {Silence}
    <3>1. head + i - 1 \in Int
      BY <2>1, RateFacts DEF TypeOK
    <3>2. Slot(head + i - 1) \in 0..(Cap - 1)
      BY <3>1, SlotInRing
    <3> QED BY <3>2 DEF TypeOK
  <2>4. out' \in [1..n -> Frame \cup {Silence}]
    BY <2>2, <2>3
  <2>5. head + n \in Int
    BY <2>1, RateFacts DEF TypeOK
  <2>6. head' \in 0..(Cap - 1)
    BY <2>2, <2>5, SlotInRing
  <2>7. count' \in 0..Cap
    BY <2>1, <2>2, RateFacts DEF TypeOK
  <2>8. late' \in [{"prompt", "drain"} -> 0..LateCap]
    BY <1>12 DEF TypeOK, MixDrain, Overdue, LateCap, Lesser
  <2> QED BY <1>12, <2>1, <2>4, <2>6, <2>7, <2>8 DEF TypeOK, MixDrain
<1>13. CASE UNCHANGED vars
  BY <1>13 DEF TypeOK, vars
<1> QED
  BY <1>1, <1>2, <1>3, <1>4, <1>5, <1>6, <1>7, <1>8, <1>9, <1>10, <1>11, <1>12, <1>13
     DEF Next, EngineStep, pump_thread, mix_player

\* Every step keeps the pacing bound: only the answer to a prompt lets the ring
\* grow past the target, and it finds the ring below it.
LEMMA PacingStep == TypeOK /\ Pacing /\ [Next]_vars => Pacing'
<1> SUFFICES ASSUME TypeOK, Pacing, [Next]_vars, Paced PROVE Pacing'
  BY DEF Pacing
<1> USE DEF ringVars, engineVars, pumpVars, mixVars, Prompting
<1>1. /\ Cap \in Nat /\ Target \in Nat /\ Burst \in Nat \ {0} /\ MaxPrime \in Nat
      /\ count \in 0..Cap /\ primed \in 0..MaxPrime
      /\ (Target - 1) + Burst + MaxPrime <= Cap
  BY RateFacts, BurstAssumption, PrimeAssumption DEF TypeOK, Paced
<1>2. /\ lost = FALSE
      /\ count <= (Target - 1) + Burst + primed
      /\ pump \in Prompting => count <= (Target - 1) + primed
  BY DEF Pacing, TypeOK
<1>3. SUFFICES /\ lost' = FALSE
               /\ count' <= (Target - 1) + Burst + primed'
               /\ pump' \in Prompting => count' <= (Target - 1) + primed'
  BY DEF Pacing
<1>4. CASE bq_Clear
  BY <1>1, <1>2, <1>4 DEF bq_Clear
<1>5. CASE Prime
  <2> DEFINE longest == Lesser(Burst, MaxPrime - primed)
  <2>1. longest \in Nat /\ longest <= MaxPrime - primed
    BY <1>1 DEF Lesser
  <2>2. PICK s \in Buffers(longest) : bq_Enqueue(s) /\ primed' = primed + Len(s)
    BY <1>5 DEF Prime
  <2> HIDE DEF longest
  <2>3. s \in Seq(Frame) /\ Len(s) \in 0..longest
    BY <2>1, <2>2, BufferFacts
  <2>4. Len(s) <= Cap - count
    BY <1>1, <1>2, <2>1, <2>3
  <2>5. count' = count + Len(s) /\ lost' = lost
    BY <1>1, <2>2, <2>3, <2>4, EnqueueEffect DEF Lesser
  <2>6. pump' = pump
    BY <1>5 DEF Prime
  <2> QED BY <1>1, <1>2, <2>2, <2>3, <2>5, <2>6
<1>6. CASE PumpFill
  BY <1>1, <1>2, <1>6 DEF PumpFill
<1>7. CASE BassCallback
  <2>1. PICK s \in Buffers(Burst) : bq_Enqueue(s)
    BY <1>7 DEF BassCallback
  <2>2. s \in Seq(Frame) /\ Len(s) \in 0..Burst
    BY <1>1, <2>1, BufferFacts
  <2>3. pump = "callback" /\ pump' = "refill" /\ primed' = primed
    BY <1>7 DEF BassCallback
  <2>4. Len(s) <= Cap - count
    BY <1>1, <1>2, <2>2, <2>3
  <2>5. count' = count + Len(s) /\ lost' = lost
    BY <1>1, <2>1, <2>2, <2>4, EnqueueEffect DEF Lesser
  <2> QED BY <1>1, <1>2, <2>2, <2>3, <2>5
<1>8. CASE MixDrain
  <2>1. count' <= count /\ count' \in Int
    BY <1>1, <1>8, PeriodAssumption DEF MixDrain, Lesser
  <2> QED BY <1>1, <1>2, <1>8, <2>1 DEF MixDrain
<1>9. CASE RegisterCb \/ RegisterCtx \/ play_SetPlayState \/ MixCheck \/ UNCHANGED vars
  <2>1. lost' = lost /\ count' = count /\ primed' = primed /\ pump' = pump
    BY <1>9 DEF RegisterCb, RegisterCtx, play_SetPlayState, MixCheck, vars
  <2> QED BY <1>2, <2>1
<1>10. CASE PumpTop \/ PumpLook \/ PumpPrompt \/ PumpRefill
  <2>1. /\ lost' = lost /\ count' = count /\ primed' = primed
        /\ pump' \in Prompting => pump \in Prompting
    BY <1>10 DEF PumpTop, PumpLook, PumpPrompt, PumpRefill
  <2> QED BY <1>2, <2>1
<1> QED
  BY <1>4, <1>5, <1>6, <1>7, <1>8, <1>9, <1>10
     DEF Next, EngineStep, pump_thread, mix_player

\* Every step keeps what a round has loaded to the registration in force, as long
\* as no registration overlaps it.
LEMMA PairingStep == TypeOK /\ Pairing /\ [Next]_vars => Pairing'
<1> SUFFICES ASSUME TypeOK, Pairing, [Next]_vars PROVE Pairing'
  OBVIOUS
<1> USE DEF ringVars, engineVars, pumpVars, mixVars, Pairing
<1>1. CASE RegisterCb \/ RegisterCtx
  <2>1. /\ disturbed' = (pump \notin {"top", "look"}) /\ pump' = pump
        /\ engine' = "free" => cb' = ctx'
    BY <1>1 DEF RegisterCb, RegisterCtx
  <2> QED BY <2>1
<1>2. CASE PumpTop \/ PumpFill
  BY <1>2 DEF PumpTop, PumpFill
<1>6. CASE PumpLook
  <2>1. disturbed' <=> engine = "register"
    BY <1>6, Zenon DEF PumpLook
  <2>2. /\ pump' \in {"top", "fill"} /\ UNCHANGED <<cb, ctx, engine, called>>
        /\ pump' = "fill" => cb # NoCb
    BY <1>6 DEF PumpLook
  <2>3. engine # "register" => engine = "free"
    BY DEF TypeOK
  <2> QED BY <2>1, <2>2, <2>3
<1>3. CASE PumpPrompt
  BY <1>3 DEF PumpPrompt, TypeOK
<1>4. CASE BassCallback \/ PumpRefill
  BY <1>4 DEF BassCallback, PumpRefill
<1>5. CASE bq_Clear \/ Prime \/ play_SetPlayState \/ mix_player \/ UNCHANGED vars
  <2>1. UNCHANGED <<cb, ctx, engine, pump, called, disturbed>>
    BY <1>5 DEF bq_Clear, Prime, play_SetPlayState, mix_player, MixCheck, MixDrain, vars
  <2> QED BY <2>1
<1> QED BY <1>1, <1>2, <1>3, <1>4, <1>5, <1>6 DEF Next, EngineStep, pump_thread

\* Every step keeps both threads to one late round.
LEMMA StragglingStep == TypeOK /\ Straggling /\ [Next]_vars => Straggling'
<1> SUFFICES ASSUME TypeOK, Straggling, [Next]_vars PROVE Straggling'
  OBVIOUS
<1> USE DEF ringVars, engineVars, pumpVars, mixVars, Straggling
<1>1. late \in [{"prompt", "drain"} -> 0..LateCap] /\ LateCap = 2
  BY DEF TypeOK, LateCap
<1>2. CASE play_SetPlayState
  BY <1>1, <1>2 DEF play_SetPlayState, NoLate
<1>3. CASE PumpPrompt
  BY <1>1, <1>3 DEF PumpPrompt, Overdue, Lesser, TypeOK
<1>4. CASE MixDrain
  BY <1>1, <1>4 DEF MixDrain, Overdue, Lesser, TypeOK
<1>5. CASE PumpTop \/ PumpLook \/ PumpFill \/ BassCallback \/ PumpRefill
  BY <1>1, <1>5 DEF PumpTop, PumpLook, PumpFill, BassCallback, PumpRefill
<1>6. CASE MixCheck
  BY <1>1, <1>6 DEF MixCheck
<1>7. CASE bq_Clear \/ RegisterCb \/ RegisterCtx \/ Prime \/ UNCHANGED vars
  <2>1. UNCHANGED <<playing, pump, mixer, late>>
    BY <1>7 DEF bq_Clear, RegisterCb, RegisterCtx, Prime, vars
  <2> QED BY <2>1
<1> QED
  BY <1>2, <1>3, <1>4, <1>5, <1>6, <1>7 DEF Next, EngineStep, pump_thread, mix_player

-------------------------------------------------------------------------------
(* The theorems. *)

\* The invariant holds in every reachable state of a player.
THEOREM Invariant == Spec => []IInv
<1>1. IInv /\ [Next]_vars => IInv'
  BY TypeStep, PacingStep, PairingStep, StragglingStep DEF IInv
<1> QED BY InitIInv, <1>1, PTL DEF Spec

\* A player's variables keep their types: the ring indices stay in range.
THEOREM TypeCorrect == Spec => []TypeOK
<1>1. IInv => TypeOK
  BY DEF IInv
<1> QED BY Invariant, <1>1, PTL

\* The pump paces the engine: with room above the target for one buffer and
\* for what is queued outside the callback, bq_Enqueue drops nothing.
THEOREM NothingDropped == Spec => []NoDrop
<1>1. IInv => NoDrop
  BY DEF IInv, Pacing, NoDrop
<1> QED BY Invariant, <1>1, PTL

\* A registration is torn by at most the round of the pump that is under way when
\* it is made: every round that none overlaps calls the callback in force with its
\* own context, and never NULL, however often and whenever the engine registers.
THEOREM PairCoherent == Spec => []CallbackPairCoherent
<1>1. IInv => CallbackPairCoherent
  BY DEF IInv, Pairing, CallbackPairCoherent, TypeOK
<1> QED BY Invariant, <1>1, PTL

\* After a stop each thread goes round at most once more.
THEOREM OneStraggler == Spec => []AtMostOneLate
<1>1. IInv => AtMostOneLate
  BY DEF IInv, Straggling, AtMostOneLate
<1> QED BY Invariant, <1>1, PTL

-------------------------------------------------------------------------------
(* The ring as a queue. *)

Sample == Frame \cup {Silence}

-------------------------------------------------------------------------------
(* Indices. *)

\* Up to twice the capacity, an index wraps once at most.
LEMMA SlotCases ==
  \A x \in 0..(2 * Cap - 1) : Slot(x) = IF x < Cap THEN x ELSE x - Cap
  BY RateFacts DEF Slot

\* An index that counts from a wrapped one wraps as if nothing had wrapped before.
LEMMA SlotOfSlot ==
  ASSUME NEW h \in 0..(Cap - 1), NEW i \in Nat, NEW j \in Nat, i + j < Cap
  PROVE  Slot(Slot(h + i) + j) = Slot(h + i + j)
  BY RateFacts, SlotCases

\* Where bq_Enqueue looks for the frame of the slot that is i-th from the head.
LEMMA PlaceOf ==
  ASSUME NEW h \in 0..(Cap - 1), NEW c \in 0..Cap, NEW i \in 1..Cap
  PROVE  /\ Slot(h + i - 1) \in 0..(Cap - 1)
         /\ Slot(Slot(h + i - 1) + Cap - Slot(h + c)) + 1 =
              IF i <= c THEN Cap + i - c ELSE i - c
<1>1. /\ Slot(h + i - 1) = IF h + i - 1 < Cap THEN h + i - 1 ELSE h + i - 1 - Cap
      /\ Slot(h + c) = IF h + c < Cap THEN h + c ELSE h + c - Cap
  BY RateFacts, SlotCases
<1>2. PICK k \in Int, t \in Int : k = Slot(h + i - 1) /\ t = Slot(h + c)
  BY <1>1, RateFacts
<1>3. k \in 0..(Cap - 1) /\ k + Cap - t \in 0..(2 * Cap - 1)
  BY <1>1, <1>2, RateFacts
<1>4. Slot(k + Cap - t) = IF k < t THEN k + Cap - t ELSE k - t
  BY <1>1, <1>2, <1>3, RateFacts, SlotCases
<1> QED BY <1>1, <1>2, <1>3, <1>4, RateFacts

\* The queue is a sequence as long as ring_count.
LEMMA BufferedIsSeq ==
  ASSUME TypeOK
  PROVE  Buffered \in Seq(Sample) /\ Len(Buffered) = count
<1>1. count \in Nat /\ head \in Int
  BY RateFacts DEF TypeOK
<1>2. ASSUME NEW i \in 1..count PROVE ring[Slot(head + i - 1)] \in Sample
  <2>1. head + i - 1 \in Int
    BY <1>1
  <2>2. Slot(head + i - 1) \in 0..(Cap - 1)
    BY <2>1, SlotInRing
  <2> QED BY <2>2 DEF TypeOK, Sample
<1>3. Buffered \in [1..count -> Sample]
  BY <1>2 DEF Buffered
<1> QED BY <1>1, <1>3
-------------------------------------------------------------------------------
(* The operations. *)

\* bq_Enqueue appends what fits, frame by frame, and leaves the rest in place.
LEMMA EnqueuePuts ==
  ASSUME TypeOK, NEW s \in Seq(Frame), bq_Enqueue(s)
  PROVE  Buffered' = Buffered \o SubSeq(s, 1, Lesser(Len(s), Cap - count))
<1> DEFINE n == Lesser(Len(s), Cap - count)
           added == SubSeq(s, 1, n)
           place(k) == Slot(k + Cap - Slot(head + count)) + 1
<1>1. Cap \in Nat \ {0} /\ head \in 0..(Cap - 1) /\ count \in 0..Cap /\ Len(s) \in Nat
  BY RateFacts DEF TypeOK
<1>2. n \in 0..Len(s) /\ count + n \in 0..Cap
  BY <1>1 DEF Lesser
<1>3. /\ ring' = [k \in 0..(Cap - 1) |-> IF place(k) <= n THEN s[place(k)] ELSE ring[k]]
      /\ head' = head /\ count' = count + n
  BY DEF bq_Enqueue
<1>4. Buffered' = [i \in 1..(count + n) |-> ring'[Slot(head + i - 1)]]
  BY <1>3 DEF Buffered
<1>5. Buffered \in Seq(Sample) /\ Len(Buffered) = count
  BY BufferedIsSeq
<1>6. added \in Seq(Frame) /\ Len(added) = n /\ \A i \in 1..n : added[i] = s[i]
  BY <1>1, <1>2
<1>7. added \in Seq(Sample)
  BY <1>6 DEF Sample
<1>8. /\ Buffered \o added \in Seq(Sample) /\ Len(Buffered \o added) = count + n
      /\ \A i \in 1..(count + n) : (Buffered \o added)[i] =
            IF i <= count THEN Buffered[i] ELSE added[i - count]
  BY <1>1, <1>2, <1>5, <1>6, <1>7
<1>9. ASSUME NEW i \in 1..(count + n)
      PROVE  ring'[Slot(head + i - 1)] = (Buffered \o added)[i]
  <2>1. i \in 1..Cap
    BY <1>1, <1>2
  <2>2. /\ Slot(head + i - 1) \in 0..(Cap - 1)
        /\ place(Slot(head + i - 1)) = IF i <= count THEN Cap + i - count ELSE i - count
    BY <1>1, <2>1, PlaceOf
  <2>3. ring'[Slot(head + i - 1)] = IF place(Slot(head + i - 1)) <= n
                                      THEN s[place(Slot(head + i - 1))]
                                      ELSE ring[Slot(head + i - 1)]
    BY <1>3, <2>2
  <2> HIDE DEF place, n, added
  <2>4. CASE i <= count
    <3>1. ~(place(Slot(head + i - 1)) <= n)
      BY <1>1, <1>2, <2>1, <2>2, <2>4
    <3>2. i \in 1..count
      BY <1>1, <2>1, <2>4
    <3>3. Buffered[i] = ring[Slot(head + i - 1)]
      BY <3>2 DEF Buffered
    <3> QED BY <1>8, <2>3, <2>4, <3>1, <3>3
  <2>5. CASE ~(i <= count)
    <3>1. place(Slot(head + i - 1)) = i - count
      BY <2>2, <2>5
    <3>2. i - count \in 1..n
      BY <1>1, <1>2, <2>5
    <3>3. added[i - count] = s[i - count] /\ i - count <= n
      BY <1>1, <1>2, <1>6, <3>2
    <3>4. ring'[Slot(head + i - 1)] = s[i - count]
      BY <2>3, <3>1, <3>3
    <3> QED BY <1>8, <2>5, <3>3, <3>4
  <2> QED BY <2>4, <2>5
<1>10. Buffered' \in Seq(Sample) /\ Len(Buffered') = count + n
  <2>1. count + n \in Nat
    BY <1>1, <1>2
  <2> HIDE DEF n, added
  <2>2. \A i \in 1..(count + n) : (Buffered \o added)[i] \in Sample
    BY <1>8, ElementOfSeq
  <2>3. \A i \in 1..(count + n) : ring'[Slot(head + i - 1)] \in Sample
    BY <1>9, <2>2
  <2> QED BY <1>4, <2>1, <2>3
<1>11. \A i \in 1..(count + n) : Buffered'[i] = (Buffered \o added)[i]
  <2> HIDE DEF n, added
  <2> QED BY <1>4, <1>9
<1> QED
  <2> HIDE DEF n, added
  <2>1. Buffered' = Buffered \o added
    BY <1>8, <1>10, <1>11, SeqEqual
  <2> QED BY <2>1 DEF n, added

\* MixDrain takes the oldest frames, a period of them or what there is.
LEMMA DrainTakes ==
  ASSUME TypeOK, MixDrain
  PROVE  LET n == Lesser(Period, Len(Buffered)) IN
         /\ out' = SubSeq(Buffered, 1, n)
         /\ Buffered' = SubSeq(Buffered, n + 1, Len(Buffered))
<1> DEFINE n == Lesser(count, Period)
<1>1. Cap \in Nat \ {0} /\ head \in 0..(Cap - 1) /\ count \in 0..Cap /\ Period \in Nat
  BY RateFacts, PeriodAssumption DEF TypeOK
<1>2. n \in 0..count /\ n = Lesser(Period, count)
  BY <1>1 DEF Lesser
<1>3. Buffered \in Seq(Sample) /\ Len(Buffered) = count
  BY BufferedIsSeq
<1>4. /\ out' = [i \in 1..n |-> ring[Slot(head + i - 1)]]
      /\ head' = Slot(head + n) /\ count' = count - n /\ ring' = ring
  BY DEF MixDrain
<1>5. \A i \in 1..count : Buffered[i] = ring[Slot(head + i - 1)]
  BY DEF Buffered
<1>6. out' = SubSeq(Buffered, 1, n)
  <2>1. SubSeq(Buffered, 1, n) = [i \in 1..n |-> Buffered[i]]
    BY <1>1, <1>2, <1>3
  <2>2. \A i \in 1..n : Buffered[i] = ring[Slot(head + i - 1)]
    BY <1>1, <1>2, <1>5
  <2> QED BY <1>4, <2>1, <2>2
<1>7. Buffered' = SubSeq(Buffered, n + 1, count)
  <2>1. Buffered' = [i \in 1..(count - n) |-> ring[Slot(Slot(head + n) + i - 1)]]
    BY <1>4 DEF Buffered
  <2>2. SubSeq(Buffered, n + 1, count) = [i \in 1..(count - n) |-> Buffered[i + n]]
    BY <1>1, <1>2, <1>3
  <2>3. ASSUME NEW i \in 1..(count - n)
        PROVE  ring[Slot(Slot(head + n) + i - 1)] = Buffered[i + n]
    <3>1. i - 1 \in Nat /\ n \in Nat /\ n + (i - 1) < Cap /\ i + n \in 1..count
      BY <1>1, <1>2
    <3>2. Slot(Slot(head + n) + (i - 1)) = Slot(head + n + (i - 1))
      BY <1>1, <3>1, SlotOfSlot
    <3>3. Slot(head + n) \in Int
      BY <1>1, <3>1, SlotInRing
    <3>4. Slot(head + n) + (i - 1) = Slot(head + n) + i - 1 /\ head + n + (i - 1) = head + (i + n) - 1
      BY <1>1, <3>1, <3>3
    <3> QED BY <1>5, <3>1, <3>2, <3>4
  <2> QED BY <2>1, <2>2, <2>3
<1> QED BY <1>2, <1>3, <1>6, <1>7

-------------------------------------------------------------------------------
(* The refinement. *)

\* A buffer of BASS is one that the queue may be given.
LEMMA PutStep ==
  ASSUME TypeOK, NEW longest \in 0..Burst, NEW s \in Buffers(longest), bq_Enqueue(s),
         out' = out
  PROVE  Fifo!Put
<1>1. s \in Seq(Frame) /\ Len(s) \in Nat /\ s \in Fifo!Writes
  <2>1. PICK m \in 0..longest : s \in [1..m -> Frame]
    BY DEF Buffers
  <2>2. m \in 0..Burst
    BY <2>1, BurstAssumption
  <2> QED BY <2>1, <2>2 DEF Fifo!Writes
<1>2. Len(Buffered) = count /\ count \in 0..Cap /\ Cap \in Nat
  BY BufferedIsSeq, RateFacts DEF TypeOK
<1>3. Buffered' = Buffered \o SubSeq(s, 1, Fifo!Lesser(Len(s), Cap - Len(Buffered)))
  BY <1>1, <1>2, EnqueuePuts DEF Fifo!Lesser, Lesser
<1>4. lost' = (lost \/ Lesser(Len(s), Cap - count) < Len(s))
  BY DEF bq_Enqueue
<1>5. (Lesser(Len(s), Cap - count) < Len(s)) <=> (Len(s) > Cap - Len(Buffered))
  BY <1>1, <1>2 DEF Lesser
<1>6. lost' = (lost \/ Len(s) > Cap - Len(Buffered))
  BY <1>4, <1>5
<1> QED BY <1>1, <1>3, <1>6 DEF Fifo!Put

LEMMA StepRefines ==
  ASSUME TypeOK, [Next]_vars
  PROVE  [Fifo!FifoNext]_Fifo!fifoVars
<1>1. CASE bq_Clear
  <2>1. count' = 0 /\ UNCHANGED <<out, lost>>
    BY <1>1 DEF bq_Clear, mixVars
  <2>2. Buffered' = <<>>
    BY <2>1 DEF Buffered
  <2> QED BY <2>1, <2>2 DEF Fifo!FifoNext, Fifo!Reset
<1>2. CASE Prime
  <2>1. PICK s \in Buffers(Lesser(Burst, MaxPrime - primed)) : bq_Enqueue(s)
    BY <1>2 DEF Prime
  <2>2. Lesser(Burst, MaxPrime - primed) \in 0..Burst
    BY BurstAssumption, PrimeAssumption DEF Lesser, TypeOK
  <2>3. out' = out
    BY <1>2 DEF Prime, mixVars
  <2> QED BY <2>1, <2>2, <2>3, PutStep DEF Fifo!FifoNext
<1>3. CASE BassCallback
  <2>1. PICK s \in Buffers(Burst) : bq_Enqueue(s)
    BY <1>3 DEF BassCallback
  <2>2. Burst \in 0..Burst /\ out' = out
    BY <1>3, BurstAssumption DEF BassCallback, mixVars
  <2> QED BY <2>1, <2>2, PutStep DEF Fifo!FifoNext
<1>4. CASE MixDrain
  <2>1. lost' = lost
    BY <1>4 DEF MixDrain
  <2>2. Fifo!Take
    BY <1>4, <2>1, DrainTakes DEF Fifo!Take, Fifo!Lesser, Lesser
  <2> QED BY <2>2 DEF Fifo!FifoNext
<1>5. CASE RegisterCb \/ RegisterCtx \/ play_SetPlayState \/ PumpTop \/ PumpLook
           \/ PumpFill \/ PumpPrompt \/ PumpRefill \/ MixCheck \/ UNCHANGED vars
  <2>1. UNCHANGED <<ring, head, count, lost, out>>
    BY <1>5 DEF RegisterCb, RegisterCtx, play_SetPlayState, PumpTop, PumpLook, PumpFill, PumpPrompt,
                PumpRefill, MixCheck, vars, ringVars, mixVars
  <2> QED BY <2>1 DEF Fifo!fifoVars, Buffered
<1> QED BY <1>1, <1>2, <1>3, <1>4, <1>5 DEF Next, EngineStep, pump_thread, mix_player

\* The frames come out of the mixer in the order they were enqueued, none twice,
\* no silence of the allocation, and none missing unless the ring was full: the
\* ring with its wrapping indices implements a bounded queue.
THEOREM RingRefinesFifo == Spec => RingIsFifo
<1>1. Init => Fifo!FifoInit
  BY DEF Init, Fifo!FifoInit, Buffered
<1>2. TypeOK /\ [Next]_vars => [Fifo!FifoNext]_Fifo!fifoVars
  BY StepRefines
<1> QED BY <1>1, <1>2, TypeCorrect, PTL DEF Spec, RingIsFifo, Fifo!FifoSpec
===============================================================================
