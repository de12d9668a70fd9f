------------------------------- MODULE SyncProofs -------------------------------
(***************************************************************************)
(* Proofs about LazySync, RwLocks and Clocks.                              *)
(*                                                                         *)
(* The mutexes, for every set of threads and every number of items: as     *)
(* long as no object replaced another, every thread that has passed the    *)
(* look at the slot uses the object in it, and who is inside owns it.      *)
(*                                                                         *)
(* The locks, for every set of threads and every number of lives of the    *)
(* slot: as long as no lock replaced another, there is one lock at a time, *)
(* libnx's state of it tells who is inside and which way (OneLock), and no *)
(* other lock has a trace of anybody.                                      *)
(*                                                                         *)
(* The wait, for every reading of the clocks and every delay: the deadline *)
(* is taken for that of the nearer clock, and the error this can make only *)
(* shortens the wait.                                                      *)
(*                                                                         *)
(* The time of day, for every set of threads and every number of calls:    *)
(* once an undisturbed call has returned, the base stays what it is.       *)
(***************************************************************************)
EXTENDS LazySync, RwLocks, Clocks, FiniteSetTheorems, TLAPS

-------------------------------------------------------------------------------
(* Mutexes. *)

\* Threads that wait for the mutex, hold it, or will take it when they wake up.
Bound == {"lockWait", "in", "unlock", "waitInit", "waitEnter", "asleep"}
Held  == {"in", "unlock", "waitInit", "waitEnter"}

Place == {"idle", "lock", "lockInit", "lockEnter", "lockWait", "in", "unlock",
          "waitInit", "waitEnter", "asleep", "signal", "signalInit", "signalSend"}

MutexTypes ==
    /\ mutex \in Object \cup {Null}
    /\ owner \in [Object -> Thread \cup {Null}]
    /\ pc \in [Thread -> Place]

OneMutex ==
    /\ \A t \in Thread : pc[t] = "lockEnter" => mutex # Null
    /\ \A t \in Thread : pc[t] \in Bound => mutex # Null /\ using[t] = mutex
    /\ \A t \in Thread : pc[t] \in Held => owner[mutex] = t

MutexInv ==
    /\ MutexTypes /\ DOMAIN using = Thread
    /\ "mutex" \notin clobbered => OneMutex

\* The thread that moves is the only one whose place changes.
LEMMA GoEffect ==
  ASSUME MutexTypes, NEW t \in Thread, NEW from,
         NEW to \in Place,
         Go(t, from, to)
  PROVE  /\ pc[t] = from /\ pc'[t] = to /\ \A u \in Thread \ {t} : pc'[u] = pc[u]
         /\ pc' \in [Thread -> Place]
  BY DEF Go, MutexTypes

\* Looking at the slot, making, entering and taking the mutex.
LEMMA LockKept ==
  ASSUME MutexInv, NEW t \in Thread,
         Begin(t) \/ LockCheck(t) \/ LockInit(t) \/ LockEnter(t) \/ LockTake(t)
  PROVE  MutexInv'
<1> USE DEF Bound, Held, Place
<1>1. MutexTypes
  BY DEF MutexInv
<1>2. CASE Begin(t)
  <2>1. /\ pc[t] = "idle" /\ pc'[t] = "lock" /\ \A u \in Thread \ {t} : pc'[u] = pc[u]
        /\ pc' \in [Thread -> Place]
        /\ UNCHANGED <<mutex, owner, using, clobbered>>
    BY <1>1, <1>2, GoEffect DEF Begin
  <2> QED BY <2>1 DEF MutexInv, MutexTypes, OneMutex
<1>3. CASE LockCheck(t)
  <2>1. /\ pc[t] = "lock" /\ pc'[t] \in {"lockInit", "lockEnter"}
        /\ pc'[t] = "lockEnter" => mutex # Null
        /\ \A u \in Thread \ {t} : pc'[u] = pc[u]
        /\ MutexTypes'
        /\ UNCHANGED <<mutex, owner, using, clobbered>>
    <3>1. CASE mutex = Null
      BY <1>1, <1>3, <3>1, GoEffect DEF LockCheck, MutexTypes
    <3>2. CASE mutex # Null
      BY <1>1, <1>3, <3>2, GoEffect DEF LockCheck, MutexTypes
    <3> QED BY <3>1, <3>2
  <2> QED BY <2>1 DEF MutexInv, OneMutex
<1>4. CASE LockInit(t)
  <2>1. /\ pc[t] = "lockInit" /\ pc'[t] = "lockEnter" /\ mutex' = t
        /\ \A u \in Thread \ {t} : pc'[u] = pc[u]
        /\ UNCHANGED <<owner, using>>
        /\ mutex # Null => "mutex" \in clobbered'
        /\ clobbered \subseteq clobbered'
    BY <1>1, <1>4, GoEffect DEF LockInit
  <2>2. MutexTypes'
    BY <1>1, <1>4, <2>1, GoEffect DEF LockInit, MutexTypes, Object
  <2>3. t # Null
    BY ThreadAssumption
  <2> QED BY <2>1, <2>2, <2>3 DEF MutexInv, OneMutex
<1>5. CASE LockEnter(t)
  <2>1. /\ pc[t] = "lockEnter" /\ pc'[t] = "lockWait" /\ using' = [using EXCEPT ![t] = mutex]
        /\ \A u \in Thread \ {t} : pc'[u] = pc[u]
        /\ UNCHANGED <<mutex, owner, clobbered>>
    BY <1>1, <1>5, GoEffect DEF LockEnter
  <2>2. MutexTypes'
    BY <1>1, <1>5, <2>1, GoEffect DEF LockEnter, MutexTypes
  <2> QED BY <2>1, <2>2 DEF MutexInv, OneMutex
<1>6. CASE LockTake(t)
  <2>1. /\ pc[t] = "lockWait" /\ pc'[t] = "in" /\ owner[using[t]] = Null
        /\ owner' = [owner EXCEPT ![using[t]] = t]
        /\ \A u \in Thread \ {t} : pc'[u] = pc[u]
        /\ pc' \in [Thread -> Place]
        /\ UNCHANGED <<mutex, using, clobbered>>
    BY <1>1, <1>6, GoEffect DEF LockTake
  <2>2. MutexTypes'
    BY <1>1, <2>1 DEF MutexTypes
  <2>3. ASSUME "mutex" \notin clobbered' PROVE OneMutex'
    <3>1. OneMutex /\ using[t] = mutex /\ mutex \in Object
      BY <2>1, <2>3 DEF MutexInv, OneMutex, MutexTypes
    <3>2. owner'[mutex] = t
      BY <2>1, <3>1 DEF MutexInv, MutexTypes
    <3>3. \A u \in Thread : pc[u] \notin Held
      BY <2>1, <3>1, ThreadAssumption DEF OneMutex
    <3> QED BY <2>1, <3>1, <3>2, <3>3 DEF OneMutex
  <2> QED BY <2>1, <2>2, <2>3 DEF MutexInv
<1> QED BY <1>2, <1>3, <1>4, <1>5, <1>6

\* Giving up the mutex, on an unlock or to sleep, leaves it to nobody.
LEMMA ReleaseKept ==
  ASSUME MutexInv, NEW t \in Thread, Unlock(t) \/ WaitEnter(t)
  PROVE  MutexInv'
<1> USE DEF Bound, Held, Place
<1>1. /\ pc[t] \in {"unlock", "waitEnter"} /\ pc'[t] \in {"signal", "idle", "asleep"}
      /\ \A u \in Thread \ {t} : pc'[u] = pc[u]
      /\ pc' \in [Thread -> Place] /\ UNCHANGED <<mutex, clobbered>> /\ owner' = Released(t)
  <2>1. CASE Unlock(t) /\ t \in Producer
    BY <2>1, GoEffect DEF Unlock, MutexInv
  <2>2. CASE Unlock(t) /\ t \notin Producer
    BY <2>2, GoEffect DEF Unlock, MutexInv
  <2>3. CASE WaitEnter(t)
    BY <2>3, GoEffect DEF WaitEnter, MutexInv
  <2> QED BY <2>1, <2>2, <2>3
<1>2. \/ using' = using /\ pc'[t] # "asleep"
      \/ using' = [using EXCEPT ![t] = mutex]
  BY GoEffect DEF Unlock, WaitEnter, MutexInv
<1>3. MutexTypes'
  BY <1>1 DEF Released, MutexInv, MutexTypes
<1>4. ASSUME "mutex" \notin clobbered' PROVE OneMutex'
  <2>1. OneMutex /\ owner[mutex] = t /\ mutex # Null
    BY <1>1, <1>4 DEF MutexInv, OneMutex
  <2>2. \A u \in Thread \ {t} : pc[u] \notin Held
    BY <1>1, <2>1 DEF OneMutex
  <2>3. \A u \in Thread \ {t} : using'[u] = using[u]
    BY <1>2 DEF MutexInv
  <2>4. pc'[t] \in Bound => using'[t] = mutex
    BY <1>1, <1>2 DEF MutexInv
  <2> QED BY <1>1, <2>1, <2>2, <2>3, <2>4 DEF OneMutex
<1> QED BY <1>2, <1>3, <1>4 DEF MutexInv

\* What the program does inside, and the condition variable, leave the mutex
\* alone; who is woken up waits for the mutex it slept with.
LEMMA RestKept ==
  ASSUME MutexInv, NEW t \in Thread,
         \/ Produce(t) \/ Consume(t) \/ WaitCheck(t) \/ WaitInit(t) \/ TimeOut(t)
         \/ SignalCheck(t) \/ SignalInit(t) \/ SignalSend(t) \/ BroadcastSend(t)
  PROVE  MutexInv'
<1> USE DEF Bound, Held, Place
<1>1. UNCHANGED <<mutex, owner, using>> /\ ("mutex" \in clobbered <=> "mutex" \in clobbered')
  BY DEF Produce, Consume, WaitCheck, WaitInit, TimeOut, SignalCheck, SignalInit, CondInit,
         SignalSend, BroadcastSend
<1>2. /\ pc' \in [Thread -> Place]
      /\ \A u \in Thread : /\ pc'[u] # "lockEnter"  \/ pc[u] = "lockEnter"
                           /\ pc'[u] \in Bound => pc[u] \in Bound
                           /\ pc'[u] \in Held => pc[u] \in Held
  <2>1. CASE Produce(t) \/ Consume(t)
    BY <2>1, GoEffect DEF Produce, Consume, MutexInv
  <2>2. CASE WaitCheck(t)
    <3>1. CASE cond = Null
      BY <2>2, <3>1, GoEffect DEF WaitCheck, MutexInv
    <3>2. CASE cond # Null
      BY <2>2, <3>2, GoEffect DEF WaitCheck, MutexInv
    <3> QED BY <3>1, <3>2
  <2>3. CASE WaitInit(t) \/ SignalInit(t)
    BY <2>3, GoEffect DEF WaitInit, SignalInit, CondInit, MutexInv
  <2>4. CASE TimeOut(t)
    BY <2>4, GoEffect DEF TimeOut, MutexInv
  <2>5. CASE SignalCheck(t)
    <3>1. CASE cond = Null
      BY <2>5, <3>1, GoEffect DEF SignalCheck, MutexInv
    <3>2. CASE cond # Null
      BY <2>5, <3>2, GoEffect DEF SignalCheck, MutexInv
    <3> QED BY <3>1, <3>2
  <2>6. CASE SignalSend(t)
    <3>1. pc[t] = "signalSend" /\ pc \in [Thread -> Place]
      BY <2>6 DEF SignalSend, MutexInv, MutexTypes
    <3>2. CASE pc' = [pc EXCEPT ![t] = "idle"]
      BY <3>1, <3>2
    <3>3. ASSUME NEW c \in Consumer, pc[c] = "asleep",
                 pc' = [pc EXCEPT ![t] = "idle", ![c] = "lockWait"]
          PROVE  /\ pc' \in [Thread -> Place]
                 /\ \A u \in Thread : /\ pc'[u] # "lockEnter"  \/ pc[u] = "lockEnter"
                                      /\ pc'[u] \in Bound => pc[u] \in Bound
                                      /\ pc'[u] \in Held => pc[u] \in Held
      BY <3>1, <3>3 DEF Thread
    <3> QED BY <2>6, <3>2, <3>3 DEF SignalSend
  <2>7. CASE BroadcastSend(t)
    <3>1. pc[t] = "signalSend" /\ pc \in [Thread -> Place]
      BY <2>7 DEF BroadcastSend, MutexInv, MutexTypes
    <3>2. PICK asleep \in SUBSET {c \in Consumer : pc[c] = "asleep"} :
            pc' = [u \in Thread |-> IF u = t THEN "idle"
                                    ELSE IF u \in asleep THEN "lockWait" ELSE pc[u]]
      BY <2>7 DEF BroadcastSend
    <3> QED BY <3>1, <3>2
  <2> QED BY <2>1, <2>2, <2>3, <2>4, <2>5, <2>6, <2>7
<1> QED BY <1>1, <1>2 DEF MutexInv, MutexTypes, OneMutex

\* While no object replaces another, the object in the slot tells who is inside.
THEOREM MutexInvariant == Spec => []MutexInv
<1>1. Init => MutexInv
  BY ThreadAssumption DEF Init, MutexInv, MutexTypes, OneMutex, Bound, Held, Place, Object
<1>2. MutexInv /\ [Next]_yvars => MutexInv'
  <2> SUFFICES ASSUME MutexInv, [Next]_yvars PROVE MutexInv'
    OBVIOUS
  <2>1. CASE UNCHANGED yvars
    BY <2>1 DEF yvars, MutexInv, MutexTypes, OneMutex
  <2> QED BY <2>1, LockKept, ReleaseKept, RestKept DEF Next, Runs
<1> QED BY <1>1, <1>2, PTL DEF Spec

\* Mutexes that are made at their first use exclude, unless two first calls met.
THEOREM MutexesExclude == Spec => []ExcludesUnlessClobbered
<1>1. MutexInv => ExcludesUnlessClobbered
  <2> SUFFICES ASSUME MutexInv, "mutex" \notin clobbered PROVE Cardinality(Inside) <= 1
    BY DEF ExcludesUnlessClobbered
  <2>1. \A t, u \in Inside : t = u
    BY DEF Inside, MutexInv, OneMutex, Held
  <2>2. CASE Inside = {}
    BY <2>2, FS_EmptySet
  <2>3. CASE Inside # {}
    <3>1. PICK t : Inside = {t}
      BY <2>1, <2>3
    <3> QED BY <3>1, FS_Singleton
  <2> QED BY <2>2, <2>3
<1> QED BY MutexInvariant, <1>1, PTL

-------------------------------------------------------------------------------
(* Read-write locks. *)

Within(t, w) == rwpc[t] = "in" /\ way[t] = w

OneLock ==
    /\ ~mistaken
    /\ \A t \in RwThread : rwpc[t] \in {"enter", "wait", "in"} => storage # NoLock
    /\ \A t \in RwThread : rwpc[t] \in {"wait", "in"} => taken[t] = storage
    /\ \A t, l \in RwThread : t \in readers[l] <=> l = storage /\ Within(t, "read")
    /\ \A t, l \in RwThread : writer[l] = t <=> l = storage /\ Within(t, "write")
    /\ \A l \in RwThread : writer[l] # NoLock => readers[l] = {}

RwInv == RwTypeOK /\ (~replaced => OneLock)

-------------------------------------------------------------------------------
\* Types are kept.
LEMMA RwTypes == RwTypeOK /\ [RwNext]_rwvars => RwTypeOK'
<1> SUFFICES ASSUME RwTypeOK, [RwNext]_rwvars PROVE RwTypeOK'
  OBVIOUS
<1> USE DEF RwTypeOK, RwMoves
<1>1. ASSUME NEW t \in RwThread, Ask(t) PROVE RwTypeOK'
  BY <1>1 DEF Ask
<1>2. ASSUME NEW t \in RwThread, get_rwlock(t) PROVE RwTypeOK'
  <2>1. replaced' \in BOOLEAN
    BY <1>2 DEF get_rwlock
  <2> QED BY <1>2, <2>1 DEF get_rwlock
<1>3. ASSUME NEW t \in RwThread, Enter(t) PROVE RwTypeOK'
  BY <1>3 DEF Enter
<1>4. ASSUME NEW t \in RwThread, Granted(t) PROVE RwTypeOK'
  BY <1>4 DEF Granted
<1>5. ASSUME NEW t \in RwThread, RwUnlock(t) PROVE RwTypeOK'
  <2>1. mistaken' \in BOOLEAN
    BY <1>5 DEF RwUnlock
  <2> QED BY <1>5, <2>1 DEF RwUnlock
<1>6. CASE Renew
  BY <1>6, LivesAssumption DEF Renew
<1>7. CASE UNCHANGED rwvars
  BY <1>7 DEF rwvars
<1> QED BY <1>1, <1>2, <1>3, <1>4, <1>5, <1>6, <1>7 DEF RwNext

\* While no lock is replaced, the one lock tells who is inside.
LEMMA OneLockKept ==
  ASSUME RwTypeOK, ~replaced, OneLock, [RwNext]_rwvars, ~replaced'
  PROVE  OneLock'
<1> USE NoLockAssumption DEF RwTypeOK, OneLock, Within, RwMoves
<1>1. ASSUME NEW t \in RwThread, Ask(t) PROVE OneLock'
  BY <1>1 DEF Ask
<1>2. ASSUME NEW t \in RwThread, get_rwlock(t) PROVE OneLock'
  <2>1. storage = NoLock /\ storage' = t
    BY <1>2 DEF get_rwlock
  <2> QED BY <1>2, <2>1 DEF get_rwlock
<1>3. ASSUME NEW t \in RwThread, Enter(t) PROVE OneLock'
  BY <1>3 DEF Enter
<1>4. ASSUME NEW t \in RwThread, Granted(t) PROVE OneLock'
  <2>1. taken[t] = storage /\ storage \in RwThread
    BY <1>4 DEF Granted
  <2>2. CASE way[t] = "read"
    BY <1>4, <2>1, <2>2 DEF Granted
  <2>3. CASE way[t] = "write"
    BY <1>4, <2>1, <2>3 DEF Granted
  <2> QED BY <2>2, <2>3
<1>5. ASSUME NEW t \in RwThread, RwUnlock(t) PROVE OneLock'
  <2>1. storage \in RwThread
    BY <1>5 DEF RwUnlock
  <2>2. CASE way[t] = "write"
    <3>1. writer[storage] = t
      BY <1>5, <2>1, <2>2 DEF RwUnlock
    <3> QED BY <1>5, <2>1, <2>2, <3>1 DEF RwUnlock
  <2>3. CASE way[t] = "read"
    <3>1. writer[storage] # t /\ t \in readers[storage]
      BY <1>5, <2>1, <2>3 DEF RwUnlock
    <3> QED BY <1>5, <2>1, <2>3, <3>1 DEF RwUnlock
  <2> QED BY <2>2, <2>3
<1>6. CASE Renew
  BY <1>6 DEF Renew
<1>7. CASE UNCHANGED rwvars
  BY <1>7 DEF rwvars
<1> QED BY <1>1, <1>2, <1>3, <1>4, <1>5, <1>6, <1>7 DEF RwNext

\* A lock that took the place of another is remembered for ever.
LEMMA ReplacedStays == [RwNext]_rwvars /\ replaced => replaced'
  BY DEF RwNext, Ask, get_rwlock, Enter, Granted, RwUnlock, Renew, rwvars

\* The one lock tells who is inside, in every state before a lock is replaced.
THEOREM RwInvariant == RwSpec => []RwInv
<1>1. RwInit => RwInv
  <2> SUFFICES ASSUME RwInit PROVE RwTypeOK /\ OneLock
    BY DEF RwInv
  <2>1. RwTypeOK
    <3>1. lives \in 0..MaxLives
      BY LivesAssumption DEF RwInit
    <3>2. /\ readers \in [RwThread -> SUBSET RwThread]
          /\ writer \in [RwThread -> RwThread \cup {NoLock}]
          /\ taken \in [RwThread -> RwThread \cup {NoLock}]
      BY ZenonT(30) DEF RwInit
    <3>3. /\ rwpc \in [RwThread -> {"out", "make", "enter", "wait", "in"}]
          /\ way \in [RwThread -> {"read", "write"}]
      BY DEF RwInit
    <3> QED BY <3>1, <3>2, <3>3 DEF RwInit, RwTypeOK
  <2>2. ~mistaken /\ \A t \in RwThread : rwpc[t] = "out" /\ readers[t] = {} /\ writer[t] = NoLock
    BY DEF RwInit
  <2>3. \A t \in RwThread : rwpc[t] \notin {"enter", "wait", "in"} /\ t # NoLock
    BY <2>2, NoLockAssumption
  <2> QED BY <2>1, <2>2, <2>3 DEF OneLock, Within
<1>2. RwInv /\ [RwNext]_rwvars => RwInv'
  BY RwTypes, OneLockKept, ReplacedStays DEF RwInv
<1> QED BY <1>1, <1>2, PTL DEF RwSpec

\* Read-write locks that are made at their first use, and renewed, exclude, and
\* an unlock releases what its thread holds, unless two first calls met.
THEOREM LocksHold == RwSpec => []RwLocksHold
<1>1. RwInv => RwLocksHold
  <2> SUFFICES ASSUME RwInv, ~replaced PROVE RwLocksHold
    BY DEF RwLocksHold
  <2>1. OneLock /\ RwTypeOK
    BY DEF RwInv
  <2>2. ~mistaken
    BY <2>1 DEF OneLock
  <2>3. ASSUME NEW t \in RwThread, NEW u \in RwThread, t # u, rwpc[t] = "in", rwpc[u] = "in"
        PROVE  way[t] = "read"
    <3>1. storage \in RwThread
      BY <2>1, <2>3 DEF OneLock, RwTypeOK
    <3>2. SUFFICES ASSUME way[t] = "write" PROVE FALSE
      BY <2>1 DEF RwTypeOK
    <3>3. writer[storage] = t
      BY <2>1, <2>3, <3>1, <3>2 DEF OneLock, Within
    <3>4. readers[storage] = {} /\ writer[storage] # u
      BY <2>1, <2>3, <3>1, <3>3, NoLockAssumption DEF OneLock
    <3>5. way[u] # "read" /\ way[u] # "write"
      BY <2>1, <2>3, <3>1, <3>4 DEF OneLock, Within
    <3> QED BY <2>1, <3>5 DEF RwTypeOK
  <2> QED BY <2>2, <2>3 DEF RwLocksHold
<1> QED BY RwInvariant, <1>1, PTL

-------------------------------------------------------------------------------
(* The timed wait. *)

\* A wait's length lies between zero and MaxWait.
LEMMA ClampedRange == \A rel \in Int : Clamped(rel) \in 0..MaxWait
  BY ClockAssumption DEF Clamped

\* The nearer clock gives a delay no longer than the clock the deadline was
\* computed from, in either order.
LEMMA NearerIsNearer ==
  ASSUME NEW rel_m \in Int, NEW rel_r \in Int
  PROVE  /\ NearerClock(rel_m, rel_r) \in {rel_m, rel_r}
         /\ Abs(NearerClock(rel_m, rel_r)) <= Abs(rel_m)
         /\ Abs(NearerClock(rel_m, rel_r)) <= Abs(rel_r)
  BY DEF NearerClock, Abs

\* A wait asked for is not lengthened, and is kept as asked where the clocks are
\* more than twice the delay apart.
LEMMA WaitIsRight ==
  ASSUME NEW m \in Int, NEW r \in Int, NEW t_ns \in Int, NEW read \in {m, r}
  PROVE  LET rel == WaitFor(t_ns, m, r)  asked == t_ns - read IN
         /\ rel \in 0..MaxWait
         /\ asked >= 0 => rel <= asked
         /\ 2 * Abs(asked) < Abs(r - m) => rel = Clamped(asked)
<1> DEFINE near == NearerClock(t_ns - m, t_ns - r)
           asked == t_ns - read
<1>1. t_ns - m \in Int /\ t_ns - r \in Int /\ asked \in Int
  OBVIOUS
<1>2. near \in {t_ns - m, t_ns - r} /\ Abs(near) <= Abs(asked)
  BY <1>1, NearerIsNearer
<1>3. WaitFor(t_ns, m, r) = Clamped(near)
  BY DEF WaitFor
<1>4. Clamped(near) \in 0..MaxWait
  BY <1>1, <1>2, ClampedRange
<1>5. asked >= 0 => Clamped(near) <= asked
  BY <1>1, <1>2, ClockAssumption DEF Abs, Clamped
<1>6. 2 * Abs(asked) < Abs(r - m) => near = asked
  BY DEF NearerClock, Abs
<1> QED BY <1>3, <1>4, <1>5, <1>6

-------------------------------------------------------------------------------
\* The clocks run on in their range, and no wait is of another length.
ClocksInv == mono \in Uptime /\ epoch \in Epoch /\ WaitsAsAsked

\* What the timed wait does, from one of the clocks it may be computed from.
LEMMA WaitStep ==
  ASSUME mono \in Uptime, epoch \in Epoch, pthread_cond_timedwait_fake
  PROVE  WaitsAsAsked'
<1>1. mono \in Int /\ real \in Int
  BY ClockAssumption DEF real
<1>2. PICK bionic_clk \in WallId \cup MonotonicId, delay \in Delay :
        LET t_ns == clock_gettime_fake(bionic_clk) + delay
            read == IF bionic_clk \in WallId THEN real ELSE mono
        IN  wait' = [asked |-> t_ns - read,
                     rel   |-> WaitFor(t_ns, mono, real),
                     apart |-> 2 * Abs(t_ns - read) < Abs(real - mono)]
  BY DEF pthread_cond_timedwait_fake
<1> DEFINE read == IF bionic_clk \in WallId THEN real ELSE mono
           t_ns == clock_gettime_fake(bionic_clk) + delay
<1>3. read \in {mono, real} /\ t_ns \in Int
  BY <1>1, ClockAssumption DEF clock_gettime_fake
<1>4. /\ wait'.asked = t_ns - read
      /\ wait'.rel = WaitFor(t_ns, mono, real)
      /\ wait'.apart = (2 * Abs(t_ns - read) < Abs(real - mono))
  BY <1>2
<1> HIDE DEF read, t_ns
<1>5. /\ WaitFor(t_ns, mono, real) \in 0..MaxWait
      /\ t_ns - read >= 0 => WaitFor(t_ns, mono, real) <= t_ns - read
      /\ 2 * Abs(t_ns - read) < Abs(real - mono)
           => WaitFor(t_ns, mono, real) = Clamped(t_ns - read)
  BY <1>1, <1>3, WaitIsRight, ZenonT(60)
<1>6. 0 <= wait'.rel /\ wait'.rel <= MaxWait
  BY <1>4, <1>5, ClockAssumption
<1>7. wait'.asked >= 0 => wait'.rel <= wait'.asked
  BY <1>4, <1>5
<1>8. wait'.apart => wait'.rel = Clamped(wait'.asked)
  BY <1>4, <1>5, Zenon
<1>9. Clamped(wait'.asked) = Clamped(wait.asked)'
  BY DEF Clamped
<1> QED BY <1>6, <1>7, <1>8, <1>9 DEF WaitsAsAsked

\* A timed wait never lasts longer than it was asked to, and exactly as long if its
\* deadline tells the two clocks apart.
THEOREM WaitsHold == ClockSpec => []WaitsAsAsked
<1>1. ClockInit => ClocksInv
  BY ClockAssumption DEF ClockInit, ClocksInv, WaitsAsAsked, NoWait
<1>2. ClocksInv /\ [ClockNext]_clockvars => ClocksInv'
  <2> SUFFICES ASSUME ClocksInv, [ClockNext]_clockvars PROVE ClocksInv'
    OBVIOUS
  <2>1. CASE Tick
    BY <2>1 DEF ClocksInv, WaitsAsAsked, Tick
  <2>2. ASSUME NEW t \in Caller, gettimeofday_fake(t) PROVE ClocksInv'
    BY <2>2 DEF ClocksInv, WaitsAsAsked, gettimeofday_fake, TodRead, TodCheck, TodSeedWall,
                TodSeedMono, TodLoadWall, TodReturn, Step
  <2>3. CASE pthread_cond_timedwait_fake
    <3>1. mono' = mono /\ epoch' = epoch
      BY <2>3 DEF pthread_cond_timedwait_fake
    <3> QED BY <2>3, <3>1, WaitStep DEF ClocksInv
  <2>4. CASE UNCHANGED clockvars
    BY <2>4 DEF ClocksInv, WaitsAsAsked, clockvars
  <2> QED BY <2>1, <2>2, <2>3, <2>4 DEF ClockNext
<1>3. ClocksInv => WaitsAsAsked
  BY DEF ClocksInv
<1> QED BY <1>1, <1>2, <1>3, PTL DEF ClockSpec

-------------------------------------------------------------------------------
(* The time of day.  A call that no other thread seeded in reads the base  *)
(* once it is there; and once one has returned, nobody seeds again.        *)

TodPlace == {"idle", "check", "seedWall", "seedMono", "loadWall", "loadMono"}

TodTypes ==
    /\ mono \in Uptime /\ epoch \in Epoch
    /\ g_tod_wall_base_us \in Nat /\ g_tod_mono_base_ns \in Nat
    /\ at \in [Caller -> TodPlace] /\ mono_ns \in [Caller -> Nat] /\ wall \in [Caller -> Nat]
    /\ disturbed \in [Caller -> BOOLEAN]

\* Behind the store of the wall base it is there.
Seeded == \A t \in Caller : at[t] \in {"seedMono", "loadWall", "loadMono"} => g_tod_wall_base_us # 0

\* A thread that is not disturbed is alone with the statics, and has read what is there.
Alone ==
    \A t \in Caller : ~disturbed[t] /\ at[t] # "idle" =>
        /\ \A u \in Caller \ {t} : ~Seeding(u)
        /\ at[t] = "loadMono" => wall[t] = g_tod_wall_base_us

\* What the calls have returned is the one base there is, and will stay.
OneBase ==
    offsets = {} \/ /\ offsets = {g_tod_wall_base_us - g_tod_mono_base_ns}
                    /\ g_tod_wall_base_us # 0 /\ \A u \in Caller : ~Seeding(u)

TodInv == TodTypes /\ Seeded /\ Alone /\ OneBase

\* The wall clock is never at zero, which stands for "not seeded".
LEMMA RealIsSet == ASSUME mono \in Uptime, epoch \in Epoch PROVE real \in Nat \ {0}
<1>1. mono \in Nat /\ epoch \in Nat \ {0} /\ Coarse \in Nat \ {0}
  BY ClockAssumption
<1>2. mono \div Coarse \in Nat
  BY <1>1
<1>3. \A q \in Nat : Coarse * q \in Nat
  BY <1>1
<1> HIDE DEF real
<1>4. real = epoch + Coarse * (mono \div Coarse)
  BY DEF real
<1>5. \A q \in Nat : epoch + q \in Nat \ {0}
  BY <1>1
<1> QED BY <1>2, <1>3, <1>4, <1>5

\* The thread that moves is the only one whose place changes.
LEMMA StepEffect ==
  ASSUME TodTypes, NEW t \in Caller, NEW from, NEW to \in TodPlace, Step(t, from, to)
  PROVE  /\ at[t] = from /\ at'[t] = to /\ \A u \in Caller \ {t} : at'[u] = at[u]
         /\ at' \in [Caller -> TodPlace] /\ mono' = mono /\ epoch' = epoch
  BY DEF Step, TodTypes

\* Entering, the look at the base, and the two loads.
LEMMA TodLookKept ==
  ASSUME TodInv, NEW t \in Caller, TodRead(t) \/ TodCheck(t) \/ TodLoadWall(t)
  PROVE  TodInv'
<1> USE DEF TodInv, TodPlace
<1>1. CASE TodRead(t)
  <2>1. /\ at[t] = "idle" /\ at'[t] = "check" /\ \A u \in Caller \ {t} : at'[u] = at[u]
        /\ at' \in [Caller -> TodPlace] /\ mono' = mono /\ epoch' = epoch
    BY <1>1, StepEffect DEF TodRead
  <2>2. /\ UNCHANGED <<g_tod_wall_base_us, g_tod_mono_base_ns, wall, offsets>>
        /\ mono_ns' = [mono_ns EXCEPT ![t] = mono]
        /\ disturbed' = [disturbed EXCEPT ![t] = \E u \in Caller \ {t} : Seeding(u)]
    BY <1>1 DEF TodRead
  <2>3. TodTypes'
    BY <2>1, <2>2, ClockAssumption DEF TodTypes
  <2>4. \A u \in Caller : Seeding(u)' = Seeding(u)
    BY <2>1 DEF Seeding
  <2>5. Alone'
    BY <2>1, <2>2, <2>4 DEF Alone, TodTypes
  <2>6. Seeded' /\ OneBase'
    BY <2>1, <2>2, <2>4 DEF Seeded, OneBase, TodTypes
  <2> QED BY <2>3, <2>5, <2>6
<1>2. CASE TodCheck(t)
  <2>1. PICK to \in {"seedWall", "loadWall"} :
          /\ Step(t, "check", to)
          /\ to = "seedWall" => /\ g_tod_wall_base_us = 0
                                /\ disturbed' = [u \in Caller |-> disturbed[u] \/ (u # t /\ at[u] # "idle")]
          /\ to = "loadWall" => g_tod_wall_base_us # 0 /\ disturbed' = disturbed
    BY <1>2 DEF TodCheck
  <2>2. UNCHANGED <<g_tod_wall_base_us, g_tod_mono_base_ns, mono_ns, wall, offsets>>
    BY <1>2 DEF TodCheck
  <2>3. /\ at[t] = "check" /\ at'[t] = to /\ \A u \in Caller \ {t} : at'[u] = at[u]
        /\ at' \in [Caller -> TodPlace] /\ mono' = mono /\ epoch' = epoch
    BY <2>1, StepEffect
  <2>4. TodTypes'
    BY <2>1, <2>2, <2>3 DEF TodTypes
  <2>5. Seeded'
    BY <2>1, <2>2, <2>3 DEF Seeded
  <2>6. Alone'
    BY <2>1, <2>2, <2>3 DEF Alone, Seeding, TodTypes
  <2>7. OneBase'
    BY <2>1, <2>2, <2>3 DEF OneBase, Seeding
  <2> QED BY <2>4, <2>5, <2>6, <2>7
<1>3. CASE TodLoadWall(t)
  <2>1. /\ at[t] = "loadWall" /\ at'[t] = "loadMono" /\ \A u \in Caller \ {t} : at'[u] = at[u]
        /\ at' \in [Caller -> TodPlace] /\ mono' = mono /\ epoch' = epoch
    BY <1>3, StepEffect DEF TodLoadWall
  <2>2. /\ UNCHANGED <<g_tod_wall_base_us, g_tod_mono_base_ns, mono_ns, disturbed, offsets>>
        /\ wall' = [wall EXCEPT ![t] = g_tod_wall_base_us]
    BY <1>3 DEF TodLoadWall
  <2>3. TodTypes'
    BY <2>1, <2>2 DEF TodTypes
  <2>4. \A u \in Caller : Seeding(u)' = Seeding(u)
    BY <2>1 DEF Seeding
  <2>5. Alone'
    BY <2>1, <2>2, <2>4 DEF Alone, TodTypes
  <2>6. Seeded' /\ OneBase'
    BY <2>1, <2>2, <2>4 DEF Seeded, OneBase
  <2> QED BY <2>3, <2>5, <2>6
<1> QED BY <1>1, <1>2, <1>3

\* The two stores of the seed: nothing has been returned yet, and no other call
\* that is under way is undisturbed.
LEMMA TodSeedKept ==
  ASSUME TodInv, NEW t \in Caller, TodSeedWall(t) \/ TodSeedMono(t)
  PROVE  TodInv'
<1> USE DEF TodInv, TodPlace
<1>1. CASE TodSeedWall(t)
  <2>1. /\ at[t] = "seedWall" /\ at'[t] = "seedMono" /\ \A u \in Caller \ {t} : at'[u] = at[u]
        /\ at' \in [Caller -> TodPlace] /\ mono' = mono /\ epoch' = epoch
    BY <1>1, StepEffect DEF TodSeedWall
  <2>2. UNCHANGED <<g_tod_mono_base_ns, mono_ns, wall, disturbed, offsets>>
    BY <1>1 DEF TodSeedWall
  <2>3. g_tod_wall_base_us' \in Nat \ {0}
    BY <1>1, RealIsSet DEF TodSeedWall, TodTypes
  <2>4. Seeding(t) /\ (\A u \in Caller : Seeding(u)' = Seeding(u))
    BY <2>1 DEF Seeding
  <2>5. TodTypes'
    BY <2>1, <2>2, <2>3 DEF TodTypes
  <2>6. Alone'
    BY <2>1, <2>2, <2>4 DEF Alone
  <2>7. Seeded' /\ OneBase'
    BY <2>2, <2>3, <2>4 DEF Seeded, OneBase
  <2> QED BY <2>5, <2>6, <2>7
<1>2. CASE TodSeedMono(t)
  <2>1. /\ at[t] = "seedMono" /\ at'[t] = "loadWall" /\ \A u \in Caller \ {t} : at'[u] = at[u]
        /\ at' \in [Caller -> TodPlace] /\ mono' = mono /\ epoch' = epoch
    BY <1>2, StepEffect DEF TodSeedMono
  <2>2. /\ UNCHANGED <<g_tod_wall_base_us, mono_ns, wall, disturbed, offsets>>
        /\ g_tod_mono_base_ns' = mono_ns[t]
    BY <1>2 DEF TodSeedMono
  <2>3. Seeding(t) /\ (\A u \in Caller : Seeding(u)' => Seeding(u))
    BY <2>1 DEF Seeding
  <2>4. TodTypes'
    BY <2>1, <2>2 DEF TodTypes
  <2>5. Alone'
    BY <2>1, <2>2, <2>3 DEF Alone
  <2>6. Seeded' /\ OneBase'
    BY <2>1, <2>2, <2>3 DEF Seeded, OneBase
  <2> QED BY <2>4, <2>5, <2>6
<1> QED BY <1>1, <1>2

\* What an undisturbed call returns is off from its reading by the base.
LEMMA TodReturnKept == ASSUME TodInv, NEW t \in Caller, TodReturn(t) PROVE TodInv'
<1> USE DEF TodInv, TodPlace
<1>1. /\ at[t] = "loadMono" /\ at'[t] = "idle" /\ \A u \in Caller \ {t} : at'[u] = at[u]
      /\ at' \in [Caller -> TodPlace] /\ mono' = mono /\ epoch' = epoch
  BY StepEffect DEF TodReturn
<1>2. UNCHANGED <<g_tod_wall_base_us, g_tod_mono_base_ns, mono_ns, wall, disturbed>>
  BY DEF TodReturn
<1>3. \A u \in Caller : Seeding(u)' = Seeding(u)
  BY <1>1 DEF Seeding
<1>4. TodTypes' /\ Seeded' /\ Alone'
  BY <1>1, <1>2, <1>3 DEF TodTypes, Seeded, Alone
<1>5. CASE disturbed[t]
  <2>1. offsets' = offsets
    BY <1>5 DEF TodReturn
  <2> QED BY <1>2, <1>3, <1>4, <2>1 DEF OneBase
<1>6. CASE ~disturbed[t]
  <2>1. wall[t] = g_tod_wall_base_us /\ g_tod_wall_base_us # 0
    BY <1>1, <1>6 DEF Alone, Seeded
  <2>2. offsets' = offsets \cup {g_tod_wall_base_us - g_tod_mono_base_ns}
    <3> DEFINE now_us == wall[t] + (mono_ns[t] - g_tod_mono_base_ns)
    <3>1. offsets' = IF disturbed[t] THEN offsets ELSE offsets \cup {now_us - mono_ns[t]}
      BY DEF TodReturn
    <3>2. now_us - mono_ns[t] = g_tod_wall_base_us - g_tod_mono_base_ns
      BY <2>1 DEF TodTypes
    <3> HIDE DEF now_us
    <3>3. offsets' = offsets \cup {now_us - mono_ns[t]}
      BY <1>6, <3>1
    <3> QED BY <3>2, <3>3
  <2>3. \A u \in Caller : ~Seeding(u)
    BY <1>1, <1>6 DEF Alone, Seeding
  <2> QED BY <1>2, <1>3, <1>4, <2>1, <2>2, <2>3 DEF OneBase
<1> QED BY <1>5, <1>6

\* One time base for all threads, however their first calls met.
THEOREM OneTimebaseHolds == ClockSpec => []OneTimebase
<1>1. ClockInit => TodInv
  BY ClockAssumption
     DEF ClockInit, TodInv, TodTypes, TodPlace, Seeded, Alone, OneBase, Seeding
<1>2. TodInv /\ [ClockNext]_clockvars => TodInv'
  <2> SUFFICES ASSUME TodInv, [ClockNext]_clockvars PROVE TodInv'
    OBVIOUS
  <2>1. ASSUME NEW t \in Caller, gettimeofday_fake(t) PROVE TodInv'
    BY <2>1, TodLookKept, TodSeedKept, TodReturnKept DEF gettimeofday_fake
  <2>2. CASE Tick \/ pthread_cond_timedwait_fake \/ UNCHANGED clockvars
    <3>1. /\ mono' \in Uptime /\ epoch' = epoch
          /\ UNCHANGED <<g_tod_wall_base_us, g_tod_mono_base_ns, at, mono_ns, wall,
                         disturbed, offsets>>
      BY <2>2 DEF Tick, pthread_cond_timedwait_fake, clockvars, TodInv, TodTypes
    <3> QED BY <3>1 DEF TodInv, TodTypes, Seeded, Alone, OneBase, Seeding
  <2> QED BY <2>1, <2>2 DEF ClockNext
<1>3. TodInv => OneTimebase
  <2> SUFFICES ASSUME TodInv PROVE Cardinality(offsets) \in {0, 1}
    BY DEF OneTimebase
  <2>1. CASE offsets = {}
    BY <2>1, FS_EmptySet
  <2>2. CASE offsets = {g_tod_wall_base_us - g_tod_mono_base_ns}
    BY <2>2, FS_Singleton
  <2> QED BY <2>1, <2>2 DEF TodInv, OneBase
<1> QED BY <1>1, <1>2, <1>3, PTL DEF ClockSpec
=================================================================================
