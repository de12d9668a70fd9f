-------------------------------- MODULE LazySync --------------------------------
(***************************************************************************)
(* The pthread mutexes and condition variables given to the Android        *)
(* libraries (source/imports.c): the library's variable is a pointer slot, *)
(* and the object behind it is made by the first call that finds the slot  *)
(* empty, with no lock.  The threads are a producer and consumer program   *)
(* in the libraries (external) that uses one mutex and one condition       *)
(* variable the way POSIX wants it.                                        *)
(*                                                                         *)
(* A thread finds a slot empty at most once, so the object it makes is     *)
(* named after it.  newlib's own objects behave as POSIX says.             *)
(***************************************************************************)
EXTENDS Naturals, FiniteSets

CONSTANTS Producer, Consumer,   \* the threads
          Given,                \* the object of a variable initialised beforehand
          Null,                 \* an empty slot, no object, no thread
          MaxItems              \* bound: items produced

Thread == Producer \cup Consumer

ASSUME ThreadAssumption ==
    /\ Producer \cap Consumer = {} /\ {Given, Null} \cap Thread = {} /\ Given # Null
ASSUME ItemAssumption == MaxItems \in Nat

VARIABLES
    mutex, cond,    \* the two slots
    timed,          \* the consumers that call timedwait; the others call wait
    owner,          \* who holds each mutex object
    pc,             \* where each thread is
    using,          \* the mutex object a thread waits for or holds
    on,             \* the condition object a thread sleeps on
    items, made,    \* the program's queue, and what was put into it
    clobbered       \* history: slots in which one object replaced another

yvars == <<mutex, cond, timed, owner, pc, using, on, items, made, clobbered>>

Object == Thread \cup {Given}

\* A variable is given an object by init beforehand, or is zero:
\* PTHREAD_MUTEX_INITIALIZER, PTHREAD_COND_INITIALIZER.
Init ==
    /\ mutex \in {Null, Given} /\ cond \in {Null, Given}
    /\ timed \in SUBSET Consumer
    /\ owner = [o \in Object |-> Null]
    /\ pc = [t \in Thread |-> "idle"]
    /\ using = [t \in Thread |-> Null] /\ on = [t \in Thread |-> Null]
    /\ items = 0 /\ made = 0 /\ clobbered = {}

Go(t, from, to) == pc[t] = from /\ pc' = [pc EXCEPT ![t] = to] /\ timed' = timed

-------------------------------------------------------------------------------
(* pthread_mutex_lock_fake and pthread_mutex_unlock_fake. *)

\* The items made, and those whose producer is on its way to make them.
Ordered == made + Cardinality({p \in Producer :
    pc[p] \in {"lock", "lockInit", "lockEnter", "lockWait", "in"}})

\* The program calls lock.
Begin(t) ==
    /\ Go(t, "idle", "lock")
    /\ t \in Producer => Ordered < MaxItems
    /\ UNCHANGED <<mutex, cond, owner, using, on, items, made, clobbered>>

LockCheck(t) ==
    /\ Go(t, "lock", IF mutex = Null THEN "lockInit" ELSE "lockEnter")
    /\ UNCHANGED <<mutex, cond, owner, using, on, items, made, clobbered>>

\* pthread_mutex_init_fake: calloc, and the store that publishes the object.
LockInit(t) ==
    /\ Go(t, "lockInit", "lockEnter")
    /\ mutex' = t
    /\ clobbered' = clobbered \cup (IF mutex = Null THEN {} ELSE {"mutex"})
    /\ UNCHANGED <<cond, owner, using, on, items, made>>

\* pthread_mutex_lock(*uid): the slot is read once more ...
LockEnter(t) ==
    /\ Go(t, "lockEnter", "lockWait")
    /\ using' = [using EXCEPT ![t] = mutex]
    /\ UNCHANGED <<mutex, cond, owner, on, items, made, clobbered>>

\* Mutant: the lock is taken without waiting, as trylock's result ignored.
LockTake_NoWait(t) ==
    /\ Go(t, "lockWait", "in")
    /\ owner' = [owner EXCEPT ![using[t]] = t]
    /\ UNCHANGED <<mutex, cond, using, on, items, made, clobbered>>

\* ... and the object is waited for.
LockTake(t) ==
    /\ Go(t, "lockWait", "in")
    /\ owner[using[t]] = Null
    /\ owner' = [owner EXCEPT ![using[t]] = t]
    /\ UNCHANGED <<mutex, cond, using, on, items, made, clobbered>>

\* The object in the slot is released, if it is this thread's.
Released(t) == [owner EXCEPT ![mutex] = IF @ = t THEN Null ELSE @]

Unlock(t) ==
    /\ Go(t, "unlock", IF t \in Producer THEN "signal" ELSE "idle")
    /\ owner' = Released(t)
    /\ UNCHANGED <<mutex, cond, using, on, items, made, clobbered>>

-------------------------------------------------------------------------------
(* The program, in the critical section. *)

Produce(t) ==
    /\ t \in Producer /\ Go(t, "in", "unlock")
    /\ items' = items + 1 /\ made' = made + 1
    /\ UNCHANGED <<mutex, cond, owner, using, on, clobbered>>

Consume(t) ==
    /\ t \in Consumer /\ items > 0 /\ Go(t, "in", "unlock")
    /\ items' = items - 1
    /\ UNCHANGED <<mutex, cond, owner, using, on, made, clobbered>>

-------------------------------------------------------------------------------
(* pthread_cond_wait_fake, pthread_cond_timedwait_fake,                     *)
(* pthread_cond_signal_fake and pthread_cond_broadcast_fake.                *)

WaitCheck(t) ==
    /\ t \in Consumer /\ items = 0
    /\ Go(t, "in", IF cond = Null THEN "waitInit" ELSE "waitEnter")
    /\ UNCHANGED <<mutex, cond, owner, using, on, items, made, clobbered>>

\* pthread_cond_init_fake
CondInit(t, from, to) ==
    /\ Go(t, from, to)
    /\ cond' = t
    /\ clobbered' = clobbered \cup (IF cond = Null THEN {} ELSE {"cond"})
    /\ UNCHANGED <<mutex, owner, using, on, items, made>>

WaitInit(t) == CondInit(t, "waitInit", "waitEnter")

\* Mutant: the mutex is not given up while asleep.
WaitEnter_HoldsMutex(t) ==
    /\ Go(t, "waitEnter", "asleep")
    /\ using' = [using EXCEPT ![t] = mutex]
    /\ on' = [on EXCEPT ![t] = cond]
    /\ UNCHANGED <<mutex, cond, owner, items, made, clobbered>>

\* pthread_cond_wait(*cnd, *mtx): gives up the mutex and sleeps, in one step.
WaitEnter(t) ==
    /\ Go(t, "waitEnter", "asleep")
    /\ using' = [using EXCEPT ![t] = mutex]
    /\ owner' = Released(t)
    /\ on' = [on EXCEPT ![t] = cond]
    /\ UNCHANGED <<mutex, cond, items, made, clobbered>>

\* A timed wait lasts a second at most, whatever its deadline.
TimeOut(t) ==
    /\ t \in timed
    /\ Go(t, "asleep", "lockWait")
    /\ on' = [on EXCEPT ![t] = Null]
    /\ UNCHANGED <<mutex, cond, owner, using, items, made, clobbered>>

SignalCheck(t) ==
    /\ Go(t, "signal", IF cond = Null THEN "signalInit" ELSE "signalSend")
    /\ UNCHANGED <<mutex, cond, owner, using, on, items, made, clobbered>>

SignalInit(t) == CondInit(t, "signalInit", "signalSend")

\* pthread_cond_signal(*cnd) wakes one of those that sleep on this object.
SignalSend(t) ==
    /\ pc[t] = "signalSend" /\ timed' = timed
    /\ LET asleep == {c \in Consumer : pc[c] = "asleep" /\ on[c] = cond} IN
       \/ /\ asleep = {}
          /\ pc' = [pc EXCEPT ![t] = "idle"]
          /\ on' = on
       \/ \E c \in asleep :
             /\ pc' = [pc EXCEPT ![t] = "idle", ![c] = "lockWait"]
             /\ on' = [on EXCEPT ![c] = Null]
    /\ UNCHANGED <<mutex, cond, owner, using, items, made, clobbered>>

\* pthread_cond_broadcast(*cnd) wakes all of them.
BroadcastSend(t) ==
    /\ pc[t] = "signalSend" /\ timed' = timed
    /\ LET asleep == {c \in Consumer : pc[c] = "asleep" /\ on[c] = cond} IN
       /\ pc' = [u \in Thread |-> IF u = t THEN "idle" ELSE IF u \in asleep THEN "lockWait" ELSE pc[u]]
       /\ on' = [u \in Thread |-> IF u \in asleep THEN Null ELSE on[u]]
    /\ UNCHANGED <<mutex, cond, owner, using, items, made, clobbered>>

-------------------------------------------------------------------------------
Runs(t) ==
    \/ LockCheck(t) \/ LockInit(t) \/ LockEnter(t) \/ Unlock(t)
    \/ Produce(t) \/ Consume(t)
    \/ WaitCheck(t) \/ WaitInit(t) \/ WaitEnter(t) \/ TimeOut(t)
    \/ SignalCheck(t) \/ SignalInit(t) \/ SignalSend(t) \/ BroadcastSend(t)

Next == \E t \in Thread : Begin(t) \/ Runs(t) \/ LockTake(t)

\* Threads run; a mutex that is free again and again is got in the end; the
\* consumers ask for ever.
Fairness ==
    /\ \A t \in Thread : WF_yvars(Runs(t)) /\ SF_yvars(LockTake(t))
    /\ \A c \in Consumer : WF_yvars(Begin(c))

Spec == Init /\ [][Next]_yvars /\ Fairness

-------------------------------------------------------------------------------
(* Properties. *)

TypeOK ==
    /\ mutex \in Object \cup {Null} /\ cond \in Object \cup {Null}
    /\ timed \subseteq Consumer
    /\ owner \in [Object -> Thread \cup {Null}]
    /\ pc \in [Thread -> {"idle", "lock", "lockInit", "lockEnter", "lockWait", "in", "unlock",
                          "waitInit", "waitEnter", "asleep", "signal", "signalInit", "signalSend"}]
    /\ using \in [Thread -> Object \cup {Null}]
    /\ \A t \in Thread : pc[t] \in {"lockWait", "in"} => using[t] # Null
    /\ on \in [Thread -> Object \cup {Null}]
    /\ made \in 0..MaxItems /\ items \in 0..made
    /\ clobbered \subseteq {"mutex", "cond"}

Inside == {t \in Thread : pc[t] \in {"in", "unlock", "waitInit", "waitEnter"}}

\* The mutexes exclude, unless two first calls met in the same slot.
ExcludesUnlessClobbered == Cardinality(Inside) <= 1 \/ "mutex" \in clobbered

\* The items that were ordered and are not consumed yet.
Outstanding == Ordered - made + items

\* No call is stuck and no wake-up is lost: what is ordered is produced and
\* consumed, unless two first calls met in a slot.  If that is the condition
\* variable's, consumers that all use timedwait get by ("clamp to 1s, never hang").
AllConsumed ==
    Outstanding > 0
      ~> \/ Outstanding = 0
         \/ "mutex" \in clobbered
         \/ "cond" \in clobbered /\ timed # Consumer
================================================================================
