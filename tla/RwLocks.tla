---------------------------------- MODULE RwLocks ----------------------------------
(***************************************************************************)
(* The read-write locks given to the Android libraries (source/libc_shim.c *)
(* and imports.c).  pthread_rwlock_init only clears the slot, so every     *)
(* lock, initialised or not, is made by the first call that finds the slot *)
(* empty; unlock asks the lock which way it was taken.                     *)
(*                                                                         *)
(* The threads (external) lock and unlock in turn.  A thread makes one     *)
(* lock for each life of the slot, which is named after it.  libnx's       *)
(* RwLock admits readers while no writer has it or waits for it.           *)
(***************************************************************************)
EXTENDS Naturals, FiniteSets

CONSTANTS RwThread,
          NoLock,
          MaxLives      \* bound: lives of the slot

ASSUME NoLockAssumption == NoLock \notin RwThread
ASSUME LivesAssumption == MaxLives \in Nat

VARIABLES
    storage,      \* the slot
    readers,      \* libnx: who reads under each lock
    writer,       \* libnx: write_owner_tag
    rwpc,         \* where each thread is
    way,          \* "read" or "write": how a thread locks
    taken,        \* the lock a thread waits for or holds
    lives,        \* times the slot was cleared
    replaced,     \* history: a lock took the place of another
    mistaken      \* history: an unlock released what its thread did not hold

rwvars == <<storage, readers, writer, rwpc, way, taken, lives, replaced, mistaken>>

RwInit ==
    /\ storage = NoLock
    /\ readers = [l \in RwThread |-> {}] /\ writer = [l \in RwThread |-> NoLock]
    /\ rwpc = [t \in RwThread |-> "out"] /\ way = [t \in RwThread |-> "read"]
    /\ taken = [t \in RwThread |-> NoLock]
    /\ lives = 0 /\ replaced = FALSE /\ mistaken = FALSE

RwMoves(t, from, to) == rwpc[t] = from /\ rwpc' = [rwpc EXCEPT ![t] = to]

\* pthread_rwlock_rdlock_fake or pthread_rwlock_wrlock_fake: get_rwlock looks
\* at the slot ...
Ask(t) ==
    /\ RwMoves(t, "out", IF storage = NoLock THEN "make" ELSE "enter")
    /\ \E w \in {"read", "write"} : way' = [way EXCEPT ![t] = w]
    /\ UNCHANGED <<storage, readers, writer, taken, lives, replaced, mistaken>>

\* ... makes a lock if it is empty, and stores it ...
get_rwlock(t) ==
    /\ RwMoves(t, "make", "enter")
    /\ storage' = t
    /\ replaced' = (replaced \/ storage # NoLock)
    /\ UNCHANGED <<readers, writer, way, taken, lives, mistaken>>

\* ... and reads the slot once more.
Enter(t) ==
    /\ RwMoves(t, "enter", "wait")
    /\ taken' = [taken EXCEPT ![t] = storage]
    /\ UNCHANGED <<storage, readers, writer, way, lives, replaced, mistaken>>

WriterWaits(l) == \E t \in RwThread : rwpc[t] = "wait" /\ way[t] = "write" /\ taken[t] = l

Granted(t) ==
    LET l == taken[t] IN
    /\ RwMoves(t, "wait", "in")
    /\ writer[l] = NoLock
    /\ \/ /\ way[t] = "read" /\ ~WriterWaits(l)
          /\ readers' = [readers EXCEPT ![l] = @ \cup {t}]
          /\ writer' = writer
       \/ /\ way[t] = "write" /\ readers[l] = {}
          /\ writer' = [writer EXCEPT ![l] = t]
          /\ readers' = readers
    /\ UNCHANGED <<storage, way, taken, lives, replaced, mistaken>>

\* Mutant: every lock is released as a reader's.
RwUnlock_AsReader(t) ==
    LET l == storage IN
    /\ RwMoves(t, "in", "out")
    /\ readers' = [readers EXCEPT ![l] = @ \ {t}] /\ writer' = writer
    /\ mistaken' = (mistaken \/ t \notin readers[l])
    /\ taken' = [taken EXCEPT ![t] = NoLock]
    /\ UNCHANGED <<storage, way, lives, replaced>>

\* pthread_rwlock_unlock_fake: "libnx needs to know which way it was locked".
\* The lock asked is the one in the slot.
RwUnlock(t) ==
    LET l == storage IN
    /\ RwMoves(t, "in", "out")
    /\ IF writer[l] = t
         THEN writer' = [writer EXCEPT ![l] = NoLock] /\ UNCHANGED <<readers, mistaken>>
         ELSE /\ readers' = [readers EXCEPT ![l] = @ \ {t}] /\ writer' = writer
              /\ mistaken' = (mistaken \/ t \notin readers[l])
    /\ taken' = [taken EXCEPT ![t] = NoLock]
    /\ UNCHANGED <<storage, way, lives, replaced>>

\* pthread_rwlock_destroy_fake and pthread_rwlock_init_fake, when nobody uses it.
\* (A lock that was replaced may still be held: what follows then is not looked at.)
Renew ==
    /\ storage # NoLock /\ ~replaced /\ \A t \in RwThread : rwpc[t] = "out"
    /\ lives < MaxLives /\ lives' = lives + 1
    /\ storage' = NoLock
    /\ readers' = [readers EXCEPT ![storage] = {}]
    /\ writer' = [writer EXCEPT ![storage] = NoLock]
    /\ UNCHANGED <<rwpc, way, taken, replaced, mistaken>>

RwNext ==
    \/ \E t \in RwThread : Ask(t) \/ get_rwlock(t) \/ Enter(t) \/ Granted(t) \/ RwUnlock(t)
    \/ Renew

RwSpec == RwInit /\ [][RwNext]_rwvars

-------------------------------------------------------------------------------
(* Properties. *)

RwTypeOK ==
    /\ storage \in RwThread \cup {NoLock}
    /\ readers \in [RwThread -> SUBSET RwThread] /\ writer \in [RwThread -> RwThread \cup {NoLock}]
    /\ rwpc \in [RwThread -> {"out", "make", "enter", "wait", "in"}]
    /\ way \in [RwThread -> {"read", "write"}]
    /\ taken \in [RwThread -> RwThread \cup {NoLock}]
    /\ lives \in 0..MaxLives /\ replaced \in BOOLEAN /\ mistaken \in BOOLEAN

\* A writer is alone, and every unlock releases what its thread holds - also
\* where the lock is destroyed and made anew - unless two first calls met.
RwLocksHold ==
    \/ replaced
    \/ /\ ~mistaken
       /\ \A t, u \in RwThread : t # u /\ rwpc[t] = "in" /\ rwpc[u] = "in" =>
             way[t] = "read" /\ way[u] = "read"
================================================================================
