-------------------------------- MODULE FileMaps --------------------------------
(***************************************************************************)
(* mmap_fake and munmap_fake (source/bs_shims.c).  A mapping is a heap     *)
(* block; one of a file is filled once, by moving the descriptor to the    *)
(* window, reading, and moving it back, each of which can fail.  The table *)
(* g_maps tells munmap which blocks to free; its lock is initialised by    *)
(* the first call that finds it uninitialised.                             *)
(*                                                                         *)
(* The library's threads (external) map memory, or each a window of a file *)
(* through a descriptor that any of them may use, and give the mapping     *)
(* back, again and again.                                                  *)
(***************************************************************************)
EXTENDS Naturals, FiniteSets

CONSTANTS Thread, Fd, Block, Null,
          FirstCap,     \* the table's first capacity (16)
          ReallocFails  \* whether realloc may fail

ASSUME NullAssumption == Null \notin Thread \cup Block \cup Fd
ASSUME BlockAssumption == IsFiniteSet(Block)
ASSUME CapAssumption == FirstCap \in Nat \ {0}
ASSUME KindAssumption == ReallocFails \in BOOLEAN

VARIABLES
    phase, job, base,   \* where a thread is, its call, and the block it is about
    at,                 \* a thread's register: g_maps_len in maps_remember
    fd,                 \* the descriptor of a thread's call; Null for memory alone
    before,             \* a thread's local of mmap_fake (saved): the position before
    view,               \* what a thread's mapping holds
    pos,                \* the descriptors' positions
    live,               \* blocks allocated and not freed
    maps, len, cap,     \* g_maps, g_maps_len, g_maps_cap
    ready, holder,      \* g_maps_mtx_init, and who holds g_maps_mtx
    crossed,            \* history: threads whose descriptor another moved as they read
    lost,               \* history: threads whose seek or read failed
    astray,             \* history: descriptors that could not be put back
    refused,            \* history: blocks the table had no room for
    clobbered           \* history: a mutex that was held was initialised

fmvars == <<phase, job, base, at, fd, before, view, pos, crossed, lost, astray,
           live, maps, len, cap, ready, holder, refused, clobbered>>
lockVars == <<ready, holder, clobbered>>
fileVars == <<fd, before, view, pos, crossed, lost, astray>>
tableVars == <<at, maps, len, cap, refused>>

\* Where a descriptor is: where the program left it, at the beginning of a thread's
\* window, or behind what was read; and what an lseek that fails says.
Start == <<"start">>
Window(t) == <<"window", t>>
Behind == <<"behind">>
Unknown == <<"unknown">>
Position == {Start, Behind} \cup {Window(t) : t \in Thread}

\* What a block can hold: what was read from a position, or what memset left.
Zeroes == <<"zeroes">>

\* Where a thread is: outside, in mmap_fake, with its mapping, in the table.
Phases == {"out", "seek", "read", "restore", "mapped", "lock", "init", "take",
           "map", "store", "unmap", "unlock"}

\* The table is long enough for every block: its real growth has no end.
Slots == 0..(Cardinality(Block) + 1)

MapsInit ==
    /\ phase = [t \in Thread |-> "out"] /\ base = [t \in Thread |-> Null]
    /\ job = [t \in Thread |-> Null] /\ at = [t \in Thread |-> 0]
    /\ fd = [t \in Thread |-> Null] /\ before = [t \in Thread |-> Unknown]
    /\ pos = [f \in Fd |-> Start] /\ view = [t \in Thread |-> Zeroes]
    /\ crossed = {} /\ lost = {} /\ astray = {}
    /\ live = {} /\ refused = {}
    /\ maps = [i \in Slots |-> Null] /\ len = 0 /\ cap = 0
    /\ ready = FALSE /\ holder = Null /\ clobbered = FALSE

Go(t, from, to) == phase[t] = from /\ phase' = [phase EXCEPT ![t] = to]

-------------------------------------------------------------------------------
(* mmap_fake, up to the table. *)

\* Some call has moved the descriptor and not yet put it back.
Busy(f) == \E t \in Thread : fd[t] = f /\ phase[t] \in {"read", "restore"}

\* posix_memalign, which fails when there is no block, and memset; for a file
\* lseek(fd, 0, SEEK_CUR), which may find another call under way, or fail.
mmap_fake(t) ==
    \/ \E b \in Block \ live, f \in Fd \cup {Null} :
          /\ Go(t, "out", IF f = Null THEN "lock" ELSE "seek")
          /\ base' = [base EXCEPT ![t] = b] /\ live' = live \cup {b}
          /\ job' = [job EXCEPT ![t] = "map"]
          /\ fd' = [fd EXCEPT ![t] = f]
          /\ \E p \in {Unknown} \cup {pos[g] : g \in Fd \cap {f}} : before' = [before EXCEPT ![t] = p]
          /\ astray' = astray \cup {g \in Fd \cap {f} : Busy(g)}
          /\ UNCHANGED <<view, pos, crossed, lost, lockVars, tableVars>>
    \/ phase[t] = "out" /\ live = Block /\ UNCHANGED fmvars

\* The descriptor moves: those who are about to read from it will read elsewhere.
MoveTo(t, p) ==
    /\ pos' = [pos EXCEPT ![fd[t]] = p]
    /\ crossed' = crossed \cup {u \in Thread \ {t} : phase[u] = "read" /\ fd[u] = fd[t]}

\* lseek(fd, offset, SEEK_SET); if it fails nothing is read.
Seek(t) ==
    /\ \/ Go(t, "seek", "read") /\ MoveTo(t, Window(t)) /\ lost' = lost
       \/ Go(t, "seek", "restore") /\ lost' = lost \cup {t} /\ UNCHANGED <<pos, crossed>>
    /\ UNCHANGED <<job, base, fd, before, view, astray, live, lockVars, tableVars>>

\* A read takes what is at the descriptor and moves it; if it fails the block is
\* as memset left it, and the call goes on.
Read(t) ==
    /\ Go(t, "read", "restore")
    /\ \/ view' = [view EXCEPT ![t] = pos[fd[t]]] /\ MoveTo(t, Behind) /\ lost' = lost
       \/ lost' = lost \cup {t} /\ UNCHANGED <<view, pos, crossed>>
    /\ UNCHANGED <<job, base, fd, before, astray, live, lockVars, tableVars>>

\* Mutant: the descriptor is left behind the window.
Restore_Not(t) ==
    /\ Go(t, "restore", "lock")
    /\ UNCHANGED <<job, base, fileVars, live, lockVars, tableVars>>

\* lseek(fd, saved, SEEK_SET), which is not made when the first one failed, and
\* whose own failure is not looked at.
Restore(t) ==
    /\ Go(t, "restore", "lock")
    /\ \/ before[t] # Unknown /\ MoveTo(t, before[t]) /\ astray' = astray
       \/ astray' = astray \cup {fd[t]} /\ UNCHANGED <<pos, crossed>>
    /\ before' = [before EXCEPT ![t] = Unknown]
    /\ UNCHANGED <<job, base, fd, view, lost, live, lockVars, tableVars>>

-------------------------------------------------------------------------------
(* munmap_fake, the lock and the table. *)

\* What the mapping holds does not matter any more.
munmap_fake(t) ==
    /\ Go(t, "mapped", "lock")
    /\ job' = [job EXCEPT ![t] = "unmap"]
    /\ fd' = [fd EXCEPT ![t] = Null] /\ view' = [view EXCEPT ![t] = Zeroes]
    /\ crossed' = crossed \ {t} /\ lost' = lost \ {t}
    /\ UNCHANGED <<base, before, pos, astray, live, lockVars, tableVars>>

\* maps_lock: the flag is looked at ...
LockCheck(t) ==
    /\ Go(t, "lock", IF ready THEN "take" ELSE "init")
    /\ UNCHANGED <<job, base, fileVars, live, lockVars, tableVars>>

\* ... mutexInit frees the mutex, whoever has it ...
LockInit(t) ==
    /\ Go(t, "init", "take")
    /\ ready' = TRUE /\ holder' = Null
    /\ clobbered' = (clobbered \/ holder # Null)
    /\ UNCHANGED <<job, base, fileVars, live, tableVars>>

\* ... and the mutex is waited for.
LockTake(t) ==
    /\ Go(t, "take", job[t])
    /\ holder = Null /\ holder' = t
    /\ UNCHANGED <<job, base, fileVars, live, ready, clobbered, tableVars>>

\* maps_remember: a full table is doubled, if realloc can; without room the
\* block is not remembered.
maps_remember(t) ==
    /\ \/ /\ len < cap /\ cap' = cap
          /\ Go(t, "map", "store") /\ refused' = refused
       \/ /\ len = cap /\ cap' = IF cap = 0 THEN FirstCap ELSE 2 * cap
          /\ Go(t, "map", "store") /\ refused' = refused
       \/ /\ len = cap /\ ReallocFails /\ cap' = cap
          /\ Go(t, "map", "unlock") /\ refused' = refused \cup {base[t]}
    /\ at' = [at EXCEPT ![t] = len]
    /\ UNCHANGED <<job, base, fileVars, live, lockVars, maps, len>>

\* The new entry and the new length, from the length read before.
Store(t) ==
    /\ Go(t, "store", "unlock")
    /\ maps' = [maps EXCEPT ![at[t]] = base[t]]
    /\ len' = at[t] + 1
    /\ UNCHANGED <<job, base, at, fileVars, live, lockVars, cap, refused>>

\* Mutant: the table is shortened, but the last entry does not move.
maps_forget_NoMove(t) ==
    /\ Go(t, "unmap", "unlock")
    /\ IF \E i \in 0..(len - 1) : maps[i] = base[t]
       THEN len' = len - 1 /\ live' = live \ {base[t]}
       ELSE UNCHANGED <<len, live>>
    /\ UNCHANGED <<job, base, at, fileVars, lockVars, maps, cap, refused>>

\* maps_forget: the last entry moves into the place of the one found.  The free
\* behind the unlock is part of the step: no other thread has the block.
maps_forget(t) ==
    /\ Go(t, "unmap", "unlock")
    /\ \/ \E i \in 0..(len - 1) :
             /\ maps[i] = base[t]
             /\ maps' = [maps EXCEPT ![i] = maps[len - 1]]
             /\ len' = len - 1 /\ live' = live \ {base[t]}
       \/ /\ \A i \in 0..(len - 1) : maps[i] # base[t]
          /\ UNCHANGED <<maps, len, live>>
    /\ UNCHANGED <<job, base, at, fileVars, lockVars, cap, refused>>

\* maps_unlock, and the call returns.
maps_unlock(t) ==
    /\ Go(t, "unlock", IF job[t] = "map" THEN "mapped" ELSE "out")
    /\ holder' = Null
    /\ base' = [base EXCEPT ![t] = IF job[t] = "map" THEN @ ELSE Null]
    /\ UNCHANGED <<job, fileVars, live, ready, clobbered, tableVars>>

MapsNext == \E t \in Thread :
    \/ mmap_fake(t) \/ Seek(t) \/ Read(t) \/ Restore(t) \/ munmap_fake(t)
    \/ LockCheck(t) \/ LockInit(t) \/ LockTake(t)
    \/ maps_remember(t) \/ Store(t) \/ maps_forget(t) \/ maps_unlock(t)

MapsSpec == MapsInit /\ [][MapsNext]_fmvars

\* Two threads in the table at once corrupt it; what they do next is not explored.
Unclobbered == ~clobbered

-------------------------------------------------------------------------------
(* Properties. *)

MapsTypeOK ==
    /\ phase \in [Thread -> Phases]
    /\ job \in [Thread -> {Null, "map", "unmap"}] /\ base \in [Thread -> Block \cup {Null}]
    /\ fd \in [Thread -> Fd \cup {Null}] /\ before \in [Thread -> Position \cup {Unknown}]
    /\ pos \in [Fd -> Position] /\ view \in [Thread -> Position \cup {Zeroes}]
    /\ crossed \subseteq Thread /\ lost \subseteq Thread /\ astray \subseteq Fd
    /\ live \subseteq Block /\ refused \subseteq Block
    /\ maps \in [Slots -> Block \cup {Null}] /\ at \in [Thread -> Slots]
    /\ len \in Slots /\ cap \in Nat /\ (clobbered \/ len <= cap)
    /\ ready \in BOOLEAN /\ clobbered \in BOOLEAN /\ holder \in Thread \cup {Null}

\* The threads whose block is theirs and is not on its way in or out of the table.
Holding == {t \in Thread : \/ phase[t] = "mapped"
                           \/ job[t] = "unmap" /\ phase[t] \in {"lock", "init", "take"}}

\* "A small table remembers each base pointer so munmap can free it": between two
\* critical sections the table lists the mapped blocks, each once, and a block
\* that no thread has is free.  Excepted are blocks that the table could not
\* grow to hold, and what comes after two first calls met in maps_lock.
TableExact ==
    holder = Null /\ ~clobbered =>
        LET listed == {maps[i] : i \in 0..(len - 1)} IN
        /\ Cardinality(listed) = len
        /\ listed = {base[t] : t \in Holding} \ refused
        /\ live \subseteq refused \cup {base[t] : t \in Thread}

\* "mmap callers don't expect the fd position to move": when no thread is between
\* its two seeks, a descriptor is where the program left it.  Excepted are those
\* that a call used while another was between its seeks, and those that could not
\* be put back: from then on the place is lost.
FdRestored == \A f \in Fd : Busy(f) \/ f \in astray \/ pos[f] = Start

\* "Anonymous maps are just zeroed memory; file-backed maps are filled once via
\* pread at the requested offset": a mapping holds the window that was asked for,
\* unless another call moved the descriptor between its seek and its read.  Where
\* a seek or a read failed, which the caller is not told, it holds zeroes.
WindowRead ==
    \A t \in Thread : phase[t] = "mapped" =>
        IF fd[t] = Null \/ t \in lost THEN view[t] = Zeroes
        ELSE t \in crossed \/ view[t] = Window(t)

\* What pread gives, though the code seeks and reads: the window, and a
\* descriptor that has not moved.
MapsLikePread == FdRestored /\ WindowRead
================================================================================
