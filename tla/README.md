# Burger Shop for Switch: specifications, model checks and proofs

This directory holds TLA+ specifications of the Switch port of Burger Shop
(`source/`), the TLC configurations that check them on small instances, and
TLAPS proofs. The port is a loader: it maps two Android libraries, the game
(`libburgershop`) and the sound library BASS, into a homebrew process and gives
them a Java environment, a C library, OpenSL ES and input. The code of the two
libraries is not here; they are modelled from how `source/` calls them and how it
is called, and such definitions are marked external in `PROJECT.json`.

`PROJECT.json` lists components, runs, mutants, hazards and theorems, and maps
each definition to its source lines.

## 1. The system

| Part | State | Operations | Works with |
|---|---|---|---|
| OpenSL ES players (`opensles.c`) | ring, head, count, play state, callback pair; registry `g_players`; device | buffer queue and play interfaces, create, destroy; pump thread per player; SDL audio callback | BASS (callback), SDL (callback thread), movie audio (device) |
| Movie audio (`opensles.c`) | one ring, two counters, active, paused, who opened the device | begin, queue, set_paused, end, shutdown | audio callback, players |
| JNI registry (`jni_fake.c`) | table of local references, stack of frame marks | make, delete, promote, push and pop frame | every thread of the game |
| JNI method ids (`jni_fake.c`) | pool of names and signatures, its count | `GetMethodID` | every thread of the game |
| Pointer input (`nx_pointer.c`, `feed_pointer`) | cursor, gyro, mouse and touch state, event queue, number of the last mouse sample | `nxp_update`, `nxp_poll` once a frame | console mode, HID, the game's touch handler |
| Pointer settings (`nx_pointer.c`) | three sensitivities, dirty flag, timer, `pointer.cfg` | D-pad, wheel, tick, save, load | applet hook, exit of the main loop |
| Cursor drawing (`nx_pointer.c`) | the picture of the cursor, what it saved of the context | `nxp_draw` once a frame | the game's OpenGL ES 1 context |
| Loader (`so_util.c`, `load_two_modules`) | images, zones, pointers to bind, page permissions | load, relocate, resolve, finalize, flush, init, free, dlsym | import table, kernel mapping calls |
| Mutexes and condition variables (`imports.c`) | pointer slots, objects behind them | lock, unlock, wait, timedwait, signal, broadcast | threads of both libraries, clocks |
| Read-write locks (`libc_shim.c`) | pointer slot, lock behind it | init, rdlock, wrlock, unlock, destroy | threads of both libraries |
| Clocks (`libc_shim.c`, `imports.c`) | two bases of `gettimeofday` | gettimeofday, clock_gettime, the deadline of a timed wait | threads of both libraries |
| Main loop and keepalive (`main.c`, `imports.c`) | frame deadline, the music handle and whether it is wanted | pointer, keyboard, keepalive, render, pace | game, BASS, pointer input, saves |
| Software keyboard (`main.c`, `jni_fake.c`) | a request flag | `ShowKeyboard`, `handle_keyboard` | game, main loop |
| File mappings (`bs_shims.c`) | table of blocks, its lock, descriptor positions | mmap, munmap | threads of both libraries |
| Language and options (`main.c`) | `g_lang`, `language.txt`, `registry.bin` | load, persist, save | main loop, applet hook, exit |

What makes it hard: the audio path has three kinds of thread on one ring, part of
it unlocked; the JNI registry and pool, the lazily made mutexes and locks, the seed of the
clock and the mapping table are shared by threads of libraries that were written
for another system; three kinds
of file are written with `fopen("w")` in a process that the system may kill; the
input state machine combines five devices and a console that may be docked at any
time, and reads samples that come faster than frames; the cursor is drawn in the
middle of somebody else's OpenGL state; the main loop calls a game
that calls back into it; and the loader is a protocol whose steps invalidate what earlier ones used.

What makes each part correct is what its run checks (section 3); the list of what
could go wrong, line by line, is `hazards` in `PROJECT.json`.

## 2. Modules

An MC module instantiates the module of the same name and holds only the
definitions its cfgs need. MCSync, MCPointer, MCLibraries (SoLoader, JniRefs,
MethodIds) and MCSaves (Persistence, PointerSettings, FileMaps) check several modules
that share no state: a behaviour runs one of them, chosen at its start (`part`), while
the others rest. `JniRefs_outer.cfg` and `PointerSettings_dropped.cfg` need no
definitions and run their module as it is. Modules named `...Proofs` hold theorems (section 5).

**AudioFifo** is the promise of both audio rings: a bounded queue that takes
whole buffers, drops only what does not fit, and gives blocks from its front; it
may be emptied.

**PlayerRing** is one living player. A step is what the code does under
`p->lock`; what it does outside (`p->playing`, `p->cb`, `p->cb_ctx`) are steps of
their own. The pump thread is `PumpTop`, `PumpLook` (the two halves of one
condition), `PumpFill`, `PumpPrompt`, the external `BassCallback`, `PumpRefill`; the
mixer is `MixCheck`, `MixDrain`; the engine thread is `EngineStep`. Histories (`out`,
`lost`, `primed`, `disturbed`, `late`) record what the properties ask about. The
engine registers, replaces and withdraws its callback at any time, in two stores
(`RegisterCb`, `RegisterCtx`), also while the pump prompts: a round of the pump that
a registration overlaps is `disturbed`. It may queue `MaxPrime` frames on its own.
`called` is what the pump loads for a prompt; C does not say in which order.

**PlayerLife** is creation and destruction of players by several engine threads
while the audio callback walks the registry. A player is its address, so a freed
one can come back. `player_Destroy` is four steps (stop, join, unregister, free).

**MovieAudio** is the movie's ring and its share of the device. It composes with
players through the device: whoever needs it first opens it, and the end of a
movie closes it only if the movie opened it.

**LocalFrames** is JNI's promise: a stack of sets of references, each frame
freeing its own. **JniRefs** is the code's flat table with marks, which all threads
share, and beside it what JNI lets the engine use: how many global references an
object has (`globals`), how many local ones each open frame of each thread has
(`held`), and the frames in the order they were pushed (`nest`). The engine does what
JNI allows: it passes references of any open frame of its thread and global ones,
makes second references (`NewLocalRef` returns the object itself), and goes on using a
local one after it has made a global one. A flat table cannot follow all of that:
`strayed` is set by the call that leaves what it can, and the comment of
`NoDoubleFree` lists these calls.

**MethodIds** is `get_id`, each load and store of the pool one step: a thread
scans, asks whether there is room (`PoolFull`, `PoolHasRoom`), reads the count again
for the entry it takes (`TakeEntry`), writes it, and writes the name and the signature
of its entry, with other threads in between. A thread that found room when another
took the last entry writes past the end of the pool; what that does is undefined, and
the thread stops there (`overran`).

**NxPointer** is a frame of input in the order of `nxp_update`, with docking and
plugging between any two parts. Positions are left out; what moved the cursor in a
frame, the mouse or the gyro, is kept.

**MouseSamples** is the part of `do_mouse` that NxPointer leaves out: the samples
HID numbers and keeps for a while (external), which of them are new, and how they
add up to motion and notches of the wheel. Motion is in the mouse's units. A mouse
reports its wheel on one axis (`SampleAssumption`): the code sums both and takes
"whichever axis actually reports", on this hardware `wheel_delta_x`.

**CursorDraw** is `nxp_draw` inside the engine's OpenGL ES 1 context (external, kept
to the state the overlay touches, with its selectors: the active texture unit, the
unit of the client arrays, the buffer an array takes its data from). The engine
makes any `MaxCalls` calls, between them and the overlay's; `before` is the context
as nxp_draw found it.

**PointerSettings** is the persistence of the sensitivities. A sensitivity is an
integer, and the file holds it rounded to a multiple of `Grain`, as `"%.2f"`
does. A save is two steps (`SaveOpen` empties the file, `SaveWrite` fills it), and
a kill may come between them. `idle` and `timed` count what a burst of presses
costs; `cfg_failed` is a last save that was not completed.

**SoLoader** is `load_two_modules`: one step per call, in the order of the code,
over every pair of small images. The words that RELR names are encoded by the
linker (`Relr`, external) and decoded by the code (`so_process_relr`); `rebased`
counts how often each word was moved. A step that touches memory that is gone is
recorded as a fault, and ends the process.

**LazySync** is a producer and consumer program (external) on the pthread shims:
the check of the slot, the creation of the object and its use are separate steps.
Each of the two variables may be initialised beforehand or zero, each consumer
may wait with a time-out or without, and a producer wakes one consumer or
all of them. A slot in which one object replaced another is `clobbered`.

**RwLocks** is readers and writers (external) on the read-write locks of
`libc_shim.c`, whose slot is filled at first use. The state of libnx's lock
(readers, write owner) is external; `RwUnlock` asks it which way it was taken.
`Renew` is destroy and init when nobody uses the lock.

**Clocks** has the two clocks of the console (the wall clock is coarse, and a
constant ahead of the fine one), `gettimeofday_fake` with each access to its two
bases as a step, and a timed wait as one action: its deadline is computed from any
clock id of bionic and taken for that of the nearer clock.

**Persistence** is the language and the options through the frames of the main
loop, the applet hook (run by `appletMainLoop` on the same thread) and the exit.

**FileMaps** is mmap and munmap: the calls on the descriptor, which any thread may use
at the same time, the lazily initialised lock, and the table. Where a descriptor is
(`pos`) and what a mapping holds (`view`) are where the program left it, a thread's
window, or behind it. The first lseek may fail, so that nothing is put back; the
second, so that nothing is read; the read, so that the block keeps its zeroes; and the
last, whose result nobody looks at. Histories say what went wrong on the way:
`crossed` (another call moved the descriptor between a seek and its read), `lost` (a
seek or a read failed), `astray` (a descriptor that was used between the two seeks of
another call, or could not be put back). `maps_remember` is two steps, so
that what two threads do there at once could be seen; `maps_forget` is one, and what
happens after two first calls met in `maps_lock` is not explored (the constraint
`Unclobbered`).

**MusicKeepalive** is the BASS calls bound by the port and the check of the main
loop. **MainLoop** extends it to the whole loop: the parts in their order, of which
pointer input, typed text and `e_nativeRender` run the game, which may there call
BASS and ask for the keyboard or withdraw the request; and the frame pacer. Time
is kept relative to now (how far the deadline is, how long ago the last frame
ended), so nothing grows.

## 3. Runs

Each run asks whether one part keeps its promises; every property of a passing run
has a mutant, a bug in a definition of the model, that violates it.

| Run | Bounds | Shows |
|---|---|---|
| `ring` | Rate 3 (target 1), Burst 2, MaxPrime 1, Period 2, one callback (and NULL), registered at any time, two frame values | `NoDrop` (where the sizes are `Paced`), `CallbackPairCoherent`, `AtMostOneLate`, `RingIsFifo`, `LowRingIsPrompted` |
| `life` | 3 players, 2 slots, 2 engine threads | `NoUseAfterFree`, `SlotsExact` (each player once, no slot lost), also when the registry is full; `DestroyReturns` |
| `movie` | ring of 2, buffers up to 3 (more than the ring), 3 frames a movie, two frame values | `ClockAgrees`, `MovieIsFifo`, `PlayersDeviceStays`, `CallsReturn` |
| `libraries` | loader: 3 names, 1 in the table, every split of defined and imported, two layouts; every set of 7 words, bitmaps of 2; references: 2 threads with 2 nested frames each, 3 objects, a table of 3, at most 2 references of a kind; methods: 2 threads, 3 methods of which two share a name and two a signature, a pool of 2 | `LayoutFits` (zones apart, page permissions), `BoundBeforeRun`, `RelativesOnce`, `NoFault`; `NoDoubleFree`, `HeldIsLive`, `HonoursFrames`; `IdMeansMethod` |
| `pointer` | frame: 2 touch slots, up to 3 fingers, queues of 4 and 3; mouse: a buffer of 3, 5 samples, at most 2 notches a frame; drawing: 1 buffer object, 3 calls of the engine | `GyroYields`, `EngineAgrees`; `EverySampleCounts`; `EngineStateKept` |
| `saves` | language: 3 codes, looks every 2 frames, registry every 4; sensitivities: 2 devices, 5 levels, grain 2, debounce 2; mappings: 2 threads, 1 descriptor, 2 blocks, first capacity 1, every call may fail | `FileMatches`, `CheckpointSaves`; `TuningQueued`, `OneWritePerBurst`, `QueuedIsSaved`; `TableExact`, `MapsLikePread` |
| `sync` | mutexes: 2 producers, 1 consumer, 2 items, all initialisations and kinds of wait; read-write locks: 3 threads, one renewal; clocks: 2 threads with 2 calls, 3 readings, a wall clock near and far, delays from -1 to 3, clamp at 2 | `ExcludesUnlessClobbered`, `AllConsumed`; `RwLocksHold`; `OneTimebase`, `WaitsAsAsked` |
| `loop` | 2 music streams, 1 effect; frames of 2 ticks, up to 3 late | `OnlyWhatWasPlayed`, `NoRacing`, `KeyboardAnswers`, `MusicLoops` |
| `persist_killed` | the language as in `saves`, a card that never fails | `SavedLanguageSurvives` is violated |
| `overlay_arrays` | drawing as in `pointer` | `ArraysRestored` is violated |
| `jni_outer` | 1 thread, 1 nested frame, 2 objects, no global references | `HonouredHere` is violated |
| `settings_dropped` | 1 sensitivity of 3 levels, grain 1, debounce 2 | `TuningCommitted` is violated |

The type invariants document the variables and are part of the inductive
invariants; no run spends a property on one.

Why the bounds are enough: each ring wraps, fills and empties within a few frames
whatever its size, since its code is uniform in the capacity (and for PlayerRing
the proofs remove the bound); each registry, pool and table is made so small that
it is full, reused and grown; two threads are all that an unsynchronised check
needs, a third of a read-write lock gives two readers and a writer; three items
of a kind give every order of a hole, its filler and a bystander (the mapping table has
two, a hole and its filler, and the theorems any number); seven words
give stretches of one, two and three bitmaps with gaps; five samples overwrite a
buffer of three before and after the mouse is first read; three calls of the engine
are enough to set an array from a buffer, unbind it and select another unit; with frames of two ticks
and a lateness of three there is more than one frame that could be caught up with.
Counters that only grow (`MaxPrime`, `MaxQueued`, `MaxItems`, `MaxDepth`, `MaxRefs`,
`MaxSamples`, `MaxLives`, `MaxCalls`, `Call`, `Uptime`) are bounded in guards and
named in the modules.

The sizes of `ring` are `Paced`, or `NoDrop` would say nothing; so the ring gets
full there, but `bq_Enqueue` never has to drop. With `Burst = 3` it drops, and
`RingIsFifo` and the other properties hold as well (`NoDrop` then by its premise);
the theorems cover all sizes.

Where a cfg switches the deadlock check off the system may stop: after
`opensles_shutdown` (MovieAudio), when all items are made and the consumer sleeps
(LazySync), when the loader is done or each thread that looks methods up has written past the
pool (MCLibraries), when the loop is left (MainLoop).

Some properties except what the code gets wrong, and say so. Each exception is a
history variable that a definite step sets, and nothing else is excused by it:

- two first calls that meet on a mutex or a lock (`clobbered`, `replaced`), or in the
  lock of the mapping table (`clobbered`);
- a round of the pump that a registration overlaps (`disturbed` in PlayerRing);
- a call of the engine that leaves what a flat table of references can follow
  (`strayed`), and all that comes after it;
- two threads that take one entry of the pool (`clashed`), one that takes an entry past
  its end (`overran`), and methods that find it full (`unnamed`);
- a call of `gettimeofday` during which another thread seeds the bases (`disturbed` in
  Clocks);
- calls that cross on one descriptor, and seeks and reads that fail (`crossed`,
  `astray`, `lost`);
- a save of the sensitivities that failed and was the last one (`cfg_failed`), a write
  of the language that failed (`failed`).

The runs do not explore what follows `strayed`, `overran` and a `clobbered` table
(constraints `Followed`, `Unclobbered`); the theorems have the exceptions themselves.
`EngineStateKept` names what the overlay does not give back (see below).

### Where the code does otherwise

Four runs end in a violation; they are the findings of `PROJECT.json`.

- `persist_killed`: `persist_language` empties `language.txt` before it writes it
  (`main.c:271`), and a kill in between loses the language saved before, although a
  comment (`main.c:681`) has the periodic save make it survive "even if the process
  is killed abruptly".
- `overlay_arrays`: `carray_save` (`nx_pointer.c:715`) takes the buffer that is bound
  now for the one the array was set with. OpenGL keeps them apart: an engine that
  sets an array from a buffer object and then unbinds it gets back a pointer into
  memory, where the comment (`nx_pointer.c:811`) says "re-bind the source buffer each
  was using".
- `jni_outer`: a second local reference has no entry in the table (`jni_fake.c:275`).
  Deleting it in an inner frame takes out the entry of the outer frame and frees the
  object (`jni_fake.c:101`), and the pop puts `locals_top` back up to a mark that now
  lies above what is left: the stale entry is in the table again, and freed again.
  JNI allows each of these calls, which the comment says "we honour here"
  (`jni_fake.c:60`).
- `settings_dropped`: `nxp_save_settings` forgets that a save was queued when it cannot
  open the file (`nx_pointer.c:147`), and does not see that it could not write it; the
  comment (`nx_pointer.c:72`) has each change "committed 3s after the LAST change".

Modelling met other places where a comment and the code differ, or where calls that
meet go wrong. No run checks them; most can be seen by dropping an exception.

| Place | What differs | How to see it |
|---|---|---|
| `opensles.c:612` | A registration while the pump prompts has it call one callback with the context of another, or NULL | drop `disturbed` from `CallbackPairCoherent` |
| `jni_fake.c:283` | Frames of all threads share one stack of marks: one thread's pop frees references of another | drop `strayed` from `HeldIsLive`, and the constraint of `MCLibraries.cfg` |
| `jni_fake.c:265` | A local reference that a global one is made of dies with the global one, though JNI keeps it usable | the same |
| `nx_pointer.c:580` | The wheel does not call `settings_touch`, while "A save is queued whenever a sensitivity changes" (`nx_pointer.c:72`) | drop the exception for the wheel from `TuningQueued` |
| `nx_pointer.c:735` | Of "every piece of state it touches" (`nx_pointer.c:695`) the matrix mode, unit 0's environment mode and the current colour are not given back; `TEXTURE_2D` and the texture coordinate array are saved for the engine's unit and restored there, after unit 0's were changed; the colour array is switched off by `glDisable`, a call for capabilities | drop an exception of `EngineStateKept` |
| `imports.c:96` | Two first calls on one zero-initialised mutex make two objects, and both threads enter | drop `clobbered` from `ExcludesUnlessClobbered` |
| `libc_shim.c:900` | The same for read-write locks: a writer may be with another | drop `replaced` from `RwLocksHold` |
| `libc_shim.c:517` | A second first call of `gettimeofday` reads a base without the other, and returns a time that is off by the uptime | drop `disturbed` in `TodReturn`: `OneTimebase` |
| `jni_fake.c:181` | Two threads take one entry of the pool: the id of one names the method of the other; or both find the last entry free, and one writes past the end | drop `clashed` from `IdMeansMethod`; `~overran` as an invariant |
| `nx_pointer.c:534` | "Accumulate every sample" holds of those HID still has: what it overwrote between two frames is lost | drop `overrun` from `Due` in MouseSamples |
| `bs_shims.c:65` | Two first calls initialise the lock of the table twice, the second while it is held | `Unclobbered` as an invariant |
| `bs_shims.c:118` | mmap seeks the shared descriptor where the comment (`bs_shims.c:48`) says pread: another thread's window may be read, and "mmap callers don't expect the fd position to move" (`bs_shims.c:113`) is broken for a call in between | drop `crossed` or `astray` from `MapsLikePread` |
| `bs_shims.c:120` | A seek or a read that fails leaves zeroes, and mmap succeeds; where the first lseek failed the descriptor is not put back (`bs_shims.c:127`) | drop `lost` or `astray` |
| `bs_shims.c:189` | dlsym's last resort reads symbol tables in `load_base`, which `so_finalize` mapped away | not modelled: a lookup in SoLoader once `ran # <<>>` reads a `locked` library |
| `opensles.c:334` | A prompt that delivered audio counts as "No data produced" when the mixer drained as much meanwhile | read `PumpFill` and `PumpRefill` |
| `opensles.c:322` | The callback runs on the pump thread; the header says SDL audio thread (`opensles.c:9`) | `BassCallback` is a step of the pump |
| `imports.c:434` | The END sync keeps its type, though it is said to be "promoted to MIXTIME" (`imports.c:409`) | not modelled: the call only forwards |

How far these reach in practice depends on the libraries: they need a game that
makes second references, or uses JNI frames on two threads, or two threads at a first
use or on one descriptor.

## 4. Fairness

- PlayerRing: weak fairness of the pump and of the mixer. Both loop for ever with
  sleeps of milliseconds and SDL calls the mixer once a period; BASS's callback
  returns. The engine owes nothing.
- PlayerLife: weak fairness of pumps and of the audio callback, strong fairness
  of a call that has begun: the callback holds `g_reg_lock` for a small part of
  each period, so a waiting thread gets it. No call need be made.
- MovieAudio: weak fairness of the decoder's polling loop and of the callback;
  strong fairness of finishing a control call, because `SDL_CloseAudioDevice`
  keeps the callback from being called again.
- PointerSettings (`SettingsFairness`, in MCSaves `MCFairness`): the main thread runs
  frames and finishes saves while it lives; it need not live, and a player may use the
  D-pad for ever.
- LazySync (`MCFairness`): threads run, a mutex that is free again and again is
  got in the end, a consumer keeps asking; producers owe nothing before they begin.
- MainLoop: weak fairness of the loop's own steps. What it calls returns, also the
  game and the keyboard applet; the game need not ask for anything, and leaving the
  loop is never required.

JniRefs, MethodIds, NxPointer, MouseSamples, CursorDraw, RwLocks, Clocks, SoLoader, Persistence
and FileMaps have safety properties only and no fairness.

## 5. Proofs

Each theorem holds for every value of the constants that satisfies the module's
named assumptions, and is about the module whose instance the run checks (in a
union such as MCSync, the part of that name). Each follows from an inductive
invariant with one lemma or step per action. The assumptions are natural numbers, positive
where the code divides or loops by them, and null values that are not members.

**PlayerRingProofs**: `TypeCorrect`, `NothingDropped`, `PairCoherent`,
`OneStraggler`, from `IInv == TypeOK /\ Pacing /\ Pairing /\ Straggling`.

- `NoDrop` is not inductive: that a buffer fits depends on where the pump is.
  `Pacing` adds that the ring holds less than the target plus what was primed
  while a prompt is under way, and one buffer more at any other time. `NoDrop` is
  conditional on `Paced`: the third of the ring below the target, one buffer and
  what is primed fit in the ring. With a second of ring this asks that BASS's
  buffer and what it primes are shorter than two thirds of a second.
- `CallbackPairCoherent` needs `Pairing`: between two registrations callback and
  context belong together, and in a round that none overlaps the pump has seen the
  callback that is still in force, so that what it loads, in either order, is of that
  registration.
- `AtMostOneLate` needs `Straggling`: a thread that overran a stop has gone back
  to the place where it looks at `p->playing`.

`RingRefinesFifo` says that PlayerRing implements AudioFifo
under the mapping that reads the queue from the ring (`Buffered`: from head, as
many as are counted, indices modulo the capacity). One lemma per step says what it
does to the queue: bq_Enqueue appends what fits, a drain removes from the front,
bq_Clear empties. They rest on arithmetic of an index that wraps once at most, and
on `TypeCorrect`.

**MovieProofs**: `MovieClock`, `DeviceOfPlayers` and `MovieRefinesFifo`, from
`MovieInv`. The clock needs nothing but the types. That the end of a movie leaves a
player's device open needs `Ownership`: the device is open exactly if someone opened
it, and what the movie takes for its own is what it opened. The refinement goes as
that of PlayerRing, except that one decoder call may wrap and be cut short at once.

**PlayerLifeProofs**: `NothingFreedIsUsed` and `RegistryIsExact`, from `LifeInv`.
Who owns a player is not in the state, so the invariant says it: one call under way,
or the engine (`CallsOwn`); a pump runs for an owned player only, and is gone when
its call is past the join (`PumpsOwn`); the registry holds each owned player once,
and nothing above its count (`SlotsOwn`). That a registry without a hole holds as
many players as its count is a counting lemma (`Cardinality` of an injective image).

**MainProofs**: `KeepaliveIsHonest` and `PacerDoesNotRace`, from `LoopInv`,
and that the loop keeps its types (`LoopTypes`). The keepalive needs `Remembered`:
the handle to keep looping was played and not stopped since, or is freed and never
used again. The pacer needs `Slack`: after a short frame, what has been spent of
the next one and what is left to its deadline make up a whole frame with it.
`NoCallFaults`, `BindsBeforeRun` and `LayoutIsRight` are about the loader, for every
two files: an invariant that holds before each call, `LoaderInv`, over how many calls
are left (`Left`). What a call has done stays done (`Past`), because no later call
touches it again and every constructor comes after all of them: `Bindings` says so of
relocation and symbol resolution, `Permissions` of the pages, `Memory` of what was
mapped away or freed. `LinkAssumption` is what the linker of these libraries gives:
code and data share no page.
`EachMovedOnce` is about what the calls compute. That `Relr` is defined for every set
of words, and that the fold over its entries goes from the first to the last, follows
from the smallest counterexample: `WFMin` for a set of words ordered by inclusion, the
least number for a sequence, both first-order. `InStep` relates decoder
and encoder: where the code's `where` stands, a bitmap would begin. One entry then
moves the words it stands for and no others (`EntryMoves`), and so all entries the words of
the table (`WordsMoveOnce`, on the set of words left).
`Rebased` carries it through the calls: a library is relocated once, while its file is there.

**SyncProofs**: `MutexesExclude`, `LocksHold`, `WaitsHold` and `OneTimebaseHolds`. For mutexes
(`MutexInv`): while no object replaced another, each thread past the look at the
slot uses the object in it, and whoever is inside owns it. For read-write locks
(`RwInv`): there is one lock at a time, its readers and writer are exactly those
inside, and no other lock has a trace of anybody. For waits: case analysis of
which clock is nearer; taking the wrong one can only shorten the wait. For the time
of day (`TodInv`): a call that no other thread seeded in is alone with the bases
(`Alone`), and once such a call has returned the bases stay (`OneBase`).

**JniProofs**: `IdsHold`, from `IdInv`: until two threads take one entry,
the threads that write entries write different ones, an entry being written has no
signature yet, so that no scan returns it, and an entry once returned is never written.
A thread that would write past the end of the pool has no entry (`Has`).
`NothingFreedTwice` and `ReferencesLive`, from `RefInv`, for any number of threads,
every size of the table and of the stack, until the engine strays (`~strayed =>
Orderly`). The marks cut the table into sections, one for each frame in the order all
threads pushed them, and one below all marks; each entry lies in the section of the
frame that holds it and is there once, and what is global is in no section. So a call
in the frame pushed last changes the last section only, and a pop frees that frame's
entries, each once (`Cardinality` of an injective image again).
`FramesHonoured`: until then the flat table implements LocalFrames, as
long as it has a free entry for each object the engine can make (`Room`); with a full
table the code drops a reference that LocalFrames would free, so that hypothesis is
what the code needs and not a convenience. `RoomForAll` shows that it holds in all
states if there are no more objects than entries. The mapping reads the frames off
`locals` and the marks; `FramesAreHeld` turns that into `HeldIn`, which does not
mention the table, and each call is matched with its step of LocalFrames there.

**PointerProofs**: `MouseHasPriority`, from `OneMover`, which says what may
have moved the cursor before each part of the frame. `EngineUpToDate`, from
`PointerInv`: the events in the queue bring the engine from what it believes of each
pointer to what the module believes (`Fits`), a finger having one event at most and
the cursor's coming last. No event is lost because all of them fit:
the assumption on the queues, which the code's sizes meet, is
`TouchSlots + 1 <= PollMax <= EvCap`. `ContextGivenBack`, from
`DrawInv`: behind each part of nxp_draw, `Holds` says what `locals` has of the context
as it was, and `Entered` and `Drawn` what the parts so far have changed: unit 0 only, a
matrix more on each stack, and alpha test and lighting off, which is why the
restoring part may only ever enable them.
`SamplesCount`, from `MouseInv`: what was due before a frame and what is fresh in it are
apart and together what is due after it, because the samples that left the ring unseen,
and they alone, are `overrun` (`OverrunIs`). The sums must then be additive over sets of
samples that are apart (`SumUnion`), which goes by the smallest counterexample as above. Of the
two axes of the wheel the code takes one per frame, so the wheel is
additive for a mouse that reports on one (`SampleAssumption`).

**FileProofs**: `FileIsRight` and `NothingIsLeftBehind`, from `SaveInv`:
what is still on the list of saves is what the file or the registry lacks.
`TuningIsQueued` and `BurstCostsOneWrite`, from `SettingsInv`: the timer that is
running is as old as the last change of the D-pad, and the flag that made it fire is set
only until that save is through (`FiredOnce`), so a burst that goes on has not fired;
and what a complete
save wrote is read back within half a grain (`Rounding`, arithmetic of `\div`).
`MapsReadLikePread` and `TableIsExact` are about the mappings, for any number of
threads. A thread has a block of its own from posix_memalign until maps_forget
(`OwnInv`, which uses that there are finitely many blocks). `ReadInv` follows each
descriptor through the calls, for threads that share it: unless another call crossed
it, the descriptor of a thread that is about to read is at its window, and what a
thread goes back to is where the program left the descriptor, unless it is astray.
`TableInv`
relates the table to the owned blocks that are past maps_remember, until two
first calls meet in its lock.

## 6. Only model-checked

All liveness, which is out of the prover's reach: `LowRingIsPrompted`, `DestroyReturns`,
`CallsReturn`, `QueuedIsSaved`, `AllConsumed`, `KeyboardAnswers`, `MusicLoops`. Each
safety property of a passing run is a theorem of section 5.

## 7. Not modelled

- Data without control: sample formats and gain, positions of the cursor and the
  pixels drawn, the arguments of JNI calls, the layout conversions of `libc_shim.c`, the
  text of the keyboard, the motion of stick and gyro.
- Code that forwards or refuses: network stubs, GL wrappers, semaphores, the
  assets of AAssetManager (loose files, since `obb_read` is a stub), the CPU clocks.
- Code that runs once, in sequence: heap split, EGL, the start of the engine.
- `pthread_once_fake`: a second caller goes on before the first is done, whatever
  happens; there is no promise to check. trylock, destroy and recursive attributes
  of mutexes.
- `readdir_fake`, whose one static entry all directories share, and dlsym, which
  reads tables that are gone: both are wrong whenever they are reached in the way
  the hazards describe.
- Two threads in `ensure_device`: BASS creates players from one thread.
- What the engine's calls do after it strayed from what the flat table of references can
  follow, a push on a full stack of marks among the ways to do so; what a write past
  the pool of method ids does. Names of methods and their signatures that do not fit 63
  and 95 bytes, which `get_id` cuts off and then does not find again.
- `update_imports` and `tls_setup_guard`, which `load_two_modules` calls on its way: the
  first is empty, the second sets a guard word that no property reads.
- Threads (`pthread_create_fake` forwards), `so_unload` and `hook_arm64` (never called).

`PROJECT.json` gives the reason for each component.

## 8. Plan

Done: players and their proofs, movie, JNI references, pointer, settings, loader,
pthread shims, persistence, mappings and keepalive; then the main loop with
keyboard and pacer, read-write locks, clocks, mouse samples, method ids and the
cursor's drawing, and the proofs of section 5. A module is checked by one
run; what is added to a component joins its run.

Next in the models:

1. PlayerLife with the device of MovieAudio: two openers of `ensure_device`, a
   player and a movie that end together.
2. `readdir_fake` with nested directories; `pthread_mutex_trylock` and destroy in
   LazySync, as RwLocks has them.

Next proofs: the properties of those, which extend invariants of section 5
(`LifeInv`, `MutexInv`).
