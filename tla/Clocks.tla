---------------------------------- MODULE Clocks ----------------------------------
(***************************************************************************)
(* The clocks given to the Android libraries: gettimeofday_fake and        *)
(* clock_gettime_fake (source/libc_shim.c), and the time a                 *)
(* pthread_cond_timedwait_fake waits (source/imports.c).                   *)
(*                                                                         *)
(* The console's monotonic clock is fine; its wall clock shows whole       *)
(* multiples of Coarse.  gettimeofday_fake is called by several threads,   *)
(* with no lock; each load and store of its two statics is a step.         *)
(***************************************************************************)
EXTENDS Integers, FiniteSets

CONSTANTS Caller,     \* threads that call gettimeofday
          Uptime,     \* bound: readings of the monotonic clock
          Epoch,      \* how far the wall clock may be ahead of the monotonic one
          Coarse,     \* what the wall clock counts in
          Delay,      \* how long a timed wait is asked to last
          MaxWait,    \* "clamp to 1s, never hang"
          Call        \* bound: calls of a thread

ASSUME ClockAssumption ==
    /\ Uptime \subseteq Nat /\ Epoch \subseteq Nat \ {0} /\ Delay \subseteq Int
    /\ Coarse \in Nat \ {0} /\ MaxWait \in Nat /\ Call \in Nat

VARIABLES
    mono,               \* CLOCK_MONOTONIC
    epoch,              \* the console's clock may never have been set
    g_tod_wall_base_us, g_tod_mono_base_ns,
    at,                 \* where each thread is in gettimeofday_fake
    mono_ns, wall,      \* its locals: the time read first, the wall base read last
    calls,
    disturbed,          \* history: another thread seeded during this call
    offsets,            \* history: readings less mono_ns, of calls not disturbed
    wait                \* the last timed wait: what was asked, and what became of it

clockvars == <<mono, epoch, g_tod_wall_base_us, g_tod_mono_base_ns, at, mono_ns, wall,
               calls, disturbed, offsets, wait>>

NoWait == [asked |-> 0, rel |-> 0, apart |-> FALSE]

\* CLOCK_REALTIME
real == epoch + Coarse * (mono \div Coarse)

ClockInit ==
    /\ mono \in Uptime /\ epoch \in Epoch
    /\ g_tod_wall_base_us = 0 /\ g_tod_mono_base_ns = 0
    /\ at = [t \in Caller |-> "idle"] /\ calls = [t \in Caller |-> 0]
    /\ mono_ns = [t \in Caller |-> 0] /\ wall = [t \in Caller |-> 0]
    /\ disturbed = [t \in Caller |-> FALSE] /\ offsets = {}
    /\ wait = NoWait

Tick ==
    /\ mono + 1 \in Uptime /\ mono' = mono + 1
    /\ UNCHANGED <<epoch, g_tod_wall_base_us, g_tod_mono_base_ns, at, mono_ns, wall,
                   calls, disturbed, offsets, wait>>

-------------------------------------------------------------------------------
(* gettimeofday_fake *)

Seeding(t) == at[t] \in {"seedWall", "seedMono"}

Step(t, from, to) ==
    /\ at[t] = from /\ at' = [at EXCEPT ![t] = to]
    /\ UNCHANGED <<mono, epoch, wait>>

TodRead(t) ==
    /\ Step(t, "idle", "check")
    /\ calls[t] < Call /\ calls' = [calls EXCEPT ![t] = @ + 1]
    /\ mono_ns' = [mono_ns EXCEPT ![t] = mono]
    /\ disturbed' = [disturbed EXCEPT ![t] = \E u \in Caller \ {t} : Seeding(u)]
    /\ UNCHANGED <<g_tod_wall_base_us, g_tod_mono_base_ns, wall, offsets>>

\* Mutant: the seed is taken in every call.
TodCheck_Always(t) ==
    /\ Step(t, "check", "seedWall")
    /\ disturbed' = [u \in Caller |-> disturbed[u] \/ (u # t /\ at[u] # "idle")]
    /\ UNCHANGED <<g_tod_wall_base_us, g_tod_mono_base_ns, mono_ns, wall, calls, offsets>>

TodCheck(t) ==
    /\ \/ /\ g_tod_wall_base_us = 0
          /\ Step(t, "check", "seedWall")
          /\ disturbed' = [u \in Caller |-> disturbed[u] \/ (u # t /\ at[u] # "idle")]
       \/ /\ g_tod_wall_base_us # 0
          /\ Step(t, "check", "loadWall")
          /\ disturbed' = disturbed
    /\ UNCHANGED <<g_tod_wall_base_us, g_tod_mono_base_ns, mono_ns, wall, calls, offsets>>

TodSeedWall(t) ==
    /\ Step(t, "seedWall", "seedMono")
    /\ g_tod_wall_base_us' = real
    /\ UNCHANGED <<g_tod_mono_base_ns, mono_ns, wall, calls, disturbed, offsets>>

TodSeedMono(t) ==
    /\ Step(t, "seedMono", "loadWall")
    /\ g_tod_mono_base_ns' = mono_ns[t]
    /\ UNCHANGED <<g_tod_wall_base_us, mono_ns, wall, calls, disturbed, offsets>>

TodLoadWall(t) ==
    /\ Step(t, "loadWall", "loadMono")
    /\ wall' = [wall EXCEPT ![t] = g_tod_wall_base_us]
    /\ UNCHANGED <<g_tod_wall_base_us, g_tod_mono_base_ns, mono_ns, calls, disturbed, offsets>>

\* now_us = wall base + (mono_ns - mono base)
TodReturn(t) ==
    /\ Step(t, "loadMono", "idle")
    /\ LET now_us == wall[t] + (mono_ns[t] - g_tod_mono_base_ns) IN
       offsets' = IF disturbed[t] THEN offsets ELSE offsets \cup {now_us - mono_ns[t]}
    /\ UNCHANGED <<g_tod_wall_base_us, g_tod_mono_base_ns, mono_ns, wall, calls, disturbed>>

gettimeofday_fake(t) ==
    \/ TodRead(t) \/ TodCheck(t) \/ TodSeedWall(t) \/ TodSeedMono(t)
    \/ TodLoadWall(t) \/ TodReturn(t)

-------------------------------------------------------------------------------
(* clock_gettime_fake and pthread_cond_timedwait_fake *)

\* bionic's ids: REALTIME, MONOTONIC, ..._RAW, ..._COARSE, BOOTTIME.
WallId == {0, 5}
MonotonicId == {1, 4, 6, 7}

clock_gettime_fake(bionic_clk) == IF bionic_clk \in WallId THEN real ELSE mono

Abs(n) == IF n < 0 THEN -n ELSE n

\* Mutant: the clock the deadline is farther from.
NearerClock_Farther(rel_m, rel_r) == IF Abs(rel_m) <= Abs(rel_r) THEN rel_r ELSE rel_m

NearerClock(rel_m, rel_r) == IF Abs(rel_m) <= Abs(rel_r) THEN rel_m ELSE rel_r

Clamped(rel) == IF rel < 0 THEN 0 ELSE IF rel > MaxWait THEN MaxWait ELSE rel

\* How long the wait lasts whose deadline is t_ns: newlib counts it from real_ns.
WaitFor(t_ns, m_ns, real_ns) == Clamped(NearerClock(t_ns - m_ns, t_ns - real_ns))

\* A library computes a deadline from the clock it uses, and waits.  The clocks
\* are apart if no such deadline can be nearer to the other one.
pthread_cond_timedwait_fake ==
    /\ \E bionic_clk \in WallId \cup MonotonicId, delay \in Delay :
          LET t_ns == clock_gettime_fake(bionic_clk) + delay
              read == IF bionic_clk \in WallId THEN real ELSE mono
          IN  wait' = [asked |-> t_ns - read,
                       rel   |-> WaitFor(t_ns, mono, real),
                       apart |-> 2 * Abs(t_ns - read) < Abs(real - mono)]
    /\ UNCHANGED <<mono, epoch, g_tod_wall_base_us, g_tod_mono_base_ns, at, mono_ns, wall,
                   calls, disturbed, offsets>>

ClockNext ==
    \/ Tick
    \/ \E t \in Caller : gettimeofday_fake(t)
    \/ pthread_cond_timedwait_fake

ClockSpec == ClockInit /\ [][ClockNext]_clockvars

-------------------------------------------------------------------------------
(* Properties. *)

ClockTypeOK ==
    /\ mono \in Uptime /\ epoch \in Epoch
    /\ g_tod_wall_base_us \in Nat /\ g_tod_mono_base_ns \in Nat
    /\ at \in [Caller -> {"idle", "check", "seedWall", "seedMono", "loadWall", "loadMono"}]
    /\ mono_ns \in [Caller -> Nat] /\ wall \in [Caller -> Nat] /\ calls \in [Caller -> 0..Call]
    /\ disturbed \in [Caller -> BOOLEAN] /\ offsets \subseteq Int
    /\ wait \in [asked : Int, rel : Int, apart : BOOLEAN]

\* "The engine measures its per-frame delta with it": the time of day runs with
\* the monotonic clock, by one offset for all threads and for ever, however the
\* first calls met.  Only a call during which another thread seeded may be off.
OneTimebase == Cardinality(offsets) <= 1

\* A timed wait lasts no longer than was asked for, nor than MaxWait; and
\* exactly as long as asked, up to MaxWait, if the deadline tells the clocks apart.
WaitsAsAsked ==
    /\ 0 <= wait.rel /\ wait.rel <= MaxWait
    /\ wait.asked >= 0 => wait.rel <= wait.asked
    /\ wait.apart => wait.rel = Clamped(wait.asked)
================================================================================
