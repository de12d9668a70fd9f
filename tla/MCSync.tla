--------------------------------- MODULE MCSync ---------------------------------
(***************************************************************************)
(* The three modules about what the Android libraries get for their        *)
(* threads - LazySync, RwLocks and Clocks - on small instances.  They      *)
(* share no state, so a behaviour runs one of them, chosen at its start,   *)
(* while the others rest in an initial state.                              *)
(***************************************************************************)
EXTENDS LazySync, Clocks, RwLocks

VARIABLE part     \* which of the three runs

vars == <<yvars, rwvars, clockvars, part>>

Delays == -1..3

\* An initial state for the parts that do not run.
LazySyncRests == mutex = Null /\ cond = Null /\ timed = {}
ClocksRest == \A m \in Uptime, e \in Epoch : mono <= m /\ epoch <= e

MCInit ==
    /\ Init /\ RwInit /\ ClockInit
    /\ part \in {"mutexes", "rwlocks", "clocks"}
    /\ part # "mutexes" => LazySyncRests
    /\ part # "clocks" => ClocksRest

MCNext ==
    /\ part' = part
    /\ \/ part = "mutexes" /\ Next /\ UNCHANGED <<rwvars, clockvars>>
       \/ part = "rwlocks" /\ RwNext /\ UNCHANGED <<yvars, clockvars>>
       \/ part = "clocks" /\ ClockNext /\ UNCHANGED <<yvars, rwvars>>

\* The fairness of LazySync, where it runs.
MCFairness ==
    /\ \A t \in Thread : WF_yvars(part = "mutexes" /\ Runs(t)) /\ SF_yvars(part = "mutexes" /\ LockTake(t))
    /\ \A c \in Consumer : WF_yvars(part = "mutexes" /\ Begin(c))

MCSpec == MCInit /\ [][MCNext]_vars /\ MCFairness
================================================================================
