-------------------------------- MODULE MethodIds --------------------------------
(***************************************************************************)
(* The pool of method ids of the fake JNI environment (get_id of           *)
(* source/jni_fake.c).  GetMethodID looks a method up by name and          *)
(* signature and adds it at its first lookup; threads of the engine do so  *)
(* with no lock.  An id is an index of the pool and is kept for ever.      *)
(* Each load and store of the pool is a step.  What a write outside the    *)
(* pool does is undefined: a thread that would make one stops here.        *)
(***************************************************************************)
EXTENDS Naturals

CONSTANTS Looker,       \* threads that look methods up
          Method,       \* [name, sig]
          Blank,        \* the empty string of an unused entry
          MaxIds        \* MAX_IDS

ASSUME MethodAssumption ==
    \A m \in Method : m = [name |-> m.name, sig |-> m.sig] /\ m.name # Blank /\ m.sig # Blank
ASSUME IdsAssumption == MaxIds \in Nat \ {0}

VARIABLES
    id_pool, id_count,
    doing,        \* where each thread is in get_id
    wanted,       \* the method it looks up
    slot,         \* its i, and then the entry it takes
    given,        \* history: <<method, id>> that were returned
    unnamed,      \* history: methods that found the pool full
    clashed,      \* history: two threads took the same entry
    overran       \* history: a thread took an entry past the end of the pool

idvars == <<id_pool, id_count, doing, wanted, slot, given, unnamed, clashed, overran>>

Id == 0..(MaxIds - 1)
Unused == [name |-> Blank, sig |-> Blank]

IdInit ==
    /\ id_pool = [i \in Id |-> Unused] /\ id_count = 0
    /\ doing = [t \in Looker |-> "nothing"]
    /\ wanted = [t \in Looker |-> Unused] /\ slot = [t \in Looker |-> 0]
    /\ given = {} /\ unnamed = {} /\ clashed = FALSE /\ overran = FALSE

Does(t, from, to) == doing[t] = from /\ doing' = [doing EXCEPT ![t] = to]

GetMethodID(t) ==
    /\ Does(t, "nothing", "scanning")
    /\ \E m \in Method : wanted' = [wanted EXCEPT ![t] = m]
    /\ slot' = [slot EXCEPT ![t] = 0]
    /\ UNCHANGED <<id_pool, id_count, given, unnamed, clashed, overran>>

\* Mutant: overloaded methods are taken for one.
Matches_NameOnly(entry, m) == entry.name = m.name

Matches(entry, m) == entry.name = m.name /\ entry.sig = m.sig

Returns(t, id) == given' = given \cup {<<wanted[t], id>>}

Compare(t) ==
    /\ slot[t] < id_count
    /\ \/ /\ Matches(id_pool[slot[t]], wanted[t])
          /\ Does(t, "scanning", "nothing")
          /\ Returns(t, slot[t]) /\ slot' = slot
       \/ /\ ~Matches(id_pool[slot[t]], wanted[t])
          /\ Does(t, "scanning", "scanning")
          /\ slot' = [slot EXCEPT ![t] = @ + 1] /\ given' = given
    /\ UNCHANGED <<id_pool, id_count, wanted, unnamed, clashed, overran>>

\* The scan is over when the counter says so; whether there is room is asked next.
EndScan(t) ==
    /\ slot[t] >= id_count
    /\ Does(t, "scanning", "asking")
    /\ UNCHANGED <<id_pool, id_count, wanted, slot, given, unnamed, clashed, overran>>

\* The first entry stands for every method that finds the pool full.
PoolFull(t) ==
    /\ id_count >= MaxIds
    /\ Does(t, "asking", "nothing")
    /\ Returns(t, 0)
    /\ unnamed' = unnamed \cup {wanted[t]}
    /\ UNCHANGED <<id_pool, id_count, wanted, slot, clashed, overran>>

PoolHasRoom(t) ==
    /\ id_count < MaxIds
    /\ Does(t, "asking", "taking")
    /\ UNCHANGED <<id_pool, id_count, wanted, slot, given, unnamed, clashed, overran>>

\* id_pool[id_count++]: the counter is read again, and may be at its limit by now ...
TakeEntry(t) ==
    /\ slot' = [slot EXCEPT ![t] = id_count]
    /\ \/ /\ id_count < MaxIds
          /\ Does(t, "taking", "counting")
          /\ clashed' = (clashed \/ \E u \in Looker \ {t} : doing[u] = "counting" /\ slot[u] = id_count)
          /\ overran' = overran
       \/ /\ id_count >= MaxIds
          /\ Does(t, "taking", "outside")
          /\ overran' = TRUE /\ clashed' = clashed
    /\ UNCHANGED <<id_pool, id_count, wanted, given, unnamed>>

\* ... and written ...
CountEntry(t) ==
    /\ Does(t, "counting", "naming")
    /\ id_count' = slot[t] + 1
    /\ UNCHANGED <<id_pool, wanted, slot, given, unnamed, clashed, overran>>

\* ... before the entry has its name, and then its signature.
NameEntry(t) ==
    /\ Does(t, "naming", "signing")
    /\ id_pool' = [id_pool EXCEPT ![slot[t]].name = wanted[t].name]
    /\ UNCHANGED <<id_count, wanted, slot, given, unnamed, clashed, overran>>

SignEntry(t) ==
    /\ Does(t, "signing", "nothing")
    /\ id_pool' = [id_pool EXCEPT ![slot[t]].sig = wanted[t].sig]
    /\ Returns(t, slot[t])
    /\ UNCHANGED <<id_count, wanted, slot, unnamed, clashed, overran>>

get_id(t) ==
    \/ Compare(t) \/ EndScan(t) \/ PoolFull(t) \/ PoolHasRoom(t)
    \/ TakeEntry(t) \/ CountEntry(t) \/ NameEntry(t) \/ SignEntry(t)

IdNext == \E t \in Looker : GetMethodID(t) \/ get_id(t)

IdSpec == IdInit /\ [][IdNext]_idvars

-------------------------------------------------------------------------------
(* Properties. *)

Text == {Blank} \cup {m.name : m \in Method} \cup {m.sig : m \in Method}

IdTypeOK ==
    /\ id_pool \in [Id -> [name : Text, sig : Text]] /\ id_count \in 0..MaxIds
    /\ doing \in [Looker -> {"nothing", "scanning", "asking", "taking", "counting",
                            "naming", "signing", "outside"}]
    /\ wanted \in [Looker -> Method \cup {Unused}]
    /\ slot \in [Looker -> 0..MaxIds]
    /\ given \subseteq Method \X Id /\ unnamed \subseteq Method
    /\ clashed \in BOOLEAN /\ overran \in BOOLEAN

\* A call through an id runs the method it was got for: an id that was returned
\* names that method and goes on doing so, though others may be added meanwhile
\* and a scan may see entries that are half written.  It does not hold of
\* methods that found the pool full, nor after two threads took one entry
\* (clashed), nor after one took an entry past the end of the pool, which it
\* does when another takes the last one after it asked for room (overran).
IdMeansMethod ==
    \A p \in given : clashed \/ overran \/ p[1] \in unnamed \/ id_pool[p[2]] = p[1]
================================================================================
