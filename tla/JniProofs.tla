------------------------------- MODULE JniProofs -------------------------------
(***************************************************************************)
(* Proofs about MethodIds and JniRefs.                                     *)
(*                                                                         *)
(* The pool of ids, for every number of threads, methods and entries: an   *)
(* entry that is being written is its writer's alone, has no signature     *)
(* yet, and so is returned by no scan.                                     *)
(*                                                                         *)
(* The registry of references, for every number of threads and every size  *)
(* of the table and of the stack of marks, until the engine strays: the    *)
(* marks cut the table into sections, one for each open frame in the order *)
(* they were pushed, and each entry lies once in the section of the frame  *)
(* that holds it, so that nothing is freed twice.  As long as the table    *)
(* does not overflow, it implements the nested frames of LocalFrames.      *)
(***************************************************************************)
EXTENDS MethodIds, JniRefs, FiniteSetTheorems, FunctionTheorems,
        SequenceTheorems, TLAPS

Writing(t) == doing[t] \in {"naming", "signing"}

\* As long as no entry was taken twice: one thread at a time is about to count
\* its entry, and those that write theirs have different ones.
EntriesOwned ==
    /\ \A t \in Looker : doing[t] = "counting" => slot[t] = id_count
    /\ \A t, u \in Looker : doing[t] = "counting" /\ doing[u] = "counting" => t = u
    /\ \A t \in Looker : Writing(t) => slot[t] < id_count
    /\ \A t, u \in Looker : Writing(t) /\ Writing(u) /\ slot[t] = slot[u] => t = u

\* An entry that nobody counted is blank; one that is written lacks its signature.
EntriesBlank ==
    /\ \A i \in Id : i >= id_count => id_pool[i].sig = Blank
    /\ \A t \in Looker : Writing(t) => id_pool[slot[t]].sig = Blank
    /\ \A t \in Looker : doing[t] = "signing" => id_pool[slot[t]].name = wanted[t].name

\* What was given away is written, and by nobody any more.
GivenKept ==
    \A p \in given : p[1] \notin unnamed => id_pool[p[2]] = p[1] /\ p[2] < id_count

Has(t) == doing[t] = "counting" \/ Writing(t)

Wanting ==
    \A t \in Looker : /\ doing[t] # "nothing" => wanted[t] \in Method
                      /\ Has(t) => slot[t] < MaxIds

Kept == EntriesOwned /\ EntriesBlank /\ GivenKept

IdInv == IdTypeOK /\ Wanting /\ (~clashed => Kept)

-------------------------------------------------------------------------------
LEMMA MethodText == \A m \in Method : m \in [name : Text, sig : Text]
<1> TAKE m \in Method
<1>1. m.name \in Text /\ m.sig \in Text
  BY DEF Text
<1>2. m = [name |-> m.name, sig |-> m.sig]
  BY MethodAssumption
<1> QED BY <1>1, <1>2

\* An entry that matches a method is it, and has its signature.
LEMMA MatchIsMethod ==
  ASSUME NEW e \in [name : Text, sig : Text], NEW m \in Method, Matches(e, m)
  PROVE  e = m /\ e.sig # Blank
<1>1. e = [name |-> e.name, sig |-> e.sig]
  OBVIOUS
<1>2. m = [name |-> m.name, sig |-> m.sig] /\ m.sig # Blank
  BY MethodAssumption
<1> QED BY <1>1, <1>2 DEF Matches

\* What a comparison does: it finds the method, or goes on to the next entry.
Found(t) ==
    /\ Matches(id_pool[slot[t]], wanted[t])
    /\ doing' = [doing EXCEPT ![t] = "nothing"]
    /\ given' = given \cup {<<wanted[t], slot[t]>>} /\ slot' = slot

Differs(t) ==
    /\ doing' = doing
    /\ slot' = [slot EXCEPT ![t] = slot[t] + 1] /\ given' = given

LEMMA CompareStep ==
  ASSUME IdTypeOK, NEW t \in Looker, Compare(t)
  PROVE  /\ doing[t] = "scanning" /\ slot[t] < id_count
         /\ UNCHANGED <<id_pool, id_count, wanted, unnamed, clashed, overran>>
         /\ Found(t) \/ Differs(t)
<1>1. doing[t] = "scanning" /\ slot[t] < id_count
  BY DEF Compare, Does
<1>2. UNCHANGED <<id_pool, id_count, wanted, unnamed, clashed, overran>>
  BY DEF Compare
<1>3. doing[t] = "scanning" /\ doing' = [doing EXCEPT ![t] = "scanning"] => doing' = doing
  BY DEF IdTypeOK
<1>4. Found(t) \/ Differs(t)
  BY <1>3 DEF Compare, Does, Returns, Found, Differs
<1> QED BY <1>1, <1>2, <1>4

\* Types are kept, and a thread that has an entry looks up a method.
LEMMA IdTypes == IdTypeOK /\ Wanting /\ [IdNext]_idvars => IdTypeOK' /\ Wanting'
<1> SUFFICES ASSUME IdTypeOK, Wanting, [IdNext]_idvars PROVE IdTypeOK' /\ Wanting'
  OBVIOUS
<1> USE IdsAssumption DEF IdTypeOK, Wanting, Has, Writing, Does, Id
<1>1. ASSUME NEW t \in Looker, GetMethodID(t) PROVE IdTypeOK' /\ Wanting'
  BY <1>1 DEF GetMethodID
<1>2. ASSUME NEW t \in Looker, Compare(t) PROVE IdTypeOK' /\ Wanting'
  <2>1. slot[t] \in Id /\ wanted[t] \in Method /\ slot[t] + 1 \in 0..MaxIds
    BY <1>2, CompareStep
  <2>2. CASE Found(t)
    <3>1. given' \subseteq Method \X Id
      BY <2>1, <2>2 DEF Found
    <3> QED BY <1>2, <2>2, <3>1, CompareStep DEF Found
  <2>3. CASE Differs(t)
    BY <1>2, <2>1, <2>3, CompareStep DEF Differs
  <2> QED BY <1>2, <2>2, <2>3, CompareStep
<1>3. ASSUME NEW t \in Looker, PoolFull(t) PROVE IdTypeOK' /\ Wanting'
  <2>1. wanted[t] \in Method /\ 0 \in Id
    BY <1>3 DEF PoolFull
  <2>2. given' \subseteq Method \X Id /\ unnamed' \subseteq Method
    BY <1>3, <2>1 DEF PoolFull, Returns
  <2> QED BY <1>3, <2>1, <2>2 DEF PoolFull
<1>4. ASSUME NEW t \in Looker, TakeEntry(t) PROVE IdTypeOK' /\ Wanting'
  <2>1. clashed' \in BOOLEAN /\ overran' \in BOOLEAN
    BY <1>4 DEF TakeEntry
  <2>2. CASE id_count < MaxIds
    BY <1>4, <2>1, <2>2 DEF TakeEntry
  <2>3. CASE ~(id_count < MaxIds)
    BY <1>4, <2>1, <2>3 DEF TakeEntry
  <2> QED BY <2>2, <2>3
<1>5. ASSUME NEW t \in Looker, CountEntry(t) PROVE IdTypeOK' /\ Wanting'
  BY <1>5 DEF CountEntry
<1>6. ASSUME NEW t \in Looker, NameEntry(t) PROVE IdTypeOK' /\ Wanting'
  <2>1. wanted[t].name \in Text
    BY <1>6, MethodText DEF NameEntry
  <2>2. id_pool' \in [Id -> [name : Text, sig : Text]]
    BY <1>6, <2>1 DEF NameEntry
  <2> QED BY <1>6, <2>2 DEF NameEntry
<1>7. ASSUME NEW t \in Looker, SignEntry(t) PROVE IdTypeOK' /\ Wanting'
  <2>1. wanted[t] \in Method /\ wanted[t].sig \in Text /\ slot[t] \in Id
    BY <1>7, MethodText DEF SignEntry
  <2>2. id_pool' \in [Id -> [name : Text, sig : Text]]
    BY <1>7, <2>1 DEF SignEntry
  <2>3. given' \subseteq Method \X Id
    BY <1>7, <2>1 DEF SignEntry, Returns
  <2> QED BY <1>7, <2>2, <2>3 DEF SignEntry
<1>8. ASSUME NEW t \in Looker, EndScan(t) \/ PoolHasRoom(t) PROVE IdTypeOK' /\ Wanting'
  BY <1>8 DEF EndScan, PoolHasRoom
<1>9. CASE UNCHANGED idvars
  BY <1>9 DEF idvars
<1> QED BY <1>1, <1>2, <1>3, <1>4, <1>5, <1>6, <1>7, <1>8, <1>9 DEF IdNext, get_id

\* The entry of a method that was given has a signature.
LEMMA GivenSigned ==
  ASSUME IdTypeOK, GivenKept
  PROVE  \A p \in given : p[1] \notin unnamed => p[2] \in Id /\ id_pool[p[2]].sig # Blank
<1> SUFFICES ASSUME NEW p \in given, p[1] \notin unnamed
             PROVE  p[2] \in Id /\ id_pool[p[2]].sig # Blank
  OBVIOUS
<1>1. p[1] \in Method /\ p[2] \in Id
  BY DEF IdTypeOK
<1>2. id_pool[p[2]] = p[1]
  BY DEF GivenKept
<1> QED BY <1>1, <1>2, MethodAssumption

\* A thread that has no entry after a step which changed nothing but its place and
\* its index leaves the entries as they were.
LEMMA LookingKept ==
  ASSUME IdTypeOK, Kept, NEW t \in Looker, NEW place, NEW index,
         doing' = [doing EXCEPT ![t] = place], slot' = [slot EXCEPT ![t] = index],
         place \notin {"counting", "naming", "signing"},
         UNCHANGED <<id_pool, id_count, wanted, given, unnamed>>
  PROVE  Kept'
<1>1. /\ \A u \in Looker : doing'[u] = "counting" => doing[u] = "counting" /\ slot'[u] = slot[u]
      /\ \A u \in Looker : Writing(u)' => Writing(u) /\ slot'[u] = slot[u]
      /\ \A u \in Looker : doing'[u] = "signing" => doing[u] = "signing" /\ slot'[u] = slot[u]
  BY DEF IdTypeOK, Writing
<1>2. EntriesOwned'
  BY <1>1 DEF Kept, EntriesOwned
<1>3. EntriesBlank'
  BY <1>1 DEF Kept, EntriesBlank
<1> QED BY <1>2, <1>3 DEF Kept, GivenKept

\* While no entry is taken twice, each step of get_id keeps entries owned and ids written.
LEMMA EntriesKept ==
  ASSUME IdTypeOK, Wanting, Kept, [IdNext]_idvars, ~clashed, ~clashed'
  PROVE  Kept'
<1> USE IdsAssumption DEF IdTypeOK, Wanting, Has, Writing, Does, Id, Kept, EntriesOwned,
                          EntriesBlank, GivenKept
<1>1. ASSUME NEW t \in Looker, GetMethodID(t) PROVE Kept'
  BY <1>1 DEF GetMethodID
<1>2. ASSUME NEW t \in Looker, Compare(t) PROVE Kept'
  <2>1. /\ UNCHANGED <<id_pool, id_count, wanted, unnamed>>
        /\ ~Has(t) /\ doing'[t] \notin {"counting", "naming", "signing"}
        /\ \A u \in Looker \ {t} : doing'[u] = doing[u] /\ slot'[u] = slot[u]
    <3>1. CASE Found(t)
      BY <1>2, <3>1, CompareStep DEF Found
    <3>2. CASE Differs(t)
      BY <1>2, <3>2, CompareStep DEF Differs
    <3> QED BY <1>2, <3>1, <3>2, CompareStep
  <2>2. EntriesOwned'
    <3>1. \A u \in Looker : doing'[u] = "counting" => doing[u] = "counting" /\ slot'[u] = slot[u]
      BY <2>1
    <3>2. \A u \in Looker : Writing(u)' => Writing(u) /\ slot'[u] = slot[u]
      BY <2>1
    <3> QED BY <3>1, <3>2, <2>1
  <2>3. EntriesBlank'
    BY <2>1
  <2>4. CASE Found(t)
    <3>1. id_pool[slot[t]] = wanted[t] /\ slot[t] < id_count
      BY <1>2, <2>4, CompareStep, MatchIsMethod DEF Found
    <3>2. GivenKept'
      BY <1>2, <2>4, <3>1, CompareStep DEF Found
    <3> QED BY <2>2, <2>3, <3>2
  <2>5. CASE Differs(t)
    <3>1. GivenKept'
      BY <2>1, <2>5 DEF Differs
    <3> QED BY <2>2, <2>3, <3>1
  <2> QED BY <1>2, <2>4, <2>5, CompareStep
<1>3. ASSUME NEW t \in Looker, PoolFull(t) PROVE Kept'
  <2>1. GivenKept'
    BY <1>3 DEF PoolFull, Returns
  <2> QED BY <1>3, <2>1 DEF PoolFull
<1>4. ASSUME NEW t \in Looker, TakeEntry(t) PROVE Kept'
  <2>1. CASE id_count < MaxIds
    <3>1. ~(id_count >= MaxIds)
      BY <2>1
    <3>2. clashed' = (clashed \/ \E u \in Looker \ {t} : doing[u] = "counting" /\ slot[u] = id_count)
      BY ONLY <1>4, <3>1, Zenon DEF TakeEntry
    <3>3. ASSUME NEW u \in Looker \ {t} PROVE doing[u] # "counting"
      <4>1. ~(doing[u] = "counting" /\ slot[u] = id_count)
        BY <3>2, Zenon
      <4>2. doing[u] = "counting" => slot[u] = id_count
        BY DEF Kept, EntriesOwned
      <4> QED BY ONLY <4>1, <4>2, Zenon
    <3>4. /\ doing[t] = "taking" /\ doing'[t] = "counting" /\ slot'[t] = id_count
          /\ \A u \in Looker \ {t} : doing'[u] = doing[u] /\ slot'[u] = slot[u]
          /\ UNCHANGED <<id_pool, id_count, wanted, given, unnamed>>
      BY <1>4, <2>1 DEF TakeEntry
    <3>5. EntriesOwned'
      <4>1. /\ \A u \in Looker : doing'[u] = "counting" => u = t
            /\ \A u \in Looker : Writing(u)' => Writing(u) /\ slot'[u] = slot[u]
        BY ONLY <3>3, <3>4 DEF Writing
      <4> QED BY ONLY <4>1, <3>4, EntriesOwned DEF EntriesOwned
    <3>6. EntriesBlank'
      BY <3>4
    <3>7. GivenKept'
      BY <3>4
    <3> QED BY ONLY <3>5, <3>6, <3>7 DEF Kept
  <2>2. CASE ~(id_count < MaxIds)
    <3>1. /\ doing' = [doing EXCEPT ![t] = "outside"]
          /\ slot' = [slot EXCEPT ![t] = id_count]
          /\ UNCHANGED <<id_pool, id_count, wanted, given, unnamed>>
      BY ONLY <1>4, <2>2 DEF TakeEntry, Does
    <3>2. "outside" \notin {"counting", "naming", "signing"}
      OBVIOUS
    <3> QED BY ONLY IdTypeOK, Kept, <3>1, <3>2, LookingKept
  <2> QED BY <2>1, <2>2
<1>5. ASSUME NEW t \in Looker, CountEntry(t) PROVE Kept'
  <2>1. slot[t] = id_count /\ id_count' = id_count + 1 /\ id_pool[slot[t]].sig = Blank
    BY <1>5 DEF CountEntry
  <2>2. \A u \in Looker \ {t} : doing[u] # "counting"
    BY <1>5 DEF CountEntry
  <2>3. EntriesOwned'
    BY <1>5, <2>1, <2>2 DEF CountEntry
  <2>4. /\ \A u \in Looker : Writing(u)' => Writing(u) \/ u = t
        /\ \A u \in Looker : doing'[u] = "signing" => doing[u] = "signing"
    BY <1>5 DEF CountEntry
  <2>5. UNCHANGED <<id_pool, wanted, slot, given, unnamed>> /\ id_count \in Nat
    BY <1>5, IdsAssumption DEF CountEntry
  <2>6. EntriesBlank'
    BY ONLY EntriesBlank, <2>1, <2>4, <2>5
  <2>7. GivenKept'
    <3>1. \A p \in given : p[2] < id_count => p[2] < id_count'
      BY <2>1, <2>5 DEF IdTypeOK
    <3> QED BY ONLY GivenKept, <2>5, <3>1
  <2> QED BY <2>3, <2>6, <2>7
<1>6. ASSUME NEW t \in Looker, NameEntry(t) PROVE Kept'
  <2>1. /\ slot[t] \in Id /\ slot[t] < id_count /\ id_pool[slot[t]].sig = Blank
        /\ wanted[t] \in Method
    BY <1>6 DEF NameEntry
  <2>2. /\ \A i \in Id : id_pool'[i].sig = id_pool[i].sig
        /\ \A i \in Id : i # slot[t] => id_pool'[i] = id_pool[i]
        /\ id_pool'[slot[t]].name = wanted[t].name
    BY <1>6, <2>1 DEF NameEntry
  <2>3. EntriesOwned'
    BY <1>6 DEF NameEntry
  <2>4. EntriesBlank'
    BY <1>6, <2>1, <2>2 DEF NameEntry
  <2>5. \A p \in given : p[1] \notin unnamed => p[2] # slot[t]
    BY <2>1, GivenSigned
  <2>6. GivenKept'
    BY <1>6, <2>2, <2>5 DEF NameEntry
  <2> QED BY <2>3, <2>4, <2>6
<1>7. ASSUME NEW t \in Looker, SignEntry(t) PROVE Kept'
  <2>1. /\ slot[t] \in Id /\ slot[t] < id_count /\ id_pool[slot[t]].sig = Blank
        /\ wanted[t] \in Method /\ id_pool[slot[t]].name = wanted[t].name
    BY <1>7 DEF SignEntry
  <2>2. \A i \in Id : i # slot[t] => id_pool'[i] = id_pool[i]
    BY <1>7, <2>1 DEF SignEntry
  <2>3. id_pool'[slot[t]] = wanted[t]
    <3>1. /\ id_pool'[slot[t]].name = wanted[t].name /\ id_pool'[slot[t]].sig = wanted[t].sig
          /\ id_pool'[slot[t]] = [name |-> id_pool'[slot[t]].name, sig |-> id_pool'[slot[t]].sig]
      BY <1>7, <2>1 DEF SignEntry
    <3> QED BY <3>1, <2>1, MethodAssumption
  <2>4. EntriesOwned'
    BY <1>7 DEF SignEntry
  <2>5. EntriesBlank'
    BY <1>7, <2>1, <2>2 DEF SignEntry
  <2>6. \A p \in given : p[1] \notin unnamed => p[2] # slot[t]
    BY <2>1, GivenSigned
  <2>7. GivenKept'
    <3>1. /\ given' = given \cup {<<wanted[t], slot[t]>>}
          /\ UNCHANGED <<id_count, unnamed>>
      BY <1>7 DEF SignEntry, Returns
    <3>2. \A p \in given : p[2] \in Id
      OBVIOUS
    <3> QED BY <3>1, <3>2, <2>1, <2>2, <2>3, <2>6
  <2> QED BY <2>4, <2>5, <2>7
<1>8. ASSUME NEW t \in Looker, EndScan(t) \/ PoolHasRoom(t) PROVE Kept'
  <2>1. PICK place \in {"asking", "taking"} :
          /\ doing' = [doing EXCEPT ![t] = place]
          /\ UNCHANGED <<id_pool, id_count, wanted, slot, given, unnamed>>
    BY <1>8 DEF EndScan, PoolHasRoom
  <2>2. slot' = [slot EXCEPT ![t] = slot[t]] /\ place \notin {"counting", "naming", "signing"}
    BY <2>1
  <2> QED BY ONLY IdTypeOK, Kept, <2>1, <2>2, LookingKept
<1>9. CASE UNCHANGED idvars
  BY <1>9 DEF idvars
<1> QED BY <1>1, <1>2, <1>3, <1>4, <1>5, <1>6, <1>7, <1>8, <1>9 DEF IdNext, get_id

\* That an entry was taken twice is remembered for ever.
LEMMA ClashStays == [IdNext]_idvars /\ clashed => clashed'
  BY DEF IdNext, GetMethodID, get_id, Compare, EndScan, PoolFull, PoolHasRoom, TakeEntry,
         CountEntry, NameEntry, SignEntry, idvars

\* What was given away is written and stays so, as long as no entry is taken twice.
THEOREM IdInvariant == IdSpec => []IdInv
<1>1. IdInit => IdInv
  <2> SUFFICES ASSUME IdInit PROVE IdTypeOK /\ Wanting /\ Kept
    BY DEF IdInv
  <2>1. id_count \in 0..MaxIds /\ slot \in [Looker -> 0..MaxIds]
    BY IdsAssumption DEF IdInit
  <2>2. Unused \in [name : Text, sig : Text] /\ Unused.sig = Blank
    BY DEF Unused, Text
  <2>3. IdTypeOK
    BY <2>1, <2>2 DEF IdInit, IdTypeOK
  <2>4. (\A t \in Looker : doing[t] = "nothing") /\ given = {}
    BY DEF IdInit
  <2>5. \A i \in Id : id_pool[i].sig = Blank
    BY <2>2 DEF IdInit
  <2> QED BY <2>3, <2>4, <2>5 DEF Wanting, Has, Writing, Kept, EntriesOwned, EntriesBlank, GivenKept
<1>2. IdInv /\ [IdNext]_idvars => IdInv'
  BY IdTypes, EntriesKept, ClashStays DEF IdInv, IdTypeOK
<1> QED BY <1>1, <1>2, PTL DEF IdSpec

\* A call through an id runs the method the id was got for, however many threads
\* look methods up at once and in whatever order they load and store the pool,
\* unless the pool was full, two took the same entry or one took one past its end.
THEOREM IdsHold == IdSpec => []IdMeansMethod
<1>1. IdInv => IdMeansMethod
  BY DEF IdInv, Kept, GivenKept, IdMeansMethod, IdTypeOK
<1> QED BY IdInvariant, <1>1, PTL

-------------------------------------------------------------------------------
(* References. *)

\* One local reference, held by frame f.
Only(f) == [g \in Frame |-> IF g = f THEN 1 ELSE 0]

\* The marks cut the table into sections.  The first is what the threads share
\* beneath their frames, the others belong to the open frames.
IsSection(l, f) == IF l = 0 THEN f[2] = 0 ELSE f = nest[l]

\* The objects a section should hold: JNI has one local reference of them.
HeldIn(l) == {o \in Obj : globals[o] = 0 /\ \E f \in Frame : IsSection(l, f) /\ held[o] = Only(f)}

\* No frame is open twice, and each is one that its thread has pushed.
Nested ==
    /\ \A k \in 1..Len(nest) : nest[k][2] \in 1..depth[nest[k][1]]
    /\ \A j, k \in 1..Len(nest) : nest[j] = nest[k] => j = k

\* Each frame has its mark, and the marks rise.
Marks ==
    /\ Len(frames) = Len(nest)
    /\ \A k \in 1..Len(frames) : frames[k] <= top
    /\ \A j, k \in 1..Len(frames) : j <= k => frames[j] <= frames[k]

\* An entry of section l lies above the first l marks and below the others.
Owns(i, l) ==
    /\ locals[i] \in HeldIn(l)
    /\ \A k \in 1..Len(frames) : k <= l <=> frames[k] <= i

Entries ==
    /\ \A i \in 0..(top - 1) : \E l \in 0..Len(nest) : Owns(i, l)
    /\ \A i, j \in 0..(top - 1) : locals[i] = locals[j] => i = j

\* What JNI lets the engine use is allocated, and has one reference of a kind.
Live ==
    \A o \in Obj : /\ globals[o] <= 1
                   /\ held[o] = Unheld \/ \E f \in Frame : held[o] = Only(f)
                   /\ held[o] # Unheld \/ globals[o] > 0 => o \in heap

Orderly == TypeOK /\ Nested /\ Marks /\ Entries /\ Live /\ ~badFree

RefInv == TypeOK /\ (strayed \/ Orderly)

-------------------------------------------------------------------------------
(* Helpers. *)

LEMMA FrameTyped == \A t \in Thread : /\ Innermost(t) = <<t, depth[t]>>
                                      /\ TypeOK => Innermost(t) \in Frame
  BY SizeAssumption DEF TypeOK, Innermost, Frame

LEMMA OnlyHeld ==
  ASSUME NEW f \in Frame
  PROVE  /\ Only(f) # Unheld /\ Only(f) \in [Frame -> 0..MaxRefs] /\ Only(f)[f] = 1
         /\ \A g \in Frame : Only(f)[g] > 0 => g = f
         /\ \A g \in Frame : Only(f) = Only(g) => f = g
<1>1. Only(f)[f] = 1 /\ Unheld[f] = 0 /\ \A g \in Frame : g # f => Only(f)[g] = 0
  BY DEF Only, Unheld
<1>2. Only(f) \in [Frame -> 0..MaxRefs]
  BY RefsAssumption DEF Only
<1>3. \A g \in Frame : Only(g)[g] = 1
  BY DEF Only
<1> QED BY <1>1, <1>2, <1>3

\* A sequence without its last element.
LEMMA DropLast ==
  ASSUME NEW S, NEW s \in Seq(S)
  PROVE  LET r == SubSeq(s, 1, Len(s) - 1)
         IN  /\ r \in Seq(S) /\ Len(r) = IF Len(s) = 0 THEN 0 ELSE Len(s) - 1
             /\ \A k \in 1..Len(r) : k \in 1..Len(s) /\ k # Len(s) /\ r[k] = s[k]
<1>1. Len(s) \in Nat /\ \A i \in 1..(Len(s) - 1) : s[i] \in S
  BY ElementOfSeq
<1> DEFINE n == Len(s) - 1
           r == SubSeq(s, 1, n)
<1>2. 1 \in Int /\ n \in Int /\ \A i \in 1..n : s[i] \in S
  BY <1>1
<1> HIDE DEF n, r
<1>3. /\ r \in Seq(S) /\ Len(r) = IF 1 <= n THEN n - 1 + 1 ELSE 0
      /\ \A i \in 1..(n - 1 + 1) : r[i] = s[1 + i - 1]
  BY <1>2, SubSeqProperties DEF r
<1> QED BY <1>1, <1>2, <1>3 DEF n, r

-------------------------------------------------------------------------------
(* Types. *)

LEMMA UnregisterTypes ==
  ASSUME TypeOK, NEW o \in Table, Unregister(o)
  PROVE  top' \in 0..MaxLocals /\ locals' \in [0..(MaxLocals - 1) -> Obj \cup {NoObj}]
<1>1. top \in 1..MaxLocals /\ MaxLocals \in Nat
  BY SizeAssumption DEF TypeOK, Table
<1>2. locals[top - 1] \in Obj \cup {NoObj}
  BY <1>1 DEF TypeOK
<1>3. PICK i : locals' = [locals EXCEPT ![i] = locals[top - 1]] /\ top' = top - 1
  BY DEF Unregister
<1>4. top' \in 0..MaxLocals
  BY <1>1, <1>3
<1>5. locals' \in [0..(MaxLocals - 1) -> Obj \cup {NoObj}]
  <2>1. locals \in [0..(MaxLocals - 1) -> Obj \cup {NoObj}]
    BY DEF TypeOK
  <2>2. \A D, R : \A g \in [D -> R] : \A j, v : v \in R => [g EXCEPT ![j] = v] \in [D -> R]
    OBVIOUS
  <2> QED BY <1>2, <1>3, <2>1, <2>2, Zenon
<1> QED BY <1>4, <1>5

LEMMA LeaveTypes ==
  ASSUME TypeOK, NEW t \in Thread, NEW result, Leave(t, result)
  PROVE  /\ depth' \in [Thread -> 0..MaxDepth] /\ nest' \in Seq(Frame)
         /\ held' \in [Obj -> [Frame -> 0..MaxRefs]]
<1>1. depth' \in [Thread -> 0..MaxDepth]
  BY SizeAssumption DEF TypeOK, Leave
<1>2. nest' \in Seq(Frame)
  BY DropLast DEF TypeOK, Leave
<1>3. ASSUME NEW o \in Obj, NEW f \in Frame
      PROVE  (IF f = Innermost(t) THEN 0
              ELSE IF o = result /\ f = <<t, depth[t] - 1>> THEN held[o][f] + 1 ELSE held[o][f])
                \in 0..MaxRefs
  <2>1. held[o][f] \in 0..MaxRefs /\ MaxRefs \in Nat
    BY RefsAssumption DEF TypeOK
  <2>2. o = result /\ f = <<t, depth[t] - 1>> => held[o][f] < MaxRefs
    BY NoObjAssumption DEF Leave
  <2> QED BY <2>1, <2>2
<1>4. held' = [o \in Obj |-> [f \in Frame |->
                 IF f = Innermost(t) THEN 0
                 ELSE IF o = result /\ f = <<t, depth[t] - 1>> THEN held[o][f] + 1 ELSE held[o][f]]]
  BY DEF Leave
<1> QED BY <1>1, <1>2, <1>3, <1>4

LEMMA RefTypes == TypeOK /\ [Next]_jvars => TypeOK'
<1> SUFFICES ASSUME TypeOK, [Next]_jvars PROVE TypeOK'
  OBVIOUS
<1> USE SizeAssumption, RefsAssumption DEF TypeOK
<1>1. CASE UNCHANGED jvars
  BY <1>1 DEF jvars
<1>2. ASSUME NEW t \in Thread, jni_make_object(t) PROVE TypeOK'
  <2>1. PICK o \in Obj \ heap :
          /\ held[o][Innermost(t)] < MaxRefs /\ heap' = heap \cup {o} /\ reg_local(o)
          /\ held' = [held EXCEPT ![o][Innermost(t)] = @ + 1]
          /\ strayed' = (strayed \/ ~IsTop(nest, Innermost(t)))
          /\ UNCHANGED <<frames, globals, depth, nest, badFree>>
    BY <1>2 DEF jni_make_object
  <2>2. held' \in [Obj -> [Frame -> 0..MaxRefs]]
    <3>1. Innermost(t) \in Frame /\ held[o] \in [Frame -> 0..MaxRefs]
      BY FrameTyped
    <3>2. held[o][Innermost(t)] + 1 \in 0..MaxRefs
      BY <2>1, <3>1
    <3>3. [held[o] EXCEPT ![Innermost(t)] = @ + 1] \in [Frame -> 0..MaxRefs]
      BY <3>1, <3>2
    <3> QED BY <2>1, <3>3
  <2>3. top' \in 0..MaxLocals /\ locals' \in [0..(MaxLocals - 1) -> Obj \cup {NoObj}]
    <3>1. CASE top < MaxLocals
      <4>1. top + 1 \in 0..MaxLocals /\ top \in 0..(MaxLocals - 1)
        BY <3>1, SizeAssumption
      <4> QED BY <2>1, <3>1, <4>1 DEF reg_local
    <3>2. CASE ~(top < MaxLocals)
      BY <2>1, <3>2 DEF reg_local
    <3> QED BY <3>1, <3>2
  <2>4. strayed' \in BOOLEAN
    BY <2>1, Zenon
  <2> QED BY <2>1, <2>2, <2>3, <2>4
<1>3. ASSUME NEW t \in Thread, NewLocalRef(t) PROVE TypeOK'
  <2>1. PICK o \in Obj :
          /\ held[o][Innermost(t)] < MaxRefs
          /\ held' = [held EXCEPT ![o][Innermost(t)] = @ + 1]
          /\ strayed' = (strayed \/ held[o] # Unheld)
          /\ UNCHANGED <<locals, top, frames, heap, globals, depth, nest, badFree>>
    BY <1>3 DEF NewLocalRef, Usable
  <2>2. held' \in [Obj -> [Frame -> 0..MaxRefs]]
    <3>1. Innermost(t) \in Frame /\ held[o] \in [Frame -> 0..MaxRefs]
      BY FrameTyped
    <3>2. held[o][Innermost(t)] + 1 \in 0..MaxRefs
      BY <2>1, <3>1
    <3>3. [held[o] EXCEPT ![Innermost(t)] = @ + 1] \in [Frame -> 0..MaxRefs]
      BY <3>1, <3>2
    <3> QED BY <2>1, <3>3
  <2>3. strayed' \in BOOLEAN
    BY <2>1, Zenon
  <2> QED BY <2>1, <2>2, <2>3
<1>4. ASSUME NEW t \in Thread, DeleteLocalRef(t) PROVE TypeOK'
  <2>1. PICK o \in Obj, f \in Frame :
          /\ held[o][f] > 0
          /\ IF o \in Table THEN Unregister(o) /\ free_ref(o)
                            ELSE UNCHANGED <<locals, top, heap, badFree>>
          /\ held' = [held EXCEPT ![o][f] = @ - 1]
          /\ strayed' = (strayed \/ (o \in Table /\ ~InTop(o)))
          /\ UNCHANGED <<frames, globals, depth, nest>>
    BY <1>4 DEF DeleteLocalRef
  <2>2. held' \in [Obj -> [Frame -> 0..MaxRefs]]
    <3>1. held[o] \in [Frame -> 0..MaxRefs] /\ held[o][f] - 1 \in 0..MaxRefs
      BY <2>1
    <3>2. [held[o] EXCEPT ![f] = @ - 1] \in [Frame -> 0..MaxRefs]
      BY <3>1
    <3> QED BY <2>1, <3>2
  <2>3. top' \in 0..MaxLocals /\ locals' \in [0..(MaxLocals - 1) -> Obj \cup {NoObj}]
    BY <2>1, UnregisterTypes
  <2>4. heap' \subseteq Obj
    BY <2>1 DEF free_ref
  <2>5. strayed' \in BOOLEAN /\ badFree' \in BOOLEAN
    BY <2>1, Zenon DEF free_ref
  <2> QED BY <2>1, <2>2, <2>3, <2>4, <2>5
<1>5. ASSUME NEW t \in Thread, NewGlobalRef(t) PROVE TypeOK'
  <2>1. PICK o \in Obj :
          /\ globals[o] < MaxRefs
          /\ IF o \in Table THEN Unregister(o) ELSE UNCHANGED <<locals, top>>
          /\ globals' = [globals EXCEPT ![o] = @ + 1]
          /\ strayed' = (strayed \/ globals[o] > 0 \/ (o \in Table /\ ~InTop(o)))
          /\ UNCHANGED <<frames, heap, depth, held, nest, badFree>>
    BY <1>5 DEF NewGlobalRef, Usable
  <2>2. top' \in 0..MaxLocals /\ locals' \in [0..(MaxLocals - 1) -> Obj \cup {NoObj}]
    BY <2>1, UnregisterTypes
  <2>3. strayed' \in BOOLEAN
    BY <2>1, Zenon
  <2>4. globals' \in [Obj -> 0..MaxRefs]
    BY <2>1
  <2> QED BY <2>1, <2>2, <2>3, <2>4
<1>6. ASSUME DeleteGlobalRef PROVE TypeOK'
  <2>1. PICK o \in Obj :
          /\ globals[o] > 0 /\ free_ref(o)
          /\ globals' = [globals EXCEPT ![o] = @ - 1]
          /\ strayed' = (strayed \/ held[o] # Unheld)
          /\ UNCHANGED <<locals, top, frames, depth, held, nest>>
    BY <1>6 DEF DeleteGlobalRef
  <2>2. heap' \subseteq Obj /\ globals' \in [Obj -> 0..MaxRefs]
    BY <2>1 DEF free_ref
  <2>3. strayed' \in BOOLEAN /\ badFree' \in BOOLEAN
    BY <2>1, Zenon DEF free_ref
  <2> QED BY <2>1, <2>2, <2>3
<1>7. ASSUME NEW t \in Thread, PushLocalFrame(t) PROVE TypeOK'
  <2> DEFINE d == depth[t] + 1
  <2>a. d \in 0..MaxDepth /\ depth' = [depth EXCEPT ![t] = d]
    BY <1>7, SizeAssumption DEF PushLocalFrame
  <2>b. <<t, d>> \in Frame
    BY <2>a DEF Frame
  <2>1. depth' \in [Thread -> 0..MaxDepth] /\ <<t, d>> \in Frame
    <3> HIDE DEF d
    <3> QED BY <2>a, <2>b
  <2>2. nest' \in Seq(Frame)
    BY <1>7, <2>1 DEF PushLocalFrame
  <2>3. frames' \in Seq(0..MaxLocals) /\ Len(frames') <= MaxFrames
    <3>1. CASE Len(frames) < MaxFrames
      <4>1. frames' = Append(frames, top)
        BY <1>7, <3>1 DEF PushLocalFrame
      <4> QED BY <3>1, <4>1
    <3>2. CASE ~(Len(frames) < MaxFrames)
      BY <1>7, <3>2 DEF PushLocalFrame
    <3> QED BY <3>1, <3>2
  <2>4. strayed' \in BOOLEAN
    BY <1>7, Zenon DEF PushLocalFrame
  <2> QED BY <1>7, <2>1, <2>2, <2>3, <2>4 DEF PushLocalFrame
<1>8. ASSUME NEW t \in Thread, PopLocalFrame(t) PROVE TypeOK'
  <2> DEFINE mark == IF frames = <<>> THEN 0 ELSE frames[Len(frames)]
  <2>1. PICK result \in {NoObj} \cup Usable(t), doomed \in SUBSET (mark..(top - 1)) :
          LET dead == {locals[i] : i \in doomed}
              kept == result # NoObj /\ mark < MaxLocals
          IN  /\ Leave(t, result)
              /\ frames' = IF frames = <<>> THEN <<>> ELSE SubSeq(frames, 1, Len(frames) - 1)
              /\ heap' = heap \ dead
              /\ badFree' = (badFree \/ ~(dead \subseteq heap) \/ Cardinality(dead) < Cardinality(doomed))
              /\ locals' = IF kept THEN [locals EXCEPT ![mark] = result] ELSE locals
              /\ top' = IF kept THEN mark + 1 ELSE mark
              /\ UNCHANGED globals
    <3> HIDE DEF mark
    <3>1. \A result : {i \in mark..(top - 1) : locals[i] # result} \in SUBSET (mark..(top - 1))
      OBVIOUS
    <3> QED BY <1>8, <3>1 DEF PopLocalFrame, mark
  <2>2. mark \in 0..MaxLocals
    <3>1. frames # <<>> => Len(frames) \in 1..Len(frames)
      BY EmptySeq
    <3> QED BY <3>1
  <2>3. frames' \in Seq(0..MaxLocals) /\ Len(frames') <= MaxFrames
    <3>1. CASE frames = <<>>
      BY <2>1, <3>1
    <3>2. CASE frames # <<>>
      <4>1. frames' = SubSeq(frames, 1, Len(frames) - 1)
        BY <2>1, <3>2
      <4>2. frames' \in Seq(0..MaxLocals) /\ Len(frames') = IF Len(frames) = 0 THEN 0 ELSE Len(frames) - 1
        BY <4>1, DropLast
      <4> QED BY <4>2
    <3> QED BY <3>1, <3>2
  <2> HIDE DEF mark
  <2>4. top' \in 0..MaxLocals /\ locals' \in [0..(MaxLocals - 1) -> Obj \cup {NoObj}]
    <3>1. CASE result # NoObj /\ mark < MaxLocals
      <4>1. locals' = [locals EXCEPT ![mark] = result] /\ top' = mark + 1 /\ result \in Obj
        BY <2>1, <3>1 DEF Usable
      <4> QED BY <2>2, <3>1, <4>1
    <3>2. CASE ~(result # NoObj /\ mark < MaxLocals)
      <4>1. locals' = locals /\ top' = mark
        BY <2>1, <3>2
      <4> QED BY <2>2, <4>1
    <3> QED BY <3>1, <3>2
  <2>5. heap' \subseteq Obj /\ globals' \in [Obj -> 0..MaxRefs]
    BY <2>1
  <2>6. strayed' \in BOOLEAN /\ badFree' \in BOOLEAN
    BY <2>1, Zenon DEF Leave
  <2>7. /\ depth' \in [Thread -> 0..MaxDepth] /\ nest' \in Seq(Frame)
        /\ held' \in [Obj -> [Frame -> 0..MaxRefs]]
    BY <2>1, LeaveTypes
  <2> QED BY <2>3, <2>4, <2>5, <2>6, <2>7
<1> QED BY <1>1, <1>2, <1>3, <1>4, <1>5, <1>6, <1>7, <1>8 DEF Next

-------------------------------------------------------------------------------
(* Sections. *)

LEMMA SectionUnique ==
  ASSUME TypeOK, Nested, NEW l \in 0..Len(nest), NEW m \in 0..Len(nest), NEW f \in Frame,
         IsSection(l, f), IsSection(m, f)
  PROVE  l = m
<1>1. \A k \in 1..Len(nest) : nest[k] \in Frame /\ nest[k][1] \in Thread /\ nest[k][2] # 0
  <2>1. \A k \in 1..Len(nest) : nest[k] \in Frame
    BY ElementOfSeq DEF TypeOK
  <2>2. \A g \in Frame : g[1] \in Thread
    BY DEF Frame
  <2> QED BY <2>1, <2>2, SizeAssumption DEF Nested, TypeOK
<1>2. Len(nest) \in Nat /\ (l # 0 => l \in 1..Len(nest)) /\ (m # 0 => m \in 1..Len(nest))
  BY DEF TypeOK
<1> QED BY <1>1, <1>2 DEF IsSection, Nested

LEMMA HeldUnique ==
  ASSUME Orderly, NEW l \in 0..Len(nest), NEW m \in 0..Len(nest), NEW o,
         o \in HeldIn(l), o \in HeldIn(m)
  PROVE  l = m
<1>1. PICK f \in Frame : IsSection(l, f) /\ held[o] = Only(f)
  BY DEF HeldIn
<1>2. PICK g \in Frame : IsSection(m, g) /\ held[o] = Only(g)
  BY DEF HeldIn
<1>3. f = g
  BY <1>1, <1>2, OnlyHeld
<1> QED BY <1>1, <1>2, <1>3, SectionUnique DEF Orderly

LEMMA TopSection ==
  ASSUME TypeOK, NEW f
  PROVE  IsTop(nest, f) <=> IsSection(Len(nest), f)
<1>1. nest = <<>> <=> Len(nest) = 0
  BY EmptySeq DEF TypeOK
<1> QED BY <1>1 DEF IsTop, IsSection

\* The ranges the steps below work with; an entry is a held, allocated object.
LEMMA RefFacts ==
  ASSUME Orderly
  PROVE  /\ top \in Nat /\ Len(nest) \in Nat /\ Len(frames) = Len(nest)
         /\ MaxLocals \in Nat \ {0} /\ top <= MaxLocals
         /\ \A k \in 1..Len(frames) : frames[k] \in Nat
         /\ \A i \in 0..(top - 1) : /\ locals[i] \in Obj /\ locals[i] \in heap
                                    /\ globals[locals[i]] = 0 /\ held[locals[i]] # Unheld
<1>1. /\ top \in Nat /\ Len(nest) \in Nat /\ Len(frames) = Len(nest)
      /\ top <= MaxLocals /\ \A k \in 1..Len(frames) : frames[k] \in Nat
  BY SizeAssumption DEF Orderly, TypeOK, Marks
<1>2. ASSUME NEW i \in 0..(top - 1)
      PROVE  /\ locals[i] \in Obj /\ locals[i] \in heap
             /\ globals[locals[i]] = 0 /\ held[locals[i]] # Unheld
  <2>1. PICK l \in 0..Len(nest) : locals[i] \in HeldIn(l)
    BY DEF Orderly, Entries, Owns
  <2>2. PICK f \in Frame : locals[i] \in Obj /\ globals[locals[i]] = 0 /\ held[locals[i]] = Only(f)
    BY <2>1 DEF HeldIn
  <2>3. held[locals[i]] # Unheld
    BY <2>2, OnlyHeld
  <2> QED BY <2>2, <2>3 DEF Orderly, Live
<1> QED BY <1>1, <1>2, SizeAssumption

\* An entry of the last section lies above all marks.
LEMMA LastAbove ==
  ASSUME Orderly, NEW i \in 0..(top - 1), locals[i] \in HeldIn(Len(nest))
  PROVE  Owns(i, Len(nest)) /\ \A k \in 1..Len(frames) : frames[k] <= i
<1>1. PICK l \in 0..Len(nest) : Owns(i, l)
  BY DEF Orderly, Entries
<1>2. l = Len(nest)
  BY <1>1, HeldUnique, RefFacts DEF Owns
<1> QED BY <1>1, <1>2, RefFacts DEF Owns

-------------------------------------------------------------------------------
(* What an orderly step does to the sections. *)

\* A new object is in the last.
LEMMA MakeView ==
  ASSUME Orderly, NEW t \in Thread, jni_make_object(t), ~strayed'
  PROVE  \E o \in Obj \ heap :
            /\ heap' = heap \cup {o} /\ reg_local(o) /\ UNCHANGED <<frames, nest, depth, globals, badFree>>
            /\ \E f \in Frame : held' = [held EXCEPT ![o] = Only(f)]
            /\ \A l \in 0..Len(nest) : HeldIn(l)' = IF l = Len(nest) THEN HeldIn(l) \cup {o} ELSE HeldIn(l)
<1> DEFINE f == Innermost(t)
<1>1. PICK o \in Obj \ heap :
        /\ heap' = heap \cup {o} /\ reg_local(o)
        /\ held' = [held EXCEPT ![o][f] = @ + 1]
        /\ strayed' = (strayed \/ ~IsTop(nest, f))
        /\ UNCHANGED <<frames, globals, depth, nest, badFree>>
  BY DEF jni_make_object
<1>2. f \in Frame /\ TypeOK
  BY FrameTyped DEF Orderly
<1> HIDE DEF f
<1>3. held[o] = Unheld /\ ~(globals[o] > 0)
  BY <1>1 DEF Orderly, Live
<1>4. globals[o] = 0
  BY <1>1, <1>3, RefsAssumption DEF Orderly, TypeOK
<1>5. held' = [held EXCEPT ![o] = Only(f)]
  <2>1. [Unheld EXCEPT ![f] = @ + 1] = Only(f)
    BY <1>2 DEF Unheld, Only
  <2>2. held' = [held EXCEPT ![o] = [held[o] EXCEPT ![f] = @ + 1]]
    BY <1>1
  <2> QED BY <1>3, <2>1, <2>2
<1>6. IsSection(Len(nest), f)
  BY <1>1, <1>2, TopSection
<1>7. held'[o] = Only(f) /\ \A p \in Obj : p # o => held'[p] = held[p]
  BY <1>1, <1>5 DEF Orderly, TypeOK
<1>8. \A l, g : IsSection(l, g)' <=> IsSection(l, g)
  BY <1>1 DEF IsSection
<1>9. ASSUME NEW l \in 0..Len(nest)
      PROVE  HeldIn(l)' = IF l = Len(nest) THEN HeldIn(l) \cup {o} ELSE HeldIn(l)
  <2>1. o \notin HeldIn(l)
    BY <1>3, OnlyHeld DEF HeldIn
  <2>2. ASSUME NEW p \in Obj, p # o PROVE p \in HeldIn(l)' <=> p \in HeldIn(l)
    BY <1>1, <1>7, <1>8, <2>2 DEF HeldIn
  <2>3. o \in HeldIn(l)' <=> l = Len(nest)
    <3>1. o \in HeldIn(l)' <=> \E g \in Frame : IsSection(l, g) /\ Only(f) = Only(g)
      BY <1>1, <1>4, <1>7, <1>8 DEF HeldIn
    <3>2. (\E g \in Frame : IsSection(l, g) /\ Only(f) = Only(g)) <=> IsSection(l, f)
      BY <1>2, OnlyHeld
    <3>3. IsSection(l, f) <=> l = Len(nest)
      BY <1>2, <1>6, SectionUnique, RefFacts DEF Orderly
    <3> QED BY <3>1, <3>2, <3>3
  <2>4. HeldIn(l) \subseteq Obj /\ HeldIn(l)' \subseteq Obj
    BY DEF HeldIn
  <2>5. CASE l = Len(nest)
    BY <2>2, <2>3, <2>4, <2>5
  <2>6. CASE l # Len(nest)
    <3>1. o \notin HeldIn(l)'
      BY <2>3, <2>6
    <3>2. \A p \in Obj : p \in HeldIn(l)' <=> p \in HeldIn(l)
      BY <2>1, <2>2, <3>1
    <3>3. HeldIn(l)' = HeldIn(l)
      BY <2>4, <3>2
    <3> QED BY <2>6, <3>3
  <2> QED BY <2>5, <2>6
<1> QED BY <1>1, <1>2, <1>5, <1>9

\* An object the engine may pass to DeleteLocalRef or NewGlobalRef leaves the
\* section it is in, which is the last one if the table knows it.
LEMMA TableTop ==
  ASSUME Orderly, NEW o \in Table, InTop(o)
  PROVE  o \in HeldIn(Len(nest))
<1>1. PICK l \in 0..Len(nest), f \in Frame : o \in Obj /\ globals[o] = 0 /\ held[o] = Only(f) /\ IsSection(l, f)
  BY DEF Orderly, Entries, Owns, Table, HeldIn
<1>2. held[o][f] > 0
  BY <1>1, OnlyHeld
<1>3. IsSection(Len(nest), f)
  BY <1>2, TopSection DEF InTop, Orderly
<1> QED BY <1>1, <1>3 DEF HeldIn

LEMMA DeleteView ==
  ASSUME Orderly, NEW t \in Thread, DeleteLocalRef(t), ~strayed'
  PROVE  \E o \in Obj :
            /\ held[o] # Unheld /\ held' = [held EXCEPT ![o] = Unheld]
            /\ IF o \in Table THEN o \in HeldIn(Len(nest)) /\ Unregister(o) /\ free_ref(o)
                              ELSE UNCHANGED <<locals, top, heap, badFree>>
            /\ UNCHANGED <<frames, nest, depth, globals>>
            /\ \A l \in 0..Len(nest) : HeldIn(l)' = HeldIn(l) \ {o}
<1>1. PICK o \in Obj, f \in Frame :
        /\ held[o][f] > 0
        /\ IF o \in Table THEN Unregister(o) /\ free_ref(o)
                          ELSE UNCHANGED <<locals, top, heap, badFree>>
        /\ held' = [held EXCEPT ![o][f] = @ - 1]
        /\ strayed' = (strayed \/ (o \in Table /\ ~InTop(o)))
        /\ UNCHANGED <<frames, globals, depth, nest>>
  BY DEF DeleteLocalRef
<1>2. held[o] = Only(f) /\ held[o] # Unheld
  <2>1. held[o] # Unheld
    BY <1>1 DEF Unheld
  <2>2. PICK g \in Frame : held[o] = Only(g)
    BY <2>1 DEF Orderly, Live
  <2>3. g = f
    BY <1>1, <2>2, OnlyHeld
  <2> QED BY <2>1, <2>2, <2>3
<1>3. held' = [held EXCEPT ![o] = Unheld]
  <2>1. [Only(f) EXCEPT ![f] = @ - 1] = Unheld
    <3>1. Only(f)[f] - 1 = 0 /\ \A g \in Frame : g # f => Only(f)[g] = 0
      BY OnlyHeld DEF Only
    <3>2. Only(f) = [g \in Frame |-> Only(f)[g]]
      BY DEF Only
    <3> QED BY <3>1, <3>2 DEF Unheld
  <2>2. held' = [held EXCEPT ![o] = [held[o] EXCEPT ![f] = @ - 1]]
    BY <1>1
  <2> QED BY <1>2, <2>1, <2>2
<1>4. o \in Table => o \in HeldIn(Len(nest))
  BY <1>1, TableTop
<1>5. held'[o] = Unheld /\ \A p \in Obj : p # o => held'[p] = held[p]
  BY <1>1, <1>3 DEF Orderly, TypeOK
<1>6. \A l, g : IsSection(l, g)' <=> IsSection(l, g)
  BY <1>1 DEF IsSection
<1>7. ASSUME NEW l \in 0..Len(nest) PROVE HeldIn(l)' = HeldIn(l) \ {o}
  <2>1. o \notin HeldIn(l)'
    BY <1>5, OnlyHeld DEF HeldIn
  <2>2. ASSUME NEW p \in Obj, p # o PROVE p \in HeldIn(l)' <=> p \in HeldIn(l)
    BY <1>1, <1>5, <1>6, <2>2 DEF HeldIn
  <2>3. HeldIn(l) \subseteq Obj /\ HeldIn(l)' \subseteq Obj
    BY DEF HeldIn
  <2> QED BY <2>1, <2>2, <2>3
<1> QED BY <1>1, <1>2, <1>3, <1>4, <1>7

LEMMA GlobalView ==
  ASSUME Orderly, NEW t \in Thread, NewGlobalRef(t), ~strayed'
  PROVE  \E o \in Obj :
            /\ o \in heap /\ globals[o] = 0 /\ globals' = [globals EXCEPT ![o] = 1]
            /\ held[o] # Unheld
            /\ IF o \in Table THEN o \in HeldIn(Len(nest)) /\ Unregister(o) ELSE UNCHANGED <<locals, top>>
            /\ UNCHANGED <<frames, nest, depth, held, heap, badFree>>
            /\ \A l \in 0..Len(nest) : HeldIn(l)' = HeldIn(l) \ {o}
<1>1. PICK o \in Usable(t) :
        /\ IF o \in Table THEN Unregister(o) ELSE UNCHANGED <<locals, top>>
        /\ globals' = [globals EXCEPT ![o] = @ + 1]
        /\ strayed' = (strayed \/ globals[o] > 0 \/ (o \in Table /\ ~InTop(o)))
        /\ UNCHANGED <<frames, heap, depth, held, nest, badFree>>
  BY DEF NewGlobalRef
<1>2. o \in Obj /\ globals[o] = 0 /\ HasLocal(t, o)
  <2>1. ~(globals[o] > 0) /\ ~strayed
    BY <1>1
  <2>2. o \in Obj
    BY <1>1 DEF Usable
  <2>3. globals[o] = 0
    BY <2>1, <2>2, RefsAssumption DEF Orderly, TypeOK
  <2> QED BY <1>1, <2>1, <2>2, <2>3 DEF Usable
<1>3. held[o] # Unheld /\ o \in heap
  <2>1. held[o] # Unheld
    BY <1>2 DEF HasLocal, Unheld
  <2> QED BY <1>2, <2>1 DEF Orderly, Live
<1>4. globals' = [globals EXCEPT ![o] = 1]
  BY <1>1, <1>2
<1>5. o \in Table => o \in HeldIn(Len(nest))
  BY <1>1, TableTop
<1>6. globals'[o] = 1 /\ \A p \in Obj : p # o => globals'[p] = globals[p]
  BY <1>2, <1>4 DEF Orderly, TypeOK
<1>7. \A l, g : IsSection(l, g)' <=> IsSection(l, g)
  BY <1>1 DEF IsSection
<1>8. ASSUME NEW l \in 0..Len(nest) PROVE HeldIn(l)' = HeldIn(l) \ {o}
  <2>1. o \notin HeldIn(l)'
    BY <1>6 DEF HeldIn
  <2>2. ASSUME NEW p \in Obj, p # o PROVE p \in HeldIn(l)' <=> p \in HeldIn(l)
    BY <1>1, <1>6, <1>7, <2>2 DEF HeldIn
  <2>3. HeldIn(l) \subseteq Obj /\ HeldIn(l)' \subseteq Obj
    BY DEF HeldIn
  <2> QED BY <2>1, <2>2, <2>3
<1> QED BY <1>1, <1>2, <1>3, <1>4, <1>5, <1>8

\* A local reference of a global object changes none, nor does dropping a global
\* one that is the last reference.
LEMMA NewLocalView ==
  ASSUME Orderly, NEW t \in Thread, NewLocalRef(t), ~strayed'
  PROVE  /\ UNCHANGED <<locals, top, frames, heap, globals, depth, nest, badFree>>
         /\ \E o \in Obj, f \in Frame : /\ globals[o] > 0 /\ o \in heap
                                        /\ held' = [held EXCEPT ![o] = Only(f)]
         /\ \A l \in 0..Len(nest) : HeldIn(l)' = HeldIn(l)
<1> DEFINE f == Innermost(t)
<1>1. PICK o \in Usable(t) :
        /\ held' = [held EXCEPT ![o][f] = @ + 1]
        /\ strayed' = (strayed \/ held[o] # Unheld)
  BY DEF NewLocalRef
<1>2. UNCHANGED <<locals, top, frames, heap, globals, depth, nest, badFree>>
  BY DEF NewLocalRef
<1>3. f \in Frame
  BY FrameTyped DEF Orderly
<1> HIDE DEF f
<1>4. held[o] = Unheld /\ o \in Obj
  BY <1>1 DEF Usable
<1>5. globals[o] > 0 /\ o \in heap
  <2>1. ~HasLocal(t, o)
    BY <1>4 DEF HasLocal, Unheld
  <2>2. globals[o] > 0
    BY <1>1, <2>1 DEF Usable
  <2> QED BY <1>4, <2>2 DEF Orderly, Live
<1>6. held' = [held EXCEPT ![o] = Only(f)]
  <2>1. [Unheld EXCEPT ![f] = @ + 1] = Only(f)
    BY <1>3 DEF Unheld, Only
  <2>2. held' = [held EXCEPT ![o] = [held[o] EXCEPT ![f] = @ + 1]]
    BY <1>1
  <2> QED BY <1>4, <2>1, <2>2
<1>7. \A p \in Obj : p # o => held'[p] = held[p]
  BY <1>4, <1>6 DEF Orderly, TypeOK
<1>8. ASSUME NEW l \in 0..Len(nest) PROVE HeldIn(l)' = HeldIn(l)
  <2>1. \A g : IsSection(l, g)' <=> IsSection(l, g)
    BY <1>2 DEF IsSection
  <2>2. o \notin HeldIn(l) /\ o \notin HeldIn(l)'
    BY <1>2, <1>5 DEF HeldIn
  <2>3. ASSUME NEW p \in Obj, p # o PROVE p \in HeldIn(l)' <=> p \in HeldIn(l)
    BY <1>2, <1>7, <2>1, <2>3 DEF HeldIn
  <2>4. HeldIn(l) \subseteq Obj /\ HeldIn(l)' \subseteq Obj
    BY DEF HeldIn
  <2> QED BY <2>2, <2>3, <2>4
<1> QED BY <1>2, <1>3, <1>4, <1>5, <1>6, <1>8

LEMMA DropView ==
  ASSUME Orderly, DeleteGlobalRef, ~strayed'
  PROVE  \E o \in Obj :
            /\ globals[o] = 1 /\ globals' = [globals EXCEPT ![o] = 0]
            /\ held[o] = Unheld /\ free_ref(o)
            /\ UNCHANGED <<locals, top, frames, depth, held, nest>>
            /\ \A l \in 0..Len(nest) : HeldIn(l)' = HeldIn(l)
<1>1. PICK o \in Obj :
        /\ globals[o] > 0 /\ free_ref(o) /\ globals' = [globals EXCEPT ![o] = @ - 1]
        /\ strayed' = (strayed \/ held[o] # Unheld)
        /\ UNCHANGED <<locals, top, frames, depth, held, nest>>
  BY DEF DeleteGlobalRef
<1>2. globals[o] = 1 /\ held[o] = Unheld
  <2>1. ~(held[o] # Unheld)
    BY <1>1
  <2>2. globals[o] <= 1 /\ globals[o] \in 0..MaxRefs
    BY DEF Orderly, Live, TypeOK
  <2> QED BY <1>1, <2>1, <2>2, RefsAssumption
<1>3. globals' = [globals EXCEPT ![o] = 0]
  BY <1>1, <1>2
<1>4. \A p \in Obj : p # o => globals'[p] = globals[p]
  BY <1>3 DEF Orderly, TypeOK
<1>5. ASSUME NEW l \in 0..Len(nest) PROVE HeldIn(l)' = HeldIn(l)
  <2>1. \A g : IsSection(l, g)' <=> IsSection(l, g)
    BY <1>1 DEF IsSection
  <2>2. o \notin HeldIn(l) /\ o \notin HeldIn(l)'
    BY <1>1, <1>2, OnlyHeld DEF HeldIn
  <2>3. ASSUME NEW p \in Obj, p # o PROVE p \in HeldIn(l)' <=> p \in HeldIn(l)
    BY <1>1, <1>4, <2>1, <2>3 DEF HeldIn
  <2>4. HeldIn(l) \subseteq Obj /\ HeldIn(l)' \subseteq Obj
    BY DEF HeldIn
  <2> QED BY <2>2, <2>3, <2>4
<1> QED BY <1>1, <1>2, <1>3, <1>5

\* A new frame leaves the sections as they are, and gets one of its own.
LEMMA PushView ==
  ASSUME Orderly, NEW t \in Thread, PushLocalFrame(t), ~strayed'
  PROVE  /\ frames' = Append(frames, top) /\ nest' = Append(nest, <<t, depth[t] + 1>>)
         /\ Len(frames) < MaxFrames /\ Nested'
         /\ UNCHANGED <<locals, top, heap, globals, held, badFree>>
         /\ \A l \in 0..Len(nest) : HeldIn(l)' = HeldIn(l)
<1> DEFINE new == <<t, depth[t] + 1>>
<1>1. /\ depth[t] < MaxDepth /\ depth' = [depth EXCEPT ![t] = @ + 1] /\ nest' = Append(nest, new)
      /\ UNCHANGED <<locals, top, heap, globals, held, badFree>>
  BY DEF PushLocalFrame
<1>2. Len(frames) < MaxFrames
  <2>1. strayed' = (strayed \/ Len(frames) >= MaxFrames)
    BY DEF PushLocalFrame
  <2>2. ~(Len(frames) >= MaxFrames)
    BY <2>1
  <2> QED BY <2>2, SizeAssumption, RefFacts
<1>3. frames' = Append(frames, top)
  BY <1>2 DEF PushLocalFrame
<1>4. /\ Len(nest) \in Nat /\ Len(nest') = Len(nest) + 1 /\ nest'[Len(nest) + 1] = new
      /\ \A k \in 1..Len(nest) : nest'[k] = nest[k] /\ nest[k] \in Frame
  <2>1. nest \in Seq(Frame) /\ new \in Frame
    BY <1>1, SizeAssumption DEF Orderly, TypeOK, Frame
  <2> HIDE DEF new
  <2> QED BY <1>1, <2>1
<1>5. /\ depth'[t] = depth[t] + 1 /\ depth[t] \in Nat
      /\ \A u \in Thread : depth[u] \in Nat /\ depth'[u] \in Nat /\ depth[u] <= depth'[u]
  BY <1>1, SizeAssumption DEF Orderly, TypeOK
<1>6. \A k \in 1..Len(nest) : /\ nest[k][1] \in Thread /\ nest[k][2] \in 1..depth[nest[k][1]]
                              /\ nest[k] # new
  <2> SUFFICES ASSUME NEW k \in 1..Len(nest)
               PROVE  /\ nest[k][1] \in Thread /\ nest[k][2] \in 1..depth[nest[k][1]]
                      /\ nest[k] # new
    OBVIOUS
  <2>1. nest[k][1] \in Thread /\ nest[k][2] \in 1..depth[nest[k][1]]
    BY <1>4 DEF Frame, Orderly, Nested
  <2>2. nest[k][1] = t => nest[k][2] # depth[t] + 1
    BY <1>5, <2>1
  <2> QED BY <2>1, <2>2
<1>7. Nested'
  <2>1. \A k \in 1..Len(nest') : k \in 1..Len(nest) \/ k = Len(nest) + 1
    BY <1>4
  <2>2. \A k \in 1..Len(nest') : nest'[k][2] \in 1..depth'[nest'[k][1]]
    <3> SUFFICES ASSUME NEW k \in 1..Len(nest') PROVE nest'[k][2] \in 1..depth'[nest'[k][1]]
      OBVIOUS
    <3>1. CASE k \in 1..Len(nest)
      <4>1. nest'[k] = nest[k] /\ nest[k][1] \in Thread /\ nest[k][2] \in 1..depth[nest[k][1]]
        BY <1>4, <1>6, <3>1
      <4> DEFINE u == nest[k][1]  d == nest[k][2]
      <4>2. depth[u] \in Nat /\ depth'[u] \in Nat /\ depth[u] <= depth'[u]
        BY <1>5, <4>1
      <4>3. d \in 1..depth'[u]
        <5>1. d \in 1..depth[u]
          BY <4>1
        <5> HIDE DEF u, d
        <5> QED BY <4>2, <5>1
      <4> QED BY <4>1, <4>3
    <3>2. CASE k = Len(nest) + 1
      <4>1. nest'[k][1] = t /\ nest'[k][2] = depth'[t]
        BY <1>4, <1>5, <3>2
      <4> QED BY <1>5, <4>1
    <3> QED BY <2>1, <3>1, <3>2
  <2>3. \A j, k \in 1..Len(nest') : nest'[j] = nest'[k] => j = k
    BY <1>4, <1>6, <2>1 DEF Orderly, Nested
  <2> QED BY <2>2, <2>3 DEF Nested
<1>8. ASSUME NEW l \in 0..Len(nest) PROVE HeldIn(l)' = HeldIn(l)
  <2>1. \A f : IsSection(l, f)' <=> IsSection(l, f)
    BY <1>4 DEF IsSection
  <2> QED BY <1>1, <2>1 DEF HeldIn
<1> QED BY <1>1, <1>2, <1>3, <1>7, <1>8

\* Leaving a frame empties its section; the result goes to the one below.
LEMMA LeaveView ==
  ASSUME Orderly, NEW t \in Thread, NEW result \in {NoObj} \cup Usable(t), Leave(t, result), ~strayed'
  PROVE  LET n == Len(nest) IN
         /\ n \in Nat /\ n > 0 /\ result \in {NoObj} \cup HeldIn(n)
         /\ nest' = SubSeq(nest, 1, n - 1) /\ Len(nest') = n - 1
         /\ UNCHANGED globals => \A l \in 0..(n - 1) :
               HeldIn(l)' = IF l = n - 1 THEN HeldIn(l) \cup ({result} \cap HeldIn(n)) ELSE HeldIn(l)
         /\ Nested'
         /\ \A o \in Obj : /\ held'[o] = Unheld \/ \E f \in Frame : held'[o] = Only(f)
                           /\ held'[o] # Unheld => held[o] # Unheld /\ o \notin HeldIn(n) \ {result}
<1> DEFINE n == Len(nest)
           last == Innermost(t)
           below == <<t, depth[t] - 1>>
<1>1. /\ depth[t] > 0 /\ depth' = [depth EXCEPT ![t] = @ - 1] /\ nest' = SubSeq(nest, 1, n - 1)
      /\ held' = [o \in Obj |-> [f \in Frame |->
                      IF f = last THEN 0
                      ELSE IF o = result /\ f = below THEN held[o][f] + 1 ELSE held[o][f]]]
  BY DEF Leave
<1>2. /\ IsTop(nest, last)
      /\ result # NoObj => /\ held[result][last] # 0 /\ ~(globals[result] > 0)
                           /\ IsTop(SubSeq(nest, 1, n - 1), below)
  <2>1. strayed' = (\/ strayed \/ ~IsTop(nest, last)
                    \/ /\ result # NoObj
                       /\ \/ held[result][last] = 0 \/ globals[result] > 0
                          \/ ~IsTop(SubSeq(nest, 1, n - 1), below))
    BY DEF Leave
  <2> QED BY <2>1
<1>3. /\ last = <<t, depth[t]>> /\ last \in Frame /\ below \in Frame /\ last # below
      /\ depth[t] \in Nat /\ depth'[t] = depth[t] - 1 /\ \A u \in Thread \ {t} : depth'[u] = depth[u]
  BY <1>1, FrameTyped, SizeAssumption DEF Orderly, TypeOK, Frame
<1>4. n \in Nat /\ n > 0 /\ nest[n] = last /\ n \in 1..n
  <2>1. nest # <<>>
    BY <1>1, <1>2, <1>3 DEF IsTop
  <2>2. n \in Nat /\ n > 0
    BY <2>1, EmptySeq DEF Orderly, TypeOK
  <2> QED BY <1>2, <2>1, <2>2 DEF IsTop
<1>5. /\ nest' \in Seq(Frame) /\ Len(nest') = n - 1
      /\ \A k \in 1..(n - 1) : k \in 1..n /\ k # n /\ nest'[k] = nest[k]
  <2>1. nest \in Seq(Frame)
    BY DEF Orderly, TypeOK
  <2>2. /\ nest' \in Seq(Frame) /\ Len(nest') = IF n = 0 THEN 0 ELSE n - 1
        /\ \A k \in 1..Len(nest') : k \in 1..n /\ k # n /\ nest'[k] = nest[k]
    BY <1>1, <2>1, DropLast
  <2> QED BY <1>4, <2>2
<1> HIDE DEF last, below
<1>6. Nested'
  <2>1. ASSUME NEW k \in 1..(n - 1) PROVE nest'[k][2] \in 1..depth'[nest'[k][1]]
    <3>1. nest'[k] = nest[k] /\ nest[k] # last /\ nest[k] \in Frame
      BY <1>4, <1>5, ElementOfSeq DEF Orderly, Nested, TypeOK
    <3>2. nest[k][2] \in 1..depth[nest[k][1]] /\ nest[k][1] \in Thread
      BY <1>5, <3>1 DEF Orderly, Nested, Frame
    <3>3. CASE nest[k][1] = t
      <4>1. nest[k][2] # depth[t]
        BY <1>3, <3>1, <3>3 DEF Frame
      <4> QED BY <1>3, <3>1, <3>2, <3>3, <4>1
    <3>4. CASE nest[k][1] # t
      BY <1>3, <3>1, <3>2, <3>4
    <3> QED BY <3>3, <3>4
  <2>2. \A j, k \in 1..(n - 1) : nest'[j] = nest'[k] => j = k
    BY <1>5 DEF Orderly, Nested
  <2> QED BY <1>5, <2>1, <2>2 DEF Nested
<1>7. result \in {NoObj} \cup HeldIn(n) /\ (result # NoObj => held[result] = Only(last))
  <2> SUFFICES ASSUME result # NoObj PROVE result \in HeldIn(n) /\ held[result] = Only(last)
    OBVIOUS
  <2>1. result \in Obj
    BY DEF Usable
  <2>2. held[result][last] > 0 /\ globals[result] = 0
    BY <1>2, <1>3, <2>1, RefsAssumption DEF Orderly, TypeOK
  <2>3. held[result] # Unheld
    BY <1>3, <2>2 DEF Unheld
  <2>4. PICK g \in Frame : held[result] = Only(g)
    BY <2>1, <2>3 DEF Orderly, Live
  <2>5. g = last
    BY <1>3, <2>2, <2>4, OnlyHeld
  <2>6. IsSection(n, last)
    BY <1>4 DEF IsSection
  <2> QED BY <1>3, <2>1, <2>2, <2>4, <2>5, <2>6 DEF HeldIn
<1>8. ASSUME NEW o \in Obj
      PROVE  /\ o = result => held'[o] = Only(below)
             /\ o # result /\ held[o] = Only(last) => held'[o] = Unheld
             /\ o # result /\ held[o] # Only(last) => held'[o] = held[o]
  <2>1. held'[o] = [f \in Frame |-> IF f = last THEN 0
                      ELSE IF o = result /\ f = below THEN held[o][f] + 1 ELSE held[o][f]]
    BY <1>1
  <2>2. ASSUME o = result PROVE held'[o] = Only(below)
    <3>1. held[o] = Only(last)
      BY <1>7, <2>2, NoObjAssumption
    <3>2. \A f \in Frame : f # last => held[o][f] = 0
      BY <1>3, <3>1 DEF Only
    <3> QED BY <1>3, <2>1, <2>2, <3>2 DEF Only
  <2>3. ASSUME o # result, held[o] = Only(last) PROVE held'[o] = Unheld
    BY <2>1, <2>3 DEF Only, Unheld
  <2>4. ASSUME o # result, held[o] # Only(last) PROVE held'[o] = held[o]
    <3>1. held[o] \in [Frame -> 0..MaxRefs] /\ held[o][last] = 0
      <4>1. held[o] \in [Frame -> 0..MaxRefs]
        BY DEF Orderly, TypeOK
      <4>2. CASE held[o] = Unheld
        BY <1>3, <4>1, <4>2 DEF Unheld
      <4>3. CASE held[o] # Unheld
        <5>1. PICK g \in Frame : held[o] = Only(g)
          BY <4>3 DEF Orderly, Live
        <5>2. g # last
          BY <2>4, <5>1
        <5> QED BY <1>3, <4>1, <5>1, <5>2 DEF Only
      <4> QED BY <4>2, <4>3
    <3> QED BY <2>1, <2>4, <3>1
  <2> QED BY <2>2, <2>3, <2>4
<1>9. ASSUME NEW o \in Obj
      PROVE  /\ held'[o] = Unheld \/ \E f \in Frame : held'[o] = Only(f)
             /\ held'[o] # Unheld => held[o] # Unheld /\ o \notin HeldIn(n) \ {result}
  <2>1. CASE o = result
    <3>1. held[o] # Unheld
      BY <1>3, <1>7, <2>1, NoObjAssumption, OnlyHeld
    <3> QED BY <1>3, <1>8, <2>1, <3>1
  <2>2. CASE o # result
    <3>1. o \in HeldIn(n) => held[o] = Only(last)
      BY <1>4 DEF HeldIn, IsSection
    <3>2. held[o] = Unheld \/ \E f \in Frame : held[o] = Only(f)
      BY DEF Orderly, Live
    <3> QED BY <1>8, <2>2, <3>1, <3>2
  <2> QED BY <2>1, <2>2
<1>10. ASSUME UNCHANGED globals, NEW l \in 0..(n - 1), NEW o \in Obj
       PROVE  o \in HeldIn(l)' <=> o \in HeldIn(l) \/ (l = n - 1 /\ o \in {result} \cap HeldIn(n))
  <2>1. \A f : IsSection(l, f)' <=> IsSection(l, f)
    BY <1>4, <1>5 DEF IsSection
  <2>2. o \in HeldIn(l)' <=> globals[o] = 0 /\ \E f \in Frame : IsSection(l, f) /\ held'[o] = Only(f)
    BY <1>10, <2>1 DEF HeldIn
  <2>3. l \in 0..n /\ n \in 0..n /\ l # n
    BY <1>4
  <2>4. o \in HeldIn(n) => o \notin HeldIn(l)
    BY <2>3, HeldUnique
  <2>5. CASE o = result
    <3>1. o \in HeldIn(n)
      BY <1>7, <2>5, NoObjAssumption
    <3>2. globals[o] = 0 /\ held'[o] = Only(below)
      BY <1>8, <2>5, <3>1 DEF HeldIn
    <3>3. IsSection(n - 1, below)
      <4>1. IsTop(nest', below)
        BY <1>1, <1>2, <2>5, NoObjAssumption
      <4>2. nest' = <<>> <=> n - 1 = 0
        BY <1>5, EmptySeq
      <4>3. n - 1 = 0 => below[2] = 0
        BY <4>1, <4>2 DEF IsTop
      <4>4. n - 1 # 0 => below = nest'[n - 1] /\ n - 1 \in 1..(n - 1)
        BY <1>4, <1>5, <4>1, <4>2 DEF IsTop
      <4> QED BY <1>5, <4>3, <4>4 DEF IsSection
    <3>4. IsSection(l, below) <=> l = n - 1
      <4>1. n - 1 \in 0..n
        BY <1>4
      <4> QED BY <1>3, <2>3, <3>3, <4>1, SectionUnique DEF Orderly
    <3>5. (\E f \in Frame : IsSection(l, f) /\ Only(below) = Only(f)) <=> IsSection(l, below)
      BY <1>3, OnlyHeld
    <3>6. o \in HeldIn(l)' <=> l = n - 1
      BY <2>2, <3>2, <3>4, <3>5
    <3> QED BY <2>4, <2>5, <3>1, <3>6
  <2>6. CASE o # result
    <3>1. o \in HeldIn(l) => held[o] # Only(last)
      <4>1. IsSection(n, last)
        BY <1>4 DEF IsSection
      <4>2. held[o] = Only(last) /\ globals[o] = 0 => o \in HeldIn(n)
        BY <1>3, <4>1 DEF HeldIn
      <4> QED BY <2>4, <4>2 DEF HeldIn
    <3>2. CASE held[o] = Only(last)
      <4>1. held'[o] = Unheld
        BY <1>8, <2>6, <3>2
      <4>2. o \notin HeldIn(l)'
        BY <2>2, <4>1, OnlyHeld
      <4> QED BY <2>6, <3>1, <3>2, <4>2
    <3>3. CASE held[o] # Only(last)
      <4>1. held'[o] = held[o]
        BY <1>8, <2>6, <3>3
      <4>2. o \in HeldIn(l)' <=> o \in HeldIn(l)
        BY <2>2, <4>1 DEF HeldIn
      <4> QED BY <2>6, <4>2
    <3> QED BY <3>2, <3>3
  <2> QED BY <2>5, <2>6
<1>11. ASSUME UNCHANGED globals, NEW l \in 0..(n - 1)
       PROVE  HeldIn(l)' = IF l = n - 1 THEN HeldIn(l) \cup ({result} \cap HeldIn(n)) ELSE HeldIn(l)
  <2>1. HeldIn(l)' \subseteq Obj /\ HeldIn(l) \subseteq Obj /\ HeldIn(n) \subseteq Obj
    BY DEF HeldIn
  <2>2. \A o \in Obj : o \in HeldIn(l)' <=> o \in HeldIn(l) \/ (l = n - 1 /\ o \in {result} \cap HeldIn(n))
    BY <1>10, <1>11
  <2>3. CASE l = n - 1
    BY <2>1, <2>2, <2>3
  <2>4. CASE l # n - 1
    <3>1. HeldIn(l)' = HeldIn(l)
      BY <2>1, <2>2, <2>4
    <3> QED BY <2>4, <3>1
  <2> QED BY <2>3, <2>4
<1> QED BY <1>1, <1>4, <1>5, <1>6, <1>7, <1>9, <1>11

-------------------------------------------------------------------------------
(* What an orderly step does to the table. *)

\* What reg_local leaves: the new entry is on top, or the table is full.
LEMMA RegisterKept ==
  ASSUME Orderly, NEW o \in Obj, o \notin heap, reg_local(o), UNCHANGED <<frames, nest>>,
         \A l \in 0..Len(nest) : HeldIn(l)' = IF l = Len(nest) THEN HeldIn(l) \cup {o} ELSE HeldIn(l)
  PROVE  Entries' /\ Marks'
<1>1. \A i \in 0..(top - 1) : locals[i] # o
  BY RefFacts
<1>2. \A l \in 0..Len(nest) : HeldIn(l) \subseteq HeldIn(l)'
  OBVIOUS
<1>3. o \in HeldIn(Len(nest))' /\ Len(nest) \in 0..Len(nest)
  BY RefFacts
<1>4. CASE top < MaxLocals
  <2>1. /\ locals' = [locals EXCEPT ![top] = o] /\ top' = top + 1
        /\ top \in 0..(MaxLocals - 1)
    BY <1>4, RefFacts DEF reg_local
  <2>2. /\ locals'[top] = o /\ \A i \in 0..(top - 1) : locals'[i] = locals[i]
        /\ \A i \in 0..(top' - 1) : i = top \/ i \in 0..(top - 1)
    BY <2>1, RefFacts DEF Orderly, TypeOK
  <2>3. ASSUME NEW i, i = top PROVE Owns(i, Len(nest))'
    <3>1. \A k \in 1..Len(frames) : k <= Len(nest) /\ frames[k] <= i
      BY <2>3, RefFacts DEF Orderly, Marks
    <3> QED BY <1>3, <2>2, <2>3, <3>1 DEF Owns
  <2>4. ASSUME NEW i \in 0..(top - 1), NEW l \in 0..Len(nest), Owns(i, l)
        PROVE  Owns(i, l)'
    BY <1>2, <2>2, <2>4 DEF Owns
  <2>5. ASSUME NEW i \in 0..(top' - 1)
        PROVE  \E l \in 0..Len(nest') : Owns(i, l)'
    <3>1. CASE i = top
      BY <1>3, <2>3, <3>1
    <3>2. CASE i \in 0..(top - 1)
      <4>1. PICK l \in 0..Len(nest) : Owns(i, l)
        BY <3>2 DEF Orderly, Entries
      <4> QED BY <2>4, <3>2, <4>1
    <3> QED BY <2>2, <3>1, <3>2
  <2>6. \A i, j \in 0..(top' - 1) : locals'[i] = locals'[j] => i = j
    BY <1>1, <2>2 DEF Orderly, Entries
  <2>7. Marks'
    BY <2>1, RefFacts DEF Orderly, Marks
  <2> QED BY <2>5, <2>6, <2>7 DEF Entries
<1>5. CASE ~(top < MaxLocals)
  <2>1. locals' = locals /\ top' = top
    BY <1>5 DEF reg_local
  <2>2. \A i, l : l \in 0..Len(nest) /\ Owns(i, l) => Owns(i, l)'
    BY <1>2, <2>1 DEF Owns
  <2>3. Entries'
    BY <2>1, <2>2 DEF Orderly, Entries
  <2> QED BY <2>1, <2>3 DEF Orderly, Marks
<1> QED BY <1>4, <1>5

\* What Unregister leaves: the top entry, of the same section, fills the hole.
LEMMA UnregisterKept ==
  ASSUME Orderly, NEW o \in Table, o \in HeldIn(Len(nest)), Unregister(o), UNCHANGED <<frames, nest>>,
         \A l \in 0..Len(nest) : HeldIn(l)' = HeldIn(l) \ {o}
  PROVE  /\ Entries' /\ Marks' /\ o \notin Table' /\ Table \ {o} \subseteq Table'
<1>1. \E j \in 0..(top - 1) : locals[j] = o /\ \A k \in (j + 1)..(top - 1) : locals[k] # o
  <2>1. PICK j \in 0..(top - 1) : locals[j] = o
    BY DEF Table
  <2>2. \A k \in (j + 1)..(top - 1) : k \in 0..(top - 1) /\ k # j
    BY RefFacts
  <2> QED BY <2>1, <2>2 DEF Orderly, Entries
<1>2. PICK last \in 0..(top - 1) :
        /\ locals[last] = o /\ locals' = [locals EXCEPT ![last] = locals[top - 1]]
        /\ top' = top - 1
  BY <1>1 DEF Unregister
<1>3. /\ top - 1 \in 0..(top - 1) /\ last \in 0..(MaxLocals - 1)
      /\ locals'[last] = locals[top - 1]
      /\ \A i \in 0..(top' - 1) : i \in 0..(top - 1) /\ i # top - 1
      /\ \A i \in 0..(top - 1) : i # last => locals'[i] = locals[i]
  BY <1>2, RefFacts DEF Orderly, TypeOK
<1>4. \A k \in 1..Len(frames) : frames[k] <= last
  BY <1>2, LastAbove
<1>5. \A i \in 0..(top - 1) : i # last => locals[i] # o
  BY <1>2 DEF Orderly, Entries
<1>6. ASSUME last \in 0..(top' - 1) PROVE Owns(last, Len(nest))'
  <2>1. PICK l \in 0..Len(nest) : Owns(top - 1, l)
    BY <1>3 DEF Orderly, Entries
  <2>2. \A k \in 1..Len(frames) : frames[k] <= top - 1
    BY <1>2, <1>4, RefFacts
  <2>3. l = Len(nest)
    BY <2>1, <2>2, RefFacts DEF Owns
  <2>4. locals'[last] \in HeldIn(Len(nest))'
    <3>1. top - 1 # last /\ locals[top - 1] # o
      BY <1>2, <1>3, <1>5, <1>6
    <3>2. locals[top - 1] \in HeldIn(Len(nest))
      BY <2>1, <2>3 DEF Owns
    <3> QED BY <1>3, <2>1, <2>3, <3>1, <3>2
  <2>5. \A k \in 1..Len(frames) : k <= Len(nest)
    BY RefFacts
  <2> QED BY <1>4, <2>4, <2>5 DEF Owns
<1>7. ASSUME NEW i \in 0..(top' - 1), i # last, NEW l \in 0..Len(nest), Owns(i, l)
      PROVE  Owns(i, l)'
  BY <1>3, <1>5, <1>7 DEF Owns
<1>8. ASSUME NEW i \in 0..(top' - 1) PROVE \E l \in 0..Len(nest') : Owns(i, l)'
  <2>1. CASE i = last
    BY <1>6, <2>1, RefFacts
  <2>2. CASE i # last
    <3>1. PICK l \in 0..Len(nest) : Owns(i, l)
      BY <1>3 DEF Orderly, Entries
    <3> QED BY <1>7, <2>2, <3>1
  <2> QED BY <2>1, <2>2
<1>9. \A i, j \in 0..(top' - 1) : locals'[i] = locals'[j] => i = j
  BY <1>2, <1>3 DEF Orderly, Entries
<1>10. Marks'
  <2>1. \A k \in 1..Len(frames) : frames[k] <= top'
    BY <1>2, <1>4, RefFacts
  <2> QED BY <2>1 DEF Orderly, Marks
<1>11. o \notin Table'
  BY <1>2, <1>3, <1>5 DEF Table
<1>12. ASSUME NEW i \in 0..(top - 1), i # last PROVE \E j \in 0..(top' - 1) : locals'[j] = locals[i]
  <2>1. CASE i = top - 1
    <3>1. last \in 0..(top' - 1)
      BY <1>2, <1>12, <2>1, RefFacts
    <3> QED BY <1>3, <2>1, <3>1
  <2>2. CASE i # top - 1
    <3>1. top \in Nat /\ top' = top - 1
      BY <1>2, RefFacts
    <3>2. i \in 0..(top' - 1)
      BY ONLY <1>12, <2>2, <3>1
    <3> QED BY <1>3, <1>12, <3>2
  <2> QED BY <2>1, <2>2
<1>13. Table \ {o} \subseteq Table'
  BY <1>2, <1>12 DEF Table
<1> QED BY <1>8, <1>9, <1>10, <1>11, <1>13 DEF Entries

\* Entries are different objects, all allocated: each is freed once.
LEMMA DoomedOnce ==
  ASSUME Orderly, NEW doomed \in SUBSET (0..(top - 1))
  PROVE  LET dead == {locals[i] : i \in doomed}
         IN  /\ dead \subseteq heap /\ Cardinality(dead) = Cardinality(doomed)
             /\ Cardinality(doomed) \in Nat
<1> DEFINE dead == {locals[i] : i \in doomed}
           f == [i \in doomed |-> locals[i]]
<1>1. dead \subseteq heap
  BY RefFacts
<1>2. IsFiniteSet(doomed) /\ Cardinality(doomed) \in Nat
  <2>1. IsFiniteSet(0..(top - 1))
    <3>1. 0 \in Int /\ top - 1 \in Int
      BY RefFacts
    <3> QED BY <3>1, FS_Interval, Zenon
  <2> QED BY <2>1, FS_Subset, FS_CardinalityType
<1>3. f \in Bijection(doomed, dead)
  <2>1. f \in [doomed -> dead]
    OBVIOUS
  <2>2. \A i, j \in doomed : f[i] = f[j] => i = j
    BY DEF Orderly, Entries
  <2>3. \A o \in dead : \E i \in doomed : f[i] = o
    OBVIOUS
  <2> HIDE DEF f, dead
  <2> QED BY <2>1, <2>2, <2>3, Fun_IsBij
<1> HIDE DEF f, dead
<1>4. ExistsBijection(doomed, dead)
  BY <1>3, Fun_ExistsBij
<1>5. Cardinality(dead) = Cardinality(doomed)
  BY <1>2, <1>4, FS_Bijection
<1> QED BY <1>1, <1>2, <1>5 DEF dead

-------------------------------------------------------------------------------
(* An orderly state stays orderly until the engine strays. *)

LEMMA MakeKept ==
  ASSUME Orderly, TypeOK', NEW t \in Thread, jni_make_object(t), ~strayed'
  PROVE  Orderly'
<1>1. PICK o \in Obj \ heap :
        /\ heap' = heap \cup {o} /\ reg_local(o) /\ UNCHANGED <<frames, nest, depth, globals, badFree>>
        /\ \E f \in Frame : held' = [held EXCEPT ![o] = Only(f)]
        /\ \A l \in 0..Len(nest) : HeldIn(l)' = IF l = Len(nest) THEN HeldIn(l) \cup {o} ELSE HeldIn(l)
  BY MakeView
<1>2. PICK f \in Frame : held' = [held EXCEPT ![o] = Only(f)]
  BY <1>1
<1>3. Entries' /\ Marks'
  BY <1>1, RegisterKept
<1>4. held'[o] = Only(f) /\ \A p \in Obj : p # o => held'[p] = held[p]
  BY <1>1, <1>2 DEF Orderly, TypeOK
<1>5. Live'
  BY <1>1, <1>4 DEF Orderly, Live
<1>6. Nested' /\ ~badFree'
  BY <1>1 DEF Orderly, Nested
<1> QED BY <1>3, <1>5, <1>6 DEF Orderly

LEMMA DeleteKept ==
  ASSUME Orderly, TypeOK', NEW t \in Thread, DeleteLocalRef(t), ~strayed'
  PROVE  Orderly'
<1>1. PICK o \in Obj :
        /\ held[o] # Unheld /\ held' = [held EXCEPT ![o] = Unheld]
        /\ IF o \in Table THEN o \in HeldIn(Len(nest)) /\ Unregister(o) /\ free_ref(o)
                          ELSE UNCHANGED <<locals, top, heap, badFree>>
        /\ UNCHANGED <<frames, nest, depth, globals>>
        /\ \A l \in 0..Len(nest) : HeldIn(l)' = HeldIn(l) \ {o}
  BY DeleteView
<1>2. held'[o] = Unheld /\ \A p \in Obj : p # o => held'[p] = held[p]
  BY <1>1 DEF Orderly, TypeOK
<1>3. Nested'
  BY <1>1 DEF Orderly, Nested
<1>4. CASE o \in Table
  <2>1. Entries' /\ Marks'
    BY <1>1, <1>4, UnregisterKept
  <2>2. o \in heap /\ globals[o] = 0
    BY <1>4, RefFacts DEF Table
  <2>3. heap' = heap \ {o} /\ badFree' = (badFree \/ o \notin heap)
    BY <1>1, <1>4 DEF free_ref
  <2>4. ~badFree'
    BY <2>2, <2>3 DEF Orderly
  <2>5. Live'
    BY <1>1, <1>2, <2>2, <2>3 DEF Orderly, Live
  <2> QED BY <1>3, <2>1, <2>4, <2>5 DEF Orderly
<1>5. CASE o \notin Table
  <2>1. UNCHANGED <<locals, top, heap, badFree, frames, nest>>
    BY <1>1, <1>5
  <2>2. \A i \in 0..(top - 1) : locals[i] # o
    BY <1>5 DEF Table
  <2>3. \A i \in 0..(top - 1) : \A l \in 0..Len(nest) : Owns(i, l) => Owns(i, l)'
    BY <1>1, <2>1, <2>2 DEF Owns
  <2>4. Entries' /\ Marks'
    BY <2>1, <2>3 DEF Orderly, Entries, Marks
  <2>5. Live' /\ ~badFree'
    BY <1>1, <1>2, <2>1 DEF Orderly, Live
  <2> QED BY <1>3, <2>4, <2>5 DEF Orderly
<1> QED BY <1>4, <1>5

LEMMA PromoteKept ==
  ASSUME Orderly, TypeOK', NEW t \in Thread, NewGlobalRef(t), ~strayed'
  PROVE  Orderly'
<1>1. PICK o \in Obj :
        /\ o \in heap /\ globals[o] = 0 /\ globals' = [globals EXCEPT ![o] = 1]
        /\ IF o \in Table THEN o \in HeldIn(Len(nest)) /\ Unregister(o) ELSE UNCHANGED <<locals, top>>
        /\ UNCHANGED <<frames, nest, depth, held, heap, badFree>>
        /\ \A l \in 0..Len(nest) : HeldIn(l)' = HeldIn(l) \ {o}
  BY GlobalView
<1>2. globals'[o] = 1 /\ \A p \in Obj : p # o => globals'[p] = globals[p]
  BY <1>1 DEF Orderly, TypeOK
<1>3. Nested' /\ ~badFree'
  BY <1>1 DEF Orderly, Nested
<1>4. Entries' /\ Marks'
  <2>1. CASE o \in Table
    BY <1>1, <2>1, UnregisterKept
  <2>2. CASE o \notin Table
    <3>1. UNCHANGED <<locals, top, frames, nest>> /\ \A i \in 0..(top - 1) : locals[i] # o
      BY <1>1, <2>2 DEF Table
    <3>2. \A i \in 0..(top - 1) : \A l \in 0..Len(nest) : Owns(i, l) => Owns(i, l)'
      BY <1>1, <3>1 DEF Owns
    <3> QED BY <3>1, <3>2 DEF Orderly, Entries, Marks
  <2> QED BY <2>1, <2>2
<1>5. Live'
  BY <1>1, <1>2 DEF Orderly, Live
<1> QED BY <1>3, <1>4, <1>5 DEF Orderly

\* Steps that move no entry.
LEMMA SectionsKept ==
  ASSUME Orderly, UNCHANGED <<locals, top, frames, nest>>, \A l \in 0..Len(nest) : HeldIn(l)' = HeldIn(l)
  PROVE  Entries' /\ Marks'
<1>1. \A i : \A l \in 0..Len(nest) : Owns(i, l) => Owns(i, l)'
  BY DEF Owns
<1> QED BY <1>1 DEF Orderly, Entries, Marks

LEMMA NewLocalKept ==
  ASSUME Orderly, TypeOK', NEW t \in Thread, NewLocalRef(t), ~strayed'
  PROVE  Orderly'
<1>1. /\ UNCHANGED <<locals, top, frames, heap, globals, depth, nest, badFree>>
      /\ \A l \in 0..Len(nest) : HeldIn(l)' = HeldIn(l)
  BY NewLocalView
<1>2. PICK o \in Obj, f \in Frame : o \in heap /\ held' = [held EXCEPT ![o] = Only(f)]
  BY NewLocalView
<1>3. held'[o] = Only(f) /\ \A p \in Obj : p # o => held'[p] = held[p]
  BY <1>2 DEF Orderly, TypeOK
<1>4. Entries' /\ Marks'
  BY <1>1, SectionsKept
<1>5. Live' /\ Nested' /\ ~badFree'
  BY <1>1, <1>2, <1>3 DEF Orderly, Live, Nested
<1> QED BY <1>4, <1>5 DEF Orderly

LEMMA DropKept == ASSUME Orderly, TypeOK', DeleteGlobalRef, ~strayed' PROVE Orderly'
<1>1. PICK o \in Obj :
        /\ globals[o] = 1 /\ globals' = [globals EXCEPT ![o] = 0]
        /\ held[o] = Unheld /\ free_ref(o)
        /\ UNCHANGED <<locals, top, frames, depth, held, nest>>
        /\ \A l \in 0..Len(nest) : HeldIn(l)' = HeldIn(l)
  BY DropView
<1>2. globals'[o] = 0 /\ \A p \in Obj : p # o => globals'[p] = globals[p]
  BY <1>1 DEF Orderly, TypeOK
<1>3. o \in heap
  BY <1>1 DEF Orderly, Live
<1>4. heap' = heap \ {o} /\ ~badFree'
  BY <1>1, <1>3 DEF free_ref, Orderly
<1>5. Live' /\ Nested'
  BY <1>1, <1>2, <1>4 DEF Orderly, Live, Nested
<1>6. Entries' /\ Marks'
  BY <1>1, SectionsKept
<1> QED BY <1>4, <1>5, <1>6 DEF Orderly

LEMMA PushKept ==
  ASSUME Orderly, TypeOK', NEW t \in Thread, PushLocalFrame(t), ~strayed'
  PROVE  Orderly'
<1>1. /\ frames' = Append(frames, top) /\ Nested'
      /\ UNCHANGED <<locals, top, heap, globals, held, badFree>>
      /\ \A l \in 0..Len(nest) : HeldIn(l)' = HeldIn(l)
  BY PushView
<1>2. Len(nest') = Len(nest) + 1
  BY PushView DEF Orderly, TypeOK
<1>3. /\ Len(frames') = Len(frames) + 1 /\ frames'[Len(frames) + 1] = top
      /\ \A k \in 1..Len(frames) : frames'[k] = frames[k]
  BY <1>1 DEF Orderly, TypeOK
<1>4. Marks'
  <2>1. Len(frames') = Len(nest')
    BY <1>2, <1>3, RefFacts
  <2>2. \A k \in 1..Len(frames') : k = Len(frames) + 1 \/ k \in 1..Len(frames)
    BY <1>3, RefFacts
  <2>3. \A k \in 1..Len(frames') : frames'[k] <= top
    BY <1>3, <2>2, RefFacts DEF Orderly, Marks
  <2>4. \A j, k \in 1..Len(frames') : j <= k => frames'[j] <= frames'[k]
    <3> SUFFICES ASSUME NEW j \in 1..Len(frames'), NEW k \in 1..Len(frames'), j <= k
                 PROVE  frames'[j] <= frames'[k]
      OBVIOUS
    <3>1. CASE k = Len(frames) + 1
      BY <1>3, <2>3, <3>1
    <3>2. CASE k # Len(frames) + 1
      <4>1. j \in 1..Len(frames) /\ k \in 1..Len(frames)
        BY <1>3, <3>2, RefFacts
      <4> QED BY <1>3, <4>1 DEF Orderly, Marks
    <3> QED BY <3>1, <3>2
  <2> QED BY <1>1, <2>1, <2>3, <2>4 DEF Marks
<1>5. ASSUME NEW i \in 0..(top - 1), NEW l \in 0..Len(nest), Owns(i, l)
      PROVE  Owns(i, l)' /\ l \in 0..Len(nest')
  <2>1. \A k \in 1..Len(frames') : k <= l <=> frames'[k] <= i
    <3> SUFFICES ASSUME NEW k \in 1..Len(frames') PROVE k <= l <=> frames'[k] <= i
      OBVIOUS
    <3>1. CASE k = Len(frames) + 1
      <4>1. frames'[k] = top /\ ~(k <= l) /\ ~(top <= i)
        BY <1>3, <3>1, RefFacts
      <4> QED BY <4>1
    <3>2. CASE k # Len(frames) + 1
      <4>1. k \in 1..Len(frames)
        BY <1>3, <3>2, RefFacts
      <4> QED BY <1>3, <1>5, <4>1 DEF Owns
    <3> QED BY <3>1, <3>2
  <2>2. locals'[i] = locals[i] /\ HeldIn(l)' = HeldIn(l) /\ l \in 0..Len(nest')
    BY <1>1, <1>2, <1>5, RefFacts
  <2>3. locals'[i] \in HeldIn(l)'
    BY <1>5, <2>2 DEF Owns
  <2> QED BY <2>1, <2>2, <2>3 DEF Owns
<1>6. Entries'
  BY <1>1, <1>5 DEF Orderly, Entries
<1>7. Live' /\ ~badFree'
  BY <1>1 DEF Orderly, Live
<1> QED BY <1>1, <1>4, <1>6, <1>7 DEF Orderly

\* What a pop finds: the entries from the mark up are those of the last section.
LEMMA PopFacts ==
  ASSUME Orderly, Len(nest) > 0
  PROVE  LET n == Len(nest)
             mark == frames[Len(frames)]
         IN /\ frames # <<>> /\ mark \in 0..top
            /\ \A k \in 1..Len(frames) : frames[k] <= mark
            /\ \A i \in mark..(top - 1) : locals[i] \in HeldIn(n)
            /\ \A i \in 0..(mark - 1) : /\ locals[i] \notin HeldIn(n)
                                        /\ \E l \in 0..(n - 1) : Owns(i, l)
<1> DEFINE n == Len(nest)
           mark == frames[Len(frames)]
<1>1. Len(frames) \in 1..Len(frames) /\ frames # <<>> /\ Len(frames) = n /\ n \in 0..n
  BY RefFacts
<1>2. mark \in 0..top /\ \A k \in 1..Len(frames) : frames[k] <= mark
  BY <1>1, RefFacts DEF Orderly, Marks
<1> HIDE DEF mark
<1>3. ASSUME NEW i \in mark..(top - 1) PROVE locals[i] \in HeldIn(n)
  <2>1. i \in 0..(top - 1)
    BY <1>2, RefFacts
  <2>2. PICK l \in 0..n : Owns(i, l)
    BY <2>1 DEF Orderly, Entries
  <2>3. mark <= i
    BY <1>2, RefFacts
  <2>4. Len(frames) <= l
    BY <1>1, <2>2, <2>3 DEF Owns, mark
  <2>5. l = n
    BY <1>1, <2>4, RefFacts
  <2> QED BY <2>2, <2>5 DEF Owns
<1>4. ASSUME NEW i \in 0..(mark - 1)
      PROVE  locals[i] \notin HeldIn(n) /\ \E l \in 0..(n - 1) : Owns(i, l)
  <2>1. i \in 0..(top - 1)
    BY <1>2, RefFacts
  <2>2. PICK l \in 0..n : Owns(i, l)
    BY <2>1 DEF Orderly, Entries
  <2>3. ~(mark <= i)
    BY <1>2, RefFacts
  <2>4. ~(Len(frames) <= l)
    BY <1>1, <2>2, <2>3 DEF Owns, mark
  <2>5. l \in 0..(n - 1) /\ l # n
    BY <1>1, <2>4, RefFacts
  <2>6. locals[i] \notin HeldIn(n)
    BY <1>1, <2>2, <2>5, HeldUnique DEF Owns
  <2> QED BY <2>2, <2>5, <2>6
<1> QED BY <1>1, <1>2, <1>3, <1>4 DEF mark

\* What a pop does, in terms of its mark and of the sections.
LEMMA PopView ==
  ASSUME Orderly, NEW t \in Thread, PopLocalFrame(t), ~strayed'
  PROVE  \E result \in {NoObj} \cup HeldIn(Len(nest)), m \in 0..top, doomed \in SUBSET (0..(top - 1)) :
           LET n    == Len(nest)
               dead == {locals[i] : i \in doomed}
               kept == result # NoObj /\ m < MaxLocals
           IN  /\ n \in Nat /\ n > 0 /\ Len(nest') = n - 1 /\ Nested'
               /\ doomed = {i \in m..(top - 1) : locals[i] # result}
               /\ \A k \in 1..Len(frames) : frames[k] <= m
               /\ \A i \in m..(top - 1) : locals[i] \in HeldIn(n)
               /\ \A i \in 0..(m - 1) : locals[i] \notin HeldIn(n) /\ \E l \in 0..(n - 1) : Owns(i, l)
               /\ frames' = SubSeq(frames, 1, Len(frames) - 1)
               /\ heap' = heap \ dead
               /\ badFree' = (badFree \/ ~(dead \subseteq heap) \/ Cardinality(dead) < Cardinality(doomed))
               /\ locals' = IF kept THEN [locals EXCEPT ![m] = result] ELSE locals
               /\ top' = IF kept THEN m + 1 ELSE m
               /\ UNCHANGED globals
               /\ \A l \in 0..(n - 1) :
                     HeldIn(l)' = IF l = n - 1 THEN HeldIn(l) \cup ({result} \cap HeldIn(n)) ELSE HeldIn(l)
               /\ \A o \in Obj : /\ held'[o] = Unheld \/ \E f \in Frame : held'[o] = Only(f)
                                 /\ held'[o] # Unheld => held[o] # Unheld /\ o \notin HeldIn(n) \ {result}
<1> DEFINE mark == IF frames = <<>> THEN 0 ELSE frames[Len(frames)]
           Doomed(result) == {i \in mark..(top - 1) : locals[i] # result}
<1>1. PICK result \in {NoObj} \cup Usable(t) :
         LET dead == {locals[i] : i \in Doomed(result)}
             kept == result # NoObj /\ mark < MaxLocals
         IN  /\ Leave(t, result)
             /\ frames' = IF frames = <<>> THEN <<>> ELSE SubSeq(frames, 1, Len(frames) - 1)
             /\ heap' = heap \ dead
             /\ badFree' = (badFree \/ ~(dead \subseteq heap) \/ Cardinality(dead) < Cardinality(Doomed(result)))
             /\ locals' = IF kept THEN [locals EXCEPT ![mark] = result] ELSE locals
             /\ top' = IF kept THEN mark + 1 ELSE mark
             /\ UNCHANGED globals
  BY DEF PopLocalFrame
<1> DEFINE n == Len(nest)
<1>2. /\ n \in Nat /\ n > 0 /\ result \in {NoObj} \cup HeldIn(n) /\ Len(nest') = n - 1 /\ Nested'
      /\ \A l \in 0..(n - 1) :
            HeldIn(l)' = IF l = n - 1 THEN HeldIn(l) \cup ({result} \cap HeldIn(n)) ELSE HeldIn(l)
      /\ \A o \in Obj : /\ held'[o] = Unheld \/ \E f \in Frame : held'[o] = Only(f)
                        /\ held'[o] # Unheld => held[o] # Unheld /\ o \notin HeldIn(n) \ {result}
  BY <1>1, LeaveView
<1>3. /\ frames # <<>> /\ mark \in 0..top /\ \A k \in 1..Len(frames) : frames[k] <= mark
      /\ \A i \in mark..(top - 1) : locals[i] \in HeldIn(n)
      /\ \A i \in 0..(mark - 1) : locals[i] \notin HeldIn(n) /\ \E l \in 0..(n - 1) : Owns(i, l)
  BY <1>2, PopFacts
<1> HIDE DEF mark
<1>4. Doomed(result) \in SUBSET (0..(top - 1))
  BY <1>3, RefFacts
<1> HIDE DEF n
<1>5. frames' = SubSeq(frames, 1, Len(frames) - 1)
  BY <1>1, <1>3
<1> QED BY <1>1, <1>2, <1>3, <1>4, <1>5 DEF n

\* Popping a frame.
LEMMA PopKept ==
  ASSUME Orderly, TypeOK', NEW t \in Thread, PopLocalFrame(t), ~strayed'
  PROVE  Orderly'
<1> DEFINE n == Len(nest)
<1>1. PICK result \in {NoObj} \cup HeldIn(n), m \in 0..top, doomed \in SUBSET (0..(top - 1)) :
           LET dead == {locals[i] : i \in doomed}
               kept == result # NoObj /\ m < MaxLocals
           IN  /\ n \in Nat /\ n > 0 /\ Len(nest') = n - 1 /\ Nested'
               /\ doomed = {i \in m..(top - 1) : locals[i] # result}
               /\ \A k \in 1..Len(frames) : frames[k] <= m
               /\ \A i \in m..(top - 1) : locals[i] \in HeldIn(n)
               /\ \A i \in 0..(m - 1) : locals[i] \notin HeldIn(n) /\ \E l \in 0..(n - 1) : Owns(i, l)
               /\ frames' = SubSeq(frames, 1, Len(frames) - 1)
               /\ heap' = heap \ dead
               /\ badFree' = (badFree \/ ~(dead \subseteq heap) \/ Cardinality(dead) < Cardinality(doomed))
               /\ locals' = IF kept THEN [locals EXCEPT ![m] = result] ELSE locals
               /\ top' = IF kept THEN m + 1 ELSE m
               /\ UNCHANGED globals
               /\ \A l \in 0..(n - 1) :
                     HeldIn(l)' = IF l = n - 1 THEN HeldIn(l) \cup ({result} \cap HeldIn(n)) ELSE HeldIn(l)
               /\ \A o \in Obj : /\ held'[o] = Unheld \/ \E f \in Frame : held'[o] = Only(f)
                                 /\ held'[o] # Unheld => held[o] # Unheld /\ o \notin HeldIn(n) \ {result}
  BY PopView
<1> DEFINE dead == {locals[i] : i \in doomed}
           kept == result # NoObj /\ m < MaxLocals
<1>2. /\ dead \subseteq heap /\ dead \subseteq HeldIn(n) \ {result}
      /\ Cardinality(dead) = Cardinality(doomed) /\ Cardinality(doomed) \in Nat
  <2>1. dead \subseteq heap /\ Cardinality(dead) = Cardinality(doomed) /\ Cardinality(doomed) \in Nat
    BY DoomedOnce
  <2> QED BY <1>1, <2>1
<1>3. ~badFree'
  <2> HIDE DEF dead
  <2>1. ~(Cardinality(dead) < Cardinality(doomed))
    BY <1>2
  <2>2. badFree' = (badFree \/ ~(dead \subseteq heap) \/ Cardinality(dead) < Cardinality(doomed))
    BY <1>1, Zenon DEF dead
  <2> QED BY <1>2, <2>1, <2>2, Zenon DEF Orderly
<1>4. /\ Len(frames') = n - 1 /\ Len(nest') = n - 1
      /\ \A k \in 1..(n - 1) : k \in 1..Len(frames) /\ k # n /\ frames'[k] = frames[k]
  <2>1. frames \in Seq(0..MaxLocals) /\ Len(frames) = n
    BY RefFacts DEF Orderly, TypeOK
  <2>2. frames' = SubSeq(frames, 1, Len(frames) - 1)
    BY <1>1
  <2>3. /\ Len(frames') = IF Len(frames) = 0 THEN 0 ELSE Len(frames) - 1
        /\ \A k \in 1..Len(frames') : k \in 1..Len(frames) /\ k # Len(frames) /\ frames'[k] = frames[k]
    BY <2>1, <2>2, DropLast
  <2>4. n \in Nat /\ n > 0 /\ Len(nest') = n - 1
    BY <1>1
  <2>5. Len(frames') = n - 1
    BY <2>1, <2>3, <2>4
  <2> HIDE DEF n
  <2> QED BY <2>1, <2>3, <2>4, <2>5
<1>5. /\ m <= top' /\ \A i \in 0..(m - 1) : locals'[i] = locals[i]
      /\ \A i \in 0..(top' - 1) : i \in 0..(m - 1) \/ (kept /\ i = m /\ locals'[i] = result)
  <2>1. CASE kept
    <3>1. locals' = [locals EXCEPT ![m] = result] /\ top' = m + 1
      BY <1>1, <2>1
    <3> QED BY <2>1, <3>1, RefFacts DEF Orderly, TypeOK
  <2>2. CASE ~kept
    <3>1. locals' = locals /\ top' = m
      BY <1>1, <2>2
    <3> QED BY <3>1, RefFacts
  <2> QED BY <2>1, <2>2
<1>6. \A l \in 0..(n - 1) : HeldIn(l) \subseteq HeldIn(l)'
  BY <1>1
<1>7. Marks'
  <2>1. \A k \in 1..(n - 1) : frames'[k] <= top'
    <3> SUFFICES ASSUME NEW k \in 1..(n - 1) PROVE frames'[k] <= top'
      OBVIOUS
    <3>1. frames'[k] = frames[k] /\ frames[k] <= m /\ frames[k] \in Nat
      BY <1>1, <1>4, RefFacts
    <3>2. top' \in Nat
      BY SizeAssumption DEF TypeOK
    <3> QED BY <1>5, <3>1, <3>2
  <2>2. \A j, k \in 1..(n - 1) : j <= k => frames'[j] <= frames'[k]
    BY <1>4 DEF Orderly, Marks
  <2> QED BY <1>4, <2>1, <2>2 DEF Marks
<1>8. ASSUME NEW i \in 0..(m - 1), NEW l \in 0..(n - 1), Owns(i, l)
      PROVE  Owns(i, l)'
  <2>1. locals'[i] \in HeldIn(l)'
    BY <1>5, <1>6, <1>8 DEF Owns
  <2>2. \A k \in 1..Len(frames') : k <= l <=> frames'[k] <= i
    BY <1>4, <1>8 DEF Owns
  <2> QED BY <2>1, <2>2 DEF Owns
<1>9. ASSUME kept, NEW i, i = m, locals'[i] = result, NEW l, l = n - 1
      PROVE  Owns(i, l)' /\ l \in 0..(n - 1)
  <2>1. l \in 0..(n - 1) /\ n \in Nat
    BY <1>1, <1>9
  <2>2. result \in HeldIn(l)'
    BY <1>1, <1>9, <2>1
  <2>3. \A k \in 1..Len(frames') : k <= l /\ frames'[k] <= i
    BY <1>1, <1>4, <1>9, <2>1
  <2> QED BY <1>9, <2>1, <2>2, <2>3 DEF Owns
<1>10. Entries'
  <2>1. ASSUME NEW i \in 0..(top' - 1)
        PROVE  \E l \in 0..Len(nest') : Owns(i, l)'
    <3>1. CASE i \in 0..(m - 1)
      <4>1. PICK l \in 0..(n - 1) : Owns(i, l)
        BY <1>1, <3>1
      <4> QED BY <1>4, <1>8, <3>1, <4>1
    <3>2. CASE kept /\ i = m /\ locals'[i] = result
      BY <1>4, <1>9, <3>2
    <3> QED BY <1>5, <3>1, <3>2
  <2>2. ASSUME NEW i \in 0..(top' - 1), NEW j \in 0..(top' - 1), locals'[i] = locals'[j]
        PROVE  i = j
    <3>1. \A k \in 0..(m - 1) : locals'[k] = locals[k] /\ k \in 0..(top - 1) /\ locals'[k] \notin HeldIn(n)
      BY <1>1, <1>5, RefFacts
    <3>2. kept => result \in HeldIn(n)
      OBVIOUS
    <3>3. CASE i \in 0..(m - 1) /\ j \in 0..(m - 1)
      BY <2>2, <3>1, <3>3 DEF Orderly, Entries
    <3>4. CASE ~(i \in 0..(m - 1) /\ j \in 0..(m - 1))
      BY <1>5, <2>2, <3>1, <3>2, <3>4
    <3> QED BY <3>3, <3>4
  <2> QED BY <2>1, <2>2 DEF Entries
<1>11. Live'
  <2> SUFFICES ASSUME NEW o \in Obj
               PROVE  /\ globals'[o] <= 1
                      /\ held'[o] = Unheld \/ \E f \in Frame : held'[o] = Only(f)
                      /\ held'[o] # Unheld \/ globals'[o] > 0 => o \in heap'
    BY DEF Live
  <2>1. /\ globals'[o] = globals[o] /\ heap' = heap \ dead
        /\ held'[o] = Unheld \/ \E f \in Frame : held'[o] = Only(f)
        /\ held'[o] # Unheld => held[o] # Unheld /\ o \notin HeldIn(n) \ {result}
    BY <1>1
  <2>2. globals[o] > 0 => o \notin HeldIn(n)
    BY DEF HeldIn
  <2>3. globals[o] <= 1 /\ (held[o] # Unheld \/ globals[o] > 0 => o \in heap)
    BY DEF Orderly, Live
  <2> QED BY <1>2, <2>1, <2>2, <2>3
<1> QED BY <1>1, <1>3, <1>7, <1>10, <1>11 DEF Orderly

\* In every reachable state, until the engine strays, the table is cut into sections
\* by the marks, each entry once, and what JNI lets the engine use is allocated.
THEOREM RefInvariant == Spec => []RefInv
<1>1. Init => RefInv
  <2> SUFFICES ASSUME Init PROVE TypeOK /\ Orderly
    BY DEF RefInv
  <2>1. TypeOK
    <3>1. /\ top \in 0..MaxLocals /\ Len(frames) <= MaxFrames
          /\ frames \in Seq(0..MaxLocals) /\ nest \in Seq(Frame)
      BY SizeAssumption DEF Init
    <3>2. depth \in [Thread -> 0..MaxDepth]
      BY SizeAssumption DEF Init
    <3>3. globals \in [Obj -> 0..MaxRefs] /\ held \in [Obj -> [Frame -> 0..MaxRefs]]
      BY RefsAssumption DEF Init, Unheld
    <3> QED BY <3>1, <3>2, <3>3 DEF Init, TypeOK
  <2>2. top = 0 /\ Len(frames) = 0 /\ Len(nest) = 0
    BY DEF Init
  <2>3. Nested /\ Marks /\ Entries
    BY <2>2 DEF Nested, Marks, Entries
  <2>4. Live
    BY DEF Init, Live
  <2> QED BY <2>1, <2>3, <2>4 DEF Init, Orderly
<1>2. RefInv /\ [Next]_jvars => RefInv'
  <2> SUFFICES ASSUME RefInv, [Next]_jvars, ~strayed' PROVE Orderly'
    BY RefTypes DEF RefInv
  <2>1. TypeOK'
    BY RefTypes DEF RefInv
  <2>2. Orderly
    <3>1. ~strayed
      BY DEF Next, jvars, jni_make_object, NewLocalRef, DeleteLocalRef, NewGlobalRef,
             DeleteGlobalRef, PushLocalFrame, PopLocalFrame, Leave
    <3> QED BY <3>1 DEF RefInv
  <2>3. CASE UNCHANGED jvars
    <3>1. \A l : HeldIn(l)' = HeldIn(l)
      BY <2>3 DEF jvars, HeldIn, IsSection
    <3>2. Entries' /\ Marks'
      BY <2>2, <2>3, <3>1, SectionsKept DEF jvars
    <3> QED BY <2>1, <2>2, <2>3, <3>2 DEF jvars, Orderly, Nested, Live
  <2>4. CASE \E t \in Thread : jni_make_object(t) \/ NewLocalRef(t) \/ DeleteLocalRef(t)
               \/ NewGlobalRef(t) \/ PushLocalFrame(t) \/ PopLocalFrame(t)
    BY <2>1, <2>2, <2>4, MakeKept, NewLocalKept, DeleteKept, PromoteKept, PushKept, PopKept
  <2>5. CASE DeleteGlobalRef
    BY <2>1, <2>2, <2>5, DropKept
  <2> QED BY <2>3, <2>4, <2>5 DEF Next
<1> QED BY <1>1, <1>2, PTL DEF Spec

\* "Which we honour here": until the engine strays from what the flat table can
\* follow, no order of the calls of any threads frees an object twice.
THEOREM NothingFreedTwice == Spec => []NoDoubleFree
<1>1. RefInv => NoDoubleFree
  BY DEF RefInv, Orderly, NoDoubleFree
<1> QED BY RefInvariant, <1>1, PTL

\* A reference that JNI lets the engine use, local or global, is allocated, until
\* the engine strays.
THEOREM ReferencesLive == Spec => []HeldIsLive
<1>1. RefInv => HeldIsLive
  BY DEF RefInv, Orderly, Live, HeldIsLive
<1> QED BY RefInvariant, <1>1, PTL

-------------------------------------------------------------------------------
(* The refinement of LocalFrames. *)

\* What JNI lets the engine use as a local reference only has an entry.
InTable == \A o \in Obj : held[o] # Unheld /\ globals[o] = 0 => o \in Table

FrameInv == RefInv /\ (strayed \/ InTable)

\* There is a free entry for each object the engine can make.
Room == top < MaxLocals \/ heap = Obj

-------------------------------------------------------------------------------
\* A held reference is an entry, and its section is the one the marks say.
LEMMA EntryOf ==
  ASSUME Orderly, InTable, NEW l \in 0..Len(nest), NEW o \in HeldIn(l)
  PROVE  \E j \in 0..(top - 1) : locals[j] = o /\ Owns(j, l)
<1>1. o \in Obj /\ globals[o] = 0 /\ held[o] # Unheld
  BY OnlyHeld DEF HeldIn
<1>2. PICK j \in 0..(top - 1) : locals[j] = o
  BY <1>1 DEF InTable, Table
<1>3. PICK m \in 0..Len(nest) : Owns(j, m)
  BY DEF Orderly, Entries
<1>4. m = l
  BY <1>2, <1>3, HeldUnique DEF Owns
<1> QED BY <1>2, <1>3, <1>4

\* The marks cut the table into the sets of references JNI knows of.
StackIs == Len(nest) \in Nat /\ FrameSets = [i \in 1..(Len(nest) + 1) |-> HeldIn(i - 1)]

LEMMA FramesAreHeld == ASSUME Orderly, InTable PROVE StackIs
<1> DEFINE n == Len(nest)
<1>1. Len(frames) = n /\ n \in Nat /\ top \in Nat
  BY RefFacts
<1>2. \A k \in 1..Len(frames) : frames[k] \in 0..top
  BY <1>1, RefFacts DEF Orderly, Marks
<1>3. ASSUME NEW i \in 1..(n + 1)
      PROVE  {locals[j] : j \in Bound(i - 1)..(Bound(i) - 1)} = HeldIn(i - 1)
  <2>1. i - 1 \in 0..n /\ i \in Nat
    BY <1>1
  <2>2. Bound(i - 1) = IF i = 1 THEN 0 ELSE frames[i - 1]
    BY <1>1 DEF Bound
  <2>3. Bound(i) = IF i = Len(frames) + 1 THEN top ELSE frames[i]
    BY <1>1 DEF Bound
  <2>4. Bound(i - 1) \in 0..top /\ Bound(i) \in 0..top
    BY <1>1, <1>2, <2>2, <2>3
  <2>5. ASSUME NEW j \in Bound(i - 1)..(Bound(i) - 1) PROVE locals[j] \in HeldIn(i - 1)
    <3>1. j \in 0..(top - 1)
      BY <1>1, <2>4
    <3>2. PICK l \in 0..n : Owns(j, l)
      BY <3>1 DEF Orderly, Entries
    <3>3. i - 1 <= l
      BY <1>1, <2>2, <2>4, <3>1, <3>2 DEF Owns
    <3>4. l <= i - 1
      BY <1>1, <2>3, <2>4, <3>1, <3>2 DEF Owns
    <3>5. l = i - 1
      BY <1>1, <3>3, <3>4
    <3> QED BY <3>2, <3>5 DEF Owns
  <2>6. ASSUME NEW o \in HeldIn(i - 1) PROVE \E j \in Bound(i - 1)..(Bound(i) - 1) : locals[j] = o
    <3>1. PICK j \in 0..(top - 1) : locals[j] = o /\ Owns(j, i - 1)
      BY <2>1, <2>6, EntryOf
    <3>2. Bound(i - 1) <= j
      BY <1>1, <2>2, <3>1 DEF Owns
    <3>3. j < Bound(i)
      BY <1>1, <1>2, <2>3, <2>4, <3>1 DEF Owns
    <3>4. j \in Bound(i - 1)..(Bound(i) - 1)
      BY <2>4, <3>1, <3>2, <3>3
    <3> QED BY <3>1, <3>4
  <2> QED BY <2>5, <2>6
<1> QED BY <1>1, <1>3 DEF FrameSets, StackIs

\* The same after a step.
LEMMA StackNext == Orderly' /\ InTable' => StackIs'
<1>1. Orderly /\ InTable => StackIs
  BY FramesAreHeld
<1> QED BY <1>1, PTL

\* The stack of LocalFrames is a sequence of sets, the last section on top.
LEMMA StackOf ==
  ASSUME StackIs
  PROVE  /\ Len(nest) \in Nat /\ FrameSets \in Seq(SUBSET Obj) /\ Len(FrameSets) = Len(nest) + 1
         /\ FrameSets[Len(nest) + 1] = HeldIn(Len(nest))
<1> DEFINE n == Len(nest)
<1>1. n \in Nat /\ n + 1 - 1 = n /\ n + 1 \in 1..(n + 1) /\ FrameSets = [i \in 1..(n + 1) |-> HeldIn(i - 1)]
  BY DEF StackIs
<1> HIDE DEF n
<1>2. FrameSets \in [1..(n + 1) -> SUBSET Obj]
  BY <1>1 DEF HeldIn
<1>3. FrameSets \in Seq(SUBSET Obj) /\ DOMAIN FrameSets = 1..(n + 1)
  BY <1>1, <1>2
<1>4. Len(FrameSets) = n + 1 /\ FrameSets[n + 1] = HeldIn(n)
  BY <1>1, <1>3
<1> QED BY <1>1, <1>3, <1>4 DEF n

\* Two stacks of the same sections are the same.
LEMMA SameStack ==
  ASSUME StackIs, StackIs', nest' = nest, \A l \in 0..Len(nest) : HeldIn(l)' = HeldIn(l)
  PROVE  FrameSets' = FrameSets
<1> DEFINE n == Len(nest)
<1>1. n \in Nat /\ FrameSets = [i \in 1..(n + 1) |-> HeldIn(i - 1)]
  BY DEF StackIs
<1>2. FrameSets' = [i \in 1..(n + 1) |-> HeldIn(i - 1)']
  BY DEF StackIs
<1>3. \A i \in 1..(n + 1) : i - 1 \in 0..n
  BY <1>1
<1> QED BY <1>1, <1>2, <1>3

-------------------------------------------------------------------------------
(* The flat table as nested frames: each call is one of LocalFrames, and leaves *)
(* what is held in the table.                                                   *)

\* The objects that have a global reference.
Promoted == {o \in Obj : globals[o] > 0}

\* The new object gets an entry.
LEMMA MakeInTable ==
  ASSUME Orderly, InTable, Room, NEW t \in Thread, jni_make_object(t), ~strayed'
  PROVE  InTable'
<1>1. PICK o \in Obj \ heap :
        /\ reg_local(o) /\ globals' = globals /\ \E f \in Frame : held' = [held EXCEPT ![o] = Only(f)]
  BY MakeView
<1>2. top < MaxLocals /\ top \in 0..(MaxLocals - 1)
  BY <1>1, RefFacts DEF Room
<1>3. locals' = [locals EXCEPT ![top] = o] /\ top' = top + 1
  BY <1>1, <1>2 DEF reg_local
<1>4. Table' = Table \cup {o}
  <2>1. locals'[top] = o /\ \A i \in 0..(top - 1) : locals'[i] = locals[i]
    BY <1>2, <1>3 DEF Orderly, TypeOK
  <2>2. \A i : i \in 0..(top' - 1) <=> i = top \/ i \in 0..(top - 1)
    BY <1>2, <1>3
  <2> QED BY <2>1, <2>2 DEF Table
<1>5. \A p \in Obj : p # o => held'[p] = held[p]
  BY <1>1 DEF Orderly, TypeOK
<1> QED BY <1>1, <1>4, <1>5 DEF InTable

\* It is made in the innermost frame.
LEMMA MakeMaps ==
  ASSUME Orderly, StackIs, StackIs', NEW t \in Thread, jni_make_object(t), ~strayed'
  PROVE  Frames!Make
<1> DEFINE n == Len(nest)
<1>1. PICK o \in Obj \ heap :
        /\ heap' = heap \cup {o} /\ UNCHANGED <<nest, globals>>
        /\ \A l \in 0..n : HeldIn(l)' = IF l = n THEN HeldIn(l) \cup {o} ELSE HeldIn(l)
  BY MakeView
<1>2. n \in Nat /\ Len(FrameSets) = n + 1
  BY StackOf
<1>3. FrameSets' = [FrameSets EXCEPT ![n + 1] = @ \cup {o}]
  <2>1. FrameSets' = [i \in 1..(n + 1) |-> HeldIn(i - 1)']
    BY <1>1 DEF StackIs
  <2>2. FrameSets = [i \in 1..(n + 1) |-> HeldIn(i - 1)]
    BY DEF StackIs
  <2>3. \A i \in 1..(n + 1) : i - 1 \in 0..n /\ (i - 1 = n <=> i = n + 1)
    BY <1>2
  <2> QED BY <1>1, <2>1, <2>2, <2>3
<1> QED BY <1>1, <1>2, <1>3 DEF Frames!Make, Frames!Inner

\* Taking a reference out of the innermost frame.
LEMMA TakeOutMaps ==
  ASSUME StackIs, StackIs', nest' = nest, NEW o \in HeldIn(Len(nest)),
         \A l \in 0..Len(nest) : HeldIn(l)' = HeldIn(l) \ {o}, Orderly
  PROVE  /\ o \in FrameSets[Len(FrameSets)]
         /\ FrameSets' = [FrameSets EXCEPT ![Len(FrameSets)] = @ \ {o}]
<1> DEFINE n == Len(nest)
<1>1. n \in Nat /\ Len(FrameSets) = n + 1 /\ FrameSets[n + 1] = HeldIn(n) /\ n \in 0..n
  BY StackOf
<1>2. \A l \in 0..n : l # n => o \notin HeldIn(l)
  BY <1>1, HeldUnique
<1>3. FrameSets' = [FrameSets EXCEPT ![n + 1] = @ \ {o}]
  <2>1. FrameSets' = [i \in 1..(n + 1) |-> HeldIn(i - 1)']
    BY DEF StackIs
  <2>2. FrameSets = [i \in 1..(n + 1) |-> HeldIn(i - 1)]
    BY DEF StackIs
  <2>3. \A i \in 1..(n + 1) : i - 1 \in 0..n /\ (i - 1 = n <=> i = n + 1)
    BY <1>1
  <2>4. \A i \in 1..(n + 1) : i # n + 1 => HeldIn(i - 1)' = HeldIn(i - 1)
    <3> SUFFICES ASSUME NEW i \in 1..(n + 1), i # n + 1 PROVE HeldIn(i - 1)' = HeldIn(i - 1)
      OBVIOUS
    <3>1. PICK l \in 0..n : l = i - 1 /\ l # n
      BY <2>3
    <3>2. HeldIn(l)' = HeldIn(l)
      BY <1>2, <3>1
    <3> QED BY <3>1, <3>2
  <2> QED BY <2>1, <2>2, <2>3, <2>4
<1> QED BY <1>1, <1>3

\* A deleted local reference's object is freed, unless a global one is left.
LEMMA DeleteMaps ==
  ASSUME Orderly, InTable, NEW t \in Thread, DeleteLocalRef(t), ~strayed'
  PROVE  /\ InTable'
         /\ StackIs /\ StackIs' => Frames!Delete \/ UNCHANGED Frames!lfVars
<1>1. PICK o \in Obj :
        /\ held[o] # Unheld /\ held' = [held EXCEPT ![o] = Unheld]
        /\ IF o \in Table THEN o \in HeldIn(Len(nest)) /\ Unregister(o) /\ free_ref(o)
                          ELSE UNCHANGED <<locals, top, heap, badFree>>
        /\ UNCHANGED <<frames, nest, depth, globals>>
        /\ \A l \in 0..Len(nest) : HeldIn(l)' = HeldIn(l) \ {o}
  BY DeleteView
<1>2. held'[o] = Unheld /\ \A p \in Obj : p # o => held'[p] = held[p]
  BY <1>1 DEF Orderly, TypeOK
<1>3. Table \ {o} \subseteq Table'
  <2>1. CASE o \in Table
    BY <1>1, <2>1, UnregisterKept
  <2>2. CASE o \notin Table
    BY <1>1, <2>2 DEF Table
  <2> QED BY <2>1, <2>2
<1>4. InTable'
  BY <1>1, <1>2, <1>3 DEF InTable
<1>5. ASSUME StackIs, StackIs' PROVE Frames!Delete \/ UNCHANGED Frames!lfVars
  <2>1. CASE o \in Table
    <3>1. heap' = heap \ {o} /\ Promoted' = Promoted
      BY <1>1, <2>1 DEF free_ref, Promoted
    <3>2. /\ o \in FrameSets[Len(FrameSets)]
          /\ FrameSets' = [FrameSets EXCEPT ![Len(FrameSets)] = @ \ {o}]
      BY <1>1, <1>5, <2>1, TakeOutMaps
    <3> QED BY <3>1, <3>2 DEF Frames!Delete, Frames!Inner, Promoted
  <2>2. CASE o \notin Table
    <3>1. globals[o] # 0
      BY <1>1, <2>2 DEF InTable
    <3>2. \A l \in 0..Len(nest) : HeldIn(l)' = HeldIn(l)
      BY <1>1, <3>1 DEF HeldIn
    <3>3. FrameSets' = FrameSets
      BY <1>1, <1>5, <3>2, SameStack
    <3> QED BY <1>1, <2>2, <3>3 DEF Frames!lfVars
  <2> QED BY <2>1, <2>2
<1> QED BY <1>4, <1>5

\* A promoted one's object lives on.
LEMMA PromoteMaps ==
  ASSUME Orderly, InTable, NEW t \in Thread, NewGlobalRef(t), ~strayed'
  PROVE  /\ InTable'
         /\ StackIs /\ StackIs' => Frames!Promote
<1>1. PICK o \in Obj :
        /\ globals[o] = 0 /\ globals' = [globals EXCEPT ![o] = 1] /\ held[o] # Unheld
        /\ IF o \in Table THEN o \in HeldIn(Len(nest)) /\ Unregister(o) ELSE UNCHANGED <<locals, top>>
        /\ UNCHANGED <<frames, nest, depth, held, heap, badFree>>
        /\ \A l \in 0..Len(nest) : HeldIn(l)' = HeldIn(l) \ {o}
  BY GlobalView
<1>2. o \in Table
  BY <1>1 DEF InTable
<1>3. globals'[o] = 1 /\ \A p \in Obj : p # o => globals'[p] = globals[p]
  BY <1>1 DEF Orderly, TypeOK
<1>4. Table \ {o} \subseteq Table'
  BY <1>1, <1>2, UnregisterKept
<1>5. InTable'
  BY <1>1, <1>3, <1>4 DEF InTable
<1>6. ASSUME StackIs, StackIs' PROVE Frames!Promote
  <2>1. Promoted' = Promoted \cup {o}
    BY <1>3 DEF Promoted
  <2>2. /\ o \in FrameSets[Len(FrameSets)]
        /\ FrameSets' = [FrameSets EXCEPT ![Len(FrameSets)] = @ \ {o}]
    BY <1>1, <1>2, <1>6, TakeOutMaps
  <2> QED BY <1>1, <2>1, <2>2 DEF Frames!Promote, Frames!Inner, Promoted
<1> QED BY <1>5, <1>6

\* A local reference of a global object is in no frame.
LEMMA NewLocalMaps ==
  ASSUME Orderly, InTable, NEW t \in Thread, NewLocalRef(t), ~strayed'
  PROVE  InTable' /\ UNCHANGED Frames!lfVars
<1>1. UNCHANGED <<locals, top, frames, heap, globals, depth, nest, badFree>>
  BY NewLocalView
<1>2. PICK o \in Obj, f \in Frame : globals[o] > 0 /\ held' = [held EXCEPT ![o] = Only(f)]
  BY NewLocalView
<1>3. \A p \in Obj : p # o => held'[p] = held[p]
  BY <1>2 DEF Orderly, TypeOK
<1>4. InTable'
  BY <1>1, <1>2, <1>3 DEF InTable, Table
<1> QED BY <1>1, <1>4 DEF Frames!lfVars, FrameSets, Bound

\* Dropping a global reference touches no frame.
LEMMA DropMaps ==
  ASSUME Orderly, InTable, DeleteGlobalRef, ~strayed'
  PROVE  InTable' /\ Frames!DropGlobal
<1>1. PICK o \in Obj :
        /\ globals[o] = 1 /\ globals' = [globals EXCEPT ![o] = 0]
        /\ held[o] = Unheld /\ free_ref(o)
        /\ UNCHANGED <<locals, top, frames, depth, held, nest>>
  BY DropView
<1>2. globals'[o] = 0 /\ \A p \in Obj : p # o => globals'[p] = globals[p]
  BY <1>1 DEF Orderly, TypeOK
<1>3. InTable'
  BY <1>1, <1>2 DEF InTable, Table
<1>4. FrameSets' = FrameSets
  BY <1>1 DEF FrameSets, Bound
<1>5. Promoted' = Promoted \ {o} /\ o \in Promoted /\ heap' = heap \ {o}
  BY <1>1, <1>2 DEF Promoted, free_ref
<1> QED BY <1>3, <1>4, <1>5 DEF Frames!DropGlobal, Promoted

\* Appending an element, one index at a time.
LEMMA AppendIs ==
  ASSUME NEW S, NEW s \in Seq(S), NEW e \in S
  PROVE  Append(s, e) = [i \in 1..(Len(s) + 1) |-> IF i = Len(s) + 1 THEN e ELSE s[i]]
<1> DEFINE f == [i \in 1..(Len(s) + 1) |-> IF i = Len(s) + 1 THEN e ELSE s[i]]
<1>1. Len(s) \in Nat /\ \A i \in 1..Len(s) : s[i] \in S
  BY ElementOfSeq
<1>2. f \in Seq(S) /\ Len(f) = Len(s) + 1
  <2>1. \A i \in 1..(Len(s) + 1) : i = Len(s) + 1 \/ i \in 1..Len(s)
    BY <1>1
  <2>2. f \in [1..(Len(s) + 1) -> S]
    BY <1>1, <2>1
  <2> QED BY <1>1, <2>2
<1>3. /\ Append(s, e) \in Seq(S) /\ Len(Append(s, e)) = Len(s) + 1
      /\ \A i \in 1..Len(s) : Append(s, e)[i] = s[i]
      /\ Append(s, e)[Len(s) + 1] = e
  BY AppendProperties
<1>4. \A i \in 1..Len(f) : f[i] = Append(s, e)[i]
  BY <1>1, <1>2, <1>3
<1> HIDE DEF f
<1> QED BY <1>2, <1>3, <1>4, SeqEqual DEF f

\* No object is in two sections.
Separate == \A l, m \in 0..Len(nest) : \A o : o \in HeldIn(l) /\ o \in HeldIn(m) => l = m

LEMMA SeparateNext == Orderly' => Separate'
<1>1. Orderly => Separate
  BY HeldUnique DEF Separate
<1> QED BY <1>1, PTL

\* A new frame is empty.
LEMMA OpenMaps ==
  ASSUME Orderly, InTable, Orderly', InTable', NEW t \in Thread, PushLocalFrame(t), ~strayed'
  PROVE  Frames!Open
<1>1. /\ nest' = Append(nest, <<t, depth[t] + 1>>) /\ UNCHANGED <<heap, globals, locals, top>>
      /\ \A l \in 0..Len(nest) : HeldIn(l)' = HeldIn(l)
  BY PushView
<1>2. StackIs /\ StackIs'
  BY FramesAreHeld, StackNext
<1>3. PICK n \in Nat : n = Len(nest)
  BY <1>2 DEF StackIs
<1>4. Len(nest') = n + 1
  BY <1>1, <1>3 DEF Orderly, TypeOK
<1>5. HeldIn(n + 1)' = {}
  <2> SUFFICES ASSUME NEW o \in HeldIn(n + 1)' PROVE FALSE
    OBVIOUS
  <2>1. n + 1 \in 0..Len(nest')
    BY <1>4
  <2>2. o \in Obj /\ globals'[o] = 0 /\ held'[o] # Unheld
    BY OnlyHeld DEF HeldIn
  <2>3. o \in Table
    BY <1>1, <2>2 DEF InTable, Table
  <2>4. PICK l \in 0..n : o \in HeldIn(l)
    BY <1>3, <2>3 DEF Table, Orderly, Entries, Owns
  <2>5. o \in HeldIn(l)' /\ l \in 0..Len(nest') /\ l # n + 1
    BY <1>1, <1>3, <1>4, <2>4
  <2>6. Separate'
    BY SeparateNext
  <2> QED BY <2>1, <2>5, <2>6 DEF Separate
<1>6. /\ FrameSets' = [i \in 1..(n + 1 + 1) |-> HeldIn(i - 1)']
      /\ FrameSets = [i \in 1..(n + 1) |-> HeldIn(i - 1)]
      /\ FrameSets \in Seq(SUBSET Obj) /\ Len(FrameSets) = n + 1
  BY <1>2, <1>3, <1>4, StackOf DEF StackIs
<1>7. FrameSets'[n + 1 + 1] = {} /\ \A i \in 1..(n + 1) : FrameSets'[i] = FrameSets[i]
  <2>1. n + 1 + 1 \in 1..(n + 1 + 1) /\ n + 1 + 1 - 1 = n + 1
    OBVIOUS
  <2>2. \A i \in 1..(n + 1) : i \in 1..(n + 1 + 1) /\ i - 1 \in 0..n
    OBVIOUS
  <2>3. \A i \in 1..(n + 1) : HeldIn(i - 1)' = HeldIn(i - 1)
    BY <1>1, <1>3, <2>2
  <2> QED BY <1>5, <1>6, <2>1, <2>2, <2>3
<1>8. FrameSets' = Append(FrameSets, {})
  <2>1. \A i \in 1..(n + 1 + 1) : i \in 1..(n + 1) \/ i = n + 1 + 1
    OBVIOUS
  <2>2. FrameSets' = [i \in 1..(n + 1 + 1) |-> IF i = n + 1 + 1 THEN {} ELSE FrameSets[i]]
    BY <1>6, <1>7, <2>1
  <2>3. Append(FrameSets, {}) = [i \in 1..(n + 1 + 1) |-> IF i = n + 1 + 1 THEN {} ELSE FrameSets[i]]
    <3>1. {} \in SUBSET Obj
      OBVIOUS
    <3>2. Append(FrameSets, {})
            = [i \in 1..(Len(FrameSets) + 1) |-> IF i = Len(FrameSets) + 1 THEN {} ELSE FrameSets[i]]
      BY <1>6, <3>1, AppendIs
    <3> QED BY <1>6, <3>2
  <2> QED BY <2>2, <2>3
<1>9. Promoted' = Promoted
  BY <1>1 DEF Promoted
<1> QED BY <1>1, <1>8, <1>9 DEF Frames!Open, Promoted

\* A frame goes with all its objects but the one handed to the frame below.
LEMMA CloseMaps ==
  ASSUME Orderly, InTable, NEW t \in Thread, PopLocalFrame(t), ~strayed'
  PROVE  InTable' /\ (StackIs /\ StackIs' => Frames!Close)
<1> DEFINE n == Len(nest)
<1>1. PICK result \in {NoObj} \cup HeldIn(n), m \in 0..top, doomed \in SUBSET (0..(top - 1)) :
           LET dead == {locals[i] : i \in doomed}
               kept == result # NoObj /\ m < MaxLocals
           IN  /\ n \in Nat /\ n > 0 /\ Len(nest') = n - 1
               /\ doomed = {i \in m..(top - 1) : locals[i] # result}
               /\ \A i \in m..(top - 1) : locals[i] \in HeldIn(n)
               /\ \A i \in 0..(m - 1) : locals[i] \notin HeldIn(n)
               /\ heap' = heap \ dead
               /\ locals' = IF kept THEN [locals EXCEPT ![m] = result] ELSE locals
               /\ top' = IF kept THEN m + 1 ELSE m
               /\ UNCHANGED globals
               /\ \A l \in 0..(n - 1) :
                     HeldIn(l)' = IF l = n - 1 THEN HeldIn(l) \cup ({result} \cap HeldIn(n)) ELSE HeldIn(l)
               /\ \A o \in Obj : held'[o] # Unheld => held[o] # Unheld /\ o \notin HeldIn(n) \ {result}
  BY PopView
<1>2. \A o \in HeldIn(n) : o \in Obj /\ o # NoObj /\ globals[o] = 0 /\ held[o] # Unheld
  BY NoObjAssumption, OnlyHeld DEF HeldIn
<1>3. ASSUME NEW o \in HeldIn(n) PROVE \E i \in m..(top - 1) : locals[i] = o
  <2>1. PICK i \in 0..(top - 1) : locals[i] = o
    BY <1>2 DEF InTable, Table
  <2>2. i \notin 0..(m - 1)
    BY <1>1, <2>1
  <2> QED BY <2>1, <2>2, RefFacts
<1>4. \A i \in 0..(m - 1) : locals'[i] = locals[i] /\ i \in 0..(top' - 1)
  <2> SUFFICES ASSUME NEW i \in 0..(m - 1) PROVE locals'[i] = locals[i] /\ i \in 0..(top' - 1)
    OBVIOUS
  <2>1. m \in Nat /\ i # m /\ i \in 0..(MaxLocals - 1)
    BY RefFacts, SizeAssumption
  <2>2. locals'[i] = locals[i]
    BY <1>1, <2>1 DEF Orderly, TypeOK
  <2>3. top' = m \/ top' = m + 1
    BY <1>1
  <2>4. i \in 0..(top' - 1)
    <3>1. CASE top' = m
      BY ONLY <3>1, <2>1
    <3>2. CASE top' = m + 1
      BY ONLY <3>2, <2>1
    <3> QED BY <2>3, <3>1, <3>2
  <2> QED BY <2>2, <2>4
<1>5. ASSUME result \in HeldIn(n) PROVE result \in Table'
  <2>1. PICK i \in m..(top - 1) : locals[i] = result
    BY <1>3, <1>5
  <2>2. result # NoObj /\ m < MaxLocals /\ m \in 0..(MaxLocals - 1)
    BY <1>2, <1>5, <2>1, RefFacts
  <2>3. locals' = [locals EXCEPT ![m] = result] /\ top' = m + 1
    BY <1>1, <2>2
  <2>4. locals'[m] = result /\ m \in 0..(top' - 1)
    BY <2>2, <2>3 DEF Orderly, TypeOK
  <2> QED BY <2>4 DEF Table
<1>6. InTable'
  <2> SUFFICES ASSUME NEW o \in Obj, held'[o] # Unheld, globals'[o] = 0 PROVE o \in Table'
    BY DEF InTable
  <2>1. o \in Table /\ o \notin HeldIn(n) \ {result}
    BY <1>1 DEF InTable
  <2>2. PICK i \in 0..(top - 1) : locals[i] = o
    BY <2>1 DEF Table
  <2>3. CASE i \in 0..(m - 1)
    BY <1>4, <2>2, <2>3 DEF Table
  <2>4. CASE i \notin 0..(m - 1)
    <3>1. i \in m..(top - 1)
      BY <2>4, RefFacts
    <3>2. o = result /\ result \in HeldIn(n)
      BY <1>1, <2>1, <2>2, <3>1
    <3> QED BY <1>5, <3>2
  <2> QED BY <2>3, <2>4
<1>7. heap' = heap \ (HeldIn(n) \ {result})
  <2>1. {locals[i] : i \in doomed} = HeldIn(n) \ {result}
    BY <1>1, <1>3
  <2> QED BY <1>1, <2>1
<1>8. ASSUME StackIs, StackIs' PROVE Frames!Close
  <2> DEFINE kept == {result} \cap HeldIn(n)
  <2>1. /\ n \in Nat /\ Len(FrameSets) = n + 1 /\ n + 1 > 1 /\ FrameSets[n + 1] = HeldIn(n)
        /\ FrameSets = [i \in 1..(n + 1) |-> HeldIn(i - 1)] /\ n + 1 - 1 = n
    BY <1>1, <1>8, StackOf DEF StackIs
  <2>2. FrameSets' = [i \in 1..n |-> HeldIn(i - 1)']
    <3>1. FrameSets' = [i \in 1..(Len(nest') + 1) |-> HeldIn(i - 1)']
      BY <1>8 DEF StackIs
    <3>2. Len(nest') + 1 = n
      BY <1>1
    <3> QED BY <3>1, <3>2
  <2>3. FrameSets' = [i \in 1..n |-> IF i = n THEN FrameSets[i] \cup kept ELSE FrameSets[i]]
    <3>1. \A i \in 1..n : i \in 1..(n + 1) /\ i - 1 \in 0..(n - 1) /\ (i - 1 = n - 1 <=> i = n)
      BY <2>1
    <3>2. \A i \in 1..n : FrameSets[i] = HeldIn(i - 1)
      BY <2>1, <3>1
    <3>3. \A i \in 1..n : HeldIn(i - 1)' = IF i = n THEN HeldIn(i - 1) \cup kept ELSE HeldIn(i - 1)
      BY <1>1, <3>1
    <3> QED BY <2>2, <3>2, <3>3
  <2>4. heap' = heap \ (FrameSets[n + 1] \ kept) /\ Promoted' = Promoted
    BY <1>1, <1>7, <2>1 DEF Promoted
  <2>5. kept = {result} \cap FrameSets[n + 1] /\ result \in FrameSets[n + 1] \cup {NoObj}
    BY <2>1
  <2> HIDE DEF n, kept
  <2>6. PICK k \in Nat : k = n + 1
    BY <2>1
  <2>7. /\ Len(FrameSets) = k /\ k > 1 /\ heap' = heap \ (FrameSets[k] \ kept)
        /\ kept = {result} \cap FrameSets[k] /\ result \in FrameSets[k] \cup {NoObj}
        /\ FrameSets' = [i \in 1..(k - 1) |-> IF i = k - 1 THEN FrameSets[i] \cup kept ELSE FrameSets[i]]
    BY <2>1, <2>3, <2>4, <2>5, <2>6
  <2> QED BY <2>4, <2>7 DEF Frames!Close, Frames!Inner, Promoted
<1> QED BY <1>6, <1>8

\* An orderly step, as long as there is room, is one of LocalFrames.
LEMMA FrameStep ==
  ASSUME Orderly, InTable, Room, Orderly', ~strayed', [Next]_jvars
  PROVE  InTable' /\ [Frames!LFNext]_(Frames!lfVars)
<1>1. StackIs /\ (InTable' => StackIs')
  BY FramesAreHeld, StackNext
<1>2. CASE UNCHANGED jvars
  BY <1>2 DEF jvars, InTable, Table, Frames!lfVars, FrameSets, Bound
<1>3. CASE DeleteGlobalRef
  BY <1>3, DropMaps DEF Frames!LFNext
<1>4. ASSUME NEW t \in Thread, jni_make_object(t)
      PROVE  InTable' /\ [Frames!LFNext]_(Frames!lfVars)
  <2>1. InTable'
    BY <1>4, MakeInTable
  <2>2. Frames!Make
    BY <1>1, <1>4, <2>1, MakeMaps
  <2> QED BY <2>1, <2>2 DEF Frames!LFNext
<1>5. ASSUME NEW t \in Thread, NewLocalRef(t)
      PROVE  InTable' /\ [Frames!LFNext]_(Frames!lfVars)
  BY <1>5, NewLocalMaps
<1>6. ASSUME NEW t \in Thread, DeleteLocalRef(t)
      PROVE  InTable' /\ [Frames!LFNext]_(Frames!lfVars)
  BY <1>1, <1>6, DeleteMaps DEF Frames!LFNext
<1>7. ASSUME NEW t \in Thread, NewGlobalRef(t)
      PROVE  InTable' /\ [Frames!LFNext]_(Frames!lfVars)
  BY <1>1, <1>7, PromoteMaps DEF Frames!LFNext
<1>8. ASSUME NEW t \in Thread, PushLocalFrame(t)
      PROVE  InTable' /\ [Frames!LFNext]_(Frames!lfVars)
  <2>1. InTable'
    BY <1>8 DEF PushLocalFrame, InTable, Table
  <2>2. Frames!Open
    BY <1>8, <2>1, OpenMaps
  <2> QED BY <2>1, <2>2 DEF Frames!LFNext
<1>9. ASSUME NEW t \in Thread, PopLocalFrame(t)
      PROVE  InTable' /\ [Frames!LFNext]_(Frames!lfVars)
  BY <1>1, <1>9, CloseMaps DEF Frames!LFNext
<1> QED BY <1>2, <1>3, <1>4, <1>5, <1>6, <1>7, <1>8, <1>9 DEF Next

-------------------------------------------------------------------------------
\* Until the engine strays, as long as the table has room: the flat table of all
\* threads behaves as nested frames.  Each call frees what its frame owns, no more
\* and no less.
THEOREM FramesHonoured == Spec /\ [](strayed \/ Room) => HonoursFrames
<1>1. Init => (strayed \/ InTable) /\ Frames!LFInit
  <2> SUFFICES ASSUME Init PROVE InTable /\ Frames!LFInit
    OBVIOUS
  <2>1. top = 0 /\ frames = <<>> /\ Len(frames) = 0 /\ heap = {} /\ \A o \in Obj : globals[o] = 0
    BY DEF Init
  <2>2. FrameSets = [i \in 1..1 |-> {}]
    BY <2>1 DEF FrameSets, Bound
  <2>3. FrameSets = <<{}>>
    BY <2>2
  <2> QED BY <2>1, <2>3 DEF Init, InTable, Frames!LFInit
<1>2. [Next]_jvars /\ strayed => strayed'
  BY DEF Next, jvars, jni_make_object, NewLocalRef, DeleteLocalRef, NewGlobalRef,
         DeleteGlobalRef, PushLocalFrame, PopLocalFrame, Leave
<1>3. /\ RefInv /\ RefInv' /\ (strayed \/ InTable) /\ (strayed \/ Room) /\ [Next]_jvars
      => (strayed \/ InTable)' /\ [strayed' \/ Frames!LFNext]_(Frames!lfVars)
  <2> SUFFICES ASSUME RefInv, RefInv', strayed \/ InTable, strayed \/ Room, [Next]_jvars, ~strayed'
               PROVE  InTable' /\ [Frames!LFNext]_(Frames!lfVars)
    OBVIOUS
  <2>1. Orderly /\ Orderly' /\ InTable /\ Room
    BY <1>2 DEF RefInv
  <2> QED BY <2>1, FrameStep
<1> QED BY <1>1, <1>3, RefInvariant, PTL DEF Spec, HonoursFrames

\* A table with an entry for each object always has room, until the engine strays.
THEOREM RoomForAll ==
  ASSUME IsFiniteSet(Obj), Cardinality(Obj) <= MaxLocals
  PROVE  Spec => [](strayed \/ Room)
<1>1. ASSUME Orderly, heap # Obj PROVE top < MaxLocals
  <2>1. top \in Nat /\ MaxLocals \in Nat /\ heap \subseteq Obj
    BY <1>1, RefFacts DEF Orderly, TypeOK
  <2>2. Table \subseteq heap /\ Cardinality(Table) = Cardinality(0..(top - 1))
    BY <1>1, DoomedOnce DEF Table
  <2>3. Cardinality(0..(top - 1)) = top
    <3>1. 0 \in Int /\ top - 1 \in Int
      BY <2>1
    <3>2. Cardinality(0..(top - 1)) = IF 0 > top - 1 THEN 0 ELSE (top - 1) - 0 + 1
      BY <3>1, FS_Interval, Zenon
    <3> QED BY <2>1, <3>2
  <2>4. Cardinality(Table) < Cardinality(Obj)
    <3>1. Table \in SUBSET Obj /\ Table # Obj
      BY <1>1, <2>1, <2>2
    <3>2. /\ Cardinality(Table) <= Cardinality(Obj) /\ Cardinality(Table) # Cardinality(Obj)
          /\ Cardinality(Table) \in Nat /\ Cardinality(Obj) \in Nat
      BY <3>1, FS_Subset, FS_CardinalityType
    <3> QED BY <3>2
  <2> QED BY <2>1, <2>2, <2>3, <2>4, FS_CardinalityType
<1>2. RefInv => strayed \/ Room
  BY <1>1 DEF RefInv, Room
<1> QED BY <1>2, RefInvariant, PTL
================================================================================
