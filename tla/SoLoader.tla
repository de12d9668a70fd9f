-------------------------------- MODULE SoLoader --------------------------------
(***************************************************************************)
(* Loading the two Android libraries (source/so_util.c and                 *)
(* load_two_modules of source/main.c): each is copied into its zone of the *)
(* heap, relocated, linked against the import table and the other library, *)
(* mapped as code and initialised.  One call of so_util.c is one step; the *)
(* main thread is alone until the constructors of the libraries run.       *)
(*                                                                         *)
(* An image is what the loader looks at in the file: the segments, the     *)
(* symbols that are defined, those that are imported, and the words that   *)
(* hold an address of the library itself (RELR).  Addresses inside         *)
(* a zone are in units; a symbol's run-time address is the pair of the     *)
(* library and the name.  A step that touches memory it may not touch is   *)
(* recorded as a fault.                                                    *)
(***************************************************************************)
EXTENDS Integers, SequencesExt

CONSTANTS Name,         \* symbol names
          ImportTable,        \* those in dynlib_functions
          Images,       \* what each library's file may be: [Lib -> SUBSET Image]
          Words,        \* 64-bit words of an image that RELR may name
          Bits,         \* words that a bitmap of RELR covers: 63
          Page,         \* 0x1000, in units
          ZoneSize      \* heap_so_limit, in units

Lib == {"bass", "game"}
Word == 0..(Words - 1)

ASSUME TableAssumption == ImportTable \subseteq Name
ASSUME PageAssumption == Page \in Nat \ {0} /\ ZoneSize \in Nat /\ ZoneSize % Page = 0
ASSUME WordAssumption == Words \in Nat /\ Bits \in Nat \ {0}
ASSUME ImageAssumption ==
    \A l \in Lib : \A f \in Images[l] :
       /\ f.defined \subseteq Name /\ f.imported \subseteq Name \ f.defined
       /\ f.relative \subseteq Word
       /\ \A s \in f.segs : s.from \in Nat /\ s.to \in Nat /\ s.from <= s.to /\ s.x \in BOOLEAN
       /\ \E s \in f.segs : \A r \in f.segs : r.to <= s.to    \* the last of finitely many

VARIABLES
    todo,       \* the calls load_two_modules has still to make
    image,      \* the files
    zone,       \* load_base and load_base + load_size, in units from heap_so_base
    so_list,    \* the libraries that are loaded, in order
    got,        \* the pointers the relocations of each library lie at
    rebased,    \* how often load_virtbase was added to a word of each library
    code,       \* pages of load_virtbase: "none", "rx", "rw"
    locked,     \* libraries whose load_base was mapped away by so_finalize
    flushed,    \* libraries whose caches were flushed
    temp,       \* libraries whose file image is still allocated (so_base)
    ran,        \* the libraries whose constructors were run, in order
    faults      \* history: accesses to memory that is not there

lvars == <<todo, image, zone, so_list, got, rebased, code, locked, flushed, temp, ran, faults>>

Align(n) == ((n + Page - 1) \div Page) * Page

NoZone == [from |-> 0, to |-> 0]

\* The pages a segment touches.
PagesOf(s) == (s.from \div Page)..(Align(s.to) \div Page - 1)

\* The libraries are linked with page-aligned segments: code and data share no page.
ASSUME LinkAssumption ==
    \A l \in Lib : \A f \in Images[l] : \A r, s \in f.segs :
       r.x # s.x => PagesOf(r) \cap PagesOf(s) = {}

\* load_size: the end of the last segment, aligned.
SegmentEnds(l) == {s.to : s \in image[l].segs}
load_size(l) == Align(CHOOSE n \in SegmentEnds(l) : \A m \in SegmentEnds(l) : m <= n)

Symbols(l) == image[l].defined \cup image[l].imported

\* One pointer of each relocation type per symbol.
Slots(l) == {"ABS64", "GLOB_DAT"} \X Symbols(l)

\* What a pointer holds.
At(l, n)   == <<l, n>>            \* the address of l's symbol n
Native(n)  == <<"table", n>>      \* a function of dynlib_functions
Addend     == <<"addend", 0>>     \* an import that is not bound yet
Tainted    == <<"taint", 0>>      \* r_offset: crashes in an obvious place

-------------------------------------------------------------------------------
(* The calls of load_two_modules, in order. *)

\* Mutant: a library is mapped as code as soon as it is resolved.
load_two_modules_EarlyFinalize == <<
    <<"load", "bass">>, <<"load", "game">>,
    <<"relocate", "bass">>, <<"relocate", "game">>,
    <<"resolve", "bass">>, <<"finalize", "bass">>, <<"resolve", "game">>, <<"entry", "game">>,
    <<"finalize", "game">>, <<"flush", "bass">>, <<"flush", "game">>,
    <<"init", "bass">>, <<"init", "game">>, <<"free", "bass">>, <<"free", "game">> >>

load_two_modules == <<
    <<"load", "bass">>, <<"load", "game">>,
    <<"relocate", "bass">>, <<"relocate", "game">>,
    <<"resolve", "bass">>, <<"resolve", "game">>, <<"entry", "game">>,
    <<"finalize", "bass">>, <<"finalize", "game">>,
    <<"flush", "bass">>, <<"flush", "game">>,
    <<"init", "bass">>, <<"init", "game">>,
    <<"free", "bass">>, <<"free", "game">> >>

LoaderInit ==
    /\ todo = load_two_modules
    /\ image \in [Lib -> UNION {Images[l] : l \in Lib}]
    /\ \A l \in Lib : image[l] \in Images[l]
    /\ zone = [l \in Lib |-> NoZone] /\ so_list = <<>>
    /\ got = [l \in Lib |-> [s \in {} |-> Addend]]
    /\ rebased = [l \in Lib |-> [w \in Word |-> 0]]
    /\ code = [l \in Lib |-> [p \in {} |-> "none"]]
    /\ locked = {} /\ flushed = {} /\ temp = {} /\ ran = <<>> /\ faults = {}

\* A fault ends the process.
Alive == faults = {}

Doing(call, l) == Alive /\ todo # <<>> /\ Head(todo) = <<call, l>> /\ todo' = Tail(todo)

\* What happens where memory is touched.
Reads(libs)  == {<<"load_base", l>> : l \in libs \cap locked}
Temps(libs)  == {<<"so_base", l>> : l \in libs \ temp}
Listed == {so_list[i] : i \in DOMAIN so_list}

-------------------------------------------------------------------------------
(* The calls. *)

\* Where load_two_modules puts a library: bass first, the engine behind it.
base(l) == IF l = "bass" THEN 0 ELSE Align(zone["bass"].to)

\* Mutant: the room left behind bass is not worked out.
avail_Whole(l) == ZoneSize

avail(l) == IF ZoneSize > base(l) THEN ZoneSize - base(l) ELSE 0

\* so_load of a file that is readable and fits.
so_load(l) ==
    /\ Doing("load", l)
    /\ load_size(l) <= avail(l)
    /\ zone' = [zone EXCEPT ![l] = [from |-> base(l), to |-> base(l) + load_size(l)]]
    /\ so_list' = Append(so_list, l)
    /\ got' = [got EXCEPT ![l] = [s \in Slots(l) |-> Addend]]
    /\ temp' = temp \cup {l}
    /\ UNCHANGED <<image, rebased, code, locked, flushed, ran, faults>>

\* A file that is unreadable or too large, a relocation of an unknown type, a
\* missing entry point, a refused mapping: the program ends.
fatal_error ==
    /\ Alive /\ todo # <<>> /\ Head(todo)[1] \in {"load", "relocate", "entry", "finalize"}
    /\ todo' = <<>>
    /\ UNCHANGED <<image, zone, so_list, got, rebased, code, locked, flushed, temp, ran, faults>>

\* The linker's encoding of a set of words: an address, then bitmaps of the Bits
\* words behind it as long as they are not empty.  Of a pair p, p[1] are the words
\* left and p[2] is the word the next bitmap would begin at, or -1.
Near(p) == {w \in p[1] : p[2] >= 0 /\ w - p[2] \in 0..(Bits - 1)}

Relr[p \in (SUBSET Word) \X Int] ==
    LET first == CHOOSE w \in p[1] : \A v \in p[1] : w <= v
    IN  IF p[1] = {} THEN <<>>
        ELSE IF Near(p) # {}
          THEN <<[bitmap |-> {w - p[2] : w \in Near(p)}]>> \o Relr[<<p[1] \ Near(p), p[2] + Bits>>]
          ELSE <<[address |-> first]>> \o Relr[<<p[1] \ {first}, first + 1>>]

\* DT_RELR of a library.
RelrTable(l) == Relr[<<image[l].relative, -1>>]

Rebase(counts, words) == [w \in Word |-> IF w \in words THEN counts[w] + 1 ELSE counts[w]]

\* Mutant: a bitmap is taken to cover 64 words, the width of its entry.
RelrEntry_WholeWidth(done, entry) ==
    IF "address" \in DOMAIN entry
      THEN [where |-> entry.address + 1, counts |-> Rebase(done.counts, {entry.address})]
      ELSE [where |-> done.where + Bits + 1,
            counts |-> Rebase(done.counts, {done.where + b : b \in entry.bitmap})]

\* One entry of so_process_relr.
RelrEntry(done, entry) ==
    IF "address" \in DOMAIN entry
      THEN [where |-> entry.address + 1, counts |-> Rebase(done.counts, {entry.address})]
      ELSE [where |-> done.where + Bits,
            counts |-> Rebase(done.counts, {done.where + b : b \in entry.bitmap})]

so_process_relr(entries, counts) ==
    FoldLeft(RelrEntry, [where |-> 0, counts |-> counts], entries).counts

\* Pointers to the library's own symbols, and the words of RELR; imports wait for
\* so_resolve.
so_relocate(l) ==
    /\ Doing("relocate", l)
    /\ got' = [got EXCEPT ![l] =
                 [s \in Slots(l) |-> IF s[2] \in image[l].defined THEN At(l, s[2]) ELSE @[s]]]
    /\ rebased' = [rebased EXCEPT ![l] = so_process_relr(RelrTable(l), rebased[l])]
    /\ faults' = faults \cup Reads({l}) \cup Temps({l})
    /\ UNCHANGED <<image, zone, so_list, code, locked, flushed, temp, ran>>

\* The libraries other than l that export n, by their place in so_list.
Exporters(l, n) == {i \in DOMAIN so_list : so_list[i] # l /\ n \in image[so_list[i]].defined}

First(I) == CHOOSE i \in I : \A j \in I : i <= j

\* Mutant: exports of the libraries come before the import table.
so_resolve_symbol_TableLast(l, n) ==
    IF Exporters(l, n) # {} THEN At(so_list[First(Exporters(l, n))], n)
    ELSE IF n \in ImportTable THEN Native(n) ELSE Tainted

\* The import table takes priority over the exports of the other libraries.
so_resolve_symbol(l, n) ==
    IF n \in ImportTable THEN Native(n)
    ELSE IF Exporters(l, n) # {} THEN At(so_list[First(Exporters(l, n))], n)
    ELSE Tainted

\* The libraries whose symbol table is searched for the imports of l.
Searched(l) ==
    IF image[l].imported \subseteq ImportTable THEN {l} ELSE Listed

so_resolve(l) ==
    /\ Doing("resolve", l)
    /\ got' = [got EXCEPT ![l] =
                 [s \in Slots(l) |-> IF s[2] \in image[l].imported
                                       THEN so_resolve_symbol(l, s[2]) ELSE @[s]]]
    /\ faults' = faults \cup Reads(Searched(l)) \cup Temps({l})
    /\ UNCHANGED <<image, zone, so_list, rebased, code, locked, flushed, temp, ran>>

\* Walks the symbol table in load_base.
so_try_find_addr_rx(l) == Reads({l})

\* Looks up the engine's entry points in the one library and BASS's in the other.
resolve_entry_points ==
    /\ Doing("entry", "game")
    /\ faults' = faults \cup so_try_find_addr_rx("game") \cup so_try_find_addr_rx("bass")
    /\ UNCHANGED <<image, zone, so_list, got, rebased, code, locked, flushed, temp, ran>>

Pages(l) == 0..(load_size(l) \div Page - 1)

is_x_page(l, p) ==
    \E s \in image[l].segs : s.x /\ p \in PagesOf(s)

\* svcMapProcessCodeMemory takes load_base away; then every page gets its
\* permission once.
so_finalize(l) ==
    /\ Doing("finalize", l)
    /\ locked' = locked \cup {l}
    /\ code' = [code EXCEPT ![l] = [p \in Pages(l) |-> IF is_x_page(l, p) THEN "rx" ELSE "rw"]]
    /\ UNCHANGED <<image, zone, so_list, got, rebased, flushed, temp, ran, faults>>

so_flush_caches(l) ==
    /\ Doing("flush", l)
    /\ flushed' = flushed \cup {l}
    /\ UNCHANGED <<image, zone, so_list, got, rebased, code, locked, temp, ran, faults>>

\* Runs the constructors, found through the file image.
so_execute_init_array(l) ==
    /\ Doing("init", l)
    /\ ran' = Append(ran, l)
    /\ faults' = faults \cup Temps({l})
    /\ UNCHANGED <<image, zone, so_list, got, rebased, code, locked, flushed, temp>>

so_free_temp(l) ==
    /\ Doing("free", l)
    /\ temp' = temp \ {l}
    /\ UNCHANGED <<image, zone, so_list, got, rebased, code, locked, flushed, ran, faults>>

LoaderNext ==
    \/ \E l \in Lib :
          \/ so_load(l) \/ so_relocate(l) \/ so_resolve(l) \/ so_finalize(l)
          \/ so_flush_caches(l) \/ so_execute_init_array(l) \/ so_free_temp(l)
    \/ fatal_error \/ resolve_entry_points

LoaderSpec == LoaderInit /\ [][LoaderNext]_lvars

-------------------------------------------------------------------------------
(* Properties. *)

Extent(l) == zone[l].from..(zone[l].to - 1)

LoaderTypeOK ==
    /\ Len(todo) <= Len(load_two_modules)
    /\ \A l \in Lib :
         /\ image[l] \in Images[l]
         /\ rebased[l] \in [Word -> Nat]
         /\ DOMAIN got[l] \subseteq Slots(l) /\ DOMAIN code[l] \subseteq Pages(l)
    /\ locked \subseteq Lib /\ flushed \subseteq Lib /\ temp \subseteq Lib
    /\ \A i, j \in DOMAIN so_list : so_list[i] = so_list[j] => i = j

\* The two libraries share the part of the heap set aside for them and nothing
\* else: neither runs over the other or over its end.
ZonesApart ==
    /\ \A l \in Lib : Extent(l) \subseteq 0..(ZoneSize - 1)
    /\ Extent("bass") \cap Extent("game") = {}

\* Before any constructor runs every pointer is bound: one to an own symbol to
\* it, an import to the native function if there is one, else to the library
\* that defines it; only a name nobody defines is tainted.
BoundBeforeRun ==
    ran # <<>> =>
      \A l \in Lib : \A s \in Slots(l) :
         LET n == s[2]
             definers == {m \in Lib : n \in image[m].defined}
         IN  got[l][s] = IF l \in definers THEN At(l, n)
                         ELSE IF n \in ImportTable THEN Native(n)
                         ELSE IF definers # {} THEN At(CHOOSE m \in definers : TRUE, n)
                         ELSE Tainted

\* Before any constructor runs the words that the linker listed, in whatever
\* stretches of addresses and bitmaps, are moved to where the library runs: each
\* once, and no other word.
RelativesOnce ==
    ran # <<>> =>
      \A l \in Lib, w \in Word :
         rebased[l][w] = IF w \in image[l].relative THEN 1 ELSE 0

\* When code runs, every unit of an executable segment lies in an executable page
\* and every unit of another one in a writable page.
PagesFitSegments ==
    ran # <<>> =>
      \A l \in Lib : \A s \in image[l].segs : \A u \in s.from..(s.to - 1) :
         code[l][u \div Page] = IF s.x THEN "rx" ELSE "rw"

\* The layout in memory: zones, and pages in them.
LayoutFits == ZonesApart /\ PagesFitSegments

\* The order of load_two_modules: it never reads a library's load_base once it
\* is mapped as code, nor its file image after it is freed.
NoFault == faults = {}
================================================================================
