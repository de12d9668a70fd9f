------------------------------ MODULE FileProofs ------------------------------
(***************************************************************************)
(* Proofs about what is done with files: Persistence, PointerSettings and  *)
(* FileMaps.                                                               *)
(*                                                                         *)
(* The language, for every set of codes and every two periods: what is     *)
(* still to be saved (Pending) is what the state lacks.  While a look at   *)
(* the language, or a write of the registry, lies ahead, nothing is asked  *)
(* of it; once it is done, it holds until the next frame.                  *)
(*                                                                         *)
(* The sensitivities, for every set of devices, all limits, every grain    *)
(* and every delay of the timer: a frame begins with the flag clear, a     *)
(* file that gives the sensitivities back, or a known reason for neither.  *)
(*                                                                         *)
(* Mappings, for any threads and blocks: a block is owned by one thread    *)
(* from posix_memalign until maps_forget (OwnInv), which makes the window  *)
(* it was filled with stay (ReadInv); and in the lock the table lists the  *)
(* owned blocks that are past maps_remember (TableInv).                    *)
(***************************************************************************)
EXTENDS Persistence, PointerSettings, FileMaps,
        FiniteSetTheorems, FunctionTheorems, SequenceTheorems, TLAPS

\* The saves main may be on its way through.
Pending ==
    {<<>>, <<"language">>, <<"text">>, <<"registry">>,
     <<"language", "registry">>, <<"text", "registry">>}

\* Where the loop has looked at the language, or will before it goes on.
LooksAt  == pc = "exit" \/ (pc = "head" /\ frame % LangEvery = 0)
WritesAt == pc = "exit" \/ (pc = "head" /\ frame = 0)

FileInv == pc # "off" /\ todo \notin {<<"text">>, <<"text", "registry">>} /\ ~failed
             => Kept(file) = g_lang

LookInv == LooksAt /\ todo \notin {<<"language">>, <<"language", "registry">>}
             => language \in {g_lang, OtherForm}

WriteInv == WritesAt /\ todo \in {<<>>, <<"language">>, <<"text">>} => written

SaveTypes ==
    /\ todo \in Pending /\ language \in Code \cup {OtherForm} /\ g_lang \in Code
    /\ frame \in 0..(RegistryEvery - 1)
    /\ pc \in {"off", "head", "render", "leave", "exit"}

SaveInv == SaveTypes /\ FileInv /\ LookInv /\ WriteInv

-------------------------------------------------------------------------------
(* The lists of saves. *)

\* Two lists of one save make one of two.
LEMMA Joined == ASSUME NEW s, NEW t PROVE <<s>> \o <<t>> = <<s, t>>
<1> DEFINE S == {s, t}
<1>1. <<s>> \in Seq(S) /\ <<t>> \in Seq(S) /\ <<s, t>> \in Seq(S)
  OBVIOUS
<1>2. <<s>> \o <<t>> \in Seq(S) /\ Len(<<s>> \o <<t>>) = 2
  BY <1>1
<1>3. (<<s>> \o <<t>>)[1] = s /\ (<<s>> \o <<t>>)[2] = t
  BY <1>1
<1>4. \A i \in 1..2 : (<<s>> \o <<t>>)[i] = <<s, t>>[i]
  BY <1>3
<1> HIDE DEF S
<1> QED BY <1>1, <1>2, <1>4, SeqEqual

\* What the first save of a list is, and what is left behind it.
LEMMA Lists ==
  /\ Head(<<"language">>) = "language" /\ Tail(<<"language">>) = <<>>
  /\ Head(<<"text">>) = "text" /\ Tail(<<"text">>) = <<>>
  /\ Head(<<"registry">>) = "registry" /\ Tail(<<"registry">>) = <<>>
  /\ Head(<<"language", "registry">>) = "language"
  /\ Tail(<<"language", "registry">>) = <<"registry">>
  /\ Head(<<"text", "registry">>) = "text" /\ Tail(<<"text", "registry">>) = <<"registry">>
  /\ <<"text">> \o <<>> = <<"text">> /\ <<"text">> \o <<"registry">> = <<"text", "registry">>
<1>1. <<"text">> \o <<"registry">> = <<"text", "registry">>
  BY Joined
<1>2. <<"text">> \o <<>> = <<"text">>
  OBVIOUS
<1> QED BY <1>1, <1>2

LEMMA ListsDiffer ==
  /\ <<"language">> # <<>> /\ <<"text">> # <<>> /\ <<"registry">> # <<>>
  /\ <<"language", "registry">> # <<>> /\ <<"text", "registry">> # <<>>
  /\ <<"language">> # <<"text">> /\ <<"language">> # <<"registry">> /\ <<"text">> # <<"registry">>
  /\ <<"language", "registry">> # <<"text", "registry">>
  /\ \A s, t, u \in {"language", "text", "registry"} : <<s>> # <<t, u>>
  OBVIOUS

\* The saves that the frame count asks for.
LEMMA DueLists ==
  ASSUME NEW f \in 0..(RegistryEvery - 1)
  PROVE  /\ Due(f) \in {<<>>, <<"language">>, <<"registry">>, <<"language", "registry">>}
         /\ f % LangEvery = 0 => Due(f) \in {<<"language">>, <<"language", "registry">>}
         /\ f = 0 => Due(f) \in {<<"registry">>, <<"language", "registry">>}
<1>1. f % RegistryEvery = f
  BY PeriodAssumption
<1>2. Due(f) = (IF f % LangEvery = 0 THEN <<"language">> ELSE <<>>)
               \o (IF f = 0 THEN <<"registry">> ELSE <<>>)
  BY <1>1 DEF Due
<1>3. /\ <<>> \o <<>> = <<>> /\ <<"language">> \o <<>> = <<"language">>
      /\ <<>> \o <<"registry">> = <<"registry">>
      /\ <<"language">> \o <<"registry">> = <<"language", "registry">>
  <2>1. <<"language">> \o <<"registry">> = <<"language", "registry">>
    BY Joined
  <2> QED BY <2>1
<1> QED BY <1>2, <1>3
\* What is left of a list, by the save it begins with.
LEMMA FirstSave ==
  ASSUME NEW l \in Pending, l # <<>>
  PROVE  /\ Head(l) = "language" =>
              /\ l \in {<<"language">>, <<"language", "registry">>}
              /\ Tail(l) \in {<<>>, <<"registry">>}
              /\ Tail(l) = <<>> <=> l = <<"language">>
         /\ Head(l) = "text" =>
              /\ l \in {<<"text">>, <<"text", "registry">>}
              /\ Tail(l) \in {<<>>, <<"registry">>}
              /\ Tail(l) = <<>> <=> l = <<"text">>
         /\ Head(l) = "registry" => l = <<"registry">> /\ Tail(l) = <<>>
  BY Lists, ListsDiffer DEF Pending

\* In front of the text, the list is as it is behind the look.
LEMMA TextFirst ==
  ASSUME NEW l \in {<<>>, <<"registry">>}
  PROVE  /\ <<"text">> \o l \in {<<"text">>, <<"text", "registry">>}
         /\ <<"text">> \o l = <<"text">> <=> l = <<>>
  BY Lists, ListsDiffer

-------------------------------------------------------------------------------
(* The steps. *)

\* A process starts with what it finds.
LEMMA LoadKept == SaveInv /\ load_saved_language => SaveInv'
<1> SUFFICES ASSUME SaveInv, load_saved_language PROVE SaveInv'
  OBVIOUS
<1>1. /\ pc' = "head" /\ frame' = 0 /\ written' = TRUE /\ todo' = todo /\ file' = file
      /\ g_lang' = Kept(file) /\ language' = g_lang'
  BY DEF load_saved_language
<1>2. Kept(file) \in Code /\ Kept(file)' = Kept(file)
  BY <1>1, CodeAssumption DEF Kept
<1>3. 0 \in 0..(RegistryEvery - 1)
  BY PeriodAssumption
<1> QED BY <1>1, <1>2, <1>3 DEF SaveInv, SaveTypes, FileInv, LookInv, WriteInv, LooksAt, WritesAt

\* The loop: the hook, a frame, the way out, and the end of the process.
LEMMA LoopKept ==
  ASSUME SaveInv, applet_hook_fn \/ nativeRender \/ Leave \/ Exit \/ Kill
  PROVE  SaveInv'
<1> USE DEF SaveInv, SaveTypes, FileInv, LookInv, WriteInv, LooksAt, WritesAt
<1>1. BothSaves = <<"language", "registry">> /\ BothSaves \in Pending
  BY DEF BothSaves, Pending
<1>2. CASE applet_hook_fn
  <2>1. /\ UNCHANGED <<language, g_lang, file, written, frame, failed>>
        /\ pc = "head" /\ pc' \in {"render", "leave"} /\ todo = <<>>
        /\ todo' \in {<<>>, <<"language", "registry">>} /\ todo' \in Pending
    BY <1>1, <1>2 DEF applet_hook_fn
  <2> QED BY <2>1, ListsDiffer DEF Kept
<1>3. CASE nativeRender
  <2>1. /\ UNCHANGED <<g_lang, file, failed>> /\ pc = "render" /\ pc' = "head" /\ todo = <<>>
        /\ language' \in Code \cup {OtherForm}
        /\ frame' = (frame + 1) % RegistryEvery /\ todo' = Due(frame')
    BY <1>3 DEF nativeRender
  <2>2. frame' \in 0..(RegistryEvery - 1)
    BY <2>1, PeriodAssumption
  <2>3. /\ todo' \in Pending
        /\ todo' \in {<<>>, <<"language">>, <<"registry">>, <<"language", "registry">>}
        /\ frame' % LangEvery = 0 => todo' \in {<<"language">>, <<"language", "registry">>}
        /\ frame' = 0 => todo' \in {<<"registry">>, <<"language", "registry">>}
    BY <2>1, <2>2, DueLists DEF Pending
  <2>4. FileInv'
    BY <2>1, ListsDiffer DEF Kept
  <2>5. LookInv' /\ WriteInv'
    BY <2>1, <2>3, ListsDiffer
  <2> QED BY <2>1, <2>2, <2>3, <2>4, <2>5
<1>4. CASE Leave
  <2>1. /\ UNCHANGED <<language, g_lang, file, written, frame, failed>>
        /\ pc = "leave" /\ pc' = "exit" /\ todo = <<>>
        /\ todo' = <<"language", "registry">> /\ todo' \in Pending
    BY <1>1, <1>4 DEF Leave
  <2> QED BY <2>1, ListsDiffer DEF Kept
<1>5. CASE Exit \/ Kill
  <2>1. /\ UNCHANGED <<language, g_lang, frame>> /\ pc' = "off"
        /\ todo' = <<>> /\ todo' \in Pending
    BY <1>5 DEF Exit, Kill, Ended, Pending
  <2> QED BY <2>1
<1> QED BY <1>2, <1>3, <1>4, <1>5

\* The look at the language: what it passes on to the text is g_lang.
LEMMA PersistKept == SaveInv /\ persist_language => SaveInv'
<1> SUFFICES ASSUME SaveInv, persist_language PROVE SaveInv'
  OBVIOUS
<1> USE DEF SaveInv, SaveTypes, FileInv, LookInv, WriteInv, LooksAt, WritesAt
<1>1. /\ todo \in {<<"language">>, <<"language", "registry">>}
      /\ Tail(todo) \in {<<>>, <<"registry">>} /\ (Tail(todo) = <<>> <=> todo = <<"language">>)
      /\ UNCHANGED <<language, written, frame, pc>>
  BY FirstSave DEF persist_language
<1>2. CASE language \in Code \ {g_lang}
  <2>1. g_lang' = language
    BY <1>2 DEF persist_language
  <2>2. CASE todo' = <<"text">> \o Tail(todo)
    <3>1. /\ todo' \in {<<"text">>, <<"text", "registry">>}
          /\ todo' = <<"text">> <=> todo = <<"language">>
      BY <1>1, <2>2, TextFirst
    <3> QED BY <1>1, <1>2, <2>1, <3>1, ListsDiffer DEF Pending
  <2>3. CASE todo' = Tail(todo) /\ failed'
    BY <1>1, <1>2, <2>1, <2>3, ListsDiffer DEF Pending
  <2> QED BY <1>2, <2>2, <2>3 DEF persist_language
<1>3. CASE language \notin Code \ {g_lang}
  <2>1. todo' = Tail(todo) /\ UNCHANGED <<g_lang, file, failed>>
    BY <1>3 DEF persist_language
  <2>2. language \in {g_lang, OtherForm}
    BY <1>3
  <2> QED BY <1>1, <2>1, <2>2, ListsDiffer DEF Pending, Kept
<1> QED BY <1>2, <1>3

LEMMA WriteKept == SaveInv /\ (PutText \/ save_settings) => SaveInv'
<1> SUFFICES ASSUME SaveInv, PutText \/ save_settings PROVE SaveInv'
  OBVIOUS
<1> USE DEF SaveInv, SaveTypes, FileInv, LookInv, WriteInv, LooksAt, WritesAt
<1>1. CASE PutText
  <2>1. /\ todo \in {<<"text">>, <<"text", "registry">>}
        /\ Tail(todo) \in {<<>>, <<"registry">>} /\ (Tail(todo) = <<>> <=> todo = <<"text">>)
        /\ todo' = Tail(todo) /\ UNCHANGED <<language, g_lang, written, frame, pc>>
    BY <1>1, FirstSave DEF PutText
  <2>2. failed' \/ file' = g_lang
    BY <1>1 DEF PutText
  <2>3. FileInv'
    BY <2>1, <2>2 DEF Kept
  <2> QED BY <2>1, <2>3, ListsDiffer DEF Pending
<1>2. CASE save_settings
  <2>1. /\ todo = <<"registry">> /\ todo' = <<>> /\ written' = TRUE
        /\ UNCHANGED <<language, g_lang, file, frame, pc, failed>>
    BY <1>2, FirstSave DEF save_settings
  <2> QED BY <2>1, ListsDiffer DEF Pending, Kept
<1> QED BY <1>1, <1>2

-------------------------------------------------------------------------------
(* The theorems. *)

\* What is still to be saved is what the state lacks, in every reachable state.
THEOREM SaveInvariant == Spec => []SaveInv
<1>1. Init => SaveInv
  BY CodeAssumption, PeriodAssumption
     DEF Init, SaveInv, SaveTypes, Pending, FileInv, LookInv, WriteInv, LooksAt, WritesAt
<1>2. SaveInv /\ [Next]_pvars => SaveInv'
  <2>1. SaveInv /\ UNCHANGED pvars => SaveInv'
    BY DEF pvars, SaveInv, SaveTypes, FileInv, LookInv, WriteInv, LooksAt, WritesAt, Kept
  <2> QED BY <2>1, LoadKept, LoopKept, PersistKept, WriteKept DEF Next
<1> QED BY <1>1, <1>2, PTL DEF Spec

\* Between two saves the file has what the port believes it has, unless a write
\* of this process failed.
THEOREM FileIsRight == Spec => []FileMatches
<1>1. SaveInv => FileMatches
  <2> SUFFICES ASSUME SaveInv, pc # "off", todo = <<>> \/ Head(todo) # "text", ~failed
               PROVE  Kept(file) = g_lang
    BY DEF FileMatches
  <2>1. todo \notin {<<"text">>, <<"text", "registry">>}
    BY Lists, ListsDiffer
  <2> QED BY <2>1 DEF SaveInv, FileInv
<1> QED BY SaveInvariant, <1>1, PTL

\* No change waits longer than the two periods, and none is left by a clean exit.
THEOREM NothingIsLeftBehind == Spec => []CheckpointSaves
<1>1. SaveInv => CheckpointSaves
  <2> SUFFICES ASSUME SaveInv, todo = <<>> PROVE CheckpointSaves
    BY DEF CheckpointSaves
  <2>1. LooksAt => language \in {g_lang, OtherForm}
    BY ListsDiffer DEF SaveInv, LookInv
  <2>2. pc # "off" /\ ~failed => Kept(file) = g_lang
    BY ListsDiffer DEF SaveInv, FileInv
  <2>3. WritesAt => written
    BY DEF SaveInv, WriteInv
  <2> QED BY <2>1, <2>2, <2>3 DEF CheckpointSaves, LooksAt, WritesAt
<1> QED BY SaveInvariant, <1>1, PTL

-------------------------------------------------------------------------------
(* The sensitivities. *)

SettingsTypes ==
    /\ stage \in {"off", "frame", "open", "write"} /\ then \in {"frame", "off"}
    /\ sens \in [Device -> Level]
    /\ \A d \in DOMAIN cfg_file : cfg_file[d] \in Int
    /\ {dirty, wheeled, cfg_failed} \subseteq BOOLEAN /\ age \in 0..Debounce

\* The timer counts from the last press: it fires when the burst is over, and then
\* the flag is only set until the save is through.
FiredOnce ==
    /\ timed \in {0, 1} /\ idle = age
    /\ timed = 1 => age >= Debounce /\ (stage \in {"off", "frame"} => ~dirty)

SettingsInv == SettingsTypes /\ FiredOnce /\ TuningQueued

LEMMA ClampedInside == ASSUME NEW v \in Int PROVE Clamped(v) \in Level
  BY LevelAssumption DEF Clamped, Level

\* What is read back differs from what was written by no more than half a grain.
LEMMA Rounding ==
  ASSUME NEW n \in Level
  PROVE  Rounded(n) \in Int /\ 2 * (Clamped(Rounded(n)) - n) \in -Grain..Grain
<1> DEFINE h == Grain \div 2
           q == (n + h) \div Grain
<1>1. n \in Nat /\ Grain \in Nat \ {0}
  BY LevelAssumption DEF Level
<1>2. h \in Nat /\ 2 * h <= Grain /\ Grain <= 2 * h + 1
  BY <1>1
<1> HIDE DEF h
<1>3. q \in Nat /\ q * Grain \in Nat /\ q * Grain <= n + h /\ n + h < q * Grain + Grain
  BY <1>1, <1>2
<1>4. Rounded(n) = q * Grain
  BY DEF Rounded, h
<1> HIDE DEF q
<1> DEFINE r == q * Grain
<1>5. r \in Nat /\ r <= n + h /\ n + h < r + Grain
  BY <1>3
<1> HIDE DEF r
<1>6. 2 * (Clamped(r) - n) \in -Grain..Grain
  BY <1>1, <1>2, <1>5, LevelAssumption DEF Clamped, Level
<1> QED BY <1>4, <1>5, <1>6 DEF r

\* The end of a frame: time passes, and at most one save is made by it.
LEMMA TickKept ==
  ASSUME SettingsTypes, FiredOnce, stage = "frame", settings_tick, dirty' = dirty
  PROVE  FiredOnce' /\ stage' \in {"frame", "open"} /\ age' \in 0..Debounce
<1>1. age' \in 0..Debounce /\ idle' = age' /\ (age >= Debounce => age' >= Debounce)
  BY DebounceAssumption DEF settings_tick, SettingsTypes, UpTo, FiredOnce
<1>2. CASE dirty /\ age' >= Debounce
  <2>1. timed = 0 /\ stage' = "open" /\ timed' = 1
    BY <1>2 DEF settings_tick, FiredOnce
  <2> QED BY <1>1, <1>2, <2>1 DEF FiredOnce
<1>3. CASE ~(dirty /\ age' >= Debounce)
  BY <1>1, <1>3 DEF settings_tick, FiredOnce
<1> QED BY <1>2, <1>3

\* A frame.
LEMMA FrameKept == SettingsInv /\ nxp_update => SettingsInv'
<1> SUFFICES ASSUME SettingsInv, nxp_update PROVE SettingsInv'
  OBVIOUS
<1> USE DEF SettingsInv
<1>1. CASE DpadFrame
  <2>1. /\ stage = "frame" /\ UNCHANGED <<stage, then, cfg_file>>
        /\ dirty' = TRUE /\ age' = 0 /\ idle' = 0 /\ timed' = 0 /\ cfg_failed' = FALSE
    BY <1>1, DebounceAssumption DEF DpadFrame, Burst, FiredOnce, SettingsTypes
  <2>2. PICK d \in Device, step \in {-1, 1}, v \in Level, turned \in BOOLEAN :
          /\ sens' = IF turned THEN Wheel(do_dpad(sens, d, step), v) ELSE do_dpad(sens, d, step)
          /\ wheeled' = (wheeled \/ turned)
    BY <1>1 DEF DpadFrame
  <2>3. Clamped(sens[d] + step) \in Level
    BY ClampedInside, LevelAssumption DEF SettingsTypes, Level
  <2>4. do_dpad(sens, d, step) \in [Device -> Level]
    BY <2>3 DEF do_dpad, SettingsTypes
  <2>5. Wheel(do_dpad(sens, d, step), v) \in [Device -> Level]
    BY <2>4 DEF Wheel
  <2>6. sens' \in [Device -> Level] /\ wheeled' \in BOOLEAN
    BY <2>2, <2>4, <2>5 DEF SettingsTypes
  <2>7. SettingsTypes'
    <3>1. 0 \in 0..Debounce
      BY DebounceAssumption
    <3>2. {dirty', wheeled', cfg_failed'} \subseteq BOOLEAN
      BY <2>1, <2>6
    <3> QED BY <2>1, <2>6, <3>1, <3>2 DEF SettingsTypes
  <2> QED BY <2>1, <2>7 DEF FiredOnce, TuningQueued
<1>2. CASE WheelFrame
  <2>1. PICK v \in Level : sens' = Wheel(sens, v)
    BY <1>2 DEF WheelFrame
  <2>2. /\ stage = "frame" /\ wheeled' = TRUE /\ settings_tick
        /\ UNCHANGED <<then, cfg_file, dirty, cfg_failed>>
    BY <1>2 DEF WheelFrame
  <2>3. FiredOnce' /\ stage' \in {"frame", "open"} /\ age' \in 0..Debounce
    BY <2>2, TickKept
  <2>4. sens' \in [Device -> Level]
    BY <2>1 DEF Wheel, SettingsTypes
  <2>5. SettingsTypes'
    BY <2>2, <2>3, <2>4 DEF SettingsTypes
  <2>6. \A d \in Device : d # Mouse => (Remembered(d) <=> Remembered(d)')
    BY <2>1, <2>2 DEF Remembered, Wheel, SettingsTypes
  <2>7. TuningQueued'
    BY <2>2, <2>6 DEF TuningQueued
  <2> QED BY <2>3, <2>5, <2>7
<1>3. CASE QuietFrame
  <2>1. /\ stage = "frame" /\ settings_tick
        /\ UNCHANGED <<then, sens, cfg_file, dirty, wheeled, cfg_failed>>
    BY <1>3 DEF QuietFrame
  <2>2. FiredOnce' /\ stage' \in {"frame", "open"} /\ age' \in 0..Debounce
    BY <2>1, TickKept
  <2>3. SettingsTypes'
    BY <2>1, <2>2 DEF SettingsTypes
  <2>4. \A d \in Device : Remembered(d) <=> Remembered(d)'
    BY <2>1 DEF Remembered, settings_load
  <2>5. TuningQueued'
    BY <2>1, <2>4 DEF TuningQueued
  <2> QED BY <2>2, <2>3, <2>5
<1> QED BY <1>1, <1>2, <1>3 DEF nxp_update

\* The process starts and stops, and asks for a save.
LEMMA ProcessKept ==
  SettingsInv /\ (HandEdit \/ nxp_init \/ Killed \/ AppletSave \/ Quit) => SettingsInv'
<1> SUFFICES ASSUME SettingsInv, HandEdit \/ nxp_init \/ Killed \/ AppletSave \/ Quit
             PROVE  SettingsInv'
  OBVIOUS
<1> USE DEF SettingsInv
<1>1. CASE HandEdit
  <2>1. /\ stage = "off"
        /\ UNCHANGED <<stage, then, sens, dirty, age, idle, timed, wheeled, cfg_failed>>
    BY <1>1 DEF HandEdit
  <2>2. \A d \in DOMAIN cfg_file' : cfg_file'[d] \in Int
    BY <1>1, LevelAssumption DEF HandEdit, SettingsTypes
  <2> QED BY <2>1, <2>2 DEF SettingsTypes, FiredOnce, TuningQueued
<1>2. CASE nxp_init
  <2>1. /\ sens' = settings_load(cfg_file) /\ stage' = "frame" /\ dirty' = FALSE
        /\ age' = Debounce /\ idle' = Debounce /\ timed' = 0 /\ wheeled' = FALSE /\ cfg_failed' = FALSE
        /\ UNCHANGED <<then, cfg_file>>
    BY <1>2 DEF nxp_init
  <2>2. sens' \in [Device -> Level]
    <3>1. \A d \in DOMAIN cfg_file : Clamped(cfg_file[d]) \in Level
      BY ClampedInside DEF SettingsTypes
    <3>2. Default \in Level
      BY LevelAssumption DEF Level
    <3> QED BY <2>1, <3>1, <3>2 DEF settings_load
  <2>3. SettingsTypes'
    <3>1. Debounce \in 0..Debounce
      BY DebounceAssumption
    <3>2. {dirty', wheeled', cfg_failed'} \subseteq BOOLEAN
      BY <2>1
    <3> QED BY <2>1, <2>2, <3>1, <3>2 DEF SettingsTypes
  <2>4. ASSUME NEW d \in Device PROVE Remembered(d)'
    <3>1. settings_load(cfg_file)' = sens' /\ sens'[d] \in Int
      BY <2>1, <2>2, LevelAssumption DEF settings_load, Level, Clamped
    <3> QED BY <3>1, LevelAssumption DEF Remembered
  <2> QED BY <2>1, <2>3, <2>4 DEF FiredOnce, TuningQueued
<1>3. CASE Killed
  <2>1. /\ stage' = "off" /\ then' = "frame" /\ dirty' = FALSE
        /\ UNCHANGED <<sens, age, idle, timed, wheeled, cfg_failed>>
    BY <1>3 DEF Killed
  <2>2. \A d \in DOMAIN cfg_file' : cfg_file'[d] \in Int
    BY <1>3, Rounding DEF Killed, SettingsTypes
  <2> QED BY <2>1, <2>2 DEF SettingsTypes, FiredOnce, TuningQueued
<1>4. CASE AppletSave \/ Quit
  BY <1>4 DEF AppletSave, Quit, SettingsTypes, FiredOnce, TuningQueued
<1> QED BY <1>1, <1>2, <1>3, <1>4

\* The save: what comes back from it is either in the file or known to be missing.
LEMMA SettingsSaveKept == SettingsInv /\ nxp_save_settings => SettingsInv'
<1> SUFFICES ASSUME SettingsInv, nxp_save_settings PROVE SettingsInv'
  OBVIOUS
<1> USE DEF SettingsInv
<1>1. CASE SaveOpen
  <2>1. UNCHANGED <<sens, age, idle, timed, wheeled>>
    BY <1>1 DEF SaveOpen
  <2>2. CASE /\ stage' = "write" /\ then' = then /\ cfg_file' = NoLines
             /\ UNCHANGED <<dirty, cfg_failed>>
    <3>1. DOMAIN cfg_file' = {}
      BY <2>2 DEF NoLines
    <3>2. SettingsTypes'
      BY <2>1, <2>2, <3>1 DEF SettingsTypes
    <3> QED BY <2>1, <2>2, <3>2 DEF FiredOnce, TuningQueued
  <2>3. CASE Returned /\ dirty' = FALSE /\ cfg_failed' = TRUE /\ cfg_file' = cfg_file
    <3>1. stage' \in {"frame", "off"} /\ then' = "frame"
      BY <2>3 DEF Returned, SettingsTypes
    <3>2. SettingsTypes'
      BY <2>1, <2>3, <3>1 DEF SettingsTypes
    <3>3. FiredOnce'
      BY <2>1, <2>3 DEF FiredOnce
    <3>4. TuningQueued'
      BY <2>3, Zenon DEF TuningQueued
    <3> QED BY <3>2, <3>3, <3>4
  <2> QED BY <1>1, <2>2, <2>3, Zenon DEF SaveOpen
<1>2. CASE SaveWrite
  <2>1. PICK lines \in SUBSET Device :
          /\ cfg_file' = [d \in lines |-> Rounded(sens[d])]
          /\ cfg_failed' = (lines # Device)
          /\ wheeled' = (wheeled /\ lines # Device)
    BY <1>2 DEF SaveWrite, SaveLines
  <2>2. dirty' = FALSE /\ Returned /\ UNCHANGED <<sens, age, idle, timed>>
    BY <1>2 DEF SaveWrite
  <2>3. \A d \in Device : Rounded(sens[d]) \in Int
    BY Rounding DEF SettingsTypes
  <2>4. SettingsTypes'
    BY <2>1, <2>2, <2>3 DEF SettingsTypes, Returned
  <2>5. FiredOnce'
    BY <2>2 DEF FiredOnce
  <2>6. ASSUME lines = Device PROVE TuningQueued'
    <3>1. ASSUME NEW d \in Device PROVE Remembered(d)'
      <4>1. settings_load(cfg_file)'[d] = Clamped(Rounded(sens[d]))
        BY <2>1, <2>6 DEF settings_load, Clamped
      <4>2. 2 * (Clamped(Rounded(sens[d])) - sens[d]) \in -Grain..Grain
        BY Rounding DEF SettingsTypes
      <4> QED BY <2>2, <4>1, <4>2 DEF Remembered
    <3> QED BY <3>1, Zenon DEF TuningQueued
  <2>7. ASSUME lines # Device PROVE TuningQueued'
    <3>1. cfg_failed'
      BY <2>1, <2>7
    <3> QED BY <3>1, Zenon DEF TuningQueued
  <2> QED BY <2>4, <2>5, <2>6, <2>7
<1> QED BY <1>1, <1>2 DEF nxp_save_settings

\* In every reachable state the flag, the timer and the file agree.
THEOREM SettingsInvariant == SettingsSpec => []SettingsInv
<1>1. SettingsInit => SettingsInv
  <2> SUFFICES ASSUME SettingsInit PROVE SettingsInv
    OBVIOUS
  <2>1. sens \in [Device -> Level] /\ DOMAIN cfg_file = {}
    BY LevelAssumption DEF SettingsInit, NoLines, Level
  <2>2. age \in 0..Debounce
    BY DebounceAssumption DEF SettingsInit
  <2>3. {dirty, wheeled, cfg_failed} \subseteq BOOLEAN
    BY DEF SettingsInit
  <2> QED BY <2>1, <2>2, <2>3 DEF SettingsInit, SettingsInv, SettingsTypes, FiredOnce, TuningQueued
<1>2. SettingsInv /\ [SettingsNext]_svars => SettingsInv'
  <2>1. SettingsInv /\ UNCHANGED svars => SettingsInv'
    BY DEF svars, SettingsInv, SettingsTypes, FiredOnce, TuningQueued, Remembered, settings_load
  <2> QED BY <2>1, FrameKept, ProcessKept, SettingsSaveKept DEF SettingsNext
<1> QED BY <1>1, <1>2, PTL DEF SettingsSpec

\* A sensitivity that the file does not hold is queued for saving, unless a save
\* failed or the wheel set it.
THEOREM TuningIsQueued == SettingsSpec => []TuningQueued
<1>1. SettingsInv => TuningQueued
  BY DEF SettingsInv
<1> QED BY SettingsInvariant, <1>1, PTL

\* Presses that follow one another faster than the timer, and the rest after the
\* last of them, make the timer save at most once.
THEOREM BurstCostsOneWrite == SettingsSpec => []OneWritePerBurst
<1>1. SettingsInv => OneWritePerBurst
  BY DEF SettingsInv, FiredOnce, OneWritePerBurst
<1> QED BY SettingsInvariant, <1>1, PTL

-------------------------------------------------------------------------------
(* Mappings: blocks and descriptors. *)

\* A thread has a block from posix_memalign until maps_forget frees or leaves it.
OwnsBlock(t) == phase[t] # "out" /\ ~(phase[t] = "unlock" /\ job[t] = "unmap")

MapTypes ==
    /\ phase \in [Thread -> Phases] /\ job \in [Thread -> {Null, "map", "unmap"}]
    /\ base \in [Thread -> Block \cup {Null}] /\ at \in [Thread -> Nat]
    /\ fd \in [Thread -> Fd \cup {Null}] /\ before \in [Thread -> Position \cup {Unknown}]
    /\ pos \in [Fd -> Position] /\ view \in [Thread -> Position \cup {Zeroes}]
    /\ crossed \subseteq Thread /\ lost \subseteq Thread
    /\ live \subseteq Block /\ refused \subseteq Block
    /\ len \in Nat /\ cap \in Nat

\* What a thread does fits the call it is in.
JobFits == \A t \in Thread :
    /\ phase[t] \in {"seek", "read", "restore", "mapped", "map", "store"} => job[t] = "map"
    /\ phase[t] = "unmap" => job[t] = "unmap"
    /\ phase[t] \in {"seek", "read", "restore"} => fd[t] \in Fd
    /\ phase[t] # "out" => job[t] \in {"map", "unmap"}

\* A block that a thread has is allocated, and no other thread has it.
OwnBlocks ==
    /\ \A t \in Thread : OwnsBlock(t) => base[t] \in live
    /\ \A t, u \in Thread : OwnsBlock(t) /\ OwnsBlock(u) /\ base[t] = base[u] => t = u

\* What a mapping is to hold, once it was read.
Holds(t) ==
    IF fd[t] = Null \/ t \in lost THEN view[t] = Zeroes ELSE t \in crossed \/ view[t] = Window(t)

\* A call knows where it found its descriptor, and finds it at the window when it
\* reads, unless another moved it.
Reading(t) ==
    /\ phase[t] \in {"out", "seek", "read"} \/ job[t] = "unmap" => view[t] = Zeroes /\ t \notin lost
    /\ phase[t] \in {"out", "seek"} \/ job[t] = "unmap" => t \notin crossed
    /\ phase[t] = "read" => t \in crossed \/ pos[fd[t]] = Window(t)
    /\ phase[t] \notin {"out", "seek", "read"} /\ job[t] = "map" => Holds(t)
    /\ phase[t] \in {"seek", "read", "restore"} => fd[t] \in astray \/ before[t] \in {Start, Unknown}

OwnInv == MapTypes /\ JobFits /\ OwnBlocks

ReadInv == FdRestored /\ \A t \in Thread : Reading(t)

-------------------------------------------------------------------------------

\* What Go says of a thread and of the others.
LEMMA Went ==
  ASSUME NEW t \in Thread, NEW from, NEW to \in Phases, Go(t, from, to), phase \in [Thread -> Phases]
  PROVE  /\ phase[t] = from /\ phase'[t] = to
         /\ \A u \in Thread \ {t} : phase'[u] = phase[u]
         /\ phase' \in [Thread -> Phases]
  BY DEF Go

LEMMA NullApart == Null \notin Thread /\ Null \notin Block
  BY NullAssumption

\* The places a descriptor can be at.
LEMMA PositionsAre ==
  /\ Start \in Position /\ Behind \in Position /\ Unknown \notin Position
  /\ \A t \in Thread : Window(t) \in Position
  BY DEF Start, Behind, Unknown, Window, Position

\* mmap_fake takes a block nobody has.
LEMMA MmapOwn == ASSUME OwnInv, NEW t \in Thread, mmap_fake(t) PROVE OwnInv'
<1>1. CASE UNCHANGED fmvars
  BY <1>1 DEF OwnInv, MapTypes, JobFits, OwnBlocks, OwnsBlock, fmvars
<1>2. CASE ~UNCHANGED fmvars
  <2>1. PICK b \in Block \ live, f \in Fd \cup {Null}, p \in Position \cup {Unknown} :
          /\ Go(t, "out", IF f = Null THEN "lock" ELSE "seek")
          /\ base' = [base EXCEPT ![t] = b] /\ live' = live \cup {b}
          /\ job' = [job EXCEPT ![t] = "map"]
          /\ fd' = [fd EXCEPT ![t] = f] /\ before' = [before EXCEPT ![t] = p]
          /\ UNCHANGED <<view, pos, crossed, lost, at, maps, len, cap, refused>>
    BY <1>2 DEF mmap_fake, tableVars, OwnInv, MapTypes
  <2>2. /\ phase[t] = "out" /\ phase'[t] = (IF f = Null THEN "lock" ELSE "seek")
        /\ \A u \in Thread \ {t} : phase'[u] = phase[u]
        /\ phase' \in [Thread -> Phases]
    BY <2>1, Went DEF OwnInv, MapTypes, Phases
  <2>3. MapTypes'
    BY <2>1, <2>2 DEF OwnInv, MapTypes
  <2>4. JobFits'
    BY <2>1, <2>2 DEF OwnInv, MapTypes, JobFits
  <2>5. OwnBlocks'
    BY <2>1, <2>2 DEF OwnInv, MapTypes, OwnBlocks, OwnsBlock
  <2> QED BY <2>3, <2>4, <2>5 DEF OwnInv
<1> QED BY <1>1, <1>2

\* The steps that leave blocks to their owners.
LEMMA StepOwn ==
  ASSUME OwnInv, NEW t \in Thread,
         \/ Seek(t) \/ Read(t) \/ Restore(t) \/ munmap_fake(t)
         \/ LockCheck(t) \/ LockInit(t) \/ LockTake(t) \/ maps_remember(t) \/ Store(t)
  PROVE  OwnInv'
<1>1. PICK from \in Phases, to \in Phases :
        /\ Go(t, from, to) /\ from \notin {"out", "unlock"} /\ to # "out"
        /\ UNCHANGED <<base, live>>
        /\ \/ from # "mapped" /\ UNCHANGED <<job, fd>>
           \/ /\ from = "mapped" /\ to = "lock" /\ job' = [job EXCEPT ![t] = "unmap"]
              /\ fd' = [fd EXCEPT ![t] = Null]
        /\ to \in {"seek", "read", "restore"} => from \in {"seek", "read", "restore"}
        /\ to \in {"seek", "read", "restore", "mapped", "map", "store"} => job[t] = "map"
        /\ to = "unmap" => job[t] = "unmap"
        /\ from = "unmap" => FALSE
  <2>1. phase[t] # "out" => job[t] \in {"map", "unmap"}
    BY DEF OwnInv, JobFits
  <2>2. CASE LockTake(t)
    BY <2>1, <2>2 DEF LockTake, Go, Phases, fileVars
  <2>3. CASE Seek(t) \/ Read(t) \/ Restore(t) \/ munmap_fake(t) \/ LockCheck(t) \/ LockInit(t)
    BY <2>1, <2>3 DEF Seek, Read, Restore, munmap_fake, LockCheck, LockInit, Go, Phases,
                      fileVars, OwnInv, JobFits
  <2>4. CASE maps_remember(t) \/ Store(t)
    BY <2>1, <2>4 DEF maps_remember, Store, Go, Phases, fileVars, OwnInv, JobFits
  <2> QED BY <2>2, <2>3, <2>4
<1>2. /\ phase[t] = from /\ phase'[t] = to
      /\ \A u \in Thread \ {t} : phase'[u] = phase[u]
      /\ phase' \in [Thread -> Phases]
  BY <1>1, Went DEF OwnInv, MapTypes
<1>3. JobFits'
  BY <1>1, <1>2 DEF OwnInv, MapTypes, JobFits
<1>4. OwnBlocks'
  BY <1>1, <1>2 DEF OwnInv, MapTypes, OwnBlocks, OwnsBlock, JobFits
<1>5. MapTypes'
  <2>1. job' \in [Thread -> {Null, "map", "unmap"}]
    BY <1>1 DEF OwnInv, MapTypes
  <2>2. at' \in [Thread -> Nat] /\ len' \in Nat /\ cap' \in Nat /\ refused' \subseteq Block
    <3>1. CASE maps_remember(t)
      <4>1. base[t] \in Block
        BY <1>1, <1>2 DEF OwnInv, OwnBlocks, OwnsBlock, MapTypes
      <4> QED BY <3>1, <4>1, CapAssumption DEF maps_remember, OwnInv, MapTypes
    <3>2. CASE Store(t)
      BY <3>2 DEF Store, OwnInv, MapTypes
    <3>3. CASE ~maps_remember(t) /\ ~Store(t)
      BY <3>3 DEF Seek, Read, Restore, munmap_fake, LockCheck, LockInit, LockTake, tableVars,
                  OwnInv, MapTypes
    <3> QED BY <3>1, <3>2, <3>3
  <2>3. /\ fd' \in [Thread -> Fd \cup {Null}] /\ before' \in [Thread -> Position \cup {Unknown}]
        /\ pos' \in [Fd -> Position] /\ view' \in [Thread -> Position \cup {Zeroes}]
        /\ crossed' \subseteq Thread /\ lost' \subseteq Thread
    <3>1. CASE Seek(t)
      BY <3>1, PositionsAre DEF Seek, MoveTo, OwnInv, MapTypes
    <3>2. CASE Read(t)
      <4>1. pos[fd[t]] \in Position
        BY <3>2 DEF Read, Go, OwnInv, MapTypes, JobFits
      <4> QED BY <3>2, <4>1, PositionsAre DEF Read, MoveTo, OwnInv, MapTypes
    <3>3. CASE Restore(t)
      BY <3>3 DEF Restore, MoveTo, OwnInv, MapTypes
    <3>4. CASE munmap_fake(t)
      BY <3>4 DEF munmap_fake, OwnInv, MapTypes
    <3>5. CASE LockCheck(t) \/ LockInit(t) \/ LockTake(t) \/ maps_remember(t) \/ Store(t)
      BY <3>5 DEF LockCheck, LockInit, LockTake, maps_remember, Store, fileVars, OwnInv, MapTypes
    <3> QED BY <3>1, <3>2, <3>3, <3>4, <3>5
  <2> QED BY <1>1, <1>2, <2>1, <2>2, <2>3 DEF OwnInv, MapTypes
<1> QED BY <1>3, <1>4, <1>5 DEF OwnInv

\* A thread gives up its block alone.
LEMMA ForgetOwn == ASSUME OwnInv, NEW t \in Thread, maps_forget(t) PROVE OwnInv'
<1>1. /\ phase[t] = "unmap" /\ phase'[t] = "unlock" /\ job[t] = "unmap"
      /\ \A u \in Thread \ {t} : phase'[u] = phase[u]
      /\ phase' \in [Thread -> Phases]
  BY Went DEF OwnInv, MapTypes, Phases, maps_forget, JobFits
<1>2. UNCHANGED <<job, base, at, fd, before, view, pos, crossed, lost, cap, refused>>
  BY DEF maps_forget, fileVars
<1>3. /\ live' \in {live, live \ {base[t]}} /\ len' \in Nat
  BY DEF maps_forget, OwnInv, MapTypes
<1>4. MapTypes'
  BY <1>1, <1>2, <1>3 DEF OwnInv, MapTypes
<1>5. OwnBlocks'
  BY <1>1, <1>2, <1>3 DEF OwnInv, OwnBlocks, OwnsBlock
<1>6. JobFits'
  BY <1>1, <1>2 DEF OwnInv, JobFits
<1> QED BY <1>4, <1>5, <1>6 DEF OwnInv

LEMMA UnlockOwn == ASSUME OwnInv, NEW t \in Thread, maps_unlock(t) PROVE OwnInv'
<1>1. /\ phase[t] = "unlock" /\ phase'[t] = IF job[t] = "map" THEN "mapped" ELSE "out"
      /\ \A u \in Thread \ {t} : phase'[u] = phase[u]
      /\ phase' \in [Thread -> Phases]
  BY Went DEF OwnInv, MapTypes, Phases, maps_unlock
<1>2. /\ UNCHANGED <<job, at, fd, before, view, pos, crossed, lost, live, len, cap, refused>>
      /\ base' = [base EXCEPT ![t] = IF job[t] = "map" THEN @ ELSE Null]
  BY DEF maps_unlock, fileVars, tableVars
<1>3. MapTypes'
  BY <1>1, <1>2 DEF OwnInv, MapTypes
<1>4. OwnBlocks'
  BY <1>1, <1>2 DEF OwnInv, OwnBlocks, OwnsBlock, JobFits, MapTypes
<1>5. JobFits'
  BY <1>1, <1>2 DEF OwnInv, JobFits
<1> QED BY <1>3, <1>4, <1>5 DEF OwnInv

LEMMA OwnStep == ASSUME OwnInv, [MapsNext]_fmvars PROVE OwnInv'
<1>1. CASE UNCHANGED fmvars
  BY <1>1 DEF OwnInv, MapTypes, JobFits, OwnBlocks, OwnsBlock, fmvars
<1>2. CASE MapsNext
  BY <1>2, MmapOwn, StepOwn, ForgetOwn, UnlockOwn DEF MapsNext
<1> QED BY <1>1, <1>2

-------------------------------------------------------------------------------
\* A thread's view of its call is kept by a step of another that leaves the
\* descriptors alone, or moves one.
LEMMA OthersReading ==
  ASSUME OwnInv, NEW t \in Thread, NEW u \in Thread \ {t}, Reading(u),
         phase'[u] = phase[u], job'[u] = job[u], fd'[u] = fd[u], before'[u] = before[u],
         view'[u] = view[u], u \in lost' <=> u \in lost, astray \subseteq astray',
         \/ pos' = pos /\ (u \in crossed' <=> u \in crossed)
         \/ \E p : MoveTo(t, p)
  PROVE  Reading(u)'
<1>1. /\ u \in crossed => u \in crossed'
      /\ phase[u] # "read" => (u \in crossed' <=> u \in crossed)
      /\ phase[u] = "read" => u \in crossed' \/ pos'[fd[u]] = pos[fd[u]]
  <2>1. CASE pos' = pos /\ (u \in crossed' <=> u \in crossed)
    BY <2>1
  <2>2. CASE \E p : MoveTo(t, p)
    <3>1. PICK p : MoveTo(t, p)
      BY <2>2
    <3>2. crossed' = crossed \cup {v \in Thread \ {t} : phase[v] = "read" /\ fd[v] = fd[t]}
      BY <3>1 DEF MoveTo
    <3>3. phase[u] = "read" /\ fd[u] # fd[t] => pos'[fd[u]] = pos[fd[u]]
      BY <3>1 DEF MoveTo, OwnInv, MapTypes, JobFits
    <3> QED BY <3>2, <3>3
  <2> QED BY <2>1, <2>2
<1>2. Holds(u) /\ phase[u] # "read" => Holds(u)'
  BY <1>1 DEF Holds, Window
<1>3. phase'[u] # "read" => (u \in crossed' <=> u \in crossed)
  BY <1>1
<1>4. phase'[u] = "read" => u \in crossed' \/ pos'[fd'[u]] = Window(u)
  BY <1>1 DEF Reading
<1>5. phase'[u] \notin {"out", "seek", "read"} /\ job'[u] = "map" => Holds(u)'
  BY <1>2 DEF Reading
<1>6. phase[u] \in {"out", "seek"} \/ job[u] = "unmap" => u \notin crossed'
  BY <1>3 DEF Reading, OwnInv, JobFits
<1>7. phase'[u] \in {"seek", "read", "restore"} => fd'[u] \in astray' \/ before'[u] \in {Start, Unknown}
  BY DEF Reading
<1>8. phase'[u] \in {"out", "seek", "read"} \/ job'[u] = "unmap" => view'[u] = Zeroes /\ u \notin lost'
  BY DEF Reading
<1>9. Window(u)' = Window(u) /\ Start' = Start /\ Unknown' = Unknown /\ Zeroes' = Zeroes
  BY DEF Window, Start, Unknown, Zeroes
<1> QED BY <1>4, <1>5, <1>6, <1>7, <1>8, <1>9 DEF Reading

\* The steps of a call that have nothing to do with its descriptor.
LEMMA TableReads ==
  ASSUME OwnInv, ReadInv, NEW t \in Thread,
         \/ LockCheck(t) \/ LockInit(t) \/ LockTake(t)
         \/ maps_remember(t) \/ Store(t) \/ maps_forget(t) \/ maps_unlock(t)
  PROVE  ReadInv'
<1>1. UNCHANGED <<job, fd, before, view, pos, crossed, lost, astray>>
  BY DEF LockCheck, LockInit, LockTake, maps_remember, Store, maps_forget, maps_unlock, fileVars
<1>2. PICK from \in Phases, to \in Phases :
        /\ Go(t, from, to) /\ from \notin {"out", "seek", "read", "restore"}
        /\ to \notin {"seek", "read", "restore"} /\ (to = "out" => job[t] = "unmap")
  <2>1. phase[t] # "out" => job[t] \in {"map", "unmap"}
    BY DEF OwnInv, JobFits
  <2> QED BY <2>1 DEF LockCheck, LockInit, LockTake, maps_remember, Store, maps_forget, maps_unlock,
                      Go, Phases
<1>3. /\ phase[t] = from /\ phase'[t] = to
      /\ \A u \in Thread \ {t} : phase'[u] = phase[u]
  BY <1>2, Went DEF OwnInv, MapTypes
<1>4. FdRestored'
  <2>1. \A f \in Fd : Busy(f)' <=> Busy(f)
    BY <1>1, <1>2, <1>3 DEF Busy
  <2> QED BY <1>1, <2>1 DEF FdRestored, ReadInv
<1>5. Reading(t)'
  <2>1. Holds(t)' <=> Holds(t)
    BY <1>1 DEF Holds
  <2> QED BY <1>1, <1>2, <1>3, <2>1 DEF Reading, ReadInv
<1>6. ASSUME NEW u \in Thread \ {t} PROVE Reading(u)'
  BY <1>1, <1>3, OthersReading DEF ReadInv
<1> QED BY <1>4, <1>5, <1>6 DEF ReadInv

\* A new call that finds its descriptor moved says so.
LEMMA MmapReads ==
  ASSUME OwnInv, ReadInv, NEW t \in Thread, mmap_fake(t), ~UNCHANGED fmvars
  PROVE  ReadInv'
<1>1. PICK f \in Fd \cup {Null}, p \in {Unknown} \cup {pos[g] : g \in Fd} :
        /\ p \in {Unknown} \cup {pos[g] : g \in Fd \cap {f}}
        /\ Go(t, "out", IF f = Null THEN "lock" ELSE "seek")
        /\ job' = [job EXCEPT ![t] = "map"] /\ fd' = [fd EXCEPT ![t] = f]
        /\ before' = [before EXCEPT ![t] = p]
        /\ astray' = astray \cup {g \in Fd \cap {f} : Busy(g)}
        /\ UNCHANGED <<view, pos, crossed, lost>>
  BY DEF mmap_fake
<1>2. /\ phase[t] = "out" /\ phase'[t] = (IF f = Null THEN "lock" ELSE "seek")
      /\ \A u \in Thread \ {t} : phase'[u] = phase[u]
  BY <1>1, Went DEF OwnInv, MapTypes, Phases
<1>3. /\ job'[t] = "map" /\ fd'[t] = f /\ before'[t] = p
      /\ \A u \in Thread \ {t} : job'[u] = job[u] /\ fd'[u] = fd[u] /\ before'[u] = before[u]
  BY <1>1 DEF OwnInv, MapTypes
<1>4. FdRestored'
  <2>1. \A g \in Fd : Busy(g) => Busy(g)'
    BY <1>2, <1>3 DEF Busy
  <2> QED BY <1>1, <2>1 DEF FdRestored, ReadInv
<1>5. Reading(t)'
  <2>1. view'[t] = Zeroes /\ t \notin lost' /\ t \notin crossed'
    BY <1>1, <1>2 DEF Reading, ReadInv
  <2>2. f # Null => f \in astray' \/ p \in {Start, Unknown}
    BY <1>1 DEF ReadInv, FdRestored
  <2>3. f = Null => Holds(t)'
    BY <1>3, <2>1 DEF Holds
  <2> QED BY <1>2, <1>3, <2>1, <2>2, <2>3 DEF Reading
<1>6. ASSUME NEW u \in Thread \ {t} PROVE Reading(u)'
  BY <1>1, <1>2, <1>3, OthersReading DEF ReadInv
<1> QED BY <1>4, <1>5, <1>6 DEF ReadInv

\* The two seeks and the read.
LEMMA SeekReads == ASSUME OwnInv, ReadInv, NEW t \in Thread, Seek(t) PROVE ReadInv'
<1>1. PICK to \in {"read", "restore"} :
        /\ Go(t, "seek", to)
        /\ \/ to = "read" /\ MoveTo(t, Window(t)) /\ lost' = lost
           \/ to = "restore" /\ lost' = lost \cup {t} /\ UNCHANGED <<pos, crossed>>
        /\ UNCHANGED <<job, fd, before, view, astray>>
  BY DEF Seek
<1>2. /\ phase[t] = "seek" /\ phase'[t] = to
      /\ \A u \in Thread \ {t} : phase'[u] = phase[u]
  BY <1>1, Went DEF OwnInv, MapTypes, Phases
<1>3. fd[t] \in Fd /\ view[t] = Zeroes /\ t \notin crossed /\ t \notin lost
  BY <1>2 DEF OwnInv, JobFits, ReadInv, Reading
<1>4. \A g \in Fd : pos'[g] = pos[g] \/ g = fd[t]
  BY <1>1 DEF MoveTo, OwnInv, MapTypes
<1>5. FdRestored'
  <2>1. Busy(fd[t])' /\ \A g \in Fd : Busy(g) => Busy(g)'
    BY <1>1, <1>2, <1>3 DEF Busy
  <2> QED BY <1>1, <1>4, <2>1 DEF FdRestored, ReadInv
<1>6. Reading(t)'
  <2>1. CASE to = "read" /\ MoveTo(t, Window(t)) /\ lost' = lost
    <3>1. pos'[fd[t]] = Window(t)
      BY <1>3, <2>1 DEF MoveTo, OwnInv, MapTypes
    <3> QED BY <1>1, <1>2, <1>3, <2>1, <3>1 DEF Reading, ReadInv, Window, OwnInv, JobFits
  <2>2. CASE to = "restore" /\ lost' = lost \cup {t} /\ UNCHANGED <<pos, crossed>>
    <3>1. Holds(t)'
      BY <1>1, <1>3, <2>2 DEF Holds
    <3>2. job[t] = "map"
      BY <1>2 DEF OwnInv, JobFits
    <3> QED BY <1>1, <1>2, <1>3, <2>2, <3>1, <3>2 DEF Reading, ReadInv
  <2> QED BY <1>1, <2>1, <2>2
<1>7. ASSUME NEW u \in Thread \ {t} PROVE Reading(u)'
  BY <1>1, <1>2, OthersReading DEF ReadInv
<1> QED BY <1>5, <1>6, <1>7 DEF ReadInv

LEMMA ReadReads == ASSUME OwnInv, ReadInv, NEW t \in Thread, Read(t) PROVE ReadInv'
<1>1. /\ Go(t, "read", "restore")
      /\ \/ view' = [view EXCEPT ![t] = pos[fd[t]]] /\ MoveTo(t, Behind) /\ lost' = lost
         \/ lost' = lost \cup {t} /\ UNCHANGED <<view, pos, crossed>>
      /\ UNCHANGED <<job, fd, before, astray>>
  BY DEF Read
<1>2. /\ phase[t] = "read" /\ phase'[t] = "restore"
      /\ \A u \in Thread \ {t} : phase'[u] = phase[u]
  BY <1>1, Went DEF OwnInv, MapTypes, Phases
<1>3. /\ fd[t] \in Fd /\ fd[t] # Null /\ job[t] = "map" /\ view[t] = Zeroes /\ t \notin lost
      /\ t \in crossed \/ pos[fd[t]] = Window(t)
  BY <1>2, NullAssumption DEF OwnInv, JobFits, ReadInv, Reading
<1>4. \A g \in Fd : pos'[g] = pos[g] \/ g = fd[t]
  BY <1>1 DEF MoveTo, OwnInv, MapTypes
<1>5. FdRestored'
  <2>1. Busy(fd[t])' /\ \A g \in Fd : Busy(g) => Busy(g)'
    BY <1>1, <1>2, <1>3 DEF Busy
  <2> QED BY <1>1, <1>4, <2>1 DEF FdRestored, ReadInv
<1>6. Reading(t)'
  <2>1. Holds(t)'
    <3>1. CASE view' = [view EXCEPT ![t] = pos[fd[t]]] /\ MoveTo(t, Behind) /\ lost' = lost
      <4>1. view'[t] = pos[fd[t]] /\ (t \in crossed => t \in crossed')
        BY <3>1 DEF MoveTo, OwnInv, MapTypes
      <4> QED BY <1>1, <1>3, <3>1, <4>1 DEF Holds, Window
    <3>2. CASE lost' = lost \cup {t} /\ UNCHANGED <<view, pos, crossed>>
      BY <1>3, <3>2 DEF Holds
    <3> QED BY <1>1, <3>1, <3>2
  <2> QED BY <1>1, <1>2, <1>3, <2>1 DEF Reading, ReadInv
<1>7. ASSUME NEW u \in Thread \ {t} PROVE Reading(u)'
  <2>1. view'[u] = view[u] /\ (u \in lost' <=> u \in lost)
    BY <1>1 DEF OwnInv, MapTypes
  <2> QED BY <1>1, <1>2, <2>1, OthersReading DEF ReadInv
<1> QED BY <1>5, <1>6, <1>7 DEF ReadInv

LEMMA RestoreReads == ASSUME OwnInv, ReadInv, NEW t \in Thread, Restore(t) PROVE ReadInv'
<1>1. /\ Go(t, "restore", "lock")
      /\ \/ before[t] # Unknown /\ MoveTo(t, before[t]) /\ astray' = astray
         \/ astray' = astray \cup {fd[t]} /\ UNCHANGED <<pos, crossed>>
      /\ before' = [before EXCEPT ![t] = Unknown]
      /\ UNCHANGED <<job, fd, view, lost>>
  BY DEF Restore
<1>2. /\ phase[t] = "restore" /\ phase'[t] = "lock"
      /\ \A u \in Thread \ {t} : phase'[u] = phase[u]
  BY <1>1, Went DEF OwnInv, MapTypes, Phases
<1>3. /\ fd[t] \in Fd /\ job[t] = "map" /\ Holds(t)
      /\ fd[t] \in astray \/ before[t] \in {Start, Unknown}
  BY <1>2 DEF OwnInv, JobFits, ReadInv, Reading
<1>4. \A g \in Fd : g # fd[t] => pos'[g] = pos[g] /\ (Busy(g) => Busy(g)')
  BY <1>1, <1>2 DEF MoveTo, OwnInv, MapTypes, Busy
<1>5. fd[t] \in astray' \/ pos'[fd[t]] = Start
  BY <1>1, <1>3 DEF MoveTo, OwnInv, MapTypes
<1>6. FdRestored'
  BY <1>1, <1>4, <1>5 DEF FdRestored, ReadInv
<1>7. Reading(t)'
  <2>1. t \in crossed' <=> t \in crossed
    BY <1>1 DEF MoveTo
  <2>2. Holds(t)'
    BY <1>1, <1>3, <2>1 DEF Holds, Window
  <2> QED BY <1>1, <1>2, <1>3, <2>2 DEF Reading
<1>8. ASSUME NEW u \in Thread \ {t} PROVE Reading(u)'
  <2>1. before'[u] = before[u]
    BY <1>1 DEF OwnInv, MapTypes
  <2> QED BY <1>1, <1>2, <2>1, OthersReading DEF ReadInv
<1> QED BY <1>6, <1>7, <1>8 DEF ReadInv

LEMMA MunmapReads == ASSUME OwnInv, ReadInv, NEW t \in Thread, munmap_fake(t) PROVE ReadInv'
<1>1. /\ Go(t, "mapped", "lock")
      /\ job' = [job EXCEPT ![t] = "unmap"]
      /\ fd' = [fd EXCEPT ![t] = Null] /\ view' = [view EXCEPT ![t] = Zeroes]
      /\ crossed' = crossed \ {t} /\ lost' = lost \ {t}
      /\ UNCHANGED <<before, pos, astray>>
  BY DEF munmap_fake
<1>2. /\ phase[t] = "mapped" /\ phase'[t] = "lock"
      /\ \A u \in Thread \ {t} : phase'[u] = phase[u]
  BY <1>1, Went DEF OwnInv, MapTypes, Phases
<1>3. /\ job'[t] = "unmap" /\ view'[t] = Zeroes
      /\ \A u \in Thread \ {t} : job'[u] = job[u] /\ fd'[u] = fd[u] /\ view'[u] = view[u]
  BY <1>1 DEF OwnInv, MapTypes
<1>4. FdRestored'
  <2>1. \A g \in Fd : Busy(g) => Busy(g)'
    BY <1>2, <1>3 DEF Busy
  <2> QED BY <1>1, <2>1 DEF FdRestored, ReadInv
<1>5. Reading(t)'
  BY <1>1, <1>2, <1>3 DEF Reading
<1>6. ASSUME NEW u \in Thread \ {t} PROVE Reading(u)'
  BY <1>1, <1>2, <1>3, OthersReading DEF ReadInv
<1> QED BY <1>4, <1>5, <1>6 DEF ReadInv

LEMMA ReadStep == ASSUME OwnInv, ReadInv, [MapsNext]_fmvars PROVE ReadInv'
<1>1. CASE UNCHANGED fmvars
  BY <1>1 DEF ReadInv, FdRestored, Busy, Reading, Holds, Window, fmvars
<1>2. CASE MapsNext /\ ~UNCHANGED fmvars
  BY <1>2, MmapReads, SeekReads, ReadReads, RestoreReads, MunmapReads, TableReads DEF MapsNext
<1> QED BY <1>1, <1>2

LEMMA MapsStart == ASSUME MapsInit PROVE OwnInv /\ ReadInv
<1>1. MapTypes
  BY PositionsAre DEF MapsInit, MapTypes, Phases
<1>2. JobFits /\ OwnBlocks
  BY DEF MapsInit, JobFits, OwnBlocks, OwnsBlock
<1>3. ReadInv
  <2>1. FdRestored
    BY DEF MapsInit, FdRestored
  <2>2. \A t \in Thread : Reading(t)
    BY NullApart DEF MapsInit, Reading
  <2> QED BY <2>1, <2>2 DEF ReadInv
<1> QED BY <1>1, <1>2, <1>3 DEF OwnInv

\* For any threads, files and blocks: mmap_fake fills a mapping with the window
\* that was asked for, or leaves zeroes where a seek or the read failed, and puts
\* the descriptor back, but for calls that meet on one descriptor.
THEOREM MapsReadLikePread == MapsSpec => []MapsLikePread
<1>1. MapsInit => OwnInv /\ ReadInv
  BY MapsStart
<1>2. OwnInv /\ ReadInv /\ [MapsNext]_fmvars => (OwnInv /\ ReadInv)'
  BY OwnStep, ReadStep
<1>3. OwnInv /\ ReadInv => MapsLikePread
  BY DEF MapsLikePread, WindowRead, ReadInv, Reading, Holds, OwnInv, JobFits
<1> QED BY <1>1, <1>2, <1>3, PTL DEF MapsSpec


-------------------------------------------------------------------------------
\* Inside the lock of the table.
Critical == {"map", "store", "unmap", "unlock"}

\* A thread whose block went through maps_remember, and is on its way out of it
\* at most.
PastTable(t) ==
    OwnsBlock(t) /\ (phase[t] \in {"mapped", "unlock"} \/ job[t] = "unmap")

Guarded == \A t \in Thread : phase[t] \in Critical <=> holder = t

\* The table has room for the entry that is under way.
Room ==
    /\ maps \in [Slots -> Block \cup {Null}] /\ len <= cap
    /\ \A t \in Thread : phase[t] = "store" => at[t] = len /\ len < cap

\* The table lists those blocks, each once, that were not refused.
Entries ==
    /\ \A i \in 0..(len - 1) :
          \E t \in Thread : PastTable(t) /\ base[t] = maps[i] /\ base[t] \notin refused
    /\ \A i, j \in 0..(len - 1) : maps[i] = maps[j] => i = j
    /\ \A t \in Thread :
          PastTable(t) /\ base[t] \notin refused => \E i \in 0..(len - 1) : maps[i] = base[t]

\* What is allocated is owned, or was refused.
Refusals ==
    /\ refused \subseteq live
    /\ \A t \in Thread : OwnsBlock(t) /\ base[t] \in refused => PastTable(t)
    /\ \A b \in live : b \in refused \/ \E t \in Thread : OwnsBlock(t) /\ base[t] = b

TableInv == ~clobbered => Guarded /\ Room /\ Entries /\ Refusals

\* Each block is in the table once at most, so it cannot outgrow its model.
LEMMA TableFits ==
  ASSUME OwnInv, Entries
  PROVE  /\ len \in Slots /\ len - 1 \in Int
         /\ \A i \in 0..(len - 1) : maps[i] \in Block /\ i \in Slots
         /\ Cardinality({maps[i] : i \in 0..(len - 1)}) = len
<1>1. len \in Nat /\ 0 \in Int /\ len - 1 \in Int
  BY DEF OwnInv, MapTypes
<1>2. \A i \in 0..(len - 1) : maps[i] \in Block
  BY DEF OwnInv, MapTypes, OwnBlocks, Entries, PastTable
<1>3. Cardinality(Block) \in Nat
  BY BlockAssumption, FS_CardinalityType
<1> DEFINE S == 0..(len - 1)
           listed == {maps[i] : i \in S}
           f == [i \in S |-> maps[i]]
<1>4. f \in Bijection(S, listed)
  <2>1. f \in [S -> listed]
    OBVIOUS
  <2>2. \A i, j \in S : f[i] = f[j] => i = j
    BY DEF Entries
  <2>3. \A b \in listed : \E i \in S : f[i] = b
    OBVIOUS
  <2> HIDE DEF f, S, listed
  <2> QED BY <2>1, <2>2, <2>3, Fun_IsBij
<1>5. IsFiniteSet(S) /\ Cardinality(S) = len
  <2>1. IsFiniteSet(S) /\ Cardinality(S) = IF 0 > len - 1 THEN 0 ELSE (len - 1) - 0 + 1
    BY <1>1, FS_Interval, Zenon
  <2> HIDE DEF S
  <2> QED BY <1>1, <2>1
<1>6. ExistsBijection(S, listed)
  BY <1>4, Fun_ExistsBij
<1>7. Cardinality(listed) = len
  BY <1>5, <1>6, FS_Bijection
<1>8. listed \subseteq Block
  BY <1>2
<1>9. Cardinality(listed) <= Cardinality(Block)
  BY <1>8, BlockAssumption, FS_Subset
<1> HIDE DEF listed, f
<1>10. len <= Cardinality(Block)
  BY <1>1, <1>3, <1>7, <1>9
<1> QED BY <1>1, <1>2, <1>3, <1>7, <1>10 DEF Slots, listed

\* One thread goes where it may, and the lock goes with it.
LEMMA GuardKept ==
  ASSUME OwnInv, OwnInv', Guarded, ~clobbered', NEW t \in Thread, NEW to \in Phases,
         Go(t, phase[t], to),
         \/ holder' = holder /\ (phase[t] \in Critical <=> to \in Critical)
         \/ holder = Null /\ holder' = t /\ to \in Critical
         \/ holder' = Null /\ phase[t] \in Critical /\ to \notin Critical
  PROVE  Guarded'
<1>1. /\ phase'[t] = to /\ \A u \in Thread \ {t} : phase'[u] = phase[u]
  BY Went DEF OwnInv, MapTypes
<1> QED BY <1>1, NullApart DEF Guarded

\* A step that leaves the table alone, and each block on its side of it.
LEMMA TableRests ==
  ASSUME OwnInv, Room, Entries, Refusals,
         UNCHANGED <<at, maps, len, cap, refused>>,
         \A u \in Thread : phase'[u] = "store" => phase[u] = "store",
         \A u \in Thread : PastTable(u)' <=> PastTable(u),
         \A u \in Thread : OwnsBlock(u) => OwnsBlock(u)' /\ base'[u] = base[u],
         \A u \in Thread : OwnsBlock(u)' => OwnsBlock(u) \/ base'[u] \notin live,
         live \subseteq live',
         \A b \in live' \ live : \E u \in Thread : OwnsBlock(u)' /\ base'[u] = b
  PROVE  Room' /\ Entries' /\ Refusals'
<1>1. Room'
  BY DEF Room
<1>2. \A u \in Thread : PastTable(u) => OwnsBlock(u)
  BY DEF PastTable
<1>3. Entries'
  <2>1. ASSUME NEW i \in 0..(len - 1)
        PROVE  \E u \in Thread : PastTable(u)' /\ base'[u] = maps[i] /\ base'[u] \notin refused
    BY <1>2, <2>1 DEF Entries
  <2>2. ASSUME NEW u \in Thread, PastTable(u)', base'[u] \notin refused
        PROVE  \E i \in 0..(len - 1) : maps[i] = base'[u]
    BY <1>2, <2>2 DEF Entries
  <2> QED BY <2>1, <2>2 DEF Entries
<1>4. Refusals'
  <2>1. ASSUME NEW u \in Thread, OwnsBlock(u)', base'[u] \in refused PROVE PastTable(u)'
    BY <2>1 DEF Refusals
  <2>2. ASSUME NEW b \in live' PROVE b \in refused \/ \E u \in Thread : OwnsBlock(u)' /\ base'[u] = b
    BY <2>2 DEF Refusals
  <2> QED BY <2>1, <2>2 DEF Refusals
<1> QED BY <1>1, <1>3, <1>4

\* The steps outside the table, but for the beginning and the end of a call.
LEMMA OutsideKept ==
  ASSUME OwnInv, OwnInv', TableInv, NEW t \in Thread,
         \/ Seek(t) \/ Read(t) \/ Restore(t) \/ munmap_fake(t)
         \/ LockCheck(t) \/ LockInit(t) \/ LockTake(t)
  PROVE  TableInv'
<1> SUFFICES ASSUME ~clobbered' PROVE Guarded' /\ Room' /\ Entries' /\ Refusals'
  BY DEF TableInv
<1>1. UNCHANGED <<base, live, at, maps, len, cap, refused>> /\ ~clobbered
  <2>1. UNCHANGED <<base, live, at, maps, len, cap, refused>>
    BY DEF Seek, Read, Restore, munmap_fake, LockCheck, LockInit, LockTake, tableVars
  <2>2. ASSUME LockInit(t) PROVE ~clobbered
    BY <2>2, Zenon DEF LockInit
  <2>3. ASSUME ~LockInit(t) PROVE ~clobbered
    BY <2>3 DEF Seek, Read, Restore, munmap_fake, LockCheck, LockTake, lockVars
  <2> QED BY <2>1, <2>2, <2>3
<1>2. Guarded /\ Room /\ Entries /\ Refusals
  BY <1>1 DEF TableInv
<1>3. PICK to \in Phases :
        /\ Go(t, phase[t], to)
        /\ phase[t] \notin {"out", "unlock"} /\ to \notin {"out", "unlock", "store"}
        /\ \/ phase[t] \in {"seek", "read", "restore"} /\ job' = job /\ job[t] = "map" /\ to # "mapped"
           \/ phase[t] = "mapped" /\ to = "lock" /\ job' = [job EXCEPT ![t] = "unmap"]
           \/ phase[t] \notin {"mapped", "unlock"} /\ to \notin {"mapped", "unlock"} /\ job' = job
        /\ \/ holder' = holder /\ phase[t] \notin Critical /\ to \notin Critical
           \/ holder = Null /\ holder' = t /\ to \in Critical
  <2>1. phase[t] # "out" => job[t] \in {"map", "unmap"}
    BY DEF OwnInv, JobFits
  <2>2. CASE LockTake(t)
    BY <2>1, <2>2 DEF LockTake, Go, Phases, Critical
  <2>3. CASE LockInit(t)
    BY <1>1, <2>3 DEF LockInit, Go, Phases, Critical
  <2>4. CASE LockCheck(t) \/ munmap_fake(t)
    BY <2>4 DEF LockCheck, munmap_fake, Go, Phases, Critical, lockVars
  <2>5. CASE Seek(t) \/ Read(t) \/ Restore(t)
    BY <2>5 DEF Seek, Read, Restore, Go, Phases, Critical, lockVars, OwnInv, JobFits
  <2> QED BY <2>2, <2>3, <2>4, <2>5
<1>4. Guarded'
  BY <1>2, <1>3, GuardKept
<1>5. /\ phase'[t] = to /\ \A u \in Thread \ {t} : phase'[u] = phase[u] /\ job'[u] = job[u]
  BY <1>3, Went DEF OwnInv, MapTypes
<1>6. OwnsBlock(t) /\ OwnsBlock(t)'
  BY <1>3, <1>5 DEF OwnsBlock
<1>7. \A u \in Thread : OwnsBlock(u)' <=> OwnsBlock(u)
  BY <1>5, <1>6 DEF OwnsBlock
<1>8. \A u \in Thread : PastTable(u)' <=> PastTable(u)
  <2>1. PastTable(t)' <=> PastTable(t)
    BY <1>3, <1>5, <1>6 DEF PastTable, OwnInv, MapTypes
  <2>2. \A u \in Thread \ {t} : PastTable(u)' <=> PastTable(u)
    BY <1>5, <1>7 DEF PastTable
  <2> QED BY <2>1, <2>2
<1>9. \A u \in Thread : phase'[u] = "store" => phase[u] = "store"
  BY <1>3, <1>5
<1> QED BY <1>1, <1>2, <1>4, <1>7, <1>8, <1>9, TableRests

LEMMA MmapKept ==
  ASSUME OwnInv, OwnInv', TableInv, NEW t \in Thread, mmap_fake(t), ~UNCHANGED fmvars
  PROVE  TableInv'
<1> SUFFICES ASSUME ~clobbered' PROVE Guarded' /\ Room' /\ Entries' /\ Refusals'
  BY DEF TableInv
<1>1. PICK b \in Block \ live, to \in {"lock", "seek"} :
        /\ Go(t, "out", to)
        /\ base' = [base EXCEPT ![t] = b] /\ live' = live \cup {b}
        /\ job' = [job EXCEPT ![t] = "map"]
        /\ UNCHANGED <<at, maps, len, cap, refused, holder, clobbered>>
  BY DEF mmap_fake, tableVars, lockVars
<1>2. Guarded /\ Room /\ Entries /\ Refusals
  BY <1>1 DEF TableInv
<1>3. /\ phase[t] = "out" /\ phase'[t] = to /\ job'[t] = "map" /\ base'[t] = b
      /\ \A u \in Thread \ {t} : phase'[u] = phase[u] /\ job'[u] = job[u] /\ base'[u] = base[u]
  BY <1>1, Went DEF OwnInv, MapTypes, Phases
<1>4. Guarded'
  BY <1>1, <1>2, <1>3, GuardKept DEF Critical, Phases
<1>5. ~OwnsBlock(t) /\ OwnsBlock(t)' /\ \A u \in Thread \ {t} : OwnsBlock(u)' <=> OwnsBlock(u)
  BY <1>3 DEF OwnsBlock
<1>6. \A u \in Thread : PastTable(u)' <=> PastTable(u)
  BY <1>3, <1>5 DEF PastTable
<1>7. /\ \A u \in Thread : phase'[u] = "store" => phase[u] = "store"
      /\ \A u \in Thread : OwnsBlock(u) => OwnsBlock(u)' /\ base'[u] = base[u]
      /\ \A u \in Thread : OwnsBlock(u)' => OwnsBlock(u) \/ base'[u] \notin live
  BY <1>3, <1>5
<1>8. live \subseteq live' /\ \A c \in live' \ live : \E u \in Thread : OwnsBlock(u)' /\ base'[u] = c
  BY <1>1, <1>3, <1>5
<1> QED BY <1>1, <1>2, <1>4, <1>6, <1>7, <1>8, TableRests

LEMMA UnlockKept ==
  ASSUME OwnInv, OwnInv', TableInv, NEW t \in Thread, maps_unlock(t)
  PROVE  TableInv'
<1> SUFFICES ASSUME ~clobbered' PROVE Guarded' /\ Room' /\ Entries' /\ Refusals'
  BY DEF TableInv
<1>1. /\ Go(t, "unlock", IF job[t] = "map" THEN "mapped" ELSE "out")
      /\ holder' = Null /\ UNCHANGED <<job, live, at, maps, len, cap, refused, clobbered>>
      /\ base' = [base EXCEPT ![t] = IF job[t] = "map" THEN @ ELSE Null]
  BY DEF maps_unlock, tableVars
<1>2. Guarded /\ Room /\ Entries /\ Refusals
  BY <1>1 DEF TableInv
<1>3. /\ phase[t] = "unlock" /\ phase'[t] = IF job[t] = "map" THEN "mapped" ELSE "out"
      /\ \A u \in Thread \ {t} : phase'[u] = phase[u] /\ base'[u] = base[u]
      /\ job[t] = "map" => base'[t] = base[t]
      /\ job[t] \in {"map", "unmap"}
  BY <1>1, Went DEF OwnInv, MapTypes, Phases, JobFits
<1>4. Guarded'
  BY <1>1, <1>2, <1>3, GuardKept DEF Critical, Phases
<1>5. \A u \in Thread : OwnsBlock(u)' <=> OwnsBlock(u)
  BY <1>1, <1>3 DEF OwnsBlock
<1>6. \A u \in Thread : PastTable(u)' <=> PastTable(u)
  BY <1>1, <1>3, <1>5 DEF PastTable
<1>7. \A u \in Thread : phase'[u] = "store" => phase[u] = "store"
  BY <1>1, <1>3
<1>8. \A u \in Thread : OwnsBlock(u) => base'[u] = base[u]
  BY <1>3 DEF OwnsBlock
<1> QED BY <1>1, <1>2, <1>4, <1>5, <1>6, <1>7, <1>8, TableRests

\* maps_remember, up to the entry: a block it refuses is one of the refused at once.
LEMMA RememberKept ==
  ASSUME OwnInv, OwnInv', TableInv, NEW t \in Thread, maps_remember(t)
  PROVE  TableInv'
<1> SUFFICES ASSUME ~clobbered' PROVE Guarded' /\ Room' /\ Entries' /\ Refusals'
  BY DEF TableInv
<1>1. UNCHANGED <<job, base, live, maps, len, holder, clobbered>> /\ at' = [at EXCEPT ![t] = len]
  BY DEF maps_remember, lockVars
<1>2. Guarded /\ Room /\ Entries /\ Refusals
  BY <1>1 DEF TableInv
<1>3. PICK to \in {"store", "unlock"} :
        /\ Go(t, "map", to)
        /\ to = "store" => len < cap' /\ refused' = refused
        /\ to = "unlock" => len <= cap' /\ refused' = refused \cup {base[t]}
  <2>1. len \in Nat /\ cap \in Nat /\ len <= cap
    BY <1>2 DEF OwnInv, MapTypes, Room
  <2> QED BY <2>1, CapAssumption DEF maps_remember
<1>4. /\ phase[t] = "map" /\ phase'[t] = to /\ job[t] = "map"
      /\ \A u \in Thread \ {t} : phase'[u] = phase[u]
  BY <1>3, Went DEF OwnInv, MapTypes, Phases, JobFits
<1>5. Guarded'
  BY <1>1, <1>2, <1>3, <1>4, GuardKept DEF Critical, Phases
<1>6. \A u \in Thread \ {t} : phase[u] # "store"
  BY <1>2, <1>4 DEF Guarded, Critical
<1>7. Room'
  <2>1. len <= cap' /\ at'[t] = len
    BY <1>1, <1>3 DEF OwnInv, MapTypes
  <2>2. ASSUME NEW u \in Thread, phase'[u] = "store" PROVE at'[u] = len /\ len < cap'
    BY <1>3, <1>4, <1>6, <2>1, <2>2
  <2> QED BY <1>1, <1>2, <2>1, <2>2 DEF Room
<1>8. OwnsBlock(t) /\ ~PastTable(t) /\ \A u \in Thread : OwnsBlock(u)' <=> OwnsBlock(u)
  BY <1>1, <1>3, <1>4 DEF OwnsBlock, PastTable
<1>9. /\ PastTable(t)' <=> to = "unlock"
      /\ \A u \in Thread \ {t} : PastTable(u)' <=> PastTable(u)
  BY <1>1, <1>3, <1>4, <1>8 DEF PastTable
<1>10. /\ \A u \in Thread \ {t} : OwnsBlock(u) => base[u] # base[t]
       /\ base[t] \in live /\ base[t] \notin refused
       /\ \A u \in Thread : PastTable(u) => OwnsBlock(u)
  BY <1>2, <1>8 DEF OwnInv, OwnBlocks, Refusals, PastTable
<1>11. \A u \in Thread : PastTable(u)' /\ base[u] \notin refused' <=> PastTable(u) /\ base[u] \notin refused
  BY <1>3, <1>8, <1>9, <1>10
<1>12. Entries'
  BY <1>1, <1>2, <1>11 DEF Entries
<1>13. Refusals'
  <2>1. refused' \subseteq live
    BY <1>2, <1>3, <1>10 DEF Refusals
  <2>2. ASSUME NEW u \in Thread, OwnsBlock(u), base[u] \in refused' PROVE PastTable(u)'
    BY <1>2, <1>3, <1>9, <1>10, <2>2 DEF Refusals
  <2>3. ASSUME NEW b \in live PROVE b \in refused' \/ \E u \in Thread : OwnsBlock(u) /\ base[u] = b
    BY <1>2, <1>3, <2>3 DEF Refusals
  <2> QED BY <1>1, <1>8, <2>1, <2>2, <2>3 DEF Refusals
<1> QED BY <1>5, <1>7, <1>12, <1>13

\* The new entry is the last one, and no other is its block.
LEMMA StoreKept ==
  ASSUME OwnInv, OwnInv', TableInv, NEW t \in Thread, Store(t)
  PROVE  TableInv'
<1> SUFFICES ASSUME ~clobbered' PROVE Guarded' /\ Room' /\ Entries' /\ Refusals'
  BY DEF TableInv
<1>1. /\ UNCHANGED <<job, base, at, live, cap, refused, holder, clobbered>>
      /\ Go(t, "store", "unlock")
      /\ maps' = [maps EXCEPT ![at[t]] = base[t]] /\ len' = at[t] + 1
  BY DEF Store, lockVars
<1>2. Guarded /\ Room /\ Entries /\ Refusals
  BY <1>1 DEF TableInv
<1>3. /\ phase[t] = "store" /\ phase'[t] = "unlock" /\ job[t] = "map"
      /\ \A u \in Thread \ {t} : phase'[u] = phase[u]
  BY <1>1, Went DEF OwnInv, MapTypes, Phases, JobFits
<1>4. Guarded'
  BY <1>1, <1>2, <1>3, GuardKept DEF Critical, Phases
<1>5. len \in Slots /\ len \in Nat /\ \A i \in 0..(len - 1) : maps[i] \in Block /\ i \in Slots
  BY <1>2, TableFits DEF OwnInv, MapTypes
<1>6. at[t] = len /\ len < cap /\ len' = len + 1
  BY <1>1, <1>2, <1>3 DEF Room
<1>7. /\ maps' \in [Slots -> Block \cup {Null}] /\ maps'[len] = base[t]
      /\ \A i \in 0..(len - 1) : maps'[i] = maps[i]
  BY <1>1, <1>2, <1>5, <1>6 DEF Room, OwnInv, MapTypes
<1>8. Room'
  <2>1. \A u \in Thread : phase'[u] # "store"
    BY <1>2, <1>3 DEF Guarded, Critical
  <2> QED BY <1>1, <1>5, <1>6, <1>7, <2>1 DEF Room, OwnInv, MapTypes
<1>9. OwnsBlock(t) /\ ~PastTable(t) /\ \A u \in Thread : OwnsBlock(u)' <=> OwnsBlock(u)
  BY <1>1, <1>3 DEF OwnsBlock, PastTable
<1>10. \A u \in Thread : PastTable(u)' <=> PastTable(u) \/ u = t
  BY <1>1, <1>3, <1>9 DEF PastTable
<1>11. /\ \A u \in Thread \ {t} : OwnsBlock(u) => base[u] # base[t]
       /\ base[t] \notin refused
       /\ \A u \in Thread : PastTable(u) => OwnsBlock(u)
  BY <1>2, <1>9 DEF OwnInv, OwnBlocks, Refusals, PastTable
<1>12. \A i \in 0..(len' - 1) : i \in 0..(len - 1) \/ i = len
  BY <1>5, <1>6
<1>13. \A i \in 0..(len - 1) : i \in 0..(len' - 1) /\ len \in 0..(len' - 1)
  BY <1>5, <1>6
<1>14. len \in 0..(len' - 1)
  BY <1>5, <1>6
<1>15. \A i \in 0..(len - 1) :
         maps[i] # base[t] /\ \E u \in Thread : PastTable(u) /\ base[u] = maps[i] /\ base[u] \notin refused
  BY <1>2, <1>9, <1>11 DEF Entries
<1>16. Entries'
  <2>1. ASSUME NEW i \in 0..(len' - 1)
        PROVE  \E u \in Thread : PastTable(u)' /\ base[u] = maps'[i] /\ base[u] \notin refused
    BY <1>7, <1>10, <1>11, <1>12, <1>15
  <2>2. ASSUME NEW i \in 0..(len' - 1), NEW j \in 0..(len' - 1), maps'[i] = maps'[j] PROVE i = j
    BY <1>2, <1>7, <1>12, <1>15, <2>2 DEF Entries
  <2>3. ASSUME NEW u \in Thread, PastTable(u)', base[u] \notin refused
        PROVE  \E i \in 0..(len' - 1) : maps'[i] = base[u]
    <3>1. CASE u = t
      BY <1>7, <1>14, <3>1
    <3>2. CASE u # t
      BY <1>2, <1>7, <1>10, <1>13, <2>3, <3>2 DEF Entries
    <3> QED BY <3>1, <3>2
  <2> QED BY <1>1, <2>1, <2>2, <2>3 DEF Entries
<1>17. Refusals'
  BY <1>1, <1>2, <1>9, <1>10 DEF Refusals
<1> QED BY <1>4, <1>8, <1>16, <1>17

\* The entry that is found goes, and the last one takes its place.
LEMMA ForgetKept ==
  ASSUME OwnInv, OwnInv', TableInv, NEW t \in Thread, maps_forget(t)
  PROVE  TableInv'
<1> SUFFICES ASSUME ~clobbered' PROVE Guarded' /\ Room' /\ Entries' /\ Refusals'
  BY DEF TableInv
<1>1. /\ UNCHANGED <<job, base, at, cap, refused, holder, clobbered>>
      /\ Go(t, "unmap", "unlock")
  BY DEF maps_forget, lockVars
<1>2. Guarded /\ Room /\ Entries /\ Refusals
  BY <1>1 DEF TableInv
<1>3. /\ phase[t] = "unmap" /\ phase'[t] = "unlock" /\ job[t] = "unmap"
      /\ \A u \in Thread \ {t} : phase'[u] = phase[u]
  BY <1>1, Went DEF OwnInv, MapTypes, Phases, JobFits
<1>4. Guarded'
  BY <1>1, <1>2, <1>3, GuardKept DEF Critical, Phases
<1>5. \A u \in Thread : phase'[u] # "store"
  BY <1>2, <1>3 DEF Guarded, Critical
<1>6. /\ OwnsBlock(t) /\ PastTable(t) /\ ~OwnsBlock(t)' /\ ~PastTable(t)'
      /\ \A u \in Thread \ {t} : OwnsBlock(u)' <=> OwnsBlock(u)
  BY <1>1, <1>3 DEF OwnsBlock, PastTable
<1>7. \A u \in Thread \ {t} : PastTable(u)' <=> PastTable(u)
  BY <1>1, <1>3, <1>6 DEF PastTable
<1>8. /\ \A u \in Thread \ {t} : OwnsBlock(u) => base[u] # base[t]
      /\ \A u \in Thread : PastTable(u) => OwnsBlock(u)
  BY <1>6 DEF OwnInv, OwnBlocks, PastTable
<1>9. len \in Slots /\ len \in Nat /\ \A i \in 0..(len - 1) : maps[i] \in Block /\ i \in Slots
  BY <1>2, TableFits DEF OwnInv, MapTypes
<1>10. CASE \E i \in 0..(len - 1) : maps[i] = base[t]
  <2>1. PICK i \in 0..(len - 1) :
          /\ maps[i] = base[t] /\ maps' = [maps EXCEPT ![i] = maps[len - 1]]
          /\ len' = len - 1 /\ live' = live \ {base[t]}
    BY <1>10 DEF maps_forget
  <2>2. len - 1 \in 0..(len - 1) /\ len - 1 \in Nat /\ len - 1 <= len
    BY <1>9, <2>1
  <2>3. base[t] \notin refused
    BY <1>2, <2>1 DEF Entries
  <2>4. /\ maps' \in [Slots -> Block \cup {Null}]
        /\ \A j \in 0..(len - 1) : maps'[j] = IF j = i THEN maps[len - 1] ELSE maps[j]
    BY <1>2, <1>9, <2>1, <2>2 DEF Room
  <2>5. Room'
    BY <1>1, <1>2, <1>5, <1>9, <2>1, <2>2, <2>4 DEF Room, OwnInv, MapTypes
  <2>6. \A j \in 0..(len' - 1) : j \in 0..(len - 1) /\ j # len - 1
    BY <1>9, <2>1
  <2>7. \A j \in 0..(len - 1) : j # len - 1 => j \in 0..(len' - 1)
    BY <1>9, <2>1
  <2>8. \A j \in 0..(len' - 1) : \E k \in 0..(len - 1) : maps'[j] = maps[k] /\ k # i
    <3>1. ASSUME NEW j \in 0..(len' - 1) PROVE \E k \in 0..(len - 1) : maps'[j] = maps[k] /\ k # i
      <4>1. CASE j = i
        BY <2>2, <2>4, <2>6, <4>1
      <4>2. CASE j # i
        BY <2>4, <2>6, <4>2
      <4> QED BY <4>1, <4>2
    <3> QED BY <3>1
  <2>9. Entries'
    <3>1. ASSUME NEW j \in 0..(len' - 1)
          PROVE  \E u \in Thread : PastTable(u)' /\ base[u] = maps'[j] /\ base[u] \notin refused
      <4>1. PICK k \in 0..(len - 1) : maps'[j] = maps[k] /\ k # i
        BY <2>8
      <4>2. maps[k] # base[t]
        BY <1>2, <2>1, <4>1 DEF Entries
      <4>3. PICK u \in Thread : PastTable(u) /\ base[u] = maps[k] /\ base[u] \notin refused
        BY <1>2, <4>1 DEF Entries
      <4> QED BY <1>7, <4>1, <4>2, <4>3
    <3>2. ASSUME NEW j \in 0..(len' - 1), NEW k \in 0..(len' - 1), maps'[j] = maps'[k] PROVE j = k
      BY <1>2, <2>2, <2>4, <2>6, <3>2 DEF Entries
    <3>3. ASSUME NEW u \in Thread, PastTable(u)', base[u] \notin refused
          PROVE  \E j \in 0..(len' - 1) : maps'[j] = base[u]
      <4>1. u # t /\ PastTable(u) /\ base[u] # base[t]
        BY <1>6, <1>7, <1>8, <3>3
      <4>2. PICK k \in 0..(len - 1) : maps[k] = base[u]
        BY <1>2, <3>3, <4>1 DEF Entries
      <4>3. k # i
        BY <2>1, <4>1, <4>2
      <4>4. CASE k = len - 1
        BY <2>1, <2>4, <2>7, <4>2, <4>3, <4>4
      <4>5. CASE k # len - 1
        BY <2>4, <2>7, <4>2, <4>3, <4>5
      <4> QED BY <4>4, <4>5
    <3> QED BY <1>1, <3>1, <3>2, <3>3 DEF Entries
  <2>10. Refusals'
    <3>1. refused \subseteq live'
      BY <1>2, <2>1, <2>3 DEF Refusals
    <3>2. ASSUME NEW u \in Thread, OwnsBlock(u)', base[u] \in refused PROVE PastTable(u)'
      BY <1>2, <1>6, <1>7, <3>2 DEF Refusals
    <3>3. ASSUME NEW b \in live' PROVE b \in refused \/ \E u \in Thread : OwnsBlock(u)' /\ base[u] = b
      BY <1>2, <1>6, <2>1, <3>3 DEF Refusals
    <3> QED BY <1>1, <3>1, <3>2, <3>3 DEF Refusals
  <2> QED BY <1>4, <2>5, <2>9, <2>10
<1>11. CASE \A i \in 0..(len - 1) : maps[i] # base[t]
  <2>1. UNCHANGED <<maps, len, live>>
    BY <1>11 DEF maps_forget
  <2>2. base[t] \in refused
    BY <1>2, <1>6, <1>11 DEF Entries
  <2>3. Room'
    BY <1>1, <1>2, <1>5, <2>1 DEF Room
  <2>4. \A u \in Thread : PastTable(u)' /\ base[u] \notin refused <=> PastTable(u) /\ base[u] \notin refused
    BY <1>6, <1>7, <2>2
  <2>5. Entries'
    BY <1>1, <1>2, <2>1, <2>4 DEF Entries
  <2>6. Refusals'
    <3>1. ASSUME NEW u \in Thread, OwnsBlock(u)', base[u] \in refused PROVE PastTable(u)'
      BY <1>2, <1>6, <1>7, <3>1 DEF Refusals
    <3>2. ASSUME NEW b \in live PROVE b \in refused \/ \E u \in Thread : OwnsBlock(u)' /\ base[u] = b
      BY <1>2, <1>6, <2>2, <3>2 DEF Refusals
    <3> QED BY <1>1, <1>2, <2>1, <3>1, <3>2 DEF Refusals
  <2> QED BY <1>4, <2>3, <2>5, <2>6
<1> QED BY <1>10, <1>11

LEMMA TableStep == ASSUME OwnInv, TableInv, [MapsNext]_fmvars PROVE TableInv'
<1>1. OwnInv'
  BY OwnStep
<1>2. CASE UNCHANGED fmvars
  BY <1>2 DEF TableInv, Guarded, Room, Entries, Refusals, PastTable, OwnsBlock, fmvars
<1>3. CASE MapsNext /\ ~UNCHANGED fmvars
  BY <1>1, <1>3, OutsideKept, MmapKept, UnlockKept, RememberKept, StoreKept, ForgetKept DEF MapsNext
<1> QED BY <1>2, <1>3

LEMMA TableStart == ASSUME MapsInit PROVE TableInv
<1>1. Guarded
  BY NullApart DEF MapsInit, Guarded, Critical
<1>2. Room /\ Entries /\ Refusals
  BY DEF MapsInit, Room, Entries, Refusals, PastTable, OwnsBlock
<1> QED BY <1>1, <1>2 DEF TableInv

\* When nobody is in the table, the blocks past it are those being held.
LEMMA TableRight == ASSUME OwnInv, TableInv PROVE TableExact
<1> SUFFICES ASSUME holder = Null, ~clobbered PROVE TableExact
  BY DEF TableExact
<1> DEFINE listed == {maps[i] : i \in 0..(len - 1)}
<1>1. Guarded /\ Room /\ Entries /\ Refusals
  BY DEF TableInv
<1>2. \A t \in Thread : phase[t] \notin {"map", "store", "unmap", "unlock"}
  BY <1>1, NullApart DEF Guarded, Critical
<1>3. \A t \in Thread : PastTable(t) <=> t \in Holding
  BY <1>2 DEF PastTable, OwnsBlock, Holding, OwnInv, MapTypes, Phases, JobFits
<1>4. Cardinality(listed) = len
  BY <1>1, TableFits
<1>5. listed = {base[t] : t \in Holding} \ refused
  <2>1. ASSUME NEW b \in listed PROVE b \in {base[t] : t \in Holding} \ refused
    BY <1>1, <1>3, <2>1 DEF Entries
  <2>2. ASSUME NEW b \in {base[t] : t \in Holding} \ refused PROVE b \in listed
    BY <1>1, <1>3, <2>2 DEF Entries, Holding
  <2> QED BY <2>1, <2>2
<1>6. live \subseteq refused \cup {base[t] : t \in Thread}
  BY <1>1 DEF Refusals
<1> QED BY <1>4, <1>5, <1>6, Zenon DEF TableExact

\* For any threads and blocks, whether realloc fails or not: between two critical
\* sections the table lists each mapped block once, but for those it had no room
\* for, and nothing else is allocated, unless two first calls met in maps_lock.
THEOREM TableIsExact == MapsSpec => []TableExact
<1>1. MapsInit => OwnInv /\ TableInv
  BY MapsStart, TableStart
<1>2. OwnInv /\ TableInv /\ [MapsNext]_fmvars => (OwnInv /\ TableInv)'
  BY OwnStep, TableStep
<1>3. OwnInv /\ TableInv => TableExact
  BY TableRight
<1> QED BY <1>1, <1>2, <1>3, PTL DEF MapsSpec
================================================================================
