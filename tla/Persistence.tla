------------------------------ MODULE Persistence ------------------------------
(***************************************************************************)
(* What outlives the process (source/main.c): the language, kept by the    *)
(* port in language.txt, and the options, which the game's own             *)
(* WriteToRegistry puts into registry.bin (external).  Both are saved from *)
(* the render loop every so many frames, from the applet hook - which      *)
(* appletMainLoop runs on the same thread - and on the way out.            *)
(*                                                                         *)
(* The process may be killed between any two steps, and the card may fail. *)
(***************************************************************************)
EXTENDS Naturals, Sequences

CONSTANTS Code,         \* language codes: lower-case letters, as "fr"
          English,      \* the code a process starts with
          OtherForm,    \* a language the game has under another form, as "pt_BR"
          Empty,        \* language.txt after fopen("w"), before the write
          Absent,       \* no language.txt
          LangEvery,    \* frames between two looks at the language
          RegistryEvery,\* frames between two writes of the registry
          Faults        \* which of "open" and "write" may fail

ASSUME CodeAssumption ==
    English \in Code /\ {OtherForm, Empty, Absent} \cap Code = {}
ASSUME PeriodAssumption ==
    /\ LangEvery \in Nat \ {0} /\ RegistryEvery \in Nat \ {0}
    /\ RegistryEvery % LangEvery = 0
ASSUME FaultAssumption == Faults \subseteq {"open", "write"}

VARIABLES
    language,   \* the game's own language, a std::string in the app object
    g_lang,     \* the language the port believes is in language.txt
    file,       \* language.txt
    written,    \* the options in registry.bin are the player's
    frame,      \* frames rendered, modulo RegistryEvery
    pc,         \* where main is
    todo,       \* the saves it is on its way through
    failed,     \* history: the last write of language.txt did not succeed
    saved       \* history: the language of the last write that did

pvars == <<language, g_lang, file, written, frame, pc, todo, failed, saved>>

\* The language the next process finds.
Kept(f) == IF f \in Code THEN f ELSE English

Init ==
    /\ language = English /\ g_lang = English /\ file = Absent
    /\ written = TRUE
    /\ frame = 0 /\ pc = "off" /\ todo = <<>>
    /\ failed = FALSE /\ saved = English

\* A process starts: g_lang is "en" unless the file has a code; NativeAppStart
\* hands it to the game, which reads its own registry.
load_saved_language ==
    /\ pc = "off" /\ pc' = "head"
    /\ g_lang' = Kept(file)
    /\ language' = g_lang'
    /\ frame' = 0 /\ written' = TRUE /\ failed' = FALSE
    /\ UNCHANGED <<file, todo, saved>>

\* persist_language and save_settings, in the order of every caller.
BothSaves == <<"language", "registry">>

\* appletMainLoop: the hook saves when the focus is lost, and at the system's
\* request to leave; that request also ends the loop.
applet_hook_fn ==
    /\ pc = "head" /\ todo = <<>>
    /\ \/ pc' = "render" /\ todo' = todo
       \/ pc' = "render" /\ todo' = BothSaves
       \/ pc' = "leave" /\ todo' = BothSaves
    /\ UNCHANGED <<language, g_lang, file, written, frame, failed, saved>>

\* Mutant: the language is looked at with the registry only.
Due_LanguageLate(f) == IF f % RegistryEvery = 0 THEN BothSaves ELSE <<>>

\* The saves the frame count asks for.
Due(f) ==
    (IF f % LangEvery = 0 THEN <<"language">> ELSE <<>>)
    \o (IF f % RegistryEvery = 0 THEN <<"registry">> ELSE <<>>)

\* One turn of the loop: the player may change a setting, then frame++.
nativeRender ==
    /\ pc = "render" /\ todo = <<>> /\ pc' = "head"
    /\ language' \in Code \cup {OtherForm}
    /\ written' \in {written, FALSE}
    /\ frame' = (frame + 1) % RegistryEvery
    /\ todo' = Due(frame')
    /\ UNCHANGED <<g_lang, file, failed, saved>>

\* Behind the loop: once more, whatever the hook did.
Leave ==
    /\ pc = "leave" /\ todo = <<>>
    /\ pc' = "exit" /\ todo' = BothSaves
    /\ UNCHANGED <<language, g_lang, file, written, frame, failed, saved>>

\* Mutant: the file is opened before the languages are compared.
persist_language_OpensFirst ==
    /\ todo # <<>> /\ Head(todo) = "language"
    /\ file' = Empty
    /\ IF language \in Code \ {g_lang}
       THEN g_lang' = language /\ todo' = <<"text">> \o Tail(todo)
       ELSE g_lang' = g_lang /\ todo' = Tail(todo)
    /\ UNCHANGED <<language, written, frame, pc, failed, saved>>

\* A language that is a code and not g_lang is copied to g_lang; then the file is
\* opened with "w", which empties it.  A failed fopen is not looked at again.
persist_language ==
    /\ todo # <<>> /\ Head(todo) = "language"
    /\ IF language \in Code \ {g_lang}
       THEN /\ g_lang' = language
            /\ \/ file' = Empty /\ failed' = failed /\ todo' = <<"text">> \o Tail(todo)
               \/ "open" \in Faults /\ file' = file /\ failed' = TRUE /\ todo' = Tail(todo)
       ELSE todo' = Tail(todo) /\ UNCHANGED <<g_lang, file, failed>>
    /\ UNCHANGED <<language, written, frame, pc, saved>>

\* fputs and fclose put the text on the card, or not: nobody looks.
PutText ==
    /\ todo # <<>> /\ Head(todo) = "text" /\ todo' = Tail(todo)
    /\ \/ file' = g_lang /\ saved' = g_lang /\ failed' = FALSE
       \/ "write" \in Faults /\ file' = file /\ saved' = saved /\ failed' = TRUE
    /\ UNCHANGED <<language, g_lang, written, frame, pc>>

save_settings ==
    /\ todo # <<>> /\ Head(todo) = "registry" /\ todo' = Tail(todo)
    /\ written' = TRUE
    /\ UNCHANGED <<language, g_lang, file, frame, pc, failed, saved>>

\* The process ends, at the end of main or because the system kills it.
Ended ==
    /\ pc' = "off" /\ todo' = <<>>
    /\ UNCHANGED <<language, g_lang, file, written, frame, failed, saved>>

Exit == pc = "exit" /\ todo = <<>> /\ Ended
Kill == pc # "off" /\ Ended

Next ==
    \/ load_saved_language \/ applet_hook_fn \/ nativeRender \/ Leave
    \/ persist_language \/ PutText \/ save_settings
    \/ Exit \/ Kill

Spec == Init /\ [][Next]_pvars

-------------------------------------------------------------------------------
(* Properties. *)

TypeOK ==
    /\ language \in Code \cup {OtherForm} /\ g_lang \in Code
    /\ file \in Code \cup {Empty, Absent}
    /\ written \in BOOLEAN /\ failed \in BOOLEAN /\ saved \in Code
    /\ frame \in 0..(RegistryEvery - 1)
    /\ pc \in {"off", "head", "render", "leave", "exit"}
    /\ Len(todo) <= 2 /\ \A i \in DOMAIN todo : todo[i] \in {"language", "text", "registry"}

\* Between two saves the file has what the port believes it has: a change is
\* only missed if a write of this process failed (g_lang is set before fopen).
FileMatches ==
    pc # "off" /\ (todo = <<>> \/ Head(todo) # "text") /\ ~failed => Kept(file) = g_lang

\* Where the loop looks at the language and at the registry, and where main
\* ends, both hold what the player chose: no change waits longer than the two
\* periods, and none is left behind by a clean exit.
CheckpointSaves ==
    todo = <<>> =>
        /\ \/ pc = "exit" \/ (pc = "head" /\ frame % LangEvery = 0)
           => failed \/ language = OtherForm \/ Kept(file) = language
        /\ pc = "exit" \/ (pc = "head" /\ frame = 0) => written

\* "so a change like language survives even if the process is killed abruptly":
\* what a process saved, the next one finds.
SavedLanguageSurvives == pc = "off" => Kept(file) = saved
================================================================================
