----------------------------- MODULE MusicKeepalive -----------------------------
(***************************************************************************)
(* The game's calls of BASS that the port binds to its own functions       *)
(* (source/imports.c), and bass_music_keepalive, which the render loop     *)
(* calls once a frame to play a music track again that came to its end.    *)
(* BASS itself, its unbound calls and the game are external; the game calls *)
(* BASS in e_nativeRender, on the thread of the loop, so a call and the    *)
(* keepalive do not overlap.  BASS ends a track whenever it likes.         *)
(***************************************************************************)
EXTENDS Naturals

CONSTANTS Music,    \* streams: handles of the class 0x8000xxxx
          Effect,   \* channels of samples
          Null      \* handle 0

ASSUME HandleAssumption == Music \cap Effect = {} /\ Null \notin Music \cup Effect

VARIABLES
    state,          \* BASS: what each channel does; "none" before and after its life
    freed,          \* BASS: handles are not used twice
    s_music_handle, \* the track to keep looping
    word,           \* history: the game's last word on a channel
    current         \* history: the music the game played last and did not end since

mkvars == <<state, freed, s_music_handle, word, current>>

Channel == Music \cup Effect
is_music_stream(h) == h \in Music

Init ==
    /\ state = [h \in Channel |-> "none"] /\ freed = {}
    /\ s_music_handle = Null
    /\ word = [h \in Channel |-> "none"] /\ current = Null

\* BASS gives a new handle: w_BASS_StreamCreateFileUser and its kin forward.
StreamCreate(h) ==
    /\ state[h] = "none" /\ h \notin freed
    /\ state' = [state EXCEPT ![h] = "stopped"]
    /\ word' = [word EXCEPT ![h] = "create"]
    /\ UNCHANGED <<freed, s_music_handle, current>>

\* BASS_StreamFree is not bound: the port does not see it.
StreamFree(h) ==
    /\ state[h] # "none"
    /\ state' = [state EXCEPT ![h] = "none"]
    /\ freed' = freed \cup {h}
    /\ word' = [word EXCEPT ![h] = "free"]
    /\ current' = IF current = h THEN Null ELSE current
    /\ UNCHANGED s_music_handle

\* BASS_ChannelPlay and BASS_ChannelIsActive, of a channel that may be gone.
r_play(h) == IF state[h] = "none" THEN state ELSE [state EXCEPT ![h] = "playing"]
r_isactive(h) == IF state[h] = "none" THEN "stopped" ELSE state[h]

\* Mutant: the first track is kept, also when another is played.
w_BASS_ChannelPlay_KeepsFirst(h) ==
    /\ state[h] # "none"
    /\ s_music_handle' = IF is_music_stream(h) /\ s_music_handle = Null
                         THEN h ELSE s_music_handle
    /\ state' = r_play(h)
    /\ word' = [word EXCEPT ![h] = "play"]
    /\ current' = IF is_music_stream(h) THEN h ELSE current
    /\ freed' = freed

w_BASS_ChannelPlay(h) ==
    /\ state[h] # "none"
    /\ s_music_handle' = IF is_music_stream(h) THEN h ELSE s_music_handle
    /\ state' = r_play(h)
    /\ word' = [word EXCEPT ![h] = "play"]
    /\ current' = IF is_music_stream(h) THEN h ELSE current
    /\ freed' = freed

\* Mutant: the track is not forgotten.
w_BASS_ChannelStop_Remembers(h) ==
    /\ state[h] # "none"
    /\ state' = [state EXCEPT ![h] = "stopped"]
    /\ word' = [word EXCEPT ![h] = "stop"]
    /\ current' = IF current = h THEN Null ELSE current
    /\ UNCHANGED <<freed, s_music_handle>>

w_BASS_ChannelStop(h) ==
    /\ state[h] # "none"
    /\ s_music_handle' = IF h = s_music_handle THEN Null ELSE s_music_handle
    /\ state' = [state EXCEPT ![h] = "stopped"]
    /\ word' = [word EXCEPT ![h] = "stop"]
    /\ current' = IF current = h THEN Null ELSE current
    /\ freed' = freed

\* BASS_ChannelPause is not bound.
ChannelPause(h) ==
    /\ state[h] = "playing"
    /\ state' = [state EXCEPT ![h] = "paused"]
    /\ word' = [word EXCEPT ![h] = "pause"]
    /\ UNCHANGED <<freed, s_music_handle, current>>

\* A channel comes to its end.
End(h) ==
    /\ state[h] = "playing"
    /\ state' = [state EXCEPT ![h] = "stopped"]
    /\ UNCHANGED <<freed, s_music_handle, word, current>>

bass_music_keepalive ==
    /\ state' = IF s_music_handle # Null /\ r_isactive(s_music_handle) = "stopped"
                THEN r_play(s_music_handle) ELSE state
    /\ UNCHANGED <<freed, s_music_handle, word, current>>

\* The calls the game makes.
GameCall ==
    \E h \in Channel :
       \/ StreamCreate(h) \/ StreamFree(h)
       \/ w_BASS_ChannelPlay(h) \/ w_BASS_ChannelStop(h) \/ ChannelPause(h)

Next == GameCall \/ (\E h \in Channel : End(h)) \/ bass_music_keepalive

\* The loop comes round.
Spec == Init /\ [][Next]_mkvars /\ WF_mkvars(bass_music_keepalive)

-------------------------------------------------------------------------------
(* Properties. *)

TypeOK ==
    /\ state \in [Channel -> {"none", "stopped", "playing", "paused"}]
    /\ freed \in SUBSET {h \in Channel : state[h] = "none"}
    /\ s_music_handle \in Music \cup {Null} /\ current \in Music \cup {Null}
    /\ word \in [Channel -> {"none", "create", "play", "stop", "pause", "free"}]

\* "as opposed to the game stopping it for a level change": what sounds, the
\* game's last word was to play.  A track that was stopped or paused, or was
\* not started yet, is never started by the loop.
OnlyWhatWasPlayed == \A h \in Channel : state[h] = "playing" => word[h] = "play"

\* The music played last has come to its end.
Ended(h) == current = h /\ state[h] = "stopped"
================================================================================
