------------------------------ MODULE MCMovieAudio ------------------------------
(* MovieAudio on a small instance. *)
EXTENDS MovieAudio

CONSTANTS a, b, silence
================================================================================
