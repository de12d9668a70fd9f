----------------------------- MODULE MCPlayerRing -----------------------------
(* PlayerRing on a small instance. *)
EXTENDS PlayerRing

CONSTANTS a, b, silence, f, null

TwoFrames == {a, b}

OneCallback == {f}
===============================================================================
