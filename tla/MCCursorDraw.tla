------------------------------ MODULE MCCursorDraw ------------------------------
(* CursorDraw on a small instance: its constants are given in the cfg. *)
EXTENDS CursorDraw
=================================================================================
