------------------------------- MODULE MCMainLoop -------------------------------
(* MainLoop on a small instance: its constants are given in the cfg. *)
EXTENDS MainLoop
================================================================================
