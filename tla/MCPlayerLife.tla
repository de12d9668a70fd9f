------------------------------ MODULE MCPlayerLife ------------------------------
(* PlayerLife on a small instance: its constants are given in the cfg. *)
EXTENDS PlayerLife
================================================================================
