----------------------------- MODULE MCPersistence -----------------------------
(* Persistence on a small instance: its constants are given in the cfgs. *)
EXTENDS Persistence
================================================================================
