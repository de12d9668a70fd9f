--------------------------------- MODULE MCSaves ---------------------------------
(***************************************************************************)
(* What the port does with files - Persistence, PointerSettings and the    *)
(* mappings of FileMaps - on small instances.  They share no state, so a   *)
(* behaviour runs one of them, chosen at its start, while the others rest. *)
(***************************************************************************)
EXTENDS Persistence, PointerSettings, FileMaps

VARIABLE part     \* which of the three runs

vars == <<pvars, svars, fmvars, part>>

Devices == {"stick", "mouse"}

MCInit == Init /\ SettingsInit /\ MapsInit /\ part \in {"language", "settings", "maps"}

MCNext ==
    /\ part' = part
    /\ \/ part = "language" /\ Next /\ UNCHANGED <<svars, fmvars>>
       \/ part = "settings" /\ SettingsNext /\ UNCHANGED <<pvars, fmvars>>
       \/ part = "maps" /\ MapsNext /\ UNCHANGED <<pvars, svars>>

\* The fairness of PointerSettings, where it runs.
MCFairness ==
    /\ WF_svars(part = "settings" /\ nxp_update)
    /\ WF_svars(part = "settings" /\ nxp_save_settings)

MCSpec == MCInit /\ [][MCNext]_vars /\ MCFairness
==================================================================================
