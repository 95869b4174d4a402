----------------------------- MODULE MCResults ------------------------------
(***************************************************************************)
(* The results of a scan (Results), on two contents: three copies of one,  *)
(* two of the other, one of which lies in a reference folder.  Beside      *)
(* them, what was deleted from them (Restore) and the preferences and      *)
(* profiles a scan runs with (Settings): a behaviour is one of a part.     *)
(***************************************************************************)
EXTENDS Results, Restore, Settings, TLC

CONSTANTS a1, a2, a3, b1, b2, A, B, s1, s2, s3, x1, x2

MCFile == {a1, a2, a3, b1, b2}
MCRefFile == {b1}
MCGroup == {A, B}
MCGroupFor == [f \in MCFile |-> IF f \in {b1, b2} THEN B ELSE A]

\* A filter that shows part of both groups, and one that matches nothing.
MCPattern == {{a2, b2}, {}}
MCSelection == {{a2}, {a1, b2}, {a2, a3}, MCFile}
MCScan == {MCFile, {a1, a2, a3}, {a2, a3}, {b1, b2}}

VARIABLE part
Parts == {"results", "restore", "settings"}

MCInit ==
  /\ part \in Parts /\ Init /\ RestoreInit /\ SettingsInit
  /\ disk[1] = x1  \* the two contents are alike
  /\ part # "restore" => platform = "other" /\ disk[2] = x1
MCNext ==
  /\ UNCHANGED part
  /\ \/ part = "results" /\ Next /\ UNCHANGED <<restoreVars, settingsVars>>
     \/ part = "restore" /\ RestoreNext /\ UNCHANGED <<vars, settingsVars>>
     \/ part = "settings" /\ SettingsNext /\ UNCHANGED <<vars, restoreVars>>
MCSpec == MCInit /\ [][MCNext]_<<part, vars, restoreVars, settingsVars>>
=============================================================================
