------------------------------ MODULE MCFront -------------------------------
(***************************************************************************)
(* The windows: the results and the ignore list (ResultView, IgnoreList),  *)
(* the details of a picture (Details), the reports about the results and   *)
(* the deletion dialog (Reports).  What one of them needs of another is in *)
(* its own module, in little: a behaviour is one of a part.                *)
(***************************************************************************)
EXTENDS ResultView, Details, Reports, TLC

CONSTANT K
MCClassOf == [p \in Path |-> K]
MCFilterText == {{2}}

\* A group with two pictures of one size, one of another and two that go alone.
CONSTANTS R, A, B, X, Y, G, H
MCGroupOf == (R :> G @@ A :> G @@ B :> G @@ X :> H @@ Y :> H)
MCSizeOf == (R :> <<1, 1>> @@ A :> <<1, 1>> @@ B :> <<2, 1>> @@ X :> <<1, 1>> @@ Y :> <<1, 1>>)

\* Two folders with a subfolder each, one of the subfolders a reference.
CONSTANTS A1, A2, B1, B2, B3, Top, Old, OldRef, New, NewSub
MCParent == (Top :> Top @@ Old :> Top @@ OldRef :> Old @@ New :> Top @@ NewSub :> New)
MCFolderOf == (A1 :> Old @@ A2 :> OldRef @@ B1 :> NewSub @@ B2 :> NewSub @@ B3 :> New)
MCNameOf == (A1 :> "one" @@ A2 :> "two" @@ B1 :> "one" @@ B2 :> "three" @@ B3 :> "four")

Uniform(ref, in, evidence) ==
  [ref |-> ref, members |-> in, uniform |-> TRUE, pairs |-> [pair \in PairsIn(in) |-> evidence]]
Mixed(ref, in, odd, evidence) ==
  [ref |-> ref, members |-> in, uniform |-> FALSE,
   pairs |-> [pair \in PairsIn(in) |-> IF pair = odd THEN evidence ELSE "full"]]

MCScanResults ==
  { {Uniform(A1, {A1, B1}, "full"), Uniform(A2, {A2, B2}, "sampled")},
    {Mixed(B1, {A1, B1, B3}, {B1, B3}, "likeness"), Uniform(A2, {A2, B2}, "full")} }
\* Copies in one folder.
MCInOneFolder == {{Uniform(B1, {B1, B2, B3}, "full")}}

VARIABLE part
Parts == {"view", "ignored", "details", "reports"}

vars == <<part, viewVars, detailVars, reportVars>>

Init ==
  /\ part \in Parts
  /\ ViewInit /\ DetailsInit /\ ReportsInit
  /\ part # "details" => refOf = [g \in Group |-> IF g = G THEN R ELSE X]

Next ==
  /\ UNCHANGED part
  /\ \/ part = "view" /\ ViewNext /\ UNCHANGED <<detailVars, reportVars>>
     \/ /\ part = "ignored" /\ IgnoreNext
        /\ UNCHANGED <<found, marks, tableVars, modeVars, work, unseen, together, apartNow, jobs>>
        /\ UNCHANGED <<detailVars, reportVars>>
     \/ part = "details" /\ DetailsNext /\ UNCHANGED <<viewVars, reportVars>>
     \/ part = "reports" /\ ReportsNext /\ UNCHANGED <<viewVars, detailVars>>

Spec == Init /\ [][Next]_vars
=============================================================================
