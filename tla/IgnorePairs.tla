----------------------------- MODULE IgnorePairs ----------------------------
(***************************************************************************)
(* What an ignore list promises: a set of pairs whose order says nothing,  *)
(* its size, and the copy that the next session starts from.               *)
(***************************************************************************)
EXTENDS FiniteSets

CONSTANT Path
VARIABLES apart, size, stored

Pair == {p \in SUBSET Path : Cardinality(p) = 2}

PairsInit == apart = {} /\ size = 0 /\ stored = {}

Change(pairs) == apart' = pairs /\ size' = Cardinality(pairs)
Add == \E more \in SUBSET Pair : Change(apart \cup more) /\ UNCHANGED stored
Drop == \E fewer \in SUBSET Pair : Change(apart \ fewer) /\ UNCHANGED stored
Keep == stored' = apart /\ UNCHANGED <<apart, size>>
Restart == Change(stored) /\ UNCHANGED stored

PairsNext == Add \/ Drop \/ Keep \/ Restart
PairsSpec == PairsInit /\ [][PairsNext]_<<apart, size, stored>>
=============================================================================
