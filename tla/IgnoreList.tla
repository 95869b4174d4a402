----------------------------- MODULE IgnoreList -----------------------------
(***************************************************************************)
(* The ignore list (core/ignore.py, core/gui/ignore_list_dialog.py): pairs *)
(* of paths the user never wants to see together again.  A pair is kept in *)
(* either direction, under whichever path was there first, and the number  *)
(* of pairs is counted by hand.                                            *)
(***************************************************************************)
EXTENDS Naturals, Sequences, FiniteSets, SequencesExt

CONSTANTS
  Path,
  PairBound   \* bound: how many pairs are ignored at once

ASSUME IgnoreConstants == IsFiniteSet(Path) /\ PairBound \in Nat

VARIABLES
  ignoreList,   \* _ignored, as the pairs <<key, member of its set>>, and _count
  ignoreStored  \* ignore_list.xml

ignoreVars == <<ignoreList, ignoreStored>>

EmptyList == [pairs |-> {}, count |-> 0]
IsKey(list, first) == \E pair \in list.pairs : pair[1] = first

AreIgnored(list, first, second) ==
  <<first, second>> \in list.pairs \/ <<second, first>> \in list.pairs

\* IgnoreList.ignore
Ignoring(list, first, second) ==
  IF AreIgnored(list, first, second) THEN list
  ELSE [pairs |-> list.pairs \cup
                    {IF IsKey(list, first) \/ ~IsKey(list, second)
                     THEN <<first, second>> ELSE <<second, first>>},
        count |-> list.count + 1]
IgnoringEach(list, pairs) ==
  LET after[n \in 0..Len(pairs)] ==
        IF n = 0 THEN list ELSE Ignoring(after[n - 1], pairs[n][1], pairs[n][2])
  IN  after[Len(pairs)]

\* Mutant: the pairs go and the count stays.
RemovingUncounted(list, rows) == [list EXCEPT !.pairs = @ \ rows]
\* IgnoreList.remove of each row of the dialog's table: a row is there as it is stored.
Removing(list, rows) == [pairs |-> list.pairs \ rows, count |-> list.count - Cardinality(rows)]

\* The orders a dict of sets can be gone through: one key after another.
Iterations(list) ==
  {s \in SetToSeqs(list.pairs) :
     \A i, j, k \in 1..Len(s) : i < j /\ j < k /\ s[i][1] = s[k][1] => s[j][1] = s[i][1]}

-----------------------------------------------------------------------------
Ignore(pairs) ==
  /\ ignoreList' = IgnoringEach(ignoreList, pairs)
  /\ Cardinality(ignoreList'.pairs) <= PairBound
  /\ UNCHANGED ignoreStored

\* IgnoreListDialog.remove_selected
RemoveRows(rows) ==
  /\ rows # {} /\ rows \subseteq ignoreList.pairs
  /\ ignoreList' = Removing(ignoreList, rows)
  /\ UNCHANGED ignoreStored

\* IgnoreListDialog.clear
ClearIgnoreList ==
  /\ ignoreList.count > 0
  /\ ignoreList' = EmptyList /\ UNCHANGED ignoreStored

\* purge_ignore_list, through filter: what names a path that is gone is dropped, and the
\* rest is put into a new list.
Purge(missing) ==
  /\ \E s \in Iterations([ignoreList EXCEPT !.pairs = {p \in @ : {p[1], p[2]} \cap missing = {}}]) :
       ignoreList' = IgnoringEach(EmptyList, s)
  /\ UNCHANGED ignoreStored

\* The session ends, and the list is saved with it.
SaveIgnoreList == ignoreStored' = ignoreList.pairs /\ UNCHANGED ignoreList
\* load_from_xml of a new list; after a crash the file is the one of the session before.
LoadIgnoreList ==
  /\ \E s \in Iterations([EmptyList EXCEPT !.pairs = ignoreStored]) :
       ignoreList' = IgnoringEach(EmptyList, s)
  /\ UNCHANGED ignoreStored

IgnoreInit == ignoreList = EmptyList /\ ignoreStored = {}
IgnoreNext ==
  \/ \E first, second \in Path : first # second /\ Ignore(<<<<first, second>>>>)
  \/ \E rows \in SUBSET ignoreList.pairs : RemoveRows(rows)
  \/ ClearIgnoreList
  \/ \E missing \in SUBSET Path : Purge(missing)
  \/ SaveIgnoreList \/ LoadIgnoreList
IgnoreSpec == IgnoreInit /\ [][IgnoreNext]_ignoreVars

-----------------------------------------------------------------------------
Unordered(pairs) == {{pair[1], pair[2]} : pair \in pairs}

Promised == INSTANCE IgnorePairs
  WITH apart <- Unordered(ignoreList.pairs), size <- ignoreList.count,
       stored <- Unordered(ignoreStored)

\* Whatever sequence of additions, removals, clean-ups, saves and restarts it goes through, the
\* list is a set of unordered pairs: no pair is kept twice, and the count that the scanner takes
\* for its truth value is the number of pairs.
IgnoreListKeepsPairs == Promised!PairsSpec
=============================================================================
