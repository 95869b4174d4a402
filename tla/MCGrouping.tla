----------------------------- MODULE MCGrouping -----------------------------
(***************************************************************************)
(* Instances of Grouping: every graph of matches on four files, some of    *)
(* two strengths, graphs on six that clash or need several loops, and      *)
(* classes of identical files with two reference files and ignored pairs.  *)
(***************************************************************************)
EXTENDS Grouping

MCFile == 1..6
MCRefFile == {2, 5}

Words(percentage) ==
  [classes |-> {}, percentage |-> percentage, ignored |-> {{1, 6}}, pairwise |-> FALSE]
Contents(classes, ignored, pairwise) ==
  [classes |-> classes, percentage |-> <<>>, ignored |-> ignored, pairwise |-> pairwise]

All100(pairs) == [p \in pairs |-> 100]
PairsIn(S) == {p \in SUBSET S : Cardinality(p) = 2}

\* Any graph on four files.
SmallGraphs == {All100(pairs) : pairs \in SUBSET PairsIn({1, 2, 3, 4})}

\* Two strengths of match on a path with a chord.
TwoStrengths == [{{1, 3}, {3, 4}, {1, 4}, {4, 6}} -> {80, 100}]

\* Files 3 and 6 are candidates of two groups and match each other.
Clashing == All100({{1, 2}, {1, 3}, {4, 5}, {4, 6}, {3, 6}})

\* Three loops: 1 and 2 hold four files that match 1 only, two of them in turn
\* hold the last two.
Layered == [p \in {{1, 2}, {1, 3}, {1, 4}, {1, 5}, {3, 4}, {3, 5}, {3, 6}, {5, 6}, {1, 6}} |->
              IF p = {1, 2} THEN 100 ELSE IF p = {3, 4} THEN 90 ELSE 80]

MCContentScans ==
  {Contents(classes, ignored, pairwise) :
     classes \in {{1..6}, {{1, 2, 3, 5}, {4, 6}}, {1..3, {5, 6}}},
     ignored \in {{}, {{1, 3}}, {{1, 4}, {4, 6}}, {{1, 3}, {1, 4}, {2, 3}, {2, 4}}},
     pairwise \in BOOLEAN}

MCScan == {Words(s) : s \in SmallGraphs \cup TwoStrengths \cup {Clashing, Layered}} \cup MCContentScans
=============================================================================
