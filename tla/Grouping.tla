------------------------------ MODULE Grouping ------------------------------
(***************************************************************************)
(* How a scan turns what matches into groups: Scanner.get_dupe_groups      *)
(* (core/scanner.py) from the classes or pairs its matcher found, and      *)
(* get_groups with Group.add_match and discard_matches (core/engine.py).   *)
(* A contents scan makes groups of whole classes of identical files; what  *)
(* a filter has broken, and every other scan, is grouped pair by pair.     *)
(* Every stage can run out of memory and goes on with what it has.  Files  *)
(* are the places they have in the lists; a match is the set of its two    *)
(* files.  The order inside a group is left to module Results.             *)
(***************************************************************************)
EXTENDS Integers, FiniteSets, Sequences

CONSTANTS
  File,     \* files given to the scan, by their place
  RefFile,  \* those whose is_ref is set
  Scan      \* what a scan can meet, see ScanAssumption

Pair == {p \in SUBSET File : \E f, g \in File : f # g /\ p = {f, g}}

\* A contents scan has classes: sets of identical files that exist and may be
\* mixed.  Any other scan has percentages of the pairs that match.  In both a
\* filter removes the ignored pairs: those of the ignore list, and what full
\* verification refutes.  With full verification a contents scan is pairwise:
\* it goes by pairs from the start.
ASSUME FileAssumption == File \subseteq Nat /\ IsFiniteSet(File) /\ RefFile \subseteq File
ASSUME ScanAssumption == \A s \in Scan :
  /\ DOMAIN s = {"classes", "percentage", "ignored", "pairwise"}
  /\ s.classes \subseteq SUBSET File
  /\ \A c, d \in s.classes : c # d => c \cap d = {}
  /\ DOMAIN s.percentage \subseteq Pair
  /\ \A p \in DOMAIN s.percentage : s.percentage[p] \in 0..100
  /\ s.classes = {} \/ DOMAIN s.percentage = {}
  /\ s.ignored \subseteq Pair
  /\ s.pairwise \in BOOLEAN

VARIABLES
  scan,        \* what this scan meets
  phase,       \* "matching", "expanding", "grouping" or "done"
  intact,      \* intact_classes
  broken,      \* the classes that fall back to pairs
  pending,     \* matches that this loop of get_groups has not reached
  groups,      \* groups, as a sequence of records
  tier,        \* where extra_groups starts in it; 1 in the first loop
  dupe2group,  \* dupe2group or extra_dupe2group: a place in groups, or 0
  truncated,   \* scan_report.truncated
  lost,        \* matches that a stage dropped when it stopped early
  clashed      \* matches skipped between two groups

inputVars == <<scan, intact, broken>>
tierVars  == <<groups, tier, dupe2group, clashed>>
vars == <<inputVars, phase, pending, tierVars, truncated, lost>>

-----------------------------------------------------------------------------
(* Matches.                                                                *)

Lesser(p)  == CHOOSE f \in p : \A g \in p : f <= g
Greater(p) == CHOOSE f \in p : \A g \in p : g <= f

PairsOf(S) == {p \in Pair : p \subseteq S}

\* The filters on matches: two reference files, and the ignore list.
Usable(p) == ~ p \subseteq RefFile /\ p \notin scan.ignored

\* All the matches there are for this scan to find.
Found == {p \in Pair : /\ p \in DOMAIN scan.percentage \/ \E c \in scan.classes : p \subseteq c
                       /\ Usable(p)}

Percentage(p) == IF p \in DOMAIN scan.percentage THEN scan.percentage[p] ELSE 100


\* _split_class: no pair of the class is missing.
IsIntact(c) ==
  /\ ~ scan.pairwise
  /\ \A f, g \in c \cap RefFile : f = g
  /\ PairsOf(c) \cap scan.ignored = {}

\* itertools.combinations lists p no later than q.
ListedBefore(p, q) ==
  \/ Lesser(p) < Lesser(q)
  \/ Lesser(p) = Lesser(q) /\ Greater(p) <= Greater(q)

\* A match the next turn of the loop can take: the sort is by percentage and
\* keeps the order of pairs made from classes; others come in any order.
Foremost(p) ==
  /\ p \in pending
  /\ \A q \in pending : /\ Percentage(q) <= Percentage(p)
                        /\ tier = 1 /\ scan.classes # {} => ListedBefore(p, q)

-----------------------------------------------------------------------------
(* Group.                                                                  *)

GroupRecord ==
  [members: SUBSET File, matches: SUBSET Pair, candidates: [File -> SUBSET File]]

NewGroup == [members    |-> {},
             matches    |-> {},
             candidates |-> [f \in File |-> {}]]


\* add_candidate, for an item that is not a member yet.
AddCandidate(g, item, other) ==
  LET known == g.candidates[item] \cup {other}
  IN  IF item \in g.members THEN g
      ELSE [g EXCEPT !.candidates[item] = known,
                     !.members = IF @ \subseteq known THEN @ \cup {item} ELSE @]

Recorded(g, p) == [g EXCEPT !.matches = @ \cup {p}]
FirstAdded(g, p) == AddCandidate(Recorded(g, p), Lesser(p), Greater(p))

AddMatch(g, p) ==
  IF p \in g.matches THEN g
  ELSE AddCandidate(FirstAdded(g, p), Greater(p), Lesser(p))

\* Mutant: a match stays when one of its files is a member.
DiscardWhollyOutside(g) ==
  [members    |-> g.members,
   matches    |-> {p \in g.matches : p \cap g.members # {}},
   candidates |-> NewGroup.candidates]

\* discard_matches, and what it returns.
Discard(g) ==
  [members    |-> g.members,
   matches    |-> {p \in g.matches : p \subseteq g.members},
   candidates |-> NewGroup.candidates]

\* Mutant: collected when they are gone already.
DiscardedTooLate(g) == {p \in Discard(g).matches : ~ p \subseteq g.members}

Discarded(g) == {p \in g.matches : ~ p \subseteq g.members}

-----------------------------------------------------------------------------
(* Matching.                                                               *)

Init ==
  /\ scan \in Scan
  /\ phase = "matching"
  /\ intact = {} /\ broken = {} /\ pending = {}
  /\ groups = <<>> /\ tier = 1 /\ dupe2group = [f \in File |-> 0]
  /\ truncated = FALSE
  /\ lost = {} /\ clashed = {}

\* content_classes finds these classes, all of them unless memory runs out;
\* each is split or kept.
ClassifyContents ==
  /\ phase = "matching" /\ scan.classes # {}
  /\ phase' = "expanding"
  /\ \E classes \in SUBSET scan.classes :
       /\ intact' = {c \in classes : IsIntact(c)}
       /\ broken' = {c \in classes : ~ IsIntact(c)}
       /\ truncated' = (classes # scan.classes)
       /\ lost' = {p \in Found : \A c \in classes : ~ p \subseteq c}
  /\ UNCHANGED <<scan, pending, tierVars>>

Expandable == {p \in Found : \E c \in broken : p \subseteq c}

\* matches_from_classes, then the filters.
Expand ==
  /\ phase = "expanding"
  /\ phase' = "grouping"
  /\ pending' = Expandable
  /\ UNCHANGED <<inputVars, tierVars, truncated, lost>>

\* Memory runs out at some match.  The scanner gives matches_from_classes a
\* report to tell it only on the pairwise route.
ExpandOverflow ==
  /\ phase = "expanding"
  /\ phase' = "grouping"
  /\ \E p \in Expandable :
       /\ pending' = {q \in Expandable : ~ ListedBefore(p, q)}
       /\ lost' = lost \cup {q \in Expandable : ListedBefore(p, q)}
  /\ truncated' = (truncated \/ scan.pairwise)
  /\ UNCHANGED <<inputVars, tierVars>>

\* getmatches, up to its limit or until memory runs out, then the filters.
MatchWords ==
  /\ phase = "matching" /\ scan.classes = {}
  /\ phase' = "grouping"
  /\ \E kept \in SUBSET DOMAIN scan.percentage :
       /\ pending' = kept \cap Found
       /\ lost' = Found \ kept
       /\ truncated' = (kept # DOMAIN scan.percentage)
  /\ UNCHANGED <<inputVars, tierVars>>

-----------------------------------------------------------------------------
(* get_groups.                                                             *)

Clash(p) ==
  LET fg == dupe2group[Lesser(p)]
      sg == dupe2group[Greater(p)]
  IN  fg # 0 /\ sg # 0 /\ fg # sg

\* The place of target_group, behind the last for a new one.
Target(p) ==
  LET fg == dupe2group[Lesser(p)]
      sg == dupe2group[Greater(p)]
  IN  IF fg # 0 THEN fg ELSE IF sg # 0 THEN sg ELSE Len(groups) + 1

GroupAt(i) == IF i \in DOMAIN groups THEN groups[i] ELSE NewGroup
Put(i, g) == groups' = [j \in DOMAIN groups \cup {i} |-> IF j = i THEN g ELSE groups[j]]

\* Mutant: a clashing match is kept for later.
SkipMatchForNow(p) ==
  /\ phase = "grouping" /\ Foremost(p)
  /\ Clash(p)
  /\ clashed' = clashed \cup {p}
  /\ UNCHANGED <<inputVars, phase, pending, groups, tier, dupe2group, truncated, lost>>

SkipMatch(p) ==
  /\ phase = "grouping" /\ Foremost(p)
  /\ Clash(p)
  /\ clashed' = clashed \cup {p}
  /\ pending' = pending \ {p}
  /\ UNCHANGED <<inputVars, phase, groups, tier, dupe2group, truncated, lost>>

TakeMatch(p) ==
  /\ phase = "grouping" /\ Foremost(p)
  /\ ~ Clash(p)
  /\ dupe2group' = [f \in File |-> IF f \in p THEN Target(p) ELSE dupe2group[f]]
  /\ Put(Target(p), AddMatch(GroupAt(Target(p)), p))
  /\ pending' = pending \ {p}
  /\ UNCHANGED <<inputVars, phase, tier, truncated, lost, clashed>>

\* Where add_match can be when memory runs out.
Interrupted(g, p) ==
  IF p \in g.matches THEN {g} ELSE {g, Recorded(g, p), FirstAdded(g, p)}

\* Memory runs out in the first loop, which drops the rest and goes on to the
\* orphans.  A later loop is not guarded: there the whole scan fails.
Overflow(p) ==
  /\ phase = "grouping" /\ tier = 1 /\ Foremost(p)
  /\ \/ UNCHANGED groups
     \/ /\ ~ Clash(p)
        /\ \E g \in Interrupted(GroupAt(Target(p)), p) : Put(Target(p), g)
  /\ dupe2group' = [f \in File |-> 0]
  /\ pending' = {}
  /\ lost' = lost \cup pending
  /\ truncated' = TRUE
  /\ UNCHANGED <<inputVars, phase, tier, clashed>>

Extra == tier..Len(groups)                     \* the groups of this loop
Taken == UNION {groups[i].members : i \in Extra}


Orphans == {p \in UNION {Discarded(groups[i]) : i \in Extra} : p \cap Taken = {}}

\* The loop is through: its groups discard what did not make it, and what is
\* orphaned goes around once more.
EndTier ==
  /\ phase = "grouping" /\ pending = {}
  /\ groups' = [i \in DOMAIN groups |-> IF i \in Extra THEN Discard(groups[i]) ELSE groups[i]]
  /\ dupe2group' = [f \in File |-> 0]
  /\ pending' = Orphans
  /\ IF Orphans = {} THEN phase' = "done" /\ UNCHANGED tier
                     ELSE tier' = Len(groups) + 1 /\ UNCHANGED phase
  /\ UNCHANGED <<inputVars, truncated, lost, clashed>>

Next ==
  \/ ClassifyContents \/ Expand \/ ExpandOverflow \/ MatchWords
  \/ \E p \in pending : SkipMatch(p) \/ TakeMatch(p) \/ Overflow(p)
  \/ EndTier

\* One thread runs all of it.
Spec == Init /\ [][Next]_vars /\ WF_vars(Next)

-----------------------------------------------------------------------------
(* What the scan returns, once its groups without a deletable file are     *)
(* dropped, and what is expected of it.                                    *)

Returned ==
  {ms \in {groups[i].members : i \in DOMAIN groups} \cup intact : ~ ms \subseteq RefFile}

TypeOK ==
  /\ scan \in Scan
  /\ phase \in {"matching", "expanding", "grouping", "done"}
  /\ intact \subseteq scan.classes /\ broken \subseteq scan.classes
  /\ pending \subseteq Found /\ lost \subseteq Found /\ clashed \subseteq Found
  /\ groups \in Seq(GroupRecord)
  /\ tier \in 1..(Len(groups) + 1)
  /\ dupe2group \in [File -> 0..Len(groups)]
  /\ truncated \in BOOLEAN

\* Any two files of a group match each other, were not both protected and are
\* not in the ignore list, however few matches memory left and in whatever
\* order they came: Group's "ensures that all files in the group match to each
\* other", which get_groups and _split_class reach in different ways.
GroupsAreCliques ==
  \A ms \in Returned : PairsOf(ms) \subseteq Found

\* No file is in two groups, across the loops of get_groups and the classes
\* that never went through it: Results keeps one group per file.
NoFileTwice ==
  /\ \A i, j \in DOMAIN groups : i # j => groups[i].members \cap groups[j].members = {}
  /\ \A c \in intact, i \in DOMAIN groups : c \cap groups[i].members = {}

\* After discard_matches a group's matches are those between its members, all
\* of them: get_match_of finds the match of every dupe, without which
\* core/deletion_plan.py would take a sampled match for a full comparison.
EveryDupeHasItsMatch ==
  phase = "done" => \A i \in DOMAIN groups : groups[i].matches = PairsOf(groups[i].members)

\* What get_groups returns is what its users rely on, at any loop: cliques that
\* are disjoint and know their matches.
GroupsAreTrue == TypeOK /\ GroupsAreCliques /\ NoFileTwice /\ EveryDupeHasItsMatch

\* A match of two files that no group took was skipped between two groups or
\* lost to memory; all the others went through a loop of their own.
OrphansAreRegrouped ==
  phase = "done" =>
    \A p \in Found \ (clashed \cup lost) :
      p \cap UNION {groups[i].members : i \in DOMAIN groups} # {} \/ \E c \in intact : p \subseteq c

\* When memory suffices and none of its pairs is ignored, the deletable files
\* of a class of identical files are all returned in one group, with one
\* reference file if the class has any.
IdenticalFilesMeet ==
  phase = "done" /\ lost = {} =>
    \A c \in scan.classes :
      Cardinality(c) > 1 /\ ~ c \subseteq RefFile /\ PairsOf(c) \cap scan.ignored = {} =>
        \E ms \in Returned : /\ ms \subseteq c
                             /\ c \ RefFile \subseteq ms
                             /\ Cardinality(ms \cap RefFile) = IF c \cap RefFile = {} THEN 0 ELSE 1

\* No match is dropped but for a reason: two groups that clash, memory, a filter.
NothingIsMissed == OrphansAreRegrouped /\ IdenticalFilesMeet

\* The loop over orphans ends for every set of matches.
ScanEnds == <>(phase = "done")
=============================================================================
