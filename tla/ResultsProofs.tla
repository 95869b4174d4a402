--------------------------- MODULE ResultsProofs ----------------------------
(***************************************************************************)
(* Proofs about module Results, for any set of files, groups and filters.  *)
(* The inductive invariant is the type invariant with the agreement of the *)
(* group list, the groups, the file-to-group map and the filtered lists;   *)
(* that every listed file is on disk and that a copy of each content is    *)
(* left follow step by step from it.                                       *)
(***************************************************************************)
EXTENDS Results, TLAPS, FiniteSetTheorems, FunctionTheorems

\* A set of listed files without any reference: what a removal may be given.
Removable(D) == \A f \in D : f \in File /\ groupOf[f] # NoGroup /\ f # ref[groupOf[f]]

\* The sizes the counters add up are natural numbers.
LEMMA SubsetSize ==
  ASSUME NEW S \in SUBSET File
  PROVE  Cardinality(S) \in Nat
BY FileAssumption, FS_Subset, FS_CardinalityType

\* Whatever the groups and the filter, only files can be counted.
LEMMA DupesAreFiles ==
  ASSUME members \in [Group -> SUBSET File], filteredGroups \in SUBSET Group
  PROVE  /\ Groups \in SUBSET Group
         /\ UNION {Dupes(g) : g \in Groups} \in SUBSET File
         /\ Listed \in SUBSET File
         /\ FreshDupes \in SUBSET File
BY DEF Groups, Dupes, Listed, FreshDupes

\* What an operation on the marked removes is listed and no group's reference.
LEMMA TargetsAreRemovable ==
  ASSUME TypeOK
  PROVE  Targets \in SUBSET File /\ Removable(Targets)
<1>1. DupesRead \in SUBSET File
  BY DupesAreFiles DEF TypeOK, DupesRead
<1> QED BY <1>1 DEF Targets, IsMarked, IsMarkable, Removable

\* So is what an operation on the selection removes.
LEMMA SelectionIsRemovable ==
  ASSUME TypeOK, GroupsAgree, FilterAgrees, NEW S \in Selection, S \subseteq Listed
  PROVE  LET selected == {f \in S : ref[groupOf[f]] # f}
         IN  selected \in SUBSET File /\ Removable(selected)
<1>1. \A f \in S : f \in File /\ groupOf[f] \in Group
  BY FileAssumption, InputAssumption, DupesAreFiles DEF Listed, Groups, TypeOK, GroupsAgree,
         FilterAgrees
<1> QED BY <1>1, FileAssumption DEF Removable

-----------------------------------------------------------------------------
(* How the shared steps change the groups.                                 *)

\* A prioritization exchanges references inside their groups.
LEMMA PrioritizedAgrees ==
  ASSUME TypeOK, GroupsAgree, FilterAgrees, NEW lead, Prioritized(lead),
         members' = members, groupOf' = groupOf
  PROVE  ref' \in [Group -> File \cup {NoFile}] /\ GroupsAgree'
<1>1. Groups \in SUBSET Group /\ Listed \in SUBSET File
  BY DupesAreFiles DEF TypeOK
<1>2. \A g \in Groups : lead[g] \in members[g] /\ lead[g] \in File
  BY <1>1 DEF Prioritized, CanLead, TypeOK
<1>3. ref' = [g \in Group |-> IF g \in Groups THEN lead[g] ELSE ref[g]]
  BY DEF Prioritized
<1>4. ref' \in [Group -> File \cup {NoFile}]
  BY <1>1, <1>2, <1>3 DEF TypeOK
<1>5. ASSUME NEW g \in Group, g \in Groups
      PROVE  /\ members[g] # {} /\ ref'[g] \in members[g] /\ members[g] # {ref'[g]}
             /\ members[g] \cap RefFile \subseteq {ref'[g]}
  <2>1. ref'[g] = lead[g] /\ lead[g] \in members[g] /\ CanLead(members[g], lead[g])
    BY <1>2, <1>3, <1>5 DEF Prioritized
  <2>2. ref[g] \in members[g] /\ members[g] # {ref[g]}
          /\ members[g] \cap RefFile \subseteq {ref[g]}
    BY <2>1 DEF GroupsAgree
  <2> QED BY <2>1, <2>2 DEF CanLead
<1>6. \A g \in Group : g \notin Groups => ref'[g] = ref[g]
  BY <1>3
<1> QED BY <1>4, <1>5, <1>6 DEF GroupsAgree

\* What is left of a group: its reference and something else, or nothing.
LEMMA LeftOver ==
  ASSUME TypeOK, GroupsAgree, NEW D, Removable(D), NEW g \in Group
  PROVE  /\ Left(g, D) \subseteq members[g] \ D
         /\ Left(g, D) # {} => /\ Left(g, D) = members[g] \ D
                               /\ ref[g] \in Left(g, D)
                               /\ Left(g, D) # {ref[g]}
         /\ Left(g, D) = {} => members[g] \ D \subseteq {ref[g]}
<1>1. members[g] # {} => ref[g] \in members[g] /\ members[g] # {ref[g]}
  BY DEF GroupsAgree
<1>2. ref[g] \in members[g] => ref[g] \notin D
  BY DEF GroupsAgree, Removable, TypeOK
<1>3. members[g] \cap RefFile \subseteq {ref[g]}
  BY DEF GroupsAgree
<1> QED BY <1>1, <1>2, <1>3 DEF Left

\* Removing such files leaves the groups and the map from files to groups in agreement.
LEMMA RemovalAgrees ==
  ASSUME TypeOK, GroupsAgree, FilterAgrees, NEW D, Removable(D), RemoveFromGroups(D)
  PROVE  /\ members' \in [Group -> SUBSET File]
         /\ \A g \in Group : members'[g] = Left(g, D)
         /\ ref' \in [Group -> File \cup {NoFile}]
         /\ groupOf' \in [File -> Group \cup {NoGroup}]
         /\ GroupsAgree' /\ FilterAgrees'
<1> DEFINE cleared == {g \in Group : members[g] # {} /\ Left(g, D) = {}}
<1>1. /\ members' = [g \in Group |-> Left(g, D)]
      /\ ref' = [g \in Group |-> IF g \in cleared THEN NoFile ELSE ref[g]]
      /\ groupOf' = [f \in File |-> IF f \in D \/ \E g \in cleared : f = ref[g]
                                    THEN NoGroup ELSE groupOf[f]]
      /\ filteredGroups' = filteredGroups \ cleared
      /\ UNCHANGED <<filtering, pattern, filteredDupes>>
  BY DEF RemoveFromGroups
<1>2. members' \in [Group -> SUBSET File] /\ \A g \in Group : members'[g] = Left(g, D)
  BY <1>1, LeftOver DEF TypeOK
<1>3. ref' \in [Group -> File \cup {NoFile}] /\ groupOf' \in [File -> Group \cup {NoGroup}]
  BY <1>1 DEF TypeOK
<1>4. ASSUME NEW g \in Group
      PROVE  /\ members'[g] = {} => ref'[g] = NoFile
             /\ members'[g] # {} => ref'[g] \in members'[g] /\ members'[g] # {ref'[g]}
             /\ members'[g] \subseteq members[g]
             /\ members'[g] \cap RefFile \subseteq {ref'[g]}
  <2>1. CASE members'[g] = {}
    BY <1>1, <1>2, <2>1 DEF GroupsAgree
  <2>2. CASE members'[g] # {}
    <3>1. ref'[g] = ref[g]
      BY <1>1, <1>2, <2>2
    <3> QED BY <1>2, <2>2, <3>1, LeftOver DEF GroupsAgree
  <2> QED BY <2>1, <2>2
<1>5. ASSUME NEW g \in Group, NEW f \in File
      PROVE  f \in members'[g] <=> groupOf'[f] = g
  <2>1. f \in members[g] <=> groupOf[f] = g
    BY DEF GroupsAgree
  <2>2. ASSUME f \in members'[g] PROVE groupOf'[f] = g
    <3>1. f \in members[g] /\ f \notin D /\ g \notin cleared
      BY <1>2, <2>2, LeftOver
    <3>2. \A h \in cleared : ref[h] \in members[h]
      BY DEF GroupsAgree
    <3>3. \A h \in cleared : f # ref[h]
      BY <2>1, <3>1, <3>2 DEF GroupsAgree
    <3> QED BY <1>1, <2>1, <3>1, <3>3
  <2>3. ASSUME groupOf'[f] = g PROVE f \in members'[g]
    <3>1. f \notin D /\ groupOf[f] = g /\ f \in members[g] /\ (g \in cleared => f # ref[g])
      BY <1>1, <2>1, <2>3, FileAssumption
    <3>2. Left(g, D) # {}
      BY <3>1, LeftOver
    <3> QED BY <1>2, <3>1, <3>2, LeftOver
  <2> QED BY <2>2, <2>3
<1>6. GroupsAgree'
  BY <1>4, <1>5, <1>2 DEF GroupsAgree
<1>7. FilterAgrees'
  BY <1>1, <1>2 DEF FilterAgrees, TypeOK
<1> QED BY <1>2, <1>3, <1>6, <1>7

\* apply_filter lists members of groups only, and the groups they are in.
LEMMA FilterLists ==
  ASSUME NEW on \in BOOLEAN, NEW pat \in SUBSET File,
         members' \in [Group -> SUBSET File], groupOf' \in [File -> Group \cup {NoGroup}],
         GroupsAgree', SetFilter(on, pat, members', groupOf')
  PROVE  /\ filtering' \in BOOLEAN /\ pattern' \in SUBSET File
         /\ filteredDupes' \in SUBSET File /\ filteredGroups' \in SUBSET Group
         /\ FilterAgrees'
<1> DEFINE found == IF on THEN pat \cap UNION {members'[g] : g \in Group} ELSE {}
<1>1. /\ filtering' = on /\ pattern' = (IF on THEN pat ELSE {})
      /\ filteredDupes' = found /\ filteredGroups' = {groupOf'[f] : f \in found}
  BY DEF SetFilter
<1>2. \A f \in found : f \in File /\ groupOf'[f] \in Group /\ f \in members'[groupOf'[f]]
  BY DEF GroupsAgree
<1> QED BY <1>1, <1>2 DEF FilterAgrees

\* The new total of a recalculation counts files.
LEMMA RecalculatedTotal ==
  ASSUME members' \in [Group -> SUBSET File], filteredGroups' \in SUBSET Group,
         RecalculateStats
  PROVE  totalCount' \in Int
<1> DEFINE all == UNION {Dupes(g) : g \in Groups}
<1>1. Markable(all)' \in SUBSET File
  BY DEF Groups, Dupes, Markable
<1>2. Cardinality(Markable(all)') \in Nat
  BY <1>1, SubsetSize
<1> QED BY <1>2 DEF RecalculateStats

\* The files of L come with a duplicate, one of a reference folder at most.
ListsDuplicates(L) ==
  /\ \A x \in L : \E f \in L \ {x} : GroupFor[f] = GroupFor[x]
  /\ \A x, f \in L \cap RefFile : GroupFor[x] = GroupFor[f] => x = f

\* A scan or a file of results sets groups that agree with their files.
LEMMA SetGroupsAgrees ==
  ASSUME NEW L \in SUBSET File, NEW lead \in [Group -> L \cup {NoFile}], NEW on \in BOOLEAN,
         ListsDuplicates(L),
         TypeOK, SetGroups(L, lead, on)
  PROVE  /\ members' \in [Group -> SUBSET File]
         /\ \A g \in Group : members'[g] \subseteq L
         /\ ref' \in [Group -> File \cup {NoFile}]
         /\ groupOf' \in [File -> Group \cup {NoGroup}]
         /\ filtering' \in BOOLEAN /\ pattern' \in SUBSET File
         /\ filteredDupes' \in SUBSET File /\ filteredGroups' \in SUBSET Group
         /\ totalCount' \in Int
         /\ GroupsAgree' /\ FilterAgrees'
<1>1. /\ members' = [g \in Group |-> Contained(L, g)]
      /\ ref' = lead
      /\ groupOf' = [f \in File |-> IF f \in L THEN GroupFor[f] ELSE NoGroup]
      /\ SetFilter(on, pattern, members', groupOf')
      /\ RecalculateStats
      /\ \A g \in Group : IF Contained(L, g) = {} THEN lead[g] = NoFile
                                                  ELSE CanLead(Contained(L, g), lead[g])
  BY DEF SetGroups
<1>2. members' \in [Group -> SUBSET File] /\ \A g \in Group : members'[g] \subseteq L
  BY <1>1 DEF Contained
<1>3. ref' \in [Group -> File \cup {NoFile}] /\ groupOf' \in [File -> Group \cup {NoGroup}]
  BY <1>1, FileAssumption
<1>4. ASSUME NEW g \in Group
      PROVE  /\ members'[g] = {} => ref'[g] = NoFile
             /\ members'[g] # {} => ref'[g] \in members'[g] /\ members'[g] # {ref'[g]}
             /\ \A f \in File : f \in members'[g] <=> groupOf'[f] = g
             /\ \A f \in members'[g] : GroupFor[f] = g
             /\ members'[g] \cap RefFile \subseteq {ref'[g]}
  <2>1. members'[g] = Contained(L, g) /\ ref'[g] = lead[g]
    BY <1>1
  <2>2. \A f \in File : f \in members'[g] <=> groupOf'[f] = g
    BY <1>1, <2>1, FileAssumption DEF Contained
  <2>3. CASE Contained(L, g) = {}
    BY <1>1, <2>1, <2>2, <2>3
  <2>4. CASE Contained(L, g) # {}
    <3>1. CanLead(Contained(L, g), lead[g])
      BY <1>1, <2>4
    <3>2. PICK f \in L \ {lead[g]} : GroupFor[f] = GroupFor[lead[g]]
      BY <3>1 DEF CanLead, Contained, ListsDuplicates
    <3>3. f \in Contained(L, g) /\ f # lead[g]
      BY <3>1, <3>2 DEF CanLead, Contained
    <3>4. Contained(L, g) \cap RefFile \subseteq {lead[g]}
      BY <3>1 DEF CanLead, Contained, ListsDuplicates
    <3> QED BY <2>1, <2>2, <3>1, <3>3, <3>4 DEF CanLead, Contained
  <2> QED BY <2>3, <2>4
<1>5. GroupsAgree'
  BY <1>4 DEF GroupsAgree
<1>6. /\ filtering' \in BOOLEAN /\ pattern' \in SUBSET File
      /\ filteredDupes' \in SUBSET File /\ filteredGroups' \in SUBSET Group
      /\ FilterAgrees'
  BY <1>1, <1>2, <1>3, <1>5, FilterLists DEF TypeOK
<1>7. totalCount' \in Int
  BY <1>1, <1>2, <1>6, RecalculatedTotal
<1> QED BY <1>2, <1>3, <1>5, <1>6, <1>7

-----------------------------------------------------------------------------
(* The inductive invariant, action by action.                              *)

Core == TypeOK /\ GroupsAgree /\ FilterAgrees

\* Marking, unmarking and toggling many files marks files.
LEMMA MarksAreFiles ==
  ASSUME TypeOK, NEW S \in SUBSET File
  PROVE  MarkEach(S) \in SUBSET File /\ UnmarkEach(S) \in SUBSET File
         /\ ToggleEach(S) \in SUBSET File
BY DEF TypeOK, MarkEach, UnmarkEach, ToggleEach, Markable

\* Empty results have the invariants.
LEMMA InitCore == Init => Core /\ ListedOnDisk /\ KeepsOneCopy /\ DupesAreCurrent
<1> SUFFICES ASSUME Init PROVE Core /\ ListedOnDisk /\ KeepsOneCopy /\ DupesAreCurrent
  OBVIOUS
<1>1. TypeOK
  <2>1. filtering \in BOOLEAN /\ stale \in BOOLEAN /\ inverted \in BOOLEAN
    BY Zenon DEF Init
  <2>2. /\ members \in [Group -> SUBSET File] /\ ref \in [Group -> File \cup {NoFile}]
        /\ groupOf \in [File -> Group \cup {NoGroup}]
    BY DEF Init
  <2> QED BY <2>1, <2>2 DEF Init, TypeOK
<1>2. GroupsAgree /\ FilterAgrees /\ ListedOnDisk
  BY FileAssumption DEF Init, GroupsAgree, FilterAgrees, ListedOnDisk
<1>3. KeepsOneCopy /\ DupesAreCurrent
  BY DEF Init, KeepsOneCopy, DupesAreCurrent
<1> QED BY <1>1, <1>2, <1>3 DEF Core

\* Changing only the marks changes nothing the other parts read.
LEMMA OnlyMarks ==
  ASSUME Core, UNCHANGED <<filterVars, groupVars, totalCount, listVars, diskVars>>,
         marked' \in SUBSET File, ghosts' \in Nat, inverted' \in BOOLEAN
  PROVE  Core'
BY DEF Core, TypeOK, GroupsAgree, FilterAgrees, filterVars, groupVars, listVars, diskVars

\* A prioritization, with what it does to the marks and the list.
LEMMA OnlyReferences ==
  ASSUME Core, NEW lead, Prioritized(lead),
         UNCHANGED <<filterVars, members, groupOf, totalCount, diskVars>>,
         marked' \in SUBSET File, ghosts' \in Nat, inverted' \in BOOLEAN,
         dupes' \in SUBSET File, stale' \in BOOLEAN
  PROVE  Core'
<1>1. ref' \in [Group -> File \cup {NoFile}] /\ GroupsAgree'
  BY PrioritizedAgrees DEF Core
<1> QED BY <1>1 DEF Core, TypeOK, FilterAgrees, filterVars, diskVars

\* Marking keeps the core and leaves groups and disk alone.
LEMMA MarkingCore ==
  ASSUME Core, Marking
  PROVE  Core' /\ members' = members /\ UNCHANGED diskVars
<1> USE DEF Core
<1>1. ASSUME NEW f \in File, MarkDupe(f) \/ UnmarkDupe(f)
      PROVE  Core' /\ members' = members /\ UNCHANGED diskVars
  <2>1. marked' \in SUBSET File
    BY <1>1, MarksAreFiles DEF MarkDupe, UnmarkDupe
  <2> QED BY <1>1, <2>1, OnlyMarks DEF MarkDupe, UnmarkDupe, TypeOK, groupVars
<1>2. ASSUME NEW S \in Selection, ToggleSelected(S)
      PROVE  Core' /\ members' = members /\ UNCHANGED diskVars
  <2> DEFINE selected == {f \in S : ref[groupOf[f]] # f}
  <2>1. selected \in SUBSET File
    BY InputAssumption
  <2>2. marked' \in SUBSET File
    BY <1>2, <2>1, MarksAreFiles DEF ToggleSelected
  <2> QED BY <1>2, <2>2, OnlyMarks DEF ToggleSelected, TypeOK, groupVars
<1>3. ASSUME NEW tier \in SUBSET Group, MarkConfidence(tier)
      PROVE  Core' /\ members' = members /\ UNCHANGED diskVars
  <2>1. UNION {Dupes(g) : g \in tier} \in SUBSET File
    BY DEF Dupes, TypeOK
  <2>2. marked' \in SUBSET File
    BY <1>3, <2>1, MarksAreFiles DEF MarkConfidence
  <2> QED BY <1>3, <2>2, OnlyMarks DEF MarkConfidence, TypeOK, groupVars
<1>4. ASSUME MarkAll \/ MarkNone \/ MarkInvert
      PROVE  Core' /\ members' = members /\ UNCHANGED diskVars
  <2>1. marked' \in SUBSET File /\ ghosts' \in Nat
    BY <1>4, MarksAreFiles DEF MarkAll, MarkNone, MarkInvert, TypeOK
  <2>2. inverted' \in BOOLEAN
    BY <1>4, Zenon DEF MarkAll, MarkNone, MarkInvert, TypeOK
  <2> QED BY <1>4, <2>1, <2>2, OnlyMarks DEF MarkAll, MarkNone, MarkInvert, groupVars
<1>5. ASSUME NEW lead, MarkByCriterion(lead)
      PROVE  Core' /\ members' = members /\ UNCHANGED diskVars
  <2>1. Markable(filteredDupes)' \in SUBSET File
    BY <1>5 DEF MarkByCriterion, TypeOK, filterVars, Markable
  <2>2. marked' \in SUBSET File /\ ghosts' \in Nat
    BY <1>5, <2>1 DEF MarkByCriterion, TypeOK
  <2>3. inverted' \in BOOLEAN
    BY <1>5, Zenon DEF MarkByCriterion, TypeOK
  <2>4. dupes' \in SUBSET File /\ stale' \in BOOLEAN
    BY <1>5 DEF MarkByCriterion, InvalidateDupes
  <2> QED BY <1>5, <2>2, <2>3, <2>4, OnlyReferences DEF MarkByCriterion, InvalidateDupes
<1> QED BY <1>1, <1>2, <1>3, <1>4, <1>5 DEF Marking

\* A removal whose new marks are files keeps the invariant but for the disk.
LEMMA RemovalCore ==
  ASSUME Core, NEW D \in SUBSET File, Removable(D), RemoveFromGroups(D),
         marked' \in SUBSET File, inverted' \in BOOLEAN,
         gone' \in SUBSET File, stray' \in SUBSET gone'
  PROVE  Core'
<1>1. /\ members' \in [Group -> SUBSET File] /\ ref' \in [Group -> File \cup {NoFile}]
      /\ groupOf' \in [File -> Group \cup {NoGroup}] /\ GroupsAgree' /\ FilterAgrees'
  BY RemovalAgrees DEF Core
<1>2. totalCount' \in Int
  BY SubsetSize DEF RemoveFromGroups, Core, TypeOK
<1> QED BY <1>1, <1>2 DEF Core, TypeOK, RemoveFromGroups, InvalidateDupes

\* Choosing references, prioritizing, filtering and removing from the list only
\* take from groups.
LEMMA ArrangingCore ==
  ASSUME Core, Arranging
  PROVE  Core' /\ (\A g \in Group : members'[g] \subseteq members[g]) /\ UNCHANGED diskVars
<1> USE DEF Core
<1>1. ASSUME NEW f \in File, MakeRef(f)
      PROVE  Core' /\ members' = members /\ UNCHANGED diskVars
  <2>1. /\ groupOf[f] \in Group /\ f \in members[groupOf[f]] /\ f # ref[groupOf[f]]
        /\ ref[groupOf[f]] \notin RefFile
    BY <1>1, DupesAreFiles DEF MakeRef, Listed, Groups, TypeOK, GroupsAgree
  <2>2. members' = members /\ groupOf' = groupOf /\ ref' = [ref EXCEPT ![groupOf[f]] = f]
    BY <1>1 DEF MakeRef
  <2>3. GroupsAgree'
    BY <2>1, <2>2 DEF GroupsAgree, TypeOK
  <2>4. totalCount' \in Int
    BY <1>1 DEF MakeRef, TypeOK
  <2> QED BY <1>1, <2>2, <2>3, <2>4 DEF MakeRef, TypeOK, FilterAgrees, filterVars, diskVars,
                 InvalidateDupes
<1>2. ASSUME NEW lead, Reprioritize(lead)
      PROVE  Core' /\ members' = members /\ UNCHANGED diskVars
  <2>1. dupes' \in SUBSET File /\ stale' \in BOOLEAN
    BY <1>2 DEF Reprioritize, InvalidateDupes, listVars, TypeOK
  <2> QED BY <1>2, <2>1, OnlyReferences DEF Reprioritize, markVars, TypeOK
<1>3. ASSUME NEW on \in BOOLEAN, NEW pat \in SUBSET File,
             SetFilter(on, pat, members, groupOf), UNCHANGED <<markVars, groupVars, diskVars>>,
             RecalculateStats, InvalidateDupes
      PROVE  Core' /\ members' = members /\ UNCHANGED diskVars
  <2>1. /\ members' = members /\ groupOf' = groupOf /\ ref' = ref
        /\ GroupsAgree' /\ SetFilter(on, pat, members', groupOf')
    BY <1>3 DEF groupVars, GroupsAgree
  <2>2. /\ filtering' \in BOOLEAN /\ pattern' \in SUBSET File
        /\ filteredDupes' \in SUBSET File /\ filteredGroups' \in SUBSET Group /\ FilterAgrees'
    BY <2>1, FilterLists DEF TypeOK
  <2>3. totalCount' \in Int
    BY <1>3, <2>1, <2>2, RecalculatedTotal DEF TypeOK
  <2> QED BY <1>3, <2>1, <2>2, <2>3 DEF TypeOK, markVars, diskVars, InvalidateDupes
<1>4. ASSUME ListDupes
      PROVE  Core' /\ members' = members /\ UNCHANGED diskVars
  <2>1. dupes' \in SUBSET File /\ stale' \in BOOLEAN
    BY <1>4, DupesAreFiles DEF ListDupes, ReadDupes, DupesRead, TypeOK
  <2> QED BY <1>4, <2>1 DEF ListDupes, TypeOK, GroupsAgree, FilterAgrees,
                            markVars, filterVars, groupVars, diskVars
<1>5. ASSUME NEW S \in Selection, RemoveSelected(S)
      PROVE  Core' /\ (\A g \in Group : members'[g] \subseteq members[g]) /\ UNCHANGED diskVars
  <2> DEFINE selected == {f \in S : ref[groupOf[f]] # f}
  <2>1. selected \in SUBSET File /\ Removable(selected) /\ RemoveFromGroups(selected)
    BY <1>5, SelectionIsRemovable DEF RemoveSelected
  <2>2. marked' \in SUBSET File /\ inverted' \in BOOLEAN /\ UNCHANGED diskVars
    BY <1>5 DEF RemoveSelected, TypeOK
  <2>3. Core'
    BY <2>1, <2>2, RemovalCore DEF TypeOK, diskVars
  <2> QED BY <2>1, <2>2, <2>3, RemovalAgrees, LeftOver
<1>6. ASSUME NEW pat \in Pattern, ApplyFilter(pat)
      PROVE  Core' /\ members' = members /\ UNCHANGED diskVars
  BY <1>3, <1>6, InputAssumption DEF ApplyFilter
<1>7. ASSUME ClearFilter
      PROVE  Core' /\ members' = members /\ UNCHANGED diskVars
  <2>1. {} \in SUBSET File /\ FALSE \in BOOLEAN
    OBVIOUS
  <2>2. /\ SetFilter(FALSE, {}, members, groupOf) /\ UNCHANGED <<markVars, groupVars, diskVars>>
        /\ RecalculateStats /\ InvalidateDupes
    BY <1>7 DEF ClearFilter
  <2> QED BY <1>3, <2>1, <2>2
<1> QED BY <1>1, <1>2, <1>4, <1>5, <1>6, <1>7 DEF Arranging

\* What a deletion does to the disk and to the groups: it takes targets only,
\* and those still listed afterwards are the strays.
LEMMA DeletionFacts ==
  ASSUME Core, NEW problem \in SUBSET Targets, NEW late \in SUBSET problem,
         DeleteMarked(problem, late)
  PROVE  /\ Core'
         /\ gone \subseteq gone' /\ gone' \subseteq gone \cup Targets
         /\ stray \subseteq stray' /\ stray' \ stray \subseteq gone' \ gone
         /\ \A g \in Group : members'[g] \subseteq members[g] \ (gone' \ (gone \cup stray'))
<1> USE DEF Core
<1> DEFINE done == Targets \ problem
<1>1. Targets \in SUBSET File /\ done \in SUBSET File /\ Removable(done)
  BY TargetsAreRemovable DEF Removable
<1>2. /\ RemoveFromGroups(done) /\ Remark(done, problem) /\ late \subseteq problem \ gone
      /\ gone' = gone \cup done \cup late /\ stray' = stray \cup late
  BY DEF DeleteMarked, PerformAndRemove, LeaveDisk
<1>3. gone' \in SUBSET File /\ stray' \in SUBSET gone'
  BY <1>1, <1>2 DEF TypeOK
<1>4. marked' \in SUBSET File
  <2>1. filteredDupes' = filteredDupes
    BY <1>2 DEF RemoveFromGroups
  <2>2. Markable(filteredDupes)' \in SUBSET File /\ Markable(problem)' \in SUBSET File
    BY <1>1, <2>1 DEF Markable, TypeOK
  <2> QED BY <1>1, <1>2, <2>2 DEF Remark, TypeOK
<1>5. inverted' \in BOOLEAN
  BY <1>2, Zenon DEF Remark, TypeOK
<1>6. Core'
  BY <1>1, <1>2, <1>3, <1>4, <1>5, RemovalCore
<1>7. \A g \in Group : members'[g] \subseteq members[g] \ done
  BY <1>1, <1>2, RemovalAgrees, LeftOver
<1> QED BY <1>2, <1>3, <1>6, <1>7 DEF TypeOK

\* Removing the marked files only takes from groups.
LEMMA RemoveMarkedCore ==
  ASSUME Core, NEW problem \in SUBSET Targets, RemoveMarked(problem)
  PROVE  Core' /\ (\A g \in Group : members'[g] \subseteq members[g]) /\ UNCHANGED diskVars
<1> USE DEF Core
<1> DEFINE done == Targets \ problem
<1>1. Targets \in SUBSET File /\ done \in SUBSET File /\ Removable(done)
  BY TargetsAreRemovable DEF Removable
<1>2. RemoveFromGroups(done) /\ Remark(done, problem) /\ UNCHANGED diskVars
  BY DEF RemoveMarked, PerformAndRemove
<1>3. gone' \in SUBSET File /\ stray' \in SUBSET gone'
  BY <1>2 DEF TypeOK, diskVars
<1>4. marked' \in SUBSET File
  <2>1. filteredDupes' = filteredDupes
    BY <1>2 DEF RemoveFromGroups
  <2>2. Markable(filteredDupes)' \in SUBSET File /\ Markable(problem)' \in SUBSET File
    BY <1>1, <2>1 DEF Markable, TypeOK
  <2> QED BY <1>1, <1>2, <2>2 DEF Remark, TypeOK
<1>5. inverted' \in BOOLEAN
  BY <1>2, Zenon DEF Remark, TypeOK
<1> QED BY <1>1, <1>2, <1>3, <1>4, <1>5, RemovalCore, RemovalAgrees, LeftOver

\* Forgetting marks keeps the types.
LEMMA ForgottenMarks ==
  ASSUME TypeOK, ForgetMarks
  PROVE  marked' \in SUBSET File /\ ghosts' \in Nat /\ inverted' \in BOOLEAN
<1>1. Cardinality(UnmarkEach(filteredDupes)) \in Nat
  BY MarksAreFiles, SubsetSize DEF TypeOK
<1>2. marked' \in SUBSET File /\ ghosts' \in Nat
  BY <1>1 DEF ForgetMarks, TypeOK
<1>3. inverted' \in BOOLEAN
  BY Zenon DEF ForgetMarks, TypeOK
<1> QED BY <1>2, <1>3

\* New groups list files of L only, on a disk that stays as it is.
LEMMA NewGroupsCore ==
  ASSUME Core, NEW L \in SUBSET File, NEW lead \in [Group -> L \cup {NoFile}], NEW on \in BOOLEAN,
         ListsDuplicates(L),
         SetGroups(L, lead, on),
         marked' \in SUBSET File, ghosts' \in Nat, inverted' \in BOOLEAN
  PROVE  Core' /\ (\A g \in Group : members'[g] \subseteq L) /\ UNCHANGED diskVars
<1>1. /\ members' \in [Group -> SUBSET File] /\ (\A g \in Group : members'[g] \subseteq L)
      /\ ref' \in [Group -> File \cup {NoFile}] /\ groupOf' \in [File -> Group \cup {NoGroup}]
      /\ filtering' \in BOOLEAN /\ pattern' \in SUBSET File
      /\ filteredDupes' \in SUBSET File /\ filteredGroups' \in SUBSET Group
      /\ totalCount' \in Int /\ GroupsAgree' /\ FilterAgrees'
  <2>1. TypeOK
    BY DEF Core
  <2> QED BY <2>1, SetGroupsAgrees
<1>2. dupes' \in SUBSET File /\ stale' \in BOOLEAN /\ UNCHANGED diskVars
  BY DEF SetGroups, InvalidateDupes
<1> QED BY <1>1, <1>2 DEF Core, TypeOK, diskVars

\* The three ways the results get new groups, none from files that are gone.
Setting ==
  \/ StartScanning
  \/ \E L \in Scannable : \E lead \in [Group -> L \cup {NoFile}] :
       ScanDone(L, lead) \/ \E saved \in Pattern : LoadResults(L, lead, saved)

\* New results keep the core and list no file that is gone.
LEMMA SettingCore ==
  ASSUME Core, Setting
  PROVE  Core' /\ (\A g \in Group : members'[g] \cap gone = {}) /\ UNCHANGED diskVars
<1> USE DEF Core
<1>1. CASE StartScanning
  <2> DEFINE none == [g \in Group |-> NoFile]
  <2>1. SetGroups({}, none, filtering) /\ filtering \in BOOLEAN
        /\ none \in [Group -> {} \cup {NoFile}]
    BY <1>1 DEF StartScanning, TypeOK
  <2>2. marked' \in SUBSET File /\ ghosts' \in Nat /\ inverted' \in BOOLEAN
    BY <1>1, ForgottenMarks DEF StartScanning
  <2>3. Core' /\ (\A g \in Group : members'[g] \subseteq {}) /\ UNCHANGED diskVars
    <3> HIDE DEF Core, none
    <3>1. ListsDuplicates({})
      BY DEF ListsDuplicates
    <3> QED BY <2>1, <2>2, <3>1, NewGroupsCore
  <2> QED BY <2>3
<1>2. ASSUME NEW L \in Scannable, NEW lead \in [Group -> L \cup {NoFile}], NEW on \in BOOLEAN,
             SetGroups(L, lead, on),
             marked' \in SUBSET File, ghosts' \in Nat, inverted' \in BOOLEAN
      PROVE  Core' /\ (\A g \in Group : members'[g] \cap gone = {}) /\ UNCHANGED diskVars
  <2>1. L \in SUBSET File /\ L \cap gone = {} /\ ListsDuplicates(L)
    BY InputAssumption DEF Scannable, ListsDuplicates
  <2> QED BY <1>2, <2>1, NewGroupsCore
<1>3. ASSUME NEW L \in Scannable, NEW lead \in [Group -> L \cup {NoFile}], ScanDone(L, lead)
      PROVE  Core' /\ (\A g \in Group : members'[g] \cap gone = {}) /\ UNCHANGED diskVars
  <2>1. marked' \in SUBSET File /\ ghosts' \in Nat /\ inverted' \in BOOLEAN
    BY <1>3, ForgottenMarks DEF ScanDone
  <2>2. SetGroups(L, lead, filtering) /\ filtering \in BOOLEAN
    BY <1>3 DEF ScanDone, TypeOK
  <2> QED BY <1>2, <2>1, <2>2
<1>4. ASSUME NEW L \in Scannable, NEW lead \in [Group -> L \cup {NoFile}], NEW saved \in Pattern,
             LoadResults(L, lead, saved)
      PROVE  Core' /\ (\A g \in Group : members'[g] \cap gone = {}) /\ UNCHANGED diskVars
  <2>1. saved \in SUBSET File /\ FALSE \in BOOLEAN
    BY InputAssumption
  <2>2. Markable(saved)' \in SUBSET File
    BY <2>1 DEF Markable
  <2>3. marked' \in SUBSET File /\ ghosts' \in Nat /\ inverted' \in BOOLEAN
    BY <1>4, <2>2 DEF LoadResults
  <2>4. SetGroups(L, lead, FALSE)
    BY <1>4 DEF LoadResults
  <2> QED BY <1>2, <2>1, <2>3, <2>4
<1> QED BY <1>1, <1>3, <1>4 DEF Setting

\* A file that vanishes keeps it and the groups.
LEMMA VanishCore ==
  ASSUME Core, NEW f \in File, Vanish(f)
  PROVE  Core' /\ members' = members
BY DEF Vanish, Core, TypeOK, GroupsAgree, FilterAgrees, markVars, filterVars, groupVars, listVars

\* The kinds of step there are.
LEMMA NextKinds ==
  ASSUME Next
  PROVE  \/ Marking \/ Arranging
         \/ \E problem \in SUBSET Targets : \E late \in SUBSET problem :
              DeleteMarked(problem, late)
         \/ \E problem \in SUBSET Targets : RemoveMarked(problem)
         \/ Setting
         \/ \E f \in File : Vanish(f)
BY DEF Next, Working, Setting

\* Every step keeps the core.
LEMMA CoreStep == Core /\ [Next]_vars => Core'
<1> SUFFICES ASSUME Core, [Next]_vars PROVE Core'
  OBVIOUS
<1>1. CASE Marking
  BY <1>1, MarkingCore
<1>2. CASE Arranging
  BY <1>2, ArrangingCore
<1>3. ASSUME NEW problem \in SUBSET Targets, NEW late \in SUBSET problem,
             DeleteMarked(problem, late)
      PROVE  Core'
  BY <1>3, DeletionFacts
<1>4. ASSUME NEW problem \in SUBSET Targets, RemoveMarked(problem)
      PROVE  Core'
  BY <1>4, RemoveMarkedCore
<1>5. CASE Setting
  BY <1>5, SettingCore
<1>6. ASSUME NEW f \in File, Vanish(f) PROVE Core'
  BY <1>6, VanishCore
<1>7. CASE UNCHANGED vars
  BY <1>7 DEF vars, Core, TypeOK, GroupsAgree, FilterAgrees,
              markVars, filterVars, groupVars, listVars, diskVars
<1> QED BY <1>1, <1>2, <1>3, <1>4, <1>5, <1>6, <1>7, NextKinds

\* It holds whatever operations come.
LEMMA CoreInvariant == Spec => []Core
<1>1. Init => Core
  BY InitCore
<1> QED BY <1>1, CoreStep, PTL DEF Spec

\* Every variable keeps its type, whatever is marked, filtered, deleted or
\* loaded in whatever order.
THEOREM TypeCorrect == Spec => []TypeOK
<1>1. Core => TypeOK
  BY DEF Core
<1> QED BY <1>1, CoreInvariant, PTL

\* The list of groups, the groups and __group_of_duplicate always agree.
THEOREM GroupsAlwaysAgree == Spec => [](GroupsAgree /\ FilterAgrees)
<1>1. Core => GroupsAgree /\ FilterAgrees
  BY DEF Core
<1> QED BY <1>1, CoreInvariant, PTL

-----------------------------------------------------------------------------
(* The disk: what is listed is there, and a copy of everything is left.    *)

\* Every step lists files that are on disk, or vanished unnoticed.
LEMMA ListedStep == Core /\ ListedOnDisk /\ [Next]_vars => ListedOnDisk'
<1> SUFFICES ASSUME Core, ListedOnDisk, [Next]_vars PROVE ListedOnDisk'
  OBVIOUS
<1>1. ASSUME \A g \in Group : members'[g] \subseteq members[g], UNCHANGED diskVars
      PROVE  ListedOnDisk'
  BY <1>1 DEF ListedOnDisk, diskVars
<1>2. CASE Marking
  BY <1>1, <1>2, MarkingCore
<1>3. CASE Arranging
  BY <1>1, <1>3, ArrangingCore
<1>4. ASSUME NEW problem \in SUBSET Targets, NEW late \in SUBSET problem,
             DeleteMarked(problem, late)
      PROVE  ListedOnDisk'
  BY <1>4, DeletionFacts DEF ListedOnDisk
<1>5. ASSUME NEW problem \in SUBSET Targets, RemoveMarked(problem)
      PROVE  ListedOnDisk'
  BY <1>1, <1>5, RemoveMarkedCore
<1>6. CASE Setting
  BY <1>6, SettingCore DEF ListedOnDisk, diskVars
<1>7. ASSUME NEW f \in File, Vanish(f) PROVE ListedOnDisk'
  BY <1>7, VanishCore DEF ListedOnDisk, Vanish
<1>8. CASE UNCHANGED vars
  BY <1>1, <1>8 DEF vars, groupVars
<1> QED BY <1>2, <1>3, <1>4, <1>5, <1>6, <1>7, <1>8, NextKinds

\* Nothing a scan listed is missing from the disk, unless it vanished behind
\* dupeGuru's back or its deletion failed half way.
THEOREM ListedStaysOnDisk == Spec => []ListedOnDisk
<1>1. Init => ListedOnDisk
  BY InitCore
<1> QED BY <1>1, ListedStep, CoreInvariant, PTL DEF Spec

\* The reference of a group is a copy no deletion can take, and no target
\* lies in a reference folder.
LEMMA DeletionSpares ==
  ASSUME Core, ListedOnDisk,
         NEW problem \in SUBSET Targets, NEW late \in SUBSET problem, DeleteMarked(problem, late)
  PROVE  /\ (gone' \ gone) \cap RefFile = {}
         /\ \A c \in Group :
              (Copies(c) \cap stray = {} /\ ~(Copies(c) \subseteq gone))
              => ~(Copies(c) \subseteq gone')
<1> USE DEF Core
<1>1. gone' \subseteq gone \cup Targets
  BY DeletionFacts
<1>2. \A f \in Targets : f \in File /\ f \notin RefFile /\ groupOf[f] \in Group
      /\ f # ref[groupOf[f]]
  BY TargetsAreRemovable DEF Targets, IsMarked, IsMarkable, TypeOK, Removable
<1>3. ASSUME NEW c \in Group, Copies(c) \cap stray = {}, ~(Copies(c) \subseteq gone),
             NEW f \in Targets, f \in Copies(c)
      PROVE  ref[c] \in Copies(c) /\ ref[c] \notin gone'
  <2>1. groupOf[f] \in Group /\ f \in members[groupOf[f]] /\ GroupFor[f] = groupOf[f]
    BY <1>2 DEF GroupsAgree
  <2>2. groupOf[f] = c
    BY <1>3, <2>1 DEF Copies
  <2>3. ref[c] \in members[c]
    BY <2>1, <2>2 DEF GroupsAgree
  <2>4. ref[c] \in File /\ GroupFor[ref[c]] = c /\ groupOf[ref[c]] = c
    BY <2>3 DEF GroupsAgree, TypeOK
  <2>5. ref[c] \in Copies(c) /\ ref[c] \notin gone
    BY <1>3, <2>3, <2>4 DEF Copies, ListedOnDisk
  <2>6. ref[c] \notin Targets
    BY <1>2, <2>4
  <2> QED BY <1>1, <2>5, <2>6
<1>4. \A c \in Group : (\A f \in Targets : f \notin Copies(c))
                         => Copies(c) \cap gone' \subseteq gone
  BY <1>1
<1> QED BY <1>1, <1>2, <1>3, <1>4

\* Every step keeps a copy of each content of which nothing vanished.
LEMMA OneCopyStep == Core /\ ListedOnDisk /\ KeepsOneCopy /\ [Next]_vars => KeepsOneCopy'
<1> SUFFICES ASSUME Core, ListedOnDisk, KeepsOneCopy, [Next]_vars PROVE KeepsOneCopy'
  OBVIOUS
<1>1. ASSUME UNCHANGED diskVars PROVE KeepsOneCopy'
  BY <1>1 DEF diskVars, KeepsOneCopy, Copies
<1>2. ASSUME NEW problem \in SUBSET Targets, NEW late \in SUBSET problem,
             DeleteMarked(problem, late)
      PROVE  KeepsOneCopy'
  <2>1. stray \subseteq stray'
    BY <1>2, DeletionFacts
  <2> QED BY <1>2, <2>1, DeletionSpares DEF KeepsOneCopy, Copies
<1>3. ASSUME NEW f \in File, Vanish(f) PROVE KeepsOneCopy'
  BY <1>3 DEF Vanish, KeepsOneCopy, Copies
<1>4. CASE UNCHANGED vars
  BY <1>1, <1>4 DEF vars
<1> QED BY <1>1, <1>2, <1>3, <1>4, NextKinds, MarkingCore, ArrangingCore, RemoveMarkedCore,
           SettingCore

\* No sequence of operations destroys the last copy of a content.
THEOREM LastCopySurvives == Spec => []KeepsOneCopy
<1>1. Init => KeepsOneCopy
  BY InitCore
<1> QED BY <1>1, OneCopyStep, CoreInvariant, ListedStaysOnDisk, PTL DEF Spec

\* Every step of the results is a deduplication the promise allows, a file
\* that vanishes, or nothing that concerns the files.
LEMMA PromiseStep == Core /\ ListedOnDisk /\ [Next]_vars => [Promise!Next]_(Promise!vars)
<1> SUFFICES ASSUME Core, ListedOnDisk, [Next]_vars PROVE [Promise!Next]_(Promise!vars)
  OBVIOUS
<1>1. ASSUME UNCHANGED diskVars PROVE UNCHANGED Promise!vars
  BY <1>1 DEF diskVars, Promise!vars
<1>2. ASSUME NEW problem \in SUBSET Targets, NEW late \in SUBSET problem,
             DeleteMarked(problem, late)
      PROVE  Promise!Dedup
  <2>1. /\ gone \subseteq gone' /\ stray \subseteq stray' /\ stray' \ stray \subseteq gone' \ gone
        /\ gone' \in SUBSET File
    BY <1>2, DeletionFacts DEF Core, TypeOK
  <2>2. \A c \in Group : Promise!Copies(c) = Copies(c) /\ Copies(c) \subseteq File
    BY DEF Promise!Copies, Copies
  <2> QED BY <1>2, <2>1, <2>2, DeletionSpares DEF Promise!Dedup
<1>3. ASSUME NEW f \in File, Vanish(f) PROVE Promise!Outside(f)
  BY <1>3 DEF Vanish, Promise!Outside
<1>4. CASE UNCHANGED vars
  BY <1>1, <1>4 DEF vars
<1> QED BY <1>1, <1>2, <1>3, <1>4, NextKinds, MarkingCore, ArrangingCore, RemoveMarkedCore,
           SettingCore DEF Promise!Next

\* The results implement SafeDedup, with the disk as all that is observed.
THEOREM ImplementsPromise == Spec => KeepsPromise
<1>1. Init => Promise!Init
  BY DEF Init, Promise!Init
<1> QED BY <1>1, PromiseStep, CoreInvariant, ListedStaysOnDisk, PTL DEF Spec, KeepsPromise,
               Promise!Spec

-----------------------------------------------------------------------------
(* The running total.                                                      *)

\* The files that can be marked when there is no filter, the files in groups, and the groups.
Countable == {f \in File : groupOf[f] # NoGroup /\ f # ref[groupOf[f]]}
Grouped == {f \in File : groupOf[f] # NoGroup}
Filled == {g \in Group : members[g] # {}}

\* Without a filter the listed files that can be marked are those, and so are the dupes.
LEMMA CountableIsMarkable ==
  Core /\ ~filtering =>
    Markable(Listed) = Countable /\ Markable(UNION {Dupes(g) : g \in Groups}) = Countable
<1> SUFFICES ASSUME Core, ~filtering
             PROVE  /\ Markable(Listed) = Countable
                    /\ Markable(UNION {Dupes(g) : g \in Groups}) = Countable
  OBVIOUS
<1>1. filteredDupes = {} /\ Groups = Filled
  BY DEF Core, FilterAgrees, Groups, Filled
<1>2. ASSUME NEW f \in Countable
      PROVE  f \in Markable(Listed) /\ f \in Markable(UNION {Dupes(g) : g \in Groups})
  <2>1. groupOf[f] \in Group /\ f \in members[groupOf[f]] /\ f # ref[groupOf[f]]
          /\ f \notin RefFile
    BY DEF Countable, Core, TypeOK, GroupsAgree
  <2>2. IsMarkable(f) /\ groupOf[f] \in Groups
    BY <1>1, <2>1, FileAssumption DEF IsMarkable, Filled
  <2> QED BY <2>1, <2>2 DEF Markable, Listed, Dupes
<1>3. \A f \in Markable(Listed) : f \in Countable
  BY DupesAreFiles DEF Markable, IsMarkable, Countable, Core, TypeOK
<1>4. \A f \in Markable(UNION {Dupes(g) : g \in Groups}) : f \in Countable
  BY DupesAreFiles DEF Markable, IsMarkable, Countable, Core, TypeOK
<1> QED BY <1>2, <1>3, <1>4

\* Each group keeps one file from being marked, so how many can be does not depend on which.
LEMMA CountableSize ==
  Core => Cardinality(Countable) = Cardinality(Grouped) - Cardinality(Filled)
<1> SUFFICES ASSUME Core PROVE Cardinality(Countable) = Cardinality(Grouped) - Cardinality(Filled)
  OBVIOUS
<1> DEFINE led == {ref[g] : g \in Filled}
           of == [f \in led |-> groupOf[f]]
<1>1. \A g \in Filled : ref[g] \in File /\ groupOf[ref[g]] = g /\ g \in Group
  BY DEF Core, TypeOK, GroupsAgree, Filled
<1>2. led \subseteq Grouped /\ Grouped \subseteq File
  BY <1>1, FileAssumption DEF Grouped
<1>3. IsFiniteSet(led) /\ IsFiniteSet(Grouped)
  BY <1>2, FileAssumption, FS_Subset
<1>4. of \in Surjection(led, Filled) /\ of \in Injection(led, Filled)
  <2>1. of \in [led -> Filled]
    BY <1>1
  <2>2. \A a, b \in led : of[a] = of[b] => a = b
    BY <1>1
  <2>3. \A g \in Filled : \E a \in led : of[a] = g
    BY <1>1
  <2> QED BY <2>1, <2>2, <2>3, Fun_IsInj, Fun_IsSurj
<1>5. Cardinality(led) = Cardinality(Filled)
  BY <1>3, <1>4, FS_Surjection
<1>6. Countable = Grouped \ led
  <2>1. ASSUME NEW f \in Grouped, f = ref[groupOf[f]] PROVE f \in led
    BY <2>1 DEF Grouped, Filled, Core, TypeOK, GroupsAgree
  <2>2. ASSUME NEW f \in led PROVE f = ref[groupOf[f]]
    BY <1>1
  <2> QED BY <2>1, <2>2 DEF Countable, Grouped
<1>7. Grouped \cap led = led
  BY <1>2
<1> QED BY <1>3, <1>5, <1>6, <1>7, FS_Difference

\* A removal of dupes makes the count smaller by as many.
LEMMA RemovalCounts ==
  ASSUME Core, NEW D \in SUBSET File, Removable(D), RemoveFromGroups(D)
  PROVE  Cardinality(Countable') = Cardinality(Countable) - Cardinality(D)
<1> DEFINE cleared == {g \in Group : members[g] # {} /\ Left(g, D) = {}}
<1>1. /\ ref' = [g \in Group |-> IF g \in cleared THEN NoFile ELSE ref[g]]
      /\ groupOf' = [f \in File |-> IF f \in D \/ \E g \in cleared : f = ref[g]
                                    THEN NoGroup ELSE groupOf[f]]
  BY DEF RemoveFromGroups
<1>2. D \subseteq Countable
  BY DEF Removable, Countable
<1>3. ASSUME NEW f \in Countable, f \notin D PROVE f \in Countable'
  <2>1. f \in File /\ groupOf[f] \in Group /\ f \in members[groupOf[f]] /\ f # ref[groupOf[f]]
    BY DEF Countable, Core, TypeOK, GroupsAgree
  <2>2. groupOf[f] \notin cleared
    BY <1>3, <2>1, LeftOver DEF Core
  <2>3. \A g \in cleared : f # ref[g]
    BY <2>1 DEF Core, TypeOK, GroupsAgree
  <2> QED BY <1>1, <1>3, <2>1, <2>2, <2>3, FileAssumption DEF Countable
<1>4. ASSUME NEW f \in Countable' PROVE f \in Countable /\ f \notin D
  <2>1. f \in File /\ groupOf'[f] # NoGroup /\ f # ref'[groupOf'[f]]
    BY DEF Countable
  <2>2. f \notin D /\ groupOf'[f] = groupOf[f] /\ \A g \in cleared : f # ref[g]
    BY <1>1, <2>1
  <2>3. groupOf[f] \in Group
    BY <2>1, <2>2 DEF Core, TypeOK
  <2> QED BY <1>1, <2>1, <2>2, <2>3 DEF Countable
<1>5. Countable' = Countable \ D /\ Countable \cap D = D
  BY <1>2, <1>3, <1>4
<1>6. IsFiniteSet(Countable)
  BY FileAssumption, FS_Subset DEF Countable
<1> QED BY <1>5, <1>6, FS_Difference

\* Every step counts the dupes that can be marked.
LEMMA TotalStep == Core /\ TotalIsExact /\ [Next]_vars => TotalIsExact'
<1> SUFFICES ASSUME Core, TotalIsExact, [Next]_vars, ~filtering'
             PROVE totalCount' = Cardinality(Markable(Listed)')
  BY DEF TotalIsExact
<1>1. Core'
  BY CoreStep
<1>2. /\ Markable(Listed)' = Countable'
      /\ Markable(UNION {Dupes(g) : g \in Groups})' = Countable'
  <2>1. (Core /\ ~filtering =>
           Markable(Listed) = Countable /\ Markable(UNION {Dupes(g) : g \in Groups}) = Countable)'
    BY CountableIsMarkable, PTL
  <2> QED BY <1>1, <2>1
<1>3. ~filtering => totalCount = Cardinality(Countable)
  BY CountableIsMarkable DEF TotalIsExact
<1>4. Cardinality(Countable') = Cardinality(Grouped') - Cardinality(Filled')
  <2>1. (Core => Cardinality(Countable) = Cardinality(Grouped) - Cardinality(Filled))'
    BY CountableSize, PTL
  <2> QED BY <1>1, <2>1
<1>5. ASSUME UNCHANGED <<filtering, totalCount, members, groupOf>>
      PROVE  totalCount' = Cardinality(Countable')
  <2>1. Grouped' = Grouped /\ Filled' = Filled
    BY <1>5 DEF Grouped, Filled
  <2> QED BY <1>3, <1>4, <1>5, <2>1, CountableSize
<1>6. ASSUME RecalculateStats PROVE totalCount' = Cardinality(Countable')
  BY <1>2, <1>6 DEF RecalculateStats
<1>7. ASSUME NEW D \in SUBSET File, Removable(D), RemoveFromGroups(D)
      PROVE  totalCount' = Cardinality(Countable')
  BY <1>3, <1>7, RemovalCounts DEF RemoveFromGroups
<1>8. ASSUME NEW problem \in SUBSET Targets, PerformAndRemove(problem)
      PROVE  totalCount' = Cardinality(Countable')
  <2>1. Targets \ problem \in SUBSET File /\ Removable(Targets \ problem)
    BY TargetsAreRemovable DEF Core, Removable
  <2> QED BY <1>7, <1>8, <2>1 DEF PerformAndRemove
<1>9. ASSUME Marking PROVE totalCount' = Cardinality(Countable')
  <2>1. \A f \in File : MarkDupe(f) \/ UnmarkDupe(f)
        => UNCHANGED <<filterVars, groupVars, totalCount>>
    BY DEF MarkDupe, UnmarkDupe
  <2>2. \A S \in Selection : ToggleSelected(S) => UNCHANGED <<filterVars, groupVars, totalCount>>
    BY DEF ToggleSelected
  <2>3. \A tier \in SUBSET Group : MarkConfidence(tier)
        => UNCHANGED <<filterVars, groupVars, totalCount>>
    BY DEF MarkConfidence
  <2>4. MarkAll \/ MarkNone \/ MarkInvert => UNCHANGED <<filterVars, groupVars, totalCount>>
    BY DEF MarkAll, MarkNone, MarkInvert
  <2>5. \A lead : MarkByCriterion(lead) => UNCHANGED <<filterVars, members, groupOf, totalCount>>
    BY DEF MarkByCriterion
  <2>6. UNCHANGED <<filterVars, members, groupOf, totalCount>>
    BY <1>9, <2>1, <2>2, <2>3, <2>4, <2>5 DEF Marking, groupVars
  <2> QED BY <1>5, <2>6 DEF filterVars
<1>10. ASSUME NEW f \in File, MakeRef(f) PROVE totalCount' = Cardinality(Countable')
  <2>1. f \in members[groupOf[f]] /\ groupOf[f] \in Group /\ f # ref[groupOf[f]]
    BY <1>10, DupesAreFiles DEF MakeRef, Listed, Groups, Core, TypeOK, GroupsAgree
  <2>2. f \notin RefFile
    BY <2>1 DEF Core, GroupsAgree
  <2> QED BY <1>5, <1>10, <2>2 DEF MakeRef, filterVars, Core, TypeOK
<1>11. ASSUME NEW lead, Reprioritize(lead) PROVE totalCount' = Cardinality(Countable')
  BY <1>5, <1>11 DEF Reprioritize, filterVars
<1>12. ASSUME NEW S \in Selection, RemoveSelected(S) PROVE totalCount' = Cardinality(Countable')
  BY <1>7, <1>12, SelectionIsRemovable DEF RemoveSelected, Core
<1>13. ASSUME Arranging PROVE totalCount' = Cardinality(Countable')
  <2>1. \A pat \in Pattern : ApplyFilter(pat) => RecalculateStats
    BY DEF ApplyFilter
  <2>2. ClearFilter => RecalculateStats
    BY DEF ClearFilter
  <2>3. ListDupes => UNCHANGED <<filtering, totalCount, members, groupOf>>
    BY DEF ListDupes, filterVars, groupVars
  <2> QED BY <1>5, <1>6, <1>10, <1>11, <1>12, <1>13, <2>1, <2>2, <2>3 DEF Arranging
<1>14. ASSUME Working PROVE totalCount' = Cardinality(Countable')
  <2>1. \A problem \in SUBSET Targets : \A late \in SUBSET problem :
          DeleteMarked(problem, late) => PerformAndRemove(problem)
    BY DEF DeleteMarked
  <2>2. \A problem \in SUBSET Targets : RemoveMarked(problem) => PerformAndRemove(problem)
    BY DEF RemoveMarked
  <2>3. StartScanning => RecalculateStats
    BY DEF StartScanning, SetGroups
  <2>4. \A L \in Scannable : \A lead \in [Group -> L \cup {NoFile}] :
          (ScanDone(L, lead) \/ \E saved \in Pattern : LoadResults(L, lead, saved))
          => RecalculateStats
    BY DEF ScanDone, LoadResults, SetGroups
  <2> QED BY <1>6, <1>8, <1>14, <2>1, <2>2, <2>3, <2>4 DEF Working
<1>15. ASSUME NEW f \in File, Vanish(f) PROVE totalCount' = Cardinality(Countable')
  BY <1>5, <1>15 DEF Vanish, filterVars, groupVars
<1>16. ASSUME UNCHANGED vars PROVE totalCount' = Cardinality(Countable')
  <2>1. UNCHANGED <<filtering, totalCount, members, groupOf>>
    BY <1>16 DEF vars, filterVars, groupVars
  <2> QED BY <1>5, <2>1
<1> QED BY <1>2, <1>9, <1>13, <1>14, <1>15, <1>16 DEF Next

\* Without a filter the running total is the number of files that can be marked, whatever
\* make_ref, remove_duplicates and prioritize did since it was last counted.
THEOREM TotalStaysExact == Spec => []TotalIsExact
<1>1. Init => TotalIsExact
  <2> SUFFICES ASSUME Init PROVE Countable = {} /\ totalCount = 0 /\ Core /\ ~filtering
    BY CountableIsMarkable, FS_EmptySet DEF TotalIsExact
  <2> QED BY InitCore DEF Init, Countable
<1> QED BY <1>1, TotalStep, CoreInvariant, PTL DEF Spec

-----------------------------------------------------------------------------
(* The cached list, and what a deletion may therefore reach.               *)

\* Every step rebuilds the list of dupes or marks it stale, where it has to.
LEMMA CurrentStep == DupesAreCurrent /\ [Next]_vars => DupesAreCurrent'
<1> SUFFICES ASSUME DupesAreCurrent, [Next]_vars PROVE DupesAreCurrent'
  OBVIOUS
<1>1. ASSUME UNCHANGED <<filterVars, groupVars, listVars>> PROVE DupesAreCurrent'
  BY <1>1 DEF filterVars, groupVars, listVars, DupesAreCurrent, FreshDupes, Groups, Dupes
<1>2. ASSUME InvalidateDupes PROVE DupesAreCurrent'
  BY <1>2 DEF InvalidateDupes, DupesAreCurrent
<1>3. CASE Marking
  BY <1>1, <1>2, <1>3 DEF Marking, MarkDupe, UnmarkDupe, ToggleSelected, MarkConfidence,
                          MarkAll, MarkNone, MarkInvert, MarkByCriterion
<1>4. CASE ListDupes
  <2>1. FreshDupes' = FreshDupes
    BY <1>4 DEF ListDupes, FreshDupes, Groups, Dupes, filterVars, groupVars
  <2>2. DupesRead = FreshDupes
    BY Zenon DEF DupesRead, DupesAreCurrent
  <2> QED BY <1>4, <2>1, <2>2 DEF ListDupes, ReadDupes, DupesAreCurrent
<1>5. ASSUME NEW lead, Reprioritize(lead) PROVE DupesAreCurrent'
  BY <1>1, <1>2, <1>5 DEF Reprioritize, groupVars
<1>6. CASE Arranging
  BY <1>2, <1>4, <1>5, <1>6 DEF Arranging, MakeRef, ApplyFilter, ClearFilter, RemoveSelected,
                                 RemoveFromGroups
<1>7. CASE Working
  BY <1>2, <1>7 DEF Working, DeleteMarked, RemoveMarked, PerformAndRemove, RemoveFromGroups,
                     StartScanning, ScanDone, LoadResults, SetGroups
<1>8. ASSUME NEW f \in File, Vanish(f) PROVE DupesAreCurrent'
  BY <1>1, <1>8 DEF Vanish
<1>9. CASE UNCHANGED vars
  BY <1>1, <1>9 DEF vars
<1> QED BY <1>3, <1>6, <1>7, <1>8, <1>9 DEF Next

\* The cached dupes list is never used when the results have moved on.
THEOREM ListIsCurrent == Spec => []DupesAreCurrent
<1>1. Init => DupesAreCurrent
  BY InitCore
<1> QED BY <1>1, CurrentStep, PTL DEF Spec

\* What a step deletes was listed and marked.
LEMMA ShownStep ==
  Core /\ DupesAreCurrent /\ [Next]_vars
    => ((gone' \ gone) \ stray' \subseteq {f \in Listed : IsMarked(f)} \/ UNCHANGED vars)
<1> SUFFICES ASSUME Core, DupesAreCurrent, [Next]_vars
             PROVE  (gone' \ gone) \ stray' \subseteq {f \in Listed : IsMarked(f)}
                    \/ UNCHANGED vars
  OBVIOUS
<1>1. \A f \in Targets : f \in Listed /\ IsMarked(f)
  BY DEF Targets, DupesRead, DupesAreCurrent, FreshDupes, Listed, Dupes
<1>2. ASSUME NEW problem \in SUBSET Targets, NEW late \in SUBSET problem,
             DeleteMarked(problem, late)
      PROVE  gone' \ gone \subseteq Targets
  BY <1>2, DeletionFacts
<1>3. ASSUME NEW f \in File, Vanish(f) PROVE gone' \ gone \subseteq stray'
  BY <1>3 DEF Vanish
<1>4. ASSUME UNCHANGED diskVars PROVE gone' \ gone = {}
  BY <1>4 DEF diskVars
<1> QED BY <1>1, <1>2, <1>3, <1>4, NextKinds, MarkingCore, ArrangingCore, RemoveMarkedCore,
           SettingCore

\* A deletion reaches only what the table shows with its box checked.
THEOREM DeletionIsShown == Spec => DeletesOnlyWhatIsShown
BY ShownStep, CoreInvariant, ListIsCurrent, PTL DEF Spec, DeletesOnlyWhatIsShown

-----------------------------------------------------------------------------
(* What a removal leaves of the marks.                                     *)

\* A filtered dupe that is still in a group has the group in the filtered list.
FilteredAreListed ==
  \A f \in filteredDupes : groupOf[f] # NoGroup => groupOf[f] \in filteredGroups

\* The files a removal leaves in a group are in the group they were in, as what they were.
LEMMA StayersStay ==
  ASSUME Core, NEW D \in SUBSET File, Removable(D), RemoveFromGroups(D),
         NEW f \in File, groupOf'[f] # NoGroup
  PROVE  /\ f \notin D /\ groupOf'[f] = groupOf[f] /\ groupOf[f] \in Group
         /\ f \in members[groupOf[f]] /\ f \in members'[groupOf[f]]
         /\ ref'[groupOf[f]] = ref[groupOf[f]]
         /\ members[groupOf[f]] # {} /\ Left(groupOf[f], D) # {}
<1> DEFINE cleared == {g \in Group : members[g] # {} /\ Left(g, D) = {}}
<1>1. /\ members' = [g \in Group |-> Left(g, D)]
      /\ ref' = [g \in Group |-> IF g \in cleared THEN NoFile ELSE ref[g]]
      /\ groupOf' = [x \in File |-> IF x \in D \/ \E g \in cleared : x = ref[g]
                                    THEN NoGroup ELSE groupOf[x]]
  BY DEF RemoveFromGroups
<1>2. f \notin D /\ groupOf'[f] = groupOf[f] /\ \A g \in cleared : f # ref[g]
  BY <1>1
<1>3. groupOf[f] \in Group /\ f \in members[groupOf[f]]
  BY <1>2 DEF Core, TypeOK, GroupsAgree
<1>4. Left(groupOf[f], D) # {}
  BY <1>2, <1>3, LeftOver DEF Core
<1>5. Left(groupOf[f], D) = members[groupOf[f]] \ D
  BY <1>3, <1>4, LeftOver DEF Core
<1> QED BY <1>1, <1>2, <1>3, <1>4, <1>5

\* Every step keeps the groups of filtered dupes in the filtered list.
LEMMA FilteredStep == Core /\ FilteredAreListed /\ [Next]_vars => FilteredAreListed'
<1> SUFFICES ASSUME Core, FilteredAreListed, [Next]_vars PROVE FilteredAreListed'
  OBVIOUS
<1>1. ASSUME UNCHANGED <<filterVars, groupOf>> PROVE FilteredAreListed'
  BY <1>1 DEF filterVars, FilteredAreListed
<1>2. ASSUME NEW on, NEW pat, NEW ms, SetFilter(on, pat, ms, groupOf') PROVE FilteredAreListed'
  BY <1>2 DEF SetFilter, FilteredAreListed
<1>3. ASSUME NEW D \in SUBSET File, Removable(D), RemoveFromGroups(D) PROVE FilteredAreListed'
  <2> SUFFICES ASSUME NEW f \in filteredDupes', groupOf'[f] # NoGroup
               PROVE  groupOf'[f] \in filteredGroups'
    BY DEF FilteredAreListed
  <2>1. f \in filteredDupes /\ f \in File
    BY <1>3 DEF RemoveFromGroups, Core, TypeOK
  <2>2. groupOf'[f] = groupOf[f] /\ groupOf[f] # NoGroup /\ Left(groupOf[f], D) # {}
    BY <1>3, <2>1, StayersStay
  <2> QED BY <1>3, <2>1, <2>2 DEF RemoveFromGroups, FilteredAreListed
<1>4. ASSUME NEW problem \in SUBSET Targets, PerformAndRemove(problem) PROVE FilteredAreListed'
  <2>1. Targets \ problem \in SUBSET File /\ Removable(Targets \ problem)
    BY TargetsAreRemovable DEF Core, Removable
  <2> QED BY <1>3, <1>4, <2>1 DEF PerformAndRemove
<1>5. CASE Marking
  <2>1. \A f \in File : MarkDupe(f) \/ UnmarkDupe(f) => UNCHANGED <<filterVars, groupVars>>
    BY DEF MarkDupe, UnmarkDupe
  <2>2. \A S \in Selection : ToggleSelected(S) => UNCHANGED <<filterVars, groupVars>>
    BY DEF ToggleSelected
  <2>3. \A tier \in SUBSET Group : MarkConfidence(tier) => UNCHANGED <<filterVars, groupVars>>
    BY DEF MarkConfidence
  <2>4. MarkAll \/ MarkNone \/ MarkInvert => UNCHANGED <<filterVars, groupVars>>
    BY DEF MarkAll, MarkNone, MarkInvert
  <2>5. \A lead : MarkByCriterion(lead) => UNCHANGED <<filterVars, groupOf>>
    BY DEF MarkByCriterion
  <2> QED BY <1>1, <1>5, <2>1, <2>2, <2>3, <2>4, <2>5 DEF Marking, groupVars
<1>6. ASSUME NEW S \in Selection, RemoveSelected(S) PROVE FilteredAreListed'
  BY <1>3, <1>6, SelectionIsRemovable DEF RemoveSelected, Core
<1>7. CASE Arranging
  <2>1. \A f \in File : MakeRef(f) => UNCHANGED <<filterVars, groupOf>>
    BY DEF MakeRef
  <2>2. \A lead : Reprioritize(lead) => UNCHANGED <<filterVars, groupOf>>
    BY DEF Reprioritize
  <2>3. \A pat \in Pattern : ApplyFilter(pat) => SetFilter(TRUE, pat, members, groupOf')
    BY DEF ApplyFilter, groupVars
  <2>4. ClearFilter => SetFilter(FALSE, {}, members, groupOf')
    BY DEF ClearFilter, groupVars
  <2>5. ListDupes => UNCHANGED <<filterVars, groupOf>>
    BY DEF ListDupes, groupVars
  <2> QED BY <1>1, <1>2, <1>6, <1>7, <2>1, <2>2, <2>3, <2>4, <2>5 DEF Arranging
<1>8. CASE Working
  <2>1. \A problem \in SUBSET Targets : \A late \in SUBSET problem :
          DeleteMarked(problem, late) => PerformAndRemove(problem)
    BY DEF DeleteMarked
  <2>2. \A problem \in SUBSET Targets : RemoveMarked(problem) => PerformAndRemove(problem)
    BY DEF RemoveMarked
  <2>3. \A L, lead, on : SetGroups(L, lead, on) => FilteredAreListed'
    BY <1>2 DEF SetGroups
  <2>4. StartScanning => FilteredAreListed'
    BY <2>3 DEF StartScanning
  <2>5. \A L \in Scannable : \A lead \in [Group -> L \cup {NoFile}] :
          (ScanDone(L, lead) \/ \E saved \in Pattern : LoadResults(L, lead, saved))
          => FilteredAreListed'
    BY <2>3 DEF ScanDone, LoadResults
  <2> QED BY <1>4, <1>8, <2>1, <2>2, <2>4, <2>5 DEF Working
<1>9. ASSUME NEW f \in File, Vanish(f) PROVE FilteredAreListed'
  BY <1>1, <1>9 DEF Vanish, groupVars
<1>10. CASE UNCHANGED vars
  BY <1>1, <1>10 DEF vars, groupVars
<1> QED BY <1>5, <1>7, <1>8, <1>9, <1>10 DEF Next

\* A file that stays in the results through a removal keeps its mark.
LEMMA OutliveStep ==
  ASSUME Core, DupesAreCurrent, FilteredAreListed,
         NEW problem, PerformAndRemove(problem), NEW f \in File, groupOf'[f] # NoGroup
  PROVE  Chosen(f)' = Chosen(f)
<1> DEFINE done == Targets \ problem
           Choosable == f \in Dupes(groupOf[f]) /\ f \notin RefFile
<1>1. done \in SUBSET File /\ Removable(done) /\ problem \subseteq Targets
  BY TargetsAreRemovable DEF Core, Removable, PerformAndRemove
<1>2. /\ f \notin done /\ groupOf'[f] = groupOf[f] /\ groupOf[f] \in Group
      /\ f \in members[groupOf[f]] /\ f \in members'[groupOf[f]]
      /\ ref'[groupOf[f]] = ref[groupOf[f]] /\ groupOf[f] # NoGroup
      /\ members[groupOf[f]] # {} /\ members'[groupOf[f]] # {}
  BY <1>1, StayersStay DEF PerformAndRemove
<1>3. Choosable' = Choosable
  BY <1>2 DEF Dupes
<1>4. /\ filteredDupes' = filteredDupes /\ filtering' = filtering
      /\ IsMarkable(f)' = IsMarkable(f)
      /\ IsMarkable(f) <=> Choosable /\ (filteredDupes = {} \/ f \in filteredDupes)
  BY <1>2 DEF PerformAndRemove, RemoveFromGroups, IsMarkable, Dupes
<1>5. Choosable /\ (filteredDupes = {} => ~filtering)
        /\ (filteredDupes # {} => f \in filteredDupes)
        => f \in DupesRead
  <2> SUFFICES ASSUME Choosable, filteredDupes = {} => ~filtering,
                      filteredDupes # {} => f \in filteredDupes
               PROVE  f \in FreshDupes
    BY DEF DupesRead, DupesAreCurrent
  <2>1. groupOf[f] \in Groups
    BY <1>2 DEF Groups, FilteredAreListed, Core, FilterAgrees
  <2> QED BY <2>1 DEF FreshDupes
<1>6. f \in Targets <=> f \in problem
  BY <1>1, <1>2
<1>7. f \in problem => Choosable /\ IsMarkable(f) /\ (f \in marked) # inverted
  BY <1>4, <1>6 DEF Targets, IsMarked
<1>8. CASE filtering
  <2> DEFINE shown == Markable(filteredDupes)'
  <2>1. /\ marked' = IF inverted THEN ((marked \ done) \cup shown) \ problem
                                 ELSE ((marked \ done) \ shown) \cup problem
        /\ inverted' = inverted
    BY <1>4, <1>8 DEF PerformAndRemove, Remark
  <2>2. f \in shown <=> f \in filteredDupes /\ IsMarkable(f)
    BY <1>4 DEF Markable
  <2>3. f \in shown /\ f \notin problem => (f \in marked) = inverted
    BY <1>4, <1>5, <1>6, <2>2 DEF Targets, IsMarked
  <2>4. ((f \in marked') # inverted') = ((f \in marked) # inverted)
    <3>1. CASE inverted = TRUE
      <4>1. f \in marked' <=> (f \in marked \/ f \in shown) /\ f \notin problem
        BY <1>2, <2>1, <3>1
      <4> QED BY <1>7, <2>1, <2>3, <3>1, <4>1
    <3>2. CASE inverted = FALSE
      <4>1. f \in marked' <=> (f \in marked /\ f \notin shown) \/ f \in problem
        BY <1>2, <2>1, <3>2
      <4>2. f \in shown /\ f \notin problem => f \notin marked
        BY <2>3, <3>2
      <4>3. f \in problem => f \in marked
        <5>1. ~(f \in marked) => (f \in marked) = FALSE
          OBVIOUS
        <5> QED BY <1>7, <3>2, <5>1
      <4>4. f \in marked' <=> f \in marked
        BY <4>1, <4>2, <4>3
      <4> QED BY <2>1, <4>4
    <3> QED BY <3>1, <3>2 DEF Core, TypeOK
  <2> QED BY <1>3, <2>4 DEF Chosen
<1>9. CASE ~filtering
  <2>1. marked' = Markable(problem)' /\ inverted' = FALSE /\ filteredDupes = {}
    BY <1>4, <1>9 DEF PerformAndRemove, Remark, Core, FilterAgrees
  <2>2. f \in marked' <=> f \in problem /\ IsMarkable(f)
    BY <1>4, <2>1 DEF Markable
  <2>3. Choosable /\ (f \in marked) # inverted => f \in problem
    BY <1>4, <1>5, <1>6, <1>9, <2>1 DEF Targets, IsMarked
  <2>4. f \in marked' <=> Choosable /\ (f \in marked) # inverted
    BY <1>7, <2>2, <2>3
  <2>5. f \in marked' => Choosable
    BY <2>4
  <2>6. Chosen(f)' <=> f \in marked'
    <3>1. ((f \in marked') # inverted') <=> f \in marked'
      <4>1. f \in marked' => (f \in marked') = TRUE
        OBVIOUS
      <4>2. ~(f \in marked') => (f \in marked') = FALSE
        OBVIOUS
      <4> QED BY <2>1, <4>1, <4>2
    <3>2. Chosen(f)' <=> Choosable' /\ ((f \in marked') # inverted')
      BY DEF Chosen
    <3> QED BY <1>3, <2>5, <3>1, <3>2
  <2>7. Chosen(f) <=> Choosable /\ (f \in marked) # inverted
    BY DEF Chosen
  <2> QED BY <2>4, <2>6, <2>7 DEF Chosen
<1> QED BY <1>8, <1>9

\* Taking files out of the results, as perform_on_marked does, leaves the marks of all that stay
\* as they were, whether the filter shows them or not: what failed is still marked, and nothing
\* else is marked by it.
THEOREM MarksOutlive == Spec => MarksOutliveRemovals
<1>1. Init => FilteredAreListed
  BY DEF Init, FilteredAreListed
<1>2. Spec => []FilteredAreListed
  BY <1>1, FilteredStep, CoreInvariant, PTL DEF Spec
<1>3. Core /\ DupesAreCurrent /\ FilteredAreListed
        => \A kept \in {{f \in Targets : groupOf'[f] # NoGroup}} :
             PerformAndRemove(kept) =>
               \A f \in File : groupOf'[f] # NoGroup => Chosen(f)' = Chosen(f)
  BY OutliveStep
<1> QED BY <1>2, <1>3, CoreInvariant, ListIsCurrent, PTL DEF MarksOutliveRemovals

\* The facts Results keeps in several places agree, for any files, groups,
\* reference folders and scans.
THEOREM StaysConsistent == Spec => []ResultsAreConsistent
<1>1. TypeOK /\ GroupsAgree /\ FilterAgrees /\ ListedOnDisk /\ DupesAreCurrent
        => ResultsAreConsistent
  BY DEF ResultsAreConsistent
<1> QED BY <1>1, TypeCorrect, GroupsAlwaysAgree, ListedStaysOnDisk, ListIsCurrent, PTL
=============================================================================
