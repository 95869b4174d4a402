------------------------------ MODULE Results -------------------------------
(***************************************************************************)
(* The results of a scan (core/results.py, core/markable.py), the part of  *)
(* engine.Group they rest on, and the operations of DupeGuru (core/app.py) *)
(* that change them.  Orders, sizes and the "is modified" flag are left    *)
(* out: no decision below reads them.  Jobs are atomic here: the window    *)
(* that shows them is modal.  Module Deletion takes one apart, and module  *)
(* Job shows when the window is gone before its job.                       *)
(***************************************************************************)
EXTENDS Integers, FiniteSets

CONSTANTS
  File,       \* paths a scan can list
  RefFile,    \* those whose is_ref is set: their folder's state is Reference
  Group,      \* group identities; a contents scan makes one per content
  GroupFor,   \* the group whose content a file holds
  Pattern,    \* the sets of files a filter can match
  Selection,  \* the sets of files a user can select in the table
  Scan,       \* the sets of files a scan or a saved results file can list
  NoFile, NoGroup,
  MaxStray,   \* bound: files that vanish behind the results' back
  MaxGhosts   \* bound: File objects of an earlier scan left in __marked

ASSUME FileAssumption ==
  /\ IsFiniteSet(File)
  /\ RefFile \subseteq File
  /\ GroupFor \in [File -> Group]
  /\ NoFile \notin File
  /\ NoGroup \notin Group
ASSUME InputAssumption ==
  /\ Pattern \subseteq SUBSET File
  /\ Selection \subseteq SUBSET File
  /\ Scan \subseteq SUBSET File
ASSUME BoundAssumption == MaxStray \in Nat /\ MaxGhosts \in Nat

VARIABLES
  members,        \* Group.unordered: {} once cleared or never made
  ref,            \* Group.ref: NoFile when the group is empty
  groupOf,        \* __group_of_duplicate
  marked,         \* __marked, the File objects of the current scan
  ghosts,         \* how many File objects of earlier scans it still holds
  inverted,       \* __inverted
  filtering,      \* __filters is not empty
  pattern,        \* the files whose path matches every filter in __filters
  filteredDupes,  \* __filtered_dupes, {} when there is no filter
  filteredGroups, \* __filtered_groups, {} when there is no filter
  totalCount,     \* __total_count
  dupes,          \* __dupes, the cached list behind the dupes property
  stale,          \* __dupes is None or refresh_required
  gone,           \* files no longer on disk
  stray           \* those of them the results were never told about

markVars   == <<marked, ghosts, inverted>>
filterVars == <<filtering, pattern, filteredDupes, filteredGroups>>
groupVars  == <<members, ref, groupOf>>
listVars   == <<dupes, stale>>
diskVars   == <<gone, stray>>
vars == <<markVars, filterVars, groupVars, totalCount, listVars, diskVars>>

-----------------------------------------------------------------------------
(* What the code reads.                                                    *)

Dupes(g) == members[g] \ {ref[g]}                      \* Group.dupes

\* The groups property: the filtered list when there is one.
Groups == IF filtering THEN filteredGroups ELSE {g \in Group : members[g] # {}}

Listed == UNION {members[g] : g \in Groups}            \* rows of the table

\* Results._is_markable.  An empty filtered set counts as no filter.
IsMarkable(f) ==
  /\ f \notin RefFile
  /\ groupOf[f] # NoGroup
  /\ members[groupOf[f]] # {}
  /\ f # ref[groupOf[f]]
  /\ filteredDupes = {} \/ f \in filteredDupes

Markable(S) == {f \in S : IsMarkable(f)}

IsMarked(f) == IsMarkable(f) /\ (f \in marked) # inverted

\* mark_count: what gates a deletion and what its dialog announces.
MarkCount ==
  LET held == Cardinality(marked) + ghosts
  IN  IF inverted THEN totalCount - held ELSE held

\* What __get_dupe_list computes, and the dupes property that caches it.
FreshDupes ==
  LET all == UNION {Dupes(g) : g \in Groups}
  IN  IF filteredDupes = {} THEN all ELSE all \cap filteredDupes
DupesRead == IF stale THEN FreshDupes ELSE dupes

\* The files perform_on_marked hands to its operation.
Targets == {f \in DupesRead : IsMarked(f)}

\* Any file may sort first, except that a reference-folder file always does.
CanLead(ms, f) ==
  /\ f \in ms
  /\ ms \cap RefFile = {} \/ f \in RefFile

-----------------------------------------------------------------------------
(* Steps the operations share.                                             *)

\* mark, unmark and mark_toggle on every file of S, as the new __marked.
MarkEach(S) == IF inverted THEN marked \ Markable(S) ELSE marked \cup Markable(S)
UnmarkEach(S) == IF inverted THEN marked \cup Markable(S) ELSE marked \ Markable(S)
ToggleEach(S) == (marked \ S) \cup Markable(S \ marked)

\* Mutant: __dupes is not reset.
InvalidateDupesForgotten == UNCHANGED listVars

InvalidateDupes == dupes' = {} /\ stale' = TRUE
ReadDupes == dupes' = DupesRead /\ stale' = FALSE

\* Mutant: recalculated before the lists change.
RecalculateStatsEarly ==
  totalCount' = Cardinality(Markable(UNION {Dupes(g) : g \in Groups}))

\* __recalculate_stats, run at the end of apply_filter.
RecalculateStats ==
  totalCount' = Cardinality(Markable(UNION {Dupes(g) : g \in Groups}))'


\* apply_filter with the filter whose matches are `pat`, or with None.
SetFilter(on, pat, ms, gof) ==
  LET found == IF on THEN pat \cap UNION {ms[g] : g \in Group} ELSE {}
  IN  /\ filtering' = on
      /\ pattern' = IF on THEN pat ELSE {}
      /\ filteredDupes' = found
      /\ filteredGroups' = {gof[f] : f \in found}

\* Mutant: a group whose last dupe goes is not cleared.
LeftUncleared(g, D) == members[g] \ D

\* remove_duplicates on dupes of listed groups, with Group.remove_dupe: a
\* group left with its reference alone, or with reference-folder files alone,
\* is cleared and leaves both lists.
Left(g, D) ==
  LET left == members[g] \ D
  IN  IF D \cap members[g] # {} /\ (left \subseteq {ref[g]} \/ left \subseteq RefFile)
      THEN {} ELSE left

RemoveFromGroups(D) ==
  LET cleared == {g \in Group : members[g] # {} /\ Left(g, D) = {}}
  IN  /\ members' = [g \in Group |-> Left(g, D)]
      /\ ref' = [g \in Group |-> IF g \in cleared THEN NoFile ELSE ref[g]]
      /\ groupOf' = [f \in File |->
                       IF f \in D \/ \E g \in cleared : f = ref[g]
                       THEN NoGroup ELSE groupOf[f]]
      /\ filteredGroups' = filteredGroups \ cleared
      /\ totalCount' = totalCount - Cardinality(D)
      /\ InvalidateDupes
      /\ UNCHANGED <<filtering, pattern, filteredDupes, ghosts>>

\* Group.prioritize on every listed group: `lead` sorts first in each.
Prioritized(lead) ==
  /\ lead \in [Groups -> Listed]
  /\ \A g \in Groups : CanLead(members[g], lead[g])
  /\ ref' = [g \in Group |-> IF g \in Groups THEN lead[g] ELSE ref[g]]

-----------------------------------------------------------------------------
(* Marking.                                                                *)

MarkDupe(f) ==
  /\ f \in Listed
  /\ marked' = MarkEach({f})
  /\ UNCHANGED <<ghosts, inverted, filterVars, groupVars, totalCount, listVars, diskVars>>

UnmarkDupe(f) ==
  /\ f \in Listed
  /\ marked' = UnmarkEach({f})
  /\ UNCHANGED <<ghosts, inverted, filterVars, groupVars, totalCount, listVars, diskVars>>

\* toggle_selected_mark_state: toggles when all agree, else marks them all.
ToggleSelected(S) ==
  LET selected == {f \in S : ref[groupOf[f]] # f}
  IN  /\ S \subseteq Listed
      /\ selected # {}
      /\ marked' = IF \E b \in BOOLEAN : \A f \in selected : IsMarked(f) = b
                   THEN ToggleEach(selected) ELSE MarkEach(selected)
      /\ UNCHANGED <<ghosts, inverted, filterVars, groupVars, totalCount, listVars, diskVars>>

\* mark_confidence: every dupe of the groups that sit in one tier.
MarkConfidence(tier) ==
  /\ tier \subseteq Groups
  /\ marked' = MarkEach(UNION {Dupes(g) : g \in tier})
  /\ UNCHANGED <<ghosts, inverted, filterVars, groupVars, totalCount, listVars, diskVars>>

MarkAll ==
  /\ IF filtering
     THEN marked' = MarkEach(filteredDupes) /\ UNCHANGED <<ghosts, inverted>>
     ELSE marked' = {} /\ ghosts' = 0 /\ inverted' = TRUE
  /\ UNCHANGED <<filterVars, groupVars, totalCount, listVars, diskVars>>

MarkNone ==
  /\ IF filtering
     THEN marked' = UnmarkEach(filteredDupes) /\ UNCHANGED <<ghosts, inverted>>
     ELSE marked' = {} /\ ghosts' = 0 /\ inverted' = FALSE
  /\ UNCHANGED <<filterVars, groupVars, totalCount, listVars, diskVars>>

MarkInvert ==
  /\ IF filtering
     THEN marked' = ToggleEach(filteredDupes) /\ UNCHANGED inverted
     ELSE inverted' = ~inverted /\ UNCHANGED marked
  /\ UNCHANGED <<ghosts, filterVars, groupVars, totalCount, listVars, diskVars>>

\* mark_by_criterion: prioritize, then mark_none and mark_all.
MarkByCriterion(lead) ==
  /\ Prioritized(lead)
  /\ InvalidateDupes
  /\ UNCHANGED <<filterVars, members, groupOf, totalCount, diskVars>>
  /\ IF filtering
     THEN LET all == Markable(filteredDupes)'
          IN  /\ marked' = IF inverted THEN marked \ all ELSE marked \cup all
              /\ UNCHANGED <<ghosts, inverted>>
     ELSE marked' = {} /\ ghosts' = 0 /\ inverted' = TRUE

-----------------------------------------------------------------------------
(* Reference, filter and list operations.                                  *)

\* Results.make_ref, one file of a make_selected_reference selection: the
\* others of its group are skipped and other groups do not interact.
MakeRef(f) ==
  LET g == groupOf[f]
      old == ref[g]
  IN  /\ f \in Listed /\ f # old
      /\ old \notin RefFile                            \* switch_ref refuses
      /\ ref' = [ref EXCEPT ![g] = f]
      /\ marked' = marked \ {f}
      /\ totalCount' = totalCount + 1 - (IF f \in RefFile THEN 0 ELSE 1)
      /\ InvalidateDupes
      /\ UNCHANGED <<ghosts, inverted, filterVars, members, groupOf, diskVars>>

\* reprioritize_groups: the marks and the statistics are not revisited.
Reprioritize(lead) ==
  /\ Prioritized(lead)
  /\ IF ref' # ref THEN InvalidateDupes ELSE UNCHANGED listVars
  /\ UNCHANGED <<markVars, filterVars, members, groupOf, totalCount, diskVars>>

\* DupeGuru.apply_filter: drops the previous filter first.
ApplyFilter(pat) ==
  /\ SetFilter(TRUE, pat, members, groupOf)
  /\ UNCHANGED <<markVars, groupVars, diskVars>>
  /\ RecalculateStats
  /\ InvalidateDupes

\* apply_filter(None): a blank filter field, and the first step of save_to_xml.
ClearFilter ==
  /\ SetFilter(FALSE, {}, members, groupOf)
  /\ UNCHANGED <<markVars, groupVars, diskVars>>
  /\ RecalculateStats
  /\ InvalidateDupes

\* The dupes property is read: table refresh, sort_dupes, has_marked_partial.
ListDupes ==
  /\ ReadDupes
  /\ UNCHANGED <<markVars, filterVars, groupVars, totalCount, diskVars>>

\* remove_selected and add_selected_to_ignore_list, after without_ref.
RemoveSelected(S) ==
  LET selected == {f \in S : ref[groupOf[f]] # f}
  IN  /\ S \subseteq Listed
      /\ selected # {}
      /\ RemoveFromGroups(selected)
      /\ marked' = marked \ selected
      /\ UNCHANGED <<inverted, diskVars>>

-----------------------------------------------------------------------------
(* Jobs on the marked files: perform_on_marked.                            *)

\* Mutant: the files in `problem` are not marked again.
RemarkForgotten(done, problem) ==
  IF filtering
  THEN LET shown == Markable(filteredDupes)'
       IN  /\ marked' = IF inverted THEN (marked \ done) \cup shown
                                    ELSE (marked \ done) \ shown
           /\ UNCHANGED inverted
  ELSE marked' = {} /\ inverted' = FALSE

\* mark_none, then mark on each file in `problem`.
Remark(done, problem) ==
  IF filtering
  THEN LET shown == Markable(filteredDupes)'
       IN  /\ marked' = IF inverted
                        THEN ((marked \ done) \cup shown) \ problem
                        ELSE ((marked \ done) \ shown) \cup problem
           /\ UNCHANGED inverted
  ELSE marked' = Markable(problem)' /\ inverted' = FALSE

\* With remove_from_results: the files in `problem` stay.
PerformAndRemove(problem) ==
  LET done == Targets \ problem
  IN  /\ problem \subseteq Targets
      /\ RemoveFromGroups(done)
      /\ Remark(done, problem)


\* What _do_delete_dupe did to the disk when all is done.
LeaveDisk(done, late) == gone' = gone \cup done \cup late /\ stray' = stray \cup late

\* delete_marked.  Some of the problems arise after the file is gone (`late`:
\* the replacement could not be moved into place, a directory not cleaned).
DeleteMarked(problem, late) ==
  /\ MarkCount # 0
  /\ late \subseteq problem \ gone
  /\ Cardinality(stray) + Cardinality(late) <= MaxStray
  /\ PerformAndRemove(problem)
  /\ LeaveDisk(Targets \ problem, late)

\* remove_marked; also move_marked, whose files survive elsewhere.
RemoveMarked(problem) ==
  /\ MarkCount # 0
  /\ PerformAndRemove(problem)
  /\ UNCHANGED diskVars

-----------------------------------------------------------------------------
(* Setting the groups.                                                     *)

\* What a scan, or a saved results file, can list: two files or more of one
\* content, still on disk, at most one of them from a reference folder.
Contained(L, g) == {f \in L : GroupFor[f] = g}
\* Mutant: the scan lists a stale directory listing.
ScannableFromStaleListing ==
  {L \in Scan :
    /\ \A e \in L : \E f \in L \ {e} : GroupFor[f] = GroupFor[e]
    /\ \A e, f \in L \cap RefFile : GroupFor[e] = GroupFor[f] => e = f}

Scannable ==
  {L \in Scan :
    /\ L \subseteq File \ gone
    /\ \A e \in L : \E f \in L \ {e} : GroupFor[f] = GroupFor[e]
    /\ \A e, f \in L \cap RefFile : GroupFor[e] = GroupFor[f] => e = f}

\* __set_groups, its File objects new ones, with the scan's prioritization.
SetGroups(L, lead, on) ==
  /\ \A g \in Group : IF Contained(L, g) = {} THEN lead[g] = NoFile
                                             ELSE CanLead(Contained(L, g), lead[g])
  /\ members' = [g \in Group |-> Contained(L, g)]
  /\ ref' = lead
  /\ groupOf' = [f \in File |-> IF f \in L THEN GroupFor[f] ELSE NoGroup]
  /\ SetFilter(on, pattern, members', groupOf')
  /\ RecalculateStats
  /\ InvalidateDupes
  /\ UNCHANGED diskVars

\* The mark_none __set_groups begins with: under a filter it reaches the
\* filtered dupes only, and what __marked still holds are old objects.
ForgetMarks ==
  /\ marked' = {}
  /\ IF filtering
     THEN /\ ghosts' = ghosts + Cardinality(UnmarkEach(filteredDupes))
          /\ ghosts' <= MaxGhosts
          /\ UNCHANGED inverted
     ELSE ghosts' = 0 /\ inverted' = FALSE

\* start_scanning empties the results; a scan that is cancelled or fails
\* leaves them so.
StartScanning ==
  /\ ForgetMarks
  /\ SetGroups({}, [g \in Group |-> NoFile], filtering)

\* The scan job assigns its groups to the emptied results.
ScanDone(L, lead) ==
  /\ \A g \in Group : members[g] = {}
  /\ ForgetMarks
  /\ SetGroups(L, lead, filtering)

\* load_from_xml: drops the filter, sets the groups, marks what was saved.
LoadResults(L, lead, saved) ==
  /\ SetGroups(L, lead, FALSE)
  /\ marked' = Markable(saved)' /\ ghosts' = 0 /\ inverted' = FALSE

-----------------------------------------------------------------------------
(* A file disappears without dupeGuru: another program, another session.   *)
Vanish(f) ==
  /\ f \notin gone
  /\ Cardinality(stray) < MaxStray
  /\ gone' = gone \cup {f}
  /\ stray' = stray \cup {f}
  /\ UNCHANGED <<markVars, filterVars, groupVars, totalCount, listVars>>

Init ==
  /\ members = [g \in Group |-> {}]
  /\ ref = [g \in Group |-> NoFile]
  /\ groupOf = [f \in File |-> NoGroup]
  /\ marked = {} /\ ghosts = 0 /\ inverted = FALSE
  /\ filtering = FALSE /\ pattern = {} /\ filteredDupes = {} /\ filteredGroups = {}
  /\ totalCount = 0
  /\ dupes = {} /\ stale = TRUE
  /\ gone = {} /\ stray = {}

\* The users' part: every operation the front ends offer on the results.
Marking ==
  \/ \E f \in File : MarkDupe(f) \/ UnmarkDupe(f)
  \/ \E S \in Selection : ToggleSelected(S)
  \/ \E tier \in SUBSET Group : MarkConfidence(tier)
  \/ MarkAll \/ MarkNone \/ MarkInvert
  \/ \E lead \in [Groups -> Listed] : MarkByCriterion(lead)

Arranging ==
  \/ \E f \in File : MakeRef(f)
  \/ \E lead \in [Groups -> Listed] : Reprioritize(lead)
  \/ \E pat \in Pattern : ApplyFilter(pat)
  \/ ClearFilter \/ ListDupes
  \/ \E S \in Selection : RemoveSelected(S)

Working ==
  \/ \E problem \in SUBSET Targets : \E late \in SUBSET problem : DeleteMarked(problem, late)
  \/ \E problem \in SUBSET Targets : RemoveMarked(problem)
  \/ StartScanning
  \/ \E L \in Scannable : \E lead \in [Group -> L \cup {NoFile}] :
       \/ ScanDone(L, lead)
       \/ \E saved \in Pattern : LoadResults(L, lead, saved)

Next == Marking \/ Arranging \/ Working \/ \E f \in File : Vanish(f)

Spec == Init /\ [][Next]_vars

-----------------------------------------------------------------------------
(* Properties.                                                             *)

TypeOK ==
  /\ members \in [Group -> SUBSET File]
  /\ ref \in [Group -> File \cup {NoFile}]
  /\ groupOf \in [File -> Group \cup {NoGroup}]
  /\ marked \in SUBSET File /\ ghosts \in Nat /\ inverted \in BOOLEAN
  /\ filtering \in BOOLEAN /\ pattern \in SUBSET File
  /\ filteredDupes \in SUBSET File /\ filteredGroups \in SUBSET Group
  /\ totalCount \in Int
  /\ dupes \in SUBSET File /\ stale \in BOOLEAN
  /\ gone \in SUBSET File /\ stray \in SUBSET gone

\* The group list, the groups and __group_of_duplicate agree: a listed group
\* has its reference and something else, no file is in two groups or mapped
\* to a group it left, and only the reference can come from a reference folder.
GroupsAgree ==
  \A g \in Group :
    /\ members[g] = {} => ref[g] = NoFile
    /\ members[g] # {} => ref[g] \in members[g] /\ members[g] # {ref[g]}
    /\ \A f \in File : f \in members[g] <=> groupOf[f] = g
    /\ \A f \in members[g] : GroupFor[f] = g
    /\ members[g] \cap RefFile \subseteq {ref[g]}

\* The filtered lists never mention a group that is gone, and without a filter
\* they are empty.
FilterAgrees ==
  /\ \A g \in filteredGroups : members[g] # {}
  /\ ~filtering => filteredDupes = {} /\ filteredGroups = {} /\ pattern = {}

\* A listed file is on disk, unless it left without the results knowing.
ListedOnDisk == \A g \in Group : members[g] \cap gone \subseteq stray

\* No session, however long, destroys the last copy of a content, as long as
\* no copy of it vanished behind the results' back (perform_on_marked,
\* make_ref, prioritize and new scans taken together).
Copies(g) == {f \in File : GroupFor[f] = g}
KeepsOneCopy ==
  \A g \in Group :
    (Copies(g) # {} /\ Copies(g) \cap stray = {}) => ~(Copies(g) \subseteq gone)

\* Whatever is deleted was on screen with its box checked when Delete was
\* pressed: neither a filter that hides it nor a list read before the last
\* change of the results can widen a deletion.
DeletesOnlyWhatIsShown ==
  [][(gone' \ gone) \ stray' \subseteq {f \in Listed : IsMarked(f)}]_vars

\* The cached dupes list is what the results hold now whenever it is used
\* without being rebuilt (refresh_required and the resets of __dupes).
DupesAreCurrent == stale \/ dupes = FreshDupes

\* What Results keeps in several places, by hand, never falls apart: groups,
\* the map from files to groups, the filtered lists, the cached list and the
\* disk, whatever is marked, filtered, removed, deleted or scanned again.
ResultsAreConsistent == TypeOK /\ GroupsAgree /\ FilterAgrees /\ ListedOnDisk /\ DupesAreCurrent

\* Without a filter the running total, kept by increments in make_ref and
\* remove_duplicates, is the number of files that can be marked.
TotalIsExact == filtering \/ totalCount = Cardinality(Markable(Listed))

\* Taking files out of the results leaves the marks of those that stay as
\* they were, hidden by a filter or not: a file whose deletion failed is
\* still marked, an unmarked one does not become marked by it.
Chosen(f) == f \in Dupes(groupOf[f]) /\ f \notin RefFile /\ (f \in marked) # inverted
MarksOutliveRemovals ==
  [][ \A kept \in {{f \in Targets : groupOf'[f] # NoGroup}} :
        PerformAndRemove(kept)
          => \A f \in File : groupOf'[f] # NoGroup => Chosen(f)' = Chosen(f) ]_vars

\* The results keep what SafeDedup promises.
Promise == INSTANCE SafeDedup WITH
  disk <- File \ gone, Content <- Group, ContentOf <- GroupFor
KeepsPromise == Promise!Spec

=============================================================================
