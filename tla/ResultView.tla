----------------------------- MODULE ResultView -----------------------------
(***************************************************************************)
(* The results as the user sees them and works on them: the rows of the    *)
(* table and its selected indexes (core/gui/result_table.py on top of      *)
(* hscommon/gui), the application's selected files, the search field, and  *)
(* the jobs that change results behind the table.  Paths are numbers, in   *)
(* the order the table sorts them by.  Reference folders and the details   *)
(* of marking are left to module Results, why files match to Grouping.     *)
(***************************************************************************)
EXTENDS IgnoreList, Integers

CONSTANTS
  Class,       \* contents; at most three files have one, so a class makes one group
  ClassOf,
  FilterText,  \* the sets of paths a text can match
  NoFilter,    \* None, and the blank search field
  JobBound     \* bound: jobs

ASSUME ViewConstants ==
  /\ Path \subseteq Nat \ {0} /\ ClassOf \in [Path -> Class]
  /\ FilterText \subseteq SUBSET Path /\ NoFilter \notin FilterText
  /\ JobBound \in Nat

VARIABLES
  found,     \* Results: the groups, and the filter with what it found
  marks,     \* the files marked
  chosen,    \* app.selected_dupes
  rows, indexes,  \* the table's rows and selected_indexes
  dupesOnly, ascending,
  typed,     \* the text in the search field
  work,      \* the job: what it is, what it works on, whether its window is open
  unseen,    \* the results were changed and the table was not told
  together,  \* the groups come from a scan
  apartNow,  \* the pairs the user ignored and has not taken back
  jobs

tableVars == <<chosen, rows, indexes>>
modeVars == <<dupesOnly, ascending, typed>>
viewVars == <<found, marks, tableVars, modeVars, work, unseen, together, apartNow, jobs, ignoreVars>>

NoGroup == [ref |-> 0, members |-> {}]
NoWork == [kind |-> "none", targets |-> {}, window |-> FALSE]
Nothing == [groups |-> [c \in Class |-> NoGroup], filter |-> NoFilter, hits |-> {}, listed |-> {}]

-----------------------------------------------------------------------------
(* The results.                                                            *)

GroupOf(res, p) == res.groups[ClassOf[p]]
Grouped(res, p) == p \in GroupOf(res, p).members
IsRef(res, p) == GroupOf(res, p).ref = p
DupesOf(g) == g.members \ {g.ref}

\* apply_filter(None), and then the filter when there is one.
Filtered(res, text) ==
  LET hits == IF text = NoFilter THEN {} ELSE {p \in text : Grouped(res, p)}
  IN  [res EXCEPT !.filter = text, !.hits = hits, !.listed = {ClassOf[p] : p \in hits}]

\* The groups property.
Listed(res) ==
  {c \in IF res.filter = NoFilter THEN Class ELSE res.listed : res.groups[c] # NoGroup}
\* The dupes property: an empty set of hits filters nothing.
ListedDupes(res) ==
  {p \in UNION {DupesOf(res.groups[c]) : c \in Listed(res)} : res.hits = {} \/ p \in res.hits}

\* remove_duplicates: a group left with its reference alone is cleared.
Without(res, gone) ==
  [res EXCEPT !.groups =
     [c \in Class |-> LET g == res.groups[c] IN
        IF g.members \ gone \subseteq {g.ref} THEN NoGroup ELSE [g EXCEPT !.members = @ \ gone]]]

\* __set_groups: the filter outlives the groups.
WithGroups(res, groups) == Filtered([res EXCEPT !.groups = groups], res.filter)

-----------------------------------------------------------------------------
(* The table.                                                              *)

InOrder(numbers) ==
  [i \in 1..Cardinality(numbers) |->
     CHOOSE n \in numbers : Cardinality({m \in numbers : m < n}) = i - 1]
Sorted(set, up) == IF up THEN InOrder(set) ELSE Reverse(InOrder(set))

\* Of a sequence, what is at these places.
Those(s, places) == LET order == InOrder(places) IN [n \in DOMAIN order |-> s[order[n]]]

\* ResultTable._fill
RowsOf(res, only, up) ==
  IF only THEN Sorted(ListedDupes(res), up)
  ELSE LET refs == Sorted({res.groups[c].ref : c \in Listed(res)}, up)
       IN  FlattenSeq([i \in DOMAIN refs |->
                         <<refs[i]>> \o Sorted(DupesOf(GroupOf(res, refs[i])), TRUE)])

\* ResultTable.refresh: the rows anew, and of them those of the selected files.
Refresh(selected) ==
  /\ chosen' = selected
  /\ rows' = RowsOf(found', dupesOnly', ascending')
  /\ indexes' = {i \in DOMAIN rows' : rows'[i] \in ToSet(chosen')}

\* DupeGuru._results_changed
ResultsChanged ==
  /\ Refresh(Those(chosen, {i \in DOMAIN chosen : Grouped(found', chosen[i])}))
  /\ unseen' = FALSE

\* select: the indexes the table has, or its last row, and the files there.
Select(wanted) ==
  LET inRange == wanted \cap DOMAIN rows'
  IN  /\ indexes' = IF wanted # {} /\ inRange = {} /\ rows' # <<>> THEN {Len(rows')} ELSE inRange
      /\ chosen' = Those(rows', indexes')

\* Mutant: the selection is brought back as for any other change.
KeepNoSelection == Refresh(chosen) /\ unseen' = FALSE
\* results_changed_but_keep_selection: the same rows stay selected, whatever is in them.
KeepSelection ==
  /\ rows' = RowsOf(found', dupesOnly', ascending')
  /\ Select(indexes)
  /\ unseen' = FALSE

-----------------------------------------------------------------------------
(* What the user does.                                                     *)

\* No progress window is in the way.
Free == ~work.window
\* without_ref raises on a file that is in no group.
Workable == \A i \in DOMAIN chosen : Grouped(found, chosen[i])
WithoutRef == Those(chosen, {i \in DOMAIN chosen : ~IsRef(found, chosen[i])})

SelectRows(wanted) ==
  /\ Free /\ wanted \subseteq DOMAIN rows /\ rows' = rows /\ Select(wanted)
  /\ UNCHANGED <<found, marks, modeVars, work, unseen, together, apartNow, jobs, ignoreVars>>

ToggleDupesOnly ==
  /\ Free /\ dupesOnly' = ~dupesOnly /\ found' = found /\ ascending' = ascending /\ Refresh(chosen)
  /\ UNCHANGED <<marks, typed, work, unseen, together, apartNow, jobs, ignoreVars>>
SortTable ==
  /\ Free /\ ascending' = ~ascending /\ found' = found /\ dupesOnly' = dupesOnly /\ Refresh(chosen)
  /\ UNCHANGED <<marks, typed, work, unseen, together, apartNow, jobs, ignoreVars>>

ApplyFilter(text) ==
  /\ Free /\ typed' = text
  /\ found' = Filtered(found, text)
  /\ UNCHANGED <<dupesOnly, ascending>> /\ ResultsChanged
  /\ UNCHANGED <<marks, work, together, apartNow, jobs, ignoreVars>>

\* save_to_xml starts with apply_filter(None), and nobody is told.
SaveResults ==
  /\ Free /\ found' = Filtered(found, NoFilter)
  /\ unseen' = (unseen \/ found' # found)
  /\ UNCHANGED <<marks, tableVars, modeVars, work, together, apartNow, jobs, ignoreVars>>

\* remove_duplicates with its notification.
RemoveDupes(gone) ==
  /\ found' = Without(found, gone) /\ marks' = marks \ gone
  /\ UNCHANGED <<dupesOnly, ascending>> /\ KeepSelection

RemoveSelected ==
  /\ Free /\ Workable /\ WithoutRef # <<>>
  /\ RemoveDupes(ToSet(WithoutRef))
  /\ UNCHANGED <<typed, work, together, apartNow, jobs, ignoreVars>>

\* Mutant: with the group's reference only.
PairWithRef(p) == <<<<GroupOf(found, p).ref, p>>>>
\* Each selected file with all the others of its group.
PairsOf(p) ==
  LET others == Sorted(GroupOf(found, p).members \ {p}, TRUE)
  IN  [i \in DOMAIN others |-> <<others[i], p>>]

AddSelectedToIgnoreList ==
  /\ Free /\ Workable /\ WithoutRef # <<>>
  /\ Ignore(FlattenSeq([i \in DOMAIN WithoutRef |-> PairsOf(WithoutRef[i])]))
  /\ apartNow' = apartNow \cup
       UNION {{{p, other} : other \in GroupOf(found, p).members \ {p}} : p \in ToSet(WithoutRef)}
  /\ RemoveDupes(ToSet(WithoutRef))
  /\ UNCHANGED <<typed, work, together, jobs>>

\* Of the selected files of a group the first one becomes its reference.
MakeSelectedReference ==
  /\ Free /\ Workable
  /\ LET first(c) == Those(WithoutRef, {i \in DOMAIN WithoutRef : ClassOf[WithoutRef[i]] = c})
         changed == {c \in Class : first(c) # <<>>}
         promoted == {first(c)[1] : c \in changed}
     IN  /\ found' = [found EXCEPT !.groups =
                        [c \in Class |-> IF c \in changed THEN [@[c] EXCEPT !.ref = first(c)[1]] ELSE @[c]]]
         /\ marks' = marks \ promoted
         /\ UNCHANGED <<dupesOnly, ascending>>
         /\ IF dupesOnly THEN KeepSelection
            ELSE /\ Refresh(IF changed = {} THEN chosen
                            ELSE Those(chosen, {i \in DOMAIN chosen : IsRef(found', chosen[i])}))
                 /\ unseen' = FALSE
  /\ UNCHANGED <<typed, work, together, apartNow, jobs, ignoreVars>>

\* What Mark All reaches: under a filter what it found, else every duplicate.
Markable(p) == Grouped(found, p) /\ ~IsRef(found, p) /\ (found.hits # {} => p \in found.hits)
MarkAll ==
  /\ Free
  /\ marks' = marks \cup {p \in IF found.filter = NoFilter THEN Path ELSE found.hits : Markable(p)}
  /\ UNCHANGED <<found, tableVars, modeVars, work, unseen, together, apartNow, jobs, ignoreVars>>

\* In the ignore list's window.
EditIgnoreList ==
  /\ Free
  /\ (\E taken \in SUBSET ignoreList.pairs : RemoveRows(taken)) \/ ClearIgnoreList
  /\ apartNow' = apartNow \cap Unordered(ignoreList'.pairs)
  /\ UNCHANGED <<found, marks, tableVars, modeVars, work, unseen, together, jobs>>

-----------------------------------------------------------------------------
(* Jobs.                                                                   *)

Start(kind, targets) ==
  /\ work' = [kind |-> kind, targets |-> targets, window |-> TRUE] /\ jobs' = jobs + 1

\* A new table in a new results window, with a blank search field.
NewTable == dupesOnly' = FALSE /\ ascending' = ascending /\ typed' = NoFilter

DeleteMarked ==
  /\ Free /\ work = NoWork /\ jobs < JobBound
  /\ \E targets \in {{p \in ListedDupes(found) : p \in marks}} : targets # {} /\ Start("delete", targets)
  /\ UNCHANGED <<found, marks, tableVars, modeVars, unseen, together, apartNow, ignoreVars>>

\* The old results go before it shows whether an earlier job still runs.
StartScanning ==
  /\ Free /\ jobs < JobBound
  /\ found' = WithGroups(found, Nothing.groups) /\ marks' = {}
  /\ NewTable /\ ResultsChanged
  /\ IF work = NoWork THEN Start("scan", {}) ELSE UNCHANGED <<work, jobs>>
  /\ together' = TRUE /\ UNCHANGED <<apartNow, ignoreVars>>

LoadResults ==
  /\ Free /\ work = NoWork /\ jobs < JobBound /\ Start("load", {})
  /\ UNCHANGED <<found, marks, tableVars, modeVars, unseen, together, apartNow, ignoreVars>>

\* The user cancels: the window closes, and the thread finds out later.
CloseWindow ==
  /\ work.window /\ work' = [work EXCEPT !.window = FALSE]
  /\ UNCHANGED <<found, marks, tableVars, modeVars, unseen, together, apartNow, jobs, ignoreVars>>

\* The window's pulse calls _job_completed, which nobody does once it is closed.
Tell == IF work.window THEN ResultsChanged ELSE UNCHANGED tableVars /\ unseen' = TRUE

\* Some of the files are deleted, the others are its problems.  A file that has become a
\* reference, or has left the results, since the window closed stops the removal where it is.
FinishDelete ==
  /\ work.kind = "delete" /\ work' = NoWork
  /\ \E deleted \in SUBSET work.targets :
       /\ LET dupes == {p \in deleted : Grouped(found, p) /\ ~IsRef(found, p)} IN
          \E gone \in IF dupes = deleted THEN {deleted} ELSE SUBSET dupes :
            /\ found' = Without(found, gone)
            /\ marks' = (marks \ gone) \cap (work.targets \cup (IF found.filter = NoFilter THEN {} ELSE Path \ found.hits))
  /\ UNCHANGED modeVars /\ Tell
  /\ UNCHANGED <<together, apartNow, jobs, ignoreVars>>

\* The scanner keeps a match unless its pair is ignored; an empty list is not asked.
MayMeet(p, q) == ignoreList.count > 0 => ~AreIgnored(ignoreList, p, q)
Members(c) == {p \in Path : ClassOf[p] = c}
GroupsOf(c) ==
  {NoGroup} \cup
  UNION {{[ref |-> r, members |-> met] : r \in met} :
           met \in {m \in SUBSET Members(c) : Cardinality(m) > 1 /\ \A p, q \in m : p = q \/ MayMeet(p, q)}}
ScanGroups ==
  {groups \in [Class -> UNION {GroupsOf(c) : c \in Class}] : \A c \in Class : groups[c] \in GroupsOf(c)}
SavedGroups ==
  [c \in Class |-> IF Cardinality(Members(c)) < 2 THEN NoGroup
                   ELSE [ref |-> CHOOSE p \in Members(c) : TRUE, members |-> Members(c)]]

\* A cancelled scan or load either notices in time or has set the groups.
FinishScan ==
  /\ work.kind = "scan" /\ work' = NoWork /\ UNCHANGED <<modeVars, marks>>
  /\ \/ (\E groups \in ScanGroups : found' = WithGroups(found, groups)) /\ Tell
     \/ ~work.window /\ UNCHANGED <<found, tableVars, unseen>>
  /\ UNCHANGED <<together, apartNow, jobs, ignoreVars>>
FinishLoad ==
  /\ work.kind = "load" /\ work' = NoWork
  /\ \/ /\ found' = WithGroups(found, SavedGroups)
        /\ marks' = {} /\ together' = FALSE
        /\ (IF work.window THEN NewTable ELSE UNCHANGED modeVars) /\ Tell
     \/ ~work.window /\ UNCHANGED <<found, marks, modeVars, tableVars, unseen, together>>
  /\ UNCHANGED <<apartNow, jobs, ignoreVars>>

-----------------------------------------------------------------------------
ViewInit ==
  /\ found = Nothing /\ marks = {} /\ chosen = <<>> /\ rows = <<>> /\ indexes = {}
  /\ dupesOnly = FALSE /\ ascending = TRUE /\ typed = NoFilter
  /\ work = NoWork /\ unseen = FALSE /\ together = TRUE /\ apartNow = {} /\ jobs = 0
  /\ IgnoreInit

ViewNext ==
  \/ \E wanted \in SUBSET DOMAIN rows : SelectRows(wanted)
  \/ ToggleDupesOnly \/ SortTable \/ SaveResults \/ MarkAll
  \/ \E text \in FilterText \cup {NoFilter} : ApplyFilter(text)
  \/ RemoveSelected \/ AddSelectedToIgnoreList \/ MakeSelectedReference \/ EditIgnoreList
  \/ DeleteMarked \/ StartScanning \/ LoadResults \/ CloseWindow
  \/ FinishDelete \/ FinishScan \/ FinishLoad

ViewSpec == ViewInit /\ [][ViewNext]_viewVars

-----------------------------------------------------------------------------
\* Unless results changed behind the table (a filter dropped by a save, a job that was
\* cancelled), its rows are the results, and what is highlighted is what an operation on the
\* selection works on, but for selected files that the filter or the mode hides.
ViewIsCurrent ==
  ~unseen =>
    /\ rows = RowsOf(found, dupesOnly, ascending)
    /\ ToSet(chosen) \cap ToSet(rows) = {rows[i] : i \in indexes}
    /\ \A p \in ToSet(chosen) : Grouped(found, p)

\* "All selected matches are going to be ignored in all subsequent scans" (app.py): no group of
\* a scan has two files the user told it to keep apart, be it directly or through a third one.
IgnoredStayApart ==
  together => \A pair \in apartNow : \E p \in pair : \E q \in pair \ {p} :
                ~(Grouped(found, p) /\ q \in GroupOf(found, p).members)

\* While a filter stands in the search field, Mark All reaches the files it matches only
\* (help/en/results.rst).
MarkAllStaysInFilter == [][MarkAll /\ typed # NoFilter => marks' \ marks \subseteq typed]_viewVars

=============================================================================
