# Verification of dupeGuru

TLA+ models of dupeGuru, TLC configurations that check them on small instances,
and TLAPS proofs of what matters most for every size of instance.

The program finds groups of duplicate files, lets its user mark some of them
and deletes (moves, links, clones) the marked ones. One file of every group,
its *reference*, must survive. The danger is seldom a single function: it is a
long sequence of marks, filters, reprioritizations and scans, a failure or a
crash in the middle of a deletion, two threads or processes at once, or
something remembered (a digest, a listing, a saved result, a row of a table)
that is no longer so when it is used.

## Inventory

| Component | State | Operations | What is hard | What makes it correct |
|---|---|---|---|---|
| **Results and marks** (`core/results.py`, `core/markable.py`) | groups, `__group_of_duplicate`, `__marked`, `__inverted`, filter stack, filtered lists, running totals, cached `__dupes` | mark/unmark/toggle/all/none/invert, `make_ref`, `apply_filter`, `remove_duplicates`, `perform_on_marked`, load/save | any order of operations; marks that filters or references make ineffective; caches and counters kept by hand | lists agree; the reference is never a target; a deletion takes what is shown checked; marks of the rest survive |
| **Group** (`core/engine.py:572-854`) | members, order, matches | `add_match`, `prioritize`, `switch_ref`, `remove_dupe` | a group shrinking to its reference; `UniformMatches` reading an aliased list | reference-folder files sort first; no group of one |
| **Application** (`core/app.py`) | selection, the objects above | all menu commands; starts jobs; `_job_completed` | commands between and during jobs | each command leaves the results consistent |
| **Deletion** (`core/app.py:137-559`, `core/trash.py`, `core/clone.py`) | files, trash, temporary replacements, problems | check, verify, build a replacement, record, remove, amend, rename | every step can fail; crash between steps; other programs; cancel | record before removal; a replacement is never missing; the results match the disk |
| **Deletion log and restore** (`core/deletion_log.py`) | one JSON-lines file, runs in memory | append, amend, load and compact, restore | two processes, torn lines, crash while compacting; names of the trash used again | damage stays local; a restore destroys nothing |
| **Trash back ends** (`core/trash.py`) | none of their own | one per platform, and `send2trash` | failing after the move; not knowing whether it happened | what is reported is what happened |
| **Background jobs** (`hscommon/jobprogress`, `hscommon/gui/progress_window.py`, `qt/progress_window.py`) | `_job_running`, `last_progress`, `job_cancelled`, `last_error`; nested jobs and shares; samples of the pace; the window, its timer and dialog | run, pulse, cancel, close; `start_job`, `start_subjob`, `set_progress`; `remaining_seconds` | two threads and no lock; the window gone before the thread; exceptions that cancel and are swallowed; retried work | one job at a time, reported once for what it was; the bar and the estimate do not mislead; every window closes |
| **Scanner and engine** (`core/scanner.py`, `core/engine.py`, `core/combined_scan.py`) | matches, candidates, groups | collect, hash, match by contents/words/pictures, group, filter | truncation on `MemoryError`, orphan matches, content classes, process pools | groups are cliques of matches, no file in two groups |
| **Digest caches** (`core/fs.py`, `core/hash_cache.py`) | path, size, time, digests; a batch of pending writes | get, put, flush, purge, clear | files that change while they are hashed; batches lost; another algorithm | a digest served is the digest of that file as it is |
| **File list cache** (`core/file_list_cache.py`) | listings by directory, with time | get, put, purge | time resolution, in-place changes | no file is missed |
| **Folders and patterns** (`core/directories.py`, `core/exclude.py`) | roots, states; patterns, marks, the compiled union | get/set state, walks; add/rename/remove/mark | remembered defaults; marks that outlive patterns; a dirty flag set by hand | what the user chose is what a scan does |
| **Ignore list** (`core/ignore.py`) | pairs stored in either direction, a count | ignore, remove, filter, clear, load, save | the same pair from two sides | a set of unordered pairs; no scan groups them |
| **Picture matching** (`core/pe`) | block signatures with times, matches of the last scan | prepare, compare, purge, reuse | pools that break, times in two units, EXIF orientation | no comparison rests on an older picture |
| **Reports** (`core/folder_rollup.py`, `core/folder_overlap.py`, `core/confidence.py`, `core/deletion_plan.py`) | computed once per dialog | rows, counts, plan; mark from them | acted on after the results moved on | each file in one row; a plan is what is deleted |
| **Command line** (`cli.py`) | one process: arguments, results, record | scan, load, plan, delete, emit | results of an earlier process, gates, interruption | the record is what happened; references stay |
| **Result table, details, image viewers** (`core/gui`, `hscommon/gui`, `qt/pe/image_viewer.py`) | rows, indexes, selected files, filter text; scale and fit of two panes | refresh, select, sort, filter; zoom, swap | results that change behind the view | what is highlighted is what is worked on |
| **Preferences, profiles** (`qt/preferences*.py`, `qt/app.py`, `core/scan_profile.py`) | boxes, preferences, stored settings, profiles, core options | accept, reset, change mode, load and save a profile | five copies of one setting; crash | the next scan runs with what is shown |
| Picture and music readers, criteria, export, localisation, packaging, Qt layout | none that decides anything above | | | |

Components call each other directly in one process. Four interactions are
not plain calls: a job runs in a thread of its own and is observed through four
attributes; the window and the command line share the deletion log, and the
caches, through files; pools of processes hash files and decode pictures; other
programs change the files at any time.

## Modules

| Module | Models | Used by |
|---|---|---|
| `SafeDedup` | what dupeGuru promises about the disk, abstractly | implemented by `Results` |
| `Results`, `ResultsProofs` | results, marks, the group operations and the commands of `DupeGuru`; proofs | `MCResults` |
| `Grouping`, `GroupingProofs` | how a scan makes groups of what matches; proofs | `MCGrouping` (instances), `MCBackground` |
| `Deletion`, `DeletionProofs` | one deletion job, step by step, with log, trash, crash, restore; the steps of `Results`' `DeleteMarked` | `MCDeletion` |
| `DeletionLog` | the log file under several processes (proofs in `BackgroundProofs`) | `MCBackground` |
| `Job`, `BackgroundProofs` | threads, progress window and cancellation; proofs | `MCBackground` |
| `Progress` | nested jobs, shares of the bar, pools that break, cancellation (proofs in `BackgroundProofs`) | `MCBackground` |
| `Tracker` | the time left and when it is shown (proofs in `CliProofs`) | `MCBackground` |
| `Digests`, `CacheProofs` | `FilesDB` and `HashCache` under a contents scan; proofs, also about `ExcludeList` and `Collection` | `MCCaches` |
| `ExcludeList`, `Collection` | patterns; folders, states, listings and walks | `MCCaches` |
| `Pictures`, `PictureProofs` | block cache, match cache and a picture scan | `MCCaches` |
| `Cli`, `CliProofs` | the command line, process after process; proofs | `MCCli` |
| `IgnorePairs`, `IgnoreList` | a set of unordered pairs, abstractly; the ignore list that implements it | `MCFront` |
| `ResultView` | table, selection, filter text and jobs beside the results; extends `IgnoreList` | `MCFront` |
| `Details` | the details dialog and its two panes | `MCFront` |
| `Reports` | rollup, overlap, confidence, preview and what is done from them | `MCFront` |
| `Restore` | trash back ends, names in the trash, restores | `MCResults` |
| `Settings` | preferences, options, modes and profiles | `MCResults` |
| `FrontProofs` | proofs about `IgnoreList`, `ResultView`, `Details`, `Reports`, `Restore` and `Settings` | |

Definitions have the names of the code where TLA+ allows. A `Mutant:` comment
precedes a definition that no specification uses: it is the next definition with
a plausible bug, kept to show that a property can fail.

**Composition.** `MCResults`, `MCBackground`, `MCCaches` and `MCFront` each put several
modules beside each other. Where modules share state in the code the sharing is
inside a module (`Collection` extends `ExcludeList`, `ResultView` extends
`IgnoreList`). The others share none, so that interleaving them would only
multiply their states: a behaviour is chosen to be of one `part`, the
rest stays in an initial state. `MCBackground` groups a scan without matches first,
since `Grouping`'s liveness is stated for every behaviour.

### SafeDedup and Results

`SafeDedup` has two variables: what is on disk, and which files left it without
the results' knowledge (`stray`). A deletion may take any files but those of
reference folders and the last copy of a content. Stray files void the promise
for their content: the code re-checks the dupe before it deletes it
(`check_deletable`) and never the reference.

`Results` follows `Results`, `Markable` and `Group` variable by variable. One
action is one command of the application: `MarkDupe`, `ToggleSelected`,
`MarkConfidence`, `MarkAll`, `MarkNone`, `MarkInvert`, `MarkByCriterion`,
`MakeRef`, `Reprioritize`, `ApplyFilter`, `ClearFilter`, `ListDupes` (a read that
fills the cache), `RemoveSelected`, `DeleteMarked`, `RemoveMarked` (also a move:
the bytes survive elsewhere), `StartScanning`, `ScanDone`, `LoadResults`; and
`Vanish`, somebody else's deletion. The order inside a group is abstracted to
its reference. A group is named after the content its files hold, so a file can
be in one group only; that a scan delivers disjoint groups with at most one
reference file each (`Scannable`) is what `Grouping` shows of the scanner. Marks on
File objects of an earlier scan are only counted (`ghosts`), as `mark_count`
does.

A job is one step here. The progress window is modal, so no command comes
between its steps; the exception is a cancelled job, whose window goes at once
while its thread goes on (see `Job`). `Deletion` shows the steps.

### Grouping

One behaviour is one scan, from what its matcher finds to the groups it returns.
`ClassifyContents`, `Expand` and `ExpandOverflow` are a contents scan: classes
without a filtered pair and with one reference file at most stay `intact`, the
others become pairs. `MatchWords` is any other matcher, whose findings are any set
of pairs with percentages. `TakeMatch`, `SkipMatch` and `EndTier` are the turns and
the end of a loop of `get_groups`, `Overflow` the `MemoryError` of the first one, at
every point of `add_match` that leaves a trace. A match is the set of its two
files; the order in which pairs come is that of the code for pairs made from
classes and open otherwise. `lost` and `clashed` record what was dropped, for the
properties. How two files are compared, what full verification refutes and which
folders are removed for their parents is input (`ignored`). A list's `append` and
the set's `add` beside it are one step.

### Deletion

`_do_delete_dupe` for one group: `Take` (existence and `check_deletable`, or
`JobCancelled`), `Verify`, `Build`, `Record`, `Remove`, `Amend`, `Place`, then
`Finish` for `remove_duplicates`. Every step has its failure, which makes the dupe
a problem. `Crash` can come between any two steps; `Restart` reads the log back;
`RestoreCheck` and `RestoreMove` restore a trashed file; `Outsider` is another
program that writes or erases a path or empties the trash. Bytes are named after
the path that held them at the scan; a dupe can match its reference as a true
copy, by digest only, or as a picture that looks alike.

### DeletionLog

Records are numbered in their run; a line parses or does not. `Load` reads and
trims, `Compact` rewrites what was read or fails, `Append` adds a line,
`AppendFails` leaves it unfinished, `Die` ends a process anywhere. A line appended
behind an unfinished one is glued to it and both are lost.

### Job

Each assignment of `_async_run` and each read of `pulse` is a step. The window's
`close` calls `cancel`, as in the Qt view. The confirmation dialog has its own
event loop, so pulses go on while it is up. A target that swallows `JobCancelled`
(as `perform_on_marked` does) goes on after it.

### Progress and Tracker

`Progress` has the stack of a job and its subjobs, each with the shares its phases
get of the bar. `todo` is what the scan has left to tell them: `Progresses` makes
the next update, `StartsPhase` spends a share, `PoolBreaks`, `RetriesHashes` and
`RetriesPictures` are what a process pool that fails adds, `Cancel` sets the flag
that the next update turns into an exception. The phases are those the scanners
start for each kind of scan. Only some updates of a loop are kept (the first, one in
`Refresh`, the last), and counts are scaled down with them.

`Tracker` is one `ProgressTracker`: `Tick` is five seconds at some pace, `NextPhase`
what happens when the total or the counts start anew. `MIN_SPAN_SECONDS` is shorter
than a tick and is left out.

### ExcludeList and Collection

`ExcludeList` has the entries, the marks `Markable` keeps apart from them, and the
compiled union with its dirty flag; its actions are the commands of the dialog.
`Collection` extends it with roots, states, the listings of the file list cache and
a disk with times rounded down. A walk of `get_files` is `StartWalk`, then `Visit`
(reading a folder's time) and `ReadFolder` (its entries, from the cache or live, and
what goes into the cache) for one folder after the other; `StopWalk` is
`has_any_file`; `WalkFolders`, the walk of a folder scan, is one step. Between them
come the clock, other programs, and the commands on folders, patterns and profiles.
The folders above a file on disk are given, so a pattern's effect is a set of folders
and files. Tree nodes have the state they show at once, as `update_all_states` does.

### Digests

Two databases under one contents scan: `CheckHashCache` and `HashFile` fill the hash
cache ahead of the matching, in the process or from a pool; `StartRead`, `GetFull`,
`Calc` and `PutRead` are the reading of one digest attribute with `FilesDB` behind it,
asked for in the order in which `content_classes` asks (`Asked`). `Write` is another
program, at any point; `Reopen`, `Crash`, `CancelScan` and `ClearHashCache` end what
is pending in their own ways. All files of a behaviour have one of three sizes,
which are hashed differently: *tiny* (the partial digest is the digest), *small*, and
*large* (compared by samples under partial hashing).

### Pictures

The block cache and the match cache, from `StartPictures` (a hit, or the preparation)
over the pool (`PoolResult`, `PoolWrites`, `PoolBreaks`) or the sequential path
(`SerialRead`, `SerialFails`, `SerialWrites`) to `Compare`. A picture is edited by
advancing its version, which is also its time. Two looks match or not; how blocks are
compared, and the BK-tree that selects candidates, are not modelled.

### Cli

One process after the other over a disk that others change: `Invoke` chooses a
command line, the rest is `main` in its order, with one action per stage. `DeleteNext`
deletes or skips one file in one step. Contents scans only, since the others have no
sampled matches for the gate to stop. `--output` names one file, which holds the
results. `Interrupt` ends a process at any stage; what a deletion leaves in the log is
in `DeletionLog`.

### IgnorePairs and IgnoreList

`IgnorePairs` is a set of unordered pairs and its size. `IgnoreList` keeps each pair
under one of its two paths, and the count by hand, as the code does; it implements
`IgnorePairs` with `apart`, `size` and `stored` computed from them
(`IgnoreListKeepsPairs`).

### ResultView

The rows of the table, the selected indexes, the application's selected files, the
search field and dupes-only mode, beside results with marks and a filter of their
own; the jobs that delete, scan and load finish at some later time, or are cancelled
and finish behind a closed window. `unseen` says that the results changed without the
table being told. Why files match, and reference folders, are left to other modules.

### Details

`panel` is the table of the details dialog; `viewer` is the controller with its two
panes and the toolbar: a scale (a number of zoom steps from 1.0), best fit, what each
pane shows, and which buttons work. Scroll bars are left out, and so are the viewers
that no code creates.

### Reports

`Rows`, `Overlapping` and `ClassifyGroup` compute what the rollup, the overlap report
and the confidence tiers say; `Plan` what the preview says. Actions open a dialog,
mark from it, change files or results under it, and delete. A file's `content` says
whether it is as it was scanned. Rows that tie for their order may come in any order.

### Restore

`TrashFile` is a deletion on one of four platforms: what is reported of its
destination, and what happens when the back end fails before or after the move.
`RestoreClicked`, `RestoreCheck` and `RestoreMove` are the restore of a run, file by
file. `FreeFor` chooses a name in the trash: one that is free, so a name can be given
again. Each path stays on one volume, no two trashings have the same time, and the
relative names in a volume's trash are covered by *not found*. Permanent deletions
have nothing to restore and are left out.

### Settings

A preference is TRUE where it differs from its default; those that are kept in the
same places are one. The preferences window has its boxes by page and edition; scan
types go to QSettings when they are chosen, preferences when the window is accepted
or the program ends. `Crash` starts a session from what was stored. Thresholds,
enabling of boxes and nested folders are left out.

## Runs

Passing runs:

| Run | Properties | Instance |
|---|---|---|
| `results` | `ResultsAreConsistent`, `TotalIsExact`, `KeepsOneCopy`, `DeletesOnlyWhatIsShown`, `KeepsPromise` (refinement of `SafeDedup`), `MarksOutliveRemovals` | three copies of one content, two of another of which one is in a reference folder; a filter matching part of both groups and one matching nothing; one stray, no ghost |
| | `TrashTellsTheTruth`, `RestoreReplacesNothing` | two paths, two contents, three names in the trash, four platforms, two deletions, two acts of other programs |
| | `SettingsAreKept`, `ProfileRestoresScan` | every preference of the model, three modes, one profile, one folder, three edits, one drive unplugged |
| `deletion` | `RemovalIsRecorded`, `BytesSurvive`, `OutcomesAreTrue`, liveness `JobEnds` | two dupes, all kinds of match and options, one outside action |
| `background` | `JobsAreOrderly`, liveness `JobIsSettled` | three jobs, prompt threads |
| | `LossIsBounded` | two processes, two runs of two records, one kept, two failed writes |
| | `BarIsHonest`, `CancelIsFinal` | phases of 2 and of 150 files, updates every 50, each kind of scan, a cancel and a broken pool anywhere |
| | `EstimatesAreHonest` | two phases, three changes between stalled, slow and fast, one minute; a window of 30 s |
| | `GroupsAreTrue`, `NothingIsMissed`, liveness `ScanEnds` | six files, two of them reference; every graph of matches on four, graphs on six that clash or take three loops, two strengths; three partitions into classes under four sets of ignored pairs, by class and by pairs |
| `caches` | `HashRowsAreTrue`, `ClassesAreRight` | two files, two contents, two algorithms, two scans, batches of two, one write of another program at any point |
| | `ChoicesAreRespected`, `CachedWalkIsFresh`, `AppliedIsShown` | a root with a hidden folder, a folder in it and a junction, a file in each but the hidden one; two patterns; two commands, one change on disk, times of resolution 2 |
| | `PicturesAreMatched` | two pictures, one of them EXIF-turned, two versions each, two scans, pools of two |
| `command_line` | `RecordIsTrue`, `PartialsNeedConsent`, `ReferencesStay`, `PlanIsKept` | two files to clean up and an original, two contents with the same samples, two processes, the command lines of `MCCommandLines` (flags that act on each other, in every combination), one act of another program |
| `front` | `ViewIsCurrent`, `IgnoredStayApart`, `IgnoreListKeepsPairs` | three paths of one content, one filter, two pairs to ignore, two jobs |
| | `ZoomIsShared` | a group of three pictures of which one has another size, a group of two of which one cannot be read, one step of zoom either way |
| | `RowsPartition`, `BulkMarksAreEarned`, `PreviewIsKept` | five files in two folders with a subfolder each, one of them a reference; two scan results; one change of a file |

Runs that TLC finds violated, each on the instance of the passing run of its module:

| Run | Violates | Said by |
|---|---|---|
| `pool_fallback` | `NoPhaseIsRefused` | `core/pe/matchblock.py`, of what a pool leaves |
| `digests_sampled` | `SampledClassesAreRight` (files of the large size) | `core/file_list_cache.py`, `core/engine.py` |
| `command_line_verify` | `VerifyIsHonoured` | `cli.py`, of `--verify` |
| `view_mark_all` | `MarkAllStaysInFilter` | `help/en/results.rst` |
| `folder_overlap` | `WhollyRedundantIsElsewhere` (three copies in one folder) | `core/folder_overlap.py` |
| `restore_reused` | `RestoredIsTheDeleted` | `core/trash.py` |

**Why the bounds are enough.** `results`: three copies let a group survive one
removal and be cleared by the next; a second group with a reference-folder file
gives the cases where marks, references and filters of two groups meet; larger
groups repeat these (and the proofs do not depend on the size). `deletion`: dupes
of a group interact through their reference, the list of work and the log; two
show every order. One outside action is enough to break each property that is
qualified by `touched`. Log: one run more than is kept makes trimming happen; two
failed writes let one damage the other's line. Jobs: a job can disturb the next; a
third shows that nothing accumulates. Progress: 2 is below and 150 above the hundred
units a share has, which is where rounding and overshoot differ. Tracker: a window
shorter than the job lets samples leave it, two phases and three changes of pace put
a change in either half of it. Grouping: with four files every way to become
a member, a candidate or an orphan occurs; two groups with a candidate each need six,
and so does a third loop. Digests: two files make a class or not; the second scan
reads what the first stored; batches of two are full, half full and empty. Folders:
a default (hidden) between two choices, a file below each, and a change in the same
clock unit as the reading or outside it. Pictures: the second scan meets rows and
matches of the first, older, newer or half written. Command line: the second process
works from what the first saved. Windows: two jobs let one finish behind the other;
three trash names let one be used again while another is in use; three edits reach the
preferences, the mode and the scan type in any order before a profile is loaded.

**Symmetry.** `MCCaches` permutes files, contents and algorithms of `Digests`,
`MCCli` the two files and the contents; the modules do not tell them apart, and no
liveness is checked there.

**Deadlock** is checked in `deletion` only. In the others the bounds end behaviours
(jobs, runs, commands, edits), or a scan that has ended does nothing more.

**Fairness.** `Deletion` assumes `WF(Work)`: the worker thread runs on while the
process lives. In `background` the thread's steps (`Thread(j)`) and the window's timer
(`Loop`) come eventually, since the operating system schedules the one and Qt's event
loop runs the other, also under the confirmation dialog; every target of a job ends.
Grouping is one thread that runs on. The user, failures, crashes and other programs
owe nothing.

`PromptStart` in `Job` says that a new thread reaches its first assignment before
the window's first pulse, 500 ms later. The code does not enforce it. Without it a
late thread's job is reported as finished before it starts, and a second one is let in.

## What the models show of the code

Six disagreements between the code and what the repository says of it have a run
each (the table above; `PROJECT.json` quotes both sides):

1. When a process pool leaves pictures for the sequential path, that path starts a
   phase more than the job has, and the scan ends with `JobCountError`.
2. `FilesDB` stores a new digest of a changed file and keeps its row's other digests,
   which a later scan takes for the file's: with partial hashing, different files can
   be in one class.
3. `--from-results --delete --verify` verifies nothing.
4. Saving results drops the filter without a notice; *Mark All* then reaches the files
   that the table does not show.
5. A folder that holds both copies of everything is reported as wholly redundant.
6. A restore trusts the name in the trash. If the trash gave that name to another file
   meanwhile, that file is put back.

Other behaviours that are in the models, and that the properties allow for by name:

- *Results.* `mark_count` counts marked files that became references or are hidden. A
  new scan under a filter does not forget inverted marks
  (`core/results.py:159`, against `results_test.py:306`).
- *Deletion.* A path that is not valid UTF-8 stops the deletion: its record raises
  `UnicodeEncodeError`, which `_append` does not swallow (`core/deletion_log.py:314`;
  `Unloggable` in `Deletion`).
- *Log.* A load may rewrite the file without a record another process appended
  meanwhile; `LossIsBounded` counts these as `races`.
- *Jobs.* After a cancel the window disappears while the thread still works, and
  `finish_func` is never called for that job. A job created between the two assignments
  of `_async_run`'s `finally` loses its progress, and its window is closed and it is
  cancelled by the pulse that sees this.
- *Progress.* Some loops end by setting the percentage of a phase back to 100 of a
  larger count, so the bar can move backwards. An estimate stays on display through a
  stall.
- *Grouping.* A match between the candidates of two groups is dropped for good
  (`clashed`), so files that match can stay out of every group; the help calls these
  matches discarded. When memory runs out in `add_match`, a group of a single file can
  be returned. Expansion of broken classes has no truncation report
  (`core/scanner.py:432`).
- *Folders.* The walk of a folder scan collects the subfolders of a hidden folder the
  first time, and not once their states are remembered. Cached walks go through
  junctions (`BehindJunction` in `CachedWalkIsFresh`).
- *Patterns.* Marks outlive removed and renamed patterns; one that is added again is
  shown checked and not applied until something else sets the dirty flag (`revived`).
- *Pictures.* The pool writes rows with times in nanoseconds, the sequential path in
  seconds; `purge_outdated` compares with seconds, so it never drops a row of the pool,
  however old. Rows read and not yet written are
  lost when the pool breaks (`lost`), and a combined scan does not report truncation.
- *Command line.* Files that move away before the gate counts and come back before the
  deletion pass it (`returned`). Reloaded NDJSON results have lost what a match rests
  on, so the gate cannot tell.
- *Result table.* A filter or *Dupes Only* hides selected files which operations on the
  selection still reach. A cancelled job leaves rows of files that are in no group.
- *Preferences.* *Restore Defaults* on the Advanced page resets every page, and on any
  page the boxes of the edition. Deleting a profile writes nothing: it is back after a
  crash.
- *Preview.* It does not know of `verify_before_delete`, so a verification may refuse
  files that it promised (`PreviewIsKept`).

## Proofs

Every theorem is about the whole specification of its module (`Spec => []...`), for every
value of the constants that the module's named assumptions allow; TLC evaluates these
assumptions in every run. The proofs have one lemma per part of the inductive invariant and
kind of step, and each invariant was checked by TLC as an invariant of a run of its module
before it was proved. A lemma named `...Does` or `...Is` says what an operator with many
cases makes of the state; those named `...Step` or `...Keeps` say that the steps preserve
one part of an invariant.

| Module | Theorem | States |
|---|---|---|
| `ResultsProofs` | `TypeCorrect`, `GroupsAlwaysAgree`, `ListedStaysOnDisk`, `ListIsCurrent` | `TypeOK`, `GroupsAgree` and `FilterAgrees`, `ListedOnDisk`, `DupesAreCurrent` |
| | `StaysConsistent` | `ResultsAreConsistent`, the conjunction of these |
| | `TotalStaysExact` | `TotalIsExact` |
| | `LastCopySurvives` | `KeepsOneCopy` |
| | `DeletionIsShown` | `DeletesOnlyWhatIsShown` |
| | `MarksOutlive` | `MarksOutliveRemovals` |
| | `ImplementsPromise` | `KeepsPromise`: `Results` implements `SafeDedup` |
| `GroupingProofs` | `TypeCorrect`, `CliquesOnly`, `GroupsStayApart`, `DupesKnowTheirMatch` | `TypeOK`, `GroupsAreCliques`, `NoFileTwice`, `EveryDupeHasItsMatch` |
| | `GroupsStayTrue` | `GroupsAreTrue`, the conjunction of these |
| | `OrphansMeet`, `IdenticalMeet` | `OrphansAreRegrouped`, `IdenticalFilesMeet` |
| | `NothingGetsMissed` | `NothingIsMissed`, the conjunction of these two |
| `DeletionProofs` | `RemovalsAreRecorded` | `RemovalIsRecorded` |
| | `BytesAlwaysSurvive` | `BytesSurvive` |
| | `OutcomesStayTrue` | `OutcomesAreTrue` |
| `BackgroundProofs` | `JobsStayOrderly` | `JobsAreOrderly`, if `PromptStart` |
| | `LossStaysBounded` | `LossIsBounded` |
| | `CancelsAreFinal` | `CancelIsFinal` |
| | `BarStaysHonest` | `BarIsHonest` |
| `CacheProofs` | `HashRowsStayTrue` | `HashRowsAreTrue` |
| | `ClassesStayRight` | `ClassesAreRight` |
| | `AppliedStaysShown` | `AppliedIsShown`, of `Collection`'s specification |
| | `ChoicesStayRespected` | `ChoicesAreRespected` |
| | `WalksStayFresh` | `CachedWalkIsFresh` |
| `PictureProofs` | `PicturesStayMatched` | `PicturesAreMatched` |
| `CliProofs` | `RecordsStayTrue` | `RecordIsTrue` |
| | `PartialsStayGuarded` | `PartialsNeedConsent` |
| | `ReferencesAlwaysStay` | `ReferencesStay` |
| | `PlansAreKept` | `PlanIsKept` |
| | `EstimatesStayHonest` | `EstimatesAreHonest`, of `Tracker`'s specification |
| `FrontProofs` | `ZoomStaysShared` | `ZoomIsShared` |
| | `BulkMarksStayEarned` | `BulkMarksAreEarned` |
| | `PreviewsAreKept` | `PreviewIsKept` |
| | `RowsStayAPartition` | `RowsPartition` |
| | `TrashStaysTruthful` | `TrashTellsTheTruth` |
| | `RestoresReplaceNothing` | `RestoreReplacesNothing` |
| | `SettingsStayKept` | `SettingsAreKept` |
| | `ProfilesRestoreScans` | `ProfileRestoresScan` |
| | `IgnoreListIsPairs` | `IgnoreListKeepsPairs`: `IgnoreList` implements `IgnorePairs` |
| | `ViewStaysCurrent` | `ViewIsCurrent` |
| | `IgnoredFilesStayApart` | `IgnoredStayApart` |

### Results

`Core == TypeOK /\ GroupsAgree /\ FilterAgrees` is inductive: a removal needs that what it
takes has a group and is no reference (`TargetsAreRemovable`), that the group it leaves is
empty or still has its reference (`LeftOver`), and that the filtered lists hold files of
living groups. `ListedOnDisk` is inductive relative to `Core`: a deletion removes from the
lists what it removes from the disk, but for the strays. `KeepsOneCopy` is not inductive by
itself: a last copy could be a target. It follows step by step from `Core` and
`ListedOnDisk`, since a target's reference is another file of the same content that is
listed, hence on disk or stray. The refinement uses the same facts for the guard of `Dedup`.
`DeletesOnlyWhatIsShown` needs `DupesAreCurrent`, which says the cached list is the real
one when it is used.

`TotalIsExact` counts. The files that can be marked are those in a group that are not its
reference (`CountableIsMarkable`), so their number is that of the grouped files less that of
the filled groups; a removal takes the files it removes, and with each group it clears one
reference that was not counted (`RemovalCounts`). That is what `remove_duplicates` subtracts.
`MarksOutliveRemovals` needs `FilteredAreListed`: a filtered dupe that still has a group has
it in the filtered list, so that taking the marks of the listed ones away leaves out nobody.

Assumptions: files are finite, each holds one content, the null values are none of them.

### Grouping

`IInv` says five things beside the types. A class is either intact or broken, and pending
matches touch no intact class (`Split`). In a group, members match each other and a
candidate's list holds files it matches (`GroupsSound`): this is why a file whose list covers
the members may join. Matches of the current loop touch no group of an earlier one
(`AllFresh`), which the filter on orphans establishes. `dupe2group` knows where the members
of this loop's groups are and points to no older group (`Routed`). Groups and intact classes
are disjoint (`Apart`). `Growth` is the step they all meet in: whatever `add_match` had time
to do, its group gains no other match and no file outside the match. `Trimmed` adds that the
groups of finished loops hold matches of their members only.

`OrphansAreRegrouped` follows from `Accounted`: each match found is pending, recorded by a
group of this loop (so that it is an orphan if it touches no member at the loop's end), has a
file in some group, lies in an intact class, or is lost or clashed.

`IdenticalFilesMeet` is the deepest of these. The pairs of a broken class come in
lexicographic order, and pairs of two reference files are filtered, so the files that can
meet are the deletable ones and the first reference (`Eligible`). The invariant `Meeting`
says that, while the row of pairs goes through `get_groups`, the class has one group, whose
members are exactly the eligible files that match all eligible files before them in the
pairs seen so far (`Settled`), and that no match of another class disturbs it. `RowStep` is
the combinatorial heart: with the next pair of the row, exactly the file that becomes
settled joins. At the end of the row all eligible files are settled (`AllSettle`). It needs a
least reference in each class (`LeastOf`), hence that naturals are well founded.

Assumptions: files are finitely many naturals (their order is that in which the code meets
them), classes are disjoint, matches are pairs of files.

### Deletion

None of the promises is inductive. `Standing` says where the job stands with the file it has
in hand: what is in hand is in no queue (`HandOK`), its record precedes its removal
(`RecordFirst`), what is pending is as the scan saw it unless somebody touched it
(`PendingIsFresh`), after the removal the path is free (`HandIsEmpty`), the replacement exists
from `Build` to `Place` (`ReplacementReady`), and what got past a required verification had
equal bytes (`VerifiedInHand`). Each part needs one or two of the others, at a crash above
all: what `Restart` finds is what `RecordFirst` and `Accounted` say of the last step.

### Background

`JobsStayOrderly` assumes `PromptStart`, in its statement: a thread begins before its window's
first pulse. Without it the property is false, as explained above. `Orderly` says which thread
may own the shared flags: only the latest one is anything but ended, `_job_running` is up
exactly while it works, and while it has yet to begin its window is there and idle.
`LossIsBounded` compares what is on disk, and what a rewrite in progress would put there,
with the acknowledged records; an unfinished line has not yet cost the record that its
failure pays for (`Unpaid`), and records dropped by the limit on runs are old (`Aged`) because
runs are numbered in the order in which they begin. It assumes that the processes are finitely
many.

`CancelIsFinal` rests on the shape of every scan the code can start, from any sizes of its
phases: an update that is made inside a pool, whose exception the pool swallows, is followed by
the retry of what that pool leaves (`Answered`), and the last call is made outside of any pool
(`EndsPlainly`). So a scan that was told to stop always has a call left that will end it
(`CancelInv`): what is left when a pool fails begins with its retry (`WithoutPoolIs`), and what
a retry adds keeps the shape.

`BarIsHonest` needs two more facts, `BarInv`. The jobs of the stack agree (`StackOK`): the shares
passed, at work and left of each add up to all of its own (`JobOK`), and the progress of a job
with a subjob is at most the percentage that subjob shows, which every update restores on its
way up (`ToldOK`). A percentage of 100 means that no share is left and the phase at
work is at its end (`PercentIs`, the one lemma with products and a division), so a full bar says
that of every level, one below the other (`FullMeansAllBegun`), and a bar is never beyond the
phases that began (`FirstKeepsToIt`). And what a scan has left to tell fits the stack (`Fits`): each
call is for a level that is there after the one before, and a pool's retry is for the level of
its updates, so the next phase is one of a job that has no share left. Both hold
although a retry adds calls nobody planned (`RehashFits`, `IterFits`).

`EstimatesAreHonest` (in `CliProofs`) follows from what a window of samples looks like
(`TrackerInv`). Samples are in the order of time and within the window (`TimesInv`). While a phase
has units left they are all of that phase (`PhaseInv`): a phase begins with no units left of the
one before, and the report that finds the counts or the total anew drops the old samples. Since the
pace changed they lie on the line of the present pace, and before, back to the change before that,
on the line of the previous one (`PaceInv`); a change of pace turns the first line into the second
(`PaceTurns`), a report and a stall go on along it. With one change in the window the halves that
`IsStable` compares are then known up to where the change falls (`HalvesAre`), and from their
ratio follows what the whole window says (`HalvesTell`). The proof attempt failed for the bound
first stated, that an estimate is short by no more than the ratio of the halves, 8/5: it is true
of the paces of the run and false of others, since both halves may hold some of the old pace. Paces
of 0, 1, 2 and 4 let TLC find an estimate that is shorter. What holds once a third of the
window has passed at the present pace, and what the run now checks too, is a factor of 2.

### Caches and pictures

A row served for a file has the file's time. It is true if every row, every batch in
flight and every miss under way has a time not after the file's, and the digest of the
content if the times are equal (`RowsAreTrue`): a time only grows, and with each change. `PrefilledAreKnown`
carries this into the known digests that `content_classes` compares. Digests are symbols:
that digests of different contents differ, and differ from the null values, is assumed.
`AppliedIsShown` is inductive with the types. In `Pictures` a stored match set is tied to the
versions in its key (`AlikeIn`), a row to the scan's start (`Fresh`), and each picture of a
scan to where it is (`Accounted`).

`Collection` is about a tree, and the first thing to show is that the way from a file to the
top, a recursive function, exists and is a chain: it is the least set closed under `Parent`
(`ReachIs`, `PathToIs`), and no entry is above itself (`PathAcyclic`, `PathIsChain`).
`ChoicesAreRespected` then needs that the states kept are the user's choices and folders that
are excluded by default, remembered when they were asked for (`Follows`): the nearest
state that does not exclude is the nearest choice (`ChoiceCounts`).

`CachedWalkIsFresh` meets three hazards. A remembered listing must be current if its time is:
it was stored when the time had settled, so that whatever changes the folder later
gives it another time (`ListingInv`). What is found must not depend on the order in
which folders are asked for their state, though every question may add states: a folder that was
visited is excluded, or each default on its way is already remembered, so later questions
change nothing for it (`FoldersAreKnown`, `KeptFresh`). And the walk must miss nothing:
pending folders lie under the roots and none inside another (`WalkInv`), and what lies below
an excluded folder it does not enter is excluded as well (`SkipExcludes`).

Assumptions (`CollectConstants`): the tree has no cycle, saved roots are not inside each other
(`add_path` refuses that), and a time settles in no less than the resolution of times.
With a file system whose times are coarser than `MTIME_SETTLE_NS` the theorem says nothing.

### Command line

`CliInv` says what each stage has in hand. That the plan is kept is a relation between two
processes: what the plan named is what a deletion from the saved results would remove
(`Would`), then what it removed and still would. The proof attempt failed at a scan whose
`--output` writes over the results file between the plan and the deletion, which the run does
not reach with two processes: the plan is then of results that are gone. The model now
drops a plan's promise with them (`RecordWritten`, `Gone`).

### Windows

`ZoomAgrees` is the relation of both panes' scales and buttons, which every handler restores
whatever it was called from. A file's confidence was earned (`BulkMarksAreEarned`) because
groups are whole and apart: each pair of members has its evidence, and removals take none of it.
`PreviewIsCurrent` says a preview's files can only have got worse since it was made.

The rows of the folder report come out of a loop that gives each file to the first pair of
folders that explains it. `ClaimsOK` is the loop's invariant: rows share no file and are large
enough, no pair that explains the same files as a row's comes before it, and of what was looked
at too little is left for a row. The last two are why a row names innermost folders: an inner
pair comes first (`InnermostFirst`, since ancestors of an inner folder are more,
`InnerIsDeeper`), so it has either taken those files or could not. While the report is open a
deletion that was cancelled can only take files away (`ReportAges`). `ReportConstants` assumes
that folders form a finite tree and that `MIN_FILES` is not zero.

In
`Restore` a `.trashinfo` is no newer than the deletions recorded so far and lies on its
path's volume (`InfosAreOld`), so the newest one under a path is this deletion's
(`FindsTheNewest`); a move back begins at an empty path unless something appeared since
(`MoveIsVerified`). In `Settings` a profile's options are those of its settings
(`ProfileIsWhole`), which makes loading one keep what the scanner was told.

`IgnoreList` implements `IgnorePairs` because no pair is ever kept in both directions
(`KeptOnce`): forgetting the direction is then one to one (`UnorderedIs`), so the count kept
by hand is that of the unordered pairs, and a removed row takes no other pair with it
(`UnorderedWithout`). That a list can be built again pair by pair, in any order a dict gives
(`RebuiltIs`), is an induction over the sequence by its least counterexample.

`ViewInv` joins the table to the results it shows and to the ignore list: groups are within
their classes and hold their reference, every selected index is a row, and the pairs that are
to be kept apart are among those of the list, whatever was ignored or edited since. A refresh builds new rows from the results (`RowsAre`), by sorting and by
concatenating one sequence for each group (`FlattenIs`, an induction as above). The proof
attempt failed where saved results are read back with a class of a single file: the model
made a group of it, the code refuses one (`core/results.py:254`), and the model now does too.

### Only model-checked

- Liveness: `JobEnds`, `JobIsSettled`, `ScanEnds`.
- What the properties of runs with a violation say.

## Not modelled

- Sort orders, sizes and statistics of results; texts in XML and JSON, hence the record
  that a path with U+2028 loses when its line is split.
- How words, fields and blocks of pictures are compared, and metadata readers: what
  matches is an input of the models.
- `UniformMatches`, which computes the matches of an intact class from a list that
  `prioritize` replaces, against its docstring (`core/engine.py:585`).
- The merge of content and picture matches in combined scans; free space per device in
  the preview; external commands; prioritization criteria.
- Columns, geometry, colours, recent files, tabs, painting, and the build scripts: they
  decide nothing about files. Export and localisation have no state.
- Composition across the parts: a cancelled job whose thread goes on beside commands of
  the user is in `Job` and, for its effect on the table, in `ResultView`, and not in one
  model with `Deletion`.

## Plan

Done: everything in the table of modules, and the proofs above: of the 40 properties of
the passing runs, all but the three named under *Only model-checked*.

Next: `Deletion` as a refinement of `DeleteMarked` of `Results`, and `UniformMatches`.
