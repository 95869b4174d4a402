------------------------------ MODULE Deletion ------------------------------
(***************************************************************************)
(* One deletion job file by file (DupeGuru._do_delete, _do_delete_dupe,    *)
(* Results.perform_on_marked), with the deletion log it appends to and the *)
(* restore that reads it back (core/deletion_log.py), when anything can    *)
(* fail, other programs touch the files, and the process can die between   *)
(* any two steps.  Module Results has the whole job as one step.           *)
(*                                                                         *)
(* A path holds nothing, a symbolic link to the reference, or a file: its  *)
(* bytes, and whether size and time are still those of the scan.  Bytes    *)
(* are named after the path that held them at the scan.                    *)
(***************************************************************************)
EXTENDS Naturals, FiniteSets

CONSTANTS
  Dupe,        \* the marked files of one group
  Ref,         \* the reference of their group
  Matches,     \* how the dupes can have matched: functions to Kind
  Unloggable,  \* dupes whose path cannot be encoded in UTF-8
  Alien,       \* bytes somebody else writes
  Nothing, Link, NoDupe,
  Options,     \* the answers of the deletion dialog, with verify_before_delete
  MaxOutside   \* bound: what other programs do to the files

\* The same bytes, the same digest only, or a likeness of pictures.
Kind == {"copy", "collision", "picture"}
Mode == {"remove", "symlink", "hardlink", "clone"}

ASSUME DupeAssumption ==
  /\ Ref \notin Dupe /\ Alien \notin Dupe \cup {Ref} /\ NoDupe \notin Dupe
  /\ Unloggable \subseteq Dupe
  /\ Matches \subseteq [Dupe -> Kind]
ASSUME OptionAssumption ==
  /\ Options \subseteq [mode : Mode, direct : BOOLEAN, verify : BOOLEAN]
  /\ MaxOutside \in Nat

Path == Dupe \cup {Ref}
Files == [data : Path \cup {Alien}, intact : BOOLEAN]
ASSUME EntryAssumption == {Nothing, Link} \cap Files = {} /\ Nothing # Link
Entry == Files \cup {Nothing, Link}

VARIABLES
  match,     \* how each dupe matched the reference
  at,        \* what each path holds
  tmp,       \* the replacement built beside a dupe, left behind or not
  trash,     \* what the trash holds of a dupe
  logged,    \* dupes with a record line in the log file
  amended,   \* those whose destination the log file tells
  recorded,  \* dupes with a record in memory
  located,   \* those whose destination is known in memory
  step,      \* what the process does next
  current,   \* the dupe it does it to
  opt,       \* the options of the job
  todo,      \* marked dupes the job has not taken yet
  done,      \* perform_on_marked's to_remove
  problems,  \* Results.problems
  cancelled, \* the user pressed Cancel
  listed,    \* dupes in the results
  taken,     \* dupes this program removed from their path
  unlogged,  \* dupes whose record could not be appended
  touched,   \* paths, or trashed dupes, other programs changed
  outside    \* how often they did

disk    == <<at, tmp, trash>>
logFile == <<logged, amended>>
memory  == <<recorded, located>>
job     == <<match, opt, cancelled, listed>>
outcome == <<todo, done, problems>>
others  == <<touched, outside>>
vars == <<disk, logFile, memory, step, current, job, outcome, taken, unlogged, others>>

Exact == {d \in Dupe : match[d] # "picture"}
Twin == {d \in Dupe : match[d] = "copy"}
Body(p) == IF p \in Twin THEN Ref ELSE p
Scanned(p) == [data |-> Body(p), intact |-> TRUE]

\* Path.exists() follows links.
Exists(p) == at[p] \in Files \/ (at[p] = Link /\ at[Ref] # Nothing)

Init ==
  /\ match \in Matches
  /\ at = [p \in Path |-> Scanned(p)]
  /\ tmp = [d \in Dupe |-> Nothing] /\ trash = [d \in Dupe |-> Nothing]
  /\ logged = {} /\ amended = {} /\ recorded = {} /\ located = {}
  /\ step = "ready" /\ current = NoDupe
  /\ opt \in Options /\ cancelled = FALSE /\ listed = Dupe
  /\ todo = {} /\ done = {} /\ problems = {}
  /\ taken = {} /\ unlogged = {} /\ touched = {} /\ outside = 0

-----------------------------------------------------------------------------
(* The job.  Each dupe ends in `done` or, after an exception, `problems`.  *)

Succeed(d) ==
  step' = "next" /\ current' = NoDupe /\ done' = done \cup {d} /\ UNCHANGED problems
Fail(d) ==
  step' = "next" /\ current' = NoDupe /\ problems' = problems \cup {d} /\ UNCHANGED done
Proceed(s) == step' = s /\ UNCHANGED <<current, done, problems>>

Start ==
  /\ step = "ready"
  /\ step' = "next" /\ todo' = Dupe
  /\ UNCHANGED <<disk, logFile, memory, current, job, done, problems, taken, unlogged, others>>

\* check_deletable.  A file that cannot be read is refused as a changed one.
Deletable(d) == at[d] \in Files /\ at[d].intact

\* What perform_on_marked's `except Exception` and add_progress do together:
\* JobCancelled is a problem like any other, and the loop goes on.
Take(d) ==
  /\ step = "next" /\ d \in todo
  /\ todo' = todo \ {d}
  /\ UNCHANGED <<disk, logFile, memory, job, taken, unlogged, others>>
  /\ \/ ~cancelled /\ ~Exists(d) /\ Succeed(d)          \* GONE
     \/ (cancelled \/ Exists(d)) /\ Fail(d)
     \/ /\ ~cancelled /\ Deletable(d)
        /\ current' = d /\ UNCHANGED <<done, problems>>
        /\ step' = IF opt.verify /\ d \in Exact THEN "verify" ELSE "link"

\* verify_identical, asked only of matches that claim identical contents.
SameBytes(d) == at[d] \in Files /\ at[Ref] \in Files /\ at[d].data = at[Ref].data
Verify ==
  /\ step = "verify"
  /\ IF SameBytes(current) THEN Proceed("link") \/ Fail(current) ELSE Fail(current)
  /\ UNCHANGED <<disk, logFile, memory, job, todo, taken, unlogged, others>>

\* _make_replacement_link and _make_replacement_clone: what they can produce.
Replacement(d) ==
  CASE opt.mode = "symlink"  -> {Link}
    [] opt.mode = "hardlink" -> IF at[Ref] \in Files THEN {at[Ref]} ELSE {}
    [] opt.mode = "clone"    -> IF at[Ref] \in Files /\ d \in Exact THEN {at[Ref]} ELSE {}
    [] OTHER                 -> {}

Build ==
  /\ step = "link"
  /\ \/ opt.mode = "remove" /\ Proceed("record") /\ UNCHANGED tmp
     \/ \E r \in Replacement(current) :
          Proceed("record") /\ tmp' = [tmp EXCEPT ![current] = r]
     \/ opt.mode # "remove" /\ Fail(current) /\ UNCHANGED tmp
  /\ UNCHANGED <<at, trash, logFile, memory, job, todo, taken, unlogged, others>>

\* Mutant: the line stays in a buffer until the run is over.
RecordBuffered ==
  /\ step = "record"
  /\ recorded' = recorded \cup {current}
  /\ Proceed("remove")
  /\ UNCHANGED <<disk, logFile, located, job, todo, taken, unlogged, others>>
\* DeletionLog.record.  An OSError of the append is swallowed; a path that
\* cannot be encoded raises UnicodeEncodeError, and nothing takes `tmp` back.
Record ==
  /\ step = "record"
  /\ recorded' = recorded \cup {current}
  /\ \/ /\ current \notin Unloggable
        /\ \/ logged' = logged \cup {current} /\ UNCHANGED unlogged
           \/ unlogged' = unlogged \cup {current} /\ UNCHANGED logged
        /\ Proceed("remove")
     \/ current \in Unloggable /\ Fail(current) /\ UNCHANGED <<logged, unlogged>>
  /\ UNCHANGED <<disk, amended, located, job, todo, taken, others>>

\* Mutant: the trash is never used.
IntoNowhere(d) == UNCHANGED trash
\* trash_file moves what the path holds now.
IntoTrash(d) == IF opt.direct THEN UNCHANGED trash ELSE trash' = [trash EXCEPT ![d] = at[d]]

\* The removal, whose failure takes the replacement away again unless that
\* fails too.  Some trashes move the file and cannot tell where.
Remove ==
  /\ step = "remove"
  /\ \/ /\ at[current] # Nothing
        /\ at' = [at EXCEPT ![current] = Nothing]
        /\ IntoTrash(current)
        /\ taken' = taken \cup {current}
        /\ located' \in {located} \cup {located \cup {d} : d \in IF opt.direct THEN {} ELSE {current}}
        /\ Proceed(IF opt.direct THEN "place" ELSE "amend")
        /\ UNCHANGED tmp
     \/ /\ Fail(current)
        /\ tmp' \in {tmp, [tmp EXCEPT ![current] = Nothing]}
        /\ UNCHANGED <<at, trash, taken, located>>
  /\ UNCHANGED <<logFile, recorded, job, todo, unlogged, others>>

\* record_destination; an amendment without its record, or with no
\* destination, says nothing.
Amend ==
  /\ step = "amend"
  /\ amended' \in {amended, amended \cup ({current} \cap logged \cap located)}
  /\ Proceed("place")
  /\ UNCHANGED <<disk, logged, memory, job, todo, taken, unlogged, others>>

\* os.replace, which takes the path whatever it holds by now, and then
\* clean_empty_dirs: each can fail.
Place ==
  /\ step = "place"
  /\ \/ /\ Succeed(current) \/ Fail(current)
        /\ IF opt.mode = "remove" THEN UNCHANGED <<at, tmp>>
           ELSE /\ at' = [at EXCEPT ![current] = tmp[current]]
                /\ tmp' = [tmp EXCEPT ![current] = Nothing]
     \/ opt.mode # "remove" /\ Fail(current) /\ UNCHANGED <<at, tmp>>
  /\ UNCHANGED <<trash, logFile, memory, job, todo, taken, unlogged, others>>

\* Mutant: a cancelled job unwinds without updating the results.
FinishUnlessCancelled ==
  /\ step = "next" /\ todo = {}
  /\ step' = "idle"
  /\ listed' = IF cancelled THEN listed ELSE listed \ done
  /\ UNCHANGED <<disk, logFile, memory, current, match, opt, cancelled, outcome, taken, unlogged, others>>
\* remove_duplicates on what was done.
Finish ==
  /\ step = "next" /\ todo = {}
  /\ step' = "idle"
  /\ listed' = listed \ done
  /\ UNCHANGED <<disk, logFile, memory, current, match, opt, cancelled, outcome, taken, unlogged, others>>

Cancel ==
  /\ step \notin {"ready", "idle", "down", "restore"} /\ ~cancelled
  /\ cancelled' = TRUE
  /\ UNCHANGED <<disk, logFile, memory, step, current, match, opt, listed, outcome, taken, unlogged, others>>

-----------------------------------------------------------------------------
(* The end of the process, and the restore dialog of this or the next one. *)

Crash ==
  /\ step # "down"
  /\ step' = "down" /\ current' = NoDupe
  /\ recorded' = {} /\ located' = {} /\ listed' = {}
  /\ todo' = {} /\ done' = {} /\ problems' = {}
  /\ UNCHANGED <<disk, logFile, match, opt, cancelled, taken, unlogged, others>>

\* DeletionLog.load.
Restart ==
  /\ step = "down"
  /\ step' = "idle"
  /\ recorded' = logged /\ located' = amended
  /\ UNCHANGED <<disk, logFile, current, job, outcome, taken, unlogged, others>>

\* restore_record: the path is looked at, then the trashed copy is moved.
RestoreCheck(d) ==
  /\ step = "idle" /\ d \in recorded \cap located
  /\ ~Exists(d) /\ trash[d] # Nothing
  /\ step' = "restore" /\ current' = d
  /\ UNCHANGED <<disk, logFile, memory, job, outcome, taken, unlogged, others>>

RestoreMove ==
  /\ step = "restore"
  /\ step' = "idle" /\ current' = NoDupe
  /\ \/ /\ trash[current] # Nothing
        /\ at' = [at EXCEPT ![current] = trash[current]]
        /\ trash' = [trash EXCEPT ![current] = Nothing]
     \/ UNCHANGED <<at, trash>>                           \* FAILED
  /\ UNCHANGED <<tmp, logFile, memory, job, outcome, taken, unlogged, others>>

-----------------------------------------------------------------------------
(* Everybody else: a path is written, erased, or the trash is emptied.     *)

Outsider(p) ==
  /\ outside < MaxOutside
  /\ outside' = outside + 1 /\ touched' = touched \cup {p}
  /\ \/ at' \in {[at EXCEPT ![p] = e] : e \in {Nothing} \cup [data : {Alien}, intact : BOOLEAN]}
        /\ UNCHANGED trash
     \/ p \in Dupe /\ trash[p] # Nothing /\ trash' = [trash EXCEPT ![p] = Nothing] /\ UNCHANGED at
  /\ UNCHANGED <<tmp, logFile, memory, step, current, job, outcome, taken, unlogged>>

\* Mutant: a cancelled job takes nothing more, and waits.
TakeUnlessCancelled == ~cancelled /\ \E d \in Dupe : Take(d)
TakeNext == \E d \in Dupe : Take(d)

Work == TakeNext \/ Verify \/ Build \/ Record \/ Remove \/ Amend \/ Place \/ Finish

Next ==
  \/ Start \/ Work \/ Cancel
  \/ Crash \/ Restart \/ RestoreMove
  \/ \E d \in Dupe : RestoreCheck(d)
  \/ \E p \in Path : Outsider(p)

\* The job thread runs on as long as the process does; nobody has to cancel,
\* and nothing has to fail or to happen outside.
Spec == Init /\ [][Next]_vars /\ WF_vars(Work)

-----------------------------------------------------------------------------
(* Properties.                                                             *)

TypeOK ==
  /\ match \in Matches
  /\ at \in [Path -> Entry] /\ tmp \in [Dupe -> Entry] /\ trash \in [Dupe -> Entry]
  /\ logged \in SUBSET Dupe /\ amended \in SUBSET logged
  /\ recorded \in SUBSET Dupe /\ located \in SUBSET recorded
  /\ step \in {"ready", "next", "verify", "link", "record", "remove", "amend", "place",
               "idle", "down", "restore"}
  /\ current \in Dupe \cup {NoDupe} /\ opt \in Options /\ cancelled \in BOOLEAN
  /\ todo \in SUBSET Dupe /\ done \in SUBSET Dupe /\ problems \in SUBSET Dupe
  /\ listed \in SUBSET Dupe /\ taken \in SUBSET Dupe /\ unlogged \in SUBSET Dupe
  /\ touched \in SUBSET Path /\ outside \in 0..MaxOutside

\* At every moment, the one after a crash included, what was removed has its
\* record in the file (deletion_log.py:17-21), but for appends that failed.
RemovalIsRecorded == taken \subseteq logged \cup unlogged

\* With a replacement asked for, a dupe dupeGuru removed is never without
\* one: in its place, or beside it when the last rename did not happen.
ReplacementExists ==
  opt.mode # "remove" =>
    \A d \in taken \ touched : at[d] # Nothing \/ tmp[d] # Nothing

\* What the results say when the job is over is what happened on disk, also
\* after a cancel: what stays listed was not removed, except for a problem
\* reported after the removal, and what left the list was.
ResultsMatchDisk ==
  step = "idle" =>
    \A d \in Dupe \ touched :
      /\ d \in listed => at[d] = Scanned(d) \/ d \in problems \cap taken
      /\ d \in done => d \in taken /\ d \notin listed

\* With verify_before_delete a digest collision deletes nothing.
VerifiedMeansSame ==
  opt.verify => \A d \in taken \cap Exact : d \in Twin \/ {d, Ref} \cap touched # {}

\* Unless deletion is permanent, the bytes of a dupe are where they were or in
\* the trash, through failures, crashes and restores.
BytesSurvive ==
  ~opt.direct => \A d \in Dupe \ touched : Scanned(d) \in {at[d], trash[d]}

\* Replacing by clones changes no content, whatever kind of match it was; a
\* digest collision is the exception _digests_match names.
CloneIsHarmless ==
  opt.mode = "clone" =>
    \A d \in Twin \cup (Dupe \ Exact) :
      at[d] \in Files /\ {d, Ref} \cap touched = {} => at[d].data = Body(d)

\* What a job leaves behind is what it says and what was asked for, at every
\* moment: the results, the replacements and the contents agree.
OutcomesAreTrue ==
  TypeOK /\ ReplacementExists /\ ResultsMatchDisk /\ VerifiedMeansSame /\ CloneIsHarmless

\* A job comes to its end, cancelled or not, unless the process dies.
JobEnds == step = "next" ~> step \in {"idle", "down"}

=============================================================================
