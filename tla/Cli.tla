--------------------------------- MODULE Cli --------------------------------
(***************************************************************************)
(* The command line (main of cli.py), one process after another over a     *)
(* disk that other programs change: a scan, or the results an earlier      *)
(* process saved, then what the flags ask for (the results again, a plan,  *)
(* a deletion behind its gates), the record of it and the exit code.       *)
(* The removal of one file is one step here: Deletion has its parts.       *)
(***************************************************************************)
EXTENDS Naturals, FiniteSets

CONSTANTS
  Path,        \* files
  Bytes,       \* what they can hold
  Sampled,     \* what the sampled digest of some bytes is made from
  Place,       \* folders a command can name
  Under,       \* of each folder: the files below it
  CommandLines,\* the command lines that are run
  Nobody,      \* no results file, no plan
  RunBound,    \* bound: processes
  MeddleBound  \* bound: what other programs do

ASSUME CliConstants ==
  /\ Under \in [Place -> SUBSET Path]
  /\ RunBound \in Nat /\ MeddleBound \in Nat
  /\ Nobody \notin [deleted : SUBSET Path, skipped : SUBSET Path]

Flag == {"from_results", "delete", "direct", "dry_run", "plan", "yes", "allow_partial",
         "partial_hash", "full_verify", "verify", "ndjson"}
CommandLine == [flags : SUBSET Flag, folders : SUBSET Place, refs : SUBSET Place,
                output : {"stdout", "results", "unwritable"}]
ASSUME CommandLineConstants == CommandLines \subseteq CommandLine

VARIABLES
  disk,      \* of each path: the bytes, the time, and whether it is there
  saved,     \* the results file the processes write and read
  guarded,   \* the files under the --ref folders of the scan behind that file
  line,      \* the command line of the process
  stage,     \* where it is
  results,   \* the groups it works on
  queue,     \* the files it has yet to delete
  removed,   \* those it has deleted
  verified,  \* of these: the kept file was there with the same bytes
  skipped,   \* its problems
  record,    \* the deletion record it wrote: files deleted and skipped
  exit,      \* its exit code
  promise,   \* the files the last plan of the saved results said would go
  returned,  \* files that were away and came back
  meddled, runs

worldVars == <<disk, returned, meddled>>
outVars == <<saved, guarded, promise>>
workVars == <<results, queue, removed, verified, skipped, record>>
cliVars == <<worldVars, outVars, workVars, line, stage, exit, runs>>

Has(flag) == flag \in line.flags
WantsDelete == Has("delete") \/ Has("direct")
NoResults == [groups |-> {}, seen |-> [p \in Path |-> 0], refs |-> {}, partial |-> "full"]

\* One group of each class of alike files (module Grouping), or of a part of it when it has
\* several reference files; a reference file is its reference, else prioritize picks one.
Alike(files, sampled) ==
  LET key(p) == IF sampled THEN Sampled[disk[p].bytes] ELSE disk[p].bytes
  IN  {{q \in files : key(q) = key(p)} : p \in files}
Cuts(class, refs) ==
  {g \in SUBSET class : /\ Cardinality(g) > 1 /\ Cardinality(g \cap refs) <= 1
                        /\ (g = class \/ Cardinality(class \cap refs) > 1)}
GroupsFrom(class, refs) ==
  UNION {{[ref |-> r, dupes |-> g \ {r}] : r \in {x \in g : g \cap refs # {} => x \in refs}} :
           g \in Cuts(class, refs)}
\* What a scan can return of these files.
Groupings(files, refs, sampled) ==
  LET of(class) == GroupsFrom(class, refs)
      classes == {c \in Alike(files, sampled) : of(c) # {}}
  IN  {groups \in SUBSET UNION {of(c) : c \in classes} :
         \A c \in classes : Cardinality(groups \cap of(c)) = 1}
ScanResults(files, refs, sampled) ==
  {[groups |-> groups, seen |-> [p \in Path |-> disk[p].time], refs |-> refs,
    partial |-> IF sampled THEN "sampled" ELSE "full"] : groups \in Groupings(files, refs, sampled)}
\* In a file: another version may have been at work, which does not say which matches are partial.
Written(res) == {res, [res EXCEPT !.partial = "unrecorded"]}

Idle == [flags |-> {}, folders |-> {}, refs |-> {}, output |-> "stdout"]

CliInit ==
  /\ disk \in [Path -> [bytes : Bytes, time : {1}, there : {TRUE}]]
  /\ \/ saved = Nobody /\ guarded = {}
     \/ \* an earlier scan of all files
        /\ guarded \in {{}} \cup {Under[d] : d \in Place}
        /\ \E sampled \in BOOLEAN : \E res \in ScanResults(Path, guarded, sampled) : saved \in Written(res)
  /\ promise = Nobody
  /\ line = Idle
  /\ stage = "none" /\ results = NoResults /\ queue = {} /\ removed = {} /\ verified = {}
  /\ skipped = {} /\ record = Nobody /\ exit = 0
  /\ returned = {} /\ meddled = 0 /\ runs = 0

-----------------------------------------------------------------------------
\* The process

Invoke(c) ==
  /\ stage = "none" /\ runs < RunBound /\ runs' = runs + 1
  /\ line' = c /\ stage' = "arguments"
  /\ UNCHANGED <<worldVars, outVars, workVars, exit>>

End(code) == stage' = "ended" /\ exit' = code
Continue(next) == stage' = next /\ UNCHANGED exit

\* A deletion has written its record over what --output names.
RecordWritten == record # Nobody /\ line.output = "results"
\* The process is gone; a plan outlives neither a deletion nor the results it is of.
Gone ==
  /\ stage' = "none" /\ exit' = 0 /\ line' = Idle
  /\ results' = NoResults /\ queue' = {} /\ removed' = {} /\ verified' = {} /\ skipped' = {}
  /\ record' = Nobody
  /\ promise' = IF removed = {} /\ ~RecordWritten THEN promise ELSE Nobody
  /\ UNCHANGED <<worldVars, saved, guarded, runs>>
Leave == stage = "ended" /\ Gone
\* Ctrl-C, or a crash: neither record nor exit code.
Interrupt == stage \notin {"none", "ended"} /\ Gone

\* The checks of main before it works, and a results file that cannot be read.
CheckArguments ==
  /\ stage = "arguments"
  /\ LET wrong == IF Has("from_results") THEN line.folders # {} \/ saved = Nobody
                  ELSE line.folders = {}
     IN IF wrong THEN End(2) ELSE Continue(IF Has("from_results") THEN "load" ELSE "prepare")
  /\ UNCHANGED <<worldVars, outVars, workVars, line, runs>>

-----------------------------------------------------------------------------
\* A scan

\* Mutant: only a folder that is scanned anyway can be made a reference.
ReferencesAmongFolders(c) == UNION {Under[d] : d \in c.refs \cap c.folders}
\* --ref: the folder is added to the scan and then made a reference.
References(c) == UNION {Under[d] : d \in c.refs}
Collected(c) == {p \in UNION {Under[d] : d \in c.folders \cup c.refs} : disk[p].there}

\* Large files match on their samples, unless all the matches are read again in full.
OnSamples == Has("partial_hash") /\ ~Has("full_verify")

\* The application, its options, exclusions and ignore list, and the folders: an exclusion that
\* cannot be used, an ignore list that is not there or a folder that is gone end the process.
Prepare ==
  /\ stage = "prepare" /\ (End(2) \/ Continue("scan"))
  /\ UNCHANGED <<worldVars, outVars, workVars, line, runs>>

\* _run_scan, or an exception inside it
Scan ==
  /\ stage = "scan"
  /\ \/ End(3) /\ UNCHANGED results
     \/ /\ results' \in ScanResults(Collected(line), References(line), OnSamples)
        /\ Continue(IF Has("plan") THEN "plan"
                    ELSE IF WantsDelete /\ ~Has("dry_run") THEN "confirm" ELSE "emit")
  /\ UNCHANGED <<worldVars, outVars, queue, removed, verified, skipped, record, line, runs>>

\* _load_results_json
LoadSaved ==
  /\ stage = "load" /\ results' = saved
  /\ Continue(IF Has("plan") THEN "plan" ELSE IF ~WantsDelete THEN "emit"
              ELSE IF Has("dry_run") THEN "plan" ELSE "confirm")
  /\ UNCHANGED <<worldVars, outVars, queue, removed, verified, skipped, record, line, runs>>

Found == results.groups # {}
FoundCode == IF Found THEN 1 ELSE 0

\* The results go to the file or to stdout.
EmitResults ==
  /\ stage = "emit"
  /\ LET ignoresOutput == Has("from_results") /\ Has("ndjson")
     IN IF line.output = "unwritable" /\ ~ignoresOutput THEN End(3) ELSE End(FoundCode)
  /\ IF line.output = "results" /\ ~Has("from_results")
     THEN /\ saved' \in Written(results)
          /\ guarded' = References(line) /\ promise' = Nobody
     ELSE UNCHANGED <<saved, guarded, promise>>
  /\ UNCHANGED <<worldVars, workVars, line, runs>>

-----------------------------------------------------------------------------
\* Plans and gates

\* Every duplicate that is not in a reference folder; the groups' references stay.
Candidates == (UNION {g.dupes : g \in results.groups}) \ results.refs
\* check_deletable
Deletable(p) == disk[p].there /\ disk[p].time = results.seen[p]
\* Mutant: a plan that does not look at the disk.
WouldDeleteAll == Candidates
WouldDelete == {p \in Candidates : Deletable(p)}

\* What --output names is written over: read as results, it has no groups.
Overwritten ==
  IF line.output = "results" THEN saved' = NoResults /\ guarded' = {} ELSE UNCHANGED <<saved, guarded>>

\* _report_deletion_plan and _emit_plan: a plan of saved results that cannot be written
\* ends in a traceback.
Plan ==
  /\ stage = "plan"
  /\ IF Has("plan") /\ line.output = "unwritable"
     THEN End(IF Has("from_results") THEN 1 ELSE 3) /\ UNCHANGED <<saved, guarded, promise>>
     ELSE /\ End(IF WouldDelete # {} THEN 1 ELSE 0)
          /\ promise' = (IF Has("plan") /\ line.output = "results" THEN Nobody
                         ELSE IF Has("from_results") THEN WouldDelete ELSE promise)
          /\ IF Has("plan") THEN Overwritten ELSE UNCHANGED <<saved, guarded>>
  /\ UNCHANGED <<worldVars, workVars, line, runs>>

\* How many partial matches stand in the way: of a scan those that could be deleted now, of
\* saved results all that are recorded.
Partials ==
  IF results.partial # "sampled" THEN {}
  ELSE IF Has("from_results") THEN Candidates ELSE WouldDelete

\* Mutant: the gate is on the scan's path only.
ConfirmScansOnly ==
  /\ stage = "confirm"
  /\ IF ~Has("yes") \/ (Partials # {} /\ ~Has("allow_partial") /\ ~Has("from_results"))
     THEN End(2) /\ UNCHANGED queue
     ELSE Continue("deleting") /\ queue' = Candidates
  /\ UNCHANGED <<worldVars, outVars, results, removed, verified, skipped, record, line, runs>>

\* --yes, and --allow-partial-matches.
Confirm ==
  /\ stage = "confirm"
  /\ IF ~Has("yes") \/ (Partials # {} /\ ~Has("allow_partial"))
     THEN End(2) /\ UNCHANGED queue
     ELSE Continue("deleting") /\ queue' = Candidates
  /\ UNCHANGED <<worldVars, outVars, results, removed, verified, skipped, record, line, runs>>

-----------------------------------------------------------------------------
\* The deletion

KeptFor(p) == CHOOSE r \in Path : \E g \in results.groups : p \in g.dupes /\ r = g.ref
Verifies(p) ==
  LET r == KeptFor(p) IN disk[r].there /\ disk[r].bytes = disk[p].bytes

Delete(p) ==
  /\ removed' = removed \cup {p}
  /\ verified' = IF Verifies(p) THEN verified \cup {p} ELSE verified
  /\ disk' = [disk EXCEPT ![p].there = FALSE]
  /\ UNCHANGED <<skipped, promise>>
\* A file that is refused, or whose removal fails, which no plan foresees.
Skip(p) ==
  /\ skipped' = skipped \cup {p} /\ promise' = (IF Deletable(p) THEN Nobody ELSE promise)
  /\ UNCHANGED <<disk, removed, verified>>

\* Only a deletion behind a scan verifies.  A file that is gone is no problem to it; of saved
\* results it is one.
DeleteNext(p) ==
  /\ stage = "deleting" /\ p \in queue /\ queue' = queue \ {p}
  /\ \/ (disk[p].there \/ Has("from_results")) /\ Skip(p)
     \/ Deletable(p) /\ (Has("verify") /\ ~Has("from_results") => Verifies(p)) /\ Delete(p)
     \/ /\ ~disk[p].there /\ ~Has("from_results")
        /\ UNCHANGED <<disk, removed, verified, skipped, promise>>
  /\ UNCHANGED <<returned, meddled, saved, guarded, record, results, line, stage, exit, runs>>

\* Mutant: a record that cannot be written to its file is dropped.
RecordOrNothing == IF line.output = "unwritable" THEN Nobody ELSE [deleted |-> removed, skipped |-> skipped]
\* _emit_deletion: to the file, or else to stdout.
RecordSomewhere == [deleted |-> removed, skipped |-> skipped]

FinishDeletion ==
  /\ stage = "deleting" /\ queue = {}
  /\ record' = RecordSomewhere
  /\ Overwritten
  /\ End(IF skipped # {} THEN 3
         ELSE IF Has("from_results") THEN (IF removed # {} THEN 1 ELSE 0) ELSE FoundCode)
  /\ UNCHANGED <<worldVars, promise, results, queue, removed, verified, skipped, line, runs>>

-----------------------------------------------------------------------------
\* Other programs

\* A plan holds for the disk it was made on.
Meddle == meddled < MeddleBound /\ meddled' = meddled + 1 /\ promise' = Nobody
  /\ UNCHANGED <<saved, guarded, workVars, line, stage, exit, runs>>

Overwrite(p, b) ==
  /\ Meddle /\ disk' = [disk EXCEPT ![p] = [bytes |-> b, time |-> @.time + 1, there |-> TRUE]]
  /\ UNCHANGED returned
MoveAway(p) ==
  /\ Meddle /\ disk[p].there /\ disk' = [disk EXCEPT ![p].there = FALSE] /\ UNCHANGED returned
\* As it was: from another drive, or out of the trash.
MoveBack(p) ==
  /\ Meddle /\ ~disk[p].there /\ disk' = [disk EXCEPT ![p].there = TRUE]
  /\ returned' = returned \cup {p}

CliNext ==
  \/ \E c \in CommandLines : Invoke(c)
  \/ CheckArguments \/ Prepare \/ Scan \/ LoadSaved \/ EmitResults \/ Plan \/ Confirm
  \/ \E p \in Path : DeleteNext(p)
  \/ FinishDeletion \/ Leave \/ Interrupt
  \/ \E p \in Path, b \in Bytes : Overwrite(p, b)
  \/ \E p \in Path : MoveAway(p) \/ MoveBack(p)

CliSpec == CliInit /\ [][CliNext]_cliVars

-----------------------------------------------------------------------------
CliTypeOK ==
  /\ disk \in [Path -> [bytes : Bytes, time : Nat, there : BOOLEAN]]
  /\ line \in CommandLine /\ exit \in 0..3
  /\ stage \in {"none", "arguments", "load", "prepare", "scan", "emit", "plan", "confirm", "deleting", "ended"}
  /\ removed \cup skipped \subseteq Candidates /\ verified \subseteq removed
  /\ guarded \cup returned \subseteq Path

\* When a process that deleted something has ended, the record it left lists exactly what is
\* gone and what was skipped (cli.py: "the record is the only remaining account of what
\* happened").
RecordIsTrue ==
  /\ CliTypeOK
  /\ stage = "ended" /\ removed \cup skipped # {} =>
       record = [deleted |-> removed, skipped |-> skipped]

\* No file matched on samples only is deleted without --allow-partial-matches, unless it was
\* away when the gate counted, or the saved results cannot tell (README: "The same refusal
\* applies when deleting from a saved results file").
PartialsNeedConsent ==
  results.partial = "sampled" /\ ~Has("allow_partial") => removed \subseteq returned

\* A file under a --ref folder is deleted neither by the scan that was given the folder nor by
\* a later process working from its results.
ReferencesStay ==
  removed \cap (IF Has("from_results") THEN guarded ELSE UNION {Under[d] : d \in line.refs}) = {}

\* What a plan of saved results said would go is what the deletion from them removes, if
\* nothing fails or changes in between (README: "the set of paths the plan says will go is
\* exactly the set the subsequent `--delete` removes").
PlanIsKept ==
  stage = "ended" /\ Has("from_results") /\ record # Nobody /\ promise # Nobody =>
    removed \cup returned = promise \cup returned

\* Under --verify a match that claimed identical contents is deleted only while the kept file
\* has the same bytes (cli.py: "Compare each file byte for byte against the one being kept,
\* immediately before deleting it, and refuse any that differ").
VerifyIsHonoured == Has("verify") /\ results.partial = "full" => removed \subseteq verified
=============================================================================
