------------------------------ MODULE Restore -------------------------------
(***************************************************************************)
(* Where trashed files go (core/trash.py) and how they come back           *)
(* (restore_record of core/deletion_log.py, the deletion history dialog).  *)
(* A record says under which path a file was deleted and where the trash   *)
(* put it; the trash gives the name of what left it to the next file.      *)
(* Deletions come from the window or the command line, and other programs  *)
(* create and remove files and empty the trash at any point.               *)
(***************************************************************************)
EXTENDS Naturals, Sequences, FiniteSets

CONSTANTS
  DeletedPath,          \* of the files that are deleted
  Mounted,       \* those on a volume that has its own trash
  Bytes,         \* what a file may hold
  Slot,          \* names in a trash
  VolumeSlot,    \* those in the trash of the volume
  Platform,      \* "darwin", "linux", "win32", "other"
  Absent,        \* no file, no trashed file, or no destination
  DeletionBound, \* bound: deletions
  IntrusionBound   \* bound: what other programs do

ASSUME RestoreConstants ==
  /\ Mounted \subseteq DeletedPath /\ VolumeSlot \subseteq Slot
  /\ Absent \notin Bytes \cup Slot
  /\ DeletionBound \in Nat /\ IntrusionBound \in Nat

VARIABLES
  platform,
  disk,      \* what is at each path
  bin,       \* what each name in a trash holds: bytes, and the deletion that put them there
  infos,     \* .trashinfo files, on Linux: name, path and time
  log,       \* records: path, bytes, whether their digest is known, destination, and run;
             \* and whether it failed, could not be told, and where the file really went
  restoring, \* records of the run still to be put back, and what was found for the first
  answers,   \* what restore_record said of each record, and which deletion it put back
  intrusions \* what other programs did

restoreVars == <<platform, disk, bin, infos, log, restoring, answers, intrusions>>

Empty == [bytes |-> Absent, deletion |-> 0]
NoRestore == [todo |-> {}, moving |-> FALSE, appeared |-> FALSE]

RestoreInit ==
  /\ platform \in Platform
  /\ disk \in [DeletedPath -> Bytes] /\ bin = [s \in Slot |-> Empty] /\ infos = {}
  /\ log = <<>> /\ restoring = NoRestore /\ answers = <<>> /\ intrusions = 0

-----------------------------------------------------------------------------
(* Trashing.                                                               *)

DeletionNumber == Len(log) + 1

\* A trash takes a file under a name that is free, and on Linux has no .trashinfo either.
FreeFor(p) ==
  {s \in IF p \in Mounted THEN VolumeSlot ELSE Slot \ VolumeSlot :
     bin[s] = Empty /\ ~\E i \in infos : i.slot = s}

\* send2trash.
Send2Trash(p, s) ==
  /\ disk' = [disk EXCEPT ![p] = Absent]
  /\ bin' = [bin EXCEPT ![s] = [bytes |-> disk[p], deletion |-> DeletionNumber]]
  /\ infos' = IF platform = "linux" THEN infos \cup {[slot |-> s, path |-> p, time |-> DeletionNumber]}
              ELSE infos
Untouched == UNCHANGED <<disk, bin, infos>>

\* The record was written before, and is amended when the trash told where the file went.
\* Without a destination nobody reads the digest.
Recorded(p, dest, failed, unknowable, went) ==
  /\ \E digested \in IF dest = Absent THEN {FALSE} ELSE BOOLEAN, next \in BOOLEAN :
       log' = Append(log, [path |-> p, bytes |-> disk[p], digested |-> digested, dest |-> dest,
                           run |-> IF log = <<>> THEN 1 ELSE log[Len(log)].run + (IF next THEN 1 ELSE 0),
                           failed |-> failed, unknowable |-> unknowable, went |-> went])
  /\ answers' = Append(answers, [status |-> "none", deletion |-> 0])
Raises(p, unknowable, went) == Recorded(p, Absent, TRUE, unknowable, went)
Trashed(p, dest, went) == Recorded(p, dest, FALSE, FALSE, went)

\* Mutant: an answer that is not a place is taken for a file that was not trashed.
FallsBackOnUnread(answer) == answer \in {"not trashed", "unread"}
\* `destination is not None`: only what was not trashed goes to send2trash.
FallsBack(answer) == answer = "not trashed"

\* _trash_macos: it cannot be used, or the file cannot be found; the move fails, or may have
\* happened; the file is in the trash, and its place can be read or not.
TrashMacos(p, s) ==
  /\ platform = "darwin"
  /\ \/ Untouched /\ Raises(p, FALSE, Absent)
     \/ Untouched /\ Raises(p, TRUE, Absent)
     \/ Send2Trash(p, s) /\ Raises(p, TRUE, s)
     \/ \E answer \in {"not trashed", "unread", "read"} :
          IF answer # "not trashed"
          THEN /\ Send2Trash(p, s)
               /\ IF FallsBack(answer) THEN Raises(p, FALSE, s)
                  ELSE Trashed(p, IF answer = "read" THEN s ELSE Absent, s)
          ELSE \/ Untouched /\ Raises(p, FALSE, Absent)
               \/ Send2Trash(p, s) /\ Trashed(p, Absent, s)

\* _trash_windows: the sink was told the new place, or there is no sink.
TrashWindows(p, s) ==
  /\ platform = "win32"
  /\ \/ Untouched /\ Raises(p, FALSE, Absent)
     \/ \E dest \in {s, Absent} : Send2Trash(p, s) /\ Trashed(p, dest, s)

\* The newest of the generations of one path.
NewestOf(found) == CHOOSE i \in found : \A j \in found : i.time >= j.time

\* _find_xdg_destination: the home trash, then the volume's; only files that are still there.
Generations(p, slots, files) == {i \in infos' : i.path = p /\ i.slot \in slots /\ files[i.slot] # Empty}
FindXdg(p) ==
  LET home == Generations(p, Slot \ VolumeSlot, bin')
      volume == IF p \in Mounted THEN Generations(p, VolumeSlot, bin') ELSE {}
  IN  IF home # {} THEN NewestOf(home).slot
      ELSE IF volume # {} THEN NewestOf(volume).slot
      ELSE Absent

\* The .trashinfo may not be found: a volume's trash names files from the top of the volume.
TrashLinux(p, s) ==
  /\ platform = "linux"
  /\ \/ Untouched /\ Raises(p, FALSE, Absent)
     \/ /\ Send2Trash(p, s)
        /\ \E dest \in {FindXdg(p), Absent} : Trashed(p, dest, s)

TrashElsewhere(p, s) ==
  /\ platform = "other"
  /\ \/ Untouched /\ Raises(p, FALSE, Absent)
     \/ Send2Trash(p, s) /\ Trashed(p, Absent, s)

\* trash_file, on behalf of a deletion.
TrashFile(p, s) ==
  /\ disk[p] # Absent /\ Len(log) < DeletionBound /\ s \in FreeFor(p)
  /\ TrashMacos(p, s) \/ TrashWindows(p, s) \/ TrashLinux(p, s) \/ TrashElsewhere(p, s)
  /\ UNCHANGED <<platform, restoring, intrusions>>

-----------------------------------------------------------------------------
(* Restoring.                                                              *)

\* DeletionRecord.restorable
Restorable(record) == record.dest # Absent

\* restoreClicked: the records of a run that has one to put back.
RestoreClicked(run) ==
  LET ofRun == {i \in DOMAIN log : log[i].run = run}
  IN  /\ restoring = NoRestore
      /\ \E i \in ofRun : Restorable(log[i])
      /\ restoring' = [NoRestore EXCEPT !.todo = ofRun]
      /\ answers' = [i \in DOMAIN answers |-> [status |-> "none", deletion |-> 0]]
      /\ UNCHANGED <<platform, disk, bin, infos, log, intrusions>>

\* The records are gone through as they were written.
First(i) == \A j \in restoring.todo : i <= j
Says(i, status, deletion) ==
  /\ answers' = [answers EXCEPT ![i] = [status |-> status, deletion |-> deletion]]
  /\ restoring' = [NoRestore EXCEPT !.todo = restoring.todo \ {i}]

\* Mutant: a file that is not what was deleted may be replaced.
VerdictTrusting(record) ==
  IF record.dest = Absent \/ bin[record.dest] = Empty THEN "no_backup"
  ELSE IF disk[record.path] = record.bytes THEN "already_there" ELSE "move"
\* What restore_record finds: the original path first, then the trashed copy.
Verdict(record) ==
  IF record.dest = Absent THEN "no_backup"
  ELSE LET copy == bin[record.dest] IN
       IF disk[record.path] # Absent
       THEN IF \/ copy # Empty /\ copy.bytes = disk[record.path]
               \/ copy = Empty /\ record.digested /\ disk[record.path] = record.bytes
            THEN "already_there" ELSE "occupied"
       ELSE IF copy = Empty THEN "no_backup" ELSE "move"

RestoreCheck ==
  /\ ~restoring.moving
  /\ \E i \in restoring.todo :
       /\ First(i)
       /\ IF Verdict(log[i]) = "move"
          THEN restoring' = [restoring EXCEPT !.moving = TRUE] /\ UNCHANGED answers
          ELSE Says(i, Verdict(log[i]), 0)
  /\ UNCHANGED <<platform, disk, bin, infos, log, intrusions>>

\* shutil.move, which replaces what is there; it fails, or there is nothing left to move.
RestoreMove ==
  /\ restoring.moving
  /\ \E i \in restoring.todo :
       /\ First(i)
       /\ LET copy == bin[log[i].dest]
          IN \/ /\ copy # Empty
                /\ disk' = [disk EXCEPT ![log[i].path] = copy.bytes]
                /\ bin' = [bin EXCEPT ![log[i].dest] = Empty]
                /\ Says(i, "restored", copy.deletion)
             \/ Says(i, "failed", 0) /\ UNCHANGED <<disk, bin>>
  /\ UNCHANGED <<platform, infos, log, intrusions>>

-----------------------------------------------------------------------------
(* Other programs.                                                         *)

Intrude == intrusions < IntrusionBound /\ intrusions' = intrusions + 1 /\ UNCHANGED <<platform, log, answers>>

\* A file is created, or one is removed.
Appear(p, b) ==
  /\ Intrude /\ disk[p] = Absent /\ disk' = [disk EXCEPT ![p] = b]
  /\ restoring' = [restoring EXCEPT !.appeared = @ \/ restoring.moving]
  /\ UNCHANGED <<bin, infos>>
Disappear(p) ==
  /\ Intrude /\ disk[p] # Absent /\ disk' = [disk EXCEPT ![p] = Absent]
  /\ UNCHANGED <<bin, infos, restoring>>

\* The trash is emptied.
EmptyTrash ==
  /\ Intrude /\ bin' = [s \in Slot |-> Empty] /\ infos' = {} /\ bin' # bin
  /\ UNCHANGED <<disk, restoring>>

RestoreNext ==
  \/ \E p \in DeletedPath, s \in Slot : TrashFile(p, s)
  \/ \E run \in {log[i].run : i \in DOMAIN log} : RestoreClicked(run)
  \/ RestoreCheck \/ RestoreMove
  \/ \E p \in DeletedPath, b \in Bytes : Appear(p, b)
  \/ \E p \in DeletedPath : Disappear(p)
  \/ EmptyTrash
RestoreSpec == RestoreInit /\ [][RestoreNext]_restoreVars

-----------------------------------------------------------------------------
\* What a deletion reports is what happened: a destination is where the file went ("guessing
\* wrong is worse than not guessing", core/trash.py), and a deletion that failed left the file
\* where it was, unless the system could not tell (issue #201).
TrashTellsTheTruth ==
  \A i \in DOMAIN log :
    /\ log[i].dest \in {log[i].went, Absent}
    /\ log[i].failed /\ ~log[i].unknowable => log[i].went = Absent

\* A restore "refuses in every case where putting the file back could destroy something"
\* (restore_record): only a file that appears after it looked can be replaced.
RestoreReplacesNothing ==
  [][\A p \in DeletedPath : restoring.moving /\ ~restoring'.moving /\ disk[p] # Absent /\ disk'[p] # disk[p]
       => restoring.appeared]_restoreVars

\* What a restore puts back is the file that was deleted: the trashed copy of another file,
\* under a name it was given later, is "a *different* file that a restore would then put back"
\* (core/trash.py).
RestoredIsTheDeleted ==
  \A i \in DOMAIN answers : answers[i].status = "restored" => answers[i].deletion = i
=============================================================================
