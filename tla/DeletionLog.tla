---------------------------- MODULE DeletionLog -----------------------------
(***************************************************************************)
(* The file behind core/deletion_log.py, written by every process of the   *)
(* application (the window and the command line share it): lines appended  *)
(* one by one, a failed write that leaves a line without its end, and the  *)
(* compaction a load ends with.  A record is the run it belongs to and its *)
(* number in it; runs are numbered in the order they start.  The text of a *)
(* line is left out: it parses or it does not.  Lines are a set, as        *)
(* reading them depends on their order for amendments only.                *)
(***************************************************************************)
EXTENDS Naturals, FiniteSets

CONSTANTS
  Process,     \* processes of the application
  MAX_RUNS,    \* runs a load keeps
  Ended,       \* the file ends with a newline, or is empty
  Partial,     \* it ends inside a line that does not parse
  RunBound,    \* bound: runs that are ever started
  RecordBound, \* bound: records of one run
  FaultBound   \* bound: failed writes

ASSUME LogAssumption ==
  /\ MAX_RUNS \in Nat \ {0} /\ RunBound \in Nat /\ RecordBound \in Nat /\ FaultBound \in Nat
  /\ Ended # Partial /\ IsFiniteSet(Process)

Record == [run : 1..RunBound, number : 1..RecordBound]
ASSUME TailAssumption == {Ended, Partial} \cap Record = {}

VARIABLES
  onDisk,   \* records whose line parses
  tail,     \* how the file ends: a record that lacks only its newline counts as onDisk
  damaged,  \* some terminated line does not parse
  stage,    \* of each process: "down", "compact" or "up"
  loaded,   \* the records each process read and kept when it loaded
  run,      \* the run each process records into, 0 if none
  written,  \* how many records that run has
  started,  \* how many runs there have been
  acked,    \* records whose append returned without an error
  faults,   \* how many writes failed
  races     \* how many appends fell between another process's read and its rewrite

fileVars == <<onDisk, tail, damaged>>
procVars == <<stage, loaded, run, written>>
logVars == <<fileVars, procVars, started, acked, faults, races>>

RunsOf(R) == {r.run : r \in R}

\* _trim: the newest MAX_RUNS runs that have a record.
NewestRuns(R) == {r \in R : Cardinality({n \in RunsOf(R) : n > r.run}) < MAX_RUNS}

LogInit ==
  /\ onDisk = {} /\ tail = Ended /\ damaged = FALSE
  /\ stage = [p \in Process |-> "down"] /\ loaded = [p \in Process |-> {}]
  /\ run = [p \in Process |-> 0] /\ written = [p \in Process |-> 0]
  /\ started = 0 /\ acked = {} /\ faults = 0 /\ races = 0

\* load, up to the decision to rewrite.
Load(p) ==
  /\ stage[p] = "down"
  /\ loaded' = [loaded EXCEPT ![p] = NewestRuns(onDisk)]
  /\ stage' = [stage EXCEPT ![p] = IF NewestRuns(onDisk) # onDisk \/ damaged \/ tail = Partial
                                   THEN "compact" ELSE "up"]
  /\ run' = [run EXCEPT ![p] = 0]
  /\ UNCHANGED <<fileVars, written, started, acked, faults, races>>

\* save: another file is written and moved into place, or it fails.
Compact(p) ==
  /\ stage[p] = "compact"
  /\ stage' = [stage EXCEPT ![p] = "up"]
  /\ \/ onDisk' = loaded[p] /\ tail' = Ended /\ damaged' = FALSE
     \/ UNCHANGED fileVars
  /\ UNCHANGED <<loaded, run, written, started, acked, faults, races>>

StartRun(p) ==
  /\ stage[p] = "up" /\ started < RunBound
  /\ started' = started + 1
  /\ run' = [run EXCEPT ![p] = started']
  /\ written' = [written EXCEPT ![p] = 0]
  /\ UNCHANGED <<fileVars, stage, loaded, acked, faults, races>>

Ready(p) == stage[p] = "up" /\ run[p] # 0 /\ written[p] < RecordBound
NextRecord(p) == [run |-> run[p], number |-> written[p] + 1]

\* What a line written behind an unfinished one does: they become one line.
Glue == onDisk' = onDisk \ {tail} /\ damaged' = TRUE

AppendRecord(p) ==
  /\ Ready(p)
  /\ written' = [written EXCEPT ![p] = @ + 1]
  /\ IF tail = Ended THEN onDisk' = onDisk \cup {NextRecord(p)} /\ UNCHANGED damaged ELSE Glue
  /\ tail' = Ended
  /\ acked' = acked \cup {NextRecord(p)}
  /\ races' = races + Cardinality({q \in Process \ {p} : stage[q] = "compact"})
  /\ UNCHANGED <<stage, loaded, run, started, faults>>

\* The write stops half way, the disk being full or the process killed: the
\* line is unfinished, or lacks its newline only.  _append swallows the error.
AppendFails(p) ==
  /\ Ready(p) /\ faults < FaultBound
  /\ faults' = faults + 1
  /\ written' = [written EXCEPT ![p] = @ + 1]
  /\ IF tail = Ended
     THEN /\ \/ tail' = Partial /\ UNCHANGED onDisk
             \/ tail' = NextRecord(p) /\ onDisk' = onDisk \cup {NextRecord(p)}
          /\ UNCHANGED damaged
     ELSE tail' = Partial /\ onDisk' = onDisk \ {tail} /\ UNCHANGED damaged
  /\ stage' \in {stage, [stage EXCEPT ![p] = "down"]}
  /\ UNCHANGED <<loaded, run, started, acked, races>>

\* Mutant: the process rewrites the file in place, and is interrupted.
DieRewriting(p) ==
  /\ stage[p] # "down"
  /\ stage' = [stage EXCEPT ![p] = "down"]
  /\ onDisk' = IF stage[p] = "compact" THEN {} ELSE onDisk
  /\ UNCHANGED <<tail, damaged, loaded, run, written, started, acked, faults, races>>
\* The process ends, at any moment.
Die(p) ==
  /\ stage[p] # "down"
  /\ stage' = [stage EXCEPT ![p] = "down"]
  /\ UNCHANGED <<fileVars, loaded, run, written, started, acked, faults, races>>

LogNext ==
  \E p \in Process :
    Load(p) \/ Compact(p) \/ StartRun(p) \/ AppendRecord(p) \/ AppendFails(p) \/ Die(p)

LogSpec == LogInit /\ [][LogNext]_logVars

-----------------------------------------------------------------------------
(* Properties.                                                             *)

LogTypeOK ==
  /\ onDisk \in SUBSET Record /\ tail \in {Ended, Partial} \cup onDisk /\ damaged \in BOOLEAN
  /\ stage \in [Process -> {"down", "compact", "up"}]
  /\ loaded \in [Process -> SUBSET Record]
  /\ run \in [Process -> 0..RunBound] /\ written \in [Process -> 0..RecordBound]
  /\ started \in 0..RunBound /\ acked \in SUBSET Record
  /\ faults \in 0..FaultBound /\ races \in Nat

\* A record is outlived by MAX_RUNS newer runs: a load may drop it.
Aged(r) == started - r.run >= MAX_RUNS

\* Damage stays local (deletion_log.py:36-37): a failed write costs at most
\* one record besides its own, and only an append that another process's
\* compaction overlooks costs one more; a crash, wherever it falls, costs none.
LossIsBounded ==
  LogTypeOK /\ Cardinality({r \in acked \ onDisk : ~Aged(r)}) <= faults + races

=============================================================================
