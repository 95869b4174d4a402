----------------------------- MODULE MCBackground -----------------------------
(***************************************************************************)
(* A background job and the parts around it: the threads and the progress  *)
(* window (Job), what the job tells the window (Progress), the time it may *)
(* take (Tracker), the log file its process appends to (DeletionLog), and  *)
(* the longest work a job does by itself, the grouping of a scan's matches *)
(* (Grouping, with the inputs of MCGrouping).  They share no state in the  *)
(* code but the flag a window sets to cancel, which Progress has as an     *)
(* action: a behaviour is one of one part, after a scan without matches.   *)
(***************************************************************************)
EXTENDS Job, DeletionLog, Progress, Tracker, MCGrouping

CONSTANTS window1, command

MCProcess == {window1, command}

VARIABLE part
Parts == {"job", "log", "progress", "tracker", "grouping"}

backgroundVars == <<part, jobVars, logVars, progressVars, trackerVars, vars>>

BackgroundInit ==
  /\ part \in Parts
  /\ JobInit /\ LogInit /\ ProgressInit /\ TrackerInit /\ Init
  /\ part # "grouping" => scan = Words(All100({}))
  /\ part # "progress" => todo = Collecting \o Set(1, 100) \o Fiddling
  /\ part # "tracker" => extent = Open

Grouped == phase = "done" /\ UNCHANGED vars
BackgroundNext ==
  /\ UNCHANGED part
  /\ \/ Next /\ UNCHANGED <<jobVars, logVars, progressVars, trackerVars>>
     \/ part = "job" /\ Grouped /\ JobNext /\ UNCHANGED <<logVars, progressVars, trackerVars>>
     \/ part = "log" /\ Grouped /\ LogNext /\ UNCHANGED <<jobVars, progressVars, trackerVars>>
     \/ part = "progress" /\ Grouped /\ ProgressNext /\ UNCHANGED <<jobVars, logVars, trackerVars>>
     \/ part = "tracker" /\ Grouped /\ TrackerNext /\ UNCHANGED <<jobVars, logVars, progressVars>>

BackgroundSpec ==
  /\ BackgroundInit /\ [][BackgroundNext]_backgroundVars
  /\ WF_vars(phase # "done" /\ Next)
  /\ WF_jobVars(part = "job" /\ Loop) /\ \A j \in Jobs : WF_jobVars(part = "job" /\ Thread(j))
=============================================================================
