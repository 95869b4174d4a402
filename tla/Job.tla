-------------------------------- MODULE Job ---------------------------------
(***************************************************************************)
(* Background jobs: ThreadedJobPerformer (hscommon/jobprogress), the       *)
(* ProgressWindow above it (hscommon/gui) and its Qt view (qt), which      *)
(* share a few attributes and no lock.  The worker thread's assignments,   *)
(* and the reads and writes of the main thread that pulses every 500 ms,   *)
(* are steps of their own.  What a job does is left out: it reports        *)
(* progress, and it ends, fails or is cancelled.  Jobs are numbered.       *)
(***************************************************************************)
EXTENDS Naturals, FiniteSets

CONSTANTS
  JobBound,    \* bound: jobs that are ever started
  PromptStart  \* a thread reaches its first assignment before the first pulse

ASSUME JobAssumption == JobBound \in Nat /\ PromptStart \in BOOLEAN

Jobs == 1..JobBound

VARIABLES
  running,    \* _job_running
  progress,   \* last_progress: "none" or "some"
  cancelled,  \* job_cancelled
  error,      \* last_error: the job it came from, 0 if None
  worker,     \* of each job's thread: "absent", "new", "working", "ending", "stopped", "gone"
  ended,    \* how its target ended: "none", "success", "failure", "cancelled"
  jobid,      \* the latest job
  window,     \* the modal progress window is shown, and its timer runs
  asking,     \* the "Cancel?" dialog is shown
  gui,        \* what the main thread is in the middle of
  seen,       \* the progress its pulse has read
  reported,   \* what it made of each job: "nothing", "finished", "error"
  dismissed   \* jobs whose window the user closed

shared == <<running, progress, cancelled, error>>
threads == <<worker, ended>>
main == <<jobid, window, asking, gui, seen, reported, dismissed>>
jobVars == <<shared, threads, main>>

JobInit ==
  /\ running = FALSE /\ progress = "none" /\ cancelled = FALSE /\ error = 0
  /\ worker = [j \in Jobs |-> "absent"] /\ ended = [j \in Jobs |-> "none"]
  /\ jobid = 0 /\ window = FALSE /\ asking = FALSE /\ gui = "idle" /\ seen = "none"
  /\ reported = [j \in Jobs |-> "nothing"] /\ dismissed = {}

-----------------------------------------------------------------------------
(* The main thread.                                                        *)

\* create_job, which is refused while _job_running; a refused run changes
\* jobid too, which nobody reads until the next run.
CreateJob ==
  /\ gui = "idle" /\ ~window /\ ~asking /\ jobid < JobBound
  /\ ~running
  /\ progress' = "some" /\ cancelled' = FALSE
  /\ gui' = "created"
  /\ UNCHANGED <<running, error, threads, jobid, window, asking, seen, reported, dismissed>>

\* run_threaded, which checks again, and view.show.
RunThreaded ==
  /\ gui = "created"
  /\ gui' = "idle"
  /\ IF running
     THEN UNCHANGED <<worker, jobid, window>>
     ELSE /\ jobid' = jobid + 1
          /\ worker' = [worker EXCEPT ![jobid'] = "new"]
          /\ window' = TRUE
  /\ UNCHANGED <<shared, ended, asking, seen, reported, dismissed>>

\* The main thread acts on the window.
AtWindow == gui = "idle" /\ window /\ (PromptStart => worker[jobid] # "new")

PulseReads ==
  /\ AtWindow
  /\ seen' = progress
  /\ gui' = "pulse"
  /\ UNCHANGED <<shared, threads, jobid, window, asking, reported, dismissed>>

PulseDecides ==
  /\ gui = "pulse"
  /\ IF ~running \/ seen = "none"
     THEN gui' = "pulse closes" /\ window' = FALSE
     ELSE gui' = "idle" /\ UNCHANGED window
  /\ UNCHANGED <<shared, threads, jobid, asking, seen, reported, dismissed>>

\* The view's close ends by calling cancel, which counts while _job_running.
CloseCancels ==
  /\ gui \in {"pulse closes", "user closes"}
  /\ cancelled' = (cancelled \/ running)
  /\ gui' = IF gui = "pulse closes" THEN "report" ELSE "idle"
  /\ UNCHANGED <<running, progress, error, threads, jobid, window, asking, seen, reported, dismissed>>

\* The rest of pulse: error_func, or finish_func unless cancelled.
PulseReports ==
  /\ gui = "report"
  /\ gui' = "idle"
  /\ reported' = IF error # 0 THEN [reported EXCEPT ![jobid] = "error"]
                 ELSE IF cancelled THEN reported
                 ELSE [reported EXCEPT ![jobid] = "finished"]
  /\ UNCHANGED <<shared, threads, jobid, window, asking, seen, dismissed>>

Ask ==
  /\ AtWindow /\ ~asking
  /\ asking' = TRUE
  /\ UNCHANGED <<shared, threads, jobid, window, gui, seen, reported, dismissed>>

\* The dialog runs an event loop of its own: the window may be gone by then.
Answer ==
  /\ gui = "idle" /\ asking
  /\ asking' = FALSE
  /\ \/ window /\ window' = FALSE /\ gui' = "user closes" /\ dismissed' = dismissed \cup {jobid}
     \/ UNCHANGED <<window, gui, dismissed>>
  /\ UNCHANGED <<shared, threads, jobid, seen, reported>>

-----------------------------------------------------------------------------
(* The worker thread of job j.                                             *)

\* Mutant: last_error survives from one job to the next.
BeginKeepsError(j) ==
  /\ worker[j] = "new"
  /\ worker' = [worker EXCEPT ![j] = "working"]
  /\ running' = TRUE
  /\ UNCHANGED <<progress, cancelled, error, ended, main>>
Begin(j) ==
  /\ worker[j] = "new"
  /\ worker' = [worker EXCEPT ![j] = "working"]
  /\ running' = TRUE /\ error' = 0
  /\ UNCHANGED <<progress, cancelled, ended, main>>

Ends(j, how) ==
  /\ worker' = [worker EXCEPT ![j] = "ending"]
  /\ ended' = [ended EXCEPT ![j] = how]

\* _update_progress; the job raises JobCancelled if it returns False, which
\* perform_on_marked takes for a problem with one file and goes on.
Update(j) ==
  /\ worker[j] = "working"
  /\ progress' = "some"
  /\ (cancelled /\ Ends(j, "cancelled")) \/ UNCHANGED threads
  /\ UNCHANGED <<running, cancelled, error, main>>

\* The target returns, or raises: _async_run keeps the exception.
End(j) ==
  /\ worker[j] = "working"
  /\ \/ Ends(j, "success") /\ UNCHANGED error
     \/ Ends(j, "failure") /\ error' = j
  /\ UNCHANGED <<running, progress, cancelled, main>>

\* Mutant: no finally, so an exception leaves the flag up.
StopUnlessFailed(j) ==
  /\ worker[j] = "ending" /\ ended[j] # "failure"
  /\ worker' = [worker EXCEPT ![j] = "stopped"]
  /\ running' = FALSE
  /\ UNCHANGED <<progress, cancelled, error, ended, main>>
\* finally: two assignments, in this order.
StopRunning(j) ==
  /\ worker[j] = "ending"
  /\ worker' = [worker EXCEPT ![j] = "stopped"]
  /\ running' = FALSE
  /\ UNCHANGED <<progress, cancelled, error, ended, main>>

ClearProgress(j) ==
  /\ worker[j] = "stopped"
  /\ worker' = [worker EXCEPT ![j] = "gone"]
  /\ progress' = "none"
  /\ UNCHANGED <<running, cancelled, error, ended, main>>

Loop == PulseReads \/ PulseDecides \/ CloseCancels \/ PulseReports \/ RunThreaded
Thread(j) == Begin(j) \/ End(j) \/ StopRunning(j) \/ ClearProgress(j)

JobNext ==
  \/ CreateJob \/ Loop \/ Ask \/ Answer
  \/ \E j \in Jobs : Thread(j) \/ Update(j)

\* The timer fires as long as the window is shown, and every target comes to
\* its end; the user owes nothing.
JobSpec == JobInit /\ [][JobNext]_jobVars /\ WF_jobVars(Loop) /\ \A j \in Jobs : WF_jobVars(Thread(j))

-----------------------------------------------------------------------------
(* Properties.                                                             *)

JobTypeOK ==
  /\ running \in BOOLEAN /\ progress \in {"none", "some"} /\ cancelled \in BOOLEAN
  /\ error \in {0} \cup Jobs
  /\ worker \in [Jobs -> {"absent", "new", "working", "ending", "stopped", "gone"}]
  /\ ended \in [Jobs -> {"none", "success", "failure", "cancelled"}]
  /\ jobid \in {0} \cup Jobs /\ window \in BOOLEAN /\ asking \in BOOLEAN
  /\ gui \in {"idle", "created", "pulse", "pulse closes", "user closes", "report"}
  /\ seen \in {"none", "some"}
  /\ reported \in [Jobs -> {"nothing", "finished", "error"}] /\ dismissed \subseteq Jobs

Underway == {j \in Jobs : worker[j] \in {"new", "working", "ending"}}

\* "A job is already being performed, you can't perform more than one at the
\* same time" (hscommon/jobprogress/job.py:20), although the flag that says so
\* is raised by the thread itself.
OneAtATime == Cardinality(Underway) <= 1

\* finish_func, and error_func, are told of a job what that job's own target
\* came to, not what an earlier one left behind.
ReportIsTrue ==
  \A j \in Jobs :
    /\ reported[j] = "finished" => ended[j] = "success"
    /\ reported[j] = "error" => ended[j] = "failure"

\* Two jobs never run, and a report is of the job it is made for, however the
\* window's and the threads' steps fall.
JobsAreOrderly == JobTypeOK /\ OneAtATime /\ ReportIsTrue

\* Every job is settled before another can start: its window goes, and the job
\* is reported unless it was cancelled, or dismissed after its end.
JobIsSettled ==
  \A j \in Jobs :
    worker[j] = "new" ~>
      /\ jobid = j /\ ~window /\ gui = "idle"
      /\ reported[j] # "nothing" \/ j \in dismissed \/ cancelled
=============================================================================
