-------------------------- MODULE BackgroundProofs --------------------------
(***************************************************************************)
(* Proofs about the background jobs (module Job) and the deletion log the  *)
(* processes share (module DeletionLog), for any number of jobs, processes,*)
(* runs, records and failed writes, and about the cancelling of a scan and *)
(* its bar (module Progress), for any sizes of its phases.                 *)
(***************************************************************************)
EXTENDS Job, DeletionLog, Progress, FiniteSetTheorems, SequenceTheorems, WellFoundedInduction, TLAPS

-----------------------------------------------------------------------------
(* Jobs.  The thread that counts is the latest one: every earlier one has  *)
(* lowered its flag, and a later one does not exist.                       *)

OnlyLatestRuns ==
  /\ \A j \in Jobs : worker[j] \in {"new", "working", "ending"} => j = jobid
  /\ \A j \in Jobs : j > jobid => worker[j] = "absent"
  /\ jobid # 0 => worker[jobid] # "absent"

\* _job_running tells, of a thread that has begun, whether it has ended.
FlagIsTrue == running <=> jobid # 0 /\ worker[jobid] \in {"working", "ending"}

\* While a thread has yet to begin its window is there, and nobody acts on it.
NewIsShielded ==
  jobid # 0 /\ worker[jobid] = "new" => window /\ gui = "idle" /\ ~asking

\* The main thread's place: what it is in the middle of, and of which window.
MainOK ==
  /\ window \/ gui \notin {"idle", "created"} => jobid # 0
  /\ gui = "created" => ~running /\ ~window /\ ~asking /\ jobid < JobBound
  /\ gui = "report" => cancelled \/ worker[jobid] \in {"stopped", "gone"}

\* How a target ended is known when its thread ends, and not before.
EndIsKnown ==
  \A j \in Jobs : ended[j] = "none" <=> worker[j] \in {"absent", "new", "working"}

\* last_error and job_cancelled are of the latest job once its thread has begun.
SharedIsOfLatest ==
  /\ error # 0 /\ jobid # 0 /\ worker[jobid] # "new" => error = jobid /\ ended[jobid] = "failure"
  /\ jobid # 0 /\ ended[jobid] = "failure" => error = jobid
  /\ jobid # 0 /\ ended[jobid] = "cancelled" /\ gui # "created" => cancelled

Orderly ==
  /\ OnlyLatestRuns /\ FlagIsTrue /\ NewIsShielded /\ MainOK /\ EndIsKnown /\ SharedIsOfLatest

\* The refusal of run_threaded comes too late to matter: nothing runs once a job was created.
LEMMA RunThreadedDoes ==
  ASSUME JobTypeOK, Orderly, RunThreaded
  PROVE  /\ jobid' \in Jobs /\ jobid' \in Nat /\ jobid \in Nat /\ jobid' > jobid
         /\ worker' \in [Jobs -> {"absent", "new", "working", "ending", "stopped", "gone"}]
         /\ worker'[jobid'] = "new" /\ \A j \in Jobs : j # jobid' => worker'[j] = worker[j]
         /\ window' = TRUE /\ gui' = "idle" /\ ~asking /\ ~running
         /\ UNCHANGED <<shared, ended, asking, seen, reported, dismissed>>
<1>1. /\ jobid' = jobid + 1 /\ worker' = [worker EXCEPT ![jobid'] = "new"] /\ ~running
      /\ window' = TRUE /\ gui' = "idle" /\ ~asking
      /\ UNCHANGED <<shared, ended, asking, seen, reported, dismissed>>
  BY DEF RunThreaded, Orderly, MainOK
<1>2. jobid' \in Jobs /\ jobid' \in Nat /\ jobid \in Nat /\ jobid' > jobid
  BY <1>1, JobAssumption DEF JobTypeOK, Orderly, MainOK, RunThreaded, Jobs
<1> QED BY <1>1, <1>2 DEF JobTypeOK

\* A thread's steps are the latest job's, which is past its creation.
LEMMA ThreadDoes ==
  ASSUME JobTypeOK, Orderly, NEW j \in Jobs, Begin(j) \/ Update(j) \/ End(j) \/ StopRunning(j)
  PROVE  /\ j = jobid /\ jobid # 0 /\ j \in Nat /\ UNCHANGED main
         /\ worker' \in [Jobs -> {"absent", "new", "working", "ending", "stopped", "gone"}]
         /\ ended' \in [Jobs -> {"none", "success", "failure", "cancelled"}]
         /\ \A k \in Jobs : k # j => worker'[k] = worker[k] /\ ended'[k] = ended[k]
         /\ Begin(j) => worker'[j] = "working" /\ ended'[j] = ended[j]
         /\ StopRunning(j) => worker'[j] = "stopped" /\ ended'[j] = ended[j]
         /\ End(j) => worker'[j] = "ending" /\ ended'[j] \in {"success", "failure"}
                    /\ (ended'[j] = "failure" => error' = j)
                    /\ (ended'[j] = "success" => error' = error)
         /\ Update(j) => \/ UNCHANGED threads
                         \/ cancelled /\ worker'[j] = "ending" /\ ended'[j] = "cancelled"
<1>1. j = jobid /\ jobid # 0 /\ j \in Nat /\ UNCHANGED main
  BY JobAssumption DEF Orderly, OnlyLatestRuns, Jobs, Begin, Update, End, StopRunning
<1>2. CASE Begin(j)
  BY <1>1, <1>2 DEF JobTypeOK, Begin, Update, End, StopRunning
<1>3. CASE StopRunning(j)
  BY <1>1, <1>3 DEF JobTypeOK, Begin, Update, End, StopRunning
<1>4. CASE Update(j)
  BY <1>1, <1>4 DEF JobTypeOK, Begin, Update, End, StopRunning, Ends, threads
<1>5. CASE End(j)
  BY <1>1, <1>5 DEF JobTypeOK, Begin, Update, End, StopRunning, Ends, threads
<1> QED BY <1>2, <1>3, <1>4, <1>5

\* The main thread's other steps.  None of them touches a thread, its flag or the latest job.
MainStep ==
  \/ CreateJob \/ PulseReads \/ PulseDecides \/ CloseCancels \/ PulseReports \/ Ask \/ Answer
  \/ UNCHANGED jobVars
ThreadStep(j) == Begin(j) \/ Update(j) \/ End(j) \/ StopRunning(j)

\* What the main thread does between jobs leaves the threads and the latest number alone.
LEMMA MainDoes ==
  ASSUME MainStep
  PROVE  UNCHANGED <<running, error, worker, ended, jobid>>
BY DEF MainStep, CreateJob, PulseReads, PulseDecides, CloseCancels, PulseReports, Ask, Answer,
       jobVars, shared, threads, main

\* Clearing last_progress is the last a thread does, of a job that may be an earlier one.
LEMMA ClearDoes ==
  ASSUME JobTypeOK, NEW j \in Jobs, ClearProgress(j)
  PROVE  /\ worker[j] = "stopped" /\ worker'[j] = "gone"
            /\ UNCHANGED <<running, cancelled, error, ended, main>>
         /\ worker' \in [Jobs -> {"absent", "new", "working", "ending", "stopped", "gone"}]
         /\ \A k \in Jobs : k # j => worker'[k] = worker[k]
BY DEF ClearProgress, JobTypeOK

\* Every step is the main thread's, the creation of a thread, or a step of a thread.
LEMMA JobKinds ==
  ASSUME [JobNext]_jobVars
  PROVE  MainStep \/ RunThreaded \/ \E j \in Jobs : ThreadStep(j) \/ ClearProgress(j)
BY DEF JobNext, Loop, Thread, MainStep, ThreadStep

\* The variables keep their types; what run_threaded numbers next is within the bound.
LEMMA JobTypeStep ==
  ASSUME JobTypeOK, Orderly, [JobNext]_jobVars
  PROVE  JobTypeOK'
<1>1. CASE MainStep
  BY <1>1, JobAssumption DEF MainStep, CreateJob, PulseReads, PulseDecides, CloseCancels,
         PulseReports, Ask, Answer, AtWindow, JobTypeOK, Orderly, MainOK, jobVars, shared,
         threads, main
<1>2. CASE RunThreaded
  BY <1>2, RunThreadedDoes DEF JobTypeOK, shared
<1>3. ASSUME NEW j \in Jobs, ThreadStep(j) PROVE JobTypeOK'
  <2>1. /\ worker' \in [Jobs -> {"absent", "new", "working", "ending", "stopped", "gone"}]
        /\ ended' \in [Jobs -> {"none", "success", "failure", "cancelled"}] /\ UNCHANGED main
    BY <1>3, ThreadDoes DEF ThreadStep
  <2>2. running' \in BOOLEAN /\ progress' \in {"none", "some"} /\ cancelled' = cancelled
        /\ error' \in {0} \cup Jobs
    BY <1>3 DEF ThreadStep, Begin, Update, End, StopRunning, JobTypeOK
  <2> QED BY <2>1, <2>2 DEF JobTypeOK, main
<1>4. ASSUME NEW j \in Jobs, ClearProgress(j) PROVE JobTypeOK'
  BY <1>4, ClearDoes DEF ClearProgress, JobTypeOK, main
<1> QED BY <1>1, <1>2, <1>3, <1>4, JobKinds

\* A thread is created when every earlier one has ended.
LEMMA OnlyLatestRunsStep ==
  ASSUME JobTypeOK, Orderly, [JobNext]_jobVars
  PROVE  OnlyLatestRuns'
<1>1. CASE MainStep
  BY <1>1, MainDoes DEF OnlyLatestRuns, Orderly
<1>2. CASE RunThreaded
  <2>1. jobid # 0 => worker[jobid] \notin {"new", "working", "ending"}
    BY <1>2, RunThreadedDoes DEF RunThreaded, Orderly, FlagIsTrue, NewIsShielded
  <2>2. \A j \in Jobs : j > jobid' => j > jobid /\ j # jobid'
    BY <1>2, RunThreadedDoes DEF Jobs
  <2>3. \A j \in Jobs : worker[j] \notin {"new", "working", "ending"}
    BY <2>1 DEF OnlyLatestRuns, Orderly, Jobs
  <2>4. \A j \in Jobs : j > jobid => worker[j] = "absent"
    BY DEF OnlyLatestRuns, Orderly
  <2>5. worker'[jobid'] = "new" /\ \A j \in Jobs : j # jobid' => worker'[j] = worker[j]
    BY <1>2, RunThreadedDoes
  <2> QED BY <2>2, <2>3, <2>4, <2>5 DEF OnlyLatestRuns
<1>3. ASSUME NEW j \in Jobs, ThreadStep(j) PROVE OnlyLatestRuns'
  BY <1>3, ThreadDoes DEF ThreadStep, OnlyLatestRuns, Orderly, Begin, Update, End, StopRunning,
         threads, main
<1>4. ASSUME NEW j \in Jobs, ClearProgress(j) PROVE OnlyLatestRuns'
  <2>1. \A k \in Jobs : worker'[k] = worker[k] \/ (worker[k] = "stopped" /\ worker'[k] = "gone")
    BY <1>4, ClearDoes
  <2>2. jobid' = jobid /\ (jobid # 0 => jobid \in Jobs)
    BY <1>4, ClearDoes DEF main, JobTypeOK
  <2> QED BY <2>1, <2>2 DEF OnlyLatestRuns, Orderly
<1> QED BY <1>1, <1>2, <1>3, <1>4, JobKinds

\* The flag is raised by the first step of a thread and lowered by its last but one.
LEMMA FlagIsTrueStep ==
  ASSUME JobTypeOK, Orderly, [JobNext]_jobVars
  PROVE  FlagIsTrue'
<1>1. CASE MainStep
  BY <1>1, MainDoes DEF FlagIsTrue, Orderly
<1>2. CASE RunThreaded
  BY <1>2, RunThreadedDoes DEF FlagIsTrue, shared
<1>3. ASSUME NEW j \in Jobs, ThreadStep(j) PROVE FlagIsTrue'
  BY <1>3, ThreadDoes DEF ThreadStep, FlagIsTrue, Orderly, Begin, Update, End, StopRunning,
         threads, main, JobTypeOK
<1>4. ASSUME NEW j \in Jobs, ClearProgress(j) PROVE FlagIsTrue'
  BY <1>4, ClearDoes DEF FlagIsTrue, Orderly, main, JobTypeOK
<1> QED BY <1>1, <1>2, <1>3, <1>4, JobKinds

\* Here the prompt start of a thread matters: without it a pulse could close its window.
LEMMA NewIsShieldedStep ==
  ASSUME PromptStart, JobTypeOK, Orderly, [JobNext]_jobVars
  PROVE  NewIsShielded'
<1>1. CASE MainStep
  BY <1>1, MainDoes DEF MainStep, CreateJob, PulseReads, PulseDecides, CloseCancels, PulseReports,
         Ask, Answer, AtWindow, NewIsShielded, Orderly, jobVars, main
<1>2. CASE RunThreaded
  BY <1>2, RunThreadedDoes DEF NewIsShielded
<1>3. ASSUME NEW j \in Jobs, ThreadStep(j) PROVE NewIsShielded'
  BY <1>3, ThreadDoes DEF ThreadStep, NewIsShielded, Orderly, Begin, Update, End, StopRunning,
         threads, main
<1>4. ASSUME NEW j \in Jobs, ClearProgress(j) PROVE NewIsShielded'
  BY <1>4, ClearDoes DEF NewIsShielded, Orderly, main, JobTypeOK
<1> QED BY <1>1, <1>2, <1>3, <1>4, JobKinds

\* The window is closed by a pulse that found the flag down, or by a cancellation: either way
\* the job whose end is about to be reported has ended or was cancelled.
LEMMA MainOKStep ==
  ASSUME PromptStart, JobTypeOK, Orderly, [JobNext]_jobVars
  PROVE  MainOK'
<1>1. CASE CreateJob
  BY <1>1 DEF CreateJob, MainOK, Orderly
<1>6. CASE CloseCancels
  <2>1. jobid # 0 /\ UNCHANGED <<jobid, worker, window>> /\ gui' \in {"report", "idle"}
    BY <1>6 DEF CloseCancels, MainOK, Orderly, threads
  <2>2. cancelled' \/ worker[jobid] \in {"stopped", "gone"}
    <3>1. CASE running
      BY <1>6, <3>1 DEF CloseCancels, JobTypeOK
    <3>2. CASE ~running
      BY <1>6, <2>1, <3>2 DEF CloseCancels, Orderly, FlagIsTrue, NewIsShielded, OnlyLatestRuns,
             JobTypeOK
    <3> QED BY <3>1, <3>2
  <2> QED BY <2>1, <2>2 DEF MainOK
<1>8. CASE PulseReads \/ Ask
  BY <1>8 DEF PulseReads, Ask, AtWindow, MainOK, Orderly, shared, threads
<1>9. CASE PulseDecides \/ PulseReports
  BY <1>9 DEF PulseDecides, PulseReports, MainOK, Orderly
<1>7. CASE UNCHANGED jobVars
  BY <1>7 DEF MainOK, Orderly, jobVars, shared, threads, main
<1>5. CASE Answer
  <2>1. jobid' = jobid /\ worker' = worker /\ cancelled' = cancelled /\ gui' # "created"
        /\ gui' # "report"
    BY <1>5 DEF Answer, shared, threads
  <2>2. window' \/ gui' # "idle" => window
    BY <1>5 DEF Answer, JobTypeOK
  <2> QED BY <2>1, <2>2 DEF MainOK, Orderly
<1>2. CASE RunThreaded
  BY <1>2, RunThreadedDoes DEF MainOK
<1>3. ASSUME NEW j \in Jobs, ThreadStep(j) PROVE MainOK'
  <2>1. /\ worker[j] \in {"new", "working", "ending"} /\ j = jobid /\ jobid # 0
        /\ cancelled' = cancelled /\ UNCHANGED main
    BY <1>3, ThreadDoes DEF ThreadStep, Begin, Update, End, StopRunning
  <2>2. gui # "created" /\ (gui = "report" => cancelled)
    BY <2>1 DEF MainOK, Orderly, FlagIsTrue, NewIsShielded
  <2> QED BY <2>1, <2>2 DEF MainOK, Orderly, main
<1>4. ASSUME NEW j \in Jobs, ClearProgress(j) PROVE MainOK'
  BY <1>4, ClearDoes DEF MainOK, Orderly, main, JobTypeOK
<1> QED BY <1>1, <1>2, <1>3, <1>4, <1>5, <1>6, <1>7, <1>8, <1>9, JobKinds DEF MainStep

\* A thread's end is recorded by the step that ends its target.
LEMMA EndIsKnownStep ==
  ASSUME JobTypeOK, Orderly, [JobNext]_jobVars
  PROVE  EndIsKnown'
<1>1. CASE MainStep
  BY <1>1, MainDoes DEF EndIsKnown, Orderly
<1>2. CASE RunThreaded
  BY <1>2, RunThreadedDoes DEF EndIsKnown, Orderly, OnlyLatestRuns
<1>3. ASSUME NEW j \in Jobs, ThreadStep(j) PROVE EndIsKnown'
  BY <1>3, ThreadDoes DEF ThreadStep, EndIsKnown, Orderly, Begin, Update, End, StopRunning,
         threads
<1>4. ASSUME NEW j \in Jobs, ClearProgress(j) PROVE EndIsKnown'
  BY <1>4, ClearDoes DEF EndIsKnown, Orderly
<1> QED BY <1>1, <1>2, <1>3, <1>4, JobKinds

\* last_error and job_cancelled are overwritten by the latest job only: its creation cancels
\* nothing of an earlier one that is still to be reported.
LEMMA SharedIsOfLatestStep ==
  ASSUME JobTypeOK, Orderly, [JobNext]_jobVars
  PROVE  SharedIsOfLatest'
<1>1. CASE MainStep
  <2>1. gui = "created" => gui' = "created"
    BY <1>1 DEF MainStep, CreateJob, PulseReads, PulseDecides, CloseCancels, PulseReports, Ask,
           Answer, AtWindow, jobVars, main
  <2>2. gui' # "created" /\ cancelled => cancelled'
    BY <1>1 DEF MainStep, CreateJob, PulseReads, PulseDecides, CloseCancels, PulseReports, Ask,
           Answer, jobVars, shared, JobTypeOK
  <2> QED BY <1>1, <2>1, <2>2, MainDoes DEF SharedIsOfLatest, Orderly
<1>2. CASE RunThreaded
  <2>1. ended[jobid'] = "none"
    BY <1>2, RunThreadedDoes DEF Orderly, EndIsKnown, OnlyLatestRuns
  <2> QED BY <1>2, <2>1, RunThreadedDoes DEF SharedIsOfLatest
<1>3. ASSUME NEW j \in Jobs, ThreadStep(j) PROVE SharedIsOfLatest'
  <2>1. j = jobid /\ UNCHANGED <<jobid, gui, cancelled>>
    BY <1>3, ThreadDoes DEF ThreadStep, Begin, Update, End, StopRunning, main
  <2>2. CASE Begin(j)
    BY <2>1, <2>2, ThreadDoes DEF Begin, SharedIsOfLatest, Orderly, EndIsKnown
  <2>3. CASE Update(j)
    BY <2>1, <2>3, ThreadDoes DEF Update, SharedIsOfLatest, Orderly, EndIsKnown, threads
  <2>4. CASE End(j)
    BY <2>1, <2>4, ThreadDoes DEF End, SharedIsOfLatest, Orderly, EndIsKnown
  <2>5. CASE StopRunning(j)
    BY <2>1, <2>5, ThreadDoes DEF StopRunning, SharedIsOfLatest, Orderly
  <2> QED BY <1>3, <2>2, <2>3, <2>4, <2>5 DEF ThreadStep
<1>4. ASSUME NEW j \in Jobs, ClearProgress(j) PROVE SharedIsOfLatest'
  BY <1>4, ClearDoes DEF SharedIsOfLatest, Orderly, main, Jobs, JobTypeOK
<1> QED BY <1>1, <1>2, <1>3, <1>4, JobKinds

\* What a pulse reports is the end of the job its window is of.
LEMMA ReportIsTrueStep ==
  ASSUME JobTypeOK, Orderly, ReportIsTrue, [JobNext]_jobVars
  PROVE  ReportIsTrue'
<1>1. CASE PulseReports
  BY <1>1 DEF PulseReports, ReportIsTrue, Orderly, MainOK, EndIsKnown, SharedIsOfLatest,
         NewIsShielded, JobTypeOK, shared, threads
<1>2. CASE MainStep /\ ~PulseReports
  BY <1>2, MainDoes DEF MainStep, CreateJob, PulseReads, PulseDecides, CloseCancels, Ask, Answer,
         ReportIsTrue, jobVars, main
<1>3. CASE RunThreaded
  BY <1>3, RunThreadedDoes DEF ReportIsTrue
<1>4. ASSUME NEW j \in Jobs, ThreadStep(j) PROVE ReportIsTrue'
  BY <1>4, ThreadDoes DEF ThreadStep, ReportIsTrue, Orderly, EndIsKnown, Begin, Update, End,
         StopRunning, threads, main
<1>5. ASSUME NEW j \in Jobs, ClearProgress(j) PROVE ReportIsTrue'
  BY <1>5, ClearDoes DEF ReportIsTrue, main
<1> QED BY <1>1, <1>2, <1>3, <1>4, <1>5, JobKinds

\* The flag that lets a second job in is raised by the thread and not by who starts it; still, as
\* long as a thread begins before its window's first pulse, no two jobs run, and what is
\* reported of a job is how that job ended.
THEOREM JobsStayOrderly ==
  ASSUME PromptStart
  PROVE  JobSpec => []JobsAreOrderly
<1>1. JobInit => JobTypeOK /\ Orderly /\ ReportIsTrue
  BY JobAssumption DEF JobInit, JobTypeOK, Orderly, OnlyLatestRuns, FlagIsTrue, NewIsShielded,
         MainOK, EndIsKnown, SharedIsOfLatest, ReportIsTrue, Jobs
<1>2. JobTypeOK /\ Orderly /\ ReportIsTrue /\ [JobNext]_jobVars => JobTypeOK' /\ Orderly'
      /\ ReportIsTrue'
  BY JobTypeStep, OnlyLatestRunsStep, FlagIsTrueStep, NewIsShieldedStep, MainOKStep,
     EndIsKnownStep, SharedIsOfLatestStep, ReportIsTrueStep DEF Orderly
<1>3. JobTypeOK /\ Orderly /\ ReportIsTrue => JobsAreOrderly
  <2> SUFFICES ASSUME JobTypeOK, Orderly PROVE OneAtATime
    BY DEF JobsAreOrderly
  <2>1. Underway \subseteq {jobid}
    BY DEF Underway, Orderly, OnlyLatestRuns
  <2>2. IsFiniteSet({jobid}) /\ Cardinality({jobid}) = 1
    BY FS_Singleton
  <2> QED BY <2>1, <2>2, FS_Subset DEF OneAtATime
<1> QED BY <1>1, <1>2, <1>3, PTL DEF JobSpec

-----------------------------------------------------------------------------
(* The deletion log.  What a process has in hand to rewrite the file with, and     *)
(* the file itself, miss no more acknowledged records than failures and races pay  *)
(* for; a line without its end is a failure that is yet to cost its record.        *)

\* The acknowledged records that a file with the records D has lost, but for aged ones.
Lost(D) == {r \in acked \ D : ~Aged(r)}
\* An unfinished line will cost the next one: that fault has not been paid for yet.
Unpaid == IF tail = Ended THEN 0 ELSE 1

\* No two processes record into one run, and what is recorded was numbered.
RunsAreApart ==
  /\ \A p \in Process : run[p] <= started
  /\ \A p, q \in Process : p # q /\ run[p] # 0 => run[p] # run[q]

NumbersAreUsed ==
  /\ \A r \in acked : \A p \in Process : r.run = run[p] => r.number <= written[p]
  /\ \A r \in acked \cup onDisk : r.run <= started
  /\ \A p \in Process : \A r \in loaded[p] : r.run <= started

\* A line that may still be lost with its unfinished end was never acknowledged.
TailIsUnacked == IsFiniteSet(acked) /\ tail \notin acked

\* The loss is within bounds on disk, and in what every rewrite would put there.
LossOnDisk == Cardinality(Lost(onDisk)) + Unpaid <= faults + races
LossIfRewritten ==
  \A p \in Process : stage[p] = "compact" => Cardinality(Lost(loaded[p])) <= faults + races

LogInv ==
  LogTypeOK /\ RunsAreApart /\ NumbersAreUsed /\ TailIsUnacked /\ LossOnDisk /\ LossIfRewritten

-----------------------------------------------------------------------------
\* The acknowledged records are finitely many, so any loss of them can be counted.
LEMMA LostIsFinite ==
  ASSUME TailIsUnacked, NEW D
  PROVE  IsFiniteSet(Lost(D)) /\ Cardinality(Lost(D)) \in Nat
<1>1. Lost(D) \in SUBSET acked
  BY DEF Lost
<1> QED BY <1>1, FS_Subset, FS_CardinalityType DEF TailIsUnacked

\* A subset of a finite set counts no more.
LEMMA SmallerLoss ==
  ASSUME NEW S, NEW T, IsFiniteSet(S), T \subseteq S
  PROVE  IsFiniteSet(T) /\ Cardinality(T) \in Nat /\ Cardinality(S) \in Nat
         /\ Cardinality(T) <= Cardinality(S)
BY FS_Subset, FS_CardinalityType

\* One more element counts at most one more.
LEMMA OneMoreLost ==
  ASSUME NEW S, NEW T, NEW x, IsFiniteSet(S), T \subseteq S \cup {x}
  PROVE  IsFiniteSet(T) /\ Cardinality(T) \in Nat /\ Cardinality(S) \in Nat
         /\ Cardinality(T) <= Cardinality(S) + 1
<1>1. IsFiniteSet(S \cup {x}) /\ Cardinality(S \cup {x}) <= Cardinality(S) + 1
      /\ Cardinality(S) \in Nat
  BY FS_AddElement, FS_CardinalityType
<1> QED BY <1>1, FS_Subset, FS_CardinalityType

\* What a load drops is aged: as many newer runs have a record.
LEMMA DroppedIsAged ==
  ASSUME LogTypeOK, NumbersAreUsed, NEW r \in onDisk \ NewestRuns(onDisk)
  PROVE  Aged(r)
<1> DEFINE newer == {n \in RunsOf(onDisk) : n > r.run}
<1>1. r.run \in Nat /\ started \in Nat /\ MAX_RUNS \in Nat /\ r.run <= started
  BY LogAssumption DEF LogTypeOK, Record, NumbersAreUsed
<1>2. newer \subseteq (r.run + 1)..started
  <2>1. \A s \in onDisk : s.run \in Nat /\ s.run <= started
    BY LogAssumption DEF LogTypeOK, Record, NumbersAreUsed
  <2> QED BY <1>1, <2>1 DEF RunsOf
<1>3. IsFiniteSet((r.run + 1)..started) /\ Cardinality((r.run + 1)..started) = started - r.run
  <2>1. r.run + 1 \in Int /\ started \in Int
    BY <1>1
  <2>2. /\ IsFiniteSet((r.run + 1)..started)
        /\ Cardinality((r.run + 1)..started)
             = IF r.run + 1 > started THEN 0 ELSE started - (r.run + 1) + 1
    BY <2>1, FS_Interval
  <2> QED BY <1>1, <2>2
<1>4. Cardinality(newer) <= started - r.run /\ Cardinality(newer) \in Nat
  BY <1>2, <1>3, SmallerLoss
<1>5. ~ (Cardinality(newer) < MAX_RUNS)
  BY DEF NewestRuns
<1> QED BY <1>1, <1>4, <1>5 DEF Aged

\* What a ready process appends belongs to the run it numbered.
LEMMA NextIsRecord ==
  ASSUME LogTypeOK, RunsAreApart, NEW p \in Process, Ready(p)
  PROVE  /\ NextRecord(p) \in Record /\ NextRecord(p).run = run[p]
            /\ NextRecord(p).number = written[p] + 1
         /\ run[p] <= started
BY LogAssumption DEF LogTypeOK, Ready, NextRecord, Record, RunsAreApart

\* The variables of the log keep their types.
LEMMA LogTypeStep ==
  ASSUME LogTypeOK, RunsAreApart, [LogNext]_logVars
  PROVE  LogTypeOK'
<1>1. ASSUME NEW p \in Process, Load(p) PROVE LogTypeOK'
  <2>1. NewestRuns(onDisk) \in SUBSET Record /\ 0 \in 0..RunBound
    BY LogAssumption DEF LogTypeOK, NewestRuns
  <2> QED BY <1>1, <2>1 DEF Load, LogTypeOK, fileVars
<1>2. ASSUME NEW p \in Process, Compact(p) PROVE LogTypeOK'
  BY <1>2 DEF Compact, LogTypeOK, fileVars
<1>3. ASSUME NEW p \in Process, StartRun(p) PROVE LogTypeOK'
  BY <1>3, LogAssumption DEF StartRun, LogTypeOK, fileVars
<1>4. ASSUME NEW p \in Process, AppendRecord(p) PROVE LogTypeOK'
  <2>1. Ready(p) /\ NextRecord(p) \in Record /\ written[p] + 1 \in 0..RecordBound
    BY <1>4, NextIsRecord, LogAssumption DEF AppendRecord, Ready, LogTypeOK
  <2>2. races' \in Nat
    <3>1. IsFiniteSet({q \in Process \ {p} : stage[q] = "compact"})
      BY LogAssumption, FS_Subset
    <3> QED BY <1>4, <3>1, FS_CardinalityType DEF AppendRecord, LogTypeOK
  <2> QED BY <1>4, <2>1, <2>2 DEF AppendRecord, Glue, LogTypeOK
<1>5. ASSUME NEW p \in Process, AppendFails(p) PROVE LogTypeOK'
  <2>1. Ready(p) /\ NextRecord(p) \in Record /\ written[p] + 1 \in 0..RecordBound
    BY <1>5, NextIsRecord, LogAssumption DEF AppendFails, Ready, LogTypeOK
  <2>2. faults' \in 0..FaultBound
    BY <1>5, LogAssumption DEF AppendFails, LogTypeOK
  <2> QED BY <1>5, <2>1, <2>2 DEF AppendFails, LogTypeOK
<1>6. ASSUME NEW p \in Process, Die(p) PROVE LogTypeOK'
  BY <1>6 DEF Die, LogTypeOK, fileVars
<1>7. CASE UNCHANGED logVars
  BY <1>7 DEF LogTypeOK, logVars, fileVars, procVars
<1> QED BY <1>1, <1>2, <1>3, <1>4, <1>5, <1>6, <1>7 DEF LogNext

\* A run's number is taken once, whatever the processes' order.
LEMMA RunsApartStep ==
  ASSUME LogTypeOK, RunsAreApart, [LogNext]_logVars
  PROVE  RunsAreApart'
<1>1. ASSUME NEW p \in Process, Load(p) PROVE RunsAreApart'
  BY <1>1, LogAssumption DEF Load, LogTypeOK, RunsAreApart
<1>2. ASSUME NEW p \in Process, StartRun(p) PROVE RunsAreApart'
  BY <1>2, LogAssumption DEF StartRun, LogTypeOK, RunsAreApart
<1>3. ASSUME NEW p \in Process, Compact(p) \/ AppendRecord(p) \/ AppendFails(p) \/ Die(p)
      PROVE RunsAreApart'
  BY <1>3 DEF Compact, AppendRecord, AppendFails, Die, RunsAreApart
<1>4. CASE UNCHANGED logVars
  BY <1>4 DEF RunsAreApart, logVars, fileVars, procVars
<1> QED BY <1>1, <1>2, <1>3, <1>4 DEF LogNext

\* A record's number in its run is given out before the record is written.
LEMMA NumbersStep ==
  ASSUME LogTypeOK, RunsAreApart, NumbersAreUsed, [LogNext]_logVars
  PROVE  NumbersAreUsed'
<1>1. ASSUME NEW p \in Process, Load(p) PROVE NumbersAreUsed'
  <2>1. \A r \in acked : r.run \in Nat \ {0}
    BY LogAssumption DEF LogTypeOK, Record
  <2> QED BY <1>1, <2>1 DEF Load, LogTypeOK, NumbersAreUsed, NewestRuns, fileVars
<1>2. ASSUME NEW p \in Process, Compact(p) PROVE NumbersAreUsed'
  BY <1>2 DEF Compact, NumbersAreUsed, fileVars
<1>3. ASSUME NEW p \in Process, StartRun(p) PROVE NumbersAreUsed'
  <2>1. \A r \in Record : r.run \in Nat
    BY LogAssumption DEF Record
  <2> QED BY <1>3, <2>1, LogAssumption DEF StartRun, LogTypeOK, NumbersAreUsed, fileVars
<1>4. ASSUME NEW p \in Process, AppendRecord(p) PROVE NumbersAreUsed'
  <2>1. /\ Ready(p) /\ NextRecord(p).run = run[p] /\ NextRecord(p).number = written[p] + 1
        /\ run[p] <= started /\ run[p] # 0
    BY <1>4, NextIsRecord DEF AppendRecord, Ready
  <2>2. written'[p] = written[p] + 1 /\ \A q \in Process : q # p => written'[q] = written[q]
    BY <1>4 DEF AppendRecord, LogTypeOK
  <2>3. acked' = acked \cup {NextRecord(p)} /\ onDisk' \subseteq onDisk \cup {NextRecord(p)}
        /\ UNCHANGED <<run, started, loaded>>
    BY <1>4 DEF AppendRecord, Glue
  <2>4. \A r \in acked : r.number \in Nat
    BY LogAssumption DEF LogTypeOK, Record
  <2>5. written[p] \in Nat
    BY LogAssumption DEF LogTypeOK
  <2> QED BY <2>1, <2>2, <2>3, <2>4, <2>5 DEF NumbersAreUsed, RunsAreApart
<1>5. ASSUME NEW p \in Process, AppendFails(p) PROVE NumbersAreUsed'
  <2>1. NextRecord(p).run = run[p] /\ run[p] <= started
    BY <1>5, NextIsRecord DEF AppendFails
  <2>2. written'[p] = written[p] + 1 /\ \A q \in Process : q # p => written'[q] = written[q]
    BY <1>5 DEF AppendFails, LogTypeOK
  <2>3. onDisk' \subseteq onDisk \cup {NextRecord(p)} /\ UNCHANGED <<acked, run, started, loaded>>
    BY <1>5 DEF AppendFails
  <2>4. written[p] \in Nat /\ \A r \in acked : r.number \in Nat
    BY LogAssumption DEF LogTypeOK, Record
  <2> QED BY <2>1, <2>2, <2>3, <2>4 DEF NumbersAreUsed
<1>6. ASSUME NEW p \in Process, Die(p) PROVE NumbersAreUsed'
  BY <1>6 DEF Die, NumbersAreUsed, fileVars
<1>7. CASE UNCHANGED logVars
  BY <1>7 DEF NumbersAreUsed, logVars, fileVars, procVars
<1> QED BY <1>1, <1>2, <1>3, <1>4, <1>5, <1>6, <1>7 DEF LogNext

\* The record an unfinished line ends with is one whose append failed.
LEMMA TailStep ==
  ASSUME LogTypeOK, RunsAreApart, NumbersAreUsed, TailIsUnacked, [LogNext]_logVars
  PROVE  TailIsUnacked'
<1>1. Ended \notin Record /\ Partial \notin Record
  BY TailAssumption
<1>2. ASSUME NEW p \in Process, AppendRecord(p) PROVE TailIsUnacked'
  <2>1. NextRecord(p) \in Record
    BY <1>2, NextIsRecord DEF AppendRecord
  <2>2. IsFiniteSet(acked')
    BY <1>2, FS_AddElement DEF AppendRecord, TailIsUnacked
  <2> QED BY <1>1, <1>2, <2>1, <2>2 DEF AppendRecord, TailIsUnacked, LogTypeOK
<1>3. ASSUME NEW p \in Process, AppendFails(p) PROVE TailIsUnacked'
  <2>1. NextRecord(p) \notin acked
    <3>1. NextRecord(p).run = run[p] /\ NextRecord(p).number = written[p] + 1
      BY <1>3, NextIsRecord DEF AppendFails
    <3>2. written[p] \in Nat
      BY LogAssumption DEF LogTypeOK
    <3> QED BY <3>1, <3>2 DEF NumbersAreUsed
  <2> QED BY <1>1, <1>3, <2>1 DEF AppendFails, TailIsUnacked, LogTypeOK
<1>4. ASSUME NEW p \in Process, Load(p) \/ Compact(p) \/ StartRun(p) \/ Die(p)
      PROVE  TailIsUnacked'
  BY <1>1, <1>4 DEF Load, Compact, StartRun, Die, TailIsUnacked, LogTypeOK, fileVars
<1>5. CASE UNCHANGED logVars
  BY <1>5 DEF TailIsUnacked, logVars, fileVars, procVars
<1> QED BY <1>2, <1>3, <1>4, <1>5 DEF LogNext

\* A load and a rewrite lose nothing but aged records; an append loses at most the record it
\* is glued to, which a failure has paid for, and what a rewrite in progress overlooks, which
\* the race pays for.
LEMMA LossStep ==
  ASSUME LogInv, [LogNext]_logVars
  PROVE  LossOnDisk' /\ LossIfRewritten'
<1> USE DEF LogInv
<1>1. faults \in Nat /\ races \in Nat /\ Unpaid \in {0, 1} /\ started \in Nat /\ MAX_RUNS \in Nat
  BY LogAssumption DEF LogTypeOK, Unpaid
<1>2. /\ IsFiniteSet(Lost(onDisk)) /\ Cardinality(Lost(onDisk)) \in Nat
      /\ \A p \in Process : IsFiniteSet(Lost(loaded[p])) /\ Cardinality(Lost(loaded[p])) \in Nat
  BY LostIsFinite
<1>3. ASSUME NEW p \in Process, Load(p) PROVE LossOnDisk' /\ LossIfRewritten'
  <2>1. Lost(NewestRuns(onDisk)) \subseteq Lost(onDisk)
    BY DroppedIsAged DEF Lost
  <2>2. UNCHANGED <<onDisk, tail, acked, started, faults, races>>
    BY <1>3 DEF Load, fileVars
  <2>3. \A D : Lost(D)' = Lost(D)
    BY <2>2 DEF Lost, Aged
  <2>4. /\ loaded'[p] = NewestRuns(onDisk)
        /\ \A q \in Process : q # p => loaded'[q] = loaded[q] /\ stage'[q] = stage[q]
    BY <1>3 DEF Load, LogTypeOK
  <2>5. Cardinality(Lost(NewestRuns(onDisk))) <= faults + races
    BY <1>1, <1>2, <2>1, SmallerLoss DEF LossOnDisk
  <2> QED BY <2>2, <2>3, <2>4, <2>5 DEF LossOnDisk, LossIfRewritten, Unpaid
<1>4. ASSUME NEW p \in Process, Compact(p) PROVE LossOnDisk' /\ LossIfRewritten'
  <2>1. UNCHANGED <<loaded, acked, started, faults, races>> /\ stage[p] = "compact"
        /\ \A q \in Process : stage'[q] = "compact" => stage[q] = "compact"
    BY <1>4 DEF Compact, LogTypeOK
  <2>2. \A D : Lost(D)' = Lost(D)
    BY <2>1 DEF Lost, Aged
  <2>3. (onDisk' = loaded[p] /\ tail' = Ended) \/ UNCHANGED <<onDisk, tail>>
    BY <1>4 DEF Compact, fileVars
  <2> QED BY <1>1, <1>2, <2>1, <2>2, <2>3 DEF LossOnDisk, LossIfRewritten, Unpaid
<1>5. ASSUME NEW p \in Process, StartRun(p) PROVE LossOnDisk' /\ LossIfRewritten'
  <2>1. UNCHANGED <<onDisk, tail, stage, loaded, acked, faults, races>> /\ started' = started + 1
    BY <1>5 DEF StartRun, fileVars
  <2>2. \A r \in acked : r.run \in Nat
    BY LogAssumption DEF LogTypeOK, Record
  <2>3. Lost(onDisk)' \subseteq Lost(onDisk)
        /\ \A q \in Process : Lost(loaded[q])' \subseteq Lost(loaded[q])
    BY <1>1, <2>1, <2>2 DEF Lost, Aged
  <2>4. Unpaid' = Unpaid
    BY <2>1 DEF Unpaid
  <2>5. Cardinality(Lost(onDisk)') \in Nat
        /\ Cardinality(Lost(onDisk)') <= Cardinality(Lost(onDisk))
    BY <1>2, <2>3, SmallerLoss
  <2>6. ASSUME NEW q \in Process
        PROVE  Cardinality(Lost(loaded[q])') \in Nat
               /\ Cardinality(Lost(loaded[q])') <= Cardinality(Lost(loaded[q]))
    BY <1>2, <2>3, SmallerLoss
  <2>7. LossOnDisk'
    BY <1>1, <1>2, <2>1, <2>4, <2>5 DEF LossOnDisk
  <2>8. LossIfRewritten'
    BY <1>1, <1>2, <2>1, <2>6 DEF LossIfRewritten
  <2> QED BY <2>7, <2>8
<1>6. ASSUME NEW p \in Process, AppendRecord(p) PROVE LossOnDisk' /\ LossIfRewritten'
  <2>1. /\ acked' = acked \cup {NextRecord(p)} /\ UNCHANGED <<stage, loaded, started, faults>>
           /\ stage[p] = "up"
        /\ tail' = Ended
    BY <1>6 DEF AppendRecord, Ready
  <2>2. \A D : Lost(D)' \subseteq Lost(D) \cup {NextRecord(p)}
    BY <2>1 DEF Lost, Aged
  <2>3. races' \in Nat /\ races' >= races
        /\ ((\E q \in Process : stage[q] = "compact") => races' >= races + 1)
    <3> DEFINE racing == {q \in Process \ {p} : stage[q] = "compact"}
    <3>1. IsFiniteSet(racing) /\ Cardinality(racing) \in Nat
      BY LogAssumption, FS_Subset, FS_CardinalityType
    <3>2. (\E q \in Process : stage[q] = "compact") => Cardinality(racing) # 0
      BY <2>1, <3>1, FS_EmptySet
    <3>3. races' = races + Cardinality(racing)
      BY <1>6 DEF AppendRecord
    <3> QED BY <1>1, <3>1, <3>2, <3>3
  <2>4. ASSUME tail = Ended PROVE LossOnDisk'
    <3>1. onDisk' = onDisk \cup {NextRecord(p)}
      BY <1>6, <2>4 DEF AppendRecord
    <3>2. Lost(onDisk)' \subseteq Lost(onDisk)
      BY <2>1, <3>1 DEF Lost, Aged
    <3>3. Cardinality(Lost(onDisk)') \in Nat
          /\ Cardinality(Lost(onDisk)') <= Cardinality(Lost(onDisk))
      BY <1>2, <3>2, SmallerLoss
    <3>4. races' \in Nat /\ races \in Nat /\ faults \in Nat /\ Unpaid = 0 /\ Unpaid' = 0
          /\ races' >= races
      BY <1>1, <2>1, <2>3, <2>4 DEF Unpaid, LogTypeOK
    <3>5. Cardinality(Lost(onDisk)) \in Nat
      BY <1>2, LostIsFinite
    <3> QED BY <2>1, <3>3, <3>4, <3>5 DEF LossOnDisk
  <2>5. ASSUME tail # Ended PROVE LossOnDisk'
    <3>1. onDisk' = onDisk \ {tail}
      BY <1>6, <2>5 DEF AppendRecord, Glue
    <3>2. Lost(onDisk)' \subseteq Lost(onDisk) \cup {NextRecord(p)}
      BY <2>1, <3>1 DEF Lost, Aged, TailIsUnacked
    <3>3. Cardinality(Lost(onDisk)') \in Nat
          /\ Cardinality(Lost(onDisk)') <= Cardinality(Lost(onDisk)) + 1
      BY <1>2, <3>2, OneMoreLost
    <3>4. races' \in Nat /\ races \in Nat /\ faults \in Nat /\ Unpaid = 1 /\ Unpaid' = 0
          /\ races' >= races
      BY <1>1, <2>1, <2>3, <2>5 DEF Unpaid, LogTypeOK
    <3>5. Cardinality(Lost(onDisk)) \in Nat
      BY <1>2, LostIsFinite
    <3> QED BY <2>1, <3>3, <3>4, <3>5 DEF LossOnDisk
  <2>6. ASSUME NEW q \in Process, stage[q] = "compact"
        PROVE  Cardinality(Lost(loaded[q])') <= (faults + races)'
    <3>1. Lost(loaded[q])' \subseteq Lost(loaded[q]) \cup {NextRecord(p)}
      BY <2>1 DEF Lost, Aged
    <3>2. Cardinality(Lost(loaded[q])') \in Nat
          /\ Cardinality(Lost(loaded[q])') <= Cardinality(Lost(loaded[q])) + 1
      BY <1>2, <3>1, OneMoreLost
    <3> QED BY <1>1, <1>2, <2>1, <2>3, <2>6, <3>2 DEF LossIfRewritten
  <2> QED BY <2>1, <2>4, <2>5, <2>6 DEF LossIfRewritten
<1>7. ASSUME NEW p \in Process, AppendFails(p) PROVE LossOnDisk' /\ LossIfRewritten'
  <2>1. /\ UNCHANGED <<loaded, started, acked, races>> /\ faults' = faults + 1
        /\ \A q \in Process : stage'[q] = "compact" => stage[q] = "compact"
    BY <1>7 DEF AppendFails, LogTypeOK
  <2>2. \A D : Lost(D)' = Lost(D)
    BY <2>1 DEF Lost, Aged
  <2>3. Lost(onDisk)' \subseteq Lost(onDisk)
    BY <1>7, <2>1 DEF AppendFails, Lost, Aged, TailIsUnacked
  <2>4. Cardinality(Lost(onDisk)') \in Nat
        /\ Cardinality(Lost(onDisk)') <= Cardinality(Lost(onDisk))
    BY <1>2, <2>3, SmallerLoss
  <2>5. tail' # Ended /\ (tail = Ended \/ tail # Ended)
    BY <1>7, NextIsRecord, TailAssumption, LogAssumption DEF AppendFails
  <2>6. LossOnDisk'
    BY <1>1, <1>2, <2>1, <2>4, <2>5 DEF LossOnDisk, Unpaid
  <2>7. LossIfRewritten'
    BY <1>1, <1>2, <2>1, <2>2 DEF LossIfRewritten
  <2> QED BY <2>6, <2>7
<1>8. ASSUME NEW p \in Process, Die(p) PROVE LossOnDisk' /\ LossIfRewritten'
  <2>1. /\ UNCHANGED <<onDisk, tail, loaded, started, acked, faults, races>>
        /\ \A q \in Process : stage'[q] = "compact" => stage[q] = "compact"
    BY <1>8 DEF Die, LogTypeOK, fileVars
  <2> QED BY <2>1 DEF LossOnDisk, LossIfRewritten, Unpaid, Lost, Aged
<1>9. CASE UNCHANGED logVars
  BY <1>9 DEF LossOnDisk, LossIfRewritten, Unpaid, Lost, Aged, logVars, fileVars, procVars
<1> QED BY <1>3, <1>4, <1>5, <1>6, <1>7, <1>8, <1>9 DEF LogNext

\* Whatever the processes do and wherever they die, the file misses no more unaged
\* acknowledged records than writes failed and appends raced with a rewrite (_append, _trim
\* and save).
THEOREM LossStaysBounded == LogSpec => []LossIsBounded
<1>1. LogInit => LogInv
  <2> SUFFICES ASSUME LogInit PROVE LogInv
    OBVIOUS
  <2>1. LogTypeOK
    <3>1. 0 \in 0..RunBound /\ 0 \in 0..RecordBound /\ 0 \in 0..FaultBound
      BY LogAssumption
    <3> QED BY <3>1 DEF LogInit, LogTypeOK
  <2>4. RunsAreApart
    BY DEF LogInit, RunsAreApart
  <2>5. NumbersAreUsed /\ TailIsUnacked
    BY FS_EmptySet DEF LogInit, NumbersAreUsed, TailIsUnacked
  <2>2. Lost(onDisk) = {} /\ Unpaid = 0 /\ \A p \in Process : stage[p] # "compact"
    BY DEF LogInit, Lost, Unpaid
  <2>3. Cardinality(Lost(onDisk)) = 0
    BY <2>2, FS_EmptySet
  <2>6. faults = 0 /\ races = 0
    BY DEF LogInit
  <2> QED BY <2>1, <2>2, <2>3, <2>4, <2>5, <2>6 DEF LogInv, LossOnDisk, LossIfRewritten
<1>2. LogInv /\ [LogNext]_logVars => LogInv'
  BY LogTypeStep, RunsApartStep, NumbersStep, TailStep, LossStep DEF LogInv
<1>3. LogInv => LossIsBounded
  <2> SUFFICES ASSUME LogInv PROVE Cardinality(Lost(onDisk)) <= faults + races
    BY DEF LogInv, LossIsBounded, Lost
  <2>1. Cardinality(Lost(onDisk)) \in Nat /\ Unpaid \in {0, 1} /\ faults \in Nat /\ races \in Nat
    BY LostIsFinite, LogAssumption DEF LogInv, Unpaid, LogTypeOK
  <2> QED BY <2>1 DEF LogInv, LossOnDisk
<1> QED BY <1>1, <1>2, <1>3, PTL DEF LogSpec

-----------------------------------------------------------------------------
(* What a scan tells its job.  Every update made inside a pool is followed  *)
(* by the retry of what that pool leaves, and no scan ends inside one.      *)

IsASequence(s) == \E S : s \in Seq(S)

\* The updates of a pool are followed by the retry of what it leaves.
Answered(s) ==
  /\ IsASequence(s)
  /\ \A i \in 1..Len(s) : s[i].pool # "none" => \E k \in i..Len(s) : s[k].do = "retry"

\* The last call a scan makes is none of a pool's.
EndsPlainly(s) == s # <<>> => s[Len(s)].pool = "none" /\ s[Len(s)].do # "retry"

\* A call by itself is a sequence.
LEMMA IsOne ==
  ASSUME NEW c
  PROVE  <<c>> \in Seq({c}) /\ Len(<<c>>) = 1 /\ <<c>>[1] = c
OBVIOUS

\* The loops of a phase are functions of the place of a call.
LEMMA FunctionIsSequence ==
  ASSUME NEW n \in Nat, NEW f, f = [i \in 1..n |-> f[i]]
  PROVE  IsASequence(f) /\ Len(f) = n
<1>1. f \in [1..n -> {f[i] : i \in 1..n}]
  OBVIOUS
<1>2. f \in Seq({f[i] : i \in 1..n}) /\ Len(f) = n
  BY <1>1
<1> QED BY <1>2 DEF IsASequence

\* Calls outside of a pool swallow no exception.
LEMMA PlainIsAnswered ==
  ASSUME NEW s, IsASequence(s), \A i \in 1..Len(s) : s[i].pool = "none"
  PROVE  Answered(s)
BY DEF Answered

\* The length and the calls of two parts of a scan, one after the other.
LEMMA JoinsSequences ==
  ASSUME NEW s, NEW t, IsASequence(s), IsASequence(t)
  PROVE  /\ IsASequence(s \o t) /\ Len(s) \in Nat /\ Len(t) \in Nat
         /\ Len(s \o t) = Len(s) + Len(t)
         /\ \A i \in 1..(Len(s) + Len(t)) :
              (s \o t)[i] = IF i <= Len(s) THEN s[i] ELSE t[i - Len(s)]
<1>1. PICK S : s \in Seq(S)
  BY DEF IsASequence
<1>2. PICK T : t \in Seq(T)
  BY DEF IsASequence
<1>3. s \in Seq(S \cup T) /\ t \in Seq(S \cup T)
  BY <1>1, <1>2, SeqMonotonic
<1>4. Len(s) \in Nat /\ Len(t) \in Nat
  BY <1>3, LenProperties
<1> QED BY <1>3, <1>4, ConcatProperties DEF IsASequence

\* A retry stays behind the updates it answers when phases are put together.
LEMMA JoinsAnswered ==
  ASSUME NEW s, NEW t, Answered(s), Answered(t)
  PROVE  Answered(s \o t)
<1>1. IsASequence(s) /\ IsASequence(t)
  BY DEF Answered
<1>2. ASSUME NEW i \in 1..Len(s \o t), (s \o t)[i].pool # "none"
      PROVE  \E k \in i..Len(s \o t) : (s \o t)[k].do = "retry"
  <2>1. CASE i <= Len(s)
    <3>1. PICK k \in i..Len(s) : s[k].do = "retry"
      BY <1>1, <1>2, <2>1, JoinsSequences DEF Answered
    <3>2. k \in i..Len(s \o t) /\ (s \o t)[k] = s[k]
      BY <1>1, <3>1, JoinsSequences
    <3> QED BY <3>1, <3>2
  <2>2. CASE ~(i <= Len(s))
    <3>1. i - Len(s) \in 1..Len(t) /\ t[i - Len(s)].pool # "none"
      BY <1>1, <1>2, <2>2, JoinsSequences
    <3>2. PICK k \in (i - Len(s))..Len(t) : t[k].do = "retry"
      BY <3>1 DEF Answered
    <3>3. k + Len(s) \in i..Len(s \o t) /\ (s \o t)[k + Len(s)] = t[k]
      BY <1>1, <2>2, <3>1, <3>2, JoinsSequences
    <3> QED BY <3>2, <3>3
  <2> QED BY <2>1, <2>2
<1> QED BY <1>1, <1>2, JoinsSequences DEF Answered

\* The number of updates of a loop.
LEMMA DivIsNat == \A a \in Nat, b \in Nat \ {0} : a \div b \in Nat
OBVIOUS


\* One call outside of a pool.
LEMMA OneAnswered ==
  ASSUME NEW c, c.pool = "none"
  PROVE  Answered(<<c>>)
<1>1. <<c>> \in Seq({c}) /\ Len(<<c>>) = 1 /\ <<c>>[1] = c
  BY IsOne
<1>2. \A i \in 1..Len(<<c>>) : <<c>>[i].pool = "none"
  BY <1>1
<1> QED BY <1>1, <1>2, PlainIsAnswered DEF IsASequence

\* A loop outside of a pool.
LEMMA FunctionAnswered ==
  ASSUME NEW n \in Nat, NEW f, f = [i \in 1..n |-> f[i]], \A i \in 1..n : f[i].pool = "none"
  PROVE  Answered(f)
BY FunctionIsSequence, PlainIsAnswered

\* The empty sequence has no calls.
LEMMA EmptyHasNone == Len(<<>>) = 0
<1>1. <<>> \in Seq({}) /\ Len(<<>>) = 0
  BY EmptySeq
<1> QED BY <1>1

\* A sequence with calls is not empty.
LEMMA NotEmpty == \A s : Len(s) # 0 => s # <<>>
BY EmptyHasNone, Zenon

\* A phase that has nothing to do.
LEMMA EmptyAnswered == Answered(<<>>)
<1>1. <<>> \in Seq({}) /\ Len(<<>>) = 0
  BY EmptySeq
<1> QED BY <1>1 DEF Answered, IsASequence

\* What a call says of its pool and of what it does.
LEMMA CallPool == \A d, do, n, shares, pool :
  Call(d, do, n, shares, pool).pool = pool /\ Call(d, do, n, shares, pool).do = do
BY DEF Call

\* start_job.
LEMMA StartAnswered == \A d, n : Answered(Start(d, n))
BY CallPool, OneAnswered DEF Start

\* start_subjob.
LEMMA SubjobAnswered == \A d, shares : Answered(Subjob(d, shares))
BY CallPool, OneAnswered DEF Subjob

\* The subjobs of two phases.
LEMMA TwoPhasesAnswered == \A d : Answered(TwoPhases(d))
BY SubjobAnswered DEF TwoPhases

\* set_progress.
LEMMA SetAnswered == \A d, n : Answered(Set(d, n))
BY CallPool, OneAnswered DEF Set

\* The updates of a loop, and the first of them alone.
LEMMA HalvesAnswered == \A d, n : Answered(Halves(d, n)) /\ Answered(<<Head(Halves(d, n))>>)
<1> SUFFICES ASSUME NEW d, NEW n PROVE Answered(Halves(d, n)) /\ Answered(<<Head(Halves(d, n))>>)
  OBVIOUS
<1> DEFINE m == IF n = 1 THEN 1 ELSE 2
           s == Halves(d, n)
<1>1. s = [i \in 1..m |-> s[i]] /\ \A i \in 1..m : s[i].pool = "none"
  BY CallPool DEF Halves
<1>2. m \in Nat /\ m >= 1
  OBVIOUS
<1> HIDE DEF s, m
<1>3. IsASequence(s) /\ Len(s) = m
  BY <1>1, <1>2, FunctionIsSequence
<1>4. Head(s) = s[1]
  BY <1>2, <1>3 DEF IsASequence
<1>5. Head(s).pool = "none"
  BY <1>1, <1>2, <1>4
<1>6. Answered(s) /\ Answered(<<Head(s)>>)
  BY <1>1, <1>2, <1>5, OneAnswered, FunctionAnswered
<1> QED BY <1>6 DEF s

\* iter_with_progress.
LEMMA IterAnswered == \A d, n : Answered(Iter(d, n))
BY StartAnswered, HalvesAnswered, SetAnswered, JoinsAnswered DEF Iter

\* The retry at the end answers every update before it.
LEMMA RetryAnswers ==
  ASSUME NEW s, IsASequence(s), NEW t, IsASequence(t), Len(t) = 1, t[1].do = "retry"
  PROVE  Answered(s \o t)
<1>0. IsASequence(s \o t) /\ Len(s) \in Nat /\ Len(s \o t) = Len(s) + 1
  BY JoinsSequences
<1>a. /\ Len(s) + 1 \in 1..(Len(s) + Len(t)) /\ ~(Len(s) + 1 <= Len(s))
      /\ Len(s) + 1 - Len(s) = 1
  BY <1>0
<1>1. (s \o t)[Len(s) + 1] = t[1]
  BY <1>a, JoinsSequences
<1>2. \A i \in 1..(Len(s) + 1) : Len(s) + 1 \in i..(Len(s) + 1)
  BY <1>0
<1> QED BY <1>0, <1>1, <1>2 DEF Answered

\* A pool's updates and its retry.
LEMMA Pooled ==
  ASSUME NEW n \in Nat, NEW f, f = [i \in 1..n |-> f[i]], NEW c, c.do = "retry"
  PROVE  Answered(f \o <<c>>)
<1>1. IsASequence(f)
  BY FunctionIsSequence
<1>2. IsASequence(<<c>>) /\ Len(<<c>>) = 1 /\ <<c>>[1].do = "retry"
  BY IsOne DEF IsASequence
<1> DEFINE t == <<c>>
<1>3. IsASequence(t) /\ Len(t) = 1 /\ t[1].do = "retry"
  BY <1>2
<1> HIDE DEF t
<1>4. Answered(f \o t)
  BY <1>1, <1>3, RetryAnswers
<1> QED BY <1>4 DEF t

\* _hash_files_parallel with its pool.
LEMMA HashAnswered ==
  ASSUME NEW d, NEW total \in Nat, NEW misses \in Nat
  PROVE  Answered(Hash(d, total, misses))
<1> DEFINE looked == (total + Refresh - 1) \div Refresh
           hashed == misses \div Refresh
           looks == [i \in 1..looked |-> Call(d, "set", (i - 1) * Refresh, <<>>, "none")]
           hashes == [i \in 1..hashed |->
              Call(d, "set", total \div 2 + (i * Refresh * (total \div 2)) \div misses, <<>>, "hash")]
           retry == Call(d, "retry", misses, <<total>>, "hash")
           pool == IF misses = 0 THEN <<>> ELSE hashes \o <<retry>>
<1>1. looked \in Nat /\ hashed \in Nat
  <2>1. Refresh \in Nat \ {0} /\ total + Refresh - 1 \in Nat
    BY ProgressAssumption
  <2> QED BY <2>1, DivIsNat
<1>2. Hash(d, total, misses) = Start(d, total) \o looks \o pool \o Set(d, total)
  BY DEF Hash
<1>3. looks = [i \in 1..looked |-> looks[i]] /\ \A i \in 1..looked : looks[i].pool = "none"
  BY CallPool
<1>4. hashes = [i \in 1..hashed |-> hashes[i]] /\ retry.do = "retry"
  BY CallPool
<1> HIDE DEF looked, hashed, looks, hashes, retry
<1>5. Answered(looks) /\ Answered(hashes \o <<retry>>)
  BY <1>1, <1>3, <1>4, FunctionAnswered, Pooled
<1>6. Answered(pool)
  BY <1>5, EmptyAnswered
<1> HIDE DEF pool
<1> QED BY <1>2, <1>5, <1>6, StartAnswered, SetAnswered, JoinsAnswered

\* _hash_files_parallel after its pool.
LEMMA RehashAnswered ==
  ASSUME NEW d, NEW total, NEW misses, NEW failed \in Nat, NEW done
  PROVE  Answered(Rehash(d, total, misses, failed, done))
<1> DEFINE f == Rehash(d, total, misses, failed, done)
           n == failed \div Refresh
<1>1. n \in Nat
  BY ProgressAssumption, DivIsNat
<1>2. f = [i \in 1..n |-> f[i]] /\ \A i \in 1..n : f[i].pool = "none"
  BY CallPool DEF Rehash
<1> HIDE DEF f, n
<1>3. Answered(f)
  BY <1>1, <1>2, FunctionAnswered
<1> QED BY <1>3 DEF f

\* prepare_pictures with a pool, without one, and with nothing to do.
LEMMA PrepareAnswered ==
  ASSUME NEW d, NEW n \in Nat, NEW pool \in BOOLEAN
  PROVE  Answered(Prepare(d, n, pool))
<1> DEFINE k == n \div Refresh
           sets == [i \in 1..k |-> Call(d, "set", i * Refresh, <<>>, "pictures")]
           retry == Call(d, "retry", n, <<n>>, "pictures")
<1>1. k \in Nat
  BY ProgressAssumption, DivIsNat
<1>2. sets = [i \in 1..k |-> sets[i]] /\ retry.do = "retry"
  BY CallPool
<1>3. n # 0 /\ pool => Prepare(d, n, pool) = Start(d, n) \o (sets \o <<retry>>)
  <2>1. IsASequence(Start(d, n)) /\ IsASequence(sets) /\ IsASequence(<<retry>>)
    BY <1>1, <1>2, FunctionIsSequence, StartAnswered, IsOne DEF Answered, IsASequence
  <2>2. n # 0 /\ pool => Prepare(d, n, pool) = Start(d, n) \o sets \o <<retry>>
    BY DEF Prepare
  <2> HIDE DEF sets, retry
  <2>3. PICK A, B, C : Start(d, n) \in Seq(A) /\ sets \in Seq(B) /\ <<retry>> \in Seq(C)
    BY <2>1 DEF IsASequence
  <2>4. Start(d, n) \in Seq(A \cup B \cup C) /\ sets \in Seq(A \cup B \cup C)
        /\ <<retry>> \in Seq(A \cup B \cup C)
    BY <2>3, SeqMonotonic
  <2> DEFINE a == Start(d, n)
             c == <<retry>>
  <2> HIDE DEF a, c
  <2>5. (a \o sets) \o c = a \o (sets \o c)
    <3>1. a \in Seq(A \cup B \cup C) /\ sets \in Seq(A \cup B \cup C) /\ c \in Seq(A \cup B \cup C)
      BY <2>4 DEF a, c
    <3> QED BY <3>1, ConcatAssociative
  <2> QED BY <2>2, <2>5 DEF a, c
<1>4. n = 0 => Prepare(d, n, pool) = <<>>
  BY DEF Prepare
<1>5. n # 0 /\ ~pool => Prepare(d, n, pool) = Iter(d, n)
  BY DEF Prepare
<1> HIDE DEF sets, retry, k
<1>6. Answered(sets \o <<retry>>)
  BY <1>1, <1>2, Pooled
<1> QED BY <1>3, <1>4, <1>5, <1>6, StartAnswered, IterAnswered, EmptyAnswered, JoinsAnswered

\* matchblock.getmatches.
LEMMA PictureMatchesAnswered ==
  ASSUME NEW d, NEW new \in Nat, NEW pool \in BOOLEAN, NEW found \in Nat
  PROVE  Answered(PictureMatches(d, new, pool, found))
<1>1. Answered(Prepare(d + 1, new, pool))
  BY PrepareAnswered
<1> QED BY <1>1, SubjobAnswered, TwoPhasesAnswered, StartAnswered, HalvesAnswered, EmptyAnswered,
          JoinsAnswered
        DEF PictureMatches

\* Scanner._getclasses.
LEMMA ContentMatchesAnswered ==
  ASSUME NEW d, NEW candidates \in Nat, NEW misses \in Nat, NEW buckets
  PROVE  Answered(ContentMatches(d, candidates, misses, buckets))
<1>1. Answered(Hash(d + 1, candidates, misses))
  BY HashAnswered
<1> QED BY <1>1, TwoPhasesAnswered, StartAnswered, HalvesAnswered, EmptyAnswered, JoinsAnswered
        DEF ContentMatches

\* engine.getmatches, cut short or not.
LEMMA WordMatchesAnswered ==
  ASSUME NEW d, NEW n, NEW words, NEW cut \in BOOLEAN
  PROVE  Answered(WordMatches(d, n, words, cut))
BY SubjobAnswered, TwoPhasesAnswered, StartAnswered, HalvesAnswered, IterAnswered, JoinsAnswered
   DEF WordMatches

\* Two updates.
LEMMA PairAnswered ==
  ASSUME NEW f, f = [i \in 1..2 |-> f[i]], \A i \in 1..2 : f[i].pool = "none"
  PROVE  Answered(f)
<1>1. 2 \in Nat
  OBVIOUS
<1> QED BY <1>1, FunctionAnswered

\* _verify_partial_matches.
LEMMA VerifyAnswered == \A n : Answered(Verify(n))
<1> SUFFICES ASSUME NEW n PROVE Answered(Verify(n))
  OBVIOUS
<1>1. Verify(n) = [i \in 1..2 |-> Verify(n)[i]] /\ \A i \in 1..2 : Verify(n)[i].pool = "none"
  BY CallPool DEF Verify
<1> QED BY <1>1, PairAnswered

\* The collection of the files.
LEMMA CollectingAnswered == Answered(Collecting)
<1>1. Collecting = [i \in 1..2 |-> Collecting[i]] /\ \A i \in 1..2 : Collecting[i].pool = "none"
  BY CallPool DEF Collecting
<1> QED BY <1>1, PairAnswered

\* The sizes of a phase are numbers.
LEMMA SomeAreNat == \A p \in Some : p[1] \in Nat /\ p[2] \in Nat
<1> SUFFICES ASSUME NEW p \in Some PROVE p[1] \in Nat /\ p[2] \in Nat
  OBVIOUS
<1>1. p[1] \in {0} \cup Counts /\ p[2] \in {0} \cup Counts
  BY DEF Some
<1>2. \A n \in {0} \cup Counts : n \in Nat
  BY ProgressAssumption
<1> QED BY <1>1, <1>2

\* A contents scan.
LEMMA ContentScansAnswered ==
  ASSUME NEW s \in ContentScans
  PROVE  Answered(s)
<1>1. PICK p \in Some, b \in Counts, v \in {<<>>} \cup {Verify(i) : i \in Counts} :
        s = ContentMatches(1, p[1], p[2], b) \o v
  BY DEF ContentScans
<1>2. Answered(v)
  BY EmptyAnswered, VerifyAnswered
<1>3. Answered(ContentMatches(1, p[1], p[2], b))
  BY SomeAreNat, ContentMatchesAnswered
<1> QED BY <1>1, <1>2, <1>3, JoinsAnswered

\* A contents scan that looks for pictures too.
LEMMA CombinedScansAnswered ==
  ASSUME NEW s \in CombinedScans
  PROVE  Answered(s)
<1>1. PICK p \in Some, b \in Counts, q \in PicturesToo, v \in {<<>>, Verify(1)} :
        s = TwoPhases(1) \o ContentMatches(2, p[1], p[2], b) \o q \o v
  BY DEF CombinedScans
<1>2. Answered(v)
  BY EmptyAnswered, VerifyAnswered
<1>3. Answered(ContentMatches(2, p[1], p[2], b))
  BY SomeAreNat, ContentMatchesAnswered
<1>4. Answered(q)
  <2>1. \A c \in Counts, pool \in BOOLEAN : Answered(PictureMatches(2, c, pool, c))
    BY ProgressAssumption, PictureMatchesAnswered
  <2> QED BY <2>1, EmptyAnswered DEF PicturesToo
<1> QED BY <1>1, <1>2, <1>3, <1>4, TwoPhasesAnswered, JoinsAnswered

\* A scan of names or tags.
LEMMA WordScansAnswered ==
  ASSUME NEW s \in WordScans
  PROVE  Answered(s)
<1>1. PICK t \in {<<>>, TwoPhases(1)}, n \in Counts, w \in Counts, cut \in BOOLEAN :
        s = t \o WordMatches(IF t = <<>> THEN 1 ELSE 2, n, w, cut)
  BY DEF WordScans
<1>2. Answered(t)
  BY EmptyAnswered, TwoPhasesAnswered
<1> QED BY <1>1, <1>2, WordMatchesAnswered, JoinsAnswered

\* A scan of the picture edition.
LEMMA PictureScansAnswered ==
  ASSUME NEW s \in PictureScans
  PROVE  Answered(s)
<1>1. \/ \E n \in {0} \cup Counts, pool \in BOOLEAN, f \in {0} \cup Counts :
           s = PictureMatches(1, n, pool, f)
      \/ s = Set(1, 100)
      \/ \E n \in Counts : s = Iter(1, n)
  BY DEF PictureScans
<1>2. \A n \in {0} \cup Counts, pool \in BOOLEAN, f \in {0} \cup Counts :
        Answered(PictureMatches(1, n, pool, f))
  <2>1. \A n \in {0} \cup Counts : n \in Nat
    BY ProgressAssumption
  <2> QED BY <2>1, PictureMatchesAnswered
<1> QED BY <1>1, <1>2, SetAnswered, IterAnswered

\* What is left to tell after the first calls, and after a pool that failed.
LEMMA TailAnswered ==
  ASSUME NEW s, Answered(s), EndsPlainly(s), s # <<>>
  PROVE  Answered(Tail(s)) /\ EndsPlainly(Tail(s))
<1>1. PICK S : s \in Seq(S)
  BY DEF Answered, IsASequence
<1>2. /\ Tail(s) \in Seq(S) /\ Len(s) \in Nat \ {0} /\ Len(Tail(s)) = Len(s) - 1
      /\ \A i \in 1..Len(Tail(s)) : Tail(s)[i] = s[i + 1]
  BY <1>1, HeadTailProperties, EmptySeq
<1>3. ASSUME NEW i \in 1..Len(Tail(s)), Tail(s)[i].pool # "none"
      PROVE  \E k \in i..Len(Tail(s)) : Tail(s)[k].do = "retry"
  <2>1. i + 1 \in 1..Len(s) /\ s[i + 1].pool # "none"
    BY <1>2, <1>3
  <2>2. PICK k \in (i + 1)..Len(s) : s[k].do = "retry"
    BY <2>1 DEF Answered
  <2>3. k - 1 \in i..Len(Tail(s)) /\ Tail(s)[k - 1] = s[k]
    BY <1>2, <2>2
  <2> QED BY <2>2, <2>3
<1>4. ASSUME Tail(s) # <<>> PROVE Tail(s)[Len(Tail(s))] = s[Len(s)]
  <2>1. Len(Tail(s)) \in Nat \ {0}
    BY <1>2, <1>4, EmptySeq
  <2> QED BY <1>2, <2>1
<1> QED BY <1>2, <1>3, <1>4 DEF Answered, EndsPlainly, IsASequence

\* The end of the last part is the end of the whole.
LEMMA JoinsEnd ==
  ASSUME NEW s, NEW t, IsASequence(s), IsASequence(t), EndsPlainly(t), t # <<>>
  PROVE  EndsPlainly(s \o t)
<1>1. Len(t) \in Nat \ {0}
  BY EmptySeq DEF IsASequence
<1>2. Len(s) + Len(t) \in 1..(Len(s) + Len(t)) /\ ~(Len(s) + Len(t) <= Len(s))
  BY <1>1, JoinsSequences
<1>3. (s \o t)[Len(s) + Len(t)] = t[Len(s) + Len(t) - Len(s)]
  BY <1>2, JoinsSequences
<1>4. Len(s) + Len(t) - Len(s) = Len(t) /\ Len(s \o t) = Len(s) + Len(t)
  BY <1>1, JoinsSequences
<1> QED BY <1>3, <1>4 DEF EndsPlainly

\* What is left after a pool fails begins at the first retry.
LEMMA WithoutPoolBegins ==
  ASSUME IsASequence(todo), \E k \in 1..Len(todo) : todo[k].do = "retry"
  PROVE  \E r \in 1..Len(todo) :
           /\ todo[r].do = "retry" /\ \A k \in 1..(r - 1) : todo[k].do # "retry"
           /\ IsASequence(WithoutPool) /\ Len(WithoutPool) = Len(todo) - r + 1
           /\ \A i \in 1..Len(WithoutPool) : WithoutPool[i] = todo[r + i - 1]
<1>1. PICK S : todo \in Seq(S)
  BY DEF IsASequence
<1>2. /\ Len(todo) \in Nat /\ DOMAIN todo = 1..Len(todo)
      /\ \A i \in 1..Len(todo) : todo[i] \in S
  BY <1>1, LenProperties, ElementOfSeq
<1> DEFINE Retries == {k \in 1..Len(todo) : todo[k].do = "retry"}
           Begins(i) == todo[i].do = "retry" /\ \A k \in 1..(i - 1) : todo[k].do # "retry"
<1>3. \E i \in DOMAIN todo : Begins(i)
  <2>1. Retries # {} /\ Retries \subseteq Nat
    BY <1>2
  <2>2. PICK i \in Retries : \A k \in Retries : i <= k
    <3>1. PICK i \in Retries : \A k \in Retries : <<k, i>> \notin OpToRel(<, Nat)
      BY <2>1, NatLessThanWellFounded, WFMin
    <3>2. ASSUME NEW k \in Retries PROVE i <= k
      <4>1. ~(k < i)
        BY <2>1, <3>1 DEF OpToRel
      <4> QED BY <2>1, <4>1
    <3> QED BY <3>2
  <2>3. \A k \in 1..(i - 1) : k \in 1..Len(todo) /\ ~(i <= k)
    BY <1>2
  <2> QED BY <1>2, <2>2, <2>3
<1> DEFINE r == CHOOSE i \in DOMAIN todo : Begins(i)
<1>4. r \in 1..Len(todo) /\ Begins(r)
  BY <1>2, <1>3
<1>5. WithoutPool = SubSeq(todo, r, Len(todo))
  BY DEF WithoutPool
<1> HIDE DEF r
<1>6. /\ WithoutPool \in Seq(S) /\ Len(WithoutPool) = Len(todo) - r + 1
      /\ \A i \in 1..Len(WithoutPool) : WithoutPool[i] = todo[r + i - 1]
  <2>1. r \in Int /\ Len(todo) \in Int /\ r <= Len(todo) /\ \A i \in r..Len(todo) : todo[i] \in S
    BY <1>2, <1>4
  <2> QED BY <1>5, <2>1, SubSeqProperties
<1> QED BY <1>4, <1>6 DEF IsASequence

\* What is left after a pool fails begins with the retry of that pool.
LEMMA WithoutPoolIs ==
  ASSUME Answered(todo), EndsPlainly(todo), todo # <<>>, Head(todo).pool # "none"
  PROVE  Answered(WithoutPool) /\ EndsPlainly(WithoutPool) /\ WithoutPool # <<>>
<1>1. PICK S : todo \in Seq(S)
  BY DEF Answered, IsASequence
<1>2. Len(todo) \in Nat \ {0} /\ Head(todo) = todo[1]
  BY <1>1, EmptySeq
<1>3. \E k \in 1..Len(todo) : todo[k].do = "retry"
  BY <1>2 DEF Answered
<1>4. IsASequence(todo)
  BY <1>1 DEF IsASequence
<1>5. PICK r \in 1..Len(todo) :
        /\ IsASequence(WithoutPool) /\ Len(WithoutPool) = Len(todo) - r + 1
        /\ \A i \in 1..Len(WithoutPool) : WithoutPool[i] = todo[r + i - 1]
  BY <1>3, <1>4, WithoutPoolBegins
<1>6. PICK T : WithoutPool \in Seq(T)
  BY <1>5 DEF IsASequence
<1>7. ASSUME NEW i \in 1..Len(WithoutPool), WithoutPool[i].pool # "none"
      PROVE  \E k \in i..Len(WithoutPool) : WithoutPool[k].do = "retry"
  <2>1. r + i - 1 \in 1..Len(todo) /\ todo[r + i - 1].pool # "none"
    BY <1>2, <1>5, <1>7
  <2>2. PICK k \in (r + i - 1)..Len(todo) : todo[k].do = "retry"
    BY <2>1 DEF Answered
  <2>3. k - r + 1 \in i..Len(WithoutPool) /\ WithoutPool[k - r + 1] = todo[k]
    <3>1. k - r + 1 \in i..Len(WithoutPool) /\ k - r + 1 \in 1..Len(WithoutPool)
      BY <1>2, <1>5, <2>2
    <3>2. r + (k - r + 1) - 1 = k
      BY <1>5, <2>1, <2>2
    <3> QED BY <1>5, <3>1, <3>2
  <2> QED BY <2>2, <2>3
<1>8. WithoutPool # <<>> /\ WithoutPool[Len(WithoutPool)] = todo[Len(todo)]
  <2>1. Len(WithoutPool) \in 1..Len(WithoutPool) /\ r + Len(WithoutPool) - 1 = Len(todo)
    BY <1>2, <1>5
  <2>2. WithoutPool # <<>>
    BY <1>6, <2>1, EmptySeq
  <2> QED BY <1>5, <2>1, <2>2
<1> QED BY <1>5, <1>7, <1>8 DEF Answered, EndsPlainly, IsASequence

-----------------------------------------------------------------------------
\* As long as a scan is not told to stop by an exception there is a call left that will raise it.
CancelInv ==
  /\ Answered(todo) /\ EndsPlainly(todo)
  /\ stopped /\ result = "none" => todo # <<>>
  /\ CancelIsFinal

\* Every scan of the code begins with its retries in place.
LEMMA CancelStarts == ProgressInit => CancelInv
<1> SUFFICES ASSUME ProgressInit PROVE CancelInv
  OBVIOUS
<1>1. PICK s \in ContentScans \cup CombinedScans \cup WordScans \cup PictureScans :
        todo = Collecting \o s \o Fiddling
  BY DEF ProgressInit
<1>2. Answered(s)
  BY ContentScansAnswered, CombinedScansAnswered, WordScansAnswered, PictureScansAnswered
<1>3. Answered(Fiddling) /\ Fiddling # <<>> /\ EndsPlainly(Fiddling)
  <2>1. Fiddling = <<Call(1, "set", 100, <<>>, "none")>>
    BY DEF Fiddling, Set
  <2>2. Answered(Fiddling)
    BY SetAnswered DEF Fiddling
  <2>3. /\ Fiddling \in Seq({Call(1, "set", 100, <<>>, "none")}) /\ Len(Fiddling) = 1
        /\ Fiddling[1] = Call(1, "set", 100, <<>>, "none")
    BY <2>1, IsOne
  <2>4. Fiddling # <<>>
    <3>1. Len(Fiddling) # 0
      BY <2>3
    <3> QED BY <3>1, NotEmpty, Zenon
  <2> QED BY <2>2, <2>3, <2>4, CallPool DEF EndsPlainly
<1>4. Answered(Collecting \o s)
  BY <1>2, CollectingAnswered, JoinsAnswered
<1>5. Answered(todo) /\ EndsPlainly(todo)
  BY <1>1, <1>3, <1>4, JoinsAnswered, JoinsEnd DEF Answered
<1> QED BY <1>5 DEF CancelInv, CancelIsFinal, ProgressInit

\* An update told that the user cancelled either ends the scan or leaves its retry.
LEMMA ReportKeeps ==
  ASSUME CancelInv, todo # <<>>, result = "none", UNCHANGED stopped, NEW after, NEW made,
         Report(after, made)
  PROVE  CancelInv'
<1>1. Answered(todo) /\ EndsPlainly(todo)
  BY DEF CancelInv
<1>2. CASE ~stopped
  <2>1. todo' = Tail(todo) /\ result' = "none" /\ ~stopped'
    BY <1>2 DEF Report
  <2> QED BY <1>1, <2>1, TailAnswered DEF CancelInv, CancelIsFinal, Answered, EndsPlainly, IsASequence
<1>3. CASE stopped /\ Head(todo).pool = "none"
  <2>1. todo' = <<>> /\ result' = "cancelled"
    BY <1>3 DEF Report
  <2> QED BY <2>1, EmptyAnswered DEF CancelInv, CancelIsFinal, Answered, EndsPlainly, IsASequence
<1>4. CASE stopped /\ Head(todo).pool # "none"
  <2>1. todo' = WithoutPool /\ result' = "none"
    BY <1>4 DEF Report
  <2> QED BY <1>1, <1>4, <2>1, WithoutPoolIs
          DEF CancelInv, CancelIsFinal, Answered, EndsPlainly, IsASequence
<1> QED BY <1>2, <1>3, <1>4

\* Every step of a scan keeps a call that will raise the cancellation.
LEMMA CancelStep == CancelInv /\ [ProgressNext]_progressVars => CancelInv'
<1> SUFFICES ASSUME CancelInv, [ProgressNext]_progressVars PROVE CancelInv'
  OBVIOUS
<1> DEFINE Kept(s) == Answered(s) /\ EndsPlainly(s)
<1>1. Kept(todo)
  BY DEF CancelInv
<1>2. ASSUME Kept(todo'), stopped' /\ result' = "none" => todo' # <<>>,
             stopped' => result' # "done"
      PROVE  CancelInv'
  BY <1>2 DEF CancelInv, CancelIsFinal, Answered, EndsPlainly, IsASequence
<1>3. CASE Progresses
  BY <1>3, ReportKeeps DEF Progresses, At
<1>4. CASE StartsPhase
  <2>1. CASE jobs[Head(todo).at].left = <<>>
    <3>1. todo' = <<>> /\ result' = "failed"
      BY <1>4, <2>1 DEF StartsPhase
    <3>2. Kept(<<>>)
      BY EmptyAnswered DEF EndsPlainly
    <3> QED BY <1>2, <3>1, <3>2
  <2>2. CASE jobs[Head(todo).at].left # <<>>
    BY <1>4, <2>2, ReportKeeps DEF StartsPhase, At
  <2> QED BY <2>1, <2>2
<1>5. CASE PoolBreaks
  <2>1. /\ todo' = WithoutPool /\ todo # <<>> /\ Head(todo).pool # "none"
        /\ UNCHANGED <<stopped, result>>
    BY <1>5 DEF PoolBreaks, At
  <2>2. Kept(WithoutPool) /\ WithoutPool # <<>>
    BY <1>1, <2>1, WithoutPoolIs
  <2> QED BY <1>2, <2>1, <2>2 DEF CancelInv, CancelIsFinal
<1>6. ASSUME NEW s, Answered(s), todo # <<>>, Head(todo).do = "retry", todo' = s \o Tail(todo),
             UNCHANGED <<stopped, result>>
      PROVE  CancelInv'
  <2>1. Kept(Tail(todo))
    BY <1>1, <1>6, TailAnswered
  <2>2. Tail(todo) # <<>>
    <3>1. PICK S : todo \in Seq(S)
      BY <1>1 DEF Answered, IsASequence
    <3>2. Len(todo) \in Nat \ {0} /\ Head(todo) = todo[1] /\ Len(Tail(todo)) = Len(todo) - 1
      BY <1>6, <3>1, EmptySeq, HeadTailProperties
    <3>3. Len(todo) # 1
      BY <1>1, <1>6, <3>2 DEF EndsPlainly
    <3>4. Len(Tail(todo)) # 0
      BY <3>2, <3>3
    <3> QED BY <3>4, NotEmpty
  <2>3. Answered(todo') /\ EndsPlainly(todo')
    BY <1>6, <2>1, <2>2, JoinsAnswered, JoinsEnd DEF Answered
  <2>4. todo' # <<>>
    <3>1. IsASequence(s) /\ IsASequence(Tail(todo))
      BY <1>6, <2>1 DEF Answered
    <3>2. PICK T : Tail(todo) \in Seq(T)
      BY <3>1 DEF IsASequence
    <3>3. Len(Tail(todo)) \in Nat \ {0}
      BY <2>2, <3>2, EmptySeq
    <3>4. Len(todo') = Len(s) + Len(Tail(todo)) /\ Len(s) \in Nat
      BY <1>6, <3>1, JoinsSequences
    <3>5. Len(todo') # 0
      <4>1. \A a \in Nat, b \in Nat \ {0} : a + b # 0
        OBVIOUS
      <4> QED BY <3>3, <3>4, <4>1
    <3> QED BY <3>5, NotEmpty
  <2> QED BY <1>2, <1>6, <2>3, <2>4 DEF CancelInv, CancelIsFinal
<1>7. CASE RetriesHashes
  <2>1. PICK failed \in 0..Head(todo).n :
          todo' = Rehash(Head(todo).at, Head(todo).shares[1], Head(todo).n, failed,
                         IF poolFailed THEN Head(todo).n - failed ELSE Head(todo).n) \o Tail(todo)
    BY <1>7 DEF RetriesHashes
  <2>2. failed \in Nat
    OBVIOUS
  <2>3. todo # <<>> /\ Head(todo).do = "retry" /\ UNCHANGED <<stopped, result>>
    BY <1>7 DEF RetriesHashes, At
  <2> QED BY <1>6, <2>1, <2>2, <2>3, RehashAnswered
<1>8. CASE RetriesPictures
  <2>1. PICK left : todo' = (IF left = 0 THEN <<>> ELSE Iter(Head(todo).at, left)) \o Tail(todo)
    BY <1>8 DEF RetriesPictures
  <2>2. todo # <<>> /\ Head(todo).do = "retry" /\ UNCHANGED <<stopped, result>>
    BY <1>8 DEF RetriesPictures, At
  <2> QED BY <1>6, <2>1, <2>2, EmptyAnswered, IterAnswered
<1>9. CASE Returns
  <2>1. ~stopped /\ UNCHANGED <<todo, stopped>>
    BY <1>9 DEF Returns, CancelInv
  <2> QED BY <1>1, <1>2, <2>1
<1>10. CASE Cancel
  BY <1>1, <1>2, <1>10 DEF Cancel
<1>11. CASE UNCHANGED progressVars
  <2>1. UNCHANGED <<todo, stopped, result>>
    BY <1>11 DEF progressVars
  <2> QED BY <1>1, <1>2, <2>1 DEF CancelInv, CancelIsFinal
<1> QED BY <1>3, <1>4, <1>5, <1>7, <1>8, <1>9, <1>10, <1>11 DEF ProgressNext

\* A scan whose job was cancelled while it still had something to tell never ends as a whole one,
\* although its pools swallow the exception.
THEOREM CancelsAreFinal == ProgressSpec => []CancelIsFinal
<1>1. CancelInv => CancelIsFinal
  BY DEF CancelInv
<1> QED BY <1>1, CancelStarts, CancelStep, PTL DEF ProgressSpec

-----------------------------------------------------------------------------
(* The bar.  The jobs of the stack agree with each other, and the calls that *)
(* are left begin at a level that is there.                                  *)

\* How many levels there are after a call, which puts away the subjobs below its own.
LevelsAfter(c) == IF c.do = "sub" THEN c.at + 1 ELSE c.at

\* The shares of a job, or those left of it: one or two.
AreShares(s) == s \in Seq(Nat \ {0}) /\ Len(s) <= 2
CallIsRight(c) ==
  /\ c.at \in Nat \ {0} /\ c.n \in Int
  /\ c.do = "sub" => c.n = 100 /\ AreShares(c.shares) /\ c.shares # <<>>
  /\ c.do = "retry" => c.n \in Nat /\ (c.pool = "hash" => c.shares[1] \in Nat)

\* The calls of s can be told to a stack of a levels, and leave at least b.  What a pool leaves is
\* for the level of the pool's updates.
Fits(s, a, b) ==
  /\ IsASequence(s)
  /\ \A i \in 1..Len(s) : CallIsRight(s[i])
  /\ \A i \in 1..(Len(s) - 1) : s[i + 1].at <= LevelsAfter(s[i])
  /\ \A i \in 1..Len(s) : s[i].pool # "none" =>
       \E k \in i..Len(s) : s[k].do = "retry" /\ \A j \in i..k : s[j].at = s[i].at
  /\ s = <<>> => b <= a
  /\ s # <<>> => s[1].at <= a /\ b <= LevelsAfter(s[Len(s)])

\* The length of a sequence says whether it is empty.
LEMMA EmptyIs ==
  ASSUME NEW s, IsASequence(s)
  PROVE  Len(s) \in Nat /\ (s = <<>> <=> Len(s) = 0)
BY EmptySeq, EmptyHasNone, NotEmpty DEF IsASequence

\* Phases one after the other.
LEMMA JoinsFit ==
  ASSUME NEW a \in Int, NEW b \in Int, NEW c \in Int, NEW s, NEW t, Fits(s, a, b), Fits(t, b, c)
  PROVE  Fits(s \o t, a, c)
<1> DEFINE st == s \o t
           L == Len(s)
           M == Len(t)
<1>1. IsASequence(s) /\ IsASequence(t)
  BY DEF Fits
<1>2. /\ IsASequence(st) /\ L \in Nat /\ M \in Nat /\ Len(st) = L + M
      /\ \A i \in 1..(L + M) : st[i] = IF i <= L THEN s[i] ELSE t[i - L]
  BY <1>1, JoinsSequences
<1>3. (s = <<>> <=> L = 0) /\ (t = <<>> <=> M = 0) /\ (st = <<>> <=> L + M = 0)
  BY <1>1, <1>2, EmptyIs
<1>4. (\A i \in 1..L : i \in 1..(L + M) /\ st[i] = s[i])
      /\ (\A i \in (L + 1)..(L + M) : i - L \in 1..M /\ i \in 1..(L + M) /\ st[i] = t[i - L])
  BY <1>2
<1>b. ASSUME NEW k \in 1..M, NEW i \in Int, i = k + L PROVE i \in 1..(L + M) /\ st[i] = t[k]
  <2>1. i \in (L + 1)..(L + M) /\ i - L = k
    BY <1>2, <1>b
  <2> QED BY <1>4, <2>1
<1>5. \A i \in 1..(L + M) : i \in 1..L \/ i \in (L + 1)..(L + M)
  BY <1>2
<1> HIDE DEF st, L, M
<1>6. /\ \A i \in 1..L : CallIsRight(s[i])
      /\ \A i \in 1..(L - 1) : s[i + 1].at <= LevelsAfter(s[i])
      /\ \A i \in 1..L : s[i].pool # "none" =>
           \E k \in i..L : s[k].do = "retry" /\ \A j \in i..k : s[j].at = s[i].at
      /\ (L = 0 => b <= a) /\ (L # 0 => s[1].at <= a /\ b <= LevelsAfter(s[L]))
  BY <1>3 DEF Fits, L
<1>7. /\ \A i \in 1..M : CallIsRight(t[i])
      /\ \A i \in 1..(M - 1) : t[i + 1].at <= LevelsAfter(t[i])
      /\ \A i \in 1..M : t[i].pool # "none" =>
           \E k \in i..M : t[k].do = "retry" /\ \A j \in i..k : t[j].at = t[i].at
      /\ (M = 0 => c <= b) /\ (M # 0 => t[1].at <= b /\ c <= LevelsAfter(t[M]))
  BY <1>3 DEF Fits, M
<1>8. \A i \in 1..(L + M) : CallIsRight(st[i])
  BY <1>4, <1>5, <1>6, <1>7
<1>a. (\A i \in 1..L : LevelsAfter(s[i]) \in Int /\ s[i].at \in Int)
      /\ (\A i \in 1..M : LevelsAfter(t[i]) \in Int /\ t[i].at \in Int)
  BY <1>6, <1>7 DEF LevelsAfter, CallIsRight
<1>9. ASSUME NEW i \in 1..(L + M - 1) PROVE st[i + 1].at <= LevelsAfter(st[i])
  <2>1. CASE i < L
    <3>1. i \in 1..(L - 1) /\ i \in 1..L /\ i + 1 \in 1..L
      BY <1>2, <2>1
    <3> QED BY <1>4, <1>6, <3>1
  <2>2. CASE i = L
    <3>1. i \in 1..L /\ i + 1 \in (L + 1)..(L + M) /\ i + 1 - L = 1 /\ L # 0 /\ M # 0 /\ 1 \in 1..M
      BY <1>2, <2>2
    <3>2. st[i + 1] = t[1] /\ st[i] = s[L]
      BY <1>4, <2>2, <3>1
    <3>3. t[1].at <= b /\ b <= LevelsAfter(s[L]) /\ t[1].at \in Int /\ LevelsAfter(s[L]) \in Int
      BY <1>6, <1>7, <1>a, <2>2, <3>1
    <3> QED BY <3>2, <3>3
  <2>3. CASE i > L
    <3>1. /\ i \in (L + 1)..(L + M) /\ i + 1 \in (L + 1)..(L + M) /\ i - L \in 1..(M - 1)
          /\ i + 1 - L = i - L + 1
      BY <1>2, <2>3
    <3>2. st[i] = t[i - L] /\ st[i + 1] = t[i - L + 1]
      <4>1. i - L \in 1..M /\ i - L + 1 \in 1..M /\ i = i - L + L /\ i + 1 = i - L + 1 + L
            /\ i \in Int /\ i + 1 \in Int
        BY <1>2, <3>1
      <4> QED BY <1>b, <4>1
    <3>3. t[i - L + 1].at <= LevelsAfter(t[i - L])
      BY <1>7, <3>1
    <3> QED BY <3>2, <3>3
  <2> QED BY <1>2, <2>1, <2>2, <2>3
<1>10. ASSUME NEW i \in 1..(L + M), st[i].pool # "none"
       PROVE  \E k \in i..(L + M) : st[k].do = "retry" /\ \A j \in i..k : st[j].at = st[i].at
  <2>1. CASE i \in 1..L
    <3>1. st[i] = s[i]
      BY <1>4, <2>1
    <3>2. PICK k \in i..L : s[k].do = "retry" /\ \A j \in i..k : s[j].at = s[i].at
      BY <1>6, <1>10, <2>1, <3>1
    <3>3. k \in i..(L + M) /\ k \in 1..L /\ \A j \in i..k : j \in 1..L
      BY <1>2, <2>1, <3>2
    <3> QED BY <1>4, <3>1, <3>2, <3>3
  <2>2. CASE i \in (L + 1)..(L + M)
    <3>1. st[i] = t[i - L] /\ i - L \in 1..M
      BY <1>4, <2>2
    <3>2. PICK k \in (i - L)..M : t[k].do = "retry" /\ \A j \in (i - L)..k : t[j].at = t[i - L].at
      BY <1>7, <1>10, <3>1
    <3>3. /\ k + L \in i..(L + M) /\ k + L \in (L + 1)..(L + M) /\ k + L - L = k
          /\ \A j \in i..(k + L) : j \in (L + 1)..(L + M) /\ j - L \in (i - L)..k
      BY <1>2, <3>1, <3>2
    <3>4. st[k + L] = t[k]
      <4>1. k \in 1..M /\ k + L \in Int
        BY <1>2, <3>1, <3>2
      <4> QED BY <1>b, <4>1
    <3>5. ASSUME NEW j \in i..(k + L) PROVE st[j].at = st[i].at
      <4>1. j \in (L + 1)..(L + M) /\ j - L \in (i - L)..k
        BY <3>3, <3>5
      <4>2. st[j] = t[j - L] /\ t[j - L].at = t[i - L].at
        BY <1>4, <3>2, <4>1
      <4> QED BY <3>1, <4>2
    <3> QED BY <3>2, <3>3, <3>4, <3>5
  <2> QED BY <1>5, <2>1, <2>2
<1>11. L + M = 0 => c <= a
  BY <1>2, <1>6, <1>7
<1>12. ASSUME L + M # 0 PROVE st[1].at <= a /\ c <= LevelsAfter(st[L + M])
  <2>1. st[1].at <= a
    <3>1. CASE L # 0
      <4>1. 1 \in 1..L
        BY <1>2, <3>1
      <4> QED BY <1>4, <1>6, <3>1, <4>1
    <3>2. CASE L = 0
      <4>1. 1 \in (L + 1)..(L + M) /\ 1 - L = 1 /\ M # 0 /\ 1 \in 1..M
        BY <1>2, <1>12, <3>2
      <4>2. st[1] = t[1] /\ t[1].at <= b /\ b <= a /\ t[1].at \in Int
        BY <1>4, <1>6, <1>7, <1>a, <3>2, <4>1
      <4> QED BY <4>2
    <3> QED BY <3>1, <3>2
  <2>2. c <= LevelsAfter(st[L + M])
    <3>1. CASE M # 0
      <4>1. M \in 1..M /\ L + M \in Int /\ L + M = M + L
        BY <1>2, <3>1
      <4>2. st[L + M] = t[M] /\ c <= LevelsAfter(t[M])
        BY <1>7, <1>b, <3>1, <4>1
      <4> QED BY <4>2
    <3>2. CASE M = 0
      <4>1. L + M = L /\ L \in 1..L /\ L # 0
        BY <1>2, <1>12, <3>2
      <4>2. st[L + M] = s[L] /\ c <= b /\ b <= LevelsAfter(s[L]) /\ LevelsAfter(s[L]) \in Int
        BY <1>4, <1>6, <1>7, <1>a, <3>2, <4>1
      <4> QED BY <4>2
    <3> QED BY <3>1, <3>2
  <2> QED BY <2>1, <2>2
<1>13. Fits(st, a, c)
  BY <1>2, <1>3, <1>8, <1>9, <1>10, <1>11, <1>12 DEF Fits
<1> QED BY <1>13 DEF st

\* Nothing to tell.
LEMMA EmptyFits ==
  ASSUME NEW a \in Int, NEW b \in Int, b <= a
  PROVE  Fits(<<>>, a, b)
<1>1. IsASequence(<<>>) /\ Len(<<>>) = 0
  BY EmptyAnswered, EmptyHasNone DEF Answered
<1> QED BY <1>1 DEF Fits

\* A stack with more levels will do, and fewer may be asked of it afterwards.
LEMMA FitsMore ==
  ASSUME NEW a \in Int, NEW b \in Int, NEW more \in Int, NEW less \in Int, a <= more, less <= b,
         NEW s, Fits(s, a, b)
  PROVE  Fits(s, more, less)
<1>1. s = <<>> => less <= more
  BY DEF Fits
<1>2. ASSUME s # <<>> PROVE s[1].at <= more /\ less <= LevelsAfter(s[Len(s)])
  <2>1. IsASequence(s)
    BY DEF Fits
  <2>2. 1 \in 1..Len(s) /\ Len(s) \in 1..Len(s)
    BY <1>2, <2>1, EmptyIs
  <2>3. s[1].at \in Int /\ LevelsAfter(s[Len(s)]) \in Int
    BY <2>2 DEF Fits, CallIsRight, LevelsAfter
  <2> QED BY <1>2, <2>3 DEF Fits
<1> QED BY <1>1, <1>2 DEF Fits

\* One call outside of a pool.
LEMMA OneFits ==
  ASSUME NEW c, CallIsRight(c), c.pool = "none"
  PROVE  Fits(<<c>>, c.at, LevelsAfter(c))
<1> DEFINE s == <<c>>
<1>1. IsASequence(s) /\ Len(s) = 1 /\ s[1] = c
  BY IsOne DEF IsASequence
<1> HIDE DEF s
<1>2. s # <<>>
  BY <1>1, EmptyIs
<1>3. c.at \in Int /\ LevelsAfter(c) \in Int
  BY DEF CallIsRight, LevelsAfter
<1>4. Fits(s, c.at, LevelsAfter(c))
  BY <1>1, <1>2, <1>3 DEF Fits
<1> QED BY <1>4 DEF s

\* A loop of updates outside of a pool.
LEMMA LoopFits ==
  ASSUME NEW d \in Nat \ {0}, NEW n \in Nat, NEW f, f = [i \in 1..n |-> f[i]],
         \A i \in 1..n : f[i].at = d /\ f[i].n \in Int /\ f[i].do \in {"set", "add"} /\ f[i].pool = "none"
  PROVE  Fits(f, d, d)
<1>1. IsASequence(f) /\ Len(f) = n
  BY FunctionIsSequence
<1>2. f = <<>> <=> n = 0
  BY <1>1, EmptyIs
<1>3. \A i \in 1..n : CallIsRight(f[i]) /\ LevelsAfter(f[i]) = d /\ f[i].pool = "none" /\ f[i].at = d
  BY DEF CallIsRight, LevelsAfter
<1>4. \A i \in 1..(n - 1) : i \in 1..n /\ i + 1 \in 1..n
  OBVIOUS
<1>5. n # 0 => 1 \in 1..n /\ n \in 1..n
  OBVIOUS
<1> QED BY <1>1, <1>2, <1>3, <1>4, <1>5 DEF Fits

\* A pool's updates and its retry.
LEMMA PoolFits ==
  ASSUME NEW d \in Nat \ {0}, NEW n \in Nat, NEW f, f = [i \in 1..n |-> f[i]],
         \A i \in 1..n : f[i].at = d /\ f[i].n \in Int /\ f[i].do \in {"set", "add"},
         NEW c, c.do = "retry", c.at = d, CallIsRight(c)
  PROVE  Fits(f \o <<c>>, d, d)
<1>t. PICK t : t = <<c>>
  OBVIOUS
<1> DEFINE s == f \o t
<1>1. IsASequence(f) /\ Len(f) = n /\ IsASequence(t) /\ Len(t) = 1 /\ t[1] = c
  BY <1>t, FunctionIsSequence, IsOne DEF IsASequence
<1>2. /\ IsASequence(s) /\ Len(s) = n + 1
      /\ \A i \in 1..(n + 1) : s[i] = IF i <= n THEN f[i] ELSE t[i - n]
  <2>0. IsASequence(f) /\ IsASequence(t)
    BY <1>1
  <2>1. /\ IsASequence(s) /\ Len(s) = Len(f) + Len(t)
        /\ \A i \in 1..(Len(f) + Len(t)) : s[i] = IF i <= Len(f) THEN f[i] ELSE t[i - Len(f)]
    BY <2>0, JoinsSequences, Zenon
  <2> HIDE DEF s
  <2>2. Len(f) = n /\ Len(t) = 1
    BY <1>1
  <2> QED BY <2>1, <2>2
<1>3. (\A i \in 1..n : s[i] = f[i] /\ i \in 1..(n + 1)) /\ s[n + 1] = c /\ n + 1 \in 1..(n + 1)
  <2>1. (\A i \in 1..n : i <= n /\ i \in 1..(n + 1)) /\ n + 1 \in 1..(n + 1) /\ ~(n + 1 <= n) /\ n + 1 - n = 1
    OBVIOUS
  <2> QED BY <1>1, <1>2, <2>1
<1> HIDE DEF s
<1>4. \A i \in 1..(n + 1) : i \in 1..n \/ i = n + 1
  OBVIOUS
<1>5. \A i \in 1..(n + 1) : s[i].at = d /\ s[i].do # "sub"
  BY <1>3, <1>4
<1>6. \A i \in 1..(n + 1) : CallIsRight(s[i]) /\ LevelsAfter(s[i]) = d
  <2>1. \A i \in 1..n : CallIsRight(f[i])
    BY DEF CallIsRight
  <2> QED BY <1>3, <1>4, <1>5, <2>1 DEF LevelsAfter
<1>7. s # <<>>
  BY <1>2, EmptyIs
<1>8. \A i \in 1..(n + 1) : n + 1 \in i..(n + 1) /\ \A j \in i..(n + 1) : j \in 1..(n + 1)
  OBVIOUS
<1>9. \A i \in 1..(n + 1 - 1) : i \in 1..(n + 1) /\ i + 1 \in 1..(n + 1)
  OBVIOUS
<1>10. 1 \in 1..(n + 1)
  OBVIOUS
<1>11. ASSUME NEW i \in 1..Len(s)
       PROVE \E k \in i..Len(s) : s[k].do = "retry" /\ \A j \in i..k : s[j].at = s[i].at
  BY <1>2, <1>3, <1>5, <1>8, <1>11
<1>12. Fits(s, d, d)
  BY <1>2, <1>5, <1>6, <1>7, <1>9, <1>10, <1>11 DEF Fits
<1> QED BY <1>12, <1>t DEF s

\* What a call says.
LEMMA CallSays == \A d, do, n, shares, pool :
  /\ Call(d, do, n, shares, pool).at = d /\ Call(d, do, n, shares, pool).do = do
  /\ Call(d, do, n, shares, pool).n = n /\ Call(d, do, n, shares, pool).shares = shares
  /\ Call(d, do, n, shares, pool).pool = pool
BY DEF Call

\* The calls by themselves.
LEMMA SingleCallsFit ==
  ASSUME NEW d \in Nat \ {0}, NEW n \in Int
  PROVE  /\ Fits(Start(d, n), d, d) /\ Fits(Set(d, n), d, d)
         /\ \A shares : AreShares(shares) /\ shares # <<>> => Fits(Subjob(d, shares), d, d + 1)
<1>1. ASSUME NEW do \in {"job", "set"} PROVE Fits(<<Call(d, do, n, <<>>, "none")>>, d, d)
  <2> DEFINE c == Call(d, do, n, <<>>, "none")
  <2>1. c.at = d /\ c.do = do /\ c.n = n /\ c.pool = "none"
    BY CallSays
  <2> HIDE DEF c
  <2>2. CallIsRight(c) /\ LevelsAfter(c) = d
    BY <2>1 DEF CallIsRight, LevelsAfter
  <2>3. Fits(<<c>>, d, d)
    BY <2>1, <2>2, OneFits
  <2> QED BY <2>3 DEF c
<1>2. ASSUME NEW shares, AreShares(shares), shares # <<>> PROVE Fits(Subjob(d, shares), d, d + 1)
  <2> DEFINE c == Call(d, "sub", 100, shares, "none")
  <2>1. c.at = d /\ c.do = "sub" /\ c.n = 100 /\ c.shares = shares /\ c.pool = "none"
    BY CallSays
  <2> HIDE DEF c
  <2>2. CallIsRight(c) /\ LevelsAfter(c) = d + 1
    BY <1>2, <2>1 DEF CallIsRight, LevelsAfter
  <2>3. Fits(<<c>>, d, d + 1)
    BY <2>1, <2>2, OneFits
  <2> QED BY <2>3 DEF c, Subjob
<1> QED BY <1>1, <1>2 DEF Start, Set

\* The shares that a scan gives its subjobs.
LEMMA SharesAre ==
  \A s \in {<<1>>, <<2, 8>>, <<3, 7>>, <<1, 1>>} : AreShares(s) /\ s # <<>>
<1>1. \A x \in Nat \ {0} : <<x>> \in Seq(Nat \ {0}) /\ Len(<<x>>) = 1
  OBVIOUS
<1>2. \A x, y \in Nat \ {0} : <<x, y>> \in Seq(Nat \ {0}) /\ Len(<<x, y>>) = 2
  OBVIOUS
<1>3. {1, 2, 3, 7, 8} \subseteq Nat \ {0}
  OBVIOUS
<1>4. AreShares(<<1>>) /\ AreShares(<<2, 8>>) /\ AreShares(<<3, 7>>) /\ AreShares(<<1, 1>>)
  BY <1>1, <1>2, <1>3 DEF AreShares
<1>5. \A s \in {<<1>>, <<2, 8>>, <<3, 7>>, <<1, 1>>} : Len(s) # 0
  BY <1>1, <1>2, <1>3
<1> QED BY <1>4, <1>5, NotEmpty

\* The subjobs of two phases.
LEMMA TwoPhasesFit == \A d \in Nat \ {0} : Fits(TwoPhases(d), d, d + 1)
BY SingleCallsFit, SharesAre DEF TwoPhases

\* The updates of a loop, and the first of them alone.
LEMMA HalvesFit ==
  ASSUME NEW d \in Nat \ {0}, NEW n \in Nat
  PROVE  Fits(Halves(d, n), d, d) /\ Fits(<<Head(Halves(d, n))>>, d, d)
<1> DEFINE m == IF n = 1 THEN 1 ELSE 2
           s == Halves(d, n)
           units(i) == IF n = 1 THEN 1 ELSE IF i = 1 THEN n \div 2 ELSE n - n \div 2
<1>1. \A i : units(i) \in Int
  BY DivIsNat
<1>2. s = [i \in 1..m |-> s[i]] /\ \A i \in 1..m : s[i] = Call(d, "add", units(i), <<>>, "none")
  BY DEF Halves
<1>3. m \in Nat /\ m >= 1
  OBVIOUS
<1> HIDE DEF s, m, units
<1>4. \A i \in 1..m : s[i].at = d /\ s[i].n \in Int /\ s[i].do = "add" /\ s[i].pool = "none"
  BY <1>1, <1>2, CallSays
<1>5. \A i \in 1..m : s[i].do \in {"set", "add"}
  BY <1>4
<1>6. Fits(s, d, d)
  BY <1>2, <1>3, <1>4, <1>5, LoopFits
<1>7. IsASequence(s) /\ Len(s) = m
  BY <1>2, <1>3, FunctionIsSequence
<1>8. Head(s) = s[1] /\ 1 \in 1..m
  BY <1>3, <1>7 DEF IsASequence
<1>9. CallIsRight(Head(s)) /\ Head(s).pool = "none" /\ Head(s).at = d /\ LevelsAfter(Head(s)) = d
  BY <1>4, <1>8 DEF CallIsRight, LevelsAfter
<1>10. Fits(<<Head(s)>>, d, d)
  BY <1>9, OneFits
<1> QED BY <1>6, <1>10 DEF s

\* iter_with_progress.
LEMMA IterFits == \A d \in Nat \ {0}, n \in Nat : Fits(Iter(d, n), d, d)
<1> SUFFICES ASSUME NEW d \in Nat \ {0}, NEW n \in Nat PROVE Fits(Iter(d, n), d, d)
  OBVIOUS
<1>1. n \in Int /\ 100 \in Int
  OBVIOUS
<1>2. Fits(Start(d, n), d, d) /\ Fits(Halves(d, n), d, d) /\ Fits(Set(d, 100), d, d)
  BY <1>1, SingleCallsFit, HalvesFit
<1>3. Fits(Start(d, n) \o Halves(d, n), d, d)
  BY <1>2, JoinsFit
<1> QED BY <1>2, <1>3, JoinsFit DEF Iter

\* The products that a percentage is computed from.
LEMMA TimesIsNat == \A a, b \in Nat : a * b \in Nat
OBVIOUS

\* _hash_files_parallel with its pool.
LEMMA HashFits ==
  ASSUME NEW d \in Nat \ {0}, NEW total \in Nat, NEW misses \in Nat
  PROVE  Fits(Hash(d, total, misses), d, d)
<1> DEFINE looked == (total + Refresh - 1) \div Refresh
           hashed == misses \div Refresh
           so(i) == (i - 1) * Refresh
           half == total \div 2
           then(i) == half + (i * Refresh * half) \div misses
           looks == [i \in 1..looked |-> Call(d, "set", so(i), <<>>, "none")]
           hashes == [i \in 1..hashed |-> Call(d, "set", then(i), <<>>, "hash")]
           retry == Call(d, "retry", misses, <<total>>, "hash")
           pool == IF misses = 0 THEN <<>> ELSE hashes \o <<retry>>
<1>1. looked \in Nat /\ hashed \in Nat
  <2>1. Refresh \in Nat \ {0} /\ total + Refresh - 1 \in Nat
    BY ProgressAssumption
  <2> QED BY <2>1, DivIsNat
<1>2. Hash(d, total, misses) = Start(d, total) \o looks \o pool \o Set(d, total)
  BY DEF Hash
<1>3. \A i \in 1..looked : so(i) \in Int
  BY <1>1, ProgressAssumption
<1>4. misses # 0 => \A i \in 1..hashed : then(i) \in Int
  <2> SUFFICES ASSUME misses # 0, NEW i \in 1..hashed PROVE then(i) \in Int
    OBVIOUS
  <2>1. half \in Nat /\ i \in Nat /\ Refresh \in Nat
    BY <1>1, DivIsNat, ProgressAssumption
  <2> HIDE DEF half
  <2>2. i * Refresh * half \in Nat
    BY <2>1, TimesIsNat
  <2>3. (i * Refresh * half) \div misses \in Nat
    BY <2>2, DivIsNat
  <2> QED BY <2>1, <2>3
<1> HIDE DEF so, then, looked, hashed
<1>5. looks = [i \in 1..looked |-> looks[i]] /\ \A i \in 1..looked :
        looks[i].at = d /\ looks[i].n \in Int /\ looks[i].do \in {"set", "add"} /\ looks[i].pool = "none"
  BY <1>3, CallSays
<1>6. hashes = [i \in 1..hashed |-> hashes[i]] /\ \A i \in 1..hashed :
        hashes[i].at = d /\ (misses # 0 => hashes[i].n \in Int) /\ hashes[i].do \in {"set", "add"}
  BY <1>4, CallSays
<1>7. retry.do = "retry" /\ retry.at = d /\ CallIsRight(retry)
  <2>1. /\ retry.at = d /\ retry.do = "retry" /\ retry.n = misses /\ retry.shares = <<total>>
        /\ <<total>>[1] = total
    BY CallSays
  <2> QED BY <2>1 DEF CallIsRight
<1> HIDE DEF looks, hashes, retry
<1>8. Fits(looks, d, d)
  BY <1>1, <1>5, LoopFits
<1>9. Fits(pool, d, d)
  <2>1. CASE misses = 0
    BY <2>1, EmptyFits
  <2>2. CASE misses # 0
    BY <1>1, <1>6, <1>7, <2>2, PoolFits
  <2> QED BY <2>1, <2>2
<1> HIDE DEF pool
<1>10. Fits(Start(d, total), d, d) /\ Fits(Set(d, total), d, d)
  BY SingleCallsFit
<1>11. Fits(Start(d, total) \o looks, d, d)
  BY <1>8, <1>10, JoinsFit
<1>12. Fits(Start(d, total) \o looks \o pool, d, d)
  BY <1>9, <1>11, JoinsFit
<1> QED BY <1>2, <1>10, <1>12, JoinsFit

\* _hash_files_parallel after its pool.
LEMMA RehashFits ==
  ASSUME NEW d \in Nat \ {0}, NEW total \in Nat, NEW misses \in Nat, NEW failed \in Nat,
         NEW done \in Nat, failed <= misses
  PROVE  Fits(Rehash(d, total, misses, failed, done), d, d)
<1> DEFINE f == Rehash(d, total, misses, failed, done)
           n == failed \div Refresh
           half == total \div 2
           then(i) == half + ((done + i * Refresh) * half) \div misses
<1>1. n \in Nat /\ Refresh \in Nat \ {0} /\ (failed = 0 => n = 0)
  BY ProgressAssumption, DivIsNat
<1>2. f = [i \in 1..n |-> f[i]] /\ \A i \in 1..n : f[i] = Call(d, "set", then(i), <<>>, "none")
  BY DEF Rehash
<1>3. \A i \in 1..n : then(i) \in Int
  <2> SUFFICES ASSUME NEW i \in 1..n PROVE then(i) \in Int
    OBVIOUS
  <2>1. half \in Nat /\ i \in Nat /\ Refresh \in Nat /\ misses # 0
    <3>1. n # 0
      BY <1>1
    <3> QED BY <1>1, <3>1, DivIsNat
  <2> HIDE DEF half, n
  <2>2. done + i * Refresh \in Nat
    BY <2>1, TimesIsNat
  <2>3. (done + i * Refresh) * half \in Nat
    BY <2>1, <2>2, TimesIsNat
  <2>4. ((done + i * Refresh) * half) \div misses \in Nat
    BY <2>1, <2>3, DivIsNat
  <2> QED BY <2>1, <2>4
<1> HIDE DEF f, n, then
<1>4. \A i \in 1..n : f[i].at = d /\ f[i].n \in Int /\ f[i].do \in {"set", "add"} /\ f[i].pool = "none"
  BY <1>2, <1>3, CallSays
<1>5. Fits(f, d, d)
  BY <1>1, <1>2, <1>4, LoopFits
<1> QED BY <1>5 DEF f

\* prepare_pictures with a pool, without one, and with nothing to do.
LEMMA PrepareFits ==
  ASSUME NEW d \in Nat \ {0}, NEW n \in Nat, NEW pool \in BOOLEAN
  PROVE  Fits(Prepare(d, n, pool), d, d)
<1> DEFINE k == n \div Refresh
           sets == [i \in 1..k |-> Call(d, "set", i * Refresh, <<>>, "pictures")]
           retry == Call(d, "retry", n, <<n>>, "pictures")
<1>1. k \in Nat /\ \A i \in 1..k : i * Refresh \in Int
  BY ProgressAssumption, DivIsNat, TimesIsNat
<1>2. n # 0 /\ pool => Prepare(d, n, pool) = Start(d, n) \o sets \o <<retry>>
  BY DEF Prepare
<1>3. n = 0 => Prepare(d, n, pool) = <<>>
  BY DEF Prepare
<1>4. n # 0 /\ ~pool => Prepare(d, n, pool) = Iter(d, n)
  BY DEF Prepare
<1> HIDE DEF k
<1>5. sets = [i \in 1..k |-> sets[i]] /\ \A i \in 1..k :
        sets[i].at = d /\ sets[i].n \in Int /\ sets[i].do \in {"set", "add"}
  BY <1>1, CallSays
<1>6. retry.do = "retry" /\ retry.at = d /\ CallIsRight(retry)
  <2>1. retry.at = d /\ retry.do = "retry" /\ retry.n = n /\ retry.pool = "pictures"
    BY CallSays
  <2> QED BY <2>1 DEF CallIsRight
<1> HIDE DEF sets, retry
<1>7. Fits(sets \o <<retry>>, d, d) /\ Fits(Start(d, n), d, d)
  BY <1>1, <1>5, <1>6, PoolFits, SingleCallsFit
<1>8. Start(d, n) \o sets \o <<retry>> = Start(d, n) \o (sets \o <<retry>>)
  <2> DEFINE a == Start(d, n)
             c == <<retry>>
  <2>1. IsASequence(a) /\ IsASequence(sets) /\ IsASequence(c)
    BY <1>1, <1>5, <1>7, FunctionIsSequence, IsOne DEF IsASequence, Fits
  <2> HIDE DEF a, c
  <2>2. PICK A, B, C : a \in Seq(A) /\ sets \in Seq(B) /\ c \in Seq(C)
    BY <2>1 DEF IsASequence
  <2>3. a \in Seq(A \cup B \cup C) /\ sets \in Seq(A \cup B \cup C) /\ c \in Seq(A \cup B \cup C)
    BY <2>2, SeqMonotonic
  <2>4. (a \o sets) \o c = a \o (sets \o c)
    BY <2>3, ConcatAssociative
  <2> QED BY <2>4 DEF a, c
<1>9. Fits(Start(d, n) \o (sets \o <<retry>>), d, d)
  BY <1>7, JoinsFit
<1>10. CASE n # 0 /\ pool
  BY <1>2, <1>8, <1>9, <1>10
<1>11. CASE n # 0 /\ ~pool
  BY <1>4, <1>11, IterFits
<1>12. CASE n = 0
  BY <1>3, <1>12, EmptyFits
<1> QED BY <1>10, <1>11, <1>12

\* matchblock.getmatches.
LEMMA PictureMatchesFit ==
  ASSUME NEW d \in Nat \ {0}, NEW new \in Nat, NEW pool \in BOOLEAN, NEW found \in Nat
  PROVE  Fits(PictureMatches(d, new, pool, found), d, d)
<1> DEFINE rest == IF found < 2 THEN <<>> ELSE Start(d + 2, found) \o Halves(d + 2, found)
<1>1. d + 1 \in Nat \ {0} /\ d + 2 \in Nat \ {0} /\ d + 1 + 1 = d + 2 /\ d <= d + 2 /\ found \in Int
  OBVIOUS
<1>2. Fits(Subjob(d, <<3, 7>>), d, d + 1) /\ Fits(Prepare(d + 1, new, pool), d + 1, d + 1)
      /\ Fits(TwoPhases(d + 1), d + 1, d + 2)
  BY <1>1, SingleCallsFit, SharesAre, PrepareFits, TwoPhasesFit
<1>3. Fits(rest, d + 2, d + 2)
  <2>1. Fits(Start(d + 2, found), d + 2, d + 2) /\ Fits(Halves(d + 2, found), d + 2, d + 2)
    BY <1>1, SingleCallsFit, HalvesFit
  <2>2. Fits(Start(d + 2, found) \o Halves(d + 2, found), d + 2, d + 2)
    BY <1>1, <2>1, JoinsFit
  <2> QED BY <1>1, <2>2, EmptyFits
<1>4. PictureMatches(d, new, pool, found)
        = Subjob(d, <<3, 7>>) \o Prepare(d + 1, new, pool) \o TwoPhases(d + 1) \o rest
  BY DEF PictureMatches
<1> HIDE DEF rest
<1>5. Fits(Subjob(d, <<3, 7>>) \o Prepare(d + 1, new, pool), d, d + 1)
  BY <1>1, <1>2, JoinsFit
<1>6. Fits(Subjob(d, <<3, 7>>) \o Prepare(d + 1, new, pool) \o TwoPhases(d + 1), d, d + 2)
  BY <1>1, <1>2, <1>5, JoinsFit
<1>7. Fits(PictureMatches(d, new, pool, found), d, d + 2)
  BY <1>1, <1>3, <1>4, <1>6, JoinsFit
<1> QED BY <1>1, <1>7, FitsMore

\* Scanner._getclasses.
LEMMA ContentMatchesFit ==
  ASSUME NEW d \in Nat \ {0}, NEW candidates \in Nat, NEW misses \in Nat, NEW buckets \in Nat
  PROVE  Fits(ContentMatches(d, candidates, misses, buckets), d, d)
<1> DEFINE hash == IF candidates = 0 THEN <<>> ELSE Hash(d + 1, candidates, misses)
<1>1. d + 1 \in Nat \ {0} /\ d <= d + 1 /\ buckets \in Int
  OBVIOUS
<1>2. Fits(hash, d + 1, d + 1)
  BY <1>1, HashFits, EmptyFits
<1>3. Fits(TwoPhases(d), d, d + 1) /\ Fits(Start(d + 1, buckets), d + 1, d + 1)
      /\ Fits(Halves(d + 1, buckets), d + 1, d + 1)
  BY <1>1, TwoPhasesFit, SingleCallsFit, HalvesFit
<1>4. ContentMatches(d, candidates, misses, buckets)
        = TwoPhases(d) \o hash \o Start(d + 1, buckets) \o Halves(d + 1, buckets)
  BY DEF ContentMatches
<1> HIDE DEF hash
<1>5. Fits(TwoPhases(d) \o hash, d, d + 1)
  BY <1>1, <1>2, <1>3, JoinsFit
<1>6. Fits(TwoPhases(d) \o hash \o Start(d + 1, buckets), d, d + 1)
  BY <1>1, <1>3, <1>5, JoinsFit
<1>7. Fits(ContentMatches(d, candidates, misses, buckets), d, d + 1)
  BY <1>1, <1>3, <1>4, <1>6, JoinsFit
<1> QED BY <1>1, <1>7, FitsMore

\* engine.getmatches, cut short or not.
LEMMA WordMatchesFit ==
  ASSUME NEW d \in Nat \ {0}, NEW n \in Nat, NEW words \in Nat, NEW cut \in BOOLEAN
  PROVE  Fits(WordMatches(d, n, words, cut), d, d)
<1> DEFINE rest == IF cut THEN <<Head(Halves(d + 2, words))>> ELSE Halves(d + 2, words)
<1>1. /\ d + 1 \in Nat \ {0} /\ d + 2 \in Nat \ {0} /\ d + 3 \in Nat \ {0}
      /\ d + 1 + 1 = d + 2 /\ d + 2 + 1 = d + 3 /\ d <= d + 2 /\ d + 2 <= d + 3
      /\ words \in Int
  OBVIOUS
<1>2. Fits(rest, d + 2, d + 2)
  BY <1>1, HalvesFit
<1>3. /\ Fits(TwoPhases(d), d, d + 1) /\ Fits(Iter(d + 1, n), d + 1, d + 1)
      /\ Fits(Subjob(d + 1, <<1, 1>>), d + 1, d + 2) /\ Fits(Subjob(d + 2, <<1, 1>>), d + 2, d + 3)
      /\ Fits(Iter(d + 3, n), d + 3, d + 3) /\ Fits(Start(d + 2, words), d + 2, d + 2)
  <2>1. AreShares(<<1, 1>>) /\ <<1, 1>> # <<>>
    BY SharesAre
  <2> QED BY <1>1, <2>1, TwoPhasesFit, IterFits, SingleCallsFit
<1>4. WordMatches(d, n, words, cut)
        = TwoPhases(d) \o Iter(d + 1, n) \o Subjob(d + 1, <<1, 1>>) \o Subjob(d + 2, <<1, 1>>)
          \o Iter(d + 3, n) \o Start(d + 2, words) \o rest
  BY DEF WordMatches
<1> HIDE DEF rest
<1>5. Fits(TwoPhases(d) \o Iter(d + 1, n), d, d + 1)
  BY <1>1, <1>3, JoinsFit
<1>6. Fits(TwoPhases(d) \o Iter(d + 1, n) \o Subjob(d + 1, <<1, 1>>), d, d + 2)
  BY <1>1, <1>3, <1>5, JoinsFit
<1>7. Fits(TwoPhases(d) \o Iter(d + 1, n) \o Subjob(d + 1, <<1, 1>>) \o Subjob(d + 2, <<1, 1>>), d, d + 3)
  BY <1>1, <1>3, <1>6, JoinsFit
<1>8. Fits(TwoPhases(d) \o Iter(d + 1, n) \o Subjob(d + 1, <<1, 1>>) \o Subjob(d + 2, <<1, 1>>)
           \o Iter(d + 3, n), d, d + 3)
  BY <1>1, <1>3, <1>7, JoinsFit
<1>9. Fits(Start(d + 2, words), d + 3, d + 2)
  BY <1>1, <1>3, FitsMore
<1>10. Fits(TwoPhases(d) \o Iter(d + 1, n) \o Subjob(d + 1, <<1, 1>>) \o Subjob(d + 2, <<1, 1>>)
            \o Iter(d + 3, n) \o Start(d + 2, words), d, d + 2)
  BY <1>1, <1>8, <1>9, JoinsFit
<1>11. Fits(WordMatches(d, n, words, cut), d, d + 2)
  BY <1>1, <1>2, <1>4, <1>10, JoinsFit
<1> QED BY <1>1, <1>11, FitsMore

\* Two updates of the scan's own job.
LEMMA PairFits ==
  ASSUME NEW f, f = [i \in 1..2 |-> f[i]],
         \A i \in 1..2 : f[i].at = 1 /\ f[i].n \in Int /\ f[i].do \in {"set", "add"} /\ f[i].pool = "none"
  PROVE  Fits(f, 1, 1)
<1>1. 2 \in Nat /\ 1 \in Nat \ {0}
  OBVIOUS
<1> QED BY <1>1, LoopFits

\* _verify_partial_matches.
LEMMA VerifyFits == \A n \in Nat \ {0} : Fits(Verify(n), 1, 1)
<1> SUFFICES ASSUME NEW n \in Nat \ {0} PROVE Fits(Verify(n), 1, 1)
  OBVIOUS
<1> DEFINE units(i) == IF i = 1 THEN 50 \div n ELSE 100
<1>1. \A i : units(i) \in Int
  <2>1. 50 \in Nat
    OBVIOUS
  <2> QED BY <2>1, DivIsNat
<1>2. Verify(n) = [i \in 1..2 |-> Verify(n)[i]]
      /\ \A i \in 1..2 : Verify(n)[i] = Call(1, "set", units(i), <<>>, "none")
  BY DEF Verify
<1> HIDE DEF units
<1> QED BY <1>1, <1>2, CallSays, PairFits

\* The collection of the files.
LEMMA CollectingFits == Fits(Collecting, 1, 1)
<1> DEFINE units(i) == IF i = 1 THEN 0 ELSE -1
<1>1. \A i : units(i) \in Int
  OBVIOUS
<1>2. Collecting = [i \in 1..2 |-> Collecting[i]]
      /\ \A i \in 1..2 : Collecting[i] = Call(1, "set", units(i), <<>>, "none")
  BY DEF Collecting
<1> HIDE DEF units
<1> QED BY <1>1, <1>2, CallSays, PairFits

\* A contents scan.
LEMMA ContentScansFit ==
  ASSUME NEW s \in ContentScans
  PROVE  Fits(s, 1, 1)
<1>1. PICK p \in Some, b \in Counts, v \in {<<>>} \cup {Verify(i) : i \in Counts} :
        s = ContentMatches(1, p[1], p[2], b) \o v
  BY DEF ContentScans
<1>2. Fits(v, 1, 1)
  BY EmptyFits, VerifyFits, ProgressAssumption
<1>3. 1 \in Nat \ {0} /\ b \in Nat /\ p[1] \in Nat /\ p[2] \in Nat
  BY SomeAreNat, ProgressAssumption
<1>4. Fits(ContentMatches(1, p[1], p[2], b), 1, 1)
  BY <1>3, ContentMatchesFit
<1> QED BY <1>1, <1>2, <1>4, JoinsFit

\* A contents scan that looks for pictures too.
LEMMA CombinedScansFit ==
  ASSUME NEW s \in CombinedScans
  PROVE  Fits(s, 1, 1)
<1>1. PICK p \in Some, b \in Counts, q \in PicturesToo, v \in {<<>>, Verify(1)} :
        s = TwoPhases(1) \o ContentMatches(2, p[1], p[2], b) \o q \o v
  BY DEF CombinedScans
<1>2. 1 \in Nat \ {0} /\ 2 \in Nat \ {0} /\ 1 + 1 = 2 /\ 1 <= 2 /\ 1 \in Int /\ 2 \in Int
  OBVIOUS
<1>3. Fits(v, 2, 1)
  <2>1. Fits(v, 1, 1)
    BY <1>2, EmptyFits, VerifyFits
  <2> QED BY <1>2, <2>1, FitsMore
<1>4. Fits(ContentMatches(2, p[1], p[2], b), 2, 2)
  BY <1>2, SomeAreNat, ContentMatchesFit, ProgressAssumption
<1>5. Fits(q, 2, 2)
  <2>1. \A c \in Counts, pool \in BOOLEAN : Fits(PictureMatches(2, c, pool, c), 2, 2)
    BY <1>2, ProgressAssumption, PictureMatchesFit
  <2> QED BY <1>2, <2>1, EmptyFits DEF PicturesToo
<1>6. Fits(TwoPhases(1), 1, 2)
  BY <1>2, TwoPhasesFit
<1>7. Fits(TwoPhases(1) \o ContentMatches(2, p[1], p[2], b), 1, 2)
  BY <1>2, <1>4, <1>6, JoinsFit
<1>8. Fits(TwoPhases(1) \o ContentMatches(2, p[1], p[2], b) \o q, 1, 2)
  BY <1>2, <1>5, <1>7, JoinsFit
<1> QED BY <1>1, <1>2, <1>3, <1>8, JoinsFit

\* A scan of names or tags.
LEMMA WordScansFit ==
  ASSUME NEW s \in WordScans
  PROVE  Fits(s, 1, 1)
<1>1. PICK t \in {<<>>, TwoPhases(1)}, n \in Counts, w \in Counts, cut \in BOOLEAN :
        s = t \o WordMatches(IF t = <<>> THEN 1 ELSE 2, n, w, cut)
  BY DEF WordScans
<1> DEFINE d == IF t = <<>> THEN 1 ELSE 2
<1>2. 1 \in Nat \ {0} /\ 2 \in Nat \ {0} /\ 1 + 1 = 2 /\ 1 <= 2 /\ d \in Nat \ {0} /\ 1 <= d
  OBVIOUS
<1>3. Fits(t, 1, d)
  <2>1. Fits(TwoPhases(1), 1, 2)
    BY <1>2, TwoPhasesFit
  <2> QED BY <1>2, <2>1, EmptyFits
<1> HIDE DEF d
<1>4. Fits(WordMatches(d, n, w, cut), d, d)
  BY <1>2, WordMatchesFit, ProgressAssumption
<1>5. Fits(WordMatches(d, n, w, cut), d, 1)
  BY <1>2, <1>4, FitsMore
<1>6. s = t \o WordMatches(d, n, w, cut)
  BY <1>1 DEF d
<1> QED BY <1>2, <1>3, <1>5, <1>6, JoinsFit

\* A scan of the picture edition.
LEMMA PictureScansFit ==
  ASSUME NEW s \in PictureScans
  PROVE  Fits(s, 1, 1)
<1>1. \/ \E n \in {0} \cup Counts, pool \in BOOLEAN, f \in {0} \cup Counts :
           s = PictureMatches(1, n, pool, f)
      \/ s = Set(1, 100)
      \/ \E n \in Counts : s = Iter(1, n)
  BY DEF PictureScans
<1>2. 1 \in Nat \ {0} /\ 100 \in Int /\ \A n \in {0} \cup Counts : n \in Nat
  BY ProgressAssumption
<1>3. \A n \in {0} \cup Counts, pool \in BOOLEAN, f \in {0} \cup Counts :
        Fits(PictureMatches(1, n, pool, f), 1, 1)
  BY <1>2, PictureMatchesFit
<1>4. Fits(Set(1, 100), 1, 1) /\ \A n \in Counts : Fits(Iter(1, n), 1, 1)
  BY <1>2, SingleCallsFit, IterFits
<1> QED BY <1>1, <1>3, <1>4

-----------------------------------------------------------------------------
(* The jobs of the stack.                                                  *)

\* What the shares left of a job come to.
LeftOver(s) == IF s = <<>> THEN 0 ELSE IF Len(s) = 1 THEN s[1] ELSE s[1] + s[2]

\* One share, or two, or none.
LEMMA UpToTwo == \A n \in Nat : n <= 2 => n = 0 \/ n = 1 \/ n = 2
OBVIOUS

\* The next phase takes its share away from what is left.
LEMMA LeftOverIs ==
  ASSUME NEW s, AreShares(s)
  PROVE  /\ LeftOver(s) \in Nat /\ (LeftOver(s) = 0 <=> s = <<>>)
         /\ s # <<>> => /\ Head(s) \in Nat \ {0} /\ AreShares(Tail(s))
                        /\ LeftOver(s) = Head(s) + LeftOver(Tail(s))
<1>1. s \in Seq(Nat \ {0}) /\ Len(s) \in Nat /\ Len(s) <= 2 /\ (s = <<>> <=> Len(s) = 0)
  BY LenProperties, EmptySeq DEF AreShares
<1>2. \A i \in 1..Len(s) : s[i] \in Nat \ {0}
  BY <1>1, ElementOfSeq
<1>3. CASE Len(s) = 0
  BY <1>1, <1>3 DEF LeftOver
<1>4. CASE Len(s) \in {1, 2}
  <2>1. s # <<>> /\ s[1] \in Nat \ {0} /\ Head(s) = s[1]
    <3>1. 1 \in 1..Len(s) /\ s # <<>>
      BY <1>1, <1>4
    <3> QED BY <1>1, <1>2, <3>1, HeadTailProperties
  <2> DEFINE t == Tail(s)
  <2>2. /\ t \in Seq(Nat \ {0}) /\ Len(t) = Len(s) - 1
        /\ \A i \in 1..Len(t) : t[i] = s[i + 1]
    BY <1>1, <2>1, HeadTailProperties
  <2> HIDE DEF t
  <2>3. AreShares(t) /\ (t = <<>> <=> Len(t) = 0)
    <3>1. Len(t) <= 2
      BY <1>1, <2>2
    <3>2. t # <<>> => Len(t) # 0
      BY <2>2, EmptySeq
    <3> QED BY <2>2, <3>1, <3>2, EmptySeq DEF AreShares
  <2>6. /\ LeftOver(s) \in Nat /\ LeftOver(s) # 0 /\ Head(s) \in Nat \ {0}
        /\ LeftOver(s) = Head(s) + LeftOver(t)
    <3>1. CASE Len(s) = 1
      <4>1. t = <<>> /\ LeftOver(s) = s[1]
        BY <2>1, <2>2, <2>3, <3>1 DEF LeftOver
      <4>2. LeftOver(t) = 0
        BY <4>1 DEF LeftOver
      <4> QED BY <2>1, <4>1, <4>2
    <3>2. CASE Len(s) = 2
      <4>1. 1 \in 1..Len(t) /\ 2 \in 1..Len(s) /\ 1 + 1 = 2 /\ Len(t) = 1 /\ Len(s) # 1
        BY <2>2, <3>2
      <4>2. t[1] = s[2] /\ s[2] \in Nat \ {0} /\ t # <<>>
        BY <1>2, <2>2, <2>3, <4>1
      <4>3. LeftOver(s) = s[1] + s[2]
        BY <2>1, <4>1 DEF LeftOver
      <4>4. LeftOver(t) = s[2]
        BY <4>1, <4>2 DEF LeftOver
      <4> QED BY <2>1, <4>2, <4>3, <4>4
    <3> QED BY <1>4, <3>1, <3>2
  <2> QED BY <2>1, <2>3, <2>6 DEF t
<1>5. Len(s) = 0 \/ Len(s) \in {1, 2}
  BY <1>1, UpToTwo, Zenon
<1> QED BY <1>3, <1>4, <1>5

\* Job.__init__ adds the shares up.
LEMMA JobCountIs ==
  ASSUME NEW s, AreShares(s)
  PROVE  JobCount(s) = LeftOver(s)
<1> DEFINE L == Len(s)
           f == CHOOSE f : f = [k \in 0..L |-> IF k = 0 THEN 0 ELSE f[k - 1] + s[k]]
           g == [k \in 0..L |-> IF k = 0 THEN 0 ELSE IF k = 1 THEN s[1] ELSE s[1] + s[2]]
<1>1. (L = 0 \/ L = 1 \/ L = 2) /\ (s = <<>> <=> L = 0)
  <2>1. Len(s) \in Nat /\ Len(s) <= 2 /\ (s = <<>> <=> Len(s) = 0)
    BY LenProperties, EmptySeq DEF AreShares
  <2> QED BY <2>1, UpToTwo, Zenon
<1>2. \A i \in 1..L : s[i] \in Nat
  BY ElementOfSeq DEF AreShares
<1>3. JobCount(s) = f[L]
  BY DEF JobCount
<1> HIDE DEF L
<1>4. g = [k \in 0..L |-> IF k = 0 THEN 0 ELSE g[k - 1] + s[k]]
  <2>1. ASSUME NEW k \in 0..L PROVE g[k] = IF k = 0 THEN 0 ELSE g[k - 1] + s[k]
    <3>1. CASE k = 0
      BY <2>1, <3>1
    <3>2. CASE k = 1
      <4>1. 0 \in 0..L /\ 1 \in 0..L /\ k - 1 = 0 /\ s[1] \in Nat
        BY <1>1, <1>2, <3>2
      <4>2. g[0] = 0 /\ g[1] = s[1]
        BY <4>1
      <4> HIDE DEF g
      <4> QED BY <3>2, <4>1, <4>2
    <3>3. CASE k = 2
      <4>1. 1 \in 0..L /\ 2 \in 0..L /\ k - 1 = 1
        BY <1>1, <3>3
      <4>2. g[1] = s[1] /\ g[2] = s[1] + s[2]
        BY <4>1
      <4> HIDE DEF g
      <4> QED BY <3>3, <4>1, <4>2
    <3> QED BY <1>1, <3>1, <3>2, <3>3
  <2>2. g = [k \in 0..L |-> g[k]]
    OBVIOUS
  <2> HIDE DEF g
  <2> QED BY <2>1, <2>2
<1> HIDE DEF g
<1>5. f = [k \in 0..L |-> IF k = 0 THEN 0 ELSE f[k - 1] + s[k]]
  BY <1>4
<1> HIDE DEF f
<1>6. \A k \in 0..L : f[k] = IF k = 0 THEN 0 ELSE f[k - 1] + s[k]
  BY <1>5
<1>7. CASE L = 0
  BY <1>1, <1>3, <1>6, <1>7 DEF LeftOver
<1>8. CASE L = 1
  <2>1. f[0] = 0 /\ f[1] = f[1 - 1] + s[1] /\ s[1] \in Nat
    BY <1>2, <1>6, <1>8
  <2> QED BY <1>1, <1>3, <1>8, <2>1 DEF LeftOver, L
<1>9. CASE L = 2
  <2>1. f[0] = 0 /\ f[1] = f[1 - 1] + s[1] /\ f[2] = f[2 - 1] + s[2] /\ s[1] \in Nat /\ s[2] \in Nat
    BY <1>2, <1>6, <1>9
  <2>2. 1 - 1 = 0 /\ 2 - 1 = 1
    OBVIOUS
  <2>3. f[2] = s[1] + s[2]
    BY <2>1, <2>2
  <2> QED BY <1>1, <1>3, <1>9, <2>3 DEF LeftOver, L
<1> QED BY <1>1, <1>7, <1>8, <1>9

\* A job's phases come to no more than its shares: those passed, the one at work, those left.
JobOK(j) ==
  /\ j = [left |-> j.left, all |-> j.all, current |-> j.current, passed |-> j.passed,
          progress |-> j.progress, currmax |-> j.currmax]
  /\ AreShares(j.left) /\ j.all \in Nat \ {0} /\ j.current \in Nat /\ j.passed \in Nat
  /\ j.currmax \in Nat \ {0} /\ j.progress \in Int /\ j.progress <= j.currmax
  /\ j.passed + j.current + LeftOver(j.left) = j.all

\* Job.__init__.
LEMMA NewJobOK ==
  ASSUME NEW s, AreShares(s), s # <<>>
  PROVE  JobOK(NewJob(s)) /\ NewJob(s).all = LeftOver(s) /\ PercentShown(NewJob(s)) = -1
<1> DEFINE j == NewJob(s)
<1>1. /\ j = [left |-> j.left, all |-> j.all, current |-> j.current, passed |-> j.passed,
              progress |-> j.progress, currmax |-> j.currmax]
      /\ j.left = s /\ j.all = LeftOver(s) /\ j.current = 0 /\ j.passed = 0 /\ j.progress = 0
      /\ j.currmax = 1
  BY JobCountIs DEF NewJob
<1> HIDE DEF j
<1>2. LeftOver(s) \in Nat \ {0}
  BY LeftOverIs
<1>3. JobOK(j) /\ j.all = LeftOver(s) /\ PercentShown(j) = -1
  BY <1>1, <1>2 DEF JobOK, PercentShown
<1> QED BY <1>3 DEF j

\* set_progress.
LEMMA SetProgressOK ==
  ASSUME NEW j, JobOK(j), NEW n \in Int
  PROVE  /\ JobOK(SetProgress(j, n)) /\ SetProgress(j, n).left = j.left
         /\ SetProgress(j, n).all = j.all /\ SetProgress(j, n).currmax = j.currmax
         /\ SetProgress(j, n).progress <= n
<1> DEFINE k == SetProgress(j, n)
<1>1. /\ k = [left |-> k.left, all |-> k.all, current |-> k.current, passed |-> k.passed,
              progress |-> k.progress, currmax |-> k.currmax]
      /\ k.left = j.left /\ k.all = j.all /\ k.current = j.current /\ k.passed = j.passed
      /\ k.progress = Least(n, j.currmax) /\ k.currmax = j.currmax
  BY DEF SetProgress, JobOK
<1> HIDE DEF k
<1>2. Least(n, j.currmax) \in Int /\ Least(n, j.currmax) <= j.currmax /\ Least(n, j.currmax) <= n
  BY DEF JobOK, Least
<1>3. /\ JobOK(k) /\ k.left = j.left /\ k.all = j.all /\ k.currmax = j.currmax /\ k.progress <= n
  BY <1>1, <1>2 DEF JobOK
<1> QED BY <1>3 DEF k

\* start_job.
LEMMA StartJobOK ==
  ASSUME NEW j, JobOK(j), NEW n \in Int, j.left # <<>>
  PROVE  /\ JobOK(StartJob(j, n)) /\ StartJob(j, n).all = j.all
         /\ StartJob(j, n).currmax = (IF n < 1 THEN 1 ELSE n) /\ StartJob(j, n).progress = 0
<1> DEFINE k == StartJob(j, n)
           max == IF n < 1 THEN 1 ELSE n
           h == Head(j.left)
           t == Tail(j.left)
<1>1. /\ k = [left |-> k.left, all |-> k.all, current |-> k.current, passed |-> k.passed,
              progress |-> k.progress, currmax |-> k.currmax]
      /\ k.left = t /\ k.all = j.all /\ k.current = h
      /\ k.passed = j.passed + j.current /\ k.progress = 0 /\ k.currmax = max
  <2>1. k = [j EXCEPT !.passed = j.passed + j.current, !.current = h, !.left = t,
                      !.progress = 0, !.currmax = max]
    BY DEF StartJob
  <2>2. j = [left |-> j.left, all |-> j.all, current |-> j.current, passed |-> j.passed,
             progress |-> j.progress, currmax |-> j.currmax]
    BY DEF JobOK
  <2> HIDE DEF k, max, h, t
  <2>3. k = [left |-> t, all |-> j.all, current |-> h, passed |-> j.passed + j.current,
             progress |-> 0, currmax |-> max]
    BY <2>1, <2>2
  <2> QED BY <2>3
<1>2. /\ h \in Nat \ {0} /\ AreShares(t) /\ LeftOver(j.left) = h + LeftOver(t) /\ LeftOver(t) \in Nat
  <2>1. AreShares(j.left)
    BY DEF JobOK
  <2>2. h \in Nat \ {0} /\ AreShares(t) /\ LeftOver(j.left) = h + LeftOver(t)
    BY <2>1, LeftOverIs
  <2> HIDE DEF t
  <2> QED BY <2>2, LeftOverIs
<1>3. max \in Nat \ {0}
  OBVIOUS
<1> HIDE DEF k, max, h, t
<1>4. JobOK(k) /\ k.all = j.all /\ k.currmax = max /\ k.progress = 0
  BY <1>1, <1>2, <1>3 DEF JobOK
<1> QED BY <1>4 DEF k, max

\* What the percentage is divided by comes back at most.
LEMMA DivBelow == \A n \in Int, m \in Nat \ {0} : n \div m \in Int /\ (n \div m) * m <= n
OBVIOUS

LEMMA TimesMore == \A a, b \in Int, c \in Nat : a <= b => a * c <= b * c
OBVIOUS

LEMMA TimesCancels == \A a, b \in Int, c \in Nat \ {0} : a * c <= b * c => a <= b
OBVIOUS

\* get_progress: the percentage is no more than the phases that began are worth, and it is not
\* full before the last one is at its end.
LEMMA PercentIs ==
  ASSUME NEW j, JobOK(j)
  PROVE  /\ PercentShown(j) \in Int
         /\ PercentShown(j) * j.all <= 100 * (j.passed + j.current)
         /\ PercentShown(j) >= 100 => j.left = <<>> /\ j.progress = j.currmax
<1>1. PICK A \in Nat \ {0}, C \in Nat, P \in Nat, M \in Nat \ {0}, p \in Int, R \in Nat :
        /\ A = j.all /\ C = j.current /\ P = j.passed /\ M = j.currmax /\ p = j.progress
        /\ R = LeftOver(j.left) /\ p <= M /\ P + C + R = A
  BY LeftOverIs DEF JobOK
<1>2. R = 0 <=> j.left = <<>>
  BY <1>1, LeftOverIs DEF JobOK
<1>3. CASE C = 0
  <2>1. PercentShown(j) = -1
    BY <1>1, <1>3 DEF PercentShown
  <2>2. (-1) * A <= 100 * (P + C)
    BY <1>3
  <2> QED BY <1>1, <2>1, <2>2
<1>4. CASE C # 0
  <2> DEFINE x == P * M + C * p
             q == (x * 100) \div (A * M)
  <2>1. PercentShown(j) = q
    BY <1>1, <1>4 DEF PercentShown
  <2>2. P * M \in Int /\ C * p \in Int /\ x \in Int /\ x * 100 \in Int /\ A * M \in Nat \ {0}
    OBVIOUS
  <2>3. q \in Int /\ q * (A * M) <= x * 100
    BY <2>2, DivBelow
  <2>4. x <= (P + C) * M
    <3>1. p * C <= M * C
      BY <1>1, TimesMore
    <3>2. (P + C) * M = P * M + M * C /\ C * p = p * C
      OBVIOUS
    <3> QED BY <2>2, <3>1, <3>2
  <2> HIDE DEF q
  <2>5. q * A <= 100 * (P + C)
    <3>1. x * 100 <= 100 * ((P + C) * M)
      BY <2>2, <2>4
    <3>2. 100 * ((P + C) * M) = (100 * (P + C)) * M /\ q * (A * M) = (q * A) * M
      BY <2>3
    <3>3. (q * A) * M <= (100 * (P + C)) * M
      BY <2>2, <2>3, <3>1, <3>2
    <3>4. q * A \in Int /\ 100 * (P + C) \in Int
      BY <2>3
    <3> QED BY <3>3, <3>4, TimesCancels
  <2>6. ASSUME q >= 100 PROVE R = 0 /\ p = M
    <3>1. A * M <= x
      <4>1. 100 * (A * M) <= q * (A * M)
        BY <2>2, <2>3, <2>6, TimesMore
      <4> QED BY <2>2, <2>3, <4>1
    <3>2. A <= P + C
      <4>1. A * M <= (P + C) * M
        BY <2>2, <2>4, <3>1
      <4> QED BY <4>1, TimesCancels
    <3>3. R = 0 /\ A = P + C
      BY <1>1, <3>2
    <3>4. M <= p
      <4>1. (P + C) * M <= P * M + C * p
        BY <3>1, <3>3
      <4>2. M * C <= p * C
        BY <4>1
      <4> QED BY <1>4, <4>2, TimesCancels
    <3> QED BY <1>1, <3>3, <3>4
  <2> QED BY <1>1, <1>2, <2>1, <2>3, <2>5, <2>6
<1> QED BY <1>3, <1>4

\* Of a scan's own job, with a single share, the percentage is that of its subjob.
LEMMA FirstPercentIs ==
  ASSUME NEW j, JobOK(j), j.all = 1, j.currmax = 100
  PROVE  PercentShown(j) <= 0 \/ PercentShown(j) <= j.progress
<1>1. PICK C \in Nat, P \in Nat, p \in Int, R \in Nat :
        C = j.current /\ P = j.passed /\ p = j.progress /\ R = LeftOver(j.left) /\ P + C + R = 1
  BY LeftOverIs DEF JobOK
<1>2. CASE C = 0
  BY <1>1, <1>2 DEF PercentShown
<1>3. CASE C # 0
  <2>1. C = 1 /\ P = 0
    BY <1>1, <1>3
  <2>2. ((0 * 100 + 1 * p) * 100) \div (1 * 100) <= p
    OBVIOUS
  <2> QED BY <1>1, <2>1, <2>2 DEF PercentShown
<1> QED BY <1>2, <1>3

-----------------------------------------------------------------------------
(* The stack.                                                              *)

\* The jobs from the level d up to the one n above it.
AreTold(f, js, d, job, n) ==
  f = [i \in 0..n |-> IF i = 0 THEN job ELSE SetProgress(js[d - i], PercentShown(f[i - 1]))]

\* However many levels there are, each is told.
LEMMA ToldExists ==
  ASSUME NEW js, NEW d, NEW job, NEW L \in Nat
  PROVE  \E f : AreTold(f, js, d, job, L)
<1> DEFINE Lacking == {n \in Nat : ~\E f : AreTold(f, js, d, job, n)}
<1> SUFFICES ASSUME Lacking # {} PROVE FALSE
  OBVIOUS
<1>1. PICK n \in Lacking : \A k \in Lacking : ~(k < n)
  <2>1. PICK n \in Lacking : \A k \in Lacking : <<k, n>> \notin OpToRel(<, Nat)
    BY NatLessThanWellFounded, WFMin
  <2>2. ASSUME NEW k \in Lacking PROVE ~(k < n)
    BY <2>1 DEF OpToRel
  <2> QED BY <2>2
<1>2. n # 0
  <2>1. AreTold([i \in 0..0 |-> job], js, d, job, 0)
    BY DEF AreTold
  <2> QED BY <2>1
<1>3. n - 1 \in Nat /\ n - 1 \notin Lacking
  BY <1>1, <1>2
<1>4. PICK f : AreTold(f, js, d, job, n - 1)
  BY <1>3
<1> DEFINE up(i, below) == SetProgress(js[d - i], PercentShown(below))
           g == [i \in 0..n |-> IF i <= n - 1 THEN f[i] ELSE up(n, f[n - 1])]
<1>5. \A i \in 0..(n - 1) : f[i] = IF i = 0 THEN job ELSE up(i, f[i - 1])
  BY <1>4 DEF AreTold
<1> HIDE DEF up
<1>6. \A i \in 0..(n - 1) : g[i] = f[i]
  BY <1>3
<1>7. ASSUME NEW i \in 0..n
      PROVE  g[i] = IF i = 0 THEN job ELSE up(i, g[i - 1])
  <2>1. CASE i = 0
    BY <1>3, <1>5, <2>1
  <2>2. CASE i # 0 /\ i <= n - 1
    <3>1. i - 1 \in 0..(n - 1) /\ i \in 0..(n - 1)
      BY <2>2
    <3> HIDE DEF g
    <3> QED BY <1>5, <1>6, <2>2, <3>1
  <2>3. CASE i = n
    <3>1. g[i] = up(n, f[n - 1])
      BY <1>3, <2>3
    <3>2. n - 1 \in 0..(n - 1)
      BY <1>3
    <3> HIDE DEF g
    <3> QED BY <1>2, <1>6, <2>3, <3>1, <3>2
  <2> QED BY <2>1, <2>2, <2>3
<1>8. AreTold(g, js, d, job, n)
  <2>1. g = [i \in 0..n |-> g[i]]
    OBVIOUS
  <2> HIDE DEF g
  <2> QED BY <1>7, <2>1 DEF AreTold, up
<1> QED BY <1>8

\* An update at a level goes up through the jobs above it, and the ones below are put away.
LEMMA ToldIs ==
  ASSUME NEW js, NEW d \in Nat \ {0}, NEW job
  PROVE  /\ Told(js, d, job) = [k \in 1..d |-> Told(js, d, job)[k]]
         /\ Told(js, d, job)[d] = job
         /\ \A k \in 1..(d - 1) :
              Told(js, d, job)[k] = SetProgress(js[k], PercentShown(Told(js, d, job)[k + 1]))
<1> DEFINE up(k, below) == SetProgress(js[k], PercentShown(below))
           level == CHOOSE level : level = [k \in 1..d |-> IF k = d THEN job ELSE up(k, level[k + 1])]
           t == Told(js, d, job)
<1>1. t = [k \in 1..d |-> level[k]]
  BY DEF Told
<1>2. level = [k \in 1..d |-> IF k = d THEN job ELSE up(k, level[k + 1])]
  <2>1. PICK f : AreTold(f, js, d, job, d - 1)
    <3>1. d - 1 \in Nat
      OBVIOUS
    <3> QED BY <3>1, ToldExists
  <2> DEFINE h == [k \in 1..d |-> f[d - k]]
  <2>2. \A i \in 0..(d - 1) : f[i] = IF i = 0 THEN job ELSE up(d - i, f[i - 1])
    BY <2>1 DEF AreTold
  <2> HIDE DEF up, level
  <2>3. ASSUME NEW k \in 1..d PROVE h[k] = IF k = d THEN job ELSE up(k, h[k + 1])
    <3>1. CASE k = d
      <4>1. d - k = 0 /\ 0 \in 0..(d - 1)
        BY <3>1
      <4> QED BY <2>2, <3>1, <4>1
    <3>2. CASE k # d
      <4>1. d - k \in 0..(d - 1) /\ d - k # 0 /\ d - (d - k) = k /\ k + 1 \in 1..d
            /\ d - k - 1 = d - (k + 1)
        BY <3>2
      <4>2. f[d - k] = up(k, f[d - (k + 1)])
        <5>1. f[d - k] = up(d - (d - k), f[d - k - 1])
          BY <2>2, <4>1
        <5> QED BY <4>1, <5>1
      <4>3. h[k] = f[d - k] /\ h[k + 1] = f[d - (k + 1)]
        BY <4>1
      <4> HIDE DEF h
      <4> QED BY <3>2, <4>2, <4>3
    <3> QED BY <3>1, <3>2
  <2>4. h = [k \in 1..d |-> h[k]]
    OBVIOUS
  <2> HIDE DEF h
  <2>5. h = [k \in 1..d |-> IF k = d THEN job ELSE up(k, h[k + 1])]
    BY <2>3, <2>4
  <2> QED BY <2>5 DEF level
<1> HIDE DEF level, t, up
<1>3. \A k \in 1..d : t[k] = level[k] /\ level[k] = IF k = d THEN job ELSE up(k, level[k + 1])
  BY <1>1, <1>2
<1>4. t = [k \in 1..d |-> t[k]]
  BY <1>1
<1>5. t[d] = job
  BY <1>3
<1>6. ASSUME NEW k \in 1..(d - 1) PROVE t[k] = up(k, t[k + 1])
  <2>1. k \in 1..d /\ k # d /\ k + 1 \in 1..d
    OBVIOUS
  <2> QED BY <1>3, <2>1
<1> QED BY <1>4, <1>5, <1>6 DEF t, up

\* Each job's progress is the percentage its subjob reported, or it has not been told yet; the
\* scan's own job has a single share.
StackOK(js) ==
  /\ IsASequence(js) /\ Len(js) \in Nat \ {0}
  /\ \A k \in 1..Len(js) : JobOK(js[k])
  /\ js[1].all = 1
  /\ \A k \in 1..(Len(js) - 1) :
       js[k].currmax = 100 /\ (js[k].progress <= 0 \/ js[k].progress <= PercentShown(js[k + 1]))

\* The callbacks carry an update up to the scan's own job.
LEMMA ToldOK ==
  ASSUME NEW js, StackOK(js), NEW d \in 1..Len(js), NEW job, JobOK(job), job.all = js[d].all
  PROVE  StackOK(Told(js, d, job)) /\ Len(Told(js, d, job)) = d /\ Told(js, d, job)[d] = job
<1>1. d \in Nat \ {0} /\ \A k \in 1..d : k \in 1..Len(js) /\ JobOK(js[k])
  BY DEF StackOK
<1>t. PICK t : t = Told(js, d, job)
  OBVIOUS
<1>2. /\ t = [k \in 1..d |-> t[k]] /\ t[d] = job
      /\ \A k \in 1..(d - 1) : t[k] = SetProgress(js[k], PercentShown(t[k + 1]))
  BY <1>1, <1>t, ToldIs
<1>3. IsASequence(t) /\ Len(t) = d
  BY <1>1, <1>2, FunctionIsSequence
<1>4. ASSUME NEW k \in 1..(d - 1), JobOK(t[k + 1])
      PROVE  /\ JobOK(t[k]) /\ t[k].all = js[k].all /\ t[k].currmax = 100
             /\ t[k].progress <= PercentShown(t[k + 1])
  <2>1. JobOK(js[k]) /\ js[k].currmax = 100 /\ t[k] = SetProgress(js[k], PercentShown(t[k + 1]))
    <3>1. k \in 1..d /\ k \in 1..(Len(js) - 1)
      BY <1>1
    <3> QED BY <1>1, <1>2, <3>1 DEF StackOK
  <2>2. PICK q \in Int : q = PercentShown(t[k + 1])
    BY <1>4, PercentIs
  <2>3. PICK j : j = js[k]
    OBVIOUS
  <2>4. t[k] = SetProgress(j, q)
    BY <2>1, <2>2, <2>3
  <2>5. /\ JobOK(SetProgress(j, q)) /\ SetProgress(j, q).all = j.all
        /\ SetProgress(j, q).currmax = j.currmax /\ SetProgress(j, q).progress <= q
    BY <2>1, <2>3, SetProgressOK
  <2> QED BY <2>1, <2>2, <2>3, <2>4, <2>5
<1>5. \A k \in 1..d : JobOK(t[k])
  <2> DEFINE Bad == {n \in Nat : n <= d - 1 /\ ~JobOK(t[d - n])}
  <2>1. ASSUME Bad # {} PROVE FALSE
    <3>1. PICK n \in Bad : \A m \in Bad : ~(m < n)
      <4>1. PICK n \in Bad : \A m \in Bad : <<m, n>> \notin OpToRel(<, Nat)
        BY <2>1, NatLessThanWellFounded, WFMin
      <4>2. ASSUME NEW m \in Bad PROVE ~(m < n)
        BY <4>1 DEF OpToRel
      <4> QED BY <4>2
    <3>2. n # 0
      <4>1. d - 0 = d
        BY <1>1
      <4> QED BY <1>2, <4>1
    <3>3. n - 1 \in Nat /\ n - 1 < n /\ n - 1 <= d - 1 /\ d - n \in 1..(d - 1) /\ d - (n - 1) = d - n + 1
      BY <1>1, <3>2
    <3>4. JobOK(t[d - (n - 1)])
      BY <3>1, <3>3
    <3>5. JobOK(t[d - n + 1])
      BY <3>3, <3>4
    <3> QED BY <1>4, <3>3, <3>5
  <2>2. ASSUME NEW k \in 1..d PROVE JobOK(t[k])
    <3>1. d - k \in Nat /\ d - k <= d - 1 /\ d - (d - k) = k
      BY <1>1
    <3>2. JobOK(t[d - (d - k)])
      BY <2>1, <3>1
    <3> QED BY <3>1, <3>2
  <2> QED BY <2>2
<1>6. \A k \in 1..(d - 1) : k \in 1..d /\ k + 1 \in 1..d
  BY <1>1
<1>7. \A k \in 1..(d - 1) :
        /\ t[k].all = js[k].all /\ t[k].currmax = 100
        /\ t[k].progress <= PercentShown(t[k + 1])
  BY <1>4, <1>5, <1>6
<1>8. t[1].all = 1
  <2>1. CASE d = 1
    BY <1>2, <2>1 DEF StackOK
  <2>2. CASE d # 1
    <3>1. 1 \in 1..(d - 1)
      BY <1>1, <2>2
    <3> QED BY <1>7, <3>1 DEF StackOK
  <2> QED BY <2>1, <2>2
<1>9. StackOK(t)
  BY <1>1, <1>3, <1>5, <1>7, <1>8 DEF StackOK
<1> QED BY <1>2, <1>3, <1>9, <1>t

\* start_subjob puts a job under a phase of a hundred that has just begun.
LEMMA AppendOK ==
  ASSUME NEW js, StackOK(js), js[Len(js)].currmax = 100, js[Len(js)].progress = 0,
         NEW s, AreShares(s), s # <<>>
  PROVE  /\ StackOK(Append(js, NewJob(s))) /\ Len(Append(js, NewJob(s))) = Len(js) + 1
         /\ Append(js, NewJob(s))[1] = js[1]
<1>1. PICK j : j = NewJob(s)
  OBVIOUS
<1>2. JobOK(j)
  BY <1>1, NewJobOK
<1>3. PICK J : js \in Seq(J)
  BY DEF StackOK, IsASequence
<1>4. js \in Seq(J \cup {j}) /\ j \in J \cup {j}
  BY <1>3, SeqMonotonic
<1>5. PICK t : t = Append(js, j)
  OBVIOUS
<1>6. PICK L \in Nat \ {0} : L = Len(js)
  BY DEF StackOK
<1>7. /\ t \in Seq(J \cup {j}) /\ Len(t) = L + 1 /\ t[L + 1] = j
      /\ \A k \in 1..L : t[k] = js[k]
  BY <1>4, <1>5, <1>6, AppendProperties
<1>8. ASSUME NEW k \in 1..(L + 1) PROVE JobOK(t[k])
  <2>1. k \in 1..L \/ k = L + 1
    OBVIOUS
  <2> QED BY <1>2, <1>6, <1>7, <2>1 DEF StackOK
<1>9. ASSUME NEW k \in 1..L
      PROVE  t[k].currmax = 100 /\ (t[k].progress <= 0 \/ t[k].progress <= PercentShown(t[k + 1]))
  <2>1. CASE k = L
    BY <1>6, <1>7, <2>1
  <2>2. CASE k # L
    <3>1. k \in 1..(L - 1) /\ k \in 1..L /\ k + 1 \in 1..L
      BY <2>2
    <3>2. t[k] = js[k] /\ t[k + 1] = js[k + 1]
      BY <1>7, <3>1
    <3> QED BY <1>6, <3>1, <3>2 DEF StackOK
  <2> QED BY <2>1, <2>2
<1>10. 1 \in 1..L /\ L + 1 - 1 = L /\ L + 1 \in Nat \ {0}
  OBVIOUS
<1>11. StackOK(t) /\ Len(t) = L + 1 /\ t[1] = js[1]
  <2>1. js[1].all = 1 /\ t[1] = js[1]
    BY <1>7, <1>10 DEF StackOK
  <2> QED BY <1>7, <1>8, <1>9, <1>10, <2>1 DEF StackOK, IsASequence
<1> QED BY <1>1, <1>5, <1>6, <1>11

\* A full bar means that no job of the stack has a share left.
LEMMA FullMeansAllBegun ==
  ASSUME NEW js, StackOK(js), PercentShown(js[1]) >= 100
  PROVE  \A k \in 1..Len(js) : js[k].left = <<>>
<1> DEFINE Bad == {k \in Nat : k \in 1..Len(js) /\ ~(PercentShown(js[k]) >= 100)}
<1>1. ASSUME Bad # {} PROVE FALSE
  <2>1. PICK k \in Bad : \A m \in Bad : ~(m < k)
    <3>1. PICK k \in Bad : \A m \in Bad : <<m, k>> \notin OpToRel(<, Nat)
      BY <1>1, NatLessThanWellFounded, WFMin
    <3>2. ASSUME NEW m \in Bad PROVE ~(m < k)
      BY <3>1 DEF OpToRel
    <3> QED BY <3>2
  <2>2. k # 1
    OBVIOUS
  <2>3. /\ k - 1 \in Nat /\ k - 1 < k /\ k - 1 \in 1..Len(js) /\ k - 1 \in 1..(Len(js) - 1)
        /\ k - 1 + 1 = k /\ k \in 1..Len(js)
    BY <2>2 DEF StackOK
  <2>4. PercentShown(js[k - 1]) >= 100
    BY <2>1, <2>3
  <2>5. JobOK(js[k - 1]) /\ js[k - 1].currmax = 100
        /\ (js[k - 1].progress <= 0 \/ js[k - 1].progress <= PercentShown(js[k - 1 + 1]))
    BY <2>3 DEF StackOK
  <2>6. js[k - 1].progress = 100
    BY <2>4, <2>5, PercentIs
  <2>7. JobOK(js[k]) /\ ~(PercentShown(js[k]) >= 100) /\ PercentShown(js[k]) \in Int
    BY <2>3, PercentIs DEF StackOK
  <2> QED BY <2>3, <2>5, <2>6, <2>7
<1>2. ASSUME NEW k \in 1..Len(js) PROVE js[k].left = <<>>
  <2>1. JobOK(js[k]) /\ k \in Nat
    BY DEF StackOK
  <2>2. PercentShown(js[k]) >= 100
    BY <1>1, <2>1
  <2> QED BY <2>1, <2>2, PercentIs
<1> QED BY <1>2

\* The bar shows no more than what the phases of the first subjob that began are worth.
LEMMA FirstKeepsToIt ==
  ASSUME NEW js, StackOK(js), Len(js) > 1
  PROVE  PercentShown(js[1]) * js[2].all <= 100 * (js[2].passed + js[2].current)
<1>1. 1 \in 1..Len(js) /\ 2 \in 1..Len(js) /\ 1 \in 1..(Len(js) - 1) /\ 1 + 1 = 2
  BY DEF StackOK
<1>2. JobOK(js[1]) /\ JobOK(js[2]) /\ js[1].all = 1 /\ js[1].currmax = 100
      /\ (js[1].progress <= 0 \/ js[1].progress <= PercentShown(js[2]))
  BY <1>1 DEF StackOK
<1>3. /\ PercentShown(js[1]) \in Int /\ PercentShown(js[2]) \in Int /\ js[1].progress \in Int
      /\ js[2].all \in Nat \ {0} /\ js[2].passed \in Nat /\ js[2].current \in Nat
      /\ PercentShown(js[2]) * js[2].all <= 100 * (js[2].passed + js[2].current)
      /\ (PercentShown(js[1]) <= 0 \/ PercentShown(js[1]) <= js[1].progress)
  BY <1>2, PercentIs, FirstPercentIs DEF JobOK
<1>p. PICK p \in Int : p = PercentShown(js[1])
  BY <1>3
<1>q. PICK q \in Int : q = PercentShown(js[2])
  BY <1>3
<1>A. PICK A \in Nat : A = js[2].all
  BY <1>3
<1>B. PICK B \in Nat : B = js[2].passed + js[2].current
  BY <1>3
<1>4. q * A <= 100 * B /\ (p <= 0 \/ p <= q)
  BY <1>2, <1>3, <1>p, <1>q, <1>A, <1>B
<1>5. p * A <= 100 * B
  <2>1. CASE p <= 0
    <3>1. p * A <= 0 * A
      BY <2>1, TimesMore
    <3> QED BY <3>1
  <2>2. CASE p <= q
    <3>1. p * A <= q * A
      BY <2>2, TimesMore
    <3> QED BY <1>4, <3>1
  <2> QED BY <1>4, <2>1, <2>2
<1> QED BY <1>5, <1>p, <1>A, <1>B

-----------------------------------------------------------------------------
(* What is left to tell.                                                   *)

\* The end of what fits begins at the level of its own first call.
LEMMA SuffixFits ==
  ASSUME NEW a \in Int, NEW b \in Int, NEW s, Fits(s, a, b), NEW r \in 1..Len(s),
         NEW t, IsASequence(t), Len(t) = Len(s) - r + 1,
         \A i \in 1..Len(t) : t[i] = s[r + i - 1]
  PROVE  Fits(t, s[r].at, b)
<1>1. PICK L \in Nat : L = Len(s)
  BY EmptyIs DEF Fits
<1>2. PICK m \in Nat : m = r - 1
  BY <1>1
<1>3. PICK M \in Nat \ {0} : M = Len(t) /\ L = m + M
  <2>1. r \in 1..L /\ Len(t) = L - r + 1
    BY <1>1
  <2>2. L - r + 1 \in Nat \ {0} /\ L = m + (L - r + 1)
    BY <1>2, <2>1
  <2> QED BY <2>1, <2>2
<1>4. \A i \in 1..M : m + i \in 1..L /\ t[i] = s[m + i]
  <2>1. \A i \in 1..M : m + i \in 1..L /\ r + i - 1 = m + i
    BY <1>1, <1>2, <1>3
  <2> QED BY <1>3, <2>1
<1>5. r = m + 1 /\ 1 \in 1..M /\ M \in 1..M /\ t # <<>>
  BY <1>1, <1>2, <1>3, EmptyIs
<1>6. \A i \in 1..M : CallIsRight(t[i])
  BY <1>1, <1>4 DEF Fits
<1>7. ASSUME NEW i \in 1..(M - 1) PROVE t[i + 1].at <= LevelsAfter(t[i])
  <2>1. i \in 1..M /\ i + 1 \in 1..M /\ m + i \in 1..(L - 1) /\ m + (i + 1) = m + i + 1
    BY <1>3
  <2>2. t[i] = s[m + i] /\ t[i + 1] = s[m + i + 1]
    BY <1>4, <2>1
  <2> QED BY <1>1, <2>1, <2>2 DEF Fits
<1>8. ASSUME NEW i \in 1..M, t[i].pool # "none"
      PROVE  \E k \in i..M : t[k].do = "retry" /\ \A j \in i..k : t[j].at = t[i].at
  <2>1. m + i \in 1..L /\ t[i] = s[m + i]
    BY <1>4
  <2>2. PICK k \in (m + i)..L : s[k].do = "retry" /\ \A j \in (m + i)..k : s[j].at = s[m + i].at
    BY <1>1, <1>8, <2>1 DEF Fits
  <2>3. PICK n \in i..M : k = m + n
    <3>1. k - m \in i..M /\ k = m + (k - m)
      BY <1>3, <2>2
    <3> QED BY <3>1
  <2>4. t[n] = s[k]
    <3>1. n \in 1..M
      OBVIOUS
    <3> QED BY <1>4, <2>3, <3>1
  <2>5. ASSUME NEW j \in i..n PROVE t[j].at = t[i].at
    <3>1. j \in 1..M /\ m + j \in (m + i)..k
      BY <2>3
    <3> QED BY <1>4, <2>1, <2>2, <3>1
  <2> QED BY <2>2, <2>4, <2>5
<1>9. t[1] = s[r] /\ t[M] = s[L]
  BY <1>3, <1>4, <1>5
<1>10. s[r].at \in Int /\ L # 0 /\ s # <<>>
  <2>1. L # 0
    BY <1>3
  <2>2. s # <<>>
    BY <1>1, <2>1, EmptyIs DEF Fits
  <2> QED BY <1>1, <2>1, <2>2 DEF Fits, CallIsRight
<1>11. b <= LevelsAfter(s[L])
  BY <1>1, <1>10 DEF Fits
<1>12. /\ \A i \in 1..Len(t) : CallIsRight(t[i])
       /\ \A i \in 1..(Len(t) - 1) : t[i + 1].at <= LevelsAfter(t[i])
       /\ \A i \in 1..Len(t) : t[i].pool # "none" =>
            \E k \in i..Len(t) : t[k].do = "retry" /\ \A j \in i..k : t[j].at = t[i].at
  BY <1>3, <1>6, <1>7, <1>8
<1>13. t[1].at <= s[r].at /\ b <= LevelsAfter(t[Len(t)])
  BY <1>3, <1>9, <1>10, <1>11
<1> QED BY <1>5, <1>12, <1>13 DEF Fits

\* After the first call of what fits.
LEMMA TailFits ==
  ASSUME NEW a \in Int, NEW b \in Int, NEW s, Fits(s, a, b), s # <<>>
  PROVE  /\ Fits(Tail(s), LevelsAfter(Head(s)), b)
         /\ CallIsRight(Head(s)) /\ Head(s).at <= a /\ Head(s).at \in Nat \ {0}
<1>1. PICK S : s \in Seq(S)
  BY DEF Fits, IsASequence
<1>2. Len(s) \in Nat \ {0} /\ Head(s) = s[1]
  BY <1>1, EmptySeq
<1>3. PICK t : t = Tail(s)
  OBVIOUS
<1>4. /\ t \in Seq(S) /\ Len(t) = Len(s) - 1
      /\ \A i \in 1..Len(t) : t[i] = s[i + 1]
  BY <1>1, <1>3, HeadTailProperties
<1>5. IsASequence(t)
  BY <1>4 DEF IsASequence
<1>6. 1 \in 1..Len(s)
  BY <1>2
<1>7. CallIsRight(Head(s)) /\ Head(s).at <= a /\ Head(s).at \in Nat \ {0}
  BY <1>2, <1>6 DEF Fits, CallIsRight
<1>8. LevelsAfter(s[1]) \in Int
  BY <1>2, <1>7 DEF LevelsAfter
<1>9. CASE Len(s) = 1
  <2>1. Len(t) = 0
    BY <1>4, <1>9
  <2>2. t = <<>>
    BY <1>5, <2>1, EmptyIs
  <2>3. b <= LevelsAfter(s[1])
    BY <1>9 DEF Fits
  <2>4. Fits(<<>>, LevelsAfter(s[1]), b)
    BY <1>8, <2>3, EmptyFits
  <2> QED BY <1>2, <1>3, <1>7, <2>2, <2>4
<1>10. CASE Len(s) # 1
  <2>1. 2 \in 1..Len(s) /\ Len(t) = Len(s) - 2 + 1 /\ 1 \in 1..(Len(s) - 1) /\ 1 + 1 = 2
    BY <1>2, <1>4, <1>10
  <2>2. \A i \in 1..Len(t) : t[i] = s[2 + i - 1]
    <3>1. \A i \in 1..Len(t) : i + 1 = 2 + i - 1
      OBVIOUS
    <3> QED BY <1>4, <3>1
  <2>3. Fits(t, s[2].at, b)
    BY <1>5, <2>1, <2>2, SuffixFits
  <2>4. s[2].at <= LevelsAfter(s[1]) /\ s[2].at \in Int
    BY <2>1 DEF Fits, CallIsRight
  <2>5. Fits(t, LevelsAfter(s[1]), b)
    <3>1. PICK d \in Int, e \in Int : d = s[2].at /\ e = LevelsAfter(s[1])
      BY <1>8, <2>4
    <3>2. d <= e /\ Fits(t, d, b) /\ b <= b
      BY <2>3, <2>4, <3>1
    <3>3. Fits(t, e, b)
      BY <3>2, FitsMore
    <3> QED BY <3>1, <3>3
  <2> QED BY <1>2, <1>3, <1>7, <2>5
<1> QED BY <1>9, <1>10

\* After a pool that failed.
LEMMA WithoutPoolFits ==
  ASSUME NEW a \in Int, NEW b \in Int, Fits(todo, a, b), todo # <<>>, Head(todo).pool # "none"
  PROVE  Fits(WithoutPool, Head(todo).at, b)
<1>1. IsASequence(todo)
  BY DEF Fits
<1>2. Len(todo) \in Nat \ {0} /\ Head(todo) = todo[1] /\ 1 \in 1..Len(todo)
  BY <1>1, EmptySeq DEF IsASequence
<1>3. PICK k \in 1..Len(todo) : todo[k].do = "retry" /\ \A j \in 1..k : todo[j].at = todo[1].at
  BY <1>2 DEF Fits
<1>4. PICK r \in 1..Len(todo) :
        /\ \A i \in 1..(r - 1) : todo[i].do # "retry"
        /\ IsASequence(WithoutPool) /\ Len(WithoutPool) = Len(todo) - r + 1
        /\ \A i \in 1..Len(WithoutPool) : WithoutPool[i] = todo[r + i - 1]
  BY <1>1, <1>3, WithoutPoolBegins
<1>5. r \in 1..k
  <2>1. k \notin 1..(r - 1)
    BY <1>3, <1>4
  <2> QED BY <1>2, <2>1
<1>6. Fits(WithoutPool, todo[r].at, b)
  BY <1>4, SuffixFits
<1> QED BY <1>2, <1>3, <1>5, <1>6

\* The first phase left is for a level that is there.
LEMMA FirstPhaseFits ==
  ASSUME NEW a \in Int, NEW b \in Int, NEW s, Fits(s, a, b), NEW k \in 1..Len(s),
         \A i \in 1..(k - 1) : s[i].do # "sub"
  PROVE  s[k].at <= a /\ s[k].at \in Nat \ {0}
<1>1. Len(s) \in Nat /\ s # <<>>
  BY EmptyIs DEF Fits
<1>2. \A i \in 1..Len(s) : s[i].at \in Nat \ {0}
  BY DEF Fits, CallIsRight
<1> DEFINE Bad == {n \in Nat : n \in 1..k /\ ~(s[n].at <= a)}
<1>3. ASSUME Bad # {} PROVE FALSE
  <2>1. PICK n \in Bad : \A m \in Bad : ~(m < n)
    <3>1. PICK n \in Bad : \A m \in Bad : <<m, n>> \notin OpToRel(<, Nat)
      BY <1>3, NatLessThanWellFounded, WFMin
    <3>2. ASSUME NEW m \in Bad PROVE ~(m < n)
      BY <3>1 DEF OpToRel
    <3> QED BY <3>2
  <2>2. n # 1
    BY <1>1 DEF Fits
  <2>3. /\ n - 1 \in Nat /\ n - 1 < n /\ n - 1 \in 1..k /\ n - 1 \in 1..(k - 1)
        /\ n - 1 \in 1..(Len(s) - 1) /\ n - 1 \in 1..Len(s) /\ n - 1 + 1 = n /\ n \in 1..Len(s)
    BY <1>1, <2>2
  <2>4. s[n - 1].at <= a /\ LevelsAfter(s[n - 1]) = s[n - 1].at
    BY <2>1, <2>3 DEF LevelsAfter
  <2>5. s[n].at <= LevelsAfter(s[n - 1])
    <3>1. s[n - 1 + 1].at <= LevelsAfter(s[n - 1])
      BY <2>3 DEF Fits
    <3> QED BY <2>3, <3>1
  <2>6. s[n].at \in Int /\ s[n - 1].at \in Int /\ ~(s[n].at <= a)
    BY <1>2, <2>3
  <2> QED BY <2>4, <2>5, <2>6
<1>4. k \in Nat /\ k \in 1..k
  BY <1>1
<1> QED BY <1>2, <1>3, <1>4

-----------------------------------------------------------------------------
(* The inductive invariant: the stack's jobs agree, the bar shows the      *)
(* percentage of the first, and what is left to tell is for levels there.  *)

BarOK(js, ts, p) == StackOK(js) /\ p = PercentShown(js[1]) /\ Fits(ts, Len(js), 0)
BarInv == \E js, ts, p : js = jobs /\ ts = todo /\ p = percent /\ BarOK(js, ts, p)

\* Every scan begins with its own job, and with calls that fit.
LEMMA BarStarts == ProgressInit => BarInv
<1> SUFFICES ASSUME ProgressInit PROVE BarInv
  OBVIOUS
<1>1. PICK s \in ContentScans \cup CombinedScans \cup WordScans \cup PictureScans :
        todo = Collecting \o s \o Fiddling
  BY DEF ProgressInit
<1>2. Fits(s, 1, 1)
  BY ContentScansFit, CombinedScansFit, WordScansFit, PictureScansFit
<1>3. 1 \in Int /\ 0 \in Int /\ 0 <= 1 /\ 1 <= 1 /\ 1 \in Nat \ {0} /\ 100 \in Int
  OBVIOUS
<1>4. Fits(todo, 1, 0)
  <2>1. Fits(Collecting \o s, 1, 1)
    BY <1>2, <1>3, CollectingFits, JoinsFit
  <2>2. Fits(Fiddling, 1, 1)
    BY <1>3, SingleCallsFit DEF Fiddling
  <2>3. Fits(todo, 1, 1)
    BY <1>1, <1>3, <2>1, <2>2, JoinsFit
  <2> QED BY <1>3, <2>3, FitsMore
<1>5. PICK j : j = NewJob(<<1>>)
  OBVIOUS
<1>6. JobOK(j) /\ j.all = 1 /\ PercentShown(j) = -1
  <2>1. AreShares(<<1>>) /\ <<1>> # <<>> /\ LeftOver(<<1>>) = 1
    <3>1. <<1>> # <<>> /\ Len(<<1>>) = 1 /\ <<1>>[1] = 1
      BY SharesAre, IsOne
    <3> QED BY <3>1, SharesAre DEF LeftOver
  <2> QED BY <1>5, <2>1, NewJobOK
<1>7. jobs = <<j>> /\ Len(jobs) = 1 /\ jobs[1] = j /\ IsASequence(jobs)
  BY <1>5, IsOne DEF ProgressInit, IsASequence
<1>8. StackOK(jobs)
  BY <1>3, <1>6, <1>7 DEF StackOK
<1>9. percent = PercentShown(jobs[1])
  BY <1>6, <1>7 DEF ProgressInit
<1> QED BY <1>4, <1>7, <1>8, <1>9 DEF BarInv, BarOK

\* An update leaves a stack for what is left, whether it stops a pool, the scan or nothing.
LEMMA ReportKeepsBar ==
  ASSUME BarInv, todo # <<>>, NEW after, StackOK(after), Len(after) = Head(todo).at,
         NEW made, StackOK(made), Len(made) = LevelsAfter(Head(todo)), made[1] = after[1],
         Report(after, made)
  PROVE  BarInv'
<1>1. PICK a \in Nat : a = Len(jobs) /\ Fits(todo, a, 0)
  BY DEF BarInv, BarOK, StackOK
<1>2. a \in Int /\ 0 \in Int /\ Len(after) \in Nat /\ 0 <= Len(after) /\ Len(after) \in Int
  BY DEF StackOK
<1>3. percent' = PercentShown(after[1]) /\ percent' = PercentShown(made[1])
  BY DEF Report
<1>4. ASSUME NEW js, NEW ts, js = jobs', ts = todo', StackOK(js), percent' = PercentShown(js[1]),
             Fits(ts, Len(js), 0)
      PROVE  BarInv'
  BY <1>4 DEF BarInv, BarOK
<1>5. CASE ~stopped
  <2>1. jobs' = made /\ todo' = Tail(todo)
    BY <1>5 DEF Report
  <2>2. Fits(Tail(todo), Len(made), 0)
    BY <1>1, <1>2, TailFits
  <2> QED BY <1>3, <1>4, <2>1, <2>2
<1>6. CASE stopped /\ Head(todo).pool = "none"
  <2>1. jobs' = after /\ todo' = <<>>
    BY <1>6 DEF Report
  <2>2. Fits(<<>>, Len(after), 0)
    BY <1>2, EmptyFits
  <2> QED BY <1>3, <1>4, <2>1, <2>2
<1>7. CASE stopped /\ Head(todo).pool # "none"
  <2>1. jobs' = after /\ todo' = WithoutPool
    BY <1>7 DEF Report
  <2>2. Fits(WithoutPool, Len(after), 0)
    BY <1>1, <1>2, <1>7, WithoutPoolFits
  <2>3. PICK w : w = WithoutPool
    OBVIOUS
  <2>4. w = todo' /\ Fits(w, Len(after), 0)
    BY <2>1, <2>2, <2>3
  <2> QED BY <1>3, <1>4, <2>1, <2>4
<1> QED BY <1>5, <1>6, <1>7

\* Every step of a scan keeps its stack.
LEMMA BarStep == BarInv /\ [ProgressNext]_progressVars => BarInv'
<1> SUFFICES ASSUME BarInv, [ProgressNext]_progressVars PROVE BarInv'
  OBVIOUS
<1>1. StackOK(jobs) /\ percent = PercentShown(jobs[1]) /\ Fits(todo, Len(jobs), 0)
      /\ Len(jobs) \in Nat \ {0} /\ Len(jobs) \in Int /\ 0 \in Int /\ 0 <= Len(jobs)
  BY DEF BarInv, BarOK, StackOK
<1>2. ASSUME todo # <<>>
      PROVE  /\ Fits(Tail(todo), LevelsAfter(Head(todo)), 0) /\ CallIsRight(Head(todo))
             /\ Head(todo).at \in 1..Len(jobs) /\ JobOK(jobs[Head(todo).at])
             /\ Head(todo).at \in Nat \ {0} /\ Head(todo).n \in Int
  <2>1. /\ Fits(Tail(todo), LevelsAfter(Head(todo)), 0) /\ CallIsRight(Head(todo))
        /\ Head(todo).at <= Len(jobs) /\ Head(todo).at \in Nat \ {0}
    BY <1>1, <1>2, TailFits
  <2>2. Head(todo).at \in 1..Len(jobs)
    BY <1>1, <2>1
  <2> QED BY <1>1, <2>1, <2>2 DEF StackOK, CallIsRight
<1>3. ASSUME NEW js, NEW ts, js = jobs', ts = todo', StackOK(js), percent' = PercentShown(js[1]),
             Fits(ts, Len(js), 0)
      PROVE  BarInv'
  BY <1>3 DEF BarInv, BarOK
<1>4. ASSUME NEW ts, ts = todo', Fits(ts, Len(jobs), 0), UNCHANGED <<jobs, percent>> PROVE BarInv'
  <2>1. PICK js : js = jobs
    OBVIOUS
  <2>2. js = jobs' /\ percent' = PercentShown(js[1]) /\ StackOK(js) /\ Fits(ts, Len(js), 0)
    BY <1>1, <1>4, <2>1
  <2> QED BY <1>3, <1>4, <2>2
<1>5. CASE Progresses
  <2>1. PICK c, n, job, after :
          /\ c = Head(todo) /\ n = (IF c.do = "add" THEN jobs[c.at].progress + c.n ELSE c.n)
          /\ job = SetProgress(jobs[c.at], n) /\ after = Told(jobs, c.at, job)
    OBVIOUS
  <2>2. todo # <<>> /\ c.do \in {"set", "add"} /\ Report(after, after)
    BY <1>5, <2>1 DEF Progresses, At
  <2>3. JobOK(jobs[c.at]) /\ c.at \in 1..Len(jobs) /\ c.n \in Int
    BY <1>2, <2>1, <2>2
  <2>4. n \in Int
    BY <2>1, <2>3 DEF JobOK
  <2>5. JobOK(job) /\ job.all = jobs[c.at].all
    <3>1. PICK j : j = jobs[c.at]
      OBVIOUS
    <3> QED BY <2>1, <2>3, <2>4, <3>1, SetProgressOK
  <2>6. StackOK(after) /\ Len(after) = c.at
    BY <1>1, <2>1, <2>3, <2>5, ToldOK
  <2>7. LevelsAfter(Head(todo)) = c.at
    BY <2>1, <2>2 DEF LevelsAfter
  <2> QED BY <2>1, <2>2, <2>6, <2>7, ReportKeepsBar
<1>6. CASE StartsPhase
  <2>1. PICK c, job, after :
          /\ c = Head(todo) /\ job = StartJob(jobs[c.at], c.n) /\ after = Told(jobs, c.at, job)
    OBVIOUS
  <2>2. todo # <<>> /\ c.do \in {"job", "sub"}
    BY <1>6, <2>1 DEF StartsPhase, At
  <2>3. JobOK(jobs[c.at]) /\ c.at \in 1..Len(jobs) /\ c.n \in Int /\ CallIsRight(c)
    BY <1>2, <2>1, <2>2
  <2>4. CASE jobs[c.at].left = <<>>
    <3>1. todo' = <<>> /\ UNCHANGED <<jobs, percent>>
      BY <1>6, <2>1, <2>4 DEF StartsPhase
    <3>2. Fits(<<>>, Len(jobs), 0)
      BY <1>1, EmptyFits
    <3> QED BY <1>4, <3>1, <3>2
  <2>5. CASE jobs[c.at].left # <<>>
    <3>1. /\ JobOK(job) /\ job.all = jobs[c.at].all /\ job.progress = 0
          /\ job.currmax = IF c.n < 1 THEN 1 ELSE c.n
      <4>1. PICK j : j = jobs[c.at]
        OBVIOUS
      <4> QED BY <2>1, <2>3, <2>5, <4>1, StartJobOK
    <3>2. StackOK(after) /\ Len(after) = c.at /\ after[c.at] = job
      BY <1>1, <2>1, <2>3, <3>1, ToldOK
    <3>3. CASE c.do = "job"
      <4>1. Report(after, after)
        BY <1>6, <2>1, <2>5, <3>3 DEF StartsPhase
      <4>2. LevelsAfter(Head(todo)) = c.at
        BY <2>1, <3>3 DEF LevelsAfter
      <4> QED BY <2>1, <2>2, <3>2, <4>1, <4>2, ReportKeepsBar
    <3>4. CASE c.do = "sub"
      <4>1. PICK made : made = Append(after, NewJob(c.shares))
        OBVIOUS
      <4>2. Report(after, made)
        BY <1>6, <2>1, <2>5, <3>4, <4>1 DEF StartsPhase
      <4>3. c.n = 100 /\ AreShares(c.shares) /\ c.shares # <<>> /\ LevelsAfter(Head(todo)) = c.at + 1
        BY <2>1, <2>3, <3>4 DEF CallIsRight, LevelsAfter
      <4>4. job.currmax = 100
        BY <3>1, <4>3
      <4>5. StackOK(made) /\ Len(made) = c.at + 1 /\ made[1] = after[1]
        BY <3>1, <3>2, <4>1, <4>3, <4>4, AppendOK
      <4> QED BY <2>1, <2>2, <3>2, <4>2, <4>3, <4>5, ReportKeepsBar
    <3> QED BY <2>2, <3>3, <3>4
  <2> QED BY <2>4, <2>5
<1>7. CASE PoolBreaks
  <2>1. /\ todo' = WithoutPool /\ UNCHANGED <<jobs, percent>> /\ todo # <<>>
        /\ Head(todo).pool # "none"
    BY <1>7 DEF PoolBreaks, At
  <2>2. Fits(WithoutPool, Head(todo).at, 0)
    BY <1>1, <2>1, WithoutPoolFits
  <2>3. PICK ts : ts = WithoutPool
    OBVIOUS
  <2>4. PICK d \in Int : d = Head(todo).at /\ d <= Len(jobs)
    BY <1>2, <2>1
  <2>5. Fits(ts, d, 0)
    BY <2>2, <2>3, <2>4
  <2>6. Fits(ts, Len(jobs), 0)
    BY <1>1, <2>4, <2>5, FitsMore
  <2> QED BY <1>4, <2>1, <2>3, <2>6
<1>8. ASSUME NEW s, todo # <<>>, Head(todo).do = "retry", Fits(s, Head(todo).at, Head(todo).at),
             todo' = s \o Tail(todo), UNCHANGED <<jobs, percent>>
      PROVE  BarInv'
  <2>1. PICK t : t = Tail(todo)
    OBVIOUS
  <2>2. PICK d \in Int : d = Head(todo).at /\ d <= Len(jobs)
    BY <1>2, <1>8
  <2>3. Fits(s, d, d) /\ Fits(t, d, 0)
    <3>1. LevelsAfter(Head(todo)) = Head(todo).at
      BY <1>8 DEF LevelsAfter
    <3> QED BY <1>2, <1>8, <2>1, <2>2, <3>1
  <2>4. Fits(s \o t, d, 0)
    BY <1>1, <2>3, JoinsFit
  <2>5. Fits(s \o t, Len(jobs), 0)
    BY <1>1, <2>2, <2>4, FitsMore
  <2>6. s \o t = todo'
    BY <1>8, <2>1
  <2> QED BY <1>4, <1>8, <2>5, <2>6
<1>9. CASE RetriesHashes
  <2>1. PICK c : c = Head(todo)
    OBVIOUS
  <2>2. /\ todo # <<>> /\ c.do = "retry" /\ c.pool = "hash" /\ UNCHANGED <<jobs, percent>>
    BY <1>9, <2>1 DEF RetriesHashes, At
  <2>3. c.at \in Nat \ {0} /\ c.n \in Nat /\ c.shares[1] \in Nat
    BY <1>2, <2>1, <2>2 DEF CallIsRight
  <2>4. PICK failed \in 0..c.n : \E done \in {c.n - failed, c.n} :
          todo' = Rehash(c.at, c.shares[1], c.n, failed, done) \o Tail(todo)
    BY <1>9, <2>1 DEF RetriesHashes
  <2>5. PICK done \in {c.n - failed, c.n} :
          todo' = Rehash(c.at, c.shares[1], c.n, failed, done) \o Tail(todo)
    BY <2>4
  <2>6. failed \in Nat /\ failed <= c.n /\ done \in Nat
    BY <2>3, <2>5
  <2>7. PICK s : s = Rehash(c.at, c.shares[1], c.n, failed, done)
    OBVIOUS
  <2>8. Fits(s, c.at, c.at)
    BY <2>3, <2>6, <2>7, RehashFits
  <2> QED BY <1>8, <2>1, <2>2, <2>5, <2>7, <2>8
<1>10. CASE RetriesPictures
  <2>1. PICK c : c = Head(todo)
    OBVIOUS
  <2>2. todo # <<>> /\ c.do = "retry" /\ UNCHANGED <<jobs, percent>>
    BY <1>10, <2>1 DEF RetriesPictures, At
  <2>3. c.at \in Nat \ {0} /\ c.at \in Int /\ c.at <= c.at
    BY <1>2, <2>1, <2>2
  <2>4. PICK left \in {0} \cup Counts :
          todo' = (IF left = 0 THEN <<>> ELSE Iter(c.at, left)) \o Tail(todo)
    BY <1>10, <2>1 DEF RetriesPictures
  <2>5. left \in Nat
    BY ProgressAssumption
  <2>6. PICK s : s = IF left = 0 THEN <<>> ELSE Iter(c.at, left)
    OBVIOUS
  <2>7. Fits(s, c.at, c.at)
    BY <2>3, <2>5, <2>6, EmptyFits, IterFits
  <2> QED BY <1>8, <2>1, <2>2, <2>4, <2>6, <2>7
<1>11. CASE UNCHANGED <<jobs, todo, percent>>
  <2>1. PICK ts : ts = todo
    OBVIOUS
  <2> QED BY <1>1, <1>4, <1>11, <2>1
<1>12. Returns \/ Cancel \/ UNCHANGED progressVars => UNCHANGED <<jobs, todo, percent>>
  BY DEF Returns, Cancel, progressVars
<1> QED BY <1>5, <1>6, <1>7, <1>9, <1>10, <1>11, <1>12 DEF ProgressNext

\* What the invariant says of the bar.
LEMMA BarInvIsHonest == BarInv => BarIsHonest
<1> SUFFICES ASSUME BarInv PROVE BarIsHonest
  OBVIOUS
<1>1. StackOK(jobs) /\ percent = PercentShown(jobs[1]) /\ Fits(todo, Len(jobs), 0)
      /\ Len(jobs) \in Nat \ {0} /\ Len(jobs) \in Int /\ 0 \in Int
  BY DEF BarInv, BarOK, StackOK
<1>2. PICK S : todo \in Seq(S)
  BY <1>1 DEF Fits, IsASequence
<1>3. DOMAIN todo = 1..Len(todo) /\ Len(todo) \in Nat
  BY <1>2, LenProperties
<1>4. ASSUME percent = 100, NEW i \in PhasesLeft
      PROVE  \E k \in PhasesLeft :
               k <= i /\ jobs[todo[k].at].left = <<>> /\ \A l \in PhasesLeft : k <= l
  <2>1. PhasesLeft \subseteq 1..Len(todo)
        /\ \A l \in 1..Len(todo) : l \notin PhasesLeft => todo[l].do # "sub"
    BY <1>3 DEF PhasesLeft
  <2>2. PICK k \in PhasesLeft : \A l \in PhasesLeft : k <= l
    <3>1. PhasesLeft \subseteq Nat
      BY <1>3, <2>1
    <3>2. PICK k \in PhasesLeft : \A l \in PhasesLeft : <<l, k>> \notin OpToRel(<, Nat)
      BY <3>1, NatLessThanWellFounded, WFMin
    <3>3. ASSUME NEW l \in PhasesLeft PROVE k <= l
      <4>1. ~(l < k)
        BY <3>1, <3>2 DEF OpToRel
      <4> QED BY <3>1, <4>1
    <3> QED BY <3>3
  <2>3. \A l \in 1..(k - 1) : todo[l].do # "sub"
    <3>1. \A l \in 1..(k - 1) : l \in 1..Len(todo) /\ ~(k <= l)
      BY <1>3, <2>1
    <3> QED BY <2>1, <2>2, <3>1
  <2>4. k \in 1..Len(todo)
    BY <2>1
  <2>5. todo[k].at <= Len(jobs) /\ todo[k].at \in Nat \ {0}
    BY <1>1, <2>3, <2>4, FirstPhaseFits
  <2>6. todo[k].at \in 1..Len(jobs)
    BY <1>1, <2>5
  <2>7. jobs[todo[k].at].left = <<>>
    <3>1. PercentShown(jobs[1]) >= 100
      BY <1>1, <1>4
    <3> QED BY <1>1, <2>6, <3>1, FullMeansAllBegun
  <2> QED BY <2>2, <2>7
<1>5. HundredMeansDone
  BY <1>4 DEF HundredMeansDone
<1>6. SharesAreRespected
  BY <1>1, FirstKeepsToIt DEF SharesAreRespected
<1> QED BY <1>5, <1>6 DEF BarIsHonest

\* The bar is not full while a phase has yet to begin, and no phase eats into the share of the
\* next, whatever the scan does, finds or has to do again.
THEOREM BarStaysHonest == ProgressSpec => []BarIsHonest
BY BarStarts, BarStep, BarInvIsHonest, PTL DEF ProgressSpec
===============================================================================
