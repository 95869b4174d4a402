------------------------------- MODULE Progress -------------------------------
(***************************************************************************)
(* The percentage a scan shows.  A Job (hscommon/jobprogress/job.py) has a *)
(* list of shares, each start_job spends one, and a subjob reports into    *)
(* the phase that started it.  The phases a scan starts depend on its      *)
(* type, on what it finds and on whether a process pool broke; `todo' is   *)
(* what the scan has left to tell its jobs.  Only some of the updates of a *)
(* loop are kept.  An exception that an update raises (JobCancelled) runs  *)
(* into the `except Exception' of a pool, which goes on without the pool.  *)
(***************************************************************************)
EXTENDS Integers, FiniteSets, SequencesExt

CONSTANTS
  Counts,          \* the numbers of files, words or size classes of a phase
  Refresh          \* the updates are made every so many files (_BATCH_SIZE, 100)

ASSUME ProgressAssumption == Counts \subseteq Nat \ {0} /\ Refresh \in Nat \ {0}

VARIABLES
  jobs,       \* the main job, its subjob, the subjob of that...
  todo,       \* the calls still to be made
  poolFailed, \* the pool at work failed
  percent,    \* last_progress
  stopped,  \* job_cancelled
  result     \* "none", "done", "cancelled", "failed"

progressVars == <<jobs, todo, poolFailed, percent, stopped, result>>

Least(a, b) == IF a < b THEN a ELSE b

-----------------------------------------------------------------------------
(* Jobs.                                                                   *)

\* _jobcount
JobCount(shares) ==
  LET upto[k \in 0..Len(shares)] == IF k = 0 THEN 0 ELSE upto[k - 1] + shares[k]
  IN  upto[Len(shares)]
NewJob(shares) ==
  [left |-> shares, all |-> JobCount(shares), current |-> 0, passed |-> 0, progress |-> 0, currmax |-> 1]

PercentShown(job) ==
  IF job.current = 0 THEN -1
  ELSE ((job.passed * job.currmax + job.current * job.progress) * 100) \div (job.all * job.currmax)

\* Mutant: the cap is left out.
Uncapped(job, n) == [job EXCEPT !.progress = n]
SetProgress(job, n) == [job EXCEPT !.progress = Least(n, job.currmax)]

\* start_job, when a share is left.
StartJob(job, max) ==
  [job EXCEPT !.passed = @ + job.current, !.current = Head(job.left), !.left = Tail(@),
              !.progress = 0, !.currmax = IF max < 1 THEN 1 ELSE max]

\* The update of the job at level d goes up through _subjob_callback; the
\* subjobs below it are not used any more.
Told(js, d, job) ==
  LET level[k \in 1..d] == IF k = d THEN job ELSE SetProgress(js[k], PercentShown(level[k + 1]))
  IN  [k \in 1..d |-> level[k]]

-----------------------------------------------------------------------------
(* What a scan tells its jobs.  A call made inside a pool's try names it.  *)

Call(d, do, n, shares, pool) == [at |-> d, do |-> do, n |-> n, shares |-> shares, pool |-> pool]
Start(d, n) == <<Call(d, "job", n, <<>>, "none")>>
Subjob(d, shares) == <<Call(d, "sub", 100, shares, "none")>>
TwoPhases(d) == Subjob(d, <<2, 8>>)
Set(d, n) == <<Call(d, "set", n, <<>>, "none")>>
Halves(d, n) == [i \in 1..(IF n = 1 THEN 1 ELSE 2) |->
                   Call(d, "add", IF n = 1 THEN 1 ELSE IF i = 1 THEN n \div 2 ELSE n - n \div 2, <<>>, "none")]

\* iter_with_progress over n elements.
Iter(d, n) == Start(d, n) \o Halves(d, n) \o Set(d, 100)

\* The cache look-ups, the pool and what it leaves for _hash_files_parallel.
Hash(d, total, misses) ==
  Start(d, total) \o [i \in 1..((total + Refresh - 1) \div Refresh) |->
                        Call(d, "set", (i - 1) * Refresh, <<>>, "none")]
  \o (IF misses = 0 THEN <<>>
      ELSE [i \in 1..(misses \div Refresh) |->
              Call(d, "set", total \div 2 + (i * Refresh * (total \div 2)) \div misses, <<>>, "hash")]
           \o <<Call(d, "retry", misses, <<total>>, "hash")>>)
  \o Set(d, total)

\* The failed entries are hashed one by one, after `done' results.
Rehash(d, total, misses, failed, done) ==
  [i \in 1..(failed \div Refresh) |->
     Call(d, "set", total \div 2 + ((done + i * Refresh) * (total \div 2)) \div misses, <<>>, "none")]

\* prepare_pictures: nothing to do, the pool, or one picture after another.
Prepare(d, n, pool) ==
  IF n = 0 THEN <<>> ELSE IF ~pool THEN Iter(d, n)
  ELSE Start(d, n) \o [i \in 1..(n \div Refresh) |-> Call(d, "set", i * Refresh, <<>>, "pictures")]
       \o <<Call(d, "retry", n, <<n>>, "pictures")>>

\* matchblock.getmatches, with `new' pictures to prepare and `found' with blocks.
PictureMatches(d, new, pool, found) ==
  Subjob(d, <<3, 7>>) \o Prepare(d + 1, new, pool) \o TwoPhases(d + 1)
  \o (IF found < 2 THEN <<>> ELSE Start(d + 2, found) \o Halves(d + 2, found))

\* _prepare_content_candidates and content_classes.
ContentMatches(d, candidates, misses, buckets) ==
  TwoPhases(d) \o (IF candidates = 0 THEN <<>> ELSE Hash(d + 1, candidates, misses))
  \o Start(d + 1, buckets) \o Halves(d + 1, buckets)

\* The words of n files: _getmatches and engine.getmatches, which stops
\* part of the way at GETMATCHES_LIMIT or when memory runs out.
WordMatches(d, n, words, cut) ==
  TwoPhases(d) \o Iter(d + 1, n) \o Subjob(d + 1, <<1, 1>>) \o Subjob(d + 2, <<1, 1>>)
  \o Iter(d + 3, n) \o Start(d + 2, words)
  \o (IF cut THEN <<Head(Halves(d + 2, words))>> ELSE Halves(d + 2, words))

Verify(n) == [i \in 1..2 |-> Call(1, "set", IF i = 1 THEN 50 \div n ELSE 100, <<>>, "none")]

Collecting == [i \in 1..2 |-> Call(1, "set", IF i = 1 THEN 0 ELSE -1, <<>>, "none")]
Fiddling == Set(1, 100)

\* Of so many files, so many.
Some == {p \in ({0} \cup Counts) \X ({0} \cup Counts) : p[2] <= p[1]}

ContentScans ==
  {ContentMatches(1, p[1], p[2], b) \o v : p \in Some, b \in Counts, v \in {<<>>} \cup {Verify(i) : i \in Counts}}
\* The second matcher of a combined scan, which looks for pictures.
PicturesToo == {<<>>} \cup {PictureMatches(2, c, pool, c) : c \in Counts, pool \in BOOLEAN}
CombinedScans ==
  {TwoPhases(1) \o ContentMatches(2, p[1], p[2], b) \o q \o v :
     p \in Some, b \in Counts, q \in PicturesToo, v \in {<<>>, Verify(1)}}
WordScans ==
  {s \o WordMatches(IF s = <<>> THEN 1 ELSE 2, n, w, cut) :
     s \in {<<>>, TwoPhases(1)}, n \in Counts, w \in Counts, cut \in BOOLEAN}
PictureScans ==
  {PictureMatches(1, n, pool, f) : n \in {0} \cup Counts, pool \in BOOLEAN, f \in {0} \cup Counts}
  \cup {Set(1, 100)} \cup {Iter(1, n) : n \in Counts}

-----------------------------------------------------------------------------
ProgressInit ==
  /\ jobs = <<NewJob(<<1>>)>>
  /\ todo \in {Collecting \o s \o Fiddling : s \in ContentScans \cup CombinedScans \cup WordScans \cup PictureScans}
  /\ poolFailed = FALSE /\ percent = -1 /\ stopped = FALSE /\ result = "none"

\* What is left of a scan whose pool fails: the pool's updates up to its retry are not made.
WithoutPool ==
  LET retry == CHOOSE i \in DOMAIN todo :
                 todo[i].do = "retry" /\ \A k \in 1..(i - 1) : todo[k].do # "retry"
  IN  SubSeq(todo, retry, Len(todo))

\* Mutant: the callback is spared an update that changes nothing.
ReportIfMoved(after, made) ==
  /\ jobs' = made /\ percent' = PercentShown(after[1])
  /\ IF ~stopped \/ percent' = percent THEN todo' = Tail(todo) /\ UNCHANGED <<poolFailed, result>>
     ELSE IF Head(todo).pool = "none" THEN todo' = <<>> /\ result' = "cancelled" /\ UNCHANGED poolFailed
     ELSE todo' = WithoutPool /\ poolFailed' = TRUE /\ UNCHANGED result
\* The root's callback takes the percentage, and its answer raises
\* JobCancelled at once or lets the scan go on with the jobs `made'.
Report(after, made) ==
  /\ percent' = PercentShown(after[1])
  /\ IF ~stopped THEN jobs' = made /\ todo' = Tail(todo) /\ UNCHANGED <<poolFailed, result>>
     ELSE /\ jobs' = after
          /\ IF Head(todo).pool = "none"
             THEN todo' = <<>> /\ result' = "cancelled" /\ UNCHANGED poolFailed
             ELSE todo' = WithoutPool /\ poolFailed' = TRUE /\ UNCHANGED result

At(do) == result = "none" /\ todo # <<>> /\ Head(todo).do \in do

\* set_progress and add_progress.
Progresses ==
  /\ At({"set", "add"})
  /\ LET c == Head(todo)
         n == IF c.do = "add" THEN jobs[c.at].progress + c.n ELSE c.n
         after == Told(jobs, c.at, SetProgress(jobs[c.at], n))
     IN  Report(after, after)
  /\ UNCHANGED stopped

\* start_job and start_subjob: a job without a share left raises JobCountError.
StartsPhase ==
  /\ At({"job", "sub"})
  /\ LET c == Head(todo)
         after == Told(jobs, c.at, StartJob(jobs[c.at], c.n))
     IN  IF jobs[c.at].left = <<>>
         THEN result' = "failed" /\ todo' = <<>> /\ UNCHANGED <<jobs, poolFailed, percent>>
         ELSE Report(after, IF c.do = "sub" THEN Append(after, NewJob(c.shares)) ELSE after)
  /\ UNCHANGED stopped

\* The pool does not start, or breaks.
PoolBreaks ==
  /\ At({"set", "retry"}) /\ Head(todo).pool # "none" /\ ~poolFailed
  /\ todo' = WithoutPool /\ poolFailed' = TRUE
  /\ UNCHANGED <<jobs, percent, stopped, result>>

\* What is left after the pool: single failures in one that held, for hashes.
RetriesHashes ==
  /\ At({"retry"}) /\ Head(todo).pool = "hash"
  /\ LET c == Head(todo) IN \E failed \in 0..c.n :
       todo' = Rehash(c.at, c.shares[1], c.n, failed, IF poolFailed THEN c.n - failed ELSE c.n) \o Tail(todo)
  /\ poolFailed' = FALSE
  /\ UNCHANGED <<jobs, percent, stopped, result>>

RetriesPictures ==
  /\ At({"retry"}) /\ Head(todo).pool = "pictures"
  /\ LET c == Head(todo) IN \E left \in IF poolFailed THEN {0} \cup {n \in Counts : n <= c.n} ELSE {0} :
       todo' = (IF left = 0 THEN <<>> ELSE Iter(c.at, left)) \o Tail(todo)
  /\ poolFailed' = FALSE
  /\ UNCHANGED <<jobs, percent, stopped, result>>

\* The scan returns, without telling its job anything more.
Returns ==
  /\ result = "none" /\ todo = <<>>
  /\ result' = "done"
  /\ UNCHANGED <<jobs, todo, poolFailed, percent, stopped>>

\* The user, while the job still has something to say.
Cancel ==
  /\ result = "none" /\ todo # <<>> /\ ~stopped
  /\ stopped' = TRUE
  /\ UNCHANGED <<jobs, todo, poolFailed, percent, result>>

ProgressNext == Progresses \/ StartsPhase \/ PoolBreaks \/ RetriesHashes \/ RetriesPictures \/ Returns \/ Cancel

ProgressSpec == ProgressInit /\ [][ProgressNext]_progressVars

-----------------------------------------------------------------------------
(* Properties.                                                             *)

PhasesLeft == {i \in DOMAIN todo : todo[i].do \in {"job", "sub", "retry"}}

\* The bar is not full while a phase of the scan has yet to begin, however
\* the shares are nested and whatever was retried.
\* Left out: the scan whose next phase is refused (NoPhaseIsRefused).
HundredMeansDone ==
  percent = 100 =>
    \A i \in PhasesLeft : \E k \in PhasesLeft :
      k <= i /\ jobs[todo[k].at].left = <<>> /\ \A l \in PhasesLeft : k <= l

\* A phase keeps to its share of the bar: hashing retried files, which counts
\* results twice, does not eat into the share of what follows.
SharesAreRespected ==
  (Len(jobs) > 1 /\ \E i \in DOMAIN todo : todo[i].at > 1)
    => percent * jobs[2].all <= 100 * (jobs[2].passed + jobs[2].current)

\* The bar tells how much of the scan is left, not how much of a phase.
BarIsHonest == HundredMeansDone /\ SharesAreRespected

\* A job cancelled while it still reports ends as cancelled, and its results
\* are not taken for those of a whole scan, although the pools swallow the
\* exception.
CancelIsFinal == stopped => result # "done"

\* "Anything the pool could not handle -- a failed worker, or a pool that could
\* not start at all -- is returned for the sequential path"
\* (core/pe/matchblock.py): the scan goes on, and no job is asked for
\* more phases than it was given.
NoPhaseIsRefused == result # "failed"
=============================================================================
