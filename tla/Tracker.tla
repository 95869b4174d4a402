-------------------------------- MODULE Tracker --------------------------------
(***************************************************************************)
(* ProgressTracker (hscommon/jobprogress/tracker.py): the rate of a phase  *)
(* and, when the rate can be trusted, an estimate of the time left.  Time  *)
(* goes in ticks of five seconds.  The worker's pace is the units it does  *)
(* in a tick; it reports at the end of each tick in which it did any.      *)
(***************************************************************************)
EXTENDS Integers, FiniteSets, Sequences

CONSTANTS
  Paces,           \* units a tick; 0 while a file, or the disk, keeps the worker
  Totals,          \* totals of a phase; Open is the phase that does not know
  Open,
  Phases,          \* bound: phases of the job
  Changes,         \* bound: changes of pace
  Horizon,         \* bound: ticks of the job
  WINDOW, MIN_ELAPSED_FOR_ESTIMATE, MIN_STABILITY_SPAN,  \* in ticks
  MIN_UNITS_FOR_ESTIMATE

ASSUME TrackerAssumption ==
  /\ Paces \subseteq Nat /\ Totals \subseteq Nat /\ Open \notin Totals
  /\ {Phases, Changes, Horizon, WINDOW, MIN_ELAPSED_FOR_ESTIMATE, MIN_STABILITY_SPAN,
      MIN_UNITS_FOR_ESTIMATE} \subseteq Nat

VARIABLES
  now,
  samples,        \* (time, units done), and the phase the worker was in
  total, done,    \* of the latest report
  phaseStarted,
  phaseAt, extent,  \* the worker's own: its phase, and how many units that has
  pace, changes,  \* its pace, and how often that changed
  since, before   \* when it last changed, and the time before

trackerVars == <<now, samples, total, done, phaseStarted, phaseAt, extent, pace, changes, since, before>>

TrackerInit ==
  /\ now = 0 /\ samples = <<>> /\ total = Open /\ done = 0 /\ phaseStarted = 0
  /\ phaseAt = 1 /\ extent \in Totals \cup {Open}
  /\ pace = 0 /\ changes = 0 /\ since = 0 /\ before = 0

-----------------------------------------------------------------------------
NewPhase(n) == extent # total \/ n < done

\* _trim, which keeps two samples however old.
Trimmed(s, t) ==
  LET stays == {k \in DOMAIN s : Len(s) - k >= 2 => t - s[k].at <= WINDOW}
      first == CHOOSE k \in stays : \A l \in stays : k <= l
  IN  SubSeq(s, first, Len(s))

Kept(n) == IF NewPhase(n) THEN <<>> ELSE samples

ReportUnits(n) ==
  /\ samples' = Trimmed(Append(Kept(n), [at |-> now', done |-> n, phaseAt |-> phaseAt']), now')
  /\ phaseStarted' = IF NewPhase(n) THEN now' ELSE phaseStarted
  /\ total' = extent' /\ done' = n

\* What a phase has done when its worker has done p more.
Upto(n) == IF extent = Open \/ n < extent THEN n ELSE extent
Reached == IF samples # <<>> /\ samples[Len(samples)].phaseAt = phaseAt THEN done ELSE 0

Tick(p) ==
  /\ now < Horizon /\ now' = now + 1
  /\ p # pace => changes < Changes
  /\ pace' = p /\ UNCHANGED <<phaseAt, extent>>
  /\ IF p = pace THEN UNCHANGED <<changes, since, before>>
     ELSE changes' = changes + 1 /\ since' = now /\ before' = since
  /\ extent # Open => Reached < extent
  /\ IF p = 0 THEN UNCHANGED <<samples, total, done, phaseStarted>> ELSE ReportUnits(Upto(Reached + p))

\* A loop that knows its length runs to its end before the next one begins.
NextPhase ==
  /\ phaseAt < Phases /\ (extent # Open => Reached = extent)
  /\ phaseAt' = phaseAt + 1 /\ extent' \in Totals \cup {Open}
  /\ UNCHANGED <<now, samples, total, done, phaseStarted, pace, changes, since, before>>

TrackerNext == (\E p \in Paces : Tick(p)) \/ NextPhase

TrackerSpec == TrackerInit /\ [][TrackerNext]_trackerVars

-----------------------------------------------------------------------------
(* What is read: rates are fractions <<units, ticks>>.                     *)

\* The rate from the first to the last of some samples.
Slope(picked) ==
  LET i == CHOOSE k \in picked : \A l \in picked : k <= l
      j == CHOOSE k \in picked : \A l \in picked : l <= k
  IN  <<samples[j].done - samples[i].done, samples[j].at - samples[i].at>>

\* MIN_SPAN_SECONDS is less than a tick.
Rate == IF Len(samples) < 2 THEN <<0, 1>> ELSE Slope(DOMAIN samples)

Within(a, b, n, d) == a[1] * b[2] * d <= n * b[1] * a[2] /\ b[1] * a[2] * d <= n * a[1] * b[2]

Long == Len(samples) >= 4 /\ Slope(DOMAIN samples)[2] >= MIN_STABILITY_SPAN

\* Mutant: the window's rate is compared with what it was a sample ago.
AgreesWithLast == Long /\ Within(Slope(DOMAIN samples), Slope(1..Len(samples) - 1), 8, 5)
\* is_stable: the halves of the window agree within STABILITY_RATIO.
IsStable ==
  /\ Long
  /\ LET Twice(i) == 2 * samples[i].at
         ends == samples[1].at + samples[Len(samples)].at
         older == {i \in DOMAIN samples : Twice(i) <= ends}
         newer == {i \in DOMAIN samples : Twice(i) >= ends}
     IN  /\ Cardinality(older) >= 2 /\ Cardinality(newer) >= 2
         /\ Slope(older)[1] > 0 /\ Slope(newer)[1] > 0
         /\ Within(Slope(older), Slope(newer), 8, 5)

\* remaining_seconds is not None.
Estimates ==
  /\ total # Open /\ now - phaseStarted >= MIN_ELAPSED_FOR_ESTIMATE /\ done >= MIN_UNITS_FOR_ESTIMATE
  /\ IsStable /\ Rate[1] > 0 /\ total > done

-----------------------------------------------------------------------------
(* Properties.                                                             *)

\* An estimate mixes no two phases: a phase that begins anew, even with the
\* total of the last one, is not judged by the other's pace or age.
EstimateIsOfThisPhase ==
  Estimates => \A i \in DOMAIN samples : samples[i].phaseAt = samples[Len(samples)].phaseAt

\* Once a third of the window (ten seconds) has passed since the pace changed, an
\* estimate made at a report is at least half as long as the present pace takes, if it
\* is the window's only change: more than the ratio the halves may differ by, as both
\* may hold some of the old pace.  It may be too long, as a stall around the midpoint
\* falls between the halves; a pace that changes twice may be missed.
EstimateIsNotShort ==
  (Estimates /\ samples[Len(samples)].at = now /\ 3 * (now - since) >= WINDOW /\ before <= samples[1].at)
    => Rate[1] <= 2 * pace * Rate[2]

\* An estimate that is shown is one of what goes on.
EstimatesAreHonest == EstimateIsOfThisPhase /\ EstimateIsNotShort
=============================================================================
