----------------------------- MODULE CliProofs -----------------------------
(***************************************************************************)
(* Proofs about the command line (module Cli): any number of paths and of  *)
(* processes that scan, plan and delete, from results in memory or from a  *)
(* file, while other programs change, remove and bring back the files; and *)
(* about the time left that its records of a scan, as the window of the    *)
(* other front end, get from the tracker (module Tracker).                 *)
(***************************************************************************)
EXTENDS Cli, Tracker, WellFoundedInduction, TLAPS

\* What an explicit or saved result is made of, and when it saw its files.
IsResults(res) ==
  /\ res = [groups |-> res.groups, seen |-> res.seen, refs |-> res.refs, partial |-> res.partial]
  /\ UNION {g.dupes : g \in res.groups} \subseteq Path
  /\ \A p \in Path : res.seen[p] \in Nat /\ res.seen[p] <= disk[p].time
ResultsInv == IsResults(results) /\ (saved # Nobody => IsResults(saved))

\* What a process has in its hands at each stage.
WorkInv ==
  /\ stage \notin {"deleting", "ended"} => removed = {} /\ skipped = {} /\ verified = {}
  /\ stage # "ended" => record = Nobody
  /\ removed \cup skipped \subseteq Path
  /\ stage # "deleting" => queue = {}
  /\ queue \subseteq Candidates
  /\ stage \in {"prepare", "scan"} => ~Has("from_results")
  /\ stage = "load" => Has("from_results") /\ saved # Nobody
  /\ stage = "ended" /\ removed \cup skipped # {}
     => record = [deleted |-> removed, skipped |-> skipped]

\* The reference folders are in the results, those of the process and those that are saved.
RefsInv ==
  /\ guarded = {} \/ guarded \subseteq saved.refs
  /\ stage \in {"emit", "plan", "confirm", "deleting"} =>
       IF Has("from_results") THEN guarded \subseteq results.refs ELSE results.refs
         = References(line)
  /\ ReferencesStay

\* What the gate did not count cannot be deleted, unless it was away.
ConsentInv ==
  /\ PartialsNeedConsent
  /\ stage = "deleting" /\ results.partial = "sampled" /\ ~Has("allow_partial") =>
       \A p \in queue \cap Path : Deletable(p) => p \in returned

\* What a plan says of the saved results is what a deletion from them would remove, or has
\* removed and would yet.
Named(res) == (UNION {g.dupes : g \in res.groups}) \ res.refs
Would(res) == {p \in Named(res) : disk[p].there /\ disk[p].time = res.seen[p]}
PlanInv ==
  /\ Has("from_results") /\ stage \in {"emit", "plan", "confirm"} => results = saved
  /\ promise # Nobody =>
       /\ removed = {} /\ ~RecordWritten => promise \cup returned = Would(saved) \cup returned
       /\ Has("from_results") /\ (stage = "deleting" \/ record # Nobody) =>
            promise \cup returned = removed \cup {p \in queue : Deletable(p)} \cup returned

CliInv == CliTypeOK /\ ResultsInv /\ WorkInv /\ RefsInv /\ ConsentInv /\ PlanInv

\* Without results there is nothing to delete.
LEMMA NoCandidates == results = NoResults => Candidates = {}
BY DEF Candidates, NoResults

\* A scan's results are about paths, seen as they are now, with the references of the scan.
LEMMA ScanResultIs ==
  ASSUME disk \in [Path -> [bytes : Bytes, time : Nat, there : BOOLEAN]],
         NEW files \in SUBSET Path,
         NEW refs, NEW sampled \in BOOLEAN,
         NEW res \in ScanResults(files, refs, sampled)
  PROVE  IsResults(res) /\ res.refs = refs
<1>1. PICK groups \in Groupings(files, refs, sampled) :
        res = [groups |-> groups, seen |-> [p \in Path |-> disk[p].time], refs |-> refs,
               partial |-> IF sampled THEN "sampled" ELSE "full"]
  BY DEF ScanResults
<1>2. ASSUME NEW g \in groups PROVE g.dupes \subseteq Path
  <2>1. PICK class \in Alike(files, sampled) : g \in GroupsFrom(class, refs)
    BY DEF Groupings
  <2>2. class \subseteq files
    BY DEF Alike
  <2>3. PICK cut \in Cuts(class, refs) : \E r : g = [ref |-> r, dupes |-> cut \ {r}]
    BY <2>1 DEF GroupsFrom
  <2>4. cut \subseteq class
    BY DEF Cuts
  <2> QED BY <2>2, <2>3, <2>4
<1> QED BY <1>1, <1>2 DEF IsResults

\* A scan collects paths.
LEMMA CollectedArePaths == line \in CommandLine => Collected(line) \subseteq Path
BY CliConstants DEF Collected, CommandLine

\* The results file holds the results, with or without what they say of partial matches.
LEMMA WrittenIs ==
  ASSUME NEW res, IsResults(res), NEW other \in Written(res)
  PROVE  IsResults(other) /\ other.refs = res.refs
<1>1. CASE other = res
  BY <1>1
<1>2. CASE other = [res EXCEPT !.partial = "unrecorded"]
  <2>1. other = [groups |-> res.groups, seen |-> res.seen, refs |-> res.refs,
                 partial |-> "unrecorded"]
    BY <1>2 DEF IsResults
  <2> QED BY <2>1 DEF IsResults
<1> QED BY <1>2 DEF Written

\* No process has started.
LEMMA CliStarts == CliInit => CliInv
<1> SUFFICES ASSUME CliInit PROVE CliInv
  OBVIOUS
<1>1. disk \in [Path -> [bytes : Bytes, time : {1}, there : {TRUE}]]
  BY DEF CliInit
<1>2. disk \in [Path -> [bytes : Bytes, time : Nat, there : BOOLEAN]]
  <2>1. ASSUME NEW p \in Path PROVE disk[p] \in [bytes : Bytes, time : Nat, there : BOOLEAN]
    <3>1. disk[p] \in [bytes : Bytes, time : {1}, there : {TRUE}]
      BY <1>1
    <3>2. {1} \subseteq Nat /\ {TRUE} \subseteq BOOLEAN
      OBVIOUS
    <3> QED BY <3>1, <3>2
  <2> QED BY <1>1, <2>1
<1>3. IsResults(results)
  BY <1>2 DEF CliInit, NoResults, IsResults
<1>4. (saved = Nobody /\ guarded = {}) \/ (IsResults(saved) /\ guarded = saved.refs)
  BY <1>2, ScanResultIs, WrittenIs DEF CliInit
<1>5. guarded \subseteq Path
  BY CliConstants DEF CliInit
<1>6. CliTypeOK
  BY <1>2, <1>5 DEF CliInit, CliTypeOK, Idle, CommandLine
<1>7. WorkInv
  BY DEF CliInit, WorkInv
<1>8. RefsInv
  BY <1>4 DEF CliInit, RefsInv, ReferencesStay
<1>9. ConsentInv
  BY DEF CliInit, ConsentInv, PartialsNeedConsent
<1>10. PlanInv
  BY DEF CliInit, PlanInv
<1> QED BY <1>3, <1>4, <1>6, <1>7, <1>8, <1>9, <1>10 DEF CliInv, ResultsInv

\* A results record that fits the disk fits it as long as the times do not go back.
LEMMA ResultsLast ==
  ASSUME NEW res, IsResults(res), UNCHANGED disk
  PROVE  IsResults(res)'
BY DEF IsResults

\* A scan of nothing has nothing to fit.
LEMMA NoResultsFit ==
  ASSUME disk \in [Path -> [bytes : Bytes, time : Nat, there : BOOLEAN]]
  PROVE  IsResults(NoResults)
BY DEF NoResults, IsResults

\* What a deletion, a loss and a return do to a file.
LEMMA ThereDoes ==
  ASSUME disk \in [Path -> [bytes : Bytes, time : Nat, there : BOOLEAN]], NEW p \in Path,
         NEW there \in BOOLEAN,
         disk' = [disk EXCEPT ![p].there = there]
  PROVE  /\ disk' \in [Path -> [bytes : Bytes, time : Nat, there : BOOLEAN]]
         /\ disk'[p].there = there
         /\ \A q \in Path : disk'[q].time = disk[q].time /\ (q # p => disk'[q] = disk[q])
OBVIOUS

\* A write makes a file newer and leaves the others.
LEMMA OverwriteDoes ==
  ASSUME disk \in [Path -> [bytes : Bytes, time : Nat, there : BOOLEAN]], NEW p \in Path,
         NEW b \in Bytes, Overwrite(p, b)
  PROVE  /\ disk' \in [Path -> [bytes : Bytes, time : Nat, there : BOOLEAN]]
         /\ disk'[p].time = disk[p].time + 1
         /\ \A q \in Path : disk'[q].time >= disk[q].time /\ (q # p => disk'[q] = disk[q])
<1>1. disk' = [disk EXCEPT ![p] = [bytes |-> b, time |-> disk[p].time + 1, there |-> TRUE]]
  BY DEF Overwrite
<1> QED BY <1>1

\* The results in hand and the saved ones are never newer than the disk.
LEMMA ResultsStep == CliInv /\ [CliNext]_cliVars => ResultsInv'
<1> SUFFICES ASSUME CliInv, [CliNext]_cliVars PROVE ResultsInv'
  OBVIOUS
<1>1. ASSUME NEW c \in CommandLines, Invoke(c) PROVE ResultsInv'
  BY <1>1 DEF Invoke, worldVars, outVars, workVars, CliInv, ResultsInv, IsResults
<1>2. CASE CheckArguments
  BY <1>2 DEF CheckArguments, worldVars, outVars, workVars, CliInv, ResultsInv, IsResults
<1>3. CASE Prepare
  BY <1>3 DEF Prepare, worldVars, outVars, workVars, CliInv, ResultsInv, IsResults
<1>4. CASE Scan
  <2>1. ASSUME NEW res, IsResults(res)
        PROVE (\A p \in Path : res.seen[p] \in Nat /\ res.seen[p] <= disk'[p].time)
    BY <1>4, <2>1 DEF Scan, worldVars, IsResults
  <2>2. results' = results \/ IsResults(results')
    BY <1>4, ScanResultIs, CollectedArePaths DEF Scan, OnSamples, CliInv, CliTypeOK
  <2>3. IsResults(results')
    BY <2>2 DEF CliInv, ResultsInv
  <2> QED BY <1>4, <2>1, <2>3 DEF Scan, outVars, CliInv, ResultsInv, IsResults
<1>5. CASE LoadSaved
  <2>1. IsResults(saved)
    BY <1>5 DEF LoadSaved, CliInv, WorkInv, ResultsInv
  <2> QED BY <1>5, <2>1 DEF LoadSaved, worldVars, outVars, ResultsInv, IsResults
<1>6. CASE EmitResults
  <2>1. saved' = saved \/ IsResults(saved')
    BY <1>6, WrittenIs DEF EmitResults, CliInv, ResultsInv
  <2>2. saved' # Nobody => IsResults(saved')
    BY <2>1 DEF CliInv, ResultsInv
  <2> QED BY <1>6, <2>2 DEF EmitResults, worldVars, workVars, CliInv, ResultsInv, IsResults
<1>7. CASE Plan
  <2>1. saved' = saved \/ saved' = NoResults
    BY <1>7 DEF Plan, Overwritten
  <2>2. IsResults(NoResults)
    BY NoResultsFit DEF CliInv, CliTypeOK
  <2>3. saved' # Nobody => IsResults(saved')
    BY <2>1, <2>2 DEF CliInv, ResultsInv
  <2> QED BY <1>7, <2>3 DEF Plan, worldVars, workVars, CliInv, ResultsInv, IsResults
<1>8. CASE Confirm
  BY <1>8 DEF Confirm, worldVars, outVars, CliInv, ResultsInv, IsResults
<1>9. ASSUME NEW p \in Path, DeleteNext(p) PROVE ResultsInv'
  BY <1>9 DEF DeleteNext, Delete, Skip, CliInv, CliTypeOK, ResultsInv, IsResults
<1>10. CASE FinishDeletion
  <2>1. saved' = saved \/ saved' = NoResults
    BY <1>10 DEF FinishDeletion, Overwritten
  <2>2. IsResults(NoResults)
    BY NoResultsFit DEF CliInv, CliTypeOK
  <2>3. saved' # Nobody => IsResults(saved')
    BY <2>1, <2>2 DEF CliInv, ResultsInv
  <2> QED BY <1>10, <2>3 DEF FinishDeletion, worldVars, CliInv, ResultsInv, IsResults
<1>11. CASE Leave
  <2>1. IsResults(NoResults)
    BY NoResultsFit DEF CliInv, CliTypeOK
  <2> QED BY <1>11, <2>1 DEF Leave, Gone, worldVars, CliInv, ResultsInv, IsResults
<1>12. CASE Interrupt
  <2>1. IsResults(NoResults)
    BY NoResultsFit DEF CliInv, CliTypeOK
  <2> QED BY <1>12, <2>1 DEF Interrupt, Gone, worldVars, CliInv, ResultsInv, IsResults
<1>13. ASSUME NEW p \in Path, NEW b \in Bytes, Overwrite(p, b) PROVE ResultsInv'
  BY <1>13 DEF Overwrite, Meddle, workVars, CliInv, CliTypeOK, ResultsInv, IsResults
<1>14. ASSUME NEW p \in Path, MoveAway(p) PROVE ResultsInv'
  BY <1>14 DEF MoveAway, Meddle, workVars, CliInv, ResultsInv, IsResults
<1>15. ASSUME NEW p \in Path, MoveBack(p) PROVE ResultsInv'
  BY <1>15 DEF MoveBack, Meddle, workVars, CliInv, ResultsInv, IsResults
<1>16. CASE UNCHANGED cliVars
  BY <1>16 DEF cliVars, worldVars, outVars, workVars, CliInv, ResultsInv, IsResults
<1> QED BY <1>1, <1>2, <1>3, <1>4, <1>5, <1>6, <1>7, <1>8, <1>9, <1>10, <1>11, <1>12, <1>13,
           <1>14, <1>15, <1>16 DEF CliNext

\* What a process has done, it has done in its deletion, and it records nothing else.
LEMMA WorkStep == CliInv /\ [CliNext]_cliVars => WorkInv'
<1> SUFFICES ASSUME CliInv, [CliNext]_cliVars PROVE WorkInv'
  OBVIOUS
<1>1. ASSUME NEW c \in CommandLines, Invoke(c) PROVE WorkInv'
  BY <1>1 DEF Invoke, workVars, CliInv, WorkInv
<1>2. CASE CheckArguments
  BY <1>2 DEF CheckArguments, End, Continue, outVars, workVars, CliInv, WorkInv, Has
<1>3. CASE Prepare
  BY <1>3 DEF Prepare, End, Continue, workVars, CliInv, WorkInv, Has
<1>4. CASE Scan
  BY <1>4 DEF Scan, End, Continue, CliInv, WorkInv
<1>5. CASE LoadSaved
  BY <1>5 DEF LoadSaved, Continue, CliInv, WorkInv
<1>6. CASE EmitResults
  BY <1>6 DEF EmitResults, End, workVars, CliInv, WorkInv
<1>7. CASE Plan
  BY <1>7 DEF Plan, End, workVars, CliInv, WorkInv
<1>8. CASE Confirm
  BY <1>8 DEF Confirm, End, Continue, CliInv, WorkInv, Candidates
<1>9. ASSUME NEW p \in Path, DeleteNext(p) PROVE WorkInv'
  BY <1>9 DEF DeleteNext, Delete, Skip, CliInv, WorkInv, Candidates
<1>10. CASE FinishDeletion
  <2>1. stage' = "ended" /\ record' = [deleted |-> removed', skipped |-> skipped'] /\ queue' = {}
    BY <1>10 DEF FinishDeletion, End, RecordSomewhere
  <2> QED BY <1>10, <2>1 DEF FinishDeletion, CliInv, WorkInv
<1>11. CASE Leave
  BY <1>11 DEF Leave, Gone, WorkInv
<1>12. CASE Interrupt
  BY <1>12 DEF Interrupt, Gone, WorkInv
<1>13. ASSUME NEW p \in Path, NEW b \in Bytes, Overwrite(p, b) PROVE WorkInv'
  BY <1>13 DEF Overwrite, Meddle, workVars, CliInv, WorkInv, Has, Candidates
<1>14. ASSUME NEW p \in Path, MoveAway(p) PROVE WorkInv'
  BY <1>14 DEF MoveAway, Meddle, workVars, CliInv, WorkInv, Has, Candidates
<1>15. ASSUME NEW p \in Path, MoveBack(p) PROVE WorkInv'
  BY <1>15 DEF MoveBack, Meddle, workVars, CliInv, WorkInv, Has, Candidates
<1>16. CASE UNCHANGED cliVars
  BY <1>16 DEF cliVars, outVars, workVars, CliInv, WorkInv, Has, Candidates
<1> QED BY <1>1, <1>2, <1>3, <1>4, <1>5, <1>6, <1>7, <1>8, <1>9, <1>10, <1>11, <1>12, <1>13,
           <1>14, <1>15, <1>16 DEF CliNext

\* The types of all variables.
LEMMA TypeStep == CliInv /\ [CliNext]_cliVars => CliTypeOK'
<1> SUFFICES ASSUME CliInv, [CliNext]_cliVars PROVE CliTypeOK'
  OBVIOUS
<1>1. ASSUME NEW c \in CommandLines, Invoke(c) PROVE CliTypeOK'
  BY CommandLineConstants, <1>1 DEF Invoke, worldVars, outVars, workVars, CliInv, CliTypeOK,
     Candidates
<1>2. CASE CheckArguments
  BY <1>2 DEF CheckArguments, End, Continue, worldVars, outVars, workVars, CliInv, CliTypeOK,
     Candidates
<1>3. CASE Prepare
  BY <1>3 DEF Prepare, End, Continue, worldVars, outVars, workVars, CliInv, CliTypeOK, Candidates
<1>4. CASE Scan
  BY <1>4 DEF Scan, End, Continue, worldVars, outVars, CliInv, CliTypeOK, WorkInv
<1>5. CASE LoadSaved
  BY <1>5 DEF LoadSaved, Continue, worldVars, outVars, CliInv, CliTypeOK, WorkInv
<1>6. CASE EmitResults
  <2>1. References(line) \subseteq Path
    BY CliConstants DEF References, CliInv, CliTypeOK, CommandLine
  <2>2. guarded' \subseteq Path
    BY <1>6, <2>1 DEF EmitResults, CliInv, CliTypeOK
  <2>3. stage' = "ended" /\ exit' \in 0..3
    BY <1>6 DEF EmitResults, End, FoundCode
  <2> QED BY <1>6, <2>2, <2>3 DEF EmitResults, worldVars, workVars, CliInv, CliTypeOK, Candidates
<1>7. CASE Plan
  BY <1>7 DEF Plan, End, Overwritten, worldVars, workVars, CliInv, CliTypeOK, WorkInv
<1>8. CASE Confirm
  BY <1>8 DEF Confirm, End, Continue, worldVars, outVars, CliInv, CliTypeOK, WorkInv
<1>9. ASSUME NEW p \in Path, DeleteNext(p) PROVE CliTypeOK'
  <2>1. disk' = disk \/ disk' = [disk EXCEPT ![p].there = FALSE]
    BY <1>9 DEF DeleteNext, Delete, Skip
  <2>2. disk' \in [Path -> [bytes : Bytes, time : Nat, there : BOOLEAN]]
    BY <2>1, ThereDoes DEF CliInv, CliTypeOK
  <2>3. p \in Candidates /\ Candidates' = Candidates
    BY <1>9 DEF DeleteNext, CliInv, WorkInv, Candidates
  <2>4. removed' \cup skipped' \subseteq removed \cup skipped \cup {p}
        /\ verified' \subseteq removed'
    BY <1>9 DEF DeleteNext, Delete, Skip, CliInv, CliTypeOK
  <2> QED BY <1>9, <2>2, <2>3, <2>4 DEF DeleteNext, CliInv, CliTypeOK
<1>10. CASE FinishDeletion
  BY <1>10 DEF FinishDeletion, End, Overwritten, FoundCode, worldVars, CliInv, CliTypeOK,
     Candidates
<1>11. CASE Leave
  <2>1. Idle \in CommandLine
    BY DEF Idle, CommandLine
  <2> QED BY <1>11, <2>1 DEF Leave, Gone, worldVars, CliInv, CliTypeOK
<1>12. CASE Interrupt
  <2>1. Idle \in CommandLine
    BY DEF Idle, CommandLine
  <2> QED BY <1>12, <2>1 DEF Interrupt, Gone, worldVars, CliInv, CliTypeOK
<1>13. ASSUME NEW p \in Path, NEW b \in Bytes, Overwrite(p, b) PROVE CliTypeOK'
  BY <1>13 DEF Overwrite, Meddle, workVars, CliInv, CliTypeOK, Candidates
<1>14. ASSUME NEW p \in Path, MoveAway(p) PROVE CliTypeOK'
  BY CliConstants, CommandLineConstants, <1>14 DEF MoveAway, Meddle, workVars, CliInv, CliTypeOK,
     WorkInv, Candidates
<1>15. ASSUME NEW p \in Path, MoveBack(p) PROVE CliTypeOK'
  BY CliConstants, CommandLineConstants, <1>15 DEF MoveBack, Meddle, workVars, CliInv, CliTypeOK,
     WorkInv, Candidates
<1>16. CASE UNCHANGED cliVars
  BY <1>16 DEF cliVars, worldVars, outVars, workVars, CliInv, CliTypeOK, Candidates
<1> QED BY <1>1, <1>2, <1>3, <1>4, <1>5, <1>6, <1>7, <1>8, <1>9, <1>10, <1>11, <1>12, <1>13,
           <1>14, <1>15, <1>16 DEF CliNext

\* The references travel with the results, in memory and through the file.
LEMMA RefsStep == CliInv /\ [CliNext]_cliVars => RefsInv'
<1> SUFFICES ASSUME CliInv, [CliNext]_cliVars PROVE RefsInv'
  OBVIOUS
<1>1. ASSUME NEW c \in CommandLines, Invoke(c) PROVE RefsInv'
  BY <1>1 DEF Invoke, outVars, workVars, CliInv, RefsInv, ReferencesStay, WorkInv
<1>2. CASE CheckArguments
  BY <1>2 DEF CheckArguments, End, Continue, outVars, workVars, CliInv, RefsInv, ReferencesStay,
     Has
<1>3. CASE Prepare
  BY <1>3 DEF Prepare, End, Continue, outVars, workVars, CliInv, RefsInv, ReferencesStay, Has
<1>4. CASE Scan
  <2>1. stage' = "ended" \/ results'.refs = References(line)
    BY <1>4, ScanResultIs, CollectedArePaths DEF Scan, End, OnSamples, CliInv, CliTypeOK
  <2>2. stage' \in {"ended", "plan", "confirm", "emit"} /\ ~Has("from_results") /\ removed = {}
    BY <1>4 DEF Scan, End, Continue, CliInv, WorkInv
  <2> QED BY <1>4, <2>1, <2>2 DEF Scan, outVars, CliInv, RefsInv, ReferencesStay, Has
<1>5. CASE LoadSaved
  BY <1>5 DEF LoadSaved, outVars, CliInv, RefsInv, ReferencesStay, WorkInv, Has
<1>6. CASE EmitResults
  <2>1. stage' = "ended" /\ removed = {}
    BY <1>6 DEF EmitResults, End, CliInv, WorkInv
  <2>2. guarded' = {} \/ guarded' \subseteq saved'.refs
    <3>1. CASE line.output = "results" /\ ~Has("from_results")
      <4>1. saved' \in Written(results) /\ guarded' = References(line)
        BY <1>6, <3>1 DEF EmitResults
      <4>2. saved'.refs = results.refs
        BY <4>1, WrittenIs DEF CliInv, ResultsInv
      <4>3. results.refs = References(line)
        BY <1>6, <3>1 DEF EmitResults, CliInv, RefsInv
      <4> QED BY <4>1, <4>2, <4>3
    <3>2. CASE ~(line.output = "results" /\ ~Has("from_results"))
      BY <1>6, <3>2 DEF EmitResults, CliInv, RefsInv
    <3> QED BY <3>1, <3>2
  <2> QED BY <1>6, <2>1, <2>2 DEF EmitResults, workVars, RefsInv, ReferencesStay
<1>7. CASE Plan
  BY <1>7 DEF Plan, End, Overwritten, workVars, CliInv, RefsInv, ReferencesStay, WorkInv
<1>8. CASE Confirm
  BY <1>8 DEF Confirm, outVars, CliInv, RefsInv, ReferencesStay, Has
<1>9. ASSUME NEW p \in Path, DeleteNext(p) PROVE RefsInv'
  <2>1. p \notin results.refs
    <3>1. p \in Candidates
      BY <1>9 DEF DeleteNext, CliInv, WorkInv
    <3> QED BY <3>1 DEF Candidates
  <2>2. removed' = removed \/ removed' = removed \cup {p}
    BY <1>9 DEF DeleteNext, Delete, Skip
  <2>3. stage = "deleting"
    BY <1>9 DEF DeleteNext
  <2>4. ReferencesStay'
    <3>1. CASE Has("from_results")
      BY <1>9, <2>1, <2>2, <3>1 DEF DeleteNext, CliInv, RefsInv, ReferencesStay, Has
    <3>2. CASE ~Has("from_results")
      BY <1>9, <2>1, <2>2 DEF DeleteNext, CliInv, RefsInv, ReferencesStay, Has, References
    <3> QED BY <3>1, <3>2
  <2> QED BY <1>9, <2>4 DEF DeleteNext, CliInv, RefsInv, Has
<1>10. CASE FinishDeletion
  BY <1>10 DEF FinishDeletion, Overwritten, CliInv, RefsInv, ReferencesStay, Has
<1>11. CASE Leave
  BY <1>11 DEF Leave, Gone, CliInv, RefsInv, ReferencesStay
<1>12. CASE Interrupt
  BY <1>12 DEF Interrupt, Gone, CliInv, RefsInv, ReferencesStay
<1>13. ASSUME NEW p \in Path, NEW b \in Bytes, Overwrite(p, b) PROVE RefsInv'
  BY <1>13 DEF Overwrite, Meddle, workVars, CliInv, RefsInv, ReferencesStay, Has
<1>14. ASSUME NEW p \in Path, MoveAway(p) PROVE RefsInv'
  BY <1>14 DEF MoveAway, Meddle, workVars, CliInv, RefsInv, ReferencesStay, Has
<1>15. ASSUME NEW p \in Path, MoveBack(p) PROVE RefsInv'
  BY <1>15 DEF MoveBack, Meddle, workVars, CliInv, RefsInv, ReferencesStay, Has
<1>16. CASE UNCHANGED cliVars
  BY <1>16 DEF cliVars, outVars, workVars, CliInv, RefsInv, ReferencesStay, Has
<1> QED BY <1>1, <1>2, <1>3, <1>4, <1>5, <1>6, <1>7, <1>8, <1>9, <1>10, <1>11, <1>12, <1>13,
           <1>14, <1>15, <1>16 DEF CliNext

\* A queue without consent holds nothing that only samples matched and that was there.
LEMMA ConsentStep == CliInv /\ [CliNext]_cliVars => ConsentInv'
<1> SUFFICES ASSUME CliInv, [CliNext]_cliVars PROVE ConsentInv'
  OBVIOUS
<1>1. ASSUME NEW c \in CommandLines, Invoke(c) PROVE ConsentInv'
  BY <1>1 DEF Invoke, workVars, CliInv, ConsentInv, PartialsNeedConsent, WorkInv
<1>2. CASE CheckArguments
  BY <1>2 DEF CheckArguments, workVars, CliInv, ConsentInv, PartialsNeedConsent, WorkInv
<1>3. CASE Prepare
  BY <1>3 DEF Prepare, workVars, CliInv, ConsentInv, PartialsNeedConsent, WorkInv
<1>4. CASE Scan
  BY <1>4 DEF Scan, CliInv, ConsentInv, PartialsNeedConsent, WorkInv
<1>5. CASE LoadSaved
  BY <1>5 DEF LoadSaved, CliInv, ConsentInv, PartialsNeedConsent, WorkInv
<1>6. CASE EmitResults
  BY <1>6 DEF EmitResults, workVars, CliInv, ConsentInv, PartialsNeedConsent, WorkInv
<1>7. CASE Plan
  BY <1>7 DEF Plan, workVars, CliInv, ConsentInv, PartialsNeedConsent, WorkInv
<1>8. CASE Confirm
  <2>1. removed = {} /\ removed' = {} /\ UNCHANGED <<disk, returned, results, line>>
    BY <1>8 DEF Confirm, worldVars, CliInv, WorkInv
  <2>2. PartialsNeedConsent'
    BY <2>1 DEF PartialsNeedConsent
  <2>3. ASSUME stage' = "deleting", results.partial = "sampled", ~Has("allow_partial")
        PROVE \A p \in queue' : ~Deletable(p)
    <3>1. Partials = {} /\ queue' = Candidates
      BY <1>8, <2>3 DEF Confirm, End
    <3> QED BY <2>3, <3>1 DEF Partials, WouldDelete
  <2>4. \A p : Deletable(p)' <=> Deletable(p)
    BY <2>1 DEF Deletable
  <2> QED BY <2>1, <2>2, <2>3, <2>4 DEF ConsentInv, Has
<1>9. ASSUME NEW p \in Path, DeleteNext(p) PROVE ConsentInv'
  BY <1>9 DEF DeleteNext, Delete, Skip, CliInv, CliTypeOK, ConsentInv, PartialsNeedConsent, Has,
     Deletable
<1>10. CASE FinishDeletion
  BY <1>10 DEF FinishDeletion, worldVars, CliInv, ConsentInv, PartialsNeedConsent, Has
<1>11. CASE Leave
  BY <1>11 DEF Leave, Gone, ConsentInv, PartialsNeedConsent
<1>12. CASE Interrupt
  BY <1>12 DEF Interrupt, Gone, ConsentInv, PartialsNeedConsent
<1>13. ASSUME NEW p \in Path, NEW b \in Bytes, Overwrite(p, b) PROVE ConsentInv'
  BY <1>13 DEF Overwrite, Meddle, workVars, CliInv, CliTypeOK, ConsentInv, PartialsNeedConsent,
     Has, Deletable, ResultsInv, IsResults
<1>14. ASSUME NEW p \in Path, MoveAway(p) PROVE ConsentInv'
  BY <1>14 DEF MoveAway, Meddle, workVars, CliInv, ConsentInv, PartialsNeedConsent, Has, Deletable
<1>15. ASSUME NEW p \in Path, MoveBack(p) PROVE ConsentInv'
  BY <1>15 DEF MoveBack, Meddle, workVars, CliInv, ConsentInv, PartialsNeedConsent, Has, Deletable
<1>16. CASE UNCHANGED cliVars
  BY <1>16 DEF cliVars, worldVars, workVars, CliInv, ConsentInv, PartialsNeedConsent, Has,
     Deletable
<1> QED BY <1>1, <1>2, <1>3, <1>4, <1>5, <1>6, <1>7, <1>8, <1>9, <1>10, <1>11, <1>12, <1>13,
           <1>14, <1>15, <1>16 DEF CliNext

\* The promise of a plan is what the deletion has removed, has yet to remove, or lost.
LEMMA PlanStep == CliInv /\ [CliNext]_cliVars => PlanInv'
<1> SUFFICES ASSUME CliInv, [CliNext]_cliVars PROVE PlanInv'
  OBVIOUS
<1>1. ASSUME NEW c \in CommandLines, Invoke(c) PROVE PlanInv'
  BY <1>1 DEF Invoke, worldVars, outVars, workVars, CliInv, PlanInv, WorkInv, Would, RecordWritten
<1>2. CASE CheckArguments
  BY <1>2 DEF CheckArguments, End, Continue, worldVars, outVars, workVars, CliInv, PlanInv, Has,
     Deletable, Would, RecordWritten
<1>3. CASE Prepare
  BY <1>3 DEF Prepare, worldVars, outVars, CliInv, PlanInv, WorkInv, Has, Would, RecordWritten
<1>4. CASE Scan
  BY <1>4 DEF Scan, worldVars, outVars, CliInv, PlanInv, WorkInv, Has, Would, RecordWritten
<1>5. CASE LoadSaved
  BY <1>5 DEF LoadSaved, Continue, worldVars, outVars, CliInv, PlanInv, WorkInv, Would,
     RecordWritten
<1>6. CASE EmitResults
  BY <1>6 DEF EmitResults, End, worldVars, workVars, CliInv, PlanInv, Has, Deletable, Would,
     RecordWritten
<1>7. CASE Plan
  <2>1. stage' = "ended" /\ removed = {} /\ record = Nobody
        /\ UNCHANGED <<disk, returned, removed, record, line, queue, results>>
    BY <1>7 DEF Plan, End, worldVars, workVars, CliInv, WorkInv
  <2>2. ASSUME promise' # Nobody PROVE promise' \cup returned = Would(saved)' \cup returned
    <3>1. CASE promise' = promise /\ saved' = saved
      <4>1. Would(saved) = Would(saved)'
        BY <2>1, <3>1 DEF Would
      <4> QED BY <2>1, <2>2, <3>1, <4>1 DEF CliInv, PlanInv, RecordWritten
    <3>2. CASE promise' = WouldDelete /\ Has("from_results") /\ saved' = saved
      <4>1. results = saved
        BY <1>7, <3>2 DEF Plan, CliInv, PlanInv
      <4> QED BY <2>1, <3>2, <4>1 DEF WouldDelete, Candidates, Deletable, Would, Named
    <3> QED BY <1>7, <2>2, <3>1, <3>2 DEF Plan, Overwritten
  <2> QED BY <2>1, <2>2 DEF PlanInv
<1>8. CASE Confirm
  BY <1>8 DEF Confirm, End, worldVars, outVars, CliInv, PlanInv, WorkInv, Has, Deletable, Would,
     Named, Candidates, RecordWritten
<1>9. ASSUME NEW p \in Path, DeleteNext(p) PROVE PlanInv'
  <2>1. stage = "deleting" /\ p \in queue /\ queue' = queue \ {p} /\ record = Nobody
    BY <1>9 DEF DeleteNext, CliInv, WorkInv
  <2>2. UNCHANGED <<saved, line, stage, record, results, returned>>
    BY <1>9 DEF DeleteNext
  <2>3. ASSUME promise' # Nobody, removed' = {}
        PROVE promise' \cup returned = Would(saved)' \cup returned
    <3>1. promise' = promise /\ removed = {} /\ disk' = disk
      BY <1>9, <2>3 DEF DeleteNext, Delete, Skip
    <3> QED BY <2>1, <2>2, <2>3, <3>1 DEF CliInv, PlanInv, Would, RecordWritten
  <2>4. ASSUME promise' # Nobody, Has("from_results")
        PROVE  promise' \cup returned = removed' \cup {q \in queue' : Deletable(q)'} \cup returned
    <3>1. promise' = promise
      BY <1>9, <2>4 DEF DeleteNext, Delete, Skip
    <3>2. promise \cup returned = removed \cup {q \in queue : Deletable(q)} \cup returned
      BY <2>1, <2>4, <3>1 DEF CliInv, PlanInv
    <3>3. CASE Skip(p)
      <4>1. ~Deletable(p) /\ disk' = disk /\ removed' = removed
        BY <2>4, <3>3 DEF Skip
      <4>2. \A q \in queue : Deletable(q)' <=> Deletable(q)
        BY <2>2, <4>1 DEF Deletable
      <4> QED BY <2>1, <3>1, <3>2, <4>1, <4>2
    <3>4. CASE Deletable(p) /\ Delete(p)
      <4>1. removed' = removed \cup {p}
        BY <3>4 DEF Delete
      <4>2. \A q \in Path : q # p => disk'[q] = disk[q]
        BY <3>4 DEF Delete
      <4>3. queue \subseteq Path
        BY DEF CliInv, WorkInv, ResultsInv, IsResults, Candidates
      <4>4. \A q \in queue \ {p} : Deletable(q)' <=> Deletable(q)
        BY <2>2, <4>2, <4>3 DEF Deletable
      <4> QED BY <2>1, <3>1, <3>2, <3>4, <4>1, <4>4
    <3> QED BY <1>9, <2>4, <3>3, <3>4 DEF DeleteNext
  <2> QED BY <2>1, <2>2, <2>3, <2>4 DEF PlanInv, Has
<1>10. CASE FinishDeletion
  <2>1. stage = "deleting" /\ stage' = "ended" /\ queue = {} /\ queue' = {}
    BY <1>10 DEF FinishDeletion, End
  <2>2. UNCHANGED <<disk, line, promise, removed, returned>>
    BY <1>10 DEF FinishDeletion, worldVars
  <2>3. record' # Nobody
    BY <1>10, CliConstants DEF FinishDeletion, RecordSomewhere, CliInv, WorkInv
  <2>4. RecordWritten' \/ saved' = saved
    BY <1>10, <2>3 DEF FinishDeletion, Overwritten, RecordWritten
  <2>5. record = Nobody
    BY <2>1 DEF CliInv, WorkInv
  <2>6. ASSUME promise # Nobody, removed = {}, saved' = saved
        PROVE promise \cup returned = Would(saved)' \cup returned
    BY <2>2, <2>5, <2>6 DEF CliInv, PlanInv, Would, RecordWritten
  <2>7. ASSUME promise # Nobody, Has("from_results")
        PROVE promise \cup returned = removed \cup returned
    <3>1. {p \in queue : Deletable(p)} = {}
      BY <2>1
    <3> QED BY <2>1, <2>7 DEF CliInv, PlanInv
  <2> QED BY <2>1, <2>2, <2>4, <2>6, <2>7 DEF PlanInv, Has
<1>11. CASE Leave
  BY <1>11 DEF Leave, Gone, worldVars, CliInv, PlanInv, Would
<1>12. CASE Interrupt
  BY <1>12 DEF Interrupt, Gone, worldVars, CliInv, PlanInv, Would
<1>13. ASSUME NEW p \in Path, NEW b \in Bytes, Overwrite(p, b) PROVE PlanInv'
  BY <1>13 DEF Overwrite, Meddle, workVars, CliInv, PlanInv, Has
<1>14. ASSUME NEW p \in Path, MoveAway(p) PROVE PlanInv'
  BY <1>14 DEF MoveAway, Meddle, workVars, CliInv, PlanInv, Has
<1>15. ASSUME NEW p \in Path, MoveBack(p) PROVE PlanInv'
  BY <1>15 DEF MoveBack, Meddle, workVars, CliInv, PlanInv, Has
<1>16. CASE UNCHANGED cliVars
  BY <1>16 DEF cliVars, worldVars, outVars, workVars, CliInv, PlanInv, Has, Deletable, Would,
     RecordWritten
<1> QED BY <1>1, <1>2, <1>3, <1>4, <1>5, <1>6, <1>7, <1>8, <1>9, <1>10, <1>11, <1>12, <1>13,
           <1>14, <1>15, <1>16 DEF CliNext

\* The invariant holds whatever the processes and the other programs do.
THEOREM CliStaysSound == CliSpec => []CliInv
<1>1. CliInv /\ [CliNext]_cliVars => CliInv'
  BY ResultsStep, WorkStep, TypeStep, RefsStep, ConsentStep, PlanStep DEF CliInv
<1> QED BY CliStarts, <1>1, PTL DEF CliSpec

\* A process that deleted something leaves a record of exactly what is gone and what was skipped
\* (FinishDeletion: _emit_deletion writes it to the file, or else to stdout).
THEOREM RecordsStayTrue == CliSpec => []RecordIsTrue
<1>1. CliInv => RecordIsTrue
  BY DEF CliInv, WorkInv, RecordIsTrue
<1> QED BY CliStaysSound, <1>1, PTL

\* What only samples matched goes only with --allow-partial-matches, or if it was away when the
\* gate of a scan counted (Confirm).
THEOREM PartialsStayGuarded == CliSpec => []PartialsNeedConsent
<1>1. CliInv => PartialsNeedConsent
  BY DEF CliInv, ConsentInv
<1> QED BY CliStaysSound, <1>1, PTL

\* No file under a --ref folder is deleted, by the scan that was given the folder or by a process
\* that works from its results.
THEOREM ReferencesAlwaysStay == CliSpec => []ReferencesStay
<1>1. CliInv => ReferencesStay
  BY DEF CliInv, RefsInv
<1> QED BY CliStaysSound, <1>1, PTL

\* A plan of saved results names what the deletion from them then removes, if nothing changes or
\* fails in between.
THEOREM PlansAreKept == CliSpec => []PlanIsKept
<1>1. CliInv => PlanIsKept
  <2> SUFFICES ASSUME CliInv, stage = "ended", Has("from_results"), record # Nobody,
                      promise # Nobody
               PROVE  removed \cup returned = promise \cup returned
    BY DEF PlanIsKept
  <2>1. {p \in queue : Deletable(p)} = {}
    BY DEF CliInv, WorkInv
  <2> QED BY <2>1 DEF CliInv, PlanInv
<1> QED BY CliStaysSound, <1>1, PTL

-----------------------------------------------------------------------------
(* The time left.  Its invariants are those of the samples of one phase.   *)

Sample == [at : Nat, done : Nat, phaseAt : Nat]

TrackerTypes ==
  /\ now \in Nat /\ done \in Nat /\ phaseAt \in Nat
  /\ pace \in Nat /\ since \in Nat /\ before \in Nat
  /\ samples \in Seq(Sample)
  /\ total \in Totals \cup {Open} /\ extent \in Totals \cup {Open}

\* Samples are in the order of time, and more than two are no older than the window.
TimesInv ==
  /\ before <= since /\ since <= now /\ (since = now => pace = 0)
  /\ \A i \in 1..Len(samples) : samples[i].at <= now
  /\ \A i \in 1..Len(samples) : i > 1 => samples[i - 1].at < samples[i].at
  /\ Len(samples) >= 3 => samples[Len(samples)].at - samples[1].at <= WINDOW

\* The latest report left units of a known total.
Underway == total # Open /\ done < total

\* A phase that was reported and left units is the worker's: it does not go on without them.
PhaseInv ==
  /\ samples = <<>> => total = Open
  /\ samples # <<>> =>
       /\ samples[Len(samples)].done = done /\ samples[Len(samples)].phaseAt <= phaseAt
       /\ IF samples[Len(samples)].phaseAt = phaseAt THEN extent = total
          ELSE total # Open => done = total
  /\ Underway => \A i \in 1..Len(samples) : samples[i].phaseAt = phaseAt

\* The samples s, of which the last has n, up to the time t: they lie on the line of
\* the pace p that passes through d at the time c when it began, and before, back to b,
\* on that of the pace q.  A tick without a sample is one of a stall.
Paced(s, n, t, p, c, b, q, d) ==
  /\ n = d + p * (t - c)
  /\ \A i \in 1..Len(s) :
       /\ c <= s[i].at => s[i].done = d + p * (s[i].at - c)
       /\ b <= s[i].at /\ s[i].at <= c => s[i].done = d - q * (c - s[i].at)
  /\ \A i \in 1..Len(s) : i < Len(s) =>
       /\ c <= s[i].at => s[i + 1].at = s[i].at + 1
       /\ b <= s[i].at /\ s[i].at < c => q = 0 \/ s[i + 1].at = s[i].at + 1

PaceInv ==
  Underway =>
    /\ samples[Len(samples)].at = now \/ pace = 0
    /\ \E s, n, t, p, c, b, q, d :
         /\ s = samples /\ n = done /\ t = now /\ p = pace /\ c = since /\ b = before
         /\ q \in Nat /\ d \in Int /\ Paced(s, n, t, p, c, b, q, d)

TrackerInv == TrackerTypes /\ TimesInv /\ PhaseInv /\ PaceInv

\* What _trim keeps ends with the latest sample, and begins within the window or is two.
LEMMA TrimKeeps ==
  ASSUME NEW s \in Seq(Sample), s # <<>>, NEW t \in Nat
  PROVE  \E k \in 1..Len(s) :
           /\ Trimmed(s, t) = SubSeq(s, k, Len(s))
           /\ Len(s) - k >= 2 => t - s[k].at <= WINDOW
<1> DEFINE stays == {k \in DOMAIN s : Len(s) - k >= 2 => t - s[k].at <= WINDOW}
<1>1. Len(s) \in stays
  OBVIOUS
<1>2. stays \subseteq Nat
  OBVIOUS
<1>3. PICK k \in stays : \A l \in stays : <<l, k>> \notin OpToRel(<, Nat)
  BY <1>1, <1>2, NatLessThanWellFounded, WFMin
<1>4. ASSUME NEW l \in stays PROVE k <= l
  <2>1. ~(l < k)
    BY <1>2, <1>3 DEF OpToRel
  <2> QED BY <1>2, <2>1
<1>5. (CHOOSE j \in stays : \A l \in stays : j <= l) = k
  <2> HIDE DEF stays
  <2>1. \A j \in stays : (\A l \in stays : j <= l) => j = k
    BY <1>2, <1>4
  <2> QED
    BY <1>4, <2>1
<1>6. Trimmed(s, t) = SubSeq(s, k, Len(s))
  BY <1>5 DEF Trimmed
<1> QED
  BY <1>6

\* What follows s: all but the last of u are those of s from the k-th on.
Follows(u, s, k) ==
  /\ Len(s) \in Nat /\ Len(u) \in Nat /\ k \in 1..Len(s) + 1 /\ Len(u) = Len(s) + 2 - k
  /\ \A i \in 1..Len(u) : i < Len(u) => k + i - 1 \in 1..Len(s) /\ u[i] = s[k + i - 1]

\* The sample of a report is added to some, e, of which those before the k-th go.
Adds(n, e, k) ==
  /\ samples' \in Seq(Sample) /\ Follows(samples', e, k)
  /\ samples'[Len(samples')] = [at |-> now', done |-> n, phaseAt |-> phaseAt']
  /\ Len(samples') >= 3 => now' - samples'[1].at <= WINDOW

\* A report adds its sample to those of the phase.
LEMMA ReportAdds ==
  ASSUME TrackerTypes, NEW n \in Nat, ReportUnits(n), now' \in Nat, phaseAt' \in Nat
  PROVE  \E e \in Seq(Sample), k \in Nat : e = Kept(n) /\ Adds(n, e, k)
<1>1. PICK x, e, t, u :
        /\ x = [at |-> now', done |-> n, phaseAt |-> phaseAt'] /\ e = Kept(n)
        /\ t = now' /\ u = samples'
  OBVIOUS
<1>2. x \in Sample /\ e \in Seq(Sample) /\ t \in Nat
  BY <1>1 DEF TrackerTypes, Sample, Kept
<1>3. u = Trimmed(Append(e, x), t)
  BY <1>1 DEF ReportUnits
<1>4. PICK s : s = Append(e, x)
  OBVIOUS
<1>5. /\ s \in Seq(Sample) /\ s # <<>> /\ Len(s) = Len(e) + 1 /\ s[Len(s)] = x
      /\ \A i \in 1..Len(e) : s[i] = e[i]
  BY <1>2, <1>4
<1>6. PICK k \in 1..Len(s) :
        /\ u = SubSeq(s, k, Len(s))
        /\ Len(s) - k >= 2 => t - s[k].at <= WINDOW
  BY <1>2, <1>3, <1>4, <1>5, TrimKeeps
<1>7. /\ u \in Seq(Sample) /\ Len(u) = Len(s) - k + 1
      /\ \A i \in 1..Len(u) : u[i] = s[k + i - 1]
  BY <1>5, <1>6
<1>8. Len(e) \in Nat /\ Len(s) \in Nat /\ Len(u) \in Nat
  BY <1>2, <1>5, <1>7
<1>9. u[Len(u)] = x
  BY <1>5, <1>7, <1>8
<1>10. ASSUME NEW i \in 1..Len(u), i < Len(u)
       PROVE  k + i - 1 \in 1..Len(e) /\ u[i] = e[k + i - 1]
  <2>1. k + i - 1 \in 1..Len(e)
    BY <1>5, <1>7, <1>8, <1>10
  <2> QED BY <1>5, <1>7, <1>10, <2>1
<1>11. ASSUME Len(u) >= 3 PROVE t - u[1].at <= WINDOW
  <2>1. Len(s) - k >= 2 /\ 1 \in 1..Len(u) /\ k + 1 - 1 = k
    BY <1>7, <1>8, <1>11
  <2>2. u[1] = s[k]
    BY <1>7, <2>1
  <2>3. t - s[k].at <= WINDOW
    BY <1>6, <2>1
  <2> QED BY <2>2, <2>3
<1>12. k \in 1..Len(e) + 1 /\ k \in Nat /\ Len(u) = Len(e) + 2 - k
  BY <1>5, <1>7, <1>8
<1>13. \A i \in 1..Len(u) : i < Len(u) => k + i - 1 \in 1..Len(e) /\ u[i] = e[k + i - 1]
  BY <1>10
<1>14. Follows(u, e, k)
  BY <1>8, <1>12, <1>13 DEF Follows
<1> QED
  BY <1>1, <1>2, <1>7, <1>9, <1>11, <1>12, <1>14 DEF Adds

\* A tick with work reports what the worker has reached.  The sample it adds follows
\* others only if they are of its phase, which was underway, or leaves no units.
LEMMA TickReports ==
  ASSUME TrackerInv, NEW p \in Paces, p # 0, Tick(p)
  PROVE  \E n \in Nat, e \in Seq(Sample), k \in Nat :
           /\ done' = n /\ total' = extent /\ Adds(n, e, k)
           /\ e \in {<<>>, samples}
           /\ Underway' /\ e # <<>> => Underway /\ n = done + p
<1>1. PICK n : n = Upto(Reached + p)
  OBVIOUS
<1>2. /\ p \in Nat /\ p > 0 /\ now \in Nat /\ phaseAt \in Nat /\ done \in Nat
      /\ extent # Open => extent \in Nat
      /\ total # Open => total \in Nat
  BY TrackerAssumption DEF TrackerInv, TrackerTypes
<1>3. Reached \in Nat
  BY <1>2 DEF Reached
<1>4. n \in Nat
  BY <1>1, <1>2, <1>3 DEF Upto
<1>5. /\ now' = now + 1 /\ phaseAt' = phaseAt /\ extent' = extent
      /\ extent # Open => Reached < extent
      /\ ReportUnits(n)
  BY <1>1 DEF Tick
<1>6. TrackerTypes /\ PhaseInv
  BY DEF TrackerInv
<1>7. PICK e \in Seq(Sample), k \in Nat : e = Kept(n) /\ Adds(n, e, k)
  BY <1>2, <1>4, <1>5, <1>6, ReportAdds
<1>8. done' = n /\ total' = extent /\ e \in {<<>>, samples}
  BY <1>5, <1>7 DEF ReportUnits, Kept
<1>9. ASSUME Underway', e # <<>> PROVE Underway /\ n = done + p
  <2>1. extent # Open /\ n < extent /\ extent \in Nat
    BY <1>2, <1>8, <1>9 DEF Underway
  <2>2. e = samples /\ extent = total /\ ~(n < done)
    BY <1>7, <1>9 DEF Kept, NewPhase
  <2>3. samples[Len(samples)].phaseAt = phaseAt
    BY <1>2, <1>4, <1>6, <1>9, <2>1, <2>2 DEF PhaseInv
  <2>4. Reached = done
    BY <1>9, <2>2, <2>3 DEF Reached
  <2>5. n = done + p
    BY <1>1, <1>2, <2>1, <2>4 DEF Upto
  <2> QED
    BY <1>2, <2>1, <2>2, <2>5 DEF Underway
<1> QED
  BY <1>4, <1>5, <1>7, <1>8, <1>9

LEMMA TrackerStarts == TrackerInit => TrackerInv
<1> SUFFICES ASSUME TrackerInit PROVE TrackerInv
  OBVIOUS
<1>1. TrackerTypes
  BY TrackerAssumption DEF TrackerInit, TrackerTypes
<1>2. TimesInv
  BY DEF TrackerInit, TimesInv
<1>3. ~Underway
  BY DEF TrackerInit, Underway
<1> QED
  BY <1>1, <1>2, <1>3 DEF TrackerInit, TrackerInv, PhaseInv, PaceInv

LEMMA NextPhaseKeeps == TrackerInv /\ NextPhase => TrackerInv'
<1> SUFFICES ASSUME TrackerInv, NextPhase PROVE TrackerInv'
  OBVIOUS
<1>1. ~Underway
  <2> SUFFICES ASSUME Underway PROVE FALSE
    OBVIOUS
  <2>1. /\ samples # <<>> /\ Len(samples) \in 1..Len(samples)
        /\ done \in Nat /\ total # Open /\ total \in Nat /\ done < total
    BY TrackerAssumption DEF TrackerInv, TrackerTypes, PhaseInv, Underway
  <2>2. samples[Len(samples)].phaseAt = phaseAt
    BY <2>1 DEF TrackerInv, PhaseInv
  <2>3. extent = total /\ Reached = done
    BY <2>1, <2>2 DEF TrackerInv, PhaseInv, Reached
  <2> QED
    BY <2>1, <2>3 DEF NextPhase
<1>2. ~Underway'
  BY <1>1 DEF NextPhase, Underway
<1>3. TrackerTypes' /\ TimesInv'
  BY DEF TrackerInv, NextPhase, TrackerTypes, TimesInv
<1>4. ASSUME samples # <<>>
      PROVE  /\ samples[Len(samples)].phaseAt <= phaseAt /\ samples[Len(samples)].done = done
             /\ samples[Len(samples)].phaseAt \in Nat /\ phaseAt \in Nat
             /\ total # Open => done = total
  <2>1. samples[Len(samples)] \in Sample /\ phaseAt \in Nat
    BY <1>4 DEF TrackerInv, TrackerTypes
  <2>2. CASE samples[Len(samples)].phaseAt = phaseAt
    BY <1>4, <2>1, <2>2 DEF TrackerInv, PhaseInv, NextPhase, Reached, Sample
  <2>3. CASE samples[Len(samples)].phaseAt # phaseAt
    BY <1>4, <2>1, <2>3 DEF TrackerInv, PhaseInv, Sample
  <2> QED BY <2>2, <2>3
<1>5. PhaseInv'
  <2>1. phaseAt' = phaseAt + 1 /\ samples' = samples /\ done' = done /\ total' = total
    BY DEF NextPhase
  <2>2. samples = <<>> => total = Open
    BY DEF TrackerInv, PhaseInv
  <2>3. ASSUME samples # <<>>
        PROVE  /\ samples[Len(samples)].done = done /\ samples[Len(samples)].phaseAt <= phaseAt + 1
               /\ samples[Len(samples)].phaseAt # phaseAt + 1
               /\ total # Open => done = total
    BY <1>4, <2>3
  <2> QED BY <1>2, <2>1, <2>2, <2>3 DEF PhaseInv
<1> QED
  BY <1>2, <1>3, <1>5 DEF TrackerInv, PaceInv

\* A line is the same from whichever of its points.
LEMMA LineIs ==
  ASSUME NEW r \in Nat, NEW x \in Int, NEW y \in Int, NEW z \in Int
  PROVE  r * (x - y) = r * (x - z) + r * (z - y) /\ r * (z - z) = 0 /\ r * (z + 1 - z) = r
OBVIOUS

\* Samples in the order of time, none later than t.
Timed(s, t) ==
  /\ s \in Seq(Sample)
  /\ \A i \in 1..Len(s) : s[i].at <= t
  /\ \A i \in 1..Len(s) : i > 1 => s[i - 1].at < s[i].at

LEMMA TimedIs ==
  ASSUME NEW t \in Nat, NEW s, Timed(s, t), NEW i \in 1..Len(s)
  PROVE  /\ s[i].at \in Nat /\ s[i].done \in Nat /\ s[i].at <= t
         /\ i < Len(s) => s[i].at < t
<1>1. s[i] \in Sample /\ Len(s) \in Nat
  BY DEF Timed
<1>2. s[i].at \in Nat /\ s[i].done \in Nat
  BY <1>1 DEF Sample
<1>3. ASSUME i < Len(s) PROVE s[i].at < t
  <2>1. i + 1 \in 1..Len(s) /\ i + 1 > 1 /\ i + 1 - 1 = i
    BY <1>1, <1>3
  <2>2. s[i + 1] \in Sample
    BY <2>1 DEF Timed
  <2>3. s[i].at < s[i + 1].at /\ s[i + 1].at <= t
    BY <2>1 DEF Timed
  <2> QED BY <1>2, <2>2, <2>3 DEF Sample
<1> QED
  BY <1>2, <1>3 DEF Timed

\* When the pace changes, the line begins where the last one has come to.
LEMMA PaceTurns ==
  ASSUME NEW t \in Nat, NEW s, Timed(s, t), NEW n \in Nat, NEW r \in Nat, NEW c \in Nat, c <= t,
         NEW b, NEW q, NEW d \in Int, Paced(s, n, t, r, c, b, q, d),
         s # <<>> => s[Len(s)].at = t \/ r = 0, NEW p \in Nat
  PROVE  Paced(s, n, t, p, t, c, r, n)
<1>1. ASSUME NEW i \in 1..Len(s)
      PROVE  /\ s[i].at \in Nat /\ s[i].at <= t
             /\ s[i].at = t => s[i].done = n
             /\ c <= s[i].at => s[i].done = n - r * (t - s[i].at)
  <2>1. PICK a, m : a = s[i].at /\ m = s[i].done
    OBVIOUS
  <2>2. a \in Nat /\ m \in Nat /\ a <= t
    BY <2>1, TimedIs
  <2>3. n = d + r * (t - c) /\ (c <= a => m = d + r * (a - c))
    BY <2>1 DEF Paced
  <2>4. r * (t - c) = r * (t - a) + r * (a - c)
    BY <2>2, LineIs
  <2>5. PICK x \in Int, y \in Int, z \in Int :
          x = r * (t - c) /\ y = r * (t - a) /\ z = r * (a - c)
    BY <2>2
  <2>6. c <= a => m = n - y
    BY <2>2, <2>3, <2>4, <2>5
  <2>7. a = t => m = n
    BY <2>2, <2>3
  <2> QED BY <2>1, <2>2, <2>5, <2>6, <2>7
<1>2. ASSUME NEW i \in 1..Len(s)
      PROVE  /\ t <= s[i].at => s[i].done = n + p * (s[i].at - t)
             /\ c <= s[i].at /\ s[i].at <= t => s[i].done = n - r * (t - s[i].at)
  <2>1. p * (t - t) = 0
    BY LineIs
  <2>2. t <= s[i].at => s[i].at = t
    BY <1>1
  <2> QED BY <1>1, <2>1, <2>2
<1>3. ASSUME NEW i \in 1..Len(s), i < Len(s)
      PROVE  /\ t <= s[i].at => s[i + 1].at = s[i].at + 1
             /\ c <= s[i].at /\ s[i].at < t => r = 0 \/ s[i + 1].at = s[i].at + 1
  <2>1. s[i].at < t /\ s[i].at \in Nat
    BY <1>3, TimedIs
  <2> QED BY <1>3, <2>1 DEF Paced
<1>4. n = n + p * (t - t)
  BY LineIs
<1> QED
  BY <1>2, <1>3, <1>4 DEF Paced

\* A stall adds nothing.
LEMMA PaceWaits ==
  ASSUME NEW t \in Nat, NEW s, NEW n \in Nat, NEW c \in Nat, NEW b, NEW q, NEW d \in Int,
         Paced(s, n, t, 0, c, b, q, d)
  PROVE  Paced(s, n, t + 1, 0, c, b, q, d)
<1>1. n = d + 0 * (t + 1 - c)
  BY DEF Paced
<1> QED
  BY <1>1 DEF Paced

LEMMA FollowsIs ==
  ASSUME NEW u, NEW s, NEW k, Follows(u, s, k), NEW i \in 1..Len(u), i < Len(u)
  PROVE  \E j \in 1..Len(s) :
           /\ u[i] = s[j]
           /\ i + 1 < Len(u) => j < Len(s) /\ u[i + 1] = s[j + 1]
           /\ i + 1 = Len(u) => j = Len(s)
<1>1. /\ Len(s) \in Nat /\ Len(u) \in Nat /\ k \in 1..Len(s) + 1 /\ Len(u) = Len(s) + 2 - k
      /\ \A l \in 1..Len(u) : l < Len(u) => k + l - 1 \in 1..Len(s) /\ u[l] = s[k + l - 1]
  BY DEF Follows
<1>2. PICK j \in Int : j = k + i - 1
  BY <1>1
<1>3. j \in 1..Len(s) /\ u[i] = s[j]
  BY <1>1, <1>2
<1>4. i + 1 < Len(u) => j < Len(s) /\ k + (i + 1) - 1 = j + 1 /\ i + 1 \in 1..Len(u)
  BY <1>1, <1>2
<1>5. i + 1 = Len(u) => j = Len(s)
  BY <1>1, <1>2
<1>6. i + 1 < Len(u) => u[i + 1] = s[j + 1]
  <2> SUFFICES ASSUME i + 1 < Len(u) PROVE u[i + 1] = s[j + 1]
    OBVIOUS
  <2>1. u[i + 1] = s[k + (i + 1) - 1]
    BY <1>1, <1>4
  <2> QED BY <1>4, <2>1
<1> QED
  BY <1>3, <1>4, <1>5, <1>6

\* A report goes on along the line.
LEMMA PaceGoesOn ==
  ASSUME NEW t \in Nat, NEW s, Timed(s, t), NEW n \in Nat, NEW p \in Nat, NEW c \in Nat, c <= t,
         NEW b, NEW q, NEW d \in Int, Paced(s, n, t, p, c, b, q, d),
         s # <<>> => s[Len(s)].at = t \/ (c = t /\ q = 0),
         NEW u, NEW k, Follows(u, s, k), u[Len(u)].at = t + 1, u[Len(u)].done = n + p
  PROVE  Paced(u, n + p, t + 1, p, c, b, q, d)
<1>1. p * (t + 1 - c) = p * (t - c) + p /\ p * (t - c) \in Int
  OBVIOUS
<1>2. n + p = d + p * (t + 1 - c)
  <2>1. n = d + p * (t - c)
    BY DEF Paced
  <2> QED BY <1>1, <2>1
<1>3. Len(u) \in Nat
  BY DEF Follows
<1>4. ASSUME NEW i \in 1..Len(u)
      PROVE  /\ c <= u[i].at => u[i].done = d + p * (u[i].at - c)
             /\ b <= u[i].at /\ u[i].at <= c => u[i].done = d - q * (c - u[i].at)
  <2>1. CASE i < Len(u)
    <3>1. PICK j \in 1..Len(s) : u[i] = s[j]
      BY <2>1, FollowsIs
    <3> QED BY <3>1 DEF Paced
  <2>2. CASE i = Len(u)
    <3>1. u[i].at = t + 1 /\ u[i].done = n + p
      BY <2>2
    <3>2. ~(u[i].at <= c)
      BY <3>1
    <3> QED BY <1>2, <3>1, <3>2
  <2> QED BY <1>3, <2>1, <2>2
<1>5. ASSUME NEW i \in 1..Len(u), i < Len(u)
      PROVE  /\ c <= u[i].at => u[i + 1].at = u[i].at + 1
             /\ b <= u[i].at /\ u[i].at < c => q = 0 \/ u[i + 1].at = u[i].at + 1
  <2>1. PICK j \in 1..Len(s) :
          /\ u[i] = s[j]
          /\ i + 1 < Len(u) => j < Len(s) /\ u[i + 1] = s[j + 1]
          /\ i + 1 = Len(u) => j = Len(s)
    BY <1>5, FollowsIs
  <2>2. CASE i + 1 < Len(u)
    BY <2>1, <2>2 DEF Paced
  <2>3. CASE i + 1 = Len(u)
    <3>1. j = Len(s) /\ s # <<>>
      BY <2>1, <2>3
    <3>2. s[j].at \in Nat /\ s[j].at <= t
      BY TimedIs
    <3>3. u[i].at = s[j].at /\ u[i + 1].at = t + 1
      BY <2>1, <2>3
    <3>4. s[j].at = t \/ (c = t /\ q = 0)
      BY <3>1
    <3> HIDE <2>1
    <3> QED BY <3>2, <3>3, <3>4
  <2> QED BY <1>3, <1>5, <2>2, <2>3
<1> QED
  BY <1>2, <1>4, <1>5 DEF Paced

\* What a step makes of the lines.
LEMMA LinesNow ==
  ASSUME TrackerInv, Underway
  PROVE  \E s, n, t, r, c, b, q, d :
           /\ s = samples /\ n = done /\ t = now /\ r = pace /\ c = since /\ b = before
           /\ Timed(s, t) /\ n \in Nat /\ t \in Nat /\ r \in Nat /\ c \in Nat /\ c <= t
           /\ s # <<>> /\ (s[Len(s)].at = t \/ r = 0)
           /\ q \in Nat /\ d \in Int /\ Paced(s, n, t, r, c, b, q, d)
<1>1. PICK s, n, t, r, c, b, q, d :
           /\ s = samples /\ n = done /\ t = now /\ r = pace /\ c = since /\ b = before
           /\ q \in Nat /\ d \in Int /\ Paced(s, n, t, r, c, b, q, d)
  BY DEF TrackerInv, PaceInv
<1>2. Timed(s, t)
  BY <1>1 DEF Timed, TrackerInv, TrackerTypes, TimesInv
<1>3. n \in Nat /\ t \in Nat /\ r \in Nat /\ c \in Nat /\ c <= t
  BY <1>1 DEF TrackerInv, TrackerTypes, TimesInv
<1>4. s # <<>> /\ (s[Len(s)].at = t \/ r = 0)
  BY <1>1 DEF TrackerInv, PhaseInv, PaceInv, Underway
<1> QED
  BY <1>1, <1>2, <1>3, <1>4

\* A tick without work leaves the samples; a pace that it ends is the one before.
LEMMA QuietTickKeeps ==
  ASSUME TrackerInv, Tick(0)
  PROVE  TrackerInv'
<1>1. /\ now' = now + 1 /\ pace' = 0 /\ samples' = samples /\ total' = total /\ done' = done
      /\ phaseAt' = phaseAt /\ extent' = extent
      /\ IF pace = 0 THEN since' = since /\ before' = before ELSE since' = now /\ before' = since
  BY DEF Tick
<1>2. /\ now \in Nat /\ done \in Nat /\ pace \in Nat /\ since \in Nat /\ before \in Nat
      /\ before <= since /\ since <= now
  BY DEF TrackerInv, TrackerTypes, TimesInv
<1>3. TrackerTypes'
  BY <1>1, <1>2 DEF TrackerInv, TrackerTypes
<1>4. TimesInv'
  <2>1. ASSUME NEW i \in 1..Len(samples) PROVE samples[i].at <= now + 1
    <3>1. Timed(samples, now)
      BY DEF Timed, TrackerInv, TrackerTypes, TimesInv
    <3> QED BY <1>2, <3>1, TimedIs
  <2>2. before' <= since' /\ since' <= now'
    BY <1>1, <1>2
  <2> QED BY <1>1, <2>1, <2>2 DEF TrackerInv, TimesInv
<1>5. PhaseInv'
  BY <1>1 DEF TrackerInv, PhaseInv, Underway
<1>6. ASSUME Underway
      PROVE  \E s, n, t, p, c, b, q, d :
               /\ s = samples' /\ n = done' /\ t = now' /\ p = pace' /\ c = since' /\ b = before'
               /\ q \in Nat /\ d \in Int /\ Paced(s, n, t, p, c, b, q, d)
  <2>1. PICK s, n, t, r, c, b, q, d :
           /\ s = samples /\ n = done /\ t = now /\ r = pace /\ c = since /\ b = before
           /\ Timed(s, t) /\ n \in Nat /\ t \in Nat /\ r \in Nat /\ c \in Nat /\ c <= t
           /\ s # <<>> /\ (s[Len(s)].at = t \/ r = 0)
           /\ q \in Nat /\ d \in Int /\ Paced(s, n, t, r, c, b, q, d)
    BY <1>6, LinesNow
  <2>2. s = samples' /\ n = done' /\ t + 1 = now' /\ 0 = pace'
    BY <1>1, <2>1
  <2>3. CASE r = 0
    <3>1. Paced(s, n, t + 1, 0, c, b, q, d)
      BY <2>1, <2>3, PaceWaits
    <3>2. c = since' /\ b = before'
      BY <1>1, <2>1, <2>3
    <3> QED BY <2>1, <2>2, <3>1, <3>2
  <2>4. CASE r # 0
    <3>1. Paced(s, n, t, 0, t, c, r, n)
      BY <2>1, PaceTurns
    <3>2. Paced(s, n, t + 1, 0, t, c, r, n)
      BY <2>1, <3>1, PaceWaits
    <3>3. t = since' /\ c = before'
      BY <1>1, <2>1, <2>4
    <3> QED BY <2>1, <2>2, <3>2, <3>3
  <2> QED BY <2>3, <2>4
<1>7. PaceInv'
  BY <1>1, <1>6 DEF PaceInv, Underway
<1> QED
  BY <1>3, <1>4, <1>5, <1>7 DEF TrackerInv

\* What follows samples in order, with a later one, is in order.
LEMMA FollowsInTime ==
  ASSUME NEW t \in Nat, NEW s, Timed(s, t), NEW u \in Seq(Sample), NEW k, Follows(u, s, k),
         u[Len(u)].at = t + 1
  PROVE  Timed(u, t + 1)
<1>1. Len(u) \in Nat
  OBVIOUS
<1>2. ASSUME NEW i \in 1..Len(u) PROVE u[i].at <= t + 1
  <2>1. CASE i < Len(u)
    <3>1. PICK j \in 1..Len(s) : u[i] = s[j]
      BY <2>1, FollowsIs
    <3>2. s[j].at \in Nat /\ s[j].at <= t
      BY TimedIs
    <3> QED BY <3>1, <3>2
  <2>2. CASE i = Len(u)
    BY <2>2
  <2> QED BY <1>1, <2>1, <2>2
<1>3. ASSUME NEW i \in 1..Len(u), i > 1 PROVE u[i - 1].at < u[i].at
  <2>1. PICK h \in 1..Len(u) : h = i - 1 /\ h < Len(u) /\ i = h + 1
    BY <1>1, <1>3
  <2>2. PICK j \in 1..Len(s) :
          /\ u[h] = s[j]
          /\ h + 1 < Len(u) => j < Len(s) /\ u[h + 1] = s[j + 1]
    BY <2>1, FollowsIs
  <2>3. s[j].at \in Nat /\ s[j].at <= t
    BY TimedIs
  <2>4. CASE i < Len(u)
    <3>1. j < Len(s) /\ u[i] = s[j + 1]
      BY <2>1, <2>2, <2>4
    <3>2. j + 1 \in 1..Len(s) /\ j + 1 > 1 /\ j + 1 - 1 = j
      BY <3>1 DEF Follows
    <3>3. s[j].at < s[j + 1].at
      BY <3>2 DEF Timed
    <3> QED BY <2>1, <2>2, <3>1, <3>3
  <2>5. CASE i = Len(u)
    BY <2>1, <2>2, <2>3, <2>5
  <2> QED BY <1>1, <2>4, <2>5
<1> QED
  BY <1>2, <1>3 DEF Timed

\* The first sample of a phase is on the line of the pace.
LEMMA PaceBegins ==
  ASSUME NEW t \in Nat, NEW n \in Nat, NEW p \in Nat, NEW c \in Nat, c <= t, NEW b,
         NEW u, Len(u) = 1, u[1].at = t + 1, u[1].done = n
  PROVE  Paced(u, n, t + 1, p, c, b, 0, n - p * (t + 1 - c))
<1>1. PICK x \in Int : x = p * (t + 1 - c)
  OBVIOUS
<1>2. PICK d \in Int : d = n - x
  BY <1>1
<1>3. n = d + p * (t + 1 - c) /\ ~(t + 1 <= c)
  BY <1>1, <1>2
<1>4. \A i \in 1..Len(u) : i = 1 /\ ~(i < Len(u))
  OBVIOUS
<1>5. ASSUME NEW i \in 1..Len(u)
      PROVE  /\ c <= u[i].at => u[i].done = d + p * (u[i].at - c)
             /\ ~(u[i].at <= c) /\ ~(i < Len(u))
  <2>1. u[i] = u[1]
    BY <1>4
  <2>2. u[i].at = t + 1 /\ u[i].done = n
    BY <2>1
  <2>3. ~(i < Len(u))
    BY <1>4
  <2> QED BY <1>3, <2>2, <2>3
<1>6. Paced(u, n, t + 1, p, c, b, 0, d)
  BY <1>3, <1>5 DEF Paced
<1> QED
  BY <1>1, <1>2, <1>6

\* A tick with work adds the sample of its report.
LEMMA WorkTickKeeps ==
  ASSUME TrackerInv, NEW p \in Paces, p # 0, Tick(p)
  PROVE  TrackerInv'
<1>1. PICK m \in Nat, e \in Seq(Sample), k \in Nat :
        /\ done' = m /\ total' = extent /\ Adds(m, e, k)
        /\ e \in {<<>>, samples}
        /\ Underway' /\ e # <<>> => Underway /\ m = done + p
  BY TickReports
<1>2. /\ now' = now + 1 /\ pace' = p /\ phaseAt' = phaseAt /\ extent' = extent
      /\ IF p = pace THEN since' = since /\ before' = before ELSE since' = now /\ before' = since
  BY DEF Tick
<1>3. /\ now \in Nat /\ done \in Nat /\ pace \in Nat /\ since \in Nat /\ before \in Nat
      /\ phaseAt \in Nat /\ extent \in Totals \cup {Open} /\ samples \in Seq(Sample)
      /\ before <= since /\ since <= now /\ (since = now => pace = 0) /\ p \in Nat
  BY TrackerAssumption DEF TrackerInv, TrackerTypes, TimesInv
<1>4. PICK u : u = samples'
  OBVIOUS
<1>5. /\ u \in Seq(Sample) /\ Follows(u, e, k) /\ u # <<>> /\ Len(u) \in 1..Len(u)
      /\ u[Len(u)].at = now + 1 /\ u[Len(u)].done = m /\ u[Len(u)].phaseAt = phaseAt
      /\ Len(u) >= 3 => now + 1 - u[1].at <= WINDOW
  <2>1. /\ u \in Seq(Sample) /\ Follows(u, e, k)
        /\ u[Len(u)] = [at |-> now + 1, done |-> m, phaseAt |-> phaseAt]
        /\ Len(u) >= 3 => now + 1 - u[1].at <= WINDOW
    <3>1. u \in Seq(Sample) /\ Follows(u, e, k)
      BY <1>1, <1>4 DEF Adds
    <3>2. u[Len(u)] = [at |-> now + 1, done |-> m, phaseAt |-> phaseAt]
      BY <1>1, <1>2, <1>4 DEF Adds
    <3>3. Len(u) >= 3 => now' - u[1].at <= WINDOW
      BY <1>1, <1>4 DEF Adds
    <3>4. Len(u) >= 3 => now + 1 - u[1].at <= WINDOW
      <4>1. PICK v : v = now'
        OBVIOUS
      <4>2. v = now + 1 /\ (Len(u) >= 3 => v - u[1].at <= WINDOW)
        BY <1>2, <3>3, <4>1
      <4>3. u[1] \in Sample \/ ~(Len(u) >= 3)
        BY <3>1
      <4>4. u[1].at \in Nat \/ ~(Len(u) >= 3)
        BY <4>3 DEF Sample
      <4> QED BY <1>3, <4>2, <4>4
    <3> QED BY <3>1, <3>2, <3>4
  <2>2. Len(u) >= 1
    BY <2>1 DEF Follows
  <2> QED BY <2>1, <2>2
<1>6. TrackerTypes'
  <2>1. now' \in Nat /\ since' \in Nat /\ before' \in Nat /\ pace' \in Nat
    BY <1>2, <1>3
  <2>2. done' \in Nat /\ phaseAt' \in Nat /\ samples' \in Seq(Sample)
    BY <1>1, <1>2, <1>3, <1>4, <1>5
  <2>3. total' \in Totals \cup {Open} /\ extent' \in Totals \cup {Open}
    BY <1>1, <1>2, <1>3
  <2> QED BY <2>1, <2>2, <2>3 DEF TrackerTypes
<1>7. Timed(e, now)
  BY <1>1, <1>3 DEF Timed, TrackerInv, TimesInv
<1>8. TimesInv'
  <2>1. Timed(u, now + 1)
    BY <1>3, <1>5, <1>7, FollowsInTime
  <2>2. /\ before' <= since' /\ since' <= now' /\ ~(since' = now')
    BY <1>2, <1>3
  <2>3. Len(u) >= 3 => u[Len(u)].at - u[1].at <= WINDOW
    <3> SUFFICES ASSUME Len(u) >= 3 PROVE u[Len(u)].at - u[1].at <= WINDOW
      OBVIOUS
    <3>1. now + 1 - u[1].at <= WINDOW /\ u[Len(u)].at = now + 1
      BY <1>5
    <3>2. u[1].at \in Nat /\ WINDOW \in Nat
      <4>1. u[1] \in Sample
        BY <1>5
      <4> QED BY <4>1, TrackerAssumption DEF Sample
    <3> QED BY <1>3, <3>1, <3>2
  <2> QED BY <1>2, <1>4, <2>1, <2>2, <2>3 DEF Timed, TimesInv
<1>9. PhaseInv'
  <2>1. ASSUME Underway', NEW i \in 1..Len(u) PROVE u[i].phaseAt = phaseAt
    <3>1. CASE i < Len(u)
      <4>1. PICK j \in 1..Len(e) : u[i] = e[j]
        BY <1>5, <3>1, FollowsIs
      <4>2. e = samples /\ Underway
        BY <1>1, <2>1, <4>1
      <4> QED BY <4>1, <4>2 DEF TrackerInv, PhaseInv
    <3>2. CASE i = Len(u)
      BY <1>5, <3>2
    <3> QED BY <1>5, <3>1, <3>2
  <2>2. u[Len(u)].done = done' /\ u[Len(u)].phaseAt <= phaseAt' /\ u[Len(u)].phaseAt = phaseAt'
        /\ extent' = total'
    BY <1>1, <1>2, <1>3, <1>5
  <2> QED BY <1>2, <1>4, <1>5, <2>1, <2>2 DEF PhaseInv
<1>10. ASSUME Underway'
       PROVE  \E s, n, t, r, c, b, q, d :
                /\ s = samples' /\ n = done' /\ t = now' /\ r = pace' /\ c = since' /\ b = before'
                /\ q \in Nat /\ d \in Int /\ Paced(s, n, t, r, c, b, q, d)
  <2>1. CASE e = <<>>
    <3>1. PICK t, c, b : t = now /\ c = since' /\ b = before'
      OBVIOUS
    <3>2. t \in Nat /\ c \in Nat /\ c <= t
      BY <1>2, <1>3, <3>1
    <3>3. Len(u) = 1 /\ u[1].at = t + 1 /\ u[1].done = m
      BY <1>5, <2>1, <3>1 DEF Follows
    <3>4. Paced(u, m, t + 1, p, c, b, 0, m - p * (t + 1 - c))
      BY <1>3, <3>2, <3>3, PaceBegins
    <3>5. m - p * (t + 1 - c) \in Int
      BY <1>3, <3>2
    <3>6. u = samples' /\ m = done' /\ t + 1 = now' /\ p = pace'
      BY <1>1, <1>2, <1>4, <3>1
    <3> QED BY <3>1, <3>4, <3>5, <3>6
  <2>2. CASE e # <<>>
    <3>1. Underway /\ m = done + p /\ e = samples
      BY <1>1, <1>10, <2>2
    <3>2. PICK s, n, t, r, c, b, q, d :
           /\ s = samples /\ n = done /\ t = now /\ r = pace /\ c = since /\ b = before
           /\ Timed(s, t) /\ n \in Nat /\ t \in Nat /\ r \in Nat /\ c \in Nat /\ c <= t
           /\ s # <<>> /\ (s[Len(s)].at = t \/ r = 0)
           /\ q \in Nat /\ d \in Int /\ Paced(s, n, t, r, c, b, q, d)
      BY <3>1, LinesNow
    <3>3. Follows(u, s, k) /\ u[Len(u)].at = t + 1 /\ u[Len(u)].done = n + p
      BY <1>5, <3>1, <3>2
    <3>4. u = samples' /\ n + p = done' /\ t + 1 = now' /\ p = pace'
      BY <1>1, <1>2, <1>4, <3>1, <3>2
    <3>5. CASE p = pace
      <4>1. s[Len(s)].at = t
        BY <3>2, <3>5
      <4>2. Paced(u, n + p, t + 1, p, c, b, q, d)
        BY <1>3, <3>2, <3>3, <3>5, <4>1, PaceGoesOn
      <4>3. c = since' /\ b = before'
        BY <1>2, <3>2, <3>5
      <4> QED BY <3>2, <3>4, <4>2, <4>3
    <3>6. CASE p # pace
      <4>1. Paced(s, n, t, p, t, c, r, n)
        BY <1>3, <3>2, PaceTurns
      <4>2. s[Len(s)].at = t \/ (t = t /\ r = 0)
        BY <3>2
      <4>3. Paced(u, n + p, t + 1, p, t, c, r, n)
        BY <1>3, <3>2, <3>3, <4>1, <4>2, PaceGoesOn
      <4>4. t = since' /\ c = before' /\ n \in Int
        BY <1>2, <3>2, <3>6
      <4> QED BY <3>2, <3>4, <4>3, <4>4
    <3> QED BY <3>5, <3>6
  <2> QED BY <2>1, <2>2
<1>11. PaceInv'
  <2>1. u[Len(u)].at = now'
    BY <1>2, <1>5
  <2> QED BY <1>4, <1>10, <2>1 DEF PaceInv
<1> QED
  BY <1>6, <1>8, <1>9, <1>11 DEF TrackerInv

LEMMA TrackerStep == TrackerInv /\ [TrackerNext]_trackerVars => TrackerInv'
<1> SUFFICES ASSUME TrackerInv, [TrackerNext]_trackerVars PROVE TrackerInv'
  OBVIOUS
<1>1. ASSUME NEW p \in Paces, Tick(p) PROVE TrackerInv'
  BY <1>1, QuietTickKeeps, WorkTickKeeps
<1>2. CASE NextPhase
  BY <1>2, NextPhaseKeeps
<1>3. CASE UNCHANGED trackerVars
  BY <1>3 DEF trackerVars, TrackerInv, TrackerTypes, TimesInv, PhaseInv, PaceInv, Underway
<1> QED
  BY <1>1, <1>2, <1>3 DEF TrackerNext

LEMMA MoreIsMore ==
  ASSUME NEW r \in Nat, NEW x \in Int, NEW y \in Int, x <= y
  PROVE  r * x <= r * y
OBVIOUS

LEMMA Cancels ==
  ASSUME NEW r \in Nat, r > 0, NEW x \in Int, NEW y \in Int, x * r <= y * r
  PROVE  x <= y
<1> SUFFICES ASSUME y < x PROVE FALSE
  OBVIOUS
<1>1. PICK z \in Nat : x = y + z /\ z > 0
  <2>1. x - y \in Nat /\ x = y + (x - y) /\ x - y > 0
    OBVIOUS
  <2> QED BY <2>1
<1>2. x * r = y * r + z * r
  BY <1>1
<1>3. z * r > 0
  BY <1>1
<1>4. x * r \in Int /\ y * r \in Int /\ z * r \in Int
  BY <1>1
<1> QED
  BY <1>2, <1>3, <1>4

\* A window of a ticks at the pace q, and then b at the lower p, whose first and last h
\* ticks, a half, differ by no more than the ratio: what it has done in all.
LEMMA HalvesTell ==
  ASSUME NEW p \in Nat, NEW q \in Nat, p < q, NEW a \in Nat, NEW b \in Nat, a > 0, a + b <= 3 * b,
         NEW h \in Nat, h > 0, 2 * h <= a + b, a + b <= 2 * h + 1,
         NEW x \in Int, NEW y \in Int, 5 * x <= 8 * y,
         x = IF a <= h THEN q * a + p * (h - a) ELSE q * h,
         y = IF a <= a + b - h THEN p * h ELSE p * b + q * (h - b)
  PROVE  q * a + p * b <= 2 * p * (a + b)
<1>1. PICK qa \in Int, qb \in Int, qh \in Int, pa \in Int, pb \in Int, ph \in Int :
        qa = q * a /\ qb = q * b /\ qh = q * h /\ pa = p * a /\ pb = p * b /\ ph = p * h
  OBVIOUS
<1>2. p * (h - a) = ph - pa /\ q * (h - b) = qh - qb /\ 2 * p * (a + b) = 2 * pa + 2 * pb
  BY <1>1
<1>3. b > 0 /\ a <= 2 * b /\ 2 * h <= 3 * b
  OBVIOUS
<1>4. 0 <= pa /\ 0 <= pb /\ 0 <= ph
  BY <1>1
<1>5. CASE a <= h
  <2>1. x = qa + ph - pa /\ y = ph
    BY <1>1, <1>2, <1>5
  <2>2. ph <= pa + pb
    <3>1. p * h <= p * (a + b)
      BY MoreIsMore
    <3>2. p * (a + b) = p * a + p * b
      OBVIOUS
    <3> QED BY <1>1, <3>1, <3>2
  <2>3. qa + pb <= 2 * pa + 2 * pb
    BY <1>4, <2>1, <2>2
  <2> QED BY <1>1, <1>2, <2>3
<1>6. CASE h < a /\ a <= a + b - h
  <2>1. x = q * h /\ y = p * h
    BY <1>6
  <2>2. 5 * q <= 8 * p
    <3>1. (5 * q) * h <= (8 * p) * h
      BY <2>1
    <3> QED BY <3>1, Cancels
  <2>3. 5 * qa <= 8 * pa
    <3>1. a * (5 * q) <= a * (8 * p)
      BY <2>2, MoreIsMore
    <3>2. a * (5 * q) = 5 * (q * a) /\ a * (8 * p) = 8 * (p * a)
      OBVIOUS
    <3> QED BY <1>1, <3>1, <3>2
  <2>4. qa + pb <= 2 * pa + 2 * pb
    BY <1>4, <2>3
  <2> QED BY <1>1, <1>2, <2>4
<1>7. CASE a > a + b - h
  <2>1. x = qh /\ y = pb + qh - qb
    BY <1>1, <1>2, <1>7
  <2>2. 2 * qh <= 3 * qb
    <3>1. q * (2 * h) <= q * (3 * b)
      BY <1>3, MoreIsMore
    <3>2. q * (2 * h) = 2 * (q * h) /\ q * (3 * b) = 3 * (q * b)
      OBVIOUS
    <3> QED BY <1>1, <3>1, <3>2
  <2>3. 7 * qb <= 16 * pb
    BY <2>1, <2>2
  <2>4. 7 * q <= 16 * p
    <3>1. (7 * q) * b = 7 * (q * b) /\ (16 * p) * b = 16 * (p * b)
      OBVIOUS
    <3>2. (7 * q) * b <= (16 * p) * b
      BY <1>1, <2>3, <3>1
    <3> QED BY <1>3, <3>2, Cancels
  <2>5. 7 * qa <= 16 * pa
    <3>1. a * (7 * q) <= a * (16 * p)
      BY <2>4, MoreIsMore
    <3>2. a * (7 * q) = 7 * (q * a) /\ a * (16 * p) = 16 * (p * a)
      OBVIOUS
    <3> QED BY <1>1, <3>1, <3>2
  <2>6. pa <= 2 * pb
    <3>1. p * a <= p * (2 * b)
      BY <1>3, MoreIsMore
    <3>2. p * (2 * b) = 2 * (p * b)
      OBVIOUS
    <3> QED BY <1>1, <3>1, <3>2
  <2>7. qa + pb <= 2 * pa + 2 * pb
    BY <1>4, <2>5, <2>6
  <2> QED BY <1>1, <1>2, <2>7
<1> QED
  BY <1>5, <1>6, <1>7

\* After a pace that was not a stall, every tick has its sample.
LEMMA InARow ==
  ASSUME NEW t \in Nat, NEW s, Timed(s, t), NEW n, NEW p, NEW c \in Nat, NEW b, NEW q, NEW d,
         Paced(s, n, t, p, c, b, q, d), q # 0, s # <<>>, b \in Nat, b <= s[1].at
  PROVE  \A i \in 1..Len(s) : s[i].at = s[1].at + i - 1
<1>1. Len(s) \in Nat /\ 1 \in 1..Len(s)
  BY DEF Timed
<1> DEFINE Bad == {i \in 1..Len(s) : s[i].at # s[1].at + i - 1}
<1> SUFFICES ASSUME Bad # {} PROVE FALSE
  OBVIOUS
<1>2. PICK i \in Bad : \A j \in Bad : <<j, i>> \notin OpToRel(<, Nat)
  <2>1. Bad \subseteq Nat
    OBVIOUS
  <2> QED BY <2>1, NatLessThanWellFounded, WFMin
<1>3. i \in 1..Len(s) /\ s[i].at # s[1].at + i - 1
  OBVIOUS
<1>4. i > 1
  <2>1. s[1].at \in Nat
    BY <1>1, TimedIs
  <2> QED BY <1>1, <1>3, <2>1
<1>5. PICK j \in 1..Len(s) : j = i - 1 /\ j < Len(s) /\ i = j + 1
  BY <1>1, <1>3, <1>4
<1>6. j \notin Bad
  <2>1. j < i /\ j \in Nat /\ i \in Nat
    BY <1>1, <1>5
  <2> QED BY <1>2, <2>1 DEF OpToRel
<1>7. s[j].at = s[1].at + j - 1 /\ s[1].at \in Nat /\ s[j].at \in Nat
  BY <1>1, <1>6, TimedIs
<1>8. b <= s[j].at
  <2>1. PICK x \in Nat, v \in Nat : x = s[1].at /\ v = s[j].at
    BY <1>7
  <2>2. v = x + j - 1 /\ j \in Nat /\ j >= 1
    BY <1>1, <1>7, <2>1
  <2>3. b <= v
    BY <2>1, <2>2
  <2> QED BY <2>1, <2>3
<1>9. s[j + 1].at = s[j].at + 1
  <2>1. /\ c <= s[j].at => s[j + 1].at = s[j].at + 1
        /\ b <= s[j].at /\ s[j].at < c => q = 0 \/ s[j + 1].at = s[j].at + 1
    BY <1>5 DEF Paced
  <2>2. PICK v \in Nat : v = s[j].at
    BY <1>7
  <2>3. c <= v \/ v < c
    OBVIOUS
  <2> QED BY <1>8, <2>1, <2>2, <2>3
<1>10. s[i].at = s[1].at + i - 1
  <2>1. PICK x \in Nat, v \in Nat : x = s[1].at /\ v = s[j].at
    BY <1>7
  <2>2. v = x + j - 1 /\ j \in Int /\ i = j + 1
    BY <1>5, <1>7, <2>1
  <2>3. s[i].at = v + 1
    BY <1>5, <1>9, <2>1
  <2>4. v + 1 = x + i - 1
    BY <2>2
  <2> QED BY <2>1, <2>3, <2>4
<1> QED
  BY <1>3, <1>10

\* The rate is that from the least to the greatest of the indices.
LEMMA SlopeIs ==
  ASSUME NEW picked \in SUBSET Int, NEW i \in picked, NEW j \in picked,
         \A l \in picked : i <= l /\ l <= j
  PROVE  Slope(picked) = <<samples[j].done - samples[i].done, samples[j].at - samples[i].at>>
<1>1. \A k \in picked : (\A l \in picked : k <= l) => k = i
  OBVIOUS
<1>2. \A k \in picked : (\A l \in picked : l <= k) => k = j
  OBVIOUS
<1>3. (CHOOSE k \in picked : \A l \in picked : k <= l) = i
  BY <1>1
<1>4. (CHOOSE k \in picked : \A l \in picked : l <= k) = j
  BY <1>2
<1> QED
  BY <1>3, <1>4 DEF Slope

\* An estimate is made of a phase that is underway, and of four samples.
LEMMA EstimatesOf ==
  ASSUME TrackerInv, Estimates
  PROVE  Underway /\ Len(samples) \in Nat /\ Len(samples) >= 4 /\ DOMAIN samples = 1..Len(samples)
<1>1. done \in Nat /\ total # Open /\ total \in Nat /\ total > done
  BY TrackerAssumption DEF TrackerInv, TrackerTypes, Estimates
<1>2. samples \in Seq(Sample) /\ Len(samples) >= 4
  BY DEF TrackerInv, TrackerTypes, Estimates, IsStable, Long
<1> QED
  BY <1>1, <1>2 DEF Underway

\* What the samples of a line differ by.
LEMMA PacedDone ==
  ASSUME NEW s, NEW n, NEW t, NEW p, NEW c, NEW b, NEW q, NEW d, Paced(s, n, t, p, c, b, q, d),
         NEW i \in 1..Len(s), NEW x \in Nat, s[i].at = x, c \in Nat, b \in Nat, b <= x
  PROVE  s[i].done = IF c <= x THEN d + p * (x - c) ELSE d - q * (c - x)
<1>1. /\ c <= x => s[i].done = d + p * (x - c)
      /\ b <= x /\ x <= c => s[i].done = d - q * (c - x)
  BY DEF Paced
<1>2. ~(c <= x) => x <= c
  OBVIOUS
<1> QED
  BY <1>1, <1>2

\* The ticks from a to t on this side of the midpoint and on that one.
LEMMA MidpointIs ==
  ASSUME NEW a \in Nat, NEW t \in Nat, NEW h \in Nat, 2 * h <= t - a, t - a <= 2 * h + 1,
         NEW i \in Int, NEW v \in Int, v = a + i - 1
  PROVE  /\ 2 * v <= a + t <=> i <= h + 1
         /\ 2 * v >= a + t <=> i >= t - a - h + 1
OBVIOUS

LEMMA RangesAre ==
  ASSUME NEW l \in Nat, NEW m \in 1..l
  PROVE  {i \in 1..l : i <= m} = 1..m /\ {i \in 1..l : i >= m} = m..l
<1>1. {i \in 1..l : i <= m} = 1..m
  OBVIOUS
<1>2. {i \in 1..l : i >= m} = m..l
  OBVIOUS
<1> QED
  BY <1>1, <1>2

\* A window of which each tick has its sample, as long as t - a, with halves that agree.
LEMMA HalvesAre ==
  ASSUME NEW t \in Nat, NEW a \in Nat, t - a >= 3, samples \in Seq(Sample),
         Len(samples) = t - a + 1, \A i \in 1..Len(samples) : samples[i].at = a + i - 1, IsStable
  PROVE  \E h \in Nat :
           /\ h > 0 /\ 2 * h <= t - a /\ t - a <= 2 * h + 1
           /\ h + 1 \in 1..Len(samples) /\ t - a - h + 1 \in 1..Len(samples)
           /\ (samples[h + 1].done - samples[1].done) * h * 5
                <= 8 * (samples[Len(samples)].done - samples[t - a - h + 1].done) * h
<1>1. PICK h \in Nat : h > 0 /\ 2 * h <= t - a /\ t - a <= 2 * h + 1
  <2>1. \A m \in Nat : m >= 3 => m \div 2 \in Nat /\ m \div 2 > 0
                   /\ 2 * (m \div 2) <= m /\ m <= 2 * (m \div 2) + 1
    OBVIOUS
  <2>2. PICK m \in Nat : m = t - a /\ m >= 3
    OBVIOUS
  <2>3. PICK h \in Nat : h = m \div 2
    BY <2>1, <2>2
  <2> QED BY <2>1, <2>2, <2>3
<1>2. PICK l \in Nat : l = t - a + 1
  OBVIOUS
<1>3. Len(samples) = l /\ DOMAIN samples = 1..l
  BY <1>2
<1>4. samples[1].at = a /\ samples[l].at = t /\ 1 \in 1..l /\ l \in 1..l
  BY <1>2, <1>3
<1> DEFINE ends == samples[1].at + samples[Len(samples)].at
           older == {i \in DOMAIN samples : 2 * samples[i].at <= ends}
           newer == {i \in DOMAIN samples : 2 * samples[i].at >= ends}
<1>5. Within(Slope(older), Slope(newer), 8, 5)
  BY DEF IsStable
<1>6. PICK e \in Nat : e = t - a - h + 1
  BY <1>1
<1>7. h + 1 \in 1..l /\ e \in 1..l
  BY <1>1, <1>2, <1>6
<1>8. \A i \in 1..l : samples[i].at = a + i - 1
  BY <1>3
<1>9. ASSUME NEW i \in 1..l
      PROVE  /\ 2 * samples[i].at <= a + t <=> i <= h + 1
             /\ 2 * samples[i].at >= a + t <=> i >= e
  <2>1. PICK v \in Int : v = a + i - 1
    OBVIOUS
  <2>2. samples[i].at = v
    BY <1>8, <2>1
  <2>3. (2 * v <= a + t <=> i <= h + 1) /\ (2 * v >= a + t <=> i >= t - a - h + 1)
    BY <1>1, <2>1, MidpointIs
  <2> QED BY <1>6, <2>2, <2>3
<1>10. older = 1..h + 1 /\ newer = e..l
  <2>1. ends = a + t
    BY <1>3, <1>4
  <2> HIDE DEF ends
  <2>2. /\ older = {i \in 1..l : 2 * samples[i].at <= a + t}
        /\ newer = {i \in 1..l : 2 * samples[i].at >= a + t}
    BY <1>3, <2>1
  <2>3. {i \in 1..l : 2 * samples[i].at <= a + t} = {i \in 1..l : i <= h + 1}
        /\ {i \in 1..l : 2 * samples[i].at >= a + t} = {i \in 1..l : i >= e}
    BY <1>9
  <2>4. PICK m : m = h + 1
    OBVIOUS
  <2>5. {i \in 1..l : i <= m} = 1..m /\ {i \in 1..l : i >= e} = e..l
    BY <1>7, <2>4, RangesAre
  <2> QED BY <2>2, <2>3, <2>4, <2>5
<1> HIDE DEF older, newer, ends
<1>11. Slope(older) = <<samples[h + 1].done - samples[1].done, h>>
  <2>1. Slope(1..h + 1) = <<samples[h + 1].done - samples[1].done, samples[h + 1].at - samples[1].at>>
    <3>1. PICK f, w : f = 1 /\ w = h + 1
      OBVIOUS
    <3>2. f..w \in SUBSET Int /\ f \in f..w /\ w \in f..w /\ \A k \in f..w : f <= k /\ k <= w
      BY <3>1
    <3>3. Slope(f..w) = <<samples[w].done - samples[f].done, samples[w].at - samples[f].at>>
      BY <3>2, SlopeIs
    <3> QED BY <3>1, <3>3
  <2>2. samples[h + 1].at - samples[1].at = h
    <3>1. samples[h + 1].at = a + (h + 1) - 1 /\ samples[1].at = a
      BY <1>4, <1>7, <1>8
    <3>2. a + (h + 1) - 1 - a = h
      OBVIOUS
    <3> QED BY <3>1, <3>2
  <2> QED BY <1>10, <2>1, <2>2
<1>12. Slope(newer) = <<samples[l].done - samples[e].done, h>>
  <2>1. e..l \in SUBSET Int /\ e \in e..l /\ l \in e..l /\ \A k \in e..l : e <= k /\ k <= l
    BY <1>7
  <2>2. Slope(e..l) = <<samples[l].done - samples[e].done, samples[l].at - samples[e].at>>
    BY <2>1, SlopeIs
  <2>3. samples[l].at - samples[e].at = h
    BY <1>1, <1>2, <1>4, <1>6, <1>7, <1>8
  <2> QED BY <1>10, <2>2, <2>3
<1>13. (samples[h + 1].done - samples[1].done) * h * 5 <= 8 * (samples[l].done - samples[e].done) * h
  <2>1. PICK x, y : x = samples[h + 1].done - samples[1].done /\ y = samples[l].done - samples[e].done
    OBVIOUS
  <2>2. Slope(older) = <<x, h>> /\ Slope(newer) = <<y, h>>
    BY <1>11, <1>12, <2>1
  <2>3. Slope(older)[1] = x /\ Slope(older)[2] = h /\ Slope(newer)[1] = y /\ Slope(newer)[2] = h
    BY <2>2
  <2>4. x * h * 5 <= 8 * y * h
    BY <1>5, <2>3 DEF Within
  <2> QED BY <2>1, <2>4
<1> QED
  BY <1>1, <1>3, <1>6, <1>7, <1>13

\* Two lines in a window: what it has done lies below twice the present one.
LEMMA EstimateIs ==
  ASSUME TrackerInv, Estimates, samples[Len(samples)].at = now, 3 * (now - since) >= WINDOW,
         before <= samples[1].at
  PROVE  Rate[1] <= 2 * pace * Rate[2]
<1>1. Underway /\ Len(samples) \in Nat /\ Len(samples) >= 4 /\ DOMAIN samples = 1..Len(samples)
  BY EstimatesOf
<1>2. PICK s, n, t, p, c, b, q, d :
        /\ s = samples /\ n = done /\ t = now /\ p = pace /\ c = since /\ b = before
        /\ Timed(s, t) /\ n \in Nat /\ t \in Nat /\ p \in Nat /\ c \in Nat /\ c <= t
        /\ s # <<>> /\ (s[Len(s)].at = t \/ p = 0)
        /\ q \in Nat /\ d \in Int /\ Paced(s, n, t, p, c, b, q, d)
  BY <1>1, LinesNow
<1>3. b \in Nat /\ WINDOW \in Nat /\ 3 * (t - c) >= WINDOW
  BY <1>2, TrackerAssumption DEF TrackerInv, TrackerTypes
<1>4. PICK l, a : l = Len(samples) /\ l = Len(s) /\ l \in Nat /\ l >= 4 /\ a = s[1].at
  <2>1. PICK l : l = Len(samples)
    OBVIOUS
  <2>2. l = Len(s) /\ l \in Nat /\ l >= 4
    BY <1>1, <1>2, <2>1
  <2> QED BY <2>1, <2>2
<1>5. a \in Nat /\ a < t /\ b <= a /\ s[l].at = t /\ s[l].done = n
  <2>1. a \in Nat /\ a < t
    <3>1. 1 \in 1..Len(s) /\ 1 < Len(s)
      BY <1>4
    <3> QED BY <1>2, <1>4, <3>1, TimedIs
  <2>2. s[l].done = n
    BY <1>2, <1>4 DEF TrackerInv, PhaseInv
  <2> QED BY <1>2, <1>4, <2>1, <2>2
<1>6. t - a <= WINDOW
  BY <1>2, <1>4, <1>5 DEF TrackerInv, TimesInv
<1>7. Rate[1] = n - s[1].done /\ Rate[2] = t - a
  <2>1. PICK f : f = 1 /\ f \in 1..l
    BY <1>4
  <2>2. f..l \in SUBSET Int /\ f \in f..l /\ l \in f..l /\ \A k \in f..l : f <= k /\ k <= l
    BY <1>4, <2>1
  <2>3. Slope(f..l) = <<samples[l].done - samples[f].done, samples[l].at - samples[f].at>>
    BY <2>2, SlopeIs
  <2>4. Rate = Slope(f..l)
    BY <1>1, <1>2, <1>4, <2>1 DEF Rate
  <2>5. samples[l].done = n /\ samples[l].at = t /\ samples[f].done = s[1].done /\ samples[f].at = a
    BY <1>2, <1>4, <1>5, <2>1
  <2> QED BY <2>3, <2>4, <2>5
<1>8. n = d + p * (t - c) /\ s[1].done = IF c <= a THEN d + p * (a - c) ELSE d - q * (c - a)
  <2>1. n = d + p * (t - c)
    BY <1>2 DEF Paced
  <2>2. Paced(s, n, t, p, c, b, q, d) /\ c \in Nat /\ b \in Nat /\ a \in Nat /\ b <= a
        /\ 1 \in 1..Len(s) /\ s[1].at = a
    BY <1>2, <1>3, <1>4, <1>5
  <2>3. s[1].done = IF c <= a THEN d + p * (a - c) ELSE d - q * (c - a)
    BY <2>2, PacedDone
  <2> QED BY <2>1, <2>3
<1>9. CASE c <= a
  <2>1. p * (t - c) = p * (t - a) + p * (a - c)
    BY <1>2, <1>5, LineIs
  <2>2. PICK x \in Int, y \in Int, z \in Int : x = p * (t - c) /\ y = p * (t - a) /\ z = p * (a - c)
    BY <1>2, <1>5
  <2>3. n - s[1].done = y /\ y >= 0
    <3>1. n = d + x /\ s[1].done = d + z /\ x = y + z
      BY <1>8, <1>9, <2>1, <2>2
    <3>2. y >= 0
      BY <1>2, <1>5, <2>2
    <3>3. (d + x) - (d + z) = y
      <4>1. d \in Int /\ x \in Int /\ y \in Int /\ z \in Int /\ x = y + z
        BY <1>2, <2>2, <3>1
      <4> QED BY <4>1
    <3> QED BY <3>1, <3>2, <3>3
  <2>4. 2 * p * (t - a) = 2 * y
    BY <1>2, <1>5, <2>2
  <2>5. y <= 2 * p * (t - a)
    BY <2>2, <2>3, <2>4
  <2> QED BY <1>2, <1>7, <2>3, <2>5
<1>10. CASE a < c
  <2>1. PICK x \in Nat, y \in Nat : x = c - a /\ y = t - c /\ x + y = t - a /\ x > 0
    <3>1. t \in Nat /\ c \in Nat /\ a \in Nat /\ a < c /\ c <= t
      BY <1>2, <1>5, <1>10
    <3>2. c - a \in Nat /\ t - c \in Nat /\ (c - a) + (t - c) = t - a /\ c - a > 0
      BY <3>1
    <3> QED BY <3>2
  <2>2. n - s[1].done = q * x + p * y
    <3>1. PICK v \in Int, w \in Int : v = q * x /\ w = p * y
      BY <1>2
    <3>2. n = d + w /\ s[1].done = d - v
      BY <1>5, <1>2, <1>8, <1>10, <2>1, <3>1
    <3> QED BY <1>2, <3>1, <3>2
  <2>3. x + y <= 3 * y
    BY <1>2, <1>3, <1>5, <1>6, <2>1
  <2>4. CASE q <= p
    <3>1. x * q <= x * p
      BY <1>2, <2>4, MoreIsMore
    <3>2. q * x + p * y <= 2 * p * (x + y)
      <4>1. PICK v \in Int, w \in Nat, z \in Nat : v = q * x /\ w = p * y /\ z = p * x
        <5>1. p \in Nat /\ q \in Nat
          BY <1>2
        <5>2. q * x \in Int /\ p * y \in Nat /\ p * x \in Nat
          BY <5>1
        <5> QED BY <5>2
      <4>2. 2 * p * (x + y) = 2 * z + 2 * w /\ v <= z
        BY <1>2, <3>1, <4>1
      <4> QED BY <4>1, <4>2
    <3> QED BY <1>2, <1>7, <2>1, <2>2, <3>2
  <2>5. CASE p < q
    <3>1. \A i \in 1..l : s[i].at = a + i - 1
      <4>1. /\ t \in Nat /\ Timed(s, t) /\ c \in Nat /\ Paced(s, n, t, p, c, b, q, d)
            /\ s # <<>> /\ b \in Nat /\ b <= s[1].at
        BY <1>2, <1>3, <1>4, <1>5
      <4>2. q # 0
        BY <1>2, <2>5
      <4>3. \A i \in 1..Len(s) : s[i].at = s[1].at + i - 1
        BY <4>1, <4>2, InARow
      <4> QED BY <1>4, <4>3
    <3>2. l = t - a + 1 /\ t - a >= 3
      <4>1. s[l].at = a + l - 1
        BY <1>4, <3>1
      <4>2. t = a + l - 1
        BY <1>5, <4>1
      <4>3. t \in Nat /\ a \in Nat /\ l \in Nat /\ l >= 4
        BY <1>2, <1>4, <1>5
      <4> QED BY <4>2, <4>3
    <3>3. IsStable /\ samples \in Seq(Sample)
      BY DEF Estimates, TrackerInv, TrackerTypes
    <3>4. /\ Len(samples) = t - a + 1 /\ \A i \in 1..Len(samples) : samples[i].at = a + i - 1
      BY <1>2, <1>4, <3>1, <3>2
    <3>5. PICK h \in Nat :
           /\ h > 0 /\ 2 * h <= t - a /\ t - a <= 2 * h + 1
           /\ h + 1 \in 1..Len(samples) /\ t - a - h + 1 \in 1..Len(samples)
           /\ (samples[h + 1].done - samples[1].done) * h * 5
                <= 8 * (samples[Len(samples)].done - samples[t - a - h + 1].done) * h
      BY <1>2, <1>5, <3>2, <3>3, <3>4, HalvesAre
    <3>6. PICK e, f, v, w :
           /\ f = h + 1 /\ e = t - a - h + 1 /\ v = s[f].done - s[1].done /\ w = n - s[e].done
           /\ f \in 1..l /\ e \in 1..l /\ v * h * 5 <= 8 * w * h
      BY <1>2, <1>4, <1>5, <3>5
    <3>7. s[f].at = a + h /\ s[e].at = t - h /\ a + h \in Nat /\ t - h \in Nat
          /\ b <= a + h /\ b <= t - h
      <4>1. a + (h + 1) - 1 = a + h /\ a + (t - a - h + 1) - 1 = t - h
        BY <1>2, <1>5
      <4>2. s[f].at = a + h /\ s[e].at = t - h
        BY <3>1, <3>6, <4>1
      <4>3. t \in Nat /\ a \in Nat /\ b \in Nat /\ b <= a /\ h \in Nat /\ 2 * h <= t - a
        BY <1>2, <1>3, <1>5, <3>5
      <4> QED BY <4>2, <4>3
    <3>8. v = IF x <= h THEN q * x + p * (h - x) ELSE q * h
      <4>0. PICK z \in Nat : z = a + h /\ s[f].at = z /\ b <= z
        BY <3>7
      <4>1. s[f].done = IF c <= z THEN d + p * (z - c) ELSE d - q * (c - z)
        <5>1. Paced(s, n, t, p, c, b, q, d) /\ c \in Nat /\ b \in Nat /\ f \in 1..Len(s)
          BY <1>2, <1>3, <1>4, <3>6
        <5> QED BY <4>0, <5>1, PacedDone
      <4>2. s[1].done = d - q * x
        BY <1>2, <1>5, <1>8, <1>10, <2>1
      <4>3. z - c = h - x /\ c - z = x - h /\ (c <= z <=> x <= h)
        BY <1>2, <1>5, <2>1, <4>0
      <4>4. q * (x - h) = q * x - q * h
        BY <1>2
      <4>5. PICK qx \in Int, qh \in Int, m \in Int : qx = q * x /\ qh = q * h /\ m = p * (h - x)
        BY <1>2
      <4>6. CASE x <= h
        <5>1. s[f].done = d + m /\ s[1].done = d - qx
          BY <4>1, <4>2, <4>3, <4>5, <4>6
        <5> QED BY <1>2, <3>6, <4>5, <4>6, <5>1
      <4>7. CASE ~(x <= h)
        <5>1. s[f].done = d - (qx - qh) /\ s[1].done = d - qx
          BY <4>1, <4>2, <4>3, <4>4, <4>5, <4>7
        <5> QED BY <1>2, <3>6, <4>5, <4>7, <5>1
      <4> QED BY <4>6, <4>7
    <3>9. w = IF x <= x + y - h THEN p * h ELSE p * y + q * (h - y)
      <4>0. PICK z \in Nat : z = t - h /\ s[e].at = z /\ b <= z
        BY <3>7
      <4>1. s[e].done = IF c <= z THEN d + p * (z - c) ELSE d - q * (c - z)
        <5>1. Paced(s, n, t, p, c, b, q, d) /\ c \in Nat /\ b \in Nat /\ e \in 1..Len(s)
          BY <1>2, <1>3, <1>4, <3>6
        <5> QED BY <4>0, <5>1, PacedDone
      <4>2. n = d + p * y
        BY <1>8, <2>1
      <4>3. z - c = y - h /\ c - z = h - y /\ (c <= z <=> x <= x + y - h)
        <5>1. t \in Nat /\ c \in Nat /\ y = t - c /\ z = t - h
          BY <1>2, <2>1, <4>0
        <5> QED BY <5>1
      <4>4. p * (y - h) = p * y - p * h
        BY <1>2
      <4>5. PICK py \in Int, ph \in Int, m \in Int : py = p * y /\ ph = p * h /\ m = q * (h - y)
        BY <1>2
      <4>6. CASE x <= x + y - h
        <5>1. s[e].done = d + (py - ph) /\ n = d + py
          BY <4>1, <4>2, <4>3, <4>4, <4>5, <4>6
        <5> QED BY <1>2, <3>6, <4>5, <4>6, <5>1
      <4>7. CASE ~(x <= x + y - h)
        <5>1. s[e].done = d - m /\ n = d + py
          BY <4>1, <4>2, <4>3, <4>5, <4>7
        <5> QED BY <1>2, <3>6, <4>5, <4>7, <5>1
      <4> QED BY <4>6, <4>7
    <3>10. v \in Int /\ w \in Int
      BY <1>2, <3>5, <3>8, <3>9
    <3>11. 5 * v <= 8 * w
      <4>1. (5 * v) * h = v * h * 5 /\ (8 * w) * h = 8 * w * h
        BY <3>10
      <4>2. (5 * v) * h <= (8 * w) * h
        BY <3>6, <4>1
      <4> QED BY <3>5, <3>10, <4>2, Cancels
    <3>12. q * x + p * y <= 2 * p * (x + y)
      <4>1. p \in Nat /\ q \in Nat /\ p < q
        BY <1>2, <2>5
      <4>2. x \in Nat /\ y \in Nat /\ x > 0 /\ x + y <= 3 * y
        BY <2>1, <2>3
      <4>3. h \in Nat /\ h > 0 /\ 2 * h <= x + y /\ x + y <= 2 * h + 1
        BY <2>1, <3>5
      <4> QED BY <3>8, <3>9, <3>10, <3>11, <4>1, <4>2, <4>3, HalvesTell
    <3> QED BY <1>2, <1>7, <2>1, <2>2, <3>12
  <2> QED BY <1>2, <2>4, <2>5
<1> QED
  BY <1>2, <1>5, <1>9, <1>10

LEMMA TrackerInvIsHonest == TrackerInv => EstimatesAreHonest
<1> SUFFICES ASSUME TrackerInv PROVE EstimatesAreHonest
  OBVIOUS
<1>1. EstimateIsOfThisPhase
  <2> SUFFICES ASSUME Estimates, NEW i \in DOMAIN samples
               PROVE  samples[i].phaseAt = samples[Len(samples)].phaseAt
    BY DEF EstimateIsOfThisPhase
  <2>1. Underway /\ i \in 1..Len(samples) /\ Len(samples) \in 1..Len(samples)
    BY EstimatesOf
  <2> QED BY <2>1 DEF TrackerInv, PhaseInv
<1>2. EstimateIsNotShort
  BY EstimateIs DEF EstimateIsNotShort
<1> QED
  BY <1>1, <1>2 DEF EstimatesAreHonest

\* An estimate of the time left mixes no two phases and, at a report, is at least half as
\* long as the present pace takes, whatever the paces, the totals and the window.
THEOREM EstimatesStayHonest == TrackerSpec => []EstimatesAreHonest
<1>1. TrackerInit => TrackerInv
  BY TrackerStarts
<1>2. TrackerInv /\ [TrackerNext]_trackerVars => TrackerInv'
  BY TrackerStep
<1>3. TrackerInv => EstimatesAreHonest
  BY TrackerInvIsHonest
<1> QED
  BY <1>1, <1>2, <1>3, PTL DEF TrackerSpec
=============================================================================
