--------------------------- MODULE DeletionProofs ---------------------------
(***************************************************************************)
(* Proofs about module Deletion, for any dupes, matches, options and       *)
(* number of outside changes.  None of the promises is inductive: each     *)
(* rests on where the job stands with the file it has in hand, which the   *)
(* parts of Standing say.                                                  *)
(***************************************************************************)
EXTENDS Deletion, TLAPS

\* Files the job still has to take away: in the queue, or in hand before the removal.
InHand == step \in {"verify", "link", "record", "remove"}
Pending == {d \in Dupe : d \in todo \/ (InHand /\ d = current)}

\* Between two files the job has none in hand; outside of a run the queue is empty.
HandOK ==
  /\ step \in {"verify", "link", "record", "remove", "amend", "place", "restore"}
     => current \in Dupe \ todo
  /\ step \in {"ready", "idle", "down", "restore"} => todo = {}
  /\ step = "amend" => ~opt.direct

\* A removal comes after its record, in memory and on disk.
RecordFirst ==
  step \in {"remove", "amend", "place"} => current \in recorded
    /\ current \in logged \cup unlogged

\* What is pending is not yet removed, and as the scan saw it unless somebody changed it.
PendingIsFresh ==
  /\ \A d \in Pending : d \notin taken /\ (d \notin touched => at[d] = Scanned(d))
  /\ Ref \notin touched => at[Ref] = Scanned(Ref)
  /\ step = "ready" => taken = {} /\ done = {} /\ listed = Dupe
     /\ \A d \in Dupe \ touched : at[d] = Scanned(d)

\* After the removal the path holds no file, until something is put there.
HandIsEmpty ==
  /\ step \in {"amend", "place"} => current \in taken
  /\ step \in {"amend", "place", "restore"} /\ current \notin touched => at[current] \notin Files

\* The replacement stands ready from the record on.
ReplacementReady ==
  step \in {"record", "remove", "amend", "place"} /\ opt.mode # "remove" => tmp[current] # Nothing

\* With verify_before_delete nothing but verified files gets past the verification.
VerifiedInHand ==
  step \in {"link", "record", "remove"} /\ opt.verify /\ current \in Exact
    => current \in Twin \/ {current, Ref} \cap touched # {}

\* Every file of a running job is pending, in hand or accounted for, and truly.
Accounted ==
  /\ step \in {"next", "verify", "link", "record", "remove", "amend", "place"} =>
       \A d \in Dupe : d \in todo \cup done \cup problems \/ (step # "next" /\ d = current)
  /\ \A d \in Dupe \ touched :
       /\ d \in done => d \in taken
       /\ d \in problems => d \in taken \/ at[d] = Scanned(d)
  /\ step = "restore"
     => current \in touched \/ current \notin listed \/ current \in problems \cap taken
  /\ step = "down" => listed = {} /\ done = {}
  /\ step = "restore" => \A d \in Dupe \ touched :
       /\ d \in listed => at[d] = Scanned(d) \/ d \in problems \cap taken
       /\ d \in done => d \in taken /\ d \notin listed

\* The trash holds only what the scan saw.
TrashIsOld == \A d \in Dupe \ touched : trash[d] \in {Nothing, Scanned(d)}

\* A clone beside a dupe is one of the reference, for a match of contents.
CloneIsRef ==
  opt.mode = "clone" => \A d \in Dupe : tmp[d] \in Files =>
    d \in Exact /\ (Ref \notin touched => tmp[d].data = Ref)

Standing ==
  /\ HandOK /\ RecordFirst /\ PendingIsFresh /\ HandIsEmpty /\ ReplacementReady
  /\ VerifiedInHand /\ Accounted /\ TrashIsOld /\ CloneIsRef

-----------------------------------------------------------------------------
(* What no step changes, and what the scan saw.                            *)

\* How the files matched and what was asked for are settled before the job.
LEMMA StaticStep == [Next]_vars => UNCHANGED <<match, opt>>
BY DEF Next, Work, TakeNext, Start, Take, Verify, Build, Record, Remove, Amend, Place, Finish,
   Cancel, Crash, Restart, RestoreCheck, RestoreMove, Outsider, vars, job

\* So what the scan saw of a path stays what it was.
LEMMA ScanStays ==
  ASSUME UNCHANGED match
  PROVE  Exact' = Exact /\ Twin' = Twin /\ \A p : Scanned(p)' = Scanned(p) /\ Body(p)' = Body(p)
BY DEF Exact, Twin, Scanned, Body

\* The scan saw files, of the reference its own bytes.
LEMMA ScannedFiles ==
  /\ Nothing \in Entry \ Files /\ Link \in Entry \ Files /\ Nothing # Link
       /\ Files \subseteq Entry
  /\ [data : {Alien}, intact : BOOLEAN] \subseteq Files
  /\ \A p \in Path : Scanned(p) \in Files /\ Scanned(p).data = Body(p)
  /\ Body(Ref) = Ref /\ Ref \notin Dupe /\ Dupe \subseteq Path /\ NoDupe \notin Dupe
BY DupeAssumption, EntryAssumption DEF Files, Entry, Path, Scanned, Body

\* A replacement is something; one that is a file is the reference, and a clone of it only
\* where contents matched.
LEMMA ReplacementIs ==
  ASSUME TypeOK, NEW d \in Dupe, NEW r \in Replacement(d)
  PROVE  /\ r \in Entry /\ r # Nothing
         /\ r \in Files => at[Ref] \in Files /\ r = at[Ref] /\ (opt.mode = "clone" => d \in Exact)
BY ScannedFiles DEF Replacement

-----------------------------------------------------------------------------
(* What each step that touches the disk does, path by path.                *)

\* A replacement is built beside the file, and nothing else changes on the disk.
LEMMA BuildDoes ==
  ASSUME TypeOK, HandOK, Build
  PROVE  /\ step = "link" /\ current \in Dupe /\ UNCHANGED <<at, trash>>
              /\ tmp' \in [Dupe -> Entry]
         /\ \A d \in Dupe : d # current => tmp'[d] = tmp[d]
         /\ \/ tmp'[current] = tmp[current] /\ (opt.mode = "remove" \/ Fail(current))
            \/ /\ tmp'[current] # Nothing
               /\ tmp'[current] \in Files =>
                    tmp'[current] = at[Ref] /\ (opt.mode = "clone" => current \in Exact)
<1>1. step = "link" /\ current \in Dupe /\ UNCHANGED <<at, trash>>
  BY DEF Build, HandOK
<1>2. CASE UNCHANGED tmp /\ (opt.mode = "remove" \/ Fail(current))
  BY <1>1, <1>2 DEF TypeOK
<1>3. CASE \E r \in Replacement(current) : tmp' = [tmp EXCEPT ![current] = r]
  BY <1>1, <1>3, ReplacementIs DEF TypeOK
<1> QED BY <1>2, <1>3 DEF Build

\* A removal empties the path, into the trash unless it is direct; one that fails takes at
\* most the replacement away.
LEMMA RemoveDoes ==
  ASSUME TypeOK, HandOK, Remove
  PROVE  /\ step = "remove" /\ current \in Dupe
         /\ at' \in [Path -> Entry] /\ tmp' \in [Dupe -> Entry] /\ trash' \in [Dupe -> Entry]
         /\ \A p \in Path : p # current => at'[p] = at[p]
         /\ \A d \in Dupe : d # current => tmp'[d] = tmp[d] /\ trash'[d] = trash[d]
         /\ \/ /\ at'[current] = Nothing /\ tmp'[current] = tmp[current]
               /\ trash'[current] = IF opt.direct THEN trash[current] ELSE at[current]
               /\ taken' = taken \cup {current}
               /\ step' = IF opt.direct THEN "place" ELSE "amend"
               /\ UNCHANGED <<current, done, problems>>
            \/ /\ UNCHANGED <<at, trash, taken>> /\ tmp'[current] \in {tmp[current], Nothing}
               /\ Fail(current)
<1>1. step = "remove" /\ current \in Dupe /\ current \in Path
  BY DEF Remove, HandOK, Path
<1>2. CASE at' = [at EXCEPT ![current] = Nothing] /\ IntoTrash(current) /\ UNCHANGED tmp
           /\ taken' = taken \cup {current} /\ Proceed(IF opt.direct THEN "place" ELSE "amend")
  BY <1>1, <1>2, ScannedFiles DEF TypeOK, IntoTrash, Proceed
<1>3. CASE Fail(current) /\ tmp' \in {tmp, [tmp EXCEPT ![current] = Nothing]}
           /\ UNCHANGED <<at, trash, taken>>
  BY <1>1, <1>3, ScannedFiles DEF TypeOK
<1> QED BY <1>2, <1>3 DEF Remove

\* The replacement takes the path, or nothing does.
LEMMA PlaceDoes ==
  ASSUME TypeOK, HandOK, Place
  PROVE  /\ step = "place" /\ current \in Dupe /\ UNCHANGED <<trash, taken>>
         /\ at' \in [Path -> Entry] /\ tmp' \in [Dupe -> Entry]
         /\ \A p \in Path : p # current => at'[p] = at[p]
         /\ \A d \in Dupe : d # current => tmp'[d] = tmp[d]
         /\ \/ UNCHANGED <<at, tmp>>
            \/ opt.mode # "remove" /\ at'[current] = tmp[current] /\ tmp'[current] = Nothing
<1>1. step = "place" /\ current \in Dupe /\ current \in Path /\ UNCHANGED <<trash, taken>>
  BY DEF Place, HandOK, Path
<1>2. CASE UNCHANGED <<at, tmp>>
  BY <1>1, <1>2 DEF TypeOK
<1>3. CASE opt.mode # "remove" /\ at' = [at EXCEPT ![current] = tmp[current]]
           /\ tmp' = [tmp EXCEPT ![current] = Nothing]
  BY <1>1, <1>3, ScannedFiles DEF TypeOK
<1> QED BY <1>2, <1>3 DEF Place

\* The trashed file takes the path, or nothing moves.
LEMMA RestoreMoveDoes ==
  ASSUME TypeOK, HandOK, RestoreMove
  PROVE  /\ step = "restore" /\ current \in Dupe /\ UNCHANGED <<tmp, taken>>
         /\ at' \in [Path -> Entry] /\ trash' \in [Dupe -> Entry]
         /\ \A p \in Path : p # current => at'[p] = at[p]
         /\ \A d \in Dupe : d # current => trash'[d] = trash[d]
         /\ \/ UNCHANGED <<at, trash>>
            \/ trash[current] # Nothing /\ at'[current] = trash[current]
               /\ trash'[current] = Nothing
<1>1. step = "restore" /\ current \in Dupe /\ current \in Path /\ UNCHANGED <<tmp, taken>>
  BY DEF RestoreMove, HandOK, Path
<1>2. CASE UNCHANGED <<at, trash>>
  BY <1>1, <1>2 DEF TypeOK
<1>3. CASE trash[current] # Nothing /\ at' = [at EXCEPT ![current] = trash[current]]
           /\ trash' = [trash EXCEPT ![current] = Nothing]
  BY <1>1, <1>3, ScannedFiles DEF TypeOK
<1> QED BY <1>2, <1>3 DEF RestoreMove

\* Somebody else changes one path or one entry of the trash, which counts as touched from
\* then on.
LEMMA OutsiderDoes ==
  ASSUME TypeOK, NEW p \in Path, Outsider(p)
  PROVE  /\ at' \in [Path -> Entry] /\ trash' \in [Dupe -> Entry]
         /\ touched' = touched \cup {p} /\ outside' \in 0..MaxOutside
         /\ \A q \in Path : q # p => at'[q] = at[q]
         /\ \A d \in Dupe : d # p => trash'[d] = trash[d]
         /\ UNCHANGED <<tmp, taken, step, current, logFile, memory, job, outcome, unlogged>>
<1>1. /\ touched' = touched \cup {p} /\ outside' \in 0..MaxOutside
      /\ UNCHANGED <<tmp, taken, step, current, logFile, memory, job, outcome, unlogged>>
  BY OptionAssumption DEF Outsider, TypeOK
<1>2. CASE at' \in {[at EXCEPT ![p] = e] : e \in {Nothing} \cup [data : {Alien},
                                                                 intact : BOOLEAN]}
           /\ UNCHANGED trash
  <2>1. PICK e \in {Nothing} \cup [data : {Alien}, intact : BOOLEAN] : at' = [at EXCEPT ![p] = e]
    BY <1>2
  <2>2. e \in Entry
    BY ScannedFiles
  <2> QED BY <1>1, <1>2, <2>1, <2>2 DEF TypeOK
<1>3. CASE p \in Dupe /\ trash' = [trash EXCEPT ![p] = Nothing] /\ UNCHANGED at
  BY <1>1, <1>3, ScannedFiles DEF TypeOK
<1> QED BY <1>2, <1>3 DEF Outsider

-----------------------------------------------------------------------------
(* Where the job stands: types first, then the parts of Standing in turn.   *)

\* Types.
LEMMA TypeOKStep == TypeOK /\ Standing /\ [Next]_vars => TypeOK'
<1> SUFFICES ASSUME TypeOK, Standing, [Next]_vars PROVE TypeOK'
  OBVIOUS
<1>1. CASE Start
  BY <1>1 DEF Start, disk, logFile, memory, job, others, TypeOK
<1>2. ASSUME NEW d \in Dupe, Take(d) PROVE TypeOK'
  BY <1>2 DEF Take, TypeOK, disk, logFile, memory, job, others, Succeed, Fail
<1>3. CASE Verify
  BY <1>3 DEF Verify, TypeOK, Standing, HandOK, disk, logFile, memory, job, others, Fail, Proceed
<1>4. CASE Build
  BY <1>4, BuildDoes DEF Build, TypeOK, Standing, logFile, memory, job, others, Fail, Proceed
<1>5. CASE Record
  BY <1>5 DEF Record, TypeOK, disk, job, others, Proceed, Fail, Standing, HandOK
<1>6. CASE Remove
  BY <1>6, RemoveDoes DEF Remove, TypeOK, Standing, RecordFirst, logFile, job, others, Fail
<1>7. CASE Amend
  BY <1>7 DEF Amend, TypeOK, disk, memory, job, others, Proceed
<1>8. CASE Place
  BY <1>8, PlaceDoes DEF Place, TypeOK, Standing, logFile, memory, job, others, Succeed, Fail
<1>9. CASE Finish
  BY <1>9 DEF Finish, disk, logFile, memory, outcome, others, TypeOK
<1>10. CASE Cancel
  BY <1>10 DEF Cancel, disk, logFile, memory, outcome, others, TypeOK
<1>11. CASE Crash
  BY <1>11 DEF Crash, disk, logFile, others, TypeOK
<1>12. CASE Restart
  BY <1>12 DEF Restart, disk, logFile, job, outcome, others, TypeOK
<1>13. ASSUME NEW d \in Dupe, RestoreCheck(d) PROVE TypeOK'
  BY <1>13 DEF RestoreCheck, TypeOK, disk, logFile, memory, job, outcome, others
<1>14. CASE RestoreMove
  BY <1>14, RestoreMoveDoes DEF RestoreMove, TypeOK, Standing, logFile, memory, job, outcome,
     others
<1>15. ASSUME NEW p \in Path, Outsider(p) PROVE TypeOK'
  BY <1>15, OutsiderDoes DEF TypeOK, logFile, memory, job, outcome
<1>16. CASE UNCHANGED vars
  BY <1>16 DEF TypeOK, vars, disk, logFile, memory, job, outcome, others
<1> QED BY <1>1, <1>2, <1>3, <1>4, <1>5, <1>6, <1>7, <1>8, <1>9, <1>10, <1>11, <1>12, <1>13,
           <1>14, <1>15, <1>16 DEF Next, Work, TakeNext

\* The file in hand is out of the queue, whatever cuts the job short.
LEMMA HandOKStep == TypeOK /\ Standing /\ HandOK /\ [Next]_vars => HandOK'
<1> SUFFICES ASSUME TypeOK, Standing, HandOK, [Next]_vars PROVE HandOK'
  OBVIOUS
<1>0. /\ UNCHANGED <<match, opt>> /\ Exact' = Exact /\ Twin' = Twin
      /\ \A p : Scanned(p)' = Scanned(p) /\ Body(p)' = Body(p)
  BY StaticStep, ScanStays
<1>1. CASE Start
  BY <1>0, <1>1 DEF Start, HandOK
<1>2. ASSUME NEW d \in Dupe, Take(d) PROVE HandOK'
  BY <1>0, <1>2 DEF Take, Succeed, Fail, HandOK
<1>3. CASE Verify
  BY <1>0, <1>3 DEF Verify, Fail, Proceed, HandOK
<1>4. CASE Build
  BY <1>0, <1>4 DEF Build, Fail, Proceed, HandOK
<1>5. CASE Record
  BY <1>0, <1>5 DEF Record, Fail, Proceed, HandOK
<1>6. CASE Remove
  BY <1>0, <1>6 DEF Remove, Fail, Proceed, HandOK
<1>7. CASE Amend
  BY <1>0, <1>7 DEF Amend, Proceed, HandOK
<1>8. CASE Place
  BY <1>0, <1>8 DEF Place, Succeed, Fail, HandOK
<1>9. CASE Finish
  BY <1>0, <1>9 DEF Finish, outcome, HandOK
<1>10. CASE Cancel
  BY <1>0, <1>10 DEF Cancel, outcome, HandOK
<1>11. CASE Crash
  BY <1>0, <1>11 DEF Crash, HandOK
<1>12. CASE Restart
  BY <1>0, <1>12 DEF Restart, outcome, HandOK
<1>13. ASSUME NEW d \in Dupe, RestoreCheck(d) PROVE HandOK'
  BY <1>0, <1>13 DEF RestoreCheck, outcome, HandOK
<1>14. CASE RestoreMove
  BY <1>0, <1>14 DEF RestoreMove, outcome, HandOK
<1>15. ASSUME NEW p \in Path, Outsider(p) PROVE HandOK'
  BY <1>0, OutsiderDoes, <1>15 DEF outcome, HandOK
<1>16. CASE UNCHANGED vars
  BY <1>0, <1>16 DEF HandOK, vars, outcome
<1> QED BY <1>1, <1>2, <1>3, <1>4, <1>5, <1>6, <1>7, <1>8, <1>9, <1>10, <1>11, <1>12, <1>13,
           <1>14, <1>15, <1>16 DEF Next, Work, TakeNext

\* A step past the record has the record behind it.
LEMMA RecordFirstStep == TypeOK /\ Standing /\ RecordFirst /\ [Next]_vars => RecordFirst'
<1> SUFFICES ASSUME TypeOK, Standing, RecordFirst, [Next]_vars PROVE RecordFirst'
  OBVIOUS
<1>1. CASE Start
  BY <1>1 DEF Start, logFile, memory, RecordFirst
<1>2. ASSUME NEW d \in Dupe, Take(d) PROVE RecordFirst'
  BY <1>2 DEF Take, logFile, memory, Succeed, Fail, RecordFirst
<1>3. CASE Verify
  BY <1>3 DEF Verify, logFile, memory, Fail, Proceed, RecordFirst
<1>4. CASE Build
  BY <1>4 DEF Build, logFile, memory, Fail, Proceed, RecordFirst
<1>5. CASE Record
  BY <1>5 DEF Record, Fail, Proceed, RecordFirst
<1>6. CASE Remove
  BY <1>6 DEF Remove, logFile, Fail, Proceed, RecordFirst
<1>7. CASE Amend
  BY <1>7 DEF Amend, memory, Proceed, RecordFirst
<1>8. CASE Place
  BY <1>8 DEF Place, logFile, memory, Succeed, Fail, RecordFirst
<1>9. CASE Finish
  BY <1>9 DEF Finish, logFile, memory, RecordFirst
<1>10. CASE Cancel
  BY <1>10 DEF Cancel, logFile, memory, RecordFirst
<1>11. CASE Crash
  BY <1>11 DEF Crash, logFile, RecordFirst
<1>12. CASE Restart
  BY <1>12 DEF Restart, logFile, RecordFirst
<1>13. ASSUME NEW d \in Dupe, RestoreCheck(d) PROVE RecordFirst'
  BY <1>13 DEF RestoreCheck, logFile, memory, RecordFirst
<1>14. CASE RestoreMove
  BY <1>14 DEF RestoreMove, logFile, memory, RecordFirst
<1>15. ASSUME NEW p \in Path, Outsider(p) PROVE RecordFirst'
  BY OutsiderDoes, <1>15 DEF logFile, memory, RecordFirst
<1>16. CASE UNCHANGED vars
  BY <1>16 DEF RecordFirst, vars, logFile, memory
<1> QED BY <1>1, <1>2, <1>3, <1>4, <1>5, <1>6, <1>7, <1>8, <1>9, <1>10, <1>11, <1>12, <1>13,
           <1>14, <1>15, <1>16 DEF Next, Work, TakeNext

\* A removal, a placement, a restore and an outsider change one path each, and none of a
\* pending file that nobody else touched.
LEMMA PendingIsFreshStep == TypeOK /\ Standing /\ PendingIsFresh /\ [Next]_vars => PendingIsFresh'
<1> SUFFICES ASSUME TypeOK, Standing, PendingIsFresh, [Next]_vars PROVE PendingIsFresh'
  OBVIOUS
<1>0. /\ UNCHANGED <<match, opt>> /\ Exact' = Exact /\ Twin' = Twin
      /\ \A p : Scanned(p)' = Scanned(p) /\ Body(p)' = Body(p)
  BY StaticStep, ScanStays
<1>1. CASE Start
  BY <1>0, <1>1 DEF Start, disk, job, others, PendingIsFresh, InHand, Pending
<1>2. ASSUME NEW d \in Dupe, Take(d) PROVE PendingIsFresh'
  BY <1>0, <1>2 DEF Take, disk, job, others, Succeed, Fail, PendingIsFresh, InHand, Pending
<1>3. CASE Verify
  BY <1>0, <1>3 DEF Verify, disk, job, others, Fail, Proceed, PendingIsFresh, InHand, Pending
<1>4. CASE Build
  BY <1>0, <1>4 DEF Build, job, others, Fail, Proceed, PendingIsFresh, InHand, Pending
<1>5. CASE Record
  BY <1>0, <1>5 DEF Record, disk, job, others, Fail, Proceed, PendingIsFresh, InHand, Pending
<1>6. CASE Remove
  <2>1. \A d \in Dupe : d \in Pending' => d \in Pending /\ d # current
    BY <1>6 DEF Remove, Fail, Proceed, Pending, InHand, HandOK, Standing
  <2>2. current \in Dupe /\ UNCHANGED touched /\ step' # "ready" /\ Ref \in Path /\ Ref # current
    BY <1>6, RemoveDoes, ScannedFiles DEF Remove, Fail, Standing, others, Path
  <2>3. \A p \in Path : p # current => at'[p] = at[p]
    BY <1>6, RemoveDoes DEF Standing
  <2>4. \A d \in Dupe : d # current /\ d \notin taken => d \notin taken'
    BY <1>6, RemoveDoes DEF Standing
  <2> QED BY <1>0, <2>1, <2>2, <2>3, <2>4 DEF PendingIsFresh, Path, Pending
<1>7. CASE Amend
  BY <1>0, <1>7 DEF Amend, disk, job, others, Proceed, PendingIsFresh, InHand, Pending
<1>8. CASE Place
  <2>1. \A d \in Dupe : d \in Pending' => d \in Pending /\ d # current
    BY <1>8 DEF Place, Succeed, Fail, Pending, InHand, HandOK, Standing
  <2>2. current \in Dupe /\ UNCHANGED touched /\ step' # "ready" /\ Ref \in Path /\ Ref # current
    BY <1>8, PlaceDoes, ScannedFiles DEF Place, Succeed, Fail, Standing, others, Path
  <2>3. \A p \in Path : p # current => at'[p] = at[p]
    BY <1>8, PlaceDoes DEF Standing
  <2>4. \A d \in Dupe : d # current /\ d \notin taken => d \notin taken'
    BY <1>8, PlaceDoes DEF Standing
  <2> QED BY <1>0, <2>1, <2>2, <2>3, <2>4 DEF PendingIsFresh, Path, Pending
<1>9. CASE Finish
  BY <1>0, <1>9 DEF Finish, disk, outcome, others, PendingIsFresh, InHand, Pending
<1>10. CASE Cancel
  BY <1>0, <1>10 DEF Cancel, disk, outcome, others, PendingIsFresh, InHand, Pending
<1>11. CASE Crash
  BY <1>0, <1>11 DEF Crash, disk, others, PendingIsFresh, InHand, Pending
<1>12. CASE Restart
  BY <1>0, <1>12 DEF Restart, disk, job, outcome, others, PendingIsFresh, InHand, Pending
<1>13. ASSUME NEW d \in Dupe, RestoreCheck(d) PROVE PendingIsFresh'
  BY <1>0, <1>13 DEF RestoreCheck, disk, job, outcome, others, PendingIsFresh, InHand, Pending
<1>14. CASE RestoreMove
  <2>1. Pending' = {} /\ UNCHANGED touched /\ step' = "idle"
    BY <1>14 DEF RestoreMove, Pending, InHand, HandOK, Standing, outcome, others
  <2>2. current \in Dupe /\ Ref \in Path /\ Ref # current
    BY <1>14, ScannedFiles DEF HandOK, Standing, Path, RestoreMove
  <2>3. \A p \in Path : p # current => at'[p] = at[p]
    BY <1>14, RestoreMoveDoes DEF Standing
  <2> QED BY <1>0, <2>1, <2>2, <2>3 DEF PendingIsFresh
<1>15. ASSUME NEW p \in Path, Outsider(p) PROVE PendingIsFresh'
  <2>1. Pending' = Pending /\ UNCHANGED <<step, taken, done, listed>>
          /\ touched' = touched \cup {p}
    BY <1>15, OutsiderDoes DEF Pending, InHand, outcome, job
  <2>2. \A q \in Path : q # p => at'[q] = at[q]
    BY <1>15, OutsiderDoes
  <2> QED BY <1>0, <2>1, <2>2 DEF PendingIsFresh, Path, Pending
<1>16. CASE UNCHANGED vars
  BY <1>0, <1>16 DEF PendingIsFresh, InHand, Pending, vars, disk, job, outcome, others
<1> QED BY <1>1, <1>2, <1>3, <1>4, <1>5, <1>6, <1>7, <1>8, <1>9, <1>10, <1>11, <1>12, <1>13,
           <1>14, <1>15, <1>16 DEF Next, Work, TakeNext

\* Between the removal and the placement only an outsider can fill the path.
LEMMA HandIsEmptyStep == TypeOK /\ Standing /\ HandIsEmpty /\ [Next]_vars => HandIsEmpty'
<1> SUFFICES ASSUME TypeOK, Standing, HandIsEmpty, [Next]_vars PROVE HandIsEmpty'
  OBVIOUS
<1>1. CASE Start
  BY ScannedFiles, <1>1 DEF Start, disk, others, HandIsEmpty, Standing, HandOK, Exists
<1>2. ASSUME NEW d \in Dupe, Take(d) PROVE HandIsEmpty'
  BY ScannedFiles, <1>2 DEF Take, disk, others, Succeed, Fail, HandIsEmpty, Standing, HandOK,
     Exists
<1>3. CASE Verify
  BY ScannedFiles, <1>3 DEF Verify, disk, others, Fail, Proceed, HandIsEmpty, Standing, HandOK,
     Exists
<1>4. CASE Build
  BY ScannedFiles, <1>4 DEF Build, others, Fail, Proceed, HandIsEmpty, Standing, HandOK, Exists
<1>5. CASE Record
  BY ScannedFiles, <1>5 DEF Record, disk, others, Fail, Proceed, HandIsEmpty, Standing, HandOK,
     Exists
<1>6. CASE Remove
  BY ScannedFiles, RemoveDoes, <1>6 DEF Remove, others, Fail, Proceed, HandIsEmpty, Standing,
     HandOK, Exists
<1>7. CASE Amend
  BY ScannedFiles, <1>7 DEF Amend, disk, others, Proceed, HandIsEmpty, Standing, HandOK, Exists
<1>8. CASE Place
  BY ScannedFiles, <1>8 DEF Place, others, Succeed, Fail, HandIsEmpty, Standing, HandOK, Exists
<1>9. CASE Finish
  BY ScannedFiles, <1>9 DEF Finish, disk, others, HandIsEmpty, Standing, HandOK, Exists
<1>10. CASE Cancel
  BY ScannedFiles, <1>10 DEF Cancel, disk, others, HandIsEmpty, Standing, HandOK, Exists
<1>11. CASE Crash
  BY ScannedFiles, <1>11 DEF Crash, disk, others, HandIsEmpty, Standing, HandOK, Exists
<1>12. CASE Restart
  BY ScannedFiles, <1>12 DEF Restart, disk, others, HandIsEmpty, Standing, HandOK, Exists
<1>13. ASSUME NEW d \in Dupe, RestoreCheck(d) PROVE HandIsEmpty'
  BY ScannedFiles, <1>13 DEF RestoreCheck, disk, others, HandIsEmpty, Standing, HandOK, Exists
<1>14. CASE RestoreMove
  BY ScannedFiles, <1>14 DEF RestoreMove, others, HandIsEmpty, Standing, HandOK, Exists
<1>15. ASSUME NEW p \in Path, Outsider(p) PROVE HandIsEmpty'
  BY ScannedFiles, OutsiderDoes, <1>15 DEF HandIsEmpty, Standing, HandOK, Exists
<1>16. CASE UNCHANGED vars
  BY <1>16 DEF HandIsEmpty, Standing, HandOK, Exists, vars, disk, others
<1> QED BY <1>1, <1>2, <1>3, <1>4, <1>5, <1>6, <1>7, <1>8, <1>9, <1>10, <1>11, <1>12, <1>13,
           <1>14, <1>15, <1>16 DEF Next, Work, TakeNext

\* The replacement is there from Build to Place, as no other step takes it away and goes on.
LEMMA ReplacementReadyStep ==
  TypeOK /\ Standing /\ ReplacementReady /\ [Next]_vars => ReplacementReady'
<1> SUFFICES ASSUME TypeOK, Standing, ReplacementReady, [Next]_vars PROVE ReplacementReady'
  OBVIOUS
<1>0. /\ UNCHANGED <<match, opt>> /\ Exact' = Exact /\ Twin' = Twin
      /\ \A p : Scanned(p)' = Scanned(p) /\ Body(p)' = Body(p)
  BY StaticStep, ScanStays
<1>1. CASE Start
  BY <1>0, <1>1 DEF Start, disk, ReplacementReady
<1>2. ASSUME NEW d \in Dupe, Take(d) PROVE ReplacementReady'
  BY <1>0, <1>2 DEF Take, disk, Succeed, Fail, ReplacementReady
<1>3. CASE Verify
  BY <1>0, <1>3 DEF Verify, disk, Fail, Proceed, ReplacementReady
<1>4. CASE Build
  BY <1>0, <1>4, BuildDoes DEF ReplacementReady, Standing, Fail, Proceed, Build
<1>5. CASE Record
  BY <1>0, <1>5 DEF Record, disk, Fail, Proceed, ReplacementReady
<1>6. CASE Remove
  BY <1>0, <1>6 DEF Remove, Fail, Proceed, ReplacementReady
<1>7. CASE Amend
  BY <1>0, <1>7 DEF Amend, disk, Proceed, ReplacementReady
<1>8. CASE Place
  BY <1>0, <1>8 DEF Place, Succeed, Fail, ReplacementReady
<1>9. CASE Finish
  BY <1>0, <1>9 DEF Finish, disk, ReplacementReady
<1>10. CASE Cancel
  BY <1>0, <1>10 DEF Cancel, disk, ReplacementReady
<1>11. CASE Crash
  BY <1>0, <1>11 DEF Crash, disk, ReplacementReady
<1>12. CASE Restart
  BY <1>0, <1>12 DEF Restart, disk, ReplacementReady
<1>13. ASSUME NEW d \in Dupe, RestoreCheck(d) PROVE ReplacementReady'
  BY <1>0, <1>13 DEF RestoreCheck, disk, ReplacementReady
<1>14. CASE RestoreMove
  BY <1>0, <1>14 DEF RestoreMove, ReplacementReady
<1>15. ASSUME NEW p \in Path, Outsider(p) PROVE ReplacementReady'
  BY <1>0, OutsiderDoes, <1>15 DEF ReplacementReady
<1>16. CASE UNCHANGED vars
  BY <1>0, <1>16 DEF ReplacementReady, vars, disk
<1> QED BY <1>1, <1>2, <1>3, <1>4, <1>5, <1>6, <1>7, <1>8, <1>9, <1>10, <1>11, <1>12, <1>13,
           <1>14, <1>15, <1>16 DEF Next, Work, TakeNext

\* What is past the verification was verified, or changed by somebody since.
LEMMA VerifiedInHandStep == TypeOK /\ Standing /\ VerifiedInHand /\ [Next]_vars => VerifiedInHand'
<1> SUFFICES ASSUME TypeOK, Standing, VerifiedInHand, [Next]_vars PROVE VerifiedInHand'
  OBVIOUS
<1>0. /\ UNCHANGED <<match, opt>> /\ Exact' = Exact /\ Twin' = Twin
      /\ \A p : Scanned(p)' = Scanned(p) /\ Body(p)' = Body(p)
  BY StaticStep, ScanStays
<1>1. CASE Start
  BY <1>0, <1>1 DEF Start, others, VerifiedInHand
<1>2. ASSUME NEW d \in Dupe, Take(d) PROVE VerifiedInHand'
  BY <1>0, <1>2 DEF Take, others, Succeed, Fail, VerifiedInHand
<1>3. CASE Verify
  <2>1. SUFFICES ASSUME SameBytes(current), opt.verify, current \in Exact,
                        current \notin touched, Ref \notin touched
                 PROVE  current \in Twin
    BY <1>0, <1>3 DEF Verify, VerifiedInHand, Fail, Proceed, others
  <2>2. current \in Dupe /\ at[current].data = Body(current) /\ at[Ref].data = Body(Ref)
    BY <1>3, <2>1, ScannedFiles DEF Verify, Standing, HandOK, PendingIsFresh, Pending, InHand,
       Path
  <2> QED BY <2>1, <2>2, ScannedFiles DEF SameBytes, Body
<1>4. CASE Build
  BY <1>0, <1>4 DEF Build, others, Fail, Proceed, VerifiedInHand
<1>5. CASE Record
  BY <1>0, <1>5 DEF Record, others, Fail, Proceed, VerifiedInHand
<1>6. CASE Remove
  BY <1>0, <1>6 DEF Remove, others, Fail, Proceed, VerifiedInHand
<1>7. CASE Amend
  BY <1>0, <1>7 DEF Amend, others, Proceed, VerifiedInHand
<1>8. CASE Place
  BY <1>0, <1>8 DEF Place, others, Succeed, Fail, VerifiedInHand
<1>9. CASE Finish
  BY <1>0, <1>9 DEF Finish, others, VerifiedInHand
<1>10. CASE Cancel
  BY <1>0, <1>10 DEF Cancel, others, VerifiedInHand
<1>11. CASE Crash
  BY <1>0, <1>11 DEF Crash, others, VerifiedInHand
<1>12. CASE Restart
  BY <1>0, <1>12 DEF Restart, others, VerifiedInHand
<1>13. ASSUME NEW d \in Dupe, RestoreCheck(d) PROVE VerifiedInHand'
  BY <1>0, <1>13 DEF RestoreCheck, others, VerifiedInHand
<1>14. CASE RestoreMove
  BY <1>0, <1>14 DEF RestoreMove, others, VerifiedInHand
<1>15. ASSUME NEW p \in Path, Outsider(p) PROVE VerifiedInHand'
  BY <1>0, OutsiderDoes, <1>15 DEF VerifiedInHand
<1>16. CASE UNCHANGED vars
  BY <1>0, <1>16 DEF VerifiedInHand, vars, others
<1> QED BY <1>1, <1>2, <1>3, <1>4, <1>5, <1>6, <1>7, <1>8, <1>9, <1>10, <1>11, <1>12, <1>13,
           <1>14, <1>15, <1>16 DEF Next, Work, TakeNext

\* Each file leaves the hand as done or as a problem, for what happened to it.
LEMMA AccountedStep == TypeOK /\ Standing /\ ResultsMatchDisk /\ [Next]_vars => Accounted'
<1> SUFFICES ASSUME TypeOK, Standing, ResultsMatchDisk, [Next]_vars PROVE Accounted'
  OBVIOUS
<1>0. /\ UNCHANGED <<match, opt>> /\ Exact' = Exact /\ Twin' = Twin
      /\ \A p : Scanned(p)' = Scanned(p) /\ Body(p)' = Body(p)
  BY StaticStep, ScanStays
<1>1. CASE Start
  BY <1>0, ScannedFiles, <1>1 DEF Start, disk, job, others, Accounted, Standing, PendingIsFresh,
     HandIsEmpty, InHand, Pending, Exists
<1>2. ASSUME NEW d \in Dupe, Take(d) PROVE Accounted'
  BY <1>0, ScannedFiles, <1>2 DEF Take, disk, job, others, Succeed, Fail, Accounted, Standing,
     PendingIsFresh, HandIsEmpty, InHand, Pending, Exists
<1>3. CASE Verify
  BY <1>0, ScannedFiles, <1>3 DEF Verify, disk, job, others, Fail, Proceed, Accounted, Standing,
     PendingIsFresh, HandIsEmpty, InHand, Pending, Exists
<1>4. CASE Build
  BY <1>0, ScannedFiles, <1>4 DEF Build, job, others, Fail, Proceed, Accounted, Standing,
     PendingIsFresh, HandIsEmpty, InHand, Pending, Exists
<1>5. CASE Record
  BY <1>0, ScannedFiles, <1>5 DEF Record, disk, job, others, Fail, Proceed, Accounted, Standing,
     PendingIsFresh, HandIsEmpty, InHand, Pending, Exists
<1>6. CASE Remove
  BY <1>0, ScannedFiles, RemoveDoes, <1>6 DEF Remove, job, others, Fail, Proceed, Accounted,
     Standing, PendingIsFresh, HandIsEmpty, InHand, Pending, Exists
<1>7. CASE Amend
  BY <1>0, ScannedFiles, <1>7 DEF Amend, disk, job, others, Proceed, Accounted, Standing,
     PendingIsFresh, HandIsEmpty, InHand, Pending, Exists
<1>8. CASE Place
  BY <1>0, ScannedFiles, PlaceDoes, <1>8 DEF Place, job, others, Succeed, Fail, Accounted,
     Standing, PendingIsFresh, HandIsEmpty, InHand, Pending, Exists
<1>9. CASE Finish
  BY <1>0, ScannedFiles, <1>9 DEF Finish, disk, outcome, others, Accounted, Standing,
     PendingIsFresh, HandIsEmpty, InHand, Pending, Exists
<1>10. CASE Cancel
  BY <1>0, ScannedFiles, <1>10 DEF Cancel, disk, outcome, others, Accounted, Standing,
     PendingIsFresh, HandIsEmpty, InHand, Pending, Exists
<1>11. CASE Crash
  BY <1>0, ScannedFiles, <1>11 DEF Crash, disk, others, Accounted, Standing, PendingIsFresh,
     HandIsEmpty, InHand, Pending, Exists
<1>12. CASE Restart
  BY <1>0, ScannedFiles, <1>12 DEF Restart, disk, job, outcome, others, Accounted, Standing,
     PendingIsFresh, HandIsEmpty, InHand, Pending, Exists
<1>13. ASSUME NEW d \in Dupe, RestoreCheck(d) PROVE Accounted'
  <2>1. d \notin touched => at[d] # Scanned(d)
    BY <1>13, ScannedFiles DEF RestoreCheck, Exists
  <2> QED BY <1>0, <1>13, <2>1 DEF RestoreCheck, Accounted, Standing, ResultsMatchDisk, job, disk,
             outcome, others
<1>14. CASE RestoreMove
  BY <1>0, ScannedFiles, RestoreMoveDoes, <1>14 DEF RestoreMove, job, outcome, others, Accounted,
     Standing, PendingIsFresh, HandIsEmpty, InHand, Pending, Exists
<1>15. ASSUME NEW p \in Path, Outsider(p) PROVE Accounted'
  BY <1>0, ScannedFiles, OutsiderDoes, <1>15 DEF job, outcome, Accounted, Standing,
     PendingIsFresh, HandIsEmpty, InHand, Pending, Exists
<1>16. CASE UNCHANGED vars
  BY <1>0, <1>16 DEF Accounted, Standing, PendingIsFresh, HandIsEmpty, InHand, Pending, Exists,
     vars, disk, job, outcome, others
<1> QED BY <1>1, <1>2, <1>3, <1>4, <1>5, <1>6, <1>7, <1>8, <1>9, <1>10, <1>11, <1>12, <1>13,
           <1>14, <1>15, <1>16 DEF Next, Work, TakeNext

\* A removal sends what the scan saw to the trash, as what is pending is fresh.
LEMMA TrashIsOldStep == TypeOK /\ Standing /\ TrashIsOld /\ [Next]_vars => TrashIsOld'
<1> SUFFICES ASSUME TypeOK, Standing, TrashIsOld, [Next]_vars PROVE TrashIsOld'
  OBVIOUS
<1>0. /\ UNCHANGED <<match, opt>> /\ Exact' = Exact /\ Twin' = Twin
      /\ \A p : Scanned(p)' = Scanned(p) /\ Body(p)' = Body(p)
  BY StaticStep, ScanStays
<1>1. CASE Start
  BY <1>0, <1>1 DEF Start, disk, others, TrashIsOld, Standing, PendingIsFresh, InHand, Pending
<1>2. ASSUME NEW d \in Dupe, Take(d) PROVE TrashIsOld'
  BY <1>0, <1>2 DEF Take, disk, others, TrashIsOld, Standing, PendingIsFresh, InHand, Pending
<1>3. CASE Verify
  BY <1>0, <1>3 DEF Verify, disk, others, TrashIsOld, Standing, PendingIsFresh, InHand, Pending
<1>4. CASE Build
  BY <1>0, <1>4 DEF Build, others, TrashIsOld, Standing, PendingIsFresh, InHand, Pending
<1>5. CASE Record
  BY <1>0, <1>5 DEF Record, disk, others, TrashIsOld, Standing, PendingIsFresh, InHand, Pending
<1>6. CASE Remove
  BY <1>0, RemoveDoes, <1>6 DEF Remove, others, TrashIsOld, Standing, PendingIsFresh, InHand,
     Pending
<1>7. CASE Amend
  BY <1>0, <1>7 DEF Amend, disk, others, TrashIsOld, Standing, PendingIsFresh, InHand, Pending
<1>8. CASE Place
  BY <1>0, <1>8 DEF Place, others, TrashIsOld, Standing, PendingIsFresh, InHand, Pending
<1>9. CASE Finish
  BY <1>0, <1>9 DEF Finish, disk, others, TrashIsOld, Standing, PendingIsFresh, InHand, Pending
<1>10. CASE Cancel
  BY <1>0, <1>10 DEF Cancel, disk, others, TrashIsOld, Standing, PendingIsFresh, InHand, Pending
<1>11. CASE Crash
  BY <1>0, <1>11 DEF Crash, disk, others, TrashIsOld, Standing, PendingIsFresh, InHand, Pending
<1>12. CASE Restart
  BY <1>0, <1>12 DEF Restart, disk, others, TrashIsOld, Standing, PendingIsFresh, InHand, Pending
<1>13. ASSUME NEW d \in Dupe, RestoreCheck(d) PROVE TrashIsOld'
  BY <1>0, <1>13 DEF RestoreCheck, disk, others, TrashIsOld, Standing, PendingIsFresh, InHand,
     Pending
<1>14. CASE RestoreMove
  BY <1>0, RestoreMoveDoes, <1>14 DEF RestoreMove, others, TrashIsOld, Standing, PendingIsFresh,
     InHand, Pending
<1>15. ASSUME NEW p \in Path, Outsider(p) PROVE TrashIsOld'
  BY <1>0, OutsiderDoes, <1>15 DEF TrashIsOld, Standing, PendingIsFresh, InHand, Pending
<1>16. CASE UNCHANGED vars
  BY <1>0, <1>16 DEF TrashIsOld, Standing, PendingIsFresh, InHand, Pending, vars, disk, others
<1> QED BY <1>1, <1>2, <1>3, <1>4, <1>5, <1>6, <1>7, <1>8, <1>9, <1>10, <1>11, <1>12, <1>13,
           <1>14, <1>15, <1>16 DEF Next, Work, TakeNext

\* A clone that is built is of the reference as it is.
LEMMA CloneIsRefStep == TypeOK /\ Standing /\ CloneIsRef /\ [Next]_vars => CloneIsRef'
<1> SUFFICES ASSUME TypeOK, Standing, CloneIsRef, [Next]_vars PROVE CloneIsRef'
  OBVIOUS
<1>0. /\ UNCHANGED <<match, opt>> /\ Exact' = Exact /\ Twin' = Twin
      /\ \A p : Scanned(p)' = Scanned(p) /\ Body(p)' = Body(p)
  BY StaticStep, ScanStays
<1>1. CASE Start
  BY <1>0, ScannedFiles, <1>1 DEF Start, disk, others, CloneIsRef, Standing
<1>2. ASSUME NEW d \in Dupe, Take(d) PROVE CloneIsRef'
  BY <1>0, ScannedFiles, <1>2 DEF Take, disk, others, CloneIsRef, Standing
<1>3. CASE Verify
  BY <1>0, ScannedFiles, <1>3 DEF Verify, disk, others, CloneIsRef, Standing
<1>4. CASE Build
  <2>1. at[Ref] \in Files /\ Ref \notin touched => at[Ref].data = Ref
    BY ScannedFiles DEF PendingIsFresh, Standing, Path
  <2> QED BY <1>0, <1>4, <2>1, BuildDoes DEF CloneIsRef, Standing, Build, others
<1>5. CASE Record
  BY <1>0, ScannedFiles, <1>5 DEF Record, disk, others, CloneIsRef, Standing
<1>6. CASE Remove
  BY <1>0, ScannedFiles, RemoveDoes, <1>6 DEF Remove, others, CloneIsRef, Standing
<1>7. CASE Amend
  BY <1>0, ScannedFiles, <1>7 DEF Amend, disk, others, CloneIsRef, Standing
<1>8. CASE Place
  BY <1>0, ScannedFiles, PlaceDoes, <1>8 DEF Place, others, CloneIsRef, Standing
<1>9. CASE Finish
  BY <1>0, ScannedFiles, <1>9 DEF Finish, disk, others, CloneIsRef, Standing
<1>10. CASE Cancel
  BY <1>0, ScannedFiles, <1>10 DEF Cancel, disk, others, CloneIsRef, Standing
<1>11. CASE Crash
  BY <1>0, ScannedFiles, <1>11 DEF Crash, disk, others, CloneIsRef, Standing
<1>12. CASE Restart
  BY <1>0, ScannedFiles, <1>12 DEF Restart, disk, others, CloneIsRef, Standing
<1>13. ASSUME NEW d \in Dupe, RestoreCheck(d) PROVE CloneIsRef'
  BY <1>0, ScannedFiles, <1>13 DEF RestoreCheck, disk, others, CloneIsRef, Standing
<1>14. CASE RestoreMove
  BY <1>0, ScannedFiles, <1>14 DEF RestoreMove, others, CloneIsRef, Standing
<1>15. ASSUME NEW p \in Path, Outsider(p) PROVE CloneIsRef'
  BY <1>0, ScannedFiles, OutsiderDoes, <1>15 DEF CloneIsRef, Standing
<1>16. CASE UNCHANGED vars
  BY <1>0, <1>16 DEF CloneIsRef, Standing, vars, disk, others
<1> QED BY <1>1, <1>2, <1>3, <1>4, <1>5, <1>6, <1>7, <1>8, <1>9, <1>10, <1>11, <1>12, <1>13,
           <1>14, <1>15, <1>16 DEF Next, Work, TakeNext

-----------------------------------------------------------------------------
(* What each step keeps of the promises.                                    *)

\* ReplacementExists, from ReplacementReady and PendingIsFresh.
LEMMA ReplacementExistsStep ==
  TypeOK /\ Standing /\ ReplacementExists /\ [Next]_vars => ReplacementExists'
<1> SUFFICES ASSUME TypeOK, Standing, ReplacementExists, [Next]_vars PROVE ReplacementExists'
  OBVIOUS
<1>0. /\ UNCHANGED <<match, opt>> /\ Exact' = Exact /\ Twin' = Twin
      /\ \A p : Scanned(p)' = Scanned(p) /\ Body(p)' = Body(p)
  BY StaticStep, ScanStays
<1>1. CASE Start
  BY <1>0, ScannedFiles, <1>1 DEF Start, disk, others, ReplacementExists, Standing, TypeOK,
     PendingIsFresh, ReplacementReady, InHand, Pending
<1>2. ASSUME NEW d \in Dupe, Take(d) PROVE ReplacementExists'
  BY <1>0, ScannedFiles, <1>2 DEF Take, disk, others, ReplacementExists, Standing, TypeOK,
     PendingIsFresh, ReplacementReady, InHand, Pending
<1>3. CASE Verify
  BY <1>0, ScannedFiles, <1>3 DEF Verify, disk, others, ReplacementExists, Standing, TypeOK,
     PendingIsFresh, ReplacementReady, InHand, Pending
<1>4. CASE Build
  BY <1>0, ScannedFiles, <1>4 DEF Build, others, ReplacementExists, Standing, TypeOK,
     PendingIsFresh, ReplacementReady, InHand, Pending
<1>5. CASE Record
  BY <1>0, ScannedFiles, <1>5 DEF Record, disk, others, ReplacementExists, Standing, TypeOK,
     PendingIsFresh, ReplacementReady, InHand, Pending
<1>6. CASE Remove
  BY <1>0, ScannedFiles, <1>6 DEF Remove, others, ReplacementExists, Standing, TypeOK,
     PendingIsFresh, ReplacementReady, InHand, Pending
<1>7. CASE Amend
  BY <1>0, ScannedFiles, <1>7 DEF Amend, disk, others, ReplacementExists, Standing, TypeOK,
     PendingIsFresh, ReplacementReady, InHand, Pending
<1>8. CASE Place
  BY <1>0, ScannedFiles, <1>8 DEF Place, others, ReplacementExists, Standing, TypeOK,
     PendingIsFresh, ReplacementReady, InHand, Pending
<1>9. CASE Finish
  BY <1>0, ScannedFiles, <1>9 DEF Finish, disk, others, ReplacementExists, Standing, TypeOK,
     PendingIsFresh, ReplacementReady, InHand, Pending
<1>10. CASE Cancel
  BY <1>0, ScannedFiles, <1>10 DEF Cancel, disk, others, ReplacementExists, Standing, TypeOK,
     PendingIsFresh, ReplacementReady, InHand, Pending
<1>11. CASE Crash
  BY <1>0, ScannedFiles, <1>11 DEF Crash, disk, others, ReplacementExists, Standing, TypeOK,
     PendingIsFresh, ReplacementReady, InHand, Pending
<1>12. CASE Restart
  BY <1>0, ScannedFiles, <1>12 DEF Restart, disk, others, ReplacementExists, Standing, TypeOK,
     PendingIsFresh, ReplacementReady, InHand, Pending
<1>13. ASSUME NEW d \in Dupe, RestoreCheck(d) PROVE ReplacementExists'
  BY <1>0, ScannedFiles, <1>13 DEF RestoreCheck, disk, others, ReplacementExists, Standing,
     TypeOK, PendingIsFresh, ReplacementReady, InHand, Pending
<1>14. CASE RestoreMove
  BY <1>0, ScannedFiles, <1>14 DEF RestoreMove, others, ReplacementExists, Standing, TypeOK,
     PendingIsFresh, ReplacementReady, InHand, Pending
<1>15. ASSUME NEW p \in Path, Outsider(p) PROVE ReplacementExists'
  BY <1>0, ScannedFiles, OutsiderDoes, <1>15 DEF ReplacementExists, Standing, TypeOK,
     PendingIsFresh, ReplacementReady, InHand, Pending
<1>16. CASE UNCHANGED vars
  BY <1>0, <1>16 DEF ReplacementExists, Standing, TypeOK, PendingIsFresh, ReplacementReady,
     InHand, Pending, vars, disk, others
<1> QED BY <1>1, <1>2, <1>3, <1>4, <1>5, <1>6, <1>7, <1>8, <1>9, <1>10, <1>11, <1>12, <1>13,
           <1>14, <1>15, <1>16 DEF Next, Work, TakeNext

\* ResultsMatchDisk, from Accounted.
LEMMA ResultsMatchDiskStep ==
  TypeOK /\ Standing /\ ResultsMatchDisk /\ [Next]_vars => ResultsMatchDisk'
<1> SUFFICES ASSUME TypeOK, Standing, ResultsMatchDisk, [Next]_vars PROVE ResultsMatchDisk'
  OBVIOUS
<1>0. /\ UNCHANGED <<match, opt>> /\ Exact' = Exact /\ Twin' = Twin
      /\ \A p : Scanned(p)' = Scanned(p) /\ Body(p)' = Body(p)
  BY StaticStep, ScanStays
<1>1. CASE Start
  BY <1>0, ScannedFiles, <1>1 DEF Start, disk, job, others, ResultsMatchDisk, Standing, Accounted
<1>2. ASSUME NEW d \in Dupe, Take(d) PROVE ResultsMatchDisk'
  BY <1>0, ScannedFiles, <1>2 DEF Take, disk, job, others, Succeed, Fail, ResultsMatchDisk,
     Standing, Accounted
<1>3. CASE Verify
  BY <1>0, ScannedFiles, <1>3 DEF Verify, disk, job, others, Fail, Proceed, ResultsMatchDisk,
     Standing, Accounted
<1>4. CASE Build
  BY <1>0, ScannedFiles, <1>4 DEF Build, job, others, Fail, Proceed, ResultsMatchDisk, Standing,
     Accounted
<1>5. CASE Record
  BY <1>0, ScannedFiles, <1>5 DEF Record, disk, job, others, Fail, Proceed, ResultsMatchDisk,
     Standing, Accounted
<1>6. CASE Remove
  BY <1>0, ScannedFiles, RemoveDoes, <1>6 DEF Remove, job, others, Fail, Proceed,
     ResultsMatchDisk, Standing, Accounted
<1>7. CASE Amend
  BY <1>0, ScannedFiles, <1>7 DEF Amend, disk, job, others, Proceed, ResultsMatchDisk, Standing,
     Accounted
<1>8. CASE Place
  BY <1>0, ScannedFiles, <1>8 DEF Place, job, others, Succeed, Fail, ResultsMatchDisk, Standing,
     Accounted
<1>9. CASE Finish
  BY <1>0, ScannedFiles, <1>9 DEF Finish, disk, outcome, others, ResultsMatchDisk, Standing,
     Accounted
<1>10. CASE Cancel
  BY <1>0, ScannedFiles, <1>10 DEF Cancel, disk, outcome, others, ResultsMatchDisk, Standing,
     Accounted
<1>11. CASE Crash
  BY <1>0, ScannedFiles, <1>11 DEF Crash, disk, others, ResultsMatchDisk, Standing, Accounted
<1>12. CASE Restart
  BY <1>0, ScannedFiles, <1>12 DEF Restart, disk, job, outcome, others, ResultsMatchDisk,
     Standing, Accounted
<1>13. ASSUME NEW d \in Dupe, RestoreCheck(d) PROVE ResultsMatchDisk'
  BY <1>0, ScannedFiles, <1>13 DEF RestoreCheck, disk, job, outcome, others, ResultsMatchDisk,
     Standing, Accounted
<1>14. CASE RestoreMove
  BY <1>0, ScannedFiles, RestoreMoveDoes, <1>14 DEF RestoreMove, job, outcome, others,
     ResultsMatchDisk, Standing, Accounted
<1>15. ASSUME NEW p \in Path, Outsider(p) PROVE ResultsMatchDisk'
  BY <1>0, ScannedFiles, OutsiderDoes, <1>15 DEF job, outcome, ResultsMatchDisk, Standing,
     Accounted
<1>16. CASE UNCHANGED vars
  BY <1>0, <1>16 DEF ResultsMatchDisk, Standing, Accounted, vars, disk, job, outcome, others
<1> QED BY <1>1, <1>2, <1>3, <1>4, <1>5, <1>6, <1>7, <1>8, <1>9, <1>10, <1>11, <1>12, <1>13,
           <1>14, <1>15, <1>16 DEF Next, Work, TakeNext

\* VerifiedMeansSame, from VerifiedInHand.
LEMMA VerifiedMeansSameStep ==
  TypeOK /\ Standing /\ VerifiedMeansSame /\ [Next]_vars => VerifiedMeansSame'
<1> SUFFICES ASSUME TypeOK, Standing, VerifiedMeansSame, [Next]_vars PROVE VerifiedMeansSame'
  OBVIOUS
<1>0. /\ UNCHANGED <<match, opt>> /\ Exact' = Exact /\ Twin' = Twin
      /\ \A p : Scanned(p)' = Scanned(p) /\ Body(p)' = Body(p)
  BY StaticStep, ScanStays
<1>1. CASE Start
  BY <1>0, <1>1 DEF Start, others, VerifiedMeansSame, Standing, VerifiedInHand
<1>2. ASSUME NEW d \in Dupe, Take(d) PROVE VerifiedMeansSame'
  BY <1>0, <1>2 DEF Take, others, VerifiedMeansSame, Standing, VerifiedInHand
<1>3. CASE Verify
  BY <1>0, <1>3 DEF Verify, others, VerifiedMeansSame, Standing, VerifiedInHand
<1>4. CASE Build
  BY <1>0, <1>4 DEF Build, others, VerifiedMeansSame, Standing, VerifiedInHand
<1>5. CASE Record
  BY <1>0, <1>5 DEF Record, others, VerifiedMeansSame, Standing, VerifiedInHand
<1>6. CASE Remove
  BY <1>0, <1>6 DEF Remove, others, VerifiedMeansSame, Standing, VerifiedInHand
<1>7. CASE Amend
  BY <1>0, <1>7 DEF Amend, others, VerifiedMeansSame, Standing, VerifiedInHand
<1>8. CASE Place
  BY <1>0, <1>8 DEF Place, others, VerifiedMeansSame, Standing, VerifiedInHand
<1>9. CASE Finish
  BY <1>0, <1>9 DEF Finish, others, VerifiedMeansSame, Standing, VerifiedInHand
<1>10. CASE Cancel
  BY <1>0, <1>10 DEF Cancel, others, VerifiedMeansSame, Standing, VerifiedInHand
<1>11. CASE Crash
  BY <1>0, <1>11 DEF Crash, others, VerifiedMeansSame, Standing, VerifiedInHand
<1>12. CASE Restart
  BY <1>0, <1>12 DEF Restart, others, VerifiedMeansSame, Standing, VerifiedInHand
<1>13. ASSUME NEW d \in Dupe, RestoreCheck(d) PROVE VerifiedMeansSame'
  BY <1>0, <1>13 DEF RestoreCheck, others, VerifiedMeansSame, Standing, VerifiedInHand
<1>14. CASE RestoreMove
  BY <1>0, <1>14 DEF RestoreMove, others, VerifiedMeansSame, Standing, VerifiedInHand
<1>15. ASSUME NEW p \in Path, Outsider(p) PROVE VerifiedMeansSame'
  BY <1>0, OutsiderDoes, <1>15 DEF VerifiedMeansSame, Standing, VerifiedInHand
<1>16. CASE UNCHANGED vars
  BY <1>0, <1>16 DEF VerifiedMeansSame, Standing, VerifiedInHand, vars, others
<1> QED BY <1>1, <1>2, <1>3, <1>4, <1>5, <1>6, <1>7, <1>8, <1>9, <1>10, <1>11, <1>12, <1>13,
           <1>14, <1>15, <1>16 DEF Next, Work, TakeNext

\* BytesSurvive, from PendingIsFresh and HandIsEmpty: what a removal takes is pending, and
\* what a placement covers is empty.
LEMMA BytesSurviveStep == TypeOK /\ Standing /\ BytesSurvive /\ [Next]_vars => BytesSurvive'
<1> SUFFICES ASSUME TypeOK, Standing, BytesSurvive, [Next]_vars PROVE BytesSurvive'
  OBVIOUS
<1>0. /\ UNCHANGED <<match, opt>> /\ Exact' = Exact /\ Twin' = Twin
      /\ \A p : Scanned(p)' = Scanned(p) /\ Body(p)' = Body(p)
  BY StaticStep, ScanStays
<1>1. CASE Start
  BY <1>0, ScannedFiles, <1>1 DEF Start, disk, others, BytesSurvive, Standing, PendingIsFresh,
     HandIsEmpty, InHand, Pending
<1>2. ASSUME NEW d \in Dupe, Take(d) PROVE BytesSurvive'
  BY <1>0, ScannedFiles, <1>2 DEF Take, disk, others, BytesSurvive, Standing, PendingIsFresh,
     HandIsEmpty, InHand, Pending
<1>3. CASE Verify
  BY <1>0, ScannedFiles, <1>3 DEF Verify, disk, others, BytesSurvive, Standing, PendingIsFresh,
     HandIsEmpty, InHand, Pending
<1>4. CASE Build
  BY <1>0, ScannedFiles, <1>4 DEF Build, others, BytesSurvive, Standing, PendingIsFresh,
     HandIsEmpty, InHand, Pending
<1>5. CASE Record
  BY <1>0, ScannedFiles, <1>5 DEF Record, disk, others, BytesSurvive, Standing, PendingIsFresh,
     HandIsEmpty, InHand, Pending
<1>6. CASE Remove
  BY <1>0, ScannedFiles, RemoveDoes, <1>6 DEF Remove, others, BytesSurvive, Standing,
     PendingIsFresh, HandIsEmpty, InHand, Pending
<1>7. CASE Amend
  BY <1>0, ScannedFiles, <1>7 DEF Amend, disk, others, BytesSurvive, Standing, PendingIsFresh,
     HandIsEmpty, InHand, Pending
<1>8. CASE Place
  BY <1>0, ScannedFiles, PlaceDoes, <1>8 DEF Place, others, BytesSurvive, Standing,
     PendingIsFresh, HandIsEmpty, InHand, Pending
<1>9. CASE Finish
  BY <1>0, ScannedFiles, <1>9 DEF Finish, disk, others, BytesSurvive, Standing, PendingIsFresh,
     HandIsEmpty, InHand, Pending
<1>10. CASE Cancel
  BY <1>0, ScannedFiles, <1>10 DEF Cancel, disk, others, BytesSurvive, Standing, PendingIsFresh,
     HandIsEmpty, InHand, Pending
<1>11. CASE Crash
  BY <1>0, ScannedFiles, <1>11 DEF Crash, disk, others, BytesSurvive, Standing, PendingIsFresh,
     HandIsEmpty, InHand, Pending
<1>12. CASE Restart
  BY <1>0, ScannedFiles, <1>12 DEF Restart, disk, others, BytesSurvive, Standing, PendingIsFresh,
     HandIsEmpty, InHand, Pending
<1>13. ASSUME NEW d \in Dupe, RestoreCheck(d) PROVE BytesSurvive'
  BY <1>0, ScannedFiles, <1>13 DEF RestoreCheck, disk, others, BytesSurvive, Standing,
     PendingIsFresh, HandIsEmpty, InHand, Pending
<1>14. CASE RestoreMove
  BY <1>0, ScannedFiles, RestoreMoveDoes, <1>14 DEF RestoreMove, others, BytesSurvive, Standing,
     PendingIsFresh, HandIsEmpty, InHand, Pending
<1>15. ASSUME NEW p \in Path, Outsider(p) PROVE BytesSurvive'
  BY <1>0, ScannedFiles, OutsiderDoes, <1>15 DEF BytesSurvive, Standing, PendingIsFresh,
     HandIsEmpty, InHand, Pending
<1>16. CASE UNCHANGED vars
  BY <1>0, <1>16 DEF BytesSurvive, Standing, PendingIsFresh, HandIsEmpty, InHand, Pending, vars,
     disk, others
<1> QED BY <1>1, <1>2, <1>3, <1>4, <1>5, <1>6, <1>7, <1>8, <1>9, <1>10, <1>11, <1>12, <1>13,
           <1>14, <1>15, <1>16 DEF Next, Work, TakeNext

\* CloneIsHarmless, from CloneIsRef and TrashIsOld: what comes to a path is a clone of the
\* reference or what the scan saw.
LEMMA CloneIsHarmlessStep ==
  TypeOK /\ Standing /\ CloneIsHarmless /\ [Next]_vars => CloneIsHarmless'
<1> SUFFICES ASSUME TypeOK, Standing, CloneIsHarmless, [Next]_vars PROVE CloneIsHarmless'
  OBVIOUS
<1>0. /\ UNCHANGED <<match, opt>> /\ Exact' = Exact /\ Twin' = Twin
      /\ \A p : Scanned(p)' = Scanned(p) /\ Body(p)' = Body(p)
  BY StaticStep, ScanStays
<1>1. CASE Start
  BY <1>0, <1>1 DEF Start, disk, others, CloneIsHarmless
<1>2. ASSUME NEW d \in Dupe, Take(d) PROVE CloneIsHarmless'
  BY <1>0, <1>2 DEF Take, disk, others, CloneIsHarmless
<1>3. CASE Verify
  BY <1>0, <1>3 DEF Verify, disk, others, CloneIsHarmless
<1>4. CASE Build
  BY <1>0, <1>4 DEF Build, others, CloneIsHarmless
<1>5. CASE Record
  BY <1>0, <1>5 DEF Record, disk, others, CloneIsHarmless
<1>6. CASE Remove
  <2>0. current \in Dupe /\ UNCHANGED <<touched, opt>>
    BY <1>6, RemoveDoes DEF Remove, job, others, Standing
  <2>1. SUFFICES ASSUME opt.mode = "clone", NEW d \in Twin \cup (Dupe \ Exact), d = current,
                        at'[d] \in Files, {d, Ref} \cap touched = {}
                 PROVE  at'[d].data = Body(d)
    BY <1>0, <1>6, <2>0, RemoveDoes DEF CloneIsHarmless, Standing, Twin, Path
  <2> QED BY <1>6, <2>1, RemoveDoes, ScannedFiles DEF CloneIsHarmless, Standing
<1>7. CASE Amend
  BY <1>0, <1>7 DEF Amend, disk, others, CloneIsHarmless
<1>8. CASE Place
  <2>0. current \in Dupe /\ UNCHANGED <<touched, opt>>
    BY <1>8, PlaceDoes DEF Place, job, others, Standing
  <2>1. SUFFICES ASSUME opt.mode = "clone", NEW d \in Twin \cup (Dupe \ Exact), d = current,
                        at'[d] \in Files, {d, Ref} \cap touched = {}
                 PROVE  at'[d].data = Body(d)
    BY <1>0, <1>8, <2>0, PlaceDoes DEF CloneIsHarmless, Standing, Twin, Path
  <2> QED BY <1>8, <2>1, PlaceDoes DEF CloneIsHarmless, Standing, CloneIsRef, Body
<1>9. CASE Finish
  BY <1>0, <1>9 DEF Finish, disk, others, CloneIsHarmless
<1>10. CASE Cancel
  BY <1>0, <1>10 DEF Cancel, disk, others, CloneIsHarmless
<1>11. CASE Crash
  BY <1>0, <1>11 DEF Crash, disk, others, CloneIsHarmless
<1>12. CASE Restart
  BY <1>0, <1>12 DEF Restart, disk, others, CloneIsHarmless
<1>13. ASSUME NEW d \in Dupe, RestoreCheck(d) PROVE CloneIsHarmless'
  BY <1>0, <1>13 DEF RestoreCheck, disk, others, CloneIsHarmless
<1>14. CASE RestoreMove
  <2>0. current \in Dupe /\ UNCHANGED <<touched, opt>>
    BY <1>14, RestoreMoveDoes DEF RestoreMove, job, others, Standing
  <2>1. SUFFICES ASSUME opt.mode = "clone", NEW d \in Twin \cup (Dupe \ Exact), d = current,
                        at'[d] \in Files, {d, Ref} \cap touched = {}
                 PROVE  at'[d].data = Body(d)
    BY <1>0, <1>14, <2>0, RestoreMoveDoes DEF CloneIsHarmless, Standing, Twin, Path
  <2> QED BY <1>14, <2>1, RestoreMoveDoes, ScannedFiles DEF CloneIsHarmless, Standing, TrashIsOld
<1>15. ASSUME NEW p \in Path, Outsider(p) PROVE CloneIsHarmless'
  <2>1. \A q \in Path : q # p => at'[q] = at[q]
    BY <1>15, OutsiderDoes
  <2> QED BY <1>0, <1>15, OutsiderDoes DEF CloneIsHarmless, Twin, Path
<1>16. CASE UNCHANGED vars
  BY <1>0, <1>16 DEF CloneIsHarmless, vars, disk, others
<1> QED BY <1>1, <1>2, <1>3, <1>4, <1>5, <1>6, <1>7, <1>8, <1>9, <1>10, <1>11, <1>12, <1>13,
           <1>14, <1>15, <1>16 DEF Next, Work, TakeNext

\* RemovalIsRecorded, from RecordFirst.
LEMMA RemovalIsRecordedStep ==
  TypeOK /\ Standing /\ RemovalIsRecorded /\ [Next]_vars => RemovalIsRecorded'
<1> SUFFICES ASSUME TypeOK, Standing, RemovalIsRecorded, [Next]_vars PROVE RemovalIsRecorded'
  OBVIOUS
<1>1. CASE Start
  BY <1>1 DEF Start, logFile, RemovalIsRecorded, Standing, RecordFirst
<1>2. ASSUME NEW d \in Dupe, Take(d) PROVE RemovalIsRecorded'
  BY <1>2 DEF Take, logFile, RemovalIsRecorded, Standing, RecordFirst
<1>3. CASE Verify
  BY <1>3 DEF Verify, logFile, RemovalIsRecorded, Standing, RecordFirst
<1>4. CASE Build
  BY <1>4 DEF Build, logFile, RemovalIsRecorded, Standing, RecordFirst
<1>5. CASE Record
  BY <1>5 DEF Record, RemovalIsRecorded, Standing, RecordFirst
<1>6. CASE Remove
  BY <1>6 DEF Remove, logFile, RemovalIsRecorded, Standing, RecordFirst
<1>7. CASE Amend
  BY <1>7 DEF Amend, RemovalIsRecorded, Standing, RecordFirst
<1>8. CASE Place
  BY <1>8 DEF Place, logFile, RemovalIsRecorded, Standing, RecordFirst
<1>9. CASE Finish
  BY <1>9 DEF Finish, logFile, RemovalIsRecorded, Standing, RecordFirst
<1>10. CASE Cancel
  BY <1>10 DEF Cancel, logFile, RemovalIsRecorded, Standing, RecordFirst
<1>11. CASE Crash
  BY <1>11 DEF Crash, logFile, RemovalIsRecorded, Standing, RecordFirst
<1>12. CASE Restart
  BY <1>12 DEF Restart, logFile, RemovalIsRecorded, Standing, RecordFirst
<1>13. ASSUME NEW d \in Dupe, RestoreCheck(d) PROVE RemovalIsRecorded'
  BY <1>13 DEF RestoreCheck, logFile, RemovalIsRecorded, Standing, RecordFirst
<1>14. CASE RestoreMove
  BY <1>14 DEF RestoreMove, logFile, RemovalIsRecorded, Standing, RecordFirst
<1>15. ASSUME NEW p \in Path, Outsider(p) PROVE RemovalIsRecorded'
  BY OutsiderDoes, <1>15 DEF logFile, RemovalIsRecorded, Standing, RecordFirst
<1>16. CASE UNCHANGED vars
  BY <1>16 DEF RemovalIsRecorded, Standing, RecordFirst, vars, logFile
<1> QED BY <1>1, <1>2, <1>3, <1>4, <1>5, <1>6, <1>7, <1>8, <1>9, <1>10, <1>11, <1>12, <1>13,
           <1>14, <1>15, <1>16 DEF Next, Work, TakeNext

-----------------------------------------------------------------------------
(* The promises.  Standing and ResultsMatchDisk are inductive together:    *)
(* what a restore finds depends on what the results say between two jobs.  *)

DeletionInv == TypeOK /\ Standing /\ ResultsMatchDisk

\* Before the job everything is as the scan saw it.
LEMMA DeletionStarts ==
  Init => /\ DeletionInv
          /\ RemovalIsRecorded /\ ReplacementExists /\ VerifiedMeansSame /\ BytesSurvive
          /\ CloneIsHarmless
<1> SUFFICES ASSUME Init
             PROVE  /\ DeletionInv
                    /\ RemovalIsRecorded /\ ReplacementExists /\ VerifiedMeansSame
                    /\ BytesSurvive /\ CloneIsHarmless
  OBVIOUS
<1>1. TypeOK
  <2>1. at \in [Path -> Entry] /\ tmp \in [Dupe -> Entry] /\ trash \in [Dupe -> Entry]
    BY ScannedFiles DEF Init
  <2>2. outside \in 0..MaxOutside
    BY OptionAssumption DEF Init
  <2> QED BY <2>1, <2>2 DEF Init, TypeOK
<1>2. HandOK /\ RecordFirst /\ PendingIsFresh /\ HandIsEmpty /\ ReplacementReady /\ VerifiedInHand
  BY ScannedFiles DEF Init, HandOK, RecordFirst, PendingIsFresh, Pending, InHand, HandIsEmpty,
                      ReplacementReady, VerifiedInHand, Path
<1>3. Accounted /\ TrashIsOld /\ CloneIsRef /\ ResultsMatchDisk
  BY ScannedFiles DEF Init, Accounted, TrashIsOld, CloneIsRef, ResultsMatchDisk
<1>4. \A p \in Path : at[p] = Scanned(p)
  BY DEF Init
<1>5. RemovalIsRecorded /\ ReplacementExists /\ VerifiedMeansSame
  BY DEF Init, RemovalIsRecorded, ReplacementExists, VerifiedMeansSame
<1>6. BytesSurvive /\ CloneIsHarmless
  BY <1>4, ScannedFiles DEF BytesSurvive, CloneIsHarmless, Path, Twin
<1> QED BY <1>1, <1>2, <1>3, <1>5, <1>6 DEF DeletionInv, Standing

\* Every step keeps what the promises rest on.
LEMMA DeletionInvStep == DeletionInv /\ [Next]_vars => DeletionInv'
BY TypeOKStep, HandOKStep, RecordFirstStep, PendingIsFreshStep, HandIsEmptyStep,
   ReplacementReadyStep, VerifiedInHandStep, AccountedStep, TrashIsOldStep, CloneIsRefStep,
   ResultsMatchDiskStep DEF DeletionInv, Standing

\* RemovalIsRecorded, for any dupes: whatever was removed has its line in the log file, or its
\* append failed.  The record comes before the removal, and no crash, restore or other program
\* comes between the two and undoes it.
THEOREM RemovalsAreRecorded == Spec => []RemovalIsRecorded
<1>1. Init => DeletionInv /\ RemovalIsRecorded
  BY DeletionStarts
<1>2. DeletionInv /\ RemovalIsRecorded /\ [Next]_vars => DeletionInv' /\ RemovalIsRecorded'
  BY DeletionInvStep, RemovalIsRecordedStep DEF DeletionInv
<1> QED BY <1>1, <1>2, PTL DEF Spec

\* BytesSurvive, for any dupes: unless deletion is permanent, the bytes of every dupe nobody else
\* touched are at its path or in the trash.
THEOREM BytesAlwaysSurvive == Spec => []BytesSurvive
<1>1. Init => DeletionInv /\ BytesSurvive
  BY DeletionStarts
<1>2. DeletionInv /\ BytesSurvive /\ [Next]_vars => DeletionInv' /\ BytesSurvive'
  BY DeletionInvStep, BytesSurviveStep DEF DeletionInv
<1> QED BY <1>1, <1>2, PTL DEF Spec

\* OutcomesAreTrue, for any dupes: a dupe that was to be replaced is never without a replacement,
\* the results of a job that is over tell what is on the disk, with verification no collision is
\* deleted, and replacing by clones changes no content.
THEOREM OutcomesStayTrue == Spec => []OutcomesAreTrue
<1> DEFINE Kept == ReplacementExists /\ VerifiedMeansSame /\ CloneIsHarmless
<1>1. Init => DeletionInv /\ Kept
  BY DeletionStarts
<1>2. DeletionInv /\ Kept /\ [Next]_vars => DeletionInv' /\ Kept'
  BY DeletionInvStep, ReplacementExistsStep, VerifiedMeansSameStep, CloneIsHarmlessStep
     DEF DeletionInv
<1>3. DeletionInv /\ Kept => OutcomesAreTrue
  BY DEF DeletionInv, OutcomesAreTrue
<1> HIDE DEF Kept
<1> QED BY <1>1, <1>2, <1>3, PTL DEF Spec

=============================================================================
