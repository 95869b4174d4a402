--------------------------- MODULE PictureProofs ----------------------------
(***************************************************************************)
(* Proofs about module Pictures, for any pictures, versions, looks and     *)
(* references.  A scan is a record whose parts change one or two at a      *)
(* time: the first lemmas say which, and the rest rest on where each       *)
(* picture of the scan is, what its row holds and what the stored matches  *)
(* were found for.                                                         *)
(***************************************************************************)
EXTENDS Pictures, FiniteSetTheorems, TLAPS

Stage == {"purge", "pool", "serial", "compare", "done"}
RowSet == [slots : {"all", "other", "first"}, read : 0..Versions, stamp : 0..Versions,
           unit : {"seconds", "ns"}]

\* A scan with the fields it began with, and those it changes.
Scanning(stage, todo, pending, prepared, reading, failed, lost, truncated, found) ==
  [stage |-> stage, files |-> scan.files, refs |-> scan.refs, rotated |-> scan.rotated,
   combined |-> scan.combined, key |-> scan.key, hit |-> scan.hit, began |-> scan.began,
   todo |-> todo, pending |-> pending, prepared |-> prepared, reading |-> reading,
   failed |-> failed, lost |-> lost, truncated |-> truncated, found |-> found]

ScanTyped ==
  /\ scan = Scanning(scan.stage, scan.todo, scan.pending, scan.prepared, scan.reading,
                     scan.failed, scan.lost, scan.truncated, scan.found)
  /\ scan.stage \in Stage
  /\ scan.files \subseteq Picture
  /\ scan.rotated \in BOOLEAN /\ scan.hit \in BOOLEAN
  /\ scan.began \in [Picture -> 0..Versions]
  /\ scan.key = <<{<<p, scan.began[p]>> : p \in scan.files}, scan.rotated>>
  /\ scan.todo \subseteq scan.files /\ scan.prepared \subseteq scan.files

\* Versions and rows; and a picture that is there is not older than when the scan began.
WorldTyped ==
  /\ version \in [Picture -> 0..Versions] /\ DOMAIN rows = Picture
  /\ \A p \in Picture : rows[p] # None => rows[p] \in RowSet /\ rows[p].read > 0
BeganBefore == \A p \in Picture : version[p] = 0 \/ scan.began[p] <= version[p]

\* A hit is done at once, with what is stored.
HitIsStored ==
  scan.hit => scan.stage = "done" /\ scan.found = matches.pairs /\ scan.key = matches.key

\* Once the block cache has been purged: its rows for the scan's pictures; where every picture is.
Fresh(p) ==
  rows[p].unit = "seconds" => rows[p].read >= scan.began[p] \/ rows[p].read < rows[p].stamp
RowsHold == \A p \in scan.files : rows[p] # None => Fresh(p)
Accounted ==
  \/ scan.truncated
  \/ \A p \in scan.files :
       \/ p \in scan.todo \/ p \in scan.failed \/ p \in scan.lost \/ p \in scan.prepared
       \/ scan.reading # None /\ p = scan.reading[1]
PreparedHaveRows ==
  \A p \in scan.prepared :
    rows[p] # None \/ (scan.stage # "done" /\ (p \in DOMAIN scan.pending \/ p \in scan.lost))
PendingTyped ==
  /\ IsFiniteSet(DOMAIN scan.pending) /\ DOMAIN scan.pending \subseteq scan.files
  /\ \A p \in DOMAIN scan.pending : scan.pending[p] \in 1..Versions
  /\ scan.stage # "pool" => DOMAIN scan.pending = {}
ReadingTyped ==
  /\ scan.reading # None => /\ scan.reading \in Picture \X (1..Versions)
                            /\ scan.reading[1] \in scan.files
                            /\ scan.reading[2] >= scan.began[scan.reading[1]]
  /\ scan.stage # "serial" => scan.reading = None
  /\ scan.stage \in {"compare", "done"} => scan.todo = {}
  /\ scan.stage = "pool" => scan.lost = {}
PurgedInv == RowsHold /\ Accounted /\ PreparedHaveRows /\ PendingTyped /\ ReadingTyped

ScanInv ==
  /\ ScanTyped /\ BeganBefore /\ HitIsStored
  /\ scan.stage = "purge" => scan.reading = None /\ scan.lost = {}
  /\ ~scan.hit /\ scan.stage # "purge" => PurgedInv

\* Pairs that looked alike in whatever versions a key names; the stored ones do, with theirs.
AlikeIn(pairs, key) ==
  \A pair \in pairs, v \in [Picture -> 0..Versions], files \in SUBSET Picture,
    rotated \in BOOLEAN :
    key = <<{<<p, v[p]>> : p \in files}, rotated>> =>
      \A p, q \in pair : LookOf[p][v[p]] = LookOf[q][v[q]]
MatchesHold == matches.current => AlikeIn(matches.pairs, matches.key)

PicturesInv == WorldTyped /\ MatchesHold /\ (scan = NoScan \/ ScanInv)

\* What a purge leaves to be read, and by whom.
ToRead == {p \in scan.files : NeedsWork(rows', p, scan.rotated)}
Reader == IF Cardinality(ToRead) >= PARALLEL_THRESHOLD THEN "pool" ELSE "serial"

-----------------------------------------------------------------------------
(* What each step makes of the scan.                                       *)

\* The purge sorts the pictures into those with signatures and those to be read.
LEMMA PurgeDoes ==
  ASSUME ScanTyped, Purge
  PROVE  scan' = Scanning(Reader, ToRead, [p \in {} |-> 0], scan.files \ ToRead, scan.reading,
                          scan.failed, scan.lost, scan.truncated, scan.found)
<1> DEFINE newTodo == ToRead
           newPrepared == scan.files \ ToRead
           newPending == [p \in {} |-> 0]
           newStage == Reader
<1>1. scan' = [scan EXCEPT !.todo = newTodo, !.prepared = newPrepared, !.pending = newPending,
               !.stage = newStage]
  BY DEF Purge, ToRead, Reader
<1> HIDE DEF newTodo, newPrepared, newPending, newStage
<1>2. scan' = Scanning(newStage, newTodo, newPending, newPrepared, scan.reading, scan.failed,
                       scan.lost, scan.truncated, scan.found)
  BY <1>1 DEF ScanTyped, Scanning
<1> QED BY <1>2 DEF newTodo, newPrepared, newPending, newStage

\* A worker's result.
LEMMA ResultDoes ==
  ASSUME ScanTyped, NEW p, NEW works \in BOOLEAN, PoolResult(p, works)
  PROVE  scan' = Scanning(scan.stage, scan.todo \ {p},
                          IF works THEN [q \in DOMAIN scan.pending \cup {p} |->
                                           IF q = p THEN version[p] ELSE scan.pending[q]]
                          ELSE scan.pending,
                          IF works THEN scan.prepared \cup {p} ELSE scan.prepared,
                          scan.reading,
                          IF works THEN scan.failed ELSE scan.failed \cup {p},
                          scan.lost, scan.truncated, scan.found)
<1> DEFINE newTodo == scan.todo \ {p}
           newFailed == IF works THEN scan.failed ELSE scan.failed \cup {p}
           newPrepared == IF works THEN scan.prepared \cup {p} ELSE scan.prepared
           newPending == IF works THEN [q \in DOMAIN scan.pending \cup {p} |->
                                          IF q = p THEN version[p] ELSE scan.pending[q]]
                         ELSE scan.pending
<1>1. scan' = [scan EXCEPT !.todo = newTodo, !.failed = newFailed, !.prepared = newPrepared,
               !.pending = newPending]
  BY DEF PoolResult
<1> HIDE DEF newTodo, newFailed, newPrepared, newPending
<1>2. scan' = Scanning(scan.stage, newTodo, newPending, newPrepared, scan.reading, newFailed,
                       scan.lost, scan.truncated, scan.found)
  BY <1>1 DEF ScanTyped, Scanning
<1> QED BY <1>2 DEF newTodo, newFailed, newPrepared, newPending

\* A batch is written.
LEMMA WritesDoes ==
  ASSUME ScanTyped, PoolWrites
  PROVE  scan' = Scanning(scan.stage, scan.todo, [p \in {} |-> 0], scan.prepared, scan.reading,
                          scan.failed, scan.lost, scan.truncated, scan.found)
<1> DEFINE newPending == [p \in {} |-> 0]
<1>1. scan' = [scan EXCEPT !.pending = newPending]
  BY DEF PoolWrites
<1> HIDE DEF newPending
<1>2. scan' = Scanning(scan.stage, scan.todo, newPending, scan.prepared, scan.reading,
                       scan.failed, scan.lost, scan.truncated, scan.found)
  BY <1>1 DEF ScanTyped, Scanning
<1> QED BY <1>2 DEF newPending

\* The pool breaks.
LEMMA BreaksDoes ==
  ASSUME ScanTyped, PoolBreaks
  PROVE  scan' = Scanning("serial", scan.todo, [p \in {} |-> 0], scan.prepared, scan.reading,
                          scan.failed, DOMAIN scan.pending, scan.truncated, scan.found)
<1> DEFINE newPending == [p \in {} |-> 0]
           newLost == DOMAIN scan.pending
<1>1. scan' = [scan EXCEPT !.stage = "serial", !.pending = newPending, !.lost = newLost]
  BY DEF PoolBreaks, Rest
<1> HIDE DEF newPending, newLost
<1>2. scan' = Scanning("serial", scan.todo, newPending, scan.prepared, scan.reading, scan.failed,
                       newLost, scan.truncated, scan.found)
  BY <1>1 DEF ScanTyped, Scanning
<1> QED BY <1>2 DEF newPending, newLost

\* All is read.
LEMMA EndsDoes ==
  ASSUME ScanTyped, PoolEnds \/ SerialEnds
  PROVE  scan' = Scanning("compare", scan.todo, scan.pending, scan.prepared, scan.reading,
                          scan.failed, scan.lost, scan.truncated, scan.found)
<1>1. scan' = [scan EXCEPT !.stage = "compare"]
  BY DEF PoolEnds, SerialEnds
<1>2. scan' = Scanning("compare", scan.todo, scan.pending, scan.prepared, scan.reading,
                       scan.failed, scan.lost, scan.truncated, scan.found)
  BY <1>1 DEF ScanTyped, Scanning
<1> QED BY <1>2

\* A picture is read.
LEMMA ReadDoes ==
  ASSUME ScanTyped, NEW p, SerialRead(p)
  PROVE  scan' = Scanning(scan.stage, scan.todo \ {p}, scan.pending, scan.prepared,
                          <<p, version[p]>>, scan.failed, scan.lost, scan.truncated, scan.found)
<1> DEFINE newTodo == scan.todo \ {p}
           newReading == <<p, version[p]>>
<1>1. scan' = [scan EXCEPT !.todo = newTodo, !.reading = newReading]
  BY DEF SerialRead
<1> HIDE DEF newTodo, newReading
<1>2. scan' = Scanning(scan.stage, newTodo, scan.pending, scan.prepared, newReading, scan.failed,
                       scan.lost, scan.truncated, scan.found)
  BY <1>1 DEF ScanTyped, Scanning
<1> QED BY <1>2 DEF newTodo, newReading

\* A picture cannot be read.
LEMMA FailDoes ==
  ASSUME ScanTyped, NEW p,
         scan' = [scan EXCEPT !.todo = scan.todo \ {p}, !.failed = scan.failed \cup {p}]
  PROVE  scan' = Scanning(scan.stage, scan.todo \ {p}, scan.pending, scan.prepared, scan.reading,
                          scan.failed \cup {p}, scan.lost, scan.truncated, scan.found)
<1> DEFINE newTodo == scan.todo \ {p}
           newFailed == scan.failed \cup {p}
<1>1. scan' = [scan EXCEPT !.todo = newTodo, !.failed = newFailed]
  OBVIOUS
<1> HIDE DEF newTodo, newFailed
<1>2. scan' = Scanning(scan.stage, newTodo, scan.pending, scan.prepared, scan.reading, newFailed,
                       scan.lost, scan.truncated, scan.found)
  BY <1>1 DEF ScanTyped, Scanning
<1> QED BY <1>2 DEF newTodo, newFailed

\* The rest is not read, for lack of memory.
LEMMA TruncateDoes ==
  ASSUME ScanTyped, scan' = [scan EXCEPT !.todo = {}, !.truncated = TRUE]
  PROVE  scan' = Scanning(scan.stage, {}, scan.pending, scan.prepared, scan.reading, scan.failed,
                          scan.lost, TRUE, scan.found)
<1>1. scan' = [scan EXCEPT !.todo = {}, !.truncated = TRUE]
  OBVIOUS
<1>2. scan' = Scanning(scan.stage, {}, scan.pending, scan.prepared, scan.reading, scan.failed,
                       scan.lost, TRUE, scan.found)
  BY <1>1 DEF ScanTyped, Scanning
<1> QED BY <1>2

\* What was read is written.
LEMMA WriteDoes ==
  ASSUME ScanTyped, SerialWrites
  PROVE  scan' = Scanning(scan.stage, scan.todo, scan.pending,
                          scan.prepared \cup {scan.reading[1]}, None, scan.failed, scan.lost,
                            scan.truncated, scan.found)
<1> DEFINE newPrepared == scan.prepared \cup {scan.reading[1]}
<1>1. scan' = [scan EXCEPT !.reading = None, !.prepared = newPrepared]
  BY DEF SerialWrites
<1> HIDE DEF newPrepared
<1>2. scan' = Scanning(scan.stage, scan.todo, scan.pending, newPrepared, None, scan.failed,
                       scan.lost, scan.truncated, scan.found)
  BY <1>1 DEF ScanTyped, Scanning
<1> QED BY <1>2 DEF newPrepared

\* The comparison.
LEMMA CompareDoes ==
  ASSUME ScanTyped, Compare
  PROVE  scan' = Scanning("done", scan.todo, scan.pending, Compared, scan.reading, scan.failed,
                          scan.lost, scan.truncated, PairsFound)
<1> DEFINE newStage == "done"
           newFound == PairsFound
           newPrepared == Compared
<1>1. scan' = [scan EXCEPT !.stage = newStage, !.found = newFound, !.prepared = newPrepared]
  BY DEF Compare
<1> HIDE DEF newStage, newFound, newPrepared
<1>2. scan' = Scanning(newStage, scan.todo, scan.pending, newPrepared, scan.reading, scan.failed,
                       scan.lost, scan.truncated, newFound)
  BY <1>1 DEF ScanTyped, Scanning
<1> QED BY <1>2 DEF newStage, newFound, newPrepared

\* What the stored pairs rest on does not change with the world.
LEMMA SameMatches ==
  ASSUME MatchesHold, matches' = matches PROVE MatchesHold'
BY DEF MatchesHold

-----------------------------------------------------------------------------
(* What each step keeps.                                                   *)

\* No scan, no row and no stored match.
LEMMA PicturesStart == PicturesInit => PicturesInv
<1> SUFFICES ASSUME PicturesInit PROVE PicturesInv
  OBVIOUS
<1>1. WorldTyped
  <2>1. 1 \in 0..Versions
    BY PictureConstants
  <2> QED BY <2>1 DEF WorldTyped, PicturesInit
<1>2. MatchesHold
  BY DEF MatchesHold, AlikeIn, PicturesInit
<1> QED BY <1>1, <1>2 DEF PicturesInv, PicturesInit

\* A scan starts on the versions that are there; one that hits the match cache is done.
LEMMA StartKeeps ==
  ASSUME PicturesInv, NEW files \in SUBSET There, NEW refs, NEW rotated \in BOOLEAN, NEW combined,
         StartPictures(files, refs, rotated, combined)
  PROVE  PicturesInv'
<1> DEFINE key == Key(files, rotated)
           hit == ~combined /\ Hit(key)
<1>1. /\ scan' = [stage |-> IF hit THEN "done" ELSE "purge", files |-> files, refs |-> refs,
                  rotated |-> rotated, combined |-> combined, key |-> key, hit |-> hit,
                  began |-> version, todo |-> {}, pending |-> <<>>, prepared |-> {},
                  reading |-> None, failed |-> {}, lost |-> {}, truncated |-> FALSE,
                  found |-> IF hit THEN matches.pairs ELSE {}]
      /\ UNCHANGED <<version, rows, matches>>
  BY DEF StartPictures
<1>2. hit \in BOOLEAN /\ (hit => matches.key = key)
  BY DEF Hit
<1>3. key = <<{<<p, version[p]>> : p \in files}, rotated>>
  BY DEF Key
<1> HIDE DEF hit, key
<1>4. files \subseteq Picture /\ version \in [Picture -> 0..Versions]
  BY DEF There, PicturesInv, WorldTyped
<1>5. ScanTyped'
  <2>1. scan'.began = version /\ scan'.files = files /\ scan'.rotated = rotated /\ scan'.key = key
    BY <1>1
  <2>2. scan'.key = <<{<<p, scan'.began[p]>> : p \in scan'.files}, scan'.rotated>>
    BY <1>3, <2>1
  <2>3. scan'.stage \in Stage /\ scan'.hit \in BOOLEAN /\ scan'.todo = {} /\ scan'.prepared = {}
    BY <1>1, <1>2 DEF Stage
  <2>4. (scan = Scanning(scan.stage, scan.todo, scan.pending, scan.prepared, scan.reading,
                         scan.failed, scan.lost,
                         scan.truncated, scan.found))'
    BY <1>1 DEF Scanning
  <2> QED BY <1>4, <2>1, <2>2, <2>3, <2>4 DEF ScanTyped
<1>6. BeganBefore'
  BY <1>1, <1>4 DEF BeganBefore
<1>7. /\ HitIsStored'
      /\ (scan.stage = "purge" => scan.reading = None /\ scan.lost = {})'
      /\ (~scan.hit /\ scan.stage # "purge" => PurgedInv)'
  BY <1>1, <1>2 DEF HitIsStored
<1>8. WorldTyped' /\ MatchesHold'
  BY <1>1, SameMatches DEF PicturesInv, WorldTyped
<1> QED BY <1>5, <1>6, <1>7, <1>8 DEF PicturesInv, ScanInv

\* What a step that leaves versions, and the scan's inputs, as they are keeps.
LEMMA SameScan ==
  ASSUME ScanTyped, BeganBefore, scan'.stage \in Stage, scan'.todo \subseteq scan.files,
         scan'.prepared \subseteq scan.files, version' = version,
         scan' = Scanning(scan'.stage, scan'.todo, scan'.pending, scan'.prepared, scan'.reading,
                          scan'.failed, scan'.lost, scan'.truncated, scan'.found)
  PROVE  ScanTyped' /\ BeganBefore'
<1>1. /\ scan'.files = scan.files /\ scan'.hit = scan.hit /\ scan'.began = scan.began
      /\ scan'.key = scan.key /\ scan'.rotated = scan.rotated
  BY DEF Scanning
<1>2. (scan = Scanning(scan.stage, scan.todo, scan.pending, scan.prepared, scan.reading,
                       scan.failed, scan.lost,
                       scan.truncated, scan.found))'
  BY <1>1 DEF Scanning
<1>3. ScanTyped'
  BY <1>1, <1>2 DEF ScanTyped
<1>4. BeganBefore'
  BY <1>1 DEF BeganBefore
<1> QED BY <1>3, <1>4

\* What is left of the rows was read from the present version, or in the same second as an
\* edit.
LEMMA PurgeKeeps ==
  ASSUME WorldTyped, MatchesHold, ScanInv, Purge
  PROVE  WorldTyped' /\ MatchesHold' /\ ScanInv'
<1> DEFINE todo == ToRead
           stage == Reader
           none == [p \in {} |-> 0]
<1>1. scan' = Scanning(stage, todo, none, scan.files \ todo, scan.reading, scan.failed, scan.lost,
                       scan.truncated, scan.found)
  BY PurgeDoes DEF ScanInv
<1>2. stage \in {"pool", "serial"}
      /\ todo = {p \in scan.files : NeedsWork(rows', p, scan.rotated)}
      /\ DOMAIN none = {}
  BY DEF ToRead, Reader
<1> HIDE DEF todo, stage, none
<1>3. /\ ScanTyped' /\ BeganBefore'
      /\ scan'.stage = stage /\ scan'.todo = todo /\ scan'.pending = none
      /\ scan'.prepared = scan.files \ todo
      /\ scan'.reading = scan.reading /\ scan'.lost = scan.lost
      /\ scan'.files = scan.files /\ scan'.hit = scan.hit /\ scan'.began = scan.began
  <2>1. stage \in Stage /\ todo \subseteq scan.files /\ version' = version
    BY <1>2 DEF Stage, Purge
  <2>2. /\ scan'.stage = stage /\ scan'.todo = todo /\ scan'.pending = none
        /\ scan'.prepared = scan.files \ todo
        /\ scan'.reading = scan.reading /\ scan'.lost = scan.lost
        /\ scan'.files = scan.files /\ scan'.hit = scan.hit /\ scan'.began = scan.began
        /\ scan' = Scanning(scan'.stage, scan'.todo, scan'.pending, scan'.prepared,
                            scan'.reading, scan'.failed, scan'.lost, scan'.truncated,
                            scan'.found)
    BY <1>1 DEF Scanning
  <2>3. ScanTyped /\ BeganBefore
    BY DEF ScanInv
  <2>4. ScanTyped' /\ BeganBefore'
    BY <2>1, <2>2, <2>3, SameScan
  <2> QED BY <2>2, <2>4
<1>4. UNCHANGED <<version, matches>> /\ scan.stage = "purge" /\ scan.files \subseteq Picture
      /\ version \in [Picture -> 0..Versions] /\ scan.began \in [Picture -> 0..Versions]
  BY DEF Purge, ScanInv, ScanTyped, WorldTyped
<1>5. \A p \in Picture :
        \/ rows'[p] = None
        \/ rows'[p] = rows[p] /\ rows[p] # None /\ ~Outdated(p)
  BY DEF Purge, PurgeOutdated
<1>6. WorldTyped'
  <2>1. DOMAIN rows' = Picture
    BY DEF Purge, PurgeOutdated
  <2> QED BY <1>4, <1>5, <2>1 DEF WorldTyped
<1>7. MatchesHold'
  <2>1. matches' = matches
    BY <1>4
  <2> QED BY <2>1, SameMatches
<1>8. ~scan.hit /\ HitIsStored'
  BY <1>3, <1>4 DEF ScanInv, HitIsStored
<1>9. RowsHold'
  <2> SUFFICES ASSUME NEW p \in scan.files, rows'[p] # None PROVE Fresh(p)'
    BY <1>3 DEF RowsHold
  <2>1. p \in Picture /\ rows'[p] = rows[p] /\ rows[p] \in RowSet
    BY <1>4, <1>5 DEF WorldTyped
  <2>2. rows[p].unit = "seconds" => version[p] # 0 /\ ~(version[p] > rows[p].stamp)
    BY <1>4, <1>5, <2>1 DEF Outdated
  <2>3. version[p] = 0 \/ scan.began[p] <= version[p]
    BY <2>1 DEF ScanInv, BeganBefore
  <2>4. rows[p].read \in Nat /\ rows[p].stamp \in Nat /\ version[p] \in Nat
          /\ scan.began[p] \in Nat
    BY <1>4, <2>1 DEF RowSet
  <2>5. rows[p].unit = "seconds" => rows[p].read >= scan.began[p] \/ rows[p].read < rows[p].stamp
    BY <2>2, <2>3, <2>4
  <2> QED BY <1>3, <2>1, <2>5 DEF Fresh
<1>10. Accounted' /\ PreparedHaveRows'
  BY <1>2, <1>3 DEF Accounted, PreparedHaveRows, NeedsWork
<1>11. PendingTyped'
  BY <1>2, <1>3, FS_EmptySet DEF PendingTyped
<1>12. ReadingTyped'
  BY <1>2, <1>3, <1>4 DEF ReadingTyped, ScanInv
<1> QED BY <1>2, <1>3, <1>6, <1>7, <1>8, <1>9, <1>10, <1>11, <1>12 DEF ScanInv, PurgedInv

\* A purged scan in a given stage, not a hit.
LEMMA ActiveScan ==
  ASSUME WorldTyped, ScanInv, scan.stage \in {"pool", "serial", "compare"}
  PROVE  /\ ~scan.hit /\ PurgedInv /\ scan.files \subseteq Picture /\ ScanTyped /\ BeganBefore
         /\ scan.todo \subseteq scan.files /\ scan.prepared \subseteq scan.files
         /\ scan.began \in [Picture -> 0..Versions] /\ version \in [Picture -> 0..Versions]
BY DEF ScanInv, ScanTyped, WorldTyped, HitIsStored

\* A picture that is read waits for its row; one that is not has failed.
LEMMA ResultKeeps ==
  ASSUME WorldTyped, MatchesHold, ScanInv, NEW p \in Picture, NEW works \in BOOLEAN,
         PoolResult(p, works)
  PROVE  WorldTyped' /\ MatchesHold' /\ ScanInv'
<1> DEFINE failed == IF works THEN scan.failed ELSE scan.failed \cup {p}
           prepared == IF works THEN scan.prepared \cup {p} ELSE scan.prepared
           pending == IF works THEN [q \in DOMAIN scan.pending \cup {p} |->
                                       IF q = p THEN version[p] ELSE scan.pending[q]]
                      ELSE scan.pending
<1>1. /\ scan.stage = "pool" /\ p \in scan.todo /\ (works => version[p] > 0)
      /\ UNCHANGED <<version, rows, matches>>
  BY DEF PoolResult
<1>2. scan' = Scanning(scan.stage, scan.todo \ {p}, pending, prepared, scan.reading, failed,
                       scan.lost, scan.truncated, scan.found)
  BY ResultDoes DEF ScanInv
<1>3. /\ ~scan.hit /\ PurgedInv /\ scan.files \subseteq Picture /\ ScanTyped /\ BeganBefore
      /\ scan.todo \subseteq scan.files /\ scan.prepared \subseteq scan.files
      /\ scan.began \in [Picture -> 0..Versions] /\ version \in [Picture -> 0..Versions]
  BY <1>1, ActiveScan
<1>4. /\ works => /\ failed = scan.failed /\ prepared = scan.prepared \cup {p}
                  /\ DOMAIN pending = DOMAIN scan.pending \cup {p} /\ pending[p] = version[p]
                  /\ \A q \in DOMAIN scan.pending : q # p => pending[q] = scan.pending[q]
      /\ ~works => failed = scan.failed \cup {p} /\ prepared = scan.prepared
         /\ pending = scan.pending
  OBVIOUS
<1> HIDE DEF failed, prepared, pending
<1>5. /\ ScanTyped' /\ BeganBefore'
      /\ scan'.stage = "pool" /\ scan'.todo = scan.todo \ {p} /\ scan'.pending = pending
      /\ scan'.prepared = prepared /\ scan'.reading = scan.reading /\ scan'.failed = failed
      /\ scan'.lost = scan.lost /\ scan'.truncated = scan.truncated
      /\ scan'.files = scan.files /\ scan'.hit = scan.hit /\ scan'.began = scan.began
  <2>1. scan.stage \in Stage /\ scan.todo \ {p} \subseteq scan.files
        /\ prepared \subseteq scan.files
    BY <1>1, <1>3, <1>4 DEF Stage
  <2>2. /\ scan'.stage = "pool" /\ scan'.todo = scan.todo \ {p} /\ scan'.pending = pending
        /\ scan'.prepared = prepared /\ scan'.reading = scan.reading /\ scan'.failed = failed
        /\ scan'.lost = scan.lost /\ scan'.truncated = scan.truncated
        /\ scan'.files = scan.files /\ scan'.hit = scan.hit /\ scan'.began = scan.began
        /\ scan' = Scanning(scan'.stage, scan'.todo, scan'.pending, scan'.prepared,
                            scan'.reading, scan'.failed, scan'.lost, scan'.truncated,
                            scan'.found)
    BY <1>1, <1>2 DEF Scanning
  <2>3. ScanTyped' /\ BeganBefore'
    BY <1>1, <1>3, <2>1, <2>2, SameScan
  <2> QED BY <2>2, <2>3
<1>6. WorldTyped' /\ MatchesHold'
  BY <1>1, SameMatches DEF WorldTyped
<1>7. HitIsStored'
  BY <1>3, <1>5 DEF HitIsStored
<1>8. RowsHold'
  BY <1>1, <1>3, <1>5 DEF PurgedInv, RowsHold, Fresh
<1>9. Accounted'
  BY <1>1, <1>3, <1>4, <1>5 DEF PurgedInv, Accounted
<1>10. PreparedHaveRows'
  BY <1>1, <1>3, <1>4, <1>5 DEF PurgedInv, PreparedHaveRows
<1>11. PendingTyped'
  <2>1. IsFiniteSet(DOMAIN pending)
    BY <1>3, <1>4, FS_AddElement DEF PurgedInv, PendingTyped
  <2>2. works => version[p] \in 1..Versions
    BY <1>1, <1>3
  <2> QED BY <1>1, <1>3, <1>4, <1>5, <2>1, <2>2 DEF PurgedInv, PendingTyped
<1>12. ReadingTyped'
  BY <1>1, <1>3, <1>5 DEF PurgedInv, ReadingTyped
<1> QED BY <1>3, <1>5, <1>6, <1>7, <1>8, <1>9, <1>10, <1>11, <1>12 DEF ScanInv, PurgedInv

\* The row a picture's signatures make.
LEMMA NewRow ==
  ASSUME NEW p \in Picture, version \in [Picture -> 0..Versions], NEW read \in 1..Versions,
         NEW rotated, NEW unit \in {"seconds", "ns"}, NEW row,
         row = [slots |-> Slots(p, rotated), read |-> read, stamp |-> version[p], unit |-> unit]
  PROVE  row \in RowSet /\ row.read = read /\ row.read > 0 /\ row.unit = unit /\ row # None
<1>1. Slots(p, rotated) \in {"all", "other", "first"}
  BY DEF Slots
<1>2. row \in RowSet
  BY <1>1 DEF RowSet
<1>3. None \notin RowSet
  BY PictureConstants DEF RowSet
<1> QED BY <1>2, <1>3

\* What the pool had not written is lost.
LEMMA BreaksKeeps ==
  ASSUME WorldTyped, MatchesHold, ScanInv, PoolBreaks
  PROVE  WorldTyped' /\ MatchesHold' /\ ScanInv'
<1>1. scan.stage = "pool" /\ UNCHANGED <<version, rows, matches>>
  BY DEF PoolBreaks
<1>2. scan' = Scanning("serial", scan.todo, [p \in {} |-> 0], scan.prepared, scan.reading,
                       scan.failed, DOMAIN scan.pending, scan.truncated, scan.found)
  BY BreaksDoes DEF ScanInv
<1>3. /\ ~scan.hit /\ PurgedInv /\ scan.files \subseteq Picture /\ ScanTyped /\ BeganBefore
      /\ scan.todo \subseteq scan.files /\ scan.prepared \subseteq scan.files
      /\ scan.began \in [Picture -> 0..Versions] /\ version \in [Picture -> 0..Versions]
  BY <1>1, ActiveScan
<1>4. /\ ScanTyped' /\ BeganBefore'
      /\ scan'.stage = "serial" /\ scan'.todo = scan.todo
      /\ scan'.pending = [p \in {} |-> 0] /\ scan'.prepared = scan.prepared
      /\ scan'.reading = scan.reading /\ scan'.failed = scan.failed
      /\ scan'.lost = DOMAIN scan.pending /\ scan'.truncated = scan.truncated
      /\ scan'.found = scan.found
      /\ scan'.files = scan.files /\ scan'.hit = scan.hit /\ scan'.began = scan.began
  <2>1. "serial" \in Stage /\ scan.todo \subseteq scan.files
        /\ scan.prepared \subseteq scan.files
    BY <1>1, <1>3 DEF Stage
  <2>2. /\ scan'.stage = "serial" /\ scan'.todo = scan.todo
        /\ scan'.pending = [p \in {} |-> 0] /\ scan'.prepared = scan.prepared
        /\ scan'.reading = scan.reading /\ scan'.failed = scan.failed
        /\ scan'.lost = DOMAIN scan.pending /\ scan'.truncated = scan.truncated
        /\ scan'.found = scan.found
        /\ scan'.files = scan.files /\ scan'.hit = scan.hit /\ scan'.began = scan.began
        /\ scan' = Scanning(scan'.stage, scan'.todo, scan'.pending, scan'.prepared,
                            scan'.reading, scan'.failed, scan'.lost, scan'.truncated,
                            scan'.found)
    BY <1>1, <1>2 DEF Scanning
  <2>3. ScanTyped' /\ BeganBefore'
    BY <1>1, <1>3, <2>1, <2>2, SameScan
  <2> QED BY <2>2, <2>3
<1>5. HitIsStored'
  BY <1>3, <1>4 DEF HitIsStored
<1>6. WorldTyped' /\ MatchesHold'
  BY <1>1, SameMatches DEF WorldTyped
<1>7. RowsHold'
  BY <1>1, <1>3, <1>4 DEF PurgedInv, RowsHold, Fresh
<1>8. Accounted'
  BY <1>1, <1>3, <1>4 DEF PurgedInv, Accounted, ReadingTyped
<1>9. PreparedHaveRows'
  BY <1>1, <1>3, <1>4 DEF PurgedInv, PreparedHaveRows, ReadingTyped
<1>10. PendingTyped'
  BY <1>1, <1>3, <1>4, FS_EmptySet DEF PurgedInv, PendingTyped, Waiting
<1>11. ReadingTyped'
  BY <1>1, <1>3, <1>4 DEF PurgedInv, ReadingTyped
<1> QED BY <1>1, <1>3, <1>4, <1>5, <1>6, <1>7, <1>8, <1>9, <1>10, <1>11 DEF ScanInv, PurgedInv

\* Nothing is left to be read or written.
LEMMA EndsKeeps ==
  ASSUME WorldTyped, MatchesHold, ScanInv, PoolEnds \/ SerialEnds
  PROVE  WorldTyped' /\ MatchesHold' /\ ScanInv'
<1>1. scan.stage \in {"pool", "serial"} /\ scan.todo = {}
      /\ (scan.stage = "pool" => Waiting = 0) /\ (scan.stage = "serial" => scan.reading = None)
         /\ UNCHANGED <<version, rows, matches>>
  BY DEF PoolEnds, SerialEnds
<1>2. scan' = Scanning("compare", scan.todo, scan.pending, scan.prepared, scan.reading,
                       scan.failed, scan.lost, scan.truncated, scan.found)
  BY EndsDoes DEF ScanInv
<1>3. /\ ~scan.hit /\ PurgedInv /\ scan.files \subseteq Picture /\ ScanTyped /\ BeganBefore
      /\ scan.todo \subseteq scan.files /\ scan.prepared \subseteq scan.files
      /\ scan.began \in [Picture -> 0..Versions] /\ version \in [Picture -> 0..Versions]
  BY <1>1, ActiveScan
<1>4. /\ ScanTyped' /\ BeganBefore'
      /\ scan'.stage = "compare" /\ scan'.todo = scan.todo
      /\ scan'.pending = scan.pending /\ scan'.prepared = scan.prepared
      /\ scan'.reading = scan.reading /\ scan'.failed = scan.failed
      /\ scan'.lost = scan.lost /\ scan'.truncated = scan.truncated
      /\ scan'.found = scan.found
      /\ scan'.files = scan.files /\ scan'.hit = scan.hit /\ scan'.began = scan.began
  <2>1. "compare" \in Stage /\ scan.todo \subseteq scan.files
        /\ scan.prepared \subseteq scan.files
    BY <1>1, <1>3 DEF Stage
  <2>2. /\ scan'.stage = "compare" /\ scan'.todo = scan.todo
        /\ scan'.pending = scan.pending /\ scan'.prepared = scan.prepared
        /\ scan'.reading = scan.reading /\ scan'.failed = scan.failed
        /\ scan'.lost = scan.lost /\ scan'.truncated = scan.truncated
        /\ scan'.found = scan.found
        /\ scan'.files = scan.files /\ scan'.hit = scan.hit /\ scan'.began = scan.began
        /\ scan' = Scanning(scan'.stage, scan'.todo, scan'.pending, scan'.prepared,
                            scan'.reading, scan'.failed, scan'.lost, scan'.truncated,
                            scan'.found)
    BY <1>1, <1>2 DEF Scanning
  <2>3. ScanTyped' /\ BeganBefore'
    BY <1>1, <1>3, <2>1, <2>2, SameScan
  <2> QED BY <2>2, <2>3
<1>5. HitIsStored'
  BY <1>3, <1>4 DEF HitIsStored
<1>6. WorldTyped' /\ MatchesHold'
  BY <1>1, SameMatches DEF WorldTyped
<1>7. RowsHold'
  BY <1>1, <1>3, <1>4 DEF PurgedInv, RowsHold, Fresh
<1>8. Accounted'
  BY <1>1, <1>3, <1>4 DEF PurgedInv, Accounted, ReadingTyped
<1>9. PreparedHaveRows'
  BY <1>1, <1>3, <1>4 DEF PurgedInv, PreparedHaveRows, ReadingTyped
<1>10. PendingTyped'
  BY <1>1, <1>3, <1>4, FS_EmptySet DEF PurgedInv, PendingTyped, Waiting
<1>11. ReadingTyped'
  BY <1>1, <1>3, <1>4 DEF PurgedInv, ReadingTyped
<1> QED BY <1>1, <1>3, <1>4, <1>5, <1>6, <1>7, <1>8, <1>9, <1>10, <1>11 DEF ScanInv, PurgedInv

\* What is read is what the picture shows now, not before the scan began.
LEMMA ReadKeeps ==
  ASSUME WorldTyped, MatchesHold, ScanInv, NEW p \in Picture, SerialRead(p)
  PROVE  WorldTyped' /\ MatchesHold' /\ ScanInv'
<1>1. scan.stage = "serial" /\ p \in scan.todo /\ scan.reading = None /\ version[p] > 0
      /\ UNCHANGED <<version, rows, matches>>
  BY DEF SerialRead
<1>2. scan' = Scanning(scan.stage, (scan.todo \ {p}), scan.pending, scan.prepared,
                       <<p, version[p]>>, scan.failed, scan.lost, scan.truncated, scan.found)
  BY ReadDoes DEF ScanInv
<1>3. /\ ~scan.hit /\ PurgedInv /\ scan.files \subseteq Picture /\ ScanTyped /\ BeganBefore
      /\ scan.todo \subseteq scan.files /\ scan.prepared \subseteq scan.files
      /\ scan.began \in [Picture -> 0..Versions] /\ version \in [Picture -> 0..Versions]
  BY <1>1, ActiveScan
<1>12. /\ <<p, version[p]>> # None /\ <<p, version[p]>>[1] = p
            /\ <<p, version[p]>>[2] = version[p]
       /\ <<p, version[p]>> \in Picture \X (1..Versions) /\ version[p] >= scan.began[p]
  <2>1. version[p] \in 0..Versions /\ version[p] > 0
        /\ (version[p] = 0 \/ scan.began[p] <= version[p])
    BY <1>1, <1>3 DEF BeganBefore
  <2>2. version[p] \in 1..Versions /\ version[p] >= scan.began[p]
    BY <1>3, <2>1
  <2>3. <<p, version[p]>> \in Picture \X (0..Versions)
        /\ <<p, version[p]>> \in Picture \X (1..Versions)
    BY <2>1, <2>2
  <2> QED BY <2>2, <2>3, PictureConstants
<1>4. /\ ScanTyped' /\ BeganBefore'
      /\ scan'.stage = scan.stage /\ scan'.todo = (scan.todo \ {p})
      /\ scan'.pending = scan.pending /\ scan'.prepared = scan.prepared
      /\ scan'.reading = <<p, version[p]>> /\ scan'.failed = scan.failed
      /\ scan'.lost = scan.lost /\ scan'.truncated = scan.truncated
      /\ scan'.found = scan.found
      /\ scan'.files = scan.files /\ scan'.hit = scan.hit /\ scan'.began = scan.began
  <2>1. scan.stage \in Stage /\ (scan.todo \ {p}) \subseteq scan.files
        /\ scan.prepared \subseteq scan.files
    BY <1>1, <1>3 DEF Stage
  <2>2. /\ scan'.stage = scan.stage /\ scan'.todo = (scan.todo \ {p})
        /\ scan'.pending = scan.pending /\ scan'.prepared = scan.prepared
        /\ scan'.reading = <<p, version[p]>> /\ scan'.failed = scan.failed
        /\ scan'.lost = scan.lost /\ scan'.truncated = scan.truncated
        /\ scan'.found = scan.found
        /\ scan'.files = scan.files /\ scan'.hit = scan.hit /\ scan'.began = scan.began
        /\ scan' = Scanning(scan'.stage, scan'.todo, scan'.pending, scan'.prepared,
                            scan'.reading, scan'.failed, scan'.lost, scan'.truncated,
                            scan'.found)
    BY <1>1, <1>2 DEF Scanning
  <2>3. ScanTyped' /\ BeganBefore'
    BY <1>1, <1>3, <2>1, <2>2, SameScan
  <2> QED BY <2>2, <2>3
<1>5. HitIsStored'
  BY <1>3, <1>4 DEF HitIsStored
<1>6. WorldTyped' /\ MatchesHold'
  BY <1>1, SameMatches DEF WorldTyped
<1>7. RowsHold'
  BY <1>1, <1>3, <1>4 DEF PurgedInv, RowsHold, Fresh
<1>8. Accounted'
  BY <1>1, <1>3, <1>4, <1>12 DEF PurgedInv, Accounted, ReadingTyped
<1>9. PreparedHaveRows'
  BY <1>1, <1>3, <1>4, <1>12 DEF PurgedInv, PreparedHaveRows, ReadingTyped
<1>10. PendingTyped'
  BY <1>1, <1>3, <1>4, FS_EmptySet DEF PurgedInv, PendingTyped, Waiting
<1>11. ReadingTyped'
  BY <1>1, <1>3, <1>4, <1>12 DEF PurgedInv, ReadingTyped
<1> QED BY <1>1, <1>3, <1>4, <1>5, <1>6, <1>7, <1>8, <1>9, <1>10, <1>11 DEF ScanInv, PurgedInv

\* A picture that cannot be read has failed.
LEMMA FailKeeps ==
  ASSUME WorldTyped, MatchesHold, ScanInv, NEW p \in Picture, SerialFails(p),
         scan' = [scan EXCEPT !.todo = scan.todo \ {p}, !.failed = scan.failed \cup {p}]
  PROVE  WorldTyped' /\ MatchesHold' /\ ScanInv'
<1>1. scan.stage = "serial" /\ p \in scan.todo /\ scan.reading = None
      /\ UNCHANGED <<version, rows, matches>>
  BY DEF SerialFails
<1>2. scan' = Scanning(scan.stage, (scan.todo \ {p}), scan.pending, scan.prepared, scan.reading,
                       (scan.failed \cup {p}), scan.lost, scan.truncated, scan.found)
  BY FailDoes DEF ScanInv
<1>3. /\ ~scan.hit /\ PurgedInv /\ scan.files \subseteq Picture /\ ScanTyped /\ BeganBefore
      /\ scan.todo \subseteq scan.files /\ scan.prepared \subseteq scan.files
      /\ scan.began \in [Picture -> 0..Versions] /\ version \in [Picture -> 0..Versions]
  BY <1>1, ActiveScan
<1>4. /\ ScanTyped' /\ BeganBefore'
      /\ scan'.stage = scan.stage /\ scan'.todo = (scan.todo \ {p})
      /\ scan'.pending = scan.pending /\ scan'.prepared = scan.prepared
      /\ scan'.reading = scan.reading /\ scan'.failed = (scan.failed \cup {p})
      /\ scan'.lost = scan.lost /\ scan'.truncated = scan.truncated
      /\ scan'.found = scan.found
      /\ scan'.files = scan.files /\ scan'.hit = scan.hit /\ scan'.began = scan.began
  <2>1. scan.stage \in Stage /\ (scan.todo \ {p}) \subseteq scan.files
        /\ scan.prepared \subseteq scan.files
    BY <1>1, <1>3 DEF Stage
  <2>2. /\ scan'.stage = scan.stage /\ scan'.todo = (scan.todo \ {p})
        /\ scan'.pending = scan.pending /\ scan'.prepared = scan.prepared
        /\ scan'.reading = scan.reading /\ scan'.failed = (scan.failed \cup {p})
        /\ scan'.lost = scan.lost /\ scan'.truncated = scan.truncated
        /\ scan'.found = scan.found
        /\ scan'.files = scan.files /\ scan'.hit = scan.hit /\ scan'.began = scan.began
        /\ scan' = Scanning(scan'.stage, scan'.todo, scan'.pending, scan'.prepared,
                            scan'.reading, scan'.failed, scan'.lost, scan'.truncated,
                            scan'.found)
    BY <1>1, <1>2 DEF Scanning
  <2>3. ScanTyped' /\ BeganBefore'
    BY <1>1, <1>3, <2>1, <2>2, SameScan
  <2> QED BY <2>2, <2>3
<1>5. HitIsStored'
  BY <1>3, <1>4 DEF HitIsStored
<1>6. WorldTyped' /\ MatchesHold'
  BY <1>1, SameMatches DEF WorldTyped
<1>7. RowsHold'
  BY <1>1, <1>3, <1>4 DEF PurgedInv, RowsHold, Fresh
<1>8. Accounted'
  BY <1>1, <1>3, <1>4 DEF PurgedInv, Accounted, ReadingTyped
<1>9. PreparedHaveRows'
  BY <1>1, <1>3, <1>4 DEF PurgedInv, PreparedHaveRows, ReadingTyped
<1>10. PendingTyped'
  BY <1>1, <1>3, <1>4, FS_EmptySet DEF PurgedInv, PendingTyped, Waiting
<1>11. ReadingTyped'
  BY <1>1, <1>3, <1>4 DEF PurgedInv, ReadingTyped
<1> QED BY <1>1, <1>3, <1>4, <1>5, <1>6, <1>7, <1>8, <1>9, <1>10, <1>11 DEF ScanInv, PurgedInv

\* Truncated, the scan accounts for nothing.
LEMMA TruncateKeeps ==
  ASSUME WorldTyped, MatchesHold, ScanInv, NEW p \in Picture, SerialFails(p),
         scan' = [scan EXCEPT !.todo = {}, !.truncated = TRUE]
  PROVE  WorldTyped' /\ MatchesHold' /\ ScanInv'
<1>1. scan.stage = "serial" /\ p \in scan.todo /\ scan.reading = None
      /\ UNCHANGED <<version, rows, matches>>
  BY DEF SerialFails
<1>2. scan' = Scanning(scan.stage, {}, scan.pending, scan.prepared, scan.reading, scan.failed,
                       scan.lost, TRUE, scan.found)
  BY TruncateDoes DEF ScanInv
<1>3. /\ ~scan.hit /\ PurgedInv /\ scan.files \subseteq Picture /\ ScanTyped /\ BeganBefore
      /\ scan.todo \subseteq scan.files /\ scan.prepared \subseteq scan.files
      /\ scan.began \in [Picture -> 0..Versions] /\ version \in [Picture -> 0..Versions]
  BY <1>1, ActiveScan
<1>4. /\ ScanTyped' /\ BeganBefore'
      /\ scan'.stage = scan.stage /\ scan'.todo = {}
      /\ scan'.pending = scan.pending /\ scan'.prepared = scan.prepared
      /\ scan'.reading = scan.reading /\ scan'.failed = scan.failed
      /\ scan'.lost = scan.lost /\ scan'.truncated = TRUE
      /\ scan'.found = scan.found
      /\ scan'.files = scan.files /\ scan'.hit = scan.hit /\ scan'.began = scan.began
  <2>1. scan.stage \in Stage /\ {} \subseteq scan.files
        /\ scan.prepared \subseteq scan.files
    BY <1>1, <1>3 DEF Stage
  <2>2. /\ scan'.stage = scan.stage /\ scan'.todo = {}
        /\ scan'.pending = scan.pending /\ scan'.prepared = scan.prepared
        /\ scan'.reading = scan.reading /\ scan'.failed = scan.failed
        /\ scan'.lost = scan.lost /\ scan'.truncated = TRUE
        /\ scan'.found = scan.found
        /\ scan'.files = scan.files /\ scan'.hit = scan.hit /\ scan'.began = scan.began
        /\ scan' = Scanning(scan'.stage, scan'.todo, scan'.pending, scan'.prepared,
                            scan'.reading, scan'.failed, scan'.lost, scan'.truncated,
                            scan'.found)
    BY <1>1, <1>2 DEF Scanning
  <2>3. ScanTyped' /\ BeganBefore'
    BY <1>1, <1>3, <2>1, <2>2, SameScan
  <2> QED BY <2>2, <2>3
<1>5. HitIsStored'
  BY <1>3, <1>4 DEF HitIsStored
<1>6. WorldTyped' /\ MatchesHold'
  BY <1>1, SameMatches DEF WorldTyped
<1>7. RowsHold'
  BY <1>1, <1>3, <1>4 DEF PurgedInv, RowsHold, Fresh
<1>8. Accounted'
  BY <1>1, <1>3, <1>4 DEF PurgedInv, Accounted, ReadingTyped
<1>9. PreparedHaveRows'
  BY <1>1, <1>3, <1>4 DEF PurgedInv, PreparedHaveRows, ReadingTyped
<1>10. PendingTyped'
  BY <1>1, <1>3, <1>4, FS_EmptySet DEF PurgedInv, PendingTyped, Waiting
<1>11. ReadingTyped'
  BY <1>1, <1>3, <1>4 DEF PurgedInv, ReadingTyped
<1> QED BY <1>1, <1>3, <1>4, <1>5, <1>6, <1>7, <1>8, <1>9, <1>10, <1>11 DEF ScanInv, PurgedInv

\* The rows of a batch are there, with the time in nanoseconds.
LEMMA PoolWritesKeeps ==
  ASSUME WorldTyped, MatchesHold, ScanInv, PoolWrites
  PROVE  WorldTyped' /\ MatchesHold' /\ ScanInv'
<1>1. scan.stage = "pool" /\ rows' = SetBlocksRawMany(scan.pending, scan.rotated)
      /\ UNCHANGED <<version, matches>>
  BY DEF PoolWrites
<1>2. scan' = Scanning(scan.stage, scan.todo, [p \in {} |-> 0], scan.prepared, scan.reading,
                       scan.failed, scan.lost, scan.truncated, scan.found)
  BY WritesDoes DEF ScanInv
<1>3. /\ ~scan.hit /\ PurgedInv /\ scan.files \subseteq Picture /\ ScanTyped /\ BeganBefore
      /\ scan.todo \subseteq scan.files /\ scan.prepared \subseteq scan.files
      /\ scan.began \in [Picture -> 0..Versions] /\ version \in [Picture -> 0..Versions]
  BY <1>1, ActiveScan
<1>4. /\ ScanTyped' /\ BeganBefore'
      /\ scan'.stage = scan.stage /\ scan'.todo = scan.todo
      /\ scan'.pending = [p \in {} |-> 0] /\ scan'.prepared = scan.prepared
      /\ scan'.reading = scan.reading /\ scan'.failed = scan.failed
      /\ scan'.lost = scan.lost /\ scan'.truncated = scan.truncated
      /\ scan'.found = scan.found
      /\ scan'.files = scan.files /\ scan'.hit = scan.hit /\ scan'.began = scan.began
  <2>1. scan.stage \in Stage /\ scan.todo \subseteq scan.files
        /\ scan.prepared \subseteq scan.files
    BY <1>1, <1>3 DEF Stage
  <2>2. /\ scan'.stage = scan.stage /\ scan'.todo = scan.todo
        /\ scan'.pending = [p \in {} |-> 0] /\ scan'.prepared = scan.prepared
        /\ scan'.reading = scan.reading /\ scan'.failed = scan.failed
        /\ scan'.lost = scan.lost /\ scan'.truncated = scan.truncated
        /\ scan'.found = scan.found
        /\ scan'.files = scan.files /\ scan'.hit = scan.hit /\ scan'.began = scan.began
        /\ scan' = Scanning(scan'.stage, scan'.todo, scan'.pending, scan'.prepared,
                            scan'.reading, scan'.failed, scan'.lost, scan'.truncated,
                            scan'.found)
    BY <1>1, <1>2 DEF Scanning
  <2>3. ScanTyped' /\ BeganBefore'
    BY <1>1, <1>3, <2>1, <2>2, SameScan
  <2> QED BY <2>2, <2>3
<1>5. HitIsStored'
  BY <1>3, <1>4 DEF HitIsStored
<1>12. /\ DOMAIN rows' = Picture
       /\ \A p \in Picture :
            IF p \in DOMAIN scan.pending
            THEN /\ rows'[p] \in RowSet /\ rows'[p].read > 0 /\ rows'[p] # None
                 /\ rows'[p].unit = "ns"
            ELSE rows'[p] = rows[p]
  <2>1. DOMAIN rows' = Picture
    BY <1>1 DEF SetBlocksRawMany
  <2> SUFFICES ASSUME NEW p \in Picture
               PROVE  IF p \in DOMAIN scan.pending
                      THEN /\ rows'[p] \in RowSet /\ rows'[p].read > 0 /\ rows'[p] # None
                           /\ rows'[p].unit = "ns"
                      ELSE rows'[p] = rows[p]
    BY <2>1
  <2>2. CASE p \notin DOMAIN scan.pending
    BY <1>1, <2>2 DEF SetBlocksRawMany
  <2>3. CASE p \in DOMAIN scan.pending
    <3>1. scan.pending[p] \in 1..Versions
      BY <1>3, <2>3 DEF PurgedInv, PendingTyped
    <3>2. rows'[p] = [slots |-> Slots(p, scan.rotated), read |-> scan.pending[p],
                      stamp |-> version[p], unit |-> "ns"]
      BY <1>1, <2>3 DEF SetBlocksRawMany
    <3>3. p \in Picture /\ "ns" \in {"seconds", "ns"} /\ version \in [Picture -> 0..Versions]
      BY <1>3
    <3>4. rows'[p] \in RowSet /\ rows'[p].read > 0 /\ rows'[p] # None /\ rows'[p].unit = "ns"
      BY <3>1, <3>2, <3>3, NewRow
    <3> QED BY <2>3, <3>4
  <2> QED BY <2>2, <2>3
<1>6. WorldTyped' /\ MatchesHold'
  BY <1>1, <1>12, SameMatches DEF WorldTyped
<1>7. RowsHold'
  BY <1>3, <1>4, <1>12 DEF PurgedInv, RowsHold, Fresh
<1>8. Accounted'
  BY <1>1, <1>3, <1>4 DEF PurgedInv, Accounted
<1>9. PreparedHaveRows'
  BY <1>3, <1>4, <1>12 DEF PurgedInv, PreparedHaveRows
<1>10. PendingTyped'
  BY <1>1, <1>3, <1>4, FS_EmptySet DEF PurgedInv, PendingTyped
<1>11. ReadingTyped'
  BY <1>1, <1>3, <1>4 DEF PurgedInv, ReadingTyped
<1> QED BY <1>1, <1>3, <1>4, <1>5, <1>6, <1>7, <1>8, <1>9, <1>10, <1>11 DEF ScanInv, PurgedInv

\* The row of what was read in this scan is there.
LEMMA WriteKeeps ==
  ASSUME WorldTyped, MatchesHold, ScanInv, SerialWrites
  PROVE  WorldTyped' /\ MatchesHold' /\ ScanInv'
<1>1. scan.stage = "serial" /\ scan.reading # None
      /\ rows' = [rows EXCEPT ![scan.reading[1]] =
                    SetItem(scan.reading[1], scan.reading[2], scan.rotated)]
      /\ UNCHANGED <<version, matches>>
  BY DEF SerialWrites, In
<1>2. scan' = Scanning(scan.stage, scan.todo, scan.pending,
                       (scan.prepared \cup {scan.reading[1]}), None, scan.failed, scan.lost,
                         scan.truncated, scan.found)
  BY WriteDoes DEF ScanInv
<1>3. /\ ~scan.hit /\ PurgedInv /\ scan.files \subseteq Picture /\ ScanTyped /\ BeganBefore
      /\ scan.todo \subseteq scan.files /\ scan.prepared \subseteq scan.files
      /\ scan.began \in [Picture -> 0..Versions] /\ version \in [Picture -> 0..Versions]
  BY <1>1, ActiveScan
<1>13. /\ scan.reading[1] \in scan.files /\ scan.reading[1] \in Picture
          /\ scan.reading[2] \in 1..Versions
       /\ scan.reading[2] >= scan.began[scan.reading[1]]
  BY <1>1, <1>3 DEF PurgedInv, ReadingTyped
<1>4. /\ ScanTyped' /\ BeganBefore'
      /\ scan'.stage = scan.stage /\ scan'.todo = scan.todo
      /\ scan'.pending = scan.pending /\ scan'.prepared = (scan.prepared \cup {scan.reading[1]})
      /\ scan'.reading = None /\ scan'.failed = scan.failed
      /\ scan'.lost = scan.lost /\ scan'.truncated = scan.truncated
      /\ scan'.found = scan.found
      /\ scan'.files = scan.files /\ scan'.hit = scan.hit /\ scan'.began = scan.began
  <2>1. scan.stage \in Stage /\ scan.todo \subseteq scan.files
        /\ (scan.prepared \cup {scan.reading[1]}) \subseteq scan.files
    BY <1>1, <1>3, <1>13 DEF Stage
  <2>2. /\ scan'.stage = scan.stage /\ scan'.todo = scan.todo
        /\ scan'.pending = scan.pending /\ scan'.prepared = (scan.prepared \cup {scan.reading[1]})
        /\ scan'.reading = None /\ scan'.failed = scan.failed
        /\ scan'.lost = scan.lost /\ scan'.truncated = scan.truncated
        /\ scan'.found = scan.found
        /\ scan'.files = scan.files /\ scan'.hit = scan.hit /\ scan'.began = scan.began
        /\ scan' = Scanning(scan'.stage, scan'.todo, scan'.pending, scan'.prepared,
                            scan'.reading, scan'.failed, scan'.lost, scan'.truncated,
                            scan'.found)
    BY <1>1, <1>2 DEF Scanning
  <2>3. ScanTyped' /\ BeganBefore'
    BY <1>1, <1>3, <2>1, <2>2, SameScan
  <2> QED BY <2>2, <2>3
<1>5. HitIsStored'
  BY <1>3, <1>4 DEF HitIsStored
<1>12. /\ DOMAIN rows' = Picture
       /\ \A p \in Picture : p # scan.reading[1] => rows'[p] = rows[p]
       /\ LET row == rows'[scan.reading[1]] IN
          row \in RowSet /\ row.read = scan.reading[2] /\ row.read > 0 /\ row # None
  <2>1. /\ DOMAIN rows' = Picture
        /\ \A p \in Picture : p # scan.reading[1] => rows'[p] = rows[p]
        /\ rows'[scan.reading[1]] = SetItem(scan.reading[1], scan.reading[2], scan.rotated)
    BY <1>1, <1>13 DEF WorldTyped
  <2>2. rows'[scan.reading[1]] = [slots |-> Slots(scan.reading[1], scan.rotated),
                                  read |-> scan.reading[2],
                                  stamp |-> version[scan.reading[1]], unit |-> "seconds"]
    BY <2>1 DEF SetItem
  <2>3. version \in [Picture -> 0..Versions] /\ "seconds" \in {"seconds", "ns"}
    BY <1>3
  <2>4. LET row == rows'[scan.reading[1]] IN
          row \in RowSet /\ row.read = scan.reading[2] /\ row.read > 0 /\ row # None
    BY <1>13, <2>2, <2>3, NewRow
  <2> QED BY <2>1, <2>4
<1>6. WorldTyped' /\ MatchesHold'
  BY <1>1, <1>12, SameMatches DEF WorldTyped
<1>7. RowsHold'
  <2> SUFFICES ASSUME NEW p \in scan.files, rows'[p] # None PROVE Fresh(p)'
    BY <1>4 DEF RowsHold
  <2>1. CASE p = scan.reading[1]
    BY <1>4, <1>12, <1>13, <2>1 DEF Fresh
  <2>2. CASE p # scan.reading[1]
    BY <1>3, <1>4, <1>12, <2>2 DEF PurgedInv, RowsHold, Fresh
  <2> QED BY <2>1, <2>2
<1>8. Accounted'
  BY <1>1, <1>3, <1>4 DEF PurgedInv, Accounted
<1>9. PreparedHaveRows'
  BY <1>3, <1>4, <1>12 DEF PurgedInv, PreparedHaveRows
<1>10. PendingTyped'
  BY <1>1, <1>3, <1>4, FS_EmptySet DEF PurgedInv, PendingTyped
<1>11. ReadingTyped'
  BY <1>1, <1>3, <1>4 DEF PurgedInv, ReadingTyped
<1> QED BY <1>1, <1>3, <1>4, <1>5, <1>6, <1>7, <1>8, <1>9, <1>10, <1>11 DEF ScanInv, PurgedInv

\* Two pictures that match show the same, in the versions their rows were read from.
LEMMA MatchedLooks ==
  ASSUME NEW p \in Picture, NEW q \in Picture, NEW rotated \in BOOLEAN, rows[p] \in RowSet,
         rows[q] \in RowSet,
         rows[p].read > 0, rows[q].read > 0, First(q) \in Views(p, rotated)
  PROVE  LookOf[p][rows[p].read] = LookOf[q][rows[q].read]
<1> DEFINE look == LookOf[p][rows[p].read]
           other == LookOf[q][rows[q].read]
<1>1. rows[p].read \in 1..Versions /\ rows[q].read \in 1..Versions
  BY DEF RowSet
<1>2. First(q) # None
  <2>1. <<look, "upright">> # None /\ <<look, "sideways">> # None
    BY <1>1, PictureConstants
  <2> QED BY <2>1 DEF Views
<1>3. First(q) = <<other, "sideways">> \/ First(q) = <<other, "upright">>
  BY <1>2 DEF First
<1>4. First(q) = <<look, "upright">> \/ First(q) = <<look, "sideways">>
  <2>1. First(p) \in {None, <<look, "upright">>, <<look, "sideways">>}
    BY DEF First
  <2> QED BY <2>1, <1>2 DEF Views
<1>5. other = look
  <2> HIDE DEF look, other
  <2> QED BY <1>3, <1>4
<1> QED BY <1>5

\* With rows of the versions the scan began with, the pairs found look alike in the versions
\* of the key.
LEMMA CompareKeeps ==
  ASSUME WorldTyped, MatchesHold, ScanInv, Compare
  PROVE  WorldTyped' /\ MatchesHold' /\ ScanInv'
<1>1. scan.stage = "compare" /\ UNCHANGED <<version, rows>>
  BY DEF Compare
<1>2. scan' = Scanning("done", scan.todo, scan.pending, Compared, scan.reading, scan.failed,
                       scan.lost,
                       scan.truncated, PairsFound)
  BY CompareDoes DEF ScanInv
<1>3. /\ ~scan.hit /\ PurgedInv /\ scan.files \subseteq Picture /\ ScanTyped /\ BeganBefore
      /\ scan.todo \subseteq scan.files /\ scan.prepared \subseteq scan.files
      /\ scan.began \in [Picture -> 0..Versions] /\ version \in [Picture -> 0..Versions]
  BY <1>1, ActiveScan
<1>4. /\ ScanTyped' /\ BeganBefore'
      /\ scan'.stage = "done" /\ scan'.todo = scan.todo
      /\ scan'.pending = scan.pending /\ scan'.prepared = Compared
      /\ scan'.reading = scan.reading /\ scan'.failed = scan.failed
      /\ scan'.lost = scan.lost /\ scan'.truncated = scan.truncated
      /\ scan'.files = scan.files /\ scan'.hit = scan.hit /\ scan'.began = scan.began
  <2>1. "done" \in Stage /\ Compared \subseteq scan.files
    BY <1>3 DEF Stage, Compared
  <2>2. /\ scan'.stage = "done" /\ scan'.todo = scan.todo
        /\ scan'.pending = scan.pending /\ scan'.prepared = Compared
        /\ scan'.reading = scan.reading /\ scan'.failed = scan.failed
        /\ scan'.lost = scan.lost /\ scan'.truncated = scan.truncated
        /\ scan'.files = scan.files /\ scan'.hit = scan.hit /\ scan'.began = scan.began
        /\ scan' = Scanning(scan'.stage, scan'.todo, scan'.pending, scan'.prepared,
                            scan'.reading, scan'.failed, scan'.lost, scan'.truncated,
                            scan'.found)
    BY <1>2 DEF Scanning
  <2>3. ScanTyped' /\ BeganBefore'
    BY <1>1, <1>3, <2>1, <2>2, SameScan
  <2> QED BY <2>2, <2>3
<1>5. HitIsStored' /\ WorldTyped'
  BY <1>1, <1>3, <1>4 DEF HitIsStored, WorldTyped
<1>6. PurgedInv'
  <2>1. RowsHold'
    BY <1>1, <1>3, <1>4 DEF PurgedInv, RowsHold, Fresh
  <2>2. DOMAIN scan.pending = {}
    BY <1>1, <1>3 DEF PurgedInv, PendingTyped
  <2>3. Accounted' /\ PreparedHaveRows'
    BY <1>1, <1>3, <1>4, <2>2 DEF PurgedInv, Accounted, PreparedHaveRows, Compared
  <2>4. PendingTyped' /\ ReadingTyped'
    BY <1>1, <1>3, <1>4, <2>2 DEF PurgedInv, PendingTyped, ReadingTyped
  <2> QED BY <2>1, <2>3, <2>4 DEF PurgedInv
<1>7. MatchesHold'
  <2>1. CASE matches' = matches
    BY <2>1, SameMatches
  <2>2. CASE matches' = PutMatches(scan.key, PairsFound)
    <3>1. /\ matches'.key = scan.key /\ matches'.pairs = PairsFound
          /\ matches'.current => \A p \in Compared : rows[p].read = scan.began[p]
      BY <2>2 DEF PutMatches
    <3> SUFFICES ASSUME \A p \in Compared : rows[p].read = scan.began[p]
                 PROVE  AlikeIn(PairsFound, scan.key)
      BY <3>1 DEF MatchesHold
    <3> SUFFICES ASSUME NEW pair \in PairsFound, NEW v \in [Picture -> 0..Versions],
                        NEW files \in SUBSET Picture, NEW rotated \in BOOLEAN,
                        scan.key = <<{<<p, v[p]>> : p \in files}, rotated>>, NEW p \in pair,
                          NEW q \in pair
                 PROVE  LookOf[p][v[p]] = LookOf[q][v[q]]
      BY DEF AlikeIn
    <3>2. p \in Compared /\ q \in Compared /\ (p = q \/ Matched(p, q, scan.rotated))
      BY DEF PairsFound
    <3>3. /\ p \in scan.files /\ q \in scan.files /\ p \in Picture /\ q \in Picture
          /\ rows[p] \in RowSet /\ rows[q] \in RowSet /\ rows[p].read > 0 /\ rows[q].read > 0
          /\ rows[p].read = scan.began[p] /\ rows[q].read = scan.began[q]
      BY <1>3, <3>2 DEF Compared, WorldTyped
    <3>4. {<<x, scan.began[x]>> : x \in scan.files} = {<<x, v[x]>> : x \in files}
      BY <1>3 DEF ScanTyped
    <3>5. v[p] = scan.began[p] /\ v[q] = scan.began[q]
      <4>1. <<p, scan.began[p]>> \in {<<x, v[x]>> : x \in files}
            /\ <<q, scan.began[q]>> \in {<<x, v[x]>> : x \in files}
        BY <3>3, <3>4
      <4>2. PICK x \in files : <<p, scan.began[p]>> = <<x, v[x]>>
        BY <4>1
      <4>3. PICK y \in files : <<q, scan.began[q]>> = <<y, v[y]>>
        BY <4>1
      <4> QED BY <4>2, <4>3
    <3>6. p # q => LookOf[p][rows[p].read] = LookOf[q][rows[q].read]
      <4>1. scan.rotated \in BOOLEAN
        BY <1>3 DEF ScanTyped
      <4> QED BY <3>2, <3>3, <4>1, MatchedLooks DEF Matched
    <3> QED BY <3>3, <3>5, <3>6
  <2> QED BY <2>1, <2>2 DEF Compare
<1> QED BY <1>4, <1>5, <1>6, <1>7 DEF ScanInv

\* Another program's step changes no row, and leaves a picture newer or gone.
LEMMA OthersKeep ==
  ASSUME PicturesInv, NEW p \in Picture, Edit(p) \/ Vanish(p)
  PROVE  PicturesInv'
<1>1. UNCHANGED <<rows, matches, scan>>
  BY DEF Edit, Vanish
<1>2. /\ version' \in [Picture -> 0..Versions]
      /\ \A q \in Picture : version'[q] = 0 \/ version'[q] >= version[q]
      /\ \A q \in Picture : version[q] = 0 => version'[q] = 0
  <2>1. version \in [Picture -> 0..Versions] /\ version[p] > 0 /\ Versions \in Nat
    BY PictureConstants DEF PicturesInv, WorldTyped, Edit, Vanish, There
  <2>2. CASE Edit(p)
    BY <2>1, <2>2 DEF Edit, In
  <2>3. CASE Vanish(p)
    BY <2>1, <2>3 DEF Vanish, In
  <2> QED BY <2>2, <2>3
<1>3. WorldTyped' /\ MatchesHold'
  BY <1>1, <1>2, SameMatches DEF PicturesInv, WorldTyped
<1>4. CASE scan = NoScan
  BY <1>1, <1>3, <1>4 DEF PicturesInv, NoScan
<1>5. CASE ScanInv
  <2>1. BeganBefore'
    <3> SUFFICES ASSUME NEW q \in Picture PROVE version'[q] = 0 \/ scan.began[q] <= version'[q]
      BY <1>1 DEF BeganBefore
    <3>1. version[q] \in Nat /\ version'[q] \in Nat /\ scan.began[q] \in Nat
      BY <1>2, <1>5 DEF PicturesInv, WorldTyped, ScanInv, ScanTyped
    <3> QED BY <1>2, <1>5, <3>1 DEF ScanInv, BeganBefore
  <2>2. ScanTyped'
    BY <1>1, <1>5 DEF ScanInv, ScanTyped, Scanning
  <2>3. HitIsStored' /\ (scan.stage = "purge" => scan.reading = None /\ scan.lost = {})'
    BY <1>1, <1>5 DEF ScanInv, HitIsStored
  <2>4. (~scan.hit /\ scan.stage # "purge" => PurgedInv)'
    BY <1>1, <1>5 DEF ScanInv, PurgedInv, RowsHold, Fresh, Accounted, PreparedHaveRows,
       PendingTyped, ReadingTyped
  <2> QED BY <1>3, <2>1, <2>2, <2>3, <2>4 DEF PicturesInv, ScanInv
<1> QED BY <1>4, <1>5 DEF PicturesInv

-----------------------------------------------------------------------------
(* The promise.                                                            *)

\* Every step keeps the invariant.
LEMMA PicturesStep == PicturesInv /\ [PicturesNext]_pictureVars => PicturesInv'
<1> SUFFICES ASSUME PicturesInv, [PicturesNext]_pictureVars PROVE PicturesInv'
  OBVIOUS
<1>1. CASE \E files \in SUBSET There, refs \in References, rotated, combined \in BOOLEAN :
             StartPictures(files, refs \cap files, rotated, combined)
  BY <1>1, StartKeeps
<1>2. ASSUME scan.stage # "idle" PROVE ScanInv /\ WorldTyped /\ MatchesHold
  BY <1>2 DEF PicturesInv, NoScan
<1>3. CASE Purge
  <2>1. scan.stage # "idle"
    BY <1>3 DEF Purge
  <2> QED BY <1>2, <1>3, <2>1, PurgeKeeps DEF PicturesInv
<1>4. CASE PoolWrites
  <2>1. scan.stage # "idle"
    BY <1>4 DEF PoolWrites
  <2> QED BY <1>2, <1>4, <2>1, PoolWritesKeeps DEF PicturesInv
<1>5. CASE PoolBreaks
  <2>1. scan.stage # "idle"
    BY <1>5 DEF PoolBreaks
  <2> QED BY <1>2, <1>5, <2>1, BreaksKeeps DEF PicturesInv
<1>6. CASE PoolEnds \/ SerialEnds
  <2>1. scan.stage # "idle"
    BY <1>6 DEF PoolEnds, SerialEnds
  <2> QED BY <1>2, <1>6, <2>1, EndsKeeps DEF PicturesInv
<1>7. CASE SerialWrites
  <2>1. scan.stage # "idle"
    BY <1>7 DEF SerialWrites
  <2> QED BY <1>2, <1>7, <2>1, WriteKeeps DEF PicturesInv
<1>8. ASSUME NEW p \in Picture, NEW works \in BOOLEAN, PoolResult(p, works) PROVE PicturesInv'
  <2>1. scan.stage # "idle"
    BY <1>8 DEF PoolResult
  <2> QED BY <1>2, <1>8, <2>1, ResultKeeps DEF PicturesInv
<1>9. ASSUME NEW p \in Picture, SerialRead(p) PROVE PicturesInv'
  <2>1. scan.stage # "idle"
    BY <1>9 DEF SerialRead
  <2> QED BY <1>2, <1>9, <2>1, ReadKeeps DEF PicturesInv
<1>10. ASSUME NEW p \in Picture, SerialFails(p) PROVE PicturesInv'
  <2>1. scan.stage # "idle"
    BY <1>10 DEF SerialFails
  <2>2. \/ scan' = [scan EXCEPT !.todo = scan.todo \ {p}, !.failed = scan.failed \cup {p}]
        \/ scan' = [scan EXCEPT !.todo = {}, !.truncated = TRUE]
    BY <1>10 DEF SerialFails
  <2> QED BY <1>2, <1>10, <2>1, <2>2, FailKeeps, TruncateKeeps DEF PicturesInv
<1>11. CASE Compare
  <2>1. scan.stage # "idle"
    BY <1>11 DEF Compare
  <2> QED BY <1>2, <1>11, <2>1, CompareKeeps DEF PicturesInv
<1>12. CASE Leave
  <2>1. scan' = NoScan /\ UNCHANGED <<version, rows, matches>>
    BY <1>12 DEF Leave
  <2> QED BY <2>1, SameMatches DEF PicturesInv, WorldTyped, NoScan
<1>13. CASE Forget
  <2>1. scan.stage = "idle" /\ matches'.pairs = {} /\ UNCHANGED <<version, rows, scan>>
    BY <1>13 DEF Forget
  <2>2. scan = NoScan
    BY <2>1 DEF PicturesInv, ScanInv, ScanTyped, Stage
  <2>3. MatchesHold'
    BY <2>1 DEF MatchesHold, AlikeIn
  <2> QED BY <2>1, <2>2, <2>3 DEF PicturesInv, WorldTyped, NoScan
<1>14. ASSUME NEW p \in Picture, Edit(p) \/ Vanish(p) PROVE PicturesInv'
  BY <1>14, OthersKeep
<1>15. CASE UNCHANGED pictureVars
  <2>1. UNCHANGED <<version, rows, matches, scan>>
    BY <1>15 DEF pictureVars
  <2>2. WorldTyped' /\ MatchesHold'
    BY <2>1, SameMatches DEF PicturesInv, WorldTyped
  <2>3. (scan = NoScan \/ ScanInv)'
    BY <2>1 DEF PicturesInv, NoScan, ScanInv, ScanTyped, Scanning, BeganBefore, HitIsStored,
       PurgedInv,
       RowsHold, Fresh, Accounted, PreparedHaveRows, PendingTyped, ReadingTyped
  <2> QED BY <2>2, <2>3 DEF PicturesInv
<1> QED BY <1>1, <1>3, <1>4, <1>5, <1>6, <1>7, <1>8, <1>9, <1>10, <1>11, <1>12, <1>13, <1>14,
           <1>15
        DEF PicturesNext

\* PicturesAreMatched, for any pictures: a comparison uses nothing older than its scan but
\* for the rows the code is known to trust too long, leaves no picture out without a trace,
\* and a reused match is of pictures that still look alike.
THEOREM PicturesStayMatched == PicturesSpec => []PicturesAreMatched
<1>1. PicturesInv => PicturesAreMatched
  <2> SUFFICES ASSUME PicturesInv, scan.stage = "done" PROVE PicturesAreMatched
    BY DEF PicturesAreMatched, RowsAreFresh, PicturesAreCompared, ReusedMatchesHold, Done
  <2>1. ScanInv
    BY DEF PicturesInv, NoScan
  <2>2. ASSUME ~scan.hit PROVE RowsAreFresh /\ PicturesAreCompared
    <3>1. PurgedInv /\ scan.prepared \subseteq scan.files /\ scan.files \subseteq Picture
      BY <2>1, <2>2 DEF ScanInv, ScanTyped
    <3>2. DOMAIN scan.pending = {} /\ scan.reading = None /\ scan.todo = {}
      BY <3>1 DEF PurgedInv, PendingTyped, ReadingTyped
    <3>3. PicturesAreCompared
      BY <3>1, <3>2 DEF PurgedInv, Accounted, PicturesAreCompared
    <3>4. RowsAreFresh
      BY <3>1, <3>2 DEF PurgedInv, RowsHold, PreparedHaveRows, Fresh, RowsAreFresh
    <3> QED BY <3>3, <3>4
  <2>3. ASSUME scan.hit, matches.current PROVE ReusedMatchesHold
    <3>1. scan.found = matches.pairs /\ scan.key = matches.key /\ scan.files \in SUBSET Picture
          /\ scan.began \in [Picture -> 0..Versions]
          /\ scan.key = <<{<<p, scan.began[p]>> : p \in scan.files}, scan.rotated>>
      BY <2>1, <2>3 DEF ScanInv, ScanTyped, HitIsStored
    <3>2. MatchesHold
      BY DEF PicturesInv
    <3> DEFINE v == scan.began
    <3>3. v \in [Picture -> 0..Versions] /\ scan.rotated \in BOOLEAN
          /\ matches.key = <<{<<x, v[x]>> : x \in scan.files}, scan.rotated>>
      BY <2>1, <3>1 DEF ScanInv, ScanTyped
    <3> HIDE DEF v
    <3>4. AlikeIn(matches.pairs, matches.key)
      BY <2>3, <3>2 DEF MatchesHold
    <3>5. ASSUME NEW pair \in matches.pairs
          PROVE \A p, q \in pair : LookOf[p][v[p]] = LookOf[q][v[q]]
      BY <3>1, <3>3, <3>4, Zenon DEF AlikeIn
    <3> QED BY <3>1, <3>5 DEF ReusedMatchesHold, v
  <2> QED BY <2>2, <2>3 DEF PicturesAreMatched, RowsAreFresh, PicturesAreCompared,
             ReusedMatchesHold, Done
<1> QED BY <1>1, PicturesStart, PicturesStep, PTL DEF PicturesSpec

=============================================================================
