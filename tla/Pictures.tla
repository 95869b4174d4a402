------------------------------ MODULE Pictures ------------------------------
(***************************************************************************)
(* Picture matching (core/pe/matchblock.py) on its two caches: the block   *)
(* signatures of pictures (core/pe/cache_sqlite.py), and the matches of    *)
(* the last scan (core/pe/match_cache.py).  A picture is a number of       *)
(* versions, one per modification time; LookOf is what a version shows     *)
(* upright.  The pictures are in one folder, dimensions do not part them,  *)
(* and two signatures match when the looks are the same.                   *)
(***************************************************************************)
EXTENDS Integers, FiniteSets

CONSTANTS
  Picture,
  Turned,       \* pictures whose EXIF orientation is not the first one, and the same for all
  LookOf,       \* picture -> version -> look
  References,   \* bound: the pictures in reference folders, where they may be
  Versions,     \* bound: versions of a picture
  Scans,        \* bound: searches
  PARALLEL_THRESHOLD, CACHE_WRITE_BATCH,
  None

ASSUME PictureConstants ==
  /\ Turned \subseteq Picture /\ {Versions, Scans} \subseteq Nat \ {0}
  /\ DOMAIN LookOf = Picture /\ \A p \in Picture : DOMAIN LookOf[p] = 1..Versions
  /\ PARALLEL_THRESHOLD \in Nat /\ CACHE_WRITE_BATCH \in Nat \ {0}
  \* None is not a row, not a picture being read, and not a signature.
  /\ None \notin [slots : {"all", "other", "first"}, read : 0..Versions, stamp : 0..Versions,
                 unit : {"seconds", "ns"}]
  /\ None \notin Picture \X (0..Versions)
  /\ \A p \in Picture : \A v \in 1..Versions, side \in {"upright", "sideways"} :
       <<LookOf[p][v], side>> # None

VARIABLES
  version,   \* a picture's version on disk, 0 when it is gone
  rows,      \* the block cache
  matches,   \* the match cache: its key and pairs, and whether what they come from was current
  scan,      \* the running scan
  searches

pictureVars == <<version, rows, matches, scan, searches>>

NoScan == [stage |-> "idle"]
There == {p \in Picture : version[p] > 0}
In(f, p, value) == [f EXCEPT ![p] = value]

-----------------------------------------------------------------------------
(* The block cache.  A row has the eight signatures or the one of the      *)
(* picture's own orientation, the version they were read from, and the     *)
(* modification time it had when the row was written, in some unit.        *)

Slots(p, rotated) == IF rotated THEN "all" ELSE IF p \in Turned THEN "other" ELSE "first"

\* __setitem__
SetItem(p, read, rotated) ==
  [slots |-> Slots(p, rotated), read |-> read, stamp |-> version[p], unit |-> "seconds"]
\* set_blocks_raw_many
SetBlocksRawMany(batch, rotated) ==
  [p \in Picture |->
     IF p \notin DOMAIN batch THEN rows[p]
     ELSE [slots |-> Slots(p, rotated), read |-> batch[p], stamp |-> version[p], unit |-> "ns"]]

\* purge_outdated: a time in seconds is never beyond one in nanoseconds.
Outdated(p) == version[p] = 0 \/ (rows[p].unit = "seconds" /\ version[p] > rows[p].stamp)
PurgeOutdated == [p \in Picture |-> IF rows[p] # None /\ Outdated(p) THEN None ELSE rows[p]]

NeedsWork(cache, p, rotated) == cache[p] = None \/ (rotated /\ cache[p].slots # "all")

-----------------------------------------------------------------------------
(* The comparison.                                                         *)

\* The signature in the first place, which the others are looked up by: upright, sideways as
\* a turned picture is stored, or none.
First(p) ==
  LET look == LookOf[p][rows[p].read]
  IN  CASE rows[p].slots = "other" -> None
        [] rows[p].slots = "all" /\ p \in Turned -> <<look, "sideways">>
        [] OTHER -> <<look, "upright">>
Views(p, rotated) ==
  LET look == LookOf[p][rows[p].read]
  IN  IF ~rotated THEN {First(p)} \ {None}
      ELSE {<<look, "upright">>} \cup (IF rows[p].slots = "all" THEN {<<look, "sideways">>} ELSE {})
Matched(p, q, rotated) == First(q) \in Views(p, rotated) \/ First(p) \in Views(q, rotated)

Compared == {p \in scan.prepared : rows[p] # None}
PairsFound ==
  {pair \in SUBSET Compared :
     /\ Cardinality(pair) = 2 /\ ~(pair \subseteq scan.refs)
     /\ \A p, q \in pair : p = q \/ Matched(p, q, scan.rotated)}

-----------------------------------------------------------------------------
(* A scan.                                                                 *)

\* Mutant: the paths alone.
KeyOfPaths(files, rotated) == <<files, rotated>>
\* compute_key: paths, sizes and times, and the settings; not which files are references.
Key(files, rotated) == <<{<<p, version[p]>> : p \in files}, rotated>>

\* get, where a set without rows is a miss; put, which replaces the whole set.
Hit(key) == matches.key = key /\ matches.pairs # {}
PutMatches(key, pairs) ==
  [key |-> key, pairs |-> pairs, current |-> \A p \in Compared : rows[p].read = scan.began[p]]

\* A combined scan has neither a match cache nor a report.
StartPictures(files, refs, rotated, combined) ==
  LET key == Key(files, rotated)
      hit == ~combined /\ Hit(key)
  IN
  /\ scan.stage = "idle" /\ searches < Scans /\ Cardinality(files) > 1
  /\ scan' = [stage |-> IF hit THEN "done" ELSE "purge", files |-> files, refs |-> refs,
              rotated |-> rotated, combined |-> combined, key |-> key, hit |-> hit,
              began |-> version, todo |-> {}, pending |-> <<>>, prepared |-> {}, reading |-> None,
              failed |-> {}, lost |-> {}, truncated |-> FALSE,
              found |-> IF hit THEN matches.pairs ELSE {}]
  /\ searches' = searches + 1 /\ UNCHANGED <<version, rows, matches>>

Purge ==
  /\ scan.stage = "purge"
  /\ rows' = PurgeOutdated
  /\ LET todo == {p \in scan.files : NeedsWork(rows', p, scan.rotated)} IN
     scan' = [scan EXCEPT !.todo = todo, !.prepared = scan.files \ todo, !.pending = [p \in {} |-> 0],
                          !.stage = IF Cardinality(todo) >= PARALLEL_THRESHOLD THEN "pool" ELSE "serial"]
  /\ UNCHANGED <<version, matches, searches>>

Waiting == Cardinality(DOMAIN scan.pending)

\* A worker has read a picture, or could not.
PoolResult(p, works) ==
  /\ scan.stage = "pool" /\ p \in scan.todo /\ Waiting < CACHE_WRITE_BATCH
  /\ works => version[p] > 0
  /\ scan' = [scan EXCEPT !.todo = @ \ {p},
                !.failed = IF works THEN @ ELSE @ \cup {p},
                !.prepared = IF works THEN @ \cup {p} ELSE @,
                !.pending = IF works THEN [q \in DOMAIN @ \cup {p} |-> IF q = p THEN version[p] ELSE @[q]] ELSE @]
  /\ UNCHANGED <<version, rows, matches, searches>>
PoolWrites ==
  /\ scan.stage = "pool" /\ Waiting > 0 /\ (Waiting = CACHE_WRITE_BATCH \/ scan.todo = {})
  /\ rows' = SetBlocksRawMany(scan.pending, scan.rotated)
  /\ scan' = [scan EXCEPT !.pending = [p \in {} |-> 0]]
  /\ UNCHANGED <<version, matches, searches>>
\* What the pool did not finish; what it had read and not written is not part of it.
Rest == scan.todo
PoolBreaks ==
  /\ scan.stage = "pool"
  /\ scan' = [scan EXCEPT !.stage = "serial", !.todo = Rest, !.pending = [p \in {} |-> 0],
                          !.lost = DOMAIN scan.pending]
  /\ UNCHANGED <<version, rows, matches, searches>>
PoolEnds ==
  /\ scan.stage = "pool" /\ scan.todo = {} /\ Waiting = 0 /\ scan' = [scan EXCEPT !.stage = "compare"]
  /\ UNCHANGED <<version, rows, matches, searches>>

\* get_blocks, with its errors: the file's, or memory for a large picture, or for a small one.
SerialRead(p) ==
  /\ scan.stage = "serial" /\ scan.reading = None /\ p \in scan.todo /\ version[p] > 0
  /\ scan' = [scan EXCEPT !.todo = @ \ {p}, !.reading = <<p, version[p]>>]
  /\ UNCHANGED <<version, rows, matches, searches>>
SerialFails(p) ==
  /\ scan.stage = "serial" /\ scan.reading = None /\ p \in scan.todo
  /\ \/ scan' = [scan EXCEPT !.todo = @ \ {p}, !.failed = @ \cup {p}]
     \/ scan' = [scan EXCEPT !.todo = {}, !.truncated = TRUE]
  /\ UNCHANGED <<version, rows, matches, searches>>
SerialWrites ==
  /\ scan.stage = "serial" /\ scan.reading # None
  /\ LET p == scan.reading[1] IN
     /\ rows' = In(rows, p, SetItem(p, scan.reading[2], scan.rotated))
     /\ scan' = [scan EXCEPT !.reading = None, !.prepared = @ \cup {p}]
  /\ UNCHANGED <<version, matches, searches>>
SerialEnds ==
  /\ scan.stage = "serial" /\ scan.todo = {} /\ scan.reading = None
  /\ scan' = [scan EXCEPT !.stage = "compare"]
  /\ UNCHANGED <<version, rows, matches, searches>>

\* Fewer than two pictures with blocks: nothing is compared, and nothing put away.
Compare ==
  /\ scan.stage = "compare"
  /\ scan' = [scan EXCEPT !.stage = "done", !.found = PairsFound, !.prepared = Compared]
  /\ matches' = IF scan.combined \/ Cardinality(Compared) < 2 THEN matches
                ELSE PutMatches(scan.key, PairsFound)
  /\ UNCHANGED <<version, rows, searches>>

\* The results are shown; or the user cancels, or the program dies.
Leave ==
  /\ scan.stage # "idle" /\ scan' = NoScan /\ UNCHANGED <<version, rows, matches, searches>>

\* With the match cache off the stored set stays where it is.
Forget ==
  /\ scan.stage = "idle" /\ matches.key # None
  /\ matches' = [key |-> None, pairs |-> {}, current |-> TRUE] /\ UNCHANGED <<version, rows, scan, searches>>

\* Other programs.
Edit(p) ==
  /\ p \in There /\ version[p] < Versions
  /\ version' = In(version, p, version[p] + 1) /\ UNCHANGED <<rows, matches, scan, searches>>
Vanish(p) ==
  /\ p \in There /\ version' = In(version, p, 0) /\ UNCHANGED <<rows, matches, scan, searches>>

-----------------------------------------------------------------------------
PicturesInit ==
  /\ version = [p \in Picture |-> 1] /\ rows = [p \in Picture |-> None]
  /\ matches = [key |-> None, pairs |-> {}, current |-> TRUE] /\ scan = NoScan /\ searches = 0

PicturesNext ==
  \/ \E files \in SUBSET There, refs \in References, rotated, combined \in BOOLEAN :
       StartPictures(files, refs \cap files, rotated, combined)
  \/ Purge \/ PoolWrites \/ PoolBreaks \/ PoolEnds \/ SerialWrites \/ SerialEnds
  \/ \E p \in Picture :
       \/ \E works \in BOOLEAN : PoolResult(p, works)
       \/ SerialRead(p) \/ SerialFails(p) \/ Edit(p) \/ Vanish(p)
  \/ Compare \/ Leave \/ Forget
PicturesSpec == PicturesInit /\ [][PicturesNext]_pictureVars

-----------------------------------------------------------------------------
Done == scan.stage = "done" /\ ~scan.hit

\* No comparison rests on what a picture showed before the scan began, but for rows that a pool
\* wrote, or that were written while the picture was being edited.
RowsAreFresh ==
  Done => \A p \in scan.prepared :
            rows[p].unit = "seconds" => rows[p].read >= scan.began[p] \/ rows[p].read < rows[p].stamp

\* A scan compares every picture it was given, or says why it did not: an error was logged, or
\* the truncation reported, which a combined scan has no report for.  Only what a broken pool
\* had read and not written is dropped without a word.
PicturesAreCompared ==
  Done => \A p \in scan.files \ scan.prepared : p \in scan.failed \cup scan.lost \/ scan.truncated

\* "A stale hit is worse than a slow scan" (match_cache.py): matches that are reused are between
\* pictures that still look alike, if those they were found for did.
ReusedMatchesHold ==
  scan.stage = "done" /\ scan.hit /\ matches.current =>
    \A pair \in scan.found : \A p, q \in pair : LookOf[p][scan.began[p]] = LookOf[q][scan.began[q]]

\* What a picture scan finds rests on all its pictures, as they look now.
PicturesAreMatched == RowsAreFresh /\ PicturesAreCompared /\ ReusedMatchesHold
=============================================================================
