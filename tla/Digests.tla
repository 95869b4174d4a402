------------------------------- MODULE Digests ------------------------------
(***************************************************************************)
(* The digests a contents scan compares files by, and the two databases    *)
(* that remember them: FilesDB of core/fs.py, behind the attributes of     *)
(* File, and HashCache of core/hash_cache.py, which the scanner fills      *)
(* from a pool of processes.  Other programs write to the files at any     *)
(* point.  All files have one size; its tier says how it compares with the *)
(* limits of fs.py.  Stored digests carry the algorithm that made them.    *)
(***************************************************************************)
EXTENDS Naturals, Sequences, FiniteSets, SequencesExt

CONSTANTS
  HashedFile,
  Content,
  Gone,          \* in place of a content: there is no file
  PartialOf,     \* what the partial digest of a content is made from
  SamplesOf,     \* what its samples digest is made from
  Algorithm,     \* hash algorithms a build may have
  NONE,          \* Python's None, and SQL's NULL
  NOT_SET,
  NoRead,
  BATCH_SIZE,    \* FilesDB._BATCH_SIZE
  HASH_BATCH,    \* scanner._BATCH_SIZE
  Tiers,         \* bound: which of "tiny", "small" and "large" the files are
  WriteBound,    \* bound: writes by other programs
  ScanBound      \* bound: scans

ASSUME DigestConstants ==
  /\ Gone \notin Content /\ NONE \notin Content /\ NOT_SET # NONE
  /\ \A a \in Algorithm, c \in Content : <<a, c>> \notin {NONE, NOT_SET}
  /\ BATCH_SIZE \in Nat \ {0} /\ HASH_BATCH \in Nat \ {0}

VARIABLES
  content, stamp,  \* of each file: its bytes, and its modification time
  tier,            \* "tiny", "small" or "large": the size of the files
  algorithm,       \* HASH_ALGORITHM, and the algorithm both databases record
  row,             \* files table of FilesDB
  pending,         \* its buffered puts
  hashRow,         \* hash_cache table of HashCache
  phase,           \* of a scan: "idle", "hashing", "classes" or "done"
  sampled,         \* the files are above big_file_size_threshold
  scanned,         \* the files of the scan
  unchecked,       \* candidates not yet looked up in HashCache
  misses,          \* cache_misses not yet hashed: file and the time it had
  newRows,         \* new_rows: file, time and digest
  hashed,          \* parallel_done plus seq_done
  prefilled,       \* files that got their digest from _hash_files_parallel
  known,           \* the attributes of the File objects
  read,            \* the _read_info that is running
  touched,         \* a file was written since the scan began
  raced,           \* a file was once written during a scan
  writes, scans

fileVars == <<content, stamp, touched, raced, writes>>
dbVars == <<row, pending, hashRow, algorithm>>
poolVars == <<unchecked, misses, newRows, hashed, prefilled>>
scanVars == <<phase, sampled, scanned, scans>>
digestVars == <<fileVars, tier, dbVars, poolVars, scanVars, known, read>>

Keys == {"digest", "digest_partial", "digest_samples"}
Unread == [key \in Keys |-> NOT_SET]
NoDigests == [stamp |-> 0, digest |-> NONE, digest_partial |-> NONE, digest_samples |-> NONE]
NoHashRow == [stamp |-> 0, digest |-> NONE]

\* _calc_digest, _calc_digest_partial and _calc_digest_samples of a content.
Calculated(key, c) ==
  <<algorithm, IF key = "digest" THEN c
               ELSE IF key = "digest_partial" THEN PartialOf[c] ELSE SamplesOf[c]>>

DigestInit ==
  /\ content \in [HashedFile -> Content] /\ stamp = [f \in HashedFile |-> 1]
  /\ tier \in Tiers
  /\ algorithm \in Algorithm
  /\ row = [f \in HashedFile |-> NoDigests] /\ pending = <<>>
  /\ hashRow = [f \in HashedFile |-> NoHashRow]
  /\ phase = "idle" /\ sampled = FALSE /\ scanned = {} /\ scans = 0
  /\ unchecked = {} /\ misses = {} /\ newRows = {} /\ hashed = 0 /\ prefilled = {}
  /\ known = [f \in HashedFile |-> Unread] /\ read = NoRead
  /\ touched = FALSE /\ raced = FALSE /\ writes = 0

-----------------------------------------------------------------------------
\* FilesDB

\* insert_query: a conflict sets the time and one digest, and keeps the other two.
Upsert(rows, p) ==
  [rows EXCEPT ![p.file] = [[@ EXCEPT !.stamp = p.stamp] EXCEPT ![p.key] = p.value]]
\* _flush_pending; a failure stops it, and what it wrote so far is committed later.
Flushed(puts) ==
  {FoldLeft(Upsert, row, SubSeq(puts, 1, n)) : n \in 0..Len(puts)}
FlushPuts(puts) == pending' = <<>> /\ row' \in Flushed(puts)

\* put, once the stat succeeded
Put(p) ==
  IF Len(pending) + 1 >= BATCH_SIZE
  THEN FlushPuts(Append(pending, p))
  ELSE pending' = Append(pending, p) /\ UNCHANGED row

\* get: the stored digest when the file has the stored time; a file that is gone has none.
Stored(f, key) ==
  IF content[f] # Gone /\ row[f].stamp = stamp[f] THEN row[f][key] ELSE NONE

-----------------------------------------------------------------------------
\* Sessions

\* Mutant: the hash cache is not looked at when the algorithm changes.
ConnectedAsIs(rows, hashRows) ==
  \E a \in Algorithm :
    /\ algorithm' = a
    /\ row' = IF a = algorithm THEN rows ELSE [f \in HashedFile |-> NoDigests]
    /\ hashRow' = hashRows

\* A new process: both databases are connected to, and drop the digests of another algorithm.
Connected(rows, hashRows) ==
  \E a \in Algorithm :
    /\ algorithm' = a
    /\ row' = IF a = algorithm THEN rows ELSE [f \in HashedFile |-> NoDigests]
    /\ hashRow' = IF a = algorithm THEN hashRows ELSE [f \in HashedFile |-> NoHashRow]

Idle ==
  /\ phase' = "idle" /\ sampled' = FALSE /\ scanned' = {}
  /\ unchecked' = {} /\ misses' = {} /\ newRows' = {} /\ hashed' = 0 /\ prefilled' = {}
  /\ known' = [f \in HashedFile |-> Unread] /\ read' = NoRead /\ touched' = FALSE

\* close, then a new start: the puts are flushed.
Reopen ==
  /\ phase \in {"idle", "done"} /\ read = NoRead
  /\ pending' = <<>> /\ \E rows \in Flushed(pending) : Connected(rows, hashRow)
  /\ Idle /\ UNCHANGED <<content, stamp, raced, tier, writes, scans>>

\* The process dies, with what it had not written.
Crash ==
  /\ pending' = <<>> /\ Connected(row, hashRow)
  /\ Idle /\ UNCHANGED <<content, stamp, raced, tier, writes, scans>>

\* clear_hash_cache
ClearHashCache ==
  /\ phase \in {"idle", "done"} /\ read = NoRead
  /\ pending' = <<>> /\ row' = [f \in HashedFile |-> NoDigests]
  /\ hashRow' = [f \in HashedFile |-> NoHashRow]
  /\ UNCHANGED <<fileVars, tier, algorithm, poolVars, scanVars, known, read>>

\* purge_missing forgets the files that are gone, purge_old_entries any that are old.
Purged(rows, none, old) ==
  [f \in HashedFile |-> IF content[f] = Gone \/ f \in old THEN none ELSE rows[f]]

\* start_scanning: the puts are flushed, perhaps the databases are purged, and the files that
\* are there are wrapped anew.  A lone file has no candidate beside it.
StartScan ==
  /\ phase \in {"idle", "done"} /\ read = NoRead /\ scans < ScanBound /\ scans' = scans + 1
  /\ pending' = <<>>
  /\ \/ row' \in Flushed(pending) /\ UNCHANGED hashRow
     \/ \E rows \in Flushed(pending), old, oldHashes \in {{}, HashedFile} :
          /\ row' = Purged(rows, NoDigests, old)
          /\ hashRow' = Purged(hashRow, NoHashRow, oldHashes)
  /\ phase' = "hashing" /\ sampled' \in (IF tier = "tiny" THEN {FALSE} ELSE BOOLEAN)
  /\ scanned' = {f \in HashedFile : content[f] # Gone}
  /\ unchecked' = (IF Cardinality(scanned') > 1 THEN scanned' ELSE {})
  /\ misses' = {} /\ newRows' = {} /\ hashed' = 0 /\ prefilled' = {}
  /\ known' = [f \in HashedFile |-> Unread] /\ touched' = FALSE
  /\ UNCHANGED <<content, stamp, raced, writes, tier, algorithm, read>>

\* The user cancels: what the hash cache was not given yet is lost.
CancelScan ==
  /\ phase \in {"hashing", "classes"}
  /\ Idle /\ UNCHANGED <<content, stamp, raced, tier, writes, scans, dbVars>>

-----------------------------------------------------------------------------
\* _hash_files_parallel

\* _apply_digest: above the threshold the other two are left to be read.
Applied(d) == IF sampled THEN [Unread EXCEPT !.digest = d] ELSE [key \in Keys |-> d]
ApplyDigest(f, d) ==
  known' = [known EXCEPT ![f] = Applied(d)] /\ prefilled' = prefilled \cup {f}

\* The time is read here; the file is hashed later.  A file that is gone is skipped.
CheckHashCache(f) ==
  /\ phase = "hashing" /\ f \in unchecked /\ unchecked' = unchecked \ {f}
  /\ \/ content[f] = Gone /\ UNCHANGED <<known, prefilled, misses>>
     \/ /\ content[f] # Gone /\ hashRow[f].stamp = stamp[f] /\ hashRow[f].digest # NONE
        /\ ApplyDigest(f, hashRow[f].digest) /\ UNCHANGED misses
     \/ /\ content[f] # Gone /\ (hashRow[f].stamp # stamp[f] \/ hashRow[f].digest = NONE)
        /\ misses' = misses \cup {[file |-> f, stamp |-> stamp[f]]}
        /\ UNCHANGED <<known, prefilled>>
  /\ UNCHANGED <<fileVars, tier, dbVars, scanVars, newRows, hashed, read>>

\* Mutant: the time is read when the rows are stored.
BatchedLate(rows) ==
  [f \in HashedFile |-> IF \E r \in rows : r.file = f
                  THEN LET r == CHOOSE x \in rows : x.file = f
                       IN  [stamp |-> stamp[f], digest |-> r.digest]
                  ELSE hashRow[f]]

\* set_batch: all of the rows or, when it fails, none.
Batched(rows) ==
  [f \in HashedFile |-> IF \E r \in rows : r.file = f
                  THEN LET r == CHOOSE x \in rows : x.file = f
                       IN  [stamp |-> r.stamp, digest |-> r.digest]
                  ELSE hashRow[f]]
SetBatch(rows) == newRows' = {} /\ hashRow' \in {hashRow, Batched(rows)}
CountHashed(rows) ==
  /\ hashed' = hashed + 1
  /\ IF hashed' % HASH_BATCH = 0 THEN SetBatch(rows)
     ELSE newRows' = rows /\ UNCHANGED hashRow

\* What is stored for a file that was hashed: the time read before.
HashedRow(miss) == [file |-> miss.file, stamp |-> miss.stamp, digest |-> Calculated("digest", content[miss.file])]

\* A worker of the pool, or the sequential retry of one that failed, hashes a file.
HashFile(miss) ==
  /\ phase = "hashing" /\ unchecked = {} /\ miss \in misses /\ misses' = misses \ {miss}
  /\ \/ /\ content[miss.file] # Gone
        /\ ApplyDigest(miss.file, HashedRow(miss).digest)
        /\ CountHashed(newRows \cup {HashedRow(miss)})
     \/ \* it cannot be read
        CountHashed(newRows) /\ UNCHANGED <<known, prefilled>>
  /\ UNCHANGED <<fileVars, tier, row, pending, algorithm, scanVars, unchecked, read>>

EndHashing ==
  /\ phase = "hashing" /\ unchecked = {} /\ misses = {}
  /\ phase' = "classes" /\ SetBatch(newRows)
  /\ UNCHANGED <<fileVars, tier, row, pending, algorithm, sampled, scanned, scans, unchecked,
                 misses, hashed, prefilled, known, read>>

-----------------------------------------------------------------------------
\* File._read_info

\* The attribute content_classes reads in its second pass.
FullKey == IF sampled THEN "digest_samples" ELSE "digest"

\* Two files agree on a key: None agrees with nothing.
Agree(f, g, key) == known[f][key] = known[g][key] /\ known[f][key] \notin {NONE, NOT_SET}

\* The next attributes content_classes needs: all partial digests, then the full ones of
\* files that share their partial one.
NeedsPartial == {f \in scanned : known[f].digest_partial = NOT_SET}
NeedsFull == {f \in scanned : /\ known[f][FullKey] = NOT_SET
                              /\ \E g \in scanned \ {f} : Agree(f, g, "digest_partial")}
Asked ==
  IF phase = "done" THEN {<<f, "digest">> : f \in {g \in scanned : known[g].digest = NOT_SET}}
  ELSE IF phase # "classes" \/ Cardinality(scanned) < 2 THEN {}
  ELSE IF NeedsPartial # {} THEN {<<f, "digest_partial">> : f \in NeedsPartial}
  ELSE {<<f, FullKey>> : f \in NeedsFull}

Known(f, key, d) == known' = [known EXCEPT ![f][key] = d]
Reading(f, key, step, wanted) == read' = [file |-> f, key |-> key, step |-> step, wanted |-> wanted]

\* A small file's partial or samples digest is its full one.
TakesFull(key) ==
  (key = "digest_partial" /\ tier = "tiny") \/ (key = "digest_samples" /\ tier # "large")

\* The samples digest of a small file is not looked up, nor stored.
StartRead(f, key) ==
  /\ read = NoRead
  /\ IF key = "digest_samples" /\ TakesFull(key)
     THEN Reading(f, "digest", "get", key) /\ UNCHANGED known
     ELSE IF Stored(f, key) # NONE
     THEN Known(f, key, Stored(f, key)) /\ UNCHANGED read
     ELSE IF TakesFull(key) THEN Reading(f, "digest", "get", key) /\ UNCHANGED known
     ELSE Reading(f, key, "calc", key) /\ UNCHANGED known
  /\ UNCHANGED <<fileVars, tier, dbVars, poolVars, scanVars>>

\* What the running read was for: back to the attribute that asked for the full digest.
Finish(d) ==
  IF read.key = read.wanted THEN read' = NoRead /\ Known(read.file, read.key, d)
  ELSE IF read.wanted = "digest_samples"
  THEN /\ read' = NoRead
       /\ known' = [known EXCEPT ![read.file] = [@ EXCEPT !.digest = d, !.digest_samples = d]]
  ELSE /\ Reading(read.file, read.wanted, "put", read.wanted)
       /\ known' = [known EXCEPT ![read.file] = [@ EXCEPT !.digest = d, !.digest_partial = d]]

\* The full digest, on behalf of another attribute.
GetFull ==
  /\ read # NoRead /\ read.step = "get"
  /\ LET f == read.file
         d == IF known[f].digest # NOT_SET THEN known[f].digest ELSE Stored(f, "digest")
     IN IF known[f].digest # NOT_SET \/ d # NONE
        THEN Finish(d)
        ELSE Reading(f, "digest", "calc", read.wanted) /\ UNCHANGED known
  /\ UNCHANGED <<fileVars, tier, dbVars, poolVars, scanVars>>

\* The file is read; what cannot be read leaves None, unstored.
Calc ==
  /\ read # NoRead /\ read.step = "calc"
  /\ \/ /\ content[read.file] # Gone
        /\ Known(read.file, read.key, Calculated(read.key, content[read.file]))
        /\ Reading(read.file, read.key, "put", read.wanted)
     \/ \* an exception reaches the attribute that was asked for first
        /\ known' = [known EXCEPT ![read.file] =
                       [@ EXCEPT ![read.key] = NONE, ![read.wanted] = NONE]]
        /\ read' = NoRead
  /\ UNCHANGED <<fileVars, tier, dbVars, poolVars, scanVars>>

\* put, with the time the file has now.
PutRead ==
  /\ read # NoRead /\ read.step = "put"
  /\ LET f == read.file IN
       /\ IF content[f] = Gone THEN UNCHANGED <<row, pending>>
          ELSE Put([file |-> f, key |-> read.key, stamp |-> stamp[f], value |-> known[f][read.key]])
       /\ Finish(known[f][read.key])
  /\ UNCHANGED <<fileVars, tier, hashRow, algorithm, poolVars, scanVars>>

\* The classes are complete; _job_completed commits both databases.
FinishScan ==
  /\ phase = "classes" /\ read = NoRead /\ Asked = {}
  /\ phase' = "done" /\ FlushPuts(pending)
  /\ UNCHANGED <<fileVars, tier, hashRow, algorithm, poolVars, sampled, scanned, scans, known, read>>

\* Two files of one class; a clone deletion reads their full digests later.
SameClass(f, g) == Agree(f, g, "digest_partial") /\ Agree(f, g, FullKey)

-----------------------------------------------------------------------------
\* Another program writes, removes or creates a file of the same size: it has a new time.
Write(f, c) ==
  /\ writes < WriteBound /\ writes' = writes + 1 /\ c # content[f]
  /\ content' = [content EXCEPT ![f] = c] /\ stamp' = [stamp EXCEPT ![f] = @ + 1]
  /\ touched' = (phase # "idle")
  /\ raced' = (raced \/ phase \in {"hashing", "classes"} \/ read # NoRead)
  /\ UNCHANGED <<tier, dbVars, poolVars, scanVars, known, read>>

DigestNext ==
  \/ Reopen \/ Crash \/ ClearHashCache \/ StartScan \/ CancelScan
  \/ \E f \in HashedFile : CheckHashCache(f)
  \/ \E miss \in misses : HashFile(miss)
  \/ EndHashing
  \/ \E a \in Asked : StartRead(a[1], a[2])
  \/ GetFull \/ Calc \/ PutRead \/ FinishScan
  \/ \E f \in HashedFile, c \in Content \cup {Gone} : Write(f, c)

DigestSpec == DigestInit /\ [][DigestNext]_digestVars

-----------------------------------------------------------------------------
DigestTypeOK ==
  /\ content \in [HashedFile -> Content \cup {Gone}] /\ stamp \in [HashedFile -> Nat]
  /\ phase \in {"idle", "hashing", "classes", "done"}
  /\ sampled \in BOOLEAN /\ scanned \subseteq HashedFile /\ unchecked \subseteq scanned
  /\ \A f \in HashedFile : hashRow[f].stamp <= stamp[f]
  /\ \A miss \in misses : miss.file \in scanned /\ miss.stamp \in Nat
  /\ Len(pending) < BATCH_SIZE
  /\ prefilled \subseteq scanned

\* A digest the hash cache would hand out is the one of the bytes the file has now, whatever
\* was written, crashed, purged or upgraded meanwhile (hash_cache.py: "keyed on (path, size,
\* mtime_ns)"; the time is read before the file is hashed).
HashRowsAreTrue ==
  /\ DigestTypeOK
  /\ \A f \in HashedFile :
       hashRow[f].stamp = stamp[f] /\ content[f] # Gone /\ hashRow[f].digest # NONE =>
         hashRow[f].digest = Calculated("digest", content[f])

\* The files a scan got from the hash cache or the pool are in one class exactly when they
\* have the same bytes, if nothing wrote to them and they are compared in full.
ClassesAreRight ==
  phase = "done" /\ ~touched /\ ~sampled =>
    \A f, g \in prefilled : f # g => (SameClass(f, g) <=> content[f] = content[g])

\* Files above the threshold that are put in one class have the same samples, at least while
\* no file is ever written during a scan (file_list_cache.py: "Digests are computed from real
\* file content").
SampledClassesAreRight ==
  phase = "done" /\ ~touched /\ ~raced /\ sampled =>
    \A f, g \in scanned : f # g /\ SameClass(f, g) => SamplesOf[content[f]] = SamplesOf[content[g]]
=============================================================================
