---------------------------- MODULE CacheProofs -----------------------------
(***************************************************************************)
(* What the caches hold is what they would compute now: the digests of the *)
(* hash cache with the classes found from them (Digests), the union of     *)
(* exclusion patterns that a walk applies (ExcludeList, as Collection      *)
(* composes it), and the listings of folders that a walk is served         *)
(* (Collection).  For any files, contents, algorithms, patterns and trees  *)
(* of folders.                                                             *)
(***************************************************************************)
EXTENDS Digests, Collection, SequenceTheorems, TLAPS

-----------------------------------------------------------------------------
(* The hash cache and the search for classes.                              *)

\* A row of the hash cache, or one about to be stored, never has a time later than its file's;
\* and with that of its file it has the digest of what is there.
RowIsTrue(f, time, digest) ==
  /\ time \in Nat /\ time <= stamp[f]
  /\ time = stamp[f] /\ content[f] # Gone /\ digest # NONE
     => digest = Calculated("digest", content[f])
RowsAreTrue ==
  /\ algorithm \in Algorithm /\ DOMAIN hashRow = HashedFile
  /\ \A f \in HashedFile : RowIsTrue(f, hashRow[f].stamp, hashRow[f].digest)
  /\ \A r \in newRows : r.file \in HashedFile /\ RowIsTrue(r.file, r.stamp, r.digest)
  /\ \A miss \in misses : miss.stamp <= stamp[miss.file]
PendingIsASequence == \E S : pending \in Seq(S)

\* What the parallel pass knows of a file, and that nobody else learns anything of it.
PrefilledAreKnown ==
  /\ DOMAIN known = HashedFile
  /\ phase = "idle" => prefilled = {}
  /\ phase \in {"idle", "hashing"} => read = NoRead
  /\ ~sampled =>
       /\ read # NoRead => read.file \notin prefilled
       /\ \A f \in prefilled : \A key \in Keys : known[f][key] # NOT_SET
       /\ ~touched => \A f \in prefilled :
            content[f] # Gone
              /\ \A key \in Keys : known[f][key] = Calculated("digest", content[f])
  /\ \A f \in HashedFile : DOMAIN known[f] = Keys
  /\ read # NoRead => read.file \in HashedFile

DigestInv == DigestTypeOK /\ RowsAreTrue /\ PendingIsASequence /\ PrefilledAreKnown

\* At the start nothing is stored, pending or known.
LEMMA DigestStarts == DigestInit => DigestInv
<1> SUFFICES ASSUME DigestInit PROVE DigestInv
  OBVIOUS
<1>1. DigestTypeOK
  <2>1. Len(pending) < BATCH_SIZE
    <3>1. pending = <<>> /\ Len(pending) = 0
      BY DEF DigestInit
    <3> QED BY <3>1, DigestConstants
  <2>2. \A f \in HashedFile : hashRow[f].stamp = 0 /\ stamp[f] = 1
    BY DEF DigestInit, NoHashRow
  <2>3. stamp \in [HashedFile -> Nat] /\ content \in [HashedFile -> Content \cup {Gone}]
    BY DEF DigestInit
  <2>4. /\ phase = "idle" /\ sampled = FALSE /\ scanned = {} /\ unchecked = {} /\ misses = {}
           /\ prefilled = {}
    BY DEF DigestInit
  <2>5. \A f \in HashedFile : hashRow[f].stamp <= stamp[f]
    BY <2>2
  <2>6. /\ phase \in {"idle", "hashing", "classes", "done"} /\ sampled \in BOOLEAN
        /\ scanned \subseteq HashedFile /\ unchecked \subseteq scanned
           /\ prefilled \subseteq scanned
    BY <2>4
  <2> QED BY <2>1, <2>3, <2>4, <2>5, <2>6 DEF DigestTypeOK
<1>2. RowsAreTrue
  BY DEF DigestInit, RowsAreTrue, RowIsTrue, NoHashRow
<1>3. pending \in Seq({})
  BY DEF DigestInit
<1>4. PrefilledAreKnown
  BY DEF DigestInit, PrefilledAreKnown, Unread
<1> QED BY <1>1, <1>2, <1>3, <1>4 DEF DigestInv, PendingIsASequence

\* The buffer of puts is a sequence shorter than a batch, whatever is put.
LEMMA PendingStep ==
  ASSUME PendingIsASequence, Len(pending) < BATCH_SIZE, [DigestNext]_digestVars
  PROVE  PendingIsASequence' /\ Len(pending') < BATCH_SIZE
<1>1. ASSUME pending' = <<>> PROVE PendingIsASequence' /\ Len(pending') < BATCH_SIZE
  <2>1. pending' \in Seq({}) /\ Len(pending') = 0
    BY <1>1
  <2> QED BY <2>1, DigestConstants DEF PendingIsASequence
<1>2. ASSUME pending' = pending PROVE PendingIsASequence' /\ Len(pending') < BATCH_SIZE
  BY <1>2 DEF PendingIsASequence
<1>3. ASSUME NEW p, Put(p) PROVE PendingIsASequence' /\ Len(pending') < BATCH_SIZE
  <2>1. CASE pending' = <<>>
    BY <1>1, <2>1
  <2>2. CASE pending' = Append(pending, p) /\ ~(Len(pending) + 1 >= BATCH_SIZE)
    <3>1. PICK S : pending \in Seq(S)
      BY DEF PendingIsASequence
    <3>2. pending \in Seq(S \cup {p})
      BY <3>1
    <3>3. pending' \in Seq(S \cup {p}) /\ Len(pending') = Len(pending) + 1 /\ Len(pending) \in Nat
      BY <2>2, <3>2
    <3> QED BY <2>2, <3>3, DigestConstants DEF PendingIsASequence
  <2> QED BY <1>3, <2>1, <2>2 DEF Put, FlushPuts
<1>4. \/ pending' = <<>> \/ pending' = pending \/ \E p : Put(p)
  BY DEF DigestNext, Reopen, Crash, ClearHashCache, StartScan, CancelScan, CheckHashCache,
     HashFile, EndHashing,
         StartRead, GetFull, Calc, PutRead, FinishScan, FlushPuts, Write, digestVars, dbVars
<1> QED BY <1>1, <1>2, <1>3, <1>4

\* A row stays true when its file and the algorithm do.
LEMMA RowsKept ==
  ASSUME RowsAreTrue, UNCHANGED <<content, stamp, algorithm>>, UNCHANGED <<hashRow>>,
         newRows' \subseteq newRows, misses' \subseteq misses
  PROVE  RowsAreTrue'
BY DEF RowsAreTrue, RowIsTrue, Calculated

\* A batch of true rows leaves true rows, in the database or waiting for the commit.
LEMMA BatchKept ==
  ASSUME RowsAreTrue, UNCHANGED <<content, stamp, algorithm>>, misses' \subseteq misses,
         NEW rows, SetBatch(rows), \A r \in rows : r.file \in HashedFile
         /\ RowIsTrue(r.file, r.stamp, r.digest)
  PROVE  RowsAreTrue'
<1>1. \A f, time, digest : RowIsTrue(f, time, digest)' <=> RowIsTrue(f, time, digest)
  BY DEF RowIsTrue, Calculated
<1>2. newRows' = {} /\ algorithm' \in Algorithm
      /\ \A miss \in misses' : miss.stamp <= stamp'[miss.file]
  BY DEF RowsAreTrue, SetBatch
<1>3. CASE hashRow' = hashRow
  BY <1>1, <1>2, <1>3 DEF RowsAreTrue
<1>4. CASE hashRow' = Batched(rows)
  <2>1. DOMAIN hashRow' = HashedFile
    BY <1>4 DEF Batched
  <2>2. ASSUME NEW f \in HashedFile PROVE RowIsTrue(f, hashRow'[f].stamp, hashRow'[f].digest)
    <3>1. CASE \E r \in rows : r.file = f
      <4> DEFINE r == CHOOSE x \in rows : x.file = f
      <4>1. r \in rows /\ r.file = f
        BY <3>1
      <4>2. hashRow'[f] = [stamp |-> r.stamp, digest |-> r.digest]
        BY <1>4, <3>1 DEF Batched
      <4> HIDE DEF r
      <4> QED BY <4>1, <4>2
    <3>2. CASE ~\E r \in rows : r.file = f
      BY <1>4, <3>2 DEF Batched, RowsAreTrue
    <3> QED BY <3>1, <3>2
  <2> QED BY <1>1, <1>2, <2>1, <2>2 DEF RowsAreTrue
<1> QED BY <1>3, <1>4 DEF SetBatch

\* No step makes a row untrue: a file that is written gets a later time, and a digest is
\* stored with the time that was read before its bytes were.
LEMMA RowsStep == DigestInv /\ [DigestNext]_digestVars => RowsAreTrue'
<1> SUFFICES ASSUME DigestInv, [DigestNext]_digestVars PROVE RowsAreTrue'
  OBVIOUS
<1> USE DEF DigestInv
\* The rows that are left after a purge or a new algorithm were there before, or are empty.
<1>1. ASSUME UNCHANGED <<content, stamp>>, newRows' = {}, misses' = {}, algorithm' \in Algorithm,
             DOMAIN hashRow' = HashedFile,
             \A f \in HashedFile : hashRow'[f] = NoHashRow \/ (algorithm' = algorithm
               /\ hashRow'[f] = hashRow[f])
      PROVE  RowsAreTrue'
  <2>1. \A f \in HashedFile : stamp[f] \in Nat
    BY DEF DigestTypeOK
  <2>2. ASSUME NEW f \in HashedFile PROVE RowIsTrue(f, hashRow[f].stamp, hashRow[f].digest)'
    <3>1. CASE hashRow'[f] = NoHashRow
      BY <1>1, <2>1, <3>1 DEF RowIsTrue, NoHashRow
    <3>2. CASE algorithm' = algorithm /\ hashRow'[f] = hashRow[f]
      BY <1>1, <3>2 DEF RowsAreTrue, RowIsTrue, Calculated
    <3> QED BY <1>1, <3>1, <3>2
  <2> QED BY <1>1, <2>2 DEF RowsAreTrue
<1>2. ASSUME NEW rows, Connected(rows, hashRow), Idle, UNCHANGED <<content, stamp>>
      PROVE RowsAreTrue'
  <2>1. /\ algorithm' \in Algorithm /\ DOMAIN hashRow' = HashedFile
        /\ \A f \in HashedFile : hashRow'[f] = NoHashRow \/ (algorithm' = algorithm
             /\ hashRow'[f] = hashRow[f])
    BY <1>2 DEF Connected, RowsAreTrue
  <2> QED BY <1>1, <1>2, <2>1 DEF Idle
<1>3. CASE Reopen
  BY <1>2, <1>3 DEF Reopen
<1>4. CASE Crash
  BY <1>2, <1>4 DEF Crash
<1>5. CASE ClearHashCache
  <2>1. \A f \in HashedFile : RowIsTrue(f, hashRow[f].stamp, hashRow[f].digest)'
    BY <1>5 DEF ClearHashCache, RowIsTrue, NoHashRow, DigestTypeOK, fileVars
  <2>2. \A r \in newRows' : r.file \in HashedFile /\ RowIsTrue(r.file, r.stamp, r.digest)'
    BY <1>5 DEF ClearHashCache, RowsAreTrue, RowIsTrue, Calculated, fileVars, poolVars
  <2> QED BY <1>5, <2>1, <2>2 DEF ClearHashCache, RowsAreTrue, fileVars, poolVars
<1>6. CASE StartScan
  <2>1. UNCHANGED <<content, stamp, algorithm>> /\ newRows' = {} /\ misses' = {}
        /\ algorithm' \in Algorithm
    BY <1>6 DEF StartScan, RowsAreTrue
  <2>2. hashRow' = hashRow \/ \E old : hashRow' = Purged(hashRow, NoHashRow, old)
    BY <1>6 DEF StartScan
  <2>3. DOMAIN hashRow' = HashedFile
        /\ \A f \in HashedFile : hashRow'[f] = NoHashRow \/ hashRow'[f] = hashRow[f]
    BY <2>2 DEF Purged, RowsAreTrue
  <2> QED BY <1>1, <2>1, <2>3
<1>7. CASE CancelScan
  <2>1. UNCHANGED <<content, stamp, algorithm, hashRow>> /\ newRows' = {} /\ misses' = {}
    BY <1>7 DEF CancelScan, Idle, dbVars
  <2> QED BY <2>1, RowsKept
<1>8. ASSUME NEW f \in HashedFile, CheckHashCache(f) PROVE RowsAreTrue'
  <2>1. UNCHANGED <<content, stamp, algorithm, hashRow, newRows>>
    BY <1>8 DEF CheckHashCache, fileVars, dbVars
  <2>2. misses' \subseteq misses \cup {[file |-> f, stamp |-> stamp[f]]}
    BY <1>8 DEF CheckHashCache
  <2>3. \A miss \in misses' : miss.stamp <= stamp[miss.file]
    <3>1. stamp[f] \in Nat
      BY DEF DigestTypeOK
    <3> QED BY <2>2, <3>1 DEF RowsAreTrue
  <2> QED BY <2>1, <2>3 DEF RowsAreTrue, RowIsTrue, Calculated
<1>9. ASSUME NEW miss \in misses, HashFile(miss) PROVE RowsAreTrue'
  <2> DEFINE r == HashedRow(miss)
  <2>1. UNCHANGED <<content, stamp, algorithm>> /\ misses' \subseteq misses
    BY <1>9 DEF HashFile, fileVars
  <2>2. miss.file \in HashedFile /\ miss.stamp \in Nat /\ miss.stamp <= stamp[miss.file]
    BY DEF DigestTypeOK, RowsAreTrue
  <2>3. r.file = miss.file /\ r.stamp = miss.stamp
        /\ r.digest = Calculated("digest", content[miss.file])
    BY DEF HashedRow
  <2> HIDE DEF r
  <2>4. r.file \in HashedFile /\ RowIsTrue(r.file, r.stamp, r.digest)
    BY <2>2, <2>3 DEF RowIsTrue
  <2>5. ASSUME NEW rows, CountHashed(rows), rows \subseteq newRows \cup {r} PROVE RowsAreTrue'
    <3>1. \A x \in rows : x.file \in HashedFile /\ RowIsTrue(x.file, x.stamp, x.digest)
      BY <2>4, <2>5 DEF RowsAreTrue
    <3>2. CASE SetBatch(rows)
      BY <2>1, <3>1, <3>2, BatchKept
    <3>3. CASE newRows' = rows /\ hashRow' = hashRow
      BY <2>1, <3>1, <3>3 DEF RowsAreTrue, RowIsTrue, Calculated
    <3> QED BY <2>5, <3>2, <3>3 DEF CountHashed
  <2>6. CountHashed(newRows \cup {r}) \/ CountHashed(newRows)
    BY <1>9 DEF HashFile, r
  <2> QED BY <2>5, <2>6
<1>10. CASE EndHashing
  <2>1. UNCHANGED <<content, stamp, algorithm>> /\ misses' = misses /\ SetBatch(newRows)
    BY <1>10 DEF EndHashing, fileVars
  <2> QED BY <2>1, BatchKept DEF RowsAreTrue
<1>11. ASSUME NEW f, NEW key, StartRead(f, key) PROVE RowsAreTrue'
  BY <1>11, RowsKept DEF StartRead, fileVars, dbVars, poolVars
<1>12. CASE GetFull \/ Calc
  BY <1>12, RowsKept DEF GetFull, Calc, fileVars, dbVars, poolVars
<1>13. CASE PutRead \/ FinishScan
  BY <1>13, RowsKept DEF PutRead, FinishScan, fileVars, poolVars
<1>14. ASSUME NEW f \in HashedFile, NEW c \in Content \cup {Gone}, Write(f, c) PROVE RowsAreTrue'
  <2>1. /\ stamp' = [stamp EXCEPT ![f] = @ + 1] /\ content' = [content EXCEPT ![f] = c]
        /\ UNCHANGED <<algorithm, hashRow, newRows, misses>>
    BY <1>14 DEF Write, dbVars, poolVars
  <2>2. \A g \in HashedFile : stamp[g] \in Nat
        /\ stamp'[g] = (IF g = f THEN stamp[g] + 1 ELSE stamp[g])
                              /\ (g # f => content'[g] = content[g])
    BY <2>1 DEF DigestTypeOK
  <2>3. ASSUME NEW g \in HashedFile, NEW time, NEW digest, RowIsTrue(g, time, digest)
        PROVE RowIsTrue(g, time, digest)'
    <3>1. CASE g = f
      BY <2>2, <2>3, <3>1 DEF RowIsTrue
    <3>2. CASE g # f
      BY <2>1, <2>2, <2>3, <3>2 DEF RowIsTrue, Calculated
    <3> QED BY <3>1, <3>2
  <2>4. \A miss \in misses' : miss.stamp <= stamp'[miss.file]
    <3> SUFFICES ASSUME NEW miss \in misses PROVE miss.stamp <= stamp'[miss.file]
      BY <2>1
    <3>1. miss.file \in HashedFile /\ miss.stamp \in Nat /\ miss.stamp <= stamp[miss.file]
      BY DEF DigestTypeOK, RowsAreTrue
    <3> QED BY <2>2, <3>1
  <2> QED BY <2>1, <2>3, <2>4 DEF RowsAreTrue
<1>15. CASE UNCHANGED digestVars
  BY <1>15, RowsKept DEF digestVars, fileVars, dbVars, poolVars
<1> QED BY <1>3, <1>4, <1>5, <1>6, <1>7, <1>8, <1>9, <1>10, <1>11, <1>12, <1>13, <1>14,
           <1>15 DEF DigestNext

\* Types.
LEMMA DigestTypeStep == DigestInv /\ [DigestNext]_digestVars => DigestTypeOK'
<1> SUFFICES ASSUME DigestInv, [DigestNext]_digestVars PROVE DigestTypeOK'
  OBVIOUS
<1> USE DEF DigestInv
<1>1. Len(pending') < BATCH_SIZE
  BY PendingStep DEF DigestTypeOK
<1>2. RowsAreTrue'
  BY RowsStep
<1>3. \A f \in HashedFile : hashRow'[f].stamp <= stamp'[f]
  BY <1>2 DEF RowsAreTrue, RowIsTrue
<1>4. content' \in [HashedFile -> Content \cup {Gone}] /\ stamp' \in [HashedFile -> Nat]
  <2>1. UNCHANGED <<content, stamp>> \/ \E f \in HashedFile,
    c \in Content \cup {Gone} : Write(f, c)
    BY DEF DigestNext, Reopen, Crash, ClearHashCache, StartScan, CancelScan, CheckHashCache,
       HashFile, EndHashing,
           StartRead, GetFull, Calc, PutRead, FinishScan, digestVars, fileVars
  <2>2. ASSUME NEW f \in HashedFile, NEW c \in Content \cup {Gone}, Write(f, c) PROVE <1>4
    <3>1. content' = [content EXCEPT ![f] = c] /\ stamp' = [stamp EXCEPT ![f] = @ + 1]
      BY <2>2 DEF Write
    <3> QED BY <3>1 DEF DigestTypeOK
  <2> QED BY <2>1, <2>2 DEF DigestTypeOK
<1>5. phase' \in {"idle", "hashing", "classes", "done"} /\ sampled' \in BOOLEAN
  BY DEF DigestNext, Reopen, Crash, ClearHashCache, StartScan, CancelScan, CheckHashCache,
     HashFile, EndHashing,
         StartRead, GetFull, Calc, PutRead, FinishScan, Write, Idle, digestVars, scanVars,
           DigestTypeOK
<1>6. /\ scanned' \subseteq HashedFile /\ unchecked' \subseteq scanned'
      /\ \A miss \in misses' : miss.file \in scanned' /\ miss.stamp \in Nat
      /\ prefilled' \subseteq scanned'
  <2>1. CASE Reopen \/ Crash \/ CancelScan
    BY <2>1 DEF Reopen, Crash, CancelScan, Idle
  <2>2. CASE StartScan
    BY <2>2 DEF StartScan
  <2>3. ASSUME NEW f \in HashedFile, CheckHashCache(f) PROVE <1>6
    <3>1. /\ scanned' = scanned /\ unchecked' \subseteq unchecked /\ f \in unchecked
          /\ misses' \subseteq misses \cup {[file |-> f, stamp |-> stamp[f]]}
             /\ prefilled' \subseteq prefilled \cup {f}
      BY <2>3 DEF CheckHashCache, ApplyDigest, scanVars
    <3> QED BY <3>1 DEF DigestTypeOK
  <2>4. ASSUME NEW miss \in misses, HashFile(miss) PROVE <1>6
    <3>1. /\ scanned' = scanned /\ unchecked' = unchecked
          /\ misses' \subseteq misses /\ prefilled' \subseteq prefilled \cup {miss.file}
      BY <2>4 DEF HashFile, ApplyDigest, scanVars
    <3> QED BY <3>1 DEF DigestTypeOK
  <2>5. ASSUME UNCHANGED <<scanned, unchecked, misses, prefilled>> PROVE <1>6
    BY <2>5 DEF DigestTypeOK
  <2>6. \/ Reopen \/ Crash \/ CancelScan \/ StartScan \/ (\E f \in HashedFile : CheckHashCache(f))
        \/ (\E miss \in misses : HashFile(miss))
             \/ UNCHANGED <<scanned, unchecked, misses, prefilled>>
    BY DEF DigestNext, ClearHashCache, EndHashing, StartRead, GetFull, Calc, PutRead, FinishScan,
       Write, digestVars,
           poolVars, scanVars
  <2> QED BY <2>1, <2>2, <2>3, <2>4, <2>5, <2>6
<1> QED BY <1>1, <1>3, <1>4, <1>5, <1>6 DEF DigestTypeOK

\* What is computed is neither of the marks for nothing.
LEMMA DigestIsSome ==
  ASSUME DigestInv, NEW f \in HashedFile, content[f] # Gone
  PROVE  Calculated("digest", content[f]) \notin {NONE, NOT_SET}
BY DigestConstants DEF DigestInv, DigestTypeOK, RowsAreTrue, Calculated

\* A file that is given a digest while nothing else is read.
LEMMA ApplyKeeps ==
  ASSUME DigestInv, phase = "hashing", NEW f \in HashedFile, content[f] # Gone,
         ApplyDigest(f, Calculated("digest", content[f])),
         UNCHANGED <<content, touched, algorithm, phase, sampled, read>>
  PROVE  PrefilledAreKnown'
<1> DEFINE d == Calculated("digest", content[f])
<1>1. known' = [known EXCEPT ![f] = Applied(d)] /\ prefilled' = prefilled \cup {f}
  BY DEF ApplyDigest
<1>2. DOMAIN Applied(d) = Keys
  BY DEF Applied, Unread
<1>3. ~sampled => \A key \in Keys : Applied(d)[key] = d
  BY DEF Applied
<1>4. d # NOT_SET
  BY DigestIsSome
<1> HIDE DEF d
<1>5. DOMAIN known' = HashedFile
      /\ \A g \in HashedFile : known'[g] = IF g = f THEN Applied(d) ELSE known[g]
  BY <1>1 DEF DigestInv, PrefilledAreKnown
<1>6. prefilled \subseteq HashedFile
  BY DEF DigestInv, DigestTypeOK
<1>7. Calculated("digest", content[f])' = d
      /\ \A g : Calculated("digest", content[g])' = Calculated("digest", content[g])
  BY DEF Calculated, d
<1>8. read' = NoRead
  BY DEF DigestInv, PrefilledAreKnown
<1>9. \A g \in HashedFile : DOMAIN known'[g] = Keys
  BY <1>2, <1>5 DEF DigestInv, PrefilledAreKnown
<1>10. ASSUME ~sampled, NEW g \in prefilled', NEW key \in Keys
       PROVE  known'[g][key] # NOT_SET
              /\ (~touched => content[g] # Gone
                   /\ known'[g][key] = Calculated("digest", content[g]))
  <2>1. CASE g = f
    BY <1>3, <1>4, <1>5, <1>10, <2>1 DEF d
  <2>2. CASE g # f
    BY <1>1, <1>5, <1>6, <1>10, <2>2 DEF DigestInv, PrefilledAreKnown
  <2> QED BY <2>1, <2>2
<1>11. ASSUME ~sampled, ~touched, NEW g \in prefilled' PROVE content[g] # Gone
  BY <1>1, <1>11 DEF DigestInv, PrefilledAreKnown
<1> QED BY <1>5, <1>7, <1>8, <1>9, <1>10, <1>11 DEF PrefilledAreKnown

\* What is read is not of a file that the parallel pass filled.
LEMMA ReadKeeps ==
  ASSUME DigestInv, phase \notin {"idle", "hashing"}, NEW f \in HashedFile, ~sampled
         => f \notin prefilled,
         DOMAIN known' = HashedFile, \A g \in HashedFile \ {f} : known'[g] = known[g],
           DOMAIN known'[f] = Keys,
         read' = NoRead \/ read' = read \/ read'.file = f,
         UNCHANGED <<content, touched, algorithm, phase, sampled, prefilled>>
  PROVE  PrefilledAreKnown'
<1>1. prefilled \subseteq HashedFile
  BY DEF DigestInv, DigestTypeOK
<1>2. \A g : Calculated("digest", content[g])' = Calculated("digest", content[g])
  BY DEF Calculated
<1>3. read' # NoRead => read'.file \in HashedFile /\ (~sampled => read'.file \notin prefilled)
  BY DEF DigestInv, PrefilledAreKnown
<1>4. \A g \in HashedFile : DOMAIN known'[g] = Keys
  BY DEF DigestInv, PrefilledAreKnown
<1>5. ~sampled => \A g \in prefilled : known'[g] = known[g]
  BY <1>1
<1> QED BY <1>2, <1>3, <1>4, <1>5 DEF DigestInv, PrefilledAreKnown

\* The files that are read in full after the parallel pass.
LEMMA FinishIs ==
  ASSUME DigestInv, read # NoRead, NEW d, Finish(d)
  PROVE  /\ DOMAIN known' = HashedFile /\ DOMAIN known'[read.file] = Keys
         /\ \A g \in HashedFile \ {read.file} : known'[g] = known[g]
         /\ read' = NoRead \/ read'.file = read.file
<1>1. DOMAIN known = HashedFile /\ read.file \in HashedFile /\ DOMAIN known[read.file] = Keys
  BY DEF DigestInv, PrefilledAreKnown
<1>2. CASE read' = NoRead /\ Known(read.file, read.key, d)
  <2>1. known' = [known EXCEPT ![read.file] = [known[read.file] EXCEPT ![read.key] = d]]
    BY <1>2 DEF Known
  <2> QED BY <1>1, <1>2, <2>1
<1>3. CASE read' = NoRead
           /\ known' = [known EXCEPT ![read.file] = [@ EXCEPT !.digest = d, !.digest_samples = d]]
  <2>1. known' = [known EXCEPT ![read.file]
                  = [[known[read.file] EXCEPT !.digest = d] EXCEPT !.digest_samples = d]]
    BY <1>3
  <2> QED BY <1>1, <1>3, <2>1
<1>4. CASE /\ Reading(read.file, read.wanted, "put", read.wanted)
           /\ known' = [known EXCEPT ![read.file] = [@ EXCEPT !.digest = d, !.digest_partial = d]]
  <2>1. known' = [known EXCEPT ![read.file]
                  = [[known[read.file] EXCEPT !.digest = d] EXCEPT !.digest_partial = d]]
    BY <1>4
  <2> QED BY <1>1, <1>4, <2>1 DEF Reading
<1> QED BY <1>2, <1>3, <1>4 DEF Finish

\* The parallel pass fills what the serial one then leaves alone.
LEMMA PrefilledStep == DigestInv /\ [DigestNext]_digestVars => PrefilledAreKnown'
<1> SUFFICES ASSUME DigestInv, [DigestNext]_digestVars PROVE PrefilledAreKnown'
  OBVIOUS
\* Nothing is filled in and nothing is read.
<1>1. ASSUME prefilled' = {}, read' = NoRead, known' = [f \in HashedFile |-> Unread]
      PROVE PrefilledAreKnown'
  BY <1>1 DEF PrefilledAreKnown, Unread
<1>2. ASSUME UNCHANGED <<content, touched, algorithm, sampled, prefilled, known, read>>,
             phase' = phase \/ (phase # "idle" /\ phase' \notin {"idle", "hashing"})
      PROVE  PrefilledAreKnown'
  <2>1. \A g : Calculated("digest", content[g])' = Calculated("digest", content[g])
    BY <1>2 DEF Calculated
  <2> QED BY <1>2, <2>1 DEF DigestInv, PrefilledAreKnown
<1>3. CASE Reopen \/ Crash \/ CancelScan
  BY <1>1, <1>3 DEF Reopen, Crash, CancelScan, Idle
<1>4. CASE StartScan
  BY <1>1, <1>4 DEF StartScan
<1>5. CASE ClearHashCache
  BY <1>2, <1>5 DEF ClearHashCache, fileVars, poolVars, scanVars
<1>6. ASSUME NEW f \in HashedFile, CheckHashCache(f) PROVE PrefilledAreKnown'
  <2>1. phase = "hashing" /\ UNCHANGED <<content, touched, algorithm, phase, sampled, read>>
    BY <1>6 DEF CheckHashCache, fileVars, dbVars, scanVars
  <2>2. CASE UNCHANGED <<known, prefilled>>
    BY <1>2, <2>1, <2>2
  <2>3. CASE content[f] # Gone /\ hashRow[f].stamp = stamp[f] /\ hashRow[f].digest # NONE
             /\ ApplyDigest(f, hashRow[f].digest)
    <3>1. hashRow[f].digest = Calculated("digest", content[f])
      BY <2>3 DEF DigestInv, RowsAreTrue, RowIsTrue
    <3> QED BY <2>1, <2>3, <3>1, ApplyKeeps
  <2> QED BY <1>6, <2>2, <2>3 DEF CheckHashCache
<1>7. ASSUME NEW miss \in misses, HashFile(miss) PROVE PrefilledAreKnown'
  <2>1. phase = "hashing" /\ UNCHANGED <<content, touched, algorithm, phase, sampled, read>>
    BY <1>7 DEF HashFile, fileVars, scanVars
  <2>2. CASE UNCHANGED <<known, prefilled>>
    BY <1>2, <2>1, <2>2
  <2>3. CASE content[miss.file] # Gone /\ ApplyDigest(miss.file, HashedRow(miss).digest)
    <3>1. HashedRow(miss).digest = Calculated("digest", content[miss.file])
          /\ miss.file \in HashedFile
      BY DEF HashedRow, DigestInv, DigestTypeOK
    <3> QED BY <2>1, <2>3, <3>1, ApplyKeeps
  <2> QED BY <1>7, <2>2, <2>3 DEF HashFile
<1>8. CASE EndHashing
  BY <1>2, <1>8 DEF EndHashing, fileVars
<1>9. ASSUME NEW a \in Asked, StartRead(a[1], a[2]) PROVE PrefilledAreKnown'
  <2>1. /\ phase \notin {"idle", "hashing"} /\ a[1] \in scanned /\ a[2] \in Keys
        /\ \E key \in Keys : known[a[1]][key] = NOT_SET
    BY DEF Asked, NeedsPartial, NeedsFull, FullKey, Keys, DigestInv, DigestTypeOK
  <2>2. a[1] \in HashedFile /\ (~sampled => a[1] \notin prefilled)
    BY <2>1 DEF DigestInv, DigestTypeOK, PrefilledAreKnown
  <2>3. UNCHANGED <<content, touched, algorithm, phase, sampled, prefilled>>
    BY <1>9 DEF StartRead, fileVars, dbVars, poolVars, scanVars
  <2>4. CASE UNCHANGED known /\ read'.file = a[1]
    BY <2>1, <2>2, <2>3, <2>4, ReadKeeps DEF DigestInv, PrefilledAreKnown
  <2>5. ASSUME NEW d, Known(a[1], a[2], d), UNCHANGED read PROVE PrefilledAreKnown'
    <3>1. known' = [known EXCEPT ![a[1]] = [known[a[1]] EXCEPT ![a[2]] = d]]
      BY <2>5 DEF Known
    <3>2. DOMAIN known' = HashedFile /\ DOMAIN known'[a[1]] = Keys
          /\ \A g \in HashedFile \ {a[1]} : known'[g] = known[g]
      BY <2>2, <3>1 DEF DigestInv, PrefilledAreKnown
    <3> QED BY <2>1, <2>2, <2>3, <2>5, <3>2, ReadKeeps
  <2>6. (UNCHANGED known /\ read'.file = a[1]) \/ \E d : Known(a[1], a[2], d) /\ UNCHANGED read
    BY <1>9 DEF StartRead, Reading
  <2> QED BY <2>4, <2>5, <2>6
<1>10. ASSUME read # NoRead, DOMAIN known' = HashedFile, DOMAIN known'[read.file] = Keys,
              \A g \in HashedFile \ {read.file} : known'[g] = known[g], read' = NoRead
                \/ read'.file = read.file,
              UNCHANGED <<content, touched, algorithm, phase, sampled, prefilled>>
       PROVE  PrefilledAreKnown'
  <2>1. phase \notin {"idle", "hashing"} /\ read.file \in HashedFile
        /\ (~sampled => read.file \notin prefilled)
    BY <1>10 DEF DigestInv, PrefilledAreKnown
  <2> QED BY <1>10, <2>1, ReadKeeps
<1>11. CASE GetFull
  <2>1. UNCHANGED <<content, touched, algorithm, phase, sampled, prefilled>> /\ read # NoRead
    BY <1>11 DEF GetFull, fileVars, dbVars, poolVars, scanVars
  <2>2. (\E d : Finish(d)) \/ (read'.file = read.file /\ UNCHANGED known)
    BY <1>11 DEF GetFull, Reading
  <2>3. CASE \E d : Finish(d)
    BY <1>10, <2>1, <2>3, FinishIs
  <2>4. CASE read'.file = read.file /\ UNCHANGED known
    <3>1. DOMAIN known' = HashedFile /\ DOMAIN known'[read.file] = Keys
      BY <2>1, <2>4 DEF DigestInv, PrefilledAreKnown
    <3> QED BY <1>10, <2>1, <2>4, <3>1
  <2> QED BY <2>2, <2>3, <2>4
<1>12. CASE Calc
  <2>1. UNCHANGED <<content, touched, algorithm, phase, sampled, prefilled>> /\ read # NoRead
    BY <1>12 DEF Calc, fileVars, dbVars, poolVars, scanVars
  <2>2. DOMAIN known = HashedFile /\ read.file \in HashedFile /\ DOMAIN known[read.file] = Keys
    BY <2>1 DEF DigestInv, PrefilledAreKnown
  <2>3. ASSUME NEW d, Known(read.file, read.key, d),
               Reading(read.file, read.key, "put", read.wanted) PROVE PrefilledAreKnown'
    <3>1. known' = [known EXCEPT ![read.file] = [known[read.file] EXCEPT ![read.key] = d]]
      BY <2>3 DEF Known
    <3>2. DOMAIN known' = HashedFile /\ DOMAIN known'[read.file] = Keys
          /\ \A g \in HashedFile \ {read.file} : known'[g] = known[g]
      BY <2>2, <3>1
    <3> QED BY <1>10, <2>1, <2>3, <3>2 DEF Reading
  <2>4. CASE /\ known' = [known EXCEPT ![read.file] = [@ EXCEPT ![read.key] = NONE,
                                                       ![read.wanted] = NONE]]
             /\ read' = NoRead
    <3>1. known' = [known EXCEPT ![read.file]
                    = [[known[read.file] EXCEPT ![read.key] = NONE] EXCEPT ![read.wanted] = NONE]]
      BY <2>4
    <3>2. DOMAIN known' = HashedFile /\ DOMAIN known'[read.file] = Keys
          /\ \A g \in HashedFile \ {read.file} : known'[g] = known[g]
      BY <2>2, <3>1
    <3> QED BY <1>10, <2>1, <2>4, <3>2
  <2> QED BY <1>12, <2>3, <2>4 DEF Calc
<1>13. CASE PutRead
  <2>1. UNCHANGED <<content, touched, algorithm, phase, sampled, prefilled>> /\ read # NoRead
    BY <1>13 DEF PutRead, fileVars, poolVars, scanVars
  <2>2. \E d : Finish(d)
    BY <1>13 DEF PutRead
  <2> QED BY <1>10, <2>1, <2>2, FinishIs
<1>14. CASE FinishScan
  BY <1>2, <1>14 DEF FinishScan, fileVars, poolVars
<1>15. ASSUME NEW f \in HashedFile, NEW c, Write(f, c) PROVE PrefilledAreKnown'
  <2>1. UNCHANGED <<algorithm, sampled, prefilled, known, read, phase>>
        /\ touched' = (phase # "idle")
    BY <1>15 DEF Write, dbVars, poolVars, scanVars
  <2> QED BY <2>1 DEF DigestInv, PrefilledAreKnown
<1>16. CASE UNCHANGED digestVars
  BY <1>2, <1>16 DEF digestVars, fileVars, dbVars, poolVars, scanVars
<1> QED BY <1>3, <1>4, <1>5, <1>6, <1>7, <1>8, <1>9, <1>11, <1>12, <1>13, <1>14, <1>15,
           <1>16 DEF DigestNext

\* Every step keeps the invariant.
LEMMA DigestInvStep == DigestInv /\ [DigestNext]_digestVars => DigestInv'
BY DigestTypeStep, RowsStep, PendingStep, PrefilledStep DEF DigestInv, DigestTypeOK

\* HashRowsAreTrue, for any files, contents and algorithms: a digest that the hash cache
\* would hand out is that of the bytes the file has now, through edits, crashes, purges,
\* batches and changes of algorithm.
THEOREM HashRowsStayTrue == DigestSpec => []HashRowsAreTrue
<1>1. DigestInv => HashRowsAreTrue
  BY DEF DigestInv, RowsAreTrue, RowIsTrue, HashRowsAreTrue
<1> QED BY <1>1, DigestStarts, DigestInvStep, PTL DEF DigestSpec

\* ClassesAreRight: the classes of a scan during which nobody wrote to a file are those of
\* the contents, wherever the digests came from.
THEOREM ClassesStayRight == DigestSpec => []ClassesAreRight
<1>1. DigestInv => ClassesAreRight
  <2> SUFFICES ASSUME DigestInv, ~touched, ~sampled, NEW f \in prefilled, NEW g \in prefilled
               PROVE  SameClass(f, g) <=> content[f] = content[g]
    BY DEF ClassesAreRight
  <2>1. \A h \in {f, g} : h \in HashedFile /\ content[h] # Gone
        /\ \A key \in Keys : known[h][key] = Calculated("digest", content[h])
    BY DEF DigestInv, DigestTypeOK, PrefilledAreKnown
  <2>2. \A h \in {f, g} : Calculated("digest", content[h]) \notin {NONE, NOT_SET}
    BY <2>1, DigestIsSome
  <2>3. Calculated("digest", content[f]) = Calculated("digest", content[g]) <=> content[f]
          = content[g]
    BY DEF Calculated
  <2> QED BY <2>1, <2>2, <2>3 DEF SameClass, Agree, FullKey, Keys
<1> QED BY <1>1, DigestStarts, DigestInvStep, PTL DEF DigestSpec

-----------------------------------------------------------------------------
(* The exclude list.                                                       *)

\* The list of patterns, its marks and the union that is compiled.
ExcludeInv == ExcludeTypeOK /\ AppliedIsShown

\* The default patterns, unmarked.
LEMMA ExcludeStarts == ExcludeInit => ExcludeInv
BY ExcludeConstants DEF ExcludeInit, ExcludeInv, ExcludeTypeOK, AppliedIsShown, Copies

\* Reading the compiled union makes it that of the marked patterns.
LEMMA ReadCompiledKeeps == ExcludeInv /\ ReadCompiled => ExcludeInv'
BY DEF ReadCompiled, Alternatives, ExcludeInv, ExcludeTypeOK, AppliedIsShown, Shown, HasEntry,
   Compiles

\* Loading another list asks for a new union.
LEMMA ReloadKeeps == ExcludeInv /\ ReloadPatterns => ExcludeInv'
BY DEF ReloadPatterns, ExcludeInv, ExcludeTypeOK, AppliedIsShown, Copies, Shown

\* Each command asks for a new union or leaves what is applied as it was.
LEMMA CommandKeeps == ExcludeInv /\ ExcludeCommand => ExcludeInv'
<1> SUFFICES ASSUME ExcludeInv, ExcludeCommand PROVE ExcludeInv'
  OBVIOUS
<1> USE DEF ExcludeInv
<1>1. ASSUME NEW p \in Pattern, AddPattern(p) PROVE ExcludeInv'
  <2>1. entries' \in [Pattern -> Copies]
        /\ \A q \in Pattern : entries'[q] = IF q = p THEN 1 ELSE entries[q]
    BY <1>1 DEF AddPattern, ExcludeTypeOK, Copies
  <2>2. \A q \in Pattern : entries[q] \in 0..2
    BY DEF ExcludeTypeOK, Copies
  <2>3. ExcludeTypeOK'
    BY <1>1, <2>1 DEF AddPattern, ExcludeTypeOK
  <2>4. CASE dirty'
    BY <2>3, <2>4 DEF AppliedIsShown
  <2>5. CASE ~dirty'
    <3>1. ~dirty /\ patternMarks' = patternMarks /\ revived' = revived \cup {p} /\ union' = union
          /\ p \in patternMarks
      BY <1>1, <2>5 DEF AddPattern
    <3>2. Shown' = Shown \cup {p} /\ p \notin Shown
      BY <1>1, <2>1, <2>2, <3>1 DEF AddPattern, Shown, HasEntry, Compiles, ExcludeTypeOK
    <3> QED BY <2>3, <3>1, <3>2 DEF AppliedIsShown
  <2> QED BY <2>4, <2>5
<1>2. ASSUME NEW p \in Pattern, RemovePattern(p) PROVE ExcludeInv'
  <2>1. entries' \in [Pattern -> Copies]
    BY <1>2 DEF RemovePattern, HasEntry, ExcludeTypeOK, Copies
  <2> QED BY <1>2, <2>1 DEF RemovePattern, ExcludeTypeOK, AppliedIsShown
<1>3. ASSUME NEW p \in Pattern, NEW q \in Pattern, RenamePattern(p, q) PROVE ExcludeInv'
  <2>1. entries' \in [Pattern -> Copies]
    BY <1>3 DEF RenamePattern, HasEntry, ExcludeTypeOK, Copies
  <2> QED BY <1>3, <2>1 DEF RenamePattern, ExcludeTypeOK, AppliedIsShown
<1>4. ASSUME NEW p \in Pattern, TogglePattern(p) PROVE ExcludeInv'
  BY <1>4 DEF TogglePattern, ExcludeTypeOK, AppliedIsShown
<1>5. CASE RestoreDefaults
  <2>1. entries' \in [Pattern -> Copies]
        /\ \A q \in Pattern : entries'[q] = IF q \in Default
             /\ ~HasEntry(q) THEN 1 ELSE entries[q]
    BY <1>5 DEF RestoreDefaults, ExcludeTypeOK, Copies
  <2>2. \A q \in Pattern : entries[q] \in 0..2
    BY DEF ExcludeTypeOK, Copies
  <2>3. ExcludeTypeOK'
    BY <1>5, <2>1, ExcludeConstants DEF RestoreDefaults, ExcludeTypeOK
  <2>4. CASE dirty'
    BY <2>3, <2>4 DEF AppliedIsShown
  <2>5. CASE ~dirty'
    <3> DEFINE back == {p \in Default \cap patternMarks : ~HasEntry(p)}
    <3>1. ~dirty /\ patternMarks' = patternMarks /\ revived' = revived \cup back /\ union' = union
      BY <1>5, <2>5 DEF RestoreDefaults
    <3>2. Shown \subseteq Shown' /\ Shown' \ Shown \subseteq back /\ back \cap Shown = {}
      BY <2>1, <2>2, <3>1 DEF Shown, HasEntry, Compiles, ExcludeTypeOK
    <3> QED BY <2>3, <3>1, <3>2 DEF AppliedIsShown
  <2> QED BY <2>4, <2>5
<1> QED BY <1>1, <1>2, <1>3, <1>4, <1>5 DEF ExcludeCommand

\* Nothing but the commands, a load and the reading of the union touches the list.
LEMMA ExcludeStep == ExcludeInv /\ [CollectNext]_collectVars => ExcludeInv'
<1> SUFFICES ASSUME ExcludeInv, [CollectNext]_collectVars PROVE ExcludeInv'
  OBVIOUS
<1>1. ASSUME UNCHANGED excludeVars PROVE ExcludeInv'
  BY <1>1 DEF excludeVars, ExcludeInv, ExcludeTypeOK, AppliedIsShown, Shown, HasEntry, Compiles
<1>2. \/ UNCHANGED excludeVars \/ ReadCompiled \/ ExcludeCommand \/ ReloadPatterns
  BY DEF CollectNext, AddPath, RemoveDirectory, Look, Visit, SetState, SaveProfile, ApplyProfile,
     ToggleCaching, Restart,
         EditPatterns, StartWalk, ReadFolder, StopWalk, WalkFolders, ToggleEntry, Resize, Tick,
           Change, TreeRefreshed,
         ReadPatterns, collectVars
<1> QED BY <1>1, <1>2, ReadCompiledKeeps, CommandKeeps, ReloadKeeps

\* AppliedIsShown, for any patterns and defaults: the union that a walk applies is that of
\* the marked patterns the list shows, but for patterns that came back marked.
THEOREM AppliedStaysShown == CollectSpec => []AppliedIsShown
<1>1. CollectInit => ExcludeInv
  BY ExcludeStarts DEF CollectInit
<1>2. ExcludeInv => AppliedIsShown
  BY DEF ExcludeInv
<1> QED BY <1>1, <1>2, ExcludeStep, PTL DEF CollectSpec

-----------------------------------------------------------------------------
(* Paths: the folders above a file.                                        *)

\* A set of paths that holds the folder of each of its paths.
ClosedUp(S) == \A x \in S : Parent[x] # NoFolder => Parent[x] \in S
\* What every closed set that has e holds.
Reach(e) == {a \in Entry : \A S \in SUBSET Entry : e \in S /\ ClosedUp(S) => a \in S}

\* The least closed set: a path and what reaches its folder.
LEMMA ReachIs ==
  ASSUME NEW e \in Entry
  PROVE  Reach(e) = IF Parent[e] = NoFolder THEN {e} ELSE {e} \cup Reach(Parent[e])
<1>1. Parent[e] = NoFolder \/ Parent[e] \in Entry
  BY CollectConstants DEF Entry
<1>2. CASE Parent[e] = NoFolder
  <2>1. ClosedUp({e})
    BY <1>2 DEF ClosedUp
  <2> QED BY <1>2, <2>1 DEF Reach
<1>3. CASE Parent[e] # NoFolder
  <2>1. ASSUME NEW a \in {e} \cup Reach(Parent[e]) PROVE a \in Reach(e)
    BY <1>1, <1>3, <2>1 DEF Reach, ClosedUp
  <2>2. ClosedUp({e} \cup Reach(Parent[e]))
    <3>1. ASSUME NEW x \in Reach(Parent[e]), Parent[x] # NoFolder
          PROVE  Parent[x] \in Reach(Parent[e])
      <4>1. Parent[x] \in Entry
        BY <3>1, CollectConstants DEF Reach, Entry
      <4> QED BY <3>1, <4>1 DEF Reach, ClosedUp
    <3>2. Parent[e] \in Reach(Parent[e])
      BY <1>1, <1>3 DEF Reach
    <3> QED BY <3>1, <3>2 DEF ClosedUp
  <2>3. {e} \cup Reach(Parent[e]) \in SUBSET Entry
    BY DEF Reach
  <2>4. Reach(e) \subseteq {e} \cup Reach(Parent[e])
    BY <2>2, <2>3 DEF Reach
  <2> QED BY <1>3, <2>1, <2>4
<1> QED BY <1>2, <1>3

\* The function of the model exists, and is what its definition says.
LEMMA PathToIs ==
  ASSUME NEW e \in Entry
  PROVE  PathTo[e] = IF Parent[e] = NoFolder THEN {e} ELSE {e} \cup PathTo[Parent[e]]
<1> DEFINE Rec(f) == f = [x \in Entry |-> IF Parent[x] = NoFolder THEN {x} ELSE {x} \cup f[Parent[x]]]
           f == CHOOSE f : Rec(f)
<1>1. Rec([x \in Entry |-> Reach(x)])
  <2> DEFINE g == [x \in Entry |-> Reach(x)]
  <2>1. \A x \in Entry : g[x] = IF Parent[x] = NoFolder THEN {x} ELSE {x} \cup g[Parent[x]]
    <3> TAKE x \in Entry
    <3>1. Parent[x] = NoFolder \/ Parent[x] \in Entry
      BY CollectConstants DEF Entry
    <3> QED BY <3>1, ReachIs
  <2> QED BY <2>1
<1>2. Rec(f)
  BY <1>1
<1>3. PathTo = f
  BY DEF PathTo
<1> HIDE DEF f
<1> QED BY <1>2, <1>3

\* A property that each path takes over from its folder holds of all paths.
LEMMA Climb ==
  ASSUME NEW good, \A e \in Entry : (Parent[e] \in Entry => Parent[e] \in good) => e \in good
  PROVE  Entry \subseteq good
<1>1. ASSUME Entry \ good # {} PROVE FALSE
  <2>1. PICK e \in Entry \ good : Parent[e] \notin Entry \ good
    <3>1. Entry \ good \in SUBSET Entry /\ Entry \ good # {}
      BY <1>1
    <3> QED BY <3>1, CollectConstants
  <2> QED BY <2>1
<1> QED BY <1>1

\* What is above a path is a folder.
LEMMA PathFacts ==
  ASSUME NEW e \in Entry
  PROVE  e \in PathTo[e] /\ PathTo[e] \subseteq Entry /\ Above(e) \subseteq Folder
<1> DEFINE good == {x \in Entry : PathTo[x] \subseteq Entry /\ Above(x) \subseteq Folder}
<1>1. ASSUME NEW x \in Entry, Parent[x] \in Entry => Parent[x] \in good PROVE x \in good
  <2>1. CASE Parent[x] = NoFolder
    BY <2>1, PathToIs DEF Above
  <2>2. CASE Parent[x] # NoFolder
    <3>1. Parent[x] \in Folder /\ Parent[x] \in Entry
      BY <2>2, CollectConstants DEF Entry
    <3>2. PathTo[x] = {x} \cup PathTo[Parent[x]]
      BY <2>2, PathToIs
    <3>3. PathTo[Parent[x]] \subseteq Entry /\ PathTo[Parent[x]] \ {Parent[x]} \subseteq Folder
      BY <1>1, <3>1 DEF Above
    <3> QED BY <3>1, <3>2, <3>3 DEF Above
  <2> QED BY <2>1, <2>2
<1>2. Entry \subseteq good
  <2> HIDE DEF good
  <2> QED BY <1>1, Climb
<1> QED BY <1>2, PathToIs

\* What is above a path is its folder or above it.
LEMMA PathStep ==
  ASSUME NEW e \in Entry, NEW a \in PathTo[e], a # e
  PROVE  Parent[e] \in Folder /\ Parent[e] \in Entry /\ a \in PathTo[Parent[e]]
         /\ PathTo[e] = {e} \cup PathTo[Parent[e]]
<1>1. Parent[e] # NoFolder /\ PathTo[e] = {e} \cup PathTo[Parent[e]]
  <2>1. PathTo[e] = IF Parent[e] = NoFolder THEN {e} ELSE {e} \cup PathTo[Parent[e]]
    BY PathToIs
  <2>2. CASE Parent[e] = NoFolder
    BY <2>1, <2>2
  <2> QED BY <2>1, <2>2
<1>2. Parent[e] \in Folder
  BY <1>1, CollectConstants
<1> QED BY <1>1, <1>2 DEF Entry

\* What is above a folder is above what is in it.
LEMMA PathTransitive ==
  ASSUME NEW e \in Entry, NEW a \in PathTo[e]
  PROVE  PathTo[a] \subseteq PathTo[e]
<1> DEFINE good == {x \in Entry : \A b \in PathTo[x] : PathTo[b] \subseteq PathTo[x]}
<1>1. ASSUME NEW x \in Entry, Parent[x] \in Entry => Parent[x] \in good PROVE x \in good
  <2>1. ASSUME NEW b \in PathTo[x], b # x PROVE PathTo[b] \subseteq PathTo[x]
    BY <1>1, <2>1, PathStep
  <2> QED BY <2>1
<1>2. Entry \subseteq good
  <2> HIDE DEF good
  <2> QED BY <1>1, Climb
<1> QED BY <1>2

\* No path is above itself.
LEMMA PathAcyclic ==
  ASSUME NEW e \in Entry, NEW a \in PathTo[e], e \in PathTo[a]
  PROVE  a = e
<1> DEFINE good == {x \in Entry : \A b \in PathTo[x] : x \in PathTo[b] => b = x}
<1>1. ASSUME NEW x \in Entry, Parent[x] \in Entry => Parent[x] \in good PROVE x \in good
  <2>1. ASSUME NEW b \in PathTo[x], x \in PathTo[b], b # x PROVE FALSE
    <3>1. Parent[x] \in Entry /\ b \in PathTo[Parent[x]] /\ Parent[x] \in PathTo[x]
      BY <2>1, PathStep, PathFacts
    <3>2. Parent[x] \in PathTo[b] /\ b \in Entry
      BY <2>1, <3>1, PathFacts, PathTransitive
    <3>3. b = Parent[x]
      BY <1>1, <3>1, <3>2
    <3>4. Parent[b] \in Entry /\ x \in PathTo[Parent[b]] /\ Parent[b] \in PathTo[b]
      BY <2>1, <3>2, PathStep, PathFacts
    <3>5. b \in PathTo[Parent[b]]
      BY <2>1, <3>4, PathTransitive
    <3>6. Parent[b] = b
      BY <1>1, <3>1, <3>3, <3>4, <3>5
    <3>7. b \in Entry /\ {b} \in SUBSET Entry /\ {b} # {}
      BY <3>2
    <3>8. PICK y \in {b} : Parent[y] \notin {b}
      BY <3>7, CollectConstants
    <3> QED BY <3>6, <3>8
  <2> QED BY <2>1
<1>2. Entry \subseteq good
  <2> HIDE DEF good
  <2> QED BY <1>1, Climb
<1> QED BY <1>2

\* Of two folders on a way up one is above the other.
LEMMA PathIsChain ==
  ASSUME NEW e \in Entry, NEW a \in PathTo[e], NEW b \in PathTo[e]
  PROVE  a \in PathTo[b] \/ b \in PathTo[a]
<1> DEFINE good == {x \in Entry : \A c, d \in PathTo[x] : c \in PathTo[d] \/ d \in PathTo[c]}
<1>1. ASSUME NEW x \in Entry, Parent[x] \in Entry => Parent[x] \in good PROVE x \in good
  <2>1. ASSUME NEW c \in PathTo[x], NEW d \in PathTo[x] PROVE c \in PathTo[d] \/ d \in PathTo[c]
    <3>1. CASE c = x \/ d = x
      BY <3>1
    <3>2. CASE c # x /\ d # x
      BY <1>1, <3>2, PathStep
    <3> QED BY <3>1, <3>2
  <2> QED BY <2>1
<1>2. Entry \subseteq good
  <2> HIDE DEF good
  <2> QED BY <1>1, Climb
<1> QED BY <1>2

\* The way from a folder to a path below it begins in the folder.
LEMMA ChildOn ==
  ASSUME NEW e \in Entry, NEW d \in Above(e)
  PROVE  \E c \in PathTo[e] : c \in Entry /\ Parent[c] = d
<1> DEFINE good == {x \in Entry : \A b \in Above(x) : \E c \in PathTo[x] : c \in Entry /\ Parent[c] = b}
<1>1. ASSUME NEW x \in Entry, Parent[x] \in Entry => Parent[x] \in good PROVE x \in good
  <2>1. ASSUME NEW b \in Above(x) PROVE \E c \in PathTo[x] : c \in Entry /\ Parent[c] = b
    <3>1. Parent[x] \in Entry /\ b \in PathTo[Parent[x]] /\ PathTo[x] = {x} \cup PathTo[Parent[x]]
      BY <2>1, PathStep DEF Above
    <3>2. CASE b = Parent[x]
      BY <3>1, <3>2
    <3>3. CASE b # Parent[x]
      BY <1>1, <3>1, <3>3 DEF Above
    <3> QED BY <3>2, <3>3
  <2> QED BY <2>1
<1>2. Entry \subseteq good
  <2> HIDE DEF good
  <2> QED BY <1>1, Climb
<1> QED BY <1>2

\* The nearest folder is there, and is one.
LEMMA NearestIs ==
  ASSUME NEW d \in Entry, NEW S, PathTo[d] \cap S # {}
  PROVE  /\ Nearest(d, S) \in PathTo[d] \cap S /\ PathTo[d] \cap S \subseteq PathTo[Nearest(d, S)]
         /\ \A a \in PathTo[d] \cap S : PathTo[d] \cap S \subseteq PathTo[a] => a = Nearest(d, S)
<1> DEFINE Is(x, a) == a \in PathTo[x] \cap S /\ PathTo[x] \cap S \subseteq PathTo[a]
           good == {x \in Entry : PathTo[x] \cap S # {} => \E a : Is(x, a)}
<1>1. ASSUME NEW x \in Entry, Parent[x] \in Entry => Parent[x] \in good PROVE x \in good
  <2>1. CASE x \in S
    BY <2>1, PathFacts
  <2>2. ASSUME x \notin S, PathTo[x] \cap S # {} PROVE \E a : Is(x, a)
    <3>1. Parent[x] \in Entry /\ PathTo[x] = {x} \cup PathTo[Parent[x]]
      BY <2>2, PathStep
    <3>2. PathTo[x] \cap S = PathTo[Parent[x]] \cap S
      BY <2>2, <3>1
    <3>3. \E a : Is(Parent[x], a)
      BY <1>1, <2>2, <3>1, <3>2
    <3> QED BY <3>2, <3>3
  <2> QED BY <2>1, <2>2
<1>2. Entry \subseteq good
  <2> HIDE DEF good
  <2> QED BY <1>1, Climb
<1>3. PICK a : Is(d, a)
  BY <1>2
<1>4. Is(d, Nearest(d, S))
  BY <1>3 DEF Nearest
<1>5. ASSUME NEW b \in PathTo[d] \cap S, PathTo[d] \cap S \subseteq PathTo[b]
      PROVE  b = Nearest(d, S)
  <2>1. b \in PathTo[Nearest(d, S)] /\ Nearest(d, S) \in PathTo[b]
    BY <1>4, <1>5
  <2>2. Nearest(d, S) \in Entry
    BY <1>4, PathFacts
  <2> QED BY <2>1, <2>2, PathAcyclic
<1> QED BY <1>4, <1>5

-----------------------------------------------------------------------------
(* States.                                                                 *)

\* The states that are kept are the user's choices and folders that were excluded by default.
Follows(sts, choices) ==
  /\ DOMAIN choices \subseteq DOMAIN sts /\ DOMAIN sts \subseteq Folder
  /\ \A d \in DOMAIN sts : sts[d] \in States
                           /\ sts[d] = IF d \in DOMAIN choices THEN choices[d] ELSE EXCLUDED

\* Reading the patterns does not change what they say.
LEMMA PatternsStay ==
  ASSUME ReadCompiled \/ UNCHANGED excludeVars
  PROVE  /\ \A d : DefaultExcluded(d)' <=> DefaultExcluded(d)
         /\ \A f : IsExcluded(f)' <=> IsExcluded(f)
<1>1. AnyMark' = AnyMark /\ Alternatives' = Alternatives
  BY DEF ReadCompiled, excludeVars, AnyMark, Alternatives, Shown, HasEntry, Compiles
<1> QED BY <1>1 DEF DefaultExcluded, IsExcluded

\* While the patterns stay, a state depends on the states alone.
LEMMA StateStays ==
  ASSUME ReadCompiled \/ UNCHANGED excludeVars, NEW d
  PROVE  StateOf(d)' = StateAmong(states', d)
BY PatternsStay DEF StateOf, StateAmong

\* What counts for a path is on its way up.
LEMMA StateFrom ==
  ASSUME NEW d \in Folder, NEW s, NEW t, PathTo[d] \cap DOMAIN s = PathTo[d] \cap DOMAIN t,
         \A e \in PathTo[d] \cap DOMAIN s : s[e] = t[e]
  PROVE  StateAmong(s, d) = StateAmong(t, d)
<1>1. d \in Entry /\ d \in PathTo[d]
  BY PathFacts DEF Entry
<1>2. Nearest(d, DOMAIN s) = Nearest(d, DOMAIN t)
  BY DEF Nearest
<1>3. Above(d) \cap DOMAIN s = Above(d) \cap DOMAIN t
  BY DEF Above
<1>4. Above(d) \cap DOMAIN s # {} => Nearest(d, DOMAIN s) \in PathTo[d] \cap DOMAIN s
  BY <1>1, NearestIs DEF Above
<1> QED BY <1>1, <1>2, <1>3, <1>4 DEF StateAmong

\* What is remembered is what was, and what the patterns or the names exclude.
LEMMA RememberedIs ==
  ASSUME NEW sts, NEW S
  PROVE  /\ DOMAIN Remembered(sts, S) = DOMAIN sts \cup {e \in S : DefaultExcluded(e)}
         /\ \A d \in DOMAIN Remembered(sts, S) :
              Remembered(sts, S)[d] = IF d \in DOMAIN sts THEN sts[d] ELSE EXCLUDED
BY DEF Remembered

\* It adds to the choices nothing but exclusions.
LEMMA RememberedFollows ==
  ASSUME NEW sts, NEW choices, Follows(sts, choices), NEW S \in SUBSET Folder
  PROVE  Follows(Remembered(sts, S), choices)
<1> DEFINE new == Remembered(sts, S)
<1>1. /\ DOMAIN new = DOMAIN sts \cup {e \in S : DefaultExcluded(e)}
      /\ \A d \in DOMAIN new : new[d] = IF d \in DOMAIN sts THEN sts[d] ELSE EXCLUDED
  BY RememberedIs
<1> HIDE DEF new
<1>2. Follows(new, choices)
  BY <1>1 DEF Follows, States
<1> QED BY <1>2 DEF new

\* What is remembered excludes, and never the other way.
LEMMA ExcludedStays ==
  ASSUME NEW sts, NEW S \in SUBSET Folder, NEW d \in Folder, StateAmong(sts, d) = EXCLUDED
  PROVE  StateAmong(Remembered(sts, S), d) = EXCLUDED
<1> DEFINE new == Remembered(sts, S)
<1>1. /\ DOMAIN new = DOMAIN sts \cup {e \in S : DefaultExcluded(e)}
      /\ \A e \in DOMAIN new : new[e] = IF e \in DOMAIN sts THEN sts[e] ELSE EXCLUDED
  BY RememberedIs
<1> SUFFICES StateAmong(new, d) = EXCLUDED
  OBVIOUS
<1> HIDE DEF new
<1>2. d \in Entry /\ d \in PathTo[d]
  BY PathFacts DEF Entry
<1>3. CASE d \in DOMAIN new
  <2>1. CASE d \in DOMAIN sts
    BY <1>1, <1>3, <2>1 DEF StateAmong
  <2>2. CASE d \notin DOMAIN sts
    BY <1>1, <1>3, <2>2 DEF StateAmong
  <2> QED BY <2>1, <2>2
<1>4. CASE d \notin DOMAIN new /\ ~DefaultExcluded(d)
  <2>1. d \notin DOMAIN sts /\ Above(d) \cap DOMAIN sts # {} /\ sts[Nearest(d, DOMAIN sts)] = EXCLUDED
    BY <1>1, <1>4 DEF StateAmong, NORMAL, EXCLUDED
  <2>2. PathTo[d] \cap DOMAIN sts # {} /\ PathTo[d] \cap DOMAIN new # {} /\ Above(d) \cap DOMAIN new # {}
    BY <1>1, <2>1 DEF Above
  <2> DEFINE a == Nearest(d, DOMAIN sts)
             b == Nearest(d, DOMAIN new)
  <2>3. /\ a \in PathTo[d] \cap DOMAIN sts /\ PathTo[d] \cap DOMAIN sts \subseteq PathTo[a]
        /\ \A x \in PathTo[d] \cap DOMAIN sts : PathTo[d] \cap DOMAIN sts \subseteq PathTo[x] => x = a
    BY <1>2, <2>2, NearestIs
  <2>4. b \in PathTo[d] \cap DOMAIN new /\ PathTo[d] \cap DOMAIN new \subseteq PathTo[b]
    BY <1>2, <2>2, NearestIs
  <2>5. sts[a] = EXCLUDED
    BY <2>1
  <2> HIDE DEF a, b
  <2>6. CASE b \in DOMAIN sts
    <3>1. b = a
      BY <1>1, <2>3, <2>4, <2>6
    <3> QED BY <1>1, <1>4, <2>2, <2>4, <2>5, <2>6, <3>1 DEF StateAmong, b
  <2>7. CASE b \notin DOMAIN sts
    <3>1. new[b] = EXCLUDED
      BY <1>1, <2>4, <2>7
    <3> QED BY <1>4, <2>2, <3>1 DEF StateAmong, b
  <2> QED BY <2>6, <2>7
<1>5. CASE d \notin DOMAIN new /\ DefaultExcluded(d)
  BY <1>5 DEF StateAmong
<1> QED BY <1>3, <1>4, <1>5

\* A folder that is scanned has the state of the nearest choice.
LEMMA ChoiceCounts ==
  ASSUME NEW sts, NEW choices, Follows(sts, choices), NEW d \in Folder,
         StateAmong(sts, d) # EXCLUDED, PathTo[d] \cap DOMAIN choices # {}
  PROVE  StateAmong(sts, d) = choices[Nearest(d, DOMAIN choices)]
<1> DEFINE a == Nearest(d, DOMAIN sts)
           b == Nearest(d, DOMAIN choices)
<1>1. d \in Entry /\ d \in PathTo[d] /\ PathTo[d] \cap DOMAIN sts # {}
  BY PathFacts DEF Entry, Follows
<1>2. a \in PathTo[d] \cap DOMAIN sts /\ PathTo[d] \cap DOMAIN sts \subseteq PathTo[a]
  BY <1>1, NearestIs
<1>3. \A x \in PathTo[d] \cap DOMAIN choices : PathTo[d] \cap DOMAIN choices \subseteq PathTo[x] => x = b
  BY <1>1, NearestIs
<1>4. StateAmong(sts, d) = sts[a]
  <2>1. CASE d \in DOMAIN sts
    <3>1. PathTo[d] \cap DOMAIN sts \subseteq PathTo[d]
      OBVIOUS
    <3>2. a = d
      BY <1>1, <2>1, <3>1, NearestIs
    <3> QED BY <2>1, <3>2 DEF StateAmong
  <2>2. CASE d \notin DOMAIN sts
    BY <1>1, <2>2 DEF StateAmong, Above
  <2> QED BY <2>1, <2>2
<1> HIDE DEF a, b
<1>5. a \in DOMAIN choices /\ sts[a] = choices[a]
  BY <1>2, <1>4 DEF Follows
<1>6. a = b
  BY <1>2, <1>3, <1>5 DEF Follows
<1> QED BY <1>4, <1>5, <1>6 DEF b

\* No root is inside another.
RootsOK(rs) == rs \subseteq Folder /\ \A r, q \in rs : r \notin Above(q)
TreeInv ==
  /\ RootsOK(roots) /\ RootsOK(profile.roots) /\ present \subseteq Entry
  /\ Follows(states, chosen) /\ Follows(profile.states, profile.chosen)

\* A folder being read is still to visit; what a listing names is in its folder.
WalkTypes ==
  /\ walk \in {"idle", "walking", "done"} /\ todo \subseteq Folder
  /\ walk # "walking" => todo = {} /\ visiting = Nowhere
  /\ visiting # Nowhere => visiting.folder \in todo
  /\ walk = "idle" => collected = {}
  /\ DOMAIN listing = Folder
  /\ \A d \in Folder : \A x \in listing[d].found : x.path \in Entry /\ Parent[x.path] = d

\* What a step reads of a folder.
VisitHit == Remembers(visiting.folder, visiting.time)
EntriesFound == IF VisitHit THEN listing[visiting.folder].found ELSE Live(visiting.folder)
FilesFound == {x \in EntriesFound : x.path \in File}
DirsFound == {x.path : x \in EntriesFound \ FilesFound}
RowKept == caching /\ ~VisitHit /\ Settled(visiting.time)

\* A folder that is not there any more.
FolderMissed ==
  /\ ~VisitHit /\ ~Exists(visiting.folder) /\ todo' = todo \ {visiting.folder}
  /\ UNCHANGED <<excludeVars, states, listing, collected, resized>>
FolderRead ==
  LET d == visiting.folder IN
  /\ VisitHit \/ Exists(d)
  /\ states' = Remembered(states, {d})
  /\ ReadCompiled \/ UNCHANGED excludeVars
  /\ todo' = (todo \ {d}) \cup (IF SkipDirs(d, states') THEN {}
                                ELSE {e \in DirsFound : Traversable(e, VisitHit)})
  /\ collected' = collected \cup
       {[path |-> x.path, ref |-> StateOf(d) = REFERENCE, size |-> x.size] :
          x \in {y \in FilesFound : StateOf(d) # EXCLUDED /\ ~IsExcluded(y.path)}}
  /\ listing' = IF RowKept
                THEN [listing EXCEPT ![d] = [time |-> visiting.time, found |-> EntriesFound]]
                ELSE listing
  /\ resized' = IF RowKept THEN {f \in resized : Parent[f] # d} ELSE resized

\* The two outcomes of a read.
LEMMA ReadFolderDoes ==
  ASSUME ReadFolder
  PROVE  /\ walk = "walking" /\ visiting # Nowhere /\ visiting' = Nowhere
         /\ walk' = IF todo' = {} THEN "done" ELSE "walking"
         /\ UNCHANGED <<roots, profile, chosen, caching, present, changed, size, now, changes,
                        folders, disturbed, commands>>
         /\ FolderMissed \/ FolderRead
BY DEF ReadFolder, FolderMissed, FolderRead, VisitHit, EntriesFound, FilesFound, DirsFound, RowKept,
   ReadPatterns

\* What is found in a folder is in it.
LEMMA FoundInFolder ==
  ASSUME WalkTypes, TreeInv, visiting # Nowhere
  PROVE  /\ visiting.folder \in Folder
         /\ \A x \in EntriesFound : x.path \in Entry /\ Parent[x.path] = visiting.folder
         /\ DirsFound \subseteq Folder
<1>1. visiting.folder \in Folder
  BY DEF WalkTypes
<1>2. \A x \in EntriesFound : x.path \in Entry /\ Parent[x.path] = visiting.folder
  <2>1. CASE VisitHit
    BY <1>1, <2>1 DEF EntriesFound, WalkTypes
  <2>2. CASE ~VisitHit
    BY <2>2 DEF EntriesFound, Live, TreeInv
  <2> QED BY <2>1, <2>2
<1>3. DirsFound \subseteq Folder
  BY <1>2 DEF DirsFound, FilesFound, Entry
<1> QED BY <1>1, <1>2, <1>3

\* Loading a profile leaves out a choice with its state.
LEMMA ThatExistFollows ==
  ASSUME NEW sts, NEW choices, Follows(sts, choices)
  PROVE  Follows(ThatExist(sts), ThatExist(choices))
BY DEF ThatExist, Follows

\* A new choice replaces those below it, with their states.
LEMMA OverriddenFollows ==
  ASSUME NEW sts, NEW choices, Follows(sts, choices), NEW d \in Folder, NEW s \in States
  PROVE  Follows(Overridden(sts, d, s), Overridden(choices, d, s))
<1> DEFINE new == Overridden(sts, d, s)
           ch == Overridden(choices, d, s)
<1>1. /\ DOMAIN new = (DOMAIN sts \ Below(d)) \cup {d}
      /\ \A e \in DOMAIN new : new[e] = IF e = d THEN s ELSE sts[e]
      /\ DOMAIN ch = (DOMAIN choices \ Below(d)) \cup {d}
      /\ \A e \in DOMAIN ch : ch[e] = IF e = d THEN s ELSE choices[e]
  BY DEF Overridden
<1> HIDE DEF new, ch
<1>2. Follows(new, ch)
  BY <1>1 DEF Follows
<1> QED BY <1>2 DEF new, ch

\* No choice was made, no state is kept.
LEMMA TreeStarts == CollectInit => TreeInv
<1> SUFFICES ASSUME CollectInit PROVE TreeInv
  OBVIOUS
<1>1. RootsOK(roots) /\ profile.roots = roots /\ present \subseteq Entry
  BY CollectConstants DEF CollectInit, RootsOK
<1>2. Follows(states, chosen) /\ profile.states = states /\ profile.chosen = chosen
  BY DEF CollectInit, Follows
<1> QED BY <1>1, <1>2 DEF TreeInv

\* States are added by a question, and by a command with the choice they follow.
LEMMA TreeStep == TreeInv /\ WalkTypes /\ [CollectNext]_collectVars => TreeInv'
<1> SUFFICES ASSUME TreeInv, WalkTypes, [CollectNext]_collectVars PROVE TreeInv'
  OBVIOUS
<1> USE DEF TreeInv
<1>1. ASSUME UNCHANGED choiceVars, UNCHANGED present PROVE TreeInv'
  BY <1>1 DEF choiceVars, RootsOK, Follows
<1>2. ASSUME NEW d \in Folder, AddPath(d) PROVE TreeInv'
  <2> DEFINE new == {r \in roots : d \notin Above(r)} \cup {d}
  <2>1. roots' = new /\ states' = Remembered(states, new) /\ UNCHANGED <<profile, chosen, present>>
        /\ PathTo[d] \cap roots = {}
    BY <1>2 DEF AddPath, TreeRefreshed, Command, diskVars
  <2>2. new \in SUBSET Folder
    BY DEF RootsOK
  <2>3. RootsOK(new)
    BY <2>1, <2>2 DEF RootsOK, Above
  <2>4. Follows(Remembered(states, new), chosen)
    BY <2>2, RememberedFollows
  <2> HIDE DEF new
  <2> QED BY <2>1, <2>3, <2>4
<1>3. ASSUME NEW d \in Folder, RemoveDirectory(d) PROVE TreeInv'
  <2> DEFINE new == roots \ {d}
  <2>1. roots' = new /\ states' = Remembered(states, new) /\ UNCHANGED <<profile, chosen, present>>
    BY <1>3 DEF RemoveDirectory, TreeRefreshed, Command, diskVars
  <2>2. new \in SUBSET Folder /\ RootsOK(new)
    BY DEF RootsOK
  <2>3. Follows(Remembered(states, new), chosen)
    BY <2>2, RememberedFollows
  <2> HIDE DEF new
  <2> QED BY <2>1, <2>2, <2>3
<1>4. ASSUME NEW S \in SUBSET Folder, states' = Remembered(states, S),
             UNCHANGED <<roots, profile, chosen, present>>
      PROVE  TreeInv'
  BY <1>4, RememberedFollows
<1>5. ASSUME NEW d \in Folder, NEW s \in States, SetState(d, s) PROVE TreeInv'
  <2>1. states' = Overridden(Remembered(states, ShownFor(d)), d, s)
        /\ chosen' = Overridden(chosen, d, s) /\ UNCHANGED <<roots, profile, present>>
    BY <1>5 DEF SetState, Command, diskVars
  <2>2. ShownFor(d) \in SUBSET Folder
    BY PathFacts DEF ShownFor, Entry, Above
  <2>3. Follows(Remembered(states, ShownFor(d)), chosen)
    BY <2>2, RememberedFollows
  <2>4. Follows(states', chosen')
    BY <2>1, <2>3, OverriddenFollows
  <2> QED BY <2>1, <2>4
<1>6. CASE SaveProfile
  BY <1>6 DEF SaveProfile, Command, diskVars
<1>7. CASE ApplyProfile
  <2> DEFINE new == {d \in profile.roots : Exists(d)}
  <2>1. roots' = new /\ states' = Remembered(ThatExist(profile.states), new)
        /\ chosen' = ThatExist(profile.chosen) /\ UNCHANGED <<profile, present>>
    BY <1>7 DEF ApplyProfile, TreeRefreshed, Command, diskVars
  <2>2. new \in SUBSET Folder /\ RootsOK(new)
    BY DEF RootsOK
  <2>3. Follows(ThatExist(profile.states), ThatExist(profile.chosen))
    BY ThatExistFollows
  <2>4. Follows(Remembered(ThatExist(profile.states), new), ThatExist(profile.chosen))
    BY <2>2, <2>3, RememberedFollows
  <2> HIDE DEF new
  <2> QED BY <2>1, <2>2, <2>4
<1>8. CASE Restart
  <2>1. roots' = {d \in roots : Exists(d)} /\ UNCHANGED <<profile, chosen, present>>
    BY <1>8 DEF Restart, Command, diskVars
  <2>2. states' = [d \in DOMAIN states \cup (roots' \cap Hidden) |->
                     IF d \in DOMAIN states THEN states[d] ELSE EXCLUDED]
    BY <1>8 DEF Restart
  <2>3. RootsOK(roots')
    BY <2>1 DEF RootsOK
  <2>4. Follows(states', chosen')
    BY <2>1, <2>2, <2>3 DEF Follows, RootsOK, States
  <2> QED BY <2>1, <2>3, <2>4
<1>9. ASSUME NEW d \in Folder, Look(d) PROVE TreeInv'
  <2>1. states' = Remembered(states, ShownFor(d)) /\ UNCHANGED <<roots, profile, chosen, present>>
    BY <1>9 DEF Look, diskVars
  <2>2. ShownFor(d) \in SUBSET Folder
    BY PathFacts DEF ShownFor, Entry, Above
  <2> QED BY <1>4, <2>1, <2>2
<1>10. CASE WalkFolders
  <2> DEFINE reached == {d \in Folder : Exists(d) /\ PathTo[d] \cap roots # {}}
  <2>1. states' = Remembered(states, reached) /\ UNCHANGED <<roots, profile, chosen, present>>
    BY <1>10 DEF WalkFolders, diskVars
  <2> QED BY <1>4, <2>1
<1>11. CASE ReadFolder
  <2>1. UNCHANGED <<roots, profile, chosen, present>> /\ (FolderMissed \/ FolderRead)
    BY <1>11, ReadFolderDoes
  <2>4. visiting.folder \in Folder
    BY <1>11, ReadFolderDoes DEF WalkTypes
  <2>2. states' = states \/ states' = Remembered(states, {visiting.folder})
    BY <2>1 DEF FolderMissed, FolderRead
  <2>3. {visiting.folder} \in SUBSET Folder
    BY <2>4
  <2> QED BY <1>4, <2>1, <2>2, <2>3, RememberedFollows
<1>12. ASSUME NEW e \in Unstable, ToggleEntry(e) PROVE TreeInv'
  BY <1>12, CollectConstants DEF ToggleEntry, Change, choiceVars, RootsOK, Follows
<1>13. \/ UNCHANGED choiceVars /\ UNCHANGED present
       \/ \E d \in Folder : AddPath(d) \/ RemoveDirectory(d) \/ Look(d)
       \/ \E d \in Folder, s \in States : SetState(d, s)
       \/ SaveProfile \/ ApplyProfile \/ Restart \/ WalkFolders \/ ReadFolder
       \/ \E e \in Unstable : ToggleEntry(e)
  BY DEF CollectNext, collectVars, diskVars, Visit, ToggleCaching, EditPatterns, StartWalk,
     StopWalk,
         Resize, Tick, Change, Command
<1> QED BY <1>1, <1>2, <1>3, <1>5, <1>6, <1>7, <1>8, <1>9, <1>10, <1>11, <1>12, <1>13


\* The start.
LEMMA WalkTypesStart == CollectInit => WalkTypes
BY DEF CollectInit, WalkTypes, NoRow

\* What ends with the walk put aside.
LEMMA CommandIs ==
  ASSUME Command
  PROVE  /\ walk # "walking" /\ walk' = "idle" /\ collected' = {} /\ folders' = {}
         /\ UNCHANGED <<todo, visiting, listing, present, changed, size, now, resized>>
BY DEF Command, diskVars

\* The steps that are commands.
Commanded ==
  \/ \E d \in Folder : AddPath(d) \/ RemoveDirectory(d)
  \/ \E d \in Folder, s \in States : SetState(d, s)
  \/ SaveProfile \/ ApplyProfile \/ ToggleCaching \/ Restart \/ EditPatterns
\* They all put the walk aside.
LEMMA CommandedIs == Commanded => Command
BY DEF Commanded, AddPath, RemoveDirectory, SetState, SaveProfile, ApplyProfile, ToggleCaching,
   Restart,
   EditPatterns

\* The steps of other programs.
Disturbing ==
  \/ \E e \in Unstable : ToggleEntry(e)
  \/ \E f \in Unstable \cap File : Resize(f)
  \/ Tick
\* They touch no state, pattern or listing.
LEMMA DisturbingIs ==
  ASSUME Disturbing
  PROVE  /\ HandedOver
         /\ UNCHANGED <<excludeVars, choiceVars, caching, listing, todo, visiting, commands>>
BY DEF Disturbing, ToggleEntry, Resize, Tick, Change

\* The kinds of steps.
LEMMA NextIs ==
  ASSUME [CollectNext]_collectVars
  PROVE  \/ UNCHANGED collectVars
         \/ Commanded \/ Disturbing \/ StartWalk \/ ReadFolder \/ StopWalk \/ WalkFolders
         \/ \E d \in Folder : Look(d) \/ Visit(d)
BY DEF CollectNext, Commanded, Disturbing

\* Types, and where a walk may be.
LEMMA WalkTypesStep == TreeInv /\ WalkTypes /\ [CollectNext]_collectVars => WalkTypes'
<1> SUFFICES ASSUME TreeInv, WalkTypes, [CollectNext]_collectVars PROVE WalkTypes'
  OBVIOUS
<1>1. CASE UNCHANGED collectVars
  BY <1>1 DEF collectVars, walkVars, WalkTypes
<1>2. CASE Commanded
  BY <1>2, CommandedIs, CommandIs DEF WalkTypes
<1>3. CASE Disturbing
  BY <1>3, DisturbingIs DEF HandedOver, WalkTypes
<1>4. CASE StartWalk
  BY <1>4 DEF StartWalk, WalkTypes, TreeInv, RootsOK
<1>5. CASE StopWalk
  BY <1>5 DEF StopWalk, WalkTypes
<1>6. CASE WalkFolders
  BY <1>6 DEF WalkFolders, WalkTypes
<1>7. ASSUME NEW d \in Folder, Look(d) PROVE WalkTypes'
  BY <1>7 DEF Look, walkVars, WalkTypes
<1>8. ASSUME NEW d \in Folder, Visit(d) PROVE WalkTypes'
  BY <1>8 DEF Visit, WalkTypes
<1>9. CASE ReadFolder
  <2>1. /\ walk = "walking" /\ visiting # Nowhere /\ visiting' = Nowhere
        /\ walk' = IF todo' = {} THEN "done" ELSE "walking"
        /\ FolderMissed \/ FolderRead
    BY <1>9, ReadFolderDoes
  <2>2. CASE FolderMissed
    BY <2>1, <2>2 DEF FolderMissed, WalkTypes
  <2>3. CASE FolderRead
    <3>1. /\ visiting.folder \in Folder
          /\ \A x \in EntriesFound : x.path \in Entry /\ Parent[x.path] = visiting.folder
          /\ DirsFound \subseteq Folder
      BY <2>1, FoundInFolder
    <3>2. todo' \subseteq Folder
      BY <2>3, <3>1 DEF FolderRead, WalkTypes
    <3>3. /\ DOMAIN listing' = Folder
          /\ \A d \in Folder :
               listing'[d] = listing[d] \/ (listing'[d].found = EntriesFound /\ d = visiting.folder)
      <4> DEFINE stored == [time |-> visiting.time, found |-> EntriesFound]
      <4>1. stored.found = EntriesFound
        OBVIOUS
      <4>2. listing' = listing \/ listing' = [listing EXCEPT ![visiting.folder] = stored]
        BY <2>3 DEF FolderRead
      <4> HIDE DEF stored
      <4>3. DOMAIN listing = Folder
        BY DEF WalkTypes
      <4>4. CASE listing' = [listing EXCEPT ![visiting.folder] = stored]
        <5>1. DOMAIN listing' = Folder
              /\ \A d \in Folder : listing'[d] = IF d = visiting.folder THEN stored ELSE listing[d]
          BY <3>1, <4>3, <4>4
        <5> QED BY <4>1, <5>1
      <4> QED BY <4>2, <4>3, <4>4
    <3>4. \A d \in Folder : \A x \in listing'[d].found : x.path \in Entry /\ Parent[x.path] = d
      BY <3>1, <3>3 DEF WalkTypes
    <3> HIDE DEF FolderRead
    <3> QED BY <2>1, <3>2, <3>3, <3>4 DEF WalkTypes
  <2> QED BY <2>1, <2>2, <2>3
<1> QED BY <1>1, <1>2, <1>3, <1>4, <1>5, <1>6, <1>7, <1>8, <1>9, NextIs

\* What a folder's reference mark says of its nearest choice.
Respects(ref, d, choices) ==
  PathTo[d] \cap DOMAIN choices # {} =>
    LET choice == choices[Nearest(d, DOMAIN choices)]
    IN  choice # EXCLUDED /\ (choice = REFERENCE => ref)
RespectInv == \A c \in collected \cup folders : Respects(c.ref, Owner(c.path), chosen)

\* What a scan gets from a folder that it does not leave out respects the choices.
LEMMA ScannedRespects ==
  ASSUME TreeInv, NEW d \in Folder, StateOf(d) # EXCLUDED
  PROVE  Respects(StateOf(d) = REFERENCE, d, chosen)
BY ChoiceCounts DEF TreeInv, StateOf, Respects

\* A walk, a stop or another program changes no choice, and a command forgets what was found.
LEMMA RespectStep == TreeInv /\ WalkTypes /\ RespectInv /\ [CollectNext]_collectVars => RespectInv'
<1> SUFFICES ASSUME TreeInv, WalkTypes, RespectInv, [CollectNext]_collectVars PROVE RespectInv'
  OBVIOUS
<1>1. ASSUME chosen' = chosen, collected' \cup folders' \subseteq collected \cup folders
      PROVE  RespectInv'
  BY <1>1 DEF RespectInv
<1>2. CASE Commanded
  BY <1>2, CommandedIs, CommandIs DEF RespectInv
<1>3. CASE Disturbing
  BY <1>1, <1>3, DisturbingIs DEF HandedOver, choiceVars
<1>4. CASE WalkFolders
  <2>1. folders' = {[path |-> d, ref |-> StateOf(d) = REFERENCE] :
                      d \in {e \in {d \in Folder : Exists(d) /\ PathTo[d] \cap roots # {}} :
                               StateOf(e) # EXCLUDED}}
        /\ collected' = {} /\ chosen' = chosen
    BY <1>4 DEF WalkFolders
  <2>2. ASSUME NEW c \in folders' PROVE Respects(c.ref, Owner(c.path), chosen)
    <3>1. PICK d \in Folder : StateOf(d) # EXCLUDED
                              /\ c = [path |-> d, ref |-> StateOf(d) = REFERENCE]
      BY <2>1, <2>2
    <3>2. c.path = d /\ c.ref = (StateOf(d) = REFERENCE) /\ Owner(d) = d
      BY <3>1, CollectConstants DEF Owner
    <3> QED BY <3>1, <3>2, ScannedRespects
  <2> QED BY <2>1, <2>2 DEF RespectInv
<1>5. CASE ReadFolder
  <2> DEFINE d == visiting.folder
             new == {[path |-> x.path, ref |-> StateOf(d) = REFERENCE, size |-> x.size] :
                       x \in {y \in FilesFound : StateOf(d) # EXCLUDED /\ ~IsExcluded(y.path)}}
  <2>1. visiting # Nowhere /\ UNCHANGED <<chosen, folders>> /\ (FolderMissed \/ FolderRead)
    BY <1>5, ReadFolderDoes
  <2>2. collected' = collected \/ collected' = collected \cup new
    BY <2>1 DEF FolderMissed, FolderRead
  <2>3. ASSUME NEW c \in new PROVE Respects(c.ref, Owner(c.path), chosen)
    <3>1. PICK x \in FilesFound : StateOf(d) # EXCLUDED
                 /\ c = [path |-> x.path, ref |-> StateOf(d) = REFERENCE, size |-> x.size]
      BY <2>3
    <3>2. c.path = x.path /\ c.ref = (StateOf(d) = REFERENCE)
      BY <3>1
    <3>3. d \in Folder /\ Owner(x.path) = d
      BY <2>1, FoundInFolder DEF FilesFound, Owner
    <3> QED BY <3>1, <3>2, <3>3, ScannedRespects
  <2> HIDE DEF new
  <2> QED BY <2>1, <2>2, <2>3 DEF RespectInv
<1>6. CASE StartWalk
  BY <1>1, <1>6 DEF StartWalk, choiceVars
<1>7. CASE StopWalk
  BY <1>1, <1>7 DEF StopWalk, choiceVars
<1>8. ASSUME NEW d \in Folder, Look(d) \/ Visit(d) PROVE RespectInv'
  BY <1>1, <1>8 DEF Look, Visit, walkVars, choiceVars
<1>9. CASE UNCHANGED collectVars
  BY <1>1, <1>9 DEF collectVars, walkVars, choiceVars
<1> QED BY <1>2, <1>3, <1>4, <1>5, <1>6, <1>7, <1>8, <1>9, NextIs

\* ChoicesAreRespected, for any tree of folders: the nearest choice of the user above what a scan
\* gets is not to exclude it, and makes it a reference if that was the choice.
THEOREM ChoicesStayRespected == CollectSpec => []ChoicesAreRespected
<1>1. CollectInit => TreeInv /\ WalkTypes /\ RespectInv
  BY TreeStarts, WalkTypesStart DEF CollectInit, RespectInv
<1>2. TreeInv /\ WalkTypes /\ RespectInv /\ [CollectNext]_collectVars
        => (TreeInv /\ WalkTypes /\ RespectInv)'
  BY TreeStep, WalkTypesStep, RespectStep
<1>3. RespectInv => ChoicesAreRespected
  <2> SUFFICES ASSUME RespectInv, NEW c \in collected \cup folders,
                      PathTo[Owner(c.path)] \cap DOMAIN chosen # {}
               PROVE  LET choice == chosen[Nearest(Owner(c.path), PathTo[Owner(c.path)] \cap DOMAIN chosen)]
                      IN  choice # EXCLUDED /\ (choice = REFERENCE => c.ref)
    BY DEF ChoicesAreRespected
  <2>1. Nearest(Owner(c.path), PathTo[Owner(c.path)] \cap DOMAIN chosen)
          = Nearest(Owner(c.path), DOMAIN chosen)
    <3> DEFINE p == PathTo[Owner(c.path)]
    <3>1. p \cap (p \cap DOMAIN chosen) = p \cap DOMAIN chosen
      OBVIOUS
    <3> QED BY <3>1 DEF Nearest
  <2> QED BY <2>1 DEF RespectInv, Respects
<1> QED BY <1>1, <1>2, <1>3, PTL DEF CollectSpec

-----------------------------------------------------------------------------
(* Listings.                                                               *)

\* What a listing must say of a folder.
FoundIsTrue(d, found) ==
  /\ {x.path : x \in found} = {e \in present : Parent[e] = d}
  /\ \A x \in found : x.path \in File => x.size = size[x.path] \/ x.path \in resized
\* A row was stored when its folder had been left alone, so that a later change shows.
RowTrue(d) ==
  /\ listing[d].time \in Int /\ (listing[d].time # NoRow.time => now - listing[d].time > SETTLE)
  /\ listing[d].time = changed[d] => FoundIsTrue(d, listing[d].found)
ListingInv ==
  /\ now \in Nat /\ changed \in [Folder -> Nat] /\ DOMAIN size = File
  /\ visiting # Nowhere => visiting.time \in Int
  /\ \A d \in Folder : RowTrue(d)

\* It stays true while the folder keeps its entries and no size stops being known as old.
LEMMA StillTrue ==
  ASSUME NEW d, NEW found, FoundIsTrue(d, found), size' = size,
         {e \in present' : Parent[e] = d} = {e \in present : Parent[e] = d},
         \A x \in found : x.path \in resized => x.path \in resized'
  PROVE  FoundIsTrue(d, found)'
BY DEF FoundIsTrue

\* What os.scandir finds.
LEMMA LiveIs ==
  ASSUME NEW d
  PROVE  /\ {x.path : x \in Live(d)} = {e \in present : Parent[e] = d}
         /\ \A x \in Live(d) : x.path \in File => x.size = size[x.path]
<1>1. ASSUME NEW e \in present, Parent[e] = d PROVE \E x \in Live(d) : x.path = e
  <2> DEFINE x == [path |-> e, size |-> IF e \in File THEN size[e] ELSE 0]
  <2>1. x \in Live(d)
    BY <1>1 DEF Live
  <2>2. x.path = e
    OBVIOUS
  <2> QED BY <2>1, <2>2
<1>2. \A x \in Live(d) : x.path \in present /\ Parent[x.path] = d
  BY DEF Live
<1>3. \A x \in Live(d) : x.path \in File => x.size = size[x.path]
  BY DEF Live
<1> QED BY <1>1, <1>2, <1>3

\* It is true, also as a row that is stored.
LEMMA LiveStaysTrue ==
  ASSUME NEW d, NEW found, found = Live(d), UNCHANGED <<present, size>>
  PROVE  FoundIsTrue(d, found)'
BY LiveIs DEF FoundIsTrue

\* Nothing is remembered.
LEMMA ListingStarts == CollectInit => ListingInv
BY DEF CollectInit, ListingInv, RowTrue, NoRow, Nowhere

\* Only a change in a folder, a time later than that of its row, makes a row untrue.
LEMMA ListingStep == TreeInv /\ WalkTypes /\ ListingInv /\ [CollectNext]_collectVars => ListingInv'
<1> SUFFICES ASSUME TreeInv, WalkTypes, ListingInv, [CollectNext]_collectVars PROVE ListingInv'
  OBVIOUS
<1>1. ASSUME UNCHANGED <<listing, present, changed, size, now, resized>>, visiting' = visiting
      PROVE  ListingInv'
  BY <1>1 DEF ListingInv, RowTrue, FoundIsTrue
<1>2. CASE Commanded
  BY <1>1, <1>2, CommandedIs, CommandIs
<1>3. ASSUME NEW e \in Unstable, ToggleEntry(e) PROVE ListingInv'
  <2>1. /\ present' = present \ {e} \/ present' = present \cup {e}
        /\ changed' = [d \in Folder |-> IF d = Parent[e] THEN Stamp ELSE changed[d]]
        /\ UNCHANGED <<listing, size, resized, now, visiting>>
    BY <1>3 DEF ToggleEntry, Change
  <2>2. Stamp \in Nat /\ now - Stamp < Resolution
    <3>1. now \in Nat /\ Resolution \in Nat /\ Resolution > 0
      BY CollectConstants DEF ListingInv
    <3>2. now % Resolution \in 0..(Resolution - 1) /\ now % Resolution <= now
      BY <3>1
    <3> QED BY <3>1, <3>2 DEF Stamp
  <2>3. changed' \in [Folder -> Nat]
    BY <2>1, <2>2 DEF ListingInv
  <2>4. ASSUME NEW d \in Folder PROVE RowTrue(d)'
    <3>1. listing[d].time \in Int /\ (listing[d].time # NoRow.time => now - listing[d].time > SETTLE)
          /\ (listing[d].time = changed[d] => FoundIsTrue(d, listing[d].found))
      BY DEF ListingInv, RowTrue
    <3>2. CASE d = Parent[e]
      <4>1. changed'[d] = Stamp
        BY <2>1, <3>2
      <4>2. listing[d].time # Stamp
        <5>1. NoRow.time = 0 - 1 /\ now \in Nat /\ SETTLE \in Nat /\ Resolution \in Nat /\ Resolution <= SETTLE
          BY CollectConstants DEF NoRow, ListingInv
        <5> QED BY <2>2, <3>1, <5>1
      <4> QED BY <2>1, <3>1, <4>1, <4>2 DEF RowTrue
    <3>3. CASE d # Parent[e]
      <4>1. changed'[d] = changed[d]
        BY <2>1, <3>3
      <4>2. {x \in present' : Parent[x] = d} = {x \in present : Parent[x] = d}
        BY <2>1, <3>3
      <4> QED BY <2>1, <3>1, <4>1, <4>2 DEF RowTrue, FoundIsTrue
    <3> QED BY <3>2, <3>3
  <2> QED BY <2>1, <2>3, <2>4 DEF ListingInv
<1>4. ASSUME NEW f \in Unstable \cap File, Resize(f) PROVE ListingInv'
  <2>1. size' = [size EXCEPT ![f] = 3 - @] /\ resized' = resized \cup {f}
        /\ UNCHANGED <<listing, present, changed, now, visiting>>
    BY <1>4 DEF Resize, Change
  <2>2. DOMAIN size' = File /\ \A g \in File : g # f => size'[g] = size[g]
    BY <2>1 DEF ListingInv
  <2> QED BY <2>1, <2>2 DEF ListingInv, RowTrue, FoundIsTrue
<1>5. CASE Tick
  <2>1. PICK t \in Times : now < t /\ now' = t
    BY <1>5 DEF Tick
  <2>2. UNCHANGED <<listing, present, changed, size, resized, visiting>>
    BY <1>5 DEF Tick
  <2>3. t \in Nat /\ SETTLE \in Nat
    BY CollectConstants
  <2>4. \A d \in Folder : now - listing[d].time > SETTLE /\ listing[d].time \in Int
                            => now' - listing[d].time > SETTLE
    BY <2>1, <2>3 DEF ListingInv
  <2> QED BY <2>1, <2>2, <2>3, <2>4 DEF ListingInv, RowTrue, FoundIsTrue
<1>6. ASSUME NEW d \in Folder, Visit(d) PROVE ListingInv'
  <2>1. visiting' = [folder |-> d, time |-> IF Exists(d) THEN changed[d] ELSE NoRow.time]
        /\ UNCHANGED <<listing, present, changed, size, now, resized>>
    BY <1>6 DEF Visit, diskVars
  <2>2. visiting'.time \in Int
    BY <2>1 DEF NoRow, ListingInv
  <2> QED BY <2>1, <2>2 DEF ListingInv, RowTrue, FoundIsTrue
<1>7. CASE ReadFolder
  <2>1. /\ visiting # Nowhere /\ visiting' = Nowhere
        /\ UNCHANGED <<present, changed, size, now>> /\ (FolderMissed \/ FolderRead)
    BY <1>7, ReadFolderDoes
  <2>2. CASE UNCHANGED <<listing, resized>>
    BY <2>1, <2>2 DEF ListingInv, RowTrue, FoundIsTrue
  <2>3. CASE FolderRead /\ RowKept
    <3>1. PICK d \in Folder : d = visiting.folder
      BY <2>1, FoundInFolder
    <3>2. PICK time \in Int : time = visiting.time /\ now - time > SETTLE
      BY <2>1, <2>3 DEF RowKept, Settled, ListingInv
    <3>3. PICK found : found = Live(d)
      OBVIOUS
    <3>4. ~VisitHit
      BY <2>3 DEF RowKept
    <3>5. found = EntriesFound
      BY <3>1, <3>3, <3>4 DEF EntriesFound
    <3>6. listing' = [listing EXCEPT ![d] = [time |-> time, found |-> found]]
          /\ resized' = {f \in resized : Parent[f] # d}
      BY <2>3, <3>1, <3>2, <3>5 DEF FolderRead
    <3>7. listing'[d].time = time /\ listing'[d].found = found
          /\ \A e \in Folder : e # d => listing'[e] = listing[e]
      BY <3>6 DEF WalkTypes
    <3>8. RowTrue(d)'
      BY <2>1, <3>2, <3>3, <3>7, LiveStaysTrue DEF RowTrue
    <3>9. ASSUME NEW e \in Folder, e # d PROVE RowTrue(e)'
      <4>1. listing'[e] = listing[e] /\ RowTrue(e)
        BY <3>7, <3>9 DEF ListingInv
      <4>2. \A x \in listing[e].found : x.path \in resized => x.path \in resized'
        BY <3>6, <3>9 DEF WalkTypes
      <4> QED BY <2>1, <4>1, <4>2, StillTrue DEF RowTrue
    <3> QED BY <2>1, <3>8, <3>9 DEF ListingInv
  <2> QED BY <2>1, <2>2, <2>3 DEF FolderMissed, FolderRead
<1>8. CASE StopWalk
  BY <1>1, <1>8 DEF StopWalk, diskVars
<1>9. CASE StartWalk \/ WalkFolders \/ UNCHANGED collectVars
  BY <1>1, <1>9 DEF StartWalk, WalkFolders, collectVars, walkVars, diskVars
<1>10. ASSUME NEW d \in Folder, Look(d) PROVE ListingInv'
  BY <1>1, <1>10 DEF Look, walkVars, diskVars
<1> QED BY <1>2, <1>3, <1>4, <1>5, <1>6, <1>7, <1>8, <1>9, <1>10, NextIs DEF Disturbing

-----------------------------------------------------------------------------
(* What a walk has found.                                                  *)

Under(d) == PathTo[d] \cap roots # {}
\* The folders below the roots on the way to d, d included, that are excluded by default have a
\* state: nothing that is asked for later changes that of d.
StateIsKept(d) == \A e \in PathTo[d] : Under(e) /\ DefaultExcluded(e) => e \in DOMAIN states
\* What is still to visit is no folder twice, and the walk came to it from its root.
WalkInv ==
  /\ \A d, e \in todo : d \notin Above(e)
  /\ \A d \in todo : Under(d) /\ \A e \in Above(d) : Under(e) /\ DefaultExcluded(e) => e \in DOMAIN states
  /\ \A c \in collected : /\ c = [path |-> c.path, ref |-> c.ref, size |-> c.size]
                          /\ c.path \in File /\ c.ref \in BOOLEAN
                          /\ PathTo[Parent[c.path]] \cap todo = {}

\* A folder that a walk can reach, and what the walk has done for it.
Reached(d) == Exists(d) /\ Under(d) /\ ~BehindJunction(d)
Pending(e) == PathTo[e] \cap todo # {}
TimeIsFresh ==
  visiting # Nowhere =>
    visiting.time = IF Exists(visiting.folder) THEN changed[visiting.folder] ELSE NoRow.time
FoldersAreKnown ==
  \A d \in Folder : Reached(d) /\ ~Pending(d) => StateOf(d) = EXCLUDED \/ StateIsKept(d)
NothingIsLeft ==
  \A f \in FreshFiles :
    Pending(f) \/ \E c \in collected : c.path = f /\ c.ref = (StateOf(Parent[f]) = REFERENCE)
NothingElse ==
  \A c \in collected : ~BehindJunction(c.path) =>
    c.path \in FreshFiles /\ c.ref = (StateOf(Parent[c.path]) = REFERENCE)
SizesAreKnown == \A c \in collected : c.size = size[c.path] \/ c.path \in resized
FreshInv ==
  walk # "idle" /\ ~disturbed =>
    TimeIsFresh /\ FoldersAreKnown /\ NothingIsLeft /\ NothingElse /\ SizesAreKnown

\* A folder that is visited may get a state only where no later question counts.
LEMMA KeptState ==
  ASSUME NEW d \in Folder, StateIsKept(d), NEW S \in SUBSET Folder, \A e \in S : Under(e)
  PROVE  /\ StateAmong(Remembered(states, S), d) = StateOf(d)
         /\ \A e \in DOMAIN states : e \in DOMAIN Remembered(states, S)
<1> DEFINE new == Remembered(states, S)
<1>1. /\ DOMAIN new = DOMAIN states \cup {e \in S : DefaultExcluded(e)}
      /\ \A e \in DOMAIN new : new[e] = IF e \in DOMAIN states THEN states[e] ELSE EXCLUDED
  BY RememberedIs
<1> HIDE DEF new
<1>2. PathTo[d] \cap DOMAIN new = PathTo[d] \cap DOMAIN states
  BY <1>1 DEF StateIsKept
<1>3. \A e \in PathTo[d] \cap DOMAIN new : new[e] = states[e]
  BY <1>1, <1>2
<1>4. StateAmong(new, d) = StateAmong(states, d)
  BY <1>2, <1>3, StateFrom
<1> QED BY <1>1, <1>4 DEF StateOf, new

\* What is below a folder that is skipped is excluded as the folder is.
LEMMA SkipExcludes ==
  ASSUME NEW d \in Folder, StateOf(d) = EXCLUDED, NEW new, new = Remembered(states, {d}),
         \A e \in DOMAIN new : d \notin PathTo[e], DOMAIN new \subseteq Entry,
         NEW p \in Folder, d \in PathTo[p]
  PROVE  StateAmong(new, p) = EXCLUDED
<1>1. /\ DOMAIN new = DOMAIN states \cup {e \in {d} : DefaultExcluded(e)}
      /\ \A e \in DOMAIN new : new[e] = IF e \in DOMAIN states THEN states[e] ELSE EXCLUDED
  <2>1. PICK S : S = {d}
    OBVIOUS
  <2>2. /\ DOMAIN Remembered(states, S) = DOMAIN states \cup {e \in S : DefaultExcluded(e)}
        /\ \A e \in DOMAIN Remembered(states, S) :
             Remembered(states, S)[e] = IF e \in DOMAIN states THEN states[e] ELSE EXCLUDED
    BY DEF Remembered
  <2> QED BY <2>1, <2>2
<1>2. d \in Entry /\ p \in Entry /\ d \in PathTo[d] /\ p \in PathTo[p] /\ PathTo[d] \subseteq PathTo[p]
  BY PathFacts, PathTransitive DEF Entry
<1>3. d \notin DOMAIN new /\ p \notin DOMAIN new /\ ~DefaultExcluded(d)
  BY <1>1, <1>2
<1>4. DOMAIN new = DOMAIN states /\ \A e \in DOMAIN new : new[e] = states[e]
  BY <1>1, <1>3
<1>5. PathTo[p] \cap DOMAIN new = PathTo[d] \cap DOMAIN states
  <2>1. ASSUME NEW e \in PathTo[p] \cap DOMAIN new PROVE e \in PathTo[d]
    BY <1>2, PathIsChain
  <2> QED BY <1>2, <1>4, <2>1
<1>6. PathTo[d] \cap DOMAIN states # {} /\ states[Nearest(d, DOMAIN states)] = EXCLUDED
  BY <1>3, <1>4 DEF StateOf, StateAmong, Above, NORMAL, EXCLUDED
<1>7. Nearest(p, DOMAIN new) = Nearest(d, DOMAIN states)
  BY <1>5 DEF Nearest
<1>8. Nearest(d, DOMAIN states) \in DOMAIN states
  BY <1>2, <1>6, NearestIs
<1>9. Above(p) \cap DOMAIN new # {}
  BY <1>3, <1>5, <1>6 DEF Above
<1> QED BY <1>3, <1>4, <1>6, <1>7, <1>8, <1>9 DEF StateAmong

\* No walk has begun.
LEMMA WalkStarts == CollectInit => WalkInv
BY DEF CollectInit, WalkInv

\* A folder read gives way to folders in it.
LEMMA WalkStep == TreeInv /\ WalkTypes /\ WalkInv /\ [CollectNext]_collectVars => WalkInv'
<1> SUFFICES ASSUME TreeInv, WalkTypes, WalkInv, [CollectNext]_collectVars PROVE WalkInv'
  OBVIOUS
<1>1. ASSUME todo' = {}, collected' \subseteq collected PROVE WalkInv'
  BY <1>1 DEF WalkInv
<1>2. ASSUME todo' = todo, collected' \subseteq collected, UNCHANGED <<roots, states, excludeVars>>
      PROVE  WalkInv'
  <2>1. \A d : DefaultExcluded(d)' <=> DefaultExcluded(d)
    BY <1>2, PatternsStay DEF excludeVars
  <2> QED BY <1>2, <2>1 DEF WalkInv, Under
<1>3. CASE Commanded
  BY <1>1, <1>3, CommandedIs, CommandIs DEF WalkTypes
<1>4. CASE Disturbing
  BY <1>2, <1>4, DisturbingIs DEF HandedOver, choiceVars
<1>5. CASE StartWalk
  <2>1. todo' = roots /\ collected' = {} /\ UNCHANGED <<roots, states, excludeVars>>
    BY <1>5 DEF StartWalk, choiceVars
  <2>2. \A d, e \in roots : d \notin Above(e)
    BY DEF TreeInv, RootsOK
  <2>3. ASSUME NEW d \in roots, NEW e \in Above(d) PROVE ~Under(e) /\ Under(d)
    <3>1. d \in Entry /\ d \in PathTo[d] /\ e \in PathTo[d] /\ e # d
      BY PathFacts DEF TreeInv, RootsOK, Entry, Above
    <3>2. ASSUME NEW r \in roots, r \in PathTo[e] PROVE FALSE
      <4>1. r \in PathTo[d]
        BY <3>1, <3>2, PathTransitive
      <4>2. r = d
        BY <2>2, <4>1 DEF Above
      <4> QED BY <3>1, <3>2, <4>2, PathAcyclic
    <3> QED BY <3>1, <3>2 DEF Under
  <2>4. \A d \in roots : Under(d)
    BY PathFacts DEF TreeInv, RootsOK, Entry, Under
  <2> QED BY <2>1, <2>2, <2>3, <2>4 DEF WalkInv, Under
<1>6. CASE ReadFolder
  <2> DEFINE children == IF SkipDirs(visiting.folder, states') THEN {}
                         ELSE {e \in DirsFound : Traversable(e, VisitHit)}
             new == {[path |-> x.path, ref |-> StateOf(visiting.folder) = REFERENCE, size |-> x.size] :
                       x \in {y \in FilesFound : StateOf(visiting.folder) # EXCLUDED /\ ~IsExcluded(y.path)}}
  <2>1. visiting # Nowhere /\ UNCHANGED roots /\ (FolderMissed \/ FolderRead)
    BY <1>6, ReadFolderDoes
  <2>2. PICK d \in todo : d = visiting.folder
    BY <2>1 DEF WalkTypes
  <2>3. d \in Folder /\ d \in Entry /\ d \in PathTo[d]
    BY PathFacts DEF WalkTypes, Entry
  <2>4. CASE FolderMissed
    <3>1. todo' = todo \ {d} /\ UNCHANGED <<excludeVars, states, collected>>
      BY <2>2, <2>4 DEF FolderMissed
    <3>2. \A x : DefaultExcluded(x)' <=> DefaultExcluded(x)
      BY <3>1, PatternsStay DEF excludeVars
    <3> QED BY <2>1, <3>1, <3>2 DEF WalkInv, Under
  <2>5. CASE FolderRead
    <3>1. /\ states' = Remembered(states, {d}) /\ (ReadCompiled \/ UNCHANGED excludeVars)
          /\ todo' = (todo \ {d}) \cup children /\ collected' = collected \cup new
      BY <2>2, <2>5 DEF FolderRead
    <3>2. \A x : DefaultExcluded(x)' <=> DefaultExcluded(x)
      BY <3>1, PatternsStay
    <3>3. ASSUME NEW c \in children
          PROVE  c \in Folder /\ c \in Entry /\ PathTo[c] = {c} \cup PathTo[d] /\ c \notin PathTo[d]
      <4>1. c \in Folder /\ Parent[c] = d /\ c \in Entry
        BY <2>1, <2>2, FoundInFolder DEF DirsFound, FilesFound, Entry
      <4>2. PathTo[c] = {c} \cup PathTo[d]
        BY <2>3, <4>1, PathToIs, CollectConstants DEF Entry
      <4>3. ASSUME c \in PathTo[d] PROVE FALSE
        <5>1. c = d
          BY <2>3, <4>1, <4>2, <4>3, PathAcyclic
        <5>2. {d} \in SUBSET Entry /\ {d} # {} /\ \A e \in {d} : Parent[e] \in {d}
          BY <2>3, <4>1, <5>1
        <5> QED BY <5>2, CollectConstants
      <4> QED BY <4>1, <4>2, <4>3
    <3>4. ASSUME NEW x \in new
          PROVE  /\ x = [path |-> x.path, ref |-> x.ref, size |-> x.size]
                 /\ x.path \in File /\ x.ref \in BOOLEAN /\ Parent[x.path] = d
      <4>1. PICK y \in FilesFound :
              x = [path |-> y.path, ref |-> StateOf(visiting.folder) = REFERENCE, size |-> y.size]
        BY <3>4
      <4>2. y.path \in File /\ Parent[y.path] = d
        BY <2>1, <2>2, FoundInFolder DEF FilesFound
      <4> QED BY <4>1, <4>2
    <3> HIDE DEF children, new
    <3>5. PathTo[d] \cap (todo \ {d}) = {}
      BY <2>2 DEF WalkInv, Above
    <3>6. ASSUME NEW x \in Folder, NEW c \in children, c \in PathTo[x] PROVE d \in PathTo[x]
      <4>1. d \in PathTo[c] /\ x \in Entry
        BY <2>3, <3>3 DEF Entry
      <4> QED BY <3>6, <4>1, PathTransitive
    <3>7. \A x, e \in todo' : x \notin Above(e)
      <4> SUFFICES ASSUME NEW x \in todo', NEW e \in todo', x \in PathTo[e], x # e PROVE FALSE
        BY DEF Above
      <4>1. CASE x \in todo \ {d} /\ e \in todo \ {d}
        BY <4>1 DEF WalkInv, Above
      <4>2. CASE e \in children
        <5>1. x \in PathTo[d]
          BY <3>3, <4>2
        <5>2. x \notin children
          BY <3>3, <5>1
        <5> QED BY <3>1, <3>5, <5>1, <5>2
      <4>3. CASE x \in children /\ e \in todo \ {d}
        <5>1. d \in PathTo[e]
          BY <3>6, <4>3 DEF WalkTypes
        <5> QED BY <2>2, <4>3, <5>1 DEF WalkInv, Above
      <4> QED BY <3>1, <4>1, <4>2, <4>3
    <3>8. /\ DOMAIN states \subseteq DOMAIN states'
          /\ DefaultExcluded(d) => d \in DOMAIN states'
      <4>1. DOMAIN Remembered(states, {d}) = DOMAIN states \cup {e \in {d} : DefaultExcluded(e)}
        BY RememberedIs
      <4> QED BY <3>1, <4>1
    <3>9. Under(d) /\ \A e \in Above(d) : Under(e) /\ DefaultExcluded(e) => e \in DOMAIN states
      BY <2>2 DEF WalkInv
    <3>10. ASSUME NEW x \in todo', NEW e \in Above(x), Under(e), DefaultExcluded(e)
           PROVE  e \in DOMAIN states'
      <4>1. CASE x \in todo
        BY <3>8, <3>10, <4>1 DEF WalkInv
      <4>2. CASE x \in children
        <5>1. e = d \/ e \in Above(d)
          BY <3>3, <4>2 DEF Above
        <5> QED BY <3>8, <3>9, <3>10, <5>1
      <4> QED BY <3>1, <4>1, <4>2
    <3>11. \A x \in todo' : Under(x)
      BY <3>1, <3>3, <3>9 DEF WalkInv, Under
    <3>12. ASSUME NEW c \in collected' PROVE PathTo[Parent[c.path]] \cap todo' = {}
      <4>1. CASE c \in collected
        <5>1. c.path \in File /\ PathTo[Parent[c.path]] \cap todo = {} /\ Parent[c.path] \in Folder
          BY <4>1, CollectConstants DEF WalkInv
        <5> QED BY <2>2, <3>1, <3>6, <5>1
      <4>2. CASE c \in new
        <5>1. Parent[c.path] = d
          BY <3>4, <4>2
        <5> QED BY <3>1, <3>3, <3>5, <5>1
      <4> QED BY <3>1, <4>1, <4>2
    <3>13. \A c \in collected' : /\ c = [path |-> c.path, ref |-> c.ref, size |-> c.size]
                                 /\ c.path \in File /\ c.ref \in BOOLEAN
      BY <3>1, <3>4 DEF WalkInv
    <3> QED BY <2>1, <3>2, <3>7, <3>10, <3>11, <3>12, <3>13 DEF WalkInv, Under
  <2> QED BY <2>1, <2>4, <2>5
<1>7. CASE StopWalk
  BY <1>1, <1>7 DEF StopWalk
<1>8. CASE WalkFolders
  BY <1>1, <1>8 DEF WalkFolders, WalkTypes
<1>9. ASSUME NEW d \in Folder, Look(d) PROVE WalkInv'
  BY <1>1, <1>9 DEF Look, walkVars, WalkTypes
<1>10. ASSUME NEW d \in Folder, Visit(d) PROVE WalkInv'
  BY <1>2, <1>10 DEF Visit, choiceVars
<1>11. CASE UNCHANGED collectVars
  BY <1>2, <1>11 DEF collectVars, walkVars, choiceVars
<1> QED BY <1>3, <1>4, <1>5, <1>6, <1>7, <1>8, <1>9, <1>10, <1>11, NextIs

\* What is fresh, from what is there and the states.
FreshUnder(states0) ==
  {f \in File : /\ Exists(f) /\ Under(f) /\ ~BehindJunction(f)
                /\ StateAmong(states0, Parent[f]) # EXCLUDED /\ ~IsExcluded(f)}

\* What is fresh after a step that asked for states.
LEMMA FreshAfter ==
  ASSUME ReadCompiled \/ UNCHANGED excludeVars, UNCHANGED <<roots, present>>
  PROVE  /\ FreshFiles' = FreshUnder(states') /\ FreshFiles = FreshUnder(states)
         /\ \A d : Reached(d)' <=> Reached(d)
         /\ \A f : BehindJunction(f)' <=> BehindJunction(f)
<1>1. \A d : BehindJunction(d)' <=> BehindJunction(d)
  BY DEF BehindJunction
<1>2. \A d : (Exists(d)' <=> Exists(d)) /\ (Under(d)' <=> Under(d))
  BY DEF Exists, Under
<1>3. \A f \in File : StateOf(Parent[f])' = StateAmong(states', Parent[f])
  BY StateStays
<1>4. \A f : IsExcluded(f)' <=> IsExcluded(f)
  BY PatternsStay
<1>5. FreshFiles = FreshUnder(states)
  BY DEF FreshFiles, FreshUnder, StateOf, Under
<1>6. FreshFiles' = {f \in File : /\ Exists(f)' /\ Under(f)' /\ ~BehindJunction(f)'
                                  /\ StateOf(Parent[f])' # EXCLUDED /\ ~IsExcluded(f)'}
  BY DEF FreshFiles, Under
<1>7. FreshFiles' = FreshUnder(states')
  BY <1>1, <1>2, <1>3, <1>4, <1>6 DEF FreshUnder
<1> QED BY <1>1, <1>2, <1>5, <1>7 DEF Reached

\* A file that is fresh is in a folder a walk can reach.
LEMMA FreshIsReached ==
  ASSUME TreeInv, NEW f \in File, Exists(f), Under(f), ~BehindJunction(f)
  PROVE  Parent[f] \in Folder /\ Reached(Parent[f]) /\ PathTo[f] = {f} \cup PathTo[Parent[f]]
<1>1. Parent[f] \in Folder /\ f \in Entry /\ f \notin Folder
  BY CollectConstants DEF Entry
<1>2. PathTo[f] = {f} \cup PathTo[Parent[f]]
  BY <1>1, PathToIs, CollectConstants DEF Entry
<1>3. f \notin roots
  BY <1>1 DEF TreeInv, RootsOK
<1> QED BY <1>1, <1>2, <1>3 DEF Reached, Exists, Under, BehindJunction

\* Questions for the states of folders below the roots change nothing that is fresh.
LEMMA KeptFresh ==
  ASSUME TreeInv, NEW p \in Folder, NEW S \in SUBSET Folder, \A e \in S : Under(e),
         StateOf(p) = EXCLUDED \/ StateIsKept(p)
  PROVE  StateAmong(Remembered(states, S), p) = StateOf(p)
BY KeptState, ExcludedStays DEF StateOf

\* A walk that is not disturbed reads what is in a folder.
LEMMA EntriesAreTrue ==
  ASSUME WalkTypes, ListingInv, TimeIsFresh, visiting # Nowhere, NEW d, d = visiting.folder,
         VisitHit \/ Exists(d)
  PROVE  Exists(d) /\ FoundIsTrue(d, EntriesFound)
<1>1. d \in Folder
  BY DEF WalkTypes
<1>2. CASE VisitHit
  <2>1. visiting.time # NoRow.time /\ listing[d].time = visiting.time
    BY <1>2 DEF VisitHit, Remembers
  <2>2. Exists(d) /\ visiting.time = changed[d]
    BY <2>1 DEF TimeIsFresh
  <2>3. FoundIsTrue(d, listing[d].found)
    BY <1>1, <2>1, <2>2 DEF ListingInv, RowTrue
  <2> QED BY <1>2, <2>2, <2>3 DEF EntriesFound
<1>3. CASE ~VisitHit
  <2>1. EntriesFound = Live(visiting.folder)
    BY <1>3 DEF EntriesFound
  <2> QED BY <1>3, <2>1, LiveIs DEF FoundIsTrue
<1> QED BY <1>2, <1>3

\* No walk has begun.
LEMMA FreshStarts == CollectInit => FreshInv
BY DEF CollectInit, FreshInv

\* One folder read in a walk that nothing disturbed.
LEMMA FreshAfterReading ==
  ASSUME TreeInv, WalkTypes, WalkInv, WalkInv', ListingInv, FreshInv, ReadFolder, FolderRead,
         ~disturbed
  PROVE  FreshInv'
<1> DEFINE new == {[path |-> x.path, ref |-> StateOf(visiting.folder) = REFERENCE, size |-> x.size] :
                     x \in {y \in FilesFound : StateOf(visiting.folder) # EXCLUDED /\ ~IsExcluded(y.path)}}
<1>1. /\ walk = "walking" /\ visiting # Nowhere /\ visiting' = Nowhere
      /\ UNCHANGED <<roots, present, changed, size, disturbed>>
  BY ReadFolderDoes
<1>2. TimeIsFresh /\ FoldersAreKnown /\ NothingIsLeft /\ NothingElse /\ SizesAreKnown
  BY <1>1 DEF FreshInv
<1>3. PICK d \in todo : d = visiting.folder
  BY <1>1 DEF WalkTypes
<1>4. d \in Folder /\ d \in Entry /\ d \in PathTo[d] /\ Under(d)
  BY PathFacts DEF WalkTypes, Entry, WalkInv
<1>5. Exists(d) /\ FoundIsTrue(d, EntriesFound)
  BY <1>1, <1>2, <1>3, EntriesAreTrue DEF FolderRead
<1>6. PICK S \in SUBSET Folder : S = {d}
  BY <1>4
<1>7. /\ states' = Remembered(states, S) /\ (ReadCompiled \/ UNCHANGED excludeVars)
      /\ collected' = collected \cup new
      /\ todo' = (todo \ {d}) \cup (IF SkipDirs(d, states') THEN {}
                                    ELSE {e \in DirsFound : Traversable(e, VisitHit)})
  BY <1>3, <1>6 DEF FolderRead
<1>8. \A e \in S : Under(e)
  BY <1>4, <1>6
<1>9. /\ FreshFiles' = FreshUnder(states') /\ FreshFiles = FreshUnder(states)
      /\ \A x : Reached(x)' <=> Reached(x)
      /\ \A x : BehindJunction(x)' <=> BehindJunction(x)
      /\ \A x : (DefaultExcluded(x)' <=> DefaultExcluded(x)) /\ (IsExcluded(x)' <=> IsExcluded(x))
      /\ \A x : StateOf(x)' = StateAmong(states', x)
  BY <1>1, <1>7, FreshAfter, PatternsStay, StateStays
<1>10. /\ \A e \in DOMAIN states : e \in DOMAIN states'
       /\ DefaultExcluded(d) => d \in DOMAIN states'
       /\ DOMAIN states' \subseteq Folder
  <2>1. DOMAIN states' = DOMAIN states \cup {e \in S : DefaultExcluded(e)}
    BY <1>7, RememberedIs
  <2> QED BY <1>6, <2>1 DEF TreeInv, Follows
<1>11. ASSUME NEW p \in Folder, StateOf(p) = EXCLUDED \/ StateIsKept(p)
       PROVE  StateAmong(states', p) = StateOf(p)
  BY <1>7, <1>8, <1>11, KeptFresh
<1>12. StateAmong(states', d) = StateOf(d)
  <2>1. \A e \in DOMAIN states' :
          e \in DOMAIN states \/ (e = d /\ states'[e] = EXCLUDED /\ DefaultExcluded(d))
    <3>1. /\ DOMAIN states' = DOMAIN states \cup {e \in S : DefaultExcluded(e)}
          /\ \A e \in DOMAIN states' : states'[e] = IF e \in DOMAIN states THEN states[e] ELSE EXCLUDED
      BY <1>7 DEF Remembered
    <3> QED BY <1>6, <3>1
  <2>2. \A e \in DOMAIN states : states'[e] = states[e]
    BY <1>7, <1>10, RememberedIs
  <2>3. CASE d \in DOMAIN states \/ ~DefaultExcluded(d)
    <3>1. PathTo[d] \cap DOMAIN states' = PathTo[d] \cap DOMAIN states
      BY <1>10, <2>1, <2>3
    <3> QED BY <1>4, <2>2, <3>1, StateFrom DEF StateOf
  <2>4. CASE d \notin DOMAIN states /\ DefaultExcluded(d)
    BY <1>10, <2>1, <2>4 DEF StateOf, StateAmong
  <2> QED BY <2>3, <2>4
\* Below the folder, what is not pending is excluded.
<1>13. ASSUME NEW p \in Folder, Reached(p), PathTo[p] \cap todo' = {}, d \in Above(p)
       PROVE  StateAmong(states', p) = EXCLUDED
  <2>1. p \in Entry /\ d \in PathTo[p] /\ PathTo[p] \subseteq Folder
    BY <1>13, PathFacts DEF Entry, Above
  <2>2. PICK c \in PathTo[p] : c \in Entry /\ Parent[c] = d
    BY <1>13, <2>1, ChildOn
  <2>3. c \in Folder /\ c \in present
    BY <1>13, <2>1 DEF Reached, Exists
  <2>4. c \in DirsFound
    <3>1. PICK x \in EntriesFound : x.path = c
      BY <1>5, <2>2, <2>3 DEF FoundIsTrue
    <3> QED BY <2>3, <3>1, CollectConstants DEF DirsFound, FilesFound
  <2>5. c \notin todo'
    BY <1>13
  <2>6. Traversable(c, VisitHit)
    <3>1. ASSUME c \in Junction PROVE FALSE
      <4>1. PICK r \in roots : r \in PathTo[d]
        BY <1>4 DEF Under
      <4>2. PathTo[c] = {c} \cup PathTo[d]
        BY <1>4, <2>2, PathToIs, CollectConstants DEF Entry
      <4>3. c \notin PathTo[d]
        <5>1. ASSUME c \in PathTo[d] PROVE FALSE
          <6>1. c = d
            BY <1>4, <4>2, <5>1, <2>2, PathAcyclic
          <6>2. {d} \in SUBSET Entry /\ {d} # {} /\ \A e \in {d} : Parent[e] \in {d}
            BY <1>4, <2>2, <6>1
          <6> QED BY <6>2, CollectConstants
        <5> QED BY <5>1
      <4>4. r \in Above(c)
        BY <4>1, <4>2, <4>3 DEF Above
      <4> QED BY <1>13, <3>1, <4>4 DEF Reached, BehindJunction
    <3> QED BY <3>1 DEF Traversable
  <2>7. SkipDirs(d, states')
    BY <1>7, <2>4, <2>5, <2>6
  <2>8. /\ StateOf(d) = EXCLUDED /\ \A e \in DOMAIN states' : d \notin PathTo[e]
        /\ states' = Remembered(states, {d}) /\ DOMAIN states' \subseteq Entry
    BY <1>6, <1>7, <1>10, <2>7 DEF SkipDirs, Entry
  <2>9. PICK sts : sts = states'
    OBVIOUS
  <2>10. StateAmong(sts, p) = EXCLUDED
    BY <1>4, <2>1, <2>8, <2>9, SkipExcludes
  <2> QED BY <2>9, <2>10
\* A folder that is not pending is known or excluded.
<1>14. ASSUME NEW p \in Folder, Reached(p), PathTo[p] \cap todo' = {}
       PROVE  StateAmong(states', p) = EXCLUDED
              \/ \A e \in PathTo[p] : Under(e) /\ DefaultExcluded(e) => e \in DOMAIN states'
  <2>1. CASE d \notin PathTo[p]
    <3>1. PathTo[p] \cap todo = {}
      BY <1>7, <1>14, <2>1
    <3>2. StateOf(p) = EXCLUDED \/ StateIsKept(p)
      BY <1>2, <1>14, <3>1 DEF FoldersAreKnown, Pending
    <3> QED BY <1>10, <1>11, <3>2 DEF StateIsKept
  <2>2. CASE p = d
    <3>1. \A e \in Above(d) : Under(e) /\ DefaultExcluded(e) => e \in DOMAIN states
      BY <1>3 DEF WalkInv
    <3> QED BY <1>10, <2>2, <3>1 DEF Above
  <2>3. CASE d \in Above(p)
    BY <1>13, <1>14, <2>3
  <2> QED BY <2>1, <2>2, <2>3 DEF Above
<1>15. FoldersAreKnown'
  BY <1>1, <1>9, <1>14 DEF FoldersAreKnown, Pending, StateIsKept, Under
\* What a folder that is not pending any more gives.
<1>16. ASSUME NEW f \in FreshUnder(states'), PathTo[f] \cap todo' = {}
       PROVE  \E c \in collected' : c.path = f /\ c.ref = (StateAmong(states', Parent[f]) = REFERENCE)
  <2> DEFINE p == Parent[f]
  <2>1. /\ f \in File /\ Exists(f) /\ Under(f) /\ ~BehindJunction(f) /\ ~IsExcluded(f)
        /\ StateAmong(states', p) # EXCLUDED
    BY DEF FreshUnder
  <2>2. p \in Folder /\ Reached(p) /\ PathTo[f] = {f} \cup PathTo[p]
    BY <2>1, FreshIsReached
  <2>3. PathTo[p] \cap todo' = {}
    BY <1>16, <2>2
  <2>4. CASE d \notin PathTo[p]
    <3>1. PathTo[p] \cap todo = {} /\ ~Pending(f)
      <4>1. f \notin todo
        BY <2>1, CollectConstants DEF WalkTypes
      <4> QED BY <1>7, <2>2, <2>3, <2>4, <4>1 DEF Pending
    <3>2. StateOf(p) = EXCLUDED \/ StateIsKept(p)
      BY <1>2, <2>2, <3>1 DEF FoldersAreKnown, Pending
    <3>3. StateAmong(states', p) = StateOf(p)
      BY <1>11, <2>2, <3>2
    <3>4. f \in FreshFiles
      BY <1>9, <2>1, <3>3 DEF FreshUnder, StateOf
    <3> QED BY <1>2, <1>7, <3>1, <3>3, <3>4 DEF NothingIsLeft
  <2>5. CASE p = d
    <3>1. PICK x \in EntriesFound : x.path = f
      BY <1>5, <2>1, <2>2, <2>5, PathFacts DEF FoundIsTrue, Exists, Entry
    <3> DEFINE c == [path |-> x.path, ref |-> StateOf(visiting.folder) = REFERENCE, size |-> x.size]
    <3>2. c \in new
      BY <1>3, <1>12, <2>1, <2>5, <3>1 DEF FilesFound
    <3>3. c.path = f /\ c.ref = (StateAmong(states', p) = REFERENCE)
      BY <1>3, <1>12, <2>5, <3>1
    <3> QED BY <1>7, <3>2, <3>3
  <2>6. CASE d \in Above(p)
    BY <1>13, <2>1, <2>2, <2>3, <2>6
  <2> QED BY <2>4, <2>5, <2>6 DEF Above
<1>17. NothingIsLeft'
  BY <1>9, <1>16 DEF NothingIsLeft, Pending
<1>18. ASSUME NEW c \in collected', ~BehindJunction(c.path)
       PROVE  c.path \in FreshUnder(states') /\ c.ref = (StateAmong(states', Parent[c.path]) = REFERENCE)
  <2>1. CASE c \in collected
    <3>1. c.path \in FreshUnder(states) /\ c.ref = (StateOf(Parent[c.path]) = REFERENCE)
          /\ PathTo[Parent[c.path]] \cap todo = {}
      BY <1>2, <1>9, <1>18, <2>1 DEF NothingElse, WalkInv
    <3>2. Parent[c.path] \in Folder /\ Reached(Parent[c.path])
      BY <3>1, FreshIsReached DEF FreshUnder
    <3>3. StateAmong(states', Parent[c.path]) = StateOf(Parent[c.path])
      BY <1>2, <1>11, <3>1, <3>2 DEF FoldersAreKnown, Pending
    <3> QED BY <3>1, <3>3 DEF FreshUnder, StateOf
  <2>2. CASE c \in new
    <3>1. PICK x \in FilesFound : /\ StateOf(visiting.folder) # EXCLUDED /\ ~IsExcluded(x.path)
              /\ c = [path |-> x.path, ref |-> StateOf(visiting.folder) = REFERENCE, size |-> x.size]
      BY <2>2
    <3>2. c.path = x.path /\ c.ref = (StateOf(d) = REFERENCE)
      BY <1>3, <3>1
    <3>3. x.path \in File /\ x.path \in present /\ Parent[x.path] = d
      BY <1>5, <3>1 DEF FilesFound, FoundIsTrue
    <3>4. PathTo[x.path] = {x.path} \cup PathTo[d]
      BY <1>4, <3>3, PathToIs, CollectConstants DEF Entry
    <3>5. Exists(x.path) /\ Under(x.path)
      BY <1>4, <1>5, <3>3, <3>4 DEF Exists, Under
    <3> QED BY <1>3, <1>12, <1>18, <3>1, <3>2, <3>3, <3>5 DEF FreshUnder
  <2> QED BY <1>7, <2>1, <2>2
<1>19. NothingElse'
  BY <1>9, <1>18 DEF NothingElse
<1>20. SizesAreKnown'
  <2>1. ASSUME NEW c \in collected' PROVE c.size = size[c.path] \/ c.path \in resized'
    <3>1. CASE c \in collected
      <4>1. c.size = size[c.path] \/ c.path \in resized
        BY <1>2, <3>1 DEF SizesAreKnown
      <4>2. Parent[c.path] # d
        BY <1>3, <1>4, <3>1 DEF WalkInv
      <4> QED BY <1>3, <4>1, <4>2 DEF FolderRead
    <3>2. CASE c \in new
      <4>1. PICK x \in FilesFound :
              c = [path |-> x.path, ref |-> StateOf(visiting.folder) = REFERENCE, size |-> x.size]
        BY <3>2
      <4>2. c.path = x.path /\ c.size = x.size /\ x \in EntriesFound /\ x.path \in File
        BY <4>1 DEF FilesFound
      <4>3. CASE RowKept
        <5>1. ~VisitHit
          BY <4>3 DEF RowKept
        <5>2. EntriesFound = Live(visiting.folder)
          BY <5>1 DEF EntriesFound
        <5> QED BY <4>2, <5>2, LiveIs
      <4>4. CASE ~RowKept
        <5>1. resized' = resized
          BY <4>4 DEF FolderRead
        <5> QED BY <1>5, <4>2, <5>1 DEF FoundIsTrue
      <4> QED BY <4>3, <4>4
    <3> QED BY <1>7, <3>1, <3>2
  <2> QED BY <1>1, <2>1 DEF SizesAreKnown
<1>21. TimeIsFresh'
  BY <1>1 DEF TimeIsFresh
<1> QED BY <1>15, <1>17, <1>19, <1>20, <1>21 DEF FreshInv

\* Nothing else than reading a folder adds to a walk that goes on undisturbed.
LEMMA FreshStep ==
  TreeInv /\ WalkTypes /\ WalkInv /\ WalkInv' /\ ListingInv /\ FreshInv /\ [CollectNext]_collectVars
    => FreshInv'
<1> SUFFICES ASSUME TreeInv, WalkTypes, WalkInv, WalkInv', ListingInv, FreshInv,
                    [CollectNext]_collectVars
             PROVE  FreshInv'
  OBVIOUS
<1>1. ASSUME walk' = "idle" \/ disturbed' PROVE FreshInv'
  BY <1>1 DEF FreshInv
<1>2. ASSUME UNCHANGED <<walk, disturbed, excludeVars, roots, states, present, changed, size,
             resized, todo, collected>>,
             walk # "idle" /\ ~disturbed => TimeIsFresh'
      PROVE  FreshInv'
  <2>1. /\ FreshFiles' = FreshUnder(states) /\ FreshFiles = FreshUnder(states)
        /\ \A x : Reached(x)' <=> Reached(x)
        /\ \A x : BehindJunction(x)' <=> BehindJunction(x)
        /\ \A x : DefaultExcluded(x)' <=> DefaultExcluded(x)
        /\ \A x : StateOf(x)' = StateOf(x)
    BY <1>2, FreshAfter, PatternsStay, StateStays DEF excludeVars, StateOf
  <2> QED BY <1>2, <2>1 DEF FreshInv, FoldersAreKnown, NothingIsLeft, NothingElse, SizesAreKnown,
             Pending,
             StateIsKept, Under
<1>3. CASE Commanded
  BY <1>1, <1>3, CommandedIs, CommandIs
<1>4. CASE Disturbing
  <2>1. CASE walk # "walking"
    BY <1>1, <1>4, <2>1, DisturbingIs DEF HandedOver, WalkTypes
  <2>2. CASE walk = "walking" /\ ~Tick
    BY <1>1, <1>4, <2>2 DEF Disturbing, ToggleEntry, Resize, Change
  <2>3. CASE walk = "walking" /\ Tick
    BY <1>2, <2>3 DEF Tick, HandedOver, choiceVars, TimeIsFresh, FreshInv, Exists
  <2> QED BY <2>1, <2>2, <2>3
<1>5. CASE StartWalk
  <2>1. /\ todo' = roots /\ collected' = {} /\ visiting' = Nowhere
        /\ UNCHANGED <<roots, states, excludeVars, present>>
    BY <1>5 DEF StartWalk, choiceVars, diskVars, WalkTypes
  <2>2. TimeIsFresh' /\ NothingElse' /\ SizesAreKnown'
    BY <2>1 DEF TimeIsFresh, NothingElse, SizesAreKnown
  <2>3. \A d : Reached(d)' \/ d \in FreshFiles' => Pending(d)'
    BY <2>1 DEF Reached, FreshFiles, Under, Pending
  <2> QED BY <2>2, <2>3 DEF FreshInv, FoldersAreKnown, NothingIsLeft
<1>6. CASE ReadFolder
  <2>1. /\ walk = "walking" /\ visiting # Nowhere /\ visiting' = Nowhere
        /\ UNCHANGED <<roots, present, changed, size, disturbed>> /\ (FolderMissed \/ FolderRead)
    BY <1>6, ReadFolderDoes
  <2>2. CASE ~disturbed /\ FolderRead
    BY <1>6, <2>2, FreshAfterReading
  <2>3. CASE ~disturbed /\ FolderMissed
    <3>1. PICK d \in todo : d = visiting.folder
      BY <2>1 DEF WalkTypes
    <3>2. ~Exists(d) /\ todo' = todo \ {d} /\ UNCHANGED <<excludeVars, states, collected, resized>>
      BY <2>3, <3>1 DEF FolderMissed
    <3>3. TimeIsFresh /\ FoldersAreKnown /\ NothingIsLeft /\ NothingElse /\ SizesAreKnown
      BY <2>1, <2>3 DEF FreshInv
    <3>4. /\ FreshFiles' = FreshUnder(states) /\ FreshFiles = FreshUnder(states)
          /\ \A x : Reached(x)' <=> Reached(x)
          /\ \A x : BehindJunction(x)' <=> BehindJunction(x)
          /\ \A x : DefaultExcluded(x)' <=> DefaultExcluded(x)
          /\ \A x : StateOf(x)' = StateOf(x)
      BY <2>1, <3>2, FreshAfter, PatternsStay, StateStays DEF excludeVars, StateOf
    <3>5. ASSUME NEW e \in Entry, Exists(e) PROVE d \notin PathTo[e]
      BY <3>2, <3>5, PathTransitive DEF Exists
    <3>6. ASSUME NEW e \in Entry, Exists(e), ~Pending(e)' PROVE ~Pending(e)
      BY <3>2, <3>5, <3>6 DEF Pending
    <3>7. FoldersAreKnown'
      BY <2>1, <3>2, <3>3, <3>4, <3>6 DEF FoldersAreKnown, Reached, StateIsKept, Under, Entry
    <3>8. NothingIsLeft'
      BY <2>1, <3>2, <3>3, <3>4, <3>6 DEF NothingIsLeft, FreshUnder, Entry
    <3>9. NothingElse' /\ SizesAreKnown' /\ TimeIsFresh'
      BY <2>1, <3>2, <3>3, <3>4 DEF NothingElse, SizesAreKnown, TimeIsFresh
    <3> QED BY <3>7, <3>8, <3>9 DEF FreshInv
  <2> QED BY <1>1, <2>1, <2>2, <2>3
<1>7. CASE StopWalk
  BY <1>1, <1>7 DEF StopWalk
<1>8. CASE WalkFolders
  BY <1>1, <1>8 DEF WalkFolders
<1>9. ASSUME NEW d \in Folder, Look(d), walk # "idle", ~disturbed PROVE FreshInv'
  <2> DEFINE S == ShownFor(d)
  <2>1. /\ states' = Remembered(states, S) /\ (ReadCompiled \/ UNCHANGED excludeVars)
        /\ walk # "walking"
        /\ UNCHANGED <<roots, present, changed, size, resized, todo, visiting, collected>>
    BY <1>9 DEF Look, walkVars, diskVars, ReadPatterns
  <2>2. S \in SUBSET Folder /\ \A e \in S : Under(e)
    BY <1>9, PathFacts DEF ShownFor, Entry, Above, Under
  <2> HIDE DEF S
  <2>3. TimeIsFresh /\ FoldersAreKnown /\ NothingIsLeft /\ NothingElse /\ SizesAreKnown
    BY <1>9 DEF FreshInv
  <2>4. /\ FreshFiles' = FreshUnder(states') /\ FreshFiles = FreshUnder(states)
        /\ \A x : Reached(x)' <=> Reached(x)
        /\ \A x : BehindJunction(x)' <=> BehindJunction(x)
        /\ \A x : DefaultExcluded(x)' <=> DefaultExcluded(x)
        /\ \A x : StateOf(x)' = StateAmong(states', x)
    BY <2>1, FreshAfter, PatternsStay, StateStays
  <2>5. todo = {}
    BY <2>1 DEF WalkTypes
  <2>6. ASSUME NEW p \in Folder, Reached(p) PROVE StateAmong(states', p) = StateOf(p)
    <3>1. StateOf(p) = EXCLUDED \/ StateIsKept(p)
      BY <2>3, <2>5, <2>6 DEF FoldersAreKnown, Pending
    <3> QED BY <2>1, <2>2, <3>1, KeptFresh
  <2>7. ASSUME NEW f \in File, Exists(f), Under(f), ~BehindJunction(f)
        PROVE  StateAmong(states', Parent[f]) = StateOf(Parent[f])
    BY <2>6, <2>7, FreshIsReached
  <2>8. FreshFiles' = FreshFiles
    BY <2>4, <2>7 DEF FreshUnder, StateOf
  <2>9. DOMAIN states \subseteq DOMAIN states'
    BY <2>1 DEF Remembered
  <2>10. FoldersAreKnown'
    BY <2>1, <2>3, <2>4, <2>6, <2>9 DEF FoldersAreKnown, Pending, StateIsKept, Under
  <2>11. \A f \in FreshFiles : StateOf(Parent[f])' = StateOf(Parent[f])
    BY <2>4, <2>7 DEF FreshUnder
  <2>12. NothingIsLeft'
    BY <2>1, <2>3, <2>8, <2>11 DEF NothingIsLeft, Pending
  <2>13. NothingElse'
    BY <2>1, <2>3, <2>4, <2>8, <2>11 DEF NothingElse
  <2>14. TimeIsFresh' /\ SizesAreKnown'
    BY <2>1, <2>3 DEF TimeIsFresh, SizesAreKnown, Exists
  <2> QED BY <2>10, <2>12, <2>13, <2>14 DEF FreshInv
<1>10. ASSUME NEW d \in Folder, Visit(d) PROVE FreshInv'
  <2>1. /\ visiting' = [folder |-> d, time |-> IF Exists(d) THEN changed[d] ELSE NoRow.time]
        /\ UNCHANGED <<walk, disturbed, excludeVars, roots, states, present, changed, size,
                       resized, todo, collected>>
    BY <1>10 DEF Visit, diskVars, choiceVars
  <2>2. TimeIsFresh'
    BY <2>1 DEF TimeIsFresh, Exists
  <2> QED BY <1>2, <2>1, <2>2
<1>11. CASE UNCHANGED collectVars
  BY <1>2, <1>11 DEF collectVars, walkVars, choiceVars, diskVars, FreshInv, TimeIsFresh, Exists
<1>12. ASSUME NEW d \in Folder, Look(d), walk = "idle" \/ disturbed PROVE FreshInv'
  BY <1>1, <1>12 DEF Look, walkVars
<1> QED BY <1>3, <1>4, <1>5, <1>6, <1>7, <1>8, <1>9, <1>10, <1>11, <1>12, NextIs

\* What a walk relies on, and what it has done.
CollectInv == ExcludeInv /\ TreeInv /\ WalkTypes /\ ListingInv /\ WalkInv /\ FreshInv

LEMMA CollectStep == CollectInv /\ [CollectNext]_collectVars => CollectInv'
<1> SUFFICES ASSUME CollectInv, [CollectNext]_collectVars PROVE CollectInv'
  OBVIOUS
<1>1. WalkInv'
  BY WalkStep DEF CollectInv
<1> QED BY <1>1, ExcludeStep, TreeStep, WalkTypesStep, ListingStep, FreshStep DEF CollectInv

\* CachedWalkIsFresh, for any tree of folders, patterns and times: a walk that nothing disturbed
\* finds, from remembered listings as from the disk, what is there and no folder excludes.
THEOREM WalksStayFresh == CollectSpec => []CachedWalkIsFresh
<1>1. CollectInit => CollectInv
  BY ExcludeStarts, TreeStarts, WalkTypesStart, ListingStarts, WalkStarts, FreshStarts
     DEF CollectInv, CollectInit
<1>2. CollectInv => CachedWalkIsFresh
  <2> SUFFICES ASSUME CollectInv PROVE CachedWalkIsFresh
    OBVIOUS
  <2>1. CollectTypeOK
    BY DEF CollectInv, CollectTypeOK, ExcludeInv, TreeInv, RootsOK, Follows, WalkTypes
  <2>2. ASSUME walk = "done", ~disturbed
        PROVE  /\ {[path |-> c.path, ref |-> c.ref] : c \in {x \in collected : ~BehindJunction(x.path)}}
                    = {[path |-> f, ref |-> StateOf(Parent[f]) = REFERENCE] : f \in FreshFiles}
               /\ \A c \in collected : c.size = size[c.path] \/ c.path \in resized
    <3>1. NothingIsLeft /\ NothingElse /\ SizesAreKnown /\ todo = {}
      BY <2>2 DEF CollectInv, FreshInv, WalkTypes
    <3>2. ASSUME NEW c \in collected, ~BehindJunction(c.path)
          PROVE  [path |-> c.path, ref |-> c.ref]
                   \in {[path |-> f, ref |-> StateOf(Parent[f]) = REFERENCE] : f \in FreshFiles}
      BY <3>1, <3>2 DEF NothingElse
    <3>3. ASSUME NEW f \in FreshFiles
          PROVE  \E c \in {x \in collected : ~BehindJunction(x.path)} :
                   [path |-> f, ref |-> StateOf(Parent[f]) = REFERENCE] = [path |-> c.path, ref |-> c.ref]
      <4>1. PICK c \in collected : c.path = f /\ c.ref = (StateOf(Parent[f]) = REFERENCE)
        BY <3>1 DEF NothingIsLeft, Pending
      <4>2. ~BehindJunction(c.path)
        BY <4>1 DEF FreshFiles
      <4> QED BY <4>1, <4>2
    <3> DEFINE A == {[path |-> c.path, ref |-> c.ref] : c \in {x \in collected : ~BehindJunction(x.path)}}
               B == {[path |-> f, ref |-> StateOf(Parent[f]) = REFERENCE] : f \in FreshFiles}
    <3>4. A \subseteq B
      BY <3>2
    <3>5. B \subseteq A
      <4> SUFFICES ASSUME NEW y \in B PROVE y \in A
        OBVIOUS
      <4>1. PICK f \in FreshFiles : y = [path |-> f, ref |-> StateOf(Parent[f]) = REFERENCE]
        OBVIOUS
      <4>2. PICK c \in {x \in collected : ~BehindJunction(x.path)} :
              y = [path |-> c.path, ref |-> c.ref]
        BY <3>3, <4>1
      <4> QED BY <4>2
    <3> HIDE DEF A, B
    <3>6. A = B
      BY <3>4, <3>5
    <3> QED BY <3>1, <3>6 DEF SizesAreKnown, A, B
  <2> QED BY <2>1, <2>2 DEF CachedWalkIsFresh
<1> QED BY <1>1, <1>2, CollectStep, PTL DEF CollectSpec

=============================================================================
