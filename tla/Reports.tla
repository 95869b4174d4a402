------------------------------- MODULE Reports --------------------------------
(***************************************************************************)
(* What is said about the results before something is deleted: the folder  *)
(* pairs that explain them (core/folder_rollup.py, qt/folder_rollup_dialog *)
(* .py), how much of a folder exists elsewhere (core/folder_overlap.py),   *)
(* how much is known about a group (core/confidence.py) and what a         *)
(* deletion would do (core/deletion_plan.py), while results are marked,    *)
(* saved, loaded and deleted, and files change.  A deletion is one step    *)
(* here; module Deletion has its steps.                                    *)
(***************************************************************************)
EXTENDS Integers, FiniteSets, SequencesExt

CONSTANTS
  File, Folder,
  Root,             \* the root of the file system
  Parent,           \* folder -> folder
  FolderOf, NameOf, \* of each file
  ReferenceFolders, \* the folders marked as references
  Scanned,          \* the folders that are scanned
  ScanResults,      \* what a scan can find: sets of groups
  RollupFiles,      \* folder_rollup.MIN_FILES
  RollupShare,      \* folder_rollup.MIN_SHARE, in percent
  OverlapFiles,     \* folder_overlap.MIN_FILES
  MaxChanges,       \* bound: changes by other programs and by a deletion that was cancelled
  None

\* How a pair was compared: in full, by samples, or not by its contents.
Evidence == {"full", "sampled", "likeness"}
PairsIn(members) == {pair \in SUBSET members : Cardinality(pair) = 2}

ASSUME ReportConstants ==
  /\ Root \in Folder /\ Parent \in [Folder -> Folder] /\ Parent[Root] = Root /\ IsFiniteSet(Folder)
  /\ \A ds \in SUBSET (Folder \ {Root}) : ds # {} => \E d \in ds : Parent[d] \notin ds
  /\ FolderOf \in [File -> Folder] /\ DOMAIN NameOf = File
  /\ ReferenceFolders \cup Scanned \subseteq Folder
  /\ {RollupFiles, OverlapFiles, MaxChanges} \subseteq Nat /\ RollupFiles > 0 /\ RollupShare \in 0..100
  /\ IsFiniteSet(File)
  /\ \A groups \in ScanResults : \A g \in groups :
       /\ g.ref \in g.members /\ g.members \subseteq File
       /\ g = [ref |-> g.ref, members |-> g.members, uniform |-> g.uniform, pairs |-> g.pairs]
       /\ g.pairs \in [PairsIn(g.members) -> Evidence]
       /\ \A h \in groups : g = h \/ g.members \cap h.members = {}

VARIABLES
  groups,   \* Results.groups: the reference, the members, how each pair was compared, whether
            \* one value stands for all pairs
  marked,
  content,  \* what happened to each file since the scan
  counts,   \* folder_file_counts
  saved,    \* a results file
  dialog,   \* the open dialog, with what it was opened with
  bulk,     \* files that were marked for the evidence of their group
  changes

reportVars == <<groups, marked, content, counts, saved, dialog, bulk, changes>>

Closed == [kind |-> "none"]

-----------------------------------------------------------------------------
(* Files in folders.                                                       *)

\* Path.parents, with the folder itself.
Ancestors ==
  LET up[d \in Folder] == IF d = Root THEN {d} ELSE {d} \cup up[Parent[d]]
  IN  [d \in Folder |-> up[d]]
Above(f) == Ancestors[FolderOf[f]]
Inside(d, e) == d # e /\ e \in Ancestors[d]
Depth(d) == Cardinality(Ancestors[d])

IsReference(f) == Above(f) \cap ReferenceFolders # {}
InGroups == UNION {g.members : g \in groups}
GroupWith(f) == CHOOSE g \in groups : f \in g.members
IsDupe(f) == f \in InGroups /\ f # GroupWith(f).ref
\* Results.is_markable
MarkableFile == {f \in InGroups : IsDupe(f) /\ ~IsReference(f)}

-----------------------------------------------------------------------------
(* Folder pairs.                                                           *)

CandidatePairs(f) ==
  {pair \in Above(f) \X Above(GroupWith(f).ref) :
     pair[1] # pair[2] /\ ~Inside(pair[1], pair[2]) /\ ~Inside(pair[2], pair[1])}
Explained(pair) == {f \in MarkableFile : pair \in CandidatePairs(f)}
OriginTotal(d) == Cardinality({f \in MarkableFile : d \in Above(f)})
\* The pairs, each with what it explains.
Explanations ==
  {[pair |-> pair, files |-> Explained(pair)] : pair \in UNION {CandidatePairs(f) : f \in MarkableFile}}
Qualifying ==
  {e \in Explanations :
     LET n == Cardinality(e.files) IN n >= RollupFiles /\ 100 * n >= RollupShare * OriginTotal(e.pair[1])}

\* Most files first, then the innermost folders.
Foremost(d, e) ==
  LET n == Cardinality(d.files) m == Cardinality(e.files) IN
  \/ n > m
  \/ n = m /\ Depth(d.pair[1]) > Depth(e.pair[1])
  \/ n = m /\ Depth(d.pair[1]) = Depth(e.pair[1]) /\ Depth(d.pair[2]) > Depth(e.pair[2])

\* Mutant: a file may be counted in two rows.
ClaimTwice(claim, e) == [claim EXCEPT !.claimed = @ \cup e.files, !.rows = @ \cup {e}]
Claim(claim, e) ==
  LET remaining == e.files \ claim.claimed IN
  IF Cardinality(remaining) < RollupFiles THEN claim
  ELSE [claim EXCEPT !.claimed = @ \cup remaining, !.rows = @ \cup {[pair |-> e.pair, files |-> remaining]}]
\* What is left of the order of two pairs is the order in which they were met, of which one is
\* taken here.
Leading(left) == CHOOSE e \in left : \A d \in left : ~Foremost(d, e)
ClaimFirst(claim) ==
  LET e == Leading(claim.left) IN Claim([claim EXCEPT !.left = @ \ {e}], e)
NothingClaimed == [left |-> Qualifying, claimed |-> {}, rows |-> {}]
Rows ==
  LET claims[n \in 0..Cardinality(Qualifying)] == IF n = 0 THEN NothingClaimed ELSE ClaimFirst(claims[n - 1])
  IN  claims[Cardinality(Qualifying)].rows
Rollup ==
  LET found == Rows IN
  [kind |-> "rollup", rows |-> found, unexplained |-> MarkableFile \ UNION {r.files : r \in found},
   over |-> MarkableFile]

-----------------------------------------------------------------------------
(* Redundancy.                                                             *)

\* count_files_per_folder, over every file of the scanned folders that is there.
WithinScan(d) == Ancestors[d] \cap Scanned # {}
Counted ==
  [d \in Folder |-> IF ~WithinScan(d) THEN 0
                    ELSE Cardinality({f \in File : content[f] # "gone" /\ d \in Above(f)})]
NoCounts == [d \in Folder |-> 0]

\* Where the other copies are makes no difference to the count.
Duplicated(d) == Cardinality({f \in InGroups : d \in Above(f)})
Destinations(d) ==
  LET elsewhere == UNION {{f} \X (GroupWith(f).members \ {f}) : f \in {h \in InGroups : d \in Above(h)}}
  IN  {[folder |-> e, count |-> Cardinality({pair \in elsewhere : e \in Above(pair[2])})]
         : e \in UNION {Above(pair[2]) : pair \in elsewhere} \ {Root, d}}
\* _most_specific
MostSpecific(ranked) ==
  {x \in ranked : ~\E y \in ranked : y.count = x.count /\ Inside(y.folder, x.folder)}
Smaller(a, b) == IF a < b THEN a ELSE b
Overlapping ==
  {[folder |-> d, total |-> counts[d], duplicated |-> Smaller(Duplicated(d), counts[d]),
    places |-> MostSpecific(Destinations(d))] :
     d \in {e \in Folder \ {Root} : counts[e] > 0 /\ counts[e] >= OverlapFiles /\ Duplicated(e) > 0}}
\* _drop_redundant_parents
Overlaps ==
  LET all == Overlapping IN
  {x \in all : ~\E y \in all :
     /\ y.folder = Parent[x.folder] /\ y.folder # x.folder
     /\ y.total = x.total /\ y.duplicated = x.duplicated}
WhollyRedundant(overlap) == overlap.total > 0 /\ overlap.duplicated = overlap.total

-----------------------------------------------------------------------------
(* Confidence.                                                             *)

ClassifyMatch(evidence) == IF evidence = "full" THEN "content" ELSE "unconfirmed"
\* Mutant: one pair vouches for the others.
Strongest(tiers) == IF "content" \in tiers THEN "content" ELSE "unconfirmed"
Weakest(tiers) == IF "unconfirmed" \in tiers \/ tiers = {} THEN "unconfirmed" ELSE "content"
\* corroboration_of
Corroborated(g) ==
  \/ \E f \in g.members : IsReference(f)
  \/ \A f, h \in g.members : NameOf[f] = NameOf[h]
ClassifyGroup(g) ==
  LET tier == Weakest({ClassifyMatch(g.pairs[pair]) : pair \in DOMAIN g.pairs}) IN
  IF tier = "content" /\ Corroborated(g) THEN "corroborated" ELSE tier

-----------------------------------------------------------------------------
(* The plan.                                                               *)

\* check_deletable, of the duplicate alone.
Deletable(f) == content[f] = "same"
\* Mutant: what is marked is what would be deleted.
PlanOfAll == {f \in marked : IsDupe(f)}
\* build_plan
Plan == {f \in marked : IsDupe(f) /\ Deletable(f)}
\* verify_identical, of pairs whose contents were compared.
Verified(f) ==
  GroupWith(f).pairs[{f, GroupWith(f).ref}] # "likeness" => content[GroupWith(f).ref] = "same"

-----------------------------------------------------------------------------
(* The results.                                                            *)

Keeping(g, members) ==
  [g EXCEPT !.members = members, !.pairs = [pair \in PairsIn(members) |-> g.pairs[pair]]]
\* Only duplicates are removed, and a group of one is none.
GroupsWithout(gone) ==
  {Keeping(g, g.members \ gone) : g \in {h \in groups : Cardinality(h.members \ gone) > 1}}

\* The file has one value for a group whose pairs are all alike.  Of other pairs it tells the
\* samples, not the kind of match.
Reloaded(g) ==
  IF g.uniform THEN g
  ELSE [g EXCEPT !.pairs = [pair \in DOMAIN @ |-> "likeness"]]

Scan ==
  /\ dialog = Closed /\ groups' \in ScanResults
  /\ \A g \in groups' : \A f \in g.members : content[f] # "gone"
  /\ content' = [f \in File |-> IF content[f] = "gone" THEN "gone" ELSE "same"]
  /\ counts' = Counted /\ marked' = {} /\ bulk' = {}
  /\ UNCHANGED <<saved, dialog, changes>>

\* Bound: once.
StoreResults ==
  /\ dialog = Closed /\ groups # {} /\ saved = None /\ saved' = [groups |-> groups, marked |-> marked]
  /\ UNCHANGED <<groups, marked, content, counts, dialog, bulk, changes>>
\* Loading leaves the counts of the last scan, reads size and time of the files anew, and
\* leaves out the files that are gone.
ReloadResults ==
  /\ dialog = Closed /\ saved # None
  /\ LET there == {f \in File : content[f] # "gone"} IN
     /\ groups' = {IF h.ref \in h.members THEN h ELSE [h EXCEPT !.ref = CHOOSE f \in h.members : TRUE] :
                     h \in {Reloaded(Keeping(g, g.members \cap there)) :
                              g \in {k \in saved.groups : Cardinality(k.members \cap there) > 1}}}
     /\ marked' = {f \in saved.marked : \E g \in groups' : f \in g.members /\ f # g.ref /\ ~IsReference(f)}
  /\ content' = [f \in File |-> IF content[f] = "gone" THEN "gone" ELSE "same"]
  /\ bulk' = {}
  /\ UNCHANGED <<counts, saved, dialog, changes>>

Mark(f) ==
  /\ dialog = Closed /\ f \in MarkableFile
  /\ marked' = IF f \in marked THEN marked \ {f} ELSE marked \cup {f}
  /\ bulk' = bulk \ {f}
  /\ UNCHANGED <<groups, content, counts, saved, dialog, changes>>
MarkConfidence(tier) ==
  /\ dialog = Closed
  /\ LET new == {f \in MarkableFile \ marked : ClassifyGroup(GroupWith(f)) = tier} IN
     /\ marked' = marked \cup new
     /\ bulk' = bulk \cup new
  /\ UNCHANGED <<groups, content, counts, saved, dialog, changes>>
RemoveMarked ==
  /\ dialog = Closed /\ marked # {}
  /\ groups' = GroupsWithout(marked) /\ marked' = {} /\ bulk' = {}
  /\ UNCHANGED <<content, counts, saved, dialog, changes>>

-----------------------------------------------------------------------------
(* The dialogs, each of them modal.                                        *)

OpenRollup ==
  /\ dialog = Closed /\ groups # {} /\ dialog' = Rollup
  /\ UNCHANGED <<groups, marked, content, counts, saved, bulk, changes>>
OpenOverlaps ==
  /\ dialog = Closed /\ groups # {} /\ dialog' = [kind |-> "overlaps", folders |-> Overlaps]
  /\ UNCHANGED <<groups, marked, content, counts, saved, bulk, changes>>
MarkRow(row) ==
  /\ marked' = marked \cup (row.files \cap MarkableFile) /\ dialog' = Closed
  /\ UNCHANGED <<groups, content, counts, saved, bulk, changes>>
\* A deletion that was cancelled comes to its end beneath the dialog.
CancelledDeletionEnds(gone) ==
  /\ changes < MaxChanges /\ changes' = changes + 1
  /\ dialog.kind \in {"rollup", "overlaps", "deletion"} /\ gone # {} /\ gone \subseteq marked
  /\ groups' = GroupsWithout(gone) /\ marked' = marked \ gone
  /\ content' = [f \in File |-> IF f \in gone THEN "gone" ELSE content[f]]
  /\ bulk' = bulk \ gone
  /\ UNCHANGED <<counts, saved, dialog>>
OpenDeletion ==
  /\ dialog = Closed /\ marked # {} /\ dialog' = [kind |-> "deletion", promised |-> None]
  /\ UNCHANGED <<groups, marked, content, counts, saved, bulk, changes>>
Preview ==
  /\ dialog.kind = "deletion" /\ dialog' = [dialog EXCEPT !.promised = [files |-> Plan, over |-> content]]
  /\ UNCHANGED <<groups, marked, content, counts, saved, bulk, changes>>
\* The answer, and the job: what is deleted, and beside it what was promised if nothing changed.
Proceed(verify) ==
  /\ dialog.kind = "deletion"
  /\ LET gone == {f \in marked : Deletable(f) /\ (verify => Verified(f))}
         left == gone \cup {f \in marked : content[f] = "gone"}
         promised == IF dialog.promised # None /\ dialog.promised.over = content
                     THEN dialog.promised.files ELSE None IN
     /\ groups' = GroupsWithout(left) /\ marked' = marked \ left /\ bulk' = bulk \ left
     /\ content' = [f \in File |-> IF f \in gone THEN "gone" ELSE content[f]]
     /\ dialog' = [kind |-> "deleted", gone |-> gone, promised |-> promised, verify |-> verify]
  /\ UNCHANGED <<counts, saved, changes>>
CloseDialog ==
  /\ dialog # Closed /\ dialog' = Closed
  /\ UNCHANGED <<groups, marked, content, counts, saved, bulk, changes>>

Change(f, what) ==
  /\ changes < MaxChanges /\ content[f] = "same"
  /\ content' = [content EXCEPT ![f] = what] /\ changes' = changes + 1
  /\ UNCHANGED <<groups, marked, counts, saved, dialog, bulk>>

-----------------------------------------------------------------------------
ReportsInit ==
  /\ groups = {} /\ marked = {} /\ content = [f \in File |-> "same"] /\ counts = NoCounts
  /\ saved = None /\ dialog = Closed /\ bulk = {} /\ changes = 0

MarkARow == dialog.kind = "rollup" /\ \E row \in dialog.rows : MarkRow(row)
ReportsNext ==
  \/ Scan \/ StoreResults \/ ReloadResults \/ RemoveMarked
  \/ \E f \in File : Mark(f) \/ \E what \in {"changed", "gone"} : Change(f, what)
  \/ \E tier \in {"content", "corroborated"} : MarkConfidence(tier)
  \/ OpenRollup \/ OpenOverlaps \/ MarkARow \/ OpenDeletion \/ Preview \/ CloseDialog
  \/ \E gone \in SUBSET marked : CancelledDeletionEnds(gone)
  \/ \E verify \in BOOLEAN : Proceed(verify)
ReportsSpec == ReportsInit /\ [][ReportsNext]_reportVars

-----------------------------------------------------------------------------
\* Every file that could be marked is in exactly one row, or in the row of what is left, and a
\* row names the innermost folders that explain its files.
RowsPartition ==
  dialog.kind = "rollup" =>
    /\ \A r, s \in dialog.rows : r = s \/ r.files \cap s.files = {}
    /\ dialog.unexplained \cup UNION {r.files : r \in dialog.rows} = dialog.over
    /\ \A r \in dialog.rows : Cardinality(r.files) >= RollupFiles
    /\ dialog.over = MarkableFile => \A r \in dialog.rows : ~\E e \in Qualifying :
         /\ e.pair # r.pair /\ e.files = Explained(r.pair)
         /\ r.pair[1] \in Ancestors[e.pair[1]] /\ r.pair[2] \in Ancestors[e.pair[2]]

\* Files marked for what is known of their group really were compared in full with every other
\* member that is left, and never are in a folder of references.
BulkMarksAreEarned ==
  \A f \in bulk :
    /\ f \in MarkableFile
    /\ \A other \in GroupWith(f).members \ {f} : GroupWith(f).pairs[{f, other}] = "full"

\* What the preview says is what is deleted, if no file changed in between; but a verification
\* may refuse what was promised.
PreviewIsKept ==
  dialog.kind = "deleted" /\ dialog.promised # None =>
    /\ dialog.gone \subseteq dialog.promised
    /\ ~dialog.verify => dialog.gone = dialog.promised

\* "Every file here exists somewhere else" (FolderOverlap.is_wholly_redundant).
WhollyRedundantIsElsewhere ==
  dialog.kind = "overlaps" =>
    \A x \in dialog.folders : WhollyRedundant(x) =>
      \A f \in InGroups : x.folder \in Above(f) =>
        \E other \in GroupWith(f).members : x.folder \notin Above(other)
=============================================================================
