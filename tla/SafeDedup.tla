----------------------------- MODULE SafeDedup ------------------------------
(***************************************************************************)
(* What dupeGuru promises about the files of a session, with no groups,    *)
(* marks or filters in sight: a deletion never takes a file of a reference *)
(* folder, and it never takes the last copy of a content.  Files whose     *)
(* disappearance the results list does not know of (`stray`) void the      *)
(* promise for their content, because nothing re-checks the reference.     *)
(***************************************************************************)
CONSTANTS
  File,      \* the files on disk when the session starts
  RefFile,   \* those inside a folder whose state is Reference
  Content,   \* the distinct contents
  ContentOf  \* the content of each file

VARIABLES
  disk,      \* files still on disk
  stray      \* files that left the disk behind the results' back

vars == <<disk, stray>>

\* The files that started with content c.
Copies(c) == {f \in File : ContentOf[f] = c}

Init == disk = File /\ stray = {}

(***************************************************************************)
(* One deletion job.  Files whose deletion failed after their removal join *)
(* `stray`: they stay listed although they are gone.                       *)
(***************************************************************************)
Dedup ==
  /\ disk' \subseteq disk
  /\ (disk \ disk') \cap RefFile = {}
  /\ stray \subseteq stray'
  /\ stray' \ stray \subseteq disk \ disk'
  /\ \A c \in Content :
       (Copies(c) \cap stray = {} /\ Copies(c) \cap disk # {})
          => Copies(c) \cap disk' # {}

\* Somebody else removes a file.
Outside(f) ==
  /\ f \in disk
  /\ disk' = disk \ {f}
  /\ stray' = stray \cup {f}

Next ==
  \/ Dedup
  \/ \E f \in File : Outside(f)

Spec == Init /\ [][Next]_vars
=============================================================================
