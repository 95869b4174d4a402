----------------------------- MODULE MCDeletion -----------------------------
(* Module Deletion on two dupes: true copies, a digest collision, pictures *)
(* that look alike.                                                        *)
EXTENDS Deletion

CONSTANTS d1, d2

MCDupe == {d1, d2}
MCMatches ==
  {[d \in MCDupe |-> IF d = d1 THEN "copy" ELSE k] : k \in {"collision", "picture"}}
MCOptions ==
  [mode : {"remove"}, direct : BOOLEAN, verify : BOOLEAN]
    \cup [mode : {"symlink", "hardlink", "clone"}, direct : {FALSE}, verify : {FALSE}]
    \cup {[mode |-> "clone", direct |-> TRUE, verify |-> TRUE]}
=============================================================================
