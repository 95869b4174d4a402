------------------------------- MODULE MCCaches -------------------------------
(***************************************************************************)
(* What scans remember: digests (Digests), listings of folders with the    *)
(* states and patterns that part them (Collection, ExcludeList), pictures  *)
(* and their matches (Pictures).  Each has its own database and its own    *)
(* step of a scan, and none reads another's: a behaviour is one of a part. *)
(***************************************************************************)
EXTENDS Digests, Pictures, Collection, TLC

CONSTANTS f1, f2, c1, c2, xxh3, blake2b

\* The contents start alike and differ in their samples.
MCPartialOf == [c \in Content |-> "start"]
MCSamplesOf == [c \in Content |-> c]

CONSTANTS upright, turned

MCLookOf == (upright :> <<"sea", "wood">> @@ turned :> <<"wood", "sea">>)

CONSTANTS R, H, B, J, fR, fB, fJ, dots, junk

MCParent == (H :> R) @@ (B :> H) @@ (J :> R) @@ (R :> None)
            @@ (fR :> R) @@ (fB :> B) @@ (fJ :> J)
MCLayouts == {Entry}
MCSavedRoots == {{R}}
MCHitsFolder == (dots :> {H}) @@ (junk :> {J})
MCHitsFile == (dots :> {}) @@ (junk :> {fB})

Symmetry == Permutations(HashedFile) \cup Permutations(Content) \cup Permutations(Algorithm)

VARIABLE part
Parts == {"digests", "pictures", "folders"}

\* What the digests are while another part moves.
DigestsAside == tier = "tiny" /\ algorithm = xxh3 /\ content = [f \in HashedFile |-> c1]

vars == <<part, digestVars, pictureVars, collectVars>>

Init ==
  /\ part \in Parts
  /\ DigestInit /\ PicturesInit /\ CollectInit
  /\ part = "digests" \/ DigestsAside
  /\ caching

Next ==
  /\ UNCHANGED part
  /\ \/ part = "digests" /\ DigestNext /\ UNCHANGED <<pictureVars, collectVars>>
     \/ part = "pictures" /\ PicturesNext /\ UNCHANGED <<digestVars, collectVars>>
     \/ part = "folders" /\ CollectNext /\ UNCHANGED <<digestVars, pictureVars>>

Spec == Init /\ [][Next]_vars
=============================================================================
