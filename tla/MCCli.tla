-------------------------------- MODULE MCCli -------------------------------
EXTENDS Cli, TLC

CONSTANTS a, b, o, home, originals, x, y

\* o is in a folder of originals, a and b in the folder that is cleaned up.
MCUnder == (home :> {a, b}) @@ (originals :> {o})

\* All contents have the same samples.
MCSampled == [c \in Bytes |-> "samples"]

\* Flags that go together; what they leave out adds nothing to these.
Hashings == {{}, {"partial_hash"}, {"partial_hash", "full_verify"}}
Deletions == {{"delete"}} \cup {{"delete", "yes"} \cup s : s \in SUBSET {"allow_partial", "verify"}}
Wishes == {{}, {"plan"}, {"direct", "yes", "dry_run"}} \cup Deletions

ScanLines ==
  {c \in [flags : {w \cup h : w \in Wishes, h \in Hashings}, folders : {{}, {home}},
          refs : {{}, {originals}}, output : {"stdout", "results", "unwritable"}] :
     /\ c.folders = {} => c.refs = {} /\ c.flags = {"plan"}
     /\ c.output = "unwritable" => "partial_hash" \notin c.flags
     /\ c.output = "results" => c.flags \cap {"plan", "allow_partial", "verify", "dry_run"} = {}}
SavedLines ==
  {c \in [flags : {w \cup {"from_results"} : w \in Wishes \cup {{"ndjson"}}}, folders : {{}}, refs : {{}},
          output : {"stdout", "results", "unwritable"}] :
     c.output = "results" => c.flags \cap {"allow_partial", "verify", "dry_run", "ndjson"} = {}}
MCCommandLines == ScanLines \cup SavedLines

Symmetry == Permutations({a, b}) \cup Permutations(Bytes)
=============================================================================
