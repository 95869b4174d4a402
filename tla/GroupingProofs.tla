--------------------------- MODULE GroupingProofs ---------------------------
(***************************************************************************)
(* Proofs about module Grouping, for any files, matches and orders: every  *)
(* group the scan returns is a clique of its matches, no file is in two    *)
(* groups, no match is dropped but for a reason, and the deletable files   *)
(* of a class of identical files are returned in one group.                *)
(***************************************************************************)
EXTENDS Grouping, TLAPS, SequenceTheorems, FiniteSetTheorems, WellFoundedInduction

-----------------------------------------------------------------------------
(* Matches and groups.                                                     *)

\* A match has two ends, the lesser file and the greater one.
LEMMA Ends ==
  ASSUME NEW p \in Pair
  PROVE  /\ Lesser(p) \in File /\ Greater(p) \in File
         /\ Lesser(p) # Greater(p)
         /\ p = {Lesser(p), Greater(p)}
<1>1. PICK f \in File, g \in File : f # g /\ p = {f, g}
  BY DEF Pair
<1>2. f \in Nat /\ g \in Nat
  BY FileAssumption
<1>3. \E x \in p : \A y \in p : x <= y
  BY <1>1, <1>2
<1>4. \E x \in p : \A y \in p : y <= x
  BY <1>1, <1>2
<1>5. Lesser(p) \in p /\ \A y \in p : Lesser(p) <= y
  BY <1>3 DEF Lesser
<1>6. Greater(p) \in p /\ \A y \in p : y <= Greater(p)
  BY <1>4 DEF Greater
<1> QED BY <1>1, <1>2, <1>5, <1>6

\* What is known of a group's record: its members match each other, and a
\* candidate's list holds files it matches.
Sound(g) ==
  /\ g \in GroupRecord
  /\ \A f, h \in g.members : f # h => {f, h} \in g.matches
  /\ \A f \in File : \A h \in g.candidates[f] : {f, h} \in g.matches

\* A new group is sound.
LEMMA NewGroupSound == Sound(NewGroup)
BY DEF Sound, NewGroup, GroupRecord

\* A group is sound with a match of its own recorded.
LEMMA RecordedSound ==
  ASSUME NEW g, Sound(g), NEW p \in Pair
  PROVE  /\ Sound(Recorded(g, p))
         /\ Recorded(g, p).matches = g.matches \cup {p}
         /\ Recorded(g, p).members = g.members
BY DEF Sound, Recorded, GroupRecord

\* A candidate joins only a group whose every member it matches.
LEMMA AddCandidateSound ==
  ASSUME NEW g, Sound(g), NEW item \in File, NEW other \in File, {item, other} \in g.matches
  PROVE  LET new == AddCandidate(g, item, other)
         IN  /\ Sound(new)
             /\ new.matches = g.matches
             /\ g.members \subseteq new.members
             /\ new.members \subseteq g.members \cup {item}
<1> DEFINE new == AddCandidate(g, item, other)
           known == g.candidates[item] \cup {other}
<1>0. CASE item \in g.members
  BY <1>0 DEF AddCandidate
<1>1. CASE item \notin g.members
  <2>0. g \in GroupRecord
    BY DEF Sound
  <2>1. new = [members    |-> IF g.members \subseteq known
                              THEN g.members \cup {item} ELSE g.members,
               matches    |-> g.matches,
               candidates |-> [g.candidates EXCEPT ![item] = known]]
    BY <1>1, <2>0 DEF AddCandidate, GroupRecord
  <2>2. new \in GroupRecord
    BY <2>0, <2>1 DEF GroupRecord
  <2>3. \A f \in known : {item, f} \in g.matches
    BY DEF Sound
  <2>4. \A f, h \in new.members : f # h => {f, h} \in g.matches
    <3> SUFFICES ASSUME NEW f \in new.members, NEW h \in new.members, f # h
                 PROVE  {f, h} \in g.matches
      OBVIOUS
    <3>1. {f, h} = {h, f}
      OBVIOUS
    <3>2. CASE f \in g.members /\ h \in g.members
      BY <3>2 DEF Sound
    <3>3. CASE ~ (f \in g.members /\ h \in g.members)
      <4>1. g.members \subseteq known
        BY <2>1, <3>3
      <4>2. CASE f = item
        <5>1. h \in known
          BY <2>1, <4>1, <4>2
        <5> QED BY <2>3, <4>2, <5>1
      <4>3. CASE h = item
        <5>1. f \in known
          BY <2>1, <4>1, <4>3
        <5>2. {h, f} \in g.matches
          BY <2>3, <4>3, <5>1
        <5> QED BY <3>1, <5>2
      <4> QED BY <2>1, <3>3, <4>2, <4>3
    <3> QED BY <3>2, <3>3
  <2>5. \A f \in File : \A h \in new.candidates[f] : {f, h} \in g.matches
    <3> SUFFICES ASSUME NEW f \in File, NEW h \in new.candidates[f]
                 PROVE  {f, h} \in g.matches
      OBVIOUS
    <3>1. new.candidates[f] = IF f = item THEN known ELSE g.candidates[f]
      BY <2>0, <2>1 DEF GroupRecord
    <3>2. CASE f = item
      BY <2>3, <3>1, <3>2
    <3>3. CASE f # item
      BY <3>1, <3>3 DEF Sound
    <3> QED BY <3>2, <3>3
  <2>6. g.members \subseteq new.members /\ new.members \subseteq g.members \cup {item}
    BY <2>1
  <2>7. new.matches = g.matches
    BY <2>1
  <2> HIDE DEF new
  <2>8. Sound(new)
    BY <2>2, <2>4, <2>5, <2>7 DEF Sound
  <2> QED BY <2>6, <2>7, <2>8 DEF new
<1> QED BY <1>0, <1>1

\* So a group is sound between the two candidates of a match.
LEMMA FirstAddedSound ==
  ASSUME NEW g, Sound(g), NEW p \in Pair
  PROVE  /\ Sound(FirstAdded(g, p))
         /\ FirstAdded(g, p).matches = g.matches \cup {p}
         /\ FirstAdded(g, p).members \subseteq g.members \cup p
<1>1. Lesser(p) \in File /\ Greater(p) \in File /\ p = {Lesser(p), Greater(p)}
  BY Ends
<1> DEFINE r == Recorded(g, p)
<1>2. Sound(r) /\ r.matches = g.matches \cup {p} /\ r.members = g.members
  BY RecordedSound
<1>3. {Lesser(p), Greater(p)} \in r.matches
  BY <1>1, <1>2
<1>4. FirstAdded(g, p) = AddCandidate(r, Lesser(p), Greater(p))
  BY DEF FirstAdded
<1> HIDE DEF r
<1>5. /\ Sound(FirstAdded(g, p))
      /\ FirstAdded(g, p).matches = r.matches
      /\ FirstAdded(g, p).members \subseteq r.members \cup {Lesser(p)}
  BY <1>1, <1>2, <1>3, <1>4, AddCandidateSound
<1>6. Lesser(p) \in p
  BY <1>1
<1> QED BY <1>2, <1>5, <1>6

\* Whatever happens to a group at a match, it gains no other match and no
\* file that is not in the match.
Grows(g, new, p) ==
  /\ Sound(new)
  /\ new.matches \subseteq g.matches \cup {p}
  /\ new.members \subseteq g.members \cup p

\* A match adds itself and at most its own files to a group.
LEMMA AddMatchGrows ==
  ASSUME NEW g, Sound(g), NEW p \in Pair
  PROVE  Grows(g, AddMatch(g, p), p)
<1>1. /\ Lesser(p) \in File /\ Greater(p) \in File
      /\ p = {Lesser(p), Greater(p)} /\ p = {Greater(p), Lesser(p)}
  BY Ends
<1>2. CASE p \in g.matches
  BY <1>2 DEF AddMatch, Grows
<1>3. CASE p \notin g.matches
  <2>1. AddMatch(g, p) = AddCandidate(FirstAdded(g, p), Greater(p), Lesser(p))
    BY <1>3 DEF AddMatch
  <2>2. {Greater(p), Lesser(p)} \in FirstAdded(g, p).matches
    <3>1. p \in FirstAdded(g, p).matches
      BY FirstAddedSound
    <3> QED BY <1>1, <3>1
  <2>3. Sound(FirstAdded(g, p))
    BY FirstAddedSound
  <2>4. /\ Sound(AddMatch(g, p))
        /\ AddMatch(g, p).matches = FirstAdded(g, p).matches
        /\ AddMatch(g, p).members \subseteq FirstAdded(g, p).members \cup {Greater(p)}
    BY <1>1, <2>1, <2>2, <2>3, AddCandidateSound
  <2>5. Greater(p) \in p
    BY <1>1
  <2> QED BY <2>4, <2>5, FirstAddedSound DEF Grows
<1> QED BY <1>2, <1>3

\* So it does where memory runs out.
LEMMA InterruptedGrows ==
  ASSUME NEW g, Sound(g), NEW p \in Pair, NEW new \in Interrupted(g, p)
  PROVE  Grows(g, new, p)
<1>1. new = g \/ new = Recorded(g, p) \/ new = FirstAdded(g, p)
  BY DEF Interrupted
<1> QED BY <1>1, RecordedSound, FirstAddedSound DEF Grows

\* What discard_matches leaves is sound and has the same members.
LEMMA DiscardSound ==
  ASSUME NEW g, Sound(g)
  PROVE  /\ Sound(Discard(g))
         /\ Discard(g).matches \subseteq g.matches
         /\ Discard(g).members = g.members
<1>1. Discard(g) = [members |-> g.members, matches |-> {p \in g.matches : p \subseteq g.members},
                    candidates |-> [f \in File |-> {}]]
  BY DEF Discard, NewGroup
<1>2. Discard(g) \in GroupRecord
  BY <1>1 DEF Sound, GroupRecord
<1>3. \A f, h \in g.members : f # h => {f, h} \in g.matches /\ {f, h} \subseteq g.members
  BY DEF Sound
<1>4. \A f \in File : Discard(g).candidates[f] = {}
  BY <1>1
<1>5. /\ Discard(g).members = g.members
      /\ Discard(g).matches = {p \in g.matches : p \subseteq g.members}
  BY <1>1
<1> QED BY <1>2, <1>3, <1>4, <1>5 DEF Sound

-----------------------------------------------------------------------------
(* The inductive invariant.                                                *)

\* The matches that have nothing to do with an intact class.
Loose == {p \in Found : \A c \in intact : p \cap c = {}}

\* A class is either intact or broken, and nothing is grouped before that.
Split ==
  /\ \A c \in intact : IsIntact(c)
  /\ \A c \in broken : ~ IsIntact(c)
  /\ phase \in {"matching", "expanding"} => groups = <<>> /\ tier = 1 /\ pending = {}
  /\ phase = "done" => pending = {}
  /\ pending \subseteq Loose

GroupsSound ==
  \A i \in 1..Len(groups) : Sound(groups[i]) /\ groups[i].matches \subseteq Loose

\* No group of an earlier loop has a file of this match.
Fresh(p) == \A i \in 1..(tier - 1) : p \cap groups[i].members = {}

AllFresh ==
  /\ \A p \in pending : Fresh(p)
  /\ \A i \in Extra : \A p \in groups[i].matches : Fresh(p)

\* dupe2group knows groups of this loop only, and where their members are.
Routed ==
  /\ \A f \in File : dupe2group[f] # 0 => dupe2group[f] \in Extra
  /\ pending # {} => \A i \in Extra : \A f \in groups[i].members : dupe2group[f] = i

Apart ==
  /\ \A i, j \in 1..Len(groups) : i # j => groups[i].members \cap groups[j].members = {}
  /\ \A c \in intact, i \in 1..Len(groups) : c \cap groups[i].members = {}

IInv == TypeOK /\ Split /\ GroupsSound /\ AllFresh /\ Routed /\ Apart

\* What there is to find does not change during a scan.
LEMMA FoundIsFixed ==
  ASSUME UNCHANGED <<scan, intact>>
  PROVE  Found' = Found /\ Loose' = Loose
BY DEF Found, Loose, Usable

\* What there is to find is pairs.
LEMMA FoundArePairs == Found \subseteq Pair /\ Loose \subseteq Found
BY DEF Found, Loose

-----------------------------------------------------------------------------
(* One group grows.                                                        *)

\* Two intervals from 1 that are equal have the same end.
LEMMA SameInterval ==
  ASSUME NEW k \in Nat, NEW n \in Nat, 1..k = 1..n
  PROVE  k = n
<1>1. CASE k < n
  <2>1. n \in 1..n /\ n \notin 1..k
    BY <1>1
  <2> QED BY <2>1
<1>2. CASE n < k
  <2>1. k \in 1..k /\ k \notin 1..n
    BY <1>2
  <2> QED BY <2>1
<1> QED BY <1>1, <1>2

\* Put changes one group of the list, or adds one behind the last.
LEMMA PutAt ==
  ASSUME groups \in Seq(GroupRecord), NEW i \in 1..(Len(groups) + 1),
         NEW g \in GroupRecord, Put(i, g)
  PROVE  /\ groups' \in Seq(GroupRecord)
         /\ Len(groups') \in Nat
         /\ Len(groups) <= Len(groups') /\ i \in 1..Len(groups')
         /\ groups'[i] = g
         /\ \A j \in 1..Len(groups') : j # i => j \in 1..Len(groups) /\ groups'[j] = groups[j]
<1> DEFINE n == IF i = Len(groups) + 1 THEN i ELSE Len(groups)
<1>1. Len(groups) \in Nat /\ DOMAIN groups = 1..Len(groups)
  BY LenProperties
<1>2. n \in Nat /\ DOMAIN groups \cup {i} = 1..n /\ i \in 1..n /\ Len(groups) <= n
  BY <1>1
<1>3. groups' = [j \in 1..n |-> IF j = i THEN g ELSE groups[j]]
  BY <1>2 DEF Put
<1>4. \A j \in 1..n : j # i => j \in 1..Len(groups)
  BY <1>1
<1>5. \A j \in 1..Len(groups) : groups[j] \in GroupRecord
  BY ElementOfSeq
<1> HIDE DEF n
<1>6. groups' \in [1..n -> GroupRecord]
  BY <1>3, <1>4, <1>5
<1>7. groups' \in Seq(GroupRecord)
  BY <1>2, <1>6, SeqDef
<1>8. Len(groups') = n
  <2>1. Len(groups') \in Nat /\ DOMAIN groups' = 1..Len(groups')
    BY <1>7, LenProperties
  <2>2. 1..Len(groups') = 1..n
    BY <1>6, <2>1
  <2> QED BY <1>2, <2>1, <2>2, SameInterval
<1>9. groups'[i] = g /\ \A j \in 1..n : j # i => groups'[j] = groups[j]
  BY <1>2, <1>3
<1> QED BY <1>2, <1>4, <1>7, <1>8, <1>9

\* Without a clash, a match goes where either of its files is known to be.
LEMMA TargetIsKnown ==
  ASSUME NEW p \in Pair, ~ Clash(p), NEW f \in p, dupe2group[f] # 0
  PROVE  Target(p) = dupe2group[f]
BY Ends DEF Clash, Target

\* It goes to a group of this loop, or to a new one.
LEMMA TargetIsHere ==
  ASSUME TypeOK, Routed, NEW p \in Pair
  PROVE  Target(p) \in 1..(Len(groups) + 1) /\ Target(p) >= tier
<1>1. Lesser(p) \in File /\ Greater(p) \in File
  BY Ends
<1>2. Len(groups) \in Nat /\ tier \in 1..(Len(groups) + 1)
  BY LenProperties DEF TypeOK
<1> QED BY <1>1, <1>2 DEF Routed, Target, Extra

\* A group of the list, or a new one, is sound and apart from the others.
LEMMA GroupAtSound ==
  ASSUME IInv, NEW i \in 1..(Len(groups) + 1)
  PROVE  /\ Sound(GroupAt(i))
         /\ GroupAt(i).matches \subseteq Loose
         /\ i >= tier => \A q \in GroupAt(i).matches : Fresh(q)
         /\ \A j \in 1..Len(groups) : j # i => GroupAt(i).members \cap groups[j].members = {}
         /\ \A c \in intact : c \cap GroupAt(i).members = {}
<1>1. Len(groups) \in Nat /\ DOMAIN groups = 1..Len(groups) /\ tier \in 1..(Len(groups) + 1)
  BY LenProperties DEF IInv, TypeOK
<1>2. CASE i \in 1..Len(groups)
  BY <1>1, <1>2 DEF GroupAt, IInv, GroupsSound, AllFresh, Apart, Extra
<1>3. CASE i \notin 1..Len(groups)
  <2>1. GroupAt(i) = NewGroup
    BY <1>1, <1>3 DEF GroupAt
  <2>2. NewGroup.matches = {} /\ NewGroup.members = {}
    BY DEF NewGroup
  <2> QED BY <2>1, <2>2, NewGroupSound
<1> QED BY <1>2, <1>3

\* A group that grows by a pending match keeps the groups sound, fresh and apart.
LEMMA Growth ==
  ASSUME IInv, NEW p \in pending, ~ Clash(p), NEW g,
         Grows(GroupAt(Target(p)), g, p), Put(Target(p), g),
         UNCHANGED <<scan, intact, broken, tier>>, pending' \subseteq pending
  PROVE  /\ groups' \in Seq(GroupRecord)
         /\ tier' \in 1..(Len(groups') + 1)
         /\ GroupsSound' /\ AllFresh' /\ Apart'
<1> DEFINE t == Target(p)
           old == GroupAt(t)
<1>1. p \in Pair /\ p \in Loose /\ Fresh(p)
  BY FoundArePairs DEF IInv, Split, AllFresh
<1>2. t \in 1..(Len(groups) + 1) /\ t >= tier
  BY <1>1, TargetIsHere DEF IInv
<1>3. Len(groups) \in Nat /\ tier \in 1..(Len(groups) + 1)
  BY LenProperties DEF IInv, TypeOK
<1>4. Sound(g) /\ g \in GroupRecord
  BY DEF Grows, Sound
<1>5. /\ groups' \in Seq(GroupRecord)
      /\ Len(groups') \in Nat
      /\ Len(groups) <= Len(groups') /\ t \in 1..Len(groups')
      /\ groups'[t] = g
      /\ \A j \in 1..Len(groups') : j # t => j \in 1..Len(groups) /\ groups'[j] = groups[j]
  BY <1>2, <1>4, PutAt DEF IInv, TypeOK
<1>6. Loose' = Loose
  BY FoundIsFixed
<1>7. /\ old.matches \subseteq Loose
      /\ \A q \in old.matches : Fresh(q)
      /\ \A j \in 1..Len(groups) : j # t => old.members \cap groups[j].members = {}
      /\ \A c \in intact : c \cap old.members = {}
  BY <1>2, GroupAtSound
<1>8. g.matches \subseteq old.matches \cup {p} /\ g.members \subseteq old.members \cup p
  BY DEF Grows
<1>9. \A j \in 1..Len(groups) : j # t => p \cap groups[j].members = {}
  <2> SUFFICES ASSUME NEW j \in 1..Len(groups), j # t, NEW f \in p, f \in groups[j].members
               PROVE  FALSE
    OBVIOUS
  <2>1. j \in Extra
    BY <1>1, <1>3 DEF Fresh, Extra
  <2>2. dupe2group[f] = j
    BY <2>1 DEF IInv, Routed
  <2>3. j # 0
    BY <1>3
  <2> QED BY <1>1, <2>2, <2>3, TargetIsKnown
<1> HIDE DEF t, old
<1>10. tier' \in 1..(Len(groups') + 1)
  BY <1>3, <1>5
<1>11. GroupsSound'
  <2>1. g.matches \subseteq Loose
    BY <1>1, <1>7, <1>8
  <2>2. \A i \in 1..Len(groups') : Sound(groups'[i]) /\ groups'[i].matches \subseteq Loose
    BY <1>4, <1>5, <2>1 DEF IInv, GroupsSound
  <2> QED BY <1>6, <2>2 DEF GroupsSound
<1>12. \A q : Fresh(q) => Fresh(q)'
  BY <1>2, <1>3, <1>5 DEF Fresh
<1>13. AllFresh'
  <2>1. \A q \in pending' : Fresh(q)
    BY DEF IInv, AllFresh
  <2>2. \A i \in tier..Len(groups') : \A q \in groups'[i].matches : Fresh(q)
    <3> SUFFICES ASSUME NEW i \in tier..Len(groups'), NEW q \in groups'[i].matches
                 PROVE  Fresh(q)
      OBVIOUS
    <3>1. CASE i = t
      BY <1>1, <1>5, <1>7, <1>8, <3>1
    <3>2. CASE i # t
      <4>1. i \in 1..Len(groups') /\ i \in 1..Len(groups) /\ i \in Extra /\ groups'[i] = groups[i]
        BY <1>3, <1>5, <3>2 DEF Extra
      <4> QED BY <4>1 DEF IInv, AllFresh
    <3> QED BY <3>1, <3>2
  <2> QED BY <1>12, <2>1, <2>2 DEF AllFresh, Extra
<1>14. Apart'
  <2>1. \A i \in 1..Len(groups) : i # t => g.members \cap groups[i].members = {}
    BY <1>7, <1>8, <1>9
  <2>2. \A i, j \in 1..Len(groups') : i # j => groups'[i].members \cap groups'[j].members = {}
    BY <1>5, <2>1 DEF IInv, Apart
  <2>3. \A c \in intact : c \cap g.members = {}
    BY <1>1, <1>7, <1>8 DEF Loose
  <2>4. \A c \in intact, i \in 1..Len(groups') : c \cap groups'[i].members = {}
    BY <1>5, <2>3 DEF IInv, Apart
  <2> QED BY <2>2, <2>4 DEF Apart
<1> QED BY <1>5, <1>10, <1>11, <1>13, <1>14

-----------------------------------------------------------------------------
(* Every step keeps the invariant.                                         *)

\* A scan starts with the invariant.
LEMMA InitEstablishes == Init => IInv
<1> SUFFICES ASSUME Init PROVE IInv
  OBVIOUS
<1>1. Len(groups) = 0 /\ groups \in Seq(GroupRecord)
  BY EmptySeq DEF Init
<1>2. TypeOK
  <2>1. tier \in 1..(Len(groups) + 1)
    BY <1>1 DEF Init
  <2>2. dupe2group \in [File -> 0..Len(groups)]
    BY <1>1 DEF Init
  <2> QED BY <1>1, <2>1, <2>2 DEF Init, TypeOK
<1>3. \A i \in 1..Len(groups) : FALSE
  BY <1>1
<1>4. Extra = {}
  BY <1>1 DEF Extra, Init
<1> QED BY <1>2, <1>3, <1>4 DEF Init, IInv, Split, GroupsSound, AllFresh, Routed, Apart

\* While there are no groups, most of the invariant says nothing.
LEMMA BeforeGrouping ==
  ASSUME IInv, phase \in {"matching", "expanding"}, UNCHANGED tierVars
  PROVE  /\ GroupsSound' /\ Apart' /\ Routed'
         /\ (\A p \in pending' : Fresh(p)')
         /\ Extra' = {} /\ tier = 1
<1>1. groups = <<>> /\ tier = 1
  BY DEF IInv, Split
<1>2. Len(groups) = 0 /\ groups' = groups /\ tier' = tier /\ dupe2group' = dupe2group
  BY <1>1, EmptySeq DEF tierVars
<1>3. \A i \in 1..Len(groups') : FALSE
  BY <1>2
<1>4. Extra' = {} /\ Extra = {}
  BY <1>1, <1>2 DEF Extra
<1>5. \A i \in 1..(tier' - 1) : FALSE
  BY <1>1, <1>2
<1> QED BY <1>1, <1>2, <1>3, <1>4, <1>5 DEF GroupsSound, Apart, Routed, Fresh, IInv

\* Splitting the classes keeps it.
LEMMA ClassifyContentsKeeps == IInv /\ ClassifyContents => IInv'
<1> SUFFICES ASSUME IInv, ClassifyContents PROVE IInv'
  OBVIOUS
<1>1. /\ phase = "matching" /\ UNCHANGED <<scan, pending, tierVars>> /\ pending = {}
      /\ groups = <<>> /\ tier = 1
  BY DEF ClassifyContents, IInv, Split
<1>2. PICK classes \in SUBSET scan.classes :
        /\ intact' = {c \in classes : IsIntact(c)}
        /\ broken' = {c \in classes : ~ IsIntact(c)}
        /\ truncated' = (classes # scan.classes)
        /\ lost' = {p \in Found : \A c \in classes : ~ p \subseteq c}
  BY DEF ClassifyContents
<1>3. Found' = Found /\ \A c : IsIntact(c)' = IsIntact(c)
  BY <1>1 DEF Found, Usable, IsIntact
<1>4. TypeOK'
  BY <1>1, <1>2, <1>3 DEF ClassifyContents, IInv, TypeOK, tierVars
<1>5. Split'
  BY <1>1, <1>2, <1>3 DEF ClassifyContents, Split, tierVars
<1>6. GroupsSound' /\ Apart' /\ Routed' /\ AllFresh'
  BY <1>1, BeforeGrouping DEF AllFresh
<1> QED BY <1>4, <1>5, <1>6 DEF IInv

\* Pairs of a broken class are out of the intact ones.
LEMMA ExpandableIsLoose ==
  ASSUME IInv
  PROVE  Expandable \subseteq Loose
<1> SUFFICES ASSUME NEW p \in Expandable, NEW c \in intact, NEW f \in p, f \in c
             PROVE  FALSE
  BY DEF Expandable, Loose
<1>1. PICK d \in broken : p \subseteq d
  BY DEF Expandable
<1>2. c # d /\ c \in scan.classes /\ d \in scan.classes
  BY <1>1 DEF IInv, Split, TypeOK
<1>3. c \cap d = {}
  BY <1>2, ScanAssumption DEF IInv, TypeOK
<1> QED BY <1>1, <1>3

\* Matching is over and some loose matches go to get_groups.
LEMMA MatchingKeeps ==
  ASSUME IInv, phase \in {"matching", "expanding"}, phase' = "grouping",
         UNCHANGED <<inputVars, tierVars>>,
         pending' \subseteq Loose, lost' \subseteq Found, truncated' \in BOOLEAN
  PROVE  IInv'
<1>1. UNCHANGED <<scan, intact, broken, groups, tier, dupe2group, clashed>>
  BY DEF inputVars, tierVars
<1>2. Found' = Found /\ Loose' = Loose /\ Loose \subseteq Found
  BY <1>1, FoundIsFixed, FoundArePairs
<1>3. TypeOK'
  BY <1>1, <1>2 DEF IInv, TypeOK
<1>4. \A c : IsIntact(c)' = IsIntact(c)
  BY <1>1 DEF IsIntact
<1>5. Split'
  BY <1>1, <1>2, <1>4 DEF IInv, Split
<1> QED BY <1>3, <1>5, BeforeGrouping DEF IInv, AllFresh

\* Making pairs of the broken classes keeps it, all of them or not.
LEMMA ExpandKeeps == IInv /\ (Expand \/ ExpandOverflow) => IInv'
<1>1. ASSUME IInv, Expand PROVE IInv'
  BY <1>1, ExpandableIsLoose, MatchingKeeps DEF Expand, IInv, TypeOK
<1>2. ASSUME IInv, ExpandOverflow PROVE IInv'
  <2>1. PICK p \in Expandable :
          /\ pending' = {q \in Expandable : ~ ListedBefore(p, q)}
          /\ lost' = lost \cup {q \in Expandable : ListedBefore(p, q)}
    BY <1>2 DEF ExpandOverflow
  <2>2. Expandable \subseteq Loose /\ Expandable \subseteq Found
    BY <1>2, ExpandableIsLoose DEF Expandable
  <2>3. scan.pairwise \in BOOLEAN /\ truncated \in BOOLEAN /\ lost \subseteq Found
    BY <1>2, ScanAssumption DEF IInv, TypeOK
  <2>4. pending' \subseteq Loose /\ lost' \subseteq Found
    BY <2>1, <2>2, <2>3
  <2>5. truncated' \in BOOLEAN
    BY <1>2, <2>3 DEF ExpandOverflow
  <2> QED BY <1>2, <2>4, <2>5, MatchingKeeps DEF ExpandOverflow
<1> QED BY <1>1, <1>2

\* The pairs of the other scans keep it.
LEMMA MatchWordsKeeps == IInv /\ MatchWords => IInv'
<1> SUFFICES ASSUME IInv, MatchWords PROVE IInv'
  OBVIOUS
<1>1. PICK kept \in SUBSET DOMAIN scan.percentage :
        /\ pending' = kept \cap Found
        /\ lost' = Found \ kept
        /\ truncated' = (kept # DOMAIN scan.percentage)
  BY DEF MatchWords
<1>2. intact = {}
  BY DEF MatchWords, IInv, TypeOK
<1>3. Found \subseteq Loose
  BY <1>2 DEF Loose
<1> QED BY <1>1, <1>3, MatchingKeeps DEF MatchWords

\* A match skipped between two groups keeps it.
LEMMA SkipMatchKeeps ==
  ASSUME IInv, NEW p \in pending, SkipMatch(p)
  PROVE  IInv'
<1>1. /\ pending' \subseteq pending /\ clashed' = clashed \cup {p}
      /\ phase' = phase /\ phase = "grouping"
      /\ UNCHANGED <<scan, intact, broken, groups, tier, dupe2group, truncated, lost>>
  BY DEF SkipMatch, inputVars
<1>2. Found' = Found /\ Loose' = Loose
  BY <1>1, FoundIsFixed
<1>3. TypeOK'
  BY <1>1, <1>2 DEF IInv, TypeOK
<1>4. Split'
  BY <1>1, <1>2 DEF IInv, Split, IsIntact
<1>5. GroupsSound' /\ Apart'
  BY <1>1, <1>2 DEF IInv, GroupsSound, Apart
<1>6. AllFresh' /\ Routed'
  BY <1>1 DEF IInv, AllFresh, Routed, Fresh, Extra
<1> QED BY <1>3, <1>4, <1>5, <1>6 DEF IInv

\* The group a match goes to, as TakeMatch leaves it, knows where its members are.
LEMMA TakeMatchRoutes ==
  ASSUME IInv, NEW p \in pending, TakeMatch(p)
  PROVE  Routed' /\ dupe2group' \in [File -> 0..Len(groups')]
<1> DEFINE t == Target(p)
           g == AddMatch(GroupAt(t), p)
<1>1. p \in Pair
  BY FoundArePairs DEF IInv, TypeOK
<1>2. t \in 1..(Len(groups) + 1) /\ t >= tier
  BY <1>1, TargetIsHere DEF IInv
<1>3. Len(groups) \in Nat /\ tier \in 1..(Len(groups) + 1) /\ DOMAIN groups = 1..Len(groups)
  BY LenProperties DEF IInv, TypeOK
<1>4. Grows(GroupAt(t), g, p)
  BY <1>1, <1>2, GroupAtSound, AddMatchGrows
<1>5. Put(t, g) /\ tier' = tier
      /\ dupe2group' = [f \in File |-> IF f \in p THEN t ELSE dupe2group[f]]
  BY DEF TakeMatch
<1>6. g \in GroupRecord
  BY <1>4 DEF Grows, Sound
<1>7. /\ Len(groups') \in Nat
      /\ Len(groups) <= Len(groups') /\ t \in 1..Len(groups')
      /\ groups'[t] = g
      /\ \A j \in 1..Len(groups') : j # t => j \in 1..Len(groups) /\ groups'[j] = groups[j]
  BY <1>2, <1>5, <1>6, PutAt DEF IInv, TypeOK
<1>8. \A i \in Extra : \A f \in groups[i].members : dupe2group[f] = i
  BY DEF IInv, Routed
<1>9. \A f \in GroupAt(t).members : f \in File /\ dupe2group[f] = t
  <2>1. CASE t \in DOMAIN groups
    BY <1>2, <1>3, <1>8, <2>1, GroupAtSound DEF GroupAt, Extra, Sound, GroupRecord
  <2>2. CASE t \notin DOMAIN groups
    BY <2>2 DEF GroupAt, NewGroup
  <2> QED BY <2>1, <2>2
<1>10. ~ Clash(p) /\ p \subseteq File
  BY <1>1, Ends DEF TakeMatch
<1>11. \A f \in File : dupe2group[f] \in 0..Len(groups)
  BY DEF IInv, TypeOK
<1>12. \A f \in g.members : dupe2group'[f] = t
  BY <1>4, <1>5, <1>9, <1>10 DEF Grows
<1> HIDE DEF t, g
<1>13. dupe2group' \in [File -> 0..Len(groups')]
  BY <1>3, <1>5, <1>7, <1>11
<1>14. \A f \in File : dupe2group'[f] # 0 => dupe2group'[f] \in Extra'
  <2> SUFFICES ASSUME NEW f \in File, dupe2group'[f] # 0
               PROVE  dupe2group'[f] \in tier..Len(groups')
    BY <1>5 DEF Extra
  <2>1. CASE f \in p
    BY <1>2, <1>3, <1>5, <1>7, <2>1
  <2>2. CASE f \notin p
    <3>1. dupe2group'[f] = dupe2group[f]
      BY <1>5, <2>2
    <3>2. dupe2group[f] \in Extra
      BY <3>1 DEF IInv, Routed
    <3> QED BY <1>3, <1>7, <3>1, <3>2 DEF Extra
  <2> QED BY <2>1, <2>2
<1>15. \A i \in Extra' : \A f \in groups'[i].members : dupe2group'[f] = i
  <2> SUFFICES ASSUME NEW i \in tier..Len(groups'), NEW f \in groups'[i].members
               PROVE  dupe2group'[f] = i
    BY <1>5 DEF Extra
  <2>1. CASE i = t
    BY <1>7, <1>12, <2>1
  <2>2. CASE i # t
    <3>1. i \in Extra /\ i \in 1..Len(groups) /\ f \in groups[i].members
      BY <1>3, <1>7, <2>2 DEF Extra
    <3>2. dupe2group[f] = i /\ i # 0
      BY <1>3, <1>8, <3>1
    <3>3. f \notin p
      BY <1>1, <1>10, <2>2, <3>2, TargetIsKnown DEF t
    <3>4. f \in File
      BY <3>1 DEF IInv, GroupsSound, Sound, GroupRecord
    <3> QED BY <1>5, <3>2, <3>3, <3>4
  <2> QED BY <2>1, <2>2
<1> QED BY <1>13, <1>14, <1>15 DEF Routed

\* A match that is taken keeps it.
LEMMA TakeMatchKeeps ==
  ASSUME IInv, NEW p \in pending, TakeMatch(p)
  PROVE  IInv'
<1>1. /\ pending' \subseteq pending /\ phase' = phase /\ phase = "grouping"
      /\ UNCHANGED <<scan, intact, broken, tier, truncated, lost, clashed>>
  BY DEF TakeMatch, inputVars
<1>2. p \in Pair
  BY FoundArePairs DEF IInv, TypeOK
<1>3. Grows(GroupAt(Target(p)), AddMatch(GroupAt(Target(p)), p), p)
  BY <1>2, TargetIsHere, GroupAtSound, AddMatchGrows DEF IInv
<1>4. /\ groups' \in Seq(GroupRecord)
      /\ tier' \in 1..(Len(groups') + 1)
      /\ GroupsSound' /\ AllFresh' /\ Apart'
  BY <1>1, <1>3, Growth DEF TakeMatch
<1>5. Routed' /\ dupe2group' \in [File -> 0..Len(groups')]
  BY TakeMatchRoutes
<1>6. Found' = Found /\ Loose' = Loose
  BY <1>1, FoundIsFixed
<1>7. TypeOK'
  BY <1>1, <1>4, <1>5, <1>6 DEF IInv, TypeOK
<1>8. Split'
  BY <1>1, <1>6 DEF IInv, Split, IsIntact
<1> QED BY <1>4, <1>5, <1>7, <1>8 DEF IInv

\* Running out of memory in get_groups keeps it.
LEMMA OverflowKeeps ==
  ASSUME IInv, NEW p \in pending, Overflow(p)
  PROVE  IInv'
<1>1. /\ pending' = {} /\ phase' = phase /\ phase = "grouping" /\ truncated' = TRUE
      /\ lost' = lost \cup pending /\ dupe2group' = [f \in File |-> 0]
      /\ UNCHANGED <<scan, intact, broken, tier, clashed>>
  BY DEF Overflow, inputVars
<1>2. Found' = Found /\ Loose' = Loose
  BY <1>1, FoundIsFixed
<1>3. /\ groups' \in Seq(GroupRecord)
      /\ tier' \in 1..(Len(groups') + 1)
      /\ GroupsSound' /\ AllFresh' /\ Apart'
  <2>1. CASE UNCHANGED groups
    BY <1>1, <1>2, <2>1 DEF IInv, TypeOK, GroupsSound, AllFresh, Fresh, Extra, Apart
  <2>2. CASE ~ Clash(p) /\ \E g \in Interrupted(GroupAt(Target(p)), p) : Put(Target(p), g)
    <3>1. PICK g \in Interrupted(GroupAt(Target(p)), p) : Put(Target(p), g)
      BY <2>2
    <3>2. p \in Pair
      BY FoundArePairs DEF IInv, TypeOK
    <3>3. Grows(GroupAt(Target(p)), g, p)
      BY <3>2, TargetIsHere, GroupAtSound, InterruptedGrows DEF IInv
    <3> QED BY <1>1, <2>2, <3>1, <3>3, Growth
  <2> QED BY <2>1, <2>2 DEF Overflow
<1>4. Len(groups') \in Nat
  BY <1>3, LenProperties
<1>5. dupe2group' \in [File -> 0..Len(groups')]
  BY <1>1, <1>4
<1>6. TypeOK'
  BY <1>1, <1>2, <1>3, <1>5 DEF IInv, TypeOK
<1>7. Split'
  BY <1>1, <1>2 DEF IInv, Split, IsIntact
<1>8. Routed'
  BY <1>1 DEF Routed
<1> QED BY <1>3, <1>6, <1>7, <1>8 DEF IInv

\* Discarding matches and starting over with the orphans keeps it.
LEMMA EndTierKeeps == IInv /\ EndTier => IInv'
<1> SUFFICES ASSUME IInv, EndTier PROVE IInv'
  OBVIOUS
<1>1. /\ phase = "grouping" /\ pending' = Orphans /\ dupe2group' = [f \in File |-> 0]
      /\ UNCHANGED <<scan, intact, broken, truncated, lost, clashed>>
      /\ phase' \in {"grouping", "done"}
      /\ phase' = "done" => Orphans = {}
      /\ tier' = Len(groups) + 1 \/ (tier' = tier /\ Orphans = {})
  BY DEF EndTier, inputVars
<1>2. Found' = Found /\ Loose' = Loose /\ Loose \subseteq Found
  BY <1>1, FoundIsFixed, FoundArePairs
<1>3. Len(groups) \in Nat /\ DOMAIN groups = 1..Len(groups) /\ tier \in 1..(Len(groups) + 1)
  BY LenProperties DEF IInv, TypeOK
<1>4. \A i \in 1..Len(groups) :
        /\ groups'[i] = IF i \in Extra THEN Discard(groups[i]) ELSE groups[i]
        /\ Sound(groups'[i])
        /\ groups'[i].matches \subseteq groups[i].matches
        /\ groups'[i].members = groups[i].members
  <2> SUFFICES ASSUME NEW i \in 1..Len(groups)
               PROVE  /\ groups'[i] = IF i \in Extra THEN Discard(groups[i]) ELSE groups[i]
                      /\ Sound(groups'[i])
                      /\ groups'[i].matches \subseteq groups[i].matches
                      /\ groups'[i].members = groups[i].members
    OBVIOUS
  <2>1. groups'[i] = IF i \in Extra THEN Discard(groups[i]) ELSE groups[i]
    BY <1>3 DEF EndTier
  <2>2. Sound(groups[i])
    BY DEF IInv, GroupsSound
  <2> QED BY <2>1, <2>2, DiscardSound
<1>5. groups' \in Seq(GroupRecord) /\ Len(groups') = Len(groups)
  <2>1. groups' \in [1..Len(groups) -> GroupRecord]
    BY <1>3, <1>4 DEF EndTier, Sound
  <2>2. groups' \in Seq(GroupRecord)
    BY <1>3, <2>1, SeqDef
  <2>3. Len(groups') \in Nat /\ 1..Len(groups') = 1..Len(groups)
    BY <2>1, <2>2, LenProperties
  <2> QED BY <1>3, <2>2, <2>3, SameInterval
<1>6. \A p \in Orphans : p \in Loose /\ \A i \in 1..Len(groups) : p \cap groups[i].members = {}
  <2> SUFFICES ASSUME NEW p \in Orphans
               PROVE  p \in Loose /\ \A i \in 1..Len(groups) : p \cap groups[i].members = {}
    OBVIOUS
  <2>1. PICK j \in Extra : p \in groups[j].matches
    BY DEF Orphans, Discarded
  <2>2. j \in 1..Len(groups)
    BY <1>3 DEF Extra
  <2>3. p \in Loose
    BY <2>1, <2>2 DEF IInv, GroupsSound
  <2>4. Fresh(p)
    BY <2>1 DEF IInv, AllFresh
  <2>5. ASSUME NEW i \in 1..Len(groups) PROVE p \cap groups[i].members = {}
    <3>1. CASE i \in Extra
      BY <3>1 DEF Orphans, Taken
    <3>2. CASE i \notin Extra
      <4>1. i \in 1..(tier - 1)
        BY <1>3, <3>2 DEF Extra
      <4> QED BY <2>4, <4>1 DEF Fresh
    <3> QED BY <3>1, <3>2
  <2> QED BY <2>3, <2>5
<1>7. TypeOK'
  <2>1. tier' \in 1..(Len(groups') + 1)
    BY <1>1, <1>3, <1>5
  <2>2. dupe2group' \in [File -> 0..Len(groups')]
    BY <1>1, <1>3, <1>5
  <2>3. Orphans \subseteq Found
    BY <1>2, <1>6
  <2> QED BY <1>1, <1>2, <1>5, <2>1, <2>2, <2>3 DEF IInv, TypeOK
<1>8. Split'
  BY <1>1, <1>2, <1>6 DEF IInv, Split, IsIntact
<1>9. GroupsSound'
  BY <1>2, <1>4, <1>5 DEF IInv, GroupsSound
<1>10. Apart'
  BY <1>1, <1>4, <1>5 DEF IInv, Apart
<1>11. Routed'
  <2>1. CASE tier' = Len(groups) + 1
    <3>1. Extra' = {}
      BY <1>3, <1>5, <2>1 DEF Extra
    <3> QED BY <1>1, <3>1 DEF Routed
  <2>2. CASE Orphans = {}
    BY <1>1, <2>2 DEF Routed
  <2> QED BY <1>1, <2>1, <2>2
<1>12. AllFresh'
  <2>1. CASE tier' = Len(groups) + 1
    <3>1. Extra' = {}
      BY <1>3, <1>5, <2>1 DEF Extra
    <3>2. \A p \in Orphans : Fresh(p)'
      BY <1>3, <1>4, <1>6, <2>1 DEF Fresh
    <3> QED BY <1>1, <3>1, <3>2 DEF AllFresh
  <2>2. CASE tier' = tier /\ Orphans = {}
    <3>1. Extra' = Extra /\ Extra \subseteq 1..Len(groups)
      BY <1>3, <1>5, <2>2 DEF Extra
    <3>2. \A q : Fresh(q) => Fresh(q)'
      BY <1>3, <1>4, <2>2 DEF Fresh
    <3>3. \A i \in Extra : \A q \in groups'[i].matches : Fresh(q)
      BY <1>4, <3>1 DEF IInv, AllFresh
    <3> QED BY <1>1, <2>2, <3>1, <3>2, <3>3 DEF AllFresh
  <2> QED BY <1>1, <2>1, <2>2
<1> QED BY <1>7, <1>8, <1>9, <1>10, <1>11, <1>12 DEF IInv

\* Doing nothing keeps it.
LEMMA StutterKeeps == IInv /\ UNCHANGED vars => IInv'
<1> SUFFICES ASSUME IInv, UNCHANGED vars PROVE IInv'
  OBVIOUS
<1>1. UNCHANGED <<scan, intact, broken, phase, pending, groups, tier, dupe2group, clashed,
                 truncated, lost>>
  BY DEF vars, inputVars, tierVars
<1>2. Found' = Found /\ Loose' = Loose
  BY <1>1, FoundIsFixed
<1>3. TypeOK' /\ Split'
  BY <1>1, <1>2 DEF IInv, TypeOK, Split, IsIntact
<1>4. GroupsSound' /\ AllFresh' /\ Routed' /\ Apart'
  BY <1>1, <1>2 DEF IInv, GroupsSound, AllFresh, Fresh, Extra, Routed, Apart
<1> QED BY <1>3, <1>4 DEF IInv

\* The invariant the theorems rest on, for any files, matches and orders.
THEOREM InvariantHolds == Spec => []IInv
<1>1. IInv /\ [Next]_vars => IInv'
  BY ClassifyContentsKeeps, ExpandKeeps, MatchWordsKeeps, SkipMatchKeeps, TakeMatchKeeps,
     OverflowKeeps, EndTierKeeps, StutterKeeps DEF Next
<1> QED BY <1>1, InitEstablishes, PTL DEF Spec

-----------------------------------------------------------------------------
(* What it means for what the scan returns.                                *)

\* Every variable of the grouping keeps its type.
THEOREM TypeCorrect == Spec => []TypeOK
<1>1. IInv => TypeOK
  BY DEF IInv
<1> QED BY <1>1, InvariantHolds, PTL

\* Any two files of a returned group match each other, whatever memory allowed.
THEOREM CliquesOnly == Spec => []GroupsAreCliques
<1>1. ASSUME IInv PROVE GroupsAreCliques
  <2> SUFFICES ASSUME NEW ms \in Returned, NEW p \in PairsOf(ms)
               PROVE  p \in Found
    BY DEF GroupsAreCliques
  <2>1. PICK f \in File, h \in File : f # h /\ p = {f, h}
    BY DEF PairsOf, Pair
  <2>2. CASE ms \in intact
    <3>1. ms \in scan.classes /\ IsIntact(ms) /\ p \subseteq ms
      BY <1>1, <2>2 DEF IInv, TypeOK, Split, PairsOf
    <3>2. ~ p \subseteq RefFile
      BY <2>1, <3>1 DEF IsIntact
    <3>3. p \in Pair /\ p \notin scan.ignored
      BY <3>1 DEF IsIntact, PairsOf
    <3> QED BY <3>1, <3>2, <3>3 DEF Found, Usable
  <2>3. CASE \E i \in DOMAIN groups : ms = groups[i].members
    <3>1. PICK i \in 1..Len(groups) : ms = groups[i].members
      BY <1>1, <2>3, LenProperties DEF IInv, TypeOK
    <3>2. Sound(groups[i]) /\ groups[i].matches \subseteq Found
      BY <1>1, FoundArePairs DEF IInv, GroupsSound
    <3>3. f \in ms /\ h \in ms
      BY <2>1 DEF PairsOf
    <3> QED BY <2>1, <3>1, <3>2, <3>3 DEF Sound
  <2> QED BY <2>2, <2>3 DEF Returned
<1> QED BY <1>1, InvariantHolds, PTL

\* No file is in two groups, however many loops made them.
THEOREM GroupsStayApart == Spec => []NoFileTwice
<1>1. ASSUME IInv PROVE NoFileTwice
  <2>1. DOMAIN groups = 1..Len(groups)
    BY <1>1, LenProperties DEF IInv, TypeOK
  <2> QED BY <1>1, <2>1 DEF IInv, Apart, NoFileTwice
<1> QED BY <1>1, InvariantHolds, PTL

-----------------------------------------------------------------------------
(* What a group keeps of its matches.                                      *)

\* Once a loop is through, its groups hold matches of their members only.
Trimmed ==
  \A i \in 1..Len(groups) : i < tier \/ phase = "done" =>
    \A q \in groups[i].matches : q \subseteq groups[i].members

\* A group of this loop that grows is none of those that are trimmed.
LEMMA GrowthTrimmed ==
  ASSUME IInv, Trimmed, NEW p \in pending, NEW g, g \in GroupRecord, Put(Target(p), g),
         phase' = "grouping", phase = "grouping", tier' = tier
  PROVE  Trimmed'
<1>1. Target(p) \in 1..(Len(groups) + 1) /\ Target(p) >= tier
  BY TargetIsHere, FoundArePairs DEF IInv, TypeOK
<1>2. /\ Len(groups') \in Nat
      /\ \A j \in 1..Len(groups') :
           j # Target(p) => j \in 1..Len(groups) /\ groups'[j] = groups[j]
  BY <1>1, PutAt DEF IInv, TypeOK
<1>3. tier \in Nat
  BY LenProperties DEF IInv, TypeOK
<1>4. ASSUME NEW i \in 1..Len(groups'), i < tier
      PROVE  \A q \in groups'[i].matches : q \subseteq groups'[i].members
  <2>1. i # Target(p)
    BY <1>1, <1>3, <1>4
  <2> QED BY <1>2, <1>4, <2>1 DEF Trimmed
<1> QED BY <1>4 DEF Trimmed

\* Every step keeps the groups of the earlier loops trimmed.
LEMMA TrimmedKeeps == IInv /\ Trimmed /\ [Next]_vars => Trimmed'
<1> SUFFICES ASSUME IInv, Trimmed, [Next]_vars PROVE Trimmed'
  OBVIOUS
<1>1. CASE ClassifyContents \/ Expand \/ ExpandOverflow \/ MatchWords
  <2>1. groups = <<>> /\ groups' = groups
    BY <1>1 DEF ClassifyContents, Expand, ExpandOverflow, MatchWords, tierVars, IInv, Split
  <2>2. \A i \in 1..Len(groups') : FALSE
    BY <2>1, EmptySeq
  <2> QED BY <2>2 DEF Trimmed
<1>2. ASSUME NEW p \in pending, SkipMatch(p) PROVE Trimmed'
  BY <1>2 DEF SkipMatch, Trimmed
<1>3. ASSUME NEW p \in pending, TakeMatch(p) PROVE Trimmed'
  <2>1. p \in Pair
    BY FoundArePairs DEF IInv, TypeOK
  <2>2. AddMatch(GroupAt(Target(p)), p) \in GroupRecord
    BY <2>1, TargetIsHere, GroupAtSound, AddMatchGrows DEF IInv, Grows, Sound
  <2> QED BY <1>3, <2>2, GrowthTrimmed DEF TakeMatch
<1>4. ASSUME NEW p \in pending, Overflow(p) PROVE Trimmed'
  <2>1. CASE UNCHANGED groups
    BY <1>4, <2>1 DEF Overflow, Trimmed
  <2>2. CASE \E g \in Interrupted(GroupAt(Target(p)), p) : Put(Target(p), g)
    <3>1. PICK g \in Interrupted(GroupAt(Target(p)), p) : Put(Target(p), g)
      BY <2>2
    <3>2. p \in Pair
      BY FoundArePairs DEF IInv, TypeOK
    <3>3. g \in GroupRecord
      BY <3>2, TargetIsHere, GroupAtSound, InterruptedGrows DEF IInv, Grows, Sound
    <3> QED BY <1>4, <3>1, <3>3, GrowthTrimmed DEF Overflow
  <2> QED BY <1>4, <2>1, <2>2 DEF Overflow
<1>5. CASE EndTier
  <2>1. Len(groups) \in Nat /\ DOMAIN groups = 1..Len(groups) /\ tier \in 1..(Len(groups) + 1)
    BY LenProperties DEF IInv, TypeOK
  <2>2. groups' = [i \in 1..Len(groups) |-> IF i \in Extra THEN Discard(groups[i]) ELSE groups[i]]
    BY <1>5, <2>1 DEF EndTier
  <2>3. ASSUME NEW i \in 1..Len(groups)
        PROVE  \A q \in groups'[i].matches : q \subseteq groups'[i].members
    <3>1. CASE i \in Extra
      BY <2>2, <3>1 DEF Discard
    <3>2. CASE i \notin Extra
      <4>1. i < tier /\ groups'[i] = groups[i]
        BY <2>1, <2>2, <3>2 DEF Extra
      <4> QED BY <4>1 DEF Trimmed
    <3> QED BY <3>1, <3>2
  <2>4. IInv'
    BY <1>5, EndTierKeeps
  <2>5. 1..Len(groups') = 1..Len(groups)
    BY <2>2, <2>4, LenProperties DEF IInv, TypeOK
  <2> QED BY <2>3, <2>5 DEF Trimmed
<1>6. CASE UNCHANGED vars
  BY <1>6 DEF vars, tierVars, Trimmed
<1> QED BY <1>1, <1>2, <1>3, <1>4, <1>5, <1>6 DEF Next

\* A finished scan's groups hold exactly the matches between their members.
THEOREM DupesKnowTheirMatch == Spec => []EveryDupeHasItsMatch
<1>1. Init => Trimmed
  <2> SUFFICES ASSUME Init PROVE Trimmed
    OBVIOUS
  <2>1. \A i \in 1..Len(groups) : FALSE
    BY EmptySeq DEF Init
  <2> QED BY <2>1 DEF Trimmed
<1>2. ASSUME IInv, Trimmed PROVE EveryDupeHasItsMatch
  <2> SUFFICES ASSUME phase = "done", NEW i \in DOMAIN groups
               PROVE  groups[i].matches = PairsOf(groups[i].members)
    BY DEF EveryDupeHasItsMatch
  <2>1. i \in 1..Len(groups)
    BY <1>2, LenProperties DEF IInv, TypeOK
  <2>2. Sound(groups[i]) /\ groups[i].matches \subseteq Pair
    BY <1>2, <2>1, FoundArePairs DEF IInv, GroupsSound
  <2>3. \A q \in groups[i].matches : q \subseteq groups[i].members
    BY <1>2, <2>1 DEF Trimmed
  <2>4. ASSUME NEW p \in PairsOf(groups[i].members) PROVE p \in groups[i].matches
    <3>1. PICK f \in File, h \in File : f # h /\ p = {f, h}
      BY DEF PairsOf, Pair
    <3>2. f \in groups[i].members /\ h \in groups[i].members
      BY <3>1 DEF PairsOf
    <3> QED BY <2>2, <3>1, <3>2 DEF Sound
  <2> QED BY <2>2, <2>3, <2>4 DEF PairsOf
<1> QED BY <1>1, <1>2, TrimmedKeeps, InvariantHolds, PTL DEF Spec

\* What get_groups returns is what its users rely on.
THEOREM GroupsStayTrue == Spec => []GroupsAreTrue
<1>1. TypeOK /\ GroupsAreCliques /\ NoFileTwice /\ EveryDupeHasItsMatch => GroupsAreTrue
  BY DEF GroupsAreTrue
<1> QED BY <1>1, TypeCorrect, CliquesOnly, GroupsStayApart, DupesKnowTheirMatch, PTL

-----------------------------------------------------------------------------
(* Where the matches go that no group took.                                *)

\* A group that a match came to has lost nothing, wherever memory ran out.
LEMMA NothingLeaves ==
  ASSUME NEW g, Sound(g), NEW p \in Pair
  PROVE  /\ g.members \subseteq AddMatch(g, p).members
         /\ AddMatch(g, p).matches = g.matches \cup {p}
         /\ \A new \in Interrupted(g, p) :
              g.members \subseteq new.members /\ g.matches \subseteq new.matches
<1> DEFINE lesser == Lesser(p)
           greater == Greater(p)
           r == Recorded(g, p)
           first == FirstAdded(g, p)
<1>1. lesser \in File /\ greater \in File /\ p = {lesser, greater} /\ p = {greater, lesser}
  BY Ends
<1>2. Sound(r) /\ r.matches = g.matches \cup {p} /\ r.members = g.members
  BY RecordedSound
<1>3. first = AddCandidate(r, lesser, greater)
  BY DEF FirstAdded
<1>4. Sound(first) /\ first.matches = g.matches \cup {p}
  BY FirstAddedSound
<1>5. p \notin g.matches => AddMatch(g, p) = AddCandidate(first, greater, lesser)
  BY DEF AddMatch
<1>6. p \in g.matches => AddMatch(g, p) = g
  BY DEF AddMatch
<1>7. \A new \in Interrupted(g, p) : new = g \/ new = r \/ new = first
  BY DEF Interrupted
<1> HIDE DEF lesser, greater, r, first
<1>8. {lesser, greater} \in r.matches /\ {greater, lesser} \in first.matches
  BY <1>1, <1>2, <1>4
<1>9. g.members \subseteq first.members
  BY <1>1, <1>2, <1>3, <1>8, AddCandidateSound
<1> DEFINE second == AddCandidate(first, greater, lesser)
<1>10. first.members \subseteq second.members /\ second.matches = first.matches
  <2>1. {greater, lesser} \in first.matches
    BY <1>8
  <2>2. greater \in File /\ lesser \in File /\ Sound(first)
    BY <1>1, <1>4
  <2> QED BY <2>1, <2>2, AddCandidateSound
<1>11. CASE p \in g.matches
  BY <1>2, <1>4, <1>6, <1>7, <1>9, <1>11
<1>12. CASE p \notin g.matches
  BY <1>2, <1>4, <1>5, <1>7, <1>9, <1>10, <1>12
<1> QED BY <1>11, <1>12

\* A match that no group took is out of the way, waiting, or with a group of this loop.
Touched(p) == \E i \in 1..Len(groups) : p \cap groups[i].members # {}
Kept(p) == \E i \in Extra : p \in groups[i].matches
Accounted ==
  /\ phase = "expanding" => \A p \in Found \ lost : \E c \in intact \cup broken : p \subseteq c
  /\ phase \in {"grouping", "done"} => \A p \in Found \ (clashed \cup lost) :
       \/ \E c \in intact : p \subseteq c
       \/ p \in pending \/ Touched(p)
       \/ phase = "grouping" /\ Kept(p)

\* What was touched or kept stays so when a group grows.
LEMMA GrowthKeeps ==
  ASSUME IInv, NEW p \in pending, NEW g \in GroupRecord, Put(Target(p), g), tier' = tier,
         GroupAt(Target(p)).members \subseteq g.members,
         GroupAt(Target(p)).matches \subseteq g.matches
  PROVE  /\ \A q : Touched(q) => Touched(q)'
         /\ \A q : Kept(q) => Kept(q)'
         /\ p \in g.matches => Kept(p)'
<1> DEFINE t == Target(p)
<1>1. t \in 1..(Len(groups) + 1) /\ t >= tier
  BY TargetIsHere, FoundArePairs DEF IInv, TypeOK
<1>2. Len(groups) \in Nat /\ DOMAIN groups = 1..Len(groups) /\ tier \in 1..(Len(groups) + 1)
  BY LenProperties DEF IInv, TypeOK
<1>3. /\ Len(groups') \in Nat
      /\ Len(groups) <= Len(groups') /\ t \in 1..Len(groups')
      /\ groups'[t] = g
      /\ \A j \in 1..Len(groups') : j # t => j \in 1..Len(groups) /\ groups'[j] = groups[j]
  BY <1>1, PutAt DEF IInv, TypeOK
<1>4. ASSUME NEW i \in 1..Len(groups)
      PROVE  /\ i \in 1..Len(groups')
             /\ groups[i].members \subseteq groups'[i].members
             /\ groups[i].matches \subseteq groups'[i].matches
  <2>1. CASE i = t
    BY <1>2, <1>3, <2>1 DEF GroupAt
  <2>2. CASE i # t
    BY <1>2, <1>3, <2>2
  <2> QED BY <2>1, <2>2
<1> HIDE DEF t
<1>5. Extra \subseteq Extra' /\ Extra \subseteq 1..Len(groups) /\ t \in Extra'
  BY <1>1, <1>2, <1>3 DEF Extra
<1>6. \A q : Touched(q) => Touched(q)'
  BY <1>4 DEF Touched
<1>7. \A q : Kept(q) => Kept(q)'
  BY <1>4, <1>5 DEF Kept
<1>8. p \in g.matches => Kept(p)'
  BY <1>3, <1>5 DEF Kept
<1> QED BY <1>6, <1>7, <1>8

\* Every step knows where each match is.
LEMMA AccountedKeeps == IInv /\ Accounted /\ [Next]_vars => Accounted'
<1> SUFFICES ASSUME IInv, Accounted, [Next]_vars PROVE Accounted'
  OBVIOUS
<1>1. CASE ClassifyContents
  <2>1. PICK classes \in SUBSET scan.classes :
          /\ intact' = {c \in classes : IsIntact(c)}
          /\ broken' = {c \in classes : ~ IsIntact(c)}
          /\ lost' = {p \in Found : \A c \in classes : ~ p \subseteq c}
    BY <1>1 DEF ClassifyContents
  <2>2. Found' = Found /\ phase' = "expanding"
    BY <1>1 DEF ClassifyContents, Found, Usable
  <2> QED BY <2>1, <2>2 DEF Accounted
<1>2. CASE Expand \/ ExpandOverflow
  <2>1. /\ phase = "expanding" /\ phase' = "grouping"
        /\ UNCHANGED <<scan, intact, broken, groups, tier, clashed>>
    BY <1>2 DEF Expand, ExpandOverflow, inputVars, tierVars
  <2>2. Found' = Found
    BY <2>1, FoundIsFixed
  <2>3. Expandable \subseteq pending' \cup lost' /\ lost \subseteq lost'
    BY <1>2 DEF Expand, ExpandOverflow
  <2>4. ASSUME NEW p \in Found \ (clashed \cup lost')
        PROVE (\E c \in intact : p \subseteq c) \/ p \in pending'
    BY <2>1, <2>3, <2>4 DEF Accounted, Expandable
  <2> QED BY <2>1, <2>2, <2>4 DEF Accounted
<1>3. CASE MatchWords
  <2>1. /\ phase' = "grouping" /\ Found \subseteq pending' \cup lost'
        /\ UNCHANGED scan
    BY <1>3 DEF MatchWords, inputVars, Found
  <2>2. Found' = Found
    BY <2>1 DEF Found, Usable
  <2> QED BY <2>1, <2>2 DEF Accounted
<1>4. ASSUME NEW p \in pending, SkipMatch(p) PROVE Accounted'
  <2>1. /\ clashed' = clashed \cup {p} /\ pending' = pending \ {p} /\ phase = "grouping"
        /\ UNCHANGED <<scan, phase, intact, groups, tier, lost>>
    BY <1>4 DEF SkipMatch, inputVars
  <2>2. Found' = Found /\ \A q : (Touched(q) <=> Touched(q)') /\ (Kept(q) <=> Kept(q)')
    BY <2>1, FoundIsFixed DEF Touched, Kept, Extra
  <2> QED BY <2>1, <2>2 DEF Accounted
<1>5. ASSUME NEW p \in pending, TakeMatch(p) PROVE Accounted'
  <2>1. /\ pending' = pending \ {p} /\ phase = "grouping"
        /\ Put(Target(p), AddMatch(GroupAt(Target(p)), p))
        /\ UNCHANGED <<scan, phase, intact, tier, lost, clashed>>
    BY <1>5 DEF TakeMatch, inputVars
  <2>2. p \in Pair /\ Sound(GroupAt(Target(p)))
    BY FoundArePairs, TargetIsHere, GroupAtSound DEF IInv, TypeOK
  <2>3. AddMatch(GroupAt(Target(p)), p) \in GroupRecord
    BY <2>2, AddMatchGrows DEF Grows, Sound
  <2>4. /\ \A q : (Touched(q) => Touched(q)') /\ (Kept(q) => Kept(q)')
        /\ Kept(p)'
    BY <2>1, <2>2, <2>3, NothingLeaves, GrowthKeeps
  <2>5. Found' = Found
    BY <2>1, FoundIsFixed
  <2> QED BY <2>1, <2>4, <2>5 DEF Accounted
<1>6. ASSUME NEW p \in pending, Overflow(p) PROVE Accounted'
  <2>1. /\ pending' = {} /\ lost' = lost \cup pending /\ phase = "grouping"
        /\ UNCHANGED <<scan, phase, intact, tier, clashed>>
    BY <1>6 DEF Overflow, inputVars
  <2>2. \A q : (Touched(q) => Touched(q)') /\ (Kept(q) => Kept(q)')
    <3>1. CASE UNCHANGED groups
      BY <2>1, <3>1 DEF Touched, Kept, Extra
    <3>2. CASE \E g \in Interrupted(GroupAt(Target(p)), p) : Put(Target(p), g)
      <4>1. PICK g \in Interrupted(GroupAt(Target(p)), p) : Put(Target(p), g)
        BY <3>2
      <4>2. p \in Pair /\ Sound(GroupAt(Target(p)))
        BY FoundArePairs, TargetIsHere, GroupAtSound DEF IInv, TypeOK
      <4>3. g \in GroupRecord
        BY <4>1, <4>2, InterruptedGrows DEF Grows, Sound
      <4> QED BY <2>1, <4>1, <4>2, <4>3, NothingLeaves, GrowthKeeps
    <3> QED BY <1>6, <3>1, <3>2 DEF Overflow
  <2>3. Found' = Found
    BY <2>1, FoundIsFixed
  <2> QED BY <2>1, <2>2, <2>3 DEF Accounted
<1>7. CASE EndTier
  <2>1. /\ phase = "grouping" /\ phase' \in {"grouping", "done"}
        /\ pending = {} /\ pending' = Orphans
        /\ UNCHANGED <<scan, intact, lost, clashed>>
    BY <1>7 DEF EndTier, inputVars
  <2>2. Len(groups) \in Nat /\ DOMAIN groups = 1..Len(groups) /\ tier \in 1..(Len(groups) + 1)
    BY LenProperties DEF IInv, TypeOK
  <2>3. groups' = [i \in 1..Len(groups) |-> IF i \in Extra THEN Discard(groups[i]) ELSE groups[i]]
    BY <1>7, <2>2 DEF EndTier
  <2>4. 1..Len(groups') = 1..Len(groups)
    BY <1>7, <2>3, EndTierKeeps, LenProperties DEF IInv, TypeOK
  <2>5. \A q : Touched(q) => Touched(q)'
    BY <2>3, <2>4 DEF Touched, Discard
  <2>6. ASSUME NEW q \in Pair, Kept(q) PROVE q \in Orphans \/ Touched(q)
    <3>1. PICK i \in Extra : q \in groups[i].matches
      BY <2>6 DEF Kept
    <3>2. Extra \subseteq 1..Len(groups)
      BY <2>2 DEF Extra
    <3>3. CASE q \subseteq groups[i].members
      <4>1. q # {}
        BY DEF Pair
      <4> QED BY <3>1, <3>2, <3>3, <4>1 DEF Touched
    <3>4. CASE ~ q \subseteq groups[i].members
      <4>1. q \in Discarded(groups[i])
        BY <3>1, <3>4 DEF Discarded
      <4>2. CASE q \cap Taken = {}
        BY <3>1, <4>1, <4>2 DEF Orphans
      <4>3. CASE q \cap Taken # {}
        BY <3>2, <4>3 DEF Taken, Touched
      <4> QED BY <4>2, <4>3
    <3> QED BY <3>3, <3>4
  <2>7. Found' = Found /\ Found \subseteq Pair
    BY <2>1, FoundIsFixed, FoundArePairs
  <2> QED BY <2>1, <2>5, <2>6, <2>7 DEF Accounted
<1>8. CASE UNCHANGED vars
  <2>1. UNCHANGED <<scan, intact, broken, phase, pending, groups, tier, clashed, lost>>
    BY <1>8 DEF vars, inputVars, tierVars
  <2>2. Found' = Found /\ \A q : (Touched(q) <=> Touched(q)') /\ (Kept(q) <=> Kept(q)')
    BY <2>1, FoundIsFixed DEF Touched, Kept, Extra
  <2> QED BY <2>1, <2>2 DEF Accounted
<1> QED BY <1>1, <1>2, <1>3, <1>4, <1>5, <1>6, <1>7, <1>8 DEF Next

\* A match of two files that no group took was skipped between two groups or lost to memory;
\* every other one went through a loop of its own (extra_groups in get_groups).
THEOREM OrphansMeet == Spec => []OrphansAreRegrouped
<1>1. Init => Accounted
  BY DEF Init, Accounted
<1>2. IInv /\ Accounted => OrphansAreRegrouped
  <2> SUFFICES ASSUME IInv, Accounted, phase = "done", NEW p \in Found \ (clashed \cup lost)
               PROVE  \/ p \cap UNION {groups[i].members : i \in DOMAIN groups} # {}
                      \/ \E c \in intact : p \subseteq c
    BY DEF OrphansAreRegrouped
  <2>1. pending = {} /\ DOMAIN groups = 1..Len(groups)
    BY LenProperties DEF IInv, Split, TypeOK
  <2>2. (\E c \in intact : p \subseteq c) \/ Touched(p)
    BY <2>1 DEF Accounted
  <2> QED BY <2>1, <2>2 DEF Touched
<1> QED BY <1>1, <1>2, AccountedKeeps, InvariantHolds, PTL DEF Spec


-----------------------------------------------------------------------------
(* The files of a class that is grouped pair by pair.                      *)

\* None of its pairs is ignored.
Ready(c) == PairsOf(c) \cap scan.ignored = {}

\* Its pairs, in the loop once the filters are through, if none is ignored.
Mates(c) == {p \in Pair : p \subseteq c /\ ~ p \subseteq RefFile}

\* Its deletable files and the first of its reference files.
Eligible(c) == {f \in c : f \in RefFile => \A h \in c \cap RefFile : f <= h}

\* Those that match all the eligible files before them.
Settled(c, done) == {f \in Eligible(c) : \A h \in Eligible(c) : h < f => {h, f} \in done}

\* The members of its group.
Seated(c, done) == IF done = {} THEN {} ELSE Settled(c, done)

\* A set of naturals has a least element.
LEMMA LeastOf ==
  ASSUME NEW S \in SUBSET Nat, S # {}
  PROVE  \E m \in S : \A n \in S : m <= n
<1> DEFINE R == OpToRel(<, Nat)
<1>1. IsWellFoundedOn(R, Nat)
  BY NatLessThanWellFounded
<1>2. \A n, m \in Nat : n < m => <<n, m>> \in R
  BY DEF OpToRel
<1> HIDE DEF R
<1>3. PICK m \in S : \A n \in S : ~ (<<n, m>> \in R)
  BY <1>1, WFMin
<1>4. ASSUME NEW n \in S PROVE m <= n
  <2>1. n \in Nat /\ m \in Nat
    OBVIOUS
  <2>2. ~ n < m
    BY <1>2, <1>3, <2>1
  <2> QED BY <2>1, <2>2
<1> QED BY <1>4

\* Two files of a class make a match unless both are reference files.
LEMMA MatesAre ==
  ASSUME NEW c \in SUBSET File, NEW f \in c, NEW h \in c, f < h
  PROVE  /\ {f, h} \in Pair /\ Lesser({f, h}) = f /\ Greater({f, h}) = h
         /\ {f, h} \in Mates(c) <=> ~ (f \in RefFile /\ h \in RefFile)
<1>1. f \in Nat /\ h \in Nat /\ f \in File /\ h \in File
  BY FileAssumption
<1>2. {f, h} \in Pair
  BY <1>1 DEF Pair
<1>3. /\ Lesser({f, h}) \in {f, h} /\ Greater({f, h}) \in {f, h}
      /\ \A x \in {f, h} : Lesser({f, h}) <= x /\ x <= Greater({f, h})
  <2>1. \E x \in {f, h} : \A y \in {f, h} : x <= y
    BY <1>1
  <2>2. \E x \in {f, h} : \A y \in {f, h} : y <= x
    BY <1>1
  <2> QED BY <2>1, <2>2 DEF Lesser, Greater
<1>4. Lesser({f, h}) = f /\ Greater({f, h}) = h
  BY <1>1, <1>3
<1> QED BY <1>2, <1>4 DEF Mates

\* Of the eligible files at most one is a reference file, and it comes before every file of
\* the class that is not eligible.
LEMMA EligibleAre ==
  ASSUME NEW c \in SUBSET File
  PROVE  /\ Eligible(c) \subseteq c
         /\ \A f, h \in Eligible(c) : f < h => ~ (f \in RefFile /\ h \in RefFile)
         /\ \A f \in c \ Eligible(c) :
              f \in RefFile /\ \E first \in Eligible(c) \cap RefFile : first < f
<1>1. c \subseteq Nat
  BY FileAssumption
<1>2. ASSUME NEW f \in Eligible(c), NEW h \in Eligible(c), f < h, f \in RefFile, h \in RefFile
      PROVE  FALSE
  <2>1. h <= f /\ f \in Nat /\ h \in Nat
    BY <1>1, <1>2 DEF Eligible
  <2> QED BY <1>2, <2>1
<1>3. ASSUME NEW f \in c \ Eligible(c)
      PROVE  f \in RefFile /\ \E first \in Eligible(c) \cap RefFile : first < f
  <2>1. f \in c \cap RefFile
    BY DEF Eligible
  <2>2. PICK first \in c \cap RefFile : \A h \in c \cap RefFile : first <= h
    BY <1>1, <2>1, LeastOf
  <2>3. first \in Eligible(c)
    BY <2>2 DEF Eligible
  <2>4. first <= f /\ first # f /\ first \in Nat /\ f \in Nat
    BY <1>1, <2>1, <2>2, <2>3
  <2> QED BY <2>1, <2>2, <2>3, <2>4
<1>4. Eligible(c) \subseteq c
  BY DEF Eligible
<1> QED BY <1>2, <1>3, <1>4

\* Who joins a group at match p: first the lesser file, if it matches all the
\* members, then the greater one.
Joins(members, p, now, first, new) ==
  /\ \A f : f \in first <=> f \in members \/ (f = Lesser(p) /\ \A m \in members : {f, m} \in now)
  /\ \A f : f \in new <=> f \in first \/ (f = Greater(p) /\ \A m \in first : {f, m} \in now)

\* The pairs of a class come in order: the next one makes a member of the file
\* that then matches all the eligible files before it, and of no other.
LEMMA RowStep ==
  ASSUME NEW c \in SUBSET File, NEW done \in SUBSET Mates(c), NEW p \in Mates(c),
         \A q \in Mates(c) : q \in done <=> q # p /\ ListedBefore(q, p),
         NEW first, NEW new, Joins(Seated(c, done), p, done \cup {p}, first, new)
  PROVE  new = Settled(c, done \cup {p})
<1> DEFINE members == Seated(c, done)
           l == Lesser(p)
           u == Greater(p)
           E == Eligible(c)
           now == done \cup {p}
<1>1. l \in c /\ u \in c /\ l < u /\ p = {l, u} /\ ~ (l \in RefFile /\ u \in RefFile)
  <2>1. p \in Pair /\ p \subseteq c /\ ~ p \subseteq RefFile
    BY DEF Mates
  <2>2. l \in File /\ u \in File /\ l # u /\ p = {l, u}
    BY <2>1, Ends
  <2>3. l <= u
    <3>1. l \in Nat /\ u \in Nat
      BY <2>2, FileAssumption
    <3>2. \E x \in p : \A y \in p : x <= y
      BY <2>2, <3>1
    <3> QED BY <2>2, <3>2 DEF Lesser
  <2>4. l \in c /\ u \in c /\ ~ (l \in RefFile /\ u \in RefFile)
    BY <2>1, <2>2
  <2>5. l \in Nat /\ u \in Nat
    BY <2>2, FileAssumption
  <2> HIDE DEF l, u
  <2>6. l < u
    BY <2>2, <2>3, <2>5
  <2> QED BY <2>2, <2>4, <2>6
<1>2. c \subseteq Nat
  BY FileAssumption
<1>3. ASSUME NEW a \in c, NEW b \in c, a < b, ~ (a \in RefFile /\ b \in RefFile)
      PROVE  /\ {a, b} \in done <=> a < l \/ (a = l /\ b < u)
             /\ {a, b} \in now <=> a < l \/ (a = l /\ b <= u)
  <2>1. {a, b} \in Mates(c) /\ Lesser({a, b}) = a /\ Greater({a, b}) = b
    BY <1>3, MatesAre
  <2>2. {a, b} = p <=> a = l /\ b = u
    BY <1>1, <2>1
  <2>3. a \in Nat /\ b \in Nat /\ l \in Nat /\ u \in Nat
    BY <1>1, <1>2
  <2> HIDE DEF l, u
  <2>4. ListedBefore({a, b}, p) <=> a < l \/ (a = l /\ b <= u)
    BY <2>1 DEF ListedBefore, l, u
  <2>5. {a, b} \in done <=> {a, b} # p /\ ListedBefore({a, b}, p)
    BY <2>1
  <2>6. {a, b} \in now <=> {a, b} = p \/ {a, b} \in done
    OBVIOUS
  <2> HIDE DEF now
  <2> QED BY <2>2, <2>3, <2>4, <2>5, <2>6
<1>4. \A a, b \in RefFile : {a, b} \notin now
  <2>1. \A q \in now : ~ q \subseteq RefFile
    BY DEF Mates
  <2>2. \A a, b \in RefFile : {a, b} \subseteq RefFile
    OBVIOUS
  <2> QED BY <2>1, <2>2
<1>5. /\ E \subseteq c
      /\ \A f, h \in E : f < h => ~ (f \in RefFile /\ h \in RefFile)
      /\ \A f \in c \ E : f \in RefFile /\ \E r \in E \cap RefFile : r < f
  BY EligibleAre
<1>6. \A f : f \in Settled(c, done) <=>
               f \in E /\ \A h \in E : h < f => h < l \/ (h = l /\ f < u)
  <2>1. ASSUME NEW f \in E, NEW h \in E, h < f PROVE {h, f} \in done <=> h < l \/ (h = l /\ f < u)
    BY <1>3, <1>5, <2>1
  <2> QED BY <2>1 DEF Settled
<1>7. \A f : f \in Settled(c, now) <=>
               f \in E /\ \A h \in E : h < f => h < l \/ (h = l /\ f <= u)
  <2>1. ASSUME NEW f \in E, NEW h \in E, h < f PROVE {h, f} \in now <=> h < l \/ (h = l /\ f <= u)
    BY <1>3, <1>5, <2>1
  <2> QED BY <2>1 DEF Settled
<1>8. /\ \A f : f \in first <=> f \in members \/ (f = l /\ \A m \in members : {l, m} \in now)
      /\ \A f : f \in new <=> f \in first \/ (f = u /\ \A m \in first : {u, m} \in now)
  BY DEF Joins
<1>0. members = IF done = {} THEN {} ELSE Settled(c, done)
  BY DEF Seated
<1> HIDE DEF members, l, u, E, now
\* What any eligible file before p's tells of p.
<1>9. l \in Nat /\ u \in Nat /\ E \subseteq Nat
  BY <1>1, <1>2, <1>5
<1>10. CASE done = {}
  <2>1. l \in E
    <3>1. SUFFICES ASSUME l \notin E PROVE FALSE
      OBVIOUS
    <3>2. PICK r \in E \cap RefFile : r < l
      BY <1>1, <1>5, <3>1
    <3>3. u \notin RefFile /\ r \in c /\ r < u
      BY <1>1, <1>2, <1>5, <3>1, <3>2
    <3> QED BY <1>1, <1>3, <1>10, <3>2, <3>3
  <2>2. u \in E
    <3>1. SUFFICES ASSUME u \notin E PROVE FALSE
      OBVIOUS
    <3>2. PICK r \in E \cap RefFile : r < u
      BY <1>1, <1>5, <3>1
    <3>3. l \notin RefFile /\ r \in c /\ r # l
      BY <1>1, <1>5, <3>1, <3>2
    <3>4. CASE r < l
      BY <1>1, <1>3, <1>10, <3>3, <3>4
    <3>5. CASE l < r
      BY <1>1, <1>3, <1>10, <3>2, <3>3, <3>5
    <3> QED BY <1>2, <1>9, <3>3, <3>4, <3>5
  <2>3. \A h \in E : ~ h < l
    BY <1>1, <1>3, <1>5, <1>10, <2>1
  <2>4. \A h \in E : h < u => h = l
    <3>1. ASSUME NEW h \in E, h < u, l < h PROVE FALSE
      BY <1>1, <1>3, <1>5, <1>10, <2>1, <3>1
    <3> QED BY <1>9, <2>3, <3>1
  <2>5. \A f : f \in new <=> f = l \/ f = u
    <3>1. \A f : f \in first <=> f = l
      BY <1>0, <1>8, <1>10
    <3>2. {u, l} \in now
      BY <1>1 DEF now
    <3> QED BY <1>8, <3>1, <3>2
  <2>6. \A f \in E : f \in Settled(c, now) <=> f = l \/ f = u
    <3>1. l \in Settled(c, now)
      BY <1>7, <2>1, <2>3
    <3>2. u \in Settled(c, now)
      BY <1>7, <1>9, <2>2, <2>4
    <3>3. ASSUME NEW f \in E, f \in Settled(c, now), f # l PROVE f = u
      <4>1. l < f /\ f <= u
        BY <1>7, <1>9, <2>1, <2>3, <3>3
      <4>2. ~ f < u
        BY <2>4, <3>3
      <4> QED BY <1>9, <4>1, <4>2
    <3> QED BY <3>1, <3>2, <3>3
  <2>7. \A f : f \in new <=> f \in Settled(c, now)
    BY <1>7, <2>1, <2>2, <2>5, <2>6
  <2> QED BY <2>7 DEF now
<1>11. CASE done # {}
  <2>1. \A f : f \in members <=> f \in E /\ \A h \in E : h < f => h < l \/ (h = l /\ f < u)
    BY <1>0, <1>6, <1>11
  \* The first reference file bars l if it is another.
  <2>2. \A f : f \in first <=> f \in members
    <3>1. CASE l \in E
      <4>1. l \in members
        BY <2>1, <3>1
      <4> QED BY <1>8, <4>1
    <3>2. CASE l \notin E
      <4>1. PICK r \in E \cap RefFile : r < l
        BY <1>1, <1>5, <3>2
      <4>2. r \in members
        <5>1. \A h \in E : h < r => h < l
          BY <1>9, <4>1
        <5> QED BY <2>1, <4>1, <5>1
      <4>3. {l, r} \notin now
        BY <1>1, <1>4, <1>5, <3>2, <4>1
      <4> QED BY <1>8, <4>2, <4>3
    <3> QED BY <3>1, <3>2
  \* Files between l and u bar u.
  <2>3. ASSUME NEW h \in E, l < h, h < u, \A m \in members : {u, m} \in now PROVE FALSE
    <3> DEFINE between == {x \in E : l < x /\ x < u}
    <3>1. between \subseteq Nat /\ h \in between
      BY <1>9, <2>3
    <3>2. PICK m \in between : \A x \in between : m <= x
      <4>1. between \in SUBSET Nat /\ between # {}
        BY <3>1
      <4> HIDE DEF between
      <4> QED BY <4>1, LeastOf
    <3>3. m \in E /\ l < m /\ m < u /\ m \in Nat
      BY <1>9, <3>2
    <3>4. \A x \in E : x < m => x <= l
      <4>1. ASSUME NEW x \in E, x < m, ~ x <= l PROVE FALSE
        <5>1. x \in Nat /\ l < x /\ x < u
          BY <1>9, <3>3, <4>1
        <5>2. x \in between
          BY <5>1
        <5>3. m <= x
          BY <3>2, <5>2
        <5> QED BY <3>3, <4>1, <5>1, <5>3
      <4> QED BY <4>1
    <3>5. m \in members
      BY <1>9, <2>1, <3>3, <3>4
    <3>6. {m, u} = {u, m}
      OBVIOUS
    <3>7. {m, u} \in now
      BY <2>3, <3>5, <3>6
    <3>8. m \in c /\ ~ (m \in RefFile /\ u \in RefFile)
      BY <1>4, <1>5, <3>3, <3>7
    <3>9. m < l \/ (m = l /\ u <= u)
      BY <1>1, <1>3, <3>3, <3>7, <3>8
    <3> QED BY <1>9, <3>3, <3>9
  <2>4. ASSUME NEW f, f \in new PROVE f \in Settled(c, now)
    <3>1. CASE f \in members
      <4>1. f \in E /\ \A h \in E : h < f => h < l \/ (h = l /\ f < u)
        BY <2>1, <3>1
      <4>2. f \in Nat /\ (f < u => f <= u)
        BY <1>9, <4>1
      <4> QED BY <1>7, <4>1, <4>2
    <3>2. CASE f = u /\ \A m \in members : {u, m} \in now
      <4>1. \A h \in E : h < u => h <= l
        BY <1>9, <2>3, <3>2
      <4>2. u \in E
        <5>1. SUFFICES ASSUME u \notin E PROVE FALSE
          OBVIOUS
        <5>2. PICK r \in E \cap RefFile : r < u
          BY <1>1, <1>5, <5>1
        <5>3. r < l
          BY <1>1, <1>5, <1>9, <4>1, <5>1, <5>2
        <5>4. r \in members
          BY <1>9, <2>1, <5>2, <5>3
        <5>5. {u, r} \in now /\ u \in RefFile
          BY <1>1, <1>5, <3>2, <5>1, <5>4
        <5> QED BY <1>4, <5>2, <5>5
      <4> QED BY <1>7, <1>9, <3>2, <4>1, <4>2
    <3> QED BY <1>8, <2>2, <2>4, <3>1, <3>2
  <2>5. ASSUME NEW f, f \in Settled(c, now) PROVE f \in new
    <3>1. CASE f \in members
      BY <1>8, <2>2, <3>1
    <3>2. CASE f \notin members
      <4>1. f \in E /\ \A h \in E : h < f => h < l \/ (h = l /\ f <= u)
        BY <1>7, <2>5
      <4>2. l \in E /\ f = u
        BY <1>9, <2>1, <3>2, <4>1
      <4>3. ASSUME NEW m \in members PROVE {u, m} \in now
        <5>1. m \in E /\ m \in c /\ m # u /\ {u, m} = {m, u}
          BY <1>5, <2>1, <3>2, <4>2
        <5>2. CASE m < u
          <6>1. m < l \/ (m = l /\ u <= u)
            BY <1>9, <4>1, <4>2, <5>1, <5>2
          <6> QED BY <1>1, <1>3, <1>5, <4>1, <4>2, <5>1, <5>2, <6>1
        <5>3. CASE u < m
          <6>1. u < l \/ (u = l /\ m < u)
            BY <2>1, <4>1, <4>2, <5>3
          <6> QED BY <1>1, <1>9, <6>1
        <5> QED BY <1>9, <5>1, <5>2, <5>3
      <4> QED BY <1>8, <2>2, <4>2, <4>3
    <3> QED BY <3>1, <3>2
  <2> QED BY <2>4, <2>5 DEF now
<1> QED BY <1>10, <1>11


-----------------------------------------------------------------------------
(* What a group with all its candidates does with a match.                 *)

\* The candidate's list of a file that is no member is what it matches.
CompleteAt(g, f) ==
  f \notin g.members => \A h \in File : h \in g.candidates[f] <=> {f, h} \in g.matches

\* Such a list but for one file.
LacksOnly(g, f, other) ==
  f \notin g.members =>
    \A h \in File : h \in g.candidates[f] \cup {other} <=> {f, h} \in g.matches
Complete(g) == \A f \in File : CompleteAt(g, f)

\* A candidate joins if it matches all the members, and completes its list.
LEMMA CandidateJoins ==
  ASSUME NEW g, Sound(g), NEW item \in File, NEW other \in File,
         LacksOnly(g, item, other)
  PROVE  /\ AddCandidate(g, item, other).matches = g.matches
         /\ CompleteAt(AddCandidate(g, item, other), item)
         /\ \A f \in File :
              f # item => AddCandidate(g, item, other).candidates[f] = g.candidates[f]
         /\ \A f : f \in AddCandidate(g, item, other).members <=>
              f \in g.members \/ (f = item /\ \A m \in g.members : {f, m} \in g.matches)
<1> DEFINE known == g.candidates[item] \cup {other}
           new == AddCandidate(g, item, other)
<1>1. g \in GroupRecord /\ g.members \subseteq File /\ g.candidates \in [File -> SUBSET File]
  BY DEF Sound, GroupRecord
<1>2. CASE item \in g.members
  BY <1>2 DEF AddCandidate, CompleteAt
<1>3. CASE item \notin g.members
  <2>1. new = [members    |-> IF g.members \subseteq known
                              THEN g.members \cup {item} ELSE g.members,
               matches    |-> g.matches,
               candidates |-> [g.candidates EXCEPT ![item] = known]]
    BY <1>1, <1>3 DEF AddCandidate, GroupRecord
  <2>2. known \subseteq File /\ \A h \in File : h \in known <=> {item, h} \in g.matches
    BY <1>1, <1>3 DEF LacksOnly
  <2>3. g.members \subseteq known <=> \A m \in g.members : {item, m} \in g.matches
    BY <1>1, <2>2
  <2> HIDE DEF known
  <2>4. /\ new.matches = g.matches
        /\ new.members = IF g.members \subseteq known THEN g.members \cup {item} ELSE g.members
        /\ new.candidates = [g.candidates EXCEPT ![item] = known]
    BY <2>1
  <2>5. /\ new.candidates[item] = known
        /\ \A f \in File : f # item => new.candidates[f] = g.candidates[f]
    BY <1>1, <2>4
  <2>6. CompleteAt(new, item)
    BY <2>2, <2>4, <2>5 DEF CompleteAt
  <2> QED BY <2>3, <2>4, <2>5, <2>6
<1> QED BY <1>2, <1>3

\* So do the two files of a match, one after the other.
LEMMA MatchJoins ==
  ASSUME NEW g, Sound(g), Complete(g), NEW p \in Pair, p \notin g.matches
  PROVE  /\ AddMatch(g, p).matches = g.matches \cup {p}
         /\ Complete(AddMatch(g, p))
         /\ \E first : Joins(g.members, p, g.matches \cup {p}, first, AddMatch(g, p).members)
<1> DEFINE l == Lesser(p)
           u == Greater(p)
           r == Recorded(g, p)
           one == FirstAdded(g, p)
           two == AddMatch(g, p)
           now == g.matches \cup {p}
<1>1. l \in File /\ u \in File /\ l # u /\ p = {l, u}
  BY Ends
<1>2. Sound(r) /\ r.matches = now /\ r.members = g.members /\ r.candidates = g.candidates
  BY RecordedSound DEF Recorded, Sound, GroupRecord
<1>3. one = AddCandidate(r, l, u) /\ two = AddCandidate(one, u, l)
  BY DEF FirstAdded, AddMatch
<1>4. Sound(one)
  BY FirstAddedSound
<1>5. \A f \in File : f \notin g.members =>
        \A h \in File : h \in g.candidates[f] <=> {f, h} \in g.matches
  BY DEF Complete, CompleteAt
<1> HIDE DEF l, u, r, one, two
<1>6. \A f, h \in File :
        {f, h} \in now <=> {f, h} \in g.matches \/ (f = l /\ h = u) \/ (f = u /\ h = l)
  BY <1>1
<1> HIDE DEF now
<1>7. LacksOnly(r, l, u)
  BY <1>1, <1>2, <1>5, <1>6 DEF LacksOnly
<1>8. one.candidates[u] = g.candidates[u] /\ g.members \subseteq one.members /\ one.matches = now
      => LacksOnly(one, u, l)
  BY <1>1, <1>5, <1>6 DEF LacksOnly
<1>9. ASSUME NEW f \in File \ p, f \notin g.members
      PROVE  \A h \in File : h \in g.candidates[f] <=> {f, h} \in now
  BY <1>1, <1>5, <1>6, <1>9
<1>10. /\ one.matches = now /\ CompleteAt(one, l)
       /\ \A f \in File : f # l => one.candidates[f] = g.candidates[f]
       /\ \A f : f \in one.members <=>
            f \in g.members \/ (f = l /\ \A m \in g.members : {f, m} \in now)
  <2>1. /\ one.matches = r.matches /\ CompleteAt(one, l)
        /\ \A f \in File : f # l => one.candidates[f] = r.candidates[f]
        /\ \A f : f \in one.members <=>
             f \in r.members \/ (f = l /\ \A m \in r.members : {f, m} \in r.matches)
    BY <1>1, <1>2, <1>3, <1>7, CandidateJoins
  <2> QED BY <1>2, <2>1
<1>11. /\ two.matches = now /\ CompleteAt(two, u)
       /\ \A f \in File : f # u => two.candidates[f] = one.candidates[f]
       /\ \A f : f \in two.members <=>
            f \in one.members \/ (f = u /\ \A m \in one.members : {f, m} \in now)
  <2>1. LacksOnly(one, u, l)
    BY <1>1, <1>8, <1>10
  <2>2. u \in File /\ l \in File /\ two = AddCandidate(one, u, l)
    BY <1>1, <1>3
  <2>3. two.matches = one.matches /\ CompleteAt(two, u)
    BY <1>4, <2>1, <2>2, CandidateJoins
  <2>4. \A f \in File : f # u => two.candidates[f] = one.candidates[f]
    BY <1>4, <2>1, <2>2, CandidateJoins
  <2>5. \A f : f \in two.members <=>
          f \in one.members \/ (f = u /\ \A m \in one.members : {f, m} \in one.matches)
    BY <1>4, <2>1, <2>2, CandidateJoins
  <2> QED BY <1>10, <2>3, <2>4, <2>5
<1>12. Complete(two)
  <2> SUFFICES ASSUME NEW f \in File, f \notin two.members
               PROVE  \A h \in File : h \in two.candidates[f] <=> {f, h} \in two.matches
    BY DEF Complete, CompleteAt
  <2>1. f \notin one.members /\ f \notin g.members
    BY <1>10, <1>11
  <2>2. CASE f = u
    BY <1>11, <2>2 DEF CompleteAt
  <2>3. CASE f = l
    BY <1>1, <1>10, <1>11, <2>1, <2>3 DEF CompleteAt
  <2>4. CASE f \notin p
    BY <1>1, <1>9, <1>10, <1>11, <2>1, <2>4
  <2> QED BY <1>1, <2>2, <2>3, <2>4
<1>13. Joins(g.members, p, now, one.members, two.members)
  BY <1>10, <1>11 DEF Joins, l, u
<1> QED BY <1>11, <1>12, <1>13 DEF now, two

-----------------------------------------------------------------------------
(* Where the files of a class are while its pairs are grouped.             *)

Done(c) == Mates(c) \ pending

RowsOf(c) ==
  /\ \A q \in Done(c), r \in Mates(c) \cap pending : ListedBefore(q, r)
  /\ Done(c) = {} => \A f \in c : dupe2group[f] = 0
  /\ Done(c) # {} => \E i \in 1..Len(groups) :
       /\ groups[i].matches = Done(c)
       /\ groups[i].members = Settled(c, Done(c))
       /\ Complete(groups[i])
       /\ \A f \in File : dupe2group[f] = i <=> \E q \in Done(c) : f \in q
       /\ \A f \in c : dupe2group[f] \in {0, i}

\* The group of a class once the loop is through.
Together(c) ==
  \E i \in 1..Len(groups) : (phase = "done" \/ i < tier) /\ groups[i].members = Eligible(c)

Meeting == lost = {} =>
  /\ phase # "matching" =>
       \A c \in scan.classes : Mates(c) # {} /\ Ready(c) => c \in intact \cup broken
  /\ phase = "grouping" /\ tier = 1 /\ scan.classes # {} =>
       pending \subseteq Expandable /\ \A c \in broken : Ready(c) => RowsOf(c)
  /\ phase = "done" \/ tier > 1 =>
       \A c \in broken : Ready(c) /\ Mates(c) # {} => Together(c)

\* A match of a class that is not its first has a file of an earlier one.
LEMMA EarlierShares ==
  ASSUME NEW c \in SUBSET File, NEW done \in SUBSET Mates(c), NEW p \in Mates(c),
         \A q \in Mates(c) : q \in done <=> q # p /\ ListedBefore(q, p), done # {}
  PROVE  \E q \in done : q \cap p # {}
<1> DEFINE l == Lesser(p)
           u == Greater(p)
<1>1. p \in Pair /\ p \subseteq c /\ ~ p \subseteq RefFile
  BY DEF Mates
<1>2. l \in File /\ u \in File /\ l # u /\ p = {l, u} /\ l \in Nat /\ u \in Nat
  BY <1>1, Ends, FileAssumption
<1>3. l < u
  <2>1. \E x \in p : \A y \in p : x <= y
    BY <1>2
  <2>2. l <= u
    BY <1>2, <2>1 DEF Lesser
  <2> QED BY <1>2, <2>2
<1>4. PICK q \in done : TRUE
  OBVIOUS
<1>5. q \in Mates(c) /\ q \in Pair /\ q \subseteq c
  BY DEF Mates
<1>6. ListedBefore(q, p)
  BY <1>5
<1> DEFINE a == Lesser(q)
<1>7. a \in q /\ a \in Nat /\ a \in c
  BY <1>5, Ends, FileAssumption
<1>8. a < l \/ a = l
  BY <1>6 DEF ListedBefore
<1> HIDE DEF l, u, a
<1>9. CASE a = l
  BY <1>2, <1>7, <1>9
<1>10. CASE a < l
  <2>1. ASSUME NEW b \in p, ~ (a \in RefFile /\ b \in RefFile) PROVE {a, b} \in done
    <3>1. a < b /\ b \in c
      BY <1>1, <1>2, <1>3, <1>7, <1>10
    <3>2. {a, b} \in Mates(c) /\ Lesser({a, b}) = a
      BY <1>7, <2>1, <3>1, MatesAre
    <3>3. {a, b} # p
      BY <1>2, <1>3, <1>7, <1>10
    <3>4. ListedBefore({a, b}, p)
      BY <1>10, <3>2 DEF ListedBefore, l
    <3> QED BY <3>2, <3>3, <3>4
  <2>2. \E b \in p : ~ (a \in RefFile /\ b \in RefFile)
    BY <1>1
  <2> QED BY <2>1, <2>2
<1> QED BY <1>8, <1>9, <1>10

\* The pairs of a class without ignored pairs are all found.
LEMMA MatesAreFound ==
  ASSUME IInv, NEW c \in scan.classes, Ready(c)
  PROVE  Mates(c) = {p \in Found : p \subseteq c}
<1>1. DOMAIN scan.percentage = {} \/ scan.classes = {}
  BY ScanAssumption DEF IInv, TypeOK
<1>2. \A p \in Pair : p \subseteq c => p \notin scan.ignored
  BY DEF Ready, PairsOf
<1> QED BY <1>2 DEF Mates, Found, Usable

\* The next match of all is the next of its class.
LEMMA ForemostOfClass ==
  ASSUME IInv, NEW c \in broken, RowsOf(c), NEW p \in pending, p \in Mates(c), tier = 1,
         Foremost(p)
  PROVE  \A q \in Mates(c) : q \in Done(c) <=> q # p /\ ListedBefore(q, p)
<1> SUFFICES ASSUME NEW q \in Mates(c) PROVE q \in Done(c) <=> q # p /\ ListedBefore(q, p)
  OBVIOUS
<1>1. CASE q \in pending
  <2>1. ListedBefore(p, q)
    BY <1>1 DEF Foremost, IInv, TypeOK
  <2>2. p \in Pair /\ q \in Pair
    BY DEF Mates
  <2>3. /\ q = {Lesser(q), Greater(q)} /\ Lesser(q) \in Nat /\ Greater(q) \in Nat
        /\ p = {Lesser(p), Greater(p)} /\ Lesser(p) \in Nat /\ Greater(p) \in Nat
    BY <2>2, Ends, FileAssumption
  <2>4. Lesser(q) = Lesser(p) /\ Greater(q) = Greater(p) => q = p
    BY <2>3
  <2>5. q # p => ~ ListedBefore(q, p)
    BY <2>1, <2>3, <2>4 DEF ListedBefore
  <2> QED BY <1>1, <2>5 DEF Done
<1>2. CASE q \notin pending
  BY <1>2 DEF Done, RowsOf
<1> QED BY <1>1, <1>2

\* Its target is the group of its class.
LEMMA RowTarget ==
  ASSUME IInv, NEW c \in broken, RowsOf(c), NEW p \in pending, p \in Mates(c), tier = 1,
         Foremost(p)
  PROVE  /\ ~ Clash(p) /\ Target(p) \in 1..(Len(groups) + 1)
         /\ Sound(GroupAt(Target(p))) /\ Complete(GroupAt(Target(p)))
         /\ GroupAt(Target(p)).matches = Done(c)
         /\ GroupAt(Target(p)).members = Seated(c, Done(c))
         /\ \A f \in File : dupe2group[f] = Target(p) <=> \E q \in Done(c) : f \in q
         /\ \A f \in c : dupe2group[f] \in {0, Target(p)}
<1> DEFINE l == Lesser(p)
           u == Greater(p)
           t == Target(p)
<1>1. c \in SUBSET File
  BY ScanAssumption DEF IInv, TypeOK
<1>2. p \in Pair /\ p \subseteq c /\ p \notin Done(c) /\ Done(c) \in SUBSET Mates(c)
  BY DEF Mates, Done
<1>3. l \in File /\ u \in File /\ l # u /\ p = {l, u}
  BY <1>2, Ends
<1>4. Len(groups) \in Nat /\ DOMAIN groups = 1..Len(groups)
      /\ dupe2group \in [File -> 0..Len(groups)]
  BY LenProperties DEF IInv, TypeOK
<1>5. t \in 1..(Len(groups) + 1) /\ Sound(GroupAt(t))
  BY <1>2, TargetIsHere, GroupAtSound DEF IInv
<1>6. t = IF dupe2group[l] # 0 THEN dupe2group[l]
          ELSE IF dupe2group[u] # 0 THEN dupe2group[u] ELSE Len(groups) + 1
  BY DEF Target
<1>7. Clash(p) <=> dupe2group[l] # 0 /\ dupe2group[u] # 0 /\ dupe2group[l] # dupe2group[u]
  BY DEF Clash
<1> HIDE DEF l, u, t
<1>8. CASE Done(c) = {}
  <2>1. \A f \in c : dupe2group[f] = 0
    BY <1>8 DEF RowsOf
  <2>2. ~ Clash(p) /\ t = Len(groups) + 1
    BY <1>2, <1>3, <1>6, <1>7, <2>1
  <2>3. GroupAt(t) = NewGroup
    BY <1>4, <2>2 DEF GroupAt
  <2>4. NewGroup.matches = {} /\ NewGroup.members = {} /\ Complete(NewGroup)
    BY DEF NewGroup, Complete, CompleteAt
  <2>5. \A f \in File : dupe2group[f] # t
    BY <1>4, <2>2
  <2> QED BY <1>5, <1>8, <2>1, <2>2, <2>3, <2>4, <2>5 DEF t, Seated
<1>9. CASE Done(c) # {}
  <2>1. PICK i \in 1..Len(groups) :
          /\ groups[i].matches = Done(c)
          /\ groups[i].members = Settled(c, Done(c))
          /\ Complete(groups[i])
          /\ \A f \in File : dupe2group[f] = i <=> \E q \in Done(c) : f \in q
          /\ \A f \in c : dupe2group[f] \in {0, i}
    BY <1>9 DEF RowsOf
  <2>2. \E q \in Done(c) : q \cap p # {}
    BY <1>1, <1>2, <1>9, ForemostOfClass, EarlierShares
  <2>3. \E f \in p : dupe2group[f] = i
    BY <1>1, <1>2, <2>1, <2>2
  <2>4. i # 0
    BY <1>4
  <2>5. ~ Clash(p) /\ t = i
    BY <1>2, <1>3, <1>6, <1>7, <2>1, <2>3, <2>4
  <2>6. GroupAt(t) = groups[i]
    BY <1>4, <2>5 DEF GroupAt
  <2> QED BY <1>5, <1>9, <2>1, <2>5, <2>6 DEF t, Seated
<1> QED BY <1>8, <1>9

\* A match of a class goes to the class's group, and makes the members it should.
LEMMA RowTaken ==
  ASSUME IInv, NEW c \in broken, RowsOf(c), NEW p \in pending, p \in Mates(c), tier = 1,
         TakeMatch(p)
  PROVE  RowsOf(c)'
<1> DEFINE t == Target(p)
           g == GroupAt(t)
           new == AddMatch(g, p)
           done == Done(c)
<1>1. c \in SUBSET File
  BY ScanAssumption DEF IInv, TypeOK
<1>2. p \in Pair /\ p \subseteq c /\ p \notin done /\ done \in SUBSET Mates(c)
  BY DEF Mates, Done
<1>3. /\ Foremost(p) /\ pending' = pending \ {p} /\ Put(t, new)
      /\ dupe2group' = [f \in File |-> IF f \in p THEN t ELSE dupe2group[f]]
  BY DEF TakeMatch
<1>4. \A q \in Mates(c) : q \in done <=> q # p /\ ListedBefore(q, p)
  BY <1>3, ForemostOfClass
<1>5. /\ t \in 1..(Len(groups) + 1)
      /\ Sound(g) /\ Complete(g) /\ g.matches = done
      /\ g.members = Seated(c, done)
      /\ \A f \in File : dupe2group[f] = t <=> \E q \in done : f \in q
      /\ \A f \in c : dupe2group[f] \in {0, t}
  BY <1>3, RowTarget
<1>6. Mates(c)' = Mates(c) /\ Done(c)' = done \cup {p}
  BY <1>3 DEF Mates, Done
<1>7. new \in GroupRecord
  BY <1>2, <1>5, AddMatchGrows DEF Grows, Sound
<1>8. t \in 1..Len(groups') /\ groups'[t] = new
  BY <1>3, <1>5, <1>7, PutAt DEF IInv, TypeOK
<1> HIDE DEF t, g, done
<1>9. new.matches = done \cup {p} /\ Complete(new) /\ new.members = Settled(c, done \cup {p})
  <2>1. p \notin g.matches
    BY <1>2, <1>5
  <2>2. PICK first : Joins(g.members, p, done \cup {p}, first, new.members)
    BY <1>2, <1>5, <2>1, MatchJoins
  <2>3. new.matches = done \cup {p} /\ Complete(new)
    BY <1>2, <1>5, <2>1, MatchJoins
  <2>4. new.members = Settled(c, done \cup {p})
    BY <1>1, <1>2, <1>4, <1>5, <2>2, RowStep
  <2> QED BY <2>3, <2>4
<1> HIDE DEF new
<1>10. \A f \in File : dupe2group'[f] = t <=> \E q \in done \cup {p} : f \in q
  BY <1>3, <1>5
<1>11. \A f \in c : dupe2group'[f] \in {0, t}
  BY <1>1, <1>3, <1>5
<1>12. ASSUME NEW q \in done \cup {p}, NEW r \in Mates(c), r \in pending' PROVE ListedBefore(q, r)
  <2>1. r \in pending /\ r # p
    BY <1>3, <1>12
  <2>2. CASE q \in done
    BY <2>1, <2>2 DEF RowsOf, done
  <2>3. CASE q = p
    BY <1>3, <2>1, <2>3 DEF Foremost, IInv, TypeOK
  <2> QED BY <2>2, <2>3
<1>13. done \cup {p} # {}
  OBVIOUS
<1> QED BY <1>6, <1>8, <1>9, <1>10, <1>11, <1>12, <1>13 DEF RowsOf


\* A match of another class leaves the class's group alone.
LEMMA OthersStay ==
  ASSUME IInv, NEW c \in broken, RowsOf(c), NEW p \in pending, p \cap c = {}, tier = 1,
         SkipMatch(p) \/ TakeMatch(p)
  PROVE  RowsOf(c)'
<1>1. c \in SUBSET File
  BY ScanAssumption DEF IInv, TypeOK
<1>2. p \in Pair
  BY FoundArePairs DEF IInv, TypeOK
<1>3. pending' = pending \ {p} /\ p \notin Mates(c)
  <2>1. p # {}
    BY <1>2 DEF Pair
  <2> QED BY <2>1 DEF SkipMatch, TakeMatch, Mates
<1>4. /\ Done(c)' = Done(c) /\ Mates(c)' = Mates(c)
      /\ (Mates(c) \cap pending)' = Mates(c) \cap pending
  BY <1>3 DEF Done, Mates
<1>5. CASE SkipMatch(p)
  <2>1. groups' = groups /\ dupe2group' = dupe2group
    BY <1>5 DEF SkipMatch
  <2> QED BY <1>4, <2>1 DEF RowsOf
<1>6. CASE TakeMatch(p)
  <2> DEFINE t == Target(p)
             new == AddMatch(GroupAt(t), p)
  <2>1. /\ Put(t, new)
        /\ dupe2group' = [f \in File |-> IF f \in p THEN t ELSE dupe2group[f]]
    BY <1>6 DEF TakeMatch
  <2>2. t \in 1..(Len(groups) + 1)
    BY <1>2, TargetIsHere DEF IInv
  <2>3. new \in GroupRecord
    BY <1>2, <2>2, GroupAtSound, AddMatchGrows DEF Grows, Sound
  <2>4. /\ Len(groups') \in Nat /\ Len(groups) <= Len(groups')
        /\ \A j \in 1..Len(groups') : j # t => j \in 1..Len(groups) /\ groups'[j] = groups[j]
    BY <2>1, <2>2, <2>3, PutAt DEF IInv, TypeOK
  <2>5. t = Len(groups) + 1 \/ \E f \in p : dupe2group[f] = t
    BY <1>2, Ends DEF Target
  <2>6. Len(groups) \in Nat
    BY LenProperties DEF IInv, TypeOK
  <2> HIDE DEF t, new
  <2>7. \A f \in c : dupe2group'[f] = dupe2group[f]
    BY <1>1, <2>1
  <2>8. CASE Done(c) = {}
    BY <1>4, <2>7, <2>8 DEF RowsOf
  <2>9. CASE Done(c) # {}
    <3>1. PICK i \in 1..Len(groups) :
            /\ groups[i].matches = Done(c)
            /\ groups[i].members = Settled(c, Done(c))
            /\ Complete(groups[i])
            /\ \A f \in File : dupe2group[f] = i <=> \E q \in Done(c) : f \in q
            /\ \A f \in c : dupe2group[f] \in {0, i}
      BY <2>9 DEF RowsOf
    <3>2. \A q \in Done(c) : q \subseteq c
      BY DEF Done, Mates
    <3>3. p \subseteq File
      BY <1>2 DEF Pair
    <3>4. \A f \in p : dupe2group[f] # i
      BY <3>1, <3>2, <3>3
    <3>5. i # t
      BY <2>5, <2>6, <3>4
    <3>6. i \in 1..Len(groups') /\ groups'[i] = groups[i]
      BY <2>4, <2>6, <3>5
    <3>7. \A f \in File : dupe2group'[f] = i <=> \E q \in Done(c) : f \in q
      BY <2>1, <3>1, <3>2, <3>5
    <3>8. \A f \in c : dupe2group'[f] \in {0, i}
      BY <2>7, <3>1
    <3>9. \A q \in Done(c), r \in Mates(c) \cap pending : ListedBefore(q, r)
      BY DEF RowsOf
    <3> QED BY <1>4, <2>9, <3>1, <3>6, <3>7, <3>8, <3>9 DEF RowsOf
  <2> QED BY <2>8, <2>9
<1> QED BY <1>5, <1>6

\* A pending match is of a broken class, this one or one apart from it.
LEMMA OneOrApart ==
  ASSUME IInv, NEW c \in broken, Ready(c), NEW p \in Expandable
  PROVE  p \in Mates(c) \/ p \cap c = {}
<1>1. PICK d \in broken : p \in Found /\ p \subseteq d
  BY DEF Expandable
<1>2. c \in scan.classes /\ d \in scan.classes
  BY DEF IInv, TypeOK
<1>3. CASE c = d
  BY <1>1, <1>2, <1>3, MatesAreFound
<1>4. CASE c # d
  <2>1. c \cap d = {}
    BY <1>2, <1>4, ScanAssumption DEF IInv, TypeOK
  <2> QED BY <1>1, <2>1
<1> QED BY <1>3, <1>4

\* With all its pairs, a class settles all its eligible files.
LEMMA AllSettle ==
  ASSUME NEW c \in SUBSET File
  PROVE  Settled(c, Mates(c)) = Eligible(c)
<1>1. ASSUME NEW f \in Eligible(c), NEW h \in Eligible(c), h < f PROVE {h, f} \in Mates(c)
  BY <1>1, EligibleAre, MatesAre
<1> QED BY <1>1 DEF Settled

\* Every step keeps the classes on their way to one group each.
LEMMA MeetingKeeps == IInv /\ Meeting /\ [Next]_vars => Meeting'
<1> SUFFICES ASSUME IInv, Meeting, [Next]_vars, lost' = {} PROVE Meeting'
  BY DEF Meeting
<1>1. scan' = scan
  BY DEF Next, vars, inputVars, ClassifyContents, Expand, ExpandOverflow, MatchWords, SkipMatch,
         TakeMatch, Overflow, EndTier
<1>2. \A c : Mates(c)' = Mates(c) /\ Eligible(c)' = Eligible(c) /\ (Ready(c)' <=> Ready(c))
  BY <1>1 DEF Mates, Eligible, Ready, PairsOf
<1>3. broken \subseteq scan.classes /\ scan.classes \subseteq SUBSET File
  BY ScanAssumption DEF IInv, TypeOK
<1>4. Len(groups) \in Nat /\ DOMAIN groups = 1..Len(groups) /\ tier \in 1..(Len(groups) + 1)
  BY LenProperties DEF IInv, TypeOK
<1>5. CASE ClassifyContents
  <2>1. PICK classes \in SUBSET scan.classes :
          /\ intact' = {c \in classes : IsIntact(c)}
          /\ broken' = {c \in classes : ~ IsIntact(c)}
          /\ lost' = {p \in Found : \A c \in classes : ~ p \subseteq c}
    BY <1>5 DEF ClassifyContents
  <2>2. phase' = "expanding" /\ tier' = 1
    BY <1>5 DEF ClassifyContents, tierVars, IInv, Split
  <2>3. ASSUME NEW c \in scan.classes, Mates(c) # {}, Ready(c) PROVE c \in intact' \cup broken'
    <3>1. PICK p \in Mates(c) : TRUE
      BY <2>3
    <3>2. p \in Found /\ p \subseteq c /\ p # {}
      BY <2>3, MatesAreFound, FoundArePairs DEF Pair
    <3>3. PICK d \in classes : p \subseteq d
      BY <2>1, <3>2
    <3>4. c = d
      BY <3>2, <3>3, ScanAssumption DEF IInv, TypeOK
    <3> QED BY <2>1, <3>3, <3>4
  <2> QED BY <1>1, <1>2, <2>2, <2>3 DEF Meeting
<1>6. CASE Expand
  <2>1. /\ phase = "expanding" /\ phase' = "grouping" /\ pending' = Expandable /\ lost = {}
        /\ UNCHANGED <<intact, broken, groups, tier, dupe2group>>
    BY <1>6 DEF Expand, inputVars, tierVars
  <2>2. tier = 1 /\ Extra = {}
    BY <2>1, EmptySeq DEF IInv, Split, Extra
  <2>3. \A f \in File : dupe2group[f] = 0
    BY <2>2 DEF IInv, Routed
  <2>4. ASSUME NEW c \in broken, Ready(c) PROVE RowsOf(c)'
    <3>1. Mates(c) \subseteq Expandable
      BY <1>3, <2>4, MatesAreFound DEF Expandable
    <3>2. Done(c)' = {}
      BY <1>2, <2>1, <3>1 DEF Done
    <3> QED BY <1>3, <2>1, <2>3, <3>2 DEF RowsOf
  <2>5. Expandable' = Expandable
    BY <1>1, <2>1, FoundIsFixed DEF Expandable
  <2> QED BY <1>1, <1>2, <2>1, <2>2, <2>4, <2>5 DEF Meeting
<1>7. CASE ExpandOverflow
  <2>1. PICK p \in Expandable : lost' = lost \cup {q \in Expandable : ListedBefore(p, q)}
    BY <1>7 DEF ExpandOverflow
  <2>2. p \in Pair
    BY FoundArePairs DEF Expandable
  <2>3. ListedBefore(p, p)
    <3>1. Greater(p) \in Nat
      BY <2>2, Ends, FileAssumption
    <3>2. Greater(p) <= Greater(p)
      BY <3>1
    <3> QED BY <3>2 DEF ListedBefore
  <2> QED BY <2>1, <2>3
<1>8. CASE MatchWords
  <2>1. scan.classes = {} /\ phase' = "grouping" /\ tier' = 1
    BY <1>8 DEF MatchWords, tierVars, IInv, Split
  <2> QED BY <1>1, <2>1 DEF Meeting
<1>9. ASSUME NEW p \in pending, SkipMatch(p) \/ TakeMatch(p) PROVE Meeting'
  <2>1. /\ phase = "grouping" /\ Foremost(p) /\ lost = {} /\ pending' = pending \ {p}
        /\ UNCHANGED <<phase, intact, broken, tier>>
    BY <1>9 DEF SkipMatch, TakeMatch, inputVars
  <2>2. p \in Pair
    BY FoundArePairs DEF IInv, TypeOK
  <2>3. ASSUME tier = 1, scan.classes # {}
        PROVE  pending' \subseteq Expandable' /\ \A c \in broken : Ready(c) => RowsOf(c)'
    <3>1. pending \subseteq Expandable /\ \A c \in broken : Ready(c) => RowsOf(c)
      BY <2>1, <2>3 DEF Meeting
    <3>2. Expandable' = Expandable
      BY <1>1, <2>1, FoundIsFixed DEF Expandable
    <3>3. ASSUME NEW c \in broken, Ready(c) PROVE RowsOf(c)'
      <4>1. CASE p \in Mates(c)
        <5>1. ~ Clash(p)
          BY <2>1, <2>3, <3>1, <3>3, <4>1, RowTarget
        <5>2. TakeMatch(p)
          BY <1>9, <5>1 DEF SkipMatch
        <5> QED BY <2>3, <3>1, <3>3, <4>1, <5>2, RowTaken
      <4>2. CASE p \cap c = {}
        BY <1>9, <2>3, <3>1, <3>3, <4>2, OthersStay
      <4> QED BY <3>1, <3>3, <4>1, <4>2, OneOrApart
    <3> QED BY <2>1, <3>1, <3>2, <3>3
  <2>4. ASSUME tier > 1, NEW c, Together(c) PROVE Together(c)'
    <3>1. PICK i \in 1..Len(groups) : i < tier /\ groups[i].members = Eligible(c)
      BY <2>1, <2>4 DEF Together
    <3>2. i \in 1..Len(groups') /\ groups'[i] = groups[i]
      <4>1. CASE SkipMatch(p)
        BY <4>1 DEF SkipMatch
      <4>2. CASE TakeMatch(p)
        <5> DEFINE t == Target(p)
                   new == AddMatch(GroupAt(t), p)
        <5>1. t \in 1..(Len(groups) + 1) /\ t >= tier
          BY <2>2, TargetIsHere DEF IInv
        <5>2. new \in GroupRecord
          BY <2>2, <5>1, GroupAtSound, AddMatchGrows DEF Grows, Sound
        <5>3. Put(t, new)
          BY <4>2 DEF TakeMatch
        <5>4. /\ Len(groups') \in Nat /\ Len(groups) <= Len(groups')
              /\ \A j \in 1..Len(groups') :
                   j # t => j \in 1..Len(groups) /\ groups'[j] = groups[j]
          BY <5>1, <5>2, <5>3, PutAt DEF IInv, TypeOK
        <5> QED BY <1>4, <3>1, <5>1, <5>4
      <4> QED BY <1>9, <4>1, <4>2
    <3> QED BY <1>2, <2>1, <3>1, <3>2 DEF Together
  <2>5. phase # "done" /\ phase # "matching" /\ (tier = 1 \/ tier > 1)
    BY <1>4, <2>1
  <2> QED BY <1>1, <1>2, <2>1, <2>3, <2>4, <2>5 DEF Meeting
<1>10. ASSUME NEW p \in pending, Overflow(p) PROVE Meeting'
  BY <1>10 DEF Overflow
<1>11. CASE EndTier
  <2>1. /\ phase = "grouping" /\ pending = {} /\ lost = {}
        /\ groups' = [i \in 1..Len(groups) |->
                      IF i \in Extra THEN Discard(groups[i]) ELSE groups[i]]
        /\ UNCHANGED <<intact, broken>>
        /\ phase' = "done" \/ (phase' = "grouping" /\ tier' = Len(groups) + 1 /\ Orphans # {})
    BY <1>4, <1>11 DEF EndTier, inputVars
  <2>2. phase' = "grouping" => tier' > 1
    <3>1. CASE Len(groups) = 0
      <4>1. Extra = {}
        BY <1>4, <3>1 DEF Extra
      <4>2. Orphans = {}
        BY <4>1 DEF Orphans
      <4> QED BY <2>1, <4>2
    <3> QED BY <1>4, <2>1, <3>1
  <2>3. 1..Len(groups') = 1..Len(groups)
    <3>1. IInv'
      BY <1>11, EndTierKeeps
    <3> QED BY <2>1, <3>1, LenProperties DEF IInv, TypeOK
  <2>4. \A i \in 1..Len(groups) : groups'[i].members = groups[i].members
    BY <2>1 DEF Discard
  <2>5. ASSUME NEW c \in broken, Ready(c), Mates(c) # {} PROVE Together(c)'
    <3>1. PICK i \in 1..Len(groups) : groups[i].members = Eligible(c)
      <4>1. CASE tier = 1
        <5>1. RowsOf(c) /\ Done(c) = Mates(c)
          BY <1>3, <2>1, <2>5, <4>1 DEF Meeting, Done
        <5>2. \E i \in 1..Len(groups) : groups[i].members = Settled(c, Mates(c))
          BY <2>5, <5>1 DEF RowsOf
        <5> QED BY <1>3, <5>2, AllSettle
      <4>2. CASE tier # 1
        <5>1. tier > 1
          BY <1>4, <4>2
        <5> QED BY <2>1, <2>5, <5>1 DEF Meeting, Together
      <4> QED BY <4>1, <4>2
    <3>2. phase' = "done" \/ i < tier'
      BY <1>4, <2>1
    <3> QED BY <1>2, <2>3, <2>4, <3>1, <3>2 DEF Together
  <2> QED BY <1>1, <1>2, <2>1, <2>2, <2>5 DEF Meeting
<1>12. CASE UNCHANGED vars
  <2>1. UNCHANGED <<scan, intact, broken, phase, pending, groups, tier, dupe2group, lost>>
    BY <1>12 DEF vars, inputVars, tierVars
  <2>2. Expandable' = Expandable
    BY <2>1, FoundIsFixed DEF Expandable
  <2>3. \A c : (RowsOf(c)' <=> RowsOf(c)) /\ (Together(c)' <=> Together(c))
    BY <1>2, <2>1 DEF RowsOf, Together, Done
  <2> QED BY <1>2, <2>1, <2>2, <2>3 DEF Meeting
<1> QED BY <1>5, <1>6, <1>7, <1>8, <1>9, <1>10, <1>11, <1>12 DEF Next

\* The deletable files of a class of identical files are returned in one group
\* with one reference file: get_groups takes the pairs of a class in their
\* order, so that Group.add_match admits them one after the other.
THEOREM IdenticalMeet == Spec => []IdenticalFilesMeet
<1>1. Init => Meeting
  BY DEF Init, Meeting
<1>2. ASSUME IInv, Meeting PROVE IdenticalFilesMeet
  <2> SUFFICES ASSUME phase = "done", lost = {}, NEW c \in scan.classes, Cardinality(c) > 1,
                      ~ c \subseteq RefFile, PairsOf(c) \cap scan.ignored = {}
               PROVE  \E ms \in Returned : /\ ms \subseteq c
                                           /\ c \ RefFile \subseteq ms
                                           /\ Cardinality(ms \cap RefFile)
                                                = IF c \cap RefFile = {} THEN 0 ELSE 1
    BY DEF IdenticalFilesMeet
  <2>1. c \in SUBSET File /\ IsFiniteSet(c) /\ Ready(c)
    <3>1. c \in SUBSET File
      BY <1>2, ScanAssumption DEF IInv, TypeOK
    <3> QED BY <3>1, FileAssumption, FS_Subset DEF Ready
  <2>2. PICK f \in c : f \notin RefFile
    OBVIOUS
  <2>3. PICK h \in c : h # f
    <3>1. SUFFICES ASSUME \A h \in c : h = f PROVE FALSE
      OBVIOUS
    <3>2. c = {f}
      BY <3>1
    <3> QED BY <3>2, FS_Singleton
  <2>4. Mates(c) # {}
    <3>1. {f, h} \in Pair
      BY <2>1, <2>3 DEF Pair
    <3>2. {f, h} \in Mates(c)
      BY <2>2, <3>1 DEF Mates
    <3> QED BY <3>2
  <2>5. c \in intact \cup broken
    BY <1>2, <2>1, <2>4 DEF Meeting
  <2>6. CASE c \in intact
    <3>1. c \in Returned
      BY <2>6 DEF Returned
    <3>2. \A x, y \in c \cap RefFile : x = y
      BY <1>2, <2>6 DEF IInv, Split, IsIntact
    <3>3. c \cap RefFile = {} \/ \E x : c \cap RefFile = {x}
      BY <3>2
    <3> QED BY <3>1, <3>3, FS_EmptySet, FS_Singleton
  <2>7. CASE c \in broken
    <3>1. PICK i \in 1..Len(groups) : groups[i].members = Eligible(c)
      BY <1>2, <2>1, <2>4, <2>7 DEF Meeting, Together
    <3>2. Eligible(c) \subseteq c /\ c \ RefFile \subseteq Eligible(c)
      BY DEF Eligible
    <3>3. Eligible(c) \in Returned
      <4>1. i \in DOMAIN groups
        BY <1>2, LenProperties DEF IInv, TypeOK
      <4> QED BY <2>2, <3>1, <3>2, <4>1 DEF Returned
    <3>4. CASE c \cap RefFile = {}
      <4>1. Eligible(c) \cap RefFile = {}
        BY <3>2, <3>4
      <4> QED BY <3>2, <3>3, <3>4, <4>1, FS_EmptySet
    <3>5. CASE c \cap RefFile # {}
      <4>1. c \cap RefFile \in SUBSET Nat
        BY <2>1, FileAssumption
      <4>2. PICK r \in c \cap RefFile : \A x \in c \cap RefFile : r <= x
        BY <3>5, <4>1, LeastOf
      <4>3. \A x \in Eligible(c) \cap RefFile : x = r
        <5>1. ASSUME NEW x \in Eligible(c) \cap RefFile PROVE x = r
          <6>1. x <= r /\ r <= x /\ x \in Nat /\ r \in Nat
            BY <3>2, <4>1, <4>2 DEF Eligible
          <6> QED BY <6>1
        <5> QED BY <5>1
      <4>4. r \in Eligible(c)
        BY <4>2 DEF Eligible
      <4>5. Eligible(c) \cap RefFile = {r}
        BY <4>3, <4>4
      <4> QED BY <3>2, <3>3, <3>5, <4>5, FS_Singleton
    <3> QED BY <3>4, <3>5
  <2> QED BY <2>5, <2>6, <2>7
<1> QED BY <1>1, <1>2, MeetingKeeps, InvariantHolds, PTL DEF Spec

\* No match is dropped but for a reason, nor is a file of a class.
THEOREM NothingGetsMissed == Spec => []NothingIsMissed
<1>1. OrphansAreRegrouped /\ IdenticalFilesMeet => NothingIsMissed
  BY DEF NothingIsMissed
<1> QED BY <1>1, OrphansMeet, IdenticalMeet, PTL
=============================================================================
