----------------------------- MODULE Collection -----------------------------
(***************************************************************************)
(* Which files a scan looks at: the folders and states of                  *)
(* core/directories.py, the patterns of ExcludeList, the listings that     *)
(* core/file_list_cache.py remembers, and a disk that other programs       *)
(* change.  One walk of get_files goes folder by folder; a walk of         *)
(* get_folders is one step.  The order among the folders still to visit is *)
(* open.  Times are whole units; a folder's time is that of the last entry *)
(* added, removed or renamed in it, rounded down to Resolution.            *)
(***************************************************************************)
EXTENDS ExcludeList

CONSTANTS
  Folder,      \* paths of folders
  File,        \* paths of files
  Parent,      \* the folder each path is in, NoFolder at the top
  NoFolder,
  Hidden,      \* folders whose name starts with a dot
  Junction,    \* folders that are Windows junctions
  HitsFolder,  \* the folders whose name each pattern matches
  HitsFile,    \* the files each pattern matches, by name or by path
  Resolution,  \* of the times of folders
  SETTLE,      \* MTIME_SETTLE_NS
  Times,       \* bound: the moments things happen at
  Layouts,     \* bound: the entries that are there at the start
  SavedRoots,  \* bound: the folders saved by an earlier session
  CommandBound,\* bound: commands of the user
  ChangeBound, \* bound: changes other programs make
  Unstable     \* bound: the entries they change

VARIABLES
  roots,     \* _dirs
  states,    \* a function from the folders that have a state to it
  profile,   \* the saved scan profile: its folders, states and choices
  caching,   \* a FileListCache is attached
  listing,   \* rows of the cache by folder: time and what was found with its size
  present,   \* the entries that are in their folder
  changed,   \* the time of each folder
  size,      \* 1 or 2 for each file
  now,
  walk,      \* of get_files: "idle", "walking" or "done"
  todo,      \* folders it still has to visit
  visiting,  \* the folder whose time was just read, and that time
  collected, \* what it found: file, is_ref and the size it noted
  folders,   \* what get_folders found: folder and is_ref
  chosen,    \* the states the user asked for, folder by folder
  resized,   \* files written in place since their folder's row was stored
  disturbed, \* something changed since the walk began
  commands, changes

diskVars == <<present, changed, size, now, resized, changes>>
choiceVars == <<roots, states, profile, chosen>>
walkVars == <<walk, todo, visiting, collected, folders, disturbed>>
collectVars == <<excludeVars, choiceVars, caching, listing, diskVars, walkVars, commands>>

NORMAL == "normal"
REFERENCE == "reference"
EXCLUDED == "excluded"
States == {NORMAL, REFERENCE, EXCLUDED}
Entry == Folder \cup File
Nowhere == [folder |-> NoFolder, time |-> 0]
NoRow == [time |-> 0 - 1, found |-> {}]

\* A path and the folders above it.
PathTo[e \in Entry] == IF Parent[e] = NoFolder THEN {e} ELSE {e} \cup PathTo[Parent[e]]
Above(e) == PathTo[e] \ {e}

\* The tree of folders has no cycle, no saved root is inside another, and a time settles in no less
\* than the resolution of times ("2 seconds matches FAT's resolution", file_list_cache.py).
ASSUME CollectConstants ==
  /\ Folder \cap File = {} /\ NoFolder \notin Entry
  /\ Parent \in [Entry -> Folder \cup {NoFolder}] /\ \A f \in File : Parent[f] \in Folder
  /\ \A es \in SUBSET Entry : es # {} => \E e \in es : Parent[e] \notin es
  /\ Hidden \cup Junction \subseteq Folder /\ Unstable \subseteq Entry /\ Layouts \subseteq SUBSET Entry
  /\ \A saved \in SavedRoots : saved \subseteq Folder /\ \A r, q \in saved : r \notin Above(q)
  /\ Resolution \in Nat \ {0} /\ SETTLE \in Nat /\ Resolution <= SETTLE /\ Times \subseteq Nat

Below(d) == {e \in Entry : d \in Above(e)}
Exists(e) == PathTo[e] \subseteq present
Stamp == now - (now % Resolution)

\* The first folder of S on the way from d to the top.
Nearest(d, S) == CHOOSE a \in PathTo[d] \cap S : PathTo[d] \cap S \subseteq PathTo[a]

\* _default_state_for_path
DefaultExcluded(d) ==
  IF AnyMark THEN \E p \in Alternatives : d \in HitsFolder[p] ELSE d \in Hidden

\* Mutant: only the folder right above is asked.
StateOfParent(sts, d) ==
  IF d \in DOMAIN sts THEN sts[d]
  ELSE IF DefaultExcluded(d) THEN EXCLUDED
  ELSE IF Parent[d] \in DOMAIN sts THEN sts[Parent[d]] ELSE NORMAL

\* get_state, among the states sts
StateAmong(sts, d) ==
  IF d \in DOMAIN sts THEN sts[d]
  ELSE IF DefaultExcluded(d) THEN EXCLUDED
  ELSE IF Above(d) \cap DOMAIN sts = {} THEN NORMAL
  ELSE sts[Nearest(d, DOMAIN sts)]
StateOf(d) == StateAmong(states, d)

\* get_state keeps a default that is not NORMAL: the states after the folders of S were asked for.
Remembered(sts, S) ==
  [d \in DOMAIN sts \cup {e \in S : DefaultExcluded(e)} |->
     IF d \in DOMAIN sts THEN sts[d] ELSE EXCLUDED]

\* is_excluded, asked only while some pattern is marked
IsExcluded(f) == AnyMark /\ \E p \in Alternatives : f \in HitsFile[p]

\* The patterns are read for a folder that has no state, and for a file.
ReadPatterns(cond) == IF AnyMark /\ cond THEN ReadCompiled ELSE UNCHANGED excludeVars

CollectInit ==
  /\ ExcludeInit
  /\ roots \in SavedRoots /\ states = [d \in {} |-> NORMAL] /\ chosen = states
  /\ profile = [roots |-> roots, states |-> states, chosen |-> chosen]
  /\ caching \in BOOLEAN /\ listing = [d \in Folder |-> NoRow]
  /\ present \in Layouts
  /\ changed = [d \in Folder |-> 0] /\ size = [f \in File |-> 1]
  /\ now = 0 /\ resized = {}
  /\ walk = "idle" /\ todo = {} /\ visiting = Nowhere /\ collected = {} /\ folders = {}
  /\ disturbed = FALSE /\ commands = 0 /\ changes = 0

-----------------------------------------------------------------------------
\* The user's commands.  The progress window is modal: none comes during a walk.

Command ==
  /\ walk # "walking" /\ commands < CommandBound /\ commands' = commands + 1
  /\ walk' = "idle" /\ collected' = {} /\ folders' = {} /\ disturbed' = FALSE
  /\ UNCHANGED <<todo, visiting, diskVars, listing>>

\* The tree of the directories tab is built again and asks for the state of every root.
TreeRefreshed(sts, newRoots) ==
  /\ roots' = newRoots /\ states' = Remembered(sts, newRoots)
  /\ ReadPatterns(~(newRoots \subseteq DOMAIN sts))

\* add_directory: add_path, or a message
AddPath(d) ==
  /\ Command
  /\ PathTo[d] \cap roots = {} /\ Exists(d)
  /\ TreeRefreshed(states, {r \in roots : d \notin Above(r)} \cup {d})
  /\ UNCHANGED <<profile, chosen, caching>>

\* remove_directories: the states under the folder are kept.
RemoveDirectory(d) ==
  /\ Command
  /\ d \in roots
  /\ TreeRefreshed(states, roots \ {d})
  /\ UNCHANGED <<profile, chosen, caching>>

\* A function with the choices below d forgotten, and that of d set.
Overridden(sts, d, s) ==
  [e \in (DOMAIN sts \ Below(d)) \cup {d} |-> IF e = d THEN s ELSE sts[e]]

\* The folders a node of the tree was reached through.
ShownFor(d) == {e \in PathTo[d] : PathTo[e] \cap roots # {}}

\* The state of a node of the tree, when it is not the one shown: set_state, then all nodes are
\* asked again.  A node is taken to show its state of the moment.
SetState(d, s) ==
  /\ Command
  /\ PathTo[d] \cap roots # {} /\ Exists(d) /\ StateOf(d) # s
  /\ states' = Overridden(Remembered(states, ShownFor(d)), d, s)
  /\ chosen' = Overridden(chosen, d, s)
  /\ ReadPatterns(~(ShownFor(d) \subseteq DOMAIN states))
  /\ UNCHANGED <<roots, profile, caching>>

\* save_scan_profile
SaveProfile ==
  /\ Command
  /\ profile' = [roots |-> roots, states |-> states, chosen |-> chosen]
  /\ UNCHANGED <<excludeVars, roots, states, chosen, caching>>

\* apply_scan_profile: what is not there is left out, folder or state.
ThatExist(sts) == [d \in {e \in DOMAIN sts : Exists(e)} |-> sts[d]]
ApplyProfile ==
  /\ Command
  /\ TreeRefreshed(ThatExist(profile.states), {d \in profile.roots : Exists(d)})
  /\ chosen' = ThatExist(profile.chosen)
  /\ UNCHANGED <<profile, caching>>

\* The preference, in _apply_file_list_cache: the file stays.
ToggleCaching ==
  /\ Command
  /\ caching' = ~caching
  /\ UNCHANGED <<excludeVars, choiceVars>>

\* save, and load at the next start: the tree asks for the state of the roots before the
\* exclude list is loaded, when no pattern is marked.
Restart ==
  /\ Command
  /\ roots' = {d \in roots : Exists(d)}
  /\ states' = [d \in DOMAIN states \cup (roots' \cap Hidden) |->
                  IF d \in DOMAIN states THEN states[d] ELSE EXCLUDED]
  /\ ReloadPatterns
  /\ UNCHANGED <<profile, chosen, caching>>

EditPatterns ==
  /\ Command
  /\ ExcludeCommand
  /\ UNCHANGED <<choiceVars, caching>>

\* The user opens the tree down to d: its nodes ask for their states.
Look(d) ==
  /\ walk # "walking" /\ PathTo[d] \cap roots # {} /\ Exists(d)
  /\ states' = Remembered(states, ShownFor(d)) /\ states' # states
  /\ ReadPatterns(~(ShownFor(d) \subseteq DOMAIN states))
  /\ UNCHANGED <<roots, profile, chosen, caching, listing, diskVars, walkVars, commands>>

-----------------------------------------------------------------------------
\* get_files

StartWalk ==
  /\ walk # "walking" /\ roots # {}
  /\ walk' = "walking" /\ todo' = roots /\ collected' = {} /\ folders' = {} /\ disturbed' = FALSE
  /\ UNCHANGED <<excludeVars, choiceVars, caching, listing, diskVars, visiting, commands>>

\* directory_mtime_ns: NoRow's time when the folder cannot be read
Visit(d) ==
  /\ walk = "walking" /\ visiting = Nowhere /\ d \in todo
  /\ visiting' = [folder |-> d, time |-> IF Exists(d) THEN changed[d] ELSE NoRow.time]
  /\ UNCHANGED <<excludeVars, choiceVars, caching, listing, diskVars, walk, todo, collected,
                 folders, disturbed, commands>>

\* FileListCache.get
Remembers(d, time) == caching /\ time # NoRow.time /\ listing[d].time = time
\* os.scandir, with the sizes
Live(d) == {[path |-> e, size |-> IF e \in File THEN size[e] ELSE 0] :
              e \in {x \in present : Parent[x] = d}}
\* Mutant: a listing is kept at once.
SettledAtOnce(time) == time # NoRow.time

\* Whether a listing is old enough to be kept.
Settled(time) == time # NoRow.time /\ now - time > SETTLE

\* is_traversable_dir: a remembered entry does not say that it is a junction.
Traversable(d, hit) == hit \/ d \notin Junction

\* skip_dirs: nothing below an excluded folder was given a state
SkipDirs(d, sts) == StateOf(d) = EXCLUDED /\ \A e \in DOMAIN sts : d \notin PathTo[e]

\* _entries_for and _get_files for one folder, after its time was read.
ReadFolder ==
  /\ walk = "walking" /\ visiting # Nowhere
  /\ LET d == visiting.folder
         hit == Remembers(d, visiting.time)
         entriesFound == IF hit THEN listing[d].found ELSE Live(d)
         filesFound == {x \in entriesFound : x.path \in File}
         dirsFound == {x.path : x \in entriesFound \ filesFound}
     IN
     IF ~hit /\ ~Exists(d)
     THEN /\ todo' = todo \ {d}
          /\ UNCHANGED <<excludeVars, states, listing, collected, resized>>
     ELSE /\ states' = Remembered(states, {d})
          /\ ReadPatterns(d \notin DOMAIN states \/ (StateOf(d) # EXCLUDED /\ filesFound # {}))
          /\ todo' = (todo \ {d}) \cup (IF SkipDirs(d, states') THEN {}
                                        ELSE {e \in dirsFound : Traversable(e, hit)})
          /\ collected' = collected \cup
               {[path |-> x.path, ref |-> StateOf(d) = REFERENCE, size |-> x.size] :
                  x \in {y \in filesFound : StateOf(d) # EXCLUDED /\ ~IsExcluded(y.path)}}
          /\ listing' = IF caching /\ ~hit /\ Settled(visiting.time)
                        THEN [listing EXCEPT ![d] = [time |-> visiting.time, found |-> entriesFound]]
                        ELSE listing
          /\ resized' = IF caching /\ ~hit /\ Settled(visiting.time)
                        THEN {f \in resized : Parent[f] # d} ELSE resized
  /\ visiting' = Nowhere
  /\ walk' = IF todo' = {} THEN "done" ELSE "walking"
  /\ UNCHANGED <<roots, profile, chosen, caching, present, changed, size, now, changes, folders,
                 disturbed, commands>>

\* has_any_file stops at the first file, a cancelled job anywhere.
StopWalk ==
  /\ walk = "walking" /\ visiting = Nowhere
  /\ walk' = "idle" /\ todo' = {} /\ collected' = {}
  /\ UNCHANGED <<excludeVars, choiceVars, caching, listing, diskVars, visiting, folders, disturbed,
                 commands>>

\* get_folders: subfolders come before the folder they are in, whose default is not yet
\* remembered when they are asked for theirs.  fs.Folder.subfolders follows junctions.
WalkFolders ==
  /\ walk # "walking" /\ roots # {}
  /\ LET reached == {d \in Folder : Exists(d) /\ PathTo[d] \cap roots # {}} IN
       /\ folders' = {[path |-> d, ref |-> StateOf(d) = REFERENCE] :
                        d \in {e \in reached : StateOf(e) # EXCLUDED}}
       /\ states' = Remembered(states, reached)
       /\ ReadPatterns(~(reached \subseteq DOMAIN states))
  /\ walk' = "idle" /\ collected' = {} /\ disturbed' = FALSE
  /\ UNCHANGED <<roots, profile, chosen, caching, listing, diskVars, todo, visiting, commands>>

-----------------------------------------------------------------------------
\* Other programs

\* What was collected is handed to the scan at once: the model forgets it.
HandedOver ==
  /\ walk' = (IF walk = "done" THEN "idle" ELSE walk)
  /\ collected' = (IF walk = "walking" THEN collected ELSE {}) /\ folders' = {}

Change ==
  /\ changes < ChangeBound /\ changes' = changes + 1
  /\ disturbed' = (walk = "walking")
  /\ HandedOver
  /\ UNCHANGED <<excludeVars, choiceVars, caching, listing, now, todo, visiting, commands>>

\* An entry is created or put back, or removed or taken away.
ToggleEntry(e) ==
  /\ Change
  /\ Above(e) \subseteq present
  /\ present' = IF e \in present THEN present \ {e} ELSE present \cup {e}
  /\ changed' = [d \in Folder |-> IF d = Parent[e] THEN Stamp ELSE changed[d]]
  /\ UNCHANGED <<size, resized>>

\* A file is written in place.
Resize(f) ==
  /\ Change
  /\ Exists(f)
  /\ size' = [size EXCEPT ![f] = 3 - @] /\ resized' = resized \cup {f}
  /\ UNCHANGED <<present, changed>>

Tick ==
  /\ \E t \in Times : now < t /\ now' = t
  /\ HandedOver
  /\ UNCHANGED <<excludeVars, choiceVars, caching, listing, present, changed, size, resized,
                 changes, todo, visiting, disturbed, commands>>

CollectNext ==
  \/ \E d \in Folder : AddPath(d) \/ RemoveDirectory(d) \/ Look(d) \/ Visit(d)
  \/ \E d \in Folder, s \in States : SetState(d, s)
  \/ SaveProfile \/ ApplyProfile \/ ToggleCaching \/ Restart \/ EditPatterns
  \/ StartWalk \/ ReadFolder \/ StopWalk \/ WalkFolders
  \/ \E e \in Unstable : ToggleEntry(e)
  \/ \E f \in Unstable \cap File : Resize(f)
  \/ Tick

CollectSpec == CollectInit /\ [][CollectNext]_collectVars

-----------------------------------------------------------------------------
CollectTypeOK ==
  /\ ExcludeTypeOK
  /\ roots \subseteq Folder /\ DOMAIN states \subseteq Folder /\ DOMAIN chosen \subseteq Folder
  /\ \A d \in DOMAIN states : states[d] \in States
  /\ \A d \in Folder : \A x \in listing[d].found : Parent[x.path] = d
  /\ walk \in {"idle", "walking", "done"} /\ todo \subseteq Folder
  /\ walk # "walking" => todo = {} /\ visiting = Nowhere
  /\ \A r, q \in roots : r \notin Above(q)

\* The folder whose state counts for what was collected.
Owner(path) == IF path \in File THEN Parent[path] ELSE path

\* What the user set is what a scan does, whatever was remembered, saved, loaded or listed:
\* a file under a folder made reference comes as reference or not at all, and nothing comes
\* from a folder that was excluded (DirectoryState: "make sure never to delete any of them",
\* "Don't scan this folder").
ChoicesAreRespected ==
  \A c \in collected \cup folders :
    LET above == PathTo[Owner(c.path)] \cap DOMAIN chosen
    IN above # {} =>
         /\ chosen[Nearest(Owner(c.path), above)] # EXCLUDED
         /\ chosen[Nearest(Owner(c.path), above)] = REFERENCE => c.ref

\* A remembered listing shows a junction as a folder.
BehindJunction(f) == \E j \in Junction \cap PathTo[f], r \in roots : r \in Above(j)

\* What a walk would find that reads every folder now.
FreshFiles ==
  {f \in File : /\ Exists(f) /\ PathTo[f] \cap roots # {} /\ ~BehindJunction(f)
                /\ StateOf(Parent[f]) # EXCLUDED /\ ~IsExcluded(f)}

\* A walk that nothing disturbed finds what is there, from remembered listings as from fresh
\* ones, but for what lies behind junctions; only the size of a file written in place can be
\* an old one (file_list_cache.py: what a stale entry "can and cannot cause").
CachedWalkIsFresh ==
  /\ CollectTypeOK
  /\ walk = "done" /\ ~disturbed =>
       /\ {[path |-> c.path, ref |-> c.ref] : c \in {x \in collected : ~BehindJunction(x.path)}}
            = {[path |-> f, ref |-> StateOf(Parent[f]) = REFERENCE] : f \in FreshFiles}
       /\ \A c \in collected : c.size = size[c.path] \/ c.path \in resized

=============================================================================
