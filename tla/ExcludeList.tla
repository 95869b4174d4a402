---------------------------- MODULE ExcludeList -----------------------------
(***************************************************************************)
(* The patterns of core/exclude.py and the commands of their dialog.  The  *)
(* list of entries, the marks kept by Markable and the compiled union are  *)
(* three pieces of state that are kept in step by hand: a mark outlives    *)
(* its entry, and the union is rebuilt, when it is next read, only after   *)
(* something set the dirty flag.  The order of the entries is left out.    *)
(***************************************************************************)
EXTENDS Naturals, FiniteSets

CONSTANTS
  Pattern,    \* regular expressions the user may type
  Default,    \* default_regexes
  Forbidden,  \* forbidden_regexes
  Broken      \* those that do not compile

ASSUME ExcludeConstants == Default \subseteq Pattern /\ Forbidden \cup Broken \subseteq Pattern

VARIABLES
  entries,       \* how many entries of the list have each pattern
  patternMarks,  \* Markable's set of marks, which entries need not have
  union,         \* the patterns joined in the compiled union
  dirty,         \* the union must be rebuilt before it is used
  revived        \* patterns added again under a mark they had kept, since the last rebuild

excludeVars == <<entries, patternMarks, union, dirty, revived>>

\* At most two entries have the same pattern here: bound of the model.
Copies == 0..2

HasEntry(p) == entries[p] > 0
Compiles(p) == p \notin Broken

\* is_marked: what the dialog shows checked.
Shown == {p \in patternMarks : HasEntry(p) /\ Compiles(p)}

\* mark_count, the length of the set of marks, whatever has an entry.
AnyMark == patternMarks # {}

\* build_compiled_caches, when the property that reads them finds the flag set.
Alternatives == IF dirty THEN Shown ELSE union

\* Reading compiled, compiled_files or compiled_paths.
ReadCompiled ==
  /\ union' = Alternatives /\ dirty' = FALSE
  /\ revived' = IF dirty THEN {} ELSE revived
  /\ UNCHANGED <<entries, patternMarks>>

\* restore_defaults on a new list, as a first start does.
ExcludeInit ==
  /\ entries = [p \in Pattern |-> IF p \in Default THEN 1 ELSE 0]
  /\ patternMarks = Default /\ union = {} /\ dirty = TRUE /\ revived = {}

\* add of the dialog: a new entry, then its mark.  An entry that is marked already,
\* by a mark left behind, is not marked again and the flag stays as it is.
AddPattern(p) ==
  /\ ~HasEntry(p) /\ p \notin Forbidden /\ Compiles(p)
  /\ entries' = [entries EXCEPT ![p] = 1]
  /\ patternMarks' = patternMarks \cup {p}
  /\ dirty' = (dirty \/ p \notin patternMarks)
  /\ revived' = IF dirty' THEN revived ELSE revived \cup {p}
  /\ UNCHANGED union

\* remove: the mark is left behind.  Of two entries that follow each other one stays,
\* since the list is changed while it is iterated.
RemovePattern(p) ==
  /\ HasEntry(p)
  /\ \E left \in {0, entries[p] - 1} : entries' = [entries EXCEPT ![p] = left]
  /\ dirty' = TRUE
  /\ UNCHANGED <<patternMarks, union, revived>>

\* rename: any text is accepted, one that is in the list already included.
RenamePattern(p, q) ==
  /\ p # q /\ HasEntry(p) /\ entries[q] + 1 \in Copies
  /\ entries' = [entries EXCEPT ![p] = @ - 1, ![q] = @ + 1]
  /\ patternMarks' = IF Compiles(q) /\ p \in Shown THEN patternMarks \cup {q} ELSE patternMarks
  /\ dirty' = TRUE
  /\ UNCHANGED <<union, revived>>

\* Mutant: unchecking forgets the entry's pattern in the list only.
ToggleQuietly(p) ==
  /\ HasEntry(p) /\ Compiles(p)
  /\ patternMarks' = IF p \in patternMarks THEN patternMarks \ {p} ELSE patternMarks \cup {p}
  /\ UNCHANGED <<entries, union, dirty, revived>>

\* The check box of a row: mark or unmark.
TogglePattern(p) ==
  /\ HasEntry(p) /\ Compiles(p)
  /\ patternMarks' = IF p \in patternMarks THEN patternMarks \ {p} ELSE patternMarks \cup {p}
  /\ dirty' = TRUE
  /\ UNCHANGED <<entries, union, revived>>

\* restore_defaults: the rest is unchecked, the defaults are added and checked.
RestoreDefaults ==
  /\ entries' = [p \in Pattern |-> IF p \in Default /\ ~HasEntry(p) THEN 1 ELSE entries[p]]
  /\ patternMarks' = (patternMarks \ (Shown \ Default)) \cup Default
  /\ dirty' = (dirty \/ patternMarks' # patternMarks)
  /\ revived' = IF dirty' THEN revived
                ELSE revived \cup {p \in Default \cap patternMarks : ~HasEntry(p)}
  /\ UNCHANGED union

ExcludeCommand ==
  \/ \E p \in Pattern : AddPattern(p)
  \/ \E p \in Pattern : RemovePattern(p)
  \/ \E p, q \in Pattern : RenamePattern(p, q)
  \/ \E p \in Pattern : TogglePattern(p)
  \/ RestoreDefaults

\* save_to_xml, then load_from_xml into a new list: an entry once, its mark if it was shown.
ReloadPatterns ==
  /\ entries' = [p \in Pattern |-> IF HasEntry(p) THEN 1 ELSE 0]
  /\ patternMarks' = Shown
  /\ union' = {} /\ dirty' = TRUE /\ revived' = {}

ExcludeTypeOK ==
  /\ entries \in [Pattern -> Copies]
  /\ patternMarks \subseteq Pattern /\ union \subseteq Pattern
  /\ dirty \in BOOLEAN /\ revived \subseteq Pattern

\* What a scan applies is what the dialog shows checked (exclude.py: "the up-to-date list of
\* patterns"), but for a pattern that was added again under a mark it had kept.
AppliedIsShown == ~dirty => union = Shown \ revived

=============================================================================
