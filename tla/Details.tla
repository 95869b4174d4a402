------------------------------ MODULE Details ------------------------------
(***************************************************************************)
(* The details dialog of picture mode: the table with the selected file    *)
(* and its reference (core/gui/details_panel.py), and the two image panes  *)
(* with the toolbar between them (qt/pe/image_viewer.py), which the        *)
(* preview pane of standard mode uses too.  The results the dialog is told *)
(* about, or not, are here what module ResultView works out in full.       *)
(* Scroll bars and positions are left out.                                 *)
(***************************************************************************)
EXTENDS Integers, FiniteSets

CONSTANTS
  Image, Group, OwnGroup,
  Readable, SizeOf,   \* the pictures that can be loaded, and their dimensions
  NoFile, Blank,      \* no file is selected; a null pixmap
  MaxStep, MinStep    \* the last zoom steps before MAX_SCALE and MIN_SCALE: 11 and -10 in the code

ASSUME DetailsConstants ==
  /\ OwnGroup \in [Image -> Group] /\ Readable \subseteq Image /\ DOMAIN SizeOf = Image
  /\ {NoFile, Blank} \cap Image = {} /\ MaxStep \in Nat /\ -MinStep \in Nat

VARIABLES
  members, refOf,  \* the results: who is in a group, who is its reference
  selected,        \* app.selected_dupes[0]
  panel,           \* the two files in the table
  visible,
  viewer,          \* controller, viewers and toolbar
  held, crossed    \* the swap button is down; the table's columns are swapped

resultVars == <<members, refOf, selected>>
detailVars == <<resultVars, panel, visible, viewer, held, crossed>>

Pane == {"selected", "reference"}
Button == {"swap", "in", "out", "normal", "fit"}

Pixmap(f) == IF f \in Readable THEN f ELSE Blank
Dimensions(pixmap) == IF pixmap = Blank THEN <<>> ELSE SizeOf[pixmap]
Pick(c, a, b) == IF c THEN a ELSE b

-----------------------------------------------------------------------------
(* The controller.  A scale is a number of zoom steps away from 1.0.       *)

\* updateBothImages, with setImage of each viewer: a null pixmap disables it.
Shown(pixmap, fit) == [of |-> pixmap, fit |-> fit /\ pixmap # Blank, on |-> pixmap # Blank]
ShowBoth(v) ==
  [v EXCEPT !.panes = [selected |-> Shown(v.selected, v.bestFit), reference |-> Shown(v.reference, v.bestFit)]]
AtScale(v, step) == [v EXCEPT !.scale = step, !.viewerScale = [p \in Pane |-> step]]

ResetState(v) ==
  [AtScale(v, 0) EXCEPT !.bestFit = TRUE, !.selected = Blank, !.reference = Blank,
                        !.buttons = (@ \ {"in", "out", "fit"}) \cup {"normal"}]
ResetViewersState(v) == ShowBoth([ResetState(v) EXCEPT !.buttons = {}])

BestFit(v) ==
  ShowBoth([AtScale(v, 0) EXCEPT !.bestFit = TRUE,
                                 !.buttons = {"normal"} \cup Pick(v.reference = Blank, {}, {"swap"})])
\* "we can't allow swapping pixmaps of different dimensions"
NormalSize(v) ==
  ShowBoth([AtScale(v, 0) EXCEPT !.bestFit = FALSE,
                                 !.buttons = Pick(v.same, (@ \ {"normal"}) \cup {"in", "out", "fit"},
                                                          (@ \ {"normal", "swap"}) \cup {"fit"})])
\* scaleImagesBy and scaleImagesAt, with updateButtons.
ScaleImages(v, step) ==
  [AtScale(v, step) EXCEPT
     !.buttons = (@ \cap {"swap"}) \cup {b \in Button :
                   CASE b = "in" -> step <= MaxStep [] b = "out" -> step >= MinStep
                     [] b = "normal" -> step # 0 [] b = "fit" -> ~v.bestFit [] OTHER -> FALSE}]

\* Mutant: a change of dimensions leaves the zoom alone.
PerDimensionsZoomed(v, before) == [v EXCEPT !.buttons = @ \ Pick(v.same, {}, {"in", "out"})]
\* updateButtonsAsPerDimensions
PerDimensions(v, before) ==
  IF ~v.bestFit /\ ~(v.same /\ before) THEN BestFit(v)
  ELSE [v EXCEPT !.buttons = @ \ Pick(v.same, {}, {"in", "out"})]

UpdateView(v, ref, f) ==
  LET start == Pick(v.group = OwnGroup[f], v, ResetState(v))
      reference == Pick(f = ref, Blank, Pixmap(ref))
      loaded == [start EXCEPT
        !.selected = Pixmap(f), !.reference = reference, !.group = OwnGroup[f],
        !.same = f = ref \/ Dimensions(reference) = Dimensions(Pixmap(f)),
        !.buttons = Pick(f = ref, @ \ {"swap"}, @ \cup {"swap"}) \cup {"normal"}]
  IN  ShowBoth(PerDimensions(loaded, v.same))

\* The viewers' pixmaps are exchanged; which of them is enabled stays.
SwapPanes(v) ==
  LET other(p) == v.panes[Pick(p = "selected", "reference", "selected")]
  IN  [v EXCEPT !.panes = [p \in Pane |-> [other(p) EXCEPT !.on = v.panes[p].on]]]

-----------------------------------------------------------------------------
(* The dialog is told.                                                     *)

\* DetailsPanel._refresh
PanelOf(f, refs) ==
  IF f = NoFile THEN <<NoFile, NoFile>>
  ELSE <<f, Pick(refs[OwnGroup[f]] = f, NoFile, refs[OwnGroup[f]])>>

\* DetailsDialog._update.  A button that is disabled while it is down is released, and what
\* that swaps is overwritten right after.
Update ==
  /\ viewer' = IF selected' = NoFile THEN ResetViewersState(viewer)
               ELSE UpdateView(viewer, refOf'[OwnGroup[selected']], selected')
  /\ held' = (held /\ "swap" \in viewer'.buttons)
  /\ crossed' = (crossed # (held /\ ~held'))

\* _select_dupes, with its notification.
SelectDupes(f) ==
  /\ selected' = f
  /\ IF f = selected THEN UNCHANGED <<panel, viewer, held, crossed>>
     ELSE /\ panel' = PanelOf(f, refOf')
          /\ IF visible THEN Update ELSE UNCHANGED <<viewer, held, crossed>>
Untold == UNCHANGED <<panel, viewer, held, crossed>>

Results == UNION {members[g] : g \in Group}
\* remove_duplicates: a reference alone is no group.
LessRef(gone) ==
  [g \in Group |-> IF members[g] \ gone \subseteq {refOf[g]} THEN {} ELSE members[g] \ gone]

SelectFile(f) == UNCHANGED <<members, refOf, visible>> /\ SelectDupes(f)

\* The selected row's place is taken by another one.
RemovesSelected ==
  /\ selected # NoFile /\ refOf[OwnGroup[selected]] # selected
  /\ members' = LessRef({selected}) /\ UNCHANGED <<refOf, visible>>
  /\ \E f \in (UNION {members'[g] : g \in Group}) \cup {NoFile} :
       (f = NoFile <=> \A g \in Group : members'[g] = {}) /\ SelectDupes(f)

\* A deletion or a move: _results_changed sets selected_dupes by itself.
FinishDeletion ==
  /\ \E gone \in SUBSET {f \in Results : refOf[OwnGroup[f]] # f} : gone # {} /\ members' = LessRef(gone)
  /\ selected' = Pick(selected # NoFile /\ selected \in members'[OwnGroup[selected]], selected, NoFile)
  /\ UNCHANGED <<refOf, visible>> /\ Untold

\* make_selected_reference: in "Dupes Only" mode the row stays selected, whatever is in it.
MakeReference ==
  /\ selected # NoFile /\ refOf[OwnGroup[selected]] # selected
  /\ refOf' = [refOf EXCEPT ![OwnGroup[selected]] = selected]
  /\ UNCHANGED <<members, visible>>
  /\ \/ selected' = selected /\ Untold
     \/ \E f \in members[OwnGroup[selected]] \ {selected} : SelectDupes(f)

\* show_details: the same action opens and closes the dialog.
ShowDetails == ~visible /\ visible' = TRUE /\ UNCHANGED <<resultVars, panel>> /\ Update
HideDetails == visible /\ ~held /\ visible' = FALSE /\ UNCHANGED <<resultVars, panel, viewer, held, crossed>>

-----------------------------------------------------------------------------
(* The toolbar, whose buttons have shortcuts, and the mouse.               *)

Click(button) == visible /\ button \in viewer.buttons /\ UNCHANGED <<resultVars, panel, visible>>
\* The images are set before a button is disabled: a swap button that is down then swaps them.
Becomes(v) ==
  /\ held' = (held /\ "swap" \in v.buttons)
  /\ crossed' = (crossed # (held /\ ~held'))
  /\ viewer' = Pick(held /\ ~held', SwapPanes(v), v)

ZoomIn == Click("in") /\ Becomes(ScaleImages(viewer, viewer.scale + 1))
ZoomOut == Click("out") /\ Becomes(ScaleImages(viewer, viewer.scale - 1))
ZoomNormalSize == Click("normal") /\ Becomes(NormalSize(viewer))
ZoomBestFit == Click("fit") /\ Becomes(BestFit(viewer))
Wheel(pane, up) ==
  LET old == viewer.viewerScale[pane] IN
  /\ visible /\ viewer.panes[pane].on /\ ~viewer.bestFit /\ viewer.same
  /\ IF up THEN old <= MaxStep ELSE old >= MinStep
  /\ Becomes(ScaleImages(viewer, old + Pick(up, 1, -1)))
  /\ UNCHANGED <<resultVars, panel, visible>>

\* The swap button swaps when it is pressed and again when it is released.
SwapImages(down) ==
  /\ visible /\ held = ~down /\ "swap" \in viewer.buttons
  /\ held' = down /\ crossed' = ~crossed /\ viewer' = SwapPanes(viewer)
  /\ UNCHANGED <<resultVars, panel, visible>>
Resize ==
  /\ visible /\ viewer.bestFit /\ viewer' = ShowBoth(viewer)
  /\ UNCHANGED <<resultVars, panel, visible, held, crossed>>

\* BaseController.__init__: nothing is loaded, and no button works.
NewViewer ==
  [selected |-> Blank, reference |-> Blank, panes |-> [p \in Pane |-> Shown(Blank, FALSE)],
   scale |-> 0, viewerScale |-> [p \in Pane |-> 0], bestFit |-> TRUE, same |-> TRUE,
   group |-> NoFile, buttons |-> {}]

DetailsInit ==
  /\ refOf \in [Group -> Image] /\ (\A g \in Group : OwnGroup[refOf[g]] = g)
  /\ members = [g \in Group |-> {f \in Image : OwnGroup[f] = g}]
  /\ selected = NoFile /\ panel = <<NoFile, NoFile>> /\ visible = FALSE /\ held = FALSE /\ crossed = FALSE
  /\ viewer = NewViewer

DetailsNext ==
  \/ \E f \in Results \cup {NoFile} : SelectFile(f)
  \/ RemovesSelected \/ FinishDeletion \/ MakeReference
  \/ ShowDetails \/ HideDetails \/ ZoomIn \/ ZoomOut \/ ZoomNormalSize \/ ZoomBestFit \/ Resize
  \/ \E pane \in Pane, up \in BOOLEAN : Wheel(pane, up)
  \/ \E down \in BOOLEAN : SwapImages(down)
DetailsSpec == DetailsInit /\ [][DetailsNext]_detailVars

-----------------------------------------------------------------------------
\* However one goes from file to file and group to group, the two panes are at one scale, at 1.0
\* and scaled to fit in best fit, and only pictures of one size can be zoomed or, at their own
\* size, swapped.
ZoomIsShared ==
  /\ \A p \in Pane : viewer.viewerScale[p] = viewer.scale
  /\ \A p \in Pane : viewer.panes[p].of # Blank => viewer.panes[p].fit = viewer.bestFit
  /\ viewer.bestFit => viewer.scale = 0
  /\ viewer.buttons \cap {"in", "out"} # {} => viewer.same /\ ~viewer.bestFit
  /\ "swap" \in viewer.buttons /\ ~viewer.bestFit => viewer.same
=============================================================================
