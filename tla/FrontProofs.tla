---------------------------- MODULE FrontProofs -----------------------------
(***************************************************************************)
(* What holds of the windows for every set of pictures, files, results,    *)
(* records and profiles: the zoom of the details dialog (Details), what    *)
(* the reports say of the results and of a deletion (Reports), what the    *)
(* deletion history puts back (Restore), the preferences with the scan     *)
(* profiles (Settings), the ignore list (IgnoreList) and the table of the  *)
(* results with the jobs that change them (ResultView).  Each part has an  *)
(* inductive invariant of its own, preserved by every action of the part.  *)
(***************************************************************************)
EXTENDS Details, ResultView, Reports, Restore, Settings, FiniteSetTheorems, WellFoundedInduction,
  TLAPS

-----------------------------------------------------------------------------
(* The details of a picture.                                               *)

\* What the controller, the viewers and the toolbar are made of.
ViewerShape(v) ==
  /\ v = [selected |-> v.selected, reference |-> v.reference, panes |-> v.panes,
          scale |-> v.scale, viewerScale |-> v.viewerScale, bestFit |-> v.bestFit,
          same |-> v.same, group |-> v.group, buttons |-> v.buttons]
  /\ \A p \in Pane :
     /\ v.panes[p] = [of |-> v.panes[p].of, fit |-> v.panes[p].fit, on |-> v.panes[p].on]
                     /\ v.panes[p].fit \in BOOLEAN /\ v.panes[p].on \in BOOLEAN
  /\ v.bestFit \in BOOLEAN /\ v.same \in BOOLEAN

\* ZoomIsShared, of any state of the viewer.
PanesAgree(v) == \A p \in Pane : v.panes[p].of # Blank => v.panes[p].fit = v.bestFit
ScalesAgree(v) ==
  (\A p \in Pane : v.viewerScale[p] = v.scale) /\ (v.bestFit => v.scale = 0)
ButtonsAgree(v) ==
  /\ v.buttons \cap {"in", "out"} # {} => v.same /\ ~v.bestFit
  /\ "swap" \in v.buttons /\ ~v.bestFit => v.same
ZoomAgrees(v) == ViewerShape(v) /\ PanesAgree(v) /\ ScalesAgree(v) /\ ButtonsAgree(v)

\* What updateBothImages leaves, of any state of the viewers: two panes that are fitted as
\* the controller is.
LEMMA ShowBothIs ==
  ASSUME NEW v, ViewerShape(v), NEW w, w = ShowBoth(v)
  PROVE  /\ ViewerShape(w) /\ PanesAgree(w)
         /\ w.scale = v.scale /\ w.viewerScale = v.viewerScale /\ w.bestFit = v.bestFit
         /\ w.same = v.same /\ w.buttons = v.buttons
<1>1. w = [selected |-> v.selected, reference |-> v.reference,
           panes |-> [selected |-> Shown(v.selected, v.bestFit),
                      reference |-> Shown(v.reference, v.bestFit)],
           scale |-> v.scale, viewerScale |-> v.viewerScale, bestFit |-> v.bestFit,
           same |-> v.same, group |-> v.group, buttons |-> v.buttons]
  BY DEF ShowBoth, ViewerShape
<1>2. \A x : LET s == Shown(x, v.bestFit) IN
        /\ s = [of |-> s.of, fit |-> s.fit, on |-> s.on] /\ s.fit \in BOOLEAN /\ s.on \in BOOLEAN
        /\ s.of # Blank => s.fit = v.bestFit
  BY DEF Shown, ViewerShape
<1>3. \A p \in Pane : w.panes[p] = Shown(IF p = "selected" THEN v.selected ELSE v.reference,
                                         v.bestFit)
  BY <1>1 DEF Pane
<1> QED BY <1>1, <1>2, <1>3 DEF ViewerShape, PanesAgree

\* Setting both viewers to a scale changes nothing else.
LEMMA AtScaleIs ==
  ASSUME NEW v, ViewerShape(v), NEW step, NEW w, w = AtScale(v, step)
  PROVE  w = [selected |-> v.selected, reference |-> v.reference, panes |-> v.panes,
              scale |-> step, viewerScale |-> [p \in Pane |-> step], bestFit |-> v.bestFit,
              same |-> v.same, group |-> v.group, buttons |-> v.buttons]
BY DEF AtScale, ViewerShape

\* Best fit, from any state, leaves scale 1.0 in both viewers and no zoom buttons.
LEMMA BestFitIs ==
  ASSUME NEW v, ViewerShape(v), NEW w, w = BestFit(v)
  PROVE  ZoomAgrees(w)
<1> DEFINE a == AtScale(v, 0)
           b == {"normal"} \cup Pick(v.reference = Blank, {}, {"swap"})
           u == [a EXCEPT !.bestFit = TRUE, !.buttons = b]
<1>0. a = [selected |-> v.selected, reference |-> v.reference, panes |-> v.panes, scale |-> 0,
           viewerScale |-> [p \in Pane |-> 0], bestFit |-> v.bestFit, same |-> v.same,
           group |-> v.group, buttons |-> v.buttons]
  BY AtScaleIs
<1>5. w = ShowBoth(u)
  BY DEF BestFit
<1>6. b \subseteq {"normal", "swap"}
  BY DEF Pick
<1> HIDE DEF a, b
<1>7. u = [a EXCEPT !.bestFit = TRUE, !.buttons = b]
  OBVIOUS
<1> HIDE DEF u
<1>1. u = [selected |-> v.selected, reference |-> v.reference, panes |-> v.panes, scale |-> 0,
           viewerScale |-> [p \in Pane |-> 0], bestFit |-> TRUE, same |-> v.same,
           group |-> v.group, buttons |-> b]
  BY <1>0, <1>7
<1>2. ViewerShape(u) /\ u.bestFit /\ u.scale = 0 /\ u.viewerScale = [p \in Pane |-> 0]
  BY <1>1 DEF ViewerShape
<1>3. u.buttons \subseteq {"normal", "swap"}
  BY <1>1, <1>6
<1> QED BY <1>2, <1>3, <1>5, ShowBothIs DEF ZoomAgrees, ScalesAgree, ButtonsAgree

\* The normal size offers zooming and swapping to pictures of one size only.
LEMMA NormalSizeIs ==
  ASSUME NEW v, ZoomAgrees(v), NEW w, w = NormalSize(v)
  PROVE  ZoomAgrees(w)
<1> DEFINE a == AtScale(v, 0)
           b == Pick(v.same, (a.buttons \ {"normal"}) \cup {"in", "out", "fit"},
                             (a.buttons \ {"normal", "swap"}) \cup {"fit"})
           u == [a EXCEPT !.bestFit = FALSE, !.buttons = b]
<1>1. a = [selected |-> v.selected, reference |-> v.reference, panes |-> v.panes, scale |-> 0,
           viewerScale |-> [p \in Pane |-> 0], bestFit |-> v.bestFit, same |-> v.same,
           group |-> v.group, buttons |-> v.buttons]
  BY AtScaleIs DEF ZoomAgrees
<1>2. w = ShowBoth(u)
  BY DEF NormalSize
<1>3. ~v.same => b \cap {"in", "out", "swap"} = {}
  BY <1>1 DEF Pick, ZoomAgrees, ButtonsAgree
<1> HIDE DEF a, b
<1>6. u = [a EXCEPT !.bestFit = FALSE, !.buttons = b]
  OBVIOUS
<1> HIDE DEF u
<1>4. u = [selected |-> v.selected, reference |-> v.reference, panes |-> v.panes, scale |-> 0,
           viewerScale |-> [p \in Pane |-> 0], bestFit |-> FALSE, same |-> v.same,
           group |-> v.group, buttons |-> b]
  BY <1>1, <1>6
<1>5. /\ ViewerShape(u) /\ ~u.bestFit /\ u.scale = 0 /\ u.viewerScale = [p \in Pane |-> 0]
      /\ u.same = v.same /\ u.buttons = b
  BY <1>4 DEF ViewerShape, ZoomAgrees
<1> QED BY <1>2, <1>3, <1>5, ShowBothIs DEF ZoomAgrees, ScalesAgree, ButtonsAgree

\* Zooming pictures of one size takes both viewers along.
LEMMA ScaleImagesIs ==
  ASSUME NEW v, ZoomAgrees(v), v.same, ~v.bestFit, NEW step, NEW w, w = ScaleImages(v, step)
  PROVE  ZoomAgrees(w)
<1> DEFINE a == AtScale(v, step)
           b == (a.buttons \cap {"swap"}) \cup {c \in Button :
                   CASE c = "in" -> step <= MaxStep [] c = "out" -> step >= MinStep
                     [] c = "normal" -> step # 0 [] c = "fit" -> ~v.bestFit [] OTHER -> FALSE}
<1>1. a = [selected |-> v.selected, reference |-> v.reference, panes |-> v.panes, scale |-> step,
           viewerScale |-> [p \in Pane |-> step], bestFit |-> v.bestFit, same |-> v.same,
           group |-> v.group, buttons |-> v.buttons]
  BY AtScaleIs DEF ZoomAgrees
<1>2. w = [a EXCEPT !.buttons = b]
  BY DEF ScaleImages
<1> HIDE DEF a, b
<1>3. w = [selected |-> v.selected, reference |-> v.reference, panes |-> v.panes, scale |-> step,
           viewerScale |-> [p \in Pane |-> step], bestFit |-> v.bestFit, same |-> v.same,
           group |-> v.group, buttons |-> b]
  BY <1>1, <1>2
<1> QED BY <1>3 DEF ZoomAgrees, ViewerShape, PanesAgree, ScalesAgree, ButtonsAgree

\* Swapping exchanges the panes, whose fit is the same.
LEMMA SwapPanesIs ==
  ASSUME NEW v, ZoomAgrees(v), NEW w, w = SwapPanes(v)
  PROVE  ZoomAgrees(w)
<1> DEFINE other(p) == v.panes[Pick(p = "selected", "reference", "selected")]
           q == [p \in Pane |-> [other(p) EXCEPT !.on = v.panes[p].on]]
<1>1. w = [selected |-> v.selected, reference |-> v.reference, panes |-> q, scale |-> v.scale,
           viewerScale |-> v.viewerScale, bestFit |-> v.bestFit, same |-> v.same,
           group |-> v.group, buttons |-> v.buttons]
  BY DEF SwapPanes, ZoomAgrees, ViewerShape
<1>2. ASSUME NEW p \in Pane
      PROVE  /\ q[p] = [of |-> q[p].of, fit |-> q[p].fit, on |-> q[p].on]
             /\ q[p].fit \in BOOLEAN /\ q[p].on \in BOOLEAN
             /\ q[p].of # Blank => q[p].fit = v.bestFit
  <2>1. PICK r \in Pane : other(p) = v.panes[r]
    BY DEF Pick, Pane
  <2>2. v.panes[r] = [of |-> v.panes[r].of, fit |-> v.panes[r].fit, on |-> v.panes[r].on]
        /\ v.panes[r].fit \in BOOLEAN /\ v.panes[p].on \in BOOLEAN
           /\ (v.panes[r].of # Blank => v.panes[r].fit = v.bestFit)
    BY DEF ZoomAgrees, ViewerShape, PanesAgree
  <2>3. q[p] = [v.panes[r] EXCEPT !.on = v.panes[p].on]
    BY <2>1
  <2> HIDE DEF q
  <2>4. q[p] = [of |-> v.panes[r].of, fit |-> v.panes[r].fit, on |-> v.panes[p].on]
    BY <2>2, <2>3
  <2> QED BY <2>2, <2>4
<1> HIDE DEF q
<1>3. w.panes = q /\ w.bestFit = v.bestFit /\ w.same = v.same
  BY <1>1
<1>4. ViewerShape(w) /\ PanesAgree(w)
  BY <1>1, <1>2, <1>3 DEF ZoomAgrees, ViewerShape, PanesAgree
<1> QED BY <1>1, <1>4 DEF ZoomAgrees, ScalesAgree, ButtonsAgree

\* What is reset before another group is shown.
LEMMA ResetStateIs ==
  ASSUME NEW v, ViewerShape(v), NEW w, w = ResetState(v)
  PROVE  /\ ViewerShape(w) /\ ScalesAgree(w) /\ ButtonsAgree(w) /\ w.bestFit
<1> DEFINE a == AtScale(v, 0)
           b == (a.buttons \ {"in", "out", "fit"}) \cup {"normal"}
<1>1. a = [selected |-> v.selected, reference |-> v.reference, panes |-> v.panes, scale |-> 0,
           viewerScale |-> [p \in Pane |-> 0], bestFit |-> v.bestFit, same |-> v.same,
           group |-> v.group, buttons |-> v.buttons]
  BY AtScaleIs
<1>2. w = [a EXCEPT !.bestFit = TRUE, !.selected = Blank, !.reference = Blank, !.buttons = b]
  BY DEF ResetState
<1>3. b \cap {"in", "out"} = {}
  OBVIOUS
<1> HIDE DEF a, b
<1>4. w = [selected |-> Blank, reference |-> Blank, panes |-> v.panes, scale |-> 0,
           viewerScale |-> [p \in Pane |-> 0], bestFit |-> TRUE, same |-> v.same,
           group |-> v.group, buttons |-> b]
  BY <1>1, <1>2
<1> QED BY <1>3, <1>4 DEF ViewerShape, ScalesAgree, ButtonsAgree

\* With no file selected, nothing is shown and no button works.
LEMMA ResetViewersStateIs ==
  ASSUME NEW v, ViewerShape(v), NEW w, w = ResetViewersState(v)
  PROVE  ZoomAgrees(w)
<1> DEFINE u == ResetState(v)
           x == [u EXCEPT !.buttons = {}]
<1>1. ViewerShape(u) /\ ScalesAgree(u)
  BY ResetStateIs
<1> HIDE DEF u
<1>2. x = [selected |-> u.selected, reference |-> u.reference, panes |-> u.panes,
           scale |-> u.scale, viewerScale |-> u.viewerScale, bestFit |-> u.bestFit,
           same |-> u.same, group |-> u.group, buttons |-> {}]
  BY <1>1 DEF ViewerShape
<1>3. w = ShowBoth(x)
  BY DEF ResetViewersState, u
<1> HIDE DEF x
<1>4. ViewerShape(x) /\ ScalesAgree(x) /\ ButtonsAgree(x)
  BY <1>1, <1>2 DEF ViewerShape, ScalesAgree, ButtonsAgree
<1> QED BY <1>3, <1>4, ShowBothIs DEF ZoomAgrees, ScalesAgree, ButtonsAgree

\* Another file, of the same group or not, of the same size or not, keeps the zoom in
\* agreement: this is where updateButtonsAsPerDimensions must go back to best fit.
LEMMA UpdateViewIs ==
  ASSUME NEW v, ZoomAgrees(v), NEW ref, NEW f, NEW w, w = UpdateView(v, ref, f)
  PROVE  ZoomAgrees(w)
<1> DEFINE start == Pick(v.group = OwnGroup[f], v, ResetState(v))
           reference == Pick(f = ref, Blank, Pixmap(ref))
           same == f = ref \/ Dimensions(reference) = Dimensions(Pixmap(f))
           b == Pick(f = ref, start.buttons \ {"swap"},
                     start.buttons \cup {"swap"}) \cup {"normal"}
           loaded == [start EXCEPT !.selected = Pixmap(f), !.reference = reference,
                                   !.group = OwnGroup[f], !.same = same, !.buttons = b]
           y == PerDimensions(loaded, v.same)
<1>1. w = ShowBoth(y)
  BY DEF UpdateView
<1>2. ViewerShape(start) /\ ScalesAgree(start) /\ ButtonsAgree(start)
      /\ (start = v \/ start.bestFit)
  BY ResetStateIs DEF ZoomAgrees, Pick
<1>9. b \cap {"in", "out"} = start.buttons \cap {"in", "out"}
  BY DEF Pick
<1>4. same \in BOOLEAN
  OBVIOUS
<1> HIDE DEF start, same, reference, b
<1>10. loaded = [start EXCEPT !.selected = Pixmap(f), !.reference = reference,
                              !.group = OwnGroup[f], !.same = same, !.buttons = b]
  OBVIOUS
<1> HIDE DEF loaded
<1>3. loaded = [selected |-> Pixmap(f), reference |-> reference, panes |-> start.panes,
                scale |-> start.scale, viewerScale |-> start.viewerScale,
                bestFit |-> start.bestFit, same |-> same, group |-> OwnGroup[f], buttons |-> b]
  BY <1>2, <1>10 DEF ViewerShape
<1>5. ViewerShape(loaded) /\ ScalesAgree(loaded) /\ loaded.same = same
      /\ loaded.bestFit = start.bestFit
  BY <1>2, <1>3, <1>4 DEF ViewerShape, ScalesAgree
<1>6. loaded.buttons \cap {"in", "out"} # {} => ~loaded.bestFit
  BY <1>2, <1>3, <1>9 DEF ButtonsAgree
<1>7. CASE ~loaded.bestFit /\ ~(loaded.same /\ v.same)
  <2>1. ZoomAgrees(y)
    BY <1>5, <1>7, BestFitIs DEF PerDimensions
  <2> QED BY <1>1, <2>1, ShowBothIs DEF ZoomAgrees, ScalesAgree, ButtonsAgree
<1>8. CASE ~(~loaded.bestFit /\ ~(loaded.same /\ v.same))
  <2>1. y = [selected |-> loaded.selected, reference |-> loaded.reference,
             panes |-> loaded.panes, scale |-> loaded.scale, viewerScale |-> loaded.viewerScale,
             bestFit |-> loaded.bestFit, same |-> loaded.same, group |-> loaded.group,
             buttons |-> loaded.buttons \ Pick(loaded.same, {}, {"in", "out"})]
    BY <1>5, <1>8 DEF PerDimensions, ViewerShape
  <2> HIDE DEF y
  <2>2. ViewerShape(y) /\ ScalesAgree(y) /\ ButtonsAgree(y)
    BY <1>5, <1>6, <1>8, <2>1 DEF ViewerShape, ScalesAgree, ButtonsAgree, Pick
  <2> QED BY <1>1, <2>2, ShowBothIs DEF ZoomAgrees, ScalesAgree, ButtonsAgree
<1> QED BY <1>7, <1>8

\* The viewers start in agreement.
LEMMA ZoomStarts == DetailsInit => ZoomAgrees(viewer)
<1> SUFFICES ASSUME DetailsInit PROVE ZoomAgrees(NewViewer)
  BY DEF DetailsInit
<1>1. NewViewer = [selected |-> Blank, reference |-> Blank,
                   panes |-> [p \in Pane |-> [of |-> Blank, fit |-> FALSE, on |-> FALSE]],
                   scale |-> 0, viewerScale |-> [p \in Pane |-> 0], bestFit |-> TRUE,
                   same |-> TRUE, group |-> NoFile, buttons |-> {}]
  BY DEF NewViewer, Shown
<1> HIDE DEF NewViewer
<1>2. ViewerShape(NewViewer) /\ PanesAgree(NewViewer)
  BY <1>1 DEF ViewerShape, PanesAgree
<1> QED BY <1>1, <1>2 DEF ZoomAgrees, ScalesAgree, ButtonsAgree

\* Every action of the dialog preserves the agreement.
LEMMA ZoomStep == ZoomAgrees(viewer) /\ [DetailsNext]_detailVars => ZoomAgrees(viewer)'
<1> SUFFICES ASSUME ZoomAgrees(viewer), [DetailsNext]_detailVars PROVE ZoomAgrees(viewer')
  OBVIOUS
<1>1. CASE Update
  BY <1>1, ResetViewersStateIs, UpdateViewIs DEF Update, ZoomAgrees
<1>2. ASSUME NEW v, ZoomAgrees(v), Becomes(v) PROVE ZoomAgrees(viewer')
  BY <1>2, SwapPanesIs DEF Becomes, Pick
<1>3. CASE ZoomIn
  <2>1. viewer.same /\ ~viewer.bestFit
    BY <1>3 DEF ZoomIn, Click, ZoomAgrees, ButtonsAgree
  <2> QED BY <1>2, <1>3, <2>1, ScaleImagesIs DEF ZoomIn
<1>4. CASE ZoomOut
  <2>1. viewer.same /\ ~viewer.bestFit
    BY <1>4 DEF ZoomOut, Click, ZoomAgrees, ButtonsAgree
  <2> QED BY <1>2, <1>4, <2>1, ScaleImagesIs DEF ZoomOut
<1>5. CASE ZoomNormalSize
  BY <1>2, <1>5, NormalSizeIs DEF ZoomNormalSize
<1>6. CASE ZoomBestFit
  BY <1>2, <1>6, BestFitIs DEF ZoomBestFit, ZoomAgrees
<1>7. ASSUME NEW pane \in Pane, NEW up, Wheel(pane, up) PROVE ZoomAgrees(viewer')
  BY <1>2, <1>7, ScaleImagesIs DEF Wheel
<1>8. ASSUME NEW down, SwapImages(down) PROVE ZoomAgrees(viewer')
  BY <1>8, SwapPanesIs DEF SwapImages
<1>9. CASE Resize
  BY <1>9, ShowBothIs DEF Resize, ZoomAgrees, ScalesAgree, ButtonsAgree
<1>10. \/ Update \/ viewer' = viewer \/ ZoomIn \/ ZoomOut \/ ZoomNormalSize \/ ZoomBestFit
            \/ Resize
       \/ (\E pane \in Pane, up \in BOOLEAN : Wheel(pane, up))
            \/ \E down \in BOOLEAN : SwapImages(down)
  BY DEF DetailsNext, SelectFile, SelectDupes, RemovesSelected, FinishDeletion, MakeReference,
         ShowDetails, HideDetails, Untold, detailVars
<1> QED BY <1>1, <1>3, <1>4, <1>5, <1>6, <1>7, <1>8, <1>9, <1>10

\* ZoomIsShared, for any pictures of any dimensions and any limits of the zoom
\* (BaseController of qt/pe/image_viewer.py).
THEOREM ZoomStaysShared == DetailsSpec => []ZoomIsShared
<1>1. ZoomAgrees(viewer) => ZoomIsShared
  BY DEF ZoomAgrees, PanesAgree, ScalesAgree, ButtonsAgree, ZoomIsShared
<1> DEFINE I == ZoomAgrees(viewer)
<1>2. DetailsInit => I
  BY ZoomStarts
<1>3. I /\ [DetailsNext]_detailVars => I'
  BY ZoomStep
<1> HIDE DEF I
<1> QED BY <1>1, <1>2, <1>3, PTL DEF DetailsSpec, I

-----------------------------------------------------------------------------
(* The reports about the results.                                          *)

\* A group's reference is one of its members, every pair of them was compared in some way, and
\* no file is in two groups.
GroupIsWhole(g) ==
  /\ g = [ref |-> g.ref, members |-> g.members, uniform |-> g.uniform, pairs |-> g.pairs]
  /\ g.ref \in g.members /\ g.members \subseteq File
  /\ g.pairs \in [PairsIn(g.members) -> Evidence]
ApartIn(gs) == \A g, h \in gs : g = h \/ g.members \cap h.members = {}
GroupsAreWhole(gs) == (\A g \in gs : GroupIsWhole(g)) /\ ApartIn(gs)

\* What was true of a file when the preview was made can only have got worse since.
Later(before, now) == \/ before = now \/ before = "same" \/ (before = "changed" /\ now = "gone")

PreviewIsCurrent ==
  dialog.kind = "deletion" =>
    /\ dialog = [kind |-> "deletion", promised |-> dialog.promised]
    /\ dialog.promised # None =>
         /\ dialog.promised.over \in [File -> {"same", "changed", "gone"}]
         /\ \A f \in File : Later(dialog.promised.over[f], content[f])
         /\ dialog.promised.over = content => dialog.promised.files = Plan
ReportsShape ==
  /\ GroupsAreWhole(groups) /\ (saved # None => GroupsAreWhole(saved.groups))
  /\ content \in [File -> {"same", "changed", "gone"}]
  /\ marked \subseteq MarkableFile
ReportsInv == ReportsShape /\ BulkMarksAreEarned /\ PreviewIsCurrent /\ PreviewIsKept

\* In results without a file in two groups, the group of a file is the one it is a member of.
LEMMA TheGroup ==
  ASSUME ApartIn(groups), NEW g \in groups, NEW f \in g.members
  PROVE  GroupWith(f) = g /\ f \in InGroups
BY DEF ApartIn, GroupWith, InGroups

\* A file in a group has a group.
LEMMA ItsGroup ==
  ASSUME NEW f \in InGroups
  PROVE  GroupWith(f) \in groups /\ f \in GroupWith(f).members
<1>1. \E g \in groups : f \in g.members
  BY DEF InGroups
<1> QED BY <1>1 DEF GroupWith

\* Two members are a pair.
LEMMA TheirPairs ==
  ASSUME NEW kept, NEW f \in kept, NEW h \in kept, f # h
  PROVE  {f, h} \in PairsIn(kept)
<1>1. IsFiniteSet({f}) /\ Cardinality({f}) = 1 /\ h \notin {f} /\ {f, h} = {f} \cup {h}
  BY FS_Singleton, f # h
<1>2. Cardinality({f} \cup {h}) = 1 + 1
  BY <1>1, FS_AddElement
<1> QED BY <1>1, <1>2 DEF PairsIn

\* A group with fewer members keeps how the pairs that are left were compared.
LEMMA KeepingIs ==
  ASSUME NEW g, GroupIsWhole(g), NEW kept, kept \subseteq g.members
  PROVE  LET k == Keeping(g, kept) IN
         /\ k = [ref |-> g.ref, members |-> kept, uniform |-> g.uniform,
                 pairs |-> [pair \in PairsIn(kept) |-> g.pairs[pair]]]
         /\ k.pairs \in [PairsIn(kept) -> Evidence]
<1> DEFINE k == Keeping(g, kept)
           q == [pair \in PairsIn(kept) |-> g.pairs[pair]]
<1>1. k = [g EXCEPT !.members = kept, !.pairs = q]
  BY DEF Keeping
<1>2. q \in [PairsIn(kept) -> Evidence]
  BY DEF GroupIsWhole, PairsIn
<1> HIDE DEF k, q
<1>3. k = [ref |-> g.ref, members |-> kept, uniform |-> g.uniform, pairs |-> q]
  BY <1>1 DEF GroupIsWhole
<1>4. k.pairs \in [PairsIn(kept) -> Evidence]
  BY <1>2, <1>3
<1> QED BY <1>3, <1>4 DEF k, q

\* A group with two members left stays a group.
LEMMA TwoStay ==
  ASSUME NEW kept, kept \subseteq File, NEW f \in kept, NEW h \in kept, f # h
  PROVE  Cardinality(kept) > 1
<1>1. IsFiniteSet(kept) /\ {f, h} \subseteq kept
  BY FS_Subset, ReportConstants
<1>4. IsFiniteSet({f}) /\ Cardinality({f}) = 1 /\ h \notin {f} /\ {f, h} = {f} \cup {h}
  BY FS_Singleton, f # h
<1>2. Cardinality({f, h}) = 1 + 1
  BY <1>4, FS_AddElement
<1>3. Cardinality({f, h}) <= Cardinality(kept) /\ Cardinality(kept) \in Nat
  BY <1>1, FS_Subset, FS_CardinalityType
<1> QED BY <1>2, <1>3

\* After marked files are removed every other markable file still is one, in the same group
\* with the same reference: the reference is never among the marked, so no group is broken up
\* beneath a duplicate that stays.
LEMMA Removes ==
  ASSUME ReportsShape, NEW gone, gone \subseteq marked, groups' = GroupsWithout(gone)
  PROVE  /\ GroupsAreWhole(groups')
         /\ MarkableFile \ gone \subseteq MarkableFile'
         /\ \A f \in MarkableFile \ gone :
              /\ GroupWith(f)'.members = GroupWith(f).members \ gone
              /\ GroupWith(f)'.ref = GroupWith(f).ref
              /\ \A pair \in PairsIn(GroupWith(f)'.members) : GroupWith(f)'.pairs[pair]
                   = GroupWith(f).pairs[pair]
         /\ \A f \in File : IsDupe(f)' => IsDupe(f) /\ f \notin gone
<1>1. \A g \in groups : GroupIsWhole(g) /\ g.ref \notin gone
  <2> SUFFICES ASSUME NEW g \in groups PROVE GroupIsWhole(g) /\ g.ref \notin gone
    OBVIOUS
  <2>1. GroupIsWhole(g)
    BY DEF ReportsShape, GroupsAreWhole
  <2>2. GroupWith(g.ref) = g
    BY <2>1, TheGroup DEF ReportsShape, GroupsAreWhole, GroupIsWhole
  <2> QED BY <2>1, <2>2 DEF ReportsShape, MarkableFile, IsDupe
<1> DEFINE K(g) == Keeping(g, g.members \ gone)
<1>2. \A g \in groups : LET k == K(g) IN
        /\ GroupIsWhole(k) /\ k.members = g.members \ gone /\ k.ref = g.ref
        /\ k.pairs = [pair \in PairsIn(g.members \ gone) |-> g.pairs[pair]]
  <2> SUFFICES ASSUME NEW g \in groups
               PROVE  /\ GroupIsWhole(K(g)) /\ K(g).members = g.members \ gone /\ K(g).ref = g.ref
                      /\ K(g).pairs = [pair \in PairsIn(g.members \ gone) |-> g.pairs[pair]]
    OBVIOUS
  <2>0. GroupIsWhole(g) /\ g.members \ gone \subseteq g.members
    BY <1>1
  <2>1. K(g) = [ref |-> g.ref, members |-> g.members \ gone, uniform |-> g.uniform,
                pairs |-> [pair \in PairsIn(g.members \ gone) |-> g.pairs[pair]]]
        /\ K(g).pairs \in [PairsIn(g.members \ gone) -> Evidence]
    BY <2>0, KeepingIs
  <2> HIDE DEF K
  <2>2. /\ K(g).ref = g.ref /\ K(g).members = g.members \ gone
        /\ K(g) = [ref |-> K(g).ref, members |-> K(g).members, uniform |-> K(g).uniform,
                   pairs |-> K(g).pairs]
        /\ K(g).pairs = [pair \in PairsIn(g.members \ gone) |-> g.pairs[pair]]
    BY <2>1
  <2> QED BY <1>1, <2>1, <2>2 DEF GroupIsWhole
<1> HIDE DEF K
<1>3. groups' = {K(g) : g \in {h \in groups : Cardinality(h.members \ gone) > 1}}
  BY DEF GroupsWithout, K
<1>4. GroupsAreWhole(groups')
  <2>1. \A k \in groups' : GroupIsWhole(k)
    BY <1>2, <1>3
  <2>2. ASSUME NEW g \in groups, NEW h \in groups
        PROVE K(g) = K(h) \/ K(g).members \cap K(h).members = {}
    <3>1. g = h \/ g.members \cap h.members = {}
      BY DEF ReportsShape, GroupsAreWhole, ApartIn
    <3> QED BY <1>2, <3>1
  <2> QED BY <1>3, <2>1, <2>2 DEF GroupsAreWhole, ApartIn
<1>5. ASSUME NEW f \in MarkableFile \ gone
      PROVE  /\ K(GroupWith(f)) \in groups' /\ GroupWith(f)' = K(GroupWith(f))
                /\ GroupWith(f) \in groups
             /\ f \in MarkableFile'
  <2>1. f \in InGroups /\ f # GroupWith(f).ref /\ ~IsReference(f)
    BY DEF MarkableFile, IsDupe
  <2>2. GroupWith(f) \in groups /\ f \in GroupWith(f).members
    BY <2>1, ItsGroup
  <2>3. Cardinality(GroupWith(f).members \ gone) > 1
    BY <1>1, <2>1, <2>2, TwoStay DEF GroupIsWhole
  <2>4. K(GroupWith(f)) \in groups' /\ f \in K(GroupWith(f)).members
    BY <1>2, <1>3, <2>2, <2>3
  <2>5. ApartIn(groups')
    BY <1>4 DEF GroupsAreWhole
  <2>6. GroupWith(f)' = K(GroupWith(f)) /\ f \in InGroups'
    BY <2>4, <2>5 DEF ApartIn, GroupWith, InGroups
  <2> QED BY <1>2, <2>1, <2>2, <2>4, <2>6 DEF MarkableFile, IsDupe, IsReference
<1>6. ASSUME NEW f \in File, IsDupe(f)' PROVE IsDupe(f) /\ f \notin gone
  <2>1. PICK g \in groups : f \in K(g).members
    BY <1>3, <1>6 DEF IsDupe, InGroups
  <2>2. f \in g.members /\ f \notin gone
    BY <1>2, <2>1
  <2>3. GroupWith(f) = g /\ f \in InGroups
    BY <2>2, TheGroup DEF ReportsShape, GroupsAreWhole
  <2>4. PICK h \in groups : K(h) \in groups' /\ f \in K(h).members
    BY <1>3, <1>6 DEF IsDupe, InGroups
  <2>5. h = g
    BY <1>2, <2>2, <2>4 DEF ReportsShape, GroupsAreWhole, ApartIn
  <2>6. GroupWith(f)' = K(g)
    BY <1>4, <2>4, <2>5 DEF GroupsAreWhole, ApartIn, GroupWith
  <2> QED BY <1>2, <1>6, <2>2, <2>3, <2>6 DEF IsDupe
<1>7. ASSUME NEW f \in MarkableFile \ gone
      PROVE  /\ GroupWith(f)'.members = GroupWith(f).members \ gone
             /\ GroupWith(f)'.ref = GroupWith(f).ref
             /\ \A pair \in PairsIn(GroupWith(f)'.members) : GroupWith(f)'.pairs[pair]
                  = GroupWith(f).pairs[pair]
  <2> DEFINE g == GroupWith(f)
             k == K(g)
  <2>1. g \in groups /\ GroupWith(f)' = k
    BY <1>5
  <2>2. /\ k.members = g.members \ gone /\ k.ref = g.ref
        /\ k.pairs = [pair \in PairsIn(g.members \ gone) |-> g.pairs[pair]]
    BY <1>2, <2>1
  <2> HIDE DEF g, k
  <2>3. \A pair \in PairsIn(k.members) : k.pairs[pair] = g.pairs[pair]
    BY <2>2
  <2> QED BY <2>1, <2>2, <2>3 DEF g
<1> QED BY <1>4, <1>5, <1>6, <1>7

\* The tier of a group is the weakest of its pairs, so that "content" is said of none that
\* were compared by samples only.
LEMMA EarnedBy ==
  ASSUME ReportsShape, NEW f \in MarkableFile,
         ClassifyGroup(GroupWith(f)) \in {"content", "corroborated"},
         NEW other \in GroupWith(f).members \ {f}
  PROVE  GroupWith(f).pairs[{f, other}] = "full"
<1> DEFINE g == GroupWith(f)
<1>1. g \in groups /\ f \in g.members /\ GroupIsWhole(g)
  BY ItsGroup DEF MarkableFile, ReportsShape, GroupsAreWhole
<1>2. {f, other} \in DOMAIN g.pairs
  BY <1>1, TheirPairs DEF GroupIsWhole
<1>3. ClassifyMatch(g.pairs[{f, other}]) # "unconfirmed"
  BY <1>2 DEF ClassifyGroup, Weakest
<1> QED BY <1>3 DEF ClassifyMatch

\* The invariant holds at the start.
LEMMA ReportsStart == ReportsInit => ReportsInv
BY DEF ReportsInit, ReportsInv, ReportsShape, GroupsAreWhole, ApartIn, MarkableFile, InGroups,
       BulkMarksAreEarned, PreviewIsCurrent, PreviewIsKept, Closed

\* Nothing the bulk marks and the preview speak of is touched.
LEMMA ReportsKept ==
  ASSUME ReportsInv, UNCHANGED groups, content' = content, saved' = saved
  PROVE  /\ GroupsAreWhole(groups') /\ (saved' # None => GroupsAreWhole(saved'.groups))
         /\ content' \in [File -> {"same", "changed", "gone"}]
         /\ MarkableFile' = MarkableFile /\ \A f : GroupWith(f)' = GroupWith(f)
BY DEF ReportsInv, ReportsShape, MarkableFile, IsDupe, InGroups, GroupWith, IsReference

\* What is loaded from a results file are whole groups again, and the marks that still mean
\* something.
LEMMA ReloadsWhole ==
  ASSUME ReportsShape, ReloadResults
  PROVE  GroupsAreWhole(groups') /\ marked' \subseteq MarkableFile'
<1> DEFINE there == {f \in File : content[f] # "gone"}
           K(g) == Keeping(g, g.members \cap there)
           R(g) == Reloaded(K(g))
           S(h) == IF h.ref \in h.members THEN h
             ELSE [h EXCEPT !.ref = CHOOSE f \in h.members : TRUE]
           from == {k \in saved.groups : Cardinality(k.members \cap there) > 1}
<1>1. groups' = {S(h) : h \in {R(g) : g \in from}}
  BY DEF ReloadResults
<1>2. GroupsAreWhole(saved.groups)
  BY DEF ReloadResults, ReportsShape
<1>3. ASSUME NEW g \in from
      PROVE  /\ K(g) = [ref |-> g.ref, members |-> g.members \cap there, uniform |-> g.uniform,
                        pairs |-> K(g).pairs]
             /\ K(g).pairs \in [PairsIn(g.members \cap there) -> Evidence]
  <2>1. GroupIsWhole(g) /\ g.members \cap there \subseteq g.members
    BY <1>2 DEF GroupsAreWhole
  <2>2. /\ K(g) = [ref |-> g.ref, members |-> g.members \cap there, uniform |-> g.uniform,
                 pairs |-> [pair \in PairsIn(g.members \cap there) |-> g.pairs[pair]]]
        /\ K(g).pairs \in [PairsIn(g.members \cap there) -> Evidence]
    BY <2>1, KeepingIs
  <2> HIDE DEF K
  <2> QED BY <2>2
<1> HIDE DEF K
<1>4. ASSUME NEW g \in from
      PROVE  /\ R(g) = [ref |-> g.ref, members |-> g.members \cap there, uniform |-> g.uniform,
                        pairs |-> R(g).pairs]
             /\ R(g).pairs \in [PairsIn(g.members \cap there) -> Evidence]
  <2>1. CASE K(g).uniform
    BY <1>3, <2>1 DEF Reloaded
  <2>2. CASE ~K(g).uniform
    <3>1. R(g) = [K(g) EXCEPT !.pairs = [pair \in DOMAIN K(g).pairs |-> "likeness"]]
      BY <2>2 DEF Reloaded
    <3>2. R(g).pairs = [pair \in PairsIn(g.members \cap there) |-> "likeness"]
      BY <1>3, <3>1
    <3> HIDE DEF R
    <3> QED BY <1>3, <3>1, <3>2 DEF Evidence
  <2> QED BY <2>1, <2>2
<1> HIDE DEF R
<1>5. ASSUME NEW g \in from
      PROVE  GroupIsWhole(S(R(g))) /\ S(R(g)).members = g.members \cap there
  <2>1. g.members \cap there # {}
    BY FS_EmptySet
  <2>2. /\ S(R(g)) = [ref |-> S(R(g)).ref, members |-> g.members \cap there,
                      uniform |-> g.uniform, pairs |-> R(g).pairs]
        /\ S(R(g)).ref \in g.members \cap there
    <3>1. CASE R(g).ref \in R(g).members
      BY <1>4, <3>1
    <3>2. CASE R(g).ref \notin R(g).members
      <4>1. S(R(g)) = [R(g) EXCEPT !.ref = CHOOSE f \in R(g).members : TRUE]
        BY <3>2
      <4> HIDE DEF S
      <4>2. R(g).members = g.members \cap there
        BY <1>4
      <4>3. (CHOOSE f \in R(g).members : TRUE) \in g.members \cap there
        <5>1. \E x \in R(g).members : TRUE
          BY <2>1, <4>2
        <5>2. (CHOOSE f \in R(g).members : TRUE) \in R(g).members
          BY <5>1, Zenon
        <5> QED BY <4>2, <5>2
      <4>4. S(R(g)) = [ref |-> CHOOSE f \in R(g).members : TRUE, members |-> R(g).members,
                        uniform |-> R(g).uniform, pairs |-> R(g).pairs]
        BY <1>4, <4>1
      <4>5. S(R(g)).ref = CHOOSE f \in R(g).members : TRUE
        BY <4>4
      <4>6. R(g).members = g.members \cap there /\ R(g).uniform = g.uniform
        BY <1>4
      <4> QED BY <4>3, <4>4, <4>5, <4>6
    <3> QED BY <3>1, <3>2
  <2> HIDE DEF S
  <2>3. g.members \subseteq File
    BY <1>2 DEF GroupsAreWhole, GroupIsWhole
  <2>4. /\ S(R(g)).members = g.members \cap there /\ S(R(g)).pairs = R(g).pairs
        /\ S(R(g)) = [ref |-> S(R(g)).ref, members |-> S(R(g)).members,
                      uniform |-> S(R(g)).uniform, pairs |-> S(R(g)).pairs]
    BY <2>2
  <2> QED BY <1>4, <2>2, <2>3, <2>4 DEF GroupIsWhole
<1> HIDE DEF S
<1>6. \A h \in groups' : GroupIsWhole(h)
  BY <1>1, <1>5
<1>7. ASSUME NEW g \in from, NEW h \in from
      PROVE S(R(g)) = S(R(h)) \/ S(R(g)).members \cap S(R(h)).members = {}
  <2>1. g = h \/ g.members \cap h.members = {}
    BY <1>2 DEF GroupsAreWhole, ApartIn
  <2> QED BY <1>5, <2>1
<1>10. \A h \in groups' : \E g \in from : h = S(R(g))
  BY <1>1
<1>8. GroupsAreWhole(groups')
  BY <1>6, <1>7, <1>10 DEF GroupsAreWhole, ApartIn
<1>9. ASSUME NEW f \in marked' PROVE f \in MarkableFile'
  <2>1. PICK g \in groups' : f \in g.members /\ f # g.ref /\ ~IsReference(f)
    BY <1>9 DEF ReloadResults
  <2>2. GroupWith(f)' = g /\ f \in InGroups'
    BY <1>8, <2>1 DEF GroupsAreWhole, ApartIn, GroupWith, InGroups
  <2> QED BY <2>1, <2>2 DEF MarkableFile, IsDupe, IsReference
<1> QED BY <1>8, <1>9

\* Every action of the reports' part preserves its invariant.
LEMMA ReportsInvStep == ReportsInv /\ [ReportsNext]_reportVars => ReportsInv'
<1> SUFFICES ASSUME ReportsInv, [ReportsNext]_reportVars PROVE ReportsInv'
  OBVIOUS
<1> USE DEF ReportsInv
\* A dialog that is not the deletion's promises nothing.
<1>1. ASSUME ReportsShape', BulkMarksAreEarned', dialog'.kind \notin {"deletion", "deleted"}
      PROVE ReportsInv'
  BY <1>1 DEF PreviewIsCurrent, PreviewIsKept
\* Marks come and go.
<1>2. ASSUME UNCHANGED <<groups, content, saved>>, marked' \subseteq MarkableFile,
             bulk' \subseteq bulk PROVE ReportsShape' /\ BulkMarksAreEarned'
  BY <1>2, ReportsKept DEF ReportsShape, BulkMarksAreEarned
\* Files go that were marked.
<1>3. ASSUME NEW gone, gone \subseteq marked, groups' = GroupsWithout(gone), saved' = saved,
             marked' \subseteq marked \ gone, bulk' \subseteq bulk \ gone,
             content' \in [File -> {"same", "changed", "gone"}]
      PROVE  ReportsShape' /\ BulkMarksAreEarned'
  <2>1. /\ GroupsAreWhole(groups')
        /\ MarkableFile \ gone \subseteq MarkableFile'
        /\ \A f \in MarkableFile \ gone :
              /\ GroupWith(f)'.members = GroupWith(f).members \ gone
              /\ \A pair \in PairsIn(GroupWith(f)'.members) : GroupWith(f)'.pairs[pair]
                   = GroupWith(f).pairs[pair]
    BY <1>3, Removes
  <2>2. ReportsShape'
    BY <1>3, <2>1 DEF ReportsShape
  <2>3. ASSUME NEW f \in bulk'
        PROVE  f \in MarkableFile'
               /\ \A other \in GroupWith(f)'.members \ {f} : GroupWith(f)'.pairs[{f, other}]
                    = "full"
    <3>1. f \in MarkableFile \ gone
      BY <1>3, <2>3 DEF BulkMarksAreEarned
    <3>2. f \in GroupWith(f).members
      BY <3>1, ItsGroup DEF MarkableFile
    <3>3. ASSUME NEW other \in GroupWith(f)'.members \ {f}
          PROVE GroupWith(f)'.pairs[{f, other}] = "full"
      <4>1. GroupWith(f)'.pairs[{f, other}] = GroupWith(f).pairs[{f, other}]
        BY <2>1, <3>1, <3>2, <3>3, TheirPairs
      <4> QED BY <1>3, <2>1, <2>3, <3>1, <3>3, <4>1 DEF BulkMarksAreEarned
    <3> QED BY <2>1, <3>1, <3>3
  <2> QED BY <2>2, <2>3 DEF BulkMarksAreEarned
<1>4. CASE Scan
  <2>1. GroupsAreWhole(groups')
    BY <1>4, ReportConstants DEF Scan, GroupsAreWhole, GroupIsWhole, ApartIn
  <2> QED BY <1>1, <1>4, <2>1 DEF Scan, ReportsShape, BulkMarksAreEarned, Closed
<1>5. CASE StoreResults
  <2>1. UNCHANGED <<groups, marked, content, dialog, bulk>>
        /\ saved' = [groups |-> groups, marked |-> marked] /\ dialog = Closed
    BY <1>5 DEF StoreResults
  <2>2. ReportsShape'
    BY <2>1 DEF ReportsShape, MarkableFile, IsDupe, InGroups, GroupWith, IsReference
  <2>4. MarkableFile' = MarkableFile /\ \A h : GroupWith(h)' = GroupWith(h)
    BY <2>1 DEF MarkableFile, IsDupe, InGroups, GroupWith, IsReference
  <2>3. BulkMarksAreEarned'
    BY <2>1, <2>4 DEF BulkMarksAreEarned
  <2> QED BY <1>1, <2>1, <2>2, <2>3 DEF Closed
<1>6. CASE ReloadResults
  <2>1. ReportsShape'
    BY <1>6, ReloadsWhole DEF ReloadResults, ReportsShape
  <2> QED BY <1>1, <1>6, <2>1 DEF ReloadResults, BulkMarksAreEarned, Closed
<1>7. CASE RemoveMarked
  <2>1. ReportsShape' /\ BulkMarksAreEarned'
    BY <1>3, <1>7 DEF RemoveMarked, ReportsShape
  <2> QED BY <1>1, <1>7, <2>1 DEF RemoveMarked, Closed
<1>8. ASSUME NEW f \in File, Mark(f) PROVE ReportsInv'
  <2>1. ReportsShape' /\ BulkMarksAreEarned'
    BY <1>2, <1>8 DEF Mark, ReportsShape
  <2> QED BY <1>1, <1>8, <2>1 DEF Mark, Closed
<1>9. ASSUME NEW f \in File, NEW what \in {"changed", "gone"}, Change(f, what) PROVE ReportsInv'
  <2>1. groups' = groups /\ saved' = saved /\ marked' = marked /\ bulk' = bulk /\ dialog' = dialog
    BY <1>9 DEF Change
  <2>2. content' = [content EXCEPT ![f] = what] /\ content[f] = "same"
    BY <1>9 DEF Change
  <2>3. content' \in [File -> {"same", "changed", "gone"}]
        /\ \A h \in File : Later(content[h], content'[h])
    <3>1. content' \in [File -> {"same", "changed", "gone"}]
      BY <2>2 DEF ReportsShape
    <3>2. \A h \in File : content'[h] = IF h = f THEN what ELSE content[h]
      BY <2>2 DEF ReportsShape
    <3>3. ASSUME NEW h \in File PROVE Later(content[h], content'[h])
      <4>1. CASE h = f
        BY <2>2, <4>1 DEF Later
      <4>2. CASE h # f
        BY <3>2, <4>2 DEF Later
      <4> QED BY <4>1, <4>2
    <3> QED BY <3>1, <3>3
  <2>4. content' # content
    BY <2>2 DEF ReportsShape
  <2>5. ReportsShape' /\ BulkMarksAreEarned'
    <3>1. MarkableFile' = MarkableFile /\ \A h : GroupWith(h)' = GroupWith(h)
      BY <2>1 DEF MarkableFile, IsDupe, InGroups, GroupWith, IsReference
    <3>2. ReportsShape'
      BY <2>1, <2>3, <3>1 DEF ReportsShape
    <3> QED BY <2>1, <3>1, <3>2 DEF BulkMarksAreEarned
  <2>6. PreviewIsKept'
    BY <2>1 DEF PreviewIsKept
  <2>7. PreviewIsCurrent'
    <3> SUFFICES ASSUME dialog.kind = "deletion", dialog.promised # None
                 PROVE  /\ \A h \in File : Later(dialog.promised.over[h], content'[h])
                        /\ dialog.promised.over # content'
      BY <2>1 DEF PreviewIsCurrent
    <3>1. \A h \in File : Later(dialog.promised.over[h], content[h])
      BY DEF PreviewIsCurrent
    <3>2. \A h \in File : Later(dialog.promised.over[h], content'[h])
      BY <2>3, <3>1 DEF Later
    <3>3. content'[f] = what /\ Later(dialog.promised.over[f], "same")
      BY <2>2, <3>1 DEF ReportsShape
    <3> QED BY <3>2, <3>3 DEF Later
  <2> QED BY <2>5, <2>6, <2>7
<1>10. ASSUME NEW tier \in {"content", "corroborated"}, MarkConfidence(tier) PROVE ReportsInv'
  <2> DEFINE new == {f \in MarkableFile \ marked : ClassifyGroup(GroupWith(f)) = tier}
  <2>1. marked' = marked \cup new /\ bulk' = bulk \cup new
        /\ UNCHANGED <<groups, content, saved, dialog>> /\ dialog = Closed
    BY <1>10 DEF MarkConfidence
  <2>2. \A f \in new : f \in MarkableFile
        /\ \A other \in GroupWith(f).members \ {f} : GroupWith(f).pairs[{f, other}] = "full"
    BY EarnedBy
  <2> HIDE DEF new
  <2>3. ReportsShape' /\ BulkMarksAreEarned'
    <3>1. MarkableFile' = MarkableFile /\ (\A h : GroupWith(h)' = GroupWith(h)) /\ ReportsShape'
      BY <2>1, <2>2, ReportsKept DEF ReportsShape
    <3>2. \A f \in bulk' : f \in bulk \/ f \in new
      BY <2>1
    <3> QED BY <2>2, <3>1, <3>2 DEF BulkMarksAreEarned
  <2> QED BY <1>1, <2>1, <2>3 DEF Closed
<1>11. CASE OpenRollup \/ OpenOverlaps
  <2>1. ReportsShape' /\ BulkMarksAreEarned'
    BY <1>2, <1>11 DEF OpenRollup, OpenOverlaps, ReportsShape
  <2>2. dialog'.kind \notin {"deletion", "deleted"}
    BY <1>11 DEF OpenRollup, OpenOverlaps, Rollup
  <2> QED BY <1>1, <2>1, <2>2
<1>12. CASE MarkARow
  <2>1. PICK row : MarkRow(row)
    BY <1>12 DEF MarkARow
  <2>2. ReportsShape' /\ BulkMarksAreEarned'
    BY <1>2, <2>1 DEF MarkRow, ReportsShape
  <2> QED BY <1>1, <2>1, <2>2 DEF MarkRow, Closed
<1>13. CASE OpenDeletion
  <2>1. ReportsShape' /\ BulkMarksAreEarned'
    BY <1>2, <1>13 DEF OpenDeletion, ReportsShape
  <2> QED BY <1>13, <2>1 DEF OpenDeletion, PreviewIsCurrent, PreviewIsKept
<1>14. CASE Preview
  <2>1. ReportsShape' /\ BulkMarksAreEarned'
    BY <1>2, <1>14 DEF Preview, ReportsShape
  <2>2. dialog = [kind |-> "deletion", promised |-> dialog.promised]
        /\ dialog' = [dialog EXCEPT !.promised = [files |-> Plan, over |-> content]]
    BY <1>14 DEF Preview, PreviewIsCurrent
  <2>3. dialog' = [kind |-> "deletion", promised |-> [files |-> Plan, over |-> content]]
    BY <2>2
  <2>4. Plan' = Plan /\ content' = content
    BY <1>14 DEF Preview, Plan, IsDupe, InGroups, GroupWith, Deletable
  <2>5. PreviewIsCurrent'
    <3>1. dialog'.promised = [files |-> Plan, over |-> content]
      BY <2>3
    <3>2. dialog'.promised.files = Plan' /\ dialog'.promised.over = content'
      BY <2>4, <3>1
    <3>3. dialog' = [kind |-> "deletion", promised |-> dialog'.promised]
      BY <2>3, <3>1
    <3>4. content' \in [File -> {"same", "changed", "gone"}]
      BY <2>1 DEF ReportsShape
    <3>5. \A f \in File : Later(content'[f], content'[f])
      BY DEF Later
    <3> QED BY <3>2, <3>3, <3>4, <3>5 DEF PreviewIsCurrent
  <2> QED BY <2>1, <2>3, <2>5 DEF PreviewIsKept
<1>15. CASE CloseDialog
  BY <1>1, <1>2, <1>15 DEF CloseDialog, ReportsShape, Closed
<1>16. ASSUME NEW gone \in SUBSET marked, CancelledDeletionEnds(gone) PROVE ReportsInv'
  <2>1. content' = [f \in File |-> IF f \in gone THEN "gone" ELSE content[f]]
    BY <1>16 DEF CancelledDeletionEnds
  <2>2. content' \in [File -> {"same", "changed", "gone"}]
        /\ \A h \in File : Later(content[h], content'[h])
    <3>1. content' \in [File -> {"same", "changed", "gone"}]
      BY <2>1 DEF ReportsShape
    <3>2. \A h \in File : content'[h] = IF h \in gone THEN "gone" ELSE content[h]
      BY <2>1
    <3>3. \A h \in File : content[h] \in {"same", "changed", "gone"}
      BY DEF ReportsShape
    <3>4. ASSUME NEW h \in File PROVE Later(content[h], content'[h])
      <4>1. CASE h \in gone
        BY <3>2, <3>3, <4>1 DEF Later
      <4>2. CASE h \notin gone
        BY <3>2, <4>2 DEF Later
      <4> QED BY <4>1, <4>2
    <3> QED BY <3>1, <3>4
  <2>3. /\ groups' = GroupsWithout(gone) /\ saved' = saved /\ marked' = marked \ gone
           /\ bulk' = bulk \ gone /\ dialog' = dialog
        /\ dialog.kind # "deleted"
    BY <1>16 DEF CancelledDeletionEnds
  <2>4. ReportsShape' /\ BulkMarksAreEarned'
    BY <1>3, <2>2, <2>3
  <2>5. content' = content => Plan' = Plan
    <3> SUFFICES ASSUME content' = content PROVE Plan' = Plan
      OBVIOUS
    <3>1. \A f \in gone : content[f] = "gone" 
      <4>1. gone \subseteq File
        BY ItsGroup DEF ReportsShape, MarkableFile, GroupsAreWhole, GroupIsWhole
      <4> QED BY <2>1, <4>1
    <3>2. marked \ gone \subseteq MarkableFile' /\ marked \subseteq MarkableFile
      BY <2>3, <2>4 DEF ReportsShape
    <3>3. Plan = {f \in marked : content[f] = "same"}
      BY <3>2 DEF Plan, MarkableFile, Deletable
    <3>4. Plan' = {f \in marked \ gone : content[f] = "same"}
      BY <2>3, <3>2 DEF Plan, MarkableFile, Deletable
    <3> QED BY <3>1, <3>3, <3>4
  <2>6. PreviewIsCurrent'
    <3> SUFFICES ASSUME dialog.kind = "deletion", dialog.promised # None
                 PROVE  /\ \A h \in File : Later(dialog.promised.over[h], content'[h])
                        /\ dialog.promised.over = content' => dialog.promised.files = Plan'
      BY <2>3 DEF PreviewIsCurrent
    <3>1. \A h \in File : Later(dialog.promised.over[h], content[h])
      BY DEF PreviewIsCurrent
    <3>2. \A h \in File : Later(dialog.promised.over[h], content'[h])
      BY <2>2, <3>1 DEF Later
    <3>3. ASSUME dialog.promised.over = content' PROVE content' = content
      <4>1. \A h \in File : content'[h] = content[h]
        BY <2>2, <3>1, <3>3 DEF Later
      <4> QED BY <2>2, <4>1 DEF ReportsShape
    <3> QED BY <2>5, <3>2, <3>3 DEF PreviewIsCurrent
  <2> QED BY <2>3, <2>4, <2>6 DEF PreviewIsKept
<1>17. ASSUME NEW verify \in BOOLEAN, Proceed(verify) PROVE ReportsInv'
  <2> DEFINE gone == {f \in marked : Deletable(f) /\ (verify => Verified(f))}
             left == gone \cup {f \in marked : content[f] = "gone"}
             promised == IF dialog.promised # None /\ dialog.promised.over = content
                         THEN dialog.promised.files ELSE None
  <2>1. /\ groups' = GroupsWithout(left) /\ marked' = marked \ left /\ bulk' = bulk \ left
        /\ content' = [f \in File |-> IF f \in gone THEN "gone" ELSE content[f]]
        /\ dialog' = [kind |-> "deleted", gone |-> gone, promised |-> promised, verify |-> verify]
        /\ saved' = saved /\ dialog.kind = "deletion"
    BY <1>17 DEF Proceed
  <2>2. left \subseteq marked
    OBVIOUS
  <2>3. content' \in [File -> {"same", "changed", "gone"}]
    BY <2>1 DEF ReportsShape
  <2>4. promised # None => promised = Plan
    BY <2>1 DEF PreviewIsCurrent
  <2>5. Plan = {f \in marked : Deletable(f)}
    BY DEF Plan, ReportsShape, MarkableFile
  <2>6. gone \subseteq Plan /\ (~verify => gone = Plan)
    BY <2>5
  <2> HIDE DEF gone, left, promised
  <2>7. ReportsShape' /\ BulkMarksAreEarned'
    BY <1>3, <2>1, <2>2, <2>3
  <2>8. dialog'.kind = "deleted" /\ dialog'.gone = gone /\ dialog'.promised = promised
        /\ dialog'.verify = verify
    BY <2>1
  <2> QED BY <2>4, <2>6, <2>7, <2>8 DEF PreviewIsCurrent, PreviewIsKept
<1>18. CASE UNCHANGED reportVars
  <2>1. ReportsShape' /\ BulkMarksAreEarned'
    BY <1>2, <1>18 DEF reportVars, ReportsShape
  <2>2. Plan' = Plan /\ content' = content /\ dialog' = dialog
    BY <1>18 DEF reportVars, Plan, IsDupe, InGroups, GroupWith, Deletable
  <2> QED BY <2>1, <2>2 DEF PreviewIsCurrent, PreviewIsKept
<1> QED BY <1>4, <1>5, <1>6, <1>7, <1>8, <1>9, <1>10, <1>11, <1>12, <1>13, <1>14, <1>15, <1>16,
           <1>17, <1>18 DEF ReportsNext

\* BulkMarksAreEarned, for any scan results with each file in one group: a file marked for
\* the confidence of its group was compared in full with every other member that is left
\* (core/confidence.py).
THEOREM BulkMarksStayEarned == ReportsSpec => []BulkMarksAreEarned
<1>1. ReportsInv => BulkMarksAreEarned
  BY DEF ReportsInv
<1> QED BY <1>1, ReportsStart, ReportsInvStep, PTL DEF ReportsSpec

\* PreviewIsKept: with no change in between a deletion deletes what the preview listed, and
\* never more (core/deletion_plan.py, build_plan).
THEOREM PreviewsAreKept == ReportsSpec => []PreviewIsKept
<1>1. ReportsInv => PreviewIsKept
  BY DEF ReportsInv
<1> QED BY <1>1, ReportsStart, ReportsInvStep, PTL DEF ReportsSpec

-----------------------------------------------------------------------------
(* Folders and the pairs that explain the results.                         *)

\* A set of folders that holds the parent of each of its folders.
HoldsParents(S) == \A x \in S : x # Root => Parent[x] \in S
\* What every such set that has d holds.
AtOrAbove(d) == {a \in Folder : \A S \in SUBSET Folder : d \in S /\ HoldsParents(S) => a \in S}

\* The least such set: a folder and what is at or above its parent.
LEMMA AtOrAboveIs ==
  ASSUME NEW d \in Folder
  PROVE  AtOrAbove(d) = IF d = Root THEN {d} ELSE {d} \cup AtOrAbove(Parent[d])
<1>1. Parent[d] \in Folder
  BY ReportConstants
<1>2. CASE d = Root
  <2>1. HoldsParents({d})
    BY <1>2 DEF HoldsParents
  <2> QED BY <1>2, <2>1 DEF AtOrAbove
<1>3. CASE d # Root
  <2>1. ASSUME NEW a \in {d} \cup AtOrAbove(Parent[d]) PROVE a \in AtOrAbove(d)
    BY <1>1, <1>3, <2>1 DEF AtOrAbove, HoldsParents
  <2>2. HoldsParents({d} \cup AtOrAbove(Parent[d]))
    <3>1. ASSUME NEW x \in AtOrAbove(Parent[d]), x # Root
          PROVE  Parent[x] \in AtOrAbove(Parent[d])
      <4>1. Parent[x] \in Folder
        BY <3>1, ReportConstants DEF AtOrAbove
      <4> QED BY <3>1, <4>1 DEF AtOrAbove, HoldsParents
    <3>2. Parent[d] \in AtOrAbove(Parent[d])
      BY <1>1 DEF AtOrAbove
    <3> QED BY <3>1, <3>2 DEF HoldsParents
  <2>3. {d} \cup AtOrAbove(Parent[d]) \in SUBSET Folder
    BY DEF AtOrAbove
  <2>4. AtOrAbove(d) \subseteq {d} \cup AtOrAbove(Parent[d])
    BY <2>2, <2>3 DEF AtOrAbove
  <2> QED BY <1>3, <2>1, <2>4
<1> QED BY <1>2, <1>3

\* The function of the model exists, and is what its definition says.
LEMMA AncestorsAre ==
  ASSUME NEW d \in Folder
  PROVE  Ancestors[d] = IF d = Root THEN {d} ELSE {d} \cup Ancestors[Parent[d]]
<1> DEFINE Rec(f) == f = [x \in Folder |-> IF x = Root THEN {x} ELSE {x} \cup f[Parent[x]]]
           f == CHOOSE f : Rec(f)
<1>1. Rec([x \in Folder |-> AtOrAbove(x)])
  <2> DEFINE g == [x \in Folder |-> AtOrAbove(x)]
  <2>1. \A x \in Folder : g[x] = IF x = Root THEN {x} ELSE {x} \cup g[Parent[x]]
    <3> TAKE x \in Folder
    <3>1. Parent[x] \in Folder
      BY ReportConstants
    <3> QED BY <3>1, AtOrAboveIs
  <2> QED BY <2>1
<1>2. Rec(f)
  BY <1>1
<1>3. Ancestors = [x \in Folder |-> f[x]]
  BY DEF Ancestors
<1> HIDE DEF f
<1>4. Parent[d] \in Folder
  BY ReportConstants
<1> QED BY <1>2, <1>3, <1>4

\* The same by cases.
LEMMA AncestorsStep ==
  ASSUME NEW d \in Folder
  PROVE  /\ d = Root => Ancestors[d] = {d}
         /\ d # Root => Parent[d] \in Folder /\ Ancestors[d] = {d} \cup Ancestors[Parent[d]]
<1>1. Ancestors[d] = IF d = Root THEN {d} ELSE {d} \cup Ancestors[Parent[d]]
  BY AncestorsAre
<1>2. Parent[d] \in Folder
  BY ReportConstants
<1>3. CASE d = Root
  BY <1>1, <1>3
<1>4. CASE d # Root
  BY <1>1, <1>2, <1>4
<1> QED BY <1>3, <1>4

\* What each folder takes over from its parent holds of all folders.
LEMMA Descend ==
  ASSUME NEW good, \A d \in Folder : (d # Root => Parent[d] \in good) => d \in good
  PROVE  Folder \subseteq good
<1>1. ASSUME Folder \ good # {} PROVE FALSE
  <2>1. Root \in good
    BY ReportConstants
  <2>2. Folder \ good \in SUBSET (Folder \ {Root})
    BY <2>1
  <2>3. PICK d \in Folder \ good : Parent[d] \notin Folder \ good
    BY <1>1, <2>2, ReportConstants
  <2>4. Parent[d] \in Folder
    BY ReportConstants
  <2> QED BY <2>3, <2>4
<1> QED BY <1>1

\* A folder is one of its ancestors, which are finitely many folders.
LEMMA AncestorFacts ==
  ASSUME NEW d \in Folder
  PROVE  /\ d \in Ancestors[d] /\ Ancestors[d] \subseteq Folder
         /\ IsFiniteSet(Ancestors[d]) /\ Depth(d) \in Nat
<1> DEFINE good == {x \in Folder : Ancestors[x] \subseteq Folder}
<1>1. ASSUME NEW x \in Folder, x # Root => Parent[x] \in good PROVE x \in good
  BY <1>1, AncestorsStep
<1>2. Folder \subseteq good
  <2> HIDE DEF good
  <2> QED BY <1>1, Descend
<1>3. d \in Ancestors[d] /\ Ancestors[d] \subseteq Folder
  BY <1>2, AncestorsStep
<1>4. IsFiniteSet(Ancestors[d])
  BY <1>3, ReportConstants, FS_Subset
<1> QED BY <1>3, <1>4, FS_CardinalityType DEF Depth

\* What is above an ancestor is one.
LEMMA AncestorsOfAncestors ==
  ASSUME NEW d \in Folder, NEW a \in Ancestors[d]
  PROVE  Ancestors[a] \subseteq Ancestors[d]
<1> DEFINE good == {x \in Folder : \A b \in Ancestors[x] : Ancestors[b] \subseteq Ancestors[x]}
<1>1. ASSUME NEW x \in Folder, x # Root => Parent[x] \in good PROVE x \in good
  <2>1. ASSUME NEW b \in Ancestors[x], b # x PROVE Ancestors[b] \subseteq Ancestors[x]
    BY <1>1, <2>1, AncestorsStep
  <2> QED BY <2>1
<1>2. Folder \subseteq good
  <2> HIDE DEF good
  <2> QED BY <1>1, Descend
<1> QED BY <1>2

\* No folder is above its parent.
LEMMA NotAboveParent ==
  ASSUME NEW d \in Folder, d # Root
  PROVE  d \notin Ancestors[Parent[d]]
<1> SUFFICES ASSUME d \in Ancestors[Parent[d]] PROVE FALSE
  OBVIOUS
<1> DEFINE ds == {y \in Folder \ {Root} : d \in Ancestors[y] /\ y \in Ancestors[d]}
<1>1. d \in ds
  BY AncestorFacts
<1>2. ASSUME NEW y \in ds PROVE Parent[y] \in ds
  <2>1. Parent[y] \in Folder /\ Ancestors[y] = {y} \cup Ancestors[Parent[y]]
    BY AncestorsStep
  <2>2. d \in Ancestors[Parent[y]]
    BY <2>1
  <2>3. Parent[y] # Root
    BY <2>1, <2>2, AncestorsStep
  <2>4. Parent[y] \in Ancestors[y]
    BY <2>1, AncestorFacts
  <2>5. Parent[y] \in Ancestors[d]
    BY <2>4, AncestorsOfAncestors
  <2> QED BY <2>1, <2>2, <2>3, <2>5
<1>3. ds \in SUBSET (Folder \ {Root}) /\ ds # {}
  BY <1>1
<1> HIDE DEF ds
<1> QED BY <1>2, <1>3, ReportConstants

\* An inner folder is deeper.
LEMMA InnerIsDeeper ==
  ASSUME NEW d \in Folder, NEW a \in Ancestors[d], a # d
  PROVE  Depth(a) < Depth(d)
<1> DEFINE good == {x \in Folder : \A b \in Ancestors[x] : b # x => Depth(b) < Depth(x)}
<1>1. ASSUME NEW x \in Folder, x # Root => Parent[x] \in good PROVE x \in good
  <2>1. ASSUME NEW b \in Ancestors[x], b # x PROVE Depth(b) < Depth(x)
    <3>1. x # Root /\ Ancestors[x] = {x} \cup Ancestors[Parent[x]] /\ b \in Ancestors[Parent[x]]
      BY <2>1, AncestorsStep
    <3>2. Parent[x] \in Folder
      BY ReportConstants
    <3>3. x \notin Ancestors[Parent[x]] /\ IsFiniteSet(Ancestors[Parent[x]])
      BY <3>1, <3>2, NotAboveParent, AncestorFacts
    <3>4. Cardinality(Ancestors[Parent[x]] \cup {x}) = Cardinality(Ancestors[Parent[x]]) + 1
      BY <3>3, FS_AddElement
    <3>5. Ancestors[x] = Ancestors[Parent[x]] \cup {x}
      BY <3>1
    <3>6. Depth(x) = Depth(Parent[x]) + 1
      BY <3>4, <3>5 DEF Depth
    <3>7. b = Parent[x] \/ Depth(b) < Depth(Parent[x])
      BY <1>1, <3>1
    <3>8. b \in Folder
      BY <3>1, <3>2, AncestorFacts
    <3> HIDE DEF good
    <3>9. Depth(b) \in Nat /\ Depth(Parent[x]) \in Nat
      BY <3>2, <3>8, AncestorFacts
    <3> QED BY <3>6, <3>7, <3>9
  <2> QED BY <2>1
<1>2. Folder \subseteq good
  <2> HIDE DEF good
  <2> QED BY <1>1, Descend
<1> QED BY <1>2

\* What qualifies is finitely much: pairs of folders with all the files they explain.
LEMMA QualifyingAre ==
  ASSUME GroupsAreWhole(groups)
  PROVE  /\ IsFiniteSet(Qualifying)
         /\ \A e \in Qualifying : /\ e = [pair |-> e.pair, files |-> e.files]
                                  /\ e.pair \in Folder \X Folder
                                  /\ e.files = Explained(e.pair) /\ e.files \subseteq MarkableFile
                                  /\ IsFiniteSet(e.files)
<1>1. IsFiniteSet(MarkableFile)
  <2>1. MarkableFile \subseteq File
    BY DEF MarkableFile, InGroups, GroupsAreWhole, GroupIsWhole
  <2> QED BY <2>1, FS_Subset, ReportConstants
<1>2. ASSUME NEW f \in MarkableFile PROVE CandidatePairs(f) \subseteq Folder \X Folder
  <2>1. GroupWith(f) \in groups /\ f \in GroupWith(f).members
    BY ItsGroup DEF MarkableFile
  <2>2. f \in File /\ GroupWith(f).ref \in File
    BY <2>1 DEF GroupsAreWhole, GroupIsWhole
  <2>3. FolderOf[f] \in Folder /\ FolderOf[GroupWith(f).ref] \in Folder
    BY <2>2, ReportConstants
  <2>4. Above(f) \subseteq Folder /\ Above(GroupWith(f).ref) \subseteq Folder
    BY <2>3, AncestorFacts DEF Above
  <2> QED BY <2>4 DEF CandidatePairs
<1>3. ASSUME NEW e \in Qualifying
      PROVE  /\ e = [pair |-> e.pair, files |-> e.files] /\ e.pair \in Folder \X Folder
             /\ e.files = Explained(e.pair) /\ e.files \subseteq MarkableFile /\ IsFiniteSet(e.files)
  <2>1. PICK pair \in UNION {CandidatePairs(f) : f \in MarkableFile} :
               e = [pair |-> pair, files |-> Explained(pair)]
    BY DEF Qualifying, Explanations
  <2>2. pair \in Folder \X Folder
    BY <1>2, <2>1
  <2>3. Explained(pair) \subseteq MarkableFile
    BY DEF Explained
  <2>4. e.pair = pair /\ e.files = Explained(pair)
    BY <2>1
  <2> QED BY <1>1, <2>1, <2>2, <2>3, <2>4, FS_Subset
<1>4. IsFiniteSet(Qualifying)
  <2> DEFINE g == [e \in Qualifying |-> e.pair]
  <2>1. IsFiniteSet(Folder \X Folder)
    BY FS_Product, ReportConstants
  <2>2. ASSUME NEW d \in Qualifying, NEW e \in Qualifying, d.pair = e.pair PROVE d = e
    <3>1. d = [pair |-> d.pair, files |-> Explained(d.pair)] /\ e = [pair |-> e.pair, files |-> Explained(e.pair)]
      BY <1>3
    <3> QED BY <2>2, <3>1
  <2>3. g \in Injection(Qualifying, Folder \X Folder)
    <3>1. g \in [Qualifying -> Folder \X Folder]
      BY <1>3
    <3>2. \A d, e \in Qualifying : g[d] = g[e] => d = e
      BY <2>2
    <3> HIDE DEF g
    <3> QED BY <3>1, <3>2 DEF Injection, IsInjective
  <2> HIDE DEF g
  <2> QED BY <2>1, <2>3, FS_Injection
<1> QED BY <1>3, <1>4

\* Numbers that are bounded have a largest one.
LEMMA LargestOf ==
  ASSUME NEW S \in SUBSET Nat, S # {}, NEW bound \in Nat, \A x \in S : x <= bound
  PROVE  \E m \in S : \A x \in S : x <= m
<1> DEFINE T == {bound - x : x \in S}
<1>1. T \subseteq Nat /\ T # {}
  <2>1. ASSUME NEW t \in T PROVE t \in Nat
    <3>1. PICK x \in S : t = bound - x
      OBVIOUS
    <3>2. x \in Nat /\ x <= bound
      OBVIOUS
    <3> QED BY <3>1, <3>2
  <2>2. PICK x \in S : TRUE
    OBVIOUS
  <2>3. bound - x \in T
    OBVIOUS
  <2> QED BY <2>1, <2>3
<1> HIDE DEF T
<1>2. PICK t \in T : \A u \in T : <<u, t>> \notin OpToRel(<, Nat)
  BY <1>1, NatLessThanWellFounded, WFMin
<1>3. PICK m \in S : t = bound - m
  BY DEF T
<1>4. ASSUME NEW x \in S PROVE x <= m
  <2>1. bound - x \in T /\ bound - x \in Nat
    BY <1>1 DEF T
  <2>2. ~(bound - x < t)
    BY <1>1, <1>2, <2>1 DEF OpToRel
  <2> QED BY <1>3, <2>2
<1> QED BY <1>4

\* Of what qualifies some pair comes first.
LEMMA LeadingIs ==
  ASSUME GroupsAreWhole(groups), NEW left \in SUBSET Qualifying, left # {}
  PROVE  Leading(left) \in left /\ \A d \in left : ~Foremost(d, Leading(left))
<1> DEFINE n(e) == Cardinality(e.files)
<1>1. ASSUME NEW e \in left
      PROVE  /\ n(e) \in Nat /\ n(e) <= Cardinality(File)
             /\ Depth(e.pair[1]) \in Nat /\ Depth(e.pair[1]) <= Cardinality(Folder)
             /\ Depth(e.pair[2]) \in Nat /\ Depth(e.pair[2]) <= Cardinality(Folder)
  <2>1. e.pair[1] \in Folder /\ e.pair[2] \in Folder /\ IsFiniteSet(e.files) /\ e.files \subseteq MarkableFile
    BY QualifyingAre
  <2>2. e.files \subseteq File
    BY <2>1 DEF MarkableFile, InGroups, GroupsAreWhole, GroupIsWhole
  <2>3. ASSUME NEW d \in Folder PROVE Depth(d) \in Nat /\ Depth(d) <= Cardinality(Folder)
    BY AncestorFacts, ReportConstants, FS_Subset DEF Depth
  <2>4. n(e) \in Nat /\ n(e) <= Cardinality(File)
    BY <2>1, <2>2, FS_Subset, FS_CardinalityType, ReportConstants
  <2> QED BY <2>1, <2>3, <2>4
<1>2. Cardinality(File) \in Nat /\ Cardinality(Folder) \in Nat
  BY ReportConstants, FS_CardinalityType
<1>3. PICK e1 \in left : \A d \in left : n(d) <= n(e1)
  <2> DEFINE S == {n(e) : e \in left}
  <2>1. S \in SUBSET Nat /\ S # {} /\ \A x \in S : x <= Cardinality(File)
    BY <1>1
  <2>2. PICK m \in S : \A x \in S : x <= m
    <3> HIDE DEF S
    <3> QED BY <1>2, <2>1, LargestOf
  <2> QED BY <2>2
<1>4. PICK e2 \in left : n(e2) = n(e1) /\ \A d \in left : n(d) = n(e1) => Depth(d.pair[1]) <= Depth(e2.pair[1])
  <2> DEFINE S == {Depth(e.pair[1]) : e \in {d \in left : n(d) = n(e1)}}
  <2>1. S \in SUBSET Nat /\ S # {} /\ \A x \in S : x <= Cardinality(Folder)
    BY <1>1
  <2>2. PICK m \in S : \A x \in S : x <= m
    <3> HIDE DEF S
    <3> QED BY <1>2, <2>1, LargestOf
  <2> QED BY <2>2
<1>5. PICK e3 \in left :
         /\ n(e3) = n(e1) /\ Depth(e3.pair[1]) = Depth(e2.pair[1])
         /\ \A d \in left : n(d) = n(e1) /\ Depth(d.pair[1]) = Depth(e2.pair[1])
                              => Depth(d.pair[2]) <= Depth(e3.pair[2])
  <2> DEFINE S == {Depth(e.pair[2]) : e \in {d \in left : n(d) = n(e1) /\ Depth(d.pair[1]) = Depth(e2.pair[1])}}
  <2>1. S \in SUBSET Nat /\ S # {} /\ \A x \in S : x <= Cardinality(Folder)
    BY <1>1, <1>4
  <2>2. PICK m \in S : \A x \in S : x <= m
    <3> HIDE DEF S
    <3> QED BY <1>2, <2>1, LargestOf
  <2> QED BY <2>2
<1>6. ASSUME NEW d \in left PROVE ~Foremost(d, e3)
  BY <1>1, <1>3, <1>4, <1>5 DEF Foremost
<1> QED BY <1>6 DEF Leading

\* Of two pairs that explain the same files the innermost comes before the other.
LEMMA InnermostFirst ==
  ASSUME NEW p \in Folder \X Folder, NEW q \in Folder \X Folder, p # q,
         q[1] \in Ancestors[p[1]], q[2] \in Ancestors[p[2]], NEW same, IsFiniteSet(same)
  PROVE  Foremost([pair |-> p, files |-> same], [pair |-> q, files |-> same])
<1>1. p[1] \in Folder /\ p[2] \in Folder /\ q[1] \in Folder /\ q[2] \in Folder
  OBVIOUS
<1>2. p[1] # q[1] \/ p[2] # q[2]
  OBVIOUS
<1>3. (p[1] # q[1] => Depth(q[1]) < Depth(p[1])) /\ (p[2] # q[2] => Depth(q[2]) < Depth(p[2]))
  BY <1>1, InnerIsDeeper
<1>4. Depth(p[1]) \in Nat /\ Depth(p[2]) \in Nat /\ Depth(q[1]) \in Nat /\ Depth(q[2]) \in Nat
  BY <1>1, AncestorFacts
<1> QED BY <1>2, <1>3, <1>4 DEF Foremost


\* The claims after each of what qualifies.
AreClaims(f, n) == f = [k \in 0..n |-> IF k = 0 THEN NothingClaimed ELSE ClaimFirst(f[k - 1])]

\* However much qualifies, there are claims after each.
LEMMA ClaimsExist ==
  ASSUME NEW N \in Nat
  PROVE  \E f : AreClaims(f, N)
<1> DEFINE Lacking == {n \in Nat : ~\E f : AreClaims(f, n)}
<1> SUFFICES ASSUME Lacking # {} PROVE FALSE
  OBVIOUS
<1>1. PICK n \in Lacking : \A k \in Lacking : ~(k < n)
  <2>1. PICK n \in Lacking : \A k \in Lacking : <<k, n>> \notin OpToRel(<, Nat)
    BY NatLessThanWellFounded, WFMin
  <2>2. ASSUME NEW k \in Lacking PROVE ~(k < n)
    BY <2>1 DEF OpToRel
  <2> QED BY <2>2
<1>2. n # 0
  <2>1. AreClaims([k \in 0..0 |-> NothingClaimed], 0)
    BY DEF AreClaims
  <2> QED BY <2>1
<1>3. n - 1 \in Nat /\ n - 1 \notin Lacking
  BY <1>1, <1>2
<1>4. PICK f : AreClaims(f, n - 1)
  BY <1>3
<1> DEFINE g == [k \in 0..n |-> IF k <= n - 1 THEN f[k] ELSE ClaimFirst(f[n - 1])]
<1>5. \A k \in 0..(n - 1) : f[k] = IF k = 0 THEN NothingClaimed ELSE ClaimFirst(f[k - 1])
  BY <1>4 DEF AreClaims
<1>6. \A k \in 0..(n - 1) : g[k] = f[k]
  BY <1>3
<1>7. ASSUME NEW k \in 0..n
      PROVE  g[k] = IF k = 0 THEN NothingClaimed ELSE ClaimFirst(g[k - 1])
  <2>1. CASE k = 0
    BY <1>3, <1>5, <2>1
  <2>2. CASE k # 0 /\ k <= n - 1
    <3>1. k - 1 \in 0..(n - 1) /\ k \in 0..(n - 1)
      BY <2>2
    <3> HIDE DEF g
    <3> QED BY <1>5, <1>6, <2>2, <3>1
  <2>3. CASE k = n
    <3>1. g[k] = ClaimFirst(f[n - 1])
      BY <1>3, <2>3
    <3>2. n - 1 \in 0..(n - 1)
      BY <1>3
    <3> HIDE DEF g
    <3> QED BY <1>2, <1>6, <2>3, <3>1, <3>2
  <2> QED BY <2>1, <2>2, <2>3
<1>8. AreClaims(g, n)
  <2>1. g = [k \in 0..n |-> g[k]]
    OBVIOUS
  <2> HIDE DEF g
  <2> QED BY <1>7, <2>1 DEF AreClaims
<1> QED BY <1>8

\* A row with all that its folders explain.
Own(r) == [pair |-> r.pair, files |-> Explained(r.pair)]

\* What is true of the claims all along: rows are large enough and share no file, no pair that
\* explains the same files comes before that of a row, and of what was looked at too little is left
\* for another row.
ClaimsOK(c) ==
  /\ c = [left |-> c.left, claimed |-> c.claimed, rows |-> c.rows]
  /\ c.left \subseteq Qualifying /\ c.claimed = UNION {r.files : r \in c.rows}
  /\ \A r \in c.rows : r.pair \in Folder \X Folder /\ r.files \subseteq MarkableFile
                       /\ Cardinality(r.files) >= RollupFiles
  /\ \A r, s \in c.rows : r = s \/ r.files \cap s.files = {}
  /\ \A r \in c.rows : \A e \in Qualifying : e.files = Explained(r.pair) => ~Foremost(e, Own(r))
  /\ \A e \in Qualifying \ c.left : Cardinality(e.files \ c.claimed) < RollupFiles

\* Another claim leaves that true.
LEMMA ClaimsStayOK ==
  ASSUME GroupsAreWhole(groups), NEW c, ClaimsOK(c), c.left # {}
  PROVE  /\ ClaimsOK(ClaimFirst(c))
         /\ \E e \in c.left : ClaimFirst(c).left = c.left \ {e}
<1> DEFINE d == Leading(c.left)
           rest == [c EXCEPT !.left = @ \ {d}]
           remaining == d.files \ c.claimed
           row == [pair |-> d.pair, files |-> remaining]
           new == ClaimFirst(c)
<1>1. d \in c.left /\ \A e \in c.left : ~Foremost(e, d)
  BY LeadingIs DEF ClaimsOK
<1>2. /\ d \in Qualifying /\ d = [pair |-> d.pair, files |-> d.files] /\ d.pair \in Folder \X Folder
      /\ d.files = Explained(d.pair) /\ d.files \subseteq MarkableFile /\ IsFiniteSet(d.files)
  BY <1>1, QualifyingAre DEF ClaimsOK
<1>3. rest = [left |-> c.left \ {d}, claimed |-> c.claimed, rows |-> c.rows]
  <2>1. c = [left |-> c.left, claimed |-> c.claimed, rows |-> c.rows]
    BY DEF ClaimsOK
  <2> HIDE DEF d
  <2> QED BY <2>1
<1>4. new = IF Cardinality(remaining) < RollupFiles THEN rest
            ELSE [rest EXCEPT !.claimed = @ \cup remaining, !.rows = @ \cup {row}]
  BY <1>3 DEF ClaimFirst, Claim
<1>5. Cardinality(remaining) \in Nat /\ RollupFiles \in Nat /\ RollupFiles > 0
  BY <1>2, FS_Subset, FS_CardinalityType, ReportConstants
<1> HIDE DEF d, new, rest
<1>6. CASE Cardinality(remaining) < RollupFiles
  <2>1. new = [left |-> c.left \ {d}, claimed |-> c.claimed, rows |-> c.rows]
    BY <1>3, <1>4, <1>6
  <2>2. new.left = c.left \ {d} /\ new.claimed = c.claimed /\ new.rows = c.rows
    BY <2>1
  <2>3. \A e \in Qualifying \ new.left : Cardinality(e.files \ new.claimed) < RollupFiles
    BY <1>6, <2>2 DEF ClaimsOK
  <2>4. new = [left |-> new.left, claimed |-> new.claimed, rows |-> new.rows]
    BY <2>1, <2>2
  <2>5. ClaimsOK(new)
    BY <2>2, <2>3, <2>4 DEF ClaimsOK
  <2> QED BY <1>1, <2>2, <2>5 DEF new
<1>7. CASE ~(Cardinality(remaining) < RollupFiles)
  <2>1. new = [left |-> c.left \ {d}, claimed |-> c.claimed \cup remaining, rows |-> c.rows \cup {row}]
    BY <1>3, <1>4, <1>7
  <2> DEFINE more == c.claimed \cup remaining
             all == c.rows \cup {row}
  <2>2. new.left = c.left \ {d} /\ new.claimed = more /\ new.rows = all
    BY <2>1
  <2>3. row.files = remaining /\ row.pair = d.pair
    OBVIOUS
  <2> HIDE DEF row
  <2>4. more = UNION {r.files : r \in all}
    <3>1. c.claimed = UNION {r.files : r \in c.rows}
      BY DEF ClaimsOK
    <3> HIDE DEF remaining
    <3>2. ASSUME NEW x \in more PROVE x \in UNION {r.files : r \in all}
      BY <2>3, <3>1
    <3>3. ASSUME NEW r \in all PROVE r.files \subseteq more
      BY <2>3, <3>1
    <3> QED BY <3>2, <3>3
  <2>5. ASSUME NEW r \in all
        PROVE  /\ r.pair \in Folder \X Folder /\ r.files \subseteq MarkableFile
               /\ Cardinality(r.files) >= RollupFiles
    <3>1. CASE r \in c.rows
      BY <3>1 DEF ClaimsOK
    <3>2. CASE r = row
      <4>1. remaining \subseteq MarkableFile /\ Cardinality(remaining) >= RollupFiles
        BY <1>2, <1>5, <1>7
      <4> QED BY <1>2, <2>3, <3>2, <4>1
    <3> QED BY <3>1, <3>2
  <2>6. \A r \in c.rows : r.files \cap remaining = {}
    BY DEF ClaimsOK
  <2>7. \A r, s \in all : r = s \/ r.files \cap s.files = {}
    BY <2>3, <2>6 DEF ClaimsOK
  <2>8. ASSUME NEW e \in Qualifying \ (c.left \ {d})
        PROVE  Cardinality(e.files \ more) < RollupFiles
    <3>1. CASE e = d
      <4>1. e.files \ more = {}
        BY <3>1
      <4> QED BY <1>5, <4>1, FS_EmptySet
    <3>2. CASE e # d
      <4>1. Cardinality(e.files \ c.claimed) < RollupFiles /\ e \in Qualifying
        BY <2>8, <3>2 DEF ClaimsOK
      <4>2. IsFiniteSet(e.files \ c.claimed) /\ e.files \ more \subseteq e.files \ c.claimed
        BY <4>1, QualifyingAre, FS_Subset
      <4>3. /\ Cardinality(e.files \ more) <= Cardinality(e.files \ c.claimed)
            /\ Cardinality(e.files \ more) \in Nat /\ Cardinality(e.files \ c.claimed) \in Nat
        <5> HIDE DEF more
        <5> QED BY <4>2, FS_Subset, FS_CardinalityType
      <4> QED BY <1>5, <4>1, <4>3
    <3> QED BY <3>1, <3>2
  <2>9. Own(row) = d
    BY <1>2, <2>3 DEF Own
  <2>10. ASSUME NEW r \in all, NEW e \in Qualifying, e.files = Explained(r.pair)
         PROVE  ~Foremost(e, Own(r))
    <3>1. CASE r \in c.rows
      BY <2>10, <3>1 DEF ClaimsOK
    <3>2. CASE r = row
      <4>1. e.files = d.files
        BY <1>2, <2>3, <2>10, <3>2
      <4>2. e \in c.left
        BY <1>7, <4>1 DEF ClaimsOK
      <4> QED BY <1>1, <2>9, <3>2, <4>2
    <3> QED BY <3>1, <3>2
  <2> HIDE DEF more, all, remaining
  <2>11. new = [left |-> new.left, claimed |-> new.claimed, rows |-> new.rows]
    BY <2>1, <2>2 DEF more, all
  <2>12. new.left \subseteq Qualifying
    BY <2>2 DEF ClaimsOK
  <2>13. ClaimsOK(new)
    BY <2>2, <2>4, <2>5, <2>7, <2>8, <2>10, <2>11, <2>12 DEF ClaimsOK
  <2> QED BY <1>1, <2>2, <2>13 DEF new
<1> QED BY <1>6, <1>7

\* The rows are what the claims came to.
LEMMA RollupRowsAre ==
  ASSUME GroupsAreWhole(groups)
  PROVE  \E c : ClaimsOK(c) /\ Rows = c.rows
<1> DEFINE N == Cardinality(Qualifying)
           f == CHOOSE f : f = [n \in 0..N |-> IF n = 0 THEN NothingClaimed ELSE ClaimFirst(f[n - 1])]
<1>1. Rows = f[N].rows
  BY DEF Rows
<1>2. N \in Nat /\ IsFiniteSet(Qualifying)
  BY QualifyingAre, FS_CardinalityType
<1>3. f = [n \in 0..N |-> IF n = 0 THEN NothingClaimed ELSE ClaimFirst(f[n - 1])]
  BY <1>2, ClaimsExist DEF AreClaims
<1> HIDE DEF f
<1> DEFINE Good(n) == ClaimsOK(f[n]) /\ IsFiniteSet(f[n].left) /\ Cardinality(f[n].left) = N - n
           Bad == {n \in 0..N : ~Good(n)}
<1>4. Good(0)
  <2>1. f[0] = NothingClaimed
    BY <1>2, <1>3
  <2>2. /\ f[0].left = Qualifying /\ f[0].claimed = {} /\ f[0].rows = {}
        /\ f[0] = [left |-> f[0].left, claimed |-> f[0].claimed, rows |-> f[0].rows]
    BY <2>1 DEF NothingClaimed
  <2> HIDE DEF N
  <2> QED BY <1>2, <2>2 DEF ClaimsOK, N
<1>5. ASSUME NEW n \in 1..N, Good(n - 1) PROVE Good(n)
  <2>1. f[n] = ClaimFirst(f[n - 1])
    BY <1>2, <1>3
  <2>2. f[n - 1].left # {}
    BY <1>2, <1>5, FS_EmptySet
  <2>3. ClaimsOK(f[n])
    BY <1>5, <2>1, <2>2, ClaimsStayOK
  <2>4. PICK e \in f[n - 1].left : f[n].left = f[n - 1].left \ {e}
    BY <1>5, <2>1, <2>2, ClaimsStayOK
  <2>5. IsFiniteSet(f[n].left) /\ Cardinality(f[n].left) = Cardinality(f[n - 1].left) - 1
    BY <1>5, <2>4, FS_RemoveElement
  <2> HIDE DEF N
  <2> QED BY <1>2, <1>5, <2>3, <2>5
<1> HIDE DEF Good, N
<1>6. Bad = {}
  <2> SUFFICES ASSUME Bad # {} PROVE FALSE
    OBVIOUS
  <2>1. Bad \subseteq Nat
    BY <1>2
  <2>2. PICK n \in Bad : \A k \in Bad : <<k, n>> \notin OpToRel(<, Nat)
    BY <2>1, NatLessThanWellFounded, WFMin
  <2>3. n # 0 /\ n \in 0..N
    BY <1>4, <2>2
  <2>4. n - 1 \in 0..N /\ n \in 1..N /\ n - 1 < n
    BY <1>2, <2>3
  <2>5. n - 1 \notin Bad
    BY <1>2, <2>1, <2>2, <2>4 DEF OpToRel
  <2> QED BY <1>5, <2>2, <2>4, <2>5
<1>7. Good(N)
  BY <1>2, <1>6
<1> QED BY <1>1, <1>7 DEF Good

\* Beside the partition: files are only ever taken away from what a report was made of.
RollupInv == RowsPartition /\ (dialog.kind = "rollup" => MarkableFile \subseteq dialog.over)

\* A new report is right.
LEMMA NewReport ==
  ASSUME GroupsAreWhole(groups), OpenRollup
  PROVE  RollupInv'
<1>1. PICK c : ClaimsOK(c) /\ Rows = c.rows
  BY RollupRowsAre
<1>2. /\ dialog'.kind = "rollup" /\ dialog'.rows = c.rows /\ dialog'.over = MarkableFile
      /\ dialog'.unexplained = MarkableFile \ UNION {r.files : r \in c.rows}
  BY <1>1 DEF OpenRollup, Rollup
<1>3. groups' = groups
  BY DEF OpenRollup
<1>4. MarkableFile' = MarkableFile /\ \A f : CandidatePairs(f)' = CandidatePairs(f)
  BY <1>3 DEF MarkableFile, IsDupe, InGroups, GroupWith, IsReference, CandidatePairs
<1>5. \A pair : Explained(pair)' = Explained(pair)
  BY <1>4 DEF Explained
<1>6. Qualifying' = Qualifying
  <2>1. Explanations' = Explanations
    BY <1>4, <1>5 DEF Explanations
  <2>2. \A x : OriginTotal(x)' = OriginTotal(x)
    BY <1>4 DEF OriginTotal
  <2> QED BY <2>1, <2>2 DEF Qualifying
<1>7. MarkableFile = dialog'.unexplained \cup UNION {r.files : r \in c.rows}
  <2>1. UNION {r.files : r \in c.rows} \subseteq MarkableFile
    BY <1>1 DEF ClaimsOK
  <2> QED BY <1>2, <2>1
<1>8. ASSUME NEW r \in c.rows, NEW e \in Qualifying, e.pair # r.pair, e.files = Explained(r.pair),
             r.pair[1] \in Ancestors[e.pair[1]], r.pair[2] \in Ancestors[e.pair[2]]
      PROVE  FALSE
  <2>1. /\ e = [pair |-> e.pair, files |-> e.files] /\ e.pair \in Folder \X Folder
        /\ IsFiniteSet(e.files)
    BY QualifyingAre
  <2>2. r.pair \in Folder \X Folder
    BY <1>1 DEF ClaimsOK
  <2>3. Foremost([pair |-> e.pair, files |-> e.files], [pair |-> r.pair, files |-> e.files])
    BY <1>8, <2>1, <2>2, InnermostFirst
  <2>4. Foremost(e, Own(r))
    BY <1>8, <2>1, <2>3 DEF Own
  <2> QED BY <1>1, <1>8, <2>4 DEF ClaimsOK
<1>9. \A r, s \in dialog'.rows : r = s \/ r.files \cap s.files = {}
  BY <1>1, <1>2 DEF ClaimsOK
<1>10. \A r \in dialog'.rows : Cardinality(r.files) >= RollupFiles
  BY <1>1, <1>2 DEF ClaimsOK
<1>11. \A r \in dialog'.rows : ~\E e \in Qualifying' :
         /\ e.pair # r.pair /\ e.files = Explained(r.pair)'
         /\ r.pair[1] \in Ancestors[e.pair[1]] /\ r.pair[2] \in Ancestors[e.pair[2]]
  BY <1>2, <1>5, <1>6, <1>8
<1>12. MarkableFile' = dialog'.over /\ dialog'.unexplained \cup UNION {r.files : r \in dialog'.rows} = dialog'.over
  BY <1>2, <1>4, <1>7
<1> QED BY <1>9, <1>10, <1>11, <1>12 DEF RollupInv, RowsPartition

\* A report that stays open, over the same results.
LEMMA ReportStays ==
  ASSUME RollupInv, dialog' = dialog, groups' = groups
  PROVE  RollupInv'
<1>1. MarkableFile' = MarkableFile /\ \A f : CandidatePairs(f)' = CandidatePairs(f)
  BY DEF MarkableFile, IsDupe, InGroups, GroupWith, IsReference, CandidatePairs
<1>2. \A pair : Explained(pair)' = Explained(pair)
  BY <1>1 DEF Explained
<1>3. Qualifying' = Qualifying
  <2>1. Explanations' = Explanations
    BY <1>1, <1>2 DEF Explanations
  <2>2. \A x : OriginTotal(x)' = OriginTotal(x)
    BY <1>1 DEF OriginTotal
  <2> QED BY <2>1, <2>2 DEF Qualifying
<1> QED BY <1>1, <1>2, <1>3 DEF RollupInv, RowsPartition

\* One that a deletion ends beneath is over more than what is left.
LEMMA ReportAges ==
  ASSUME ReportsShape, RollupInv, NEW gone \in SUBSET marked, CancelledDeletionEnds(gone)
  PROVE  RollupInv'
<1> SUFFICES ASSUME dialog.kind = "rollup" PROVE RollupInv'
  BY DEF CancelledDeletionEnds, RollupInv, RowsPartition
<1>1. dialog' = dialog /\ gone # {} /\ gone \subseteq marked /\ groups' = GroupsWithout(gone)
  BY DEF CancelledDeletionEnds
<1>2. GroupsAreWhole(groups') /\ \A f \in File : IsDupe(f)' => IsDupe(f) /\ f \notin gone
  BY <1>1, Removes
<1>3. ASSUME NEW f \in MarkableFile' PROVE f \in MarkableFile \ gone
  <2>1. IsDupe(f)' /\ ~IsReference(f) /\ f \in InGroups'
    BY <1>3 DEF MarkableFile, IsReference
  <2>2. PICK g \in groups' : f \in g.members
    BY <2>1 DEF InGroups
  <2>3. f \in File
    BY <1>2, <2>2 DEF GroupsAreWhole, GroupIsWhole
  <2> QED BY <1>2, <2>1, <2>3 DEF MarkableFile, IsDupe
<1>4. gone \subseteq MarkableFile /\ MarkableFile \subseteq dialog.over
  BY <1>1 DEF ReportsShape, RollupInv
<1>5. MarkableFile' \subseteq dialog.over /\ dialog.over # MarkableFile'
  BY <1>1, <1>3, <1>4
<1> QED BY <1>1, <1>5 DEF RollupInv, RowsPartition

\* Every action of the reports' part leaves the rows a partition.
LEMMA RollupStep == ReportsInv /\ RollupInv /\ [ReportsNext]_reportVars => RollupInv'
<1> SUFFICES ASSUME ReportsInv, RollupInv, [ReportsNext]_reportVars PROVE RollupInv'
  OBVIOUS
<1>1. ReportsShape /\ GroupsAreWhole(groups)
  BY DEF ReportsInv, ReportsShape
<1>2. CASE dialog'.kind # "rollup"
  BY <1>2 DEF RollupInv, RowsPartition
<1>3. CASE OpenRollup
  BY <1>1, <1>3, NewReport
<1>4. CASE dialog' = dialog /\ groups' = groups
  BY <1>4, ReportStays
<1>5. ASSUME NEW gone \in SUBSET marked, CancelledDeletionEnds(gone) PROVE RollupInv'
  BY <1>1, <1>5, ReportAges
<1>6. CASE Scan \/ StoreResults \/ ReloadResults \/ RemoveMarked
  BY <1>2, <1>6 DEF Scan, StoreResults, ReloadResults, RemoveMarked, Closed
<1>7. ASSUME NEW f \in File, Mark(f) \/ \E what \in {"changed", "gone"} : Change(f, what) PROVE RollupInv'
  BY <1>4, <1>7 DEF Mark, Change
<1>8. ASSUME NEW tier, MarkConfidence(tier) PROVE RollupInv'
  BY <1>4, <1>8 DEF MarkConfidence
<1>9. CASE OpenOverlaps \/ MarkARow \/ OpenDeletion \/ CloseDialog
  BY <1>2, <1>9 DEF OpenOverlaps, MarkARow, MarkRow, OpenDeletion, CloseDialog, Closed
<1>10. CASE Preview
  <2>1. dialog = [kind |-> "deletion", promised |-> dialog.promised]
        /\ dialog' = [dialog EXCEPT !.promised = [files |-> Plan, over |-> content]]
    BY <1>10 DEF Preview, ReportsInv, PreviewIsCurrent
  <2>2. dialog'.kind = "deletion"
    BY <2>1
  <2> QED BY <1>2, <2>2
<1>11. ASSUME NEW verify \in BOOLEAN, Proceed(verify) PROVE RollupInv'
  <2>1. dialog'.kind = "deleted"
    BY <1>11 DEF Proceed
  <2> QED BY <1>2, <2>1
<1>12. CASE UNCHANGED reportVars
  BY <1>4, <1>12 DEF reportVars
<1> QED BY <1>3, <1>5, <1>6, <1>7, <1>8, <1>9, <1>10, <1>11, <1>12 DEF ReportsNext

\* While the report of folder pairs is open every file it was made of is in exactly one row or in
\* that of the rest, every row is large enough, and no inner pair of folders explains the same files.
THEOREM RowsStayAPartition == ReportsSpec => []RowsPartition
<1> DEFINE I == ReportsInv /\ RollupInv
<1>1. ReportsInit => I
  BY ReportsStart DEF ReportsInit, RollupInv, RowsPartition, Closed
<1>2. I /\ [ReportsNext]_reportVars => I'
  BY ReportsInvStep, RollupStep
<1>3. I => RowsPartition
  BY DEF RollupInv
<1> HIDE DEF I
<1> QED BY <1>1, <1>2, <1>3, PTL DEF ReportsSpec

-----------------------------------------------------------------------------
(* The deletion history.                                                   *)

\* A record as the deletion log keeps it, and what the model adds to it.
LogRecord ==
  [path : DeletedPath, bytes : Bytes, digested : BOOLEAN, dest : Slot \cup {Absent}, run : Nat,
   failed : BOOLEAN, unknowable : BOOLEAN, went : Slot \cup {Absent}]

RestoreShape ==
  /\ disk \in [DeletedPath -> Bytes \cup {Absent}]
  /\ bin \in [Slot -> [bytes : Bytes \cup {Absent}, deletion : Nat]]
  /\ infos \subseteq [slot : Slot, path : DeletedPath, time : Nat]
  /\ log \in Seq(LogRecord)
  /\ restoring \in [todo : SUBSET (1..Len(log)), moving : BOOLEAN, appeared : BOOLEAN]

\* A .trashinfo is of a deletion there was, in the trash of the file's volume.
InfosAreOld ==
  \A i \in infos : i.time <= Len(log) /\ (i.slot \in VolumeSlot <=> i.path \in Mounted)

\* The file about to be moved back has a trashed copy on record, and nothing was at its path,
\* unless something appeared since it was looked at.
MoveIsVerified ==
  restoring.moving =>
    \A i \in restoring.todo : First(i) =>
      log[i].dest \in Slot /\ (disk[log[i].path] = Absent \/ restoring.appeared)

RestoreInv == RestoreShape /\ InfosAreOld /\ MoveIsVerified

\* Of the generations of a path under which there is one newer than all others, that is it.
LEMMA NewestIs ==
  ASSUME NEW S, NEW n \in S, n.time \in Nat, \A j \in S : j = n \/ (j.time \in Nat
           /\ j.time < n.time)
  PROVE  NewestOf(S) = n
<1>1. \A j \in S : n.time >= j.time
  OBVIOUS
<1>2. \A i \in S : (\A j \in S : i.time >= j.time) => i = n
  OBVIOUS
<1> QED BY <1>1, <1>2 DEF NewestOf

\* On Linux the copy that was just put into the trash is the one that is found under its
\* original path, for its deletion is later than those of all other .trashinfo files.
LEMMA FindsTheNewest ==
  ASSUME RestoreShape, InfosAreOld, platform = "linux", NEW p \in DeletedPath,
         NEW s \in FreeFor(p),
         disk[p] # Absent, Send2Trash(p, s)
  PROVE  FindXdg(p) = s
<1> DEFINE info == [slot |-> s, path |-> p, time |-> Len(log) + 1]
<1>1. s \in Slot /\ (s \in VolumeSlot <=> p \in Mounted) /\ Len(log) \in Nat
  BY RestoreConstants DEF FreeFor, RestoreShape
<1>2. infos' = infos \cup {info} /\ info.time = Len(log) + 1 /\ info.slot = s /\ info.path = p
  BY DEF Send2Trash, DeletionNumber
<1>3. bin'[s] # Empty
  BY <1>1 DEF Send2Trash, Empty, RestoreShape
<1>4. \A j \in infos : j.time \in Nat /\ j.time < info.time
  BY <1>1, <1>2 DEF InfosAreOld, RestoreShape
<1>5. ASSUME NEW slots, s \in slots
      PROVE  info \in Generations(p, slots, bin')
               /\ NewestOf(Generations(p, slots, bin')).slot = s
  <2>1. info \in Generations(p, slots, bin')
    BY <1>2, <1>3, <1>5 DEF Generations
  <2>2. \A j \in Generations(p, slots, bin') : j = info \/ (j.time \in Nat /\ j.time < info.time)
    BY <1>2, <1>4 DEF Generations
  <2>3. NewestOf(Generations(p, slots, bin')) = info
    BY <1>1, <1>2, <2>1, <2>2, NewestIs
  <2> QED BY <1>2, <2>1, <2>3
<1>6. CASE p \in Mounted
  <2>1. Generations(p, Slot \ VolumeSlot, bin') = {}
    BY <1>1, <1>2, <1>6 DEF Generations, InfosAreOld
  <2>2. s \in VolumeSlot
    BY <1>1, <1>6
  <2>3. info \in Generations(p, VolumeSlot, bin')
        /\ NewestOf(Generations(p, VolumeSlot, bin')).slot = s
    BY <1>5, <2>2
  <2> QED BY <1>6, <2>1, <2>3 DEF FindXdg
<1>7. CASE p \notin Mounted
  <2>1. s \in Slot \ VolumeSlot
    BY <1>1, <1>7
  <2>2. info \in Generations(p, Slot \ VolumeSlot, bin')
        /\ NewestOf(Generations(p, Slot \ VolumeSlot, bin')).slot = s
    BY <1>5, <2>1
  <2> QED BY <2>2 DEF FindXdg
<1> QED BY <1>6, <1>7

\* What is put on record, and that it says the truth where the trash did.
Truthful(r) == r.dest \in {r.went, Absent} /\ (r.failed /\ ~r.unknowable => r.went = Absent)

\* A record is appended, and it tells the truth where the trash did.
LEMMA RecordedDoes ==
  ASSUME RestoreShape, NEW p \in DeletedPath, disk[p] # Absent, NEW dest \in Slot \cup {Absent},
         NEW failed \in BOOLEAN, NEW unknowable \in BOOLEAN, NEW went \in Slot \cup {Absent},
         Recorded(p, dest, failed, unknowable, went),
         dest \in {went, Absent}, failed /\ ~unknowable => went = Absent
  PROVE  \E r \in LogRecord : log' = Append(log, r) /\ Truthful(r)
<1>1. PICK digested \in BOOLEAN, next \in BOOLEAN :
       log' = Append(log, [path |-> p, bytes |-> disk[p], digested |-> digested, dest |-> dest,
                           run |-> IF log = <<>> THEN 1
                           ELSE log[Len(log)].run + (IF next THEN 1 ELSE 0),
                           failed |-> failed, unknowable |-> unknowable, went |-> went])
  BY DEF Recorded
<1>2. (IF log = <<>> THEN 1 ELSE log[Len(log)].run + (IF next THEN 1 ELSE 0)) \in Nat
  <2>1. log # <<>> => log[Len(log)] \in LogRecord
    BY DEF RestoreShape
  <2> QED BY <2>1 DEF LogRecord
<1>3. disk[p] \in Bytes
  BY DEF RestoreShape
<1> QED BY <1>1, <1>2, <1>3 DEF LogRecord, Truthful

\* What a deletion does to the trash, and what it says of it.
LEMMA TrashFileDoes ==
  ASSUME RestoreShape, InfosAreOld, NEW p \in DeletedPath, NEW s \in Slot, TrashFile(p, s)
  PROVE  /\ UNCHANGED restoring /\ s \in FreeFor(p)
         /\ \E r \in LogRecord : log' = Append(log, r) /\ Truthful(r)
         /\ Untouched \/ Send2Trash(p, s)
<1>1. UNCHANGED restoring /\ s \in FreeFor(p) /\ disk[p] # Absent
  BY DEF TrashFile
<1> DEFINE Good == \E r \in LogRecord : log' = Append(log, r) /\ Truthful(r)
<1>2. Raises(p, FALSE, Absent) \/ Raises(p, TRUE, Absent) \/ Raises(p, TRUE, s) => Good
  <2>1. CASE Recorded(p, Absent, TRUE, FALSE, Absent)
    BY <1>1, <2>1, RecordedDoes
  <2>2. CASE Recorded(p, Absent, TRUE, TRUE, Absent)
    BY <1>1, <2>2, RecordedDoes
  <2>3. CASE Recorded(p, Absent, TRUE, TRUE, s)
    BY <1>1, <2>3, RecordedDoes
  <2> QED BY <2>1, <2>2, <2>3 DEF Raises
<1>3. Trashed(p, s, s) \/ Trashed(p, Absent, s) => Good
  <2>1. CASE Recorded(p, s, FALSE, FALSE, s)
    BY <1>1, <2>1, RecordedDoes
  <2>2. CASE Recorded(p, Absent, FALSE, FALSE, s)
    BY <1>1, <2>2, RecordedDoes
  <2> QED BY <2>1, <2>2 DEF Trashed
<1>4. CASE TrashMacos(p, s)
  <2>1. Untouched \/ Send2Trash(p, s)
    BY <1>4 DEF TrashMacos
  <2>2. \/ Raises(p, FALSE, Absent) \/ Raises(p, TRUE, Absent) \/ Raises(p, TRUE, s)
        \/ Trashed(p, s, s) \/ Trashed(p, Absent, s)
    BY <1>4 DEF TrashMacos, FallsBack
  <2>3. Good
    BY <1>2, <1>3, <2>2
  <2> QED BY <1>1, <2>1, <2>3
<1>5. CASE TrashWindows(p, s) \/ TrashElsewhere(p, s)
  <2>1. Untouched \/ Send2Trash(p, s)
    BY <1>5 DEF TrashWindows, TrashElsewhere
  <2>2. Raises(p, FALSE, Absent) \/ Trashed(p, s, s) \/ Trashed(p, Absent, s)
    BY <1>5 DEF TrashWindows, TrashElsewhere
  <2>3. Good
    BY <1>2, <1>3, <2>2
  <2> QED BY <1>1, <2>1, <2>3
<1>6. CASE TrashLinux(p, s)
  <2>1. Untouched \/ Send2Trash(p, s)
    BY <1>6 DEF TrashLinux
  <2>2. Raises(p, FALSE, Absent) \/ Trashed(p, s, s) \/ Trashed(p, Absent, s)
    BY <1>1, <1>6, FindsTheNewest DEF TrashLinux
  <2>3. Good
    BY <1>2, <1>3, <2>2
  <2> QED BY <1>1, <2>1, <2>3
<1> QED BY <1>4, <1>5, <1>6 DEF TrashFile

\* The invariant holds at the start.
LEMMA RestoreStarts == RestoreInit => RestoreInv
<1> SUFFICES ASSUME RestoreInit PROVE RestoreInv
  OBVIOUS
<1>1. RestoreShape
  BY DEF RestoreInit, RestoreShape, NoRestore, Empty
<1> QED BY <1>1 DEF RestoreInit, RestoreInv, InfosAreOld, MoveIsVerified, NoRestore

\* The oldest record left is one.
LEMMA FirstIsOne ==
  ASSUME RestoreShape, NEW i \in restoring.todo, NEW j \in restoring.todo, First(i), First(j)
  PROVE  i = j
BY DEF First, RestoreShape

\* Every action of the deletion history's part preserves its invariant.
LEMMA RestoreInvStep == RestoreInv /\ [RestoreNext]_restoreVars => RestoreInv'
<1> SUFFICES ASSUME RestoreInv, [RestoreNext]_restoreVars PROVE RestoreInv'
  OBVIOUS
<1> USE DEF RestoreInv
<1>1. ASSUME NEW p \in DeletedPath, NEW s \in Slot, TrashFile(p, s) PROVE RestoreInv'
  <2>1. PICK r \in LogRecord : log' = Append(log, r)
    BY <1>1, TrashFileDoes
  <2>2. Len(log) \in Nat /\ Len(log') = Len(log) + 1 /\ log' \in Seq(LogRecord)
        /\ \A i \in 1..Len(log) : log'[i] = log[i]
    BY <2>1 DEF RestoreShape
  <2>3. restoring' = restoring /\ restoring.todo \subseteq 1..Len(log)
    BY <1>1, TrashFileDoes DEF RestoreShape
  <2>4. RestoreShape' /\ \A q \in DeletedPath : disk[q] = Absent => disk'[q] = Absent
    <3>1. CASE Untouched
      BY <2>2, <2>3, <3>1 DEF RestoreShape, Untouched
    <3>2. CASE Send2Trash(p, s)
      <4>1. disk' \in [DeletedPath -> Bytes \cup {Absent}]
            /\ \A q \in DeletedPath : disk[q] = Absent => disk'[q] = Absent
        BY <3>2 DEF Send2Trash, RestoreShape
      <4>2. bin' \in [Slot -> [bytes : Bytes \cup {Absent}, deletion : Nat]]
        BY <2>2, <3>2 DEF Send2Trash, RestoreShape, DeletionNumber
      <4>3. infos' \subseteq [slot : Slot, path : DeletedPath, time : Nat]
        BY <2>2, <3>2 DEF Send2Trash, RestoreShape, DeletionNumber
      <4> QED BY <2>2, <2>3, <4>1, <4>2, <4>3 DEF RestoreShape
    <3> QED BY <1>1, <3>1, <3>2, TrashFileDoes
  <2>5. InfosAreOld'
    <3>1. s \in VolumeSlot <=> p \in Mounted
      BY <1>1, TrashFileDoes, RestoreConstants DEF FreeFor
    <3>2. \A i \in infos' : i \in infos \/ (i.slot = s /\ i.path = p /\ i.time = Len(log) + 1)
      BY <1>1, TrashFileDoes DEF Untouched, Send2Trash, DeletionNumber
    <3>3. \A i \in infos : i.time \in Nat
      BY DEF RestoreShape
    <3> QED BY <2>2, <3>1, <3>2, <3>3 DEF InfosAreOld
  <2>6. MoveIsVerified'
    <3>1. \A i \in restoring.todo : First(i)' <=> First(i)
      BY <2>3 DEF First
    <3>2. \A i \in restoring.todo : log'[i] = log[i] /\ log[i].path \in DeletedPath
      <4>1. \A i \in restoring.todo : log'[i] = log[i] /\ log[i] \in LogRecord
      BY <2>2, <2>3 DEF RestoreShape
    <4> QED BY <4>1 DEF LogRecord
    <3> QED BY <2>3, <2>4, <3>1, <3>2 DEF MoveIsVerified
  <2> QED BY <2>4, <2>5, <2>6
<1>2. ASSUME NEW run, RestoreClicked(run) PROVE RestoreInv'
  <2>1. UNCHANGED <<disk, bin, infos, log>>
        /\ restoring' = [todo |-> {i \in DOMAIN log : log[i].run = run}, moving |-> FALSE,
                         appeared |-> FALSE]
    BY <1>2 DEF RestoreClicked, NoRestore
  <2>2. DOMAIN log = 1..Len(log)
    BY DEF RestoreShape
  <2> QED BY <2>1, <2>2 DEF RestoreShape, InfosAreOld, MoveIsVerified
<1>3. CASE RestoreCheck
  <2>1. PICK i \in restoring.todo : First(i) /\
           \/ Verdict(log[i]) = "move" /\ restoring' = [restoring EXCEPT !.moving = TRUE]
           \/ restoring' = [NoRestore EXCEPT !.todo = restoring.todo \ {i}]
    BY <1>3 DEF RestoreCheck, Says
  <2>2. UNCHANGED <<disk, bin, infos, log>>
    BY <1>3 DEF RestoreCheck
  <2>3. RestoreShape'
    BY <2>1, <2>2 DEF RestoreShape, NoRestore
  <2>4. MoveIsVerified'
    <3>1. CASE restoring' = [NoRestore EXCEPT !.todo = restoring.todo \ {i}]
      BY <3>1 DEF MoveIsVerified, NoRestore
    <3>2. CASE Verdict(log[i]) = "move" /\ restoring' = [restoring EXCEPT !.moving = TRUE]
      <4>1. log[i] \in LogRecord
        BY DEF RestoreShape
      <4>2. log[i].dest \in Slot /\ disk[log[i].path] = Absent
        BY <3>2, <4>1 DEF Verdict, LogRecord
      <4>3. restoring'.todo = restoring.todo
        BY <3>2 DEF RestoreShape
      <4>4. \A j \in restoring.todo : First(j)' => j = i
        BY <2>1, <4>3, FirstIsOne DEF First
      <4> QED BY <2>2, <4>2, <4>3, <4>4 DEF MoveIsVerified
    <3> QED BY <2>1, <3>1, <3>2
  <2> QED BY <2>2, <2>3, <2>4 DEF InfosAreOld
<1>4. CASE RestoreMove
  <2>1. PICK i \in restoring.todo : First(i) /\ restoring.moving /\
           /\ restoring' = [NoRestore EXCEPT !.todo = restoring.todo \ {i}]
           /\ \/ /\ disk' = [disk EXCEPT ![log[i].path] = bin[log[i].dest].bytes]
                 /\ bin' = [bin EXCEPT ![log[i].dest] = Empty]
              \/ UNCHANGED <<disk, bin>>
    BY <1>4 DEF RestoreMove, Says
  <2>2. UNCHANGED <<infos, log>>
    BY <1>4 DEF RestoreMove
  <2>3. log[i].dest \in Slot
    BY <2>1 DEF MoveIsVerified
  <2>4. disk' \in [DeletedPath -> Bytes \cup {Absent}]
        /\ bin' \in [Slot -> [bytes : Bytes \cup {Absent}, deletion : Nat]]
    <3>1. log[i] \in LogRecord
      BY DEF RestoreShape
    <3>2. \A t \in Slot : bin[t].bytes \in Bytes \cup {Absent}
      BY DEF RestoreShape
    <3>3. log[i].path \in DeletedPath
      BY <3>1 DEF LogRecord
    <3>4. disk' \in [DeletedPath -> Bytes \cup {Absent}]
      BY <2>1, <2>3, <3>2, <3>3 DEF RestoreShape
    <3> QED BY <2>1, <2>3, <3>4 DEF RestoreShape, Empty
  <2>5. restoring' = [todo |-> restoring.todo \ {i}, moving |-> FALSE, appeared |-> FALSE]
    BY <2>1 DEF NoRestore
  <2> QED BY <2>2, <2>4, <2>5 DEF RestoreShape, InfosAreOld, MoveIsVerified
<1>5. ASSUME NEW p \in DeletedPath, NEW b \in Bytes, Appear(p, b) PROVE RestoreInv'
  <2>1. UNCHANGED <<bin, infos, log>>
        /\ restoring' = [todo |-> restoring.todo, moving |-> restoring.moving,
                         appeared |-> restoring.appeared \/ restoring.moving]
    BY <1>5 DEF Appear, Intrude, RestoreShape
  <2>2. RestoreShape'
    BY <1>5, <2>1 DEF Appear, RestoreShape
  <2> QED BY <2>1, <2>2 DEF InfosAreOld, MoveIsVerified, First
<1>6. ASSUME NEW p \in DeletedPath, Disappear(p) PROVE RestoreInv'
  <2>1. UNCHANGED <<bin, infos, log, restoring>> /\ disk' = [disk EXCEPT ![p] = Absent]
    BY <1>6 DEF Disappear, Intrude
  <2>2. disk' \in [DeletedPath -> Bytes \cup {Absent}] /\ \A q \in DeletedPath : disk[q] = Absent
        => disk'[q] = Absent
    BY <2>1 DEF RestoreShape
  <2>3. \A i \in restoring.todo : log[i].path \in DeletedPath
    <3>1. \A i \in restoring.todo : log[i] \in LogRecord
      BY DEF RestoreShape
    <3> QED BY <3>1 DEF LogRecord
  <2> QED BY <2>1, <2>2, <2>3 DEF RestoreShape, InfosAreOld, MoveIsVerified, First
<1>7. CASE EmptyTrash
  BY <1>7 DEF EmptyTrash, Intrude, RestoreShape, InfosAreOld, MoveIsVerified, First, Empty
<1>8. CASE UNCHANGED restoreVars
  BY <1>8 DEF restoreVars, RestoreShape, InfosAreOld, MoveIsVerified, First
<1> QED BY <1>1, <1>2, <1>3, <1>4, <1>5, <1>6, <1>7, <1>8 DEF RestoreNext

\* Every action preserves that the records tell the truth.
LEMMA TruthStep ==
  RestoreInv /\ TrashTellsTheTruth /\ [RestoreNext]_restoreVars => TrashTellsTheTruth'
<1> SUFFICES ASSUME RestoreInv, TrashTellsTheTruth, [RestoreNext]_restoreVars
             PROVE TrashTellsTheTruth'
  OBVIOUS
<1>1. ASSUME NEW p \in DeletedPath, NEW s \in Slot, TrashFile(p, s) PROVE TrashTellsTheTruth'
  <2>1. PICK r \in LogRecord : log' = Append(log, r) /\ Truthful(r)
    BY <1>1, TrashFileDoes DEF RestoreInv
  <2>2. /\ DOMAIN log = 1..Len(log) /\ DOMAIN log' = 1..(Len(log) + 1) /\ Len(log) \in Nat
        /\ log'[Len(log) + 1] = r /\ \A i \in 1..Len(log) : log'[i] = log[i]
    BY <2>1 DEF RestoreInv, RestoreShape
  <2>3. \A i \in DOMAIN log' : i \in DOMAIN log \/ i = Len(log) + 1
    BY <2>2
  <2> QED BY <2>1, <2>2, <2>3 DEF TrashTellsTheTruth, Truthful
<1>2. CASE UNCHANGED log
  BY <1>2 DEF TrashTellsTheTruth
<1>3. (\E p \in DeletedPath, s \in Slot : TrashFile(p, s)) \/ UNCHANGED log
  BY DEF RestoreNext, RestoreClicked, RestoreCheck, RestoreMove, Appear, Disappear, EmptyTrash,
         Intrude, restoreVars
<1> QED BY <1>1, <1>2, <1>3

\* TrashTellsTheTruth, for any paths, contents, volumes and number of deletions
\* (core/app.py, core/trash.py): what a record names as the trashed copy is that
\* copy or nothing.
THEOREM TrashStaysTruthful == RestoreSpec => []TrashTellsTheTruth
<1>1. RestoreInit => TrashTellsTheTruth
  BY DEF RestoreInit, TrashTellsTheTruth
<1> QED BY RestoreStarts, RestoreInvStep, TruthStep, <1>1, PTL DEF RestoreSpec

\* RestoreReplacesNothing: a restore never replaces what was at a path when it looked
\* (core/deletion_log.py).
THEOREM RestoresReplaceNothing == RestoreSpec => RestoreReplacesNothing
<1> DEFINE Spares == \A p \in DeletedPath :
               restoring.moving /\ ~restoring'.moving /\ disk[p] # Absent /\ disk'[p] # disk[p]
               => restoring.appeared
<1>1. RestoreInv /\ [RestoreNext]_restoreVars => Spares
  <2> SUFFICES ASSUME RestoreInv, [RestoreNext]_restoreVars, restoring.moving,
                      ~restoring'.moving, ~restoring.appeared,
                      NEW p \in DeletedPath, disk[p] # Absent
               PROVE  disk'[p] = disk[p]
    OBVIOUS
  <2>1. RestoreMove
    <3>1. ASSUME NEW q \in DeletedPath, NEW s \in Slot, TrashFile(q, s) PROVE FALSE
      BY <3>1, TrashFileDoes DEF RestoreInv
    <3>2. restoring # NoRestore
      BY DEF NoRestore
    <3>3. ASSUME NEW q, NEW b, Appear(q, b) PROVE FALSE
      BY <3>3 DEF Appear, RestoreInv, RestoreShape
    <3> QED BY <3>1, <3>2, <3>3 DEF RestoreNext, RestoreClicked, RestoreCheck, Disappear,
                   EmptyTrash, restoreVars
  <2>2. PICK i \in restoring.todo : First(i) /\
           \/ disk' = [disk EXCEPT ![log[i].path] = bin[log[i].dest].bytes]
           \/ UNCHANGED <<disk, bin>>
    BY <2>1 DEF RestoreMove
  <2>3. disk[log[i].path] = Absent
    BY <2>2 DEF RestoreInv, MoveIsVerified
  <2> QED BY <2>2, <2>3 DEF RestoreInv, RestoreShape
<1> HIDE DEF Spares
<1>2. RestoreSpec => [][Spares]_restoreVars
  BY RestoreStarts, RestoreInvStep, <1>1, PTL DEF RestoreSpec
<1> QED BY <1>2 DEF Spares, RestoreReplacesNothing

-----------------------------------------------------------------------------
(* The preferences and the scan profiles.                                  *)

\* What the preferences, the window and the profiles are made of.
ProfileIsWhole(profile) ==
  /\ profile.mode \in Mode /\ profile.settings \in [ScanPreferences -> BOOLEAN]
  /\ profile.options.scan_type = profile.scanType
  /\ \A p \in ScanPreferences :
       p \in profile.options.flags <=>
         profile.settings[p] /\ (p = "full_verify" => profile.settings["big_file_partial_hashes"])

SettingsShape ==
  /\ prefs \in [Pref -> BOOLEAN] /\ stored \in [Pref -> BOOLEAN]
  /\ DOMAIN scanTypes = Mode /\ appMode \in Mode
  /\ window = [open |-> window.open, boxes |-> window.boxes]
  /\ \A p \in DOMAIN window.boxes : window.boxes[p] \in BOOLEAN

ProfilesAreWhole ==
  /\ DOMAIN profiles = ProfileName /\ DOMAIN files.profiles = ProfileName
  /\ \A n \in ProfileName :
       /\ profiles[n] = NoProfile \/ ProfileIsWhole(profiles[n])
       /\ files.profiles[n] = NoProfile \/ ProfileIsWhole(files.profiles[n])

SettingsInv == SettingsShape /\ ProfilesAreWhole /\ SettingsAreKept

\* Facts about the names of the preferences.
LEMMA Prefs ==
  /\ ScanPreferences = Optional \ {"destination_type", "verify_before_delete"}
  /\ ScanPreferences \subseteq Pref /\ "cache_file_list" \in Pref
     /\ "big_file_partial_hashes" \in ScanPreferences
  /\ "standard" \in Mode
  /\ \A mode \in Mode : Boxes(mode) \subseteq Pref
<1>1. Pref = Boxes("standard") \cup Boxes("music") \cup Boxes("picture")
      /\ \A mode \in Mode : Boxes(mode) \subseteq Pref
  BY DEF Pref, Mode
<1>2. /\ Specific["standard"] = {"big_file_partial_hashes", "full_verify", "cache_file_list",
                                 "match_similar"}
      /\ Specific["music"] = {"match_similar", "scan_tags"}
         /\ Specific["picture"] = {"match_scaled"}
  BY DEF Specific
<1>3. Pref = {"filter_hardness", "destination_type", "table_font", "verify_before_delete",
              "profile_scan",
      "big_file_partial_hashes", "full_verify", "cache_file_list", "match_similar", "scan_tags",
        "match_scaled"}
  BY <1>1, <1>2 DEF Boxes, General, Display, Advanced, Debug
<1> QED BY <1>1, <1>3 DEF ScanPreferences, Optional, Display, Debug, Mode

\* The invariant holds at the start.
LEMMA SettingsStart == SettingsInit => SettingsInv
<1> SUFFICES ASSUME SettingsInit PROVE SettingsInv
  OBVIOUS
<1>1. SettingsShape
  BY DEF SettingsInit, SettingsShape, Defaults, DefaultScanTypes, Mode, NoWindow
<1>2. ProfilesAreWhole
  BY DEF SettingsInit, ProfilesAreWhole, NoProfiles, FilesOf
<1>3. SettingsAreKept
  BY Prefs DEF SettingsInit, SettingsAreKept, ProfilesSurvive, NoProfiles, Defaults
<1> QED BY <1>1, <1>2, <1>3 DEF SettingsInv

\* Every action keeps the shape of the settings.
LEMMA SettingsShapeStep == SettingsInv /\ [SettingsNext]_settingsVars => SettingsShape'
<1> SUFFICES ASSUME SettingsInv, [SettingsNext]_settingsVars PROVE SettingsShape'
  OBVIOUS
<1> USE DEF SettingsInv
<1>1. CASE OpenPreferences
  BY <1>1, Prefs DEF OpenPreferences, SettingsShape
<1>2. CASE AcceptPreferences
  BY <1>2 DEF AcceptPreferences, SettingsShape, NoWindow
<1>3. CASE CancelPreferences
  BY <1>3 DEF CancelPreferences, SettingsShape, NoWindow
<1>4. ASSUME NEW p \in Pref, EditBox(p) PROVE SettingsShape'
  <2>1. window' = [open |-> window.open, boxes |-> [window.boxes EXCEPT ![p] = ~@]]
    BY <1>4 DEF EditBox, SettingsShape
  <2> QED BY <1>4, <2>1 DEF EditBox, SettingsShape
<1>5. ASSUME NEW page \in {"general", "display", "advanced", "debug"}, RestoreDefaults(page)
      PROVE SettingsShape'
  <2>3. Specific[appMode] \subseteq Boxes(appMode)
          /\ SectionToUpdate(page) \subseteq Boxes(appMode)
    BY DEF Boxes, SectionToUpdate
  <2>4. SectionToUpdate(page) \cup Specific[appMode] \subseteq Pref
    BY <2>3, Prefs DEF SettingsShape
  <2>0. \A p \in DOMAIN window.boxes :
          (IF p \in SectionToUpdate(page) \cup Specific[appMode] THEN Defaults[p]
           ELSE window.boxes[p]) \in BOOLEAN
    BY <2>4 DEF SettingsShape, Defaults
  <2>1. window' = [open |-> window.open,
                   boxes |-> [p \in DOMAIN window.boxes |-> IF p
                              \in SectionToUpdate(page) \cup Specific[appMode] THEN Defaults[p]
                              ELSE window.boxes[p]]]
    BY <1>5 DEF RestoreDefaults, SettingsShape
  <2> QED BY <1>5, <2>0, <2>1 DEF RestoreDefaults, SettingsShape
<1>6. ASSUME NEW mode \in Mode, AppModeButtonSelected(mode) PROVE SettingsShape'
  BY <1>6 DEF AppModeButtonSelected, SettingsShape
<1>7. ASSUME NEW type, ScanTypeChanged(type) PROVE SettingsShape'
  BY <1>7 DEF ScanTypeChanged, SettingsShape
<1>8. ASSUME NEW f, EditFolders(f) \/ Unplug(f) \/ Plug(f) PROVE SettingsShape'
  BY <1>8 DEF EditFolders, Unplug, Plug, SettingsShape
<1>9. ASSUME NEW n \in ProfileName, SaveScanProfile(n)
               \/ DeleteScanProfile(n) PROVE SettingsShape'
  BY <1>9 DEF SaveScanProfile, DeleteScanProfile, SettingsShape
<1>10. ASSUME NEW n \in ProfileName, LoadScanProfile(n) PROVE SettingsShape'
  BY <1>10 DEF LoadScanProfile, ApplyScanProfile, ApplySettings, SettingsShape, ProfilesAreWhole,
         ProfileIsWhole
<1>11. CASE Shutdown \/ Crash
  BY <1>11, Prefs DEF Shutdown, Crash, StartFrom, LoadPreferences, SettingsShape, NoWindow
<1>12. CASE UNCHANGED settingsVars
  BY <1>12 DEF settingsVars, SettingsShape
<1> QED BY <1>1, <1>2, <1>3, <1>4, <1>5, <1>6, <1>7, <1>8, <1>9, <1>10, <1>11, <1>12
           DEF SettingsNext

\* A profile that is captured while the options are those of the preferences says the same
\* twice.
LEMMA CapturedIsWhole == SettingsShape /\ SettingsAreKept => ProfileIsWhole(Captured)
<1> SUFFICES ASSUME SettingsShape, SettingsAreKept PROVE ProfileIsWhole(Captured)
  OBVIOUS
<1>1. /\ Captured.mode = appMode /\ Captured.settings = [p \in ScanPreferences |-> prefs[p]]
      /\ Captured.scanType = scanTypes[appMode]
         /\ Captured.options = OptionsFor(prefs, scanTypes, appMode)
  BY DEF Captured, SettingsAreKept
<1>2. /\ Captured.options.scan_type = scanTypes[appMode]
      /\ Captured.options.flags = {q \in Optional : prefs[q]
           /\ (q = "full_verify" => prefs["big_file_partial_hashes"])}
  BY <1>1 DEF OptionsFor
<1>3. ASSUME NEW p \in ScanPreferences
      PROVE  /\ p \in Optional /\ Captured.settings[p] = prefs[p] /\ prefs[p] \in BOOLEAN
             /\ Captured.settings["big_file_partial_hashes"] = prefs["big_file_partial_hashes"]
  BY <1>1, Prefs DEF SettingsShape
<1> QED BY <1>1, <1>2, <1>3, Prefs DEF ProfileIsWhole, SettingsShape

\* Profiles stay whole, in memory and on disk, also through a crash.
LEMMA ProfilesAreWholeStep == SettingsInv /\ [SettingsNext]_settingsVars => ProfilesAreWhole'
<1> SUFFICES ASSUME SettingsInv, [SettingsNext]_settingsVars PROVE ProfilesAreWhole'
  OBVIOUS
<1> USE DEF SettingsInv
<1>9. ASSUME NEW n \in ProfileName, SaveScanProfile(n) PROVE ProfilesAreWhole'
  BY <1>9, CapturedIsWhole DEF SaveScanProfile, SaveModel, FilesOf, ProfilesAreWhole,
         ProfileIsWhole
<1>10. ASSUME NEW n \in ProfileName, DeleteScanProfile(n) PROVE ProfilesAreWhole'
  BY <1>10 DEF DeleteScanProfile, ProfilesAreWhole, ProfileIsWhole
<1>11. CASE Shutdown \/ Crash
  BY <1>11 DEF Shutdown, Crash, StartFrom, LoadProfiles, FilesOf, ProfilesAreWhole, ProfileIsWhole
<1>12. CASE UNCHANGED profileVars
  BY <1>12 DEF profileVars, ProfilesAreWhole, ProfileIsWhole
<1>13. UNCHANGED profileVars \/ Shutdown \/ Crash \/ \E n \in ProfileName : SaveScanProfile(n)
         \/ DeleteScanProfile(n)
  BY DEF SettingsNext, OpenPreferences, AcceptPreferences, CancelPreferences, EditBox,
         RestoreDefaults, AppModeButtonSelected, ScanTypeChanged, EditFolders, Unplug, Plug,
         LoadScanProfile, settingsVars, profileVars
<1> QED BY <1>9, <1>10, <1>11, <1>12, <1>13

\* Every action keeps the options those of the preferences, the scan type and the mode.
LEMMA SettingsAreKeptStep == SettingsInv /\ [SettingsNext]_settingsVars => SettingsAreKept'
<1> SUFFICES ASSUME SettingsInv, [SettingsNext]_settingsVars PROVE SettingsAreKept'
  OBVIOUS
<1> USE DEF SettingsInv
<1>1. \/ UNCHANGED optionVars /\ UNCHANGED <<prefs, scanTypes, appMode>>
      \/ UpdateOptions(prefs', scanTypes', appMode')
  BY DEF SettingsNext, OpenPreferences, AcceptPreferences, CancelPreferences, EditBox,
         RestoreDefaults, AppModeButtonSelected, ScanTypeChanged, EditFolders, Unplug, Plug,
         LoadScanProfile, settingsVars, optionVars, SaveScanProfile, DeleteScanProfile, Shutdown,
         Crash, StartFrom, LoadPreferences, RefreshAppMode
<1>2. options' = OptionsFor(prefs', scanTypes', appMode') /\ attached' = prefs'["cache_file_list"]
  BY <1>1 DEF UpdateOptions, SettingsAreKept, optionVars
<1>3. ProfilesSurvive'
  BY DEF SettingsNext, OpenPreferences, AcceptPreferences, CancelPreferences, EditBox,
         RestoreDefaults, AppModeButtonSelected, ScanTypeChanged, EditFolders, Unplug, Plug,
         LoadScanProfile, settingsVars, profileVars, SaveScanProfile, DeleteScanProfile, Shutdown,
         Crash, StartFrom, LoadProfiles, SaveModel, FilesOf, SettingsAreKept, ProfilesSurvive,
         ProfilesAreWhole
<1> QED BY <1>2, <1>3 DEF SettingsAreKept

\* SettingsAreKept, for any names of profiles, folders and files: what the scanner is told
\* always is what the preferences say (qt/app.py, _update_options).
THEOREM SettingsStayKept == SettingsSpec => []SettingsAreKept
<1>1. SettingsInv /\ [SettingsNext]_settingsVars => SettingsInv'
  BY SettingsShapeStep, ProfilesAreWholeStep, SettingsAreKeptStep DEF SettingsInv
<1>2. SettingsInv => SettingsAreKept
  BY DEF SettingsInv
<1> QED BY SettingsStart, <1>1, <1>2, PTL DEF SettingsSpec

\* ProfileRestoresScan: a profile that is loaded gives the scan it was saved with (qt/app.py
\* and core/scan_profile.py).
THEOREM ProfilesRestoreScans == SettingsSpec => ProfileRestoresScan
<1>1. SettingsInv /\ [SettingsNext]_settingsVars => SettingsInv'
  BY SettingsShapeStep, ProfilesAreWholeStep, SettingsAreKeptStep DEF SettingsInv
<1> DEFINE A == \A n \in ProfileName : LoadScanProfile(n) =>
       /\ roots' = profiles[n].roots \cap plugged
          /\ profiles[n].references \cap roots' \subseteq references'
       /\ options'.scan_type = profiles[n].options.scan_type
       /\ \A p \in Optional \ {"destination_type", "verify_before_delete"} :
            p \in options'.flags <=> p \in profiles[n].options.flags
<1>2. SettingsInv => A
  <2> SUFFICES ASSUME SettingsInv, NEW n \in ProfileName, LoadScanProfile(n)
      PROVE
       /\ roots' = profiles[n].roots \cap plugged
          /\ profiles[n].references \cap roots' \subseteq references'
       /\ options'.scan_type = profiles[n].options.scan_type
       /\ \A p \in Optional \ {"destination_type", "verify_before_delete"} :
            p \in options'.flags <=> p \in profiles[n].options.flags
    OBVIOUS
  <2>1. ProfileIsWhole(profiles[n])
    BY DEF SettingsInv, ProfilesAreWhole, LoadScanProfile
  <2>2. /\ roots' = profiles[n].roots \cap plugged
           /\ references' = profiles[n].references \cap plugged
        /\ options' = OptionsFor(prefs', scanTypes', profiles[n].mode)
        /\ prefs' = [p \in Pref |-> IF p \in DOMAIN profiles[n].settings
                     THEN profiles[n].settings[p] ELSE prefs[p]]
        /\ scanTypes' = [scanTypes EXCEPT ![profiles[n].mode] = profiles[n].scanType]
    BY DEF LoadScanProfile, ApplyScanProfile, ApplySettings, RefreshAppMode, UpdateOptions
  <2>3. scanTypes'[profiles[n].mode] = profiles[n].options.scan_type
    BY <2>1, <2>2 DEF ProfileIsWhole, SettingsInv, SettingsShape
  <2>4. /\ options'.scan_type = scanTypes'[profiles[n].mode]
        /\ options'.flags = {q \in Optional : prefs'[q]
             /\ (q = "full_verify" => prefs'["big_file_partial_hashes"])}
    BY <2>2 DEF OptionsFor
  <2>5. \A p \in ScanPreferences : prefs'[p] = profiles[n].settings[p]
    BY <2>1, <2>2, Prefs DEF ProfileIsWhole
  <2>6. \A p \in ScanPreferences : p \in options'.flags <=> p \in profiles[n].options.flags
    BY <2>1, <2>4, <2>5, Prefs DEF ProfileIsWhole
  <2> QED BY <2>2, <2>3, <2>4, <2>6, Prefs
<1> HIDE DEF A
<1>3. SettingsSpec => [][A]_settingsVars
  BY SettingsStart, <1>1, <1>2, PTL DEF SettingsSpec
<1> QED BY <1>3 DEF ProfileRestoresScan, A

-----------------------------------------------------------------------------
(* The ignore list.  Its steps are those of a set of unordered pairs       *)
(* (IgnorePairs), because no pair is ever kept in both directions.         *)

\* The pairs of a list: of two paths, and none of them in both directions.
KeptOnce(pairs) ==
  /\ pairs \subseteq Path \X Path
  /\ \A p \in pairs : p[1] # p[2] /\ <<p[2], p[1]>> \notin pairs
ListOK(list) ==
  /\ list = [pairs |-> list.pairs, count |-> list.count]
  /\ KeptOnce(list.pairs) /\ list.count = Cardinality(list.pairs)

\* What a new list holds that the old one did not: a pair, and the first pairs of a sequence.
Adds(new, old, a, b) == Unordered(new.pairs) = Unordered(old.pairs) \cup {{a, b}}
FirstPairs(s, n) == {s[i] : i \in 1..n}
AddsAll(new, old, s, n) ==
  Unordered(new.pairs) = Unordered(old.pairs) \cup Unordered(FirstPairs(s, n))

IgnoreInv == ListOK(ignoreList) /\ KeptOnce(ignoreStored)

\* Two paths are a pair.
LEMMA PairIs ==
  ASSUME NEW a \in Path, NEW b \in Path, a # b
  PROVE  {a, b} \in Promised!Pair
<1>1. IsFiniteSet({a}) /\ Cardinality({a}) = 1
  BY FS_Singleton
<1>2. Cardinality({a} \cup {b}) = 2
  BY <1>1, FS_AddElement
<1>3. {a} \cup {b} = {a, b}
  OBVIOUS
<1>4. Promised!Cardinality({a, b}) = 2
  <2>1. \A S : Promised!Cardinality(S) = Cardinality(S)
    BY DEF Promised!Cardinality, Cardinality
  <2> QED BY <1>2, <1>3, <2>1
<1> QED BY <1>4 DEF Promised!Pair

\* The counts of both modules are the same.
LEMMA SameCount == \A S : Promised!Cardinality(S) = Cardinality(S)
BY DEF Promised!Cardinality, Cardinality

\* There are as many as a number says.
LEMMA KeptIsFinite ==
  ASSUME NEW P, KeptOnce(P)
  PROVE  IsFiniteSet(P) /\ Cardinality(P) \in Nat
<1>1. IsFiniteSet(Path \X Path)
  BY IgnoreConstants, FS_Product
<1> QED BY <1>1, FS_Subset, FS_CardinalityType DEF KeptOnce

\* Without a direction there are as many pairs.
LEMMA UnorderedIs ==
  ASSUME NEW P, KeptOnce(P)
  PROVE  Unordered(P) \subseteq Promised!Pair
           /\ Promised!Cardinality(Unordered(P)) = Cardinality(P)
<1>1. Unordered(P) \subseteq Promised!Pair
  <2>1. ASSUME NEW p \in P PROVE {p[1], p[2]} \in Promised!Pair
    BY PairIs DEF KeptOnce
  <2> QED BY <2>1 DEF Unordered
<1> DEFINE f == [p \in P |-> {p[1], p[2]}]
<1>2. f \in Surjection(P, Unordered(P))
  BY DEF Unordered, Surjection
<1>3. ASSUME NEW p \in P, NEW q \in P, f[p] = f[q] PROVE p = q
  <2>1. p = <<p[1], p[2]>> /\ q = <<q[1], q[2]>>
    BY DEF KeptOnce
  <2>2. {p[1], p[2]} = {q[1], q[2]}
    BY <1>3
  <2>3. p[1] # p[2] /\ q # <<p[2], p[1]>>
    BY DEF KeptOnce
  <2>4. p[1] = q[1] /\ p[2] = q[2]
    BY <2>1, <2>2, <2>3
  <2> QED BY <2>1, <2>4
<1>4. f \in Injection(P, Unordered(P))
  BY <1>2, <1>3 DEF Injection, Surjection, IsInjective
<1>5. Cardinality(Unordered(P)) = Cardinality(P)
  BY <1>2, <1>4, KeptIsFinite, FS_Surjection
<1> QED BY <1>1, <1>5, SameCount

\* A row taken away takes no other pair with it.
LEMMA UnorderedWithout ==
  ASSUME NEW P, KeptOnce(P), NEW taken \in SUBSET P
  PROVE  /\ KeptOnce(P \ taken) /\ Unordered(P \ taken) = Unordered(P) \ Unordered(taken)
         /\ Unordered(taken) \subseteq Promised!Pair
<1>1. KeptOnce(taken) /\ KeptOnce(P \ taken)
  BY DEF KeptOnce
<1>2. ASSUME NEW p \in P, NEW q \in P, {p[1], p[2]} = {q[1], q[2]} PROVE p = q
  <2>1. p = <<p[1], p[2]>> /\ q = <<q[1], q[2]>>
    BY DEF KeptOnce
  <2>2. p[1] # p[2] /\ q # <<p[2], p[1]>>
    BY DEF KeptOnce
  <2>3. p[1] = q[1] /\ p[2] = q[2]
    BY <1>2, <2>1, <2>2
  <2> QED BY <2>1, <2>3
<1>3. Unordered(P \ taken) = Unordered(P) \ Unordered(taken)
  BY <1>2 DEF Unordered
<1> QED BY <1>1, <1>3, UnorderedIs

\* The rows of the dialog that are removed are as many pairs fewer.
LEMMA RemovedCount ==
  ASSUME NEW P, IsFiniteSet(P), NEW taken \in SUBSET P
  PROVE  Cardinality(P \ taken) = Cardinality(P) - Cardinality(taken)
<1>1. IsFiniteSet(taken) /\ IsFiniteSet(P \ taken)
  BY FS_Subset
<1>2. taken \cap (P \ taken) = {} /\ taken \cup (P \ taken) = P
  OBVIOUS
<1>3. Cardinality(taken \cup (P \ taken))
        = Cardinality(taken) + Cardinality(P \ taken) - Cardinality(taken \cap (P \ taken))
  BY <1>1, FS_Union
<1>4. Cardinality({}) = 0
  BY FS_EmptySet
<1>5. Cardinality(P) \in Nat /\ Cardinality(taken) \in Nat /\ Cardinality(P \ taken) \in Nat
  BY <1>1, FS_CardinalityType
<1>6. Cardinality(P) = Cardinality(taken) + Cardinality(P \ taken) - 0
  BY <1>2, <1>3, <1>4
<1> QED BY <1>5, <1>6

\* IgnoreList.ignore keeps the pair once, whichever path was there first.
LEMMA IgnoringDoes ==
  ASSUME NEW list, ListOK(list), NEW a \in Path, NEW b \in Path, a # b
  PROVE  ListOK(Ignoring(list, a, b)) /\ Adds(Ignoring(list, a, b), list, a, b)
<1>1. CASE AreIgnored(list, a, b)
  <2>1. Ignoring(list, a, b) = list
    BY <1>1 DEF Ignoring
  <2>2. {a, b} \in Unordered(list.pairs)
    <3>1. CASE <<a, b>> \in list.pairs
      BY <3>1 DEF Unordered
    <3>2. CASE <<b, a>> \in list.pairs
      <4>1. {b, a} \in Unordered(list.pairs)
        BY <3>2 DEF Unordered
      <4> QED BY <4>1
    <3> QED BY <1>1, <3>1, <3>2 DEF AreIgnored
  <2> QED BY <2>1, <2>2 DEF Adds
<1>2. CASE ~AreIgnored(list, a, b)
  <2>1. PICK p : /\ p = <<a, b>> \/ p = <<b, a>>
                 /\ Ignoring(list, a, b) = [pairs |-> list.pairs \cup {p},
                                            count |-> list.count + 1]
    BY <1>2 DEF Ignoring
  <2>2. p \notin list.pairs /\ KeptOnce(list.pairs \cup {p}) /\ {p[1], p[2]} = {a, b}
    BY <1>2, <2>1 DEF AreIgnored, KeptOnce, ListOK
  <2>3. Cardinality(list.pairs \cup {p}) = Cardinality(list.pairs) + 1
    BY <2>2, KeptIsFinite, FS_AddElement DEF ListOK
  <2>4. Unordered(list.pairs \cup {p}) = Unordered(list.pairs) \cup {{p[1], p[2]}}
    BY DEF Unordered
  <2> DEFINE new == Ignoring(list, a, b)
  <2>5. /\ new = [pairs |-> new.pairs, count |-> new.count]
        /\ new.pairs = list.pairs \cup {p} /\ new.count = list.count + 1
    BY <2>1
  <2> HIDE DEF new
  <2>6. Unordered(new.pairs) = Unordered(list.pairs) \cup {{a, b}}
    BY <2>2, <2>4, <2>5
  <2>7. new.count = Cardinality(new.pairs) /\ KeptOnce(new.pairs)
    BY <2>2, <2>3, <2>5 DEF ListOK
  <2>8. ListOK(new)
    BY <2>5, <2>7 DEF ListOK
  <2> QED BY <2>6, <2>8 DEF new, Adds
<1> QED BY <1>1, <1>2

\* The lists after each of the pairs.
IsAfter(f, list, s, n) ==
  f = [k \in 0..n |-> IF k = 0 THEN list ELSE Ignoring(f[k - 1], s[k][1], s[k][2])]

\* However many pairs are added, there is a list after each of them.
LEMMA AfterExists ==
  ASSUME NEW list, NEW s, NEW L \in Nat
  PROVE  \E f : IsAfter(f, list, s, L)
<1> DEFINE Lacking == {n \in Nat : ~\E f : IsAfter(f, list, s, n)}
<1> SUFFICES ASSUME Lacking # {} PROVE FALSE
  OBVIOUS
<1>1. PICK n \in Lacking : \A k \in Lacking : ~(k < n)
  <2>1. PICK n \in Lacking : \A k \in Lacking : <<k, n>> \notin OpToRel(<, Nat)
    BY NatLessThanWellFounded, WFMin
  <2>2. ASSUME NEW k \in Lacking PROVE ~(k < n)
    BY <2>1 DEF OpToRel
  <2> QED BY <2>2
<1>2. n # 0
  <2>1. IsAfter([k \in 0..0 |-> list], list, s, 0)
    BY DEF IsAfter
  <2> QED BY <2>1
<1>3. n - 1 \in Nat /\ n - 1 \notin Lacking
  BY <1>1, <1>2
<1>4. PICK f : IsAfter(f, list, s, n - 1)
  BY <1>3
<1> DEFINE g == [k \in 0..n |-> IF k <= n - 1 THEN f[k] ELSE Ignoring(f[n - 1], s[n][1], s[n][2])]
<1>5. \A k \in 0..(n - 1) :
        f[k] = IF k = 0 THEN list ELSE Ignoring(f[k - 1], s[k][1], s[k][2])
  BY <1>4 DEF IsAfter
<1>6. \A k \in 0..(n - 1) : g[k] = f[k]
  BY <1>3
<1>7. ASSUME NEW k \in 0..n
      PROVE  g[k] = IF k = 0 THEN list ELSE Ignoring(g[k - 1], s[k][1], s[k][2])
  <2>1. CASE k = 0
    BY <1>3, <1>5, <2>1
  <2>2. CASE k # 0 /\ k <= n - 1
    <3>1. k - 1 \in 0..(n - 1) /\ k \in 0..(n - 1)
      BY <2>2
    <3> HIDE DEF g
    <3> QED BY <1>5, <1>6, <2>2, <3>1
  <2>3. CASE k = n
    <3>1. g[k] = Ignoring(f[n - 1], s[n][1], s[n][2])
      BY <1>3, <2>3
    <3>2. n - 1 \in 0..(n - 1)
      BY <1>3
    <3> HIDE DEF g
    <3> QED BY <1>2, <1>6, <2>3, <3>1, <3>2
  <2> QED BY <2>1, <2>2, <2>3
<1>8. IsAfter(g, list, s, n)
  <2>1. g = [k \in 0..n |-> g[k]]
    OBVIOUS
  <2> HIDE DEF g
  <2> QED BY <1>7, <2>1 DEF IsAfter
<1> QED BY <1>8

\* A list that each pair of a sequence is added to.
LEMMA EachDoes ==
  ASSUME NEW list, ListOK(list), NEW s, Len(s) \in Nat,
         \A i \in 1..Len(s) : s[i] \in Path \X Path /\ s[i][1] # s[i][2]
  PROVE  /\ ListOK(IgnoringEach(list, s))
         /\ AddsAll(IgnoringEach(list, s), list, s, Len(s))
<1> DEFINE L == Len(s)
           f == CHOOSE f : f = [n \in 0..L |-> IF n = 0 THEN list
                                               ELSE Ignoring(f[n - 1], s[n][1], s[n][2])]
<1>1. IgnoringEach(list, s) = f[L]
  BY DEF IgnoringEach
<1>2. f = [n \in 0..L |-> IF n = 0 THEN list ELSE Ignoring(f[n - 1], s[n][1], s[n][2])]
  BY AfterExists DEF IsAfter
<1> HIDE DEF f
<1> DEFINE Good(n) == ListOK(f[n]) /\ AddsAll(f[n], list, s, n)
           Bad == {n \in 0..L : ~Good(n)}
<1>3. Good(0)
  <2>1. f[0] = list /\ Unordered(FirstPairs(s, 0)) = {}
    BY <1>2 DEF Unordered, FirstPairs
  <2> QED BY <2>1 DEF AddsAll
<1>4. ASSUME NEW n \in 1..L, Good(n - 1) PROVE Good(n)
  <2>1. f[n] = Ignoring(f[n - 1], s[n][1], s[n][2])
    BY <1>2
  <2>2. s[n][1] \in Path /\ s[n][2] \in Path /\ s[n][1] # s[n][2]
    OBVIOUS
  <2>3. ListOK(f[n]) /\ Adds(f[n], f[n - 1], s[n][1], s[n][2])
    BY <1>4, <2>1, <2>2, IgnoringDoes
  <2>4. FirstPairs(s, n) = FirstPairs(s, n - 1) \cup {s[n]}
    <3>1. 1..n = 1..(n - 1) \cup {n}
      OBVIOUS
    <3> QED BY <3>1 DEF FirstPairs
  <2>5. Unordered(FirstPairs(s, n - 1) \cup {s[n]})
          = Unordered(FirstPairs(s, n - 1)) \cup {{s[n][1], s[n][2]}}
    BY DEF Unordered
  <2>6. Unordered(f[n - 1].pairs) = Unordered(list.pairs) \cup Unordered(FirstPairs(s, n - 1))
    BY <1>4 DEF AddsAll
  <2>7. Unordered(f[n].pairs) = Unordered(f[n - 1].pairs) \cup {{s[n][1], s[n][2]}}
    BY <2>3 DEF Adds
  <2>8. AddsAll(f[n], list, s, n)
    BY <2>4, <2>5, <2>6, <2>7 DEF AddsAll
  <2> QED BY <2>3, <2>8
<1> HIDE DEF Good
<1>5. Bad = {}
  <2> SUFFICES ASSUME Bad # {} PROVE FALSE
    OBVIOUS
  <2>1. PICK n \in Bad : \A k \in Bad : <<k, n>> \notin OpToRel(<, Nat)
    <3>1. Bad \subseteq Nat
      OBVIOUS
    <3> QED BY <3>1, NatLessThanWellFounded, WFMin
  <2>2. n \in 1..L /\ n - 1 \in 0..L /\ n - 1 < n
    BY <1>3
  <2>3. n - 1 \notin Bad
    <3>1. <<n - 1, n>> \in OpToRel(<, Nat)
      <4>1. n - 1 \in Nat /\ n \in Nat
        BY <2>2
      <4> QED BY <2>2, <4>1 DEF OpToRel
    <3> QED BY <2>1, <3>1
  <2> QED BY <1>4, <2>2, <2>3
<1>6. Good(L)
  BY <1>5
<1> QED BY <1>1, <1>6 DEF Good

\* Going through a dict of sets meets each pair.
LEMMA IterationIs ==
  ASSUME NEW P, KeptOnce(P), NEW s \in SetToSeqs(P)
  PROVE  Len(s) \in Nat /\ P = {s[i] : i \in 1..Len(s)}
<1> DEFINE D == 1..Cardinality(P)
<1>1. Cardinality(P) \in Nat /\ IsFiniteSet(P)
  BY KeptIsFinite
<1>2. s \in [D -> P] /\ \A i, j \in D : i # j => s[i] # s[j]
  BY DEF SetToSeqs
<1>3. IsFiniteSet(D) /\ Cardinality(D) = Cardinality(P)
  BY <1>1, FS_Interval
<1>4. s \in Injection(D, P)
  BY <1>2 DEF Injection, IsInjective
<1>5. s \in Surjection(D, P)
  BY <1>1, <1>3, <1>4, FS_Injection
<1>6. \A p \in P : \E i \in D : s[i] = p
  BY <1>5 DEF Surjection
<1>7. Len(s) = Cardinality(P)
  BY <1>1, <1>2
<1> QED BY <1>1, <1>2, <1>6, <1>7

\* A new list of the same pairs, in any order a dict can give them, is the same but for the
\* directions.
LEMMA RebuiltIs ==
  ASSUME NEW list, KeptOnce(list.pairs), NEW s \in Iterations(list)
  PROVE  /\ ListOK(IgnoringEach(EmptyList, s))
         /\ Unordered(IgnoringEach(EmptyList, s).pairs) = Unordered(list.pairs)
<1>1. s \in SetToSeqs(list.pairs)
  BY DEF Iterations
<1>2. Len(s) \in Nat /\ list.pairs = {s[i] : i \in 1..Len(s)}
  BY <1>1, IterationIs
<1>3. \A i \in 1..Len(s) : s[i] \in Path \X Path /\ s[i][1] # s[i][2]
  <2>1. \A i \in 1..Len(s) : s[i] \in list.pairs
    BY <1>2
  <2> QED BY <2>1 DEF KeptOnce
<1>4. ListOK(EmptyList) /\ EmptyList.pairs = {} /\ Unordered({}) = {}
  BY FS_EmptySet DEF EmptyList, ListOK, KeptOnce, Unordered
<1>5. FirstPairs(s, Len(s)) = list.pairs
  BY <1>2 DEF FirstPairs
<1>6. ListOK(IgnoringEach(EmptyList, s))
        /\ AddsAll(IgnoringEach(EmptyList, s), EmptyList, s, Len(s))
  <2>1. ListOK(EmptyList)
    BY <1>4
  <2> QED BY <1>2, <1>3, <2>1, EachDoes
<1> QED BY <1>4, <1>5, <1>6 DEF AddsAll

\* A list changes as the abstract one does when what it holds does.
LEMMA ChangesLikePromised ==
  ASSUME NEW new, ListOK(new), ignoreList' = new, NEW pairs, Unordered(new.pairs) = pairs
  PROVE  Promised!Change(pairs)
<1>1. new.count = Cardinality(new.pairs) /\ KeptOnce(new.pairs)
  BY DEF ListOK
<1>2. Promised!Cardinality(Unordered(new.pairs)) = Cardinality(new.pairs)
  BY <1>1, UnorderedIs
<1>3. Unordered(ignoreList.pairs)' = pairs /\ ignoreList'.count = Promised!Cardinality(pairs)
  BY <1>1, <1>2 DEF Unordered
<1> QED BY <1>3 DEF Promised!Change

\* Every step of the list is one of the abstract list, or changes nothing there.
LEMMA IgnoreStep ==
  IgnoreInv /\ [IgnoreNext]_ignoreVars =>
    IgnoreInv' /\ [Promised!PairsNext]_<<Unordered(ignoreList.pairs), ignoreList.count,
                                        Unordered(ignoreStored)>>
<1> SUFFICES ASSUME IgnoreInv, [IgnoreNext]_ignoreVars
             PROVE  /\ IgnoreInv'
                    /\ \/ Promised!PairsNext
                       \/ UNCHANGED <<Unordered(ignoreList.pairs), ignoreList.count,
                                     Unordered(ignoreStored)>>
  OBVIOUS
<1> DEFINE Kept == UNCHANGED Unordered(ignoreStored)
<1>1. ListOK(ignoreList) /\ KeptOnce(ignoreStored) /\ KeptOnce(ignoreList.pairs)
  BY DEF IgnoreInv, ListOK
<1>2. ASSUME ListOK(ignoreList)', KeptOnce(ignoreStored)' PROVE IgnoreInv'
  BY <1>2 DEF IgnoreInv
<1>3. ASSUME NEW new, ListOK(new), ignoreList' = new PROVE ListOK(ignoreList)'
  BY <1>3 DEF ListOK, KeptOnce
<1>4. ASSUME UNCHANGED ignoreStored PROVE KeptOnce(ignoreStored)' /\ Kept
  BY <1>1, <1>4 DEF KeptOnce, Unordered
<1>5. ASSUME NEW first \in Path, NEW second \in Path, first # second,
             Ignore(<<<<first, second>>>>)
      PROVE  IgnoreInv' /\ Promised!PairsNext
  <2> DEFINE s == <<<<first, second>>>>
             new == IgnoringEach(ignoreList, s)
  <2>1. Len(s) = 1 /\ s[1] = <<first, second>> /\ ignoreList' = new /\ UNCHANGED ignoreStored
    BY <1>5 DEF Ignore
  <2>2. FirstPairs(s, Len(s)) = {<<first, second>>}
    BY <2>1 DEF FirstPairs
  <2>3. Unordered({<<first, second>>}) = {{first, second}}
    BY DEF Unordered
  <2>4. \A i \in 1..Len(s) : s[i] \in Path \X Path /\ s[i][1] # s[i][2]
    BY <1>5, <2>1
  <2> HIDE DEF s
  <2>5. /\ ListOK(new)
        /\ Unordered(new.pairs) = Unordered(ignoreList.pairs) \cup {{first, second}}
    <3>1. ListOK(new) /\ AddsAll(new, ignoreList, s, Len(s))
      <4>1. Len(s) \in Nat
        BY <2>1
      <4> QED BY <1>1, <2>4, <4>1, EachDoes
    <3> QED BY <2>2, <2>3, <3>1 DEF AddsAll
  <2> HIDE DEF new
  <2>6. ListOK(ignoreList)' /\ KeptOnce(ignoreStored)' /\ Kept
    BY <1>3, <1>4, <2>1, <2>5
  <2>7. {{first, second}} \in SUBSET Promised!Pair
    BY <1>5, PairIs
  <2>8. Promised!Change(Unordered(ignoreList.pairs) \cup {{first, second}})
    BY <2>1, <2>5, ChangesLikePromised
  <2> QED BY <1>2, <2>6, <2>7, <2>8 DEF Promised!PairsNext, Promised!Add
<1>6. ASSUME NEW taken \in SUBSET ignoreList.pairs, RemoveRows(taken)
      PROVE  IgnoreInv' /\ Promised!PairsNext
  <2> DEFINE new == Removing(ignoreList, taken)
  <2>1. ignoreList' = new /\ UNCHANGED ignoreStored
    BY <1>6 DEF RemoveRows
  <2>2. /\ new = [pairs |-> new.pairs, count |-> new.count]
        /\ new.pairs = ignoreList.pairs \ taken
        /\ new.count = ignoreList.count - Cardinality(taken)
    BY DEF Removing
  <2> HIDE DEF new
  <2>3. /\ KeptOnce(ignoreList.pairs \ taken) /\ Unordered(taken) \subseteq Promised!Pair
        /\ Unordered(ignoreList.pairs \ taken) = Unordered(ignoreList.pairs) \ Unordered(taken)
    BY <1>1, UnorderedWithout
  <2>4. Cardinality(ignoreList.pairs \ taken) = Cardinality(ignoreList.pairs) - Cardinality(taken)
    BY <1>1, KeptIsFinite, RemovedCount
  <2>5. ListOK(new)
    BY <1>1, <2>2, <2>3, <2>4 DEF ListOK
  <2>6. ListOK(ignoreList)' /\ KeptOnce(ignoreStored)' /\ Kept
    BY <1>3, <1>4, <2>1, <2>5
  <2>7. Promised!Change(Unordered(ignoreList.pairs) \ Unordered(taken))
    BY <2>1, <2>2, <2>3, <2>5, ChangesLikePromised
  <2> QED BY <1>2, <2>3, <2>6, <2>7 DEF Promised!PairsNext, Promised!Drop
<1>7. CASE ClearIgnoreList
  <2>1. ignoreList' = EmptyList /\ UNCHANGED ignoreStored
    BY <1>7 DEF ClearIgnoreList
  <2>2. ListOK(EmptyList) /\ Unordered(EmptyList.pairs) = {}
    BY FS_EmptySet DEF EmptyList, ListOK, KeptOnce, Unordered
  <2>3. ListOK(ignoreList)' /\ KeptOnce(ignoreStored)' /\ Kept
    BY <1>3, <1>4, <2>1, <2>2
  <2>4. Unordered(ignoreList.pairs) \subseteq Promised!Pair
    BY <1>1, UnorderedIs
  <2>5. Promised!Change(Unordered(ignoreList.pairs) \ Unordered(ignoreList.pairs))
    <3>1. Unordered(ignoreList.pairs) \ Unordered(ignoreList.pairs) = {}
      OBVIOUS
    <3> QED BY <2>1, <2>2, <3>1, ChangesLikePromised
  <2> QED BY <1>2, <2>3, <2>4, <2>5 DEF Promised!PairsNext, Promised!Drop
<1>8. ASSUME NEW missing \in SUBSET Path, Purge(missing)
      PROVE  IgnoreInv' /\ Promised!PairsNext
  <2> DEFINE left == [ignoreList EXCEPT !.pairs = {p \in @ : {p[1], p[2]} \cap missing = {}}]
             taken == {p \in ignoreList.pairs : {p[1], p[2]} \cap missing # {}}
  <2>1. PICK s \in Iterations(left) : ignoreList' = IgnoringEach(EmptyList, s)
    BY <1>8 DEF Purge
  <2>2. UNCHANGED ignoreStored
    BY <1>8 DEF Purge
  <2>3. left.pairs = ignoreList.pairs \ taken /\ taken \in SUBSET ignoreList.pairs
    BY <1>1 DEF ListOK
  <2> HIDE DEF left, taken
  <2>4. /\ KeptOnce(left.pairs) /\ Unordered(taken) \subseteq Promised!Pair
        /\ Unordered(left.pairs) = Unordered(ignoreList.pairs) \ Unordered(taken)
    <3>1. /\ KeptOnce(ignoreList.pairs \ taken) /\ Unordered(taken) \subseteq Promised!Pair
          /\ Unordered(ignoreList.pairs \ taken) = Unordered(ignoreList.pairs) \ Unordered(taken)
      BY <1>1, <2>3, UnorderedWithout
    <3> QED BY <2>3, <3>1
  <2>5. /\ ListOK(IgnoringEach(EmptyList, s))
        /\ Unordered(IgnoringEach(EmptyList, s).pairs) = Unordered(left.pairs)
    BY <2>1, <2>4, RebuiltIs
  <2>6. ListOK(ignoreList)' /\ KeptOnce(ignoreStored)' /\ Kept
    BY <1>3, <1>4, <2>1, <2>2, <2>5
  <2>7. Promised!Change(Unordered(ignoreList.pairs) \ Unordered(taken))
    BY <2>1, <2>4, <2>5, ChangesLikePromised
  <2> QED BY <1>2, <2>4, <2>6, <2>7 DEF Promised!PairsNext, Promised!Drop
<1>9. CASE SaveIgnoreList
  <2>1. ignoreStored' = ignoreList.pairs /\ UNCHANGED ignoreList
    BY <1>9 DEF SaveIgnoreList
  <2>2. ListOK(ignoreList)' /\ KeptOnce(ignoreStored)'
    BY <1>1, <1>3, <2>1 DEF KeptOnce
  <2>3. Promised!Keep
    BY <2>1 DEF Promised!Keep, Unordered
  <2> QED BY <1>2, <2>2, <2>3 DEF Promised!PairsNext
<1>10. CASE LoadIgnoreList
  <2> DEFINE old == [EmptyList EXCEPT !.pairs = ignoreStored]
  <2>1. PICK s \in Iterations(old) : ignoreList' = IgnoringEach(EmptyList, s)
    BY <1>10 DEF LoadIgnoreList
  <2>2. UNCHANGED ignoreStored
    BY <1>10 DEF LoadIgnoreList
  <2>3. old.pairs = ignoreStored
    BY DEF EmptyList
  <2> HIDE DEF old
  <2>4. /\ ListOK(IgnoringEach(EmptyList, s))
        /\ Unordered(IgnoringEach(EmptyList, s).pairs) = Unordered(ignoreStored)
    BY <1>1, <2>1, <2>3, RebuiltIs
  <2>5. ListOK(ignoreList)' /\ KeptOnce(ignoreStored)' /\ Kept
    BY <1>3, <1>4, <2>1, <2>2, <2>4
  <2>6. Promised!Change(Unordered(ignoreStored))
    BY <2>1, <2>4, ChangesLikePromised
  <2> QED BY <1>2, <2>5, <2>6 DEF Promised!PairsNext, Promised!Restart
<1>11. CASE UNCHANGED ignoreVars
  <2>1. UNCHANGED ignoreList /\ UNCHANGED ignoreStored
    BY <1>11 DEF ignoreVars
  <2>2. IgnoreInv'
    BY <1>1, <1>2, <1>3, <1>4, <2>1
  <2> QED BY <2>1, <2>2 DEF Unordered
<1> QED BY <1>5, <1>6, <1>7, <1>8, <1>9, <1>10, <1>11 DEF IgnoreNext

\* The ignore list of the code, with its directions and its count kept by hand, implements a set
\* of unordered pairs with its size and its saved copy: whatever is added, removed, cleaned up,
\* saved and loaded again in whatever order the dict gives (core/ignore.py).
THEOREM IgnoreListIsPairs == IgnoreSpec => IgnoreListKeepsPairs
<1>1. IgnoreInit => IgnoreInv /\ Promised!PairsInit
  <2> SUFFICES ASSUME IgnoreInit PROVE IgnoreInv /\ Promised!PairsInit
    OBVIOUS
  <2>1. ListOK(EmptyList) /\ KeptOnce({})
    BY FS_EmptySet DEF EmptyList, ListOK, KeptOnce
  <2> QED BY <2>1 DEF Promised!PairsInit, IgnoreInit, EmptyList, Unordered, IgnoreInv
<1> QED BY <1>1, IgnoreStep, PTL DEF IgnoreSpec, IgnoreListKeepsPairs, Promised!PairsSpec

-----------------------------------------------------------------------------
(* The table of the results.  Its rows are the files of the groups, and    *)
(* what is ignored is kept apart, because the table is filled from the     *)
(* groups alone and a scan asks the ignore list about every pair.          *)

\* A set of numbers goes into a sequence that has each of them.
LEMMA InOrderIs ==
  ASSUME NEW S \in SUBSET Nat, IsFiniteSet(S)
  PROVE  InOrder(S) \in Seq(S) /\ ToSet(InOrder(S)) = S
<1> DEFINE n == Cardinality(S)
           Less(x) == {m \in S : m < x}
           rank == [x \in S |-> Cardinality(Less(x))]
<1>1. n \in Nat
  BY FS_CardinalityType
<1>2. \A x \in S : IsFiniteSet(Less(x)) /\ Cardinality(Less(x)) \in Nat
  BY FS_Subset, FS_CardinalityType
<1>3. ASSUME NEW T, IsFiniteSet(T), NEW U \in SUBSET T, NEW x \in T, x \notin U
      PROVE  Cardinality(U) < Cardinality(T)
  <2>1. Cardinality(U) <= Cardinality(T) /\ Cardinality(U) # Cardinality(T) /\ IsFiniteSet(U)
    BY <1>3, FS_Subset
  <2>2. Cardinality(U) \in Nat /\ Cardinality(T) \in Nat
    BY <1>3, <2>1, FS_CardinalityType
  <2> QED BY <2>1, <2>2
<1>4. ASSUME NEW x \in S PROVE rank[x] \in 0..(n - 1)
  <2>1. Less(x) \in SUBSET S /\ x \notin Less(x)
    OBVIOUS
  <2>2. Cardinality(Less(x)) < n
    BY <1>3, <2>1
  <2> QED BY <1>1, <1>2, <2>2
<1>5. ASSUME NEW x \in S, NEW y \in S, x < y PROVE rank[x] < rank[y]
  <2>1. \A m \in S : m < x => m < y
    BY <1>5
  <2>2. Less(x) \in SUBSET Less(y)
    BY <2>1
  <2>3. x \in Less(y) /\ x \notin Less(x)
    BY <1>5
  <2> QED BY <1>2, <1>3, <2>2, <2>3
<1>6. \A x, y \in S : rank[x] = rank[y] => x = y
  <2> SUFFICES ASSUME NEW x \in S, NEW y \in S, rank[x] = rank[y], x # y PROVE FALSE
    OBVIOUS
  <2>1. x < y \/ y < x
    OBVIOUS
  <2>2. rank[x] \in Int /\ rank[y] \in Int
    BY <1>4
  <2> QED BY <1>5, <2>1, <2>2
<1>7. \A i \in 0..(n - 1) : \E x \in S : rank[x] = i
  <2>1. rank \in Injection(S, 0..(n - 1))
    <3>1. rank \in [S -> 0..(n - 1)]
      BY <1>4
    <3> HIDE DEF rank
    <3> QED BY <1>6, <3>1 DEF Injection, IsInjective
  <2>2. IsFiniteSet(0..(n - 1)) /\ Cardinality(0..(n - 1)) = n
    <3>1. n - 1 \in Int /\ 0 \in Int /\ (0 > n - 1 => n = 0) /\ n - 1 - 0 + 1 = n
      BY <1>1
    <3> HIDE DEF n
    <3> QED BY <1>1, <3>1, FS_Interval
  <2>3. rank \in Surjection(S, 0..(n - 1))
    BY <2>1, <2>2, FS_Injection
  <2> QED BY <2>3 DEF Surjection
<1> DEFINE s == InOrder(S)
<1>8. s = [i \in 1..n |-> CHOOSE x \in S : Cardinality(Less(x)) = i - 1]
  BY DEF InOrder
<1>9. ASSUME NEW i \in 1..n PROVE s[i] \in S /\ rank[s[i]] = i - 1
  <2>1. i - 1 \in 0..(n - 1)
    BY <1>1
  <2>2. \E x \in S : rank[x] = i - 1
    BY <1>7, <2>1
  <2>3. s[i] = CHOOSE x \in S : Cardinality(Less(x)) = i - 1
    BY <1>8
  <2>4. \E x \in S : Cardinality(Less(x)) = i - 1
    BY <2>2
  <2>5. s[i] \in S /\ Cardinality(Less(s[i])) = i - 1
    <3> HIDE DEF s, Less
    <3> QED BY <2>3, <2>4
  <2> HIDE DEF s
  <2> QED BY <2>5
<1>10. ASSUME NEW x \in S PROVE \E i \in 1..n : s[i] = x
  <2>1. rank[x] \in 0..(n - 1)
    BY <1>4
  <2> DEFINE i == rank[x] + 1
  <2>2. i \in 1..n /\ i - 1 = rank[x]
    BY <1>1, <2>1
  <2> HIDE DEF i, s, rank
  <2>3. s[i] \in S /\ rank[s[i]] = rank[x]
    BY <1>9, <2>2
  <2>4. s[i] = x
    BY <1>6, <2>3
  <2> QED BY <2>2, <2>4
<1>11. DOMAIN s = 1..n
  BY <1>8
<1> HIDE DEF rank
<1>12. s \in [1..n -> S]
  BY <1>8, <1>9
<1>13. s \in Seq(S)
  BY <1>1, <1>12
<1> HIDE DEF s
<1>14. ToSet(s) = S
  BY <1>9, <1>10, <1>11 DEF ToSet
<1> QED BY <1>13, <1>14 DEF s

\* Either way round.
LEMMA SortedIs ==
  ASSUME NEW S \in SUBSET Path, NEW up
  PROVE  Sorted(S, up) \in Seq(S) /\ ToSet(Sorted(S, up)) = S
<1> DEFINE s == InOrder(S)
           t == Reverse(s)
<1>1. s \in Seq(S) /\ ToSet(s) = S
  <2>1. S \in SUBSET Nat /\ IsFiniteSet(S)
    BY IgnoreConstants, ViewConstants, FS_Subset
  <2> QED BY <2>1, InOrderIs
<1> HIDE DEF s
<1>2. Len(s) \in Nat /\ DOMAIN s = 1..Len(s) /\ \A i \in 1..Len(s) : s[i] \in S
  BY <1>1
<1>3. t = [i \in 1..Len(s) |-> s[(Len(s) - i) + 1]]
  BY DEF Reverse
<1>4. \A i \in 1..Len(s) : (Len(s) - i) + 1 \in 1..Len(s)
                             /\ t[i] = s[(Len(s) - i) + 1] /\ t[(Len(s) - i) + 1] = s[i]
  BY <1>2, <1>3
<1>5. t \in Seq(S)
  BY <1>2, <1>3, <1>4
<1>6. DOMAIN t = 1..Len(s)
  BY <1>3
<1> HIDE DEF t
<1>7. ToSet(t) = ToSet(s)
  <2>1. \A i \in 1..Len(s) : \E j \in 1..Len(s) : t[i] = s[j]
    BY <1>4
  <2>2. \A i \in 1..Len(s) : \E j \in 1..Len(s) : s[i] = t[j]
    BY <1>4
  <2>3. ToSet(t) = {t[i] : i \in 1..Len(s)} /\ ToSet(s) = {s[i] : i \in 1..Len(s)}
    BY <1>2, <1>6 DEF ToSet
  <2> HIDE DEF s
  <2> QED BY <2>1, <2>2, <2>3
<1> QED BY <1>1, <1>5, <1>7 DEF Sorted, s, t

\* What is taken out of a sequence is what was at those places.
LEMMA ThoseAre ==
  ASSUME NEW T, NEW s \in Seq(T), NEW places \in SUBSET DOMAIN s
  PROVE  Those(s, places) \in Seq(T) /\ ToSet(Those(s, places)) = {s[i] : i \in places}
<1> DEFINE o == InOrder(places)
           t == Those(s, places)
<1>1. Len(s) \in Nat /\ DOMAIN s = 1..Len(s) /\ \A i \in 1..Len(s) : s[i] \in T
  OBVIOUS
<1>2. places \in SUBSET Nat /\ IsFiniteSet(places)
  <2>1. IsFiniteSet(1..Len(s))
    BY <1>1, FS_Interval
  <2> QED BY <1>1, <2>1, FS_Subset
<1>3. o \in Seq(places) /\ ToSet(o) = places
  BY <1>2, InOrderIs
<1>4. t = [n \in DOMAIN o |-> s[o[n]]]
  BY DEF Those
<1> HIDE DEF o, t
<1>5. Len(o) \in Nat /\ DOMAIN o = 1..Len(o) /\ \A i \in DOMAIN o : o[i] \in places
  BY <1>3
<1>6. \A i \in DOMAIN o : s[o[i]] \in T
  BY <1>1, <1>5
<1>7. t \in [1..Len(o) -> T]
  BY <1>4, <1>5, <1>6
<1>8. t \in Seq(T)
  BY <1>5, <1>7
<1>9. ToSet(t) = {s[i] : i \in places}
  BY <1>3, <1>4, <1>5 DEF ToSet
<1> QED BY <1>8, <1>9 DEF t

\* The flattened sequences after each of them.
IsFlat(f, ss, n) == f = [k \in 1..n |-> IF k = 1 THEN ss[k] ELSE f[k - 1] \o ss[k]]
\* What the first sequences hold.
HeldBy(ss, n) == UNION {ToSet(ss[k]) : k \in 1..n}

\* However many sequences there are, there is one after each of them.
LEMMA FlatExists ==
  ASSUME NEW ss, NEW L \in Nat
  PROVE  \E f : IsFlat(f, ss, L)
<1> DEFINE Lacking == {n \in Nat : ~\E f : IsFlat(f, ss, n)}
<1> SUFFICES ASSUME Lacking # {} PROVE FALSE
  OBVIOUS
<1>1. PICK n \in Lacking : \A k \in Lacking : ~(k < n)
  <2>1. PICK n \in Lacking : \A k \in Lacking : <<k, n>> \notin OpToRel(<, Nat)
    BY NatLessThanWellFounded, WFMin
  <2>2. ASSUME NEW k \in Lacking PROVE ~(k < n)
    BY <2>1 DEF OpToRel
  <2> QED BY <2>2
<1>2. n # 0
  <2>1. IsFlat([k \in 1..0 |-> ss], ss, 0)
    BY DEF IsFlat
  <2> QED BY <2>1
<1>3. n - 1 \in Nat /\ n - 1 \notin Lacking
  BY <1>1, <1>2
<1>4. PICK f : IsFlat(f, ss, n - 1)
  BY <1>3
<1> DEFINE g == [k \in 1..n |-> IF k <= n - 1 THEN f[k]
                                 ELSE IF k = 1 THEN ss[k] ELSE f[k - 1] \o ss[k]]
<1>5. \A k \in 1..(n - 1) : f[k] = IF k = 1 THEN ss[k] ELSE f[k - 1] \o ss[k]
  BY <1>4 DEF IsFlat
<1>6. \A k \in 1..(n - 1) : g[k] = f[k]
  BY <1>3
<1>7. \A k \in 1..n : g[k] = IF k = 1 THEN ss[k] ELSE g[k - 1] \o ss[k]
  <2> SUFFICES ASSUME NEW k \in 1..n
               PROVE  g[k] = IF k = 1 THEN ss[k] ELSE g[k - 1] \o ss[k]
    OBVIOUS
  <2>1. CASE k = 1
    BY <1>5, <2>1
  <2>2. CASE k # 1
    <3>1. k - 1 \in 1..(n - 1) /\ (k <= n - 1 => k \in 1..(n - 1))
      BY <1>3, <2>2
    <3>2. g[k] = IF k <= n - 1 THEN f[k] ELSE f[k - 1] \o ss[k]
      BY <2>2
    <3>3. g[k - 1] = f[k - 1]
      BY <1>6, <3>1
    <3> HIDE DEF g
    <3> QED BY <1>5, <2>2, <3>1, <3>2, <3>3
  <2> QED BY <2>1, <2>2
<1>8. IsFlat(g, ss, n)
  <2>1. g = [k \in 1..n |-> g[k]]
    OBVIOUS
  <2> HIDE DEF g
  <2> QED BY <1>7, <2>1 DEF IsFlat
<1> QED BY <1>8

\* Two sequences one after the other have what either has.
LEMMA TogetherAre ==
  ASSUME NEW T, NEW a \in Seq(T), NEW b \in Seq(T)
  PROVE  a \o b \in Seq(T) /\ ToSet(a \o b) = ToSet(a) \cup ToSet(b)
<1>1. /\ a \o b \in Seq(T) /\ Len(a) \in Nat /\ Len(b) \in Nat
      /\ Len(a \o b) = Len(a) + Len(b)
      /\ \A i \in 1..Len(a) : (a \o b)[i] = a[i]
      /\ \A i \in 1..Len(b) : (a \o b)[Len(a) + i] = b[i]
  OBVIOUS
<1>2. /\ ToSet(a) = {a[i] : i \in 1..Len(a)} /\ ToSet(b) = {b[i] : i \in 1..Len(b)}
      /\ ToSet(a \o b) = {(a \o b)[i] : i \in 1..(Len(a) + Len(b))}
  <2>1. /\ DOMAIN a = 1..Len(a) /\ DOMAIN b = 1..Len(b)
        /\ DOMAIN (a \o b) = 1..(Len(a) + Len(b))
    <3>1. DOMAIN (a \o b) = 1..Len(a \o b)
      BY <1>1
    <3> QED BY <1>1, <3>1
  <2> QED BY <2>1, Zenon DEF ToSet
<1>3. ASSUME NEW i \in 1..(Len(a) + Len(b))
      PROVE  (a \o b)[i] \in ToSet(a) \cup ToSet(b)
  <2>1. CASE i <= Len(a)
    BY <1>1, <1>2, <2>1
  <2>2. CASE i > Len(a)
    <3> DEFINE j == i - Len(a)
    <3>1. j \in 1..Len(b) /\ i = Len(a) + j
      BY <1>1, <2>2
    <3> HIDE DEF j
    <3> QED BY <1>1, <1>2, <3>1
  <2> QED BY <1>1, <2>1, <2>2
<1>4. \A i \in 1..Len(a) : i \in 1..(Len(a) + Len(b)) /\ a[i] = (a \o b)[i]
  BY <1>1
<1>5. \A i \in 1..Len(b) :
        Len(a) + i \in 1..(Len(a) + Len(b)) /\ b[i] = (a \o b)[Len(a) + i]
  BY <1>1
<1>6. ToSet(a) \subseteq ToSet(a \o b)
  BY <1>2, <1>4
<1>7. ToSet(b) \subseteq ToSet(a \o b)
  BY <1>2, <1>5
<1>8. ToSet(a \o b) \subseteq ToSet(a) \cup ToSet(b)
  BY <1>2, <1>3
<1> QED BY <1>1, <1>6, <1>7, <1>8

\* One sequence after another has what each of them has.
LEMMA FlattenIs ==
  ASSUME NEW T, NEW ss \in Seq(Seq(T))
  PROVE  FlattenSeq(ss) \in Seq(T) /\ ToSet(FlattenSeq(ss)) = HeldBy(ss, Len(ss))
<1> DEFINE L == Len(ss)
           f == CHOOSE f : f = [k \in 1..L |-> IF k = 1 THEN ss[k] ELSE f[k - 1] \o ss[k]]
<1>1. L \in Nat /\ DOMAIN ss = 1..L /\ \A k \in 1..L : ss[k] \in Seq(T)
  OBVIOUS
<1>2. CASE L = 0
  <2>1. FlattenSeq(ss) = ss /\ ss = <<>>
    BY <1>2 DEF FlattenSeq
  <2>2. ToSet(ss) = {} /\ HeldBy(ss, 0) = {}
    BY <1>1, <1>2 DEF ToSet, HeldBy
  <2> QED BY <1>2, <2>1, <2>2
<1>3. CASE L # 0
  <2>1. FlattenSeq(ss) = f[L]
    BY <1>3 DEF FlattenSeq
  <2>2. f = [k \in 1..L |-> IF k = 1 THEN ss[k] ELSE f[k - 1] \o ss[k]]
    BY <1>1, FlatExists DEF IsFlat
  <2> HIDE DEF f
  <2> DEFINE Good(n) == f[n] \in Seq(T) /\ ToSet(f[n]) = HeldBy(ss, n)
             Bad == {n \in 1..L : ~Good(n)}
  <2>3. Good(1)
    <3>1. f[1] = ss[1]
      BY <1>1, <1>3, <2>2
    <3>2. HeldBy(ss, 1) = ToSet(ss[1])
      BY DEF HeldBy
    <3> QED BY <1>1, <1>3, <3>1, <3>2
  <2>4. ASSUME NEW n \in 2..L, Good(n - 1) PROVE Good(n)
    <3>1. n \in 1..L /\ n # 1 /\ ss[n] \in Seq(T) /\ f[n] = f[n - 1] \o ss[n]
      <4>1. n \in 1..L /\ n # 1
        BY <1>1
      <4> HIDE DEF L, Good
      <4> QED BY <1>1, <2>2, <4>1
    <3>2. /\ f[n - 1] \o ss[n] \in Seq(T)
          /\ ToSet(f[n - 1] \o ss[n]) = ToSet(f[n - 1]) \cup ToSet(ss[n])
      BY <2>4, <3>1, TogetherAre
    <3>3. HeldBy(ss, n) = HeldBy(ss, n - 1) \cup ToSet(ss[n])
      <4>1. 1..n = 1..(n - 1) \cup {n}
        OBVIOUS
      <4> QED BY <4>1 DEF HeldBy
    <3> QED BY <2>4, <3>1, <3>2, <3>3
  <2> HIDE DEF Good
  <2>5. Bad = {}
    <3> SUFFICES ASSUME Bad # {} PROVE FALSE
      OBVIOUS
    <3>1. PICK n \in Bad : \A k \in Bad : <<k, n>> \notin OpToRel(<, Nat)
      <4>1. Bad \subseteq Nat
        OBVIOUS
      <4> QED BY <4>1, NatLessThanWellFounded, WFMin
    <3>2. n \in 2..L /\ n - 1 \in 1..L /\ n - 1 < n
      BY <1>1, <2>3
    <3>3. n - 1 \notin Bad
      <4>1. <<n - 1, n>> \in OpToRel(<, Nat)
        <5>1. n - 1 \in Nat /\ n \in Nat
          BY <1>1, <3>2
        <5> QED BY <3>2, <5>1 DEF OpToRel
      <4> QED BY <3>1, <4>1
    <3> QED BY <2>4, <3>2, <3>3
  <2>6. Good(L)
    BY <1>1, <1>3, <2>5
  <2> QED BY <2>1, <2>6 DEF Good
<1> QED BY <1>2, <1>3

\* A group is in its class, and its reference is one of its files.
GroupIn(g, c) ==
  \/ g = NoGroup
  \/ /\ g = [ref |-> g.ref, members |-> g.members]
     /\ g.ref \in g.members /\ g.members \subseteq Members(c)
FilterOK(res) == res.filter \in FilterText \cup {NoFilter} /\ res.listed \subseteq Class
ResShape(res) ==
  /\ res = [groups |-> res.groups, filter |-> res.filter, hits |-> res.hits, listed |-> res.listed]
  /\ DOMAIN res.groups = Class /\ \A c \in Class : GroupIn(res.groups[c], c)
  /\ FilterOK(res)

TableOK == rows \in Seq(Path) /\ chosen \in Seq(Path) /\ indexes \subseteq DOMAIN rows
TableInv == TableOK /\ ViewIsCurrent
ApartInv ==
  /\ ListOK(ignoreList) /\ apartNow \subseteq Unordered(ignoreList.pairs)
  /\ IgnoredStayApart
ViewInv == ResShape(found) /\ TableInv /\ ApartInv

\* A file of a group has that group.
LEMMA InItsGroup ==
  ASSUME NEW res, ResShape(res), NEW c \in Class, NEW p \in res.groups[c].members
  PROVE  p \in Path /\ ClassOf[p] = c /\ GroupOf(res, p) = res.groups[c] /\ Grouped(res, p)
<1>1. res.groups[c] # NoGroup
  BY DEF NoGroup
<1>2. p \in Members(c)
  BY <1>1 DEF ResShape, GroupIn
<1> QED BY <1>2 DEF Members, GroupOf, Grouped

\* The files that a text finds have a class.
LEMMA FilteredIs ==
  ASSUME NEW res, ResShape(res), NEW text \in FilterText \cup {NoFilter}
  PROVE  ResShape(Filtered(res, text)) /\ Filtered(res, text).groups = res.groups
<1> DEFINE hits == IF text = NoFilter THEN {} ELSE {p \in text : Grouped(res, p)}
           new == Filtered(res, text)
<1>1. new = [groups |-> res.groups, filter |-> text, hits |-> hits,
             listed |-> {ClassOf[p] : p \in hits}]
  <2> DEFINE in == {ClassOf[p] : p \in hits}
  <2>1. new = [res EXCEPT !.filter = text, !.hits = hits, !.listed = in]
    BY DEF Filtered
  <2>2. res = [groups |-> res.groups, filter |-> res.filter, hits |-> res.hits,
               listed |-> res.listed]
    BY DEF ResShape
  <2> HIDE DEF new, hits, in
  <2> QED BY <2>1, <2>2 DEF in
<1>2. hits \subseteq Path
  BY ViewConstants
<1>3. {ClassOf[p] : p \in hits} \subseteq Class
  BY <1>2, ViewConstants
<1>4. new.groups = res.groups /\ new.filter = text /\ new.listed \subseteq Class
      /\ new = [groups |-> new.groups, filter |-> new.filter, hits |-> new.hits,
                listed |-> new.listed]
  BY <1>1, <1>3
<1> HIDE DEF new
<1> QED BY <1>4 DEF ResShape, FilterOK, new

\* Groups that are well formed stay so when the filter is applied to them.
LEMMA WithGroupsIs ==
  ASSUME NEW res, ResShape(res), NEW gs, DOMAIN gs = Class, \A c \in Class : GroupIn(gs[c], c)
  PROVE  ResShape(WithGroups(res, gs)) /\ WithGroups(res, gs).groups = gs
<1> DEFINE new == [res EXCEPT !.groups = gs]
<1>1. /\ new = [groups |-> gs, filter |-> res.filter, hits |-> res.hits, listed |-> res.listed]
      /\ new.groups = gs /\ new.filter = res.filter
  BY DEF ResShape
<1>2. ResShape(new)
  BY <1>1 DEF ResShape, FilterOK
<1>3. res.filter \in FilterText \cup {NoFilter}
  BY DEF ResShape, FilterOK
<1>4. WithGroups(res, gs) = Filtered(new, res.filter)
  BY DEF WithGroups
<1> HIDE DEF new
<1> QED BY <1>1, <1>2, <1>3, <1>4, FilteredIs

\* No group loses its reference to a removal of duplicates.
LEMMA WithoutIs ==
  ASSUME NEW res, ResShape(res), NEW gone, \A p \in gone : Grouped(res, p) /\ ~IsRef(res, p)
  PROVE  /\ ResShape(Without(res, gone))
         /\ \A c \in Class : Without(res, gone).groups[c].members \subseteq
                                res.groups[c].members \ gone
<1> DEFINE new == Without(res, gone)
           Left(c) == LET g == res.groups[c] IN
             IF g.members \ gone \subseteq {g.ref} THEN NoGroup
             ELSE [g EXCEPT !.members = @ \ gone]
<1>1. new = [groups |-> [c \in Class |-> Left(c)], filter |-> res.filter, hits |-> res.hits,
             listed |-> res.listed]
  <2> DEFINE gs == [c \in Class |-> Left(c)]
  <2>1. new = [res EXCEPT !.groups = gs]
    BY DEF Without
  <2>2. res = [groups |-> res.groups, filter |-> res.filter, hits |-> res.hits,
               listed |-> res.listed]
    BY DEF ResShape
  <2> HIDE DEF new, Left, gs
  <2> QED BY <2>1, <2>2 DEF gs
<1>2. ASSUME NEW c \in Class
      PROVE  GroupIn(Left(c), c) /\ Left(c).members \subseteq res.groups[c].members \ gone
  <2> DEFINE g == res.groups[c]
  <2>1. CASE g.members \ gone \subseteq {g.ref}
    <3>1. Left(c) = NoGroup
      BY <2>1
    <3> QED BY <3>1 DEF GroupIn, NoGroup
  <2>2. CASE ~(g.members \ gone \subseteq {g.ref})
    <3>1. g # NoGroup
      BY <2>2 DEF NoGroup
    <3>2. /\ g = [ref |-> g.ref, members |-> g.members]
          /\ g.ref \in g.members /\ g.members \subseteq Members(c)
      BY <3>1 DEF ResShape, GroupIn
    <3>3. Left(c) = [ref |-> g.ref, members |-> g.members \ gone]
      BY <2>2, <3>2
    <3>4. g.ref \notin gone
      <4>1. GroupOf(res, g.ref) = g
        BY <3>2, InItsGroup
      <4> QED BY <4>1 DEF IsRef
    <3> QED BY <3>2, <3>3, <3>4 DEF GroupIn
  <2> QED BY <2>1, <2>2
<1> HIDE DEF Left
<1>3. /\ new = [groups |-> new.groups, filter |-> new.filter, hits |-> new.hits,
                listed |-> new.listed]
      /\ new.groups = [c \in Class |-> Left(c)] /\ new.filter = res.filter
      /\ new.listed = res.listed
  BY <1>1
<1> HIDE DEF new
<1>4. ResShape(new)
  BY <1>2, <1>3 DEF ResShape, FilterOK
<1>5. \A c \in Class : new.groups[c].members \subseteq res.groups[c].members \ gone
  BY <1>2, <1>3
<1> QED BY <1>4, <1>5 DEF new

\* Every row of the table is a file of a group.
LEMMA RowsAre ==
  ASSUME NEW res, ResShape(res), NEW only, NEW up
  PROVE  /\ RowsOf(res, only, up) \in Seq(Path)
         /\ \A p \in ToSet(RowsOf(res, only, up)) : Grouped(res, p)
<1>1. ASSUME NEW c \in Listed(res)
      PROVE  c \in Class /\ res.groups[c].ref \in res.groups[c].members
  <2>1. c \in Class /\ res.groups[c] # NoGroup
    BY DEF Listed, ResShape, FilterOK
  <2> QED BY <2>1 DEF ResShape, GroupIn
<1>2. CASE only
  <2>1. ASSUME NEW p \in ListedDupes(res) PROVE p \in Path /\ Grouped(res, p)
    <3>1. PICK c \in Listed(res) : p \in DupesOf(res.groups[c])
      BY DEF ListedDupes
    <3>2. p \in res.groups[c].members
      BY <3>1 DEF DupesOf
    <3> QED BY <1>1, <3>2, InItsGroup
  <2>2. ListedDupes(res) \in SUBSET Path
    BY <2>1
  <2>3. RowsOf(res, only, up) = Sorted(ListedDupes(res), up)
    BY <1>2 DEF RowsOf
  <2> QED BY <2>1, <2>2, <2>3, SortedIs
<1>3. CASE ~only
  <2> DEFINE heads == {res.groups[c].ref : c \in Listed(res)}
             refs == Sorted(heads, up)
             Rest(p) == Sorted(DupesOf(GroupOf(res, p)), TRUE)
             ss == [i \in DOMAIN refs |-> <<refs[i]>> \o Rest(refs[i])]
  <2>1. ASSUME NEW p \in heads
        PROVE  /\ p \in Path /\ Grouped(res, p)
               /\ \A q \in DupesOf(GroupOf(res, p)) : q \in Path /\ Grouped(res, q)
    <3>1. PICK c \in Listed(res) : p = res.groups[c].ref
      OBVIOUS
    <3>2. c \in Class /\ p \in res.groups[c].members
      BY <1>1, <3>1
    <3>3. GroupOf(res, p) = res.groups[c]
      BY <3>2, InItsGroup
    <3> QED BY <3>2, <3>3, InItsGroup DEF DupesOf
  <2>2. heads \in SUBSET Path
    BY <2>1
  <2> HIDE DEF heads
  <2>3. refs \in Seq(heads) /\ ToSet(refs) = heads
    <3>1. Sorted(heads, up) \in Seq(heads) /\ ToSet(Sorted(heads, up)) = heads
      BY <2>2, SortedIs
    <3> QED BY <3>1
  <2> HIDE DEF refs
  <2>4. ASSUME NEW p \in heads
        PROVE  /\ <<p>> \o Rest(p) \in Seq(Path)
               /\ \A q \in ToSet(<<p>> \o Rest(p)) : Grouped(res, q)
    <3>1. DupesOf(GroupOf(res, p)) \in SUBSET Path
      BY <2>1
    <3>2. Rest(p) \in Seq(Path) /\ ToSet(Rest(p)) = DupesOf(GroupOf(res, p))
      <4>1. Rest(p) \in Seq(DupesOf(GroupOf(res, p)))
            /\ ToSet(Rest(p)) = DupesOf(GroupOf(res, p))
        BY <3>1, SortedIs
      <4> HIDE DEF Rest
      <4> QED BY <3>1, <4>1
    <3> HIDE DEF Rest
    <3>3. <<p>> \in Seq(Path) /\ ToSet(<<p>>) = {p}
      <4>1. DOMAIN <<p>> = {1} /\ <<p>>[1] = p
        OBVIOUS
      <4> QED BY <2>1, <4>1 DEF ToSet
    <3>4. /\ <<p>> \o Rest(p) \in Seq(Path)
          /\ ToSet(<<p>> \o Rest(p)) = {p} \cup DupesOf(GroupOf(res, p))
      <4> DEFINE a == <<p>>
      <4> HIDE DEF a
      <4>1. a \in Seq(Path) /\ ToSet(a) = {p}
        BY <3>3 DEF a
      <4>2. a \o Rest(p) \in Seq(Path) /\ ToSet(a \o Rest(p)) = ToSet(a) \cup ToSet(Rest(p))
        BY <3>2, <4>1, TogetherAre
      <4>3. ToSet(a \o Rest(p)) = {p} \cup DupesOf(GroupOf(res, p))
        BY <3>2, <4>1, <4>2
      <4> QED BY <4>2, <4>3 DEF a
    <3> QED BY <2>1, <3>4
  <2>5. Len(refs) \in Nat /\ DOMAIN refs = 1..Len(refs) /\ \A i \in DOMAIN refs : refs[i] \in heads
    BY <2>3
  <2>6. ss \in Seq(Seq(Path)) /\ Len(ss) = Len(refs)
    <3>1. \A i \in DOMAIN refs : <<refs[i]>> \o Rest(refs[i]) \in Seq(Path)
      BY <2>4, <2>5
    <3> HIDE DEF Rest
    <3> QED BY <2>5, <3>1
  <2>7. FlattenSeq(ss) \in Seq(Path) /\ ToSet(FlattenSeq(ss)) = HeldBy(ss, Len(ss))
    <3> HIDE DEF ss
    <3> QED BY <2>6, FlattenIs
  <2>8. ASSUME NEW p \in HeldBy(ss, Len(ss)) PROVE Grouped(res, p)
    <3>1. PICK i \in 1..Len(ss) : p \in ToSet(ss[i])
      BY DEF HeldBy
    <3>2. refs[i] \in heads /\ ss[i] = <<refs[i]>> \o Rest(refs[i])
      BY <2>5, <2>6
    <3> HIDE DEF ss
    <3> QED BY <2>4, <3>1, <3>2
  <2>9. RowsOf(res, only, up) = FlattenSeq(ss)
    BY <1>3 DEF RowsOf, refs, heads
  <2> HIDE DEF ss
  <2> QED BY <2>7, <2>8, <2>9
<1> QED BY <1>2, <1>3

\* The rows after a step that lists the groups again.
LEMMA RowsListed ==
  ASSUME ResShape(found)', rows' = RowsOf(found', dupesOnly', ascending')
  PROVE  rows' \in Seq(Path) /\ \A p \in ToSet(rows') : Grouped(found', p)
<1> DEFINE res == found'
<1>1. ResShape(res)
  BY DEF ResShape, GroupIn, FilterOK
<1> HIDE DEF res
<1>2. /\ RowsOf(res, dupesOnly', ascending') \in Seq(Path)
      /\ \A p \in ToSet(RowsOf(res, dupesOnly', ascending')) : Grouped(res, p)
  BY <1>1, RowsAre
<1> QED BY <1>2 DEF res

\* What ViewIsCurrent says of the next state.
LEMMA CurrentThen ==
  ASSUME rows' \in Seq(Path), chosen' \in Seq(Path), indexes' \subseteq DOMAIN rows',
         \/ unseen'
         \/ (/\ rows' = RowsOf(found', dupesOnly', ascending')
             /\ ToSet(chosen') \cap ToSet(rows') = {rows'[i] : i \in indexes'}
             /\ \A p \in ToSet(chosen') : Grouped(found', p))
  PROVE  TableInv'
<1>1. TableOK'
  BY DEF TableOK
<1>2. CASE unseen'
  BY <1>1, <1>2 DEF TableInv, ViewIsCurrent
<1>3. CASE ~unseen'
  <2>1. (rows = RowsOf(found, dupesOnly, ascending))'
    BY <1>3 DEF RowsOf, Sorted, Listed, ListedDupes, DupesOf, GroupOf
  <2>2. (ToSet(chosen) \cap ToSet(rows) = {rows[i] : i \in indexes})'
    BY <1>3 DEF ToSet
  <2>3. (\A p \in ToSet(chosen) : Grouped(found, p))'
    BY <1>3 DEF ToSet, Grouped, GroupOf
  <2> QED BY <1>1, <2>1, <2>2, <2>3 DEF TableInv, ViewIsCurrent
<1> QED BY <1>2, <1>3

\* GUITable.refresh shows the groups and selects the rows of the chosen files.
LEMMA RefreshDoes ==
  ASSUME ResShape(found)', NEW sel \in Seq(Path), Refresh(sel),
         unseen' \/ \A p \in ToSet(sel) : Grouped(found', p)
  PROVE  TableInv'
<1>1. /\ rows' = RowsOf(found', dupesOnly', ascending') /\ chosen' = sel
      /\ indexes' = {i \in DOMAIN rows' : rows'[i] \in ToSet(sel)}
  BY DEF Refresh
<1>2. rows' \in Seq(Path)
  BY <1>1, RowsListed
<1>3. indexes' \subseteq DOMAIN rows'
  BY <1>1
<1>4. ToSet(chosen') \cap ToSet(rows') = {rows'[i] : i \in indexes'}
  <2>1. ToSet(rows') = {rows'[i] : i \in DOMAIN rows'}
    BY DEF ToSet
  <2> QED BY <1>1, <2>1
<1> QED BY <1>1, <1>2, <1>3, <1>4, CurrentThen

\* _results_changed drops what has left the results from the selection.
LEMMA ResultsChangedDoes ==
  ASSUME ResShape(found)', chosen \in Seq(Path), ResultsChanged
  PROVE  TableInv' /\ ~unseen'
<1> DEFINE places == {i \in DOMAIN chosen : Grouped(found', chosen[i])}
           sel == Those(chosen, places)
<1>1. Refresh(sel) /\ ~unseen'
  BY DEF ResultsChanged
<1>2. sel \in Seq(Path) /\ ToSet(sel) = {chosen[i] : i \in places}
  BY ThoseAre
<1>3. \A p \in ToSet(sel) : Grouped(found', p)
  BY <1>2
<1> HIDE DEF sel
<1> QED BY <1>1, <1>2, <1>3, RefreshDoes

\* select chooses the files of the rows it selects.
LEMMA SelectDoes ==
  ASSUME NEW wanted, Select(wanted), rows' \in Seq(Path)
  PROVE  /\ indexes' \subseteq DOMAIN rows' /\ chosen' \in Seq(Path)
         /\ ToSet(chosen') = {rows'[i] : i \in indexes'} /\ ToSet(chosen') \subseteq ToSet(rows')
<1>1. chosen' = Those(rows', indexes')
  BY DEF Select
<1>2. indexes' \subseteq DOMAIN rows'
  <2>1. (indexes' = {Len(rows')} /\ rows' # <<>>) \/ indexes' = wanted \cap DOMAIN rows'
    BY DEF Select
  <2>2. rows' # <<>> => Len(rows') \in DOMAIN rows'
    OBVIOUS
  <2> QED BY <2>1, <2>2
<1>3. chosen' \in Seq(Path) /\ ToSet(chosen') = {rows'[i] : i \in indexes'}
  BY <1>1, <1>2, ThoseAre
<1>4. ToSet(rows') = {rows'[i] : i \in DOMAIN rows'}
  BY DEF ToSet
<1> QED BY <1>2, <1>3, <1>4

\* results_changed_but_keep_selection selects what is in the same rows now.
LEMMA KeepSelectionDoes ==
  ASSUME ResShape(found)', KeepSelection
  PROVE  TableInv' /\ ~unseen'
<1>1. rows' = RowsOf(found', dupesOnly', ascending') /\ Select(indexes) /\ ~unseen'
  BY DEF KeepSelection
<1>2. rows' \in Seq(Path) /\ \A p \in ToSet(rows') : Grouped(found', p)
  BY <1>1, RowsListed
<1>3. /\ indexes' \subseteq DOMAIN rows' /\ chosen' \in Seq(Path)
      /\ ToSet(chosen') = {rows'[i] : i \in indexes'} /\ ToSet(chosen') \subseteq ToSet(rows')
  BY <1>1, <1>2, SelectDoes
<1>4. ToSet(chosen') \cap ToSet(rows') = {rows'[i] : i \in indexes'}
  BY <1>3
<1>5. \A p \in ToSet(chosen') : Grouped(found', p)
  BY <1>2, <1>3
<1> QED BY <1>1, <1>2, <1>3, <1>4, <1>5, CurrentThen

\* A table that nothing touched is what it was.
LEMMA SameTable ==
  ASSUME TableInv, UNCHANGED tableVars,
         unseen' \/ (~unseen /\ UNCHANGED <<found, dupesOnly, ascending>>)
  PROVE  TableInv'
<1>1. UNCHANGED <<chosen, rows, indexes>>
  BY DEF tableVars
<1>2. rows' \in Seq(Path) /\ chosen' \in Seq(Path) /\ indexes' \subseteq DOMAIN rows'
  BY <1>1 DEF TableInv, TableOK
<1>3. CASE unseen'
  BY <1>2, <1>3, CurrentThen
<1>4. CASE ~unseen'
  <2>1. ~unseen /\ UNCHANGED <<found, dupesOnly, ascending, chosen, rows, indexes>>
    BY <1>1, <1>4
  <2>2. /\ rows = RowsOf(found, dupesOnly, ascending)
        /\ ToSet(chosen) \cap ToSet(rows) = {rows[i] : i \in indexes}
        /\ \A p \in ToSet(chosen) : Grouped(found, p)
    BY <1>4, <2>1 DEF TableInv, ViewIsCurrent
  <2>3. /\ rows' = RowsOf(found', dupesOnly', ascending')
        /\ ToSet(chosen') \cap ToSet(rows') = {rows'[i] : i \in indexes'}
        /\ \A p \in ToSet(chosen') : Grouped(found', p)
    BY <2>1, <2>2
  <2> QED BY <1>2, <2>3, CurrentThen
<1> QED BY <1>3, <1>4

-----------------------------------------------------------------------------
(* What is kept apart.                                                     *)

Parted(res, pair) ==
  \E p \in pair : \E q \in pair \ {p} : ~(Grouped(res, p) /\ q \in GroupOf(res, p).members)
NoneJoins(new, old) ==
  \A c \in Class : new.groups[c].members \subseteq old.groups[c].members

\* Two files that no group had together are not together while no file joins a group.
LEMMA StillParted ==
  ASSUME NEW old, NEW new, NoneJoins(new, old), NEW pair \in SUBSET Path, Parted(old, pair)
  PROVE  Parted(new, pair)
<1>1. PICK p \in pair : \E q \in pair \ {p} :
        ~(Grouped(old, p) /\ q \in GroupOf(old, p).members)
  BY DEF Parted
<1>2. PICK q \in pair \ {p} : ~(Grouped(old, p) /\ q \in GroupOf(old, p).members)
  BY <1>1
<1>3. ClassOf[p] \in Class
  BY ViewConstants
<1>4. ~(Grouped(new, p) /\ q \in GroupOf(new, p).members)
  BY <1>2, <1>3 DEF NoneJoins, Grouped, GroupOf
<1> QED BY <1>2, <1>4 DEF Parted

\* A file that is in no group is with no other.
LEMMA PartedFromAll ==
  ASSUME NEW res, NEW p \in Path, ~Grouped(res, p), NEW q, q # p
  PROVE  Parted(res, {p, q})
BY DEF Parted

\* What the ignore list holds are two paths.
LEMMA KeptArePaths ==
  ASSUME NEW list, ListOK(list), NEW pair \in Unordered(list.pairs)
  PROVE  /\ pair \in SUBSET Path /\ list.count > 0
         /\ \E p \in pair : \E q \in pair \ {p} : AreIgnored(list, p, q)
<1>1. PICK k \in list.pairs : pair = {k[1], k[2]}
  BY DEF Unordered
<1>2. KeptOnce(list.pairs) /\ list.count = Cardinality(list.pairs)
  BY DEF ListOK
<1>3. k = <<k[1], k[2]>> /\ k[1] \in Path /\ k[2] \in Path /\ k[1] # k[2]
  BY <1>2 DEF KeptOnce
<1>4. AreIgnored(list, k[1], k[2])
  BY <1>3 DEF AreIgnored
<1>5. list.count > 0
  <2>1. IsFiniteSet(list.pairs) /\ Cardinality(list.pairs) \in Nat
    BY <1>2, KeptIsFinite
  <2>2. Cardinality(list.pairs) # 0
    BY <2>1, FS_EmptySet
  <2> QED BY <1>2, <2>1, <2>2
<1> QED BY <1>1, <1>3, <1>4, <1>5

\* A scan parts every pair that the ignore list has.
LEMMA ScanParts ==
  ASSUME ResShape(found), ListOK(ignoreList), NEW gs \in ScanGroups, NEW res, res.groups = gs,
         NEW pair \in Unordered(ignoreList.pairs)
  PROVE  Parted(res, pair)
<1>0. PICK p \in pair : \E q \in pair \ {p} : AreIgnored(ignoreList, p, q)
  BY KeptArePaths
<1>1. PICK q \in pair \ {p} : AreIgnored(ignoreList, p, q)
  BY <1>0
<1>2. p \in Path /\ p # q /\ ignoreList.count > 0
  BY KeptArePaths
<1>3. ClassOf[p] \in Class
  BY <1>2, ViewConstants
<1>4. gs[ClassOf[p]] \in GroupsOf(ClassOf[p])
  BY <1>3 DEF ScanGroups
<1>5. CASE gs[ClassOf[p]] = NoGroup
  <2>1. ~Grouped(res, p)
    BY <1>5 DEF Grouped, GroupOf, NoGroup
  <2> QED BY <1>1, <2>1 DEF Parted
<1>6. CASE gs[ClassOf[p]] # NoGroup
  <2>1. PICK m \in SUBSET Members(ClassOf[p]) :
          /\ \A a, b \in m : a = b \/ MayMeet(a, b)
          /\ \E r \in m : gs[ClassOf[p]] = [ref |-> r, members |-> m]
    BY <1>4, <1>6 DEF GroupsOf
  <2>2. ~MayMeet(p, q)
    BY <1>1, <1>2 DEF MayMeet
  <2>3. ~(p \in m /\ q \in m)
    BY <1>2, <2>1, <2>2
  <2>4. ~(Grouped(res, p) /\ q \in GroupOf(res, p).members)
    BY <2>1, <2>3 DEF Grouped, GroupOf
  <2> QED BY <1>1, <2>4 DEF Parted
<1> QED BY <1>5, <1>6

\* The groups of a scan are in their classes.
LEMMA ScannedAre ==
  ASSUME NEW gs \in ScanGroups
  PROVE  DOMAIN gs = Class /\ \A c \in Class : GroupIn(gs[c], c)
<1>1. DOMAIN gs = Class /\ \A c \in Class : gs[c] \in GroupsOf(c)
  BY DEF ScanGroups
<1>2. ASSUME NEW c \in Class PROVE GroupIn(gs[c], c)
  <2>1. CASE gs[c] = NoGroup
    BY <2>1 DEF GroupIn
  <2>2. CASE gs[c] # NoGroup
    <3>1. PICK m \in SUBSET Members(c) : \E r \in m : gs[c] = [ref |-> r, members |-> m]
      BY <1>1, <2>2 DEF GroupsOf
    <3>2. PICK r \in m : gs[c] = [ref |-> r, members |-> m]
      BY <3>1
    <3> QED BY <3>2 DEF GroupIn
  <2> QED BY <2>1, <2>2
<1> QED BY <1>1, <1>2

\* The invariant's part about the groups, of the next state.
LEMMA ShapeThen ==
  ASSUME NEW res, ResShape(res), found' = res
  PROVE  ResShape(found)'
BY DEF ResShape, GroupIn, FilterOK

\* The invariant's part about what is ignored, of the next state.
LEMMA ApartThen ==
  ASSUME NEW list, ListOK(list), ignoreList' = list, apartNow' \subseteq Unordered(list.pairs),
         NEW res, found' = res, ~together' \/ \A pair \in apartNow' : Parted(res, pair)
  PROVE  ApartInv'
<1>1. ListOK(ignoreList)'
  BY DEF ListOK, KeptOnce
<1>2. (apartNow \subseteq Unordered(ignoreList.pairs))'
  BY DEF Unordered
<1>3. IgnoredStayApart'
  BY DEF IgnoredStayApart, Parted, Grouped, GroupOf
<1> QED BY <1>1, <1>2, <1>3 DEF ApartInv

\* Nothing that is ignored comes together while no file joins a group.
LEMMA SameApart ==
  ASSUME ApartInv, UNCHANGED <<ignoreList, apartNow>>, NEW res, found' = res,
         NoneJoins(res, found), together' => together
  PROVE  ApartInv'
<1>1. ListOK(ignoreList) /\ apartNow \subseteq Unordered(ignoreList.pairs)
  BY DEF ApartInv
<1>2. ASSUME together', NEW pair \in apartNow PROVE Parted(res, pair)
  <2>1. pair \in SUBSET Path
    BY <1>1, KeptArePaths
  <2>2. Parted(found, pair)
    BY <1>2 DEF ApartInv, IgnoredStayApart, Parted
  <2> QED BY <2>1, <2>2, StillParted
<1> QED BY <1>1, <1>2, ApartThen

\* The chosen files but the references.
LEMMA WithoutRefIs ==
  ASSUME chosen \in Seq(Path)
  PROVE  /\ WithoutRef \in Seq(Path)
         /\ ToSet(WithoutRef) = {p \in ToSet(chosen) : ~IsRef(found, p)}
<1> DEFINE places == {i \in DOMAIN chosen : ~IsRef(found, chosen[i])}
<1>1. /\ Those(chosen, places) \in Seq(Path)
      /\ ToSet(Those(chosen, places)) = {chosen[i] : i \in places}
  BY ThoseAre
<1>2. {chosen[i] : i \in places} = {p \in ToSet(chosen) : ~IsRef(found, p)}
  BY DEF ToSet
<1> QED BY <1>1, <1>2 DEF WithoutRef

\* What the user works on is in groups, and is no reference.
LEMMA WorkedOn ==
  ASSUME chosen \in Seq(Path), Workable
  PROVE  \A p \in ToSet(WithoutRef) : p \in Path /\ Grouped(found, p) /\ ~IsRef(found, p)
<1>1. \A p \in ToSet(chosen) : p \in Path /\ Grouped(found, p)
  BY DEF Workable, ToSet
<1> QED BY <1>1, WithoutRefIs

\* Pairs of two paths.
TwoPaths == {k \in Path \X Path : k[1] # k[2]}
HasPairs(s, p) == \A o \in GroupOf(found, p).members \ {p} : <<o, p>> \in ToSet(s)

\* A file is ignored with each of the others of its group.
LEMMA PairsOfIs ==
  ASSUME ResShape(found), NEW p \in Path
  PROVE  PairsOf(p) \in Seq(TwoPaths) /\ HasPairs(PairsOf(p), p)
<1> DEFINE them == GroupOf(found, p).members \ {p}
           others == Sorted(them, TRUE)
           s == [i \in DOMAIN others |-> <<others[i], p>>]
<1>1. them \in SUBSET Path
  <2>1. ClassOf[p] \in Class
    BY ViewConstants
  <2> QED BY <2>1, InItsGroup DEF GroupOf
<1>2. others \in Seq(them) /\ ToSet(others) = them
  BY <1>1, SortedIs
<1> HIDE DEF others
<1>3. Len(others) \in Nat /\ DOMAIN others = 1..Len(others)
      /\ \A i \in DOMAIN others : others[i] \in them
  BY <1>2
<1>4. \A i \in DOMAIN others : <<others[i], p>> \in TwoPaths
  BY <1>1, <1>3 DEF TwoPaths
<1>5. s \in [1..Len(others) -> TwoPaths]
  BY <1>3, <1>4
<1>6. DOMAIN s = DOMAIN others /\ s \in Seq(TwoPaths)
  BY <1>3, <1>5
<1>7. ASSUME NEW o \in them PROVE <<o, p>> \in ToSet(s)
  <2>1. PICK i \in DOMAIN others : o = others[i]
    BY <1>2 DEF ToSet
  <2>2. i \in DOMAIN s /\ s[i] = <<o, p>>
    BY <2>1
  <2> HIDE DEF s
  <2>3. s[i] \in ToSet(s)
    BY <2>2 DEF ToSet
  <2> QED BY <2>2, <2>3
<1> QED BY <1>6, <1>7 DEF PairsOf, HasPairs, others

\* The pairs of all the chosen files.
AllPairs == FlattenSeq([i \in DOMAIN WithoutRef |-> PairsOf(WithoutRef[i])])

\* add_selected_to_ignore_list ignores each of the chosen files with all others of its group.
LEMMA AllPairsAre ==
  ASSUME ResShape(found), chosen \in Seq(Path)
  PROVE  AllPairs \in Seq(TwoPaths) /\ \A p \in ToSet(WithoutRef) : HasPairs(AllPairs, p)
<1> DEFINE ss == [i \in DOMAIN WithoutRef |-> PairsOf(WithoutRef[i])]
<1>1. Len(WithoutRef) \in Nat /\ DOMAIN WithoutRef = 1..Len(WithoutRef)
      /\ \A i \in DOMAIN WithoutRef : WithoutRef[i] \in Path
  BY WithoutRefIs
<1>2. \A i \in DOMAIN WithoutRef : PairsOf(WithoutRef[i]) \in Seq(TwoPaths)
  BY <1>1, PairsOfIs
<1>3. ss \in Seq(Seq(TwoPaths)) /\ Len(ss) = Len(WithoutRef)
  BY <1>1, <1>2
<1>4. \A i \in DOMAIN WithoutRef : ss[i] = PairsOf(WithoutRef[i])
  OBVIOUS
<1>5. AllPairs = FlattenSeq(ss)
  BY DEF AllPairs
<1> HIDE DEF ss
<1>6. AllPairs \in Seq(TwoPaths) /\ ToSet(AllPairs) = HeldBy(ss, Len(ss))
  BY <1>3, <1>5, FlattenIs
<1>7. ASSUME NEW p \in ToSet(WithoutRef) PROVE HasPairs(AllPairs, p)
  <2>1. PICK i \in DOMAIN WithoutRef : p = WithoutRef[i]
    BY DEF ToSet
  <2>2. ss[i] = PairsOf(p) /\ i \in 1..Len(ss) /\ p \in Path
    BY <1>1, <1>3, <1>4, <2>1
  <2>3. ToSet(PairsOf(p)) \subseteq HeldBy(ss, Len(ss))
    BY <2>2 DEF HeldBy
  <2>4. HasPairs(PairsOf(p), p)
    BY <2>2, PairsOfIs
  <2> QED BY <1>6, <2>3, <2>4 DEF HasPairs
<1> QED BY <1>6, <1>7

\* The list has them then, and what it had.
LEMMA AllAreIgnored ==
  ASSUME ResShape(found), chosen \in Seq(Path), ListOK(ignoreList),
         NEW list, list = IgnoringEach(ignoreList, AllPairs)
  PROVE  /\ ListOK(list) /\ Unordered(ignoreList.pairs) \subseteq Unordered(list.pairs)
         /\ \A p \in ToSet(WithoutRef) : \A o \in GroupOf(found, p).members \ {p} :
              {p, o} \in Unordered(list.pairs)
<1> DEFINE s == AllPairs
<1>1. s \in Seq(TwoPaths) /\ \A p \in ToSet(WithoutRef) : HasPairs(s, p)
  BY AllPairsAre
<1> HIDE DEF s
<1>2. Len(s) \in Nat /\ DOMAIN s = 1..Len(s) /\ \A i \in 1..Len(s) : s[i] \in TwoPaths
  BY <1>1
<1>3. \A i \in 1..Len(s) : s[i] \in Path \X Path /\ s[i][1] # s[i][2]
  BY <1>2 DEF TwoPaths
<1>4. list = IgnoringEach(ignoreList, s)
  BY DEF s
<1>5. Len(s) \in Nat
  BY <1>2
<1>6. ListOK(list) /\ AddsAll(list, ignoreList, s, Len(s))
  BY <1>3, <1>4, <1>5, EachDoes
<1>7. Unordered(list.pairs) = Unordered(ignoreList.pairs) \cup Unordered(ToSet(s))
  <2>1. FirstPairs(s, Len(s)) = ToSet(s)
    BY <1>2 DEF FirstPairs, ToSet
  <2> QED BY <1>6, <2>1 DEF AddsAll
<1>8. ASSUME NEW p \in ToSet(WithoutRef), NEW o \in GroupOf(found, p).members \ {p}
      PROVE  {p, o} \in Unordered(list.pairs)
  <2>1. <<o, p>> \in ToSet(s)
    BY <1>1 DEF HasPairs
  <2>2. {o, p} \in Unordered(ToSet(s))
    BY <2>1 DEF Unordered
  <2>3. {o, p} = {p, o}
    OBVIOUS
  <2> QED BY <1>7, <2>2, <2>3
<1> QED BY <1>6, <1>7, <1>8

\* Rows of the ignore list's window that are removed leave a list.
LEMMA RemovingDoes ==
  ASSUME NEW list, ListOK(list), NEW taken \in SUBSET list.pairs
  PROVE  ListOK(Removing(list, taken)) /\ Removing(list, taken).pairs = list.pairs \ taken
<1> DEFINE new == Removing(list, taken)
<1>1. /\ new = [pairs |-> new.pairs, count |-> new.count]
      /\ new.pairs = list.pairs \ taken /\ new.count = list.count - Cardinality(taken)
  BY DEF Removing
<1> HIDE DEF new
<1>2. KeptOnce(list.pairs) /\ list.count = Cardinality(list.pairs)
  BY DEF ListOK
<1>3. KeptOnce(list.pairs \ taken)
  BY <1>2, UnorderedWithout
<1>4. Cardinality(list.pairs \ taken) = Cardinality(list.pairs) - Cardinality(taken)
  BY <1>2, KeptIsFinite, RemovedCount
<1> QED BY <1>1, <1>2, <1>3, <1>4 DEF ListOK, new

\* The first of the chosen files of a class, and the groups with it as reference.
ChosenOf(c) == Those(WithoutRef, {i \in DOMAIN WithoutRef : ClassOf[WithoutRef[i]] = c})
Promoted(gs) ==
  [c \in Class |-> IF c \in {d \in Class : ChosenOf(d) # <<>>}
                   THEN [gs[c] EXCEPT !.ref = ChosenOf(c)[1]] ELSE gs[c]]

\* Results are made of these.
LEMMA ResIs ==
  ASSUME NEW res, NEW a, NEW b, NEW c, NEW d,
         res = [groups |-> a, filter |-> b, hits |-> c, listed |-> d]
  PROVE  /\ res.groups = a /\ res.filter = b /\ res.hits = c /\ res.listed = d
         /\ res = [groups |-> res.groups, filter |-> res.filter, hits |-> res.hits,
                   listed |-> res.listed]
OBVIOUS

\* A file that becomes the reference of its group was one of its files.
LEMMA PromotedIs ==
  ASSUME ResShape(found), chosen \in Seq(Path), Workable,
         NEW res, res = [groups |-> Promoted(found.groups), filter |-> found.filter,
                         hits |-> found.hits, listed |-> found.listed]
  PROVE  /\ ResShape(res)
         /\ \A c \in Class : res.groups[c].members = found.groups[c].members
<1> DEFINE gs == Promoted(found.groups)
<1>1. ASSUME NEW c \in Class, ChosenOf(c) # <<>>
      PROVE  ChosenOf(c)[1] \in found.groups[c].members
  <2> DEFINE places == {i \in DOMAIN WithoutRef : ClassOf[WithoutRef[i]] = c}
             s == ChosenOf(c)
  <2>1. WithoutRef \in Seq(Path)
    BY WithoutRefIs
  <2>2. s \in Seq(Path) /\ ToSet(s) = {WithoutRef[i] : i \in places}
    BY <2>1, ThoseAre DEF ChosenOf
  <2> HIDE DEF s
  <2>3. 1 \in DOMAIN s
    BY <1>1, <2>2 DEF s
  <2>4. s[1] \in ToSet(s)
    BY <2>3 DEF ToSet
  <2>5. s[1] \in ToSet(WithoutRef) /\ ClassOf[s[1]] = c
    BY <2>2, <2>4 DEF ToSet
  <2>6. Grouped(found, s[1])
    BY <2>5, WorkedOn
  <2> QED BY <2>5, <2>6 DEF Grouped, GroupOf, s
<1>2. ASSUME NEW c \in Class
      PROVE  GroupIn(gs[c], c) /\ gs[c].members = found.groups[c].members
  <2> DEFINE g == found.groups[c]
  <2>1. GroupIn(g, c)
    BY DEF ResShape
  <2>2. CASE ChosenOf(c) = <<>>
    <3>1. gs[c] = g
      BY <2>2 DEF Promoted
    <3> QED BY <2>1, <3>1
  <2>3. CASE ChosenOf(c) # <<>>
    <3>1. gs[c] = [g EXCEPT !.ref = ChosenOf(c)[1]]
      BY <2>3 DEF Promoted
    <3>2. ChosenOf(c)[1] \in g.members
      BY <1>1, <2>3
    <3> DEFINE first == ChosenOf(c)[1]
    <3> HIDE DEF first, gs
    <3>3. g = [ref |-> g.ref, members |-> g.members] /\ g.members \subseteq Members(c)
      BY <2>1, <3>2 DEF GroupIn, NoGroup
    <3> HIDE DEF g
    <3>4. gs[c] = [ref |-> first, members |-> g.members]
      BY <3>1, <3>3 DEF first
    <3>5. GroupIn(gs[c], c) /\ gs[c].members = g.members
      BY <3>2, <3>3, <3>4 DEF GroupIn, first
    <3> QED BY <3>5 DEF g
  <2> QED BY <2>2, <2>3
<1>3. DOMAIN gs = Class
  BY DEF Promoted
<1> HIDE DEF gs
<1>4. FilterOK(found)
  BY DEF ResShape
<1>5. res.groups = gs /\ res.filter = found.filter /\ res.listed = found.listed
      /\ res = [groups |-> res.groups, filter |-> res.filter, hits |-> res.hits,
                listed |-> res.listed]
  BY ResIs DEF gs
<1> QED BY <1>2, <1>3, <1>4, <1>5 DEF ResShape, FilterOK

-----------------------------------------------------------------------------
\* Nothing is listed, chosen or ignored at the start.
LEMMA ViewStarts == ViewInit => ViewInv
<1> SUFFICES ASSUME ViewInit PROVE ViewInv
  OBVIOUS
<1>1. /\ found = Nothing /\ chosen = <<>> /\ rows = <<>> /\ indexes = {} /\ ~dupesOnly
      /\ apartNow = {} /\ ignoreList = EmptyList
  BY DEF ViewInit, IgnoreInit
<1>2. ResShape(found)
  BY <1>1 DEF Nothing, ResShape, GroupIn, FilterOK
<1>3. TableOK
  BY <1>1 DEF TableOK
<1>4. ViewIsCurrent
  <2>1. ToSet(<<>>) = {}
    BY DEF ToSet
  <2> DEFINE s == RowsOf(found, dupesOnly, ascending)
  <2>2. s \in Seq(Path) /\ \A p \in ToSet(s) : Grouped(found, p)
    BY <1>2, RowsAre
  <2>3. \A p \in Path : ~Grouped(found, p)
    BY <1>1, ViewConstants DEF Nothing, Grouped, GroupOf, NoGroup
  <2> HIDE DEF s
  <2>4. ASSUME s # <<>> PROVE FALSE
    <3>1. 1 \in DOMAIN s /\ s[1] \in Path
      BY <2>2, <2>4
    <3>2. s[1] \in ToSet(s)
      BY <3>1 DEF ToSet
    <3> QED BY <2>2, <2>3, <3>1, <3>2
  <2>5. RowsOf(found, dupesOnly, ascending) = <<>>
    BY <2>4 DEF s
  <2> QED BY <1>1, <2>1, <2>5 DEF ViewIsCurrent
<1>5. ApartInv
  BY <1>1, FS_EmptySet DEF ApartInv, IgnoredStayApart, EmptyList, ListOK, KeptOnce, Unordered
<1> QED BY <1>2, <1>3, <1>4, <1>5 DEF ViewInv, TableInv

\* What a step does that takes duplicates out of the results.
LEMMA RemoveDupesDoes ==
  ASSUME ResShape(found), NEW gone, \A p \in gone : Grouped(found, p) /\ ~IsRef(found, p),
         RemoveDupes(gone)
  PROVE  ResShape(found)' /\ TableInv' /\ found' = Without(found, gone) /\ NoneJoins(found', found)
<1>1. found' = Without(found, gone) /\ KeepSelection
  BY DEF RemoveDupes
<1>2. ResShape(found)'
  BY <1>1, WithoutIs, ShapeThen
<1>3. NoneJoins(found', found)
  BY <1>1, WithoutIs DEF NoneJoins
<1> QED BY <1>1, <1>2, <1>3, KeepSelectionDoes

\* The results of the groups that a job sets.
LEMMA TellDoes ==
  ASSUME ResShape(found)', TableInv, Tell
  PROVE  TableInv'
<1>1. CASE work.window
  BY <1>1, ResultsChangedDoes DEF Tell, TableInv, TableOK
<1>2. CASE ~work.window
  BY <1>2, SameTable DEF Tell
<1> QED BY <1>1, <1>2

\* The invariant is kept by what changes neither the results nor the table.
LEMMA ViewUntouched ==
  ASSUME ViewInv,
         UNCHANGED <<found, tableVars, dupesOnly, ascending, unseen, together, apartNow,
                     ignoreVars>>
  PROVE  ViewInv'
<1>1. UNCHANGED <<found, ignoreList, apartNow, together>>
  BY DEF ignoreVars
<1>2. ResShape(found)'
  BY <1>1, ShapeThen DEF ViewInv
<1>3. TableInv'
  BY SameTable DEF ViewInv
<1>4. ApartInv'
  <2>1. NoneJoins(found, found) /\ found' = found
    BY <1>1 DEF NoneJoins
  <2> QED BY <1>1, <2>1, SameApart DEF ViewInv
<1> QED BY <1>2, <1>3, <1>4 DEF ViewInv

\* Every step of the table, of the user and of the jobs keeps the invariant.
LEMMA ViewInvStep == ViewInv /\ [ViewNext]_viewVars => ViewInv'
<1> SUFFICES ASSUME ViewInv, [ViewNext]_viewVars PROVE ViewInv'
  OBVIOUS
<1> DEFINE SameList == UNCHANGED <<together, apartNow, ignoreVars>>
<1>1. /\ ResShape(found) /\ TableInv /\ ApartInv /\ TableOK
      /\ chosen \in Seq(Path) /\ rows \in Seq(Path)
      /\ ListOK(ignoreList) /\ apartNow \subseteq Unordered(ignoreList.pairs)
  BY DEF ViewInv, TableInv, TableOK, ApartInv
<1>2. NoneJoins(found, found)
  BY DEF NoneJoins
<1>3. ASSUME SameList, NoneJoins(found', found) PROVE ApartInv'
  <2>1. UNCHANGED <<ignoreList, apartNow, together>>
    BY <1>3 DEF ignoreVars
  <2> QED BY <1>1, <1>3, <2>1, SameApart
<1>4. ASSUME NEW wanted \in SUBSET DOMAIN rows, SelectRows(wanted) PROVE ViewInv'
  <2>1. /\ rows' = rows /\ Select(wanted)
        /\ UNCHANGED <<found, dupesOnly, ascending, unseen>> /\ SameList
    BY <1>4 DEF SelectRows, modeVars
  <2>2. ResShape(found)' /\ ApartInv'
    BY <1>1, <1>2, <1>3, <2>1, ShapeThen
  <2>3. /\ rows' \in Seq(Path) /\ indexes' \subseteq DOMAIN rows' /\ chosen' \in Seq(Path)
        /\ ToSet(chosen') = {rows'[i] : i \in indexes'} /\ ToSet(chosen') \subseteq ToSet(rows')
    BY <1>1, <2>1, SelectDoes
  <2>4. CASE unseen
    BY <2>1, <2>2, <2>3, <2>4, CurrentThen DEF ViewInv
  <2>5. CASE ~unseen
    <3>1. rows' = RowsOf(found', dupesOnly', ascending')
      BY <1>1, <2>1, <2>5 DEF TableInv, ViewIsCurrent
    <3>2. \A p \in ToSet(rows') : Grouped(found', p)
      BY <2>2, <3>1, RowsListed
    <3>3. ToSet(chosen') \cap ToSet(rows') = {rows'[i] : i \in indexes'}
      BY <2>3
    <3>4. \A p \in ToSet(chosen') : Grouped(found', p)
      BY <2>3, <3>2
    <3> QED BY <2>2, <2>3, <3>1, <3>3, <3>4, CurrentThen DEF ViewInv
  <2> QED BY <2>4, <2>5
<1>5. ASSUME ToggleDupesOnly \/ SortTable PROVE ViewInv'
  <2>1. found' = found /\ Refresh(chosen) /\ UNCHANGED unseen /\ SameList
    BY <1>5 DEF ToggleDupesOnly, SortTable
  <2>2. ResShape(found)' /\ ApartInv'
    BY <1>1, <1>2, <1>3, <2>1, ShapeThen
  <2>3. unseen' \/ \A p \in ToSet(chosen) : Grouped(found', p)
    BY <1>1, <2>1 DEF TableInv, ViewIsCurrent
  <2> QED BY <1>1, <2>1, <2>2, <2>3, RefreshDoes DEF ViewInv
<1>6. ASSUME NEW text \in FilterText \cup {NoFilter}, ApplyFilter(text) PROVE ViewInv'
  <2>1. found' = Filtered(found, text) /\ ResultsChanged /\ SameList
    BY <1>6 DEF ApplyFilter
  <2>2. ResShape(found)' /\ NoneJoins(found', found)
    BY <1>1, <2>1, FilteredIs, ShapeThen DEF NoneJoins
  <2>3. ApartInv'
    BY <1>3, <2>1, <2>2
  <2> QED BY <1>1, <2>1, <2>2, <2>3, ResultsChangedDoes DEF ViewInv
<1>7. CASE SaveResults
  <2>1. /\ found' = Filtered(found, NoFilter) /\ unseen' = (unseen \/ found' # found)
        /\ UNCHANGED <<tableVars, dupesOnly, ascending>> /\ SameList
    BY <1>7 DEF SaveResults, modeVars
  <2>2. ResShape(found)' /\ NoneJoins(found', found)
    BY <1>1, <2>1, FilteredIs, ShapeThen DEF NoneJoins
  <2>3. unseen' \/ (~unseen /\ UNCHANGED <<found, dupesOnly, ascending>>)
    <3>1. CASE found' = found
      BY <2>1, <3>1
    <3>2. CASE found' # found
      BY <2>1, <3>2
    <3> QED BY <3>1, <3>2
  <2>4. TableInv'
    BY <1>1, <2>1, <2>3, SameTable
  <2> QED BY <1>3, <2>1, <2>2, <2>4 DEF ViewInv
<1>8. CASE MarkAll
  BY <1>8, ViewUntouched DEF MarkAll, modeVars
<1>9. CASE RemoveSelected
  <2>1. RemoveDupes(ToSet(WithoutRef)) /\ Workable /\ SameList
    BY <1>9 DEF RemoveSelected
  <2>2. \A p \in ToSet(WithoutRef) : Grouped(found, p) /\ ~IsRef(found, p)
    BY <1>1, <2>1, WorkedOn
  <2>3. ResShape(found)' /\ TableInv' /\ NoneJoins(found', found)
    BY <1>1, <2>1, <2>2, RemoveDupesDoes
  <2> QED BY <1>3, <2>1, <2>3 DEF ViewInv
<1>10. CASE AddSelectedToIgnoreList
  <2> DEFINE gone == ToSet(WithoutRef)
             list == IgnoringEach(ignoreList, AllPairs)
             more == UNION {{{p, other} : other \in GroupOf(found, p).members \ {p}} : p \in gone}
  <2>1. /\ RemoveDupes(gone) /\ Workable /\ UNCHANGED together
        /\ ignoreList' = list /\ apartNow' = apartNow \cup more
    BY <1>10 DEF AddSelectedToIgnoreList, Ignore, AllPairs
  <2>2. \A p \in gone : p \in Path /\ Grouped(found, p) /\ ~IsRef(found, p)
    BY <1>1, <2>1, WorkedOn
  <2>3. /\ ResShape(found)' /\ TableInv' /\ NoneJoins(found', found)
        /\ found' = Without(found, gone)
    BY <1>1, <2>1, <2>2, RemoveDupesDoes
  <2>4. /\ ListOK(list) /\ Unordered(ignoreList.pairs) \subseteq Unordered(list.pairs)
        /\ \A p \in gone : \A o \in GroupOf(found, p).members \ {p} :
             {p, o} \in Unordered(list.pairs)
    BY <1>1, AllAreIgnored
  <2> HIDE DEF list
  <2>5. apartNow' \subseteq Unordered(list.pairs)
    BY <1>1, <2>1, <2>4
  <2>6. ASSUME together', NEW pair \in apartNow' PROVE Parted(found', pair)
    <3>1. CASE pair \in apartNow
      <4>1. pair \in SUBSET Path
        BY <1>1, <3>1, KeptArePaths
      <4>2. Parted(found, pair)
        BY <1>1, <2>1, <2>6, <3>1 DEF ApartInv, IgnoredStayApart, Parted
      <4> QED BY <2>3, <4>1, <4>2, StillParted
    <3>2. CASE pair \in more
      <4>1. PICK p \in gone : \E o \in GroupOf(found, p).members \ {p} : pair = {p, o}
        BY <3>2
      <4>2. PICK o \in GroupOf(found, p).members \ {p} : pair = {p, o}
        BY <4>1
      <4>3. p \in Path /\ ClassOf[p] \in Class
        BY <2>2, ViewConstants
      <4>4. Without(found, gone).groups[ClassOf[p]].members
              \subseteq found.groups[ClassOf[p]].members \ gone
        BY <1>1, <2>2, <4>3, WithoutIs
      <4>5. ~Grouped(found', p)
        BY <2>3, <4>4 DEF Grouped, GroupOf
      <4> QED BY <4>2, <4>3, <4>5, PartedFromAll
    <3> QED BY <2>1, <3>1, <3>2
  <2>7. ApartInv'
    BY <2>1, <2>4, <2>5, <2>6, ApartThen
  <2> QED BY <2>3, <2>7 DEF ViewInv
<1>11. CASE MakeSelectedReference
  <2> DEFINE gs == Promoted(found.groups)
             changed == {c \in Class : ChosenOf(c) # <<>>}
             sel == IF changed = {} THEN chosen
                    ELSE Those(chosen, {i \in DOMAIN chosen : IsRef(found', chosen[i])})
  <2>1. /\ found' = [found EXCEPT !.groups =
                       [c \in Class |-> IF c \in changed THEN [@[c] EXCEPT !.ref = ChosenOf(c)[1]]
                                        ELSE @[c]]]
        /\ Workable /\ SameList
        /\ dupesOnly => KeepSelection
        /\ ~dupesOnly => Refresh(sel)
    BY <1>11 DEF MakeSelectedReference, ChosenOf
  <2>2. found' = [groups |-> gs, filter |-> found.filter, hits |-> found.hits,
                  listed |-> found.listed]
    <3>1. found' = [found EXCEPT !.groups = gs]
      BY <2>1 DEF Promoted
    <3>2. found = [groups |-> found.groups, filter |-> found.filter, hits |-> found.hits,
                   listed |-> found.listed]
      BY <1>1 DEF ResShape
    <3> HIDE DEF gs
    <3> QED BY <3>1, <3>2
  <2> HIDE DEF gs
  <2>3. /\ ResShape(found')
        /\ \A c \in Class : found'.groups[c].members = found.groups[c].members
    BY <1>1, <2>1, <2>2, PromotedIs DEF gs
  <2>4. ResShape(found)' /\ NoneJoins(found', found)
    BY <2>3, ShapeThen DEF NoneJoins
  <2>5. ApartInv'
    BY <1>3, <2>1, <2>4
  <2>6. \A p \in ToSet(chosen) : Grouped(found', p)
    <3> SUFFICES ASSUME NEW p \in ToSet(chosen) PROVE Grouped(found', p)
      OBVIOUS
    <3>1. p \in Path /\ Grouped(found, p)
      BY <1>1, <2>1 DEF Workable, ToSet
    <3>2. ClassOf[p] \in Class
      BY <3>1, ViewConstants
    <3> QED BY <2>3, <3>1, <3>2 DEF Grouped, GroupOf
  <2>7. sel \in Seq(Path) /\ ToSet(sel) \subseteq ToSet(chosen)
    <3>1. CASE changed = {}
      BY <1>1, <3>1
    <3>2. CASE changed # {}
      <4> DEFINE places == {i \in DOMAIN chosen : IsRef(found', chosen[i])}
      <4>1. /\ Those(chosen, places) \in Seq(Path)
            /\ ToSet(Those(chosen, places)) = {chosen[i] : i \in places}
        BY <1>1, ThoseAre
      <4>2. {chosen[i] : i \in places} \subseteq ToSet(chosen)
        BY DEF ToSet
      <4> QED BY <3>2, <4>1, <4>2
    <3> QED BY <3>1, <3>2
  <2> HIDE DEF sel, changed
  <2>8. TableInv'
    <3>1. CASE dupesOnly
      BY <2>1, <2>4, <3>1, KeepSelectionDoes
    <3>2. CASE ~dupesOnly
      <4>1. \A p \in ToSet(sel) : Grouped(found', p)
        BY <2>6, <2>7
      <4> QED BY <2>1, <2>4, <2>7, <3>2, <4>1, RefreshDoes
    <3> QED BY <3>1, <3>2
  <2> QED BY <2>4, <2>5, <2>8 DEF ViewInv
<1>12. CASE EditIgnoreList
  <2>1. /\ apartNow' = apartNow \cap Unordered(ignoreList'.pairs)
        /\ UNCHANGED <<found, tableVars, dupesOnly, ascending, unseen, together>>
    BY <1>12 DEF EditIgnoreList, modeVars
  <2>2. PICK list : ListOK(list) /\ ignoreList' = list
    <3>1. CASE ClearIgnoreList
      <4>1. ListOK(EmptyList)
        BY FS_EmptySet DEF EmptyList, ListOK, KeptOnce
      <4> QED BY <3>1, <4>1 DEF ClearIgnoreList
    <3>2. CASE \E taken \in SUBSET ignoreList.pairs : RemoveRows(taken)
      <4>1. PICK taken \in SUBSET ignoreList.pairs : RemoveRows(taken)
        BY <3>2
      <4> QED BY <1>1, <4>1, RemovingDoes DEF RemoveRows
    <3> QED BY <1>12, <3>1, <3>2 DEF EditIgnoreList
  <2>3. ResShape(found)' /\ TableInv'
    BY <1>1, <2>1, ShapeThen, SameTable
  <2>4. together' => \A pair \in apartNow' : Parted(found, pair)
    BY <1>1, <2>1 DEF ApartInv, IgnoredStayApart, Parted
  <2>5. apartNow' \subseteq Unordered(list.pairs) /\ found' = found
    BY <2>1, <2>2
  <2>6. ApartInv'
    BY <2>2, <2>4, <2>5, ApartThen
  <2> QED BY <2>3, <2>6 DEF ViewInv
<1>13. CASE DeleteMarked \/ LoadResults \/ CloseWindow
  BY <1>13, ViewUntouched DEF DeleteMarked, LoadResults, CloseWindow, modeVars
<1>14. CASE StartScanning
  <2>1. /\ found' = WithGroups(found, Nothing.groups) /\ ResultsChanged
        /\ together' = TRUE /\ UNCHANGED <<apartNow, ignoreVars>>
    BY <1>14 DEF StartScanning
  <2>2. /\ DOMAIN Nothing.groups = Class
        /\ \A c \in Class : GroupIn(Nothing.groups[c], c) /\ Nothing.groups[c] = NoGroup
    BY DEF Nothing, GroupIn
  <2>3. ResShape(found') /\ found'.groups = Nothing.groups
    BY <1>1, <2>1, <2>2, WithGroupsIs
  <2>4. ResShape(found)'
    BY <2>3, ShapeThen
  <2>5. ASSUME NEW pair \in apartNow PROVE Parted(found', pair)
    <3>1. PICK p \in pair : \E q \in pair \ {p} : AreIgnored(ignoreList, p, q)
      BY <1>1, KeptArePaths
    <3>2. p \in Path /\ ClassOf[p] \in Class
      BY <1>1, KeptArePaths, ViewConstants
    <3>3. ~Grouped(found', p)
      BY <2>2, <2>3, <3>2 DEF Grouped, GroupOf, NoGroup
    <3> QED BY <3>1, <3>3 DEF Parted
  <2>6. ignoreList' = ignoreList /\ apartNow' = apartNow
    BY <2>1 DEF ignoreVars
  <2>7. ApartInv'
    BY <1>1, <2>5, <2>6, ApartThen
  <2> QED BY <1>1, <2>1, <2>4, <2>7, ResultsChangedDoes DEF ViewInv
<1>15. CASE FinishDelete
  <2>1. PICK deleted \in SUBSET work.targets :
          \E gone \in SUBSET {p \in deleted : Grouped(found, p) /\ ~IsRef(found, p)} :
            found' = Without(found, gone)
    BY <1>15 DEF FinishDelete
  <2>2. PICK gone \in SUBSET {p \in deleted : Grouped(found, p) /\ ~IsRef(found, p)} :
          found' = Without(found, gone)
    BY <2>1
  <2>3. \A p \in gone : Grouped(found, p) /\ ~IsRef(found, p)
    OBVIOUS
  <2>4. ResShape(found)' /\ NoneJoins(found', found)
    BY <1>1, <2>2, <2>3, WithoutIs, ShapeThen DEF NoneJoins
  <2>5. Tell /\ SameList
    BY <1>15 DEF FinishDelete
  <2> QED BY <1>1, <1>3, <2>4, <2>5, TellDoes DEF ViewInv
<1>16. CASE FinishScan
  <2>1. UNCHANGED <<modeVars, together, apartNow, ignoreVars>> /\ SameList
    BY <1>16 DEF FinishScan
  <2>2. ASSUME NEW gs \in ScanGroups, found' = WithGroups(found, gs), Tell PROVE ViewInv'
    <3>1. ResShape(found') /\ found'.groups = gs
      BY <1>1, <2>2, ScannedAre, WithGroupsIs
    <3>2. ResShape(found)'
      BY <3>1, ShapeThen
    <3>3. \A pair \in apartNow : Parted(found', pair)
      BY <1>1, <3>1, ScanParts
    <3>4. ignoreList' = ignoreList /\ apartNow' = apartNow
      BY <2>1 DEF ignoreVars
    <3>5. ApartInv'
      BY <1>1, <3>3, <3>4, ApartThen
    <3> QED BY <1>1, <2>2, <3>2, <3>5, TellDoes DEF ViewInv
  <2>3. ASSUME UNCHANGED <<found, tableVars, unseen>> PROVE ViewInv'
    BY <2>1, <2>3, ViewUntouched DEF modeVars
  <2> QED BY <1>16, <2>2, <2>3 DEF FinishScan
<1>17. CASE FinishLoad
  <2>1. UNCHANGED <<apartNow, ignoreVars>>
    BY <1>17 DEF FinishLoad
  <2>2. ASSUME found' = WithGroups(found, SavedGroups), ~together', Tell PROVE ViewInv'
    <3>1. DOMAIN SavedGroups = Class /\ \A c \in Class : GroupIn(SavedGroups[c], c)
      <4>1. DOMAIN SavedGroups = Class
        BY DEF SavedGroups
      <4>2. ASSUME NEW c \in Class PROVE GroupIn(SavedGroups[c], c)
        <5>1. CASE Cardinality(Members(c)) < 2
          BY <5>1 DEF SavedGroups, GroupIn
        <5>2. CASE ~(Cardinality(Members(c)) < 2)
          <6>1. Members(c) # {}
            BY <5>2, FS_EmptySet
          <6>2. PICK p \in Members(c) : SavedGroups[c] = [ref |-> p, members |-> Members(c)]
            BY <5>2, <6>1 DEF SavedGroups
          <6> QED BY <6>2 DEF GroupIn
        <5> QED BY <5>1, <5>2
      <4> QED BY <4>1, <4>2
    <3>2. ResShape(found)'
      BY <1>1, <2>2, <3>1, WithGroupsIs, ShapeThen
    <3>3. ignoreList' = ignoreList /\ apartNow' = apartNow
      BY <2>1 DEF ignoreVars
    <3>4. ApartInv'
      BY <1>1, <2>2, <3>3, ApartThen
    <3> QED BY <1>1, <2>2, <3>2, <3>4, TellDoes DEF ViewInv
  <2>3. ASSUME UNCHANGED <<found, modeVars, tableVars, unseen, together>> PROVE ViewInv'
    BY <2>1, <2>3, ViewUntouched DEF modeVars
  <2> QED BY <1>17, <2>2, <2>3 DEF FinishLoad
<1>18. CASE UNCHANGED viewVars
  BY <1>18, ViewUntouched DEF viewVars, modeVars
<1> QED BY <1>4, <1>5, <1>6, <1>7, <1>8, <1>9, <1>10, <1>11, <1>12, <1>13, <1>14, <1>15,
           <1>16, <1>17, <1>18 DEF ViewNext

\* Unless the results changed behind the table, its rows are the results, what is highlighted is
\* what an operation on the selection works on, and it all is in groups: after every removal,
\* promotion, filter, sort and job (core/gui/result_table.py).
THEOREM ViewStaysCurrent == ViewSpec => []ViewIsCurrent
<1>1. ViewInv => ViewIsCurrent
  BY DEF ViewInv, TableInv
<1> QED BY <1>1, ViewStarts, ViewInvStep, PTL DEF ViewSpec

\* No group of a scan has two files the user told it to keep apart, not even through a third
\* file, whatever was taken back, removed or promoted in between (app.py,
\* add_selected_to_ignore_list; scanner.py, get_dupe_groups).
THEOREM IgnoredFilesStayApart == ViewSpec => []IgnoredStayApart
<1>1. ViewInv => IgnoredStayApart
  BY DEF ViewInv, ApartInv
<1> QED BY <1>1, ViewStarts, ViewInvStep, PTL DEF ViewSpec
=============================================================================
