------------------------- MODULE PanelActionsProofs -------------------------
(***************************************************************************)
(* Proofs about the panel header, for every number of queries, every set  *)
(* of props, snapshots and widths, and every pair of breakpoints the       *)
(* assumptions of PanelActions allow.                                      *)
(***************************************************************************)
EXTENDS PanelActions, FiniteSetTheorems, TLAPS

\* The file a click on "CSV Export" saves is nothing, or a file of a known shape.
LEMMA ExportFileType ==
  ASSUME NEW type, NEW data
  PROVE  LET f == ExportFile(type, data) IN f = NoFile \/ f.type \in Shapes
BY DEF ExportFile, NoFile

\* Every handler keeps each variable in its type.
LEMMA TypeInvariance == TypeOK /\ [Next]_vars => TypeOK'
<1> SUFFICES ASSUME TypeOK, [Next]_vars PROVE TypeOK'
  OBVIOUS
<1>1. ASSUME NEW i \in 1..NumQueries, NEW r \in QueryResultSamples,
             UpdateQuery(i, r)
      PROVE  TypeOK'
  BY <1>1 DEF UpdateQuery, RemountMenus, TypeOK
<1>2. ASSUME NEW w \in WidthSamples, Resize(w) PROVE TypeOK'
  BY <1>2 DEF Resize, RemountMenus, TypeOK
<1>3. ASSUME NEW h \in BOOLEAN, Hover(h) PROVE TypeOK'
  BY <1>3 DEF Hover, TypeOK
<1>4. CASE ToggleEditMode
  BY <1>4 DEF ToggleEditMode, RemountMenus, TypeOK
<1>5. ASSUME NEW b \in Boxes, OpenMenu(b) PROVE TypeOK'
  BY <1>5 DEF OpenMenu, TypeOK
<1>6. ASSUME NEW b \in Boxes, CloseMenu(b) PROVE TypeOK'
  BY <1>6 DEF CloseMenu, TypeOK
<1>7. CASE ViewPanelClick
  BY <1>7 DEF ViewPanelClick, RemountMenus, TypeOK
<1>8. ASSUME NEW b \in Boxes, ExportClick(b) PROVE TypeOK'
  <2>1. download' = NoFile \/ download'.type \in Shapes
    BY <1>8, ExportFileType DEF ExportClick
  <2>2. QED
    BY <1>8, <2>1 DEF ExportClick, TypeOK
<1>9. CASE UNCHANGED vars
  BY <1>9 DEF vars, TypeOK
<1>10. QED
  BY <1>1, <1>2, <1>3, <1>4, <1>5, <1>6, <1>7, <1>8, <1>9 DEF Next

(***************************************************************************)
(* Type correctness: every handler keeps each variable in its type; in    *)
(* particular createCsvExportHandler saves nothing for a shape it does not *)
(* know (its switch returns before the download).                          *)
(***************************************************************************)
THEOREM TypeCorrect == Spec => []TypeOK
<1>1. Init => TypeOK
  BY DEF Init, TypeOK
<1>2. QED
  BY <1>1, TypeInvariance, PTL DEF Spec

-----------------------------------------------------------------------------
(***************************************************************************)
(* What an OverflowMenu contains depends only on the query results, the   *)
(* props and the modes; the hover, the width and the anchors leave it.    *)
(***************************************************************************)
LEMMA HasContentStable ==
  ASSUME queryResults' = queryResults, panel' = panel,
         editing' = editing, viewed' = viewed
  PROVE  \A b \in Boxes : HasContent(b)' = HasContent(b)
BY DEF HasContent, Present, IsElement, ExportableData, Extracted,
       QueryStateIndicator, IsViewed, MenuActions

\* A resize that does not re-render Panel shows and hides no popover: the
\* popover is portalled, so the width does not decide whether it is shown.
LEMMA ResizeKeepsPopovers ==
  ASSUME NEW w, Resize(w), RoundedPx(w) = RoundedPx(width)
  PROVE  \A b \in Boxes : PopoverShown(b)' = PopoverShown(b)
<1>1. anchor' = anchor
  BY DEF Resize
<1>2. \A b \in Boxes : HasContent(b)' = HasContent(b)
  BY HasContentStable DEF Resize
<1>3. QED
  BY <1>1, <1>2 DEF PopoverShown

\* After a render of PanelActions no popover is on screen.
LEMMA RemountClosesAll ==
  ASSUME RemountMenus
  PROVE  \A b \in Boxes : ~PopoverShown(b)'
BY DEF RemountMenus, PopoverShown

(***************************************************************************)
(* At most one overflow popover is on screen.  The property is inductive  *)
(* together with TypeOK: a menu is opened only while no popover is shown  *)
(* (the popover is modal), and every step that can give a closed menu's   *)
(* stale anchor content again (new query results, props or modes) renders *)
(* PanelActions, which remounts the menus (OnHover is redeclared on each   *)
(* render) and so clears every anchor.                                     *)
(***************************************************************************)
THEOREM SinglePopover == Spec => []AtMostOnePopover
<1> DEFINE Inv == TypeOK /\ AtMostOnePopover
<1>1. Init => Inv
  BY DEF Init, TypeOK, AtMostOnePopover, PopoverShown
<1>2. Inv /\ [Next]_vars => Inv'
  <2> SUFFICES ASSUME Inv, [Next]_vars PROVE AtMostOnePopover'
    BY TypeInvariance DEF Inv
  <2>1. ASSUME NEW i \in 1..NumQueries, NEW r \in QueryResultSamples,
               UpdateQuery(i, r)
        PROVE  AtMostOnePopover'
    BY <2>1, RemountClosesAll DEF UpdateQuery, AtMostOnePopover
  <2>2. ASSUME NEW w \in WidthSamples, Resize(w) PROVE AtMostOnePopover'
    <3>1. CASE RoundedPx(w) # RoundedPx(width)
      BY <2>2, <3>1, RemountClosesAll DEF Resize, AtMostOnePopover
    <3>2. CASE RoundedPx(w) = RoundedPx(width)
      BY <2>2, <3>2, ResizeKeepsPopovers DEF AtMostOnePopover
    <3>3. QED
      BY <3>1, <3>2
  <2>3. CASE ToggleEditMode
    BY <2>3, RemountClosesAll DEF ToggleEditMode, AtMostOnePopover
  <2>4. CASE ViewPanelClick
    BY <2>4, RemountClosesAll DEF ViewPanelClick, AtMostOnePopover
  <2>5. ASSUME NEW h \in BOOLEAN, Hover(h) PROVE AtMostOnePopover'
    <3>1. \A b \in Boxes : HasContent(b)' = HasContent(b)
      BY <2>5, HasContentStable DEF Hover
    <3>2. QED
      BY <2>5, <3>1 DEF Hover, AtMostOnePopover, PopoverShown
  <2>6. ASSUME NEW b \in Boxes, OpenMenu(b) PROVE AtMostOnePopover'
    <3>1. \A c \in Boxes : HasContent(c)' = HasContent(c)
      BY <2>6, HasContentStable DEF OpenMenu
    <3>2. \A c \in Boxes \ {b} : ~PopoverShown(c)'
      BY <2>6, <3>1 DEF OpenMenu, NoPopover, PopoverShown, TypeOK
    <3>3. QED
      BY <3>2 DEF AtMostOnePopover
  <2>7. ASSUME NEW b \in Boxes, CloseMenu(b) PROVE AtMostOnePopover'
    <3>1. \A c \in Boxes : HasContent(c)' = HasContent(c)
      BY <2>7, HasContentStable DEF CloseMenu
    <3>2. \A c \in Boxes : PopoverShown(c)' => PopoverShown(c)
      BY <2>7, <3>1 DEF CloseMenu, PopoverShown, TypeOK
    <3>3. QED
      BY <3>2 DEF AtMostOnePopover
  <2>8. ASSUME NEW b \in Boxes, ExportClick(b) PROVE AtMostOnePopover'
    <3>1. \A c \in Boxes : HasContent(c)' = HasContent(c)
      BY <2>8, HasContentStable DEF ExportClick
    <3>2. \A c \in Boxes : PopoverShown(c)' => PopoverShown(c)
      BY <2>8, <3>1 DEF ExportClick, PopoverShown, TypeOK
    <3>3. QED
      BY <3>2 DEF AtMostOnePopover
  <2>9. CASE UNCHANGED vars
    <3>1. \A b \in Boxes : HasContent(b)' = HasContent(b)
      BY <2>9, HasContentStable DEF vars
    <3>2. QED
      BY <2>9, <3>1 DEF vars, AtMostOnePopover, PopoverShown
  <2>10. QED
    BY <2>1, <2>2, <2>3, <2>4, <2>5, <2>6, <2>7, <2>8, <2>9 DEF Next
<1>3. QED
  BY <1>1, <1>2, PTL DEF Spec, Inv

-----------------------------------------------------------------------------
(***************************************************************************)
(* On a whole-pixel width some box is displayed: the 0.05px gaps between  *)
(* the container-query ranges hold no multiple of a pixel.                 *)
(***************************************************************************)
LEMMA SomeBoxShown ==
  ASSUME NEW w \in Nat, w % 100 = 0
  PROVE  \E b \in Boxes : BoxShown(b, w)
<1>1. CASE w <= 100 * HEADER_SMALL_WIDTH - BREAKPOINT_STEP
  BY <1>1 DEF BoxShown, Boxes
<1>2. CASE ~(w <= 100 * HEADER_MEDIUM_WIDTH - BREAKPOINT_STEP)
  BY <1>2 DEF BoxShown, Boxes
<1>3. CASE ~(w <= 100 * HEADER_SMALL_WIDTH - BREAKPOINT_STEP)
           /\ w <= 100 * HEADER_MEDIUM_WIDTH - BREAKPOINT_STEP
  <2>1. 100 * HEADER_SMALL_WIDTH <= w
    <3>1. w = 100 * (w \div 100)
      OBVIOUS
    <3>2. QED
      BY <1>3, <3>1, BreakpointAssumption DEF BREAKPOINT_STEP, BreakpointAssumption
  <2>2. BoxShown("medium", w)
    BY <1>3, <2>1 DEF BoxShown
  <2>3. QED
    BY <2>2 DEF Boxes
<1>4. QED
  BY <1>1, <1>2, <1>3

\* The read action of a viewed panel is placed in any displayed box.
LEMMA ReadPlaced ==
  ASSUME TypeOK, IsViewed, NEW b \in Boxes, BoxShown(b, width)
  PROVE  Placements("read") # {}
<1>1. Present("read") /\ OnHoverShows
  BY DEF IsViewed, Present, OnHoverShows
<1>2. CASE b \in {"medium", "large"}
  <2>1. InlineShown(b, "read")
    BY <1>1, <1>2 DEF InlineShown, Inline, AlwaysVisible
  <2>2. QED
    BY <2>1 DEF Placements
<1>3. CASE b = "small"
  <2>1. HasContent("small")
    BY <1>1 DEF HasContent, MenuActions, IsElement
  <2>2. "read" \in MenuActions(b) /\ MenuButtonShown(b)
    BY <1>1, <1>3, <2>1 DEF MenuActions, MenuButtonShown
  <2>3. QED
    BY <1>1, <2>2 DEF Placements
<1>4. QED
  BY <1>2, <1>3 DEF Boxes

(***************************************************************************)
(* A viewed panel can always be left, on whole-pixel widths: OnHover shows *)
(* its children while the panel is viewed, the read action is inline in   *)
(* the medium and large boxes and in the small box's menu, which then has *)
(* content, and some box is displayed.  It is a consequence of TypeOK      *)
(* alone; the sub-pixel widths, where no box is displayed, are the        *)
(* subpixel_gap run's.                                                     *)
(***************************************************************************)
THEOREM ExitViewAlwaysReachable ==
  ASSUME WholePixelWidths
  PROVE  Spec => []ExitViewReachable
<1>1. TypeOK => ExitViewReachable
  <2> SUFFICES ASSUME TypeOK, IsViewed PROVE Placements("read") # {}
    BY DEF ExitViewReachable
  <2>1. width \in Nat /\ width % 100 = 0
    BY SamplesAssumption, WholePixelWidths DEF TypeOK, WholePixelWidths, SamplesAssumption
  <2>2. PICK b \in Boxes : BoxShown(b, width)
    BY <2>1, SomeBoxShown
  <2>3. QED
    BY <2>2, ReadPlaced
<1>2. QED
  BY <1>1, TypeCorrect, PTL


-----------------------------------------------------------------------------
\* At most one box is displayed at any width: the ranges do not overlap.
LEMMA BoxesDisjoint ==
  ASSUME NEW w \in Nat, NEW b \in Boxes, NEW c \in Boxes,
         BoxShown(b, w), BoxShown(c, w)
  PROVE  b = c
<1>1. BoxShown("small", w) <=> w <= 100 * HEADER_SMALL_WIDTH - BREAKPOINT_STEP
  BY DEF BoxShown
<1>2. BoxShown("medium", w) <=> /\ 100 * HEADER_SMALL_WIDTH <= w
                                /\ w <= 100 * HEADER_MEDIUM_WIDTH - BREAKPOINT_STEP
  BY DEF BoxShown
<1>3. BoxShown("large", w) <=> ~(w <= 100 * HEADER_MEDIUM_WIDTH - BREAKPOINT_STEP)
  BY DEF BoxShown
<1>4. QED
  BY <1>1, <1>2, <1>3, BreakpointAssumption
  DEF Boxes, BREAKPOINT_STEP, BreakpointAssumption

\* Each box shows every action either inline or in its menu, never both.
LEMMA InlineOrMenu ==
  ASSUME NEW b \in Boxes, NEW a \in Actions
  PROVE  (a \in Inline(b)) <=> (a \notin MenuActions(b))
BY DEF Inline, MenuActions, Boxes, Actions

(***************************************************************************)
(* In the one displayed box b, while the pointer is on the panel, a        *)
(* present action that is a React element is placed exactly once: inline   *)
(* when b lists it inline, else behind b's menu button, which is rendered  *)
(* because the action itself gives the menu content.                       *)
(***************************************************************************)
LEMMA PlacedOnce ==
  ASSUME TypeOK, hover, NEW b \in Boxes, BoxShown(b, width),
         \A c \in Boxes : BoxShown(c, width) => c = b,
         NEW a \in Actions, Present(a), IsElement(a)
  PROVE  Placements(a) = {IF a \in Inline(b) THEN <<b, "inline">> ELSE <<b, "menu">>}
<1>1. OnHoverShows
  BY DEF OnHoverShows
<1>2. CASE a \in Inline(b)
  <2>1. a \notin MenuActions(b)
    BY <1>2, InlineOrMenu
  <2>2. \A c \in Boxes : InlineShown(c, a) <=> c = b
    BY <1>1, <1>2 DEF InlineShown
  <2>3. \A c \in Boxes : ~(a \in MenuActions(c) /\ Present(a) /\ MenuButtonShown(c))
    BY <2>1 DEF MenuButtonShown
  <2>4. QED
    BY <1>2, <2>2, <2>3 DEF Placements
<1>3. CASE a \notin Inline(b)
  <2>1. a \in MenuActions(b)
    BY <1>3, InlineOrMenu
  <2>2. MenuButtonShown(b)
    BY <1>1, <2>1 DEF MenuButtonShown, HasContent
  <2>3. \A c \in Boxes : ~InlineShown(c, a)
    BY <1>3 DEF InlineShown
  <2>4. \A c \in Boxes : (a \in MenuActions(c) /\ Present(a) /\ MenuButtonShown(c)) <=> c = b
    BY <2>1, <2>2 DEF MenuButtonShown
  <2>5. QED
    BY <1>3, <2>3, <2>4 DEF Placements
<1>4. QED
  BY <1>2, <1>3

(***************************************************************************)
(* Layout, for every set of props: on whole-pixel widths and while the     *)
(* pointer is on the panel, every present action that is a React element   *)
(* is reachable in exactly one place.  Only a string extra can be lost: it *)
(* does not count as menu content, so the small box's menu may render      *)
(* nothing around it (part_001:1270).                                      *)
(***************************************************************************)
THEOREM LayoutPlacesEachElementOnce ==
  ASSUME WholePixelWidths
  PROVE  Spec => [](hover => \A a \in Actions :
                                Present(a) /\ IsElement(a) => Cardinality(Placements(a)) = 1)
<1>1. ASSUME TypeOK, hover, NEW a \in Actions, Present(a), IsElement(a)
      PROVE  Cardinality(Placements(a)) = 1
  <2>1. width \in Nat /\ width % 100 = 0
    BY <1>1, SamplesAssumption, WholePixelWidths DEF TypeOK, WholePixelWidths, SamplesAssumption
  <2>2. PICK b \in Boxes : BoxShown(b, width)
    BY <2>1, SomeBoxShown
  <2>3. \A c \in Boxes : BoxShown(c, width) => c = b
    BY <2>1, <2>2, BoxesDisjoint
  <2>4. \E x : Placements(a) = {x}
    BY <1>1, <2>2, <2>3, PlacedOnce
  <2>5. QED
    BY <2>4, FS_Singleton
<1>2. TypeOK => (hover => \A a \in Actions :
                            Present(a) /\ IsElement(a) => Cardinality(Placements(a)) = 1)
  BY <1>1
<1>3. QED
  BY <1>2, TypeCorrect, PTL

(***************************************************************************)
(* Layout, for every pair of breakpoints and every set of props whose      *)
(* extra is a React element: on whole-pixel widths exactly one box is      *)
(* displayed, and while the pointer is on the panel each action            *)
(* PanelActions produces is reachable in exactly one place in it.  Both    *)
(* hypotheses are needed: the subpixel_gap run shows a width at which no   *)
(* box is displayed, and a string extra alone in the small box's menu is   *)
(* not a valid element, so OverflowMenu renders nothing for it.            *)
(***************************************************************************)
THEOREM LayoutPlacesEachActionOnce ==
  ASSUME WholePixelWidths, ElementExtras
  PROVE  Spec => []EachActionOncePlaced
<1>1. TypeOK => EachActionOncePlaced
  <2> SUFFICES ASSUME TypeOK, hover, NEW a \in Actions, Present(a)
               PROVE  Cardinality(Placements(a)) = 1
    BY DEF EachActionOncePlaced
  <2>1. width \in Nat /\ width % 100 = 0
    BY SamplesAssumption, WholePixelWidths DEF TypeOK, WholePixelWidths, SamplesAssumption
  <2>2. PICK b \in Boxes : BoxShown(b, width)
    BY <2>1, SomeBoxShown
  <2>3. \A c \in Boxes : BoxShown(c, width) => c = b
    BY <2>1, <2>2, BoxesDisjoint
  <2>4. IsElement(a)
    BY SamplesAssumption, ElementExtras
       DEF TypeOK, ElementExtras, IsElement, Present, PanelProps, SamplesAssumption
  <2>5. \E x : Placements(a) = {x}
    BY <2>2, <2>3, <2>4, PlacedOnce
  <2>6. QED
    BY <2>5, FS_Singleton
<1>2. QED
  BY <1>1, TypeCorrect, PTL

-----------------------------------------------------------------------------
\* Two whole-pixel widths that round to the same pixel are equal.
LEMMA WholePixelRounding ==
  ASSUME WholePixelWidths, NEW v \in WidthSamples, NEW w \in WidthSamples,
         RoundedPx(v) = RoundedPx(w)
  PROVE  v = w
<1>1. v \in Nat /\ w \in Nat
  BY SamplesAssumption DEF SamplesAssumption
<1>2. v = 100 * (v \div 100) /\ w = 100 * (w \div 100)
  BY <1>1 DEF WholePixelWidths
<1>3. RoundedPx(v) = v \div 100 /\ RoundedPx(w) = w \div 100
  BY <1>1, <1>2 DEF RoundedPx
<1>4. QED
  BY <1>2, <1>3

(***************************************************************************)
(* The popover on screen belongs to the displayed box.  With TypeOK the   *)
(* property is inductive: a menu opens only from its button, which only   *)
(* the displayed box shows; a resize to another whole pixel re-renders     *)
(* Panel (useResizeObserver reports a new rounded size) and so remounts   *)
(* the menus, and one to the same whole pixel changes nothing; the other  *)
(* steps only hide popovers or leave them and the width as they are.      *)
(* The hypothesis is needed: a sub-pixel resize across a breakpoint that  *)
(* keeps the rounded size (1.94px to 2px) leaves the small box's popover  *)
(* open over the medium box.                                               *)
(***************************************************************************)
THEOREM PopoverFollowsBox ==
  ASSUME WholePixelWidths
  PROVE  Spec => []PopoverInDisplayedBox
<1> DEFINE Inv == TypeOK /\ PopoverInDisplayedBox
<1>1. Init => Inv
  BY DEF Init, TypeOK, PopoverInDisplayedBox, PopoverShown
<1>2. Inv /\ [Next]_vars => Inv'
  <2> SUFFICES ASSUME Inv, [Next]_vars PROVE PopoverInDisplayedBox'
    BY TypeInvariance DEF Inv
  <2>1. ASSUME NEW i \in 1..NumQueries, NEW r \in QueryResultSamples,
               UpdateQuery(i, r)
        PROVE  PopoverInDisplayedBox'
    BY <2>1, RemountClosesAll DEF UpdateQuery, PopoverInDisplayedBox
  <2>2. ASSUME NEW w \in WidthSamples, Resize(w) PROVE PopoverInDisplayedBox'
    <3>1. CASE RoundedPx(w) # RoundedPx(width)
      BY <2>2, <3>1, RemountClosesAll DEF Resize, PopoverInDisplayedBox
    <3>2. CASE RoundedPx(w) = RoundedPx(width)
      <4>1. w = width
        BY <3>2, WholePixelRounding DEF TypeOK, Inv
      <4>2. \A b \in Boxes : PopoverShown(b)' = PopoverShown(b)
        BY <2>2, <3>2, ResizeKeepsPopovers
      <4>3. QED
        BY <2>2, <4>1, <4>2 DEF Resize, PopoverInDisplayedBox, Inv
    <3>3. QED
      BY <3>1, <3>2
  <2>3. CASE ToggleEditMode
    BY <2>3, RemountClosesAll DEF ToggleEditMode, PopoverInDisplayedBox
  <2>4. CASE ViewPanelClick
    BY <2>4, RemountClosesAll DEF ViewPanelClick, PopoverInDisplayedBox
  <2>5. ASSUME NEW h \in BOOLEAN, Hover(h) PROVE PopoverInDisplayedBox'
    <3>1. \A b \in Boxes : HasContent(b)' = HasContent(b)
      BY <2>5, HasContentStable DEF Hover
    <3>2. QED
      BY <2>5, <3>1 DEF Hover, PopoverInDisplayedBox, PopoverShown, Inv
  <2>6. ASSUME NEW b \in Boxes, OpenMenu(b) PROVE PopoverInDisplayedBox'
    <3>1. \A c \in Boxes : HasContent(c)' = HasContent(c)
      BY <2>6, HasContentStable DEF OpenMenu
    <3>2. BoxShown(b, width)'
      BY <2>6 DEF OpenMenu, MenuButtonShown
    <3>3. \A c \in Boxes \ {b} : PopoverShown(c)' => PopoverShown(c)
      BY <2>6, <3>1 DEF OpenMenu, PopoverShown, TypeOK, Inv
    <3>4. QED
      BY <2>6, <3>2, <3>3 DEF OpenMenu, PopoverInDisplayedBox, Inv
  <2>7. ASSUME NEW b \in Boxes, CloseMenu(b) PROVE PopoverInDisplayedBox'
    <3>1. \A c \in Boxes : HasContent(c)' = HasContent(c)
      BY <2>7, HasContentStable DEF CloseMenu
    <3>2. \A c \in Boxes : PopoverShown(c)' => PopoverShown(c)
      BY <2>7, <3>1 DEF CloseMenu, PopoverShown, TypeOK, Inv
    <3>3. QED
      BY <2>7, <3>2 DEF CloseMenu, PopoverInDisplayedBox, Inv
  <2>8. ASSUME NEW b \in Boxes, ExportClick(b) PROVE PopoverInDisplayedBox'
    <3>1. \A c \in Boxes : HasContent(c)' = HasContent(c)
      BY <2>8, HasContentStable DEF ExportClick
    <3>2. \A c \in Boxes : PopoverShown(c)' => PopoverShown(c)
      BY <2>8, <3>1 DEF ExportClick, PopoverShown, TypeOK, Inv
    <3>3. QED
      BY <2>8, <3>2 DEF ExportClick, PopoverInDisplayedBox, Inv
  <2>9. CASE UNCHANGED vars
    <3>1. \A b \in Boxes : HasContent(b)' = HasContent(b)
      BY <2>9, HasContentStable DEF vars
    <3>2. QED
      BY <2>9, <3>1 DEF vars, PopoverInDisplayedBox, PopoverShown, Inv
  <2>10. QED
    BY <2>1, <2>2, <2>3, <2>4, <2>5, <2>6, <2>7, <2>8, <2>9 DEF Next
<1>3. QED
  BY <1>1, <1>2, PTL DEF Spec, Inv

-----------------------------------------------------------------------------
(***************************************************************************)
(* The refinement of PopoverMenu.  OpenBox names the shown popover; it is  *)
(* the box itself when that box's popover is the only one on screen.       *)
(***************************************************************************)
LEMMA OpenBoxShown ==
  ASSUME NEW b \in Boxes, PopoverShown(b), AtMostOnePopover
  PROVE  OpenBox = b
<1>1. ~NoPopover
  BY DEF NoPopover
<1>2. \A c \in Boxes : PopoverShown(c) <=> c = b
  BY DEF AtMostOnePopover
<1>3. (CHOOSE c \in Boxes : PopoverShown(c)) = b
  BY <1>2
<1>4. QED
  BY <1>1, <1>3 DEF OpenBox

\* A step that shows and hides no popover leaves the open menu as it is.
LEMMA OpenBoxStable ==
  ASSUME AtMostOnePopover, \A b \in Boxes : PopoverShown(b)' = PopoverShown(b)
  PROVE  OpenBox' = OpenBox
<1>1. CASE NoPopover
  <2>1. NoPopover'
    BY <1>1 DEF NoPopover
  <2>2. QED
    BY <1>1, <2>1 DEF OpenBox
<1>2. CASE ~NoPopover
  <2>1. PICK b \in Boxes : PopoverShown(b)
    BY <1>2 DEF NoPopover
  <2>2. OpenBox = b
    BY <2>1, OpenBoxShown
  <2>3. \A c \in Boxes : PopoverShown(c)' <=> c = b
    BY <2>1 DEF AtMostOnePopover
  <2>4. ~NoPopover' /\ (CHOOSE c \in Boxes : PopoverShown(c))' = b
    BY <2>3 DEF NoPopover
  <2>5. QED
    BY <2>2, <2>4 DEF OpenBox
<1>3. QED
  BY <1>1, <1>2

\* A step that closes every popover is a Close, or a Render when none was open.
LEMMA ClosingStep ==
  ASSUME NoPopover'
  PROVE  [Menu!Next]_Menu!menuVars
<1>1. OpenBox' = "none"
  BY DEF OpenBox
<1>2. OfferedBoxes' \in SUBSET Boxes
  BY DEF OfferedBoxes
<1>3. CASE OpenBox = "none"
  BY <1>1, <1>2, <1>3 DEF Menu!Next, Menu!Render
<1>4. CASE OpenBox # "none"
  BY <1>1, <1>2, <1>4 DEF Menu!Next, Menu!Close
<1>5. QED
  BY <1>3, <1>4

(***************************************************************************)
(* The header's overflow menus implement PopoverMenu, for every pair of   *)
(* breakpoints, props and widths.  Opening is a click on a shown button    *)
(* while no popover is shown (the modal backdrop), which changes neither  *)
(* the menus' content nor the buttons shown; closing and the export click *)
(* clear the only shown anchor; every render that could change a menu's   *)
(* content remounts the menus and closes all; a hover changes only which  *)
(* buttons are shown.  The refinement rests on AtMostOnePopover, which     *)
(* makes OpenBox the box of the one popover on screen.                     *)
(***************************************************************************)
THEOREM MenuRefinement == Spec => MenuModal
<1>1. Init => Menu!Init
  <2> SUFFICES ASSUME Init PROVE OpenBox = "none" /\ OfferedBoxes \in SUBSET Boxes
    BY DEF Menu!Init
  <2>1. NoPopover
    BY DEF Init, NoPopover, PopoverShown
  <2>2. QED
    BY <2>1 DEF OpenBox, OfferedBoxes
<1>2. TypeOK /\ AtMostOnePopover /\ [Next]_vars => [Menu!Next]_Menu!menuVars
  <2> SUFFICES ASSUME TypeOK, AtMostOnePopover, [Next]_vars
               PROVE  [Menu!Next]_Menu!menuVars
    OBVIOUS
  <2>1. ASSUME NEW i \in 1..NumQueries, NEW r \in QueryResultSamples,
               UpdateQuery(i, r)
        PROVE  [Menu!Next]_Menu!menuVars
    BY <2>1, RemountClosesAll, ClosingStep DEF UpdateQuery, NoPopover
  <2>2. ASSUME NEW w \in WidthSamples, Resize(w) PROVE [Menu!Next]_Menu!menuVars
    <3>1. CASE RoundedPx(w) # RoundedPx(width)
      BY <2>2, <3>1, RemountClosesAll, ClosingStep DEF Resize, NoPopover
    <3>2. CASE RoundedPx(w) = RoundedPx(width)
      <4>1. OpenBox' = OpenBox
        BY <2>2, <3>2, ResizeKeepsPopovers, OpenBoxStable
      <4>2. QED
        BY <4>1 DEF Menu!Next, Menu!Render, OfferedBoxes
    <3>3. QED
      BY <3>1, <3>2
  <2>3. CASE ToggleEditMode
    BY <2>3, RemountClosesAll, ClosingStep DEF ToggleEditMode, NoPopover
  <2>4. CASE ViewPanelClick
    BY <2>4, RemountClosesAll, ClosingStep DEF ViewPanelClick, NoPopover
  <2>5. ASSUME NEW h \in BOOLEAN, Hover(h) PROVE [Menu!Next]_Menu!menuVars
    <3>1. \A b \in Boxes : HasContent(b)' = HasContent(b)
      BY <2>5, HasContentStable DEF Hover
    <3>2. \A b \in Boxes : PopoverShown(b)' = PopoverShown(b)
      BY <2>5, <3>1 DEF Hover, PopoverShown
    <3>3. OpenBox' = OpenBox
      BY <3>2, OpenBoxStable
    <3>4. QED
      BY <3>3 DEF Menu!Next, Menu!Render, OfferedBoxes
  <2>6. ASSUME NEW b \in Boxes, OpenMenu(b) PROVE [Menu!Next]_Menu!menuVars
    <3>1. \A c \in Boxes : HasContent(c)' = HasContent(c)
      BY <2>6, HasContentStable DEF OpenMenu
    <3>2. OpenBox = "none"
      BY <2>6 DEF OpenMenu, OpenBox
    <3>3. b \in OfferedBoxes /\ OfferedBoxes' = OfferedBoxes
      BY <2>6, <3>1 DEF OpenMenu, OfferedBoxes, MenuButtonShown, OnHoverShows, IsViewed
    <3>4. \A c \in Boxes : PopoverShown(c)' <=> c = b
      BY <2>6, <3>1 DEF OpenMenu, NoPopover, PopoverShown, MenuButtonShown, TypeOK
    <3>5. ~NoPopover' /\ (CHOOSE c \in Boxes : PopoverShown(c))' = b
      BY <3>4 DEF NoPopover
    <3>6. OpenBox' = b
      BY <3>5 DEF OpenBox
    <3>7. QED
      BY <3>2, <3>3, <3>6 DEF Menu!Next, Menu!Open
  <2>7. ASSUME NEW b \in Boxes, CloseMenu(b) PROVE [Menu!Next]_Menu!menuVars
    <3>1. \A c \in Boxes : HasContent(c)' = HasContent(c)
      BY <2>7, HasContentStable DEF CloseMenu
    <3>2. NoPopover'
      BY <2>7, <3>1 DEF CloseMenu, NoPopover, PopoverShown, AtMostOnePopover, TypeOK
    <3>3. QED
      BY <3>2, ClosingStep
  <2>8. ASSUME NEW b \in Boxes, ExportClick(b) PROVE [Menu!Next]_Menu!menuVars
    <3>1. \A c \in Boxes : HasContent(c)' = HasContent(c)
      BY <2>8, HasContentStable DEF ExportClick
    <3>2. NoPopover'
      BY <2>8, <3>1 DEF ExportClick, NoPopover, PopoverShown, AtMostOnePopover, TypeOK
    <3>3. QED
      BY <3>2, ClosingStep
  <2>9. CASE UNCHANGED vars
    <3>1. \A b \in Boxes : HasContent(b)' = HasContent(b)
      BY <2>9, HasContentStable DEF vars
    <3>2. OpenBox' = OpenBox
      BY <2>9, <3>1, OpenBoxStable DEF vars, PopoverShown
    <3>3. OfferedBoxes' = OfferedBoxes
      BY <2>9, <3>1 DEF vars, OfferedBoxes, MenuButtonShown, OnHoverShows, IsViewed
    <3>4. QED
      BY <3>2, <3>3 DEF Menu!menuVars
  <2>10. QED
    BY <2>1, <2>2, <2>3, <2>4, <2>5, <2>6, <2>7, <2>8, <2>9 DEF Next
<1>3. QED
  BY <1>1, <1>2, TypeCorrect, SinglePopover, PTL DEF Spec, MenuModal, Menu!Spec

=============================================================================
