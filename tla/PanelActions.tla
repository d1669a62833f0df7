---------------------------- MODULE PanelActions ----------------------------
(***************************************************************************)
(* The header of a dashboard panel: Panel (Panel.tsx) hands the panel's    *)
(* QueryData[] to PanelHeader (src/unnamed/part_000:1-330), which extracts *)
(* the exportable payload and its shape and renders PanelActions          *)
(* (src/unnamed/part_001:684-1313).  PanelActions renders three boxes, one *)
(* per header-width bucket (container queries), each with inline icons and *)
(* an OverflowMenu whose popover is opened by a click on the menu button.  *)
(*                                                                         *)
(* State: the query context's snapshot, the panel's props, the dashboard's *)
(* edit and view modes, the header width, the pointer hovering the panel,  *)
(* the anchorPosition state of each of the three OverflowMenu instances,   *)
(* and the file the last click on "CSV Export" saved.  Everything else the *)
(* header shows is derived from these on every render, as the useMemo     *)
(* hooks of the code derive it (their dependency lists are complete).      *)
(***************************************************************************)
EXTENDS QueryClassifier, FiniteSets

CONSTANTS
  NumQueries,           \* number of queries of the panel
  QueryResultSamples,   \* the snapshots the query context publishes for one query
  PanelSamples,         \* the props a dashboard passes to one Panel
  WidthSamples,         \* header content widths, in hundredths of a pixel
  HEADER_SMALL_WIDTH,   \* container-query breakpoints, in pixels
  HEADER_MEDIUM_WIDTH

VARIABLES
  queryResults,   \* useDataQueriesContext().queryResults
  panel,          \* description, links, readHandlers, extra, dataType props
  editing,        \* editHandlers are passed (the dashboard is in edit mode)
  viewed,         \* readHandlers.isPanelViewed
  width,          \* inline size of the header container
  hover,          \* the pointer is over the panel card (--panel-hover)
  anchor,         \* anchor[b]: anchorPosition of the OverflowMenu of box b is set
  download        \* what the last click on the export button saved

vars == <<queryResults, panel, editing, viewed, width, hover, anchor, download>>

PanelProps ==
  [description : {"none", "blank", "text"}, links : Nat, readHandlers : BOOLEAN,
   extra : {"none", "element", "text"},
   dataType : {"none", "timeseries", "table", "barchart", "undefined"}]

NumQueriesAssumption == NumQueries \in Nat
BreakpointAssumption ==
  /\ HEADER_SMALL_WIDTH \in Nat \ {0}
  /\ HEADER_MEDIUM_WIDTH \in Nat
  /\ HEADER_SMALL_WIDTH < HEADER_MEDIUM_WIDTH
SamplesAssumption ==
  /\ WidthSamples \subseteq Nat /\ WidthSamples # {}
  /\ PanelSamples \subseteq PanelProps /\ PanelSamples # {}
  /\ QueryResultSamples # {}
ASSUME NumQueriesAssumption
ASSUME BreakpointAssumption
ASSUME SamplesAssumption

\* header widths on whole pixels (no zoom or sub-pixel layout)
WholePixelWidths == \A w \in WidthSamples : w % 100 = 0
\* every extra the dashboard passes is a React element, or none (not a string)
ElementExtras == \A p \in PanelSamples : p.extra # "text"

Boxes == {"small", "medium", "large"}
Actions == {"description", "links", "state", "extra", "read", "edit", "move", "export"}
NoFile == [type |-> "none"]

(***************************************************************************)
(* Container queries.  MUI's between(a, b) is (min-width: a) and           *)
(* (max-width: b - 0.05px), and down(b) is (max-width: b - 0.05px); widths *)
(* are in hundredths of a pixel, so the step is 5.                         *)
(***************************************************************************)
BREAKPOINT_STEP == 5
BoxShown(b, w) ==
  CASE b = "small"  -> w <= 100 * HEADER_SMALL_WIDTH - BREAKPOINT_STEP
    [] b = "medium" -> /\ 100 * HEADER_SMALL_WIDTH <= w
                       /\ w <= 100 * HEADER_MEDIUM_WIDTH - BREAKPOINT_STEP
    [] b = "large"  -> ~(w <= 100 * HEADER_MEDIUM_WIDTH - BREAKPOINT_STEP)

(***************************************************************************)
(* PanelHeader: the memoised extraction and the dataType it passes down    *)
(* ('unknown' becomes undefined, written "none").                          *)
(***************************************************************************)
Extracted == ExtractDataForExport(queryResults)
ExportableData == IF Extracted.kind = "match" THEN Extracted.data ELSE Undef
DetectedDataType ==
  IF panel.dataType # "none" THEN panel.dataType
  ELSE IF Extracted.kind = "match" THEN Extracted.type ELSE "unknown"
ActionsDataType == IF DetectedDataType = "unknown" THEN "none" ELSE DetectedDataType

\* The header's render throws: no header, nothing to click.
RenderThrows ==
  Extracted.kind = "throw" \/ DetectDataType(ExportableData) = "throw"

(***************************************************************************)
(* PanelActions: which actions render at all.                              *)
(***************************************************************************)
\* queryStateIndicator: isFetching and queryErrors are the constants false
\* and [], so neither the loading nor the error icon is ever produced.
QueryStateIndicator == "none"
IsViewed == panel.readHandlers /\ viewed          \* readHandlers?.isPanelViewed
Present(a) ==
  CASE a = "description" -> panel.description = "text"
    [] a = "links"       -> panel.links > 0
    [] a = "state"       -> QueryStateIndicator # "none"
    [] a = "extra"       -> ~editing /\ panel.extra # "none"
    [] a = "read"        -> panel.readHandlers
    [] a = "edit"        -> editing
    [] a = "move"        -> editing /\ ~IsViewed
    [] a = "export"      -> HasExportableData(ExportableData)
\* what React's isValidElement accepts: every action but a non-element extra
IsElement(a) == a # "extra" \/ panel.extra = "element"

\* OnHover wraps its children in a box hidden unless the panel is hovered,
\* when there are no edit handlers and the panel is not viewed.
\* mutant: OnHover that ignores the viewed mode
OnHoverShowsEditOnly == hover \/ editing
OnHoverShows == hover \/ editing \/ IsViewed

(***************************************************************************)
(* The three boxes: the actions each shows inline, those it puts in its    *)
(* OverflowMenu, and those of the inline ones outside OnHover.             *)
(***************************************************************************)
Inline(b) ==
  CASE b = "small"  -> {"move"}
    [] b = "medium" -> {"description", "links", "state", "extra", "read", "move"}
    [] b = "large"  -> {"description", "links", "state", "extra", "read", "edit", "move"}
\* mutant: the medium box's menu without the export button
MenuActionsMediumNoExport(b) ==
  CASE b = "small"  -> {"description", "links", "state", "extra", "read", "edit", "export"}
    [] b = "medium" -> {"edit"}
    [] b = "large"  -> {"export"}
MenuActions(b) ==
  CASE b = "small"  -> {"description", "links", "state", "extra", "read", "edit", "export"}
    [] b = "medium" -> {"edit", "export"}
    [] b = "large"  -> {"export"}
AlwaysVisible(b) == IF b = "small" THEN {} ELSE {"state"}

\* OverflowMenu renders nothing unless a child is a valid React element.
HasContent(b) == \E a \in MenuActions(b) : Present(a) /\ IsElement(a)
MenuButtonShown(b) == BoxShown(b, width) /\ HasContent(b) /\ OnHoverShows
\* The Popover is portalled: it shows while open, whichever box is displayed.
PopoverShown(b) == anchor[b] /\ HasContent(b)
NoPopover == \A b \in Boxes : ~PopoverShown(b)
InlineShown(b, a) ==
  /\ BoxShown(b, width) /\ a \in Inline(b) /\ Present(a)
  /\ (a \notin AlwaysVisible(b) => OnHoverShows)

(***************************************************************************)
(* createCsvExportHandler: the shape is the dataType prop, else detected;  *)
(* an unknown shape returns before saving anything.                        *)
(***************************************************************************)
ExportType(data) == IF ActionsDataType # "none" THEN ActionsDataType ELSE DetectDataType(data)
\* mutant: the switch without its default return
ExportFileNoDefault(type, data) == [type |-> type, data |-> data]
ExportFile(type, data) ==
  IF type \in Shapes THEN [type |-> type, data |-> data] ELSE NoFile

-----------------------------------------------------------------------------
Init ==
  /\ queryResults \in [1..NumQueries -> QueryResultSamples]
  /\ panel \in PanelSamples
  /\ editing \in BOOLEAN
  /\ viewed = FALSE
  /\ width \in WidthSamples
  /\ hover = FALSE
  /\ anchor = [b \in Boxes |-> FALSE]
  /\ download = NoFile

(***************************************************************************)
(* A render of PanelActions.  OnHover is a component declared inside       *)
(* PanelActions' body, so each render creates a new component type and     *)
(* React remounts the subtree under it, every OverflowMenu included: their *)
(* anchorPosition state starts again from undefined.                      *)
(***************************************************************************)
\* mutant: OnHover hoisted out of PanelActions, so the menus keep their state
RemountMenusNone == UNCHANGED anchor
RemountMenus == anchor' = [b \in Boxes |-> FALSE]

\* The query context publishes a new snapshot for query i; Panel re-renders.
UpdateQuery(i, r) ==
  /\ queryResults' = [queryResults EXCEPT ![i] = r]
  /\ RemountMenus
  /\ UNCHANGED <<panel, editing, viewed, width, hover, download>>

\* The size useResizeObserver reports: Math.round of the width in pixels.
RoundedPx(w) == (w + 50) \div 100

\* The panel is resized: the container queries pick another box at once;
\* useResizeObserver sets its state, and so re-renders Panel, only when the
\* rounded size changes.
Resize(w) ==
  /\ width' = w
  /\ IF RoundedPx(w) # RoundedPx(width) THEN RemountMenus ELSE UNCHANGED anchor
  /\ UNCHANGED <<queryResults, panel, editing, viewed, hover, download>>

\* The pointer enters or leaves the panel.
Hover(h) ==
  /\ h # hover
  /\ hover' = h
  /\ UNCHANGED <<queryResults, panel, editing, viewed, width, anchor, download>>

\* The dashboard enters or leaves edit mode (editHandlers passed or not).
ToggleEditMode ==
  /\ editing' = ~editing
  /\ RemountMenus
  /\ UNCHANGED <<queryResults, panel, viewed, width, hover, download>>

\* handleClick of the OverflowMenu of box b: the popover is modal, so the
\* button can only be clicked while no popover is shown.
OpenMenu(b) ==
  /\ ~RenderThrows /\ NoPopover
  /\ MenuButtonShown(b)
  /\ anchor' = [anchor EXCEPT ![b] = TRUE]
  /\ UNCHANGED <<queryResults, panel, editing, viewed, width, hover, download>>

\* handleClose: the backdrop or Escape (onClose), or a click in the popover's
\* Stack on an item whose handler is the caller's (edit, duplicate, delete,
\* a link, the description).
CloseMenu(b) ==
  /\ ~RenderThrows
  /\ PopoverShown(b)
  /\ anchor' = [anchor EXCEPT ![b] = FALSE]
  /\ UNCHANGED <<queryResults, panel, editing, viewed, width, hover, download>>

\* A click on the read action calls onViewPanelClick, and the dashboard
\* toggles isPanelViewed: new readHandlers, so PanelActions re-renders.
ViewPanelClick ==
  /\ ~RenderThrows
  /\ Present("read")
  /\ \/ NoPopover /\ \E b \in Boxes : InlineShown(b, "read")
     \/ \E b \in Boxes : "read" \in MenuActions(b) /\ PopoverShown(b)
  /\ viewed' = ~viewed
  /\ RemountMenus
  /\ UNCHANGED <<queryResults, panel, editing, width, hover, download>>

\* A click on the export button, which only ever sits in a popover: the
\* handler saves the file, then the Stack's onClick closes the popover.
ExportClick(b) ==
  /\ ~RenderThrows
  /\ "export" \in MenuActions(b) /\ PopoverShown(b) /\ Present("export")
  /\ download' = IF Truthy(ExportableData)
                 THEN ExportFile(ExportType(ExportableData), ExportableData)
                 ELSE NoFile
  /\ anchor' = [anchor EXCEPT ![b] = FALSE]
  /\ UNCHANGED <<queryResults, panel, editing, viewed, width, hover>>

Next ==
  \/ \E i \in 1..NumQueries, r \in QueryResultSamples : UpdateQuery(i, r)
  \/ \E w \in WidthSamples : Resize(w)
  \/ \E h \in BOOLEAN : Hover(h)
  \/ ToggleEditMode
  \/ \E b \in Boxes : OpenMenu(b)
  \/ \E b \in Boxes : CloseMenu(b)
  \/ ViewPanelClick
  \/ \E b \in Boxes : ExportClick(b)

Spec == Init /\ [][Next]_vars

-----------------------------------------------------------------------------
\* Every variable holds a value of its type; a saved file has a known shape.
TypeOK ==
  /\ queryResults \in [1..NumQueries -> QueryResultSamples]
  /\ panel \in PanelSamples
  /\ editing \in BOOLEAN /\ viewed \in BOOLEAN /\ hover \in BOOLEAN
  /\ width \in WidthSamples
  /\ anchor \in [Boxes -> BOOLEAN]
  /\ download = NoFile \/ download.type \in Shapes

\* The places, among the boxes on display, where action a can be operated:
\* inline, or behind a menu button that is shown.
Placements(a) ==
  {<<b, "inline">> : b \in {c \in Boxes : InlineShown(c, a)}}
    \cup {<<b, "menu">> : b \in {c \in Boxes : a \in MenuActions(c) /\ Present(a)
                                                /\ MenuButtonShown(c)}}

(***************************************************************************)
(* Layout: while the pointer is on the panel, every action PanelActions    *)
(* produces can be reached in exactly one place among the boxes the       *)
(* container queries display, inline or in a rendered overflow menu, none *)
(* shown twice.  The runs pass only element extras (or none): a string    *)
(* extra alone in a menu is dropped by OverflowMenu's isValidElement test *)
(* (part_001:1270), which this property, so sampled, does not cover.      *)
(***************************************************************************)
EachActionOncePlaced ==
  (hover /\ ~RenderThrows /\ NoPopover) =>
    \A a \in Actions : Present(a) => Cardinality(Placements(a)) = 1

(***************************************************************************)
(* At most one overflow popover is on screen: the popovers are modal, and  *)
(* a stale anchorPosition must not bring a second one back beside it.      *)
(***************************************************************************)
AtMostOnePopover ==
  \A b, c \in Boxes : PopoverShown(b) /\ PopoverShown(c) => b = c

(***************************************************************************)
(* The popover on screen belongs to the box the container queries display: *)
(* the Popover is portalled out of its box, so a popover kept open across  *)
(* a resize into another bucket would float over the header with the      *)
(* other box's list of actions, beside that box's own menu button.        *)
(***************************************************************************)
PopoverInDisplayedBox == \A b \in Boxes : PopoverShown(b) => BoxShown(b, width)

(***************************************************************************)
(* A viewed (full-screen) panel can always be left: its read action, the  *)
(* collapse icon, can be reached whether or not the pointer is on it.     *)
(***************************************************************************)
ExitViewReachable ==
  (IsViewed /\ ~RenderThrows /\ NoPopover) => Placements("read") # {}

(***************************************************************************)
(* The overflow menus as PopoverMenu describes them: the open menu is the  *)
(* box whose popover is on screen, the offered menus those whose button   *)
(* is.                                                                     *)
(***************************************************************************)
OpenBox == IF NoPopover THEN "none" ELSE CHOOSE b \in Boxes : PopoverShown(b)
OfferedBoxes == {b \in Boxes : MenuButtonShown(b)}
Menu == INSTANCE PopoverMenu WITH Menus <- Boxes, NoMenu <- "none",
                                  open <- OpenBox, offered <- OfferedBoxes

(***************************************************************************)
(* The header's menus implement PopoverMenu: a popover appears only on a  *)
(* click of a button on screen while no popover is shown, and leaves only  *)
(* to no popover; a stale anchorPosition never brings one back by itself,  *)
(* and no popover passes to another box's menu.                            *)
(***************************************************************************)
MenuModal == Menu!Spec

(***************************************************************************)
(* The file "CSV Export" saves is of the shape PanelActions' own detector *)
(* gives the data it saves (a bar chart is saved as a bar chart).          *)
(***************************************************************************)
ExportTypeMatchesData ==
  download # NoFile => download.type = DetectDataType(download.data)

(***************************************************************************)
(* An overflow menu the user opened stays open while the query results are *)
(* refreshed (a refetch or the dashboard's refresh interval), as long as   *)
(* it still has something to show: only the user closes it.               *)
(***************************************************************************)
MenuSurvivesRefresh ==
  [][\A b \in Boxes :
       (PopoverShown(b) /\ queryResults' # queryResults /\ HasContent(b)')
         => PopoverShown(b)']_vars

(***************************************************************************)
(* Rendering the header never throws, whatever shape the payloads have.   *)
(***************************************************************************)
NoRenderThrow == ~RenderThrows

=============================================================================
