\* Layout of the panel header: whole-pixel widths, props as Panel passes them.
CONSTANTS
  NumQueries = 1
  QueryResultSamples <- MCResultsLayout
  PanelSamples <- MCPanels
  WidthSamples <- MCWholePixelWidths
  HEADER_SMALL_WIDTH <- MCSmall
  HEADER_MEDIUM_WIDTH <- MCMedium
SPECIFICATION Spec
INVARIANTS
  TypeOK
  EachActionOncePlaced
  ExitViewReachable
  AtMostOnePopover
  PopoverInDisplayedBox
PROPERTY
  MenuModal
