\* Header widths between the breakpoints' min- and max-widths.
CONSTANTS
  NumQueries = 1
  QueryResultSamples <- MCResultsLayout
  PanelSamples <- MCPanels
  WidthSamples <- MCSubpixelWidths
  HEADER_SMALL_WIDTH <- MCSmall
  HEADER_MEDIUM_WIDTH <- MCMedium
SPECIFICATION Spec
INVARIANT EachActionOncePlaced
