\* A bar chart or a columns/rows payload with a series key, exported.
CONSTANTS
  NumQueries = 1
  QueryResultSamples <- MCResultsExport
  PanelSamples <- MCPanelsPlain
  WidthSamples <- MCWholePixelWidths
  HEADER_SMALL_WIDTH <- MCSmall
  HEADER_MEDIUM_WIDTH <- MCMedium
SPECIFICATION Spec
INVARIANT ExportTypeMatchesData
