\* An open overflow menu while the query results are refreshed.
CONSTANTS
  NumQueries = 1
  QueryResultSamples <- MCResultsLayout
  PanelSamples <- MCPanelsPlain
  WidthSamples <- MCWholePixelWidths
  HEADER_SMALL_WIDTH <- MCSmall
  HEADER_MEDIUM_WIDTH <- MCMedium
SPECIFICATION Spec
PROPERTY MenuSurvivesRefresh
