\* Payloads outside the declared shapes, from a plugin's query.
CONSTANTS
  NumQueries = 1
  QueryResultSamples <- MCResultsMalformed
  PanelSamples <- MCPanelsPlain
  WidthSamples <- MCWholePixelWidths
  HEADER_SMALL_WIDTH <- MCSmall
  HEADER_MEDIUM_WIDTH <- MCMedium
SPECIFICATION Spec
INVARIANT NoRenderThrow
