CONSTANTS
  ResultSamples <- MCCardResults
  PanelTypes <- MCCardPanelTypes
  DefinitionSamples <- MCDefinitions
  ExplicitSamples <- MCExplicit
  LocationSamples <- MCLocations
SPECIFICATION CardSpec
INVARIANT ExportOfferedWithData
