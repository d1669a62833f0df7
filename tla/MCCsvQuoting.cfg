CONSTANTS
  QueryDataSamples <- MCTablesHard
  DataTypeProps <- MCDataTypeProps
SPECIFICATION Spec
INVARIANT TableRoundTrip
