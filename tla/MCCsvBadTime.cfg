CONSTANTS
  QueryDataSamples <- MCTimeSeriesBadTime
  DataTypeProps <- MCDataTypeProps
SPECIFICATION Spec
INVARIANT ExportNeverThrows
