CONSTANTS
  QueryDataSamples <- MCDatasetPoints
  DataTypeProps <- MCDataTypeProps
SPECIFICATION Spec
INVARIANT DatasetPointsExported
