\* The serializers on tables, time series and bar charts they handle.
CONSTANTS
  QueryDataSamples <- MCQueryData
  DataTypeProps <- MCDataTypeProps
SPECIFICATION Spec
INVARIANTS
  TypeOK
  TableRoundTrip
  TimeSeriesAligned
