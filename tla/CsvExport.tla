------------------------------ MODULE CsvExport ------------------------------
(***************************************************************************)
(* The CSV export of PanelActions (src/unnamed/part_001:820-1031): the     *)
(* click handler createCsvExportHandler and the three serializers it       *)
(* dispatches to.  The handler is created (memoised) from the payload and  *)
(* the dataType prop PanelHeader passes; a click runs it once.             *)
(*                                                                         *)
(* Table files are written as text, character by character where the      *)
(* escaping decides what a CSV reader gets back, and read back with a      *)
(* reference RFC 4180 reader.  Time-series and bar-chart files are kept    *)
(* as their rows of cell texts: the properties about them are about which  *)
(* value lands in which row and column.  The lines of the comment block   *)
(* whose wording nothing depends on are written as a fixed text.           *)
(***************************************************************************)
EXTENDS CsvText

CONSTANTS
  QueryDataSamples,   \* the data of the panel's one query
  DataTypeProps       \* PanelHeader's dataType prop: "none" (not passed) or a type name

VARIABLES
  query,     \* the data of the panel's query (query.data), unchanged
  payload,   \* the queryResults prop the current handler was created from
  hint,      \* the dataType prop it was created from
  outcome    \* what the last click on "CSV Export" did

vars == <<query, payload, hint, outcome>>

CsvSamplesAssumption ==
  /\ QueryDataSamples # {}
  /\ DataTypeProps \subseteq {"none", "undefined"} \cup Shapes
ASSUME CsvSamplesAssumption

-----------------------------------------------------------------------------
(***************************************************************************)
(* exportTableData.  A cell is quoted, with its quotes doubled, only when  *)
(* it is a string containing a comma; the header and the column comments *)
(* are written as they are.                                                *)
(***************************************************************************)
\* mutant: the quotes of a comma-holding cell are not doubled
TableCellNoDoubling(v) ==
  IF Nullish(v) THEN ""
  ELSE IF v.t = "string" /\ COMMA \in Range(Chars(v.s))
       THEN QUOTE \o v.s \o QUOTE
       ELSE ToText(v)
TableCell(v) ==
  IF Nullish(v) THEN ""
  ELSE IF v.t = "string" /\ COMMA \in Range(Chars(v.s))
       THEN QUOTE \o DoubleQuotes(v.s) \o QUOTE
       ELSE ToText(v)
\* column.displayName || column.name
ColumnTitle(col) == ToText(Or(Get(col, "displayName"), Get(col, "name")))

ExportTableData(data) ==
  LET cols == Get(data, "columns")
      rows == Get(data, "rows")
      name(c) == ToText(Get(c, "name"))
      type(c) == IF Truthy(Get(c, "type")) THEN " (" \o ToText(Get(c, "type")) \o ")" ELSE ""
      info == [j \in 1..Length(cols) |->
                 "# " \o name(cols.items[j]) \o ": " \o ColumnTitle(cols.items[j]) \o type(cols.items[j])]
      header == Join([j \in 1..Length(cols) |-> ColumnTitle(cols.items[j])], COMMA)
      line(r) == Join([j \in 1..Length(cols) |-> TableCell(Get(r, name(cols.items[j])))], COMMA)
  IN  IF ~Truthy(cols) \/ ~Truthy(rows) THEN ""
      ELSE Lines(<<"# Column Information:">> \o info \o <<"#">> \o <<header>>
                   \o [k \in 1..Length(rows) |-> line(rows.items[k])])

-----------------------------------------------------------------------------
(***************************************************************************)
(* exportTimeSeriesData.  A numeric timestamp (in units of 1e7 ms, not     *)
(* negative) above 1e10 is taken as milliseconds, a smaller one as         *)
(* seconds.                                                                *)
(***************************************************************************)
THRESHOLD == 1000            \* timestamp > 1e10: already milliseconds
SECOND_MS == 1000            \* otherwise seconds * 1000

\* the typeof dispatch on entry[0]; the samples' strings are not dates,
\* so new Date(s) is an Invalid Date and toISOString throws
TimeKey(ts) ==
  CASE ts.t = "number" -> IsoOf(IF ts.n > THRESHOLD THEN ts.n ELSE ts.n * SECOND_MS)
    [] ts.t = "string" -> [kind |-> "throw"]
    [] OTHER           -> [kind |-> "skip"]

\* the series the loop keeps, by 0-based index
SeriesColumns(ser) ==
  SelectSeq([i \in 1..Length(ser) |-> i - 1],
            LAMBDA i : Truthy(At(ser, i)) /\ IsArray(Get(At(ser, i), "values")))
\* the (column, entry) pairs the two loops visit, in order
TimeSeriesEntries(ser) ==
  LET cols == SeriesColumns(ser)
      values(i) == Get(At(ser, i), "values").items
  IN  FlattenSeq([k \in 1..Len(cols) |->
                    [j \in DOMAIN values(cols[k]) |-> [col |-> cols[k], entry |-> values(cols[k])[j]]]])
\* result[dateTime][columnName] = value, the later write winning
PutValue(res, key, col, v) ==
  IF key \in DOMAIN res THEN [res EXCEPT ![key] = (col :> v) @@ @]
  ELSE (key :> (col :> v)) @@ res
TimeSeriesStep(acc, e) ==
  LET tk == TimeKey(At(e.entry, 0))
  IN  IF acc.thrown \/ ~IsArray(e.entry) \/ Length(e.entry) < 2 \/ tk.kind = "skip" THEN acc
      ELSE IF tk.kind = "throw" THEN [acc EXCEPT !.thrown = TRUE]
      ELSE [acc EXCEPT !.result = PutValue(@, tk.key, e.col, At(e.entry, 1))]
\* rowData?.[columnName] ?? ''
\* mutant: rowData?.[columnName] || '', which drops a value of 0
TimeCellOr(row, col) ==
  IF col \in DOMAIN row /\ Truthy(row[col]) THEN ToText(row[col]) ELSE ""
TimeCell(row, col) ==
  IF col \in DOMAIN row /\ ~Nullish(row[col]) THEN ToText(row[col]) ELSE ""

ExportTimeSeriesData(data) ==
  LET ser == Get(data, "series")
      cols == SeriesColumns(ser)
      acc == FoldLeft(TimeSeriesStep, [thrown |-> FALSE, result |-> <<>>], TimeSeriesEntries(ser))
      keys == SetToSortSeq(DOMAIN acc.result, IsoBefore)
  IN  IF ~Truthy(ser) \/ ~IsArray(ser) \/ Length(ser) = 0 THEN [kind |-> "empty"]
      ELSE IF acc.thrown THEN [kind |-> "throw"]
      ELSE [kind |-> "rows", columns |-> cols,
            rows |-> [r \in DOMAIN keys |->
                        [time |-> keys[r],
                         cells |-> [k \in DOMAIN cols |-> TimeCell(acc.result[keys[r]], cols[k])]]]]

-----------------------------------------------------------------------------
(***************************************************************************)
(* exportBarChartData: one row per category; series.data[i] is read for   *)
(* every series, which throws on a null series or one without data.        *)
(***************************************************************************)
ExportBarChartData(data) ==
  LET cats == Get(data, "categories")
      ser == Get(data, "series")
      cell(k, i) == LET v == At(Get(At(ser, k), "data"), i)
                    IN  IF v = Undef THEN "" ELSE ToText(v)
  IN  IF ~Truthy(cats) \/ ~Truthy(ser) THEN [kind |-> "empty"]
      ELSE IF /\ Length(cats) > 0
              /\ \E k \in 0..(Length(ser) - 1) :
                   Nullish(At(ser, k)) \/ Nullish(Get(At(ser, k), "data"))
        THEN [kind |-> "throw"]
      ELSE [kind |-> "rows", columns |-> [k \in 1..Length(ser) |-> k - 1],
            rows |-> [i \in 1..Length(cats) |->
                        [category |-> ToText(At(cats, i - 1)),
                         cells |-> [k \in 1..Length(ser) |-> cell(k - 1, i - 1)]]]]

-----------------------------------------------------------------------------
(***************************************************************************)
(* createCsvExportHandler: nothing without data; the shape is the dataType *)
(* prop, else detectDataType; an unknown shape returns before the file is  *)
(* created.  A table's file starts with the three header comment lines.    *)
(***************************************************************************)
FileHeader(type) == Lines(<<"# Chart", "# Data Type: " \o type, "# Exported">>)
NoDownload == [kind |-> "none"]
ExportFailed == [kind |-> "throw"]

\* mutant: the switch without its default return, so an unknown type is
\* written as a table
CsvExportHandlerNoDefault(data, dataType) ==
  LET type == IF dataType # "none" THEN dataType ELSE DetectDataType(data)
      body == CASE type = "timeseries" -> ExportTimeSeriesData(data)
                [] type = "barchart"   -> ExportBarChartData(data)
                [] OTHER               -> [kind |-> "text", text |-> ExportTableData(data)]
  IN  IF ~Truthy(data) THEN NoDownload
      ELSE IF type = "throw" THEN ExportFailed
      ELSE IF body.kind = "throw" THEN ExportFailed
      ELSE IF type \notin {"timeseries", "barchart"}
        THEN [kind |-> "file", type |-> type, data |-> data,
              text |-> FileHeader(type) \o body.text]
      ELSE [kind |-> "file", type |-> type, data |-> data, body |-> body]
CsvExportHandler(data, dataType) ==
  LET type == IF dataType # "none" THEN dataType ELSE DetectDataType(data)
      body == CASE type = "timeseries" -> ExportTimeSeriesData(data)
                [] type = "barchart"   -> ExportBarChartData(data)
                [] OTHER               -> [kind |-> "text", text |-> ExportTableData(data)]
  IN  IF ~Truthy(data) THEN NoDownload
      ELSE IF type = "throw" THEN ExportFailed
      ELSE IF type \notin Shapes THEN NoDownload
      ELSE IF body.kind = "throw" THEN ExportFailed
      ELSE IF type = "table"
        THEN [kind |-> "file", type |-> type, data |-> data,
              text |-> FileHeader(type) \o body.text]
      ELSE [kind |-> "file", type |-> type, data |-> data, body |-> body]

-----------------------------------------------------------------------------
(***************************************************************************)
(* The payload and dataType PanelHeader passes to PanelActions for one     *)
(* query's data (part_000:253-259, 308), when its render does not throw.   *)
(***************************************************************************)
HeaderProps(q, d) ==
  LET x == ExtractDataForExport(<<[data |-> q]>>)
      type == IF d # "none" THEN d ELSE IF x.kind = "match" THEN x.type ELSE "unknown"
  IN  [ok |-> x.kind # "throw",
       payload |-> IF x.kind = "match" THEN x.data ELSE Undef,
       hint |-> IF type = "unknown" THEN "none" ELSE type]

Init ==
  /\ \E q \in QueryDataSamples, d \in DataTypeProps :
       /\ HeaderProps(q, d).ok
       /\ query = q
       /\ payload = HeaderProps(q, d).payload
       /\ hint = HeaderProps(q, d).hint
  /\ outcome = NoDownload

\* A click on "CSV Export", which is rendered when hasExportableData holds
\* (and detectDataType does not throw in the render).
Click ==
  /\ HasExportableData(payload)
  /\ outcome' = CsvExportHandler(payload, hint)
  /\ UNCHANGED <<query, payload, hint>>

Next == Click

Spec == Init /\ [][Next]_vars

-----------------------------------------------------------------------------
\* A click saves nothing, fails, or saves a file of one of the three shapes.
TypeOK ==
  /\ hint \in DataTypeProps \cup Shapes
  /\ outcome.kind \in {"none", "throw"} \/ (outcome.kind = "file" /\ outcome.type \in Shapes)

(***************************************************************************)
(* Escaping round-trip (spec 8): a CSV reader given the file of a table    *)
(* gets back the column titles and, for every row, every cell's text       *)
(* (empty for null and undefined), whatever commas, quotes or line breaks  *)
(* the texts hold.                                                          *)
(***************************************************************************)
TableRoundTrip ==
  (outcome.kind = "file" /\ outcome.type = "table") =>
    LET cols == Get(outcome.data, "columns").items
        rows == Get(outcome.data, "rows").items
        expect(v) == IF Nullish(v) THEN "" ELSE ToText(v)
    IN  ReadCsv(outcome.text) =
          <<[j \in DOMAIN cols |-> ColumnTitle(cols[j])]>>
          \o [k \in DOMAIN rows |->
                [j \in DOMAIN cols |-> expect(Get(rows[k], ToText(Get(cols[j], "name"))))]]

(***************************************************************************)
(* Time-series alignment (spec 8): every point of every series is in the  *)
(* row of its instant, in the series' column, unless a later point of the  *)
(* same series has the same instant; there is one row per instant, and a   *)
(* series without a point at an instant has an empty cell, not a zero.     *)
(***************************************************************************)
TimeSeriesAligned ==
  (outcome.kind = "file" /\ outcome.type = "timeseries" /\ outcome.body.kind = "rows") =>
    LET ser == Get(outcome.data, "series")
        out == outcome.body
        points(i) == Get(At(ser, i), "values").items
        \* the points of series i at instant key, by position
        at(i, key) == {j \in DOMAIN points(i) :
                         /\ IsArray(points(i)[j]) /\ Length(points(i)[j]) >= 2
                         /\ TimeKey(At(points(i)[j], 0)) = [kind |-> "time", key |-> key]}
        expect(i, key) ==
          IF at(i, key) = {} THEN ""
          ELSE LET v == At(points(i)[CHOOSE j \in at(i, key) : \A m \in at(i, key) : m <= j], 1)
               IN  IF Nullish(v) THEN "" ELSE ToText(v)
        instants == {key \in {out.rows[r].time : r \in DOMAIN out.rows} :
                       \E k \in DOMAIN out.columns : at(out.columns[k], key) # {}}
    IN  /\ Cardinality(instants) = Len(out.rows)
        /\ \A r \in DOMAIN out.rows, k \in DOMAIN out.columns :
             out.rows[r].cells[k] = expect(out.columns[k], out.rows[r].time)

(***************************************************************************)
(* Chart.js-style points are exported (spec 8, "every point lands in the   *)
(* row of its instant"): when the query holds { datasets } whose points   *)
(* are { x, y } objects, each point with a numeric x and y, alone at its   *)
(* instant in its dataset, appears in the file: the row of that instant    *)
(* has y in the dataset's column.  The points are converted by PanelHeader *)
(* (point.x || point.t, point.y || point.value) before the exporter runs.  *)
(***************************************************************************)
DatasetPointsExported ==
  LET ds == Get(query, "datasets")
      out == outcome.body
      pts(i) == IF IsArray(Get(At(ds, i), "data")) THEN Get(At(ds, i), "data").items ELSE <<>>
      xy(p) == p.t = "object" /\ Get(p, "x").t = "number" /\ Get(p, "y").t = "number"
      inst(p) == TimeKey(Get(p, "x"))
      alone(i, j) == \A m \in DOMAIN pts(i) \ {j} : xy(pts(i)[m]) => inst(pts(i)[m]) # inst(pts(i)[j])
  IN  (/\ outcome.kind = "file" /\ outcome.type = "timeseries" /\ outcome.body.kind = "rows"
       /\ query.t = "object" /\ IsArray(ds)) =>
        \A i \in 0..(Length(ds) - 1) : \A j \in DOMAIN pts(i) :
          (xy(pts(i)[j]) /\ alone(i, j) /\ inst(pts(i)[j]).kind = "time") =>
            \E r \in DOMAIN out.rows, k \in DOMAIN out.columns :
              /\ out.columns[k] = i
              /\ out.rows[r].time = inst(pts(i)[j]).key
              /\ out.rows[r].cells[k] = ToText(Get(pts(i)[j], "y"))

(***************************************************************************)
(* The handler never throws (spec 7): a payload it cannot serialize gives  *)
(* no file, or an empty one, rather than an exception in the click.        *)
(***************************************************************************)
ExportNeverThrows == outcome.kind # "throw"

=============================================================================
