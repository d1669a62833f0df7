--------------------------- MODULE StashedCsvExport ---------------------------
(***************************************************************************)
(* The CSV export of the stashed-changes variant of PanelActions, inside  *)
(* the merge-conflict markers of src/unnamed/part_001:89-403: the type    *)
(* guards, shouldShowCsvExport, its three serializers and csvExportHandler.*)
(* This variant takes queryResults as it comes (QueryData[], one QueryData *)
(* or a bare payload) and a panelType prop that defaults to 'timeseries'; *)
(* it escapes every table cell, keys time-series columns by series name,  *)
(* passes timestamps to new Date as they are, and catches what the export  *)
(* throws.  exportGenericData (l. 288-324) is never called.                *)
(***************************************************************************)
EXTENDS CsvText

CONSTANTS
  ResultSamples,   \* values of the queryResults prop
  PanelTypes       \* values of the panelType prop ('timeseries' when not passed)

VARIABLES
  results,     \* the queryResults prop of the current render
  panelType,   \* the panelType prop of the current render
  outcome      \* what the last click on "CSV Export" did

vars == <<results, panelType, outcome>>

StashedSamplesAssumption ==
  /\ ResultSamples # {}
  /\ PanelTypes \subseteq {"timeseries", "bar", "table", "other"}
ASSUME StashedSamplesAssumption

-----------------------------------------------------------------------------
\* the type guards (l. 98-110); data && typeof data === 'object' && ...
IsTimeSeriesData(d) ==
  Truthy(d) /\ IsObjectType(d) /\ HasKey(d, "series") /\ IsArray(Get(d, "series"))
IsBarChartData(d) ==
  /\ Truthy(d) /\ IsObjectType(d)
  /\ \/ HasKey(d, "categories") /\ HasKey(d, "series")
     \/ HasKey(d, "data") /\ IsArray(Get(d, "data"))
IsTableData(d) == Truthy(d) /\ IsObjectType(d) /\ HasKey(d, "columns") /\ HasKey(d, "rows")
Exportable(d) == IsTimeSeriesData(d) \/ IsBarChartData(d) \/ IsTableData(d)

\* query.data && guards(query.data), "throw" on a null or undefined query
QueryExportable(q) ==
  IF Nullish(q) THEN "throw"
  ELSE IF Truthy(Get(q, "data")) /\ Exportable(Get(q, "data")) THEN "true" ELSE "false"

\* shouldShowCsvExport, computed during the render
ShouldShowCsvExport(q, pt) ==
  IF ~Truthy(q) THEN "false"
  ELSE IF pt \in {"timeseries", "bar", "table"} \/ Exportable(q) THEN "true"
  ELSE IF IsArray(q) THEN SomeOutcome(Length(q), LAMBDA i : QueryExportable(At(q, i)))
  ELSE IF HasKey(q, "data") /\ Exportable(Get(q, "data")) THEN "true"
  ELSE "false"

-----------------------------------------------------------------------------
(***************************************************************************)
(* exportTableData: columns and rows are arrays of values; every cell with *)
(* a comma, a quote or a line break is quoted with its quotes doubled; the *)
(* header is the columns joined as they are.                               *)
(***************************************************************************)
\* Array.prototype.join writes null and undefined as ''
JoinText(v) == IF Nullish(v) THEN "" ELSE ToText(v)
\* mutant: a line break does not make a cell quoted
StashCellNoNewline(v) ==
  LET s == JoinText(v)
  IN  IF {COMMA, QUOTE} \cap Range(Chars(s)) # {} THEN QUOTE \o DoubleQuotes(s) \o QUOTE ELSE s
StashCell(v) ==
  LET s == JoinText(v)
  IN  IF {COMMA, QUOTE, NL} \cap Range(Chars(s)) # {} THEN QUOTE \o DoubleQuotes(s) \o QUOTE ELSE s

StashExportTable(data) ==
  LET cols == Get(data, "columns")
      rows == Get(data, "rows")
      line(r) == Join([j \in 1..Length(r) |-> StashCell(At(r, j - 1))], COMMA)
  IN  IF ~Truthy(cols) \/ ~Truthy(rows) THEN [kind |-> "text", text |-> ""]
      \* columns.join, for...of rows and row.map need arrays
      ELSE IF ~IsArray(cols) \/ ~IsArray(rows) \/ \E k \in 1..Length(rows) : ~IsArray(rows.items[k])
        THEN [kind |-> "throw"]
      ELSE [kind |-> "text",
            text |-> Lines(<<Join([j \in 1..Length(cols) |-> JoinText(At(cols, j - 1))], COMMA)>>
                            \o [k \in 1..Length(rows) |-> line(rows.items[k])])]

-----------------------------------------------------------------------------
(***************************************************************************)
(* exportTimeSeriesData: columns are the series names (formatSeriesTitle  *)
(* returns the name), a later series of the same name writing over an      *)
(* earlier one; the timestamp goes to new Date as it is.                   *)
(***************************************************************************)
\* new Date(entry[0]).toISOString(): null is the epoch; the samples'
\* strings are not dates, and undefined or an object is an Invalid Date
DateOf(ts) ==
  CASE ts.t = "number" -> IsoOf(ts.n)
    [] ts.t = "null"   -> IsoOf(0)
    [] OTHER           -> [kind |-> "throw"]
\* the series the loop keeps: !series?.name or no values array skips it
StashSeries(ser) ==
  SelectSeq([i \in 1..Length(ser) |-> i - 1],
            LAMBDA i : Truthy(Get(At(ser, i), "name")) /\ IsArray(Get(At(ser, i), "values")))
\* the series names, with their first occurrences only: Array.from(new Set(...))
Dedup(s) == LET firsts == SelectSeq([i \in DOMAIN s |-> i], LAMBDA i : SelectInSeq(s, LAMBDA x : x = s[i]) = i)
            IN  [k \in DOMAIN firsts |-> s[firsts[k]]]
\* mutant: the first write of a name at an instant is kept
StashPutFirstWins(res, key, name, v) ==
  IF key \in DOMAIN res THEN [res EXCEPT ![key] = @ @@ (name :> v)]
  ELSE (key :> (name :> v)) @@ res
\* result[dateTime][name] = value
StashPut(res, key, name, v) ==
  IF key \in DOMAIN res THEN [res EXCEPT ![key] = (name :> v) @@ @]
  ELSE (key :> (name :> v)) @@ res
StashStep(acc, e) ==
  LET dt == IF IsArray(e.entry) THEN DateOf(At(e.entry, 0)) ELSE [kind |-> "throw"]
  IN  IF acc.thrown THEN acc
      ELSE IF dt.kind = "throw" THEN [acc EXCEPT !.thrown = TRUE]
      ELSE [acc EXCEPT !.result = StashPut(@, dt.key, e.name, At(e.entry, 1))]

StashExportTimeSeries(data) ==
  LET ser == Get(data, "series")
      kept == StashSeries(ser)
      name(i) == ToText(Get(At(ser, i), "name"))
      values(i) == Get(At(ser, i), "values").items
      entries == FlattenSeq([k \in 1..Len(kept) |->
                   [j \in DOMAIN values(kept[k]) |-> [name |-> name(kept[k]), entry |-> values(kept[k])[j]]]])
      acc == FoldLeft(StashStep, [thrown |-> FALSE, result |-> <<>>], entries)
      names == Dedup([k \in 1..Len(kept) |-> name(kept[k])])
      keys == SetToSortSeq(DOMAIN acc.result, IsoBefore)
      cell(row, n) == IF n \in DOMAIN row /\ ~Nullish(row[n]) THEN ToText(row[n]) ELSE ""
  IN  IF ~Truthy(ser) \/ ~IsArray(ser) \/ Length(ser) = 0 THEN [kind |-> "text", text |-> ""]
      ELSE IF acc.thrown THEN [kind |-> "throw"]
      ELSE [kind |-> "rows", columns |-> names,
            rows |-> [r \in DOMAIN keys |->
                        [time |-> keys[r], cells |-> [k \in DOMAIN names |-> cell(acc.result[keys[r]], names[k])]]]]

-----------------------------------------------------------------------------
(***************************************************************************)
(* exportBarChartData, in its three forms: categories and series; an      *)
(* array of { category, series, value } records; series without           *)
(* categories, by index.  A row is its first cell and the cells after it.  *)
(***************************************************************************)
BarCell(v) == JoinText(v)   \* value ?? '', then join
StashExportBarChart(data) ==
  LET cats == Get(data, "categories")
      ser == Get(data, "series")
      recs == Get(data, "data")
      s(k) == At(ser, k - 1)
      serBroken == ~IsArray(ser) \/ \E k \in 1..Length(ser) : Nullish(s(k))
      dataBroken == \E k \in 1..Length(ser) : Nullish(Get(s(k), "data"))
      names == [k \in 1..Length(ser) |-> JoinText(Get(s(k), "name"))]
      \* the records form
      rs == recs.items
      sname(r) == Or(Get(r, "series"), Str("Value"))
      rnames == Dedup([k \in DOMAIN rs |-> sname(rs[k])])
      rcats == Dedup([k \in DOMAIN rs |-> Get(rs[k], "category")])
      find(c, n) == SelectInSeq(rs, LAMBDA r : Get(r, "category") = c /\ sname(r) = n)
      maxLength == Max({Length(Get(s(k), "data")) : k \in 1..Length(ser)})
  IN  CASE Truthy(cats) /\ Truthy(ser) ->
             IF serBroken \/ (Length(cats) > 0 /\ dataBroken) THEN [kind |-> "throw"]
             ELSE [kind |-> "rows", columns |-> names,
                   rows |-> [i \in 1..Length(cats) |->
                               [category |-> ToText(At(cats, i - 1)),
                                cells |-> [k \in 1..Length(ser) |-> BarCell(At(Get(s(k), "data"), i - 1))]]]]
        [] Truthy(recs) /\ IsArray(recs) ->
             IF \E k \in DOMAIN rs : Nullish(rs[k]) THEN [kind |-> "throw"]
             ELSE [kind |-> "rows", columns |-> [k \in DOMAIN rnames |-> JoinText(rnames[k])],
                   rows |-> [i \in DOMAIN rcats |->
                               [category |-> ToText(rcats[i]),
                                cells |-> [k \in DOMAIN rnames |->
                                             IF find(rcats[i], rnames[k]) = 0 THEN ""
                                             ELSE BarCell(Get(rs[find(rcats[i], rnames[k])], "value"))]]]]
        [] Truthy(ser) ->
             IF serBroken \/ dataBroken THEN [kind |-> "throw"]
             \* Math.max() of no series is -Infinity: no rows
             ELSE [kind |-> "rows", columns |-> names,
                   rows |-> [i \in 1..(IF Length(ser) = 0 THEN 0 ELSE maxLength) |->
                               [category |-> NatText[i - 1],
                                cells |-> [k \in 1..Length(ser) |-> BarCell(At(Get(s(k), "data"), i - 1))]]]]
        [] OTHER -> [kind |-> "text", text |-> ""]

-----------------------------------------------------------------------------
(***************************************************************************)
(* csvExportHandler: the first query whose data a guard accepts, else the *)
(* prop itself; an object with a 'data' key is replaced by that data; the *)
(* first guard that holds picks the serializer.  What throws inside the   *)
(* try is caught and logged; an empty text saves nothing.                  *)
(***************************************************************************)
Idle == [kind |-> "idle"]
NoFile == [kind |-> "none"]
Caught == [kind |-> "caught"]

\* mutant: the serializers called outside the try
StashHandlerNoCatch(q) ==
  LET hit == IF IsArray(q) THEN SelectInSeq(q.items, LAMBDA x : QueryExportable(x) # "false") ELSE 0
      d1 == IF hit > 0 THEN Get(q.items[hit], "data") ELSE q
      d2 == IF Truthy(d1) /\ IsObjectType(d1) /\ HasKey(d1, "data") THEN Get(d1, "data") ELSE d1
      body == CASE IsTimeSeriesData(d2) -> StashExportTimeSeries(d2)
                [] IsBarChartData(d2)   -> StashExportBarChart(d2)
                [] IsTableData(d2)      -> StashExportTable(d2)
                [] OTHER                -> [kind |-> "text", text |-> ""]
  IN  IF ~Truthy(q) THEN NoFile
      ELSE IF hit > 0 /\ QueryExportable(q.items[hit]) = "throw" THEN [kind |-> "throw"]
      ELSE IF body.kind = "throw" THEN [kind |-> "throw"]
      ELSE IF body.kind = "text" /\ body.text = "" THEN NoFile
      ELSE [kind |-> "file", data |-> d2, body |-> body]
StashHandler(q) ==
  LET hit == IF IsArray(q) THEN SelectInSeq(q.items, LAMBDA x : QueryExportable(x) # "false") ELSE 0
      d1 == IF hit > 0 THEN Get(q.items[hit], "data") ELSE q
      d2 == IF Truthy(d1) /\ IsObjectType(d1) /\ HasKey(d1, "data") THEN Get(d1, "data") ELSE d1
      body == CASE IsTimeSeriesData(d2) -> StashExportTimeSeries(d2)
                [] IsBarChartData(d2)   -> StashExportBarChart(d2)
                [] IsTableData(d2)      -> StashExportTable(d2)
                [] OTHER                -> [kind |-> "text", text |-> ""]
  IN  IF ~Truthy(q) THEN NoFile
      \* query.data on a null query, before the one that matched
      ELSE IF hit > 0 /\ QueryExportable(q.items[hit]) = "throw" THEN Caught
      ELSE IF body.kind = "throw" THEN Caught
      ELSE IF body.kind = "text" /\ body.text = "" THEN NoFile
      ELSE [kind |-> "file", data |-> d2, body |-> body]

Init ==
  /\ results \in ResultSamples
  /\ panelType \in PanelTypes
  /\ outcome = Idle

\* A click on the button, which is rendered when shouldShowCsvExport holds
\* (a throw in it fails the render, and there is no button).
Click ==
  /\ ShouldShowCsvExport(results, panelType) = "true"
  /\ outcome' = StashHandler(results)
  /\ UNCHANGED <<results, panelType>>

\* A render with new query results: the handler is a plain closure,
\* recreated on every render, so it reads the new prop.
NewResults(r) ==
  /\ results' = r
  /\ UNCHANGED <<panelType, outcome>>

Next == Click \/ \E r \in ResultSamples : NewResults(r)

Spec == Init /\ [][Next]_vars

-----------------------------------------------------------------------------
\* A click saves nothing, is caught, or saves a file; nothing escapes it.
TypeOK ==
  /\ results \in ResultSamples
  /\ panelType \in PanelTypes
  /\ outcome.kind \in {"idle", "none", "caught", "file"}

(***************************************************************************)
(* Escaping round-trip (spec 8): a CSV reader given a table file gets back *)
(* the header and every row's cells, null and undefined as empty, whatever *)
(* commas, quotes and line breaks the cells hold.                          *)
(***************************************************************************)
StashTableRoundTrip ==
  (outcome.kind = "file" /\ outcome.body.kind = "text") =>
    LET cols == Get(outcome.data, "columns")
        rows == Get(outcome.data, "rows").items
    IN  ReadCsv(outcome.body.text) =
          <<[j \in 1..Length(cols) |-> JoinText(At(cols, j - 1))]>>
          \o [k \in DOMAIN rows |-> [j \in 1..Length(rows[k]) |-> JoinText(At(rows[k], j - 1))]]

(***************************************************************************)
(* Time-series alignment with last-wins names (spec 4.2): there is one row *)
(* per instant some kept series has a point at, and the cell of a name at *)
(* an instant is the value of the last point, in series then point order, *)
(* of the series of that name at that instant, or empty.                   *)
(***************************************************************************)
StashSeriesAligned ==
  (outcome.kind = "file" /\ outcome.body.kind = "rows" /\ IsTimeSeriesData(outcome.data)) =>
    LET ser == Get(outcome.data, "series")
        out == outcome.body
        kept(i) == Truthy(Get(At(ser, i), "name")) /\ IsArray(Get(At(ser, i), "values"))
        pts(i) == IF kept(i) THEN Get(At(ser, i), "values").items ELSE <<>>
        writes == UNION {{<<i, j>> : j \in DOMAIN pts(i)} : i \in 0..(Length(ser) - 1)}
        instant(w) == DateOf(At(pts(w[1])[w[2]], 0)).key
        at(n, key) == {w \in writes : ToText(Get(At(ser, w[1]), "name")) = n /\ instant(w) = key}
        later(v, w) == v[1] < w[1] \/ (v[1] = w[1] /\ v[2] < w[2])
        expect(n, key) ==
          IF at(n, key) = {} THEN ""
          ELSE LET w == CHOOSE w \in at(n, key) : \A v \in at(n, key) \ {w} : later(v, w)
               IN  JoinText(At(pts(w[1])[w[2]], 1))
    IN  /\ {out.rows[r].time : r \in DOMAIN out.rows} = {instant(w) : w \in writes}
        /\ Len(out.rows) = Cardinality({instant(w) : w \in writes})
        /\ \A r \in DOMAIN out.rows, k \in DOMAIN out.columns :
             out.rows[r].cells[k] = expect(out.columns[k], out.rows[r].time)

=============================================================================
