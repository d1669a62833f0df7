--------------------------- MODULE QueryClassifier ---------------------------
(***************************************************************************)
(* The two structural ("duck-typed") detectors of query-result payloads in *)
(* the panel header:                                                       *)
(*   - extractDataForExport of PanelHeader (src/unnamed/part_000:57-189),  *)
(*     which scans the panel's QueryData[] and returns the first payload   *)
(*     it recognises, converted to TimeSeries/Table/BarChart form;         *)
(*   - detectDataType of PanelActions (src/unnamed/part_001:786-811),      *)
(*     which decides from that converted payload whether the CSV export    *)
(*     button is offered, and which shape the exporter is run for.         *)
(*                                                                         *)
(* Payloads are JavaScript values.  They are encoded as tagged records so  *)
(* that the probes of the code ('k' in o, Array.isArray, truthiness, the   *)
(* short-circuit of || and &&, Array.prototype.some/map) can be written    *)
(* as they are, including the TypeError a property read on null or         *)
(* undefined raises.  A probe that can throw returns the outcome "throw".  *)
(***************************************************************************)
EXTENDS Integers, Sequences

(***************************************************************************)
(* JavaScript values.  Objects keep the insertion order of their keys,     *)
(* which is what Object.keys returns.                                      *)
(***************************************************************************)
Undef == [t |-> "undefined"]
Null == [t |-> "null"]
Num(n) == [t |-> "number", n |-> n]
Str(s) == [t |-> "string", s |-> s]
Arr(s) == [t |-> "array", items |-> s]
Obj(keys, f) == [t |-> "object", keys |-> keys, f |-> f]

IsArray(v) == v.t = "array"
IsObjectType(v) == v.t \in {"object", "array", "null"}   \* typeof v === 'object'
Nullish(v) == v.t \in {"undefined", "null"}
Truthy(v) ==
  \/ v.t \in {"object", "array"}
  \/ v.t = "number" /\ v.n # 0
  \/ v.t = "string" /\ v.s # ""

\* 'k' in v, for an object or an array (arrays carry no named keys here)
HasKey(v, k) == v.t = "object" /\ k \in DOMAIN v.f
\* v.k, for a v that is not null or undefined (the caller checks Nullish)
Get(v, k) == IF HasKey(v, k) THEN v.f[k] ELSE Undef
\* v[i] for an array, 0-based as in JavaScript
At(v, i) == IF IsArray(v) /\ i + 1 \in DOMAIN v.items THEN v.items[i + 1] ELSE Undef
Length(v) == Len(v.items)
\* Object.keys(v): insertion order for objects, the indices for arrays
KeysOf(v) == IF v.t = "object" THEN v.keys ELSE [i \in 1..Length(v) |-> i - 1]
\* a || b
Or(a, b) == IF Truthy(a) THEN a ELSE b

\* Outcome of arr.some(p) when p(i) may be "true", "false" or "throw":
\* the callback runs left to right and stops at the first non-false result.
SomeOutcome(n, p(_)) ==
  LET hit == {i \in 0..(n - 1) : p(i) # "false"}
  IN  IF hit = {} THEN "false"
      ELSE p(CHOOSE i \in hit : \A j \in hit : i <= j)

Shapes == {"timeseries", "table", "barchart"}
NoMatch == [kind |-> "nomatch"]
Throws == [kind |-> "throw"]
Match(d, ty) == [kind |-> "match", data |-> d, type |-> ty]

(***************************************************************************)
(* Probe 5 of extractDataForExport: { labels, datasets } is turned into   *)
(* BarChartData.  datasets.map throws unless datasets is an array, and     *)
(* dataset.label throws on a null or undefined dataset.                    *)
(***************************************************************************)
LabelsToBarChart(d) ==
  LET ds == Get(d, "datasets")
      \* `Dataset ${index + 1}`: the index is left out of the name
      name(i) == Or(Get(At(ds, i), "label"), Str("Dataset"))
      series(i) == Obj(<<"name", "displayName", "data">>,
                       [name |-> name(i), displayName |-> name(i),
                        data |-> Or(Get(At(ds, i), "data"), Arr(<<>>))])
  IN  IF ~IsArray(ds) \/ \E i \in 0..(Length(ds) - 1) : Nullish(At(ds, i))
      THEN Throws
      ELSE Match(Obj(<<"categories", "series">>,
                     [categories |-> Get(d, "labels"),
                      series |-> Arr([i \in 1..Length(ds) |-> series(i - 1)])]),
                 "barchart")

(***************************************************************************)
(* Probe 6: { datasets } whose points look time-like is turned into        *)
(* TimeSeriesData.  The detection is a nested some(); the conversion maps  *)
(* every dataset, whether or not it had time-like points.                  *)
(***************************************************************************)
IsTimePoint(pt) ==
  IF IsArray(pt) /\ Length(pt) >= 2 THEN "true"
  ELSE IF ~IsObjectType(pt) THEN "false"
  ELSE IF pt.t = "null" THEN "throw"
  ELSE IF Get(pt, "x") # Undef \/ Get(pt, "t") # Undef THEN "true" ELSE "false"

DatasetHasTime(ds) ==
  IF Nullish(ds) THEN "throw"
  ELSE LET pts == Get(ds, "data")
       IN  IF ~Truthy(pts) \/ ~IsArray(pts) THEN "false"
           ELSE SomeOutcome(Length(pts), LAMBDA j : IsTimePoint(At(pts, j)))

\* point => [time, value], for one point of dataset.data.map
ToTimeValue(pt) ==
  IF IsArray(pt) THEN pt
  ELSE IF pt.t = "object"
       THEN Arr(<<Or(Or(Get(pt, "x"), Get(pt, "t")), Get(pt, "timestamp")),
                  Or(Get(pt, "y"), Get(pt, "value"))>>)
       ELSE Arr(<<Num(0), pt>>)

DatasetsToTimeSeries(d) ==
  LET ds == Get(d, "datasets")
      n == Length(ds)
      pts(i) == Get(At(ds, i), "data")
      name(i) == Or(Get(At(ds, i), "label"), Str("Series"))
      series(i) == Obj(<<"name", "displayName", "values">>,
                       [name |-> name(i), displayName |-> name(i),
                        values |-> Arr([j \in 1..Length(pts(i)) |->
                                          ToTimeValue(pts(i).items[j])])])
      hasTime == SomeOutcome(n, LAMBDA i : DatasetHasTime(At(ds, i)))
  IN  IF hasTime = "throw" THEN Throws
      ELSE IF hasTime = "false" THEN NoMatch
      \* dataset.data.map on a dataset without an array, or point.x on null
      ELSE IF \E i \in 0..(n - 1) :
                 \/ ~IsArray(pts(i))
                 \/ \E j \in DOMAIN pts(i).items : pts(i).items[j].t = "null"
           THEN Throws
      ELSE Match(Obj(<<"series">>, [series |-> Arr([i \in 1..n |-> series(i - 1)])]),
                 "timeseries")

(***************************************************************************)
(* The probes of extractDataForExport for one truthy query.data, in the    *)
(* order of the code; the first that fires decides.                        *)
(***************************************************************************)
ProbeQueryData(d) ==
  \* 'series' in d throws a TypeError on a primitive
  IF ~IsObjectType(d) THEN Throws
  ELSE IF HasKey(d, "series") /\ IsArray(Get(d, "series"))
    THEN Match(d, "timeseries")
  ELSE IF HasKey(d, "columns") /\ HasKey(d, "rows")
    THEN Match(d, "table")
  ELSE IF /\ HasKey(d, "categories") /\ HasKey(d, "series")
          /\ IsArray(Get(d, "categories")) /\ IsArray(Get(d, "series"))
          \* never reached: probe 1 has fired for every array-valued series
          /\ \A i \in DOMAIN Get(d, "series").items :
               LET s == Get(d, "series").items[i]
               IN  Get(s, "name").t = "string" /\ IsArray(Get(s, "data"))
    THEN Match(Obj(<<"categories", "series">>,
                   [categories |-> Get(d, "categories"), series |-> Get(d, "series")]),
               "barchart")
  ELSE IF IsArray(d) /\ Length(d) > 0 /\ At(d, 0).t \in {"object", "array"}
    THEN Match(Obj(<<"columns", "rows">>,
                   [columns |-> Arr([i \in DOMAIN KeysOf(At(d, 0)) |->
                                      Obj(<<"name", "displayName">>,
                                          [name |-> Str(KeysOf(At(d, 0))[i]),
                                           displayName |-> Str(KeysOf(At(d, 0))[i])])]),
                    rows |-> d]),
               "table")
  ELSE IF Truthy(Get(d, "labels")) /\ Truthy(Get(d, "datasets"))
    THEN LabelsToBarChart(d)
  ELSE IF Truthy(Get(d, "datasets")) /\ IsArray(Get(d, "datasets"))
    THEN DatasetsToTimeSeries(d)
  ELSE NoMatch

(***************************************************************************)
(* extractDataForExport(queryResults): the first query, in order, whose   *)
(* truthy data some probe fires on; queries whose data no probe matches    *)
(* are passed over.  Result: [kind, data, type] with kind "match",         *)
(* "throw" (the render of the header throws) or "nomatch" (unknown).       *)
(***************************************************************************)
ExtractDataForExport(results) ==
  LET hit == {i \in DOMAIN results :
                Truthy(results[i].data) /\ ProbeQueryData(results[i].data) # NoMatch}
  IN  IF hit = {} THEN NoMatch
      ELSE ProbeQueryData(results[CHOOSE i \in hit : \A j \in hit : i <= j].data)

(***************************************************************************)
(* detectDataType(data) of PanelActions.  "throw" when data.series[0] is   *)
(* null or undefined (firstSeries.values is read without a guard).         *)
(***************************************************************************)
DetectDataType(data) ==
  LET series == Get(data, "series")
      first == At(series, 0)
  IN  IF ~Truthy(data) THEN "unknown"
      ELSE IF Truthy(series) /\ IsArray(series) /\ Length(series) > 0 /\ Nullish(first)
        THEN "throw"
      ELSE IF /\ Truthy(series) /\ IsArray(series) /\ Length(series) > 0
              /\ Truthy(Get(first, "values")) /\ IsArray(Get(first, "values"))
        THEN "timeseries"
      ELSE IF /\ Truthy(Get(data, "columns")) /\ IsArray(Get(data, "columns"))
              /\ Truthy(Get(data, "rows")) /\ IsArray(Get(data, "rows"))
        THEN "table"
      ELSE IF /\ Truthy(Get(data, "categories")) /\ IsArray(Get(data, "categories"))
              /\ Truthy(series) /\ IsArray(series)
              /\ ~Nullish(first) /\ Truthy(Get(first, "data")) /\ IsArray(Get(first, "data"))
        THEN "barchart"
      ELSE "unknown"

\* hasExportableData(data)
HasExportableData(data) == DetectDataType(data) \in Shapes

=============================================================================
