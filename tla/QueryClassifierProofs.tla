------------------------ MODULE QueryClassifierProofs ------------------------
(***************************************************************************)
(* Proofs about the probes of extractDataForExport (part_000:57-189), for  *)
(* every payload.                                                          *)
(***************************************************************************)
EXTENDS QueryClassifier, TLAPS

\* Probe 6 turns { datasets } into a time series, or throws, or matches nothing.
LEMMA DatasetsProbeResult ==
  ASSUME NEW d
  PROVE  LET r == DatasetsToTimeSeries(d)
         IN  r = Throws \/ r = NoMatch \/ r.type = "timeseries"
BY DEF DatasetsToTimeSeries, Match, Throws, NoMatch

(***************************************************************************)
(* The bar-chart probe of extractDataForExport (part_000:81) is dead code: *)
(* it needs 'series' to be an array, and then the time-series probe before *)
(* it has already fired.  A payload is tagged 'barchart' only when it has  *)
(* truthy labels and datasets (the Chart.js form); a BarChartData value    *)
(* { categories, series } is always tagged 'timeseries', so the export     *)
(* writes it with the time-series serializer (the export_shape run).       *)
(***************************************************************************)
THEOREM BarChartOnlyFromLabels ==
  ASSUME NEW d,
         ProbeQueryData(d) # Throws, ProbeQueryData(d) # NoMatch,
         ProbeQueryData(d).type = "barchart"
  PROVE  /\ ~(HasKey(d, "series") /\ IsArray(Get(d, "series")))
         /\ Truthy(Get(d, "labels")) /\ Truthy(Get(d, "datasets"))
<1>1. IsObjectType(d)
  BY DEF ProbeQueryData
<1>2. ~(HasKey(d, "series") /\ IsArray(Get(d, "series")))
  BY <1>1 DEF ProbeQueryData, Match
<1>3. ~(HasKey(d, "columns") /\ HasKey(d, "rows"))
  BY <1>1, <1>2 DEF ProbeQueryData, Match
<1>4. ~(/\ HasKey(d, "categories") /\ HasKey(d, "series")
        /\ IsArray(Get(d, "categories")) /\ IsArray(Get(d, "series")))
  BY <1>2
<1>5. ~(IsArray(d) /\ Length(d) > 0 /\ At(d, 0).t \in {"object", "array"})
  BY <1>1, <1>2, <1>3, <1>4 DEF ProbeQueryData, Match
<1>6. CASE Truthy(Get(d, "labels")) /\ Truthy(Get(d, "datasets"))
  BY <1>2, <1>6
<1>7. CASE ~(Truthy(Get(d, "labels")) /\ Truthy(Get(d, "datasets")))
  <2>1. ProbeQueryData(d) = IF Truthy(Get(d, "datasets")) /\ IsArray(Get(d, "datasets"))
                            THEN DatasetsToTimeSeries(d) ELSE NoMatch
    BY <1>1, <1>2, <1>3, <1>4, <1>5, <1>7 DEF ProbeQueryData
  <2>2. FALSE
    BY <2>1, DatasetsProbeResult
  <2>3. QED
    BY <2>2
<1>8. QED
  BY <1>6, <1>7

=============================================================================
