--------------------------- MODULE MCPanelActions ---------------------------
(***************************************************************************)
(* Model-checking instances of PanelActions: the payloads the query        *)
(* context may deliver, written as JavaScript values, and the panel props  *)
(* and header widths the runs enumerate.                                   *)
(***************************************************************************)
EXTENDS PanelActions

Point(t, v) == Arr(<<Num(t), Num(v)>>)

\* TimeSeriesData with one series
PTimeSeries ==
  Obj(<<"series">>, [series |-> Arr(<<Obj(<<"name", "values">>,
        [name |-> Str("a"), values |-> Arr(<<Point(0, 1)>>)])>>)])
\* a time-series query that returned no series
PNoSeries == Obj(<<"series">>, [series |-> Arr(<<>>)])
\* table data with column metadata
PTable ==
  Obj(<<"columns", "rows">>,
      [columns |-> Arr(<<Obj(<<"name", "displayName">>,
                             [name |-> Str("ns"), displayName |-> Str("Namespace")])>>),
       rows |-> Arr(<<Obj(<<"ns">>, [ns |-> Str("kube-system")])>>)])
\* BarChartData: categories and series aligned by index
PBarChart ==
  Obj(<<"categories", "series">>,
      [categories |-> Arr(<<Str("a")>>),
       series |-> Arr(<<Obj(<<"name", "data">>, [name |-> Str("s1"), data |-> Arr(<<Num(5)>>)])>>)])
\* an array of row objects
PRows == Arr(<<Obj(<<"k">>, [k |-> Num(1)])>>)
\* the labels/datasets bar-chart convention
PLabels ==
  Obj(<<"labels", "datasets">>,
      [labels |-> Arr(<<Str("a")>>),
       datasets |-> Arr(<<Obj(<<"label", "data">>, [label |-> Str("d"), data |-> Arr(<<Num(3)>>)])>>)])
\* datasets of [time, value] points
PDatasets ==
  Obj(<<"datasets">>,
      [datasets |-> Arr(<<Obj(<<"label", "data">>, [label |-> Str("d"), data |-> Arr(<<Point(0, 1)>>)])>>)])
\* trace data: detected by nobody for export
PTrace == Obj(<<"spans">>, [spans |-> Arr(<<>>)])

\* Payloads outside the declared types (a plugin's own shapes).
PNullSeries == Obj(<<"series">>, [series |-> Arr(<<Null>>)])
PNullPoint ==
  Obj(<<"datasets">>,
      [datasets |-> Arr(<<Obj(<<"label", "data">>, [label |-> Str("d"), data |-> Arr(<<Point(0, 1), Null>>)])>>)])
PDatasetWithoutData ==
  Obj(<<"datasets">>,
      [datasets |-> Arr(<<Obj(<<"data">>, [data |-> Arr(<<Point(0, 1)>>)]),
                          Obj(<<"label">>, [label |-> Str("e")])>>)])

WellFormedPayloads ==
  {Undef, PTimeSeries, PNoSeries, PTable, PBarChart, PRows, PLabels, PDatasets, PTrace}
MalformedPayloads == {PNullSeries, PNullPoint, PDatasetWithoutData}

Settled(P) == {[data |-> p, isFetching |-> FALSE, error |-> FALSE] : p \in P}
MCResults == Settled(WellFormedPayloads)
\* for the layout: data that is exportable, data that is not, no data
MCResultsLayout == Settled({Undef, PTimeSeries, PNoSeries})
MCResultsMalformed == Settled({Undef, PTimeSeries} \cup MalformedPayloads)
\* payloads for the export-shape question
MCResultsExport == Settled({Undef, PTimeSeries, PNoSeries, PTable, PBarChart})

MCPanels ==
  [description : {"blank", "text"}, links : {0, 1}, readHandlers : BOOLEAN,
   extra : {"none", "element"}, dataType : {"none", "undefined"}]
MCPanelsPlain ==
  [description : {"text"}, links : {1}, readHandlers : {TRUE},
   extra : {"element"}, dataType : {"none"}]

\* breakpoints of 2px and 4px; widths on whole pixels around them
MCSmall == 2
MCMedium == 4
MCWholePixelWidths == {100, 200, 300, 400}
\* 1.97px lies above small's max-width (1.95px) and below medium's min-width
MCSubpixelWidths == {100, 197, 300}

=============================================================================
