---------------------------- MODULE MCCsvExport ----------------------------
(***************************************************************************)
(* Model-checking instances of CsvExport: the data of a panel's query, as  *)
(* JavaScript values, for tables, time series and bar charts.              *)
(***************************************************************************)
EXTENDS CsvExport

\* tables: columns named "a" and "b", rows keyed by those names
Col(n) == Obj(<<"name">>, [name |-> Str(n)])
ColTitled(n, d) == Obj(<<"name", "displayName">>, [name |-> Str(n), displayName |-> Str(d)])
RowA(v) == Obj(<<"a">>, [a |-> v])
RowAB(v, w) == Obj(<<"a", "b">>, [a |-> v, b |-> w])
Table(cols, rows) == Obj(<<"columns", "rows">>, [columns |-> Arr(cols), rows |-> Arr(rows)])

\* cells a CSV writer that quotes on commas gets right, and the others
PlainCells == {Undef, Null, Str(""), Str("x"), Str(","), Str("x,\""), Num(0), Num(12)}
HardCells == {Str("\""), Str("x\ny")}
OneColumnTables(cells, cols) ==
  {Table(<<c>>, <<RowA(v)>>) : c \in cols, v \in cells}
    \cup {Table(<<c>>, <<RowA(v), RowA(w)>>) : c \in cols, v \in cells, w \in cells}
TwoColumnTables(cells) ==
  {Table(<<Col("a"), ColTitled("b", "B")>>, <<RowAB(v, w)>>) : v \in cells, w \in cells}
MCTablesPlain ==
  OneColumnTables(PlainCells, {Col("a"), ColTitled("a", "A")}) \cup TwoColumnTables(PlainCells)
MCTablesHard ==
  OneColumnTables(PlainCells \cup HardCells, {Col("a")})
    \cup {Table(<<ColTitled("a", "A,B")>>, <<RowA(Str("x"))>>)}

\* time series: timestamps in units of 1e7 (0 s, 6e7 s, 2e10 ms and 2e7 s,
\* the last two the same instant)
Point(t, v) == Arr(<<t, v>>)
Series(points) == Obj(<<"name", "values">>, [name |-> Str("s"), values |-> Arr(points)])
TimeSeries(ser) == Obj(<<"series">>, [series |-> Arr(ser)])
PlainTimes == {Num(0), Num(6), Num(2000), Num(2)}
PointsOf(times, vals) == {Point(t, v) : t \in times, v \in vals}
SeriesOf(pts) == {Series(<<p>>) : p \in pts} \cup {Series(<<p, q>>) : p, q \in pts}
MCTimeSeriesPlain ==
  LET pts == PointsOf(PlainTimes, {Num(0), Num(5)})
  IN  {TimeSeries(<<s>>) : s \in SeriesOf(pts)}
        \cup {TimeSeries(<<s, Series(<<p>>)>>) : s \in SeriesOf(pts), p \in PointsOf({Num(0), Num(6)}, {Num(7), Null})}
\* a timestamp sent as a string that is not a date
MCTimeSeriesBadTime ==
  {TimeSeries(<<Series(<<Point(Str("now"), Num(1))>>)>>)}

\* bar charts in the labels/datasets convention, which PanelHeader converts
Dataset(data) == Obj(<<"label", "data">>, [label |-> Str("d"), data |-> Arr(data)])
LabelsData(labels, ds) == Obj(<<"labels", "datasets">>, [labels |-> Arr(labels), datasets |-> Arr(ds)])
MCBarCharts ==
  {LabelsData(<<Str("p"), Str("q")>>, <<Dataset(d)>>) :
     d \in {<<>>, <<Num(5)>>, <<Num(5), Num(0)>>}}
    \cup {LabelsData(<<Str("p")>>, <<Dataset(<<Num(1)>>), Obj(<<"label">>, [label |-> Str("e")])>>)}

\* Chart.js-style { datasets } with { x, y } points, which PanelHeader
\* converts to a time series
XY(x, y) == Obj(<<"x", "y">>, [x |-> x, y |-> y])
Points(pts) == Obj(<<"datasets">>, [datasets |-> Arr(<<Obj(<<"label", "data">>, [label |-> Str("d"), data |-> Arr(pts)])>>)])
MCDatasetPoints ==
  {Points(<<XY(Num(6), y)>>) : y \in {Num(0), Num(3)}}
    \cup {Points(<<XY(Num(6), Num(3)), XY(Num(2000), Num(4))>>)}

MCQueryData == MCTablesPlain \cup MCTimeSeriesPlain \cup MCBarCharts
MCDataTypeProps == {"none", "undefined"}

=============================================================================
