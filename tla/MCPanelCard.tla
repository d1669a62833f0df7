------------------------------ MODULE MCPanelCard ------------------------------
(***************************************************************************)
(* Model-checking instance of PanelCard: the QueryData[] snapshots the     *)
(* query context publishes (no query yet, a query still loading, and one   *)
(* query with a table, a time series or a bar chart), two definitions, an  *)
(* explicit project name or none, and three locations: a project route,   *)
(* one whose project segment is UTF-8 escaped, and one whose project       *)
(* segment is a Latin-1 escape, which is not UTF-8.                        *)
(***************************************************************************)
EXTENDS PanelCard

\* one query whose data is d
QD(d) == Obj(<<"data">>, [data |-> d])
One(d) == Arr(<<QD(d)>>)

\* tables of string columns and array rows
STable(cols, rows) == Obj(<<"columns", "rows">>, [columns |-> Arr(cols), rows |-> Arr(rows)])
StashCells == {Null, Str(""), Str("x"), Str("x,\""), Str("\""), Str("x\ny"), Num(0)}
MCCardTables ==
  {STable(<<Str("a"), Str("b")>>, <<Arr(<<v, w>>)>>) : v \in StashCells, w \in {Str("y"), Null}}
    \cup {STable(<<Str("a")>>, <<Arr(<<v>>), Arr(<<Str("y")>>)>>) : v \in StashCells}

\* time series whose two series may share a name, and one with a time that is no date
SPoint(t, v) == Arr(<<t, v>>)
SSeries(n, pts) == Obj(<<"name", "values">>, [name |-> Str(n), values |-> Arr(pts)])
STimeSeries(ser) == Obj(<<"series">>, [series |-> Arr(ser)])
MCCardTimeSeries ==
  {STimeSeries(<<SSeries("s", <<SPoint(t, v)>>), SSeries(n, <<SPoint(u, w)>>)>>) :
     t, u \in {Num(0), Num(6)}, v, w \in {Num(0), Null}, n \in {"s", "t"}}
    \cup {STimeSeries(<<SSeries("s", <<SPoint(Num(6), Num(1)), SPoint(Num(6), Num(2))>>)>>),
          STimeSeries(<<SSeries("s", <<SPoint(Str("now"), Num(1))>>)>>)}

\* bar charts with categories, series without them, and { category, value } records
SBar(n, d) == Obj(<<"name", "data">>, [name |-> Str(n), data |-> Arr(d)])
Rec(c, v) == Obj(<<"category", "value">>, [category |-> Str(c), value |-> v])
MCCardBarCharts ==
  {Obj(<<"categories", "series">>, [categories |-> Arr(<<Str("p")>>), series |-> Arr(<<SBar("s", d)>>)]) :
     d \in {<<>>, <<Num(5)>>}}
    \cup {Obj(<<"series">>, [series |-> Arr(<<SBar("s", <<Num(5), Num(0)>>), SBar("t", <<Num(1)>>)>>)]),
          Obj(<<"data">>, [data |-> Arr(<<Rec("p", Num(5)), Rec("q", Num(0))>>)])}

MCCardResults ==
  {One(d) : d \in MCCardTables \cup MCCardTimeSeries \cup MCCardBarCharts}
    \cup {Arr(<<>>), One(Undef)}
MCCardPanelTypes == {"timeseries"}

\* PanelDefinitions: { kind, spec } and nothing else
Definition(name) ==
  Obj(<<"kind", "spec">>, [kind |-> Str("Panel"),
                           spec |-> Obj(<<"display">>, [display |-> Obj(<<"name">>, [name |-> Str(name)])])])
MCDefinitions == {Definition("cpu"), Definition("memory")}
MCExplicit == {Undef, Str("team")}

NoQuery == [project |-> Null, projectName |-> Null]
Location(path) == [pathname |-> path, query |-> NoQuery, hash |-> ""]
MCLocations ==
  {Location("/projects/acme/dashboards/cpu"), Location("/projects/caf%C3%A9/dashboards/cpu"),
   Location("/projects/caf%E9/dashboards/cpu")}

=============================================================================
