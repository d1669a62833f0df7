# Formal model of the Perses panel header (actions, overflow menus, CSV export dispatch)

This directory holds TLA+ models of the panel-header part of the Perses UI in
`src/`, TLC configurations that check them, and TLAPS proofs.

## The system

The supplied sources are:

| File | What it is |
|---|---|
| `src/ui/dashboards/src/components/Panel/Panel.tsx` | `Panel`: the card. It reads `queryResults` from the data-queries context (l. 185), observes the content size (`useResizeObserver`, l. 174-182), sets `--panel-hover` on `:hover` (l. 221) and renders `PanelHeader` (l. 233-245). |
| `src/unnamed/part_000` l. 1-330 | `PanelHeader` with export support. `extractDataForExport` (l. 57-189) probes each query's data for a shape. The memo (l. 253-259) computes `dataType \|\| detectedType`. It renders `PanelActions` (l. 301-312), mapping `'unknown'` to `undefined`. |
| `src/unnamed/part_001` l. 684-1313 | `PanelActions`. It holds `detectDataType`/`hasExportableData` (l. 786-817), the CSV handler and serializers (l. 820-1031) and the action memos (l. 1044-1194). It renders three container-query boxes with `OnHover` wrappers (l. 1198-1264). `OverflowMenu` (l. 1267-1313) holds the `anchorPosition` state of a modal, portalled `Popover`. |
| `src/unnamed/part_000` l. 330-549, `part_001` l. 1-683 | Another version of the same two components, inside unresolved merge-conflict markers (the "stashed changes" side). Its PanelActions (l. 89-403) has its own CSV export: type guards, `shouldShowCsvExport`, three serializers and a `csvExportHandler` inside a `try`. |
| `src/ui/.../PanelHeader.tsx` | The upstream header, without export. It defaults `panelType` to `'timeseries'` (l. 46) and passes `queryResults` through a memo (l. 55-60) to the `PanelActions` it imports, whose props are those of the stashed variant. |
| `Panel.tsx` l. 59-146 | `getProjectName`: the project of the panel, from the `projectName` prop, nine paths of the definition, `metadata.name`, six URL patterns, two query parameters and the hash. Panel computes it in a `useMemo` (l. 187-202) during every render with new props. |
| `src/go-sdk/test/dashboard_test.go`, `src/.github/workflows/go.yml` | The Go SDK's golden test and CI. |

How the parts interact:
1. Panel passes the live query results to PanelHeader.
2. PanelHeader classifies them (the *classifier*) and passes one payload and its shape to PanelActions.
3. PanelActions decides which actions exist and where each box shows them (the *layout*).
4. On a click, PanelActions saves a CSV file of the shape it was given (the *serializer*).
5. As the repository wires it (`Panel.tsx` → `PanelHeader.tsx`), the PanelActions rendered is the stashed variant, and Panel resolves a project name on each render with new props (the *card*).

Everything runs on the UI thread. The concurrency that matters is between four kinds of event:
- the user's clicks;
- the query context publishing new snapshots;
- resizes;
- the dashboard switching modes.

Every one of these except the pointer and the menu clicks re-renders `PanelActions`.

## Modules

| Module | Models | State / actions |
|---|---|---|
| `QueryClassifier` | `extractDataForExport`, `detectDataType`, `hasExportableData` | Pure operators over JavaScript values encoded as tagged records (`Undef`, `Null`, `Num`, `Str`, `Arr`, `Obj`). The JS probes are written as the code uses them: `'k' in o`, `Array.isArray`, truthiness, `\|\|`, `some`. A probe that reads a property of `null`/`undefined` yields the outcome `"throw"`. |
| `PanelActions` | Panel → PanelHeader → PanelActions → OverflowMenu | Variables: `queryResults`, `panel` (the props), `editing`, `viewed`, `width` (hundredths of a px), `hover`, `anchor[b]` (the `anchorPosition` of each box's menu) and `download`. The actions are listed below. |
| `PopoverMenu` | What `OverflowMenu` (`part_001:1267-1313`) promises, abstractly | Variables `open` (the menu whose popover is on screen, or none) and `offered` (the menus whose button is on screen). `Open(m)` (`handleClick`): only while none is open and from an offered button. `Close` (`handleClose`, or a render that takes the popover away). `Render`: the offered buttons change and the popover stays. `PanelActions` instantiates it as `Menu`, with `open <- OpenBox` (the box whose popover is shown) and `offered <- OfferedBoxes` (the boxes whose menu button is shown). |
| `PanelActionsProofs` | — | The TLAPS proofs about the header's layout and menus. |
| `ProjectNameProofs` | — | The TLAPS proof of when `getProjectName` can throw. |
| `QueryClassifierProofs` | — | The TLAPS proof that the classifier's bar-chart probe is dead code. |
| `MCPanelActions` | — | Payloads, props, widths and breakpoints for TLC. |
| `CsvExport` | `createCsvExportHandler` and the three serializers (`part_001:820-1031`) | Variables: `query` (the query's data), `payload` and `hint` (what PanelHeader passes, from `HeaderProps`, which runs the classifier), and `outcome` (what the last click did: nothing, a throw, or a file). One action, `Click`, runs the whole handler. |
| `MCCsvExport` | — | Tables, time series and Chart.js-style datasets for TLC. |
| `CsvText` | What both exporters share | `String()`/template text of a value, `join`, quote doubling, `toISOString` and the sort order of ISO strings. Also holds the reference CSV reader. |
| `StashedCsvExport` | The stashed variant's CSV export (`part_001:89-403`) | Variables: `results` (the `queryResults` prop: `QueryData[]`, one `QueryData` or a bare payload), `panelType` and `outcome` (idle, nothing, caught, or a file). Actions: `Click` (the button, offered when `shouldShowCsvExport` holds) and `NewResults` (a render with another prop; the handler is a plain closure, so it reads the new prop). |
| `ProjectName` | `getProjectName` (`Panel.tsx:59-146`) | Pure, non-recursive operators. The regular expressions are written as what they match (leftmost match, greedy runs), `trim` over the white space that occurs, and `decodeURIComponent` as ECMA-262 Decode with UTF-8 validity: a bad escape or a non-UTF-8 byte sequence is a `URIError`. A name is a sequence of characters, with decoded bytes outside printable ASCII kept as bytes. The cascade of sources is an `IF`/`ELSE IF` chain: the code returns at the first source that yields a name, and a `CASE` with overlapping arms would leave the choice unspecified. |
| `PanelCard` | `Panel` → `PanelHeader` → stashed `PanelActions` | Extends `StashedCsvExport` and `ProjectName`, sharing `results`, `panelType` and `outcome`, and adds `definition`, `explicitName`, `location`, `hideHeader` and `projectName` (the memo; `URIError` when the last render threw). Actions: `Refresh` (a snapshot: `NewResults` through `HeaderQueryResults`), `SetDefinition` and `SetExplicit` (new props: the memo recomputes), `Navigate` (client-side; the memo does not depend on the location), `CardClick` (the stashed `Click` in a rendered card with a header). A card whose render threw takes no further step. |
| `MCPanelCard` | — | Queries as the context publishes them (`QueryData[]`), two definitions, two `projectName` props and three URLs (plain, UTF-8 `%C3%A9`, Latin-1 `%E9`). |

How `CsvExport` represents the file:
- **Tables** are written as text, character by character where escaping matters. The text is read back by a reference RFC 4180 reader (`ReadCsv`), which skips `#` comment lines.
- **Time series and bar charts** are kept as their rows of cell texts. Their properties are about which value lands in which row and column.
- **Timestamps** are counted in units of 1e7 ms so that the 1e10 threshold and the range of `Date` fit TLC's integers. An ISO key is the instant together with whether its year is past 9999, where `toISOString` writes `+YYYYYY` and the string sorts first.
- **Fixed text.** The title, the export date and the legend and axis comment lines are written as fixed text, because no property reads them.

The actions of `PanelActions`:
- `UpdateQuery`: a new context snapshot.
- `Resize`: the container queries pick the box at once; Panel re-renders, and so remounts the menus, only when the size `useResizeObserver` reports changes. It reports `Math.round` of the size (`RoundedPx`), so a sub-pixel change that keeps the rounded size re-renders nothing.
- `Hover`.
- `ToggleEditMode`.
- `OpenMenu`: `handleClick`.
- `CloseMenu`: `handleClose`, from the backdrop, Escape or a click in the Stack.
- `ViewPanelClick`.
- `ExportClick`: the whole `createCsvExportHandler`, up to the shape and payload saved.

The layout follows the code's CSS:
- `BoxShown` is MUI's `between(a,b)` = `min-width:a and max-width:b-0.05px`, and `down(b)` = `max-width:b-0.05px`.
- `OnHoverShows` is the `OnHover` wrapper's condition.
- `HasContent` is `OverflowMenu`'s `isValidElement` test. It is true when some action in the menu is present and is an element; a string `extra` is not one.

Two points of React semantics are part of the model:
- `anchorPosition` is declared before OverflowMenu's early `return undefined`, so it survives while the menu renders nothing.
- `OnHover` is a component declared *inside* `PanelActions`, so every render of `PanelActions` remounts the menus below it (`RemountMenus`: every anchor is cleared). The steps that re-render are the query update, a resize to another rounded pixel size (through the content's resize observer), an edit-mode change and a view toggle. The pointer (a CSS variable) and the menu clicks (state of OverflowMenu only) do not re-render.

The popover is modal (it has a backdrop), so a menu button can be clicked only while no popover is shown.

## Runs

The runs of `MCPanelActions` use one query and breakpoints of 2px and 4px.

| Run | cfg | Expect | Properties | Shows |
|---|---|---|---|---|
| layout | `MCPanelActions.cfg` | pass | TypeOK, EachActionOncePlaced, ExitViewReachable, AtMostOnePopover, PopoverInDisplayedBox, MenuModal | With whole-pixel widths and element (or no) extras, every produced action is reachable in exactly one place while hovered, and a viewed panel can be left. At most one popover is ever open, and it belongs to the displayed box. The menus implement `PopoverMenu` (`MenuModal == Menu!Spec`, checked as a PROPERTY). |
| export_shape | `MCExportShape.cfg` | violation | ExportTypeMatchesData | A `{categories, series}` bar chart is saved by the time-series exporter. |
| menu_refresh | `MCMenuRefresh.cfg` | violation | MenuSurvivesRefresh | An open menu closes on every data refresh. |
| subpixel_gap | `MCSubpixel.cfg` | violation | EachActionOncePlaced | At 1.97px (between 1.95px and 2px) no box is shown. |
| malformed_payload | `MCMalformed.cfg` | violation | NoRenderThrow | A null series, dataset or point throws during render. |
| csv_export | `MCCsvExport.cfg` | pass | TypeOK, TableRoundTrip, TimeSeriesAligned | Tables whose cells hold commas, quotes after a comma, numbers, null or nothing come back intact. Time series in seconds and milliseconds put every point in its instant's row and its series' column, including two forms of one instant. |
| csv_quoting | `MCCsvQuoting.cfg` | violation | TableRoundTrip | A column title with a comma, or a cell with a lone quote or a line break, is misread: only commas in cells are quoted (l. 977). |
| csv_bad_time | `MCCsvBadTime.cfg` | violation | ExportNeverThrows | A string timestamp that is not a date throws out of the click. |
| csv_dataset_zero | `MCCsvDatasetZero.cfg` | violation | DatasetPointsExported | A `{x, y: 0}` point is exported as an empty cell (`point.y \|\| point.value`, `part_000:169`). |
| panel_card | `MCPanelCard.cfg` | pass | CardTypeOK, StashTableRoundTrip, StashSeriesAligned | Through Panel and PanelHeader, with the snapshots the context publishes, cells with commas, quotes and line breaks come back intact, series of one name share a column with the last write winning (spec 4.2), and no serializer throw escapes the click. |
| card_export_offered | `MCCardExportOffered.cfg` | violation | ExportOfferedWithData | Panel passes no `panelType` and PanelHeader defaults it to `'timeseries'`, so every card offers CSV Export; a click with no data, a loading query, or `{data: [records]}` (unwrapped twice, `part_001:354`) saves nothing. |
| card_project_name | `MCCardProjectName.cfg` | violation | PanelRenders | `/projects/caf%E9/...` makes the URL's `decodeURIComponent` (`Panel.tsx:119`, outside any `try`) throw during Panel's render; the card's ErrorBoundary wraps only its content. |

Bounds, and why they are enough:
- **Query.** One query suffices for the layout: the classifier's "first query that matches" scan is a pure operator and does not interact with the layout.
- **Payloads.** The layout run uses three payloads: exportable, unexportable and none. That covers both values of every guard that depends on the data (`Present("export")`, `HasContent` of the medium and large menus).
- **Props.** The layout run covers 32 prop combinations: description blank or set, 0 or 1 link, with or without read handlers, with or without an element `extra`, and with or without the `'undefined'` dataType hint that `PanelHeaderProps` allows. Edit mode is chosen in `Init`.
- **Widths.** The four whole-pixel widths fall in the three boxes, including both sides of each breakpoint. The subpixel run adds 1.97px.
- **Dropped sample.** A text description is left out of `MCPanels`: it only adds an inline icon, and description placement is covered by the blank/text split.

- **Card samples.** The card's results are every two-column table over seven cells: null, `""`, `x`, `x,"`, `"`, a line break and `0`, each as a one-query `QueryData[]`. There are also time series of two one-point series whose names may coincide (one with a string time), bar charts with categories and as records, an empty array and a loading query. `panelType` is what Panel and PanelHeader pass: `timeseries`. The three URLs take `getProjectName` to each of its URL outcomes: a plain name, a decoded non-ASCII name and a `URIError`; the `projectName` prop, present or not, decides whether the URL is read at all.
- **CSV samples.** The CSV samples are every one- and two-row, one-column table, and every one-row, two-column table, over eight cells: undefined, null, `""`, `x`, `,`, `x,"`, `0` and `12`. There are also time series of one or two series with one or two points, at 0 s, 6e7 s, and 2e10 as seconds and as ms. Each violation run has its own small sample.

No liveness property is claimed, so no fairness is assumed. The header has no obligation to make progress on its own: every step is a user or environment event.

## Mutants

Each property of the passing run is broken by a plausible bug in the code it is about:

| Property | Mutant | Bug it stands for |
|---|---|---|
| TypeOK | `ExportFileNoDefault` | The export switch without its `default: return`. |
| EachActionOncePlaced | `MenuActionsMediumNoExport` | The medium menu without the CSV button. |
| ExitViewReachable | `OnHoverShowsEditOnly` | `OnHover` ignoring the viewed mode. |
| TypeOK (CsvExport) | `CsvExportHandlerNoDefault` | The switch without its `default: return`: an unknown hint is written as a table. |
| TableRoundTrip | `TableCellNoDoubling` | Quoting a comma cell without doubling its quotes. |
| CardTypeOK (PanelCard) | `StashHandlerNoCatch` | The serializers called outside the `try`. |
| StashTableRoundTrip | `StashCellNoNewline` | Escaping that forgets `\n`. |
| StashSeriesAligned | `StashPutFirstWins` | The first write of a name kept. |
| TimeSeriesAligned | `TimeCellOr` | `rowData?.[c] \|\| ''` instead of `?? ''`, which blanks zeros. |
| AtMostOnePopover | `RemountMenusNone` | `OnHover` hoisted out of `PanelActions`, which is the natural fix for the menu_refresh finding. Without the remount, a stale anchor brings a second popover back. Fixing that bug therefore needs `anchorPosition` to be cleared when the menu loses its content. |
| PopoverInDisplayedBox | `RemountMenusNone` | The same hoisting: a popover opened in one box stays open, portalled, after a resize into another bucket. |
| MenuModal | `RemountMenusNone` | The same hoisting: a content change brings a closed popover back without a click, which `PopoverMenu` forbids. |

## Proofs (checked by `tlapm`)

### `PanelActionsProofs`

The proofs hold for every value of the constants that satisfies the named assumptions `NumQueriesAssumption`, `BreakpointAssumption` and `SamplesAssumption`.

- `TypeCorrect`: `Spec => []TypeOK`. The inductive step is the lemma `TypeInvariance`, with one step per action. The lemma `ExportFileType` shows that the export handler saves nothing or a file of a known shape.
- `SinglePopover`: `Spec => []AtMostOnePopover`, with the inductive invariant `TypeOK /\ AtMostOnePopover`. The argument:
  - `OpenMenu` requires that no popover is shown, and `HasContentStable` shows that a click changes no menu's content. So the other boxes' (possibly stale) anchors remain hidden.
  - `CloseMenu` and `ExportClick` only clear an anchor.
  - `Hover` leaves both anchors and contents unchanged.
  - A resize that keeps the rounded size changes no popover: the popover is portalled, so the width does not decide whether it shows (`ResizeKeepsPopovers`).
  - Every other step re-renders and clears every anchor (`RemountClosesAll`).
- `ExitViewAlwaysReachable`: `ASSUME WholePixelWidths PROVE Spec => []ExitViewReachable`, where `WholePixelWidths` says every width sample is a whole number of pixels. It follows from `TypeOK` alone, so no further strengthening is needed:
  - `SomeBoxShown`: a whole-pixel width lies in one of the three container-query ranges, because the 0.05px gaps below each breakpoint hold no whole pixel (`BreakpointAssumption`).
  - `ReadPlaced`: in a viewed panel the read handlers are passed, so the read action is present and `OnHover` shows its children. In the medium and large boxes it is inline; in the small box it is in the menu, which then has content, so the menu button is shown.
  - The hypothesis is needed: the subpixel_gap run shows a width at which no box, and so no way back, is shown.
- `LayoutPlacesEachActionOnce`: `ASSUME WholePixelWidths, ElementExtras PROVE Spec => []EachActionOncePlaced`. `ElementExtras` says no sample's `extra` is a bare string. Again `TypeOK` suffices:
  - `SomeBoxShown` and `BoxesDisjoint` give exactly one displayed box.
  - `InlineOrMenu`: each box lists every action either inline or in its menu, never both.
  - `PlacedOnce`: while hovered, a present action that is an element is inline in the displayed box or behind its menu button. The action itself gives the menu content, so the button is rendered. `Placements(a)` is therefore a singleton (`FS_Singleton`).
  - Both hypotheses are needed. Sub-pixel widths show no box. A string `extra` alone in the small box's menu is not a valid element, so `OverflowMenu` renders nothing (hazard `part_001:1270`).
- `PopoverFollowsBox`: `ASSUME WholePixelWidths PROVE Spec => []PopoverInDisplayedBox`. The inductive invariant is `TypeOK /\ PopoverInDisplayedBox`. A menu opens only from a button of the displayed box. The other steps only hide popovers, or leave the width and the popovers as they are. The resize is where the hypothesis is used:
  - A resize to another rounded pixel size re-renders Panel, which remounts the menus.
  - `WholePixelRounding`: two whole-pixel widths with the same rounded size are equal, so any other resize changes nothing.
  - The hypothesis is needed. Going from 1.94px to 2px keeps the rounded size, so nothing re-renders, while the container queries switch from the small box to the medium one. The small box's portalled popover then stays open over the medium box. TLC finds this with the widths {1.94px, 2px}; it is the hazard at `Panel.tsx:176`.
- `MenuRefinement`: `Spec => MenuModal`, the refinement of `PopoverMenu`:
  - Initial states: every anchor is clear, so `OpenBox` is none.
  - `OpenMenu` is `Open`: no popover was shown, the clicked button was offered, and nothing the buttons depend on changes.
  - `CloseMenu` and `ExportClick` are `Close`: `AtMostOnePopover` makes the closed box the only one shown.
  - The remounting steps are `Close`, or `Render` when none was open (`ClosingStep`).
  - `Hover`, and a resize that keeps the rounded size, are `Render` (`OpenBoxStable`, `ResizeKeepsPopovers`).
  - The step invariant is `TypeOK /\ AtMostOnePopover`, from `TypeCorrect` and `SinglePopover`.
- `LayoutPlacesEachElementOnce`: `ASSUME WholePixelWidths PROVE Spec => [](hover => \A a \in Actions : Present(a) /\ IsElement(a) => Cardinality(Placements(a)) = 1)`. It drops the hypothesis `ElementExtras` of `LayoutPlacesEachActionOnce` and states what still holds for every set of props: an action that is a React element is always reachable in exactly one place. The argument is the same (`SomeBoxShown`, `BoxesDisjoint`, `PlacedOnce`), since the element itself gives its menu content. So the string `extra` of hazard `part_001:1270` is the only action the layout can lose.

### `ProjectNameProofs`

- `ThrowsOnlyOnUrlEscape`: if `GetProjectName(explicit, def, loc) = URIError`, then no `projectName` prop was passed, the definition names no project path, the URL's path has a project group, and that group `g` is not well formed or escapes a byte of 0x80 or more. So the query string and the hash, which are decoded (or not) after the path, never make it throw, and a path that escapes only ASCII never does. The lemmas:
  - `NameIsNoError`: a name is never `URIError`.
  - `HexValRange` and `ByteRange`: an escape `%XY` of a well-formed string denotes a byte in 0..255.
  - `AsciiEscapesDecode`: a well-formed string whose escapes are all below 128 decodes without error.
  The card_project_name run shows the remaining case happens: `%E9`.

### `QueryClassifierProofs`

- `BarChartOnlyFromLabels`: whenever `ProbeQueryData(d)` classifies a payload as `"barchart"`, `d` has no array `series`, and its `labels` and `datasets` are truthy. The lemma `DatasetsProbeResult` shows the datasets probe yields only a time series, a throw or no match. So `extractDataForExport`'s `BarChartData` probe (`part_000:81`), which needs `categories` and `series`, is never reached for such a payload: its `series` is taken first by the time-series probe. This is the export_shape finding for every payload, not only the run's samples.

Only model-checked:
- the properties of the CSV and card modules (`TypeOK`, `TableRoundTrip`, `TimeSeriesAligned`, `CardTypeOK`, `StashTableRoundTrip`, `StashSeriesAligned`): they reach `SequencesExt`, whose folds are recursive;
- every violation.

Out of the prover's reach:
- liveness and `ENABLED`;
- what the classifier's serializers and the CSV text compute for every input: they are folds over sequences (induction over data).

## Not modelled

- **Composition of the click.** `PanelActions`' `ExportClick` is not composed with `CsvExport`: the former keeps the dispatch to a shape, the latter the file.
- **No proofs about the CSV modules or the card.** `CsvText`, `CsvExport`, `StashedCsvExport` and `PanelCard` use `SequencesExt`, whose folds are recursive, so they stay with TLC. `StashedCsvExport`'s own `Init`/`Next`/`Spec` are kept as the abstract export that `PanelCard` is meant to refine.
- **`getProjectNameFromContext`** and the browser's parsing of the query string: `URLSearchParams.get` is the field `query` of the location.
- **The composed header of the main variant.** `PanelCard` composes Panel with the stashed `PanelActions`, the one `PanelHeader.tsx` imports; `PanelActions` models the main variant on its own.
- **The rest of the conflict-marked variants.** These are the stashed layout (`part_001:403-683`) and PanelHeader (`part_000:330-549`), which differ from the modelled ones in markup, and `exportGenericData`, which nothing calls.
- **The Go test and the CI.**

## Plan

Next steps, in order:
1. An abstract "layout plan" specification (the spec's inline/overflow plan per bucket), with `PanelActions` shown to refine it under whole-pixel widths.
2. The stashed layout of `PanelActions` as a second implementation of the same plan.
3. `PanelCard` shown to refine `StashedCsvExport`'s `Spec` (a card step is an export step or a stutter).
4. A run for a string `extra` in the small box (`part_001:1270`), which `HasContent` already models.
5. Bar-chart properties (`"null"` cells at l. 1025), reachable only through an explicit `barchart` hint, since the classifier tags `{categories, series}` as a time series.
