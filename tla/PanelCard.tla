------------------------------ MODULE PanelCard ------------------------------
(***************************************************************************)
(* The panel card as the repository wires it: Panel (src/ui/dashboards/   *)
(* src/components/Panel/Panel.tsx) reads queryResults from the query      *)
(* context, resolves a project name in a useMemo, and renders PanelHeader *)
(* (PanelHeader.tsx) unless panelOptions.hideHeader; PanelHeader passes   *)
(* queryResults and panelType, which defaults to 'timeseries', to the     *)
(* PanelActions whose props these are: the stashed-changes variant of     *)
(* src/unnamed/part_001:89-403, modelled by StashedCsvExport.  Panel       *)
(* passes no panelType.                                                     *)
(*                                                                         *)
(* The environment publishes query snapshots, passes new definition and   *)
(* projectName props, and navigates client-side; the user clicks "CSV     *)
(* Export".  A render whose getProjectName throws fails Panel: the         *)
(* ErrorBoundary of Panel wraps the content only, so the throw leaves the *)
(* card, and the card takes no further step.                               *)
(***************************************************************************)
EXTENDS StashedCsvExport, ProjectName

CONSTANTS
  DefinitionSamples,   \* PanelDefinition objects the dashboard passes
  ExplicitSamples,     \* values of Panel's projectName prop
  LocationSamples      \* window.location: [pathname, query, hash]

VARIABLES
  definition,     \* the definition prop
  explicitName,   \* the projectName prop
  location,       \* window.location
  hideHeader,     \* panelOptions?.hideHeader
  projectName     \* the memoised getProjectName(...), URIError when the render threw

cardVars == <<definition, explicitName, location, hideHeader, projectName>>
allVars == <<results, panelType, outcome, definition, explicitName, location, hideHeader, projectName>>

CardSamplesAssumption ==
  /\ DefinitionSamples # {} /\ ExplicitSamples # {} /\ LocationSamples # {}
  /\ \A e \in ExplicitSamples : e.t \in {"undefined", "string"}
ASSUME CardSamplesAssumption

\* PanelHeader: panelType = 'timeseries' when the prop is not passed
HeaderPanelType(prop) == IF prop = Undef THEN "timeseries" ELSE prop
\* PanelHeader's dataForExport: useMemo(() => queryResults, [queryResults])
HeaderQueryResults(qr) == qr

\* the card rendered: its last render did not throw
Rendered == projectName # URIError

CardInit ==
  /\ results \in ResultSamples
  /\ panelType = HeaderPanelType(Undef)
  /\ outcome = Idle
  /\ definition \in DefinitionSamples
  /\ explicitName \in ExplicitSamples
  /\ location \in LocationSamples
  /\ hideHeader \in BOOLEAN
  /\ projectName = GetProjectName(explicitName, definition, location)

\* The query context publishes a snapshot: Panel and PanelHeader render
\* again; the memo's dependencies have not changed, so it keeps its value.
Refresh(r) ==
  /\ Rendered
  /\ NewResults(HeaderQueryResults(r))
  /\ UNCHANGED cardVars

\* A new definition prop (the panel was edited): the memo computes the
\* name again, from the location of this render.
SetDefinition(d) ==
  /\ Rendered /\ d # definition
  /\ definition' = d
  /\ projectName' = GetProjectName(explicitName, d, location)
  /\ UNCHANGED <<results, panelType, outcome, explicitName, location, hideHeader>>

\* A new projectName prop.
SetExplicit(e) ==
  /\ Rendered /\ e # explicitName
  /\ explicitName' = e
  /\ projectName' = GetProjectName(e, definition, location)
  /\ UNCHANGED <<results, panelType, outcome, definition, location, hideHeader>>

\* Client-side navigation: nothing Panel renders from changes, and the
\* memo does not list window.location among its dependencies.
Navigate(l) ==
  /\ l # location
  /\ location' = l
  /\ UNCHANGED <<results, panelType, outcome, definition, explicitName, hideHeader, projectName>>

\* A click on "CSV Export" in the header of a rendered card.
CardClick ==
  /\ Rendered /\ ~hideHeader
  /\ Click
  /\ UNCHANGED cardVars

CardNext ==
  \/ \E r \in ResultSamples : Refresh(r)
  \/ \E d \in DefinitionSamples : SetDefinition(d)
  \/ \E e \in ExplicitSamples : SetExplicit(e)
  \/ \E l \in LocationSamples : Navigate(l)
  \/ CardClick

CardSpec == CardInit /\ [][CardNext]_allVars

-----------------------------------------------------------------------------
\* What a click does, and what the memo holds, are of their kinds.
CardTypeOK ==
  /\ results \in ResultSamples
  /\ panelType = "timeseries"
  /\ outcome.kind \in {"idle", "none", "caught", "file"}
  /\ definition \in DefinitionSamples /\ explicitName \in ExplicitSamples
  /\ location \in LocationSamples /\ hideHeader \in BOOLEAN
  /\ projectName.kind \in {"name", "undefined", "throw"}

(***************************************************************************)
(* Empty-input idempotence (spec 7 and 8): the export action is offered    *)
(* only when there is something to export, so a click on the card's CSV    *)
(* Export button saves a file.                                             *)
(***************************************************************************)
ExportOfferedWithData == outcome # Idle => outcome.kind = "file"

(***************************************************************************)
(* No operation may throw past its boundary (spec 7): resolving the       *)
(* project name during a render of Panel never fails the card.            *)
(***************************************************************************)
PanelRenders == Rendered

=============================================================================
