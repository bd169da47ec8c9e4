------------------------------ MODULE ClientApp ------------------------------
(***************************************************************************)
(* The browser client (app/client-app.tsx): four tabs of which one is      *)
(* mounted, and what outlives them: the event to explain, the requests     *)
(* that were sent, and the servers behind the proxies of app/api.          *)
(*                                                                         *)
(* The operator clicks on what is on the screen, one click at a time, and  *)
(* window.confirm stops the page until it is answered; between two clicks  *)
(* anything that is awaited may arrive, in any order, or fail.             *)
(***************************************************************************)
EXTENDS Naturals, FiniteSets

CONSTANTS Rules, Booked, Events, Devices,
          Plans,       \* bound: [part, clicks, ontology], the part of the screen that
                       \* is used in a behaviour, besides the navigation, and how much
          MaxClicks, MaxChanges, MaxCalls, MaxVersion

VARIABLES
  plan,        \* the part of the screen used in this behaviour
  tab, clicks, ontology,
  proposal, studioBusy, list, studioCalls, book, reviewed, posted, cleared,
  context, loading, result, aiCalls, explained,
  mode, projection, graphStatus, graphLoading, graphError, graphCall,
  visible, world, changes, delivered, timer, view, seen, missed,
  deviceBusy, panel, panelBusy, dashCalls,
  row, built, queued

Parts == {"rules", "copilot", "map", "devices", "events", "panel"}

\* A rule can be saved only under an identifier not in use, and no identifier is
\* empty: the server makes them (rule- and a random number).
ConstantsAssumption ==
  /\ Booked \subseteq Rules /\ Booked # Rules /\ "" \notin Rules
  /\ \A p \in Plans : p.part \in Parts /\ p.clicks \in 0..MaxClicks
  /\ MaxClicks \in Nat /\ MaxChanges \in Nat /\ MaxCalls \in Nat \ {0} /\ MaxVersion \in Nat

ASSUME ConstantsAssumption

Studio == INSTANCE RuleStudio
Ai     == INSTANCE AskAi
Graph  == INSTANCE OntologyGraph
Dash   == INSTANCE Dashboard

studioVars == <<proposal, studioBusy, list, studioCalls, book, reviewed, posted, cleared>>
aiVars     == <<context, loading, result, aiCalls, explained>>
graphVars  == <<mode, projection, graphStatus, graphLoading, graphError, graphCall>>
dashVars   == <<world, changes, delivered, timer, view, seen, missed, deviceBusy, panel, panelBusy, dashCalls>>
serverVars == <<row, built, queued>>
appVars    == <<plan, tab, clicks, ontology, visible>>
vars == <<appVars, studioVars, aiVars, graphVars, dashVars, serverVars>>

Tabs == {"dashboard", "explorer", "rules", "ai"}

Init ==
  /\ tab = "dashboard" /\ visible = TRUE
  /\ \E p \in Plans : plan = p.part /\ clicks = MaxClicks - p.clicks /\ ontology = p.ontology
  /\ Studio!InitStudio /\ Ai!InitAi /\ Graph!InitGraph /\ Dash!InitDash /\ Graph!InitServer

-------------------------------------------------------------------------------
\* Only the tab's component is rendered: the one before unmounts, the new mounts,
\* and the others are as they were, which is empty.
Show(t) ==
  /\ tab' = t
  /\ IF "rules" \in {tab, t} THEN Studio!ShowStudio(t) ELSE UNCHANGED studioVars
  /\ IF "ai" \in {tab, t} THEN Ai!ShowAi(t) ELSE UNCHANGED <<loading, result, aiCalls, explained>>
  /\ IF "explorer" \in {tab, t} THEN Graph!ShowGraph(t) ELSE UNCHANGED <<graphVars, serverVars>>
  /\ IF "dashboard" \in {tab, t} THEN Dash!ShowDash(t) ELSE UNCHANGED dashVars
  /\ UNCHANGED <<plan, ontology, visible>>

\* A tab of the navigation.
OpenTab(t) ==
  /\ visible /\ t # tab
  /\ clicks < MaxClicks /\ clicks' = clicks + 1
  /\ UNCHANGED context
  /\ Show(t)

\* "Explain Why" at an event of the timeline.
ExplainEvent(e) ==
  /\ plan = "copilot" /\ tab = "dashboard" /\ view.version > 0
  /\ clicks < MaxClicks /\ clicks' = clicks + 1
  /\ Ai!Request(e)
  /\ Show("ai")

\* Clicks inside the tab.
StudioClick == plan = "rules" /\ Studio!StudioClick /\ UNCHANGED <<plan, tab, ontology, visible, aiVars, graphVars, dashVars, serverVars>>
AiClick     == plan = "copilot" /\ Ai!Ask /\ UNCHANGED <<plan, tab, ontology, visible, studioVars, graphVars, dashVars, serverVars>>
GraphClick  == plan = "map" /\ Graph!GraphClick /\ UNCHANGED <<plan, tab, ontology, visible, studioVars, aiVars, dashVars, serverVars>>
DeviceClick == plan = "devices" /\ visible /\ Dash!DeviceClick /\ UNCHANGED <<plan, tab, ontology, visible, studioVars, aiVars, graphVars, serverVars>>
PanelClick  == plan = "panel" /\ Dash!RebuildGraph /\ UNCHANGED <<plan, tab, ontology, visible, studioVars, aiVars, graphVars, serverVars>>
Visibility  == plan = "events" /\ Dash!Visibility /\ UNCHANGED <<plan, tab, ontology, studioVars, aiVars, graphVars, serverVars>>

-------------------------------------------------------------------------------
\* Answers, timers and events.
StudioStep == Studio!StudioStep /\ UNCHANGED <<appVars, aiVars, graphVars, dashVars, serverVars>>
AiStep     == Ai!AiStep /\ UNCHANGED <<appVars, studioVars, graphVars, dashVars, serverVars>>
GraphStep  == Graph!GraphStep /\ UNCHANGED <<appVars, studioVars, aiVars, dashVars>>
DashStep   == Dash!DashStep /\ UNCHANGED <<appVars, studioVars, aiVars, graphVars>>
PollStep   == Dash!PollStep /\ UNCHANGED <<appVars, studioVars, aiVars, graphVars>>
TimerUp    == Dash!TimerUp /\ UNCHANGED <<appVars, studioVars, aiVars, graphVars, serverVars>>
Deliver    == Dash!Deliver /\ UNCHANGED <<appVars, studioVars, aiVars, graphVars, serverVars>>
PollGraph  == plan = "panel" /\ Dash!PollGraph /\ UNCHANGED <<appVars, studioVars, aiVars, graphVars, serverVars>>

\* The world behind the proxies.
World ==
  \/ plan = "events" /\ Dash!Change /\ UNCHANGED <<appVars, studioVars, aiVars, graphVars, serverVars>>
  \/ \E d \in Devices : Dash!CommandDone(d) /\ UNCHANGED <<appVars, studioVars, aiVars, graphVars, serverVars>>
  \/ Graph!Server /\ UNCHANGED <<appVars, studioVars, aiVars, graphVars, dashVars>>

Next ==
  \/ \E t \in Tabs : OpenTab(t)
  \/ \E e \in Events : ExplainEvent(e)
  \/ StudioClick \/ AiClick \/ GraphClick \/ DeviceClick \/ PanelClick \/ Visibility
  \/ StudioStep \/ AiStep \/ GraphStep \/ DashStep \/ PollStep
  \/ TimerUp \/ Deliver \/ PollGraph
  \/ World

\* A request is answered or fails, a prompt is answered and a timer fires in the
\* end.  The operator, the stream, the poll and the world promise nothing.
Spec ==
  /\ Init /\ [][Next]_vars
  /\ WF_vars(StudioStep) /\ WF_vars(AiStep) /\ WF_vars(GraphStep)
  /\ WF_vars(DashStep) /\ WF_vars(PollStep) /\ WF_vars(TimerUp)

-------------------------------------------------------------------------------
\* The types of the client's own state and of its tabs.
ClientTypeOK ==
  /\ plan \in Parts /\ tab \in Tabs /\ clicks \in 0..MaxClicks /\ visible \in BOOLEAN
  /\ Studio!StudioTypeOK /\ Ai!AiTypeOK /\ Graph!GraphTypeOK /\ Dash!DashTypeOK

\* Whatever the handlers of several clicks and tabs do to the flags they share, a
\* flag that disables a button has a handler in flight, on the tab that is open,
\* whose end lowers it: no path of a handler leaves one up.
FlagsAreHeld == Studio!BusyIsHeld /\ Ai!LoadingIsHeld /\ Dash!ButtonsAreHeld

\* See RuleStudio, AskAi, OntologyGraph and Dashboard.
SavedAsReviewed == Studio!SavedAsReviewed
ProposalsExclusive == Studio!ProposalsExclusive
ProjectionHonest == Graph!ProjectionHonest
CatchesUp == Dash!CatchesUp
NewsIsPursued == Dash!NewsIsPursued

\* No rule is changed and no explanation asked for from this client unless the
\* ontology it read grants the role: the check stands between every click and
\* its request, in handlers that outlive their tab too.
ActedInRole ==
  /\ (posted # {} \/ \E r \in Booked : book[r] # "on") =>
       {"OpsEngineer", "OpsEngineer assignedTo BestAiCom Smart Workspace"} \subseteq ontology
  /\ explained > 0 => {"InspectionTeam", "InspectionTeam worksFor BestAiCom"} \subseteq ontology

\* Once the operator stops clicking, every tab's buttons are enabled again: each
\* handler that raises a flag lowers it on every path, also when the handlers of
\* several clicks share the flag.
ButtonsComeBack ==
  <>[](studioBusy = "" /\ loading = {} /\ ~graphLoading /\ deviceBusy = "none" /\ ~panelBusy)

-------------------------------------------------------------------------------
(* What the documents or the screen say and the code does not do: see the  *)
(* end of each component's module.                                         *)
SavedOnce == Studio!SavedOnce
DiscardedIsDropped == Studio!DiscardedIsDropped
ExplainedOncePerClick == Ai!ExplainedOncePerClick
RebuildShowsTheNew == Graph!RebuildShowsTheNew
ViewNeverGoesBack == Dash!ViewNeverGoesBack
OneCommandAtATime == Dash!OneCommandAtATime
===============================================================================
