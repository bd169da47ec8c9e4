---------------------------- MODULE WebTier_proofs ----------------------------
(*****************************************************************************)
(* Proofs about the web application: the browser (ClientApp) and the requests *)
(* to the language model it serves (AiRequests), for any users, rules, visitors *)
(* and limits.  The modules share no variable: each theorem is about the     *)
(* specification of one.                                                     *)
(*****************************************************************************)
EXTENDS ClientApp, AiRequests, FiniteSetTheorems, TLAPS

-------------------------------------------------------------------------------
(* The graph of the Semantic Map.                                           *)

\* A graph is read only after a status of ready, and a graph that is neither
\* loading nor in error holds a projection, unless none was asked for yet.
GraphInv ==
  /\ graphLoading \in BOOLEAN /\ graphError \in BOOLEAN
  /\ built \in Nat \ {0}
  /\ Graph!OneLoad
  /\ "graph" \in graphCall => graphStatus = "ready"
  /\ (~graphLoading /\ ~graphError)
       => \/ projection # 0 /\ graphStatus = "ready"
          \/ projection = 0 /\ mode = "source"

LEMMA GraphInvHonest == GraphInv => ProjectionHonest
  BY DEF GraphInv, ProjectionHonest, Graph!ProjectionHonest, Graph!NeverBlank

LEMMA GraphKept ==
  ASSUME GraphInv, UNCHANGED graphVars, built' = built
  PROVE  GraphInv'
  BY DEF GraphInv, graphVars, Graph!OneLoad

LEMMA GraphClicked ==
  ASSUME GraphInv, Graph!GraphClick, built' = built
  PROVE  GraphInv'
<1>1. CASE Graph!RebuildProjection
  BY <1>1 DEF GraphInv, Graph!RebuildProjection, Graph!OneLoad, Graph!Stages
<1>2. ASSUME NEW m \in {"source", "projection"}, Graph!ChangeMode(m)
      PROVE  GraphInv'
  <2>1. CASE m = "projection" /\ projection = 0 /\ ~graphLoading
    <3>1. graphLoading' = TRUE /\ graphError' = FALSE /\ graphCall' = {"status"}
      BY <1>2, <2>1 DEF GraphInv, Graph!ChangeMode, Graph!StartLoad, Graph!OneLoad
    <3> QED BY <3>1 DEF GraphInv, Graph!OneLoad, Graph!Stages
  <2>2. CASE ~(m = "projection" /\ projection = 0 /\ ~graphLoading)
    <3>1. UNCHANGED <<graphLoading, graphError, graphCall, projection, graphStatus>> /\ mode' = m
      BY <1>2, <2>2 DEF Graph!ChangeMode
    <3>2. (~graphLoading /\ ~graphError) => (projection # 0 /\ graphStatus = "ready") \/ (projection = 0 /\ m = "source")
      BY <2>2 DEF GraphInv
    <3> QED BY <3>1, <3>2 DEF GraphInv, Graph!OneLoad
  <2> QED BY <2>1, <2>2
<1> QED BY <1>1, <1>2 DEF Graph!GraphClick

LEMMA GraphStepped ==
  ASSUME GraphInv, Graph!GraphStep
  PROVE  GraphInv'
<1> PICK c \in graphCall :
      \/ Graph!RebuildQueued(c) \/ Graph!RebuildFailed(c) \/ Graph!TimerFires(c)
      \/ Graph!StatusRead(c) \/ Graph!GraphRead(c) \/ Graph!ReadFailed(c)
  BY DEF Graph!GraphStep
<1>0. graphLoading = TRUE /\ graphCall = {c} /\ c \in Graph!Stages
  BY DEF GraphInv, Graph!OneLoad
<1>1. CASE Graph!RebuildQueued(c)
  BY <1>0, <1>1 DEF GraphInv, Graph!RebuildQueued, Graph!OneLoad, Graph!Stages
<1>2. CASE Graph!RebuildFailed(c)
  BY <1>0, <1>2 DEF GraphInv, Graph!RebuildFailed, Graph!OneLoad, Graph!Stages, Graph!serverVars
<1>3. CASE Graph!TimerFires(c)
  BY <1>0, <1>3 DEF GraphInv, Graph!TimerFires, Graph!OneLoad, Graph!Stages, Graph!serverVars
<1>4. CASE Graph!StatusRead(c)
  BY <1>0, <1>4 DEF GraphInv, Graph!StatusRead, Graph!LoadFails, Graph!OneLoad, Graph!Stages, Graph!serverVars
<1>5. CASE Graph!GraphRead(c)
  BY <1>0, <1>5 DEF GraphInv, Graph!GraphRead, Graph!OneLoad, Graph!Stages, Graph!serverVars
<1>6. CASE Graph!ReadFailed(c)
  BY <1>0, <1>6 DEF GraphInv, Graph!ReadFailed, Graph!LoadFails, Graph!OneLoad, Graph!Stages, Graph!serverVars
<1> QED BY <1>1, <1>2, <1>3, <1>4, <1>5, <1>6

LEMMA GraphShown ==
  ASSUME GraphInv, NEW t, Show(t)
  PROVE  GraphInv'
<1>1. CASE "explorer" \in {tab, t}
  BY <1>1 DEF Show, GraphInv, Graph!ShowGraph, Graph!OneLoad, Graph!Stages
<1>2. CASE "explorer" \notin {tab, t}
  BY <1>2, GraphKept DEF Show, serverVars
<1> QED BY <1>1, <1>2

LEMMA GraphInvInductive ==
  ASSUME GraphInv, [Next]_vars
  PROVE  GraphInv'
<1>1. ASSUME NEW t \in Tabs, OpenTab(t) PROVE GraphInv'
  BY <1>1, GraphShown DEF OpenTab
<1>2. ASSUME NEW e \in Events, ExplainEvent(e) PROVE GraphInv'
  BY <1>2, GraphShown DEF ExplainEvent
<1>3. CASE GraphClick
  BY <1>3, GraphClicked DEF GraphClick, serverVars
<1>4. CASE GraphStep
  BY <1>4, GraphStepped DEF GraphStep
<1>5. CASE StudioClick \/ AiClick \/ DeviceClick \/ PanelClick \/ Visibility
  BY <1>5, GraphKept DEF StudioClick, AiClick, DeviceClick, PanelClick, Visibility, serverVars
<1>6. CASE StudioStep \/ AiStep \/ TimerUp \/ Deliver \/ PollGraph
  BY <1>6, GraphKept DEF StudioStep, AiStep, TimerUp, Deliver, PollGraph, serverVars
<1>7. CASE DashStep \/ PollStep
  BY <1>7, GraphKept DEF DashStep, PollStep, Dash!DashStep, Dash!PollStep, Dash!CallStep,
     Dash!CommandTaken, Dash!RebuildTaken, Dash!StateRead, Dash!StateShown, Dash!StatusShown, Dash!CallFails
<1>8. CASE World
  <2>1. ASSUME UNCHANGED graphVars, \/ UNCHANGED built
                                    \/ built' = built + 1
        PROVE  GraphInv'
    BY <2>1 DEF GraphInv, graphVars, Graph!OneLoad
  <2> QED BY <1>8, <2>1 DEF World, serverVars, Graph!Server, Graph!BeginRebuild, Graph!EndRebuild
<1>9. CASE UNCHANGED vars
  BY <1>9, GraphKept DEF vars, serverVars
<1> QED BY <1>1, <1>2, <1>3, <1>4, <1>5, <1>6, <1>7, <1>8, <1>9 DEF Next

\* The projection shown is read after a status of ready, one load at a time, and
\* is never blank without an error: for any bounds (ontology-graph.tsx).
THEOREM ProjectionIsHonest == Spec => []ProjectionHonest
<1>1. Init => GraphInv
  <2> SUFFICES ASSUME Graph!InitGraph, Graph!InitServer PROVE GraphInv
    BY DEF Init
  <2>1. graphCall = {} /\ graphLoading = FALSE /\ graphError = FALSE
    BY Zenon DEF Graph!InitGraph
  <2>3. built \in Nat \ {0}
    BY DEF Graph!InitServer
  <2>2. projection = 0 /\ mode = "source"
    BY DEF Graph!InitGraph
  <2> QED BY <2>1, <2>2, <2>3 DEF GraphInv, Graph!OneLoad
<1>2. GraphInv /\ [Next]_vars => GraphInv'
  BY GraphInvInductive
<1> QED BY <1>1, <1>2, GraphInvHonest, PTL DEF Spec

-------------------------------------------------------------------------------
(* The rules.                                                               *)

Engineer == {"OpsEngineer", "OpsEngineer assignedTo BestAiCom Smart Workspace"} \subseteq ontology

\* A handler is a record of these fields and no others.
Shape(h) == h = [id |-> h.id, kind |-> h.kind, at |-> h.at, of |-> h.of,
                 to |-> h.to, saw |-> h.saw, live |-> h.live]

\* An approving handler holds a reviewed proposal, and one that is past its check
\* and changes a rule has found the role in the ontology.
Lawful(h) ==
  /\ Shape(h)
  /\ h.kind = "approve" => h.of \in reviewed
  /\ h.at = "check" => h.kind \in {"approve", "toggle", "delete"}
  /\ (h.at = "send" /\ h.kind # "propose") => Engineer

StudioInv ==
  /\ \A h \in studioCalls : Lawful(h)
  /\ Studio!SavedAsReviewed
  /\ (posted # {} \/ \E r \in Booked : book[r] # "on") => Engineer

\* A handler that goes on, or whose component is gone, keeps what it captured.
LEMMA GoesOn ==
  ASSUME NEW h, Shape(h), NEW x
  PROVE  /\ LET g == [h EXCEPT !.at = x] IN
            Shape(g) /\ g.kind = h.kind /\ g.of = h.of /\ g.at = x
         /\ LET g == [h EXCEPT !.saw = x] IN
            Shape(g) /\ g.kind = h.kind /\ g.of = h.of /\ g.at = h.at
         /\ LET g == [h EXCEPT !.live = x] IN
            Shape(g) /\ g.kind = h.kind /\ g.of = h.of /\ g.at = h.at
<1> DEFINE r == [id |-> h.id, kind |-> h.kind, at |-> h.at, of |-> h.of,
                 to |-> h.to, saw |-> h.saw, live |-> h.live]
           f == [r EXCEPT !.at = x]
           g == [r EXCEPT !.saw = x]
           k == [r EXCEPT !.live = x]
<1>1. h = r
  BY DEF Shape
<1>2. f = [id |-> h.id, kind |-> h.kind, at |-> x, of |-> h.of,
           to |-> h.to, saw |-> h.saw, live |-> h.live]
  OBVIOUS
<1>3. Shape(f) /\ f.kind = h.kind /\ f.of = h.of /\ f.at = x
  BY <1>2 DEF Shape
<1>4. g = [id |-> h.id, kind |-> h.kind, at |-> h.at, of |-> h.of,
           to |-> h.to, saw |-> x, live |-> h.live]
  OBVIOUS
<1>5. Shape(g) /\ g.kind = h.kind /\ g.of = h.of /\ g.at = h.at
  BY <1>4 DEF Shape
<1>6. k = [id |-> h.id, kind |-> h.kind, at |-> h.at, of |-> h.of,
           to |-> h.to, saw |-> h.saw, live |-> x]
  OBVIOUS
<1>7. Shape(k) /\ k.kind = h.kind /\ k.of = h.of /\ k.at = h.at
  BY <1>6 DEF Shape
<1> QED BY <1>1, <1>3, <1>5, <1>7

\* A new handler is what it was made of.
LEMMA Started ==
  ASSUME NEW k, NEW a, NEW o, NEW t, NEW g, g = Studio!Handler(k, a, o, t)
  PROVE  Shape(g) /\ g.kind = k /\ g.at = a /\ g.of = o
<1>1. g = [id |-> clicks', kind |-> k, at |-> a, of |-> o, to |-> t, saw |-> Studio!NoRules, live |-> TRUE]
  BY DEF Studio!Handler
<1> QED BY <1>1 DEF Shape

LEMMA StudioKept ==
  ASSUME StudioInv, UNCHANGED <<ontology, studioCalls, book, reviewed, posted>>
  PROVE  StudioInv'
  BY DEF StudioInv, Lawful, Shape, Engineer, Studio!SavedAsReviewed

\* Handlers come and go while nothing is saved or changed.
LEMMA StudioHandlers ==
  ASSUME StudioInv, UNCHANGED <<ontology, book, posted>>, reviewed \subseteq reviewed',
         \A h \in studioCalls' : h \in studioCalls \/ Lawful(h)'
  PROVE  StudioInv'
<1>1. Engineer' <=> Engineer
  BY DEF Engineer
<1>2. ASSUME NEW h \in studioCalls' PROVE Lawful(h)'
  BY <1>1, <1>2 DEF StudioInv, Lawful, Shape
<1> QED BY <1>1, <1>2 DEF StudioInv, Studio!SavedAsReviewed

LEMMA StudioClicked ==
  ASSUME StudioInv, UNCHANGED ontology, Studio!StudioClick
  PROVE  StudioInv'
<1>1. CASE Studio!Propose
  <2>1. PICK o, t, g : g = Studio!Handler("propose", "send", o, t) /\ studioCalls' = studioCalls \cup {g}
    BY <1>1, Zenon DEF Studio!Propose
  <2>2. Shape(g) /\ g.kind = "propose" /\ g.at = "send"
    BY <2>1, Started
  <2>3. Lawful(g)'
    BY <2>2 DEF Lawful, Shape
  <2> QED BY <2>3, <1>1, <2>1, <2>2, StudioHandlers DEF Studio!Propose
<1>2. CASE Studio!Approve
  <2>1. PICK g : g = Studio!Handler("approve", "check", proposal, "on") /\ studioCalls' = studioCalls \cup {g}
    BY <1>2 DEF Studio!Approve
  <2>2. Shape(g) /\ g.kind = "approve" /\ g.at = "check" /\ g.of = proposal
    BY <2>1, Started
  <2>3. Lawful(g)'
    BY <1>2, <2>2 DEF Lawful, Shape, Studio!Approve
  <2> QED BY <2>3, <1>2, <2>1, <2>2, StudioHandlers DEF Studio!Approve
<1>3. CASE Studio!Discard
  BY <1>3, StudioKept DEF Studio!Discard
<1>4. ASSUME NEW r \in Rules, NEW action \in {"toggle", "delete"}, Studio!MutateRule(r, action)
      PROVE  StudioInv'
  <2>1. PICK g, t : g = Studio!Handler(action, "check", r, t) /\ studioCalls' = studioCalls \cup {g}
    BY <1>4 DEF Studio!MutateRule
  <2>2. Lawful(g)'
    BY <2>1, Started DEF Lawful, Shape
  <2> QED BY <1>4, <2>1, <2>2, StudioHandlers DEF Studio!MutateRule
<1> QED BY <1>1, <1>2, <1>3, <1>4 DEF Studio!StudioClick

LEMMA StudioStepped ==
  ASSUME StudioInv, UNCHANGED ontology, Studio!StudioStep
  PROVE  StudioInv'
<1> PICK h \in studioCalls :
      \/ Studio!Confirmed(h) \/ Studio!Declined(h) \/ Studio!Proposed(h) \/ Studio!Saved(h) \/ Studio!Changed(h)
      \/ Studio!Failed(h) \/ Studio!Answered(h) \/ Studio!ListRead(h) \/ Studio!Listed(h)
  BY DEF Studio!StudioStep
<1>0. Lawful(h) /\ Shape(h)
  BY DEF StudioInv, Lawful
<1>a. Engineer' <=> Engineer
  BY DEF Engineer
<1>b. ASSUME NEW x, reviewed \subseteq reviewed' PROVE
        LET g == [h EXCEPT !.at = x] IN (x \notin {"check", "send"} \/ (x = "send" /\ Engineer)) => Lawful(g)'
  <2> DEFINE g == [h EXCEPT !.at = x]
  <2>1. Shape(g) /\ g.kind = h.kind /\ g.of = h.of /\ g.at = x
    BY <1>0, GoesOn
  <2> HIDE DEF g
  <2>2. (x \notin {"check", "send"} \/ (x = "send" /\ Engineer)) => Lawful(g)'
    BY <1>0, <1>a, <1>b, <2>1 DEF Lawful, Shape
  <2> QED BY <2>2 DEF g
<1>1. CASE Studio!Confirmed(h)
  <2>1. Engineer
    BY <1>0, <1>1 DEF Studio!Confirmed, Studio!PolicyHolds, Studio!PolicyOf, Studio!Policies, Lawful, Engineer
  <2>2. Lawful([h EXCEPT !.at = "send"])'
    BY <1>1, <1>b, <2>1 DEF Studio!Confirmed
  <2> QED BY <1>1, <2>2, StudioHandlers DEF Studio!Confirmed, Studio!Moves
<1>2. CASE Studio!Declined(h)
  BY <1>2, StudioHandlers DEF Studio!Declined, Studio!Ends
<1>3. CASE Studio!Proposed(h)
  BY <1>3, StudioHandlers DEF Studio!Proposed, Studio!Ends
<1>4. CASE Studio!Saved(h)
  <2>1. Engineer /\ h.of \in reviewed
    BY <1>0, <1>4 DEF Studio!Saved, Lawful
  <2>2. Lawful([h EXCEPT !.at = "sent"])'
    BY <1>4, <1>b DEF Studio!Saved
  <2>3. \A g \in studioCalls' : Lawful(g)'
    BY <1>4, <2>2 DEF Studio!Saved, Studio!Moves, StudioInv, Lawful, Shape, Engineer
  <2>4. Studio!SavedAsReviewed'
    BY <1>4, <2>1 DEF Studio!Saved, Studio!Body, StudioInv, Studio!SavedAsReviewed
  <2> QED BY <1>a, <2>1, <2>3, <2>4 DEF StudioInv
<1>5. CASE Studio!Changed(h)
  <2>1. Engineer
    BY <1>0, <1>5 DEF Studio!Changed, Lawful
  <2>2. Lawful([h EXCEPT !.at = "sent"])'
    BY <1>5, <1>b DEF Studio!Changed
  <2>3. \A g \in studioCalls' : Lawful(g)'
    BY <1>5, <2>2 DEF Studio!Changed, Studio!Moves, StudioInv, Lawful, Shape, Engineer
  <2>4. Studio!SavedAsReviewed'
    BY <1>5 DEF Studio!Changed, StudioInv, Studio!SavedAsReviewed
  <2> QED BY <1>a, <2>1, <2>3, <2>4 DEF StudioInv
<1>6. CASE Studio!Failed(h)
  BY <1>6, StudioHandlers DEF Studio!Failed, Studio!Ends
<1>7. CASE Studio!Answered(h)
  <2>1. Lawful([h EXCEPT !.at = "list"])'
    BY <1>7, <1>b DEF Studio!Answered
  <2> QED BY <1>7, <2>1, StudioHandlers DEF Studio!Answered, Studio!Moves
<1>8. CASE Studio!ListRead(h)
  <2>1. PICK g : g = [h EXCEPT !.at = "listed"]
    OBVIOUS
  <2>2. Shape(g) /\ g.kind = h.kind /\ g.of = h.of /\ g.at = "listed"
    BY <2>1, <1>0, GoesOn
  <2>3. PICK b, k : b = book /\ k = [g EXCEPT !.saw = b]
    OBVIOUS
  <2>5a. Shape([g EXCEPT !.saw = b]) /\ [g EXCEPT !.saw = b].kind = g.kind
         /\ [g EXCEPT !.saw = b].of = g.of /\ [g EXCEPT !.saw = b].at = g.at
    BY <2>2, GoesOn
  <2>4. Shape(k) /\ k.kind = h.kind /\ k.of = h.of /\ k.at = "listed"
    BY <2>2, <2>3, <2>5a, Zenon
  <2>5. Lawful(k)'
    BY <1>0, <1>8, <2>4 DEF Lawful, Shape, Studio!ListRead
  <2>6. studioCalls' \subseteq studioCalls \cup {k}
    BY <1>8, <2>1, <2>3, Zenon DEF Studio!ListRead, Studio!Moves
  <2> QED BY <1>8, <2>5, <2>6, StudioHandlers DEF Studio!ListRead
<1>9. CASE Studio!Listed(h)
  BY <1>9, StudioHandlers DEF Studio!Listed, Studio!Ends
<1> QED BY <1>1, <1>2, <1>3, <1>4, <1>5, <1>6, <1>7, <1>8, <1>9

\* Leaving or opening the tab: what goes on is what it was, without its component.
LEMMA StudioShown ==
  ASSUME StudioInv, NEW t, Show(t)
  PROVE  StudioInv'
<1>1. CASE "rules" \in {tab, t}
  <2>1. Studio!ShowStudio(t) /\ ontology' = ontology
    BY <1>1 DEF Show
  <2>2. UNCHANGED <<book, reviewed, posted>>
    BY <2>1 DEF Studio!ShowStudio
  <2>3. ASSUME NEW h \in studioCalls
        PROVE  Lawful([h EXCEPT !.live = FALSE])'
    <3>1. PICK b : b = FALSE
      OBVIOUS
    <3>2. Lawful(h) /\ Shape(h)
      BY DEF StudioInv, Lawful
    <3> DEFINE g == [h EXCEPT !.live = b]
    <3>3. Shape(g) /\ g.kind = h.kind /\ g.of = h.of /\ g.at = h.at
      BY <3>2, GoesOn
    <3> HIDE DEF g
    <3>4. Lawful(g)'
      BY <2>1, <2>2, <3>2, <3>3 DEF Lawful, Shape, Engineer
    <3> QED BY <3>1, <3>4 DEF g
  <2>4. Lawful(Studio!Load)'
    BY DEF Lawful, Shape, Studio!Load
  <2>5. ASSUME NEW g \in studioCalls' PROVE Lawful(g)'
    <3>1. CASE g = Studio!Load
      BY <2>4, <3>1
    <3>2. CASE g # Studio!Load
      <4>1. PICK h \in studioCalls : g = [h EXCEPT !.live = FALSE]
        BY <2>1, <3>2 DEF Studio!ShowStudio
      <4> QED BY <2>3, <4>1
    <3> QED BY <3>1, <3>2
  <2> QED BY <2>1, <2>2, <2>5, StudioHandlers
<1>2. CASE "rules" \notin {tab, t}
  BY <1>2, StudioKept DEF Show, studioVars
<1> QED BY <1>1, <1>2

LEMMA StudioInvInductive ==
  ASSUME StudioInv, [Next]_vars
  PROVE  StudioInv'
<1>1. ASSUME NEW t \in Tabs, OpenTab(t) PROVE StudioInv'
  BY <1>1, StudioShown DEF OpenTab
<1>2. ASSUME NEW e \in Events, ExplainEvent(e) PROVE StudioInv'
  BY <1>2, StudioShown DEF ExplainEvent
<1>3. CASE StudioClick
  BY <1>3, StudioClicked DEF StudioClick
<1>4. CASE StudioStep
  BY <1>4, StudioStepped DEF StudioStep, appVars
<1>5. CASE AiClick \/ GraphClick \/ DeviceClick \/ PanelClick \/ Visibility
  BY <1>5, StudioKept DEF AiClick, GraphClick, DeviceClick, PanelClick, Visibility, studioVars
<1>6. CASE AiStep \/ GraphStep \/ DashStep \/ PollStep \/ TimerUp \/ Deliver \/ PollGraph
  BY <1>6, StudioKept DEF AiStep, GraphStep, DashStep, PollStep, TimerUp, Deliver, PollGraph, studioVars, appVars
<1>7. CASE World
  BY <1>7, StudioKept DEF World, studioVars, appVars
<1>8. CASE UNCHANGED vars
  BY <1>8, StudioKept DEF vars, studioVars, appVars
<1> QED BY <1>1, <1>2, <1>3, <1>4, <1>5, <1>6, <1>7, <1>8 DEF Next

LEMMA StudioInvAlways == Spec => []StudioInv
<1>1. Init => StudioInv
  <2> SUFFICES ASSUME Studio!InitStudio PROVE StudioInv
    BY DEF Init
  <2>1. studioCalls = {} /\ posted = {}
    BY Zenon DEF Studio!InitStudio
  <2>2. book = [r \in Rules |-> IF r \in Booked THEN "on" ELSE "absent"]
    BY Zenon DEF Studio!InitStudio
  <2>3. \A r \in Booked : book[r] = "on"
    BY <2>2, ConstantsAssumption DEF ConstantsAssumption
  <2> QED BY <2>1, <2>3 DEF StudioInv, Studio!SavedAsReviewed
<1> QED BY <1>1, StudioInvInductive, PTL DEF Spec

\* Every rule saved is a proposal that was on the screen when Approve was clicked,
\* however the handlers of the tab interleave: for any bounds (rule-studio.tsx).
THEOREM SavedIsReviewed == Spec => []SavedAsReviewed
<1>1. StudioInv => SavedAsReviewed
  BY DEF StudioInv, SavedAsReviewed
<1> QED BY <1>1, StudioInvAlways, PTL

-------------------------------------------------------------------------------
(* The copilot.                                                             *)

Inspector == {"InspectionTeam", "InspectionTeam worksFor BestAiCom"} \subseteq ontology

AiShape(h) == h = [kind |-> h.kind, at |-> h.at, of |-> h.of, live |-> h.live, id |-> h.id]

\* A handler past its check has found the role in the ontology.
AiInv ==
  /\ \A h \in aiCalls : AiShape(h) /\ (h.at = "send" => Inspector)
  /\ explained \in Nat
  /\ explained > 0 => Inspector

LEMMA AiKept ==
  ASSUME AiInv, UNCHANGED <<ontology, aiCalls, explained>>
  PROVE  AiInv'
  BY DEF AiInv, AiShape, Inspector

\* Handlers come and go while no explanation is asked for.
LEMMA AiHandlers ==
  ASSUME AiInv, UNCHANGED <<ontology, explained>>,
         \A h \in aiCalls' : h \in aiCalls \/ (AiShape(h) /\ (h.at = "send" => Inspector))
  PROVE  AiInv'
  BY DEF AiInv, AiShape, Inspector

\* A handler that goes on, or whose component is gone, keeps its shape.
LEMMA AiGoesOn ==
  ASSUME NEW h, AiShape(h), NEW x
  PROVE  /\ LET g == [h EXCEPT !.at = x] IN AiShape(g)
         /\ LET g == [h EXCEPT !.live = x] IN AiShape(g) /\ g.at = h.at
<1> DEFINE r == [kind |-> h.kind, at |-> h.at, of |-> h.of, live |-> h.live, id |-> h.id]
           f == [r EXCEPT !.at = x]
           g == [r EXCEPT !.live = x]
<1>1. h = r
  BY DEF AiShape
<1>2. f = [kind |-> h.kind, at |-> x, of |-> h.of, live |-> h.live, id |-> h.id]
  OBVIOUS
<1>3. AiShape(f)
  BY <1>2 DEF AiShape
<1>4. g = [kind |-> h.kind, at |-> h.at, of |-> h.of, live |-> x, id |-> h.id]
  OBVIOUS
<1>5. AiShape(g) /\ g.at = h.at
  BY <1>4 DEF AiShape
<1> QED BY <1>1, <1>3, <1>5

LEMMA AiStepped ==
  ASSUME AiInv, UNCHANGED ontology, Ai!AiStep
  PROVE  AiInv'
<1> PICK h \in aiCalls :
      Ai!AiConfirmed(h) \/ Ai!AiDeclined(h) \/ Ai!AiServed(h) \/ Ai!AiAnswered(h) \/ Ai!AiFailed(h)
  BY DEF Ai!AiStep
<1>0. AiShape(h)
  BY DEF AiInv
<1>1. CASE Ai!AiConfirmed(h)
  <2>1. Inspector
    BY <1>1 DEF Ai!AiConfirmed, Ai!PolicyHolds, Ai!PolicyOf, Ai!Policies, Inspector
  <2>2. AiShape([h EXCEPT !.at = "send"])
    BY <1>0, AiGoesOn
  <2> QED BY <1>1, <2>1, <2>2, AiHandlers DEF Ai!AiConfirmed
<1>2. CASE Ai!AiDeclined(h)
  BY <1>2, AiHandlers DEF Ai!AiDeclined, Ai!Finishes
<1>3. CASE Ai!AiServed(h)
  <2>1. Inspector /\ explained' \in Nat
    BY <1>3 DEF Ai!AiServed, AiInv
  <2>2. AiShape([h EXCEPT !.at = "sent"])
    BY <1>0, AiGoesOn
  <2>3. \A g \in aiCalls' : g \in aiCalls \/ AiShape(g)
    BY <1>3, <2>2 DEF Ai!AiServed
  <2> QED BY <2>1, <2>3 DEF AiInv, AiShape, Inspector
<1>4. CASE Ai!AiAnswered(h)
  BY <1>4, AiHandlers DEF Ai!AiAnswered, Ai!Finishes
<1>5. CASE Ai!AiFailed(h)
  BY <1>5, AiHandlers DEF Ai!AiFailed, Ai!Finishes
<1> QED BY <1>1, <1>2, <1>3, <1>4, <1>5

LEMMA AiAsked ==
  ASSUME AiInv, UNCHANGED ontology, Ai!Ask
  PROVE  AiInv'
<1>1. PICK g : /\ g = [kind |-> "ask", at |-> "check", of |-> {clicks'}, live |-> TRUE, id |-> clicks']
               /\ aiCalls' = aiCalls \cup {g}
  BY DEF Ai!Ask
<1>2. AiShape(g) /\ g.at = "check"
  BY <1>1 DEF AiShape
<1> QED BY <1>1, <1>2, AiHandlers DEF Ai!Ask

LEMMA AiShown ==
  ASSUME AiInv, NEW t, Show(t)
  PROVE  AiInv'
<1>1. CASE "ai" \in {tab, t}
  <2>1. Ai!ShowAi(t) /\ ontology' = ontology
    BY <1>1 DEF Show
  <2> DEFINE start == [kind |-> "explain", at |-> "check", of |-> context'.event, live |-> TRUE, id |-> clicks']
  <2>2. AiShape(start) /\ start.at = "check"
    BY DEF AiShape
  <2> HIDE DEF start
  <2>3. ASSUME NEW g \in aiCalls'
        PROVE  AiShape(g) /\ (g.at = "send" => Inspector)
    <3>1. CASE g = start
      BY <2>2, <3>1
    <3>2. CASE g # start
      <4>1. PICK h \in aiCalls : g = [h EXCEPT !.live = FALSE]
        BY <2>1, <3>2 DEF Ai!ShowAi, start
      <4>2. PICK b : b = FALSE
        OBVIOUS
      <4>3. AiShape([h EXCEPT !.live = b]) /\ [h EXCEPT !.live = b].at = h.at
        BY AiGoesOn DEF AiInv
      <4>4. AiShape(g) /\ g.at = h.at
        BY <4>1, <4>2, <4>3, Zenon
      <4> QED BY <4>4 DEF AiInv
    <3> QED BY <3>1, <3>2
  <2>4. explained' = explained
    BY <2>1 DEF Ai!ShowAi
  <2> QED BY <2>1, <2>3, <2>4, AiHandlers
<1>2. CASE "ai" \notin {tab, t}
  BY <1>2, AiKept DEF Show
<1> QED BY <1>1, <1>2

LEMMA AiInvInductive ==
  ASSUME AiInv, [Next]_vars
  PROVE  AiInv'
<1>1. ASSUME NEW t \in Tabs, OpenTab(t) PROVE AiInv'
  BY <1>1, AiShown DEF OpenTab
<1>2. ASSUME NEW e \in Events, ExplainEvent(e) PROVE AiInv'
  BY <1>2, AiShown DEF ExplainEvent
<1>3. CASE AiClick
  BY <1>3, AiAsked DEF AiClick
<1>4. CASE AiStep
  BY <1>4, AiStepped DEF AiStep, appVars
<1>5. CASE StudioClick \/ GraphClick \/ DeviceClick \/ PanelClick \/ Visibility
  BY <1>5, AiKept DEF StudioClick, GraphClick, DeviceClick, PanelClick, Visibility, aiVars
<1>6. CASE StudioStep \/ GraphStep \/ DashStep \/ PollStep \/ TimerUp \/ Deliver \/ PollGraph
  BY <1>6, AiKept DEF StudioStep, GraphStep, DashStep, PollStep, TimerUp, Deliver, PollGraph, aiVars, appVars
<1>7. CASE World
  BY <1>7, AiKept DEF World, aiVars, appVars
<1>8. CASE UNCHANGED vars
  BY <1>8, AiKept DEF vars, aiVars, appVars
<1> QED BY <1>1, <1>2, <1>3, <1>4, <1>5, <1>6, <1>7, <1>8 DEF Next

LEMMA AiInvAlways == Spec => []AiInv
<1>1. Init => AiInv
  <2> SUFFICES ASSUME Ai!InitAi PROVE AiInv
    BY DEF Init
  <2> QED BY DEF Ai!InitAi, AiInv
<1> QED BY <1>1, AiInvInductive, PTL DEF Spec

\* No rule is changed and no explanation asked for without the role in the
\* ontology, by handlers that outlive their tab too: for any bounds
\* (semantic-policy.ts, rule-studio.tsx, ask-ai.tsx).
THEOREM ActsInRole == Spec => []ActedInRole
<1>1. StudioInv /\ AiInv => ActedInRole
  BY DEF StudioInv, AiInv, ActedInRole, Engineer, Inspector
<1> QED BY <1>1, StudioInvAlways, AiInvAlways, PTL

-------------------------------------------------------------------------------
(* Proposals are kept apart.                                                 *)

\* The handlers that busy is to keep apart.
Drafts == {h \in studioCalls : h.live /\ h.kind \in {"propose", "approve"}}

Idle == studioBusy = ""

\* As many of them as rule buttons have let in, and one more while busy says so.
DraftsInv ==
  /\ \A h \in studioCalls : h.live \in BOOLEAN
  /\ \A h \in studioCalls : h.kind \in {"load", "propose", "approve", "toggle", "delete"}
  /\ cleared \in Nat
  /\ IsFiniteSet(Drafts)
  /\ Cardinality(Drafts) <= 1 + cleared
  /\ Idle => Cardinality(Drafts) <= cleared

\* A handler that goes on is of the kind it was, on a component that is or is not there.
LEMMA SameHandler ==
  ASSUME NEW h, Shape(h), NEW x
  PROVE  /\ [h EXCEPT !.at = x].kind = h.kind /\ [h EXCEPT !.at = x].live = h.live
         /\ [h EXCEPT !.saw = x].kind = h.kind /\ [h EXCEPT !.saw = x].live = h.live
         /\ [h EXCEPT !.live = x].kind = h.kind /\ [h EXCEPT !.live = x].live = x
<1> DEFINE r == [id |-> h.id, kind |-> h.kind, at |-> h.at, of |-> h.of,
                 to |-> h.to, saw |-> h.saw, live |-> h.live]
<1>1. h = r
  BY DEF Shape
<1>2. /\ [r EXCEPT !.at = x].kind = h.kind /\ [r EXCEPT !.at = x].live = h.live
      /\ [r EXCEPT !.saw = x].kind = h.kind /\ [r EXCEPT !.saw = x].live = h.live
      /\ [r EXCEPT !.live = x].kind = h.kind /\ [r EXCEPT !.live = x].live = x
  OBVIOUS
<1> QED BY <1>1, <1>2

LEMMA DraftsKept ==
  ASSUME DraftsInv, UNCHANGED <<studioCalls, studioBusy, cleared>>
  PROVE  DraftsInv'
  BY DEF DraftsInv, Drafts, Idle

LEMMA OneMore ==
  ASSUME NEW S, IsFiniteSet(S), NEW x, NEW n \in Nat, Cardinality(S) <= n
  PROVE  IsFiniteSet(S \cup {x}) /\ Cardinality(S \cup {x}) <= 1 + n
<1>1. Cardinality(S) \in Nat
  BY FS_CardinalityType
<1>2. /\ IsFiniteSet(S \cup {x})
      /\ Cardinality(S \cup {x}) = Cardinality(S) \/ Cardinality(S \cup {x}) = Cardinality(S) + 1
  BY FS_AddElement
<1> QED BY <1>1, <1>2

\* One handler starts: a draft only when busy is empty, and it fills it.
LEMMA DraftStarts ==
  ASSUME DraftsInv, NEW g,
         /\ g.live \in BOOLEAN /\ g.kind \in {"propose", "approve", "toggle", "delete"}
         /\ (g.kind \in {"propose", "approve"} => studioBusy = "")
         /\ studioBusy' # "" /\ cleared' = cleared,
         studioCalls' = studioCalls \cup {g}
  PROVE  DraftsInv'
<1>. ~Idle'
  BY DEF Idle
<1>1. \A h \in studioCalls' : h.live \in BOOLEAN /\ h.kind \in {"load", "propose", "approve", "toggle", "delete"}
  BY DEF DraftsInv
<1>0. IsFiniteSet(Drafts) /\ Cardinality(Drafts) \in Nat
  BY FS_CardinalityType DEF DraftsInv
<1>2. CASE g.live /\ g.kind \in {"propose", "approve"}
  <2>1. Drafts' = Drafts \cup {g}
    BY <1>2 DEF Drafts
  <2>2. Cardinality(Drafts) <= cleared /\ cleared \in Nat
    BY <1>2 DEF DraftsInv, Idle
  <2>5. IsFiniteSet(Drafts \cup {g}) /\ Cardinality(Drafts \cup {g}) <= 1 + cleared
    BY <1>0, <2>2, OneMore, Zenon
  <2>6. Cardinality(Drafts') <= 1 + cleared /\ IsFiniteSet(Drafts')
    BY <2>1, <2>5, Zenon
  <2> QED BY <1>1, <2>2, <2>6 DEF DraftsInv
<1>3. CASE ~(g.live /\ g.kind \in {"propose", "approve"})
  <2>1. Drafts' = Drafts
    BY <1>3 DEF Drafts
  <2> QED BY <1>1, <2>1 DEF DraftsInv
<1> QED BY <1>2, <1>3

\* A handler goes on as another of its kind, or ends without a component.
LEMMA DraftMoves ==
  ASSUME DraftsInv, NEW h \in studioCalls, NEW g, g.kind = h.kind, g.live = h.live,
         Studio!Moves(h, g), UNCHANGED <<studioBusy, cleared>>
  PROVE  DraftsInv'
<1>. Idle' <=> Idle
  BY DEF Idle
<1>1. studioCalls' \subseteq (studioCalls \ {h}) \cup {g} /\ studioCalls \ {h} \subseteq studioCalls'
  BY DEF Studio!Moves
<1>2. \A k \in studioCalls' : k.live \in BOOLEAN /\ k.kind \in {"load", "propose", "approve", "toggle", "delete"}
  BY <1>1 DEF DraftsInv
<1>3. IsFiniteSet(Drafts) /\ Cardinality(Drafts) \in Nat
  BY FS_CardinalityType DEF DraftsInv
<1>4. IsFiniteSet(Drafts') /\ Cardinality(Drafts') \in Nat /\ Cardinality(Drafts') <= Cardinality(Drafts)
  <2>1. CASE h \in Drafts
    <3>1. IsFiniteSet(Drafts \ {h}) /\ Cardinality(Drafts \ {h}) = Cardinality(Drafts) - 1
      BY <1>3, <2>1, FS_RemoveElement
    <3>2. /\ IsFiniteSet((Drafts \ {h}) \cup {g})
          /\ Cardinality((Drafts \ {h}) \cup {g}) <= Cardinality(Drafts)
      <4> DEFINE D == Drafts \ {h}
      <4>1. IsFiniteSet(D) /\ Cardinality(D) = Cardinality(Drafts) - 1
        BY <3>1
      <4> HIDE DEF D
      <4>2. /\ IsFiniteSet(D \cup {g})
            /\ Cardinality(D \cup {g}) = Cardinality(D) \/ Cardinality(D \cup {g}) = Cardinality(D) + 1
        BY <4>1, FS_AddElement
      <4> QED BY <1>3, <4>1, <4>2 DEF D
    <3>3. Drafts' \in SUBSET ((Drafts \ {h}) \cup {g})
      BY <1>1 DEF Drafts
    <3>4. IsFiniteSet(Drafts') /\ Cardinality(Drafts') <= Cardinality((Drafts \ {h}) \cup {g})
      BY <3>2, <3>3, FS_Subset
    <3> QED BY <1>3, <3>2, <3>4, FS_CardinalityType
  <2>2. CASE h \notin Drafts
    <3>1. Drafts' \in SUBSET Drafts
      BY <1>1, <2>2 DEF Drafts
    <3> QED BY <1>3, <3>1, FS_Subset, FS_CardinalityType
  <2> QED BY <2>1, <2>2
<1>5. cleared \in Nat /\ Cardinality(Drafts) <= 1 + cleared /\ (Idle => Cardinality(Drafts) <= cleared)
  BY DEF DraftsInv
<1>6. Cardinality(Drafts') <= 1 + cleared' /\ (Idle' => Cardinality(Drafts') <= cleared')
  BY <1>3, <1>4, <1>5
<1> QED BY <1>2, <1>4, <1>5, <1>6 DEF DraftsInv

\* A handler that ends empties busy, and is counted when it is of a rule button.
LEMMA DraftEnds ==
  ASSUME DraftsInv, NEW h \in studioCalls, Studio!Ends(h)
  PROVE  DraftsInv'
<1>1. /\ studioCalls' = studioCalls \ {h}
      /\ studioBusy' = IF h.live /\ h.kind # "load" THEN "" ELSE studioBusy
      /\ cleared' = cleared + IF h.live /\ h.kind \in {"toggle", "delete"} THEN 1 ELSE 0
  BY Zenon DEF Studio!Ends
<1>2. \A k \in studioCalls' : k.live \in BOOLEAN /\ k.kind \in {"load", "propose", "approve", "toggle", "delete"}
  BY <1>1 DEF DraftsInv
<1>3. IsFiniteSet(Drafts) /\ Cardinality(Drafts) \in Nat
  BY FS_CardinalityType DEF DraftsInv
<1>4. cleared \in Nat /\ Cardinality(Drafts) <= 1 + cleared /\ (Idle => Cardinality(Drafts) <= cleared)
  BY DEF DraftsInv
<1>5. CASE h \in Drafts
  <2>1. Drafts' = Drafts \ {h}
    BY <1>1 DEF Drafts
  <2>2. IsFiniteSet(Drafts') /\ Cardinality(Drafts') = Cardinality(Drafts) - 1
    BY <1>3, <1>5, <2>1, FS_RemoveElement
  <2>3. cleared' = cleared + 0
    BY <1>1, <1>5 DEF Drafts
  <2>4. cleared' = cleared
    BY <1>4, <2>3
  <2>5. Cardinality(Drafts') <= cleared'
    BY <1>3, <1>4, <2>2, <2>4
  <2> QED BY <1>2, <1>3, <1>4, <2>2, <2>4, <2>5 DEF DraftsInv
<1>6. CASE h.live /\ h.kind \in {"toggle", "delete"}
  <2>1. Drafts' = Drafts
    BY <1>1, <1>6 DEF Drafts
  <2>2. cleared' = cleared + 1
    BY <1>1, <1>6
  <2>3. Cardinality(Drafts') <= cleared'
    BY <1>3, <1>4, <2>1, <2>2
  <2> QED BY <1>2, <1>3, <1>4, <2>1, <2>2, <2>3 DEF DraftsInv
<1>7. CASE ~h.live \/ h.kind = "load"
  <2>1. Drafts' = Drafts
    BY <1>1, <1>7 DEF Drafts
  <2>2. cleared' = cleared + 0
    BY <1>1, <1>7
  <2>3. cleared' = cleared
    BY <1>4, <2>2
  <2>4. Idle' <=> Idle
    BY <1>1, <1>7 DEF Idle
  <2> QED BY <1>2, <2>1, <2>3, <2>4 DEF DraftsInv
<1> QED BY <1>5, <1>6, <1>7 DEF Drafts, DraftsInv

LEMMA DraftsClicked ==
  ASSUME DraftsInv, Studio!StudioClick
  PROVE  DraftsInv'
<1>1. CASE Studio!Propose
  <2>1. PICK g : /\ g = Studio!Handler("propose", "send", 0, "")
                 /\ studioCalls' = studioCalls \cup {g}
    BY <1>1 DEF Studio!Propose
  <2>2. g.live = TRUE /\ g.kind = "propose"
    BY <2>1 DEF Studio!Handler
  <2>3. studioBusy = "" /\ studioBusy' = "propose" /\ cleared' = cleared
    BY <1>1 DEF Studio!Propose
  <2>4. /\ g.live \in BOOLEAN /\ g.kind \in {"propose", "approve", "toggle", "delete"}
        /\ (g.kind \in {"propose", "approve"} => studioBusy = "")
        /\ studioBusy' # "" /\ cleared' = cleared
    BY <2>2, <2>3
  <2> QED BY <2>1, <2>4, DraftStarts, Zenon
<1>2. CASE Studio!Approve
  <2>1. PICK g : /\ g = Studio!Handler("approve", "check", proposal, "on")
                 /\ studioCalls' = studioCalls \cup {g}
    BY <1>2 DEF Studio!Approve
  <2>2. g.live = TRUE /\ g.kind = "approve"
    BY <2>1 DEF Studio!Handler
  <2>3. studioBusy = "" /\ studioBusy' = "approve" /\ cleared' = cleared
    BY <1>2 DEF Studio!Approve
  <2>4. /\ g.live \in BOOLEAN /\ g.kind \in {"propose", "approve", "toggle", "delete"}
        /\ (g.kind \in {"propose", "approve"} => studioBusy = "")
        /\ studioBusy' # "" /\ cleared' = cleared
    BY <2>2, <2>3
  <2> QED BY <2>1, <2>4, DraftStarts, Zenon
<1>3. CASE Studio!Discard
  BY <1>3, DraftsKept DEF Studio!Discard
<1>4. ASSUME NEW r \in Rules, NEW action \in {"toggle", "delete"}, Studio!MutateRule(r, action)
      PROVE  DraftsInv'
  <2>1. PICK t, g : /\ g = Studio!Handler(action, "check", r, t)
                    /\ studioCalls' = studioCalls \cup {g}
    BY <1>4 DEF Studio!MutateRule
  <2>2. g.live = TRUE /\ g.kind = action
    BY <2>1 DEF Studio!Handler
  <2>3. studioBusy' # "" /\ cleared' = cleared
    BY <1>4, ConstantsAssumption DEF Studio!MutateRule, ConstantsAssumption
  <2>4. /\ g.live \in BOOLEAN /\ g.kind \in {"propose", "approve", "toggle", "delete"}
        /\ (g.kind \in {"propose", "approve"} => studioBusy = "")
        /\ studioBusy' # "" /\ cleared' = cleared
    BY <2>2, <2>3
  <2> QED BY <2>1, <2>4, DraftStarts, Zenon
<1> QED BY <1>1, <1>2, <1>3, <1>4 DEF Studio!StudioClick

LEMMA DraftsStepped ==
  ASSUME StudioInv, DraftsInv, Studio!StudioStep
  PROVE  DraftsInv'
<1> PICK h \in studioCalls :
      \/ Studio!Confirmed(h) \/ Studio!Declined(h) \/ Studio!Proposed(h) \/ Studio!Saved(h) \/ Studio!Changed(h)
      \/ Studio!Failed(h) \/ Studio!Answered(h) \/ Studio!ListRead(h) \/ Studio!Listed(h)
  BY DEF Studio!StudioStep
<1>0. Shape(h)
  BY DEF StudioInv, Lawful
<1>1. ASSUME NEW x, Studio!Moves(h, [h EXCEPT !.at = x]), UNCHANGED <<studioBusy, cleared>>
      PROVE  DraftsInv'
  <2>1. PICK g : g = [h EXCEPT !.at = x]
    OBVIOUS
  <2>2. g.kind = h.kind /\ g.live = h.live
    BY <1>0, <2>1, SameHandler
  <2> QED BY <1>1, <2>1, <2>2, DraftMoves
<1>2. CASE Studio!Confirmed(h) \/ Studio!Saved(h) \/ Studio!Changed(h) \/ Studio!Answered(h)
  BY <1>1, <1>2 DEF Studio!Confirmed, Studio!Saved, Studio!Changed, Studio!Answered
<1>3. CASE Studio!Declined(h) \/ Studio!Proposed(h) \/ Studio!Failed(h) \/ Studio!Listed(h)
  BY <1>3, DraftEnds DEF Studio!Declined, Studio!Proposed, Studio!Failed, Studio!Listed
<1>4. CASE Studio!ListRead(h)
  <2>1. PICK b, f, g : b = book /\ f = [h EXCEPT !.at = "listed"] /\ g = [f EXCEPT !.saw = b]
    OBVIOUS
  <2>2. Shape(f) /\ f.kind = h.kind /\ f.live = h.live
    BY <1>0, <2>1, GoesOn, SameHandler
  <2>3. g.kind = h.kind /\ g.live = h.live
    BY <2>1, <2>2, SameHandler
  <2>4. Studio!Moves(h, g) /\ UNCHANGED <<studioBusy, cleared>>
    BY <1>4, <2>1 DEF Studio!ListRead
  <2> QED BY <2>3, <2>4, DraftMoves
<1> QED BY <1>2, <1>3, <1>4

\* Leaving the tab leaves no handler a component to disable.
LEMMA DraftsShown ==
  ASSUME StudioInv, DraftsInv, NEW t, Show(t)
  PROVE  DraftsInv'
<1>1. CASE "rules" \in {tab, t}
  <2>1. Studio!ShowStudio(t)
    BY <1>1 DEF Show
  <2>2. ASSUME NEW g \in studioCalls'
        PROVE  /\ g.live \in BOOLEAN /\ g.kind \in {"load", "propose", "approve", "toggle", "delete"}
               /\ ~g.live \/ g.kind = "load"
    <3>1. CASE g = Studio!Load
      BY <3>1 DEF Studio!Load
    <3>2. CASE g # Studio!Load
      <4>1. PICK h \in studioCalls : g = [h EXCEPT !.live = FALSE]
        BY <2>1, <3>2 DEF Studio!ShowStudio
      <4>2. Shape(h)
        BY DEF StudioInv, Lawful
      <4>3. PICK b : b = FALSE
        OBVIOUS
      <4>4. [h EXCEPT !.live = b].kind = h.kind /\ [h EXCEPT !.live = b].live = b
        BY <4>2, SameHandler
      <4>5. g.kind = h.kind /\ g.live = FALSE
        BY <4>1, <4>3, <4>4, Zenon
      <4> QED BY <4>5 DEF DraftsInv
    <3> QED BY <3>1, <3>2
  <2>3. Drafts' = {}
    BY <2>2 DEF Drafts
  <2>4. cleared' = 0
    BY <2>1 DEF Studio!ShowStudio
  <2>5. IsFiniteSet(Drafts') /\ Cardinality(Drafts') = 0
    BY <2>3, FS_EmptySet
  <2> QED BY <2>2, <2>4, <2>5 DEF DraftsInv
<1>2. CASE "rules" \notin {tab, t}
  BY <1>2, DraftsKept DEF Show, studioVars
<1> QED BY <1>1, <1>2

LEMMA DraftsInvInductive ==
  ASSUME StudioInv, DraftsInv, [Next]_vars
  PROVE  DraftsInv'
<1>1. ASSUME NEW t \in Tabs, OpenTab(t) PROVE DraftsInv'
  BY <1>1, DraftsShown DEF OpenTab
<1>2. ASSUME NEW e \in Events, ExplainEvent(e) PROVE DraftsInv'
  BY <1>2, DraftsShown DEF ExplainEvent
<1>3. CASE StudioClick
  BY <1>3, DraftsClicked DEF StudioClick
<1>4. CASE StudioStep
  BY <1>4, DraftsStepped DEF StudioStep
<1>5. CASE AiClick \/ GraphClick \/ DeviceClick \/ PanelClick \/ Visibility
  BY <1>5, DraftsKept DEF AiClick, GraphClick, DeviceClick, PanelClick, Visibility, studioVars
<1>6. CASE AiStep \/ GraphStep \/ DashStep \/ PollStep \/ TimerUp \/ Deliver \/ PollGraph
  BY <1>6, DraftsKept DEF AiStep, GraphStep, DashStep, PollStep, TimerUp, Deliver, PollGraph, studioVars
<1>7. CASE World
  BY <1>7, DraftsKept DEF World, studioVars
<1>8. CASE UNCHANGED vars
  BY <1>8, DraftsKept DEF vars, studioVars
<1> QED BY <1>1, <1>2, <1>3, <1>4, <1>5, <1>6, <1>7, <1>8 DEF Next

\* At most one handler of Propose or Approve runs, and one more for each rule
\* button that has emptied busy under it: for any rules, clicks and interleaving
\* of the handlers (rule-studio.tsx).
THEOREM ProposalsKeptApart == Spec => []ProposalsExclusive
<1>1. Init => DraftsInv
  <2> SUFFICES ASSUME Studio!InitStudio PROVE DraftsInv
    BY DEF Init
  <2>1. studioCalls = {} /\ cleared = 0
    BY Zenon DEF Studio!InitStudio
  <2>2. Drafts = {}
    BY <2>1 DEF Drafts
  <2>3. IsFiniteSet(Drafts) /\ Cardinality(Drafts) = 0
    BY <2>2, FS_EmptySet
  <2> QED BY <2>1, <2>3 DEF DraftsInv
<1>2. StudioInv /\ DraftsInv /\ [Next]_vars => DraftsInv'
  BY DraftsInvInductive
<1>3. DraftsInv => ProposalsExclusive
  <2>1. Studio!Cardinality(Drafts) = Cardinality(Drafts)
    BY Zenon DEF Studio!Cardinality, Cardinality
  <2> QED BY <2>1, Zenon DEF DraftsInv, Drafts, ProposalsExclusive, Studio!ProposalsExclusive
<1> QED BY <1>1, <1>2, <1>3, StudioInvAlways, PTL DEF Spec

-------------------------------------------------------------------------------
(* The types of the client, and the flags of its buttons.                   *)

\* A handler of the studio that goes on, or whose component is gone, is still one.
LEMMA StudioGoesOn ==
  ASSUME NEW h \in Studio!Handlers
  PROVE  /\ \A x \in Studio!Awaits : LET g == [h EXCEPT !.at = x] IN
              g \in Studio!Handlers /\ g.kind = h.kind /\ g.live = h.live
         /\ \A x \in Studio!Awaits, s \in [Rules -> Studio!RuleStates] : LET g == [h EXCEPT !.at = x, !.saw = s] IN
              g \in Studio!Handlers /\ g.kind = h.kind /\ g.live = h.live
         /\ \A b \in BOOLEAN : [h EXCEPT !.live = b] \in Studio!Handlers
  BY DEF Studio!Handlers

LEMMA StudioStarts ==
  ASSUME clicks' \in 0..MaxClicks, MaxClicks \in Nat
  PROVE  /\ Studio!Handler("propose", "send", 0, "") \in Studio!Handlers
         /\ \A p \in 1..MaxClicks : Studio!Handler("approve", "check", p, "on") \in Studio!Handlers
         /\ \A r \in Rules, k \in {"toggle", "delete"}, s \in Studio!RuleStates :
              Studio!Handler(k, "check", r, s) \in Studio!Handlers
         /\ Studio!Load \in Studio!Handlers
<1>1. Studio!NoRules \in [Rules -> Studio!RuleStates]
  BY DEF Studio!NoRules, Studio!RuleStates
<1> QED BY <1>1 DEF Studio!Handler, Studio!Load, Studio!Handlers, Studio!Awaits, Studio!RuleStates

StudioOK == Studio!StudioTypeOK /\ Studio!BusyIsHeld

LEMMA StudioSame ==
  ASSUME StudioOK, UNCHANGED studioVars
  PROVE  StudioOK'
  BY DEF StudioOK, Studio!StudioTypeOK, Studio!BusyIsHeld, studioVars

LEMMA StudioClickTyped ==
  ASSUME StudioOK, clicks' \in 0..MaxClicks, MaxClicks \in Nat, Studio!StudioClick
  PROVE  StudioOK'
<1>0. Studio!StudioTypeOK /\ Studio!BusyIsHeld
  BY DEF StudioOK
<1>1. CASE Studio!Propose
  <2> DEFINE g == Studio!Handler("propose", "send", 0, "")
  <2>1. g \in Studio!Handlers /\ g.live /\ g.kind = "propose"
    BY StudioStarts DEF Studio!Handler
  <2> HIDE DEF g
  <2>2. studioCalls' = studioCalls \cup {g} /\ proposal' = 0 /\ studioBusy' = "propose"
        /\ UNCHANGED <<list, book, reviewed, posted, cleared>>
    BY <1>1 DEF Studio!Propose, g
  <2>3. 0 \in 0..MaxClicks
    OBVIOUS
  <2> QED BY <1>0, <2>1, <2>2, <2>3 DEF StudioOK, Studio!StudioTypeOK, Studio!BusyIsHeld
<1>2. CASE Studio!Approve
  <2> DEFINE g == Studio!Handler("approve", "check", proposal, "on")
  <2>0. proposal \in 1..MaxClicks
    <3>1. proposal \in 0..MaxClicks /\ proposal # 0
      BY <1>0, <1>2 DEF Studio!Approve, Studio!StudioTypeOK
    <3> QED BY <3>1
  <2>1. g \in Studio!Handlers /\ g.live /\ g.kind = "approve"
    BY <2>0, StudioStarts DEF Studio!Handler
  <2> HIDE DEF g
  <2>2. studioCalls' = studioCalls \cup {g} /\ studioBusy' = "approve" /\ reviewed' = reviewed \cup {proposal}
        /\ UNCHANGED <<proposal, list, book, posted, cleared>>
    BY <1>2 DEF Studio!Approve, g
  <2> QED BY <1>0, <2>0, <2>1, <2>2 DEF StudioOK, Studio!StudioTypeOK, Studio!BusyIsHeld
<1>3. CASE Studio!Discard
  <2>1. 0 \in 0..MaxClicks
    OBVIOUS
  <2> QED BY <1>0, <1>3, <2>1 DEF Studio!Discard, StudioOK, Studio!StudioTypeOK, Studio!BusyIsHeld
<1>4. ASSUME NEW r \in Rules, NEW action \in {"toggle", "delete"}, Studio!MutateRule(r, action)
      PROVE  StudioOK'
  <2> DEFINE s == IF action = "delete" THEN "absent" ELSE IF list[r] = "on" THEN "off" ELSE "on"
             g == Studio!Handler(action, "check", r, s)
  <2>0. s \in Studio!RuleStates
    BY DEF Studio!RuleStates
  <2>1. g \in Studio!Handlers /\ g.live /\ g.kind = action
    <3> HIDE DEF s
    <3> QED BY <2>0, StudioStarts DEF Studio!Handler
  <2>2. studioCalls' = studioCalls \cup {g} /\ studioBusy' = r
        /\ UNCHANGED <<proposal, list, book, reviewed, posted, cleared>>
    BY <1>4 DEF Studio!MutateRule
  <2> HIDE DEF g
  <2> QED BY <1>0, <2>1, <2>2 DEF StudioOK, Studio!StudioTypeOK, Studio!BusyIsHeld
<1> QED BY <1>1, <1>2, <1>3, <1>4 DEF Studio!StudioClick

\* A handler moves on: the others are as they were.
LEMMA StudioMoves ==
  ASSUME StudioOK, NEW h \in studioCalls, NEW g \in Studio!Handlers, g.kind = h.kind, g.live = h.live,
         Studio!Moves(h, g), studioBusy' = studioBusy
  PROVE  studioCalls' \subseteq Studio!Handlers /\ Studio!BusyIsHeld'
<1>1. studioCalls \subseteq Studio!Handlers /\ Studio!BusyIsHeld /\ h.live \in BOOLEAN
  BY DEF StudioOK, Studio!StudioTypeOK, Studio!Handlers
<1>2. studioCalls' \subseteq Studio!Handlers
  BY <1>1 DEF Studio!Moves
<1>3. h.live => g \in studioCalls'
  BY DEF Studio!Moves
<1>4. \A k \in studioCalls : k # h => k \in studioCalls'
  BY DEF Studio!Moves
<1> QED BY <1>1, <1>2, <1>3, <1>4 DEF Studio!BusyIsHeld

\* A handler ends: if it was the one that held busy, it has emptied it.
LEMMA StudioEnds ==
  ASSUME StudioOK, NEW h \in studioCalls, Studio!Ends(h)
  PROVE  /\ studioCalls' \subseteq Studio!Handlers /\ Studio!BusyIsHeld'
         /\ cleared' \in Nat /\ studioBusy' \in {"", studioBusy}
<1>1. studioCalls \subseteq Studio!Handlers /\ Studio!BusyIsHeld /\ cleared \in Nat
  BY DEF StudioOK, Studio!StudioTypeOK
<1>2. cleared' \in Nat
  <2>1. cleared' = cleared + 1 \/ cleared' = cleared + 0
    BY DEF Studio!Ends
  <2> QED BY <1>1, <2>1
<1>3. Studio!BusyIsHeld'
  BY <1>1 DEF Studio!Ends, Studio!BusyIsHeld
<1> QED BY <1>1, <1>2, <1>3 DEF Studio!Ends

LEMMA StudioStepTyped ==
  ASSUME StudioOK, MaxClicks \in Nat, Studio!StudioStep
  PROVE  StudioOK'
<1> PICK h \in studioCalls :
      \/ Studio!Confirmed(h) \/ Studio!Declined(h) \/ Studio!Proposed(h) \/ Studio!Saved(h) \/ Studio!Changed(h)
      \/ Studio!Failed(h) \/ Studio!Answered(h) \/ Studio!ListRead(h) \/ Studio!Listed(h)
  BY DEF Studio!StudioStep
<1>0. Studio!StudioTypeOK /\ h \in Studio!Handlers
  BY DEF StudioOK, Studio!StudioTypeOK
<1>a. ASSUME NEW x \in Studio!Awaits
      PROVE  LET g == [h EXCEPT !.at = x] IN g \in Studio!Handlers /\ g.kind = h.kind /\ g.live = h.live
  BY <1>0, StudioGoesOn
<1>b. {"send", "sent", "list", "listed"} \subseteq Studio!Awaits
  BY DEF Studio!Awaits
<1>1. CASE Studio!Confirmed(h)
  <2>1. Studio!Moves(h, [h EXCEPT !.at = "send"]) /\ UNCHANGED <<proposal, studioBusy, list, book, reviewed, posted, cleared>>
    BY <1>1 DEF Studio!Confirmed
  <2>2. studioCalls' \subseteq Studio!Handlers /\ Studio!BusyIsHeld'
    BY <1>a, <1>b, <2>1, StudioMoves
  <2> QED BY <1>0, <2>1, <2>2 DEF StudioOK, Studio!StudioTypeOK
<1>2. CASE Studio!Declined(h) \/ Studio!Failed(h)
  BY <1>0, <1>2, StudioEnds DEF Studio!Declined, Studio!Failed, StudioOK, Studio!StudioTypeOK
<1>3. CASE Studio!Proposed(h)
  <2>1. proposal' \in 0..MaxClicks
    BY <1>0, <1>3 DEF Studio!Proposed, Studio!Handlers
  <2> QED BY <1>0, <1>3, <2>1, StudioEnds DEF Studio!Proposed, StudioOK, Studio!StudioTypeOK
<1>4. CASE Studio!Saved(h)
  <2>1. Studio!Moves(h, [h EXCEPT !.at = "sent"]) /\ UNCHANGED <<proposal, studioBusy, list, reviewed, cleared>>
    BY <1>4 DEF Studio!Saved
  <2>2. studioCalls' \subseteq Studio!Handlers /\ Studio!BusyIsHeld'
    BY <1>a, <1>b, <2>1, StudioMoves
  <2>3. h.id \in 0..MaxClicks /\ h.of \in 1..MaxClicks /\ h.to \in Studio!RuleStates
    BY <1>0, <1>4 DEF Studio!Saved, Studio!Handlers, Studio!RuleStates
  <2>4. posted' \subseteq (0..MaxClicks) \X (1..MaxClicks)
    <3>1. posted' = posted \cup {<<h.id, h.of>>}
      BY <1>4 DEF Studio!Saved, Studio!Body
    <3>2. <<h.id, h.of>> \in (0..MaxClicks) \X (1..MaxClicks)
      BY <2>3
    <3> QED BY <1>0, <3>1, <3>2 DEF Studio!StudioTypeOK
  <2>5. book' \in [Rules -> Studio!RuleStates]
    BY <1>0, <1>4, <2>3 DEF Studio!Saved, Studio!StudioTypeOK
  <2> QED BY <1>0, <2>1, <2>2, <2>4, <2>5 DEF StudioOK, Studio!StudioTypeOK
<1>5. CASE Studio!Changed(h)
  <2>1. Studio!Moves(h, [h EXCEPT !.at = "sent"]) /\ UNCHANGED <<proposal, studioBusy, list, reviewed, posted, cleared>>
    BY <1>5 DEF Studio!Changed
  <2>2. studioCalls' \subseteq Studio!Handlers /\ Studio!BusyIsHeld'
    BY <1>a, <1>b, <2>1, StudioMoves
  <2>3. h.to \in Studio!RuleStates
    BY <1>0, <1>5 DEF Studio!Changed, Studio!Handlers, Studio!RuleStates
  <2>5. book' \in [Rules -> Studio!RuleStates]
    BY <1>0, <1>5, <2>3 DEF Studio!Changed, Studio!StudioTypeOK
  <2> QED BY <1>0, <2>1, <2>2, <2>5 DEF StudioOK, Studio!StudioTypeOK
<1>6. CASE Studio!Answered(h)
  <2>1. Studio!Moves(h, [h EXCEPT !.at = "list"]) /\ UNCHANGED <<studioBusy, list, book, reviewed, posted, cleared>>
        /\ proposal' \in {0, proposal}
    BY <1>6 DEF Studio!Answered
  <2>2. studioCalls' \subseteq Studio!Handlers /\ Studio!BusyIsHeld'
    BY <1>a, <1>b, <2>1, StudioMoves
  <2>3. 0 \in 0..MaxClicks
    OBVIOUS
  <2> QED BY <1>0, <2>1, <2>2, <2>3 DEF StudioOK, Studio!StudioTypeOK
<1>7. CASE Studio!ListRead(h)
  <2>1. Studio!Moves(h, [h EXCEPT !.at = "listed", !.saw = book])
        /\ UNCHANGED <<proposal, studioBusy, list, book, reviewed, posted, cleared>>
    BY <1>7 DEF Studio!ListRead
  <2>0. book \in [Rules -> Studio!RuleStates]
    BY <1>0 DEF Studio!StudioTypeOK
  <2> DEFINE g == [h EXCEPT !.at = "listed", !.saw = book]
  <2>3. g \in Studio!Handlers /\ g.kind = h.kind /\ g.live = h.live
    BY <1>0, <1>b, <2>0, StudioGoesOn
  <2> HIDE DEF g
  <2>2. studioCalls' \subseteq Studio!Handlers /\ Studio!BusyIsHeld'
    BY <2>1, <2>3, StudioMoves DEF g
  <2> QED BY <1>0, <2>1, <2>2 DEF StudioOK, Studio!StudioTypeOK
<1>8. CASE Studio!Listed(h)
  <2>1. h.saw \in [Rules -> Studio!RuleStates]
    BY <1>0 DEF Studio!Handlers
  <2> QED BY <1>0, <1>8, <2>1, StudioEnds DEF Studio!Listed, StudioOK, Studio!StudioTypeOK
<1> QED BY <1>1, <1>2, <1>3, <1>4, <1>5, <1>6, <1>7, <1>8

LEMMA StudioShownTyped ==
  ASSUME StudioOK, NEW t, Show(t), clicks' \in 0..MaxClicks, MaxClicks \in Nat
  PROVE  StudioOK'
<1>1. CASE "rules" \in {tab, t}
  <2>1. Studio!ShowStudio(t)
    BY <1>1 DEF Show
  <2>2. ASSUME NEW g \in studioCalls' PROVE g \in Studio!Handlers
    <3>1. CASE g = Studio!Load
      BY <3>1, StudioStarts
    <3>2. CASE g # Studio!Load
      <4>1. PICK h \in studioCalls : g = [h EXCEPT !.live = FALSE]
        BY <2>1, <3>2 DEF Studio!ShowStudio
      <4> QED BY <4>1, StudioGoesOn DEF StudioOK, Studio!StudioTypeOK
    <3> QED BY <3>1, <3>2
  <2>3. list' \in [Rules -> Studio!RuleStates]
    BY <2>1 DEF Studio!ShowStudio, Studio!NoRules, Studio!RuleStates
  <2>4. proposal' = 0 /\ studioBusy' = "" /\ cleared' = 0 /\ UNCHANGED <<book, reviewed, posted>>
    BY <2>1 DEF Studio!ShowStudio
  <2>5. 0 \in 0..MaxClicks /\ 0 \in Nat
    OBVIOUS
  <2> QED BY <2>2, <2>3, <2>4, <2>5 DEF StudioOK, Studio!StudioTypeOK, Studio!BusyIsHeld
<1>2. CASE "rules" \notin {tab, t}
  BY <1>2, StudioSame DEF Show
<1> QED BY <1>1, <1>2

AiOK == Ai!AiTypeOK /\ Ai!LoadingIsHeld

\* The handlers of the copilot, by what they captured.
AiCallsOf(kind, of) ==
  [kind : {kind}, at : {"check", "send", "sent"}, of : SUBSET of, live : BOOLEAN, id : 0..MaxClicks]
AiAny == AiCallsOf("explain", Events) \cup AiCallsOf("ask", 0..MaxClicks)

LEMMA AiTypes ==
  Ai!AiTypeOK <=> /\ context \in [event : SUBSET Events, requestedAt : Nat]
                  /\ loading \subseteq {"explain", "ask"}
                  /\ result \in [explain : SUBSET Events, ask : SUBSET (0..MaxClicks)]
                  /\ aiCalls \subseteq AiAny
                  /\ explained \in Nat
  BY DEF Ai!AiTypeOK, AiAny, AiCallsOf

LEMMA AiSame ==
  ASSUME AiOK, UNCHANGED aiVars
  PROVE  AiOK'
  BY DEF AiOK, Ai!AiTypeOK, Ai!LoadingIsHeld, aiVars

LEMMA AiGoesOnTyped ==
  ASSUME NEW h \in AiAny
  PROVE  /\ \A x \in {"check", "send", "sent"} : LET g == [h EXCEPT !.at = x] IN
              g \in AiAny /\ g.kind = h.kind /\ g.live = h.live
         /\ \A b \in BOOLEAN : [h EXCEPT !.live = b] \in AiAny
  BY DEF AiAny, AiCallsOf

LEMMA AiAskTyped ==
  ASSUME AiOK, clicks' \in 0..MaxClicks, MaxClicks \in Nat, Ai!Ask
  PROVE  AiOK'
<1> DEFINE g == [kind |-> "ask", at |-> "check", of |-> {clicks'}, live |-> TRUE, id |-> clicks']
<1>1. g \in AiAny /\ g.live /\ g.kind = "ask"
  BY DEF AiAny, AiCallsOf
<1>2. /\ aiCalls' = aiCalls \cup {g} /\ loading' = loading \cup {"ask"}
      /\ result' = [result EXCEPT !.ask = {}] /\ UNCHANGED <<context, explained>>
  BY DEF Ai!Ask
<1> HIDE DEF g
<1>3. Ai!AiTypeOK /\ Ai!LoadingIsHeld
  BY DEF AiOK
<1>4. result' \in [explain : SUBSET Events, ask : SUBSET (0..MaxClicks)]
  BY <1>2, <1>3, AiTypes
<1>5. Ai!AiTypeOK'
  BY <1>1, <1>2, <1>3, <1>4 DEF Ai!AiTypeOK, AiAny, AiCallsOf
<1>6. Ai!LoadingIsHeld'
  BY <1>1, <1>2, <1>3 DEF Ai!LoadingIsHeld
<1> QED BY <1>5, <1>6 DEF AiOK

\* A handler ends, and with it what the tab waits for it.
LEMMA AiFinishes ==
  ASSUME AiOK, NEW h \in aiCalls, NEW shown, Ai!Finishes(h, shown),
         h.kind = "explain" => shown \in SUBSET Events, h.kind = "ask" => shown \in SUBSET (0..MaxClicks),
         UNCHANGED <<context, explained>>
  PROVE  AiOK'
<1>1. Ai!AiTypeOK /\ Ai!LoadingIsHeld /\ h \in AiAny
  BY AiTypes DEF AiOK
<1>2. h.kind \in {"explain", "ask"}
  BY <1>1 DEF AiAny, AiCallsOf
<1>3. result' \in [explain : SUBSET Events, ask : SUBSET (0..MaxClicks)]
  BY <1>1, <1>2, AiTypes DEF Ai!Finishes
<1>4. aiCalls' = aiCalls \ {h} /\ loading' \subseteq loading /\ (h.live => h.kind \notin loading')
  BY DEF Ai!Finishes
<1>5. Ai!AiTypeOK'
  BY <1>1, <1>3, <1>4 DEF Ai!AiTypeOK
<1>6. Ai!LoadingIsHeld'
  BY <1>1, <1>4 DEF Ai!LoadingIsHeld
<1> QED BY <1>5, <1>6 DEF AiOK

\* A handler goes on: the others are as they were.
LEMMA AiMoves ==
  ASSUME AiOK, NEW h \in aiCalls, NEW x \in {"send", "sent"}, UNCHANGED <<context, loading, result>>,
         explained' \in Nat, aiCalls' = (aiCalls \ {h}) \cup (IF h.live \/ x = "send" THEN {[h EXCEPT !.at = x]} ELSE {})
  PROVE  AiOK'
<1> DEFINE g == [h EXCEPT !.at = x]
<1>1. Ai!AiTypeOK /\ Ai!LoadingIsHeld /\ h \in AiAny
  BY AiTypes DEF AiOK
<1>2. g \in AiAny /\ g.kind = h.kind /\ g.live = h.live
  BY <1>1, AiGoesOnTyped
<1>3. aiCalls' \subseteq aiCalls \cup {g} /\ (h.live => g \in aiCalls') /\ \A k \in aiCalls : k # h => k \in aiCalls'
  OBVIOUS
<1> HIDE DEF g
<1>4. aiCalls' \subseteq AiAny
  BY <1>1, <1>2, <1>3, AiTypes
<1>5. Ai!AiTypeOK'
  BY <1>1, <1>4 DEF Ai!AiTypeOK, AiAny, AiCallsOf
<1>6. Ai!LoadingIsHeld'
  BY <1>1, <1>2, <1>3 DEF Ai!LoadingIsHeld
<1> QED BY <1>5, <1>6 DEF AiOK

LEMMA AiStepTyped ==
  ASSUME AiOK, Ai!AiStep
  PROVE  AiOK'
<1> PICK h \in aiCalls :
      Ai!AiConfirmed(h) \/ Ai!AiDeclined(h) \/ Ai!AiServed(h) \/ Ai!AiAnswered(h) \/ Ai!AiFailed(h)
  BY DEF Ai!AiStep
<1>0. Ai!AiTypeOK /\ h \in AiAny /\ explained \in Nat
  BY AiTypes DEF AiOK
<1>1. CASE Ai!AiConfirmed(h)
  BY <1>0, <1>1, AiMoves DEF Ai!AiConfirmed
<1>2. CASE Ai!AiDeclined(h)
  <2>1. (h.kind = "explain" => result[h.kind] \in SUBSET Events) /\ (h.kind = "ask" => result[h.kind] \in SUBSET (0..MaxClicks))
    BY <1>0, AiTypes
  <2> QED BY <1>2, <2>1, AiFinishes DEF Ai!AiDeclined
<1>3. CASE Ai!AiServed(h)
  <2>1. explained' = explained + 1 \/ explained' = explained + 0
    BY <1>3 DEF Ai!AiServed
  <2>2. explained' \in Nat
    BY <1>0, <2>1
  <2>3. aiCalls' = (aiCalls \ {h}) \cup (IF h.live THEN {[h EXCEPT !.at = "sent"]} ELSE {})
        /\ UNCHANGED <<context, loading, result>>
    BY <1>3 DEF Ai!AiServed
  <2> QED BY <2>2, <2>3, AiMoves
<1>4. CASE Ai!AiAnswered(h)
  <2>1. (h.kind = "explain" => h.of \in SUBSET Events) /\ (h.kind = "ask" => h.of \in SUBSET (0..MaxClicks))
    BY <1>0 DEF AiAny, AiCallsOf
  <2> QED BY <1>4, <2>1, AiFinishes DEF Ai!AiAnswered
<1>5. CASE Ai!AiFailed(h)
  BY <1>5, AiFinishes DEF Ai!AiFailed
<1> QED BY <1>1, <1>2, <1>3, <1>4, <1>5

\* The tab is opened or left; the event to explain is what the client holds now.
LEMMA AiShownTyped ==
  ASSUME AiOK, NEW t, Show(t), clicks' \in 0..MaxClicks,
         context' \in [event : SUBSET Events, requestedAt : Nat]
  PROVE  AiOK'
<1>0. Ai!AiTypeOK /\ Ai!LoadingIsHeld
  BY DEF AiOK
<1>1. CASE "ai" \in {tab, t}
  <2>1. Ai!ShowAi(t)
    BY <1>1 DEF Show
  <2> DEFINE start == t = "ai" /\ context'.event # {}
             g == [kind |-> "explain", at |-> "check", of |-> context'.event, live |-> TRUE, id |-> clicks']
  <2>2. g \in AiAny /\ g.live /\ g.kind = "explain"
    BY DEF AiAny, AiCallsOf
  <2>3. /\ loading' = IF start THEN {"explain"} ELSE {}
        /\ result' = Ai!Blank /\ explained' = explained
        /\ aiCalls' = {[h EXCEPT !.live = FALSE] : h \in {k \in aiCalls : k.at \in {"check", "send"}}}
                      \cup (IF start THEN {g} ELSE {})
    BY <2>1 DEF Ai!ShowAi
  <2> HIDE DEF g, start
  <2>4. aiCalls' \subseteq AiAny
    <3>1. \A h \in aiCalls : [h EXCEPT !.live = FALSE] \in AiAny
      BY <1>0, AiTypes, AiGoesOnTyped
    <3> QED BY <2>2, <2>3, <3>1
  <2>5. result' \in [explain : SUBSET Events, ask : SUBSET (0..MaxClicks)]
    BY <2>3 DEF Ai!Blank
  <2>6. Ai!AiTypeOK'
    BY <1>0, <2>3, <2>4, <2>5 DEF Ai!AiTypeOK, AiAny, AiCallsOf
  <2>7. Ai!LoadingIsHeld'
    BY <2>2, <2>3 DEF Ai!LoadingIsHeld
  <2> QED BY <2>6, <2>7 DEF AiOK
<1>2. CASE "ai" \notin {tab, t}
  <2>1. UNCHANGED <<loading, result, aiCalls, explained>>
    BY <1>2 DEF Show
  <2> QED BY <1>0, <2>1 DEF AiOK, Ai!AiTypeOK, Ai!LoadingIsHeld
<1> QED BY <1>1, <1>2


\* The worker rebuilds, and the panel may queue another rebuild.
LEMMA GraphServes ==
  ASSUME Graph!GraphTypeOK, UNCHANGED graphVars,
         Graph!Server \/ UNCHANGED serverVars \/ (queued' = queued + 1 /\ UNCHANGED <<row, built>>)
  PROVE  Graph!GraphTypeOK'
<1>1. built \in Nat \ {0} /\ queued \in Nat /\ projection \in 0..built
  BY DEF Graph!GraphTypeOK
<1>2. CASE Graph!BeginRebuild
  <2>1. queued' = queued - 1 /\ queued > 0 /\ built' = built
    BY <1>2 DEF Graph!BeginRebuild
  <2>2. queued' \in Nat
    BY <1>1, <2>1
  <2> QED BY <1>2, <2>2 DEF Graph!BeginRebuild, Graph!GraphTypeOK, Graph!Statuses, graphVars
<1>3. CASE Graph!EndRebuild
  <2>1. (built' = built \/ built' = built + 1) /\ (queued' = queued \/ queued' = queued + 1)
    BY <1>3 DEF Graph!EndRebuild
  <2>2. built' \in Nat \ {0} /\ projection \in 0..built' /\ queued' \in Nat
    BY <1>1, <2>1
  <2> QED BY <1>3, <2>2 DEF Graph!EndRebuild, Graph!GraphTypeOK, Graph!Statuses, graphVars
<1>4. CASE UNCHANGED serverVars
  BY <1>4 DEF Graph!GraphTypeOK, graphVars, serverVars
<1>5. CASE queued' = queued + 1 /\ UNCHANGED <<row, built>>
  <2>1. queued' \in Nat
    BY <1>1, <1>5
  <2> QED BY <1>5, <2>1 DEF Graph!GraphTypeOK, graphVars
<1> QED BY <1>2, <1>3, <1>4, <1>5 DEF Graph!Server

LEMMA GraphClickTyped ==
  ASSUME Graph!GraphTypeOK, Graph!GraphClick, UNCHANGED serverVars
  PROVE  Graph!GraphTypeOK'
<1>1. CASE Graph!RebuildProjection
  BY <1>1 DEF Graph!RebuildProjection, Graph!GraphTypeOK, Graph!Stages, serverVars
<1>2. ASSUME NEW m \in {"source", "projection"}, Graph!ChangeMode(m)
      PROVE  Graph!GraphTypeOK'
  BY <1>2 DEF Graph!ChangeMode, Graph!StartLoad, Graph!GraphTypeOK, Graph!Stages, serverVars
<1> QED BY <1>1, <1>2 DEF Graph!GraphClick

LEMMA GraphStepTyped ==
  ASSUME Graph!GraphTypeOK, Graph!GraphStep
  PROVE  Graph!GraphTypeOK'
<1> PICK c \in graphCall :
      \/ Graph!RebuildQueued(c) \/ Graph!RebuildFailed(c) \/ Graph!TimerFires(c)
      \/ Graph!StatusRead(c) \/ Graph!GraphRead(c) \/ Graph!ReadFailed(c)
  BY DEF Graph!GraphStep
<1>a. built \in Nat \ {0} /\ queued \in Nat
  BY DEF Graph!GraphTypeOK
<1>0. built \in Nat \ {0} /\ queued \in Nat /\ 0 \in 0..built /\ built \in 0..built /\ queued + 1 \in Nat
  BY <1>a
<1>1. CASE Graph!RebuildQueued(c)
  BY <1>0, <1>1 DEF Graph!GraphTypeOK, Graph!RebuildQueued, Graph!Stages, Graph!Statuses
<1>2. CASE Graph!RebuildFailed(c)
  BY <1>2 DEF Graph!GraphTypeOK, Graph!RebuildFailed, Graph!serverVars
<1>3. CASE Graph!TimerFires(c)
  BY <1>3 DEF Graph!GraphTypeOK, Graph!TimerFires, Graph!Stages, Graph!serverVars
<1>4. CASE Graph!StatusRead(c)
  BY <1>0, <1>4 DEF Graph!GraphTypeOK, Graph!StatusRead, Graph!LoadFails, Graph!Stages, Graph!serverVars
<1>5. CASE Graph!GraphRead(c)
  BY <1>0, <1>5 DEF Graph!GraphTypeOK, Graph!GraphRead, Graph!serverVars
<1>6. CASE Graph!ReadFailed(c)
  BY <1>0, <1>6 DEF Graph!GraphTypeOK, Graph!ReadFailed, Graph!LoadFails, Graph!serverVars
<1> QED BY <1>1, <1>2, <1>3, <1>4, <1>5, <1>6

LEMMA GraphShownTyped ==
  ASSUME Graph!GraphTypeOK, NEW t, Show(t)
  PROVE  Graph!GraphTypeOK'
<1>1. CASE "explorer" \in {tab, t}
  <2>1. Graph!ShowGraph(t)
    BY <1>1 DEF Show
  <2>2. queued' = queued + 1 \/ queued' = queued + 0 \/ queued' = queued
    BY <2>1 DEF Graph!ShowGraph
  <2>3. queued \in Nat /\ built \in Nat \ {0}
    BY DEF Graph!GraphTypeOK
  <2>4. queued' \in Nat /\ 0 \in 0..built
    BY <2>2, <2>3
  <2> QED BY <2>1, <2>4 DEF Graph!ShowGraph, Graph!GraphTypeOK
<1>2. CASE "explorer" \notin {tab, t}
  BY <1>2, GraphServes DEF Show
<1> QED BY <1>1, <1>2

-------------------------------------------------------------------------------
(* The dashboard: its calls see the state at a version, and only a call in  *)
(* flight, or the timer, stands for the news that is not on the screen.     *)

\* The states of the workspace up to version w, and the calls that saw one of them.
StatesTo(w) == [version : 0..w, active : SUBSET Devices]
CallsTo(w) ==
  {c \in [id : 0..MaxCalls, kind : {"state", "toggle", "rebuild", "graph"},
          at : {"post", "sent", "read", "status"}, of : Devices \cup {Dash!NoDevice},
          saw : StatesTo(w), live : BOOLEAN] : c.kind = "toggle" => c.of \in Devices}

LEMMA DashTypes ==
  Dash!DashTypeOK <=>
    /\ world \in [version : Nat \ {0}, active : SUBSET Devices]
    /\ changes \in 0..MaxChanges /\ delivered \in 1..world.version /\ timer \in BOOLEAN
    /\ view \in StatesTo(world.version) /\ seen \in 0..world.version /\ missed \in BOOLEAN
    /\ deviceBusy \in Devices \cup {Dash!NoDevice}
    /\ panel \in {"", "ready", "running", "failed"} /\ panelBusy \in BOOLEAN
    /\ dashCalls \subseteq CallsTo(world.version)
  BY DEF Dash!DashTypeOK, StatesTo, CallsTo

DashOK == Dash!DashTypeOK /\ Dash!ButtonsAreHeld /\ Dash!NewsIsPursued

\* What was seen of the state is not ahead of it when it has a new version.
LEMMA StatesGrow ==
  ASSUME NEW w \in Nat
  PROVE  StatesTo(w) \subseteq StatesTo(w + 1) /\ CallsTo(w) \subseteq CallsTo(w + 1)
<1>1. 0..w \subseteq 0..(w + 1)
  OBVIOUS
<1>2. StatesTo(w) \subseteq StatesTo(w + 1)
  BY <1>1 DEF StatesTo
<1> QED BY <1>2 DEF CallsTo

LEMMA Versions ==
  ASSUME Dash!DashTypeOK
  PROVE  /\ world.version \in Nat \ {0} /\ delivered \in 1..world.version /\ seen \in 0..world.version
         /\ delivered \in Nat /\ seen \in Nat
<1>1. world.version \in Nat \ {0} /\ delivered \in 1..world.version /\ seen \in 0..world.version
  BY DashTypes
<1> QED BY <1>1

LEMMA CallFields ==
  ASSUME NEW w \in Nat \ {0}, NEW c \in CallsTo(w)
  PROVE  /\ \A x \in {"post", "sent", "read", "status"} : LET g == [c EXCEPT !.at = x] IN
              g \in CallsTo(w) /\ g.at = x /\ g.kind = c.kind /\ g.live = c.live /\ g.saw = c.saw
         /\ \A s \in StatesTo(w) : LET g == [c EXCEPT !.at = "read", !.saw = s] IN
              g \in CallsTo(w) /\ g.at = "read" /\ g.kind = c.kind /\ g.live = c.live /\ g.saw = s
         /\ [c EXCEPT !.live = FALSE] \in CallsTo(w)
         /\ c.live \in BOOLEAN /\ c.saw \in StatesTo(w) /\ c.saw.version \in 0..w /\ c.saw.version \in Nat
<1>1. c.live \in BOOLEAN /\ c.saw \in StatesTo(w) /\ c.saw.version \in 0..w
  BY DEF CallsTo, StatesTo
<1>2. c.saw.version \in Nat
  BY <1>1
<1>3. \A x \in {"post", "sent", "read", "status"} : LET g == [c EXCEPT !.at = x] IN
              g \in CallsTo(w) /\ g.at = x /\ g.kind = c.kind /\ g.live = c.live /\ g.saw = c.saw
  BY DEF CallsTo
<1>4. \A s \in StatesTo(w) : LET g == [c EXCEPT !.at = "read", !.saw = s] IN
              g \in CallsTo(w) /\ g.at = "read" /\ g.kind = c.kind /\ g.live = c.live /\ g.saw = s
  BY DEF CallsTo
<1>5. [c EXCEPT !.live = FALSE] \in CallsTo(w)
  BY DEF CallsTo
<1> QED BY <1>1, <1>2, <1>3, <1>4, <1>5

\* A new call is of the types, alive, and has the place it was given.
LEMMA Calling ==
  ASSUME NEW w \in Nat \ {0}, MaxCalls \in Nat \ {0},
         NEW kind \in {"state", "toggle", "rebuild", "graph"}, NEW at \in {"post", "sent", "read", "status"},
         NEW of \in Devices \cup {Dash!NoDevice}, kind = "toggle" => of \in Devices,
         Dash!NewCall(kind, at, of)
  PROVE  \E g \in CallsTo(w) : g.kind = kind /\ g.at = at /\ g.live /\ dashCalls' = dashCalls \cup {g}
<1> PICK i \in 1..MaxCalls : dashCalls' = dashCalls \cup
         {[id |-> i, kind |-> kind, at |-> at, of |-> of, saw |-> Dash!NoView, live |-> TRUE]}
  BY DEF Dash!NewCall
<1> DEFINE g == [id |-> i, kind |-> kind, at |-> at, of |-> of, saw |-> Dash!NoView, live |-> TRUE]
<1>1. i \in 0..MaxCalls /\ 0 \in 0..w
  OBVIOUS
<1>2. Dash!NoView \in StatesTo(w)
  BY <1>1 DEF Dash!NoView, StatesTo
<1>3. g \in CallsTo(w)
  BY <1>1, <1>2 DEF CallsTo
<1> QED BY <1>3

LEMMA DashSame ==
  ASSUME DashOK, UNCHANGED <<dashVars, tab, visible>>
  PROVE  DashOK'
  BY DEF DashOK, Dash!DashTypeOK, Dash!ButtonsAreHeld, Dash!NewsIsPursued, Dash!NoDevice, dashVars

\* Nothing is shown, and calls are only added.
LEMMA DashAdds ==
  ASSUME DashOK, NEW g \in CallsTo(world.version), dashCalls' = dashCalls \cup {g},
         UNCHANGED <<world, changes, delivered, view, seen, missed, panel, tab>>,
         deviceBusy' \in Devices \cup {Dash!NoDevice}, panelBusy' \in BOOLEAN, timer' \in BOOLEAN,
         deviceBusy' = deviceBusy \/ (g.live /\ g.kind = "toggle"),
         panelBusy' = panelBusy \/ (g.live /\ g.kind = "rebuild"),
         (visible' = visible /\ timer' = timer) \/ (g.live /\ g.at = "sent")
  PROVE  DashOK'
<1>1. Dash!DashTypeOK /\ Dash!ButtonsAreHeld /\ Dash!NewsIsPursued
  BY DEF DashOK
<1>2. Dash!DashTypeOK'
  BY <1>1 DEF Dash!DashTypeOK, Dash!NoDevice, CallsTo, StatesTo
<1>3. Dash!ButtonsAreHeld'
  BY <1>1 DEF Dash!ButtonsAreHeld
<1>4. Dash!NewsIsPursued'
  BY <1>1 DEF Dash!NewsIsPursued
<1> QED BY <1>2, <1>3, <1>4 DEF DashOK

\* The state has a new version, which nobody has seen yet.
LEMMA WorldMoves ==
  ASSUME Dash!DashTypeOK, world' \in [version : Nat \ {0}, active : SUBSET Devices],
         world'.version = world.version + 1, changes' \in 0..MaxChanges,
         UNCHANGED <<delivered, timer, view, seen, missed, deviceBusy, panel, panelBusy>>,
         dashCalls' \subseteq CallsTo(world.version)
  PROVE  Dash!DashTypeOK'
<1> DEFINE w == world.version
<1>1. w \in Nat \ {0} /\ delivered \in 1..w /\ seen \in 0..w
  BY Versions
<1> HIDE DEF w
<1>2. delivered \in 1..(w + 1) /\ seen \in 0..(w + 1)
  BY <1>1
<1>3. StatesTo(w) \subseteq StatesTo(w + 1) /\ CallsTo(w) \subseteq CallsTo(w + 1)
  BY <1>1, StatesGrow
<1>4. view \in StatesTo(w) /\ dashCalls' \subseteq CallsTo(w)
  BY DashTypes DEF w
<1>5. view \in StatesTo(world'.version) /\ dashCalls' \subseteq CallsTo(world'.version)
      /\ delivered \in 1..world'.version /\ seen \in 0..world'.version
  BY <1>2, <1>3, <1>4 DEF w
<1> QED BY <1>5 DEF Dash!DashTypeOK, StatesTo, CallsTo

LEMMA DashChanges ==
  ASSUME DashOK, MaxChanges \in Nat, UNCHANGED <<tab, visible>>,
         Dash!Change \/ \E d \in Devices : Dash!CommandDone(d)
  PROVE  DashOK'
<1>0. Dash!DashTypeOK /\ world \in [version : Nat \ {0}, active : SUBSET Devices] /\ changes \in 0..MaxChanges
  BY DEF DashOK, Dash!DashTypeOK
<1>a. world.version \in Nat \ {0} /\ world.version + 1 \in Nat \ {0}
  <2>1. world.version \in Nat \ {0}
    BY <1>0
  <2> QED BY <2>1
<1>1. world' \in [version : Nat \ {0}, active : SUBSET Devices] /\ world'.version = world.version + 1
  <2>1. CASE Dash!Change
    BY <1>0, <1>a, <2>1 DEF Dash!Change
  <2>2. CASE \E d \in Devices : Dash!CommandDone(d)
    BY <1>0, <1>a, <2>2 DEF Dash!CommandDone
  <2> QED BY <2>1, <2>2
<1>2. changes' = changes \/ (changes < MaxChanges /\ changes' = changes + 1)
  BY DEF Dash!Change, Dash!CommandDone
<1>3. changes' \in 0..MaxChanges
  BY <1>0, <1>2
<1>4. UNCHANGED <<delivered, timer, view, seen, missed, deviceBusy, panel, panelBusy, dashCalls>>
  BY DEF Dash!Change, Dash!CommandDone
<1>5. Dash!DashTypeOK'
  <2>1. dashCalls' \subseteq CallsTo(world.version)
    BY <1>0, <1>4, DashTypes
  <2> QED BY <1>0, <1>1, <1>3, <1>4, <2>1, WorldMoves
<1>6. Dash!ButtonsAreHeld' /\ Dash!NewsIsPursued'
  BY <1>4 DEF DashOK, Dash!ButtonsAreHeld, Dash!NewsIsPursued, Dash!NoDevice
<1> QED BY <1>5, <1>6 DEF DashOK

\* An event that arrives, the timer, the poll, and the document hidden or back.
LEMMA DashHears ==
  ASSUME DashOK, UNCHANGED <<tab, visible>>, Dash!Deliver
  PROVE  DashOK'
<1>0. Dash!DashTypeOK /\ timer \in BOOLEAN
  BY DashTypes DEF DashOK
<1>1. world.version \in Nat \ {0} /\ delivered \in 1..world.version
  BY <1>0, Versions
<1>2. PICK v \in (delivered + 1)..world.version : delivered' = v
  BY DEF Dash!Deliver
<1>3. delivered' \in 1..world.version
  BY <1>1, <1>2
<1>4. timer' \in BOOLEAN /\ (visible => timer')
      /\ UNCHANGED <<world, changes, view, seen, missed, deviceBusy, panel, panelBusy, dashCalls>>
  BY <1>0 DEF Dash!Deliver
<1>5. Dash!DashTypeOK'
  BY <1>0, <1>3, <1>4 DEF Dash!DashTypeOK, Dash!NoDevice
<1>6. Dash!ButtonsAreHeld' /\ Dash!NewsIsPursued'
  BY <1>4 DEF DashOK, Dash!ButtonsAreHeld, Dash!NewsIsPursued, Dash!NoDevice
<1> QED BY <1>5, <1>6 DEF DashOK

LEMMA DashTicks ==
  ASSUME DashOK, MaxCalls \in Nat \ {0}, UNCHANGED tab,
         (UNCHANGED visible /\ (Dash!TimerUp \/ Dash!PollGraph)) \/ Dash!Visibility
  PROVE  DashOK'
<1>0. Dash!DashTypeOK /\ world.version \in Nat \ {0}
  BY Versions DEF DashOK
<1>1. deviceBusy \in Devices \cup {Dash!NoDevice} /\ panelBusy \in BOOLEAN /\ timer \in BOOLEAN
  BY <1>0, DashTypes
<1>2. CASE UNCHANGED visible /\ Dash!TimerUp
  <2>1. PICK g \in CallsTo(world.version) : g.at = "sent" /\ g.live /\ dashCalls' = dashCalls \cup {g}
    BY <1>0, <1>2, Calling DEF Dash!TimerUp
  <2>2. timer' = FALSE /\ UNCHANGED <<world, changes, delivered, view, seen, missed, deviceBusy, panel, panelBusy>>
    BY <1>2 DEF Dash!TimerUp
  <2> QED BY <1>1, <2>1, <2>2, DashAdds
<1>3. CASE UNCHANGED visible /\ Dash!PollGraph
  <2>1. PICK g \in CallsTo(world.version) : dashCalls' = dashCalls \cup {g}
    BY <1>0, <1>3, Calling DEF Dash!PollGraph
  <2>2. UNCHANGED <<world, changes, delivered, timer, view, seen, missed, deviceBusy, panel, panelBusy>>
    BY <1>3 DEF Dash!PollGraph
  <2> QED BY <1>1, <1>3, <2>1, <2>2, DashAdds
<1>4. CASE Dash!Visibility /\ ~visible
  <2>1. PICK g \in CallsTo(world.version) : g.at = "sent" /\ g.live /\ dashCalls' = dashCalls \cup {g}
    BY <1>0, <1>4, Calling DEF Dash!Visibility
  <2>2. UNCHANGED <<world, changes, delivered, timer, view, seen, missed, deviceBusy, panel, panelBusy>>
    BY <1>4 DEF Dash!Visibility
  <2> QED BY <1>1, <2>1, <2>2, DashAdds
<1>5. CASE Dash!Visibility /\ visible
  <2>1. ~visible' /\ UNCHANGED dashVars
    BY <1>5 DEF Dash!Visibility, dashVars
  <2> QED BY <2>1 DEF DashOK, Dash!DashTypeOK, Dash!ButtonsAreHeld, Dash!NewsIsPursued, Dash!NoDevice, dashVars
<1> QED BY <1>2, <1>3, <1>4, <1>5

LEMMA DashClicked ==
  ASSUME DashOK, MaxCalls \in Nat \ {0}, UNCHANGED <<tab, visible>>,
         Dash!DeviceClick \/ Dash!RebuildGraph
  PROVE  DashOK'
<1>0. Dash!DashTypeOK /\ world.version \in Nat \ {0}
  BY Versions DEF DashOK
<1>1. deviceBusy \in Devices \cup {Dash!NoDevice} /\ panelBusy \in BOOLEAN /\ timer \in BOOLEAN
  BY <1>0, DashTypes
<1>2. ASSUME NEW d \in Devices, Dash!ToggleDevice(d) PROVE DashOK'
  <2>1. PICK g \in CallsTo(world.version) : g.kind = "toggle" /\ g.live /\ dashCalls' = dashCalls \cup {g}
    BY <1>0, <1>2, Calling DEF Dash!ToggleDevice
  <2>2. deviceBusy' = d /\ UNCHANGED <<world, changes, delivered, timer, view, seen, missed, panel, panelBusy>>
    BY <1>2 DEF Dash!ToggleDevice
  <2> QED BY <1>1, <2>1, <2>2, DashAdds
<1>3. CASE Dash!RebuildGraph
  <2>1. PICK g \in CallsTo(world.version) : g.kind = "rebuild" /\ g.live /\ dashCalls' = dashCalls \cup {g}
    BY <1>0, <1>3, Calling DEF Dash!RebuildGraph
  <2>2. panelBusy' = TRUE /\ UNCHANGED <<world, changes, delivered, timer, view, seen, missed, deviceBusy, panel>>
    BY <1>3 DEF Dash!RebuildGraph
  <2> QED BY <1>1, <2>1, <2>2, DashAdds
<1> QED BY <1>2, <1>3 DEF Dash!DeviceClick

\* A call goes on: whoever counted on it can count on what it became.
LEMMA CallGoesOn ==
  ASSUME DashOK, NEW c \in dashCalls, NEW g \in CallsTo(world.version), Dash!GoesOn(c, g),
         g.kind = c.kind, g.live = c.live,
         c.at \in {"post", "status"} \/ (c.at = "sent" /\ g.at = "read" /\ g.saw = world),
         UNCHANGED <<delivered, timer, seen, missed, deviceBusy, panelBusy, tab, visible>>
  PROVE  /\ dashCalls' \subseteq CallsTo(world.version)
         /\ Dash!ButtonsAreHeld' /\ Dash!NewsIsPursued'
<1>0. Dash!DashTypeOK /\ Dash!ButtonsAreHeld /\ Dash!NewsIsPursued
  BY DEF DashOK
<1>1. dashCalls \subseteq CallsTo(world.version)
  BY <1>0, DashTypes
<1>2. world.version \in Nat \ {0} /\ delivered \in 1..world.version
  BY <1>0, Versions
<1>3. world.version >= delivered
  BY <1>2
<1>4. (c.live => g \in dashCalls') /\ (\A k \in dashCalls : k # c => k \in dashCalls')
      /\ dashCalls' \subseteq dashCalls \cup {g}
  BY DEF Dash!GoesOn
<1>5. Dash!ButtonsAreHeld'
  BY <1>0, <1>4 DEF Dash!ButtonsAreHeld, Dash!NoDevice
<1>6. Dash!NewsIsPursued'
  BY <1>0, <1>3, <1>4 DEF Dash!NewsIsPursued
<1> QED BY <1>1, <1>4, <1>5, <1>6

\* A call ends: it lowers the flag it holds, and a refresh that was pursued with it
\* has been shown or has failed.
LEMMA CallEnds ==
  ASSUME DashOK, NEW c \in dashCalls, Dash!EndsCall(c),
         UNCHANGED <<delivered, timer, tab, visible>>,
         UNCHANGED seen \/ (seen' \in Nat /\ seen' >= seen /\ seen' >= c.saw.version),
         UNCHANGED missed \/ missed',
         \/ c.at \in {"post", "status"}
         \/ c.at = "sent" /\ missed'
         \/ c.at = "read" /\ seen' \in Nat /\ seen' >= seen /\ seen' >= c.saw.version
  PROVE  /\ dashCalls' \subseteq CallsTo(world.version)
         /\ deviceBusy' \in Devices \cup {Dash!NoDevice} /\ panelBusy' \in BOOLEAN
         /\ Dash!ButtonsAreHeld' /\ Dash!NewsIsPursued'
<1>0. Dash!DashTypeOK /\ Dash!ButtonsAreHeld /\ Dash!NewsIsPursued
  BY DEF DashOK
<1>1. /\ dashCalls \subseteq CallsTo(world.version) /\ deviceBusy \in Devices \cup {Dash!NoDevice}
      /\ panelBusy \in BOOLEAN
  BY <1>0, DashTypes
<1>2. dashCalls' = dashCalls \ {c}
  BY DEF Dash!EndsCall
<1>3. deviceBusy' \in Devices \cup {Dash!NoDevice} /\ panelBusy' \in BOOLEAN
  BY <1>1 DEF Dash!EndsCall
<1>4. Dash!ButtonsAreHeld'
  BY <1>0, <1>2 DEF Dash!ButtonsAreHeld, Dash!EndsCall
<1>5. c.saw.version \in Nat /\ delivered \in Nat /\ seen \in Nat
  <2>1. world.version \in Nat \ {0} /\ c \in CallsTo(world.version)
    BY <1>0, <1>1, Versions
  <2> QED BY <1>0, <2>1, CallFields, Versions
<1>6. Dash!NewsIsPursued'
  <2> SUFFICES ASSUME tab = "dashboard", visible, seen' < delivered, ~missed', ~timer
               PROVE  \E k \in dashCalls' : \/ k.at = "sent" /\ k.live
                                            \/ k.at = "read" /\ k.saw.version >= delivered
    BY DEF Dash!NewsIsPursued
  <2>1. seen < delivered /\ ~missed
    <3>1. seen' \in Nat /\ seen' >= seen
      BY <1>5
    <3> QED BY <1>5, <3>1
  <2>2. PICK k \in dashCalls : \/ k.at = "sent" /\ k.live
                               \/ k.at = "read" /\ k.saw.version >= delivered
    BY <1>0, <2>1 DEF Dash!NewsIsPursued
  <2>3. k # c
    <3> SUFFICES ASSUME k = c PROVE FALSE
      OBVIOUS
    <3>1. c.at = "sent" \/ (c.at = "read" /\ c.saw.version >= delivered)
      BY <2>2
    <3>2. c.at = "read" /\ c.saw.version >= delivered /\ seen' \in Nat /\ seen' >= c.saw.version
      BY <3>1
    <3> QED BY <1>5, <3>2
  <2> QED BY <1>2, <2>2, <2>3
<1> QED BY <1>1, <1>2, <1>3, <1>4, <1>6

LEMMA DashStepTyped ==
  ASSUME DashOK, Graph!GraphTypeOK, UNCHANGED <<tab, visible>>, Dash!DashStep \/ Dash!PollStep
  PROVE  DashOK' /\ (UNCHANGED serverVars \/ (queued' = queued + 1 /\ UNCHANGED <<row, built>>))
<1>0. Dash!DashTypeOK /\ world \in [version : Nat \ {0}, active : SUBSET Devices] /\ changes \in 0..MaxChanges
      /\ dashCalls \subseteq CallsTo(world.version) /\ view \in StatesTo(world.version)
  BY DashTypes DEF DashOK
<1>a. /\ world.version \in Nat \ {0} /\ seen \in 0..world.version /\ seen \in Nat
      /\ world \in StatesTo(world.version) /\ world.version + 1 \in Nat \ {0}
  <2>1. world.version \in Nat \ {0} /\ seen \in 0..world.version /\ seen \in Nat
    BY <1>0, Versions
  <2>2. world.version \in 0..world.version /\ world.version + 1 \in Nat \ {0}
    BY <2>1
  <2> QED BY <1>0, <2>1, <2>2 DEF StatesTo
<1> PICK c \in dashCalls : Dash!CallStep(c)
  BY DEF Dash!DashStep, Dash!PollStep
<1>b. c \in CallsTo(world.version)
  BY <1>0
<1>c. ASSUME NEW x \in {"post", "sent", "read", "status"}
      PROVE  LET g == [c EXCEPT !.at = x] IN
             g \in CallsTo(world.version) /\ g.kind = c.kind /\ g.live = c.live
  BY <1>b DEF CallsTo
<1>d. LET g == [c EXCEPT !.at = "read", !.saw = world] IN
      g \in CallsTo(world.version) /\ g.kind = c.kind /\ g.live = c.live /\ g.at = "read" /\ g.saw = world
  BY <1>a, <1>b DEF CallsTo
<1>1. CASE Dash!CommandTaken(c)
  <2>1. c.at = "post" /\ Dash!GoesOn(c, [c EXCEPT !.at = "sent"])
        /\ UNCHANGED <<changes, delivered, timer, view, seen, missed, deviceBusy, panel, panelBusy, row, built, queued>>
    BY <1>1 DEF Dash!CommandTaken
  <2> DEFINE g == [c EXCEPT !.at = "sent"]
  <2>2. g \in CallsTo(world.version) /\ g.kind = c.kind /\ g.live = c.live
    BY <1>c
  <2> HIDE DEF g
  <2>3. Dash!GoesOn(c, g)
    BY <2>1 DEF g
  <2>4. dashCalls' \subseteq CallsTo(world.version) /\ Dash!ButtonsAreHeld' /\ Dash!NewsIsPursued'
    BY <2>1, <2>2, <2>3, CallGoesOn
  <2>5. world' \in [version : Nat \ {0}, active : SUBSET Devices] /\ world'.version = world.version + 1
    <3>1. c.of \in Devices
      BY <1>1, <1>b DEF Dash!CommandTaken, CallsTo
    <3> QED BY <1>0, <1>1, <1>a, <3>1 DEF Dash!CommandTaken
  <2>6. Dash!DashTypeOK'
    BY <1>0, <2>1, <2>4, <2>5, WorldMoves
  <2> QED BY <2>1, <2>4, <2>6 DEF DashOK, serverVars
<1>2. CASE Dash!RebuildTaken(c)
  <2>1. c.at = "post" /\ Dash!GoesOn(c, [c EXCEPT !.at = "status"]) /\ queued' = queued + 1
        /\ UNCHANGED <<world, changes, delivered, timer, view, seen, missed, deviceBusy, panel, panelBusy, row, built>>
    BY <1>2 DEF Dash!RebuildTaken
  <2> DEFINE g == [c EXCEPT !.at = "status"]
  <2>2. g \in CallsTo(world.version) /\ g.kind = c.kind /\ g.live = c.live
    BY <1>c
  <2> HIDE DEF g
  <2>3. Dash!GoesOn(c, g)
    BY <2>1 DEF g
  <2>4. dashCalls' \subseteq CallsTo(world.version) /\ Dash!ButtonsAreHeld' /\ Dash!NewsIsPursued'
    BY <2>1, <2>2, <2>3, CallGoesOn
  <2>5. Dash!DashTypeOK'
    BY <1>0, <2>1, <2>4 DEF Dash!DashTypeOK, CallsTo, StatesTo, Dash!NoDevice
  <2> QED BY <2>1, <2>4, <2>5 DEF DashOK
<1>3. CASE Dash!StateRead(c)
  <2>1. c.at = "sent" /\ Dash!GoesOn(c, [c EXCEPT !.at = "read", !.saw = world])
        /\ UNCHANGED <<world, changes, delivered, timer, view, seen, missed, deviceBusy, panel, panelBusy, row, built, queued>>
    BY <1>3 DEF Dash!StateRead
  <2> DEFINE g == [c EXCEPT !.at = "read", !.saw = world]
  <2>2. g \in CallsTo(world.version) /\ g.kind = c.kind /\ g.live = c.live /\ g.at = "read" /\ g.saw = world
    BY <1>d
  <2> HIDE DEF g
  <2>3. Dash!GoesOn(c, g)
    BY <2>1 DEF g
  <2>4. dashCalls' \subseteq CallsTo(world.version) /\ Dash!ButtonsAreHeld' /\ Dash!NewsIsPursued'
    BY <2>1, <2>2, <2>3, CallGoesOn
  <2>5. Dash!DashTypeOK'
    BY <1>0, <2>1, <2>4 DEF Dash!DashTypeOK, CallsTo, StatesTo, Dash!NoDevice
  <2> QED BY <2>1, <2>4, <2>5 DEF DashOK, serverVars
<1>4. CASE Dash!StateShown(c)
  <2>1. c.at = "read" /\ view' = c.saw /\ Dash!EndsCall(c)
        /\ UNCHANGED <<world, changes, delivered, timer, missed, panel, row, built, queued>>
        /\ seen' = IF c.saw.version > seen THEN c.saw.version ELSE seen
    BY <1>4 DEF Dash!StateShown
  <2>2. c.saw \in StatesTo(world.version) /\ c.saw.version \in 0..world.version /\ c.saw.version \in Nat
    BY <1>a, <1>b, CallFields
  <2>3. seen' \in 0..world.version /\ seen' \in Nat /\ seen' >= seen /\ seen' >= c.saw.version
    <3> DEFINE n == c.saw.version
    <3>1. n \in 0..world.version /\ n \in Nat /\ seen' = IF n > seen THEN n ELSE seen
      BY <2>1, <2>2
    <3> HIDE DEF n
    <3>2. seen' \in 0..world.version /\ seen' \in Nat /\ seen' >= seen /\ seen' >= n
      BY <1>a, <3>1
    <3> QED BY <3>2 DEF n
  <2>4. /\ dashCalls' \subseteq CallsTo(world.version)
        /\ deviceBusy' \in Devices \cup {Dash!NoDevice} /\ panelBusy' \in BOOLEAN
        /\ Dash!ButtonsAreHeld' /\ Dash!NewsIsPursued'
    BY <2>1, <2>3, CallEnds
  <2>5. Dash!DashTypeOK'
    BY <1>0, <2>1, <2>2, <2>3, <2>4 DEF Dash!DashTypeOK, CallsTo, StatesTo, Dash!NoDevice
  <2> QED BY <2>1, <2>4, <2>5 DEF DashOK, serverVars
<1>5. CASE Dash!StatusShown(c)
  <2>1. c.at = "status" /\ panel' = row /\ Dash!EndsCall(c)
        /\ UNCHANGED <<world, changes, delivered, timer, view, seen, missed, row, built, queued>>
    BY <1>5 DEF Dash!StatusShown
  <2>2. row \in {"", "ready", "running", "failed"}
    BY DEF Graph!GraphTypeOK, Graph!Statuses
  <2>4. /\ dashCalls' \subseteq CallsTo(world.version)
        /\ deviceBusy' \in Devices \cup {Dash!NoDevice} /\ panelBusy' \in BOOLEAN
        /\ Dash!ButtonsAreHeld' /\ Dash!NewsIsPursued'
    BY <2>1, CallEnds
  <2>5. Dash!DashTypeOK'
    BY <1>0, <2>1, <2>2, <2>4 DEF Dash!DashTypeOK, CallsTo, StatesTo, Dash!NoDevice
  <2> QED BY <2>1, <2>4, <2>5 DEF DashOK, serverVars
<1>6. CASE Dash!CallFails(c)
  <2>1. c.at \in {"post", "sent", "status"} /\ missed' = (missed \/ c.at = "sent") /\ Dash!EndsCall(c)
        /\ UNCHANGED <<world, changes, delivered, timer, view, seen, panel, row, built, queued>>
    BY <1>6 DEF Dash!CallFails
  <2>2. missed' \in BOOLEAN /\ (missed' = missed \/ missed') /\ (c.at = "sent" => missed')
    BY <1>0, <2>1 DEF Dash!DashTypeOK
  <2>4. /\ dashCalls' \subseteq CallsTo(world.version)
        /\ deviceBusy' \in Devices \cup {Dash!NoDevice} /\ panelBusy' \in BOOLEAN
        /\ Dash!ButtonsAreHeld' /\ Dash!NewsIsPursued'
    BY <2>1, <2>2, CallEnds
  <2>5. Dash!DashTypeOK'
    BY <1>0, <2>1, <2>2, <2>4 DEF Dash!DashTypeOK, CallsTo, StatesTo, Dash!NoDevice
  <2> QED BY <2>1, <2>4, <2>5 DEF DashOK, serverVars
<1> QED BY <1>1, <1>2, <1>3, <1>4, <1>5, <1>6 DEF Dash!CallStep

\* The tab is opened or left: a new dashboard starts with a refresh.
LEMMA DashShownTyped ==
  ASSUME DashOK, MaxCalls \in Nat \ {0}, NEW t, Show(t)
  PROVE  DashOK'
<1>0. Dash!DashTypeOK /\ dashCalls \subseteq CallsTo(world.version) /\ world.version \in Nat \ {0}
  BY DashTypes, Versions DEF DashOK
<1>1. CASE "dashboard" \in {tab, t}
  <2> DEFINE posts == {[c EXCEPT !.live = FALSE] : c \in {d \in dashCalls : d.at = "post"}}
             g == [id |-> 0, kind |-> "state", at |-> "sent", of |-> Dash!NoDevice, saw |-> Dash!NoView, live |-> TRUE]
  <2>1. /\ delivered' = world.version /\ timer' = FALSE
        /\ view' = Dash!NoView /\ seen' = 0 /\ missed' = FALSE /\ deviceBusy' = Dash!NoDevice
        /\ panel' = "" /\ panelBusy' = FALSE
        /\ dashCalls' = posts \cup (IF t = "dashboard" THEN {g} ELSE {})
        /\ UNCHANGED <<world, changes>> /\ tab' = t
    BY <1>1 DEF Show, Dash!ShowDash
  <2>2. 0 \in 0..world.version /\ world.version \in 1..world.version /\ 0 \in 0..MaxCalls
    BY <1>0
  <2>3. Dash!NoView \in StatesTo(world.version)
    BY <2>2 DEF Dash!NoView, StatesTo
  <2>4. g \in CallsTo(world.version) /\ g.at = "sent" /\ g.live
    BY <2>2, <2>3 DEF CallsTo
  <2>5. posts \subseteq CallsTo(world.version)
    <3>1. \A c \in dashCalls : [c EXCEPT !.live = FALSE] \in CallsTo(world.version)
      BY <1>0, CallFields
    <3> QED BY <3>1
  <2> HIDE DEF g, posts
  <2>6. Dash!DashTypeOK'
    BY <1>0, <2>1, <2>2, <2>3, <2>4, <2>5 DEF Dash!DashTypeOK, CallsTo, StatesTo, Dash!NoDevice
  <2>7. Dash!ButtonsAreHeld' /\ Dash!NewsIsPursued'
    BY <2>1, <2>4 DEF Dash!ButtonsAreHeld, Dash!NewsIsPursued, Dash!NoDevice
  <2> QED BY <2>6, <2>7 DEF DashOK
<1>2. CASE "dashboard" \notin {tab, t}
  <2>1. UNCHANGED dashVars /\ tab' # "dashboard"
    BY <1>2 DEF Show
  <2> QED BY <2>1 DEF DashOK, Dash!DashTypeOK, Dash!ButtonsAreHeld, Dash!NewsIsPursued, Dash!NoDevice, dashVars
<1> QED BY <1>1, <1>2

-------------------------------------------------------------------------------
(* The client as a whole.                                                   *)

\* What every step of the client keeps: the types, with the flags that are held
\* and the news that is pursued, and the ends of the operator's clicks.
ClientInv == ClientTypeOK /\ FlagsAreHeld /\ NewsIsPursued

LEMMA ClientParts ==
  ClientInv <=> /\ plan \in Parts /\ tab \in Tabs /\ clicks \in 0..MaxClicks /\ visible \in BOOLEAN
                /\ StudioOK /\ AiOK /\ Graph!GraphTypeOK /\ DashOK
  BY DEF ClientInv, ClientTypeOK, FlagsAreHeld, NewsIsPursued, StudioOK, AiOK, DashOK

LEMMA NextClick ==
  ASSUME clicks \in 0..MaxClicks, MaxClicks \in Nat, clicks < MaxClicks, clicks' = clicks + 1
  PROVE  clicks' \in 0..MaxClicks
  OBVIOUS

LEMMA ClientInitially == Init => ClientInv
<1> SUFFICES ASSUME Init PROVE ClientInv
  OBVIOUS
<1>1. MaxClicks \in Nat /\ MaxChanges \in Nat /\ MaxCalls \in Nat \ {0}
  BY ConstantsAssumption DEF ConstantsAssumption
<1>2. plan \in Parts /\ tab \in Tabs /\ clicks \in 0..MaxClicks /\ visible \in BOOLEAN
  <2>1. PICK p \in Plans : plan = p.part /\ clicks = MaxClicks - p.clicks
    BY DEF Init
  <2>2. p.part \in Parts /\ p.clicks \in 0..MaxClicks
    BY ConstantsAssumption DEF ConstantsAssumption
  <2>3. MaxClicks - p.clicks \in 0..MaxClicks
    <3> DEFINE n == p.clicks
    <3>1. n \in 0..MaxClicks
      BY <2>2
    <3> HIDE DEF n
    <3>2. MaxClicks - n \in 0..MaxClicks
      BY <1>1, <3>1
    <3> QED BY <3>2 DEF n
  <2> QED BY <2>1, <2>2, <2>3 DEF Init, Tabs
<1>3. Studio!InitStudio /\ Ai!InitAi /\ Graph!InitGraph /\ Graph!InitServer /\ Dash!InitDash
  BY DEF Init
<1>4. 0 \in 0..MaxClicks /\ 0 \in 0..MaxChanges /\ 0 \in 0..MaxCalls /\ 1 \in 1..1 /\ 0 \in 0..1 /\ 1 \in Nat \ {0}
  BY <1>1
<1>5. StudioOK
  <2>1. /\ studioCalls = {} /\ posted = {} /\ proposal = 0 /\ studioBusy = "" /\ cleared = 0 /\ reviewed = {}
        /\ list = Studio!NoRules /\ book = [r \in Rules |-> IF r \in Booked THEN "on" ELSE "absent"]
    BY <1>3, Zenon DEF Studio!InitStudio
  <2>2. list \in [Rules -> Studio!RuleStates] /\ book \in [Rules -> Studio!RuleStates]
    BY <2>1 DEF Studio!NoRules, Studio!RuleStates
  <2> QED BY <1>4, <2>1, <2>2 DEF StudioOK, Studio!StudioTypeOK, Studio!BusyIsHeld
<1>6. AiOK
  BY <1>3, <1>4 DEF AiOK, Ai!InitAi, Ai!AiTypeOK, Ai!LoadingIsHeld, Ai!Blank
<1>7. Graph!GraphTypeOK
  BY <1>3, <1>4 DEF Graph!InitGraph, Graph!InitServer, Graph!GraphTypeOK, Graph!Stages, Graph!Statuses
<1>8. DashOK
  <2> DEFINE g == [id |-> 0, kind |-> "state", at |-> "sent", of |-> Dash!NoDevice, saw |-> Dash!NoView, live |-> TRUE]
  <2>1. /\ world = [version |-> 1, active |-> {}] /\ changes = 0 /\ delivered = 1 /\ timer = FALSE
        /\ view = Dash!NoView /\ seen = 0 /\ missed = FALSE /\ deviceBusy = Dash!NoDevice
        /\ panel = "" /\ panelBusy = FALSE /\ dashCalls = {g}
    BY <1>3 DEF Dash!InitDash
  <2>2. Dash!NoView \in StatesTo(1)
    BY <1>4 DEF Dash!NoView, StatesTo
  <2>3. g \in CallsTo(1) /\ g.at = "sent" /\ g.live
    BY <1>4, <2>2 DEF CallsTo
  <2> HIDE DEF g
  <2>4. world.version = 1 /\ world \in [version : Nat \ {0}, active : SUBSET Devices]
    BY <1>4, <2>1
  <2>5. Dash!DashTypeOK
    BY <1>4, <2>1, <2>2, <2>3, <2>4 DEF Dash!DashTypeOK, StatesTo, CallsTo
  <2> QED BY <2>1, <2>3, <2>5 DEF DashOK, Dash!ButtonsAreHeld, Dash!NewsIsPursued
<1> QED BY <1>2, <1>5, <1>6, <1>7, <1>8, ClientParts

LEMMA ClientInvInductive ==
  ASSUME ClientInv, [Next]_vars
  PROVE  ClientInv'
<1>0. /\ plan \in Parts /\ tab \in Tabs /\ clicks \in 0..MaxClicks /\ visible \in BOOLEAN
      /\ StudioOK /\ AiOK /\ Graph!GraphTypeOK /\ DashOK
  BY ClientParts
<1>a. MaxClicks \in Nat /\ MaxChanges \in Nat /\ MaxCalls \in Nat \ {0}
  BY ConstantsAssumption DEF ConstantsAssumption
<1>b. context \in [event : SUBSET Events, requestedAt : Nat]
  BY <1>0, AiTypes DEF AiOK
<1>c. SUFFICES /\ plan' \in Parts /\ tab' \in Tabs /\ clicks' \in 0..MaxClicks /\ visible' \in BOOLEAN
               /\ StudioOK' /\ AiOK' /\ Graph!GraphTypeOK' /\ DashOK'
  BY DEF ClientInv, ClientTypeOK, FlagsAreHeld, NewsIsPursued, StudioOK, AiOK, DashOK
<1>1. ASSUME NEW t \in Tabs, clicks < MaxClicks, clicks' = clicks + 1, Show(t),
             context' \in [event : SUBSET Events, requestedAt : Nat]
      PROVE  /\ plan' \in Parts /\ tab' \in Tabs /\ clicks' \in 0..MaxClicks /\ visible' \in BOOLEAN
             /\ StudioOK' /\ AiOK' /\ Graph!GraphTypeOK' /\ DashOK'
  <2>1. clicks' \in 0..MaxClicks
    BY <1>0, <1>1, <1>a, NextClick
  <2>2. StudioOK' /\ Graph!GraphTypeOK'
    BY <1>0, <1>1, <1>a, <2>1, StudioShownTyped, GraphShownTyped
  <2>3. AiOK'
    BY <1>0, <1>1, <2>1, AiShownTyped
  <2>4. DashOK'
    BY <1>0, <1>1, <1>a, DashShownTyped
  <2> QED BY <1>0, <1>1, <2>1, <2>2, <2>3, <2>4 DEF Show
<1>2. ASSUME NEW t \in Tabs, OpenTab(t)
      PROVE  /\ plan' \in Parts /\ tab' \in Tabs /\ clicks' \in 0..MaxClicks /\ visible' \in BOOLEAN
             /\ StudioOK' /\ AiOK' /\ Graph!GraphTypeOK' /\ DashOK'
  BY <1>1, <1>2, <1>b DEF OpenTab
<1>3. ASSUME NEW e \in Events, ExplainEvent(e)
      PROVE  /\ plan' \in Parts /\ tab' \in Tabs /\ clicks' \in 0..MaxClicks /\ visible' \in BOOLEAN
             /\ StudioOK' /\ AiOK' /\ Graph!GraphTypeOK' /\ DashOK'
  <2>1. context.requestedAt \in Nat
    BY <1>b
  <2>2. context' \in [event : SUBSET Events, requestedAt : Nat]
    BY <1>3, <2>1 DEF ExplainEvent, Ai!Request
  <2>3. "ai" \in Tabs
    BY DEF Tabs
  <2> QED BY <1>1, <1>3, <2>2, <2>3 DEF ExplainEvent
<1>4. CASE StudioClick
  <2>1. clicks' \in 0..MaxClicks
    <3>1. Studio!Propose \/ Studio!Approve \/ Studio!Discard
          \/ \E r \in Rules, action \in {"toggle", "delete"} : Studio!MutateRule(r, action)
      BY <1>4 DEF StudioClick, Studio!StudioClick
    <3>2. clicks < MaxClicks /\ clicks' = clicks + 1
      BY <3>1 DEF Studio!Propose, Studio!Approve, Studio!Discard, Studio!MutateRule, Studio!Click
    <3> QED BY <1>0, <1>a, <3>2, NextClick
  <2>2. StudioOK'
    BY <1>0, <1>4, <1>a, <2>1, StudioClickTyped DEF StudioClick
  <2>3. UNCHANGED <<plan, tab, visible, aiVars, graphVars, dashVars, serverVars>>
    BY <1>4 DEF StudioClick
  <2> QED BY <1>0, <2>1, <2>2, <2>3, AiSame, GraphServes, DashSame
<1>5. CASE AiClick
  <2>1. clicks' \in 0..MaxClicks
    <3>1. clicks < MaxClicks /\ clicks' = clicks + 1
      BY <1>5 DEF AiClick, Ai!Ask
    <3> QED BY <1>0, <1>a, <3>1, NextClick
  <2>2. AiOK'
    BY <1>0, <1>5, <1>a, <2>1, AiAskTyped DEF AiClick
  <2>3. UNCHANGED <<plan, tab, visible, studioVars, graphVars, dashVars, serverVars>>
    BY <1>5 DEF AiClick
  <2> QED BY <1>0, <2>1, <2>2, <2>3, StudioSame, GraphServes, DashSame
<1>6. CASE GraphClick
  <2>1. clicks' \in 0..MaxClicks
    <3>1. clicks < MaxClicks /\ clicks' = clicks + 1
      BY <1>6 DEF GraphClick, Graph!GraphClick, Graph!ChangeMode, Graph!RebuildProjection
    <3> QED BY <1>0, <1>a, <3>1, NextClick
  <2>2. Graph!GraphTypeOK'
    BY <1>0, <1>6, GraphClickTyped DEF GraphClick
  <2>3. UNCHANGED <<plan, tab, visible, studioVars, aiVars, dashVars, serverVars>>
    BY <1>6 DEF GraphClick
  <2> QED BY <1>0, <2>1, <2>2, <2>3, StudioSame, AiSame, DashSame
<1>7. CASE DeviceClick \/ PanelClick
  <2>1. clicks' \in 0..MaxClicks
    <3>1. clicks < MaxClicks /\ clicks' = clicks + 1
      BY <1>7 DEF DeviceClick, PanelClick, Dash!DeviceClick, Dash!ToggleDevice, Dash!RebuildGraph
    <3> QED BY <1>0, <1>a, <3>1, NextClick
  <2>2. UNCHANGED <<plan, tab, visible, studioVars, aiVars, graphVars, serverVars>>
    BY <1>7 DEF DeviceClick, PanelClick
  <2>3. DashOK'
    BY <1>0, <1>7, <1>a, <2>2, DashClicked DEF DeviceClick, PanelClick
  <2> QED BY <1>0, <2>1, <2>2, <2>3, StudioSame, AiSame, GraphServes
<1>8. CASE Visibility
  <2>1. clicks' \in 0..MaxClicks
    <3>1. clicks < MaxClicks /\ clicks' = clicks + 1
      BY <1>8 DEF Visibility, Dash!Visibility
    <3> QED BY <1>0, <1>a, <3>1, NextClick
  <2>2. UNCHANGED <<plan, tab, studioVars, aiVars, graphVars, serverVars>> /\ visible' \in BOOLEAN
    BY <1>8 DEF Visibility, Dash!Visibility
  <2>3. DashOK'
    BY <1>0, <1>8, <1>a, <2>2, DashTicks DEF Visibility
  <2> QED BY <1>0, <2>1, <2>2, <2>3, StudioSame, AiSame, GraphServes
<1>9. CASE StudioStep
  <2>1. UNCHANGED <<plan, tab, clicks, visible, aiVars, graphVars, dashVars, serverVars>>
    BY <1>9 DEF StudioStep, appVars
  <2>2. StudioOK'
    BY <1>0, <1>9, <1>a, StudioStepTyped DEF StudioStep
  <2> QED BY <1>0, <2>1, <2>2, AiSame, GraphServes, DashSame
<1>10. CASE AiStep
  <2>1. UNCHANGED <<plan, tab, clicks, visible, studioVars, graphVars, dashVars, serverVars>>
    BY <1>10 DEF AiStep, appVars
  <2>2. AiOK'
    BY <1>0, <1>10, AiStepTyped DEF AiStep
  <2> QED BY <1>0, <2>1, <2>2, StudioSame, GraphServes, DashSame
<1>11. CASE GraphStep
  <2>1. UNCHANGED <<plan, tab, clicks, visible, studioVars, aiVars, dashVars>>
    BY <1>11 DEF GraphStep, appVars
  <2>2. Graph!GraphTypeOK'
    BY <1>0, <1>11, GraphStepTyped DEF GraphStep
  <2> QED BY <1>0, <2>1, <2>2, StudioSame, AiSame, DashSame
<1>12. CASE DashStep \/ PollStep
  <2>1. UNCHANGED <<plan, tab, clicks, visible, studioVars, aiVars, graphVars>>
    BY <1>12 DEF DashStep, PollStep, appVars
  <2>2. DashOK' /\ (UNCHANGED serverVars \/ (queued' = queued + 1 /\ UNCHANGED <<row, built>>))
    BY <1>0, <1>12, <2>1, DashStepTyped DEF DashStep, PollStep
  <2> QED BY <1>0, <2>1, <2>2, StudioSame, AiSame, GraphServes
<1>13. CASE TimerUp \/ PollGraph \/ Deliver
  <2>1. UNCHANGED <<plan, tab, clicks, visible, studioVars, aiVars, graphVars, serverVars>>
    BY <1>13 DEF TimerUp, PollGraph, Deliver, appVars
  <2>2. DashOK'
    BY <1>0, <1>13, <1>a, <2>1, DashTicks, DashHears DEF TimerUp, PollGraph, Deliver
  <2> QED BY <1>0, <2>1, <2>2, StudioSame, AiSame, GraphServes
<1>14. CASE World
  <2>1. UNCHANGED <<plan, tab, clicks, visible, studioVars, aiVars, graphVars>>
    BY <1>14 DEF World, appVars
  <2>2. DashOK' /\ (Graph!Server \/ UNCHANGED serverVars)
    BY <1>0, <1>14, <1>a, <2>1, DashChanges, DashSame DEF World
  <2> QED BY <1>0, <2>1, <2>2, StudioSame, AiSame, GraphServes
<1>15. CASE UNCHANGED vars
  <2>1. UNCHANGED <<plan, tab, clicks, visible, studioVars, aiVars, graphVars, dashVars, serverVars>>
    BY <1>15 DEF vars, appVars
  <2> QED BY <1>0, <2>1, StudioSame, AiSame, GraphServes, DashSame
<1> QED BY <1>2, <1>3, <1>4, <1>5, <1>6, <1>7, <1>8, <1>9, <1>10, <1>11, <1>12, <1>13, <1>14, <1>15 DEF Next

LEMMA ClientInvAlways == Spec => []ClientInv
  BY ClientInitially, ClientInvInductive, PTL DEF Spec

\* Whatever tabs are opened and answers arrive late, the client's state is of its
\* types, and what the screen shows is not ahead of the server (app/client-app.tsx).
THEOREM ClientTyped == Spec => []ClientTypeOK
<1>1. ClientInv => ClientTypeOK
  BY DEF ClientInv
<1> QED BY <1>1, ClientInvAlways, PTL

\* No path of a handler leaves a button disabled: while a flag is up, a handler is
\* in flight on the open tab that will lower it, also when several handlers share
\* the flag (rule-studio.tsx, ask-ai.tsx, workspace-dashboard.tsx).
THEOREM FlagsStayHeld == Spec => []FlagsAreHeld
<1>1. ClientInv => FlagsAreHeld
  BY DEF ClientInv
<1> QED BY <1>1, ClientInvAlways, PTL

\* An event that was received and is not on the screen yet has a refresh scheduled,
\* or a read in flight that will show it, whatever reads overlap, unless a read has
\* failed or nobody looks (workspace-dashboard.tsx).
THEOREM NewsStaysPursued == Spec => []NewsIsPursued
<1>1. ClientInv => NewsIsPursued
  BY DEF ClientInv
<1> QED BY <1>1, ClientInvAlways, PTL

-------------------------------------------------------------------------------
(* AiRequests                                                                *)

RequestSteps == {"new", "matching", "putting", "running", "answered", "limited", "failed"}

\* Not counted yet; between its counts; admitted; going on to spend.
Waiting(r)  == req[r].step \in {"new", "matching"}
Counting(r) == req[r].step \in {"matching", "putting"}
Admitted(r) == req[r].step \in {"putting", "running", "answered", "failed"}
Underway(r) == req[r].step \in {"putting", "running"}

\* The turns a request may take, and the model calls it may have made.
TurnsOf(r) == IF KindOf[r] = "chat" THEN MaxTurns ELSE 4
Calls(r) == req[r].turn + (IF At(r, "failed") THEN 1 ELSE 0)

\* The requests behind a count, and the model calls they may have made, numbered.
Charged(k) == {r \in Requests : Admitted(r) /\ TrueKey(r, req[r].day) = k}
Units(k) == {u \in Charged(k) \X (1 .. Cost(k[1])) : u[2] <= Calls(u[1])}

Accounts(k) ==
  /\ IsFiniteSet(Charged(k)) /\ admitted[k] = Cardinality(Charged(k))
  /\ spent[k] <= Cardinality(Units(k))

\* No count runs ahead of the requests admitted.
Counts(k) == localCounts[k] <= admitted[k] /\ edge[k] <= admitted[k]

Counted(r) ==
  /\ Counting(r) => req[r].count <= admitted[TrueKey(r, req[r].day)]
  /\ At(r, "limited") => admitted[TrueKey(r, req[r].day)] >= Limit[BucketOf(r)]

Paced(r) ==
  /\ Waiting(r) => req[r].turn = 0
  /\ Underway(r) => req[r].turn < TurnsOf(r)

Inspected(r) ==
  /\ req[r].turn = 0 => used[r] = {}
  /\ used[r] # {} => "getOntology" \in used[r]
  /\ Underway(r) /\ req[r].turn # 0 /\ KindOf[r] # "explain" => "getOntology" \in used[r]

Orderly(r) == Counted(r) /\ Paced(r) /\ Inspected(r)

\* Without an edge cache the count in memory is exact.
InMemory ==
  /\ \A k \in Keys : localCounts[k] = admitted[k] /\ admitted[k] <= Limit[k[1]]
  /\ \A r \in Requests : ~Counting(r)

RequestsInv ==
  /\ RequestsTypeOK
  /\ \A r \in Requests : Orderly(r)
  /\ \A k \in Keys : Accounts(k) /\ Counts(k)
  /\ ~edgeCache => InMemory

-----------------------------------------------------------------------------
\* A request is counted under a key of its bucket.
LEMMA TrueKeyType ==
  ASSUME NEW r \in Requests, NEW day \in 0 .. MaxDay
  PROVE  /\ TrueKey(r, day) \in Keys /\ Key(r, day) = TrueKey(r, day)
         /\ TrueKey(r, day)[1] = BucketOf(r) /\ BucketOf(r) \in Buckets
<1>1. BucketOf(r) \in Buckets /\ VisitorOf[r] \in Visitors
  BY RequestsAssumption DEF RequestsAssumption, BucketOf, Buckets
<1> QED BY <1>1 DEF TrueKey, Key, Keys

LEMMA LimitType == ASSUME NEW b \in Buckets PROVE Limit[b] \in Nat /\ Limit[b] # 0 /\ Cost(b) \in Nat
<1>1. MaxTurns \in Nat
  BY RequestsAssumption, Zenon DEF RequestsAssumption
<1>2. Limit \in [Buckets -> Nat \ {0}]
  BY RequestsAssumption, Zenon DEF RequestsAssumption
<1> QED BY <1>1, <1>2 DEF Cost

LEMMA KeyBucket == ASSUME NEW k \in Keys PROVE k[1] \in Buckets
  BY DEF Keys

\* What a request of each kind may spend.
LEMMA TurnsBounded ==
  ASSUME NEW r \in Requests
  PROVE  TurnsOf(r) \in Nat /\ TurnsOf(r) # 0 /\ TurnsOf(r) <= Cost(BucketOf(r)) /\ Cost(BucketOf(r)) \in Nat
<1>1. MaxTurns \in Nat /\ MaxTurns # 0
  BY RequestsAssumption, Zenon DEF RequestsAssumption
<1>2. Cost("explain") = 4 /\ Cost("ask") \in Nat /\ Cost("ask") >= MaxTurns /\ Cost("ask") >= 4
  BY <1>1 DEF Cost
<1>3. CASE KindOf[r] = "chat"
  <2>1. TurnsOf(r) = MaxTurns /\ BucketOf(r) = "ask"
    BY <1>3 DEF TurnsOf, BucketOf
  <2> QED BY <1>1, <1>2, <2>1
<1>4. CASE KindOf[r] # "chat"
  <2>1. TurnsOf(r) = 4 /\ BucketOf(r) \in {"ask", "explain"}
    BY <1>4 DEF TurnsOf, BucketOf
  <2> QED BY <1>1, <1>2, <2>1
<1> QED BY <1>3, <1>4

LEMMA RequestFields ==
  ASSUME RequestsTypeOK, NEW r \in Requests
  PROVE  /\ req[r].step \in RequestSteps /\ req[r].day \in 0 .. MaxDay /\ req[r].day \in Nat
         /\ req[r].count \in Nat /\ req[r].turn \in Nat /\ req[r] \in Request
         /\ Calls(r) \in Nat /\ req[r].turn <= Calls(r) /\ (~At(r, "failed") => Calls(r) = req[r].turn)
         /\ MaxDay \in Nat
<1>1. req[r] \in Request
  BY DEF RequestsTypeOK
<1>2. /\ req[r].step \in RequestSteps /\ req[r].day \in 0 .. MaxDay
      /\ req[r].count \in Nat /\ req[r].turn \in Nat
  BY <1>1 DEF Request, RequestSteps
<1>3. Calls(r) = req[r].turn \/ (At(r, "failed") /\ Calls(r) = req[r].turn + 1)
  <2>1. CASE At(r, "failed")
    BY <1>2, <2>1 DEF Calls
  <2>2. CASE ~At(r, "failed")
    BY <1>2, <2>2 DEF Calls
  <2> QED BY <2>1, <2>2
<1>4. ~At(r, "failed") => Calls(r) = req[r].turn
  BY <1>2 DEF Calls
<1>5. MaxDay \in Nat
  BY RequestsAssumption, Zenon DEF RequestsAssumption
<1>6. req[r].day \in Nat
  BY <1>2, <1>5
<1>7. Calls(r) \in Nat /\ req[r].turn <= Calls(r)
  BY <1>2, <1>3
<1> QED BY <1>1, <1>2, <1>4, <1>5, <1>6, <1>7

\* A step of a request that changes its record to v.
LEMMA RecordMoves ==
  ASSUME RequestsTypeOK, NEW r \in Requests, NEW v \in Request, req' = [req EXCEPT ![r] = v]
  PROVE  req' \in [Requests -> Request] /\ req'[r] = v /\ \A q \in Requests \ {r} : req'[q] = req[q]
  BY DEF RequestsTypeOK

LEMMA Goes ==
  ASSUME RequestsTypeOK, NEW r \in Requests, NEW s \in RequestSteps, Go(r, s)
  PROVE  /\ req' \in [Requests -> Request] /\ \A q \in Requests \ {r} : req'[q] = req[q]
         /\ req'[r].step = s /\ req'[r].turn = req[r].turn + 1
         /\ req'[r].day = req[r].day /\ req'[r].count = req[r].count
<1>1. req[r] \in Request /\ req \in [Requests -> Request]
  BY DEF RequestsTypeOK
<1>5. PICK t \in Nat : t = req[r].turn + 1
  BY <1>1 DEF Request
<1>2. PICK v : v = [req[r] EXCEPT !.step = s, !.turn = t]
  OBVIOUS
<1>3. v.step = s /\ v.turn = t /\ v.day = req[r].day /\ v.count = req[r].count /\ v \in Request
  BY <1>1, <1>2 DEF Request, RequestSteps
<1>4. req' = [req EXCEPT ![r] = v]
  <2>1. req' = [req EXCEPT ![r].step = s, ![r].turn = t]
    BY <1>1, <1>5 DEF Go
  <2> QED BY <1>1, <1>2, <2>1 DEF Request
<1>6. req' \in [Requests -> Request] /\ req'[r] = v /\ \A q \in Requests \ {r} : req'[q] = req[q]
  BY <1>3, <1>4, RecordMoves
<1> QED BY <1>3, <1>5, <1>6, Zenon

LEMMA StepMoves ==
  ASSUME RequestsTypeOK, NEW r \in Requests, NEW s \in RequestSteps, req' = [req EXCEPT ![r].step = s]
  PROVE  /\ req' \in [Requests -> Request] /\ \A q \in Requests \ {r} : req'[q] = req[q]
         /\ req'[r].step = s /\ req'[r].turn = req[r].turn
         /\ req'[r].day = req[r].day /\ req'[r].count = req[r].count
<1>1. req[r] \in Request /\ req \in [Requests -> Request]
  BY DEF RequestsTypeOK
<1>2. PICK v : v = [req[r] EXCEPT !.step = s]
  OBVIOUS
<1>3. v.step = s /\ v.turn = req[r].turn /\ v.day = req[r].day /\ v.count = req[r].count /\ v \in Request
  BY <1>1, <1>2 DEF Request, RequestSteps
<1>4. req' = [req EXCEPT ![r] = v]
  BY <1>1, <1>2 DEF Request
<1> QED BY <1>3, <1>4, RecordMoves

\* The requests that do not move stay in order while the counts grow.
LEMMA OthersOrderly ==
  ASSUME RequestsInv, NEW r \in Requests, admitted' \in [Keys -> Nat],
         \A k \in Keys : admitted'[k] >= admitted[k],
         NEW q \in Requests, req'[q] = req[q], used'[q] = used[q]
  PROVE  Orderly(q)'
<1>0. RequestsTypeOK /\ Orderly(q)
  BY DEF RequestsInv
<1> DEFINE k == TrueKey(q, req[q].day)
<1>1. k \in Keys /\ req[q].count \in Nat /\ BucketOf(q) \in Buckets /\ req'[q].day = req[q].day /\ Limit[BucketOf(q)] \in Nat
  BY <1>0, RequestFields, TrueKeyType, LimitType
<1>2. admitted[k] \in Nat /\ admitted'[k] \in Nat /\ admitted'[k] >= admitted[k]
  BY <1>0, <1>1 DEF RequestsTypeOK
<1>3. TrueKey(q, req'[q].day) = k
  BY <1>1 DEF TrueKey, BucketOf
<1>4. req[q].count <= admitted[k] => req[q].count <= admitted'[k]
  BY <1>1, <1>2
<1>5. admitted[k] >= Limit[BucketOf(q)] => admitted'[k] >= Limit[BucketOf(q)]
  BY <1>1, <1>2
<1>6. Counted(q)'
  BY <1>0, <1>3, <1>4, <1>5, Zenon DEF Orderly, Counted, Counting, At
<1>7. Paced(q)' /\ Inspected(q)'
  BY <1>0, Zenon DEF Orderly, Paced, Inspected, Waiting, Underway
<1> QED BY <1>6, <1>7 DEF Orderly

-----------------------------------------------------------------------------
(* What is spent.                                                           *)

LEMMA UnitsOf ==
  ASSUME NEW k \in Keys, NEW S, IsFiniteSet(S), NEW U \in SUBSET (S \X (1 .. Cost(k[1])))
  PROVE  IsFiniteSet(U) /\ Cardinality(U) <= Cardinality(S) * Cost(k[1]) /\ Cardinality(U) \in Nat
<1> DEFINE C == Cost(k[1])
<1>1. C \in Nat
  BY KeyBucket, LimitType
<1>2. U \in SUBSET (S \X (1 .. C))
  OBVIOUS
<1> HIDE DEF C
<1>3. IsFiniteSet(1 .. C) /\ Cardinality(1 .. C) = C
  BY <1>1, FS_Interval
<1>4. IsFiniteSet(S \X (1 .. C)) /\ Cardinality(S \X (1 .. C)) = Cardinality(S) * C
  BY <1>3, FS_Product
<1> QED BY <1>2, <1>4, FS_Subset, FS_CardinalityType DEF C

LEMMA UnitsFinite ==
  ASSUME NEW k \in Keys, IsFiniteSet(Charged(k))
  PROVE  IsFiniteSet(Units(k)) /\ Cardinality(Units(k)) <= Cardinality(Charged(k)) * Cost(k[1])
         /\ Cardinality(Units(k)) \in Nat
  BY UnitsOf DEF Units

LEMMA UnitsFinitePrime ==
  ASSUME NEW k \in Keys, IsFiniteSet(Charged(k)')
  PROVE  IsFiniteSet(Units(k)') /\ Cardinality(Units(k)') \in Nat
<1>1. Units(k)' \in SUBSET (Charged(k)' \X (1 .. Cost(k[1])))
  BY DEF Units, Cost
<1> QED BY <1>1, UnitsOf

\* A set with one more element, at least.
LEMMA LargerSet ==
  ASSUME NEW S, NEW T, IsFiniteSet(T), S \subseteq T, NEW x \in T, x \notin S
  PROVE  Cardinality(S) \in Nat /\ Cardinality(T) \in Nat /\ Cardinality(S) + 1 <= Cardinality(T)
<1>1. IsFiniteSet(S)
  BY FS_Subset
<1> DEFINE U == S \cup {x}
<1>2. IsFiniteSet(U) /\ Cardinality(U) = Cardinality(S) + 1
  BY <1>1, FS_AddElement
<1>3. U \in SUBSET T
  OBVIOUS
<1> HIDE DEF U
<1>4. Cardinality(U) <= Cardinality(T)
  BY <1>3, FS_Subset
<1> QED BY <1>1, <1>2, <1>4, FS_CardinalityType

\* No request is charged anew, and what was spent stays spent.
LEMMA ChargesKept ==
  ASSUME RequestsInv, req' \in [Requests -> Request],
         \A q \in Requests : /\ Admitted(q)' <=> Admitted(q)
                             /\ Admitted(q) => req'[q].day = req[q].day /\ Calls(q) <= Calls(q)'
  PROVE  \A k \in Keys : Charged(k)' = Charged(k) /\ Units(k) \subseteq Units(k)'
<1> SUFFICES ASSUME NEW k \in Keys PROVE Charged(k)' = Charged(k) /\ Units(k) \subseteq Units(k)'
  OBVIOUS
<1>1. Charged(k)' = Charged(k)
  BY DEF Charged, TrueKey, BucketOf
<1>2. ASSUME NEW u \in Units(k) PROVE u[2] <= Calls(u[1])'
  <2>1. u[1] \in Requests /\ Admitted(u[1]) /\ u[2] \in Nat /\ u[2] <= Calls(u[1])
    BY DEF Units, Charged
  <2>2. Calls(u[1]) \in Nat
    BY <2>1, RequestFields DEF RequestsInv
  <2>3. Calls(u[1])' \in Nat
    <3>1. req'[u[1]] \in Request
      BY <2>1
    <3>2. req'[u[1]].turn \in Nat
      BY <3>1 DEF Request
    <3> QED BY <3>2 DEF Calls
  <2>4. Calls(u[1]) <= Calls(u[1])'
    BY <2>1
  <2> QED BY <2>1, <2>2, <2>3, <2>4
<1> QED BY <1>1, <1>2 DEF Units, Cost

LEMMA AccountsKept ==
  ASSUME RequestsInv, req' \in [Requests -> Request], UNCHANGED <<admitted, spent>>,
         \A q \in Requests : /\ Admitted(q)' <=> Admitted(q)
                             /\ Admitted(q) => req'[q].day = req[q].day /\ Calls(q) <= Calls(q)'
  PROVE  \A k \in Keys : Accounts(k)'
<1> SUFFICES ASSUME NEW k \in Keys PROVE Accounts(k)'
  OBVIOUS
<1>1. Accounts(k) /\ spent[k] \in Nat
  BY DEF RequestsInv, RequestsTypeOK
<1>2. Charged(k)' = Charged(k) /\ Units(k) \subseteq Units(k)'
  BY ChargesKept
<1>3. IsFiniteSet(Units(k)) /\ Cardinality(Units(k)) \in Nat
  BY <1>1, UnitsFinite DEF Accounts
<1>4. IsFiniteSet(Units(k)')
  BY <1>1, <1>2, UnitsFinitePrime DEF Accounts
<1>5. Cardinality(Units(k)) <= Cardinality(Units(k)') /\ Cardinality(Units(k)') \in Nat
  BY <1>2, <1>4, FS_Subset, FS_CardinalityType
<1>6. spent'[k] <= Cardinality(Units(k)')
  BY <1>1, <1>3, <1>5 DEF Accounts
<1> QED BY <1>1, <1>2, <1>6 DEF Accounts

\* A call of the model is one of those the request may make.
LEMMA AccountsSpent ==
  ASSUME RequestsInv, req' \in [Requests -> Request], admitted' = admitted, NEW r \in Requests,
         At(r, "running"), CallModel(r), Calls(r)' \in Nat, Calls(r) + 1 <= Calls(r)',
         \A q \in Requests : /\ Admitted(q)' <=> Admitted(q)
                             /\ Admitted(q) => req'[q].day = req[q].day /\ Calls(q) <= Calls(q)'
  PROVE  \A k \in Keys : Accounts(k)'
<1> DEFINE c == TrueKey(r, req[r].day)
           n == Calls(r) + 1
<1>0. RequestsTypeOK /\ Admitted(r) /\ Underway(r) /\ ~At(r, "failed")
  BY DEF RequestsInv, Admitted, Underway, At
<1>1. c \in Keys /\ c[1] = BucketOf(r) /\ Calls(r) = req[r].turn /\ Calls(r) \in Nat
  BY <1>0, RequestFields, TrueKeyType
<1>2. n \in 1 .. Cost(c[1])
  <2>1. req[r].turn < TurnsOf(r)
    BY <1>0 DEF RequestsInv, Orderly, Paced
  <2> QED BY <1>1, <2>1, TurnsBounded
<1>3. ASSUME NEW k \in Keys PROVE Accounts(k)'
  <2>1. Accounts(k) /\ spent \in [Keys -> Nat] /\ MaxSpent \in Nat
    BY RequestsAssumption, Zenon DEF RequestsInv, RequestsTypeOK, RequestsAssumption
  <2>2. Charged(k)' = Charged(k) /\ Units(k) \subseteq Units(k)'
    BY ChargesKept
  <2>3. IsFiniteSet(Units(k)) /\ Cardinality(Units(k)) \in Nat /\ IsFiniteSet(Units(k)') /\ Cardinality(Units(k)') \in Nat
    BY <2>1, <2>2, UnitsFinite, UnitsFinitePrime DEF Accounts
  <2>4. CASE k = c
    <3>1. <<r, n>> \in Units(k)' /\ <<r, n>> \notin Units(k)
      <4>1. r \in Charged(k)'
        BY <1>0, <2>2, <2>4 DEF Charged
      <4>2. n <= Calls(r)' /\ ~(n <= Calls(r))
        BY <1>1
      <4> HIDE DEF n
      <4>3. Cost(k[1])' = Cost(k[1])
        BY DEF Cost
      <4> QED BY <1>2, <2>4, <4>1, <4>2, <4>3 DEF Units
    <3>2. Cardinality(Units(k)) + 1 <= Cardinality(Units(k)')
      <4> DEFINE S == Units(k)
                 T == Units(k)'
      <4>1. IsFiniteSet(T) /\ S \subseteq T /\ <<r, n>> \in T /\ <<r, n>> \notin S
        BY <2>2, <2>3, <3>1
      <4> HIDE DEF S, T
      <4>2. Cardinality(S) + 1 <= Cardinality(T)
        BY <4>1, LargerSet
      <4> QED BY <4>2 DEF S, T
    <3>3. spent'[k] <= spent[k] + 1
      BY <2>1, <2>4 DEF CallModel
    <3>4. spent'[k] \in Nat
      BY <2>1, <2>4 DEF CallModel
    <3>5. spent'[k] <= Cardinality(Units(k)')
      BY <2>1, <2>3, <3>2, <3>3, <3>4 DEF Accounts
    <3> QED BY <2>1, <2>2, <3>5 DEF Accounts
  <2>5. CASE k # c
    <3>1. spent'[k] = spent[k] /\ spent[k] \in Nat
      BY <2>1, <2>5 DEF CallModel
    <3>2. Cardinality(Units(k)) <= Cardinality(Units(k)')
      BY <2>2, <2>3, FS_Subset
    <3>3. spent'[k] <= Cardinality(Units(k)')
      BY <2>1, <2>3, <3>1, <3>2 DEF Accounts
    <3> QED BY <2>1, <2>2, <3>3 DEF Accounts
  <2> QED BY <2>4, <2>5
<1> QED BY <1>3

\* A request admitted is charged, and has spent nothing.
LEMMA AccountsAdmitted ==
  ASSUME RequestsInv, req' \in [Requests -> Request], spent' = spent, NEW r \in Requests, NEW day \in 0 .. MaxDay,
         ~Admitted(r), Admitted(r)', req'[r].day = day,
         admitted' = [admitted EXCEPT ![TrueKey(r, day)] = @ + 1],
         \A q \in Requests \ {r} : req'[q] = req[q]
  PROVE  \A k \in Keys : Accounts(k)'
<1> DEFINE c == TrueKey(r, day)
<1>0. RequestsTypeOK /\ admitted \in [Keys -> Nat] /\ spent \in [Keys -> Nat]
  BY DEF RequestsInv, RequestsTypeOK
<1>1. c \in Keys
  BY TrueKeyType
<1>2. ASSUME NEW q \in Requests \ {r} PROVE /\ (Admitted(q)' <=> Admitted(q)) /\ Calls(q)' = Calls(q)
                                           /\ TrueKey(q, req[q].day)' = TrueKey(q, req[q].day)
  BY <1>2 DEF Admitted, Calls, TrueKey, BucketOf, At
<1>3. TrueKey(r, req[r].day)' = c
  BY DEF TrueKey, BucketOf
<1>4. ASSUME NEW k \in Keys PROVE Accounts(k)'
  <2>1. Accounts(k)
    BY DEF RequestsInv
  <2>2. Charged(k)' = IF k = c THEN Charged(k) \cup {r} ELSE Charged(k)
    <3>1. \A q \in Requests \ {r} : q \in Charged(k)' <=> q \in Charged(k)
      BY <1>2 DEF Charged
    <3>2. r \notin Charged(k) /\ (r \in Charged(k)' <=> k = c)
      BY <1>3 DEF Charged
    <3>3. Charged(k)' \subseteq Requests /\ Charged(k) \subseteq Requests
      BY DEF Charged
    <3> QED BY <3>1, <3>2, <3>3
  <2>3. r \notin Charged(k)
    BY DEF Charged
  <2>4. IsFiniteSet(Charged(k)') /\ admitted'[k] = Cardinality(Charged(k)')
    <3>1. CASE k = c
      <4> DEFINE S == Charged(k)
      <4>1. IsFiniteSet(S) /\ r \notin S /\ Charged(k)' = S \cup {r} /\ admitted[k] = Cardinality(S)
        BY <2>1, <2>2, <2>3, <3>1 DEF Accounts
      <4> HIDE DEF S
      <4>2. IsFiniteSet(S \cup {r}) /\ Cardinality(S \cup {r}) = Cardinality(S) + 1
        BY <4>1, FS_AddElement
      <4>3. admitted'[k] = admitted[k] + 1
        BY <1>0, <1>1, <3>1
      <4> QED BY <4>1, <4>2, <4>3
    <3>2. CASE k # c
      BY <1>0, <1>1, <2>1, <2>2, <3>2 DEF Accounts
    <3> QED BY <3>1, <3>2
  <2>5. Units(k) \subseteq Units(k)'
    <3>1. ASSUME NEW u \in Units(k) PROVE u \in Units(k)'
      <4>1. u[1] \in Charged(k) /\ u[1] \in Requests \ {r} /\ u[1] \in Charged(k)'
        BY <2>2, <2>3 DEF Units, Charged
      <4>2. Calls(u[1])' = Calls(u[1])
        BY <1>2, <4>1
      <4>3. Cost(k[1])' = Cost(k[1])
        BY DEF Cost
      <4> QED BY <4>1, <4>2, <4>3 DEF Units
    <3> QED BY <3>1
  <2>6. IsFiniteSet(Units(k)') /\ Cardinality(Units(k)') \in Nat /\ Cardinality(Units(k)) \in Nat
    BY <2>1, <2>4, UnitsFinite, UnitsFinitePrime DEF Accounts
  <2>7. Cardinality(Units(k)) <= Cardinality(Units(k)')
    BY <2>5, <2>6, FS_Subset
  <2>8. spent'[k] <= Cardinality(Units(k)')
    BY <1>0, <2>1, <2>6, <2>7 DEF Accounts
  <2> QED BY <2>4, <2>8 DEF Accounts
<1> QED BY <1>4

-----------------------------------------------------------------------------
(* The steps.                                                               *)

\* What a step that neither counts nor spends has to show of its request.
LEMMA StepKeeps ==
  ASSUME RequestsInv, NEW r \in Requests, req' \in [Requests -> Request],
         UNCHANGED <<edgeCache, today, localCounts, admitted>>,
         edge' \in [Keys -> Nat], \A k \in Keys : edge'[k] <= admitted[k],
         spent' \in [Keys -> Nat], \A k \in Keys : Accounts(k)',
         used' \in [Requests -> SUBSET Tools],
         \A q \in Requests \ {r} : req'[q] = req[q] /\ used'[q] = used[q],
         Orderly(r)', Counting(r)' => edgeCache
  PROVE  RequestsInv'
<1>1. RequestsTypeOK'
  BY DEF RequestsInv, RequestsTypeOK
<1>2. \A k \in Keys : Counts(k)'
  BY DEF RequestsInv, Counts
<1>3. ASSUME NEW q \in Requests PROVE Orderly(q)'
  <2>1. admitted' \in [Keys -> Nat] /\ \A k \in Keys : admitted'[k] >= admitted[k]
    BY DEF RequestsInv, RequestsTypeOK
  <2>2. CASE q # r
    BY <2>1, <2>2, OthersOrderly
  <2> QED BY <2>2
<1>4. ~edgeCache' => InMemory'
  BY DEF RequestsInv, InMemory, Counting
<1> QED BY <1>1, <1>2, <1>3, <1>4 DEF RequestsInv

LEMMA ConsumeKeeps ==
  ASSUME RequestsInv, NEW r \in Requests, NEW day \in 0 .. MaxDay, NEW count \in Nat,
         NEW next \in {"putting", "running"}, Waiting(r), Consume(r, day, count, next),
         At(r, "matching") => day = req[r].day,
         IF edgeCache THEN count <= admitted[TrueKey(r, day)] /\ next = "putting"
                      ELSE count = localCounts[TrueKey(r, day)] /\ next = "running",
         UNCHANGED <<edgeCache, today, edge, used, spent>>
  PROVE  RequestsInv'
<1> DEFINE c == TrueKey(r, day)
           b == BucketOf(r)
<1>0. RequestsTypeOK /\ Orderly(r) /\ \A k \in Keys : Counts(k)
  BY DEF RequestsInv
<1>1. c \in Keys /\ Key(r, day) = c /\ c[1] = b /\ b \in Buckets /\ Limit[b] \in Nat
  BY TrueKeyType, LimitType
<1>2. localCounts \in [Keys -> Nat] /\ edge \in [Keys -> Nat] /\ admitted \in [Keys -> Nat] /\ spent \in [Keys -> Nat]
  BY <1>0 DEF RequestsTypeOK
<1>3. count <= admitted[c]
  BY <1>0, <1>1, <1>2 DEF Counts
<1>4. req[r].turn = 0 /\ used[r] = {} /\ ~Admitted(r)
  BY <1>0 DEF Orderly, Paced, Inspected, Waiting, Admitted
<1>5. CASE Spends(r, count)
  <2>1. /\ localCounts' = [localCounts EXCEPT ![c] = count + 1]
        /\ admitted' = [admitted EXCEPT ![c] = @ + 1]
        /\ req' = [req EXCEPT ![r] = [step |-> next, day |-> day, count |-> count + 1, turn |-> 0]]
    BY <1>1, <1>5 DEF Consume
  <2>2. [step |-> next, day |-> day, count |-> count + 1, turn |-> 0] \in Request
    BY DEF Request
  <2>3. /\ req' \in [Requests -> Request] /\ \A q \in Requests \ {r} : req'[q] = req[q]
        /\ req'[r].step = next /\ req'[r].day = day /\ req'[r].count = count + 1 /\ req'[r].turn = 0
    BY <1>0, <2>1, <2>2, RecordMoves
  <2>4. /\ admitted' \in [Keys -> Nat] /\ localCounts' \in [Keys -> Nat]
        /\ admitted'[c] = admitted[c] + 1 /\ localCounts'[c] = count + 1
        /\ \A k \in Keys \ {c} : admitted'[k] = admitted[k] /\ localCounts'[k] = localCounts[k]
        /\ \A k \in Keys : admitted'[k] >= admitted[k]
    BY <1>1, <1>2, <2>1
  <2>5. RequestsTypeOK'
    BY <1>0, <2>3, <2>4 DEF RequestsTypeOK
  <2>6. \A k \in Keys : Accounts(k)'
    <3>1. Admitted(r)'
      BY <2>3 DEF Admitted
    <3> QED BY <1>4, <2>1, <2>3, <3>1, AccountsAdmitted
  <2>7. \A k \in Keys : Counts(k)'
    <3>1. \A k \in Keys : localCounts[k] <= admitted[k] /\ edge[k] <= admitted[k]
      BY <1>0 DEF Counts
    <3>2. edge' = edge
      OBVIOUS
    <3> QED BY <1>2, <1>3, <2>4, <3>1, <3>2 DEF Counts
  <2>8. ASSUME NEW q \in Requests PROVE Orderly(q)'
    <3>1. CASE q # r
      BY <2>3, <2>4, <3>1, OthersOrderly
    <3>2. CASE q = r
      <4>1. TrueKey(r, req'[r].day) = c
        BY <2>3
      <4>2. req'[r].count <= admitted'[c]
        BY <1>1, <1>2, <1>3, <2>3, <2>4
      <4>3. Counted(r)'
        <5>1. TrueKey(r, req[r].day)' = c
          BY <2>3 DEF TrueKey, BucketOf
        <5>2. req'[r].step # "limited"
          BY <2>3
        <5> QED BY <4>2, <5>1, <5>2 DEF Counted, At
      <4>4. 0 < TurnsOf(r) /\ TurnsOf(r)' = TurnsOf(r)
        BY TurnsBounded DEF TurnsOf
      <4>5. Paced(r)'
        BY <2>3, <4>4 DEF Paced
      <4>6. Inspected(r)'
        BY <1>4, <2>3 DEF Inspected
      <4> QED BY <3>2, <4>3, <4>5, <4>6 DEF Orderly
    <3> QED BY <3>1, <3>2
  <2>9. ~edgeCache' => InMemory'
    <3> SUFFICES ASSUME ~edgeCache PROVE InMemory'
      OBVIOUS
    <3>1. InMemory /\ count = localCounts[c] /\ next = "running"
      BY DEF RequestsInv
    <3>2. \A q \in Requests : ~Counting(q)'
      <4>1. ~Counting(r)'
        BY <2>3, <3>1 DEF Counting
      <4>2. \A q \in Requests \ {r} : ~Counting(q)'
        BY <2>3, <3>1 DEF Counting, InMemory
      <4> QED BY <4>1, <4>2
    <3>3. count < Limit[b]
      BY <1>5 DEF Spends
    <3>4. ASSUME NEW k \in Keys PROVE localCounts'[k] = admitted'[k] /\ admitted'[k] <= Limit[k[1]]
      <4>1. localCounts[k] = admitted[k] /\ admitted[k] <= Limit[k[1]]
        BY <3>1 DEF InMemory
      <4>2. CASE k = c
        <5>1. localCounts[c] = admitted[c]
          BY <4>1, <4>2
        <5>2. Limit[k[1]] = Limit[b]
          BY <1>1, <4>2
        <5>3. admitted[c] + 1 <= Limit[b]
          BY <1>1, <1>2, <3>1, <3>3, <5>1
        <5> QED BY <2>4, <3>1, <4>2, <5>1, <5>2, <5>3
      <4>3. CASE k # c
        BY <2>4, <4>1, <4>3
      <4> QED BY <4>2, <4>3
    <3> QED BY <3>2, <3>4 DEF InMemory
  <2> QED BY <2>5, <2>6, <2>7, <2>8, <2>9 DEF RequestsInv
<1>6. CASE ~Spends(r, count)
  <2>1. req' = [req EXCEPT ![r].step = "limited", ![r].day = day] /\ UNCHANGED <<localCounts, admitted>>
    BY <1>6 DEF Consume
  <2>2. PICK v : v = [req[r] EXCEPT !.step = "limited", !.day = day]
    OBVIOUS
  <2>3. v \in Request /\ v.step = "limited" /\ v.day = day /\ v.turn = req[r].turn /\ req' = [req EXCEPT ![r] = v]
    BY <1>0, <2>1, <2>2 DEF RequestsTypeOK, Request
  <2>4. req' \in [Requests -> Request] /\ req'[r] = v /\ \A q \in Requests \ {r} : req'[q] = req[q]
    BY <1>0, <2>3, RecordMoves
  <2>5. \A k \in Keys : Accounts(k)'
    <3>1. ASSUME NEW q \in Requests PROVE /\ Admitted(q)' <=> Admitted(q)
                                          /\ Admitted(q) => req'[q].day = req[q].day /\ Calls(q) <= Calls(q)'
      <4>1. CASE q = r
        BY <1>4, <2>3, <2>4, <4>1 DEF Admitted
      <4>2. CASE q # r
        <5>1. req'[q] = req[q]
          BY <2>4, <4>2
        <5>2. Calls(q)' = Calls(q) /\ Calls(q) \in Nat
          BY <1>0, <5>1, RequestFields DEF Calls, At
        <5> QED BY <5>1, <5>2 DEF Admitted
      <4> QED BY <4>1, <4>2
    <3> QED BY <2>1, <2>4, <3>1, AccountsKept
  <2>6. Orderly(r)'
    <3>1. TrueKey(r, req[r].day)' = c /\ Limit[BucketOf(r)]' = Limit[b]
      BY <2>3, <2>4 DEF TrueKey, BucketOf
    <3>2. admitted[c] >= Limit[b]
      BY <1>1, <1>2, <1>3, <1>6 DEF Spends
    <3>3. Counted(r)'
      BY <2>1, <2>3, <2>4, <3>1, <3>2 DEF Counted, Counting, At
    <3>4. Paced(r)'
      BY <2>3, <2>4 DEF Paced, Waiting, Underway
    <3>5. Inspected(r)'
      BY <1>4, <2>3, <2>4 DEF Inspected
    <3> QED BY <3>3, <3>4, <3>5 DEF Orderly
  <2>7. edge' \in [Keys -> Nat] /\ (\A k \in Keys : edge'[k] <= admitted[k]) /\ used' \in [Requests -> SUBSET Tools]
    BY <1>0, <1>2 DEF Counts, RequestsTypeOK
  <2>8. ~Counting(r)'
    BY <2>3, <2>4 DEF Counting
  <2> QED BY <1>2, <2>1, <2>4, <2>5, <2>6, <2>7, <2>8, StepKeeps
<1> QED BY <1>5, <1>6

LEMMA CountInMemoryKeeps ==
  ASSUME RequestsInv, NEW r \in Requests, CountInMemory(r)
  PROVE  RequestsInv'
<1>1. RequestsTypeOK /\ today \in 0 .. MaxDay /\ localCounts \in [Keys -> Nat]
  BY DEF RequestsInv, RequestsTypeOK
<1>2. TrueKey(r, today) \in Keys /\ Key(r, today) = TrueKey(r, today)
  BY <1>1, TrueKeyType
<1>3. Waiting(r) /\ ~At(r, "matching") /\ ~edgeCache
  BY DEF CountInMemory, Waiting, At
<1>4. Consume(r, today, localCounts[TrueKey(r, today)], "running") /\ UNCHANGED <<edgeCache, today, edge, used, spent>>
  BY <1>2 DEF CountInMemory
<1> QED BY <1>1, <1>2, <1>3, <1>4, ConsumeKeeps

LEMMA MatchKeeps ==
  ASSUME RequestsInv, NEW r \in Requests, Match(r)
  PROVE  RequestsInv'
<1> DEFINE c == TrueKey(r, req[r].day)
<1>0. RequestsTypeOK /\ Orderly(r) /\ \A k \in Keys : Counts(k)
  BY DEF RequestsInv
<1>1. req[r].day \in 0 .. MaxDay /\ req[r].count \in Nat
  BY <1>0, RequestFields
<1>2. c \in Keys /\ Key(r, req[r].day) = c
  BY <1>1, TrueKeyType
<1>3. PICK stored \in {edge[c], 0} : Consume(r, req[r].day, IF stored = 0 THEN req[r].count ELSE stored, "putting")
  BY <1>2 DEF Match
<1> DEFINE count == IF stored = 0 THEN req[r].count ELSE stored
<1>4. Waiting(r) /\ Counting(r)
  BY DEF Match, Waiting, Counting, At
<1>5. edgeCache
  BY <1>4 DEF RequestsInv, InMemory
<1>6. edge[c] \in Nat /\ edge[c] <= admitted[c] /\ req[r].count <= admitted[c]
  BY <1>0, <1>2, <1>4 DEF RequestsTypeOK, Counts, Orderly, Counted
<1>7. count \in Nat /\ count <= admitted[c]
  BY <1>1, <1>3, <1>6
<1>8. Consume(r, req[r].day, count, "putting") /\ UNCHANGED <<edgeCache, today, edge, used, spent>>
  BY <1>3 DEF Match
<1> HIDE DEF count
<1> QED BY <1>1, <1>4, <1>5, <1>7, <1>8, ConsumeKeeps

\* A request that is not admitted yet, or stays so, and calls nothing.
LEMMA StillCharged ==
  ASSUME RequestsInv, NEW r \in Requests, req' \in [Requests -> Request],
         \A q \in Requests \ {r} : req'[q] = req[q],
         Admitted(r)' <=> Admitted(r),
         Admitted(r) => req'[r].day = req[r].day /\ Calls(r) <= Calls(r)'
  PROVE  \A q \in Requests : /\ Admitted(q)' <=> Admitted(q)
                             /\ Admitted(q) => req'[q].day = req[q].day /\ Calls(q) <= Calls(q)'
<1>1. ASSUME NEW q \in Requests \ {r} PROVE /\ Admitted(q)' <=> Admitted(q)
                                            /\ req'[q].day = req[q].day /\ Calls(q) <= Calls(q)'
  <2>1. req'[q] = req[q]
    OBVIOUS
  <2>2. Calls(q)' = Calls(q) /\ Calls(q) \in Nat
    BY <2>1, RequestFields DEF Calls, At, RequestsInv
  <2> QED BY <2>1, <2>2 DEF Admitted
<1> QED BY <1>1

LEMMA ArriveKeeps ==
  ASSUME RequestsInv, NEW r \in Requests, Arrive(r)
  PROVE  RequestsInv'
<1> DEFINE c == TrueKey(r, today)
<1>0. RequestsTypeOK /\ Orderly(r) /\ \A k \in Keys : Counts(k)
  BY DEF RequestsInv
<1>1. /\ localCounts \in [Keys -> Nat] /\ admitted \in [Keys -> Nat] /\ edge \in [Keys -> Nat] /\ spent \in [Keys -> Nat]
      /\ used \in [Requests -> SUBSET Tools] /\ today \in 0 .. MaxDay
  BY <1>0 DEF RequestsTypeOK
<1>2. c \in Keys /\ Key(r, today) = c
  BY <1>1, TrueKeyType
<1> DEFINE v == [step |-> "matching", day |-> today, count |-> localCounts[c], turn |-> 0]
<1>3. v \in Request
  BY <1>1, <1>2 DEF Request
<1>4. req' = [req EXCEPT ![r] = v] /\ edgeCache /\ UNCHANGED <<edgeCache, today, countVars, used, admitted, spent>>
  BY <1>2 DEF Arrive
<1>5. req' \in [Requests -> Request] /\ req'[r] = v /\ \A q \in Requests \ {r} : req'[q] = req[q]
  BY <1>0, <1>3, <1>4, RecordMoves
<1>6. Waiting(r) /\ ~Admitted(r) /\ ~Admitted(r)'
  BY <1>5 DEF Arrive, Waiting, Admitted, At
<1>7. \A k \in Keys : Accounts(k)'
  BY <1>4, <1>5, <1>6, StillCharged, AccountsKept
<1>8. used[r] = {}
  BY <1>0, <1>6 DEF Orderly, Paced, Inspected
<1>9. Orderly(r)'
  <2>1. TrueKey(r, req[r].day)' = c
    BY <1>5 DEF TrueKey, BucketOf
  <2>2. localCounts[c] <= admitted'[c]
    BY <1>0, <1>2, <1>4 DEF Counts
  <2>3. Counted(r)' /\ Paced(r)' /\ Inspected(r)'
    BY <1>4, <1>5, <1>8, <2>1, <2>2 DEF Counted, Paced, Inspected, Counting, Waiting, Underway, At
  <2> QED BY <2>3 DEF Orderly
<1>10. \A k \in Keys : edge'[k] <= admitted[k]
  BY <1>0, <1>4 DEF Counts, countVars
<1> QED BY <1>1, <1>4, <1>5, <1>7, <1>9, <1>10, StepKeeps DEF countVars

LEMMA PutKeeps ==
  ASSUME RequestsInv, NEW r \in Requests, Put(r)
  PROVE  RequestsInv'
<1> DEFINE c == TrueKey(r, req[r].day)
<1>0. RequestsTypeOK /\ Orderly(r) /\ \A k \in Keys : Counts(k)
  BY DEF RequestsInv
<1>1. /\ localCounts \in [Keys -> Nat] /\ admitted \in [Keys -> Nat] /\ edge \in [Keys -> Nat] /\ spent \in [Keys -> Nat]
      /\ used \in [Requests -> SUBSET Tools]
  BY <1>0 DEF RequestsTypeOK
<1>2. c \in Keys /\ Key(r, req[r].day) = c /\ req[r].count \in Nat /\ req[r].turn \in Nat
  BY <1>0, TrueKeyType, RequestFields
<1>3. At(r, "putting") /\ Counting(r) /\ Underway(r) /\ Admitted(r) /\ ~At(r, "failed") /\ ~Waiting(r)
  BY DEF Put, At, Counting, Underway, Admitted, Waiting
<1>4. /\ edge' = [edge EXCEPT ![c] = req[r].count] /\ req' = [req EXCEPT ![r].step = "running"]
      /\ UNCHANGED <<edgeCache, today, localCounts, used, admitted, spent>>
  BY <1>2 DEF Put
<1>5. /\ req' \in [Requests -> Request] /\ \A q \in Requests \ {r} : req'[q] = req[q]
      /\ req'[r].step = "running" /\ req'[r].turn = req[r].turn
      /\ req'[r].day = req[r].day /\ req'[r].count = req[r].count
  BY <1>0, <1>4, StepMoves DEF RequestSteps
<1>6. Admitted(r)' /\ Underway(r)' /\ ~Counting(r)' /\ ~Waiting(r)' /\ ~At(r, "limited")' /\ ~At(r, "failed")'
  BY <1>5 DEF Admitted, Underway, Counting, Waiting, At
<1>7. Calls(r)' = Calls(r) /\ Calls(r) \in Nat
  BY <1>0, <1>2, <1>3, <1>5, <1>6, RequestFields DEF Calls
<1>8. \A k \in Keys : Accounts(k)'
  BY <1>3, <1>4, <1>5, <1>6, <1>7, StillCharged, AccountsKept
<1>9. req[r].count <= admitted[c]
  BY <1>0, <1>3 DEF Orderly, Counted
<1>10. edge' \in [Keys -> Nat] /\ \A k \in Keys : edge'[k] <= admitted[k]
  BY <1>0, <1>1, <1>2, <1>4, <1>9 DEF Counts
<1>11. Orderly(r)'
  BY <1>0, <1>3, <1>4, <1>5, <1>6, Zenon DEF Orderly, Counted, Paced, Inspected, TurnsOf
<1> QED BY <1>1, <1>4, <1>5, <1>6, <1>8, <1>10, <1>11, StepKeeps

\* A call of the model by a request that goes on to step s.
LEMMA CallKeeps ==
  ASSUME RequestsInv, NEW r \in Requests, NEW s \in {"running", "answered", "failed"},
         At(r, "running"), CallModel(r), Go(r, s), s = "running" => req[r].turn + 1 < TurnsOf(r),
         used' \in [Requests -> SUBSET Tools], \A q \in Requests \ {r} : used'[q] = used[q],
         used'[r] # {} => "getOntology" \in used'[r],
         s = "running" /\ KindOf[r] # "explain" => "getOntology" \in used'[r],
         UNCHANGED <<edgeCache, today, countVars, admitted>>
  PROVE  RequestsInv'
<1>0. RequestsTypeOK /\ Orderly(r) /\ \A k \in Keys : Counts(k)
  BY DEF RequestsInv
<1>1. edge \in [Keys -> Nat] /\ spent \in [Keys -> Nat] /\ spent' \in [Keys -> Nat]
  <2>1. TrueKey(r, req[r].day) \in Keys
    BY <1>0, TrueKeyType, RequestFields
  <2>2. edge \in [Keys -> Nat] /\ spent \in [Keys -> Nat]
    BY <1>0 DEF RequestsTypeOK
  <2> QED BY <2>1, <2>2 DEF CallModel
<1>2. /\ req' \in [Requests -> Request] /\ \A q \in Requests \ {r} : req'[q] = req[q]
      /\ req'[r].step = s /\ req'[r].turn = req[r].turn + 1
      /\ req'[r].day = req[r].day /\ req'[r].count = req[r].count /\ req[r].turn \in Nat
  BY <1>0, Goes, RequestFields DEF RequestSteps
<1>3. Admitted(r) /\ Underway(r) /\ ~At(r, "failed")
  BY DEF At, Admitted, Underway
<1>4. Admitted(r)' /\ (Underway(r)' => s = "running") /\ ~Counting(r)' /\ ~Waiting(r)' /\ ~At(r, "limited")'
  BY <1>2 DEF Admitted, Underway, Counting, Waiting, At
<1>5. Calls(r)' \in Nat /\ Calls(r) + 1 <= Calls(r)' /\ Calls(r) <= Calls(r)'
  <2>1. Calls(r) = req[r].turn
    BY <1>0, <1>3, RequestFields
  <2>2. PICK n \in Nat : n = req[r].turn + 1
    BY <1>2
  <2>3. req'[r].turn = n
    BY <1>2, <2>2
  <2>4. Calls(r)' = n \/ Calls(r)' = n + 1
    <3>1. CASE At(r, "failed")'
      BY <2>3, <3>1 DEF Calls
    <3>2. CASE ~At(r, "failed")'
      BY <2>3, <3>2 DEF Calls
    <3> QED BY <3>1, <3>2
  <2> QED BY <1>2, <2>1, <2>2, <2>4
<1>6. \A q \in Requests : /\ Admitted(q)' <=> Admitted(q)
                          /\ Admitted(q) => req'[q].day = req[q].day /\ Calls(q) <= Calls(q)'
  BY <1>2, <1>3, <1>4, <1>5, StillCharged
<1>7. \A k \in Keys : Accounts(k)'
  BY <1>2, <1>5, <1>6, AccountsSpent
<1>8. Orderly(r)'
  <2>1. Counted(r)'
    BY <1>4 DEF Counted
  <2>2. Paced(r)'
    <3>1. TurnsOf(r)' = TurnsOf(r)
      BY DEF TurnsOf
    <3>2. Underway(r)' => req'[r].turn < TurnsOf(r)
      BY <1>2, <1>4
    <3> QED BY <1>4, <3>1, <3>2 DEF Paced
  <2>3. Inspected(r)'
    <3>1. req'[r].turn # 0
      BY <1>2
    <3> QED BY <1>4, <3>1 DEF Inspected
  <2> QED BY <2>1, <2>2, <2>3 DEF Orderly
<1>9. \A k \in Keys : edge'[k] <= admitted[k]
  BY <1>0 DEF Counts, countVars
<1>10. edge' \in [Keys -> Nat] /\ localCounts' = localCounts
  BY <1>1 DEF countVars
<1> QED BY <1>1, <1>2, <1>4, <1>7, <1>8, <1>9, <1>10, StepKeeps

\* The tools a call adds to those of r.
LEMMA ToolsCalled ==
  ASSUME RequestsTypeOK, NEW r \in Requests, NEW tools \in SUBSET Tools, Call(r, tools)
  PROVE  /\ used' \in [Requests -> SUBSET Tools] /\ used'[r] = used[r] \cup tools
         /\ \A q \in Requests \ {r} : used'[q] = used[q]
  BY DEF RequestsTypeOK, Call

LEMMA ChatKeeps ==
  ASSUME RequestsInv, NEW r \in Requests, Chat(r)
  PROVE  RequestsInv'
<1>0. RequestsTypeOK /\ Inspected(r) /\ used \in [Requests -> SUBSET Tools] /\ req[r].turn \in Nat
  BY RequestFields DEF RequestsInv, Orderly, RequestsTypeOK
<1>1. /\ KindOf[r] # "explain" /\ At(r, "running") /\ Underway(r) /\ CallModel(r)
      /\ UNCHANGED <<edgeCache, today, countVars, admitted>>
  BY DEF Chat, Underway, At
<1>2. TurnsOf(r) = MaxTurns
  BY DEF Chat, TurnsOf
<1>3. CASE Go(r, "answered") /\ UNCHANGED used
  BY <1>0, <1>1, <1>3, CallKeeps DEF Inspected
<1>4. ASSUME NEW tools \in SUBSET Declared(r), tools # {}, Call(r, tools), NextTurn(r) PROVE RequestsInv'
  <2>1. tools \subseteq Tools
    BY <1>4, RequestsAssumption, Zenon DEF Declared, RequestsAssumption
  <2>2. /\ used' \in [Requests -> SUBSET Tools] /\ used'[r] = used[r] \cup tools
        /\ \A q \in Requests \ {r} : used'[q] = used[q]
    BY <1>0, <1>4, <2>1, ToolsCalled
  <2>3. "getOntology" \in used'[r]
    <3>1. CASE req[r].turn = 0
      BY <1>4, <2>2, <3>1 DEF Declared
    <3>2. CASE req[r].turn # 0
      BY <1>0, <1>1, <2>2, <3>2 DEF Inspected
    <3> QED BY <3>1, <3>2
  <2>4. PICK s \in {"running", "failed"} : Go(r, s) /\ (s = "running" => req[r].turn + 1 < MaxTurns)
    BY <1>4 DEF NextTurn
  <2> QED BY <1>1, <1>2, <2>2, <2>3, <2>4, CallKeeps
<1> QED BY <1>3, <1>4 DEF Chat

LEMMA ProposeKeeps ==
  ASSUME RequestsInv, NEW r \in Requests, Propose(r)
  PROVE  RequestsInv'
<1>0. RequestsTypeOK /\ Inspected(r) /\ used \in [Requests -> SUBSET Tools] /\ req[r].turn \in Nat
  BY RequestFields DEF RequestsInv, Orderly, RequestsTypeOK
<1>1. /\ KindOf[r] # "explain" /\ At(r, "running") /\ Underway(r) /\ CallModel(r)
      /\ UNCHANGED <<edgeCache, today, countVars, admitted>>
  BY DEF Propose, Underway, At
<1>2. TurnsOf(r) = 4 /\ Len(Proposing) = 3
  BY DEF Propose, TurnsOf, Proposing
<1>3. CASE ~(req[r].turn < Len(Proposing))
  <2>1. Go(r, "answered") /\ UNCHANGED used
    BY <1>3 DEF Propose
  <2> QED BY <1>0, <1>1, <2>1, CallKeeps DEF Inspected
<1>4. CASE req[r].turn < Len(Proposing)
  <2>0. req[r].turn \in 0 .. 2 /\ req[r].turn + 1 < 4
    BY <1>0, <1>2, <1>4
  <2> DEFINE tool == Proposing[req[r].turn + 1]
  <2>1. tool \in {"getOntology", "getSensors", "getDevices"} /\ (req[r].turn = 0 => tool = "getOntology")
    <3>1. Proposing[1] = "getOntology" /\ Proposing[2] = "getSensors" /\ Proposing[3] = "getDevices"
      BY DEF Proposing
    <3>2. req[r].turn = 0 \/ req[r].turn = 1 \/ req[r].turn = 2
      BY <2>0
    <3> QED BY <3>1, <3>2
  <2>2. Call(r, {tool}) /\ Go(r, "running")
    BY <1>4 DEF Propose
  <2>3. {tool} \in SUBSET Tools
    BY <2>1, RequestsAssumption, Zenon DEF RequestsAssumption
  <2> HIDE DEF tool
  <2>4. /\ used' \in [Requests -> SUBSET Tools] /\ used'[r] = used[r] \cup {tool}
        /\ \A q \in Requests \ {r} : used'[q] = used[q]
    BY <1>0, <2>2, <2>3, ToolsCalled
  <2>5. "getOntology" \in used'[r]
    BY <1>0, <1>1, <2>1, <2>4 DEF Inspected
  <2> QED BY <1>1, <1>2, <2>0, <2>2, <2>4, <2>5, CallKeeps
<1> QED BY <1>3, <1>4

LEMMA ExplainKeeps ==
  ASSUME RequestsInv, NEW r \in Requests, Explain(r)
  PROVE  RequestsInv'
<1>0. RequestsTypeOK /\ Inspected(r) /\ used \in [Requests -> SUBSET Tools] /\ req[r].turn \in Nat
  BY RequestFields DEF RequestsInv, Orderly, RequestsTypeOK
<1>1. /\ KindOf[r] = "explain" /\ At(r, "running") /\ CallModel(r)
      /\ UNCHANGED <<edgeCache, today, countVars, admitted, used>>
  BY DEF Explain
<1>2. TurnsOf(r) = 4
  BY <1>1 DEF TurnsOf
<1>3. PICK s \in {"running", "answered"} : Go(r, s) /\ (s = "running" => req[r].turn < 3)
  BY DEF Explain
<1>4. s = "running" => req[r].turn + 1 < TurnsOf(r)
  BY <1>0, <1>2, <1>3
<1> QED BY <1>0, <1>1, <1>3, <1>4, CallKeeps DEF Inspected

LEMMA FailKeeps ==
  ASSUME RequestsInv, NEW r \in Requests, RequestFails(r)
  PROVE  RequestsInv'
<1>0. RequestsTypeOK /\ Orderly(r) /\ \A k \in Keys : Counts(k)
  BY DEF RequestsInv
<1>1. /\ edge \in [Keys -> Nat] /\ spent \in [Keys -> Nat] /\ used \in [Requests -> SUBSET Tools]
      /\ TrueKey(r, req[r].day) \in Keys /\ req[r].turn \in Nat
  BY <1>0, TrueKeyType, RequestFields DEF RequestsTypeOK
<1>2. At(r, "running") /\ UNCHANGED <<edgeCache, today, countVars, used, admitted>> /\ req' = [req EXCEPT ![r].step = "failed"]
  BY DEF RequestFails
<1>3. /\ req' \in [Requests -> Request] /\ \A q \in Requests \ {r} : req'[q] = req[q]
      /\ req'[r].step = "failed" /\ req'[r].turn = req[r].turn
      /\ req'[r].day = req[r].day /\ req'[r].count = req[r].count
  BY <1>0, <1>2, StepMoves DEF RequestSteps
<1>4. Admitted(r) /\ ~At(r, "failed")
  BY <1>2 DEF At, Admitted
<1>5. Admitted(r)' /\ ~Underway(r)' /\ ~Counting(r)' /\ ~Waiting(r)' /\ ~At(r, "limited")' /\ At(r, "failed")'
  BY <1>3 DEF Admitted, Underway, Counting, Waiting, At
<1>6. Calls(r)' = Calls(r) + 1 /\ Calls(r) \in Nat
  <2>1. Calls(r) = req[r].turn
    BY <1>0, <1>4, RequestFields
  <2>2. Calls(r)' = req'[r].turn + 1
    BY <1>5 DEF Calls
  <2> QED BY <1>1, <1>3, <2>1, <2>2
<1>7. \A q \in Requests : /\ Admitted(q)' <=> Admitted(q)
                          /\ Admitted(q) => req'[q].day = req[q].day /\ Calls(q) <= Calls(q)'
  BY <1>3, <1>4, <1>5, <1>6, StillCharged
<1>8. (\A k \in Keys : Accounts(k)') /\ spent' \in [Keys -> Nat]
  <2>1. CASE CallModel(r)
    <3>1. \A k \in Keys : Accounts(k)'
      BY <1>2, <1>3, <1>6, <1>7, <2>1, AccountsSpent
    <3> QED BY <1>1, <2>1, <3>1 DEF CallModel
  <2>2. CASE UNCHANGED spent
    BY <1>1, <1>2, <1>3, <1>7, <2>2, AccountsKept
  <2> QED BY <2>1, <2>2 DEF RequestFails
<1>9. Orderly(r)'
  BY <1>0, <1>2, <1>3, <1>5, Zenon DEF Orderly, Counted, Paced, Inspected
<1>10. edge' \in [Keys -> Nat] /\ localCounts' = localCounts /\ \A k \in Keys : edge'[k] <= admitted[k]
  BY <1>0, <1>1, <1>2 DEF Counts, countVars
<1> QED BY <1>1, <1>2, <1>3, <1>5, <1>8, <1>9, <1>10, StepKeeps

LEMMA NextDayKeeps ==
  ASSUME RequestsInv, NextDay
  PROVE  RequestsInv'
<1>1. today' \in 0 .. MaxDay
  <2>1. today \in 0 .. MaxDay /\ today < MaxDay /\ today' = today + 1 /\ MaxDay \in Nat
    BY RequestsAssumption, Zenon DEF NextDay, RequestsInv, RequestsTypeOK, RequestsAssumption
  <2> QED BY <2>1
<1>2. UNCHANGED <<edgeCache, localCounts, edge, req, used, admitted, spent>>
  BY DEF NextDay, countVars
<1>3. RequestsTypeOK'
  BY <1>1, <1>2 DEF RequestsInv, RequestsTypeOK
<1>4. \A r \in Requests : Orderly(r)'
  BY <1>2 DEF RequestsInv, Orderly, Counted, Paced, Inspected, Counting, Waiting, Underway, At, TrueKey, BucketOf, TurnsOf
<1>5. \A k \in Keys : Charged(k)' = Charged(k) /\ Units(k)' = Units(k)
  BY <1>2 DEF Charged, Units, Admitted, Calls, At, TrueKey, BucketOf, Cost
<1>6. \A k \in Keys : Accounts(k)' /\ Counts(k)'
  BY <1>2, <1>5 DEF RequestsInv, Accounts, Counts
<1>7. ~edgeCache' => InMemory'
  BY <1>2 DEF RequestsInv, InMemory, Counting
<1> QED BY <1>3, <1>4, <1>6, <1>7 DEF RequestsInv

LEMMA RequestsInitially == RequestsInit => RequestsInv
<1> SUFFICES ASSUME RequestsInit PROVE RequestsInv
  OBVIOUS
<1>0. MaxDay \in Nat /\ 0 \in 0 .. MaxDay
  <2>1. MaxDay \in Nat
    BY RequestsAssumption, Zenon DEF RequestsAssumption
  <2> QED BY <2>1
<1>1. RequestsTypeOK
  BY <1>0 DEF RequestsInit, RequestsTypeOK, Request
<1>2. ASSUME NEW r \in Requests PROVE Orderly(r) /\ ~Admitted(r) /\ ~Counting(r)
  <2>1. req[r].step = "new" /\ req[r].turn = 0 /\ used[r] = {}
    BY DEF RequestsInit
  <2> QED BY <2>1 DEF Orderly, Counted, Paced, Inspected, Counting, Waiting, Underway, Admitted, At
<1>3. ASSUME NEW k \in Keys PROVE Accounts(k) /\ Counts(k)
  <2>1. Charged(k) = {}
    BY <1>2 DEF Charged
  <2>2. IsFiniteSet(Charged(k)) /\ Cardinality(Charged(k)) = 0
    BY <2>1, FS_EmptySet
  <2>3. Cardinality(Units(k)) \in Nat
    BY <2>2, UnitsFinite
  <2>4. localCounts[k] = 0 /\ edge[k] = 0 /\ admitted[k] = 0 /\ spent[k] = 0
    BY DEF RequestsInit
  <2> QED BY <2>2, <2>3, <2>4 DEF Accounts, Counts
<1>4. InMemory
  <2>1. \A k \in Keys : Limit[k[1]] \in Nat
    BY KeyBucket, LimitType
  <2>2. \A k \in Keys : localCounts[k] = 0 /\ admitted[k] = 0
    BY DEF RequestsInit
  <2> QED BY <1>2, <2>1, <2>2 DEF InMemory
<1> QED BY <1>1, <1>2, <1>3, <1>4 DEF RequestsInv

LEMMA RequestsInvInductive ==
  ASSUME RequestsInv, [RequestsNext]_requestVars
  PROVE  RequestsInv'
<1>1. CASE NextDay
  BY <1>1, NextDayKeeps
<1>2. ASSUME NEW r \in Requests, CountInMemory(r) \/ Arrive(r) \/ Step(r) PROVE RequestsInv'
  BY <1>2, CountInMemoryKeeps, ArriveKeeps, MatchKeeps, PutKeeps, ChatKeeps, ProposeKeeps, ExplainKeeps, FailKeeps DEF Step
<1>3. CASE UNCHANGED requestVars
  <2>1. UNCHANGED <<edgeCache, today, localCounts, edge, req, used, admitted, spent>>
    BY <1>3 DEF requestVars, countVars
  <2>2. RequestsTypeOK'
    BY <2>1 DEF RequestsInv, RequestsTypeOK
  <2>3. \A r \in Requests : Orderly(r)'
    BY <2>1 DEF RequestsInv, Orderly, Counted, Paced, Inspected, Counting, Waiting, Underway, At, TrueKey, BucketOf, TurnsOf
  <2>4. \A k \in Keys : Charged(k)' = Charged(k) /\ Units(k)' = Units(k)
    BY <2>1 DEF Charged, Units, Admitted, Calls, At, TrueKey, BucketOf, Cost
  <2>5. \A k \in Keys : Accounts(k)' /\ Counts(k)'
    BY <2>1, <2>4 DEF RequestsInv, Accounts, Counts
  <2>6. ~edgeCache' => InMemory'
    BY <2>1 DEF RequestsInv, InMemory, Counting
  <2> QED BY <2>2, <2>3, <2>5, <2>6 DEF RequestsInv
<1> QED BY <1>1, <1>2, <1>3 DEF RequestsNext

LEMMA RequestsInvAlways == RequestsSpec => []RequestsInv
  BY RequestsInitially, RequestsInvInductive, PTL DEF RequestsSpec

\* The types of the requests and the counters, for any visitors and limits
\* (rate-limit.ts, chat/route.ts, propose/route.ts).
THEOREM RequestsTyped == RequestsSpec => []RequestsTypeOK
<1>1. RequestsInv => RequestsTypeOK
  BY DEF RequestsInv
<1> QED BY <1>1, RequestsInvAlways, PTL

\* No request has called a tool without having inspected the ontology: for any
\* requests and turns (tool-layer.ts, callApplicationTool; chat/route.ts, POST).
THEOREM OntologyIsFirst == RequestsSpec => []OntologyFirst
<1>1. RequestsInv => OntologyFirst
  BY DEF RequestsInv, Orderly, Inspected, OntologyFirst
<1> QED BY <1>1, RequestsInvAlways, PTL

\* The model is called no more often than the admitted requests may cost, no more
\* are admitted than the limit of the day when there is no edge cache, and none is
\* turned away below it: for any visitors, days and limits (rate-limit.ts,
\* consumeDailyAllowance).
THEOREM AllowanceIsKept == RequestsSpec => []AllowanceKept
<1>1. ASSUME RequestsInv PROVE ModelCallsBounded
  <2> SUFFICES ASSUME NEW k \in Keys
               PROVE  spent[k] <= admitted[k] * Cost(k[1]) /\ (~edgeCache => admitted[k] <= Limit[k[1]])
    BY DEF ModelCallsBounded
  <2>1. Accounts(k) /\ spent[k] \in Nat /\ admitted[k] \in Nat /\ Cost(k[1]) \in Nat
    BY <1>1, KeyBucket, LimitType DEF RequestsInv, RequestsTypeOK
  <2> DEFINE bound == admitted[k] * Cost(k[1])
  <2>2. Cardinality(Units(k)) \in Nat /\ Cardinality(Units(k)) <= bound /\ bound \in Nat /\ spent[k] <= Cardinality(Units(k))
    BY <2>1, UnitsFinite DEF Accounts
  <2> HIDE DEF bound
  <2>3. spent[k] <= bound
    BY <2>1, <2>2
  <2> QED BY <1>1, <2>3 DEF RequestsInv, InMemory, bound
<1>2. RequestsInv => TurnedAwayRightly
  BY DEF RequestsInv, Orderly, Counted, TurnedAwayRightly
<1>3. RequestsInv => AllowanceKept
  BY <1>1, <1>2 DEF AllowanceKept
<1> QED BY <1>3, RequestsInvAlways, PTL
===============================================================================
