---------------------------- MODULE OntologyGraph ----------------------------
(***************************************************************************)
(* The graph of the Semantic Map tab (components/ontology/                 *)
(* ontology-graph.tsx): it shows the authoritative ontology or the Neo4j   *)
(* projection of it, and can ask for the projection to be rebuilt.  Every  *)
(* server call is awaited with the loading flag up; after a rebuild is     *)
(* queued the flag stays up until a timer has read the projection again.   *)
(*                                                                         *)
(* The server's side is what these calls see of it: the row of             *)
(* graph_projection_status, and the projection's version.  Queuing a       *)
(* rebuild leaves the row as it is until the graph worker starts.          *)
(***************************************************************************)
EXTENDS Naturals

CONSTANT MaxClicks     \* bound: clicks of the operator in the whole client

VARIABLES tab,         \* the tab on the screen
          clicks,      \* clicks so far
          mode,        \* "source" or "projection"
          projection,  \* the version of the projection held, 0 for none
          graphStatus, \* the status held: "", "ready", "running" or "failed"
          graphLoading,
          graphError,  \* whether an error message is held
          graphCall,   \* what is in flight, of Stages
          row,         \* the server's status row
          built,       \* the version of the projection in Neo4j
          queued       \* rebuilds queued and not yet begun

graphVars == <<mode, projection, graphStatus, graphLoading, graphError, graphCall>>
serverVars == <<row, built, queued>>

\* The stages of a load and of a rebuild: what is awaited.
Stages == {"rebuild", "timer", "status", "graph"}

InitGraph ==
  /\ mode = "source" /\ projection = 0 /\ graphStatus = ""
  /\ graphLoading = FALSE /\ graphError = FALSE /\ graphCall = {}

InitServer == row = "ready" /\ built = 1 /\ queued = 0

\* Opening another tab: the component mounts afresh or is gone.  A rebuild that
\* was being requested may still be queued.
ShowGraph(t) ==
  /\ queued' \in {queued, queued + (IF "rebuild" \in graphCall THEN 1 ELSE 0)}
  /\ UNCHANGED <<row, built>>
  /\ mode' = "source" /\ projection' = 0 /\ graphStatus' = ""
  /\ graphLoading' = FALSE /\ graphError' = FALSE /\ graphCall' = {}

-------------------------------------------------------------------------------
(* The graph worker: rebuild of projection.rs, as the status row shows it.  *)
(* Its restart after a failure receives the record again.                   *)

BeginRebuild ==
  /\ queued > 0 /\ row # "running"
  /\ queued' = queued - 1 /\ row' = "running" /\ UNCHANGED built

EndRebuild ==
  /\ row = "running"
  /\ \/ row' = "ready" /\ built' = built + 1 /\ UNCHANGED queued
     \/ row' = "failed" /\ queued' = queued + 1 /\ UNCHANGED built

Server == BeginRebuild \/ EndRebuild

-------------------------------------------------------------------------------
\* loadProjection as it is called.
StartLoad ==
  /\ graphLoading' = TRUE /\ graphError' = FALSE
  /\ graphCall' = graphCall \cup {"status"}

\* A bug: a load is started whenever there is nothing to show.
ChangeMode_WhileLoading(m) ==
  /\ tab = "explorer" /\ mode # m
  /\ clicks < MaxClicks /\ clicks' = clicks + 1
  /\ mode' = m
  /\ IF m = "projection" /\ projection = 0
     THEN StartLoad ELSE UNCHANGED <<graphLoading, graphError, graphCall>>
  /\ UNCHANGED <<projection, graphStatus>>

ChangeMode(m) ==
  /\ tab = "explorer" /\ mode # m
  /\ clicks < MaxClicks /\ clicks' = clicks + 1
  /\ mode' = m
  /\ IF m = "projection" /\ projection = 0 /\ ~graphLoading
     THEN StartLoad ELSE UNCHANGED <<graphLoading, graphError, graphCall>>
  /\ UNCHANGED <<projection, graphStatus>>

\* The button is there in projection mode, and disabled while loading or while
\* the status held is running.
RebuildProjection ==
  /\ tab = "explorer" /\ mode = "projection" /\ ~graphLoading /\ graphStatus # "running"
  /\ clicks < MaxClicks /\ clicks' = clicks + 1
  /\ graphLoading' = TRUE /\ graphError' = FALSE
  /\ graphCall' = graphCall \cup {"rebuild"}
  /\ UNCHANGED <<mode, projection, graphStatus>>

\* The catch and finally of a load that failed.
LoadFails(c) ==
  /\ projection' = 0 /\ graphError' = TRUE /\ graphLoading' = FALSE
  /\ graphCall' = graphCall \ {c}

\* The rebuild is queued; the timer of 1.2 s runs with loading still up.
RebuildQueued(c) ==
  /\ c = "rebuild"
  /\ queued' = queued + 1 /\ graphStatus' = "running"
  /\ graphCall' = (graphCall \ {c}) \cup {"timer"}
  /\ UNCHANGED <<mode, projection, graphLoading, graphError, row, built>>

\* The rebuild could not be queued: what was shown stays.
RebuildFailed(c) ==
  /\ c = "rebuild"
  /\ graphError' = TRUE /\ graphLoading' = FALSE /\ graphCall' = graphCall \ {c}
  /\ UNCHANGED <<mode, projection, graphStatus, serverVars>>

TimerFires(c) ==
  /\ c = "timer"
  /\ graphLoading' = TRUE /\ graphError' = FALSE
  /\ graphCall' = (graphCall \ {c}) \cup {"status"}
  /\ UNCHANGED <<mode, projection, graphStatus, serverVars>>

\* The status arrives: only a projection that is ready is read.
StatusRead(c) ==
  /\ c = "status"
  /\ graphStatus' = row
  /\ IF row = "ready"
     THEN /\ graphCall' = (graphCall \ {c}) \cup {"graph"}
          /\ UNCHANGED <<projection, graphError, graphLoading>>
     ELSE LoadFails(c)
  /\ UNCHANGED <<mode, serverVars>>

GraphRead(c) ==
  /\ c = "graph"
  /\ projection' = built /\ graphLoading' = FALSE /\ graphCall' = graphCall \ {c}
  /\ UNCHANGED <<mode, graphStatus, graphError, serverVars>>

\* A read fails; a status that was read stays.
ReadFailed(c) ==
  /\ c \in {"status", "graph"}
  /\ LoadFails(c)
  /\ UNCHANGED <<mode, graphStatus, serverVars>>

-------------------------------------------------------------------------------
GraphClick == RebuildProjection \/ \E m \in {"source", "projection"} : ChangeMode(m)

GraphStep == \E c \in graphCall :
  \/ RebuildQueued(c) \/ RebuildFailed(c) \/ TimerFires(c)
  \/ StatusRead(c) \/ GraphRead(c) \/ ReadFailed(c)

-------------------------------------------------------------------------------
Statuses == {"ready", "running", "failed"}

\* The types of the graph and of the server's side.
GraphTypeOK ==
  /\ mode \in {"source", "projection"} /\ projection \in 0..built
  /\ graphStatus \in Statuses \cup {""}
  /\ graphLoading \in BOOLEAN /\ graphError \in BOOLEAN /\ graphCall \subseteq Stages
  /\ row \in Statuses /\ built \in Nat \ {0} /\ queued \in Nat

\* One call at a time, and the loading flag is up exactly while it runs: the flag
\* is the only thing that keeps a mode switch, a rebuild and its timer from
\* loading on top of each other, in handlers that each set it and clear it.
OneLoad ==
  IF graphLoading THEN \E c \in Stages : graphCall = {c} ELSE graphCall = {}

\* The projection is never blank without a reason: with no load running and no
\* error shown, it holds a projection, read after a status of ready.
NeverBlank ==
  (mode = "projection" /\ ~graphLoading /\ ~graphError) => (projection # 0 /\ graphStatus = "ready")

ProjectionHonest == OneLoad /\ NeverBlank

-------------------------------------------------------------------------------
(* What the button promises and the code does not do: the load that        *)
(* follows a rebuild reads the projection as it was before, if the graph   *)
(* worker has not begun within 1.2 s.                                      *)
RebuildShowsTheNew ==
  [][projection' \notin {0, projection} => queued = 0]_graphVars
===============================================================================
