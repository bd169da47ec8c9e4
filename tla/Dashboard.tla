------------------------------ MODULE Dashboard ------------------------------
(***************************************************************************)
(* The Operations tab (components/dashboard/workspace-dashboard.tsx).  It  *)
(* reads the state and the rules when it mounts, after a device command,   *)
(* when the document becomes visible again, and 250 ms after an event of   *)
(* the stream, once for all the events of that time.  The reads overlap    *)
(* and are answered in any order.  What the stream delivers and misses is  *)
(* the subject of EventFeed; here an event is only the news that the       *)
(* server's state has a new version, and any event may be skipped.         *)
(*                                                                         *)
(* The graph panel polls the status of the projection and can have it      *)
(* rebuilt; it shares the server's side with OntologyGraph.                *)
(***************************************************************************)
EXTENDS Naturals, FiniteSets

CONSTANTS Devices,     \* devices that take a command from their button
          MaxClicks,   \* bound: clicks of the operator in the whole client
          MaxChanges,  \* bound: changes of the state other than by commands
          MaxCalls,    \* bound: calls of the dashboard in flight
          MaxVersion   \* the latest version these bounds let the state have

VARIABLES tab,         \* the tab on the screen
          clicks,      \* clicks so far
          visible,     \* whether the document is visible
          world,       \* the server's state: its version, the devices with a command active
          changes,     \* changes other than by commands so far
          delivered,   \* the version of the latest event this dashboard received
          timer,       \* whether a refresh is scheduled (refreshTimerRef)
          view,        \* the state on the screen, version 0 for none
          seen,        \* the latest version that was on the screen since the tab opened
          missed,      \* whether a read has failed since the tab opened
          deviceBusy,  \* the device whose button is disabled, if any
          panel,       \* the projection status on the screen, "" for none
          panelBusy,   \* whether the rebuild button is waiting (graphBusy)
          dashCalls,   \* the calls in flight
          row, built, queued  \* the projection, see OntologyGraph

dashVars == <<world, changes, delivered, timer, view, seen, missed, deviceBusy, panel, panelBusy, dashCalls>>

NoView == [version |-> 0, active |-> {}]
NoDevice == "none"

InitDash ==
  /\ world = [version |-> 1, active |-> {}] /\ changes = 0 /\ delivered = 1 /\ timer = FALSE
  /\ view = NoView /\ seen = 0 /\ missed = FALSE /\ deviceBusy = NoDevice
  /\ panel = "" /\ panelBusy = FALSE
  /\ dashCalls = {[id |-> 0, kind |-> "state", at |-> "sent", of |-> NoDevice, saw |-> NoView, live |-> TRUE]}

\* A call is started if the bound allows another.
NewCall(kind, at, of) ==
  \E i \in 1..MaxCalls :
    /\ \A c \in dashCalls : c.id # i
    /\ \A j \in 1..(i - 1) : \E c \in dashCalls : c.id = j
    /\ dashCalls' = dashCalls \cup
         {[id |-> i, kind |-> kind, at |-> at, of |-> of, saw |-> NoView, live |-> TRUE]}

\* Opening another tab: the stream and the timers are closed with the component,
\* and a new one starts with a refresh and a stream from the present on.  Posts
\* that are on their way arrive all the same.
ShowDash(t) ==
  LET posts == {[c EXCEPT !.live = FALSE] : c \in {d \in dashCalls : d.at = "post"}} IN
  /\ delivered' = world.version /\ timer' = FALSE
  /\ view' = NoView /\ seen' = 0 /\ missed' = FALSE /\ deviceBusy' = NoDevice
  /\ panel' = "" /\ panelBusy' = FALSE
  /\ dashCalls' = posts \cup
       (IF t = "dashboard"
        THEN {[id |-> 0, kind |-> "state", at |-> "sent", of |-> NoDevice, saw |-> NoView, live |-> TRUE]}
        ELSE {})
  /\ UNCHANGED <<world, changes>>

-------------------------------------------------------------------------------
(* The server.                                                              *)

\* A reading, a rule or a device changes.
Change ==
  /\ changes < MaxChanges
  /\ changes' = changes + 1
  /\ world' = [world EXCEPT !.version = @ + 1]
  /\ UNCHANGED <<delivered, timer, view, seen, missed, deviceBusy, panel, panelBusy, dashCalls>>

\* A command reaches its final status.
CommandDone(d) ==
  /\ d \in world.active
  /\ world' = [version |-> world.version + 1, active |-> world.active \ {d}]
  /\ UNCHANGED <<changes, delivered, timer, view, seen, missed, deviceBusy, panel, panelBusy, dashCalls>>

-------------------------------------------------------------------------------
(* Events, timers and visibility.                                           *)

\* The callback of the scheduled refresh.
TimerUp ==
  /\ timer
  /\ timer' = FALSE
  /\ NewCall("state", "sent", NoDevice)
  /\ UNCHANGED <<world, changes, delivered, view, seen, missed, deviceBusy, panel, panelBusy>>

\* An event of the stream: it schedules a refresh unless one is scheduled, or is
\* buffered while the document is hidden.
Deliver ==
  /\ tab = "dashboard"
  /\ \E v \in (delivered + 1)..world.version : delivered' = v
  /\ timer' = (timer \/ visible)
  /\ UNCHANGED <<world, changes, view, seen, missed, deviceBusy, panel, panelBusy, dashCalls>>

\* A bug: coming back merges the buffered events and reads nothing.
Visibility_NoRefresh ==
  /\ tab = "dashboard"
  /\ clicks < MaxClicks /\ clicks' = clicks + 1
  /\ visible' = ~visible
  /\ UNCHANGED dashVars

\* The document is hidden, or visible again: then the state is read.
Visibility ==
  /\ tab = "dashboard"
  /\ clicks < MaxClicks /\ clicks' = clicks + 1
  /\ visible' = ~visible
  /\ IF visible THEN UNCHANGED dashCalls ELSE NewCall("state", "sent", NoDevice)
  /\ UNCHANGED <<world, changes, delivered, timer, view, seen, missed, deviceBusy, panel, panelBusy>>

\* The interval's refreshGraph, one at a time.
PollGraph ==
  /\ tab = "dashboard" /\ \A c \in dashCalls : c.kind # "graph"
  /\ NewCall("graph", "status", NoDevice)
  /\ UNCHANGED <<world, changes, delivered, timer, view, seen, missed, deviceBusy, panel, panelBusy>>

-------------------------------------------------------------------------------
(* Clicks.                                                                  *)

\* toggleDevice: the button is disabled while it is the one that waits, and while
\* the state on the screen shows a command active.
ToggleDevice(d) ==
  /\ tab = "dashboard" /\ view.version > 0 /\ d \notin view.active /\ deviceBusy # d
  /\ clicks < MaxClicks /\ clicks' = clicks + 1
  /\ deviceBusy' = d
  /\ NewCall("toggle", "post", d)
  /\ UNCHANGED <<world, changes, delivered, timer, view, seen, missed, panel, panelBusy>>

RebuildGraph ==
  /\ tab = "dashboard" /\ ~panelBusy /\ panel # "running"
  /\ clicks < MaxClicks /\ clicks' = clicks + 1
  /\ panelBusy' = TRUE
  /\ NewCall("rebuild", "post", NoDevice)
  /\ UNCHANGED <<world, changes, delivered, timer, view, seen, missed, deviceBusy, panel>>

-------------------------------------------------------------------------------
(* The steps of a call.                                                     *)

GoesOn(c, to) == dashCalls' = (dashCalls \ {c}) \cup (IF c.live THEN {to} ELSE {})

\* The finally blocks: busy is emptied whichever device it names.
EndsCall(c) ==
  /\ dashCalls' = dashCalls \ {c}
  /\ deviceBusy' = IF c.live /\ c.kind = "toggle" THEN NoDevice ELSE deviceBusy
  /\ panelBusy' = IF c.live /\ c.kind = "rebuild" THEN FALSE ELSE panelBusy

\* The server takes the command, and the dashboard refreshes.
CommandTaken(c) ==
  /\ c.kind = "toggle" /\ c.at = "post"
  /\ world' = [version |-> world.version + 1, active |-> world.active \cup {c.of}]
  /\ GoesOn(c, [c EXCEPT !.at = "sent"])
  /\ UNCHANGED <<changes, delivered, timer, view, seen, missed, deviceBusy, panel, panelBusy, row, built, queued>>

\* The server queues the rebuild, and the panel reads the status.
RebuildTaken(c) ==
  /\ c.kind = "rebuild" /\ c.at = "post"
  /\ queued' = queued + 1
  /\ GoesOn(c, [c EXCEPT !.at = "status"])
  /\ UNCHANGED <<world, changes, delivered, timer, view, seen, missed, deviceBusy, panel, panelBusy, row, built>>

\* The server reads the state; the answer is on its way.
StateRead(c) ==
  /\ c.at = "sent"
  /\ GoesOn(c, [c EXCEPT !.at = "read", !.saw = world])
  /\ UNCHANGED <<world, changes, delivered, timer, view, seen, missed, deviceBusy, panel, panelBusy, row, built, queued>>

\* The answer is shown, whatever was shown before.
StateShown(c) ==
  /\ c.at = "read"
  /\ view' = c.saw
  /\ seen' = IF c.saw.version > seen THEN c.saw.version ELSE seen
  /\ EndsCall(c)
  /\ UNCHANGED <<world, changes, delivered, timer, missed, panel, row, built, queued>>

StatusShown(c) ==
  /\ c.at = "status"
  /\ panel' = row
  /\ EndsCall(c)
  /\ UNCHANGED <<world, changes, delivered, timer, view, seen, missed, row, built, queued>>

\* The call fails: an error message, or nothing for the optional graph.
CallFails(c) ==
  /\ c.at \in {"post", "sent", "status"}
  /\ missed' = (missed \/ c.at = "sent")
  /\ EndsCall(c)
  /\ UNCHANGED <<world, changes, delivered, timer, view, seen, panel, row, built, queued>>

-------------------------------------------------------------------------------
DeviceClick == \E d \in Devices : ToggleDevice(d)

CallStep(c) ==
  \/ CommandTaken(c) \/ RebuildTaken(c) \/ StateRead(c)
  \/ StateShown(c) \/ StatusShown(c) \/ CallFails(c)

DashStep == \E c \in dashCalls : c.kind # "graph" /\ CallStep(c)
PollStep == \E c \in dashCalls : c.kind = "graph" /\ CallStep(c)

-------------------------------------------------------------------------------
\* The types of the dashboard and of the state it shows: neither an event nor a
\* view is ahead of the server.
DashTypeOK ==
  LET States == [version : 0..world.version, active : SUBSET Devices]
  IN  /\ world \in [version : Nat \ {0}, active : SUBSET Devices]
      /\ changes \in 0..MaxChanges /\ delivered \in 1..world.version /\ timer \in BOOLEAN
      /\ view \in States /\ seen \in 0..world.version /\ missed \in BOOLEAN
      /\ deviceBusy \in Devices \cup {NoDevice}
      /\ panel \in {"", "ready", "running", "failed"} /\ panelBusy \in BOOLEAN
      /\ dashCalls \subseteq
           {c \in [id : 0..MaxCalls, kind : {"state", "toggle", "rebuild", "graph"},
                   at : {"post", "sent", "read", "status"}, of : Devices \cup {NoDevice},
                   saw : States, live : BOOLEAN] : c.kind = "toggle" => c.of \in Devices}

\* A disabled button has a call in flight that will enable one.
ButtonsAreHeld ==
  /\ deviceBusy # NoDevice => \E c \in dashCalls : c.live /\ c.kind = "toggle"
  /\ panelBusy => \E c \in dashCalls : c.live /\ c.kind = "rebuild"

\* As long as a received event is not covered by what was on the screen, a refresh
\* is scheduled, or a read is in flight that is not too early for it: the events
\* of the 250 ms, of a hidden document and of overlapping reads are not lost.
NewsIsPursued ==
  tab = "dashboard" /\ visible /\ seen < delivered /\ ~missed =>
    \/ timer
    \/ \E c \in dashCalls :
         \/ c.at = "sent" /\ c.live
         \/ c.at = "read" /\ c.saw.version >= delivered

\* An event received by a dashboard on the screen is followed by a view of the
\* state that covers it, unless a read fails or the operator looks away: no event
\* falls between a scheduled refresh and the next, or is buffered and forgotten.
CatchesUp == \A v \in 1..MaxVersion :
  (tab = "dashboard" /\ visible /\ delivered >= v)
    ~> (seen >= v \/ missed \/ ~visible \/ tab # "dashboard")

-------------------------------------------------------------------------------
(* What the dashboard suggests and the code does not do.  A refresh that   *)
(* was read earlier may be answered later, and takes the screen back.      *)
ViewNeverGoesBack == [][seen' # 0 => view'.version >= view.version]_dashVars

\* A second command is not sent to a device whose first is active: the button of
\* another device, when its call ends, empties busy, and a view that went back
\* shows the device idle.
OneCommandAtATime == [][\A c \in dashCalls :
  c.at = "post" /\ c.of \in world.active => c \in dashCalls' \/ world' = world]_dashVars
===============================================================================
