------------------------------ MODULE EventFeed ------------------------------
(***************************************************************************)
(* The workspace feed: from workspace_event through the server-sent event  *)
(* stream of the Go gateway to the list on a dashboard.                    *)
(*                                                                         *)
(* Transactions of workers and gateways insert events; an event gets its   *)
(* id when it is inserted and is seen when its transaction commits, so ids *)
(* are not seen in order.  The stream polls for ids above its cursor.  The *)
(* browser reconnects with the id of the last event it received.  It also  *)
(* fetches lists of events, and replaces what it shows when one arrives.   *)
(* A hidden tab buffers what it receives.                                  *)
(***************************************************************************)
EXTENDS Naturals, Sequences, FiniteSets

CONSTANTS
  Events,        \* rows of workspace_event
  OccurredAt,    \* occurred_at; for a reading the clock of its device
  Window,        \* events a list keeps and a snapshot holds (40)
  Batch,         \* events one poll returns (50)
  MaxFaults,     \* bound: connections lost and queries failed
  MaxRefreshes   \* bound: snapshots fetched

ASSUME FeedAssumption ==
  /\ OccurredAt \in [Events -> Nat]
  /\ Window \in Nat \ {0}
  /\ Batch \in Nat \ {0}
  /\ MaxFaults \in Nat
  /\ MaxRefreshes \in Nat

(* A definition F_Variant is F as a plausible mistake would have it; it is   *)
(* used by no action, only to see that the properties notice the difference. *)

VARIABLES
  id,            \* the id of an event, 0 before its insert
  lastValue,     \* the sequence behind id
  committed,     \* events whose transaction has committed
  stream,        \* the EventSource: its state, and the cursor of its connection
  wire,          \* events on their way to the browser
  lastEventId,   \* id of the last event the browser received
  received,      \* history: events the browser has received
  visible,       \* the tab is visible
  shown,         \* the list on the dashboard
  buffered,      \* bufferedEventsRef
  snapshot,      \* lists of events fetched and not yet set
  since,         \* history: events received that no snapshot has replaced
  refreshes,     \* snapshots fetched so far
  faults         \* faults so far

tableVars   == <<id, lastValue, committed>>
streamVars  == <<stream, wire>>
clientVars  == <<lastEventId, received>>
displayVars == <<visible, shown, buffered, since>>
fetchVars   == <<snapshot, refreshes>>
feedVars    == <<tableVars, streamVars, clientVars, displayVars, fetchVars, faults>>

-----------------------------------------------------------------------------
Closed == [state |-> "connecting", cursor |-> 0]
Open(cursor) == [state |-> "open", cursor |-> cursor]
Failed == [state |-> "closed", cursor |-> 0]
IsOpen == stream.state = "open"

FeedInit ==
  /\ id = [e \in Events |-> 0]
  /\ lastValue = 0
  /\ committed = {}
  /\ stream = Closed
  /\ wire = <<>>
  /\ lastEventId = 0
  /\ received = {}
  /\ visible = TRUE
  /\ shown = {} /\ buffered = {} /\ since = {}
  /\ snapshot = {} /\ refreshes = 0
  /\ faults = 0

Fault == faults < MaxFaults /\ faults' = faults + 1

-----------------------------------------------------------------------------
Insert(e) ==
  /\ id[e] = 0
  /\ lastValue' = lastValue + 1
  /\ id' = [id EXCEPT ![e] = lastValue + 1]
  /\ UNCHANGED <<committed, streamVars, clientVars, displayVars, fetchVars, faults>>

Commit(e) ==
  /\ id[e] > 0
  /\ e \notin committed
  /\ committed' = committed \cup {e}
  /\ UNCHANGED <<id, lastValue, streamVars, clientVars, displayVars, fetchVars, faults>>

-----------------------------------------------------------------------------
Later(f, e) ==
  \/ OccurredAt[f] > OccurredAt[e]
  \/ OccurredAt[f] = OccurredAt[e] /\ id[f] > id[e]

\* order by occurred_at desc, id desc limit n
ListWorkspaceEvents(n) ==
  {e \in committed : Cardinality({f \in committed : Later(f, e)}) < n}

\* order by id limit n
ListWorkspaceEventsAfter(cursor, n) ==
  LET after == {e \in committed : id[e] > cursor}
  IN  {e \in after : Cardinality({f \in after : id[f] < id[e]}) < n}

ById(S) ==
  [i \in 1 .. Cardinality(S) |->
     CHOOSE e \in S : Cardinality({f \in S : id[f] < id[e]}) = i - 1]

Latest == {id[e] : e \in ListWorkspaceEvents(1)}

StartCursor_FromLatest == IF Latest = {} THEN 0 ELSE CHOOSE i \in Latest : TRUE

\* Last-Event-ID, or the latest event.
StartCursor ==
  IF lastEventId # 0 \/ Latest = {} THEN lastEventId ELSE CHOOSE i \in Latest : TRUE

Connect ==
  /\ stream.state = "connecting"
  /\ stream' = Open(StartCursor)
  /\ UNCHANGED <<tableVars, wire, clientVars, displayVars, fetchVars, faults>>

\* The query for the latest event fails, and the cursor stays at 0.
ConnectWithoutLatest ==
  /\ stream.state = "connecting"
  /\ lastEventId = 0
  /\ Fault
  /\ stream' = Open(0)
  /\ UNCHANGED <<tableVars, wire, clientVars, displayVars, fetchVars>>

\* The gateway is not reached: the route of the web server answers with an
\* error status, on which an EventSource closes for good.
ConnectFails ==
  /\ stream.state = "connecting"
  /\ Fault
  /\ stream' = Failed
  /\ UNCHANGED <<tableVars, wire, clientVars, displayVars, fetchVars>>

Poll ==
  /\ IsOpen
  /\ LET items == ById(ListWorkspaceEventsAfter(stream.cursor, Batch))
     IN  /\ items # <<>>
         /\ wire' = wire \o items
         /\ stream' = [stream EXCEPT !.cursor = id[items[Len(items)]]]
  /\ UNCHANGED <<tableVars, clientVars, displayVars, fetchVars, faults>>

\* The connection is lost, or the poll fails and the handler returns.
Disconnect ==
  /\ IsOpen
  /\ Fault
  /\ stream' = Closed
  /\ wire' = <<>>
  /\ UNCHANGED <<tableVars, clientVars, displayVars, fetchVars>>

-----------------------------------------------------------------------------

mergeEvents_Oldest(current, incoming) ==
  LET all == current \cup incoming
  IN  {e \in all : Cardinality({f \in all : id[f] < id[e]}) < Window}

\* The newest of both lists, by id.
mergeEvents(current, incoming) ==
  LET all == current \cup incoming
  IN  {e \in all : Cardinality({f \in all : id[f] > id[e]}) < Window}

OnEvent ==
  /\ wire # <<>>
  /\ LET e == Head(wire)
     IN  /\ lastEventId' = id[e]
         /\ received' = received \cup {e}
         /\ since' = since \cup {e}
         /\ IF visible
            THEN shown' = mergeEvents(shown, {e}) /\ UNCHANGED buffered
            ELSE buffered' = mergeEvents(buffered, {e}) /\ UNCHANGED shown
  /\ wire' = Tail(wire)
  /\ UNCHANGED <<tableVars, stream, visible, fetchVars, faults>>

Hide ==
  /\ visible
  /\ visible' = FALSE
  /\ UNCHANGED <<tableVars, streamVars, clientVars, shown, buffered, since, fetchVars, faults>>

handleVisibilityChange ==
  /\ ~ visible
  /\ visible' = TRUE
  /\ shown' = IF buffered = {} THEN shown ELSE mergeEvents(shown, buffered)
  /\ buffered' = {}
  /\ UNCHANGED <<tableVars, streamVars, clientVars, since, fetchVars, faults>>

\* refresh: the initial one, and one after each command of the user.
FetchEvents ==
  /\ refreshes < MaxRefreshes
  /\ refreshes' = refreshes + 1
  /\ snapshot' = snapshot \cup {<<refreshes', ListWorkspaceEvents(Window)>>}
  /\ UNCHANGED <<tableVars, streamVars, clientVars, displayVars, faults>>

\* The responses may arrive in any order.
setEvents(reply) ==
  /\ reply \in snapshot
  /\ shown' = reply[2]
  /\ since' = since \cap buffered
  /\ snapshot' = snapshot \ {reply}
  /\ UNCHANGED <<tableVars, streamVars, clientVars, visible, buffered, refreshes, faults>>

FetchFails(reply) ==
  /\ reply \in snapshot
  /\ Fault
  /\ snapshot' = snapshot \ {reply}
  /\ UNCHANGED <<tableVars, streamVars, clientVars, displayVars, refreshes>>

-----------------------------------------------------------------------------
FeedNext ==
  \/ \E e \in Events : Insert(e) \/ Commit(e)
  \/ Connect
  \/ ConnectWithoutLatest
  \/ ConnectFails
  \/ Poll
  \/ Disconnect
  \/ OnEvent
  \/ Hide
  \/ handleVisibilityChange
  \/ FetchEvents
  \/ \E reply \in snapshot : setEvents(reply) \/ FetchFails(reply)

FeedSpec == FeedInit /\ [][FeedNext]_feedVars

\* EventSource reconnects, the ticker polls, the browser reads.
FeedFairSpec == FeedSpec /\ WF_feedVars(Connect) /\ WF_feedVars(Poll) /\ WF_feedVars(OnEvent)

-----------------------------------------------------------------------------
(* Every variable keeps its type, and no list grows beyond the window.       *)
FeedTypeOK ==
  /\ id \in [Events -> 0 .. lastValue]
  /\ lastValue \in Nat
  /\ committed \subseteq {e \in Events : id[e] > 0}
  /\ stream \in [state : {"connecting", "open", "closed"}, cursor : 0 .. lastValue]
  /\ wire \in Seq(committed)
  /\ lastEventId \in 0 .. lastValue
  /\ received \subseteq committed
  /\ visible \in BOOLEAN
  /\ shown \subseteq committed
  /\ buffered \subseteq committed
  /\ since \subseteq received
  /\ snapshot \subseteq (1 .. refreshes) \X SUBSET committed
  /\ \A list \in {shown, buffered} \cup {reply[2] : reply \in snapshot} :
       Cardinality(list) <= Window
  /\ refreshes \in 0 .. MaxRefreshes
  /\ faults \in 0 .. MaxFaults

(* The browser receives every event at most once and in the order of the     *)
(* ids, across any number of reconnections.                                  *)
IdsIncrease == [][lastEventId' # lastEventId => lastEventId' > lastEventId]_feedVars

(* What the browser has received is on the list, or waits in the buffer of a *)
(* hidden tab, or has been pushed out by a windowful of newer events; a tab  *)
(* that was hidden ends up with what it would have shown.                    *)
ReceivedIsShown ==
  /\ visible => buffered = {}
  /\ \A e \in since \ (shown \cup buffered) :
       Cardinality({f \in shown \cup buffered : id[f] > id[e]}) >= Window

(* Once the browser has received an event, it receives every committed event *)
(* ahead of the cursor, whatever the connection does, unless a reconnection  *)
(* is refused.                                                               *)
ReplayComplete ==
  \A e \in Events :
    IsOpen /\ lastEventId # 0 /\ e \in committed /\ id[e] > stream.cursor
      ~> e \in received \/ stream = Failed

(* Across any number of reconnections the stream is sent exactly, from where *)
(* the browser is.                                                           *)
ReplayExact == IdsIncrease /\ ReplayComplete

-----------------------------------------------------------------------------
(* What the documents say and the code does not do.                         *)

(* The README says that clients receive the events through polling of the    *)
(* event store; a transaction may commit an id that the cursor has passed.   *)
CommitsAheadOfCursor ==
  [][\A e \in committed' \ committed : IsOpen => id[e] > stream.cursor]_feedVars

(* The message on the page says that a lost stream is reconnecting; after a  *)
(* refused reconnection it never is again.                                   *)
Reconnecting == stream.state = "connecting" ~> IsOpen

(* The dashboard keeps the initial snapshot and lets the server push the     *)
(* events as they occur; an event between the two, or one that arrives while *)
(* a snapshot is on its way, is not on the list.                             *)
Settled ==
  /\ refreshes > 0 /\ snapshot = {}
  /\ IsOpen /\ wire = <<>> /\ visible
  /\ \A e \in committed : id[e] <= stream.cursor

DashboardComplete ==
  Settled /\ Cardinality(committed) <= Window => shown = committed
=============================================================================
