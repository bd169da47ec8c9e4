---------------------------- MODULE GatewaySession ----------------------------
(***************************************************************************)
(* The MQTT session of the Go gateways, and what /ready says of it.        *)
(*                                                                         *)
(* A gateway resolves its client id, connects, and subscribes in a handler *)
(* of the connection.  The client library runs the handler of a connection *)
(* made, and that of a connection lost, each in a goroutine of its own and *)
(* reconnects meanwhile, so the handlers of several connections overlap;   *)
(* each ends with setReady.  The broker closes the older of two sessions   *)
(* with one client id.  /ready reads what the handlers wrote, then asks    *)
(* PostgreSQL and Kafka.  SIGTERM wakes main and the adapter, which stop   *)
(* in any order.                                                           *)
(***************************************************************************)
EXTENDS Naturals, FiniteSets

CONSTANTS
  Gateways,      \* replicas of the gateway
  Instances,     \* instance ids: INSTANCE_ID, or the host name of a container
  Explicit,      \* portable client ids MQTT_CLIENT_ID may name
  Unset,         \* a setting that is empty
  Malformed,     \* an MQTT_CLIENT_ID or a prefix that is not portable
  Deployments,   \* what the gateways may be configured with
  MaxConnections, \* bound: connections a gateway makes
  MaxRequests     \* bound: probes and streams a gateway is asked for

Settings == [explicit : Explicit \cup {Unset, Malformed},   \* MQTT_CLIENT_ID
             prefix   : {"portable", Malformed},            \* MQTT_CLIENT_ID_PREFIX
             instance : Instances \cup {Unset},             \* Unset: no host name either
             shared   : BOOLEAN]        \* groups and topics that make shared subscriptions

ASSUME SessionAssumption ==
  /\ Deployments \subseteq [Gateways -> Settings]
  /\ Unset \notin Instances \cup Explicit
  /\ Malformed \notin Explicit \cup {Unset}
  /\ MaxConnections \in Nat
  /\ MaxRequests \in Nat

(* A definition F_Variant is F as a plausible mistake would have it; it is   *)
(* used by no action, only to see that the properties notice the difference. *)

VARIABLES
  settings,    \* what each gateway is configured with
  mainRoutine, \* where the main goroutine of a gateway is
  adapter,     \* the adapter runs, has failed to start, or has stopped
  accepting,   \* Router.accepting
  adapterReady, \* Adapter.ready
  connection,  \* the number of the connection a gateway has, 0 for none
  made,        \* connections it has made
  subscribed,  \* the broker has the subscriptions of the connection
  handlers,    \* handlers that have not ended
  wrote,       \* history: the connection whose handler set ready last, or 0
  stream,      \* an event stream of a browser is open
  probe,       \* the probe of /ready in progress, or its answer
  asked        \* probes and streams asked for so far

mqttVars    == <<adapterReady, connection, made, subscribed, handlers, wrote>>
httpVars    == <<accepting, stream, probe, asked>>
sessionVars == <<settings, mainRoutine, adapter, mqttVars, httpVars>>

-----------------------------------------------------------------------------
(* The identity of a gateway. *)

\* Derived ids: the prefix and twelve digits of the hash of the instance.
NoId == <<"none">>
Derived(instance) == <<"derived", instance>>

resolveClientID(s) ==
  CASE s.instance = Unset                               -> NoId
    [] s.instance # Unset /\ s.explicit = Malformed     -> NoId
    [] s.instance # Unset /\ s.explicit \in Explicit    -> <<"explicit", s.explicit>>
    [] OTHER -> IF s.prefix = Malformed THEN NoId ELSE Derived(s.instance)

ClientId(g) == resolveClientID(settings[g])
CanRun(g) == ClientId(g) # NoId /\ settings[g].shared

-----------------------------------------------------------------------------
(* The handlers of connections, and of their loss. *)

Handler(kind, n, state) == [kind |-> kind, conn |-> n, state |-> state]
OnConnect(n) == Handler("connected", n, "waiting")

OnConnectionLost(n) == Handler("lost", n, "failed")

SessionInit ==
  /\ settings \in Deployments
  /\ mainRoutine = [g \in Gateways |-> "serving"]
  /\ adapter = [g \in Gateways |-> IF CanRun(g) THEN "running" ELSE "failed"]
  /\ accepting = [g \in Gateways |-> TRUE]
  /\ adapterReady = [g \in Gateways |-> FALSE]
  /\ connection = [g \in Gateways |-> 0]
  /\ made = [g \in Gateways |-> 0]
  /\ subscribed = [g \in Gateways |-> FALSE]
  /\ handlers = [g \in Gateways |-> {}]
  /\ wrote = [g \in Gateways |-> 0]
  /\ stream = [g \in Gateways |-> FALSE]
  /\ probe = [g \in Gateways |-> "none"]
  /\ asked = [g \in Gateways |-> 0]

\* The gateways whose connection the broker closes when g connects.
TakenOver(g) == {h \in Gateways \ {g} : connection[h] # 0 /\ ClientId(h) = ClientId(g)}

Connect(g) ==
  /\ adapter[g] = "running" /\ connection[g] = 0 /\ made[g] < MaxConnections
  /\ LET n == made[g] + 1 IN
     /\ made' = [made EXCEPT ![g] = n]
     /\ connection' = [h \in Gateways |->
          CASE h = g -> n [] h \in TakenOver(g) -> 0 [] OTHER -> connection[h]]
     /\ handlers' = [h \in Gateways |-> handlers[h] \cup
          CASE h = g -> {OnConnect(n)}
            [] h \in TakenOver(g) -> {OnConnectionLost(connection[h])}
            [] OTHER -> {}]
  /\ subscribed' = [h \in Gateways |-> subscribed[h] /\ h \notin TakenOver(g)]
  /\ UNCHANGED <<settings, mainRoutine, adapter, adapterReady, wrote, httpVars>>

\* The broker takes the subscription; its answer may be late.
Subscribe(g) ==
  /\ connection[g] # 0 /\ ~subscribed[g]
  /\ subscribed' = [subscribed EXCEPT ![g] = TRUE]
  /\ UNCHANGED <<settings, mainRoutine, adapter, adapterReady, connection, made, handlers, wrote, httpVars>>

ConnectionLost(g) ==
  /\ connection[g] # 0
  /\ connection' = [connection EXCEPT ![g] = 0]
  /\ subscribed' = [subscribed EXCEPT ![g] = FALSE]
  /\ handlers' = [handlers EXCEPT ![g] = @ \cup {OnConnectionLost(connection[g])}]
  /\ UNCHANGED <<settings, mainRoutine, adapter, adapterReady, made, wrote, httpVars>>

\* The wait takes a time out for an answer.
Outcomes_NoError(g, h) == {"acknowledged"}

\* The wait for the answer ends: with it, or with an error or after 10 s.
Outcomes(g, h) == {"failed"} \cup
  (IF h.conn = connection[g] /\ subscribed[g] THEN {"acknowledged"} ELSE {})

SubscribeReturns(g) ==
  /\ mainRoutine[g] # "ended"
  /\ \E h \in handlers[g] :
       /\ h.state = "waiting"
       /\ \E o \in Outcomes(g, h) :
            handlers' = [handlers EXCEPT ![g] = (@ \ {h}) \cup {[h EXCEPT !.state = o]}]
  /\ UNCHANGED <<settings, mainRoutine, adapter, adapterReady, connection, made, subscribed, wrote, httpVars>>

\* setReady by a handler, its last step.
SetReady(g) ==
  /\ mainRoutine[g] # "ended"
  /\ \E h \in handlers[g] :
       /\ h.state # "waiting"
       /\ handlers' = [handlers EXCEPT ![g] = @ \ {h}]
       /\ adapterReady' = [adapterReady EXCEPT ![g] = (h.state = "acknowledged")]
       /\ wrote' = [wrote EXCEPT ![g] = h.conn]
  /\ UNCHANGED <<settings, mainRoutine, adapter, connection, made, subscribed, httpVars>>

-----------------------------------------------------------------------------
(* The probe.  Each check after the first is a call that may fail. *)

Listening(g) == mainRoutine[g] \in {"serving", "signalled", "lowered"}

FirstCheck(g) == accepting[g] /\ adapterReady[g]

ProbeBegins(g) ==
  /\ Listening(g) /\ probe[g] \in {"none", "ready", "not ready"} /\ asked[g] < MaxRequests
  /\ asked' = [asked EXCEPT ![g] = @ + 1]
  /\ probe' = [probe EXCEPT ![g] = IF FirstCheck(g) THEN "postgres" ELSE "not ready"]
  /\ UNCHANGED <<settings, mainRoutine, adapter, mqttVars, accepting, stream>>

ProbeAnswers(g) ==
  /\ mainRoutine[g] # "ended"
  /\ \/ probe[g] = "postgres" /\ probe' = [probe EXCEPT ![g] = "kafka"]
     \/ probe[g] = "kafka" /\ probe' = [probe EXCEPT ![g] = "ready"]
     \/ probe[g] \in {"postgres", "kafka"} /\ probe' = [probe EXCEPT ![g] = "not ready"]
  /\ UNCHANGED <<settings, mainRoutine, adapter, mqttVars, accepting, stream, asked>>

StreamOpens(g) ==
  /\ Listening(g) /\ ~stream[g] /\ asked[g] < MaxRequests
  /\ asked' = [asked EXCEPT ![g] = @ + 1]
  /\ stream' = [stream EXCEPT ![g] = TRUE]
  /\ UNCHANGED <<settings, mainRoutine, adapter, mqttVars, accepting, probe>>

StreamCloses(g) ==
  /\ stream[g]
  /\ stream' = [stream EXCEPT ![g] = FALSE]
  /\ UNCHANGED <<settings, mainRoutine, adapter, mqttVars, accepting, probe, asked>>

-----------------------------------------------------------------------------
(* SIGTERM cancels the context that main and the adapter wait for. *)

Signal(g) ==
  /\ mainRoutine[g] = "serving"
  /\ mainRoutine' = [mainRoutine EXCEPT ![g] = "signalled"]
  /\ UNCHANGED <<settings, adapter, mqttVars, httpVars>>

\* setReady(false) and Disconnect, after which no handler is started.
AdapterStops(g) ==
  /\ mainRoutine[g] \notin {"serving", "ended"} /\ adapter[g] = "running"
  /\ adapter' = [adapter EXCEPT ![g] = "stopped"]
  /\ adapterReady' = [adapterReady EXCEPT ![g] = FALSE]
  /\ wrote' = [wrote EXCEPT ![g] = 0]
  /\ connection' = [connection EXCEPT ![g] = 0]
  /\ subscribed' = [subscribed EXCEPT ![g] = FALSE]
  /\ UNCHANGED <<settings, mainRoutine, made, handlers, httpVars>>

LowerAccepting(g) ==
  /\ mainRoutine[g] = "signalled"
  /\ accepting' = [accepting EXCEPT ![g] = FALSE]
  /\ mainRoutine' = [mainRoutine EXCEPT ![g] = "lowered"]
  /\ UNCHANGED <<settings, adapter, mqttVars, stream, probe, asked>>

Drain(g) ==
  /\ mainRoutine[g] = "lowered"
  /\ mainRoutine' = [mainRoutine EXCEPT ![g] = "draining"]
  /\ UNCHANGED <<settings, adapter, mqttVars, httpVars>>

\* Requests that Shutdown waits for.
Busy(g) == stream[g] \/ probe[g] \in {"postgres", "kafka"}

\* Shutdown waits for the requests, however long they take.
ShutdownReturns_Patient(g, expired) == ~Busy(g)

\* Shutdown returns when no request is left, or after 10 s.
ShutdownReturns(g, expired) == ~Busy(g) \/ expired

\* The process ends with the goroutines and connections it has.
Exit(g) ==
  /\ mainRoutine[g] = "draining"
  /\ \E expired \in BOOLEAN : ShutdownReturns(g, expired)
  /\ mainRoutine' = [mainRoutine EXCEPT ![g] = "ended"]
  /\ handlers' = [handlers EXCEPT ![g] = {}]
  /\ connection' = [connection EXCEPT ![g] = 0]
  /\ subscribed' = [subscribed EXCEPT ![g] = FALSE]
  /\ adapterReady' = [adapterReady EXCEPT ![g] = FALSE]
  /\ stream' = [stream EXCEPT ![g] = FALSE]
  /\ probe' = [probe EXCEPT ![g] = IF Busy(g) /\ @ \in {"postgres", "kafka"} THEN "none" ELSE @]
  /\ adapter' = [adapter EXCEPT ![g] = IF @ = "running" THEN "stopped" ELSE @]
  /\ UNCHANGED <<settings, made, wrote, accepting, asked>>

SessionNext == \E g \in Gateways :
  \/ Connect(g) \/ Subscribe(g) \/ ConnectionLost(g) \/ SubscribeReturns(g) \/ SetReady(g)
  \/ ProbeBegins(g) \/ ProbeAnswers(g) \/ StreamOpens(g) \/ StreamCloses(g)
  \/ Signal(g) \/ AdapterStops(g) \/ LowerAccepting(g) \/ Drain(g) \/ Exit(g)

SessionSpec == SessionInit /\ [][SessionNext]_sessionVars

\* A goroutine that can run does, and a wait of main or of a handler ends.
\* Nothing makes a browser close its stream or the broker answer.
Fairness == \A g \in Gateways :
  /\ WF_sessionVars(LowerAccepting(g)) /\ WF_sessionVars(Drain(g)) /\ WF_sessionVars(Exit(g))
  /\ WF_sessionVars(SubscribeReturns(g)) /\ WF_sessionVars(SetReady(g))

SessionFairSpec == SessionSpec /\ Fairness

-----------------------------------------------------------------------------
SessionTypeOK ==
  /\ settings \in Deployments
  /\ mainRoutine \in [Gateways -> {"serving", "signalled", "lowered", "draining", "ended"}]
  /\ adapter \in [Gateways -> {"failed", "running", "stopped"}]
  /\ accepting \in [Gateways -> BOOLEAN] /\ adapterReady \in [Gateways -> BOOLEAN]
  /\ made \in [Gateways -> 0 .. MaxConnections]
  /\ connection \in [Gateways -> 0 .. MaxConnections]
  /\ \A g \in Gateways : connection[g] \in {0, made[g]}
  /\ subscribed \in [Gateways -> BOOLEAN] /\ stream \in [Gateways -> BOOLEAN]
  /\ handlers \in [Gateways -> SUBSET [kind : {"connected", "lost"}, conn : 1 .. MaxConnections,
                                       state : {"waiting", "acknowledged", "failed"}]]
  /\ wrote \in [Gateways -> 0 .. MaxConnections]
  /\ probe \in [Gateways -> {"none", "postgres", "kafka", "ready", "not ready"}]
  /\ asked \in [Gateways -> 0 .. MaxRequests]

(* Gateways do not compete for a session: the connection of one is closed    *)
(* when another connects only if MQTT_CLIENT_ID gives both the same id, or   *)
(* they run with the same instance id.                                       *)
NoCompetition == [][\A g, h \in Gateways :
  made'[g] # made[g] /\ h # g /\ connection[h] # 0 /\ connection'[h] = 0 =>
    \/ settings[g].explicit # Unset /\ settings[g].explicit = settings[h].explicit
    \/ settings[g].explicit = Unset /\ settings[g].instance = settings[h].instance]_sessionVars

(* When a handler of the connection a gateway has was the last to set ready, *)
(* what it said is so: a gateway that says it is ready has its               *)
(* subscriptions.  Only a handler of an older connection can be wrong.       *)
OwnHandlerIsRight == \A g \in Gateways :
  adapterReady[g] /\ connection[g] # 0 /\ wrote[g] = connection[g] => subscribed[g]

(* A process told to stop ends, though the event stream of a browser does    *)
(* not end by itself and Shutdown waits for it.                              *)
Terminates == \A g \in Gateways : mainRoutine[g] = "signalled" ~> mainRoutine[g] = "ended"

(* k8s/README: /ready requires an active subscribed MQTT connection.  A      *)
(* gateway whose handlers have all ended, and which has no connection, does  *)
(* not say that it is ready.                                                 *)
ReadyMeansSubscribed == \A g \in Gateways :
  mainRoutine[g] = "serving" /\ adapterReady[g] /\ handlers[g] = {} => connection[g] # 0 /\ subscribed[g]
=============================================================================
