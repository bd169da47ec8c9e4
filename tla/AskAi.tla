-------------------------------- MODULE AskAi --------------------------------
(***************************************************************************)
(* The Ops Copilot tab (components/ai/ask-ai.tsx).  It answers a question  *)
(* of the operator, and explains the event whose "Explain Why" was clicked *)
(* on the dashboard.  The event to explain is the client's state           *)
(* (app/client-app.tsx), not the tab's: the tab reads it when it mounts    *)
(* and starts the explanation in an effect, whose cleanup sets cancelled.  *)
(*                                                                         *)
(* Both handlers check the semantic policy, await their answer and end in  *)
(* a finally block; loading is the set of those in progress on the screen. *)
(***************************************************************************)
EXTENDS Naturals, FiniteSets, SemanticPolicy

CONSTANTS Events,      \* explainable events of the timeline
          MaxClicks    \* bound: clicks of the operator in the whole client

VARIABLES tab,         \* the tab on the screen
          clicks,      \* clicks so far
          ontology,    \* what GET /api/ontology answers
          context,     \* explainContext: the event, and how often one was requested
          loading,     \* {"explain", "ask"}: what the tab waits for
          result,      \* what is shown for each: an event explained, a question answered
          aiCalls,     \* the handlers in flight
          explained    \* how many explanations the server was asked for

aiVars == <<context, loading, result, aiCalls, explained>>

Blank == [explain |-> {}, ask |-> {}]

InitAi ==
  /\ context = [event |-> {}, requestedAt |-> 0]
  /\ loading = {} /\ result = Blank /\ aiCalls = {} /\ explained = 0

\* Opening another tab.  Mounting with an event to explain starts explaining it,
\* though it may have been explained when the tab was last open.  A handler that
\* has not sent its request outlives the component, and prompts and sends.
ShowAi(t) ==
  LET start == t = "ai" /\ context'.event # {} IN
  /\ loading' = IF start THEN {"explain"} ELSE {}
  /\ result' = Blank
  /\ aiCalls' = {[h EXCEPT !.live = FALSE] : h \in {g \in aiCalls : g.at \in {"check", "send"}}}
                \cup (IF start THEN {[kind |-> "explain", at |-> "check", of |-> context'.event, live |-> TRUE, id |-> clicks']} ELSE {})
  /\ UNCHANGED explained

\* The client's explainEvent(eventId), which also opens the tab.
Request(e) == context' = [event |-> {e}, requestedAt |-> context.requestedAt + 1]

-------------------------------------------------------------------------------
Ask ==
  /\ tab = "ai" /\ "ask" \notin loading
  /\ clicks < MaxClicks /\ clicks' = clicks + 1
  /\ loading' = loading \cup {"ask"}
  /\ result' = [result EXCEPT !.ask = {}]
  /\ aiCalls' = aiCalls \cup {[kind |-> "ask", at |-> "check", of |-> {clicks'}, live |-> TRUE, id |-> clicks']}
  /\ UNCHANGED <<context, explained>>

\* The end of a handler: what it shows, if its component is still there.
Finishes(h, shown) ==
  /\ aiCalls' = aiCalls \ {h}
  /\ loading' = IF h.live THEN loading \ {h.kind} ELSE loading
  /\ result' = IF h.live THEN [result EXCEPT ![h.kind] = shown] ELSE result

\* The ontology has the role and the operator confirms: the request is sent.
AiConfirmed(h) ==
  /\ h.at = "check" /\ PolicyHolds("query", ontology)
  /\ aiCalls' = (aiCalls \ {h}) \cup {[h EXCEPT !.at = "send"]}
  /\ UNCHANGED <<context, loading, result, explained>>

\* The ontology is unreadable or lacks the role, or the operator cancels.
AiDeclined(h) ==
  /\ h.at = "check"
  /\ Finishes(h, result[h.kind])
  /\ UNCHANGED <<context, explained>>

\* The server takes the request: it counts against the allowance from here on.
AiServed(h) ==
  /\ h.at = "send"
  /\ explained' = explained + IF h.kind = "explain" THEN 1 ELSE 0
  /\ aiCalls' = (aiCalls \ {h}) \cup (IF h.live THEN {[h EXCEPT !.at = "sent"]} ELSE {})
  /\ UNCHANGED <<context, loading, result>>

AiAnswered(h) ==
  /\ h.at = "sent"
  /\ Finishes(h, h.of)
  /\ UNCHANGED <<context, explained>>

\* The request fails before or after the server has taken it.
AiFailed(h) ==
  /\ h.at \in {"send", "sent"}
  /\ Finishes(h, {})
  /\ UNCHANGED <<context, explained>>

AiStep == \E h \in aiCalls :
  AiConfirmed(h) \/ AiDeclined(h) \/ AiServed(h) \/ AiAnswered(h) \/ AiFailed(h)

-------------------------------------------------------------------------------
\* The types of the tab and of the event that the client holds for it.
AiTypeOK ==
  LET Of(kind, of) ==
        [kind : {kind}, at : {"check", "send", "sent"}, of : SUBSET of, live : BOOLEAN, id : 0..MaxClicks]
  IN  /\ context \in [event : SUBSET Events, requestedAt : Nat]
      /\ loading \subseteq {"explain", "ask"}
      /\ result \in [explain : SUBSET Events, ask : SUBSET (0..MaxClicks)]
      /\ aiCalls \subseteq Of("explain", Events) \cup Of("ask", 0..MaxClicks)
      /\ explained \in Nat

\* What the tab waits for has a handler that will end the wait.
LoadingIsHeld == \A k \in loading : \E h \in aiCalls : h.live /\ h.kind = k

-------------------------------------------------------------------------------
(* What the code does and no document mentions: the event to explain stays *)
(* in the client, so that each visit of the tab explains it again, at the  *)
(* cost of another AI request of the day's allowance.                      *)
ExplainedOncePerClick == explained <= context.requestedAt
===============================================================================
