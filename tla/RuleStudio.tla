------------------------------ MODULE RuleStudio ------------------------------
(***************************************************************************)
(* The Automation tab (components/rules/rule-studio.tsx): an instruction   *)
(* becomes a proposal, the operator approves or discards it, and switches  *)
(* or deletes the rules in the list.  Each click starts an async handler   *)
(* that awaits several answers; the handlers of several clicks interleave  *)
(* at every await, and share the component's state with one string, busy,  *)
(* to keep them apart.                                                     *)
(*                                                                         *)
(* A handler keeps what its closure captured at the click: the proposal,   *)
(* or the rule and the state its button promised.  Leaving the tab         *)
(* unmounts the component: its state is gone and what its handlers would   *)
(* set is lost, but a handler that has yet to send goes on and sends.      *)
(*                                                                         *)
(* A proposal is named by the click that asked for it; 0 is no proposal.   *)
(***************************************************************************)
EXTENDS Naturals, FiniteSets, SemanticPolicy

CONSTANTS Rules,       \* identifiers of rules
          Booked,      \* those in use at the start
          MaxClicks    \* bound: clicks of the operator in the whole client

VARIABLES tab,         \* the tab on the screen
          clicks,      \* clicks so far
          ontology,    \* what GET /api/ontology answers
          proposal,    \* the proposal on the screen
          studioBusy,  \* "", "propose", "approve" or the rule being changed
          list,        \* the rules on the screen, each "on", "off" or "absent"
          studioCalls, \* the handlers in flight
          book,        \* the rules of the operational store
          reviewed,    \* proposals that were on the screen when Approve was clicked
          posted,      \* <<handler, proposal>> of every POST that saved a rule
          cleared      \* handlers of rule buttons that have ended since the tab was opened

studioVars == <<proposal, studioBusy, list, studioCalls, book, reviewed, posted, cleared>>

NoRules == [r \in Rules |-> "absent"]

\* refreshRules: the GET of the list, here the one sent when the tab opens.
Load == [id |-> 0, kind |-> "load", at |-> "list", of |-> 0, to |-> "", saw |-> NoRules, live |-> TRUE]

\* The handler a click starts.
Handler(kind, at, of, to) ==
  [id |-> clicks', kind |-> kind, at |-> at, of |-> of, to |-> to, saw |-> NoRules, live |-> TRUE]

InitStudio ==
  /\ proposal = 0 /\ studioBusy = "" /\ list = NoRules /\ studioCalls = {}
  /\ book = [r \in Rules |-> IF r \in Booked THEN "on" ELSE "absent"]
  /\ reviewed = {} /\ posted = {} /\ cleared = 0

\* Opening another tab: the component mounts with its first load, or unmounts.
\* A handler that has not sent its change yet outlives the component.
ShowStudio(t) ==
  /\ proposal' = 0 /\ studioBusy' = "" /\ list' = NoRules
  /\ studioCalls' = {[h EXCEPT !.live = FALSE] : h \in {g \in studioCalls : g.at = "check" \/ (g.at = "send" /\ g.kind # "propose")}}
                    \cup (IF t = "rules" THEN {Load} ELSE {})
  /\ cleared' = 0
  /\ UNCHANGED <<book, reviewed, posted>>

Click == clicks < MaxClicks /\ clicks' = clicks + 1

-------------------------------------------------------------------------------
(* Clicks.                                                                  *)

Propose ==
  /\ tab = "rules" /\ studioBusy = ""
  /\ Click
  /\ proposal' = 0 /\ studioBusy' = "propose"
  /\ studioCalls' = studioCalls \cup {Handler("propose", "send", 0, "")}
  /\ UNCHANGED <<list, book, reviewed, posted, cleared>>

\* A bug: the button is not disabled, and the handler does not look at busy.
Approve_WhileBusy ==
  /\ tab = "rules" /\ proposal # 0
  /\ Click
  /\ studioBusy' = "approve" /\ reviewed' = reviewed \cup {proposal}
  /\ studioCalls' = studioCalls \cup {Handler("approve", "check", proposal, "on")}
  /\ UNCHANGED <<proposal, list, book, posted, cleared>>

Approve ==
  /\ tab = "rules" /\ proposal # 0 /\ studioBusy = ""
  /\ Click
  /\ studioBusy' = "approve" /\ reviewed' = reviewed \cup {proposal}
  /\ studioCalls' = studioCalls \cup {Handler("approve", "check", proposal, "on")}
  /\ UNCHANGED <<proposal, list, book, posted, cleared>>

Discard ==
  /\ tab = "rules" /\ proposal # 0
  /\ Click
  /\ proposal' = 0
  /\ UNCHANGED <<studioBusy, list, studioCalls, book, reviewed, posted, cleared>>

\* The buttons of a rule look only at whether busy names that rule.
MutateRule(r, action) ==
  /\ tab = "rules" /\ list[r] # "absent" /\ studioBusy # r
  /\ Click
  /\ studioBusy' = r
  /\ studioCalls' = studioCalls \cup
       {Handler(action, "check", r,
                IF action = "delete" THEN "absent" ELSE IF list[r] = "on" THEN "off" ELSE "on")}
  /\ UNCHANGED <<proposal, list, book, reviewed, posted, cleared>>

-------------------------------------------------------------------------------
(* The steps of a handler.                                                  *)

\* A handler goes on to its next await.  Once its component is gone, nothing it
\* does after its request has an effect.
Moves(h, to) ==
  studioCalls' = (studioCalls \ {h}) \cup (IF h.live \/ to.at = "send" THEN {to} ELSE {})

\* A bug: an early return or an error leaves busy as it is.
Ends_Busy(h) ==
  /\ studioCalls' = studioCalls \ {h}
  /\ studioBusy' = IF h.live /\ h.at \in {"listed", "send"} /\ h.kind # "load" THEN "" ELSE studioBusy
  /\ cleared' = cleared + IF h.live /\ h.kind \in {"toggle", "delete"} THEN 1 ELSE 0

\* The finally block: whatever the handler's outcome, busy is emptied.
Ends(h) ==
  /\ studioCalls' = studioCalls \ {h}
  /\ studioBusy' = IF h.live /\ h.kind # "load" THEN "" ELSE studioBusy
  /\ cleared' = cleared + IF h.live /\ h.kind \in {"toggle", "delete"} THEN 1 ELSE 0

\* The ontology has the role and the operator confirms the prompt.
Confirmed(h) ==
  /\ h.at = "check" /\ PolicyHolds(h.kind, ontology)
  /\ Moves(h, [h EXCEPT !.at = "send"])
  /\ UNCHANGED <<proposal, studioBusy, list, book, reviewed, posted, cleared>>

\* The ontology is unreadable or lacks the role, or the operator cancels.
Declined(h) ==
  /\ h.at = "check"
  /\ Ends(h)
  /\ UNCHANGED <<proposal, list, book, reviewed, posted>>

\* The assistant's answer.
Proposed(h) ==
  /\ h.at = "send" /\ h.kind = "propose"
  /\ proposal' = h.id
  /\ Ends(h)
  /\ UNCHANGED <<list, book, reviewed, posted>>

\* A bug: what is sent is the proposal on the screen by now.
Body_OnScreen(h) == proposal

\* The body of the POST: the proposal of the render the click was made in.
Body(h) == h.of

\* The server saves the proposal as a rule of its own.
Saved(h) ==
  /\ h.at = "send" /\ h.kind = "approve"
  /\ \E r \in Rules : book[r] = "absent" /\ book' = [book EXCEPT ![r] = h.to]
  /\ posted' = posted \cup {<<h.id, Body(h)>>}
  /\ Moves(h, [h EXCEPT !.at = "sent"])
  /\ UNCHANGED <<proposal, studioBusy, list, reviewed, cleared>>

\* The server switches or deletes the rule, if it still has it.
Changed(h) ==
  /\ h.at = "send" /\ h.kind \in {"toggle", "delete"} /\ book[h.of] # "absent"
  /\ book' = [book EXCEPT ![h.of] = h.to]
  /\ Moves(h, [h EXCEPT !.at = "sent"])
  /\ UNCHANGED <<proposal, studioBusy, list, reviewed, posted, cleared>>

\* The request fails or is refused, or the answer to one that was carried out
\* is lost; or the list cannot be read.
Failed(h) ==
  /\ h.at \in {"send", "sent", "list"}
  /\ Ends(h)
  /\ UNCHANGED <<proposal, list, book, reviewed, posted>>

\* The change succeeded: approve clears the proposal on the screen, whichever
\* it is, and the list is read again.
Answered(h) ==
  /\ h.at = "sent"
  /\ proposal' = IF h.kind = "approve" THEN 0 ELSE proposal
  /\ Moves(h, [h EXCEPT !.at = "list"])
  /\ UNCHANGED <<studioBusy, list, book, reviewed, posted, cleared>>

\* GET /api/rules: the server reads at one time, the browser shows at another.
ListRead(h) ==
  /\ h.at = "list"
  /\ Moves(h, [h EXCEPT !.at = "listed", !.saw = book])
  /\ UNCHANGED <<proposal, studioBusy, list, book, reviewed, posted, cleared>>

Listed(h) ==
  /\ h.at = "listed"
  /\ list' = h.saw
  /\ Ends(h)
  /\ UNCHANGED <<proposal, book, reviewed, posted>>

-------------------------------------------------------------------------------
StudioClick ==
  \/ Propose \/ Approve \/ Discard
  \/ \E r \in Rules, action \in {"toggle", "delete"} : MutateRule(r, action)

StudioStep == \E h \in studioCalls :
  \/ Confirmed(h) \/ Declined(h) \/ Proposed(h) \/ Saved(h) \/ Changed(h)
  \/ Failed(h) \/ Answered(h) \/ ListRead(h) \/ Listed(h)

-------------------------------------------------------------------------------
RuleStates == {"on", "off", "absent"}
Awaits == {"check", "send", "sent", "list", "listed"}

\* What a handler may have captured, by the click that started it.
Handlers ==
  LET Of(kinds, of, to) ==
        [id : 0..MaxClicks, kind : kinds, at : Awaits, of : of, to : to,
         saw : [Rules -> RuleStates], live : BOOLEAN]
  IN  Of({"load", "propose"}, {0}, {""}) \cup Of({"approve"}, 1..MaxClicks, {"on"})
        \cup Of({"toggle", "delete"}, Rules, RuleStates)

\* The types of the tab and of the store behind it.
StudioTypeOK ==
  /\ proposal \in 0..MaxClicks
  /\ studioBusy \in {"", "propose", "approve"} \cup Rules
  /\ list \in [Rules -> RuleStates] /\ book \in [Rules -> RuleStates]
  /\ studioCalls \subseteq Handlers
  /\ reviewed \subseteq 1..MaxClicks /\ posted \subseteq (0..MaxClicks) \X (1..MaxClicks)
  /\ cleared \in Nat

\* The string busy disables buttons only while a handler runs that will empty it.
BusyIsHeld == studioBusy # "" => \E h \in studioCalls : h.live /\ h.kind # "load"

\* A rule is saved only from a proposal that was on the screen when the operator
\* clicked Approve, although the screen may show another one by the time of the
\* POST: a rule button empties busy under a running approve, so a new proposal
\* can arrive before the old one is sent.
SavedAsReviewed == \A p \in posted : p[2] \in reviewed

\* Propose and Approve are kept apart by busy, except that each handler of a
\* rule button that ends lets one more in.
ProposalsExclusive ==
  Cardinality({h \in studioCalls : h.live /\ h.kind \in {"propose", "approve"}}) <= 1 + cleared

-------------------------------------------------------------------------------
(* What the documents say and the code does not do.  README.md:332 calls   *)
(* the approval an explicit human gate.  One review may save two rules:    *)
(* once the handler of a rule button has emptied busy, Approve is enabled  *)
(* again while the first POST is in flight; and after a lost answer the    *)
(* proposal is still there to approve.                                     *)
SavedOnce == \A p, q \in posted : p[2] = q[2] => p = q

\* A proposal discarded on the screen is not saved afterwards; Discard is not
\* disabled while approve runs, and stops nothing.
DiscardedIsDropped == [][\A p \in posted' \ posted : tab = "rules" => proposal # 0]_studioVars

===============================================================================
