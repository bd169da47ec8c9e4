----------------------------- MODULE ExplainEvent -----------------------------
(***************************************************************************)
(* Why did this happen: the explanation of one workspace event.            *)
(*                                                                         *)
(* The Go gateway builds the causal trace of the event from two rows of    *)
(* workspace_event.  The workflow of the web server then reviews its       *)
(* evidence, in three steps that run in parallel, and a critic reviews the *)
(* reviews.  With EXPLAIN_LLM_REVIEW each of the four is an answer of the   *)
(* language model, constrained by the evidence, or, when the model fails,   *)
(* the deterministic review.                                               *)
(*                                                                         *)
(* A claim is the set of evidence ids it cites.  Its text is left out, and *)
(* its support: that of every evidence a trace can hold is "proven".       *)
(***************************************************************************)
EXTENDS Naturals, FiniteSets

CONSTANTS
  Cited,       \* ids a model may cite, those of evidence among them
  Answers      \* sets of claims a model may answer

Agents == {"sensor", "rule", "execution"}
Evidence == {"device-execution", "command-failure", "trigger-reading", "matched-rule"}
Lacks == {"matched rule", "trigger sensor reading", "explainable action event"}

ASSUME ConstantsAssumption ==
  /\ Evidence \subseteq Cited
  /\ Answers \subseteq SUBSET SUBSET Cited

(* A definition F_Variant is F as a plausible mistake would have it; it is   *)
(* used by no action, only to see that the properties notice the difference. *)

VARIABLES
  event,     \* the selected event, and what is true of its command
  llm,       \* EXPLAIN_LLM_REVIEW is enabled and a provider configured
  phase,     \* where the workflow is
  trace,     \* the causal trace
  reviews,   \* the reviews finished
  critic     \* the review of the critic

vars == <<event, llm, phase, trace, reviews, critic>>

-----------------------------------------------------------------------------
(* A failed command was rejected by its device, was published in vain, or    *)
(* was not acknowledged; in the last two the device may have received it.    *)
WorkspaceEvents ==
  {e \in [type : {"succeeded", "failed", "other"},
          code : {"none", "rejected", "mqtt.publish.exhausted", "device.ack.timeout"},
          byRule : BOOLEAN, received : BOOLEAN] :
     /\ (e.type = "failed") = (e.code # "none")
     /\ e.type = "succeeded" \/ e.code = "rejected" => e.received}

Review == [findings : SUBSET SUBSET Cited, uncertain : SUBSET (Agents \cup {"model", "removed"})]
Criticism == [verified : SUBSET SUBSET Cited, rejected : SUBSET SUBSET Cited,
              uncertain : SUBSET (Lacks \cup Agents \cup {"model", "removed", "critic", "critic removed"})]
Trace == [evidence : SUBSET Evidence, missing : SUBSET Lacks,
          completeness : {"complete", "partial", "insufficient"}]

NoReview == [findings |-> {}, uncertain |-> {}]
NoCriticism == [verified |-> {}, rejected |-> {}, uncertain |-> {}]
NoTrace == [evidence |-> {}, missing |-> {}, completeness |-> "insufficient"]

Init ==
  /\ event \in WorkspaceEvents
  /\ llm \in BOOLEAN
  /\ phase = "trace"
  /\ trace = NoTrace
  /\ reviews = [a \in {} |-> NoReview]
  /\ critic = NoCriticism

-----------------------------------------------------------------------------
(* causalTrace                                                              *)

\* The rule event and its reading are in one row: both are found, or none is.
Linked(ruleFound) == event.byRule /\ ruleFound

\* Complete when nothing is missing; without a command of the workspace, insufficient.
causalTrace(ruleFound) ==
  LET found == {"device-execution"}
                 \cup (IF event.type = "failed" THEN {"command-failure"} ELSE {})
                 \cup (IF Linked(ruleFound) THEN {"trigger-reading", "matched-rule"} ELSE {})
      missing == IF Linked(ruleFound) THEN {} ELSE {"matched rule", "trigger sensor reading"}
  IN IF event.type = "other"
     THEN [evidence |-> {}, missing |-> {"explainable action event"},
           completeness |-> "insufficient"]
     ELSE [evidence |-> found, missing |-> missing,
           completeness |-> IF missing = {} THEN "complete" ELSE "partial"]

\* The query for the rule event may fail, which is taken for its absence.
BuildTrace ==
  /\ phase = "trace"
  /\ \E ruleFound \in BOOLEAN : trace' = causalTrace(ruleFound)
  /\ phase' = "reviews"
  /\ UNCHANGED <<event, llm, reviews, critic>>

\* The query for the selected event fails, or the gateway is not reached.
TraceFails ==
  /\ phase = "trace"
  /\ phase' = "failed"
  /\ UNCHANGED <<event, llm, trace, reviews, critic>>

-----------------------------------------------------------------------------
(* The reviews                                                              *)
\* As boundedEvidence has it: no reviewer looks for the failure of a command.
Reviewed_Bounded(agent) ==
  CASE agent = "sensor"    -> {"trigger-reading"}
    [] agent = "rule"      -> {"matched-rule"}
    [] agent = "execution" -> {"device-execution"}

\* The evidence each deterministic review looks for.
Reviewed(agent) ==
  CASE agent = "sensor"    -> {"trigger-reading"}
    [] agent = "rule"      -> {"matched-rule"}
    [] agent = "execution" -> {"device-execution", "command-failure"}

\* One claim for each evidence found, or an uncertainty.
deterministic(agent) ==
  LET found == trace.evidence \cap Reviewed(agent)
  IN [findings |-> {{id} : id \in found}, uncertain |-> IF found = {} THEN {agent} ELSE {}]

\* The evidence a model is shown.
boundedEvidence(agent) ==
  trace.evidence \cap
    (CASE agent = "sensor"    -> {"trigger-reading"}
       [] agent = "rule"      -> {"matched-rule"}
       [] agent = "execution" -> {"device-execution"})

\* Claims that cite some allowed evidence.
Backed_Partly(claims, allowed) == {c \in claims : c \cap allowed # {}}

\* Claims that cite evidence, and no other than the allowed.
Backed(claims, allowed) == {c \in claims : c # {} /\ c \subseteq allowed}

constrainLlmReview(review, agent) ==
  LET kept == Backed(review.findings, boundedEvidence(agent))
  IN [findings |-> kept, uncertain |-> review.uncertain
                                          \cup (IF kept # review.findings THEN {"removed"} ELSE {})]

\* Kept under the name of the step and not of the agent.
Finish_StepName(agent, review) ==
  LET step == CASE agent = "sensor" -> "sensor-review" [] agent = "rule" -> "rule-review"
                [] agent = "execution" -> "execution-review"
  IN reviews' = [a \in DOMAIN reviews \cup {step} |-> IF a = step THEN review ELSE reviews[a]]

Finish(agent, review) ==
  reviews' = [a \in DOMAIN reviews \cup {agent} |-> IF a = agent THEN review ELSE reviews[a]]

Pending(agent) == phase = "reviews" /\ agent \notin DOMAIN reviews

\* No model, a model that failed, or an answer for another agent.
ReviewByCode(agent) ==
  /\ Pending(agent)
  /\ Finish(agent, deterministic(agent))
  /\ UNCHANGED <<event, llm, phase, trace, critic>>

ReviewByModel(agent) ==
  /\ llm
  /\ Pending(agent)
  /\ \E claims \in Answers :
       Finish(agent, constrainLlmReview([findings |-> claims, uncertain |-> {"model"}], agent))
  /\ UNCHANGED <<event, llm, phase, trace, critic>>

-----------------------------------------------------------------------------
(* The critic                                                               *)
Findings == UNION {reviews[a].findings : a \in DOMAIN reviews}

\* What the trace misses is left out.
verifyEvidence_NoMissing ==
  [verified |-> {c \in Findings : c \subseteq trace.evidence},
   rejected |-> {c \in Findings : ~ c \subseteq trace.evidence},
   uncertain |-> UNION {reviews[a].uncertain : a \in DOMAIN reviews}]

verifyEvidence ==
  [verified |-> {c \in Findings : c \subseteq trace.evidence},
   rejected |-> {c \in Findings : ~ c \subseteq trace.evidence},
   uncertain |-> trace.missing \cup UNION {reviews[a].uncertain : a \in DOMAIN reviews}]

constrainCriticReview(review) ==
  LET verified == Backed(review.verified, trace.evidence)
      rejected == Backed(review.rejected, trace.evidence)
  IN [verified |-> verified, rejected |-> rejected,
      uncertain |-> review.uncertain
                      \cup (IF verified # review.verified \/ rejected # review.rejected
                            THEN {"critic removed"} ELSE {})]

AllReviewed == phase = "reviews" /\ DOMAIN reviews = Agents

CriticByCode ==
  /\ AllReviewed
  /\ critic' = verifyEvidence
  /\ phase' = "done"
  /\ UNCHANGED <<event, llm, trace, reviews>>

CriticByModel ==
  /\ llm
  /\ AllReviewed
  /\ \E verified, rejected \in Answers :
       critic' = constrainCriticReview(
                   [verified |-> verified, rejected |-> rejected, uncertain |-> {"critic"}])
  /\ phase' = "done"
  /\ UNCHANGED <<event, llm, trace, reviews>>

-----------------------------------------------------------------------------
Next ==
  \/ BuildTrace
  \/ TraceFails
  \/ \E agent \in Agents : ReviewByCode(agent) \/ ReviewByModel(agent)
  \/ CriticByCode
  \/ CriticByModel

Spec == Init /\ [][Next]_vars

-----------------------------------------------------------------------------
(* Every variable keeps its type.                                           *)
TypeOK ==
  /\ event \in WorkspaceEvents
  /\ llm \in BOOLEAN
  /\ phase \in {"trace", "reviews", "done", "failed"}
  /\ trace \in Trace
  /\ DOMAIN reviews \subseteq Agents
  /\ \A a \in DOMAIN reviews : reviews[a] \in Review
  /\ critic \in Criticism

(* Whatever the model answers, and whichever steps fell back, no claim of a *)
(* review or of the critic cites anything the trace does not hold, and the  *)
(* claims of a reviewer stay within its own part of the trace.              *)
ClaimsConstrained ==
  /\ \A c \in Findings \cup critic.verified \cup critic.rejected :
       c # {} /\ c \subseteq trace.evidence
  /\ \A a \in DOMAIN reviews : \A c \in reviews[a].findings : c \subseteq Reviewed(a)

(* A critic that fails after models have reviewed rejects nothing: the code *)
(* that takes its place verifies exactly what the reviewers found, and says *)
(* what the trace misses and the reviewers doubt.                           *)
FallbackAgrees ==
  phase = "done" /\ "critic" \notin critic.uncertain =>
    /\ critic.verified = Findings
    /\ critic.rejected = {}
    /\ trace.missing \subseteq critic.uncertain
    /\ \A a \in Agents : reviews[a].uncertain \subseteq critic.uncertain

(* Without a model every evidence of the trace is the subject of a verified *)
(* claim: between the three reviewers and the critic nothing the gateway    *)
(* recorded is passed over, the failure of a command included.              *)
AllEvidenceReviewed ==
  phase = "done" /\ ~ llm => UNION critic.verified = trace.evidence

-----------------------------------------------------------------------------
(* What the documents say and the code does not do.                         *)

(* The execution reviewer covers the failure of the command: a model that   *)
(* answers the deterministic review it was given would have it kept.        *)
FailureReviewed ==
  llm /\ phase = "reviews" =>
    \A a \in Agents : constrainLlmReview(deterministic(a), a).findings = deterministic(a).findings

(* The trace keeps the provenance of a command of a rule.                   *)
ProvenanceKept == phase = "reviews" /\ event.byRule /\ event.type # "other" =>
                    trace.completeness = "complete"

(* Evidence is not fabricated: that a device received a command is proven   *)
(* only when it did.                                                        *)
ExecutionNotFabricated == "device-execution" \in trace.evidence => event.received
=============================================================================
