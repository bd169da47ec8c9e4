---------------------------- MODULE Events_proofs -----------------------------
(*****************************************************************************)
(* Proofs about workspace events: how one is explained (ExplainEvent), and   *)
(* how it reaches the dashboards (EventFeed), for any traces and events, any *)
(* window and batch, and any bounds.  The modules share no variable: each    *)
(* theorem is about the specification of one.                                *)
(*****************************************************************************)
EXTENDS ExplainEvent, EventFeed, FiniteSetTheorems, TLAPS

-----------------------------------------------------------------------------
(* What each step of the workflow makes of the trace.                       *)

(* A trace holds evidence, and names what it lacks.                         *)
LEMMA TraceIsTyped ==
  ASSUME NEW ruleFound \in BOOLEAN
  PROVE  causalTrace(ruleFound) \in Trace
  BY DEF causalTrace, Linked, Trace, Evidence, Lacks

(* The deterministic review of an agent stays within the trace and its part. *)
LEMMA DeterministicIsBacked ==
  ASSUME NEW agent \in Agents, trace \in Trace
  PROVE  /\ deterministic(agent) \in Review
         /\ \A c \in deterministic(agent).findings :
              c # {} /\ c \subseteq trace.evidence /\ c \subseteq Reviewed(agent)
<1> DEFINE found == trace.evidence \cap Reviewed(agent)
<1>1. found \subseteq Cited
  BY ConstantsAssumption DEF ConstantsAssumption, Trace
<1>2. {{x} : x \in found} \subseteq SUBSET Cited
  BY <1>1
<1>3. (IF found = {} THEN {agent} ELSE {}) \subseteq Agents
  OBVIOUS
<1>4. deterministic(agent) = [findings |-> {{x} : x \in found},
                              uncertain |-> IF found = {} THEN {agent} ELSE {}]
  BY DEF deterministic
<1> HIDE DEF found
<1>5. deterministic(agent) \in Review
  BY <1>2, <1>3, <1>4 DEF Review
<1>6. ASSUME NEW c \in deterministic(agent).findings
      PROVE  c # {} /\ c \subseteq trace.evidence /\ c \subseteq Reviewed(agent)
  BY <1>4 DEF found
<1>7. QED
  BY <1>5, <1>6

(* So does the answer of a model once it is constrained.                    *)
LEMMA ConstrainedIsBacked ==
  ASSUME NEW agent \in Agents, trace \in Trace, NEW review \in Review
  PROVE  /\ constrainLlmReview(review, agent) \in Review
         /\ \A c \in constrainLlmReview(review, agent).findings :
              c # {} /\ c \subseteq trace.evidence /\ c \subseteq Reviewed(agent)
<1> DEFINE kept == Backed(review.findings, boundedEvidence(agent))
           doubts == review.uncertain \cup (IF kept # review.findings THEN {"removed"} ELSE {})
<1>1. kept \subseteq review.findings
  BY DEF Backed
<1>2. constrainLlmReview(review, agent) = [findings |-> kept, uncertain |-> doubts]
  BY DEF constrainLlmReview
<1>3. doubts \subseteq Agents \cup {"model", "removed"}
  BY DEF Review
<1>4. ASSUME NEW c \in kept
      PROVE  c # {} /\ c \subseteq boundedEvidence(agent)
  BY DEF Backed
<1>5. boundedEvidence(agent) \subseteq trace.evidence \cap Reviewed(agent)
  BY DEF boundedEvidence, Reviewed, Agents
<1> HIDE DEF kept, doubts
<1>6. constrainLlmReview(review, agent) \in Review
  BY <1>1, <1>2, <1>3 DEF Review
<1>7. QED
  BY <1>2, <1>4, <1>5, <1>6

-----------------------------------------------------------------------------
(* The inductive invariant.                                                 *)

(* The reviews begin with the trace, and the critic follows the reviews.    *)
InOrder ==
  /\ phase = "trace" => DOMAIN reviews = {}
  /\ phase # "done" => critic = NoCriticism
  /\ phase = "done" => DOMAIN reviews = Agents

(* Without a model every review is the deterministic one.                   *)
ReviewsByCode == ~ llm => \A a \in DOMAIN reviews : reviews[a] = deterministic(a)

(* The claims of a review, each by itself.                                  *)
ReviewsBacked ==
  \A a \in DOMAIN reviews : \A c \in reviews[a].findings :
    c # {} /\ c \subseteq trace.evidence /\ c \subseteq Reviewed(a)

CriticBacked ==
  \A c \in critic.verified \cup critic.rejected : c # {} /\ c \subseteq trace.evidence

IInv ==
  /\ TypeOK
  /\ InOrder
  /\ ReviewsByCode
  /\ ReviewsBacked
  /\ CriticBacked
  /\ FallbackAgrees
  /\ AllEvidenceReviewed

-----------------------------------------------------------------------------
LEMMA InitIInv == Init => IInv
<1> SUFFICES ASSUME Init PROVE IInv
  OBVIOUS
<1>1. TypeOK
  BY DEF Init, TypeOK, NoTrace, Trace, NoCriticism, Criticism
<1>2. DOMAIN reviews = {}
  BY DEF Init
<1>3. critic.verified = {} /\ critic.rejected = {}
  BY DEF Init, NoCriticism
<1>4. InOrder /\ ReviewsByCode /\ ReviewsBacked /\ CriticBacked
  BY <1>2, <1>3 DEF Init, InOrder, ReviewsByCode, ReviewsBacked, CriticBacked
<1>5. FallbackAgrees /\ AllEvidenceReviewed
  BY DEF Init, FallbackAgrees, AllEvidenceReviewed, NoTrace
<1>6. QED
  BY <1>1, <1>4, <1>5 DEF IInv

(* The trace is built before any review, so nothing depends on it yet.      *)
LEMMA BuildTraceKeepsIInv == IInv /\ BuildTrace => IInv'
<1> SUFFICES ASSUME IInv, BuildTrace PROVE IInv'
  OBVIOUS
<1>1. PICK ruleFound \in BOOLEAN : trace' = causalTrace(ruleFound)
  BY DEF BuildTrace
<1>2. /\ phase = "trace" /\ phase' = "reviews"
      /\ UNCHANGED <<event, llm, reviews, critic>>
  BY DEF BuildTrace
<1>3. DOMAIN reviews = {} /\ critic = NoCriticism
  BY <1>2 DEF IInv, InOrder
<1>4. trace' \in Trace
  BY <1>1, <1>2, TraceIsTyped
<1>5. TypeOK'
  BY <1>2, <1>4 DEF IInv, TypeOK
<1>6. InOrder' /\ ReviewsByCode' /\ ReviewsBacked' /\ CriticBacked'
  BY <1>2, <1>3 DEF InOrder, ReviewsByCode, ReviewsBacked, CriticBacked, NoCriticism
<1>7. FallbackAgrees' /\ AllEvidenceReviewed'
  BY <1>2 DEF FallbackAgrees, AllEvidenceReviewed
<1>8. QED
  BY <1>4, <1>5, <1>6, <1>7 DEF IInv

LEMMA TraceFailsKeepsIInv == IInv /\ TraceFails => IInv'
  BY DEF IInv, TraceFails, TypeOK, InOrder, ReviewsByCode, deterministic, ReviewsBacked,
         CriticBacked, FallbackAgrees, AllEvidenceReviewed

(* A review is added to those that are finished, and stays within its part. *)
LEMMA ReviewKeepsIInv ==
  ASSUME IInv, NEW agent \in Agents, NEW review \in Review,
         Pending(agent), Finish(agent, review),
         UNCHANGED <<event, llm, phase, trace, critic>>,
         \A c \in review.findings : c # {} /\ c \subseteq trace.evidence /\ c \subseteq Reviewed(agent),
         ~ llm => review = deterministic(agent)
  PROVE  IInv'
<1>1. phase = "reviews" /\ phase' = "reviews"
  BY DEF Pending
<1>2. /\ DOMAIN reviews' = DOMAIN reviews \cup {agent}
      /\ \A a \in DOMAIN reviews' : reviews'[a] = IF a = agent THEN review ELSE reviews[a]
  BY DEF Finish
<1>3. TypeOK'
  BY <1>1, <1>2 DEF IInv, TypeOK
<1>4. InOrder' /\ CriticBacked'
  BY <1>1 DEF IInv, InOrder, CriticBacked
<1>5. ReviewsByCode'
  BY <1>2 DEF IInv, ReviewsByCode, deterministic
<1>6. ReviewsBacked'
  BY <1>2 DEF IInv, ReviewsBacked
<1>7. FallbackAgrees' /\ AllEvidenceReviewed'
  BY <1>1 DEF IInv, FallbackAgrees, AllEvidenceReviewed
<1>8. QED
  BY <1>3, <1>4, <1>5, <1>6, <1>7 DEF IInv

LEMMA ReviewByCodeKeepsIInv ==
  ASSUME IInv, NEW agent \in Agents, ReviewByCode(agent)
  PROVE  IInv'
<1>1. trace \in Trace
  BY DEF IInv, TypeOK
<1>2. QED
  BY <1>1, DeterministicIsBacked, ReviewKeepsIInv DEF ReviewByCode

LEMMA ReviewByModelKeepsIInv ==
  ASSUME IInv, NEW agent \in Agents, ReviewByModel(agent)
  PROVE  IInv'
<1>1. trace \in Trace
  BY DEF IInv, TypeOK
<1>2. PICK claims \in Answers :
        Finish(agent, constrainLlmReview([findings |-> claims, uncertain |-> {"model"}], agent))
  BY DEF ReviewByModel
<1> DEFINE answer == [findings |-> claims, uncertain |-> {"model"}]
<1>3. answer \in Review
  BY ConstantsAssumption DEF ConstantsAssumption, Review
<1> HIDE DEF answer
<1>4. Finish(agent, constrainLlmReview(answer, agent))
  BY <1>2 DEF answer
<1>5. QED
  BY <1>1, <1>3, <1>4, ConstrainedIsBacked, ReviewKeepsIInv DEF ReviewByModel

-----------------------------------------------------------------------------
(* Every claim of a finished review is one of Findings, and backed.         *)
LEMMA FindingsAreBacked ==
  ASSUME IInv
  PROVE  /\ Findings \subseteq SUBSET Cited
         /\ \A c \in Findings : c # {} /\ c \subseteq trace.evidence
<1>1. ASSUME NEW c \in Findings
      PROVE  c \subseteq Cited /\ c # {} /\ c \subseteq trace.evidence
  <2>1. PICK a \in DOMAIN reviews : c \in reviews[a].findings
    BY DEF Findings
  <2>2. reviews[a] \in Review
    BY DEF IInv, TypeOK
  <2>3. QED
    BY <2>1, <2>2 DEF IInv, ReviewsBacked, Review
<1>2. QED
  BY <1>1

(* The code that stands in for the critic verifies every claim.             *)
LEMMA CriticByCodeKeepsIInv == IInv /\ CriticByCode => IInv'
<1> SUFFICES ASSUME IInv, CriticByCode PROVE IInv'
  OBVIOUS
<1> DEFINE doubts == UNION {reviews[a].uncertain : a \in DOMAIN reviews}
<1>1. /\ phase = "reviews" /\ phase' = "done" /\ DOMAIN reviews = Agents
      /\ UNCHANGED <<event, llm, trace, reviews>>
  BY DEF CriticByCode, AllReviewed
<1>2. {c \in Findings : c \subseteq trace.evidence} = Findings
      /\ {c \in Findings : ~ c \subseteq trace.evidence} = {}
  BY FindingsAreBacked
<1>3. critic' = [verified |-> Findings, rejected |-> {}, uncertain |-> trace.missing \cup doubts]
  BY <1>2 DEF CriticByCode, verifyEvidence
<1>4. doubts \subseteq Agents \cup {"model", "removed"}
  <2>1. \A a \in DOMAIN reviews : reviews[a].uncertain \subseteq Agents \cup {"model", "removed"}
    BY DEF IInv, TypeOK, Review
  <2>2. QED
    BY <2>1
<1>5. \A a \in DOMAIN reviews : reviews[a].uncertain \subseteq doubts
  OBVIOUS
<1> HIDE DEF doubts
<1>6. critic' \in Criticism
  BY <1>3, <1>4, FindingsAreBacked DEF IInv, TypeOK, Trace, Criticism
<1>7. TypeOK'
  BY <1>1, <1>6 DEF IInv, TypeOK
<1>8. InOrder'
  BY <1>1 DEF IInv, InOrder
<1>9. ReviewsByCode' /\ ReviewsBacked'
  BY <1>1 DEF IInv, ReviewsByCode, deterministic, ReviewsBacked
<1>10. CriticBacked'
  BY <1>1, <1>3, FindingsAreBacked DEF CriticBacked
<1>11. Findings' = Findings
  BY <1>1 DEF Findings
<1>12. FallbackAgrees'
  <2>1. critic'.verified = Findings' /\ critic'.rejected = {}
    BY <1>3, <1>11
  <2>2. trace'.missing \subseteq critic'.uncertain
    BY <1>1, <1>3
  <2>3. \A a \in Agents : reviews'[a].uncertain \subseteq critic'.uncertain
    BY <1>1, <1>3, <1>5
  <2>4. QED
    BY <2>1, <2>2, <2>3 DEF FallbackAgrees
<1>13. AllEvidenceReviewed'
  <2> SUFFICES ASSUME ~ llm PROVE UNION Findings = trace.evidence
    BY <1>1, <1>3 DEF AllEvidenceReviewed
  <2>1. UNION Findings \subseteq trace.evidence
    BY FindingsAreBacked
  <2>2. ASSUME NEW x \in trace.evidence PROVE x \in UNION Findings
    <3>1. PICK a \in Agents : x \in Reviewed(a)
      <4>1. x \in Evidence
        BY DEF IInv, TypeOK, Trace
      <4>2. QED
        BY <4>1 DEF Evidence, Agents, Reviewed
    <3>2. {x} \in deterministic(a).findings
      BY <3>1 DEF deterministic
    <3>3. reviews[a] = deterministic(a)
      BY <1>1 DEF IInv, ReviewsByCode
    <3>4. {x} \in Findings
      BY <1>1, <3>2, <3>3 DEF Findings
    <3>5. QED
      BY <3>4
  <2>3. QED
    BY <2>1, <2>2
<1>14. QED
  BY <1>7, <1>8, <1>9, <1>10, <1>12, <1>13 DEF IInv

(* A critic's answer keeps only claims that are backed.                     *)
LEMMA CriticByModelKeepsIInv == IInv /\ CriticByModel => IInv'
<1> SUFFICES ASSUME IInv, CriticByModel PROVE IInv'
  OBVIOUS
<1>1. /\ llm /\ phase = "reviews" /\ phase' = "done" /\ DOMAIN reviews = Agents
      /\ UNCHANGED <<event, llm, trace, reviews>>
  BY DEF CriticByModel, AllReviewed
<1>2. PICK v \in Answers, x \in Answers :
        critic' = constrainCriticReview([verified |-> v, rejected |-> x, uncertain |-> {"critic"}])
  BY DEF CriticByModel
<1> DEFINE bv == Backed(v, trace.evidence)
           bx == Backed(x, trace.evidence)
           doubts == {"critic"} \cup (IF bv # v \/ bx # x THEN {"critic removed"} ELSE {})
<1>3. critic' = [verified |-> bv, rejected |-> bx, uncertain |-> doubts]
  BY <1>2 DEF constrainCriticReview
<1>4. \A c \in bv \cup bx : c # {} /\ c \subseteq trace.evidence
  BY DEF Backed
<1>5. bv \subseteq SUBSET Cited /\ bx \subseteq SUBSET Cited
  BY ConstantsAssumption DEF ConstantsAssumption, Backed
<1>6. "critic" \in doubts /\ doubts \subseteq {"critic", "critic removed"}
  OBVIOUS
<1> HIDE DEF bv, bx, doubts
<1>7. critic' \in Criticism
  BY <1>3, <1>5, <1>6 DEF Criticism
<1>8. TypeOK'
  BY <1>1, <1>7 DEF IInv, TypeOK
<1>9. InOrder'
  BY <1>1 DEF IInv, InOrder
<1>10. ReviewsByCode' /\ ReviewsBacked'
  BY <1>1 DEF IInv, ReviewsByCode, ReviewsBacked
<1>11. CriticBacked'
  BY <1>1, <1>3, <1>4 DEF CriticBacked
<1>12. FallbackAgrees' /\ AllEvidenceReviewed'
  BY <1>1, <1>3, <1>6 DEF FallbackAgrees, AllEvidenceReviewed
<1>13. QED
  BY <1>8, <1>9, <1>10, <1>11, <1>12 DEF IInv

LEMMA StutterKeepsIInv == IInv /\ UNCHANGED vars => IInv'
  BY DEF IInv, vars, TypeOK, InOrder, ReviewsByCode, deterministic, ReviewsBacked, CriticBacked,
         FallbackAgrees, Findings, AllEvidenceReviewed

-----------------------------------------------------------------------------
(* The inductive invariant holds in every state of every run.               *)
THEOREM Invariance == Spec => []IInv
<1>1. IInv /\ [Next]_vars => IInv'
  BY BuildTraceKeepsIInv, TraceFailsKeepsIInv, ReviewByCodeKeepsIInv, ReviewByModelKeepsIInv,
     CriticByCodeKeepsIInv, CriticByModelKeepsIInv, StutterKeepsIInv DEF Next
<1>2. QED
  BY InitIInv, <1>1, PTL DEF Spec

(* The types of explain-review.ts and causal-trace.ts.                      *)
THEOREM TypeCorrect == Spec => []TypeOK
<1>1. IInv => TypeOK
  BY DEF IInv
<1>2. QED
  BY Invariance, <1>1, PTL

(* Whatever a model answers, no claim goes beyond the evidence of the trace, *)
(* nor a reviewer beyond its part (constrainLlmReview, constrainCriticReview). *)
THEOREM ClaimsStayWithinTheTrace == Spec => []ClaimsConstrained
<1>1. IInv => ClaimsConstrained
  BY FindingsAreBacked DEF IInv, CriticBacked, ReviewsBacked, ClaimsConstrained
<1>2. QED
  BY Invariance, <1>1, PTL

(* A failing critic is replaced by one that agrees with the reviewers       *)
(* (reviewCriticWithOptionalLlm, verifyEvidence).                           *)
THEOREM FallbackAgreesWithReviewers == Spec => []FallbackAgrees
<1>1. IInv => FallbackAgrees
  BY DEF IInv
<1>2. QED
  BY Invariance, <1>1, PTL

(* Without a model the whole trace is reviewed and verified.                *)
THEOREM WholeTraceReviewed == Spec => []AllEvidenceReviewed
<1>1. IInv => AllEvidenceReviewed
  BY DEF IInv
<1>2. QED
  BY Invariance, <1>1, PTL

-------------------------------------------------------------------------------
(* EventFeed                                                                 *)

\* Ids are given out in order, each once.
FeedNumbers ==
  /\ id \in [Events -> Nat] /\ lastValue \in Nat
  /\ \A e \in Events : id[e] <= lastValue
  /\ \A e, f \in Events : id[e] = id[f] /\ id[e] # 0 => e = f

\* What is committed, and what is made of it.
FeedLists ==
  /\ committed \subseteq Events /\ IsFiniteSet(committed)
  /\ \A e \in committed : id[e] # 0
  /\ shown \subseteq committed /\ buffered \subseteq committed /\ since \subseteq committed
  /\ \A reply \in snapshot : reply[2] \subseteq committed

Increasing(s) == \A i, j \in 1 .. Len(s) : i < j => id[s[i]] < id[s[j]]

\* What is on its way lies between the last event received and the cursor.
FeedSent ==
  /\ stream \in [state : {"connecting", "open", "closed"}, cursor : Nat]
  /\ lastEventId \in Nat
  /\ wire \in Seq(committed) /\ Increasing(wire)
  /\ \A i \in 1 .. Len(wire) : id[wire[i]] > lastEventId
  /\ ~IsOpen => wire = <<>>
  /\ IsOpen => lastEventId <= stream.cursor /\ \A i \in 1 .. Len(wire) : id[wire[i]] <= stream.cursor

FeedInv == FeedNumbers /\ FeedLists /\ FeedSent /\ ReceivedIsShown

Newer(S, v) == {f \in S : id[f] > v}
Top(S) == {e \in S : Cardinality(Newer(S, id[e])) < Window}

-----------------------------------------------------------------------------
(* Lists cut to the window.                                                 *)

LEMMA NewerFinite ==
  ASSUME NEW S, IsFiniteSet(S), NEW v
  PROVE  IsFiniteSet(Newer(S, v)) /\ Cardinality(Newer(S, v)) \in Nat
<1>1. Newer(S, v) \in SUBSET S
  BY DEF Newer
<1> QED BY <1>1, FS_Subset, FS_CardinalityType

\* A windowful of a smaller set is one of a larger set.
LEMMA WindowGrows ==
  ASSUME NEW R, NEW S, IsFiniteSet(S), R \subseteq S, IsFiniteSet(R), Cardinality(R) >= Window
  PROVE  Cardinality(S) >= Window
<1>1. Cardinality(R) <= Cardinality(S)
  BY FS_Subset
<1>2. Cardinality(R) \in Nat /\ Cardinality(S) \in Nat /\ Window \in Nat
  BY FS_CardinalityType, FeedAssumption DEF FeedAssumption
<1> QED BY <1>1, <1>2

\* Cutting a list to the window leaves a windowful of whatever had one: the
\* latest of those cut off has its windowful among those kept.
LEMMA TopKeeps ==
  ASSUME FeedNumbers, NEW A, A \subseteq Events, IsFiniteSet(A), NEW v \in Nat, Cardinality(Newer(A, v)) >= Window
  PROVE  Cardinality(Newer(Top(A), v)) >= Window
<1> DEFINE N == Newer(A, v)
           T == Top(A)
<1>1. IsFiniteSet(T) /\ T \subseteq A
  <2>1. T \in SUBSET A
    BY DEF Top
  <2> QED BY <2>1, FS_Subset
<1>2. N \subseteq A
  BY DEF Newer
<1>3. CASE N \subseteq T
  <2>1. Newer(T, v) = N
    BY <1>1, <1>3 DEF Newer
  <2> QED BY <2>1
<1>4. CASE ~(N \subseteq T)
  <2> DEFINE Ranks == {Newer(A, id[g]) : g \in N \ T}
  <2>1. Ranks \subseteq FiniteSubsetsOf(A)
    <3>1. ASSUME NEW g \in N \ T PROVE Newer(A, id[g]) \in FiniteSubsetsOf(A)
      BY NewerFinite DEF FiniteSubsetsOf, Newer
    <3> QED BY <3>1
  <2>2. Ranks # {}
    BY <1>4
  <2> HIDE DEF Ranks
  <2>3. PICK R \in Ranks : \A Q \in Ranks : ~(<<Q, R>> \in StrictSubsetOrdering(A))
    BY <2>1, <2>2, FS_StrictSubsetOrderingWellFounded, WFMin
  <2>4. PICK g \in N \ T : R = Newer(A, id[g])
    BY <2>3 DEF Ranks
  <2>5. g \in A /\ id[g] > v /\ id[g] \in Nat
    BY <2>4 DEF Newer, FeedNumbers
  <2>6. ASSUME NEW f \in R PROVE f \in Newer(T, v)
    <3>1. f \in A /\ id[f] > id[g] /\ id[f] \in Nat
      BY <2>4 DEF Newer, FeedNumbers
    <3>2. id[f] > v
      BY <2>5, <3>1
    <3>3. ASSUME f \notin T PROVE FALSE
      <4>1. Newer(A, id[f]) \in Ranks
        BY <3>1, <3>2, <3>3 DEF Ranks, Newer
      <4>2. Newer(A, id[f]) \subseteq R
        <5>1. ASSUME NEW x \in Newer(A, id[f]) PROVE x \in A /\ id[x] > id[g]
          <6>1. x \in A /\ id[x] > id[f] /\ id[x] \in Nat
            BY DEF Newer, FeedNumbers
          <6> QED BY <2>5, <3>1, <6>1
        <5> QED BY <2>4, <5>1 DEF Newer
      <4>3. f \notin Newer(A, id[f])
        BY <3>1 DEF Newer
      <4>4. <<Newer(A, id[f]), R>> \in StrictSubsetOrdering(A)
        <5>1. Newer(A, id[f]) \subseteq A /\ R \subseteq A
          BY <2>4 DEF Newer
        <5> QED BY <4>2, <4>3, <5>1 DEF StrictSubsetOrdering
      <4> QED BY <2>3, <4>1, <4>4
    <3> QED BY <3>1, <3>2, <3>3 DEF Newer
  <2>7. IsFiniteSet(R) /\ Cardinality(R) >= Window
    <3>1. ~(Cardinality(R) < Window)
      BY <2>4, <2>5 DEF Top
    <3>2. IsFiniteSet(R) /\ Cardinality(R) \in Nat /\ Window \in Nat
      BY <2>4, NewerFinite, FeedAssumption DEF FeedAssumption
    <3> QED BY <3>1, <3>2
  <2>8. IsFiniteSet(Newer(T, v)) /\ R \subseteq Newer(T, v)
    BY <1>1, <2>6, NewerFinite
  <2> QED BY <2>7, <2>8, WindowGrows
<1> QED BY <1>3, <1>4

\* What leaves a list with a windowful of newer events on it takes no windowful
\* from others.
LEMMA WindowSurvives ==
  ASSUME FeedNumbers, NEW S, S \subseteq Events, NEW R, IsFiniteSet(R), R \subseteq Events,
         \A f \in S \ R : Cardinality(Newer(R, id[f])) >= Window,
         IsFiniteSet(S), NEW v \in Nat, Cardinality(Newer(S, v)) >= Window
  PROVE  Cardinality(Newer(R, v)) >= Window
<1>1. IsFiniteSet(Newer(R, v)) /\ IsFiniteSet(Newer(S, v))
  BY NewerFinite
<1>2. CASE Newer(S, v) \subseteq R
  <2>1. Newer(S, v) \subseteq Newer(R, v)
    BY <1>2 DEF Newer
  <2> QED BY <1>1, <2>1, WindowGrows
<1>3. CASE ~(Newer(S, v) \subseteq R)
  <2>1. PICK f \in S \ R : id[f] > v
    BY <1>3 DEF Newer
  <2>2. id[f] \in Nat
    BY DEF FeedNumbers
  <2>3. Newer(R, id[f]) \subseteq Newer(R, v)
    <3>1. ASSUME NEW x \in R, id[x] > id[f] PROVE id[x] > v
      <4>1. id[x] \in Nat
        BY DEF FeedNumbers
      <4> QED BY <2>1, <2>2, <3>1, <4>1
    <3> QED BY <3>1 DEF Newer
  <2>4. IsFiniteSet(Newer(R, id[f])) /\ Cardinality(Newer(R, id[f])) >= Window
    BY NewerFinite
  <2> QED BY <1>1, <2>3, <2>4, WindowGrows
<1> QED BY <1>2, <1>3

LEMMA MergeKeeps ==
  ASSUME FeedNumbers, NEW A, NEW O, A \subseteq Events, O \subseteq Events, IsFiniteSet(A), IsFiniteSet(O)
  PROVE  /\ \A f \in A \ Top(A) : Cardinality(Newer(O \cup Top(A), id[f])) >= Window
         /\ \A v \in Nat : Cardinality(Newer(O \cup A, v)) >= Window => Cardinality(Newer(O \cup Top(A), v)) >= Window
<1> DEFINE R == O \cup Top(A)
           S == O \cup A
<1>1. Top(A) \subseteq A /\ IsFiniteSet(Top(A))
  <2>1. Top(A) \in SUBSET A
    BY DEF Top
  <2> QED BY <2>1, FS_Subset
<1>2. IsFiniteSet(R) /\ IsFiniteSet(S) /\ R \subseteq Events /\ S \subseteq Events
  BY <1>1, FS_Union
<1>3. ASSUME NEW f \in A \ Top(A) PROVE Cardinality(Newer(R, id[f])) >= Window
  <2>1. id[f] \in Nat
    BY DEF FeedNumbers
  <2>2. ~(Cardinality(Newer(A, id[f])) < Window)
    BY DEF Top
  <2>3. Cardinality(Newer(A, id[f])) \in Nat /\ Window \in Nat
    BY NewerFinite, FeedAssumption DEF FeedAssumption
  <2>4. Cardinality(Newer(Top(A), id[f])) >= Window
    BY <2>1, <2>2, <2>3, TopKeeps
  <2>5. Newer(Top(A), id[f]) \subseteq Newer(R, id[f])
    BY DEF Newer
  <2>6. IsFiniteSet(Newer(R, id[f])) /\ IsFiniteSet(Newer(Top(A), id[f]))
    BY <1>1, <1>2, NewerFinite
  <2> QED BY <2>4, <2>5, <2>6, WindowGrows
<1>4. \A f \in S \ R : Cardinality(Newer(R, id[f])) >= Window
  BY <1>3
<1>5. ASSUME NEW v \in Nat, Cardinality(Newer(S, v)) >= Window PROVE Cardinality(Newer(R, v)) >= Window
  <2> HIDE DEF R, S
  <2> QED BY <1>2, <1>4, <1>5, WindowSurvives
<1> QED BY <1>3, <1>5

-----------------------------------------------------------------------------
(* Events in the order of their ids.                                        *)

Older(S, v) == {f \in S : id[f] < v}
RankIn(S) == [e \in S |-> Cardinality(Older(S, id[e]))]

LEMMA OlderFinite ==
  ASSUME NEW S, IsFiniteSet(S), NEW v
  PROVE  IsFiniteSet(Older(S, v)) /\ Cardinality(Older(S, v)) \in Nat
<1>1. Older(S, v) \in SUBSET S
  BY DEF Older
<1> QED BY <1>1, FS_Subset, FS_CardinalityType

\* The rank of an event rises with its id.
LEMMA RankRises ==
  ASSUME FeedNumbers, NEW S, S \subseteq Events, IsFiniteSet(S), NEW e \in S, NEW f \in S, id[e] < id[f]
  PROVE  RankIn(S)[e] < RankIn(S)[f]
<1> DEFINE E == Older(S, id[e])
           F == Older(S, id[f])
<1>1. id[e] \in Nat /\ id[f] \in Nat /\ \A x \in S : id[x] \in Nat
  BY DEF FeedNumbers
<1>2. E \subseteq F /\ e \in F /\ e \notin E
  <2>1. \A x \in S : id[x] < id[e] => id[x] < id[f]
    BY <1>1
  <2>2. ~(id[e] < id[e])
    BY <1>1
  <2> QED BY <2>1, <2>2 DEF Older
<1>3. IsFiniteSet(E) /\ IsFiniteSet(F) /\ Cardinality(E) \in Nat /\ Cardinality(F) \in Nat
  BY OlderFinite
<1> HIDE DEF E, F
<1>4. Cardinality(E) <= Cardinality(F) /\ Cardinality(E) # Cardinality(F)
  BY <1>2, <1>3, FS_Subset
<1>5. Cardinality(E) < Cardinality(F)
  BY <1>3, <1>4
<1> QED BY <1>5 DEF RankIn, E, F

\* Every rank below the number of events is that of one of them.
LEMMA RanksTaken ==
  ASSUME FeedNumbers, NEW S, S \subseteq Events, \A e \in S : id[e] # 0, IsFiniteSet(S)
  PROVE  \A n \in 1 .. Cardinality(S) : \E e \in S : Cardinality(Older(S, id[e])) = n - 1
<1> DEFINE m == Cardinality(S)
           T == 0 .. (m - 1)
           r == RankIn(S)
<1>0. m \in Nat
  BY FS_CardinalityType
<1>1. \A e \in S : r[e] \in T
  <2> SUFFICES ASSUME NEW e \in S PROVE r[e] \in T
    OBVIOUS
  <2> DEFINE E == Older(S, id[e])
  <2>1. E \subseteq S /\ e \notin E
    BY DEF Older, FeedNumbers
  <2>2. IsFiniteSet(E) /\ Cardinality(E) \in Nat
    BY OlderFinite
  <2>3. r[e] = Cardinality(E)
    BY DEF RankIn
  <2> HIDE DEF E
  <2>4. Cardinality(E) <= m /\ Cardinality(E) # m
    BY <2>1, <2>2, FS_Subset
  <2> HIDE DEF r, m
  <2>5. Cardinality(E) \in 0 .. (m - 1)
    BY <1>0, <2>2, <2>4
  <2> QED BY <2>3, <2>5
<1>2. \A e, f \in S : r[e] = r[f] => e = f
  <2> SUFFICES ASSUME NEW e \in S, NEW f \in S, r[e] = r[f], e # f PROVE FALSE
    OBVIOUS
  <2>1. id[e] \in Nat /\ id[f] \in Nat /\ id[e] # id[f]
    BY DEF FeedNumbers
  <2>2. r[e] < r[f] \/ r[f] < r[e]
    BY <2>1, RankRises
  <2>3. r[e] \in Nat
    BY <1>0, <1>1
  <2> HIDE DEF r
  <2> QED BY <2>2, <2>3
<1>3. r \in Injection(S, T)
  <2>1. r \in [S -> T]
    BY <1>1 DEF RankIn
  <2> QED BY <1>2, <2>1 DEF Injection, IsInjective
<1>4. IsFiniteSet(T) /\ Cardinality(T) = m
  <2> HIDE DEF m
  <2>1. 0 \in Int /\ m - 1 \in Int
    BY <1>0
  <2> QED BY <1>0, <2>1, FS_Interval
<1>5. r \in Surjection(S, T)
  <2> HIDE DEF T, r, m
  <2> QED BY <1>3, <1>4, FS_Injection DEF m
<1>6. ASSUME NEW n \in 1 .. m PROVE \E e \in S : Cardinality(Older(S, id[e])) = n - 1
  <2>1. n - 1 \in T
    BY <1>0
  <2>2. PICK e \in S : r[e] = n - 1
    <3> HIDE DEF T, r, m
    <3> QED BY <1>5, <2>1 DEF Surjection
  <2> QED BY <2>2 DEF RankIn
<1> QED BY <1>6

LEMMA ByIdOrders ==
  ASSUME FeedNumbers, NEW S, S \subseteq Events, \A e \in S : id[e] # 0, IsFiniteSet(S)
  PROVE  ById(S) \in Seq(S) /\ Len(ById(S)) = Cardinality(S) /\ Increasing(ById(S))
<1> DEFINE s == ById(S)
           m == Cardinality(S)
<1>0. m \in Nat
  BY FS_CardinalityType
<1>1. ASSUME NEW n \in 1 .. m PROVE s[n] \in S /\ RankIn(S)[s[n]] = n - 1
  <2>1. s[n] = CHOOSE e \in S : Cardinality(Older(S, id[e])) = n - 1
    BY DEF ById, Older
  <2>2. \E e \in S : Cardinality(Older(S, id[e])) = n - 1
    BY RanksTaken
  <2> HIDE DEF s
  <2>3. s[n] \in S /\ Cardinality(Older(S, id[s[n]])) = n - 1
    BY <2>1, <2>2
  <2> QED BY <2>3 DEF RankIn
<1>2. s \in [1 .. m -> S]
  <2> DEFINE pick(n) == CHOOSE e \in S : Cardinality({f \in S : id[f] < id[e]}) = n - 1
  <2>1. s = [n \in 1 .. m |-> pick(n)]
    BY DEF ById
  <2> HIDE DEF s, m, pick
  <2>2. s = [n \in 1 .. m |-> s[n]]
    BY <2>1
  <2> QED BY <1>1, <2>2
<1>3. s \in Seq(S) /\ Len(s) = m
  <2> HIDE DEF s, m
  <2> QED BY <1>0, <1>2
<1>4. ASSUME NEW i \in 1 .. m, NEW j \in 1 .. m, i < j PROVE id[s[i]] < id[s[j]]
  <2> HIDE DEF s, m
  <2>1. s[i] \in S /\ s[j] \in S /\ RankIn(S)[s[i]] = i - 1 /\ RankIn(S)[s[j]] = j - 1
    BY <1>1
  <2>2. id[s[i]] \in Nat /\ id[s[j]] \in Nat
    BY <2>1 DEF FeedNumbers
  <2>3. id[s[j]] # id[s[i]]
    <3>1. i - 1 # j - 1
      BY <1>0, <1>4
    <3>2. s[i] # s[j]
      BY <2>1, <3>1
    <3> QED BY <2>1, <2>2, <3>2 DEF FeedNumbers
  <2>4. ~(id[s[j]] < id[s[i]])
    <3>1. ~(j - 1 < i - 1)
      BY <1>0, <1>4
    <3> QED BY <2>1, <3>1, RankRises
  <2> QED BY <2>2, <2>3, <2>4
<1> QED BY <1>3, <1>4 DEF Increasing

-----------------------------------------------------------------------------
(* The steps.                                                               *)

LEMMA FeedInitially == FeedInit => FeedInv
  BY FS_EmptySet DEF FeedInit, FeedInv, FeedNumbers, FeedLists, FeedSent, ReceivedIsShown, Increasing, Closed, IsOpen

\* Events already numbered keep their numbers.
LEMMA InsertKeeps ==
  ASSUME FeedInv, NEW e \in Events, Insert(e)
  PROVE  FeedInv'
<1>0. FeedNumbers /\ FeedLists /\ FeedSent /\ ReceivedIsShown
  BY DEF FeedInv
<1>1. /\ id[e] = 0 /\ lastValue' = lastValue + 1 /\ id' = [id EXCEPT ![e] = lastValue + 1]
      /\ UNCHANGED <<committed, stream, wire, lastEventId, received, visible, shown, buffered, since, snapshot, refreshes, faults>>
  BY DEF Insert, streamVars, clientVars, displayVars, fetchVars
<1>2. FeedNumbers'
  <2>1. id'[e] = lastValue + 1 /\ \A f \in Events \ {e} : id'[f] = id[f] /\ id[f] \in Nat /\ id[f] <= lastValue
    BY <1>0, <1>1 DEF FeedNumbers
  <2>2. lastValue \in Nat /\ id' \in [Events -> Nat]
    BY <1>0, <1>1 DEF FeedNumbers
  <2>3. ASSUME NEW f \in Events, NEW g \in Events, id'[f] = id'[g], id'[f] # 0 PROVE f = g
    BY <1>0, <2>1, <2>2, <2>3 DEF FeedNumbers
  <2>4. ASSUME NEW f \in Events PROVE id'[f] <= lastValue + 1
    BY <2>1, <2>2
  <2> QED BY <1>1, <2>2, <2>3, <2>4 DEF FeedNumbers
<1>3. \A f \in committed : id'[f] = id[f]
  BY <1>0, <1>1 DEF FeedNumbers, FeedLists
<1>4. FeedLists'
  BY <1>0, <1>1, <1>3 DEF FeedLists
<1>5. FeedSent'
  <2>1. \A i \in 1 .. Len(wire) : wire[i] \in committed /\ id'[wire[i]] = id[wire[i]]
    BY <1>0, <1>3 DEF FeedSent
  <2>2. Increasing(wire)'
    BY <1>0, <1>1, <2>1 DEF FeedSent, Increasing
  <2> QED BY <1>0, <1>1, <2>1, <2>2 DEF FeedSent, IsOpen
<1>6. ReceivedIsShown'
  <2>1. ASSUME NEW f \in since PROVE {g \in shown \cup buffered : id'[g] > id'[f]} = {g \in shown \cup buffered : id[g] > id[f]}
    BY <1>0, <1>3 DEF FeedLists
  <2> QED BY <1>0, <1>1, <2>1 DEF ReceivedIsShown
<1> QED BY <1>2, <1>4, <1>5, <1>6 DEF FeedInv

LEMMA CommitKeeps ==
  ASSUME FeedInv, NEW e \in Events, Commit(e)
  PROVE  FeedInv'
<1>0. FeedNumbers /\ FeedLists /\ FeedSent /\ ReceivedIsShown
  BY DEF FeedInv
<1>1. /\ id[e] > 0 /\ committed' = committed \cup {e}
      /\ UNCHANGED <<id, lastValue, stream, wire, lastEventId, received, visible, shown, buffered, since, snapshot, refreshes, faults>>
  BY DEF Commit, streamVars, clientVars, displayVars, fetchVars
<1>2. FeedNumbers' /\ ReceivedIsShown'
  BY <1>0, <1>1 DEF FeedNumbers, ReceivedIsShown
<1>3. FeedLists'
  <2>1. IsFiniteSet(committed')
    BY <1>0, <1>1, FS_AddElement DEF FeedLists
  <2>2. id[e] # 0
    BY <1>0, <1>1 DEF FeedNumbers
  <2> QED BY <1>0, <1>1, <2>1, <2>2 DEF FeedLists
<1>4. FeedSent'
  <2>1. wire \in Seq(committed')
    BY <1>0, <1>1 DEF FeedSent
  <2> QED BY <1>0, <1>1, <2>1 DEF FeedSent, Increasing, IsOpen
<1> QED BY <1>2, <1>3, <1>4 DEF FeedInv

\* The steps of the connection.
LEMMA StreamKeeps ==
  ASSUME FeedInv, FeedSent', UNCHANGED <<tableVars, clientVars, displayVars, fetchVars>>
  PROVE  FeedInv'
<1>1. UNCHANGED <<id, lastValue, committed, lastEventId, received, visible, shown, buffered, since, snapshot, refreshes>>
  BY DEF tableVars, clientVars, displayVars, fetchVars
<1>2. FeedNumbers' /\ FeedLists' /\ ReceivedIsShown'
  BY <1>1 DEF FeedInv, FeedNumbers, FeedLists, ReceivedIsShown
<1> QED BY <1>2 DEF FeedInv

LEMMA ConnectionKeeps ==
  ASSUME FeedInv, Connect \/ ConnectWithoutLatest \/ ConnectFails \/ Disconnect
  PROVE  FeedInv'
<1>0. FeedNumbers /\ FeedLists /\ FeedSent
  BY DEF FeedInv
<1>1. UNCHANGED <<tableVars, clientVars, displayVars, fetchVars>> /\ committed' = committed /\ lastEventId' = lastEventId
  BY DEF Connect, ConnectWithoutLatest, ConnectFails, Disconnect, tableVars, clientVars
<1>2. lastEventId \in Nat
  BY <1>0 DEF FeedSent
<1>3. wire' = <<>>
  BY <1>0 DEF Connect, ConnectWithoutLatest, ConnectFails, Disconnect, FeedSent, IsOpen
<1>4. StartCursor \in Nat /\ lastEventId <= StartCursor
  <2>1. Latest \subseteq Nat
    <3>1. ListWorkspaceEvents(1) \subseteq Events
      BY <1>0 DEF ListWorkspaceEvents, FeedLists
    <3>2. \A e \in Events : id[e] \in Nat
      BY <1>0 DEF FeedNumbers
    <3> QED BY <3>1, <3>2 DEF Latest
  <2>2. CASE lastEventId # 0 \/ Latest = {}
    BY <1>2, <2>2 DEF StartCursor
  <2>3. CASE ~(lastEventId # 0 \/ Latest = {})
    <3>1. PICK i \in Latest : StartCursor = i
      BY <2>3 DEF StartCursor
    <3> QED BY <2>1, <2>3, <3>1
  <2> QED BY <2>2, <2>3
<1>5. PICK c \in Nat : stream' \in {Closed, Failed} \/ (stream' = Open(c) /\ lastEventId <= c)
  <2>1. CASE Connect
    BY <1>4, <2>1 DEF Connect
  <2>2. CASE ConnectWithoutLatest
    BY <2>2 DEF ConnectWithoutLatest
  <2>3. CASE ConnectFails \/ Disconnect
    BY <2>3 DEF ConnectFails, Disconnect
  <2> QED BY <2>1, <2>2, <2>3
<1>6. FeedSent'
  <2>1. Len(wire') = 0 /\ wire' \in Seq(committed') /\ Increasing(wire)'
    BY <1>3 DEF Increasing
  <2>2. stream' \in [state : {"connecting", "open", "closed"}, cursor : Nat]
    BY <1>5 DEF Closed, Failed, Open
  <2>3. IsOpen' => lastEventId' <= stream'.cursor
    BY <1>1, <1>5 DEF IsOpen, Closed, Failed, Open
  <2> QED BY <1>1, <1>2, <1>3, <2>1, <2>2, <2>3 DEF FeedSent
<1> QED BY <1>1, <1>6, StreamKeeps

\* What a poll sends lies above the cursor, in order.
LEMMA PollKeeps ==
  ASSUME FeedInv, Poll
  PROVE  FeedInv'
<1>0. FeedNumbers /\ FeedLists /\ FeedSent
  BY DEF FeedInv
<1> DEFINE S == ListWorkspaceEventsAfter(stream.cursor, Batch)
           items == ById(S)
<1>1. /\ IsOpen /\ items # <<>> /\ wire' = wire \o items
      /\ stream' = [stream EXCEPT !.cursor = id[items[Len(items)]]]
      /\ UNCHANGED <<tableVars, clientVars, displayVars, fetchVars>>
  BY DEF Poll
<1>2. S \subseteq committed /\ IsFiniteSet(S) /\ \A e \in S : id[e] > stream.cursor /\ id[e] # 0
  <2>1. S \in SUBSET committed /\ \A e \in S : id[e] > stream.cursor
    BY DEF ListWorkspaceEventsAfter
  <2> HIDE DEF S
  <2> QED BY <1>0, <2>1, FS_Subset DEF FeedLists
<1>3. items \in Seq(S) /\ Increasing(items)
  <2> HIDE DEF S
  <2>1. S \subseteq Events
    BY <1>0, <1>2 DEF FeedLists
  <2> QED BY <1>0, <1>2, <2>1, ByIdOrders
<1> HIDE DEF items, S
<1> DEFINE n == Len(items)
           c == id[items[n]]
<1>4. n \in Nat /\ n # 0 /\ items[n] \in S
  BY <1>1, <1>3
<1>5. \A i \in 1 .. n : items[i] \in S /\ id[items[i]] \in Nat /\ id[items[i]] > stream.cursor /\ id[items[i]] <= c
  <2> SUFFICES ASSUME NEW i \in 1 .. n
               PROVE  items[i] \in S /\ id[items[i]] \in Nat /\ id[items[i]] > stream.cursor /\ id[items[i]] <= c
    OBVIOUS
  <2>1. items[i] \in S
    BY <1>3
  <2>2. id[items[i]] \in Nat /\ c \in Nat /\ id[items[i]] > stream.cursor
    BY <1>0, <1>2, <1>4, <2>1 DEF FeedNumbers, FeedLists
  <2>3. CASE i = n
    BY <2>1, <2>2, <2>3
  <2>4. CASE i # n
    <3>1. i < n
      BY <1>4, <2>4
    <3>2. id[items[i]] < c
      BY <1>3, <1>4, <3>1 DEF Increasing
    <3> QED BY <2>1, <2>2, <3>2
  <2> QED BY <2>3, <2>4
<1>6. stream.cursor \in Nat /\ c \in Nat /\ lastEventId \in Nat /\ stream.cursor < c
  <2>1. stream.cursor \in Nat /\ lastEventId \in Nat
    BY <1>0 DEF FeedSent
  <2>2. n \in 1 .. n
    BY <1>4
  <2> QED BY <1>5, <2>1, <2>2
<1>7. /\ Len(wire) \in Nat /\ wire \in Seq(committed)
      /\ \A i \in 1 .. Len(wire) : id[wire[i]] \in Nat /\ id[wire[i]] > lastEventId /\ id[wire[i]] <= stream.cursor
      /\ lastEventId <= stream.cursor
  <2>1. wire \in Seq(committed) /\ lastEventId <= stream.cursor
    BY <1>0, <1>1 DEF FeedSent
  <2>2. \A i \in 1 .. Len(wire) : wire[i] \in Events
    BY <1>0, <2>1 DEF FeedLists
  <2> QED BY <1>0, <1>1, <2>1, <2>2 DEF FeedSent, FeedNumbers
<1>8. /\ wire' \in Seq(committed) /\ Len(wire') = Len(wire) + n
      /\ \A i \in 1 .. Len(wire) : wire'[i] = wire[i]
      /\ \A i \in Len(wire) + 1 .. Len(wire) + n : wire'[i] = items[i - Len(wire)]
  <2>1. items \in Seq(committed)
    BY <1>2, <1>3
  <2> QED BY <1>1, <1>7, <2>1
<1>9. \A i \in 1 .. Len(wire') :
        \/ i \in 1 .. Len(wire) /\ wire'[i] = wire[i]
        \/ i > Len(wire) /\ i - Len(wire) \in 1 .. n /\ wire'[i] = items[i - Len(wire)]
  BY <1>4, <1>7, <1>8
<1>10. Increasing(wire')
  <2> SUFFICES ASSUME NEW i \in 1 .. Len(wire'), NEW j \in 1 .. Len(wire'), i < j PROVE id[wire'[i]] < id[wire'[j]]
    BY DEF Increasing
  <2>1. CASE i \in 1 .. Len(wire) /\ j \in 1 .. Len(wire)
    BY <1>0, <1>8, <2>1 DEF FeedSent, Increasing
  <2>2. CASE i \in 1 .. Len(wire) /\ j > Len(wire)
    <3>1. j - Len(wire) \in 1 .. n /\ wire'[j] = items[j - Len(wire)]
      BY <1>7, <1>9, <2>2
    <3>2. id[wire'[i]] \in Nat /\ id[wire'[i]] <= stream.cursor
      BY <1>7, <1>8, <2>2
    <3>3. id[wire'[j]] \in Nat /\ id[wire'[j]] > stream.cursor
      BY <1>5, <3>1
    <3> QED BY <1>6, <3>2, <3>3
  <2>3. CASE i > Len(wire)
    <3>1. j > Len(wire)
      BY <1>7, <2>3
    <3>2. i - Len(wire) \in 1 .. n /\ wire'[i] = items[i - Len(wire)]
      BY <1>7, <1>9, <2>3
    <3>3. j - Len(wire) \in 1 .. n /\ wire'[j] = items[j - Len(wire)]
      BY <1>7, <1>9, <3>1
    <3>4. i - Len(wire) < j - Len(wire)
      BY <1>7
    <3> QED BY <1>3, <3>2, <3>3, <3>4 DEF Increasing
  <2> QED BY <1>7, <1>8, <2>1, <2>2, <2>3
<1>11. \A i \in 1 .. Len(wire') : id[wire'[i]] > lastEventId /\ id[wire'[i]] <= c
  <2> SUFFICES ASSUME NEW i \in 1 .. Len(wire') PROVE id[wire'[i]] > lastEventId /\ id[wire'[i]] <= c
    OBVIOUS
  <2>1. CASE i \in 1 .. Len(wire) /\ wire'[i] = wire[i]
    BY <1>6, <1>7, <2>1
  <2>2. CASE i - Len(wire) \in 1 .. n /\ wire'[i] = items[i - Len(wire)]
    BY <1>5, <1>6, <1>7, <2>2
  <2> QED BY <1>9, <2>1, <2>2
<1>12. FeedSent'
  <2>1. stream' \in [state : {"connecting", "open", "closed"}, cursor : Nat] /\ stream'.cursor = c /\ IsOpen'
    BY <1>0, <1>1, <1>6 DEF FeedSent, IsOpen
  <2>2. UNCHANGED <<id, committed, lastEventId>>
    BY <1>1 DEF tableVars, clientVars
  <2>3. Increasing(wire)'
    BY <1>10, <2>2 DEF Increasing
  <2>4. lastEventId <= c
    BY <1>6, <1>7
  <2> QED BY <1>6, <1>8, <1>11, <2>1, <2>2, <2>3, <2>4 DEF FeedSent
<1> QED BY <1>1, <1>12, StreamKeeps

\* Steps that leave the table, the connection and what it sends.
LEMMA DisplayKeeps ==
  ASSUME FeedInv, UNCHANGED <<tableVars, streamVars, lastEventId>>,
         shown' \subseteq committed, buffered' \subseteq committed, since' \subseteq committed,
         \A reply \in snapshot' : reply[2] \subseteq committed,
         ReceivedIsShown'
  PROVE  FeedInv'
<1>1. UNCHANGED <<id, lastValue, committed, stream, wire, lastEventId>>
  BY DEF tableVars, streamVars
<1>2. FeedNumbers' /\ FeedLists' /\ FeedSent'
  BY <1>1 DEF FeedInv, FeedNumbers, FeedLists, FeedSent, Increasing, IsOpen
<1> QED BY <1>2 DEF FeedInv

\* What is received goes on the list or in the buffer, and what that pushes out has
\* its windowful.
LEMMA OnEventKeeps ==
  ASSUME FeedInv, OnEvent
  PROVE  FeedInv'
<1>0. FeedNumbers /\ FeedLists /\ FeedSent /\ ReceivedIsShown
  BY DEF FeedInv
<1> DEFINE e == Head(wire)
           A == (IF visible THEN shown ELSE buffered) \cup {e}
           O == IF visible THEN buffered ELSE shown
<1>1. /\ wire # <<>> /\ lastEventId' = id[e] /\ since' = since \cup {e} /\ wire' = Tail(wire)
      /\ UNCHANGED <<id, lastValue, committed, stream, visible, snapshot>>
  BY DEF OnEvent, tableVars, fetchVars
<1>2. Len(wire) \in Nat /\ Len(wire) # 0 /\ e = wire[1] /\ e \in committed /\ wire \in Seq(committed)
  BY <1>0, <1>1 DEF FeedSent
<1>3. e \in Events /\ id[e] \in Nat
  BY <1>0, <1>2 DEF FeedLists, FeedNumbers
<1>4. FeedSent'
  <2>1. /\ wire' \in Seq(committed) /\ Len(wire') = Len(wire) - 1
        /\ \A i \in 1 .. Len(wire') : i + 1 \in 1 .. Len(wire) /\ wire'[i] = wire[i + 1]
    BY <1>1, <1>2
  <2>2. Increasing(wire)'
    <3> SUFFICES ASSUME NEW i \in 1 .. Len(wire'), NEW j \in 1 .. Len(wire'), i < j PROVE id[wire'[i]] < id[wire'[j]]
      BY <1>1 DEF Increasing
    <3>1. i + 1 < j + 1
      OBVIOUS
    <3> QED BY <1>0, <2>1, <3>1 DEF FeedSent, Increasing
  <2>3. ASSUME NEW i \in 1 .. Len(wire') PROVE id[wire'[i]] > id[e]
    <3>1. 1 \in 1 .. Len(wire) /\ 1 < i + 1 /\ i + 1 \in 1 .. Len(wire)
      BY <1>2, <2>1
    <3>2. id[wire[1]] < id[wire[i + 1]]
      BY <1>0, <3>1 DEF FeedSent, Increasing
    <3>3. id[wire[i + 1]] \in Nat
      BY <1>0, <1>2, <3>1 DEF FeedLists, FeedNumbers
    <3> QED BY <1>2, <1>3, <2>1, <3>2, <3>3
  <2>4. IsOpen
    BY <1>0, <1>1 DEF FeedSent
  <2>5. 1 \in 1 .. Len(wire)
    BY <1>2
  <2>6. id[e] <= stream.cursor
    BY <1>0, <1>2, <2>4, <2>5 DEF FeedSent
  <2>7. \A i \in 1 .. Len(wire') : id[wire'[i]] <= stream.cursor
    BY <1>0, <2>1, <2>4 DEF FeedSent
  <2>8. IsOpen' /\ stream' = stream
    BY <1>1, <2>4 DEF IsOpen
  <2> QED BY <1>0, <1>1, <1>3, <2>1, <2>2, <2>3, <2>6, <2>7, <2>8 DEF FeedSent
<1>5. Top(A) = mergeEvents(IF visible THEN shown ELSE buffered, {e})
  BY DEF Top, mergeEvents, Newer
<1>6. IF visible THEN shown' = Top(A) /\ buffered' = O ELSE buffered' = Top(A) /\ shown' = O
  BY <1>5 DEF OnEvent
<1>7. shown' \cup buffered' = O \cup Top(A) /\ shown \cup buffered \subseteq O \cup A
  BY <1>6
<1>8. /\ A \subseteq committed /\ O \subseteq committed /\ A \subseteq Events /\ O \subseteq Events
      /\ IsFiniteSet(A) /\ IsFiniteSet(O)
  <2>1. A \in SUBSET committed /\ O \in SUBSET committed
    BY <1>0, <1>2 DEF FeedLists
  <2> HIDE DEF A, O
  <2> QED BY <1>0, <2>1, FS_Subset DEF FeedLists
<1>9. Top(A) \subseteq A
  BY DEF Top
<1>10. FeedNumbers' /\ FeedLists'
  <2>1. FeedNumbers'
    BY <1>0, <1>1 DEF FeedNumbers
  <2>2. shown' \subseteq committed /\ buffered' \subseteq committed /\ since' \subseteq committed
    BY <1>0, <1>1, <1>2, <1>7, <1>8, <1>9 DEF FeedLists
  <2> QED BY <1>0, <1>1, <2>1, <2>2 DEF FeedLists
<1>11. ReceivedIsShown'
  <2> DEFINE L == shown' \cup buffered'
  <2>1. visible' => buffered' = {}
    BY <1>0, <1>1, <1>6 DEF ReceivedIsShown
  <2>2. ASSUME NEW f \in since' \ L PROVE Cardinality(Newer(L, id[f])) >= Window
    <3>1. CASE f \in A
      <4>1. f \in A \ Top(A)
        BY <1>7, <2>2, <3>1
      <4> HIDE DEF A, O
      <4> QED BY <1>0, <1>7, <1>8, <4>1, MergeKeeps
    <3>2. CASE f \notin A
      <4>1. f \in since /\ f # e
        BY <1>1, <3>2
      <4>2. f \notin shown \cup buffered
        BY <1>6, <1>7, <2>2, <3>2
      <4>3. Cardinality(Newer(shown \cup buffered, id[f])) >= Window
        BY <1>0, <4>1, <4>2 DEF ReceivedIsShown, Newer
      <4> HIDE DEF A, O
      <4>4. id[f] \in Nat
        BY <1>0, <4>1 DEF FeedLists, FeedNumbers
      <4>5. Newer(shown \cup buffered, id[f]) \subseteq Newer(O \cup A, id[f])
        BY <1>7 DEF Newer
      <4>6. IsFiniteSet(O \cup A) /\ IsFiniteSet(shown \cup buffered)
        <5>1. IsFiniteSet(O \cup A)
          BY <1>8, FS_Union
        <5>2. shown \cup buffered \in SUBSET (O \cup A)
          BY <1>7
        <5> QED BY <5>1, <5>2, FS_Subset
      <4>7. Cardinality(Newer(O \cup A, id[f])) >= Window
        BY <4>3, <4>5, <4>6, NewerFinite, WindowGrows
      <4> QED BY <1>0, <1>7, <1>8, <4>4, <4>7, MergeKeeps
    <3> QED BY <3>1, <3>2
  <2> QED BY <1>1, <2>1, <2>2 DEF ReceivedIsShown, Newer
<1> QED BY <1>4, <1>10, <1>11 DEF FeedInv

\* A tab shown again shows what it buffered.
LEMMA VisibilityKeeps ==
  ASSUME FeedInv, handleVisibilityChange
  PROVE  FeedInv'
<1>0. FeedNumbers /\ FeedLists /\ ReceivedIsShown
  BY DEF FeedInv
<1> DEFINE A == shown \cup buffered
<1>1. /\ visible' = TRUE /\ buffered' = {}
      /\ shown' = IF buffered = {} THEN shown ELSE Top(A)
      /\ UNCHANGED <<tableVars, streamVars, clientVars, since, fetchVars, faults>>
      /\ UNCHANGED <<id, committed, snapshot, lastEventId>>
  BY DEF handleVisibilityChange, mergeEvents, Top, Newer, tableVars, fetchVars, clientVars
<1>2. A \subseteq committed /\ A \subseteq Events /\ IsFiniteSet(A) /\ Top(A) \subseteq A
  <2>1. A \in SUBSET committed
    BY <1>0 DEF FeedLists
  <2>2. Top(A) \subseteq A
    BY DEF Top
  <2> HIDE DEF A
  <2> QED BY <1>0, <2>1, <2>2, FS_Subset DEF FeedLists
<1>3. shown' \subseteq committed /\ buffered' \subseteq committed /\ since' \subseteq committed
      /\ \A reply \in snapshot' : reply[2] \subseteq committed
  BY <1>0, <1>1, <1>2 DEF FeedLists
<1>4. ReceivedIsShown'
  <2>1. CASE buffered = {}
    BY <1>0, <1>1, <2>1 DEF ReceivedIsShown
  <2>2. CASE buffered # {}
    <3>1. shown' \cup buffered' = Top(A) /\ since' = since /\ id' = id
      BY <1>1, <2>2
    <3>2. ASSUME NEW f \in since \ Top(A) PROVE Cardinality(Newer(Top(A), id[f])) >= Window
      <4>0. Top(A) = {} \cup Top(A) /\ A = {} \cup A /\ id[f] \in Nat
        BY <1>0 DEF FeedLists, FeedNumbers
      <4>1. CASE f \in A
        <5> HIDE DEF A
        <5>1. f \in A \ Top(A)
          BY <3>2, <4>1
        <5>2. Cardinality(Newer({} \cup Top(A), id[f])) >= Window
          BY <1>0, <1>2, <5>1, FS_EmptySet, MergeKeeps
        <5> QED BY <4>0, <5>2
      <4>2. CASE f \notin A
        <5>1. Cardinality(Newer(A, id[f])) >= Window
          BY <1>0, <4>2 DEF ReceivedIsShown, Newer
        <5> HIDE DEF A
        <5> QED BY <1>0, <1>2, <4>0, <5>1, TopKeeps
      <4> QED BY <4>1, <4>2
    <3> QED BY <1>1, <3>1, <3>2 DEF ReceivedIsShown, Newer
  <2> QED BY <2>1, <2>2
<1> QED BY <1>1, <1>3, <1>4, DisplayKeeps

LEMMA HideKeeps ==
  ASSUME FeedInv, Hide
  PROVE  FeedInv'
<1>1. visible' = FALSE /\ UNCHANGED <<tableVars, streamVars, clientVars, id, committed, lastEventId, shown, buffered, since, snapshot>>
  BY DEF Hide, tableVars, clientVars, fetchVars
<1>2. FeedLists /\ ReceivedIsShown
  BY DEF FeedInv
<1>3. ReceivedIsShown'
  BY <1>1, <1>2 DEF ReceivedIsShown
<1> QED BY <1>1, <1>2, <1>3, DisplayKeeps DEF FeedLists

LEMMA FetchesKeep ==
  ASSUME FeedInv, FetchEvents \/ \E reply \in snapshot : setEvents(reply) \/ FetchFails(reply)
  PROVE  FeedInv'
<1>0. FeedLists /\ ReceivedIsShown
  BY DEF FeedInv
<1>1. UNCHANGED <<tableVars, streamVars, clientVars, id, committed, lastEventId, visible, buffered>>
  BY DEF FetchEvents, setEvents, FetchFails, tableVars, clientVars, displayVars
<1>2. \A reply \in snapshot' : reply[2] \subseteq committed
  <2>1. CASE FetchEvents
    <3>1. PICK n, L : snapshot' = snapshot \cup {<<n, L>>} /\ L = ListWorkspaceEvents(Window)
      BY <2>1 DEF FetchEvents
    <3>2. L \subseteq committed
      BY <3>1 DEF ListWorkspaceEvents
    <3> QED BY <1>0, <3>1, <3>2 DEF FeedLists
  <2>2. CASE snapshot' \subseteq snapshot
    BY <1>0, <2>2 DEF FeedLists
  <2> QED BY <2>1, <2>2 DEF setEvents, FetchFails
<1>3. CASE UNCHANGED <<shown, since>>
  <2>1. ReceivedIsShown'
    BY <1>0, <1>1, <1>3 DEF ReceivedIsShown
  <2> QED BY <1>0, <1>1, <1>2, <1>3, <2>1, DisplayKeeps DEF FeedLists
<1>4. ASSUME NEW reply \in snapshot, setEvents(reply) PROVE FeedInv'
  <2>1. shown' = reply[2] /\ since' = since \cap buffered
    BY <1>4 DEF setEvents
  <2>2. shown' \subseteq committed /\ since' \subseteq committed /\ buffered' \subseteq committed
    BY <1>0, <1>1, <2>1 DEF FeedLists
  <2>3. ReceivedIsShown'
    BY <1>0, <1>1, <2>1 DEF ReceivedIsShown
  <2> QED BY <1>1, <1>2, <2>2, <2>3, DisplayKeeps
<1> QED BY <1>3, <1>4 DEF FetchEvents, FetchFails, displayVars

LEMMA FeedInvInductive ==
  ASSUME FeedInv, [FeedNext]_feedVars
  PROVE  FeedInv'
<1>1. CASE FeedNext
  BY <1>1, InsertKeeps, CommitKeeps, ConnectionKeeps, PollKeeps, OnEventKeeps, HideKeeps, VisibilityKeeps, FetchesKeep
     DEF FeedNext
<1>2. CASE UNCHANGED feedVars
  <2>1. UNCHANGED <<tableVars, streamVars, lastEventId, id, committed, visible, shown, buffered, since, snapshot>>
    BY <1>2 DEF feedVars, tableVars, clientVars, displayVars, fetchVars
  <2>2. FeedLists /\ ReceivedIsShown
    BY DEF FeedInv
  <2>3. ReceivedIsShown'
    BY <2>1, <2>2 DEF ReceivedIsShown
  <2> QED BY <2>1, <2>2, <2>3, DisplayKeeps DEF FeedLists
<1> QED BY <1>1, <1>2

LEMMA FeedInvAlways == FeedSpec => []FeedInv
  BY FeedInitially, FeedInvInductive, PTL DEF FeedSpec

\* What the browser has received is on the list, waits in the buffer of a hidden
\* tab, or has a windowful of newer events before it: for any events, window,
\* batch and faults (workspace-dashboard.tsx, mergeEvents).
THEOREM ReceivedStaysShown == FeedSpec => []ReceivedIsShown
<1>1. FeedInv => ReceivedIsShown
  BY DEF FeedInv
<1> QED BY <1>1, FeedInvAlways, PTL

\* The stream gives the dashboard every event at most once and in the order of
\* the ids, over any number of reconnections (events.go, workspaceEventStream).
THEOREM ReplayInOrder == FeedSpec => IdsIncrease
<1>1. ASSUME FeedInv, [FeedNext]_feedVars
      PROVE  [lastEventId' # lastEventId => lastEventId' > lastEventId]_feedVars
  <2> SUFFICES ASSUME FeedNext, lastEventId' # lastEventId PROVE lastEventId' > lastEventId
    BY <1>1
  <2>1. OnEvent
    BY DEF FeedNext, Insert, Commit, Connect, ConnectWithoutLatest, ConnectFails, Poll, Disconnect, Hide,
           handleVisibilityChange, FetchEvents, setEvents, FetchFails, clientVars
  <2>2. wire # <<>> /\ lastEventId' = id[wire[1]] /\ FeedSent
    BY <1>1, <2>1 DEF OnEvent, FeedInv, FeedSent
  <2>3. 1 \in 1 .. Len(wire)
    BY <2>2 DEF FeedSent
  <2> QED BY <2>2, <2>3 DEF FeedSent
<1> QED BY <1>1, FeedInvAlways, PTL DEF FeedSpec, IdsIncrease

-----------------------------------------------------------------------------
(* The types, and the lengths of the lists.                                 *)

Orders(R, S) ==
  /\ \A e \in S : <<e, e>> \notin R
  /\ \A e, f, g \in S : <<e, f>> \in R /\ <<f, g>> \in R => <<e, g>> \in R
  /\ \A e, f \in S : e # f => <<e, f>> \in R \/ <<f, e>> \in R

\* The first n of a finite set in a strict total order R are at most n.
LEMMA FirstAreFew ==
  ASSUME NEW S, IsFiniteSet(S), NEW R, Orders(R, S), NEW n \in Nat,
         NEW First, First = {e \in S : Cardinality({f \in S : <<f, e>> \in R}) < n}
  PROVE  Cardinality(First) <= n
<1> DEFINE Before(e) == {f \in S : <<f, e>> \in R}
           rank == [e \in First |-> Cardinality(Before(e))]
           T == 0 .. (n - 1)
<1>1. \A e \in S : Before(e) \subseteq S /\ IsFiniteSet(Before(e)) /\ Cardinality(Before(e)) \in Nat
  <2> SUFFICES ASSUME NEW e \in S PROVE Before(e) \subseteq S /\ IsFiniteSet(Before(e)) /\ Cardinality(Before(e)) \in Nat
    OBVIOUS
  <2>1. Before(e) \in SUBSET S
    OBVIOUS
  <2> HIDE DEF Before
  <2> QED BY <2>1, FS_Subset, FS_CardinalityType
<1>2. First \subseteq S /\ \A e \in First : Cardinality(Before(e)) < n
  OBVIOUS
<1>3. ASSUME NEW e \in S, NEW f \in S, <<e, f>> \in R PROVE Cardinality(Before(e)) < Cardinality(Before(f))
  <2>1. Before(e) \subseteq Before(f) /\ e \in Before(f) /\ e \notin Before(e)
    BY <1>3 DEF Orders
  <2> HIDE DEF Before
  <2>2. Cardinality(Before(e)) <= Cardinality(Before(f)) /\ Cardinality(Before(e)) # Cardinality(Before(f))
    BY <1>1, <2>1, FS_Subset
  <2> QED BY <1>1, <2>2
<1> HIDE DEF Before
<1>4. \A e \in First : rank[e] \in T
  <2> SUFFICES ASSUME NEW e \in First PROVE rank[e] \in T
    OBVIOUS
  <2>1. Cardinality(Before(e)) \in Nat /\ Cardinality(Before(e)) < n
    BY <1>1, <1>2
  <2> QED BY <2>1
<1>5. \A e, f \in First : rank[e] = rank[f] => e = f
  <2> SUFFICES ASSUME NEW e \in First, NEW f \in First, Cardinality(Before(e)) = Cardinality(Before(f)), e # f PROVE FALSE
    OBVIOUS
  <2>1. Cardinality(Before(e)) < Cardinality(Before(f)) \/ Cardinality(Before(f)) < Cardinality(Before(e))
    BY <1>2, <1>3 DEF Orders
  <2>2. Cardinality(Before(e)) \in Nat /\ Cardinality(Before(f)) \in Nat
    BY <1>1, <1>2
  <2> QED BY <2>1, <2>2
<1>6. rank \in Injection(First, T)
  <2>1. rank \in [First -> T]
    BY <1>4
  <2> HIDE DEF rank, T
  <2> QED BY <1>5, <2>1 DEF Injection, IsInjective
<1>7. IsFiniteSet(T) /\ Cardinality(T) = n
  <2>1. 0 \in Int /\ n - 1 \in Int
    OBVIOUS
  <2>2. IsFiniteSet(0 .. (n - 1)) /\ Cardinality(0 .. (n - 1)) = IF 0 > n - 1 THEN 0 ELSE (n - 1) - 0 + 1
    BY <2>1, FS_Interval
  <2> QED BY <2>2
<1> HIDE DEF rank, T
<1> QED BY <1>6, <1>7, FS_Injection

\* No list that is merged is longer than the window.
LEMMA TopIsShort ==
  ASSUME FeedNumbers, NEW S, S \subseteq committed, FeedLists
  PROVE  Cardinality(Top(S)) <= Window
<1> DEFINE R == {p \in S \X S : id[p[1]] > id[p[2]]}
<1>0. S \subseteq Events /\ IsFiniteSet(S) /\ Window \in Nat
  <2>1. S \in SUBSET committed
    OBVIOUS
  <2> QED BY <2>1, FS_Subset, FeedAssumption DEF FeedLists, FeedAssumption
<1>1. \A e, f \in S : <<e, f>> \in R <=> id[e] > id[f]
  OBVIOUS
<1>2. \A e \in S : id[e] \in Nat /\ id[e] # 0
  BY <1>0 DEF FeedNumbers, FeedLists
<1>3. Top(S) = {e \in S : Cardinality({f \in S : <<f, e>> \in R}) < Window}
  BY <1>1 DEF Top, Newer
<1>4. \A e \in S : <<e, e>> \notin R
  BY <1>1, <1>2
<1>5. \A e, f, g \in S : <<e, f>> \in R /\ <<f, g>> \in R => <<e, g>> \in R
  BY <1>1, <1>2
<1>6. \A e, f \in S : e # f => <<e, f>> \in R \/ <<f, e>> \in R
  <2> SUFFICES ASSUME NEW e \in S, NEW f \in S, e # f PROVE id[e] > id[f] \/ id[f] > id[e]
    BY <1>1
  <2>1. id[e] # id[f]
    BY <1>0, <1>2 DEF FeedNumbers
  <2> QED BY <1>2, <2>1
<1> HIDE DEF R
<1>7. Orders(R, S)
  BY <1>4, <1>5, <1>6 DEF Orders
<1> QED BY <1>0, <1>3, <1>7, FirstAreFew

\* Neither is one that is fetched.
LEMMA SnapshotIsShort ==
  ASSUME FeedNumbers, FeedLists
  PROVE  Cardinality(ListWorkspaceEvents(Window)) <= Window
<1> DEFINE S == committed
           R == {p \in S \X S : Later(p[1], p[2])}
           Listed == ListWorkspaceEvents(Window)
<1>0. S \subseteq Events /\ IsFiniteSet(S) /\ Window \in Nat
  BY FeedAssumption DEF FeedLists, FeedAssumption
<1>1. \A e, f \in S : <<e, f>> \in R <=> Later(e, f)
  OBVIOUS
<1>2. \A e \in S : id[e] \in Nat /\ id[e] # 0 /\ OccurredAt[e] \in Nat
  BY <1>0, FeedAssumption DEF FeedNumbers, FeedLists, FeedAssumption
<1>3. Listed = {e \in S : Cardinality({f \in S : <<f, e>> \in R}) < Window}
  BY <1>1 DEF ListWorkspaceEvents
<1> HIDE DEF S, R, Listed
<1>4. \A e \in S : <<e, e>> \notin R
  BY <1>1, <1>2 DEF Later
<1>5. \A e, f, g \in S : <<e, f>> \in R /\ <<f, g>> \in R => <<e, g>> \in R
  BY <1>1, <1>2 DEF Later
<1>6. \A e, f \in S : e # f => <<e, f>> \in R \/ <<f, e>> \in R
  <2> SUFFICES ASSUME NEW e \in S, NEW f \in S, e # f PROVE Later(e, f) \/ Later(f, e)
    BY <1>1
  <2>1. id[e] # id[f]
    BY <1>0, <1>2 DEF FeedNumbers
  <2> QED BY <1>2, <2>1 DEF Later
<1>7. Orders(R, S)
  BY <1>4, <1>5, <1>6 DEF Orders
<1>8. Cardinality(Listed) <= Window
  BY <1>0, <1>3, <1>7, FirstAreFew
<1> QED BY <1>8 DEF Listed

\* The connection and the browser are no further than the sequence.
FeedPlaces == stream.cursor <= lastValue /\ lastEventId <= lastValue

FeedHistory ==
  /\ received \subseteq committed /\ since \subseteq received
  /\ snapshot \subseteq (1 .. refreshes) \X SUBSET committed
  /\ visible \in BOOLEAN /\ refreshes \in 0 .. MaxRefreshes /\ faults \in 0 .. MaxFaults

FeedSizes ==
  \A list \in {shown, buffered} \cup {reply[2] : reply \in snapshot} : Cardinality(list) <= Window

FeedTypes == FeedInv /\ FeedPlaces /\ FeedHistory /\ FeedSizes

LEMMA FeedTypesSuffice == FeedTypes => FeedTypeOK
<1> SUFFICES ASSUME FeedTypes PROVE FeedTypeOK
  OBVIOUS
<1>0. FeedNumbers /\ FeedLists /\ FeedSent /\ FeedPlaces /\ FeedHistory /\ FeedSizes
  BY DEF FeedTypes, FeedInv
<1>1. id \in [Events -> 0 .. lastValue]
  <2>1. \A e \in Events : id[e] \in 0 .. lastValue
    BY <1>0 DEF FeedNumbers
  <2> QED BY <1>0, <2>1 DEF FeedNumbers
<1>2. committed \subseteq {e \in Events : id[e] > 0}
  <2>1. \A e \in committed : e \in Events /\ id[e] \in Nat /\ id[e] # 0
    BY <1>0 DEF FeedNumbers, FeedLists
  <2> QED BY <2>1
<1>3. stream \in [state : {"connecting", "open", "closed"}, cursor : 0 .. lastValue]
  <2>1. stream.cursor \in Nat /\ lastValue \in Nat /\ stream.cursor <= lastValue
    BY <1>0 DEF FeedSent, FeedPlaces, FeedNumbers
  <2>2. stream.cursor \in 0 .. lastValue
    BY <2>1
  <2> QED BY <1>0, <2>2 DEF FeedSent
<1>4. lastEventId \in 0 .. lastValue
  BY <1>0 DEF FeedSent, FeedPlaces, FeedNumbers
<1> QED BY <1>0, <1>1, <1>2, <1>3, <1>4 DEF FeedTypeOK, FeedNumbers, FeedLists, FeedSent, FeedHistory, FeedSizes

LEMMA FeedTypesInitially == FeedInit => FeedTypes
<1> SUFFICES ASSUME FeedInit PROVE FeedTypes
  OBVIOUS
<1>1. FeedInv /\ FeedPlaces
  BY FeedInitially DEF FeedInit, FeedPlaces, Closed
<1>2. Window \in Nat /\ MaxFaults \in Nat /\ MaxRefreshes \in Nat /\ Cardinality({}) = 0
  BY FS_EmptySet, FeedAssumption DEF FeedAssumption
<1>3. 0 <= Window /\ 0 \in 0 .. MaxFaults /\ 0 \in 0 .. MaxRefreshes
  BY <1>2
<1> QED BY <1>1, <1>2, <1>3 DEF FeedInit, FeedTypes, FeedHistory, FeedSizes

LEMMA FaultCounts ==
  ASSUME FeedHistory, Fault
  PROVE  faults' \in 0 .. MaxFaults
<1>1. MaxFaults \in Nat /\ faults \in 0 .. MaxFaults /\ faults < MaxFaults /\ faults' = faults + 1
  BY FeedAssumption DEF FeedAssumption, FeedHistory, Fault
<1> QED BY <1>1

LEMMA FeedTypesKept ==
  ASSUME FeedTypes, [FeedNext]_feedVars
  PROVE  FeedTypes'
<1>0. FeedInv /\ FeedNumbers /\ FeedLists /\ FeedSent /\ FeedPlaces /\ FeedHistory /\ FeedSizes
  BY DEF FeedTypes, FeedInv
<1>a. lastValue \in Nat /\ lastEventId \in Nat /\ stream.cursor \in Nat /\ lastEventId <= lastValue /\ stream.cursor <= lastValue
  BY <1>0 DEF FeedNumbers, FeedSent, FeedPlaces
<1>b. \A e \in Events : id[e] \in Nat /\ id[e] <= lastValue
  BY <1>0 DEF FeedNumbers
<1>c. FeedInv'
  BY <1>0, FeedInvInductive
<1>d. SUFFICES FeedPlaces' /\ FeedHistory' /\ FeedSizes'
  BY <1>c DEF FeedTypes
<1>1. ASSUME NEW e \in Events, Insert(e) PROVE FeedPlaces' /\ FeedHistory' /\ FeedSizes'
  <2>1. lastValue' = lastValue + 1 /\ UNCHANGED <<stream, lastEventId, committed, received, since, snapshot, visible, refreshes, faults, shown, buffered>>
    BY <1>1 DEF Insert, streamVars, clientVars, displayVars, fetchVars
  <2>2. lastEventId <= lastValue + 1 /\ stream.cursor <= lastValue + 1
    BY <1>a
  <2>3. FeedPlaces'
    BY <2>1, <2>2 DEF FeedPlaces
  <2> QED BY <1>0, <2>1, <2>3 DEF FeedHistory, FeedSizes
<1>2. ASSUME NEW e \in Events, Commit(e) PROVE FeedPlaces' /\ FeedHistory' /\ FeedSizes'
  <2>1. committed' = committed \cup {e} /\ UNCHANGED <<lastValue, stream, lastEventId, received, since, snapshot, visible, refreshes, faults, shown, buffered>>
    BY <1>2 DEF Commit, streamVars, clientVars, displayVars, fetchVars
  <2>2. snapshot \subseteq (1 .. refreshes) \X SUBSET committed'
    <3>1. SUBSET committed \subseteq SUBSET committed'
      BY <2>1
    <3> QED BY <1>0, <3>1 DEF FeedHistory
  <2> QED BY <1>0, <2>1, <2>2 DEF FeedPlaces, FeedHistory, FeedSizes
<1>3. CASE Connect \/ ConnectWithoutLatest \/ ConnectFails \/ Disconnect
  <2>1. UNCHANGED <<id, lastValue, committed, lastEventId, received, since, snapshot, visible, refreshes, shown, buffered>>
    BY <1>3 DEF Connect, ConnectWithoutLatest, ConnectFails, Disconnect, tableVars, clientVars, displayVars, fetchVars
  <2>2. faults' \in 0 .. MaxFaults
    BY <1>0, <1>3, FaultCounts DEF Connect, ConnectWithoutLatest, ConnectFails, Disconnect, FeedHistory
  <2>3. StartCursor <= lastValue
    <3>1. \A i \in Latest : i <= lastValue
      BY <1>0, <1>b DEF Latest, ListWorkspaceEvents, FeedLists
    <3> QED BY <1>a, <3>1 DEF StartCursor
  <2>4. stream'.cursor <= lastValue
    <3>1. stream'.cursor \in {0, StartCursor}
      BY <1>3 DEF Connect, ConnectWithoutLatest, ConnectFails, Disconnect, Closed, Open, Failed
    <3>2. 0 <= lastValue
      BY <1>a
    <3> QED BY <2>3, <3>1, <3>2
  <2> QED BY <1>0, <2>1, <2>2, <2>4 DEF FeedPlaces, FeedHistory, FeedSizes
<1>4. CASE Poll
  <2> DEFINE S == ListWorkspaceEventsAfter(stream.cursor, Batch)
             items == ById(S)
  <2>1. items # <<>> /\ stream' = [stream EXCEPT !.cursor = id[items[Len(items)]]]
        /\ UNCHANGED <<lastValue, committed, lastEventId, received, since, snapshot, visible, refreshes, faults, shown, buffered>>
    BY <1>4 DEF Poll, tableVars, clientVars, displayVars, fetchVars
  <2>2. S \subseteq Events /\ IsFiniteSet(S) /\ \A e \in S : id[e] # 0
    <3>1. S \in SUBSET committed
      BY DEF ListWorkspaceEventsAfter
    <3> HIDE DEF S
    <3> QED BY <1>0, <3>1, FS_Subset DEF FeedLists
  <2> HIDE DEF S
  <2>3. items \in Seq(S)
    BY <1>0, <2>2, ByIdOrders
  <2> HIDE DEF items
  <2>4. items[Len(items)] \in S
    BY <2>1, <2>3
  <2>5. stream'.cursor = id[items[Len(items)]]
    BY <1>0, <2>1 DEF FeedSent
  <2>6. stream'.cursor <= lastValue
    BY <1>b, <2>2, <2>4, <2>5
  <2> QED BY <1>0, <2>1, <2>6 DEF FeedPlaces, FeedHistory, FeedSizes
<1>5. CASE OnEvent
  <2> DEFINE e == Head(wire)
  <2>1. /\ wire # <<>> /\ lastEventId' = id[e] /\ received' = received \cup {e} /\ since' = since \cup {e}
        /\ UNCHANGED <<lastValue, committed, stream, visible, snapshot, refreshes, faults>>
    BY <1>5 DEF OnEvent, tableVars, fetchVars
  <2>2. e \in committed
    BY <1>0, <2>1 DEF FeedSent
  <2>3. id[e] <= lastValue
    BY <1>0, <1>b, <2>2 DEF FeedLists
  <2> HIDE DEF e
  <2>4. /\ shown' \in {shown, Top(shown \cup {e})} /\ buffered' \in {buffered, Top(buffered \cup {e})}
    BY <1>5 DEF OnEvent, mergeEvents, Top, Newer, e
  <2>5. Cardinality(Top(shown \cup {e})) <= Window /\ Cardinality(Top(buffered \cup {e})) <= Window
    <3>1. shown \cup {e} \subseteq committed /\ buffered \cup {e} \subseteq committed
      BY <1>0, <2>2 DEF FeedLists
    <3> QED BY <1>0, <3>1, TopIsShort
  <2>6. FeedSizes'
    BY <1>0, <2>1, <2>4, <2>5 DEF FeedSizes
  <2> QED BY <1>0, <2>1, <2>2, <2>3, <2>6 DEF FeedPlaces, FeedHistory
<1>6. CASE Hide
  BY <1>0, <1>6 DEF Hide, FeedPlaces, FeedHistory, FeedSizes, tableVars, streamVars, clientVars, fetchVars
<1>7. CASE handleVisibilityChange
  <2>1. /\ visible' = TRUE /\ buffered' = {} /\ shown' \in {shown, Top(shown \cup buffered)}
        /\ UNCHANGED <<lastValue, committed, stream, lastEventId, received, since, snapshot, refreshes, faults>>
    BY <1>7 DEF handleVisibilityChange, mergeEvents, Top, Newer, tableVars, streamVars, clientVars, fetchVars
  <2>2. Cardinality(Top(shown \cup buffered)) <= Window /\ Cardinality({}) <= Window
    <3>1. shown \cup buffered \subseteq committed
      BY <1>0 DEF FeedLists
    <3>2. Window \in Nat /\ Cardinality({}) = 0
      BY FS_EmptySet, FeedAssumption DEF FeedAssumption
    <3>3. 0 <= Window
      BY <3>2
    <3> QED BY <1>0, <3>1, <3>2, <3>3, TopIsShort
  <2>3. FeedSizes'
    BY <1>0, <2>1, <2>2 DEF FeedSizes
  <2> QED BY <1>0, <2>1, <2>3 DEF FeedPlaces, FeedHistory
<1>8. CASE FetchEvents
  <2> DEFINE L == ListWorkspaceEvents(Window)
  <2>1. /\ refreshes < MaxRefreshes /\ refreshes' = refreshes + 1 /\ snapshot' = snapshot \cup {<<refreshes', L>>}
        /\ UNCHANGED <<lastValue, committed, stream, lastEventId, received, since, visible, shown, buffered, faults>>
    BY <1>8 DEF FetchEvents, tableVars, streamVars, clientVars, displayVars
  <2>2. L \subseteq committed /\ Cardinality(L) <= Window
    <3>1. L \subseteq committed
      BY DEF ListWorkspaceEvents
    <3> QED BY <1>0, <3>1, SnapshotIsShort
  <2> HIDE DEF L
  <2>3. refreshes' \in 0 .. MaxRefreshes /\ refreshes' \in 1 .. refreshes' /\ 1 .. refreshes \subseteq 1 .. refreshes'
    <3>1. refreshes \in 0 .. MaxRefreshes /\ MaxRefreshes \in Nat
      BY <1>0, FeedAssumption DEF FeedHistory, FeedAssumption
    <3>2. refreshes < MaxRefreshes /\ refreshes' = refreshes + 1
      BY <2>1
    <3> QED BY <3>1, <3>2
  <2>4. snapshot' \subseteq (1 .. refreshes') \X SUBSET committed
    <3>1. <<refreshes', L>> \in (1 .. refreshes') \X SUBSET committed
      BY <2>2, <2>3
    <3>2. snapshot \subseteq (1 .. refreshes') \X SUBSET committed
      BY <1>0, <2>3 DEF FeedHistory
    <3> QED BY <2>1, <3>1, <3>2
  <2>5. FeedSizes'
    <3>1. \A reply \in snapshot' : reply \in snapshot \/ reply[2] = L
      BY <2>1
    <3>2. \A reply \in snapshot' : Cardinality(reply[2]) <= Window
      BY <1>0, <2>2, <3>1 DEF FeedSizes
    <3> QED BY <1>0, <2>1, <3>2 DEF FeedSizes
  <2>6. FeedPlaces' /\ FeedHistory'
    BY <1>0, <2>1, <2>3, <2>4 DEF FeedPlaces, FeedHistory
  <2> QED BY <2>5, <2>6
<1>9. ASSUME NEW reply \in snapshot, setEvents(reply) PROVE FeedPlaces' /\ FeedHistory' /\ FeedSizes'
  <2>1. /\ shown' = reply[2] /\ since' = since \cap buffered /\ snapshot' = snapshot \ {reply}
        /\ UNCHANGED <<lastValue, committed, stream, lastEventId, received, visible, buffered, refreshes, faults>>
    BY <1>9 DEF setEvents, tableVars, streamVars, clientVars
  <2>2. FeedSizes'
    BY <1>0, <2>1 DEF FeedSizes
  <2> QED BY <1>0, <2>1, <2>2 DEF FeedPlaces, FeedHistory
<1>10. ASSUME NEW reply \in snapshot, FetchFails(reply) PROVE FeedPlaces' /\ FeedHistory' /\ FeedSizes'
  <2>1. snapshot' = snapshot \ {reply} /\ Fault
        /\ UNCHANGED <<lastValue, committed, stream, lastEventId, received, since, shown, visible, buffered, refreshes>>
    BY <1>10 DEF FetchFails, tableVars, streamVars, clientVars, displayVars
  <2>2. faults' \in 0 .. MaxFaults
    BY <1>0, <2>1, FaultCounts
  <2> QED BY <1>0, <2>1, <2>2 DEF FeedPlaces, FeedHistory, FeedSizes
<1>11. CASE UNCHANGED feedVars
  BY <1>0, <1>11 DEF feedVars, FeedPlaces, FeedHistory, FeedSizes, tableVars, streamVars, clientVars, displayVars, fetchVars
<1> QED BY <1>1, <1>2, <1>3, <1>4, <1>5, <1>6, <1>7, <1>8, <1>9, <1>10, <1>11 DEF FeedNext

\* Every variable keeps its type, and neither a merged list, nor a buffered or a
\* fetched one, is longer than the window: for any window and any number of events
\* (workspace-dashboard.tsx, mergeEvents; postgres.go, ListWorkspaceEvents).
THEOREM FeedTyped == FeedSpec => []FeedTypeOK
<1>1. FeedTypes => FeedTypeOK
  BY FeedTypesSuffice
<1> QED BY <1>1, FeedTypesInitially, FeedTypesKept, PTL DEF FeedSpec
===============================================================================
