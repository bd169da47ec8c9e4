---------------------------- MODULE MCExplainEvent ----------------------------
(* Instances of ExplainEvent for TLC. *)
EXTENDS ExplainEvent

\* The evidence, and an id of nothing.
CitedIds == Evidence \cup {"invented"}

\* Claims that cite nothing, one id, or two that belong to different agents.
Claims == {{}} \cup {{id} : id \in CitedIds}
               \cup {{"trigger-reading", "matched-rule"}, {"device-execution", "invented"}}

\* No claim, any one, or the two of a failed command.
FewAnswers == {{}} \cup {{c} : c \in Claims} \cup {{{"device-execution"}, {"command-failure"}}}
=============================================================================
