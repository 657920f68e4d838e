-------------------------------- MODULE Candidate --------------------------------
(***************************************************************************)
(* A candidate moment, as the provider proposes it, and the batch the      *)
(* contract accepts.  A text is the set of phrases it says; blank, marked  *)
(* up, linked or overlong text is said by a phrase of its own.             *)
(***************************************************************************)
EXTENDS Integers, Sequences, FiniteSets

CONSTANTS
    MaxCitations,   \* evidence ids of a candidate
    MaxCandidates   \* candidates of a batch that become a product

CandidateTypes   == {"change", "decision", "risk", "check"}
ImportanceLevels == {"low", "medium", "high", "critical"}
ConfidenceLevels == 0..10000     \* basis points
DecisionOptions  == {"confirm", "revise", "uncertain"}
RiskOptions      == {"acknowledge", "mitigate", "dismiss"}

\* A word as a phrase of a text.
Phrase(word) == <<"word", word>>

\* What the text rules forbid, each named by its check.
BadText == {"blank", "lone_surrogate", "not_normalized", "control", "markup", "url", "too_long"}
PlainText(text) == text # {} /\ \A b \in BadText : Phrase(b) \notin text

\* The interaction a candidate suggests is that of its type.
InteractionIsValid(c) ==
    LET i == c.interaction
    IN  CASE c.type = "change"   -> i.kind = "acknowledge"
          [] c.type = "decision" -> i.kind = "decision_response" /\ i.options = DecisionOptions
          [] c.type = "risk"     -> i.kind = "risk_response" /\ i.options = RiskOptions
          [] c.type = "check"    -> /\ i.kind = "check_answer" /\ Len(i.choices) \in 2..5
                                    /\ \A a, b \in DOMAIN i.choices :
                                           i.choices[a] = i.choices[b] => a = b

CandidateIsValid(c) ==
    /\ c.type \in CandidateTypes /\ InteractionIsValid(c)
    /\ c.importance \in ImportanceLevels /\ c.confidence \in ConfidenceLevels
    /\ PlainText(c.text)
    /\ Cardinality(c.cites) \in 1..MaxCitations

BatchIsValid(batch) ==
    Len(batch) <= MaxCandidates /\ \A i \in DOMAIN batch : CandidateIsValid(batch[i])

\* The interaction the service's JSON schema asks a provider for.
AskedInteraction(type, choices) ==
    CASE type = "change"   -> [kind |-> "acknowledge"]
      [] type = "decision" -> [kind |-> "decision_response", options |-> DecisionOptions]
      [] type = "risk"     -> [kind |-> "risk_response", options |-> RiskOptions]
      [] type = "check"    -> [kind |-> "check_answer", choices |-> choices]
=============================================================================
