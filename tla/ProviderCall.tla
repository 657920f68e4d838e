------------------------------ MODULE ProviderCall ------------------------------
(***************************************************************************)
(* One call of the candidate generation adapter: a bounded loop of HTTPS   *)
(* posts through the transport, with a back-off between two of them and    *)
(* one abort signal (the pump's) that may fire at any await.  A delay is 0 *)
(* or 1: the record schema tells only these apart.                         *)
(***************************************************************************)
EXTENDS Naturals, Sequences

CONSTANTS
    MaxAttempts,   \* the retry policy's maxAttempts
    RequestIds,    \* identities a provider may give its responses
    NoId,          \* the null request identity
    Replies        \* the attempt outcomes the provider of a run may cause

VARIABLES
    call,          \* the call under way, see CallRecord
    stopping       \* the AbortSignal of the pump has fired

HttpOutcomes ==
    {"completed", "http_transient", "http_permanent", "invalid_content_type",
     "invalid_envelope", "provider_refusal", "provider_incomplete",
     "product_limit_exceeded", "invalid_candidate_batch"}

TransportOutcomes == {"timeout", "transport_error", "response_too_large", "aborted"}

AttemptOutcomes == HttpOutcomes \cup TransportOutcomes

ASSUME CallAssumption ==
    /\ MaxAttempts \in 1..3
    /\ NoId \notin RequestIds
    /\ Replies \subseteq AttemptOutcomes \ {"aborted"}

Retryable == {"http_transient", "timeout", "transport_error"}

(***************************************************************************)
(* Status and diagnostic of a call by the outcome of its last attempt.     *)
(***************************************************************************)
StatusOf(outcome) ==
    CASE outcome = "completed" -> "succeeded"
      [] outcome = "aborted" -> "aborted"
      [] outcome \in Retryable -> "transport_failed"
      [] outcome \in {"http_permanent", "provider_refusal"} -> "provider_rejected"
      [] OTHER -> "invalid_response"

Phases == {"idle", "resolving", "requesting", "backoff", "answered"}

Attempt == [outcome: AttemptOutcomes, id: RequestIds \cup {NoId}, delay: 0..1]

CallRecord ==
    [phase: Phases, attempts: Seq(Attempt), lastId: RequestIds \cup {NoId},
     status: {"none", "succeeded", "aborted", "transport_failed",
              "provider_rejected", "invalid_response"},
     allowed: BOOLEAN]

NoCall == [phase |-> "idle", attempts |-> <<>>, lastId |-> NoId,
           status |-> "none", allowed |-> TRUE]

CallInit == call = NoCall /\ stopping = FALSE

Settled(status, attempts, id) ==
    call' = [call EXCEPT !.phase = "answered", !.status = status,
                         !.attempts = attempts, !.lastId = id]

(* Mutant: the loop does not look at the signal. *)
LoopHeadDeaf(allowed, from) ==
    call' = [from EXCEPT !.phase = "resolving", !.allowed = allowed]

(***************************************************************************)
(* The head of the loop: a fired signal ends the call with what it has,    *)
(* otherwise the transport starts by resolving the host name.  allowed is  *)
(* a history variable: whether the settings permitted the post when it     *)
(* was made.                                                               *)
(***************************************************************************)
LoopHead(allowed, from) ==
    call' = IF stopping
            THEN [from EXCEPT !.phase = "answered", !.status = "aborted"]
            ELSE [from EXCEPT !.phase = "resolving", !.allowed = allowed]

BeginCall(allowed) ==
    /\ call.phase = "idle"
    /\ LoopHead(allowed, NoCall)
    /\ UNCHANGED stopping

ErrorOutcomes == Replies \ HttpOutcomes

IsLast == Len(call.attempts) + 1 = MaxAttempts

(* Mutant: the last attempt keeps its delay. *)
DelayKept(outcome) == IF outcome \in Retryable THEN 1 ELSE 0

ErrorDelay(outcome) == IF outcome \in Retryable /\ ~IsLast THEN 1 ELSE 0

RetryDelays == IF IsLast THEN {0} ELSE {0, 1}

WithAttempt(outcome, id, delay) ==
    Append(call.attempts, [outcome |-> outcome, id |-> id, delay |-> delay])

(***************************************************************************)
(* After an attempt: only a retryable one that is not the last goes to     *)
(* sleep, every other one ends the call.                                   *)
(***************************************************************************)
AfterAttempt(outcome, id, delay) ==
    IF outcome \in Retryable /\ ~IsLast
    THEN call' = [call EXCEPT !.phase = "backoff", !.lastId = id,
                              !.attempts = WithAttempt(outcome, id, delay)]
    ELSE Settled(StatusOf(outcome), WithAttempt(outcome, id, delay), id)

(***************************************************************************)
(* The host name resolves, before the deadline and unless aborted: one     *)
(* address that is not public makes the resolution unsafe, a transport     *)
(* error.                                                                  *)
(***************************************************************************)
PublicOnly(addresses) == addresses # {} /\ addresses \subseteq {"public"}

AddressesResolved(addresses) ==
    /\ call.phase = "resolving"
    /\ IF PublicOnly(addresses)
       THEN call' = [call EXCEPT !.phase = "requesting"]
       ELSE AfterAttempt("transport_error", call.lastId, ErrorDelay("transport_error"))
    /\ UNCHANGED stopping

(***************************************************************************)
(* The transport rejects: its deadline, a network error or an unsafe       *)
(* address, an oversized body, or the signal.  A signal that fires while   *)
(* the body is read may also surface as a network error.  The last         *)
(* response's identity is kept.                                            *)
(***************************************************************************)
TransportFails(outcome) ==
    /\ call.phase \in {"resolving", "requesting"}
    /\ outcome = "response_too_large" => call.phase = "requesting"
    /\ outcome = "aborted" => stopping
    /\ AfterAttempt(outcome, call.lastId, ErrorDelay(outcome))
    /\ UNCHANGED stopping

(***************************************************************************)
(* The transport resolves with a response: the identity is the response's  *)
(* own (header, or the envelope's id once it is parsed), null if it has    *)
(* none.                                                                   *)
(***************************************************************************)
ResponseArrives(outcome, id) ==
    /\ call.phase = "requesting"
    /\ \E delay \in IF outcome = "http_transient" THEN RetryDelays ELSE {0} :
          AfterAttempt(outcome, id, delay)
    /\ UNCHANGED stopping

(***************************************************************************)
(* The sleep ends, or rejects because the signal fired: the loop head sees *)
(* the signal in the former case too.                                      *)
(***************************************************************************)
BackoffEnds(allowed) ==
    /\ call.phase = "backoff"
    /\ LoopHead(allowed, call)
    /\ UNCHANGED stopping

CallStep(allowed) ==
    \/ \E addresses \in SUBSET {"public", "blocked"} : AddressesResolved(addresses)
    \/ \E outcome \in ErrorOutcomes \cup {"aborted"} : TransportFails(outcome)
    \/ \E outcome \in Replies \cap HttpOutcomes, id \in RequestIds \cup {NoId} :
          ResponseArrives(outcome, id)
    \/ BackoffEnds(allowed)

-----------------------------------------------------------------------------
(***************************************************************************)
(* CandidateGenerationRecordV1Schema, on what the call contributes.        *)
(***************************************************************************)
LastAttempt == call.attempts[Len(call.attempts)]

LastObservedId ==
    LET seen == {i \in DOMAIN call.attempts : call.attempts[i].id # NoId}
    IN  IF seen = {} THEN NoId
        ELSE call.attempts[CHOOSE i \in seen : \A j \in seen : j <= i].id

AttemptAccepted(a) == a.delay > 0 => a.outcome \in Retryable

RecordAccepted ==
    /\ Len(call.attempts) <= MaxAttempts
    /\ \A i \in DOMAIN call.attempts :
          /\ AttemptAccepted(call.attempts[i])
          /\ i < Len(call.attempts) => call.attempts[i].outcome \in Retryable
    /\ call.attempts # <<>> => LastAttempt.delay = 0
    /\ call.lastId = LastObservedId
    /\ call.status = "succeeded" =>
          call.attempts # <<>> /\ LastAttempt.outcome = "completed"
=============================================================================
