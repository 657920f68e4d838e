----------------------------- MODULE AnalysisProofs -----------------------------
(***************************************************************************)
(* Proofs about the local settings service, for any number of clients,     *)
(* providers and revisions, about provider calls, and about the analysis   *)
(* stages around them.                                                     *)
(***************************************************************************)
EXTENDS AnalysisStages, FiniteSetTheorems, WellFoundedInduction, TLAPS

(***************************************************************************)
(* A revision number says which settings it is the number of: it grows     *)
(* with every replacement, so a client that read the current number read   *)
(* the current settings.  The revisions compared when a form is saved mean *)
(* no more than that.                                                      *)
(***************************************************************************)
FormsArePast ==
    \A c \in Clients : /\ form[c].revision <= settings.revision
                       /\ form[c].revision = settings.revision => form[c] = settings

(***************************************************************************)
(* The secret in memory is the key of the provider in the row.             *)
(***************************************************************************)
SecretFollowsProvider == secret \in {NoProvider, settings.provider}

SettingsInv == SettingsTypeOK /\ FormsArePast /\ SecretFollowsProvider

LEMMA SettingsStart == SettingsInit => SettingsInv
BY SettingsAssumption
   DEF SettingsInit, FirstSettings, SettingsInv, SettingsTypeOK, SettingsRow, FormsArePast,
       SecretFollowsProvider

(***************************************************************************)
(* A saved form: the row and its number change together, and only its      *)
(* author has read the new one.                                            *)
(***************************************************************************)
LEMMA SaveKeeps ==
    ASSUME SettingsInv, NEW c \in Clients, NEW new \in Replacements, Save(c, new[1], new[2])
    PROVE  SettingsInv'
<1>1. new[1] \in BOOLEAN /\ new[2] \in Providers \cup {NoProvider}
  BY SettingsAssumption DEF SettingsAssumption
<1>2. settings' \in SettingsRow /\ settings'.revision = settings.revision + 1
  BY <1>1 DEF Save, SettingsInv, SettingsTypeOK, SettingsRow
<1>3. form' \in [Clients -> SettingsRow]
  BY <1>2 DEF Save, SettingsInv, SettingsTypeOK
<1>4. secret' \in Providers \cup {NoProvider} /\ secret' \in {NoProvider, settings'.provider}
  BY <1>1 DEF Save, SecretAfter, SettingsInv, SettingsTypeOK, SecretFollowsProvider
<1>5. FormsArePast'
  <2> SUFFICES ASSUME NEW d \in Clients
               PROVE  /\ form'[d].revision <= settings'.revision
                      /\ form'[d].revision = settings'.revision => form'[d] = settings'
    BY DEF FormsArePast
  <2>1. CASE d = c
    BY <2>1, <1>2 DEF Save, SettingsInv, SettingsTypeOK, SettingsRow
  <2>2. CASE d # c
    <3>1. form'[d] = form[d] /\ form[d].revision \in Nat /\ settings.revision \in Nat
      BY <2>2 DEF Save, SettingsInv, SettingsTypeOK, SettingsRow
    <3> QED
      BY <3>1, <1>2 DEF SettingsInv, FormsArePast
  <2> QED
    BY <2>1, <2>2
<1> QED
  BY <1>2, <1>3, <1>4, <1>5 DEF SettingsInv, SettingsTypeOK, SecretFollowsProvider

LEMMA SettingsKept == SettingsInv /\ [SettingsStep]_control => SettingsInv'
<1> SUFFICES ASSUME SettingsInv, [SettingsStep]_control
             PROVE  SettingsInv'
  OBVIOUS
<1> USE DEF SettingsInv, SettingsTypeOK, SecretFollowsProvider
<1>1. ASSUME NEW c \in Clients, Load(c)
      PROVE  SettingsInv'
  BY <1>1 DEF Load, FormsArePast, SettingsRow
<1>2. ASSUME NEW c \in Clients, NEW new \in Replacements, Save(c, new[1], new[2])
      PROVE  SettingsInv'
  BY <1>2, SaveKeeps
<1>3. CASE LoadSecret
  BY <1>3 DEF LoadSecret, FormsArePast, SettingsRow
<1>4. CASE ClearSecret
  BY <1>4 DEF ClearSecret, FormsArePast
<1>5. CASE UNCHANGED control
  BY <1>5 DEF control, FormsArePast
<1> QED
  BY <1>1, <1>2, <1>3, <1>4, <1>5 DEF SettingsStep

(***************************************************************************)
(* Whatever tabs load, save, and do with the secret, the row, the secret   *)
(* and the forms keep their types.                                         *)
(***************************************************************************)
THEOREM SettingsTypeCorrect == SettingsSpec => []SettingsTypeOK
<1>1. SettingsInv => SettingsTypeOK
  BY DEF SettingsInv
<1> QED
  BY <1>1, SettingsStart, SettingsKept, PTL DEF SettingsSpec

(***************************************************************************)
(* The key in memory never belongs to another provider than the one the    *)
(* row names, however updates and the loading of keys interleave.          *)
(***************************************************************************)
THEOREM SecretIsTheProvidersOwn == SettingsSpec => []SecretFollowsProvider
<1>1. SettingsInv => SecretFollowsProvider
  BY DEF SettingsInv
<1> QED
  BY <1>1, SettingsStart, SettingsKept, PTL DEF SettingsSpec

(***************************************************************************)
(* compareAndSwap loses no update: whoever replaces the settings was       *)
(* looking at them, although only revision numbers are compared.           *)
(***************************************************************************)
THEOREM NoUpdateIsLost == SettingsSpec => UpdatesAreNotLost
<1> DEFINE Seen == settings' # settings =>
                     \E c \in Clients : form[c] = settings /\ form'[c] = settings'
<1>1. SettingsInv /\ [SettingsStep]_control => [Seen]_control
  <2> SUFFICES ASSUME SettingsInv, SettingsStep, settings' # settings
               PROVE  \E c \in Clients : form[c] = settings /\ form'[c] = settings'
    BY DEF control
  <2>1. PICK c \in Clients, new \in Replacements : Save(c, new[1], new[2])
    BY DEF SettingsStep, Load, LoadSecret, ClearSecret
  <2> QED
    BY <2>1 DEF Save, SwapAccepted, SettingsInv, SettingsTypeOK, FormsArePast
<1> QED
  BY <1>1, SettingsStart, SettingsKept, PTL DEF SettingsSpec, UpdatesAreNotLost

-----------------------------------------------------------------------------
(***************************************************************************)
(* A provider call.                                                        *)
(***************************************************************************)
AttemptsSoFar ==
    /\ \A i \in DOMAIN call.attempts :
          /\ AttemptAccepted(call.attempts[i])
          /\ i < Len(call.attempts) => call.attempts[i].outcome \in Retryable
    /\ call.attempts # <<>> => call.lastId = LastAttempt.id
    /\ call.attempts = <<>> => call.lastId = NoId

LoopTurns ==
    call.phase \in {"resolving", "requesting", "backoff"} =>
        /\ call.status = "none"
        /\ Len(call.attempts) < MaxAttempts
        /\ \A i \in DOMAIN call.attempts : call.attempts[i].outcome \in Retryable
        /\ call.phase = "backoff" => call.attempts # <<>>

AnswerGiven ==
    call.phase = "answered" =>
        /\ call.status # "none"
        /\ Len(call.attempts) <= MaxAttempts
        /\ \/ call.status = "aborted"
              /\ \A i \in DOMAIN call.attempts : call.attempts[i].outcome \in Retryable
           \/ /\ call.attempts # <<>>
              /\ LastAttempt.delay = 0
              /\ call.status = StatusOf(LastAttempt.outcome)

CallInv ==
    /\ call \in CallRecord /\ stopping \in BOOLEAN
    /\ call.phase = "idle" => call = NoCall
    /\ AttemptsSoFar /\ LoopTurns /\ AnswerGiven

LEMMA AppendFacts ==
    ASSUME NEW S, NEW s \in Seq(S), NEW e \in S
    PROVE  /\ Append(s, e) \in Seq(S)
           /\ Len(Append(s, e)) = Len(s) + 1
           /\ DOMAIN Append(s, e) = 1 .. Len(s) + 1
           /\ \A i \in 1 .. Len(s) : Append(s, e)[i] = s[i]
           /\ Append(s, e)[Len(s) + 1] = e
           /\ Append(s, e) # <<>>
OBVIOUS

LEMMA NoCallIsOne == ASSUME call = NoCall PROVE call \in CallRecord /\ AttemptsSoFar /\ LoopTurns /\ AnswerGiven
<1>1. <<>> \in Seq(Attempt) /\ DOMAIN <<>> = {}
  OBVIOUS
<1>2. call \in CallRecord
  BY <1>1 DEF NoCall, CallRecord, Phases
<1> QED
  BY <1>1, <1>2 DEF NoCall, AttemptsSoFar, LoopTurns, AnswerGiven

LEMMA CallStart == CallInit => CallInv
BY NoCallIsOne DEF CallInit, CallInv

(***************************************************************************)
(* The head of the loop, from an idle call or from a back-off.             *)
(***************************************************************************)
LEMMA LoopHeadKeeps ==
    ASSUME CallInv, NEW allowed \in BOOLEAN, LoopHead(allowed, call), UNCHANGED stopping,
           call.phase \in {"idle", "backoff"}
    PROVE  CallInv'
<1> USE DEF CallInv
<1>1. call.attempts \in Seq(Attempt) /\ Len(call.attempts) < MaxAttempts
      /\ \A i \in DOMAIN call.attempts : call.attempts[i].outcome \in Retryable
  BY CallAssumption DEF CallAssumption, CallRecord, NoCall, LoopTurns
<1>2. /\ call' \in CallRecord /\ call'.attempts = call.attempts /\ call'.lastId = call.lastId
      /\ \/ call'.phase = "answered" /\ call'.status = "aborted"
         \/ call'.phase = "resolving" /\ call'.status = "none"
  <2>1. call.status = "none"
    BY DEF LoopTurns, NoCall
  <2>2. CASE stopping
    BY <2>1, <2>2 DEF LoopHead, CallRecord, Phases
  <2>3. CASE ~stopping
    BY <2>1, <2>3 DEF LoopHead, CallRecord, Phases
  <2> QED
    BY <2>2, <2>3
<1>3. AttemptsSoFar'
  BY <1>2 DEF AttemptsSoFar, LastAttempt
<1>4. LoopTurns'
  BY <1>1, <1>2 DEF LoopTurns
<1>5. AnswerGiven'
  <2>1. MaxAttempts \in Nat /\ Len(call.attempts) \in Nat
    BY <1>1, CallAssumption DEF CallAssumption
  <2> QED
    BY <1>1, <1>2, <2>1 DEF AnswerGiven
<1> QED
  BY <1>2, <1>3, <1>4, <1>5

(***************************************************************************)
(* An attempt is over: the loop goes to sleep or the call is settled.      *)
(***************************************************************************)
LEMMA AttemptKeeps ==
    ASSUME CallInv, call.phase \in {"resolving", "requesting"}, UNCHANGED stopping,
           NEW outcome \in AttemptOutcomes, NEW id \in RequestIds \cup {NoId},
           NEW delay \in 0..1, delay > 0 => outcome \in Retryable /\ ~IsLast,
           AfterAttempt(outcome, id, delay)
    PROVE  CallInv'
<1> DEFINE a == [outcome |-> outcome, id |-> id, delay |-> delay]
           s == call.attempts
<1> USE DEF CallInv
<1>1. /\ s \in Seq(Attempt) /\ a \in Attempt /\ Len(s) \in Nat /\ DOMAIN s = 1..Len(s)
      /\ Len(s) < MaxAttempts /\ MaxAttempts \in 1..3
      /\ \A i \in 1..Len(s) : s[i].outcome \in Retryable /\ AttemptAccepted(s[i])
  BY CallAssumption DEF CallAssumption, CallRecord, LoopTurns, AttemptsSoFar, Attempt
<1>2. /\ call' \in CallRecord /\ call'.attempts = Append(s, a) /\ call'.lastId = id
      /\ \/ call'.phase = "backoff" /\ call'.status = "none"
            /\ outcome \in Retryable /\ ~IsLast
         \/ call'.phase = "answered" /\ call'.status = StatusOf(outcome)
            /\ ~(outcome \in Retryable /\ ~IsLast)
  <2>1. Append(s, a) \in Seq(Attempt)
    BY <1>1
  <2>2. StatusOf(outcome) \in {"succeeded", "aborted", "transport_failed",
                               "provider_rejected", "invalid_response"}
    BY DEF StatusOf
  <2> QED
    BY <2>1, <2>2 DEF AfterAttempt, Settled, WithAttempt, CallRecord, Phases, LoopTurns
<1>3. /\ Len(Append(s, a)) = Len(s) + 1 /\ Append(s, a) # <<>>
      /\ DOMAIN Append(s, a) = 1 .. Len(s) + 1
      /\ \A i \in 1 .. Len(s) : Append(s, a)[i] = s[i]
      /\ Append(s, a)[Len(s) + 1] = a
  BY <1>1, AppendFacts
<1> HIDE DEF a, s
<1>4. a.outcome = outcome /\ a.id = id /\ a.delay = delay /\ AttemptAccepted(a)
  BY DEF a, AttemptAccepted
<1>5. LastAttempt' = a
  BY <1>2, <1>3 DEF LastAttempt
<1>6. AttemptsSoFar'
  BY <1>1, <1>2, <1>3, <1>4, <1>5 DEF AttemptsSoFar
<1>7. LoopTurns'
  BY <1>1, <1>2, <1>3, <1>4 DEF LoopTurns, IsLast, s
<1>8. AnswerGiven'
  <2> SUFFICES ASSUME call'.phase = "answered"
               PROVE  /\ call'.status # "none"
                      /\ Len(s) + 1 <= MaxAttempts
                      /\ LastAttempt'.delay = 0
                      /\ call'.status = StatusOf(LastAttempt'.outcome)
    BY <1>2, <1>3 DEF AnswerGiven
  <2> QED
    BY <1>1, <1>2, <1>4, <1>5 DEF StatusOf
<1> QED
  BY <1>2, <1>6, <1>7, <1>8

LEMMA CallStepKeeps ==
    ASSUME CallInv, NEW allowed \in BOOLEAN, CallStep(allowed)
    PROVE  CallInv'
<1>1. ASSUME NEW addresses \in SUBSET {"public", "blocked"}, AddressesResolved(addresses)
      PROVE  CallInv'
  <2>1. CASE PublicOnly(addresses)
    <3>1. /\ call' \in CallRecord /\ call'.phase = "requesting" /\ call'.status = call.status
          /\ call'.attempts = call.attempts /\ call'.lastId = call.lastId
      BY <1>1, <2>1 DEF AddressesResolved, CallInv, CallRecord, Phases
    <3> QED
      BY <1>1, <3>1 DEF AddressesResolved, CallInv, AttemptsSoFar, LoopTurns, AnswerGiven, LastAttempt
  <2>2. CASE ~PublicOnly(addresses)
    <3>1. call.lastId \in RequestIds \cup {NoId}
      BY DEF CallInv, CallRecord
    <3> QED
      BY <1>1, <2>2, <3>1, AttemptKeeps
         DEF AddressesResolved, ErrorDelay, AttemptOutcomes, TransportOutcomes
  <2> QED
    BY <2>1, <2>2
<1>2. ASSUME NEW outcome \in ErrorOutcomes \cup {"aborted"}, TransportFails(outcome)
      PROVE  CallInv'
  <2>1. call.lastId \in RequestIds \cup {NoId} /\ outcome \in AttemptOutcomes
    BY CallAssumption DEF CallInv, CallRecord, ErrorOutcomes, CallAssumption, AttemptOutcomes, TransportOutcomes
  <2> QED
    BY <1>2, <2>1, AttemptKeeps DEF TransportFails, ErrorDelay
<1>3. ASSUME NEW outcome \in Replies \cap HttpOutcomes, NEW id \in RequestIds \cup {NoId},
             ResponseArrives(outcome, id)
      PROVE  CallInv'
  <2>1. PICK delay \in IF outcome = "http_transient" THEN RetryDelays ELSE {0} :
             AfterAttempt(outcome, id, delay)
    BY <1>3 DEF ResponseArrives
  <2>2. delay \in 0..1 /\ (delay > 0 => outcome \in Retryable /\ ~IsLast)
    BY DEF RetryDelays, Retryable
  <2> QED
    BY <1>3, <2>1, <2>2, AttemptKeeps DEF ResponseArrives, AttemptOutcomes
<1>4. CASE BackoffEnds(allowed)
  BY <1>4, LoopHeadKeeps DEF BackoffEnds
<1> QED
  BY <1>1, <1>2, <1>3, <1>4 DEF CallStep

-----------------------------------------------------------------------------
(***************************************************************************)
(* The attempt log of an answer.                                           *)
(***************************************************************************)
LEMMA LastIdIsObserved ==
    ASSUME call.attempts \in Seq(Attempt), AttemptsSoFar, ~IdentityLost
    PROVE  call.lastId = LastObservedId
<1> DEFINE s == call.attempts
           seen == {i \in DOMAIN s : s[i].id # NoId}
<1>1. s \in Seq(Attempt) /\ Len(s) \in Nat /\ DOMAIN s = 1..Len(s) /\ (s # <<>> => Len(s) \in DOMAIN s)
  OBVIOUS
<1>2. CASE call.lastId = NoId
  BY <1>2 DEF IdentityLost, LastObservedId
<1>3. CASE call.lastId # NoId
  <2>1. s # <<>> /\ s[Len(s)].id = call.lastId
    BY <1>3 DEF AttemptsSoFar, LastAttempt
  <2>2. Len(s) \in seen /\ seen # {} /\ \A j \in seen : j <= Len(s)
    BY <1>1, <1>3, <2>1
  <2>3. \A i \in seen : (\A j \in seen : j <= i) => i = Len(s)
    BY <1>1, <2>2
  <2>4. (CHOOSE i \in seen : \A j \in seen : j <= i) = Len(s)
    BY <2>2, <2>3
  <2> QED
    BY <2>1, <2>2, <2>4 DEF LastObservedId
<1> QED
  BY <1>2, <1>3

LEMMA CallRecorded == CallInv => AnswersCanBeRecorded
<1> SUFFICES ASSUME CallInv, call.phase = "answered", ~AbortedInBackoff, ~IdentityLost
             PROVE  RecordAccepted
  BY DEF AnswersCanBeRecorded
<1> USE DEF CallInv
<1>1. /\ call.attempts \in Seq(Attempt) /\ call.lastId = LastObservedId
      /\ Len(call.attempts) \in Nat /\ DOMAIN call.attempts = 1 .. Len(call.attempts)
      /\ call.attempts # <<>> => Len(call.attempts) \in DOMAIN call.attempts
  BY LastIdIsObserved DEF CallRecord
<1>2. CASE call.attempts = <<>> /\ call.status = "aborted"
  BY <1>1, <1>2 DEF RecordAccepted, AnswerGiven, AttemptsSoFar
<1>3. CASE call.attempts # <<>> /\ LastAttempt.delay = 0 /\ call.status = StatusOf(LastAttempt.outcome)
  <2>1. call.status = "succeeded" => LastAttempt.outcome = "completed"
    BY <1>3 DEF StatusOf
  <2> QED
    BY <1>1, <1>3, <2>1 DEF RecordAccepted, AnswerGiven, AttemptsSoFar
<1>4. call.status = "aborted" /\ call.attempts # <<>>
        /\ (\A i \in DOMAIN call.attempts : call.attempts[i].outcome \in Retryable) => FALSE
  BY <1>1 DEF AbortedInBackoff, LastAttempt, Retryable
<1> QED
  BY <1>2, <1>3, <1>4 DEF AnswerGiven

-----------------------------------------------------------------------------
(***************************************************************************)
(* The pump.                                                               *)
(***************************************************************************)
RunTables ==
    /\ sealed \in 0..MaxRuns /\ gone \subseteq Runs
    /\ kind \in [Runs -> {"rich", "poor", "unreadable"}]
    /\ late \in [Runs -> 0..MaxLate]
    /\ graphAt \in [Runs -> 0..NoGraph]

(***************************************************************************)
(* The options of a batch name a provider and its own key, or neither.     *)
(***************************************************************************)
PumpInv ==
    /\ worker = [stage |-> worker.stage, todo |-> worker.todo, opts |-> worker.opts]
    /\ worker.stage \in 1..7
    /\ worker.opts.secret = worker.opts.provider

(***************************************************************************)
(* A call is made by the generation stage only, under options that name a  *)
(* provider.                                                               *)
(***************************************************************************)
CallsHaveOptions ==
    /\ Busy => Stage = "candidate_generation"
    /\ Stage = "candidate_generation" /\ (worker.todo # <<>> \/ Busy)
          => worker.opts.provider \in Providers

GenerationsAreRows ==
    \A g \in generations :
        /\ g = [number |-> g.number, run |-> g.run, provider |-> g.provider,
                status |-> g.status, validated |-> g.validated]
        /\ g.run \in Runs /\ g.provider \in Providers
        /\ g.status \in {"succeeded", "aborted", "transport_failed", "provider_rejected",
                         "invalid_response"}

(***************************************************************************)
(* No call is made for a key that has a record of success.                 *)
(***************************************************************************)
CallIsUnrecorded ==
    call.phase \in {"resolving", "requesting", "backoff"} =>
        SucceededFor(Current, worker.opts.provider) = {}

AnalysisInv ==
    /\ CallInv /\ SettingsInv /\ RunTables /\ PumpInv /\ CallsHaveOptions
    /\ GenerationsAreRows /\ ResultsHaveTheirSources /\ CallIsUnrecorded

LEMMA AnalysisStart == Init => AnalysisInv
<1> SUFFICES ASSUME Init
             PROVE  AnalysisInv
  OBVIOUS
<1>1. CallInv /\ SettingsInv
  BY CallStart, SettingsStart DEF Init
<1>2. call.phase = "idle"
  BY DEF Init, CallInit, NoCall
<1>3. RunTables
  <2>1. MaxRuns \in Nat /\ MaxLate \in Nat /\ NoGraph \in 0..NoGraph
    BY AnalysisAssumption DEF AnalysisAssumption, NoGraph
  <2>2. /\ sealed = 0 /\ gone = {} /\ late = [q \in Runs |-> 0]
        /\ graphAt = [q \in Runs |-> NoGraph]
    BY DEF Init
  <2>3. kind \in [Runs -> Kinds]
    BY DEF Init
  <2>4. late \in [Runs -> 0..MaxLate] /\ graphAt \in [Runs -> 0..NoGraph]
    BY <2>1, <2>2
  <2>5. kind \in [Runs -> {"rich", "poor", "unreadable"}]
    BY <2>3, AnalysisAssumption DEF AnalysisAssumption
  <2> QED
    BY <2>1, <2>2, <2>4, <2>5 DEF RunTables
<1>7. PumpInv
  BY DEF Init, PumpInv, Resting, Off
<1>4. CallsHaveOptions
  BY <1>2 DEF Init, CallsHaveOptions, Busy, Resting, Stage, StageOrder
<1>5. GenerationsAreRows /\ ResultsHaveTheirSources
  BY DEF Init, GenerationsAreRows, ResultsHaveTheirSources, Has
<1>6. CallIsUnrecorded
  BY <1>2 DEF CallIsUnrecorded
<1> QED
  BY <1>1, <1>3, <1>4, <1>5, <1>6, <1>7 DEF AnalysisInv

(***************************************************************************)
(* A step that leaves the evidence alone, does not begin a call and at     *)
(* most drops work keeps what is said about calls and results.             *)
(***************************************************************************)
LEMMA EvidenceUntouched ==
    ASSUME AnalysisInv, UNCHANGED evidence
    PROVE  RunTables' /\ GenerationsAreRows' /\ ResultsHaveTheirSources'
BY DEF AnalysisInv, evidence, RunTables, GenerationsAreRows, ResultsHaveTheirSources, Has, Live

LEMMA ControlUntouched ==
    ASSUME AnalysisInv, UNCHANGED control
    PROVE  SettingsInv'
BY SettingsKept DEF AnalysisInv

LEMMA CallUntouched ==
    ASSUME AnalysisInv, UNCHANGED <<call, stopping>>
    PROVE  CallInv'
BY DEF AnalysisInv, CallInv, AttemptsSoFar, LoopTurns, AnswerGiven, LastAttempt

LEMMA IdlePaysNothing ==
    ASSUME call'.phase = "idle" \/ call'.phase = "answered"
    PROVE  CallIsUnrecorded'
BY DEF CallIsUnrecorded

(***************************************************************************)
(* The worker after an element of its list, or its whole list, is done.    *)
(***************************************************************************)
LEMMA WorkerMovesOn ==
    ASSUME AnalysisInv, Done \/ StageFails
    PROVE  /\ PumpInv'
           /\ worker'.stage = worker.stage /\ worker'.opts = worker.opts
           /\ Stage' = Stage
BY DEF AnalysisInv, PumpInv, Done, StageFails, Stage

LEMMA WorkersCalls ==
    ASSUME AnalysisInv, Done \/ StageFails, worker.todo # <<>> \/ Busy, ~Busy'
    PROVE  CallsHaveOptions'
BY WorkerMovesOn DEF AnalysisInv, CallsHaveOptions

(***************************************************************************)
(* The deterministic stages.                                               *)
(***************************************************************************)
LEMMA StageStepKeeps ==
    ASSUME AnalysisInv, NEW stage, Working(stage), OnlyEvidence, Done \/ StageFails
    PROVE  /\ CallInv' /\ SettingsInv' /\ PumpInv' /\ CallsHaveOptions' /\ CallIsUnrecorded'
<1>1. UNCHANGED <<call, stopping>> /\ UNCHANGED control
  BY DEF OnlyEvidence
<1>2. ~Busy' /\ call'.phase = "idle" /\ worker.todo # <<>>
  BY <1>1 DEF Working, Busy
<1> QED
  BY <1>1, <1>2, CallUntouched, ControlUntouched, WorkerMovesOn, WorkersCalls, IdlePaysNothing

LEMMA LinkedRoles ==
    ASSUME NEW roles, LinkRoles(roles), Current \in Live, NEW q, NEW role
    PROVE  Has(q, role)' <=> Has(q, role) \/ (q = Current /\ role \in roles)
BY DEF LinkRoles, LinkAllowed, Has

LEMMA LiveIsRun == ASSUME RunTables, NEW q \in Live PROVE q \in Runs /\ q \notin gone
BY AnalysisAssumption DEF RunTables, Live, Runs, AnalysisAssumption

(***************************************************************************)
(* New links come with what they are derived from.                         *)
(***************************************************************************)
LEMMA DeriveKeeps ==
    ASSUME AnalysisInv, NEW roles, Current \in Live, Derive(roles),
           graphAt' \in [Runs -> 0..NoGraph],
           \A q \in Runs : graphAt'[q] = graphAt[q] \/ graphAt'[q] # NoGraph,
           "semantic" \in roles => Has(Current, "graph") /\ kind[Current] = "rich",
           "graph" \in roles => /\ {"classification", "verification"} \subseteq roles
                                /\ graphAt'[Current] # NoGraph
    PROVE  RunTables' /\ GenerationsAreRows' /\ ResultsHaveTheirSources'
<1>1. UNCHANGED <<kind, sealed, gone, late, generations>> /\ LinkRoles(roles)
  BY DEF Derive
<1>2. RunTables' /\ GenerationsAreRows'
  BY <1>1 DEF AnalysisInv, RunTables, GenerationsAreRows
<1>3. \A q, role : Has(q, role)' <=> Has(q, role) \/ (q = Current /\ role \in roles)
  BY <1>1, LinkedRoles
<1>4. Current \in Runs /\ Current \notin gone /\ Live' = Live
  BY <1>1, LiveIsRun DEF AnalysisInv, Live
<1>5. \A g \in generations' : g.run \in Live' /\ Has(g.run, "semantic")'
  BY <1>1, <1>3, <1>4 DEF AnalysisInv, ResultsHaveTheirSources
<1>6. ASSUME NEW q \in Runs
      PROVE  /\ Has(q, "semantic")' => Has(q, "graph")' /\ kind'[q] = "rich"
             /\ Has(q, "graph")' => /\ Has(q, "classification")' /\ Has(q, "verification")'
                                    /\ graphAt'[q] # NoGraph
             /\ q \in gone' => \A role \in Roles : ~Has(q, role)'
  BY <1>1, <1>3, <1>4 DEF AnalysisInv, ResultsHaveTheirSources
<1> QED
  BY <1>2, <1>5, <1>6 DEF ResultsHaveTheirSources, NoGraph

LEMMA EvidenceStageKeeps ==
    ASSUME AnalysisInv, Classify \/ ExtractVerification \/ BuildGraph \/ PrepareSemantic
    PROVE  AnalysisInv'
<1>1. PICK stage : Working(stage) /\ OnlyEvidence /\ (Done \/ StageFails)
  BY DEF Classify, ExtractVerification, BuildGraph, PrepareSemantic, Skip, Throw, Derive
<1>2. CallInv' /\ SettingsInv' /\ PumpInv' /\ CallsHaveOptions' /\ CallIsUnrecorded'
  BY <1>1, StageStepKeeps
<1>3. CASE UNCHANGED evidence
  BY <1>2, <1>3, EvidenceUntouched DEF AnalysisInv
<1> USE DEF Skip, Throw
<1>4. CASE Classify /\ ~UNCHANGED evidence
  <2>1. Current \in Live /\ Derive({"classification"}) /\ UNCHANGED graphAt
    BY <1>4 DEF Classify
  <2>2. RunTables' /\ GenerationsAreRows' /\ ResultsHaveTheirSources'
    BY <2>1, DeriveKeeps DEF AnalysisInv, RunTables
  <2> QED
    BY <1>2, <2>2 DEF AnalysisInv
<1>5. CASE ExtractVerification /\ ~UNCHANGED evidence
  <2>1. Current \in Live /\ Derive({"classification", "verification"}) /\ UNCHANGED graphAt
    BY <1>5 DEF ExtractVerification
  <2>2. RunTables' /\ GenerationsAreRows' /\ ResultsHaveTheirSources'
    BY <2>1, DeriveKeeps DEF AnalysisInv, RunTables
  <2> QED
    BY <1>2, <2>2 DEF AnalysisInv
<1>6. CASE BuildGraph /\ ~UNCHANGED evidence
  <2>1. /\ Current \in Live /\ Derive({"classification", "verification", "graph"})
        /\ graphAt' = [graphAt EXCEPT ![Current] = late[Current]]
    BY <1>6 DEF BuildGraph
  <2>2. Current \in Runs
    BY <2>1, LiveIsRun DEF AnalysisInv
  <2>3. late[Current] \in 0..MaxLate /\ late[Current] \in 0..NoGraph /\ late[Current] # NoGraph
    BY <2>2, AnalysisAssumption DEF AnalysisInv, RunTables, NoGraph, AnalysisAssumption
  <2>4. /\ graphAt' \in [Runs -> 0..NoGraph] /\ graphAt'[Current] # NoGraph
        /\ \A q \in Runs : graphAt'[q] = graphAt[q] \/ graphAt'[q] # NoGraph
    BY <2>1, <2>2, <2>3 DEF AnalysisInv, RunTables
  <2>5. RunTables' /\ GenerationsAreRows' /\ ResultsHaveTheirSources'
    BY <2>1, <2>4, DeriveKeeps
  <2> QED
    BY <1>2, <2>5 DEF AnalysisInv
<1>7. CASE PrepareSemantic /\ ~UNCHANGED evidence
  <2>1. /\ Current \in Live /\ EligibleSource(Current) /\ Derive({"semantic"}) /\ UNCHANGED graphAt
    BY <1>7 DEF PrepareSemantic
  <2>2. RunTables' /\ GenerationsAreRows' /\ ResultsHaveTheirSources'
    BY <2>1, DeriveKeeps DEF AnalysisInv, RunTables, EligibleSource
  <2> QED
    BY <1>2, <2>2 DEF AnalysisInv
<1> QED
  BY <1>3, <1>4, <1>5, <1>6, <1>7

(***************************************************************************)
(* A stage begins: generation has work only under options that are on.     *)
(***************************************************************************)
LEMMA OptionsAreOnes ==
    ASSUME SettingsInv
    PROVE  /\ Options.secret = Options.provider
           /\ Options # Off => Options.provider \in Providers
           /\ Off.secret = Off.provider
BY DEF SettingsInv, SettingsTypeOK, SettingsRow, SecretFollowsProvider, Options, Off

LEMMA NextStageKeeps ==
    ASSUME AnalysisInv, NextStage
    PROVE  AnalysisInv'
<1>1. UNCHANGED <<evidence, control, stops, call, stopping>> /\ ~Busy /\ EnterNext
  BY DEF NextStage
<1>2. PICK next \in 1..7 : worker' = [stage |-> next, todo |-> Work(StageOrder[next]),
                                      opts |-> Snapshot(StageOrder[next])]
  BY <1>1 DEF EnterNext, AnalysisInv, PumpInv, StageOrder
<1>3. CallInv' /\ SettingsInv' /\ RunTables' /\ GenerationsAreRows' /\ ResultsHaveTheirSources'
  BY <1>1, CallUntouched, ControlUntouched, EvidenceUntouched
<1>4. ~Busy' /\ call'.phase = "idle"
  BY <1>1 DEF Busy
<1>5. Snapshot(StageOrder[next]).secret = Snapshot(StageOrder[next]).provider
  BY OptionsAreOnes DEF AnalysisInv, Snapshot
<1>6. PumpInv'
  BY <1>2, <1>5 DEF PumpInv
<1>7. CallsHaveOptions'
  <2> SUFFICES ASSUME StageOrder[next] = "candidate_generation", Work(StageOrder[next]) # <<>>
               PROVE  Snapshot(StageOrder[next]).provider \in Providers
    BY <1>2, <1>4 DEF CallsHaveOptions, Stage
  <2>1. Options # Off
    BY DEF Work
  <2> QED
    BY <2>1, OptionsAreOnes DEF AnalysisInv, Snapshot
<1> QED
  BY <1>3, <1>4, <1>6, <1>7, IdlePaysNothing DEF AnalysisInv

(***************************************************************************)
(* A call is begun for a key nobody has an answer to.                      *)
(***************************************************************************)
LEMMA StartGenerationKeeps ==
    ASSUME AnalysisInv, StartGeneration
    PROVE  AnalysisInv'
<1>1. UNCHANGED evidence /\ UNCHANGED control /\ ~Busy /\ worker.todo # <<>>
      /\ Stage = "candidate_generation"
  BY DEF StartGeneration, Working, Skip, Throw
<1>2. SettingsInv' /\ RunTables' /\ GenerationsAreRows' /\ ResultsHaveTheirSources'
  BY <1>1, ControlUntouched, EvidenceUntouched
<1>3. CASE UNCHANGED <<call, stopping>> /\ (Done \/ StageFails)
  <2>1. ~Busy' /\ call'.phase = "idle"
    BY <1>1, <1>3 DEF Busy
  <2> QED
    BY <1>1, <1>2, <1>3, <2>1, CallUntouched, WorkerMovesOn, WorkersCalls, IdlePaysNothing
       DEF AnalysisInv
<1>4. CASE ~AlreadyGenerated(Current) /\ BeginCall(Options # Off) /\ UNCHANGED worker
  <2>1. call = NoCall /\ LoopHead(Options # Off, call) /\ UNCHANGED stopping /\ call.phase = "idle"
    BY <1>4 DEF BeginCall, AnalysisInv, CallInv
  <2>2. CallInv'
    BY <2>1, LoopHeadKeeps DEF AnalysisInv
  <2>3. PumpInv' /\ CallsHaveOptions'
    BY <1>1, <1>4 DEF AnalysisInv, PumpInv, CallsHaveOptions, Stage
  <2>4. CallIsUnrecorded'
    BY <1>1, <1>4 DEF AlreadyGenerated, CallIsUnrecorded, SucceededFor, Current, evidence
  <2> QED
    BY <1>2, <2>2, <2>3, <2>4 DEF AnalysisInv
<1> QED
  BY <1>3, <1>4 DEF StartGeneration, Skip, Throw

LEMMA ProviderStepKeeps ==
    ASSUME AnalysisInv, ProviderStep
    PROVE  AnalysisInv'
<1>1. CallStep(Options # Off) /\ UNCHANGED <<evidence, control, worker, stops>>
  BY DEF ProviderStep
<1>2. call.phase \in {"resolving", "requesting", "backoff"}
  BY <1>1 DEF CallStep, AddressesResolved, TransportFails, ResponseArrives, BackoffEnds
<1>3. CallInv'
  BY <1>1, CallStepKeeps DEF AnalysisInv
<1>4. SettingsInv' /\ RunTables' /\ GenerationsAreRows' /\ ResultsHaveTheirSources'
  BY <1>1, ControlUntouched, EvidenceUntouched
<1>5. PumpInv' /\ CallsHaveOptions'
  BY <1>1, <1>2 DEF AnalysisInv, PumpInv, CallsHaveOptions, Busy, Stage
<1>6. CallIsUnrecorded'
  BY <1>1, <1>2 DEF AnalysisInv, CallIsUnrecorded, SucceededFor, Current, evidence
<1> QED
  BY <1>3, <1>4, <1>5, <1>6 DEF AnalysisInv

(***************************************************************************)
(* The answer is recorded, for a run that is still there, or dropped.      *)
(***************************************************************************)
LEMMA FinishGenerationKeeps ==
    ASSUME AnalysisInv, FinishGeneration
    PROVE  AnalysisInv'
<1>1. /\ call.phase = "answered" /\ call' = NoCall /\ UNCHANGED stopping /\ UNCHANGED control
      /\ UNCHANGED <<kind, sealed, gone, late, linked, graphAt>>
      /\ Done \/ StageFails
  BY DEF FinishGeneration, AfterGeneration, control
<1>2. CallInv'
  <2>1. <<>> \in Seq(Attempt) /\ DOMAIN <<>> = {}
    OBVIOUS
  <2> QED
    BY <1>1, <2>1 DEF AnalysisInv, CallInv, NoCall, CallRecord, Phases, AttemptsSoFar, LoopTurns,
       AnswerGiven
<1>3. SettingsInv'
  BY <1>1, ControlUntouched
<1>4. Busy /\ ~Busy' /\ call'.phase = "idle"
  BY <1>1 DEF Busy, NoCall
<1>5. PumpInv' /\ CallsHaveOptions' /\ CallIsUnrecorded'
  BY <1>1, <1>4, WorkerMovesOn, WorkersCalls, IdlePaysNothing
<1>6. RunTables'
  BY <1>1 DEF AnalysisInv, RunTables
<1>7. CASE UNCHANGED generations
  BY <1>1, <1>2, <1>3, <1>5, <1>6, <1>7, EvidenceUntouched DEF AnalysisInv, evidence
<1>8. CASE InsertAllowed(Current) /\ InsertGeneration(Current)
  <2>1. PICK number : generations' = generations \cup
             {[number |-> number, run |-> Current, provider |-> worker.opts.provider,
               status |-> call.status, validated |-> FALSE]}
    BY <1>8 DEF InsertGeneration
  <2>2. Current \in Live /\ Current \in Runs /\ Has(Current, "semantic")
    BY <1>8, LiveIsRun DEF InsertAllowed, AnalysisInv
  <2>3. worker.opts.provider \in Providers
    BY <1>4 DEF AnalysisInv, CallsHaveOptions
  <2>4. call.status \in {"succeeded", "aborted", "transport_failed", "provider_rejected",
                         "invalid_response"}
    BY <1>1 DEF AnalysisInv, CallInv, CallRecord, AnswerGiven
  <2>5. GenerationsAreRows'
    BY <2>1, <2>2, <2>3, <2>4 DEF AnalysisInv, GenerationsAreRows
  <2>6. ResultsHaveTheirSources'
    BY <1>1, <2>1, <2>2 DEF AnalysisInv, ResultsHaveTheirSources, Has, Live
  <2> QED
    BY <1>2, <1>3, <1>5, <1>6, <2>5, <2>6 DEF AnalysisInv
<1> QED
  BY <1>7, <1>8 DEF FinishGeneration

LEMMA ValidateKeeps ==
    ASSUME AnalysisInv, Validate
    PROVE  AnalysisInv'
<1>1. Working("candidate_validation") /\ OnlyEvidence /\ (Done \/ StageFails)
  BY DEF Validate, Skip, Throw
<1>2. CallInv' /\ SettingsInv' /\ PumpInv' /\ CallsHaveOptions' /\ CallIsUnrecorded'
  BY <1>1, StageStepKeeps
<1>3. CASE UNCHANGED evidence
  BY <1>2, <1>3, EvidenceUntouched DEF AnalysisInv
<1>4. CASE ~UNCHANGED evidence
  <2>1. PICK found : /\ generations' = {IF g \in found THEN [g EXCEPT !.validated = TRUE] ELSE g :
                                        g \in generations}
                     /\ UNCHANGED <<kind, sealed, gone, late, linked, graphAt>>
    BY <1>4 DEF Validate, Skip, Throw
  <2>2. ASSUME NEW h \in generations'
        PROVE  \E g \in generations :
                 /\ h = [number |-> h.number, run |-> h.run, provider |-> h.provider,
                         status |-> h.status, validated |-> h.validated]
                 /\ h.run = g.run /\ h.provider = g.provider /\ h.status = g.status
    <3>1. PICK g \in generations : h = IF g \in found THEN [g EXCEPT !.validated = TRUE] ELSE g
      BY <2>1
    <3>2. g = [number |-> g.number, run |-> g.run, provider |-> g.provider,
               status |-> g.status, validated |-> g.validated]
      BY DEF AnalysisInv, GenerationsAreRows
    <3> QED
      BY <3>1, <3>2
  <2>3. GenerationsAreRows'
    BY <2>2 DEF AnalysisInv, GenerationsAreRows
  <2>4. RunTables'
    BY <2>1 DEF AnalysisInv, RunTables
  <2>5. ResultsHaveTheirSources'
    BY <2>1, <2>2 DEF AnalysisInv, ResultsHaveTheirSources, Has, Live
  <2> QED
    BY <1>2, <2>3, <2>4, <2>5 DEF AnalysisInv
<1> QED
  BY <1>3, <1>4

-----------------------------------------------------------------------------
(***************************************************************************)
(* Clients, and the end of a process.                                      *)
(***************************************************************************)
LEMMA CascadeKeeps ==
    ASSUME AnalysisInv, NEW runs \in SUBSET Runs, Cascade(runs), gone' = gone \cup runs,
           UNCHANGED <<kind, sealed, late, control, worker, stops, call, stopping>>
    PROVE  AnalysisInv'
<1>1. CallInv' /\ SettingsInv'
  BY CallUntouched, ControlUntouched
<1>2. PumpInv' /\ CallsHaveOptions'
  BY DEF AnalysisInv, PumpInv, CallsHaveOptions, Busy, Stage
<1>3. /\ linked' = {l \in linked : l[1] \notin runs}
      /\ graphAt' = [q \in Runs |-> IF q \in runs THEN NoGraph ELSE graphAt[q]]
      /\ generations' = {g \in generations : g.run \notin runs}
  BY DEF Cascade
<1>4. NoGraph \in 0..NoGraph
  BY AnalysisAssumption DEF NoGraph, AnalysisAssumption
<1>5. RunTables'
  <2>1. graphAt' \in [Runs -> 0..NoGraph]
    BY <1>3, <1>4 DEF AnalysisInv, RunTables
  <2> QED
    BY <2>1 DEF AnalysisInv, RunTables, NoGraph
<1>6. GenerationsAreRows'
  BY <1>3 DEF AnalysisInv, GenerationsAreRows
<1>7. \A q, role : Has(q, role)' <=> Has(q, role) /\ q \notin runs
  BY <1>3 DEF Has
<1>8. ResultsHaveTheirSources'
  <2>1. \A g \in generations' : g.run \in Live' /\ Has(g.run, "semantic")'
    BY <1>3, <1>7 DEF AnalysisInv, ResultsHaveTheirSources, Live
  <2>2. ASSUME NEW q \in Runs
        PROVE  /\ Has(q, "semantic")' => Has(q, "graph")' /\ kind'[q] = "rich"
               /\ Has(q, "graph")' => /\ Has(q, "classification")' /\ Has(q, "verification")'
                                      /\ graphAt'[q] # NoGraph
               /\ q \in gone' => \A role \in Roles : ~Has(q, role)'
    BY <1>3, <1>7 DEF AnalysisInv, ResultsHaveTheirSources
  <2> QED
    BY <2>1, <2>2 DEF ResultsHaveTheirSources, NoGraph
<1>9. CallIsUnrecorded'
  BY <1>3 DEF AnalysisInv, CallIsUnrecorded, SucceededFor, GenerationKey, Current
<1> QED
  BY <1>1, <1>2, <1>5, <1>6, <1>8, <1>9 DEF AnalysisInv

LEMMA ClientStepKeeps ==
    ASSUME AnalysisInv, ClientStep
    PROVE  AnalysisInv'
<1>1. CASE SettingsStep /\ UNCHANGED <<evidence, worker, stops, call, stopping>>
  <2>1. SettingsInv'
    BY <1>1, SettingsKept DEF AnalysisInv
  <2>2. CallInv' /\ RunTables' /\ GenerationsAreRows' /\ ResultsHaveTheirSources'
    BY <1>1, CallUntouched, EvidenceUntouched
  <2>3. PumpInv' /\ CallsHaveOptions' /\ CallIsUnrecorded'
    BY <1>1 DEF AnalysisInv, PumpInv, CallsHaveOptions, Busy, Stage, CallIsUnrecorded,
       SucceededFor, Current, evidence
  <2> QED
    BY <2>1, <2>2, <2>3 DEF AnalysisInv
<1>2. ASSUME NEW q \in Runs, DeleteRun(q)
      PROVE  AnalysisInv'
  BY <1>2, CascadeKeeps DEF DeleteRun
<1>3. ASSUME NEW q \in Runs, ApplyRetention(q)
      PROVE  AnalysisInv'
  <2>1. RetentionEligible(q) \in SUBSET Runs
    BY LiveIsRun DEF AnalysisInv, RetentionEligible
  <2> QED
    BY <1>3, <2>1, CascadeKeeps DEF ApplyRetention
<1> QED
  BY <1>1, <1>2, <1>3 DEF ClientStep

LEMMA SourcesKeep ==
    ASSUME AnalysisInv, Seal \/ \E q \in Runs : LateEvidence(q)
    PROVE  AnalysisInv'
<1>1. UNCHANGED <<kind, gone, linked, graphAt, generations, control, worker, stops, call, stopping>>
  BY DEF Seal, LateEvidence
<1>2. CallInv' /\ SettingsInv' /\ GenerationsAreRows'
  BY <1>1, CallUntouched, ControlUntouched DEF AnalysisInv, GenerationsAreRows
<1>3. PumpInv' /\ CallsHaveOptions' /\ CallIsUnrecorded'
  BY <1>1 DEF AnalysisInv, PumpInv, CallsHaveOptions, Busy, Stage, CallIsUnrecorded,
     SucceededFor, Current
<1>4. RunTables' /\ Live \subseteq Live'
  <2>1. CASE Seal
    BY <1>1, <2>1, AnalysisAssumption DEF Seal, AnalysisInv, RunTables, AnalysisAssumption, Live, NoGraph
  <2>2. ASSUME NEW q \in Runs, LateEvidence(q)
        PROVE  RunTables' /\ Live \subseteq Live'
    <3>1. late[q] + 1 \in 0..MaxLate
      BY <2>2, AnalysisAssumption DEF LateEvidence, AnalysisInv, RunTables, AnalysisAssumption
    <3>2. late' \in [Runs -> 0..MaxLate] /\ UNCHANGED sealed
      BY <2>2, <3>1 DEF LateEvidence, AnalysisInv, RunTables
    <3> QED
      BY <1>1, <3>2 DEF AnalysisInv, RunTables, Live, NoGraph
  <2> QED
    BY <2>1, <2>2
<1>5. ResultsHaveTheirSources'
  BY <1>1, <1>4 DEF AnalysisInv, ResultsHaveTheirSources, Has, NoGraph
<1> QED
  BY <1>2, <1>3, <1>4, <1>5 DEF AnalysisInv

LEMMA ProcessEndKeeps ==
    ASSUME AnalysisInv, Stop \/ Restart
    PROVE  AnalysisInv'
<1>1. UNCHANGED evidence
  BY DEF Stop, Restart
<1>2. RunTables' /\ GenerationsAreRows' /\ ResultsHaveTheirSources'
  BY <1>1, EvidenceUntouched
<1>3. CASE Stop
  <2>1. UNCHANGED <<control, worker, call>> /\ stopping' = TRUE
    BY <1>3 DEF Stop
  <2>2. SettingsInv'
    BY <2>1, ControlUntouched
  <2>3. CallInv'
    BY <2>1 DEF AnalysisInv, CallInv, AttemptsSoFar, LoopTurns, AnswerGiven, LastAttempt
  <2>4. PumpInv' /\ CallsHaveOptions' /\ CallIsUnrecorded'
    BY <1>1, <2>1 DEF AnalysisInv, PumpInv, CallsHaveOptions, Busy, Stage, CallIsUnrecorded,
       SucceededFor, Current, evidence
  <2> QED
    BY <1>2, <2>2, <2>3, <2>4 DEF AnalysisInv
<1>4. CASE Restart
  <2>1. /\ call' = NoCall /\ stopping' = FALSE /\ worker' = Resting /\ secret' = NoProvider
        /\ UNCHANGED <<settings, form>>
    BY <1>4 DEF Restart
  <2>2. SettingsInv'
    BY <2>1 DEF AnalysisInv, SettingsInv, SettingsTypeOK, FormsArePast, SecretFollowsProvider
  <2>3. <<>> \in Seq(Attempt) /\ DOMAIN <<>> = {}
    OBVIOUS
  <2>4. CallInv'
    BY <2>1, <2>3 DEF CallInv, NoCall, CallRecord, Phases, AttemptsSoFar, LoopTurns, AnswerGiven
  <2>5. call'.phase = "idle"
    BY <2>1 DEF NoCall
  <2>6. PumpInv' /\ CallsHaveOptions'
    BY <2>1, <2>5 DEF PumpInv, CallsHaveOptions, Busy, Resting, Off, Stage, StageOrder
  <2> QED
    BY <1>2, <2>2, <2>4, <2>5, <2>6, IdlePaysNothing DEF AnalysisInv
<1> QED
  BY <1>3, <1>4

LEMMA AnalysisKept == AnalysisInv /\ [Next]_vars => AnalysisInv'
<1> SUFFICES ASSUME AnalysisInv, [Next]_vars
             PROVE  AnalysisInv'
  OBVIOUS
<1>1. CASE PumpStep
  BY <1>1, NextStageKeeps, EvidenceStageKeeps, StartGenerationKeeps, ProviderStepKeeps,
     FinishGenerationKeeps, ValidateKeeps DEF PumpStep
<1>2. CASE ClientStep
  BY <1>2, ClientStepKeeps
<1>3. CASE Seal \/ \E q \in Runs : LateEvidence(q)
  BY <1>3, SourcesKeep
<1>4. CASE Stop \/ Restart
  BY <1>4, ProcessEndKeeps
<1>5. CASE UNCHANGED vars
  <2>1. CallInv' /\ SettingsInv' /\ RunTables' /\ GenerationsAreRows' /\ ResultsHaveTheirSources'
    BY <1>5, CallUntouched, ControlUntouched, EvidenceUntouched DEF vars
  <2>2. PumpInv' /\ CallsHaveOptions' /\ CallIsUnrecorded'
    BY <1>5 DEF AnalysisInv, PumpInv, CallsHaveOptions, Busy, Stage, CallIsUnrecorded,
       SucceededFor, Current, vars, evidence
  <2> QED
    BY <2>1, <2>2 DEF AnalysisInv
<1> QED
  BY <1>1, <1>2, <1>3, <1>4, <1>5 DEF Next

-----------------------------------------------------------------------------
LEMMA AnalysisAlways == Spec => []AnalysisInv
BY AnalysisStart, AnalysisKept, PTL DEF Spec

(***************************************************************************)
(* For any number of runs, clients, restarts and late rows: what the       *)
(* stages derived is there with its sources, whatever is deleted at        *)
(* whatever await.                                                         *)
(***************************************************************************)
THEOREM ResultsKeepTheirSources == Spec => []ResultsHaveTheirSources
<1>1. AnalysisInv => ResultsHaveTheirSources
  BY DEF AnalysisInv
<1> QED
  BY <1>1, AnalysisAlways, PTL

(***************************************************************************)
(* A key is never snapshotted with another provider than it was loaded     *)
(* for, whenever the settings change during a batch.                       *)
(***************************************************************************)
THEOREM OptionsCarryTheirOwnKey == Spec => []SecretStaysWithItsProvider
<1>1. AnalysisInv => SecretStaysWithItsProvider
  BY DEF AnalysisInv, SettingsInv, SecretFollowsProvider, PumpInv, SecretStaysWithItsProvider
<1> QED
  BY <1>1, AnalysisAlways, PTL

(***************************************************************************)
(* External analysis that is off makes no call, and a recorded generation  *)
(* names the provider that made it.                                        *)
(***************************************************************************)
THEOREM CallsAreMadeUnderOptions == Spec => [](CallsHaveOptions /\ GenerationsAreRows)
<1>1. AnalysisInv => CallsHaveOptions /\ GenerationsAreRows
  BY DEF AnalysisInv
<1> QED
  BY <1>1, AnalysisAlways, PTL

(***************************************************************************)
(* For any retry policy and provider: the attempt log of every answer but  *)
(* the two kinds named is one the schema takes.                            *)
(***************************************************************************)
THEOREM AnswersAreRecordable == Spec => []AnswersCanBeRecorded
<1>1. AnalysisInv => AnswersCanBeRecorded
  BY CallRecorded DEF AnalysisInv
<1> QED
  BY <1>1, AnalysisAlways, PTL

-----------------------------------------------------------------------------
(***************************************************************************)
(* The refinement of CallPromise: what its variables are here.             *)
(***************************************************************************)
Posts == Len(call.attempts) + IF call.phase \in {"resolving", "requesting"} THEN 1 ELSE 0

AnswerSeen == IF call.status \in {"none", "succeeded", "aborted"} THEN call.status ELSE "failed"

PromiseStep == [Promise!Next]_<<Posts, AnswerSeen, stopping>>

LEMMA UnseenStep ==
    ASSUME UNCHANGED <<call, stopping>>
    PROVE  PromiseStep
BY DEF PromiseStep, Posts, AnswerSeen

LEMMA LoopHeadPromised ==
    ASSUME CallInv, NEW allowed \in BOOLEAN, LoopHead(allowed, call), UNCHANGED stopping,
           call.phase \in {"idle", "backoff"}
    PROVE  PromiseStep
<1>1. call.status = "none" /\ call.phase # "answered" /\ Len(call.attempts) \in Nat
      /\ Len(call.attempts) < MaxAttempts
  BY CallAssumption DEF CallAssumption, CallInv, CallRecord, LoopTurns, NoCall
<1>2. Posts = Len(call.attempts) /\ AnswerSeen = "none"
  <2>1. call.phase \notin {"resolving", "requesting"}
    OBVIOUS
  <2>2. Posts = Len(call.attempts)
    BY <1>1, <2>1 DEF Posts
  <2> QED
    BY <1>1, <2>2 DEF AnswerSeen
<1>3. CASE stopping
  <2>1. call'.attempts = call.attempts /\ call'.phase = "answered" /\ call'.status = "aborted"
    BY <1>3 DEF LoopHead, CallInv, CallRecord
  <2>2. Posts' = Posts /\ AnswerSeen' = "aborted"
    BY <1>2, <2>1 DEF Posts, AnswerSeen
  <2> QED
    BY <1>2, <1>3, <2>2 DEF PromiseStep, Promise!Next, Promise!Answer, Posts, AnswerSeen
<1>4. CASE ~stopping
  <2>1. call'.attempts = call.attempts /\ call'.phase = "resolving" /\ call'.status = "none"
    BY <1>1, <1>4 DEF LoopHead, CallInv, CallRecord
  <2>2. Posts' = Posts + 1 /\ AnswerSeen' = "none"
    BY <1>1, <1>2, <2>1 DEF Posts, AnswerSeen
  <2> QED
    BY <1>1, <1>2, <1>4, <2>2 DEF PromiseStep, Promise!Next, Promise!Post, Posts, AnswerSeen
<1> QED
  BY <1>3, <1>4

LEMMA AttemptPromised ==
    ASSUME CallInv, call.phase \in {"resolving", "requesting"}, UNCHANGED stopping,
           NEW outcome \in AttemptOutcomes, NEW id \in RequestIds \cup {NoId},
           NEW delay \in 0..1, outcome = "aborted" => stopping,
           AfterAttempt(outcome, id, delay)
    PROVE  PromiseStep
<1>1. /\ call.attempts \in Seq(Attempt) /\ call.status = "none"
      /\ Len(call.attempts) \in Nat
      /\ [outcome |-> outcome, id |-> id, delay |-> delay] \in Attempt
  BY DEF CallInv, CallRecord, LoopTurns, Attempt
<1>2. Len(WithAttempt(outcome, id, delay)) = Len(call.attempts) + 1
  BY <1>1 DEF WithAttempt
<1>3. Posts = Len(call.attempts) + 1 /\ AnswerSeen = "none"
  BY <1>1 DEF Posts, AnswerSeen
<1>4. /\ call'.attempts = WithAttempt(outcome, id, delay)
      /\ \/ call'.phase = "backoff" /\ call'.status = "none"
         \/ call'.phase = "answered" /\ call'.status = StatusOf(outcome)
  BY <1>1 DEF AfterAttempt, Settled, CallInv, CallRecord
<1>5. Posts' = Posts
  BY <1>2, <1>3, <1>4 DEF Posts
<1>6. CASE call'.status = "none"
  BY <1>3, <1>5, <1>6 DEF PromiseStep, AnswerSeen
<1>7. CASE call'.status = StatusOf(outcome)
  <2>1. AnswerSeen' \in {"succeeded", "failed", "aborted"}
    BY <1>7 DEF AnswerSeen, StatusOf
  <2>2. AnswerSeen' = "aborted" => outcome = "aborted"
    BY <1>7 DEF AnswerSeen, StatusOf, Retryable, AttemptOutcomes, HttpOutcomes, TransportOutcomes
  <2>3. Posts > 0
    BY <1>1, <1>3
  <2> QED
    BY <1>3, <1>5, <2>1, <2>2, <2>3 DEF PromiseStep, Promise!Next, Promise!Answer, Posts, AnswerSeen
<1> QED
  BY <1>4, <1>6, <1>7

LEMMA CallStepPromised ==
    ASSUME CallInv, NEW allowed \in BOOLEAN, CallStep(allowed)
    PROVE  PromiseStep
<1>1. ASSUME NEW addresses \in SUBSET {"public", "blocked"}, AddressesResolved(addresses)
      PROVE  PromiseStep
  <2>1. CASE PublicOnly(addresses)
    <3>1. /\ call'.phase = "requesting" /\ call'.status = call.status
          /\ call'.attempts = call.attempts /\ call.phase = "resolving"
      BY <1>1, <2>1 DEF AddressesResolved, CallInv, CallRecord
    <3> QED
      BY <1>1, <3>1 DEF AddressesResolved, PromiseStep, Posts, AnswerSeen
  <2>2. CASE ~PublicOnly(addresses)
    <3>1. call.lastId \in RequestIds \cup {NoId}
      BY DEF CallInv, CallRecord
    <3> QED
      BY <1>1, <2>2, <3>1, AttemptPromised
         DEF AddressesResolved, ErrorDelay, AttemptOutcomes, TransportOutcomes
  <2> QED
    BY <2>1, <2>2
<1>2. ASSUME NEW outcome \in ErrorOutcomes \cup {"aborted"}, TransportFails(outcome)
      PROVE  PromiseStep
  <2>1. call.lastId \in RequestIds \cup {NoId} /\ outcome \in AttemptOutcomes
    BY CallAssumption DEF CallInv, CallRecord, ErrorOutcomes, CallAssumption, AttemptOutcomes, TransportOutcomes
  <2> QED
    BY <1>2, <2>1, AttemptPromised DEF TransportFails, ErrorDelay
<1>3. ASSUME NEW outcome \in Replies \cap HttpOutcomes, NEW id \in RequestIds \cup {NoId},
             ResponseArrives(outcome, id)
      PROVE  PromiseStep
  <2>1. PICK delay \in IF outcome = "http_transient" THEN RetryDelays ELSE {0} :
             AfterAttempt(outcome, id, delay)
    BY <1>3 DEF ResponseArrives
  <2>2. delay \in 0..1 /\ outcome # "aborted" /\ outcome \in AttemptOutcomes
    BY DEF RetryDelays, HttpOutcomes, AttemptOutcomes
  <2> QED
    BY <1>3, <2>1, <2>2, AttemptPromised DEF ResponseArrives
<1>4. CASE BackoffEnds(allowed)
  BY <1>4, LoopHeadPromised DEF BackoffEnds
<1> QED
  BY <1>1, <1>2, <1>3, <1>4 DEF CallStep

LEMMA StepPromised == AnalysisInv /\ [Next]_vars => PromiseStep
<1> SUFFICES ASSUME AnalysisInv, [Next]_vars
             PROVE  PromiseStep
  OBVIOUS
<1>1. CASE UNCHANGED <<call, stopping>>
  BY <1>1, UnseenStep
<1>2. CASE StartGeneration /\ ~UNCHANGED <<call, stopping>>
  <2>1. BeginCall(Options # Off)
    BY <1>2 DEF StartGeneration
  <2> QED
    BY <2>1, LoopHeadPromised DEF BeginCall, AnalysisInv, CallInv
<1>3. CASE ProviderStep
  BY <1>3, CallStepPromised DEF ProviderStep, AnalysisInv
<1>4. CASE FinishGeneration
  <2>1. call' = NoCall /\ UNCHANGED stopping
    BY <1>4 DEF FinishGeneration
  <2>2. Posts' = 0 /\ AnswerSeen' = "none"
    BY <2>1 DEF NoCall, Posts, AnswerSeen
  <2> QED
    BY <2>1, <2>2 DEF PromiseStep, Promise!Next, Promise!Take, Posts, AnswerSeen
<1>5. CASE Stop
  <2>1. UNCHANGED call /\ stopping' = TRUE
    BY <1>5 DEF Stop
  <2> QED
    BY <2>1 DEF PromiseStep, Promise!Next, Promise!Ask
<1>6. CASE Restart
  <2>1. call' = NoCall /\ stopping' = FALSE
    BY <1>6 DEF Restart
  <2>2. Posts' = 0 /\ AnswerSeen' = "none"
    BY <2>1 DEF NoCall, Posts, AnswerSeen
  <2> QED
    BY <2>1, <2>2 DEF PromiseStep, Promise!Next, Promise!Restart, Posts, AnswerSeen
<1> QED
  BY <1>1, <1>2, <1>3, <1>4, <1>5, <1>6
     DEF Next, PumpStep, ClientStep, NextStage, Classify, ExtractVerification, BuildGraph,
         PrepareSemantic, Validate, OnlyEvidence, DeleteRun, ApplyRetention, Seal, LateEvidence, vars

(***************************************************************************)
(* A provider call keeps its promise, for any retry policy, provider and   *)
(* number of stops: it posts no more often than it may, not once it was    *)
(* asked to stop, and answers once.                                        *)
(***************************************************************************)
THEOREM CallsKeepTheirPromise == Spec => KeepsCallPromise
<1>1. Init => Promise!Init
  BY DEF Init, CallInit, NoCall, Promise!Init
<1>2. AnalysisInv /\ [Next]_vars => [Promise!Next]_(Promise!promiseVars)
  BY StepPromised DEF PromiseStep, Posts, AnswerSeen, Promise!promiseVars
<1> QED
  BY <1>1, <1>2, AnalysisAlways, PTL DEF Spec, KeepsCallPromise, Promise!Spec


-----------------------------------------------------------------------------
(***************************************************************************)
(* The tables and the listings.                                            *)
(***************************************************************************)
LEMMA NaturalOrder == IsWellFoundedOn({ss \in Nat \X Nat : ss[1] < ss[2]}, Nat)
BY NatLessThanWellFounded DEF OpToRel

LEMMA SmallestOf ==
    ASSUME NEW S \in SUBSET Nat, S # {}
    PROVE  \E n \in S : \A m \in S : n <= m
<1>1. PICK x \in S : \A y \in S : ~ (<<y, x>> \in {ss \in Nat \X Nat : ss[1] < ss[2]})
  BY NaturalOrder, WFMin
<1>2. ASSUME NEW y \in S, y < x
      PROVE  FALSE
  <2>1. <<y, x>>[1] < <<y, x>>[2] /\ <<y, x>> \in Nat \X Nat
    BY <1>2
  <2> QED
    BY <1>1, <2>1
<1> QED
  BY <1>2

LEMMA LargestOf ==
    ASSUME NEW S \in SUBSET Nat, S # {}, NEW n \in Nat, \A m \in S : m <= n
    PROVE  Max(S) \in S /\ \A m \in S : m <= Max(S)
<1> DEFINE Bounds == {b \in Nat : \A m \in S : m <= b}
<1>1. Bounds # {} /\ Bounds \in SUBSET Nat
  OBVIOUS
<1>2. PICK b \in Bounds : \A c \in Bounds : b <= c
  <2> HIDE DEF Bounds
  <2> QED BY <1>1, SmallestOf
<1>3. b \in S
  <2> SUFFICES ASSUME b \notin S PROVE FALSE
    OBVIOUS
  <2>1. b - 1 \in Bounds
    <3>1. \A m \in S : m < b
      OBVIOUS
    <3>2. b - 1 \in Nat
      <4>1. PICK m \in S : TRUE
        OBVIOUS
      <4>2. m \in Nat /\ b \in Nat /\ m < b
        BY <3>1, <4>1
      <4> QED BY <4>2
    <3> QED BY <3>1, <3>2
  <2> QED BY <1>2, <2>1
<1>4. \E x \in S : \A y \in S : x >= y
  BY <1>3
<1> QED
  BY <1>4 DEF Max

(***************************************************************************)
(* Every rank below the size of a set of numbers is that of one of them.   *)
(***************************************************************************)
Rank(S, x) == Cardinality({y \in S : y < x})

LEMMA RanksAreNumbers ==
    ASSUME NEW S \in SUBSET Nat, IsFiniteSet(S), NEW x \in Nat
    PROVE  Rank(S, x) \in Nat /\ IsFiniteSet({y \in S : y < x})
BY FS_Subset, FS_CardinalityType DEF Rank

LEMMA NextRank ==
    ASSUME NEW S \in SUBSET Nat, IsFiniteSet(S), NEW x \in S, NEW m \in S,
           x < m, \A y \in S : x < y => m <= y
    PROVE  Rank(S, m) = Rank(S, x) + 1
<1>1. {y \in S : y < m} = {y \in S : y < x} \cup {x} /\ x \notin {y \in S : y < x}
  <2>1. ASSUME NEW y \in S
        PROVE  y < m <=> y < x \/ y = x
    <3>1. y \in Nat /\ x \in Nat /\ m \in Nat /\ (x < y => m <= y)
      OBVIOUS
    <3> QED BY <3>1
  <2>2. ~(x < x)
    OBVIOUS
  <2> QED BY <2>1, <2>2
<1>2. IsFiniteSet({y \in S : y < x})
  BY RanksAreNumbers
<1> QED
  BY <1>1, <1>2, FS_AddElement DEF Rank

LEMMA RanksAreTaken ==
    ASSUME NEW S \in SUBSET Nat, IsFiniteSet(S), NEW k \in Nat, k < Cardinality(S)
    PROVE  \E x \in S : Rank(S, x) = k
<1> DEFINE Free == {i \in Nat : i < Cardinality(S) /\ \A x \in S : Rank(S, x) # i}
<1> SUFFICES ASSUME Free # {} PROVE FALSE
  OBVIOUS
<1>1. Cardinality(S) \in Nat /\ S # {}
  BY FS_CardinalityType, FS_EmptySet
<1>2. PICK i \in Free : \A j \in Free : i <= j
  <2>1. Free \in SUBSET Nat
    OBVIOUS
  <2> HIDE DEF Free
  <2> QED BY <2>1, SmallestOf
<1>3. CASE i = 0
  <2>1. PICK x \in S : \A y \in S : x <= y
    BY <1>1, SmallestOf
  <2>2. {y \in S : y < x} = {}
    <3>1. ASSUME NEW y \in S, y < x PROVE FALSE
      <4>1. y \in Nat /\ x \in Nat /\ x <= y
        BY <2>1
      <4> QED BY <3>1, <4>1
    <3> QED BY <3>1
  <2>3. Rank(S, x) = 0
    BY <2>2, FS_EmptySet DEF Rank
  <2> QED BY <1>3, <2>3
<1>4. CASE i # 0
  <2>1. i - 1 \in Nat /\ i - 1 \notin Free /\ i - 1 < Cardinality(S)
    BY <1>1, <1>2, <1>4
  <2>2. PICK x \in S : Rank(S, x) = i - 1
    BY <2>1
  <2> DEFINE Later == {y \in S : x < y}
  <2>3. Later # {}
    <3> SUFFICES ASSUME Later = {} PROVE FALSE
      OBVIOUS
    <3>1. S = {y \in S : y < x} \cup {x} /\ x \notin {y \in S : y < x}
      <4>1. ASSUME NEW y \in S
            PROVE  y < x \/ y = x
        <5>1. y \in Nat /\ x \in Nat /\ ~(x < y)
          OBVIOUS
        <5> QED BY <5>1
      <4>2. ~(x < x)
        OBVIOUS
      <4> QED BY <4>1, <4>2
    <3>2. Cardinality(S) = Rank(S, x) + 1
      BY <3>1, RanksAreNumbers, FS_AddElement DEF Rank
    <3> QED BY <1>1, <2>2, <3>2
  <2>4. PICK m \in Later : \A y \in Later : m <= y
    <3>1. Later \in SUBSET Nat
      OBVIOUS
    <3> HIDE DEF Later
    <3> QED BY <2>3, <3>1, SmallestOf
  <2>5. Rank(S, m) = i
    <3>1. m \in S /\ x < m /\ \A y \in S : x < y => m <= y
      BY <2>4
    <3>2. Rank(S, m) = Rank(S, x) + 1
      BY <3>1, NextRank
    <3> QED BY <2>2, <3>2
  <2> QED BY <2>4, <2>5
<1> QED BY <1>3, <1>4

(***************************************************************************)
(* What Oldest lists: members of the set, in their order, and no member    *)
(* is left out before one that is listed.                                  *)
(***************************************************************************)
Increasing(todo) == \A i, j \in DOMAIN todo : i < j => todo[i] < todo[j]

LEMMA OldestLists ==
    ASSUME NEW S \in SUBSET Nat, NEW n \in Nat, \A m \in S : m <= n, NEW limit \in Nat
    PROVE  /\ Oldest(S, limit) \in Seq(S) /\ Oldest(S, limit) \in Seq(Nat)
           /\ Increasing(Oldest(S, limit))
<1>1. IsFiniteSet(S) /\ Cardinality(S) \in Nat
  BY FS_BoundedSetOfNaturals, FS_CardinalityType
<1> DEFINE size == IF Cardinality(S) < limit THEN Cardinality(S) ELSE limit
           list == [i \in 1 .. size |-> CHOOSE x \in S : Rank(S, x) = i - 1]
<1>2. Oldest(S, limit) = list /\ size \in Nat /\ size <= Cardinality(S)
  BY <1>1 DEF Oldest, Rank
<1>3. ASSUME NEW i \in 1 .. size
      PROVE  list[i] \in S /\ Rank(S, list[i]) = i - 1
  <2>1. i - 1 \in Nat /\ i - 1 < Cardinality(S)
    BY <1>1, <1>2
  <2>2. \E x \in S : Rank(S, x) = i - 1
    BY <1>1, <2>1, RanksAreTaken
  <2> QED BY <2>2
<1> HIDE DEF size
<1>4. DOMAIN list = 1 .. size
  OBVIOUS
<1> HIDE DEF list
<1>5. list \in [1 .. size -> S] /\ list \in [1 .. size -> Nat]
  <2>1. list = [i \in 1 .. size |-> list[i]]
    BY DEF list
  <2> QED BY <1>3, <2>1
<1>6. ASSUME NEW i \in 1 .. size, NEW j \in 1 .. size, i < j
      PROVE  list[i] < list[j]
  <2>1. list[i] \in Nat /\ list[j] \in Nat
    BY <1>3
  <2> SUFFICES ASSUME list[j] <= list[i] PROVE FALSE
    BY <2>1
  <2>2. {y \in S : y < list[j]} \in SUBSET {y \in S : y < list[i]}
    <3>1. ASSUME NEW y \in S, y < list[j] PROVE y < list[i]
      <4>1. y \in Nat
        OBVIOUS
      <4> QED BY <2>1, <3>1, <4>1
    <3> QED BY <3>1
  <2>3. Rank(S, list[j]) <= Rank(S, list[i])
    BY <1>1, <2>1, <2>2, RanksAreNumbers, FS_Subset DEF Rank
  <2> QED BY <1>2, <1>3, <1>6, <2>3
<1>7. list \in Seq(S) /\ list \in Seq(Nat)
  BY <1>2, <1>5
<1> QED
  BY <1>2, <1>4, <1>6, <1>7 DEF Increasing

(***************************************************************************)
(* The tables: links name runs and roles, the number of a generation is    *)
(* its own, only an answer is validated, and there is one per key.         *)
(***************************************************************************)
NumbersAreOwn == \A g, h \in generations : g.number = h.number => g = h

OneSuccessPerKey ==
    \A g, h \in generations :
        /\ g.status = "succeeded" /\ h.status = "succeeded"
        /\ GenerationKey(g.run, g.provider) = GenerationKey(h.run, h.provider)
        => g = h

TablesInv ==
    /\ gone \subseteq 1..sealed /\ linked \subseteq Runs \X Roles /\ stops \in 0..MaxStops
    /\ \A g \in generations : /\ g.number \in Nat /\ g.validated \in BOOLEAN
                              /\ g.validated => g.status = "succeeded"
    /\ \E n \in Nat : \A g \in generations : g.number <= n
    /\ NumbersAreOwn /\ OneSuccessPerKey

(***************************************************************************)
(* The work of a stage goes by age, and what is listed for validation has  *)
(* not been validated.                                                     *)
(***************************************************************************)
WorkGoesByAge ==
    /\ Increasing(worker.todo)
    /\ Stage = "candidate_validation" =>
           \A i \in DOMAIN worker.todo : \A g \in generations :
               g.number = worker.todo[i] => g.status = "succeeded" /\ ~g.validated

WorkInv == worker.todo \in Seq(Nat) /\ WorkGoesByAge

(***************************************************************************)
(* The run a call is made for is still the head of the list.               *)
(***************************************************************************)
CallsHaveWork == Busy => worker.todo # <<>>

(***************************************************************************)
(* While a call is under way, or its answer waits to be recorded, nothing  *)
(* else has answered its key.                                              *)
(***************************************************************************)
KeyStaysFree == Busy => SucceededFor(Current, worker.opts.provider) = {}

TableRest == AnalysisInv /\ TablesInv /\ WorkInv /\ CallsHaveWork /\ KeyStaysFree

LEMMA TablesStart == Init => TablesInv /\ WorkInv
<1> SUFFICES ASSUME Init PROVE TablesInv /\ WorkInv
  OBVIOUS
<1>1. /\ sealed = 0 /\ gone = {} /\ linked = {} /\ stops = 0 /\ generations = {}
      /\ worker.todo = <<>>
  BY DEF Init, Resting
<1>2. 0 \in 0..MaxStops
  BY AnalysisAssumption DEF AnalysisAssumption
<1>3. TablesInv
  BY <1>1, <1>2 DEF TablesInv, NumbersAreOwn, OneSuccessPerKey
<1>4. <<>> \in Seq(Nat) /\ DOMAIN <<>> = {}
  OBVIOUS
<1> QED
  BY <1>1, <1>3, <1>4 DEF WorkInv, WorkGoesByAge, Increasing

LEMMA TailsOfWork ==
    ASSUME NEW todo \in Seq(Nat), Increasing(todo), todo # <<>>
    PROVE  /\ Tail(todo) \in Seq(Nat) /\ Increasing(Tail(todo))
           /\ \A i \in DOMAIN Tail(todo) : /\ \E j \in DOMAIN todo : Tail(todo)[i] = todo[j]
                                           /\ Head(todo) < Tail(todo)[i]
<1>1. /\ Tail(todo) \in Seq(Nat) /\ Len(Tail(todo)) = Len(todo) - 1 /\ Len(todo) \in Nat
      /\ \A i \in 1 .. Len(Tail(todo)) : Tail(todo)[i] = todo[i + 1]
      /\ Head(todo) = todo[1] /\ Len(todo) # 0
      /\ DOMAIN Tail(todo) = 1 .. Len(Tail(todo)) /\ DOMAIN todo = 1 .. Len(todo)
  OBVIOUS
<1>2. ASSUME NEW i \in DOMAIN Tail(todo)
      PROVE  i + 1 \in DOMAIN todo /\ 1 \in DOMAIN todo /\ 1 < i + 1 /\ i \in Nat
  BY <1>1
<1>3. ASSUME NEW i \in DOMAIN Tail(todo), NEW j \in DOMAIN Tail(todo), i < j
      PROVE  Tail(todo)[i] < Tail(todo)[j]
  <2>1. i + 1 < j + 1
    BY <1>2, <1>3
  <2> QED BY <1>1, <1>2, <2>1 DEF Increasing
<1> QED
  BY <1>1, <1>2, <1>3 DEF Increasing

(***************************************************************************)
(* Steps that leave the generations, or all tables, alone.                 *)
(***************************************************************************)
LEMMA TablesUntouched ==
    ASSUME TablesInv, UNCHANGED <<evidence, stops>>
    PROVE  TablesInv'
BY DEF TablesInv, NumbersAreOwn, OneSuccessPerKey, GenerationKey, evidence

LEMMA WorkUntouched ==
    ASSUME WorkInv, UNCHANGED worker, generations' \subseteq generations
    PROVE  WorkInv'
BY DEF WorkInv, WorkGoesByAge, Increasing, Stage

LEMMA WorkMovesOn ==
    ASSUME TableRest, Done \/ StageFails, worker.todo # <<>>,
           Stage = "candidate_validation" =>
               \A i \in DOMAIN worker'.todo : \A g \in generations' :
                   g.number = worker'.todo[i] => g \in generations
    PROVE  WorkInv'
<1>1. Stage' = Stage
  BY WorkerMovesOn DEF TableRest
<1>2. CASE StageFails
  <2>1. worker'.todo = <<>>
    BY <1>2 DEF StageFails, TableRest, AnalysisInv, PumpInv
  <2>2. <<>> \in Seq(Nat) /\ DOMAIN <<>> = {}
    OBVIOUS
  <2> QED BY <2>1, <2>2 DEF WorkInv, WorkGoesByAge, Increasing
<1>3. CASE Done
  <2>1. worker'.todo = Tail(worker.todo)
    BY <1>3 DEF Done, TableRest, AnalysisInv, PumpInv
  <2>2. /\ worker'.todo \in Seq(Nat) /\ Increasing(worker'.todo)
        /\ \A i \in DOMAIN worker'.todo : \E j \in DOMAIN worker.todo :
               worker'.todo[i] = worker.todo[j]
    <3>1. worker.todo \in Seq(Nat) /\ Increasing(worker.todo) /\ worker.todo # <<>>
      BY DEF TableRest, WorkInv, WorkGoesByAge
    <3>2. /\ Tail(worker.todo) \in Seq(Nat) /\ Increasing(Tail(worker.todo))
          /\ \A i \in DOMAIN Tail(worker.todo) : \E j \in DOMAIN worker.todo :
                 Tail(worker.todo)[i] = worker.todo[j]
      BY <3>1, TailsOfWork
    <3> QED BY <2>1, <3>2
  <2>3. ASSUME Stage = "candidate_validation", NEW i \in DOMAIN worker'.todo,
               NEW g \in generations', g.number = worker'.todo[i]
        PROVE  g.status = "succeeded" /\ ~g.validated
    BY <2>2, <2>3 DEF TableRest, WorkInv, WorkGoesByAge
  <2> QED BY <1>1, <2>2, <2>3 DEF WorkInv, WorkGoesByAge, Increasing
<1> QED BY <1>2, <1>3

LEMMA DerivedTables ==
    ASSUME TableRest, Classify \/ ExtractVerification \/ BuildGraph \/ PrepareSemantic
    PROVE  TablesInv' /\ WorkInv'
<1>1. /\ UNCHANGED <<stops, generations>> /\ worker.todo # <<>> /\ (Done \/ StageFails)
  BY DEF Classify, ExtractVerification, BuildGraph, PrepareSemantic, Skip, Throw, Derive, OnlyEvidence,
         Working, evidence
<1>2. WorkInv'
  BY <1>1, WorkMovesOn
<1>3. UNCHANGED evidence \/ \E roles \in SUBSET Roles : Current \in Live /\ Derive(roles)
  BY DEF Classify, ExtractVerification, BuildGraph, PrepareSemantic, Skip, Throw, Roles
<1>4. ASSUME NEW roles \in SUBSET Roles, Current \in Live, Derive(roles)
      PROVE  TablesInv'
  <2>1. Current \in Runs
    BY <1>4, LiveIsRun DEF TableRest, AnalysisInv
  <2>2. linked' \subseteq Runs \X Roles /\ UNCHANGED <<gone, sealed>>
    BY <1>4, <2>1 DEF Derive, LinkRoles, TableRest, TablesInv
  <2> QED
    BY <1>1, <2>2 DEF TableRest, TablesInv, NumbersAreOwn, OneSuccessPerKey, GenerationKey
<1> QED
  BY <1>1, <1>2, <1>3, <1>4, TablesUntouched DEF TableRest

LEMMA LiveIsNumber ==
    ASSUME RunTables
    PROVE  Live \in SUBSET Nat /\ MaxRuns \in Nat /\ \A q \in Live : q <= MaxRuns
<1>1. MaxRuns \in Nat
  BY AnalysisAssumption DEF AnalysisAssumption
<1>2. \A q \in Live : q \in 1 .. MaxRuns
  BY LiveIsRun DEF Runs
<1> QED BY <1>1, <1>2

LEMMA NextTables ==
    ASSUME TableRest, NextStage
    PROVE  TablesInv' /\ WorkInv'
<1>1. UNCHANGED <<evidence, stops>> /\ UNCHANGED generations /\ EnterNext
  BY DEF NextStage, evidence
<1>2. TablesInv'
  BY <1>1, TablesUntouched DEF TableRest
<1>3. PICK next \in 1..7 : worker' = [stage |-> next, todo |-> Work(StageOrder[next]),
                                      opts |-> Snapshot(StageOrder[next])]
  BY <1>1 DEF EnterNext, TableRest, AnalysisInv, PumpInv, StageOrder
<1> DEFINE stage == StageOrder[next]
<1>4. worker'.todo = Work(stage) /\ Stage' = stage
  BY <1>3 DEF Stage
<1>5. /\ Listing \in Nat /\ GenerationBatch \in Nat
  BY AnalysisAssumption DEF AnalysisAssumption
<1>6. <<>> \in Seq(Nat) /\ Increasing(<<>>) /\ DOMAIN <<>> = {}
  BY DEF Increasing
<1>7. ASSUME NEW S \in SUBSET Live, NEW limit \in Nat
      PROVE  Oldest(S, limit) \in Seq(Nat) /\ Increasing(Oldest(S, limit))
  <2>1. /\ S \in SUBSET Nat /\ MaxRuns \in Nat /\ \A q \in S : q <= MaxRuns
    BY LiveIsNumber DEF TableRest, AnalysisInv
  <2> QED BY <2>1, OldestLists
<1> DEFINE open == {h \in generations : h.status = "succeeded" /\ ~h.validated}
           numbers == {g.number : g \in open}
<1>8. /\ Unvalidated = Oldest(numbers, Listing)
      /\ Unvalidated \in Seq(numbers) /\ Unvalidated \in Seq(Nat) /\ Increasing(Unvalidated)
  <2>1. Unvalidated = Oldest(numbers, Listing)
    BY DEF Unvalidated
  <2>2. PICK n \in Nat : \A g \in generations : g.number <= n
    BY DEF TableRest, TablesInv
  <2>3. numbers \in SUBSET Nat /\ \A m \in numbers : m <= n
    BY <2>2 DEF TableRest, TablesInv
  <2> HIDE DEF numbers
  <2> QED BY <1>5, <2>1, <2>3, OldestLists
<1> HIDE DEF stage, numbers
<1>9. CASE stage = "candidate_validation"
  <2>1. Work(stage) = Unvalidated
    BY <1>9 DEF Work
  <2>2. ASSUME NEW i \in DOMAIN Unvalidated, NEW g \in generations, g.number = Unvalidated[i]
        PROVE  g.status = "succeeded" /\ ~g.validated
    <3>1. Unvalidated[i] \in numbers
      BY <1>8
    <3>2. PICK h \in open : h.number = Unvalidated[i]
      BY <3>1 DEF numbers
    <3>3. g = h
      BY <2>2, <3>2 DEF TableRest, TablesInv, NumbersAreOwn
    <3> QED BY <3>2, <3>3
  <2>3. worker'.todo = Unvalidated
    BY <1>4, <2>1
  <2>4. Increasing(worker.todo)'
    BY <1>8, <2>3 DEF Increasing
  <2>5. \A i \in DOMAIN worker'.todo : \A g \in generations' :
            g.number = worker'.todo[i] => g.status = "succeeded" /\ ~g.validated
    BY <1>1, <2>2, <2>3
  <2>6. worker'.todo \in Seq(Nat)
    BY <1>8, <2>3
  <2> QED
    BY <1>2, <2>4, <2>5, <2>6 DEF WorkInv, WorkGoesByAge, Increasing
<1>10. CASE stage # "candidate_validation"
  <2>1. \A role : /\ RunsWithout(role) \in Seq(Nat) /\ Increasing(RunsWithout(role))
    <3> TAKE role
    <3>1. {q \in Live : ~Has(q, role)} \in SUBSET Live
      OBVIOUS
    <3> QED BY <1>5, <1>7, <3>1 DEF RunsWithout
  <2>2. SemanticInputRuns \in Seq(Nat) /\ Increasing(SemanticInputRuns)
    <3>1. {q \in Live : Has(q, "semantic")} \in SUBSET Live
      OBVIOUS
    <3> QED BY <1>5, <1>7, <3>1 DEF SemanticInputRuns
  <2>3. Work(stage) \in Seq(Nat) /\ Increasing(Work(stage))
    <3>1. \/ Work(stage) = <<>> \/ Work(stage) = SemanticInputRuns
          \/ \E role : Work(stage) = RunsWithout(role)
      BY <1>10 DEF Work
    <3> QED BY <1>6, <2>1, <2>2, <3>1
  <2>4. Increasing(worker.todo)'
    BY <1>4, <2>3 DEF Increasing
  <2>5. worker'.todo \in Seq(Nat) /\ Stage' # "candidate_validation"
    BY <1>4, <1>10, <2>3
  <2> QED
    BY <1>2, <2>4, <2>5 DEF WorkInv, WorkGoesByAge, Increasing
<1> QED BY <1>2, <1>9, <1>10

LEMMA GenerationTables ==
    ASSUME TableRest, StartGeneration \/ ProviderStep
    PROVE  TablesInv' /\ WorkInv'
<1>1. UNCHANGED <<evidence, stops>> /\ UNCHANGED generations
  BY DEF StartGeneration, ProviderStep, Skip, Throw, evidence
<1>2. UNCHANGED worker \/ ((Done \/ StageFails) /\ worker.todo # <<>>)
  BY DEF StartGeneration, ProviderStep, Skip, Throw, Working
<1>3. TablesInv'
  BY <1>1, TablesUntouched DEF TableRest
<1> QED
  BY <1>1, <1>2, <1>3, WorkUntouched, WorkMovesOn DEF TableRest

(***************************************************************************)
(* A new generation takes a number above all others, and is an answer only *)
(* if its key has none.                                                    *)
(***************************************************************************)
LEMMA FinishTables ==
    ASSUME TableRest, FinishGeneration
    PROVE  TablesInv' /\ WorkInv'
<1>1. /\ UNCHANGED <<gone, sealed, linked, stops>>
      /\ Done \/ StageFails
      /\ Stage = "candidate_generation" /\ worker.todo # <<>>
  BY DEF FinishGeneration, AfterGeneration, TableRest, AnalysisInv, CallsHaveOptions, CallsHaveWork,
         Busy
<1>2. WorkInv'
  BY <1>1, WorkMovesOn
<1>3. CASE UNCHANGED generations
  BY <1>1, <1>2, <1>3 DEF TableRest, TablesInv, NumbersAreOwn, OneSuccessPerKey
<1>4. CASE InsertAllowed(Current) /\ InsertGeneration(Current)
  <2> DEFINE numbers == {0} \cup {g.number : g \in generations}
             row == [number |-> 1 + Max(numbers), run |-> Current,
                     provider |-> worker.opts.provider, status |-> call.status,
                     validated |-> FALSE]
  <2>1. generations' = generations \cup {row}
    BY <1>4 DEF InsertGeneration
  <2>2. PICK n \in Nat : \A g \in generations : g.number <= n
    BY DEF TableRest, TablesInv
  <2>3. /\ numbers \in SUBSET Nat /\ numbers # {} /\ \A m \in numbers : m <= n
    BY <2>2 DEF TableRest, TablesInv
  <2>4. Max(numbers) \in Nat /\ \A m \in numbers : m <= Max(numbers)
    <3> HIDE DEF numbers
    <3> QED BY <2>3, LargestOf
  <2>5. /\ row.number \in Nat /\ \A g \in generations : g.number < row.number
        /\ row.run = Current /\ row.provider = worker.opts.provider
        /\ row.status = call.status /\ row.validated = FALSE
    <3>1. \A g \in generations : g.number \in numbers
      OBVIOUS
    <3> HIDE DEF numbers
    <3>2. row.number = Max(numbers) + 1
      BY <2>4
    <3> HIDE DEF row
    <3>3. \A g \in generations : g.number \in Nat
      BY DEF TableRest, TablesInv
    <3>4. row.number \in Nat /\ \A g \in generations : g.number < row.number
      BY <2>4, <3>1, <3>2, <3>3
    <3> QED BY <3>4 DEF row
  <2> HIDE DEF row
  <2>6. ASSUME NEW g \in generations'
        PROVE  /\ g.number \in Nat /\ g.validated \in BOOLEAN
               /\ g.validated => g.status = "succeeded"
               /\ g.number <= row.number
    <3>1. CASE g \in generations
      <4>1. g.number < row.number /\ g.number \in Nat /\ row.number \in Nat
        BY <2>5, <3>1 DEF TableRest, TablesInv
      <4>2. g.validated \in BOOLEAN /\ (g.validated => g.status = "succeeded")
        BY <3>1 DEF TableRest, TablesInv
      <4> QED BY <4>1, <4>2
    <3>2. CASE g = row
      <4>1. g.number = row.number /\ row.number \in Nat /\ g.validated = FALSE
        BY <2>5, <3>2
      <4>2. g.number <= row.number
        BY <4>1
      <4> QED BY <4>1, <4>2
    <3> QED BY <2>1, <3>1, <3>2
  <2>7. NumbersAreOwn'
    <3> SUFFICES ASSUME NEW g \in generations', NEW h \in generations', g.number = h.number
                 PROVE  g = h
      BY DEF NumbersAreOwn
    <3>1. \A f \in generations : f.number # row.number
      BY <2>5 DEF TableRest, TablesInv
    <3> QED BY <2>1, <3>1 DEF TableRest, TablesInv, NumbersAreOwn
  <2>8. OneSuccessPerKey'
    <3>1. row.status = "succeeded" =>
              \A g \in generations :
                  g.status = "succeeded" =>
                      GenerationKey(g.run, g.provider) # GenerationKey(row.run, row.provider)
      BY <1>4, <2>5 DEF InsertAllowed, SucceededFor
    <3> QED BY <2>1, <3>1 DEF TableRest, TablesInv, OneSuccessPerKey, GenerationKey
  <2> QED
    BY <1>1, <1>2, <2>5, <2>6, <2>7, <2>8 DEF TableRest, TablesInv
<1> QED
  BY <1>3, <1>4 DEF FinishGeneration

LEMMA ValidateTables ==
    ASSUME TableRest, Validate
    PROVE  TablesInv' /\ WorkInv'
<1>1. /\ UNCHANGED stops /\ worker.todo # <<>> /\ (Done \/ StageFails)
      /\ Stage = "candidate_validation"
  BY DEF Validate, Skip, Throw, OnlyEvidence, Working
<1>2. CASE UNCHANGED evidence
  <2>1. UNCHANGED generations
    BY <1>2 DEF evidence
  <2> QED
    BY <1>1, <1>2, <2>1, TablesUntouched, WorkMovesOn DEF TableRest
<1>3. CASE ~UNCHANGED evidence
  <2> DEFINE found == {g \in generations : g.number = Current}
  <2>1. /\ generations' = {IF g \in found THEN [g EXCEPT !.validated = TRUE] ELSE g :
                           g \in generations}
        /\ UNCHANGED <<kind, sealed, gone, late, linked, graphAt>> /\ Done
        /\ \A g \in found : ValidationSource(g)
    BY <1>3 DEF Validate, Skip, Throw
  <2>2. ASSUME NEW h \in generations'
        PROVE  \E g \in generations :
                 /\ h.number = g.number /\ h.run = g.run /\ h.provider = g.provider
                 /\ h.status = g.status
                 /\ h = IF g \in found THEN [g EXCEPT !.validated = TRUE] ELSE g
                 /\ g \in found => h.validated = TRUE /\ g.status = "succeeded"
    <3>1. PICK g \in generations : h = IF g \in found THEN [g EXCEPT !.validated = TRUE] ELSE g
      BY <2>1
    <3>2. g = [number |-> g.number, run |-> g.run, provider |-> g.provider,
               status |-> g.status, validated |-> g.validated]
      BY DEF TableRest, AnalysisInv, GenerationsAreRows
    <3>3. g \in found => g.status = "succeeded"
      BY <2>1 DEF ValidationSource
    <3> HIDE DEF found
    <3> QED BY <3>1, <3>2, <3>3
  <2>3. ASSUME NEW h \in generations'
        PROVE  /\ h.number \in Nat /\ h.validated \in BOOLEAN
               /\ h.validated => h.status = "succeeded"
    <3> HIDE DEF found
    <3>1. PICK g \in generations :
              /\ h.number = g.number /\ h.status = g.status
              /\ h = IF g \in found THEN [g EXCEPT !.validated = TRUE] ELSE g
              /\ g \in found => h.validated = TRUE /\ g.status = "succeeded"
      BY <2>2
    <3>2. /\ g.number \in Nat /\ g.validated \in BOOLEAN
          /\ g.validated => g.status = "succeeded"
      BY DEF TableRest, TablesInv
    <3>3. CASE g \in found
      BY <3>1, <3>2, <3>3
    <3>4. CASE g \notin found
      BY <3>1, <3>2, <3>4
    <3> QED BY <3>3, <3>4
  <2>4. ASSUME NEW h \in generations', NEW k \in generations'
        PROVE  /\ h.number = k.number => h = k
               /\ (/\ h.status = "succeeded" /\ k.status = "succeeded"
                   /\ GenerationKey(h.run, h.provider) = GenerationKey(k.run, k.provider))
                      => h = k
    <3> DEFINE became(g) == IF g \in found THEN [g EXCEPT !.validated = TRUE] ELSE g
    <3>1. PICK g \in generations : /\ h.number = g.number /\ h.run = g.run /\ h.status = g.status
                                   /\ h.provider = g.provider /\ h = became(g)
      BY <2>2
    <3>2. PICK f \in generations : /\ k.number = f.number /\ k.run = f.run /\ k.status = f.status
                                   /\ k.provider = f.provider /\ k = became(f)
      BY <2>2
    <3> HIDE DEF became
    <3>3. h.number = k.number => g = f
      BY <3>1, <3>2 DEF TableRest, TablesInv, NumbersAreOwn
    <3>4. (/\ h.status = "succeeded" /\ k.status = "succeeded"
           /\ GenerationKey(h.run, h.provider) = GenerationKey(k.run, k.provider)) => g = f
      BY <3>1, <3>2 DEF TableRest, TablesInv, OneSuccessPerKey, GenerationKey
    <3> QED BY <3>1, <3>2, <3>3, <3>4
  <2>5. PICK n \in Nat : \A g \in generations : g.number <= n
    BY DEF TableRest, TablesInv
  <2>6. \A g \in generations' : g.number <= n
    <3> HIDE DEF found
    <3> QED BY <2>2, <2>5
  <2>7. TablesInv'
    <3>1. NumbersAreOwn' /\ OneSuccessPerKey'
      BY <2>4 DEF NumbersAreOwn, OneSuccessPerKey
    <3> QED
      BY <1>1, <2>1, <2>3, <2>5, <2>6, <3>1 DEF TableRest, TablesInv
  <2>8. WorkInv'
    <3>1. worker.todo \in Seq(Nat) /\ Increasing(worker.todo)
      BY DEF TableRest, WorkInv, WorkGoesByAge
    <3>2. \A i \in DOMAIN Tail(worker.todo) :
              Tail(worker.todo)[i] \in Nat /\ Head(worker.todo) < Tail(worker.todo)[i]
                /\ Head(worker.todo) \in Nat
      <4>1. \A i \in DOMAIN Tail(worker.todo) :
                \E j \in DOMAIN worker.todo : Tail(worker.todo)[i] = worker.todo[j]
                                              /\ Head(worker.todo) < Tail(worker.todo)[i]
        BY <1>1, <3>1, TailsOfWork
      <4>2. \A j \in DOMAIN worker.todo : worker.todo[j] \in Nat
        BY <3>1
      <4>3. Head(worker.todo) \in Nat
        BY <1>1, <3>1
      <4> QED BY <4>1, <4>2, <4>3
    <3>3. worker'.todo = Tail(worker.todo)
      BY <2>1 DEF Done, TableRest, AnalysisInv, PumpInv
    <3>4. ASSUME NEW i \in DOMAIN worker'.todo, NEW h \in generations', h.number = worker'.todo[i]
          PROVE  h \in generations
      <4>1. h.number # Current
        BY <3>2, <3>3, <3>4 DEF Current
      <4>2. PICK g \in generations :
                h.number = g.number /\ h = IF g \in found THEN [g EXCEPT !.validated = TRUE] ELSE g
        <5> HIDE DEF found
        <5> QED BY <2>2
      <4> QED BY <4>1, <4>2
    <3> QED BY <1>1, <3>4, WorkMovesOn
  <2> QED BY <2>7, <2>8
<1> QED BY <1>2, <1>3

-----------------------------------------------------------------------------
(***************************************************************************)
(* Clients, sources and restarts leave the work of a stage as it is, or    *)
(* end it.                                                                 *)
(***************************************************************************)
LEMMA ClientTables ==
    ASSUME TableRest, ClientStep
    PROVE  TablesInv' /\ WorkInv'
<1>1. CASE UNCHANGED <<evidence, worker, stops>>
  <2>1. generations' \subseteq generations /\ UNCHANGED worker
    BY <1>1 DEF evidence
  <2> QED BY <1>1, <2>1, TablesUntouched, WorkUntouched DEF TableRest
<1>2. ASSUME NEW runs \in SUBSET Live, gone' = gone \cup runs, Cascade(runs),
             UNCHANGED <<sealed, worker, stops>>
      PROVE  TablesInv' /\ WorkInv'
  <2>1. generations' \subseteq generations /\ linked' \subseteq linked
    BY <1>2 DEF Cascade
  <2>2. gone' \subseteq 1..sealed'
    BY <1>2 DEF TableRest, TablesInv, Live
  <2>3. TablesInv'
    BY <1>2, <2>1, <2>2 DEF TableRest, TablesInv, NumbersAreOwn, OneSuccessPerKey, GenerationKey
  <2> QED BY <1>2, <2>1, <2>3, WorkUntouched DEF TableRest
<1>3. ASSUME NEW q \in Runs, DeleteRun(q)
      PROVE  TablesInv' /\ WorkInv'
  BY <1>2, <1>3 DEF DeleteRun
<1>4. ASSUME NEW q \in Runs, ApplyRetention(q)
      PROVE  TablesInv' /\ WorkInv'
  <2>1. RetentionEligible(q) \in SUBSET Live
    BY DEF RetentionEligible
  <2> QED BY <1>2, <1>4, <2>1 DEF ApplyRetention
<1> QED
  BY <1>1, <1>3, <1>4 DEF ClientStep

LEMMA SourceTables ==
    ASSUME TableRest, Seal \/ \E q \in Runs : LateEvidence(q)
    PROVE  TablesInv' /\ WorkInv'
<1>1. /\ UNCHANGED <<gone, linked, generations, worker, stops>>
      /\ sealed' = sealed \/ sealed' = sealed + 1
  BY DEF Seal, LateEvidence
<1>2. 1..sealed \subseteq 1..sealed'
  <2>1. sealed \in Nat
    BY AnalysisAssumption DEF TableRest, AnalysisInv, RunTables, AnalysisAssumption
  <2> QED BY <1>1, <2>1
<1>3. TablesInv'
  BY <1>1, <1>2 DEF TableRest, TablesInv, NumbersAreOwn, OneSuccessPerKey, GenerationKey
<1>4. generations' \subseteq generations
  BY <1>1
<1> QED BY <1>1, <1>3, <1>4, WorkUntouched DEF TableRest

LEMMA EndTables ==
    ASSUME TableRest, Stop \/ Restart
    PROVE  TablesInv' /\ WorkInv'
<1>1. UNCHANGED evidence /\ UNCHANGED <<gone, sealed, linked, generations>>
  BY DEF Stop, Restart, evidence
<1>2. stops' \in 0..MaxStops
  <2>1. stops \in 0..MaxStops /\ MaxStops \in Nat
    BY AnalysisAssumption DEF TableRest, TablesInv, AnalysisAssumption
  <2>2. stops' = stops \/ (stops < MaxStops /\ stops' = stops + 1)
    BY DEF Stop, Restart
  <2> QED BY <2>1, <2>2
<1>3. TablesInv'
  BY <1>1, <1>2 DEF TableRest, TablesInv, NumbersAreOwn, OneSuccessPerKey, GenerationKey
<1>4. CASE Stop
  <2>1. UNCHANGED worker /\ generations' \subseteq generations
    BY <1>1, <1>4 DEF Stop
  <2> QED BY <1>3, <2>1, WorkUntouched DEF TableRest
<1>5. CASE Restart
  <2>1. worker'.todo = <<>>
    BY <1>5 DEF Restart, Resting
  <2>2. <<>> \in Seq(Nat) /\ DOMAIN <<>> = {}
    OBVIOUS
  <2>3. WorkInv'
    BY <2>1, <2>2 DEF WorkInv, WorkGoesByAge, Increasing
  <2> QED BY <1>3, <2>3
<1> QED BY <1>4, <1>5

(***************************************************************************)
(* A call begins with work in the list and ends before the list moves on.  *)
(***************************************************************************)
LEMMA CallKeepsWork ==
    ASSUME TableRest, [Next]_vars
    PROVE  CallsHaveWork'
<1>1. CASE UNCHANGED worker /\ (UNCHANGED call \/ worker.todo # <<>>)
  BY <1>1 DEF TableRest, CallsHaveWork, Busy
<1>2. CASE UNCHANGED call /\ ~Busy
  BY <1>2 DEF CallsHaveWork, Busy
<1>3. CASE call' = NoCall
  BY <1>3 DEF CallsHaveWork, Busy, NoCall
<1>4. CASE NextStage
  BY <1>2, <1>4 DEF NextStage
<1>5. CASE Classify \/ ExtractVerification \/ BuildGraph \/ PrepareSemantic \/ Validate
  BY <1>2, <1>5 DEF Classify, ExtractVerification, BuildGraph, PrepareSemantic, Validate, Working,
     OnlyEvidence
<1>6. CASE StartGeneration
  BY <1>1, <1>2, <1>6 DEF StartGeneration, Working
<1>7. CASE ProviderStep
  <2>1. call.phase # "idle" /\ UNCHANGED worker
    BY <1>7 DEF ProviderStep, CallStep, AddressesResolved, TransportFails, ResponseArrives, BackoffEnds
  <2> QED BY <1>1, <2>1 DEF TableRest, CallsHaveWork, Busy
<1>8. CASE FinishGeneration
  BY <1>3, <1>8 DEF FinishGeneration
<1>9. CASE ClientStep
  BY <1>1, <1>9 DEF ClientStep, DeleteRun, ApplyRetention
<1>10. CASE Seal \/ \E q \in Runs : LateEvidence(q)
  BY <1>1, <1>10 DEF Seal, LateEvidence
<1>11. CASE Stop \/ Restart
  BY <1>1, <1>3, <1>11 DEF Stop, Restart
<1>12. CASE UNCHANGED vars
  BY <1>1, <1>12 DEF vars
<1> QED
  BY <1>4, <1>5, <1>6, <1>7, <1>8, <1>9, <1>10, <1>11, <1>12 DEF Next, PumpStep

LEMMA CallKeepsKey ==
    ASSUME TableRest, [Next]_vars
    PROVE  KeyStaysFree'
<1>1. CASE UNCHANGED worker /\ generations' \subseteq generations /\ (Busy' => Busy)
  BY <1>1 DEF TableRest, KeyStaysFree, SucceededFor, Current
<1>2. CASE ~Busy'
  BY <1>2 DEF KeyStaysFree
<1>3. CASE NextStage
  BY <1>2, <1>3 DEF NextStage, Busy
<1>4. CASE Classify \/ ExtractVerification \/ BuildGraph \/ PrepareSemantic \/ Validate
  BY <1>2, <1>4 DEF Classify, ExtractVerification, BuildGraph, PrepareSemantic, Validate, Working,
     OnlyEvidence, Busy
<1>5. CASE StartGeneration
  <2>1. UNCHANGED generations /\ ~Busy
    BY <1>5 DEF StartGeneration, Working, Skip, Throw, evidence
  <2>2. CASE ~AlreadyGenerated(Current) /\ UNCHANGED worker
    BY <2>1, <2>2 DEF AlreadyGenerated, KeyStaysFree, SucceededFor, Current
  <2>3. CASE UNCHANGED call
    BY <1>2, <2>1, <2>3 DEF Busy
  <2> QED BY <1>5, <2>2, <2>3 DEF StartGeneration
<1>6. CASE ProviderStep
  <2>1. Busy /\ UNCHANGED worker /\ generations' \subseteq generations
    BY <1>6 DEF ProviderStep, CallStep, AddressesResolved, TransportFails, ResponseArrives,
       BackoffEnds, Busy, evidence
  <2> QED BY <1>1, <2>1
<1>7. CASE FinishGeneration
  BY <1>2, <1>7 DEF FinishGeneration, Busy, NoCall
<1>8. CASE ClientStep
  <2>1. generations' \subseteq generations /\ UNCHANGED <<worker, call>>
    BY <1>8 DEF ClientStep, DeleteRun, ApplyRetention, Cascade, evidence
  <2> QED BY <1>1, <2>1 DEF Busy
<1>9. CASE Seal \/ \E q \in Runs : LateEvidence(q)
  <2>1. generations' \subseteq generations /\ UNCHANGED <<worker, call>>
    BY <1>9 DEF Seal, LateEvidence
  <2> QED BY <1>1, <2>1 DEF Busy
<1>10. CASE Stop
  <2>1. generations' \subseteq generations /\ UNCHANGED <<worker, call>>
    BY <1>10 DEF Stop, evidence
  <2> QED BY <1>1, <2>1 DEF Busy
<1>11. CASE Restart
  BY <1>2, <1>11 DEF Restart, Busy, NoCall
<1>12. CASE UNCHANGED vars
  <2>1. generations' \subseteq generations /\ UNCHANGED <<worker, call>>
    BY <1>12 DEF vars, evidence
  <2> QED BY <1>1, <2>1 DEF Busy
<1> QED
  BY <1>3, <1>4, <1>5, <1>6, <1>7, <1>8, <1>9, <1>10, <1>11, <1>12 DEF Next, PumpStep

LEMMA TableRestKept == TableRest /\ [Next]_vars => TableRest'
<1> SUFFICES ASSUME TableRest, [Next]_vars PROVE TableRest'
  OBVIOUS
<1>1. AnalysisInv' /\ CallsHaveWork' /\ KeyStaysFree'
  BY AnalysisKept, CallKeepsWork, CallKeepsKey DEF TableRest
<1>2. CASE PumpStep
  <2>1. TablesInv' /\ WorkInv'
    BY <1>2, NextTables, DerivedTables, GenerationTables, FinishTables, ValidateTables DEF PumpStep
  <2> QED BY <1>1, <2>1 DEF TableRest
<1>3. CASE ClientStep
  BY <1>1, <1>3, ClientTables DEF TableRest
<1>4. CASE Seal \/ \E q \in Runs : LateEvidence(q)
  BY <1>1, <1>4, SourceTables DEF TableRest
<1>5. CASE Stop \/ Restart
  BY <1>1, <1>5, EndTables DEF TableRest
<1>6. CASE UNCHANGED vars
  <2>1. UNCHANGED <<evidence, stops>> /\ UNCHANGED worker /\ generations' \subseteq generations
    BY <1>6 DEF vars, evidence
  <2> QED BY <1>1, <2>1, TablesUntouched, WorkUntouched DEF TableRest
<1> QED
  BY <1>2, <1>3, <1>4, <1>5, <1>6 DEF Next

LEMMA TableRestAlways == Spec => []TableRest
<1>1. Init => TableRest
  <2> SUFFICES ASSUME Init PROVE TableRest
    OBVIOUS
  <2>1. ~Busy
    BY DEF Init, CallInit, NoCall, Busy
  <2> QED BY <2>1, AnalysisStart, TablesStart DEF TableRest, CallsHaveWork, KeyStaysFree
<1> QED
  BY <1>1, TableRestKept, PTL DEF Spec

-----------------------------------------------------------------------------
(* What is paid for *)

Asking == call.phase \in {"resolving", "requesting", "backoff"}

(***************************************************************************)
(* The run of a call keeps its semantic input until it is deleted.         *)
(***************************************************************************)
CallHasSource ==
    Busy => \/ Current \in gone
            \/ Current \in Live /\ Has(Current, "semantic")

(***************************************************************************)
(* What was paid for and not lost is recorded, or about to be, or its run  *)
(* is deleted.                                                             *)
(***************************************************************************)
PaidIsKept ==
    /\ paid \subseteq Runs \X Providers
    /\ \A q \in Runs, p \in Providers : <<q, p>> \in paid =>
          \/ q \in gone
          \/ SucceededFor(q, p) # {}
          \/ Succeeded /\ <<q, p>> = CurrentKey

PaidInv == CallHasSource /\ PaidIsKept /\ OnlyLostAnswersAreBoughtAgain

LEMMA IdleIsNothing ==
    ASSUME ~Busy
    PROVE  ~Succeeded /\ ~Asking /\ CallHasSource /\ OnlyLostAnswersAreBoughtAgain
BY DEF Busy, Succeeded, Asking, CallHasSource, OnlyLostAnswersAreBoughtAgain

LEMMA CallsRun ==
    ASSUME TableRest, CallHasSource, Busy
    PROVE  CurrentKey \in Runs \X Providers
<1>1. worker.opts.provider \in Providers
  BY DEF TableRest, AnalysisInv, CallsHaveOptions
<1>2. Current \in Runs
  BY LiveIsRun DEF TableRest, AnalysisInv, RunTables, CallHasSource
<1> QED
  BY <1>1, <1>2 DEF CurrentKey, GenerationKey

(***************************************************************************)
(* A step that pays nothing, loses nothing and takes no record but those   *)
(* of deleted runs.                                                        *)
(***************************************************************************)
LEMMA PaidUntouched ==
    ASSUME PaidInv, UNCHANGED paid, gone \subseteq gone',
           \A q \in Runs, p \in Providers :
              SucceededFor(q, p) # {} => q \in gone' \/ SucceededFor(q, p)' # {},
           Succeeded => Succeeded' /\ UNCHANGED worker,
           Asking' => Asking /\ UNCHANGED worker
    PROVE  PaidIsKept' /\ OnlyLostAnswersAreBoughtAgain'
<1>1. UNCHANGED worker => CurrentKey' = CurrentKey
  BY DEF CurrentKey, GenerationKey, Current
<1>2. PaidIsKept'
  BY <1>1 DEF PaidInv, PaidIsKept
<1> QED
  BY <1>1, <1>2 DEF PaidInv, OnlyLostAnswersAreBoughtAgain, Asking

LEMMA PaidByPump ==
    ASSUME TableRest, PaidInv,
           NextStage \/ Classify \/ ExtractVerification \/ BuildGraph \/ PrepareSemantic \/ Validate
    PROVE  PaidInv'
<1>1. ~Busy /\ UNCHANGED <<call, paid, gone>>
  BY DEF NextStage, Classify, ExtractVerification, BuildGraph, PrepareSemantic, Validate, Working,
     OnlyEvidence, Skip, Throw, Derive, evidence
<1>2. ~Busy' /\ ~Succeeded /\ ~Asking'
  BY <1>1, IdleIsNothing DEF Busy, Asking
<1>3. ASSUME NEW q \in Runs, NEW p \in Providers, SucceededFor(q, p) # {}
      PROVE  SucceededFor(q, p)' # {}
  <2>1. CASE UNCHANGED generations
    BY <1>3, <2>1 DEF SucceededFor
  <2>2. CASE ~UNCHANGED generations
    <3>1. Validate
      BY <2>2 DEF NextStage, Classify, ExtractVerification, BuildGraph, PrepareSemantic,
         Skip, Throw, Derive, evidence
    <3>2. PICK h \in generations : /\ h.status = "succeeded"
                                    /\ GenerationKey(h.run, h.provider) = GenerationKey(q, p)
      BY <1>3 DEF SucceededFor
    <3>3. \E k \in generations' : k.status = h.status /\ k.run = h.run /\ k.provider = h.provider
      <4> DEFINE found == {g \in generations : g.number = Current}
      <4>1. generations' = {IF g \in found THEN [g EXCEPT !.validated = TRUE] ELSE g :
                                g \in generations}
        BY <2>2, <3>1 DEF Validate, Skip, Throw, evidence
      <4>2. (IF h \in found THEN [h EXCEPT !.validated = TRUE] ELSE h) \in generations'
        BY <4>1
      <4>3. h = [number |-> h.number, run |-> h.run, provider |-> h.provider,
                 status |-> h.status, validated |-> h.validated]
        BY DEF TableRest, AnalysisInv, GenerationsAreRows
      <4> HIDE DEF found
      <4>4. ASSUME NEW k, k = IF h \in found THEN [h EXCEPT !.validated = TRUE] ELSE h
            PROVE  k.status = h.status /\ k.run = h.run /\ k.provider = h.provider
        BY <4>3, <4>4
      <4> QED BY <4>2, <4>4
    <3> QED BY <3>2, <3>3 DEF SucceededFor, GenerationKey
  <2> QED BY <2>1, <2>2
<1>4. PaidIsKept'
  BY <1>1, <1>2, <1>3, PaidUntouched
<1>5. CallHasSource' /\ OnlyLostAnswersAreBoughtAgain'
  BY <1>2 DEF CallHasSource, OnlyLostAnswersAreBoughtAgain, Busy
<1> QED
  BY <1>4, <1>5 DEF PaidInv

(***************************************************************************)
(* The lookup before a call finds no record of success, and what was paid  *)
(* for and not lost has one.                                               *)
(***************************************************************************)
LEMMA PaidAtStart ==
    ASSUME TableRest, PaidInv, StartGeneration
    PROVE  PaidInv'
<1>1. UNCHANGED <<evidence, paid>> /\ ~Busy /\ worker.todo # <<>>
  BY DEF StartGeneration, Working, Skip, Throw
<1>2. UNCHANGED <<gone, generations, linked, sealed>>
  BY <1>1 DEF evidence
<1>3. ~Succeeded
  BY <1>1, IdleIsNothing
<1>4. \A q \in Runs, p \in Providers : SucceededFor(q, p)' = SucceededFor(q, p)
  BY <1>2 DEF SucceededFor, GenerationKey
<1>5. CASE UNCHANGED call
  <2>1. ~Busy' /\ ~Asking'
    BY <1>1, <1>5 DEF Busy, Asking
  <2>2. PaidIsKept'
    BY <1>1, <1>2, <1>3, <1>4, <2>1, PaidUntouched
  <2>3. CallHasSource' /\ OnlyLostAnswersAreBoughtAgain'
    BY <2>1 DEF CallHasSource, OnlyLostAnswersAreBoughtAgain, Busy
  <2> QED BY <2>2, <2>3 DEF PaidInv
<1>6. CASE ~UNCHANGED call
  <2>1. /\ Current \in Live /\ SemanticReadable(Current) /\ ~AlreadyGenerated(Current)
        /\ UNCHANGED worker
    BY <1>6 DEF StartGeneration
  <2>2. CallHasSource'
    BY <1>2, <2>1 DEF CallHasSource, Current, Live, Has, SemanticReadable
  <2>3. PaidIsKept'
    BY <1>1, <1>2, <1>3, <1>4 DEF PaidInv, PaidIsKept
  <2>4. Stage = "candidate_generation"
    BY <1>6 DEF StartGeneration, Working
  <2>5. worker.opts.provider \in Providers /\ Current \in Runs /\ Current \notin gone
    BY <1>1, <2>1, <2>4, LiveIsRun DEF TableRest, AnalysisInv, CallsHaveOptions
  <2>6. CurrentKey \notin paid
    BY <1>3, <2>1, <2>5 DEF PaidInv, PaidIsKept, CurrentKey, GenerationKey, AlreadyGenerated
  <2>7. CurrentKey' = CurrentKey /\ paid' = paid
    BY <1>1, <2>1 DEF CurrentKey, GenerationKey, Current
  <2> QED
    BY <2>2, <2>3, <2>6, <2>7 DEF PaidInv, OnlyLostAnswersAreBoughtAgain
<1> QED
  BY <1>5, <1>6

LEMMA PaidInCall ==
    ASSUME TableRest, PaidInv, ProviderStep
    PROVE  PaidInv'
<1>1. /\ UNCHANGED worker /\ UNCHANGED <<gone, generations, linked, sealed>>
      /\ Asking
      /\ paid' = IF Succeeded' THEN paid \cup {CurrentKey} ELSE paid
  BY DEF ProviderStep, PayForAnswer, evidence, CallStep, AddressesResolved, TransportFails,
     ResponseArrives, BackoffEnds, Asking
<1>2. Busy /\ ~Succeeded /\ (Asking' => ~Succeeded')
  BY <1>1 DEF Asking, Busy, Succeeded
<1>3. CurrentKey' = CurrentKey /\ CurrentKey \notin paid
  BY <1>1 DEF CurrentKey, GenerationKey, Current, PaidInv, OnlyLostAnswersAreBoughtAgain, Asking
<1>4. CallHasSource'
  BY <1>1, <1>2 DEF PaidInv, CallHasSource, Current, Live, Has
<1>5. \A q \in Runs, p \in Providers : SucceededFor(q, p)' = SucceededFor(q, p)
  BY <1>1 DEF SucceededFor, GenerationKey
<1>6. CurrentKey \in Runs \X Providers
  BY <1>2, CallsRun DEF PaidInv
<1>7. PaidIsKept'
  BY <1>1, <1>2, <1>3, <1>5, <1>6 DEF PaidInv, PaidIsKept
<1>8. OnlyLostAnswersAreBoughtAgain'
  BY <1>1, <1>2, <1>3 DEF OnlyLostAnswersAreBoughtAgain, Asking
<1> QED
  BY <1>4, <1>7, <1>8 DEF PaidInv

(***************************************************************************)
(* A successful answer is inserted unless its log is refused or its run    *)
(* was deleted: KeyStaysFree leaves no other success in its way.           *)
(***************************************************************************)
LEMMA PaidAtFinish ==
    ASSUME TableRest, PaidInv, FinishGeneration
    PROVE  PaidInv'
<1>1. /\ call.phase = "answered" /\ ~Busy' /\ Busy
      /\ UNCHANGED <<gone, linked, sealed>>
  BY DEF FinishGeneration, NoCall, Busy
<1>2. CallHasSource' /\ OnlyLostAnswersAreBoughtAgain' /\ ~Succeeded'
  BY <1>1 DEF CallHasSource, OnlyLostAnswersAreBoughtAgain, Busy, Succeeded
<1>3. generations \subseteq generations'
  BY DEF FinishGeneration, InsertGeneration
<1>4. ASSUME NEW q \in Runs, NEW p \in Providers, SucceededFor(q, p) # {}
      PROVE  SucceededFor(q, p)' # {}
  BY <1>3, <1>4 DEF SucceededFor, GenerationKey
<1>5. paid' \subseteq paid
  BY DEF FinishGeneration, LoseAnswer
<1>6. ASSUME Succeeded, CurrentKey \in paid', NEW q, NEW p,
             q = Current, p = worker.opts.provider
      PROVE  q \in gone \/ SucceededFor(q, p)' # {}
  <2>1. RecordAccepted
    BY <1>6 DEF FinishGeneration, LoseAnswer
  <2>2. SucceededFor(Current, worker.opts.provider) = {}
    BY <1>1 DEF TableRest, KeyStaysFree
  <2>3. CASE Current \in Live /\ Has(Current, "semantic")
    <3>1. InsertGeneration(Current)
      BY <2>1, <2>2, <2>3 DEF InsertAllowed, FinishGeneration
    <3>2. PICK n : generations' = generations \cup
              {[number |-> n, run |-> q, provider |-> p,
                status |-> call.status, validated |-> FALSE]}
      BY <1>6, <3>1 DEF InsertGeneration
    <3>3. call.status = "succeeded"
      BY <1>6 DEF Succeeded
    <3> DEFINE row == [number |-> n, run |-> q, provider |-> p,
                       status |-> "succeeded", validated |-> FALSE]
    <3>4. row \in generations'
      BY <3>2, <3>3
    <3>5. row.status = "succeeded" /\ row.run = q /\ row.provider = p
      OBVIOUS
    <3> HIDE DEF row
    <3>6. row \in SucceededFor(q, p)'
      BY <3>4, <3>5 DEF SucceededFor, GenerationKey
    <3> QED BY <3>6
  <2> QED BY <1>1, <1>6, <2>3 DEF PaidInv, CallHasSource
<1>7. ASSUME NEW q \in Runs, NEW p \in Providers, <<q, p>> \in paid'
      PROVE  q \in gone' \/ SucceededFor(q, p)' # {}
  <2>1. CASE Succeeded /\ <<q, p>> = CurrentKey
    <3>1. q = Current /\ p = worker.opts.provider
      BY <2>1 DEF CurrentKey, GenerationKey
    <3> QED BY <1>1, <1>6, <1>7, <2>1, <3>1
  <2>2. CASE ~(Succeeded /\ <<q, p>> = CurrentKey)
    BY <1>1, <1>4, <1>5, <1>7, <2>2 DEF PaidInv, PaidIsKept
  <2> QED BY <2>1, <2>2
<1>8. PaidIsKept'
  BY <1>5, <1>7 DEF PaidInv, PaidIsKept
<1> QED
  BY <1>2, <1>8 DEF PaidInv

LEMMA PaidByClients ==
    ASSUME TableRest, PaidInv, ClientStep
    PROVE  PaidInv'
<1>1. UNCHANGED <<worker, call, paid, sealed>>
  BY DEF ClientStep, DeleteRun, ApplyRetention, evidence
<1>2. CASE UNCHANGED evidence
  <2>1. UNCHANGED <<gone, generations, linked, sealed>>
    BY <1>2 DEF evidence
  <2>2. \A q \in Runs, p \in Providers : SucceededFor(q, p)' = SucceededFor(q, p)
    BY <2>1 DEF SucceededFor, GenerationKey
  <2>3. CallHasSource'
    BY <1>1, <2>1 DEF PaidInv, CallHasSource, Current, Live, Has, Busy
  <2>4. (Succeeded' <=> Succeeded) /\ (Asking' <=> Asking)
    BY <1>1 DEF Succeeded, Asking
  <2>5. PaidIsKept' /\ OnlyLostAnswersAreBoughtAgain'
    BY <1>1, <2>1, <2>2, <2>4, PaidUntouched
  <2> QED BY <2>3, <2>5 DEF PaidInv
<1>3. ASSUME NEW runs, Cascade(runs), gone' = gone \cup runs
      PROVE  PaidInv'
  <2>1. \A q \in Runs, p \in Providers :
            SucceededFor(q, p) # {} => q \in gone' \/ SucceededFor(q, p)' # {}
    <3> SUFFICES ASSUME NEW q \in Runs, NEW p \in Providers, SucceededFor(q, p) # {},
                        q \notin runs
                 PROVE  SucceededFor(q, p)' # {}
      BY <1>3
    <3>1. PICK g \in SucceededFor(q, p) : TRUE
      OBVIOUS
    <3>2. g.run = q /\ g \in generations'
      BY <1>3, <3>1 DEF SucceededFor, GenerationKey, Cascade
    <3> QED BY <3>1, <3>2 DEF SucceededFor, GenerationKey
  <2>2. (Succeeded' <=> Succeeded) /\ (Asking' <=> Asking)
    BY <1>1 DEF Succeeded, Asking
  <2>3. PaidIsKept' /\ OnlyLostAnswersAreBoughtAgain'
    BY <1>1, <1>3, <2>1, <2>2, PaidUntouched
  <2>4. CallHasSource'
    BY <1>1, <1>3 DEF PaidInv, CallHasSource, Current, Live, Has, Busy, Cascade
  <2> QED BY <2>3, <2>4 DEF PaidInv
<1> QED
  BY <1>2, <1>3 DEF ClientStep, DeleteRun, ApplyRetention

LEMMA PaidElsewhere ==
    ASSUME TableRest, PaidInv,
           Seal \/ (\E q \in Runs : LateEvidence(q)) \/ Stop \/ UNCHANGED vars
    PROVE  PaidInv'
<1>1. /\ UNCHANGED <<worker, call, paid, gone, generations, linked>>
      /\ sealed \in Nat /\ (sealed' = sealed \/ sealed' = sealed + 1)
  BY AnalysisAssumption DEF Seal, LateEvidence, Stop, vars, evidence, TableRest, AnalysisInv, RunTables
<1>2. Live \subseteq Live'
  BY <1>1 DEF Live
<1>3. \A q \in Runs, p \in Providers : SucceededFor(q, p)' = SucceededFor(q, p)
  BY <1>1 DEF SucceededFor, GenerationKey
<1>4. (Succeeded' <=> Succeeded) /\ (Asking' <=> Asking)
  BY <1>1 DEF Succeeded, Asking
<1>5. PaidIsKept' /\ OnlyLostAnswersAreBoughtAgain'
  BY <1>1, <1>3, <1>4, PaidUntouched
<1>6. CallHasSource'
  BY <1>1, <1>2 DEF PaidInv, CallHasSource, Current, Has, Busy
<1> QED
  BY <1>5, <1>6 DEF PaidInv

LEMMA PaidAtRestart ==
    ASSUME TableRest, PaidInv, Restart
    PROVE  PaidInv'
<1>1. /\ UNCHANGED <<gone, generations>> /\ ~Busy'
      /\ paid' = IF Succeeded THEN paid \ {CurrentKey} ELSE paid
  BY DEF Restart, LoseAnswer, evidence, NoCall, Busy
<1>2. CallHasSource' /\ OnlyLostAnswersAreBoughtAgain' /\ ~Succeeded'
  BY <1>1 DEF CallHasSource, OnlyLostAnswersAreBoughtAgain, Busy, Succeeded
<1>3. \A q \in Runs, p \in Providers : SucceededFor(q, p)' = SucceededFor(q, p)
  BY <1>1 DEF SucceededFor, GenerationKey
<1>4. PaidIsKept'
  BY <1>1, <1>3 DEF PaidInv, PaidIsKept
<1> QED
  BY <1>2, <1>4 DEF PaidInv

LEMMA PaidKept == TableRest /\ PaidInv /\ [Next]_vars => PaidInv'
BY PaidByPump, PaidAtStart, PaidInCall, PaidAtFinish, PaidByClients, PaidElsewhere, PaidAtRestart
   DEF Next, PumpStep

LEMMA PaidAlways == Spec => []PaidInv
<1>1. Init => PaidInv
  <2> SUFFICES ASSUME Init PROVE PaidInv
    OBVIOUS
  <2>1. ~Busy /\ paid = {}
    BY DEF Init, CallInit, NoCall, Busy
  <2> QED BY <2>1, IdleIsNothing DEF PaidInv, PaidIsKept
<1> QED
  BY <1>1, PaidKept, TableRestAlways, PTL DEF Spec

(***************************************************************************)
(* The provider is not asked again for what it answered, unless the answer *)
(* was lost in one of the two ways named: for any runs, providers,         *)
(* settings, deletions and restarts.                                       *)
(***************************************************************************)
THEOREM AnswersAreNotBoughtTwice == Spec => []OnlyLostAnswersAreBoughtAgain
<1>1. PaidInv => OnlyLostAnswersAreBoughtAgain
  BY DEF PaidInv
<1> QED
  BY <1>1, PaidAlways, PTL

(***************************************************************************)
(* Types, for any number of runs, clients, generations and restarts.       *)
(***************************************************************************)
THEOREM AnalysisTypeCorrect == Spec => []AnalysisTypeOK
<1>1. TableRest /\ PaidInv => AnalysisTypeOK
  <2> SUFFICES ASSUME TableRest, PaidInv PROVE AnalysisTypeOK
    OBVIOUS
  <2>1. \A g \in generations : g \in GenerationRow
    BY DEF TableRest, TablesInv, AnalysisInv, GenerationsAreRows, GenerationRow
  <2>2. worker.stage \in 1..Len(StageOrder)
    BY DEF TableRest, AnalysisInv, PumpInv, StageOrder
  <2> QED
    BY <2>1, <2>2 DEF TableRest, TablesInv, WorkInv, AnalysisInv, RunTables, SettingsInv, CallInv,
       PaidInv, PaidIsKept, AnalysisTypeOK
<1> QED
  BY <1>1, TableRestAlways, PaidAlways, PTL

(***************************************************************************)
(* An input is answered once per provider configuration, whatever runs,    *)
(* settings and processes come and go while the calls are made: nothing    *)
(* else answers the key of a call before its own answer is recorded.  An   *)
(* answer is never lost to the unique key of candidate_generations.        *)
(***************************************************************************)
THEOREM KeysHaveOneAnswer == Spec => [](OneSuccessPerKey /\ KeyStaysFree)
<1>1. TableRest => OneSuccessPerKey /\ KeyStaysFree
  BY DEF TableRest, TablesInv
<1> QED
  BY <1>1, TableRestAlways, PTL

(***************************************************************************)
(* A listing goes by age, as its query orders it, and no generation it     *)
(* still holds has been validated since: none gets a second report.        *)
(***************************************************************************)
THEOREM ListingsGoByAge == Spec => []WorkGoesByAge
<1>1. TableRest => WorkGoesByAge
  BY DEF TableRest, WorkInv
<1> QED
  BY <1>1, TableRestAlways, PTL
=============================================================================
