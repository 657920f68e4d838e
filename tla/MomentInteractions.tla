-------------------------- MODULE MomentInteractions --------------------------
(***************************************************************************)
(* The daemon's side of the answers a user gives to Ownership Moments.  A  *)
(* request names its interaction by a random id, which a retry repeats; it *)
(* is checked against the run's verified projection, which is read before  *)
(* the transaction begins, and then stored or recognised.  Rows are only   *)
(* appended, and go with their run.  The ownership record of an answer is  *)
(* inserted with it and says no more than it does.  What is answered is    *)
(* not told apart: an answer is the interaction that gave it.              *)
(***************************************************************************)
EXTENDS Naturals, FiniteSets

CONSTANTS
    ReplayRuns,    \* terminal runs with a validation that selected moments
    Questions,     \* the answers a moment asks for: <<moment, action kind>>
    Unanswered,    \* no answer
    MaxActions,    \* interactions the user starts (bound)
    MaxTries       \* requests per interaction, the first and its retries (bound)

Interactions == 1 .. MaxActions
Tries        == 1 .. MaxTries

ASSUME InteractionConstants ==
    /\ MaxActions \in Nat /\ MaxTries \in Nat \ {0}
    /\ Unanswered \notin ReplayRuns \cup Questions \cup Interactions

VARIABLES
    known,         \* the runs that exist
    interaction,   \* moment_interactions
    asked,         \* what each interaction asks for, the same in every try
    call,          \* the requests in the daemon
    recordedAt     \* last created_at given to an interaction

daemonVars == <<known, interaction, asked, call, recordedAt>>

NoAsk == [run |-> Unanswered, question |-> Unanswered]
NoRow == [ask |-> NoAsk, at |-> 0]

CallPhases == {"none", "arrived", "verified", "accepted", "refused"}

InteractionTypeOK ==
    LET Asks == [run: ReplayRuns \cup {Unanswered}, question: Questions \cup {Unanswered}] IN
    /\ known \subseteq ReplayRuns
    /\ interaction \in [Interactions -> [ask: Asks, at: Nat]]
    /\ asked \in [Interactions -> Asks]
    /\ call \in [Interactions -> [Tries -> CallPhases]]
    /\ recordedAt \in Nat

InteractionInit ==
    /\ known = ReplayRuns
    /\ interaction = [i \in Interactions |-> NoRow]
    /\ asked = [i \in Interactions |-> NoAsk]
    /\ call = [i \in Interactions |-> [t \in Tries |-> "none"]]
    /\ recordedAt = 0

Recorded(r) == {i \in Interactions : interaction[i].ask # NoAsk /\ interaction[i].ask.run = r}

(***************************************************************************)
(* ORDER BY created_at DESC, of the answers to one question.               *)
(***************************************************************************)
LatestAnswer(r, q) ==
    LET Given == {i \in Recorded(r) : interaction[i].ask.question = q} IN
    IF Given = {} THEN Unanswered
    ELSE CHOOSE i \in Given : \A j \in Given : interaction[j].at <= interaction[i].at

-----------------------------------------------------------------------------
SetCall(i, t, phase) == call' = [call EXCEPT ![i][t] = phase]

(***************************************************************************)
(* The projection of the run's validation, with the moment in it that asks *)
(* this: read across an await.                                             *)
(***************************************************************************)
VerifyProjection(i, t) ==
    /\ call[i][t] = "arrived"
    /\ SetCall(i, t, IF asked[i].run \in known THEN "verified" ELSE "refused")
    /\ UNCHANGED <<known, interaction, asked, recordedAt>>

(* Mutant: what was verified is not asked again. *)
WasKnown(r) == r \in ReplayRuns

(***************************************************************************)
(* The insert's trigger finds the run, its validation and its projection.  *)
(***************************************************************************)
StillKnown(r) == r \in known

(***************************************************************************)
(* One transaction.  A row of the same id answers for the request if it    *)
(* asked the same, and conflicts otherwise; a run deleted meanwhile makes  *)
(* the insert's trigger abort.                                             *)
(***************************************************************************)
RecordInteraction(i, t) ==
    /\ call[i][t] = "verified"
    /\ IF interaction[i] = NoRow /\ StillKnown(asked[i].run)
       THEN /\ interaction' = [interaction EXCEPT ![i] =
                    [ask |-> asked[i], at |-> recordedAt + 1]]
            /\ recordedAt' = recordedAt + 1
            /\ SetCall(i, t, "accepted")
       ELSE /\ SetCall(i, t, IF interaction[i].ask = asked[i] THEN "accepted" ELSE "refused")
            /\ UNCHANGED <<interaction, recordedAt>>
    /\ UNCHANGED <<known, asked>>

(***************************************************************************)
(* The user's deletion or the retention takes a run with all its rows.     *)
(***************************************************************************)
DeleteKnownRun(r) ==
    /\ r \in known
    /\ known' = known \ {r}
    /\ interaction' = [i \in Interactions |->
            IF i \in Recorded(r) THEN NoRow ELSE interaction[i]]
    /\ UNCHANGED <<asked, call, recordedAt>>

DaemonAnswers == \E i \in Interactions, t \in Tries :
                    VerifyProjection(i, t) \/ RecordInteraction(i, t)

-----------------------------------------------------------------------------
(***************************************************************************)
(* Retries, requests that overtake each other and deletions under way keep *)
(* the promise: an interaction repeated after a lost response neither      *)
(* counts twice nor comes back over a later answer.                        *)
(***************************************************************************)
Promised == INSTANCE AnswerPromise WITH
    Runs    <- ReplayRuns,
    ask     <- asked,
    applied <- [r \in ReplayRuns |-> Recorded(r)],
    answer  <- [r \in ReplayRuns |-> [q \in Questions |-> LatestAnswer(r, q)]],
    gone    <- ReplayRuns \ known

KeepsAnswerPromise == Promised!Spec

=============================================================================
