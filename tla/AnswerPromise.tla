----------------------------- MODULE AnswerPromise -----------------------------
(***************************************************************************)
(* What OwnLoop promises about the answers a user gives, without requests, *)
(* rows, timestamps and retries: each interaction counts once, the answer  *)
(* that stands is the one that was applied last, none is taken for a run   *)
(* that is gone, and all of a run's answers go with it.                    *)
(***************************************************************************)
CONSTANTS Interactions, Runs, Questions, Unanswered, NoAsk

VARIABLES
    ask,       \* what each interaction asks for: [run, question]
    applied,   \* the interactions that count, by run
    answer,    \* the interaction that stands, by run and question
    gone       \* the runs that were deleted

promiseVars == <<ask, applied, answer, gone>>

Init ==
    /\ ask = [i \in Interactions |-> NoAsk]
    /\ applied = [r \in Runs |-> {}]
    /\ answer = [r \in Runs |-> [q \in Questions |-> Unanswered]]
    /\ gone = {}

Ask(i, r, q) ==
    /\ ask[i] = NoAsk
    /\ ask' = [ask EXCEPT ![i] = [run |-> r, question |-> q]]
    /\ UNCHANGED <<applied, answer, gone>>

Apply(i) ==
    /\ ask[i] # NoAsk
    /\ ask[i].run \notin gone
    /\ i \notin applied[ask[i].run]
    /\ applied' = [applied EXCEPT ![ask[i].run] = @ \cup {i}]
    /\ answer' = [answer EXCEPT ![ask[i].run][ask[i].question] = i]
    /\ UNCHANGED <<ask, gone>>

Forget(r) ==
    /\ gone' = gone \cup {r}
    /\ applied' = [applied EXCEPT ![r] = {}]
    /\ answer' = [answer EXCEPT ![r] = [q \in Questions |-> Unanswered]]
    /\ UNCHANGED ask

Next == \/ \E i \in Interactions, r \in Runs, q \in Questions : Ask(i, r, q)
        \/ \E i \in Interactions : Apply(i)
        \/ \E r \in Runs : Forget(r)

Spec == Init /\ [][Next]_promiseVars
=============================================================================
