------------------------------ MODULE RunPromise ------------------------------
(***************************************************************************)
(* What OwnLoop promises about the Task Runs of a conversation, without    *)
(* receipts, rows, stages or crashes: at most one run is open at a time,   *)
(* a new one displaces it, a stopped one waits for its verdict, and every  *)
(* run gets at most one verdict, which is final.                           *)
(***************************************************************************)
CONSTANTS Sessions, Runs, NoRun, Verdicts, Abandoned, Undecided

VARIABLES
    open,      \* the run each conversation is capturing into, or NoRun
    closing,   \* the runs that stopped and await their verdict
    verdict    \* the verdict of each run, or Undecided

promiseVars == <<open, closing, verdict>>

Init ==
    /\ open = [s \in Sessions |-> NoRun]
    /\ closing = {}
    /\ verdict = [q \in Runs |-> Undecided]

(***************************************************************************)
(* A run that was neither opened, stopped nor judged before.               *)
(***************************************************************************)
Fresh(q) == /\ q \notin closing
            /\ verdict[q] = Undecided
            /\ \A s \in Sessions : open[s] # q

Displaced(s) ==
    [q \in Runs |-> IF q = open[s] THEN Abandoned ELSE verdict[q]]

Begin(s, q) ==
    /\ Fresh(q)
    /\ open' = [open EXCEPT ![s] = q]
    /\ verdict' = Displaced(s)
    /\ UNCHANGED closing

Abandon(s) ==
    /\ open[s] # NoRun
    /\ open' = [open EXCEPT ![s] = NoRun]
    /\ verdict' = Displaced(s)
    /\ UNCHANGED closing

Stop(s) ==
    /\ open[s] # NoRun
    /\ closing' = closing \cup {open[s]}
    /\ open' = [open EXCEPT ![s] = NoRun]
    /\ UNCHANGED verdict

Judge(q, v) ==
    /\ q \in closing
    /\ closing' = closing \ {q}
    /\ verdict' = [verdict EXCEPT ![q] = v]
    /\ UNCHANGED open

Next ==
    \/ \E s \in Sessions, q \in Runs : Begin(s, q)
    \/ \E s \in Sessions : Abandon(s) \/ Stop(s)
    \/ \E q \in Runs, v \in Verdicts : Judge(q, v)

Spec == Init /\ [][Next]_promiseVars
=============================================================================
