------------------------------ MODULE CallPromise ------------------------------
(***************************************************************************)
(* What a provider call promises to the stage that makes it, without HTTP  *)
(* statuses, delays and request identities: it posts at most MaxAttempts   *)
(* times, posts again only while nobody asked it to stop, and gives one    *)
(* final answer; a call that was asked to stop may still answer with what  *)
(* was under way.                                                          *)
(***************************************************************************)
EXTENDS Naturals

CONSTANT MaxAttempts

VARIABLES
    posts,    \* requests posted by the call under way
    answer,   \* "none" while it runs, then "succeeded", "failed" or "aborted"
    asked     \* whether the process was asked to stop

promiseVars == <<posts, answer, asked>>

Init == posts = 0 /\ answer = "none" /\ asked = FALSE

Post ==
    /\ answer = "none" /\ ~asked /\ posts < MaxAttempts
    /\ posts' = posts + 1
    /\ UNCHANGED <<answer, asked>>

Answer ==
    /\ answer = "none"
    /\ answer' \in {"succeeded", "failed", "aborted"}
    /\ answer' = "succeeded" => posts > 0
    /\ answer' = "aborted" => asked
    /\ UNCHANGED <<posts, asked>>

Take == posts' = 0 /\ answer' = "none" /\ UNCHANGED asked

Ask == asked' = TRUE /\ UNCHANGED <<posts, answer>>

Restart == posts' = 0 /\ answer' = "none" /\ asked' = FALSE

Next == Post \/ Answer \/ Take \/ Ask \/ Restart

Spec == Init /\ [][Next]_promiseVars
=============================================================================
