----------------------------- MODULE HookDelivery -----------------------------
(***************************************************************************)
(* From a hook of the agent to a journalled receipt: the launcher probes   *)
(* the daemon, the adapter posts the payload once within its timeout, the  *)
(* daemon inserts a receipt or finds that it has it already, and answers.  *)
(* Nothing is retried here, but the agent may fire the same payload again. *)
(* The launcher and the adapter always end quietly: a hook that is not     *)
(* delivered is skipped.                                                   *)
(***************************************************************************)
EXTENDS Lifecycle

CONSTANTS
    Payloads,    \* hook payloads: [session, workspace, hook, id, body]
    MaxFirings,  \* hooks the agent fires (bound)
    MaxLost      \* timeouts, refused deliveries and daemon crashes (bound)

VARIABLES
    delivery,      \* one per firing: launcher, adapter and request
    stored,        \* the payload behind each receipt
    server,        \* the daemon that listens, if any; every instance has its own port
    lost,          \* deliveries and daemons lost so far
    boundary       \* history: the last SessionStart or SessionEnd acknowledged

deliveryVars == <<delivery, stored, server, lost, boundary>>

Firings     == 1 .. MaxFirings
Boundaries  == {"SessionStart", "SessionEnd"}
NoPayload   == [session |-> None, workspace |-> None, hook |-> None, id |-> None, body |-> None]

ASSUME DeliveryConstants ==
    /\ MaxFirings \in 0 .. MaxReceipts
    /\ MaxLost \in Nat
    /\ \A p \in Payloads : /\ p.session \in Sessions /\ p.workspace \in Workspaces
                           /\ p.hook \in Hooks

DeliveryRow == [payload: Payloads \cup {NoPayload}, port: Nat,
                adapter: {"idle", "launched", "waiting", "delivered", "skipped"},
                request: {"none", "sent", "handled", "lost"}, status: {0, 202, 400, 409, 503}]

DeliveryTypeOK ==
    /\ delivery \in [Firings -> DeliveryRow]
    /\ stored \in [Receipts -> Payloads \cup {NoPayload}]
    /\ server \in [up: BOOLEAN, port: Nat]
    /\ lost \in 0 .. MaxLost
    /\ boundary \in [Sessions -> Boundaries \cup {None}]

DeliveryInit ==
    /\ LifecycleInit
    /\ delivery = [i \in Firings |-> [payload |-> NoPayload, port |-> 0, adapter |-> "idle",
                                      request |-> "none", status |-> 0]]
    /\ stored = [r \in Receipts |-> NoPayload]
    /\ server = [up |-> TRUE, port |-> 1]
    /\ lost = 0
    /\ boundary = [s \in Sessions |-> None]

Lose == lost < MaxLost /\ lost' = lost + 1

Under(i) == delivery[i].adapter \in {"launched", "waiting"}

-----------------------------------------------------------------------------
(* The launcher and the adapter *)

(***************************************************************************)
(* The agent waits for the hooks of a session, except that its tools run   *)
(* in parallel.                                                            *)
(***************************************************************************)
MayFire(p) == \A i \in Firings : Under(i) =>
    \/ delivery[i].payload.session # p.session
    \/ /\ p.hook = "PreToolUse"
       /\ delivery[i].payload.hook = "PreToolUse"

(***************************************************************************)
(* Only a daemon that serves is told; its port goes to the adapter.        *)
(***************************************************************************)
Launch(i, p) ==
    /\ delivery[i].adapter = "idle"
    /\ \A j \in 1 .. i - 1 : delivery[j].adapter # "idle"
    /\ MayFire(p)
    /\ delivery' = [delivery EXCEPT ![i].payload = p, ![i].port = server.port,
                        ![i].adapter = IF server.up THEN "launched" ELSE "skipped"]
    /\ UNCHANGED <<lifecycleVars, stored, server, lost, boundary>>

(***************************************************************************)
(* Input that is unreadable, unsupported or too large is not posted.       *)
(***************************************************************************)
SkipInput(i) ==
    /\ delivery[i].adapter = "launched"
    /\ Lose
    /\ delivery' = [delivery EXCEPT ![i].adapter = "skipped"]
    /\ UNCHANGED <<lifecycleVars, stored, server, boundary>>

Post(i) ==
    /\ delivery[i].adapter = "launched"
    /\ delivery' = IF server.up /\ server.port = delivery[i].port
                   THEN [delivery EXCEPT ![i].adapter = "waiting", ![i].request = "sent"]
                   ELSE [delivery EXCEPT ![i].adapter = "skipped"]
    /\ UNCHANGED <<lifecycleVars, stored, server, lost, boundary>>

(***************************************************************************)
(* The adapter aborts; the request may still be handled.                   *)
(***************************************************************************)
TimeOut(i) ==
    /\ delivery[i].adapter = "waiting"
    /\ Lose
    /\ delivery' = [delivery EXCEPT ![i].adapter = "skipped"]
    /\ UNCHANGED <<lifecycleVars, stored, server, boundary>>

Receive(i) ==
    LET p == delivery[i].payload IN
    /\ delivery[i].adapter = "waiting"
    /\ delivery[i].request \in {"handled", "lost"}
    /\ IF delivery[i].request = "handled" /\ delivery[i].status = 202
       THEN /\ delivery' = [delivery EXCEPT ![i].adapter = "delivered"]
            /\ boundary' = IF p.hook \in Boundaries
                           THEN [boundary EXCEPT ![p.session] = p.hook] ELSE boundary
       ELSE /\ delivery' = [delivery EXCEPT ![i].adapter = "skipped"]
            /\ UNCHANGED boundary
    /\ UNCHANGED <<lifecycleVars, stored, server, lost>>

-----------------------------------------------------------------------------
(* The ingress route *)

(***************************************************************************)
(* A receipt is identified by the event's own id, where the hook has one,  *)
(* and otherwise by the fingerprint of the whole payload.  No payload says *)
(* when it was fired.                                                      *)
(***************************************************************************)
DeduplicationKey(p) == IF p.id = None THEN <<p.hook, "hmac", p>> ELSE <<p.hook, "id", p.id>>

SameIdentity(p) ==
    {r \in Receipts : /\ stored[r] # NoPayload
                      /\ stored[r].session = p.session
                      /\ DeduplicationKey(stored[r]) = DeduplicationKey(p)}

Answer(i, status) ==
    delivery' = [delivery EXCEPT ![i].request = "handled", ![i].status = status]

InsertReceipt(p) ==
    \E r \in Receipts, d \in ClockSteps :
        /\ Accept(r, p.session, p.workspace, p.hook, d)
        /\ stored' = [stored EXCEPT ![r] = p]

(* Mutant: a receipt of the same identity is taken for the same delivery. *)
AnswersToIdentity(i) ==
    LET p == delivery[i].payload IN
    \/ SameIdentity(p) = {} /\ InsertReceipt(p) /\ Answer(i, 202)
    \/ /\ SameIdentity(p) # {} /\ Answer(i, 202)
       /\ UNCHANGED <<lifecycleVars, stored>>

(***************************************************************************)
(* One transaction: insert, or compare the fingerprint of the receipt that *)
(* has this identity.                                                      *)
(***************************************************************************)
InsertPreparedOrGetExisting(i) ==
    LET p == delivery[i].payload IN
    \/ SameIdentity(p) = {} /\ InsertReceipt(p) /\ Answer(i, 202)
    \/ /\ \E r \in SameIdentity(p) : Answer(i, IF stored[r] = p THEN 202 ELSE 409)
       /\ UNCHANGED <<lifecycleVars, stored>>

(***************************************************************************)
(* Committed before it is answered.  A payload that cannot be prepared, or *)
(* a database that refuses it, leaves nothing behind.                      *)
(***************************************************************************)
Handle(i) ==
    /\ server.up /\ delivery[i].request = "sent"
    /\ \/ InsertPreparedOrGetExisting(i) /\ UNCHANGED lost
       \/ /\ \E status \in {400, 503} : Answer(i, status)
          /\ Lose
          /\ UNCHANGED <<lifecycleVars, stored>>
    /\ UNCHANGED <<server, boundary>>

(***************************************************************************)
(* The daemon dies: its open connections break, answered or not.           *)
(***************************************************************************)
CrashServer ==
    /\ server.up
    /\ Lose
    /\ server' = [server EXCEPT !.up = FALSE]
    /\ delivery' = [i \in Firings |->
            IF delivery[i].adapter = "waiting" \/ delivery[i].request = "sent"
            THEN [delivery[i] EXCEPT !.request = "lost"] ELSE delivery[i]]
    /\ UNCHANGED <<lifecycleVars, stored, boundary>>

BootServer ==
    /\ ~server.up
    /\ server' = [up |-> TRUE, port |-> server.port + 1]
    /\ UNCHANGED <<lifecycleVars, delivery, stored, lost, boundary>>

WorkOff ==
    /\ server.up
    /\ ResolveOldest
    /\ UNCHANGED deliveryVars

DeliveryNext ==
    \/ \E i \in Firings : \/ \E p \in Payloads : Launch(i, p)
                          \/ SkipInput(i) \/ Post(i) \/ TimeOut(i) \/ Receive(i) \/ Handle(i)
    \/ CrashServer \/ BootServer \/ WorkOff

DeliverySpec == DeliveryInit /\ [][DeliveryNext]_<<lifecycleVars, deliveryVars>>

-----------------------------------------------------------------------------
(***************************************************************************)
(* What the adapter reports as delivered is in the journal, once, with the *)
(* very payload that was fired: through timeouts, crashes between commit   *)
(* and answer, payloads fired twice and payloads that share an event id.   *)
(***************************************************************************)
AcceptedIsJournalled ==
    \A i \in Firings : delivery[i].adapter = "delivered" =>
        \E r \in Receipts : /\ stored[r] = delivery[i].payload
                            /\ receipt[r].hook = stored[r].hook
                            /\ \A q \in Receipts \ {r} : stored[q] # stored[r]

(***************************************************************************)
(* ADR-0003: SessionStart creates or resumes the conversation.  Once its   *)
(* hooks are worked off, a session whose last acknowledged boundary was a  *)
(* start is active.                                                        *)
(***************************************************************************)
ResumedSessionIsActive ==
    \A s \in Sessions :
        (/\ Pending = {}
         /\ \A i \in Firings : ~Under(i)
         /\ boundary[s] = "SessionStart") => conversation[s].status = "Active"

=============================================================================
