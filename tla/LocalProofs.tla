------------------------------ MODULE LocalProofs ------------------------------
(***************************************************************************)
(* Proofs about what runs on the developer's machine beside the pump.      *)
(* Delivery: what an adapter calls delivered is journalled once, for any   *)
(* payloads and any number of firings, timeouts and crashes of the daemon. *)
(* Installation: for any number of daemon processes, commands and faults,  *)
(* the state file keeps a second daemon from serving, and no agent         *)
(* settings name a launcher that is not there, but for the ways the two    *)
(* history variables record.                                               *)
(***************************************************************************)
EXTENDS HookDelivery, Installation, LifecycleProofs, TLAPS

-----------------------------------------------------------------------------
(* Delivery *)

(***************************************************************************)
(* A hook that was fired carries a payload, and only such a hook is posted.*)
(***************************************************************************)
FiredHavePayload ==
    \A i \in Firings :
        /\ delivery[i].adapter # "idle" => delivery[i].payload \in Payloads
        /\ delivery[i].request # "none" => delivery[i].adapter # "idle"

(***************************************************************************)
(* A receipt and its payload are inserted together, and agree.             *)
(***************************************************************************)
StoredIsJournalled ==
    \A r \in Receipts :
        /\ stored[r] = NoPayload <=> receipt[r].status = None
        /\ stored[r] # NoPayload => receipt[r].hook = stored[r].hook

StoredOnce ==
    \A r, q \in Receipts : (stored[r] # NoPayload /\ stored[r] = stored[q]) => r = q

(***************************************************************************)
(* 202 is answered for what is stored, whether or not the adapter still    *)
(* hears it.                                                               *)
(***************************************************************************)
AcknowledgedIsStored ==
    \A i \in Firings : (delivery[i].request = "handled" /\ delivery[i].status = 202) =>
        \E r \in Receipts : stored[r] = delivery[i].payload

DeliveredWasAcknowledged ==
    \A i \in Firings : delivery[i].adapter = "delivered" =>
        delivery[i].request = "handled" /\ delivery[i].status = 202

DeliveryInv ==
    /\ TypeInv
    /\ DeliveryTypeOK
    /\ FiredHavePayload
    /\ StoredIsJournalled
    /\ StoredOnce
    /\ AcknowledgedIsStored
    /\ DeliveredWasAcknowledged

LEMMA DeliveryFacts ==
    /\ MaxFirings \in Nat /\ MaxLost \in Nat
    /\ NoPayload \notin Payloads
    /\ \A p \in Payloads : /\ p.session \in Sessions /\ p.workspace \in Workspaces
                           /\ p.hook \in Hooks
BY DeliveryConstants, LifecycleConstants DEF DeliveryConstants, LifecycleConstants, NoPayload

(***************************************************************************)
(* A row of the delivery table, updated field by field.                    *)
(***************************************************************************)
LEMMA LaunchUpdate ==
    ASSUME NEW row \in DeliveryRow, NEW p \in Payloads, NEW n \in Nat,
           NEW adapter \in {"launched", "skipped"}
    PROVE  [row EXCEPT !.payload = p, !.port = n, !.adapter = adapter] \in DeliveryRow
<1>1. [row EXCEPT !.payload = p] \in DeliveryRow
  BY DEF DeliveryRow
<1>2. \A x \in DeliveryRow : [x EXCEPT !.port = n] \in DeliveryRow
  BY DEF DeliveryRow
<1>3. \A x \in DeliveryRow : [x EXCEPT !.adapter = adapter] \in DeliveryRow
  BY DEF DeliveryRow
<1> QED
  BY <1>1, <1>2, <1>3

LEMMA AdapterUpdate ==
    ASSUME NEW row \in DeliveryRow,
           NEW adapter \in {"idle", "launched", "waiting", "delivered", "skipped"},
           NEW request \in {"none", "sent", "handled", "lost"}
    PROVE  [row EXCEPT !.adapter = adapter, !.request = request] \in DeliveryRow
<1>1. [row EXCEPT !.adapter = adapter] \in DeliveryRow
  BY DEF DeliveryRow
<1>2. \A x \in DeliveryRow : [x EXCEPT !.request = request] \in DeliveryRow
  BY DEF DeliveryRow
<1> QED
  BY <1>1, <1>2

LEMMA AnswerUpdate ==
    ASSUME NEW i \in Firings, delivery \in [Firings -> DeliveryRow],
           NEW status \in {0, 202, 400, 409, 503}, Answer(i, status)
    PROVE  /\ delivery' \in [Firings -> DeliveryRow]
           /\ delivery'[i].payload = delivery[i].payload
           /\ delivery'[i].adapter = delivery[i].adapter
           /\ delivery'[i].request = "handled" /\ delivery'[i].status = status
           /\ \A j \in Firings \ {i} : delivery'[j] = delivery[j]
<1> DEFINE asked == [delivery EXCEPT ![i].request = "handled"]
<1>1. asked \in [Firings -> DeliveryRow] /\ asked[i].request = "handled"
  BY DEF DeliveryRow
<1>2. /\ asked[i].payload = delivery[i].payload /\ asked[i].adapter = delivery[i].adapter
      /\ \A j \in Firings \ {i} : asked[j] = delivery[j]
  BY DEF DeliveryRow
<1>3. delivery' = [asked EXCEPT ![i].status = status]
  BY DEF Answer
<1> HIDE DEF asked
<1>4. delivery' \in [Firings -> DeliveryRow] /\ delivery'[i].status = status
  BY <1>1, <1>3 DEF DeliveryRow
<1>5. /\ delivery'[i].payload = asked[i].payload /\ delivery'[i].adapter = asked[i].adapter
      /\ delivery'[i].request = asked[i].request
      /\ \A j \in Firings \ {i} : delivery'[j] = asked[j]
  BY <1>1, <1>3 DEF DeliveryRow
<1> QED
  BY <1>1, <1>2, <1>4, <1>5

LEMMA DeliveryStart == DeliveryInit => DeliveryInv
<1> SUFFICES ASSUME DeliveryInit PROVE DeliveryInv
  OBVIOUS
<1>1. TypeInv
  BY TypeInit DEF DeliveryInit
<1>2. /\ \A i \in Firings : delivery[i] = [payload |-> NoPayload, port |-> 0, adapter |-> "idle",
                                           request |-> "none", status |-> 0]
      /\ \A r \in Receipts : stored[r] = NoPayload /\ receipt[r].status = None
  BY DEF DeliveryInit, LifecycleInit
<1>3. DeliveryTypeOK
  <2>1. [payload |-> NoPayload, port |-> 0, adapter |-> "idle", request |-> "none",
         status |-> 0] \in DeliveryRow
    BY DEF DeliveryRow
  <2> QED
    BY <2>1, DeliveryFacts DEF DeliveryInit, DeliveryTypeOK
<1> QED
  BY <1>1, <1>2, <1>3
     DEF DeliveryInv, FiredHavePayload, StoredIsJournalled, StoredOnce, AcknowledgedIsStored,
         DeliveredWasAcknowledged

-----------------------------------------------------------------------------
(* What the operations do to the journal *)

LEMMA WorkOffKeepsHooks ==
    ASSUME TypeInv, ResolveOldest
    PROVE  \A a \in Receipts : /\ receipt'[a].hook = receipt[a].hook
                               /\ receipt'[a].status = None <=> receipt[a].status = None
<1>1. PICK r \in Receipts : Resolve(r)
  BY DEF ResolveOldest
<1>2. PICK status \in {"processed", "failed"} : receipt' = [receipt EXCEPT ![r].status = status]
  BY <1>1, ResolveRecords DEF RecordResolution
<1>3. receipt[r].status = "pending"
  BY <1>1 DEF Resolve
<1> QED
  BY <1>2, <1>3 DEF TypeInv, LifecycleTypeOK, ReceiptRow, None

(***************************************************************************)
(* An identity that is not there belongs to a payload that is not there.   *)
(***************************************************************************)
LEMMA NewIdentityIsNewPayload ==
    ASSUME NEW p \in Payloads, SameIdentity(p) = {}
    PROVE  \A r \in Receipts : stored[r] # p
BY DeliveryFacts DEF SameIdentity

(***************************************************************************)
(* What HookDelivery does to the tables of the journal is what Lifecycle   *)
(* allows.                                                                 *)
(***************************************************************************)
LEMMA DeliveryDrivesLifecycle ==
    ASSUME DeliveryInv, [DeliveryNext]_<<lifecycleVars, deliveryVars>>
    PROVE  [LifecycleNext]_lifecycleVars
<1>1. ASSUME NEW i \in Firings, Handle(i)
      PROVE  [LifecycleNext]_lifecycleVars
  <2>1. delivery[i].payload \in Payloads
    BY <1>1 DEF Handle, DeliveryInv, FiredHavePayload
  <2>2. ASSUME InsertReceipt(delivery[i].payload)
        PROVE  AcceptAny
    BY <2>1, <2>2, DeliveryFacts DEF InsertReceipt, AcceptAny
  <2> QED
    BY <1>1, <2>2 DEF Handle, InsertPreparedOrGetExisting, LifecycleNext
<1>2. ASSUME NEW i \in Firings, ~Handle(i),
             \/ \E p \in Payloads : Launch(i, p)
             \/ SkipInput(i) \/ Post(i) \/ TimeOut(i) \/ Receive(i)
      PROVE  [LifecycleNext]_lifecycleVars
  BY <1>2 DEF Launch, SkipInput, Post, TimeOut, Receive
<1>3. CASE CrashServer \/ BootServer
  BY <1>3 DEF CrashServer, BootServer
<1>4. CASE WorkOff
  BY <1>4 DEF WorkOff, LifecycleNext
<1> QED
  BY <1>1, <1>2, <1>3, <1>4 DEF DeliveryNext

-----------------------------------------------------------------------------
(***************************************************************************)
(* A step that moves neither the journal nor a request: the adapter's own. *)
(***************************************************************************)
LEMMA AdapterStep ==
    ASSUME DeliveryInv, NEW i \in Firings,
           UNCHANGED <<lifecycleVars, stored>>,
           \A j \in Firings \ {i} : delivery'[j] = delivery[j],
           DeliveryTypeOK',
           delivery'[i].adapter # "idle", delivery'[i].payload \in Payloads,
           \/ delivery'[i].request \in {"none", "sent", "lost"}
           \/ /\ delivery'[i].request = delivery[i].request
              /\ delivery'[i].status = delivery[i].status
              /\ delivery'[i].payload = delivery[i].payload,
           delivery'[i].adapter = "delivered" =>
               delivery[i].request = "handled" /\ delivery[i].status = 202 /\
               delivery'[i].request = "handled" /\ delivery'[i].status = 202
    PROVE  DeliveryInv'
<1>1. TypeInv'
  BY TypeStep DEF DeliveryInv
<1>2. FiredHavePayload'
  BY DEF DeliveryInv, FiredHavePayload
<1>3. StoredIsJournalled' /\ StoredOnce'
  BY DEF DeliveryInv, StoredIsJournalled, StoredOnce, lifecycleVars
<1>4. AcknowledgedIsStored'
  BY DEF DeliveryInv, AcknowledgedIsStored
<1>5. DeliveredWasAcknowledged'
  BY DEF DeliveryInv, DeliveredWasAcknowledged
<1> QED
  BY <1>1, <1>2, <1>3, <1>4, <1>5 DEF DeliveryInv

LEMMA AdapterTypes ==
    ASSUME DeliveryTypeOK, NEW i \in Firings, NEW row,
           delivery' = [delivery EXCEPT ![i] = row],
           row \in DeliveryRow,
           UNCHANGED <<stored, server>>, lost' \in 0 .. MaxLost,
           boundary' \in [Sessions -> Boundaries \cup {None}]
    PROVE  /\ DeliveryTypeOK'
           /\ delivery'[i] = row
           /\ \A j \in Firings \ {i} : delivery'[j] = delivery[j]
BY DEF DeliveryTypeOK

LEMMA LaunchStep ==
    ASSUME DeliveryInv, NEW i \in Firings, NEW p \in Payloads, Launch(i, p)
    PROVE  DeliveryInv'
<1> DEFINE adapter == IF server.up THEN "launched" ELSE "skipped"
           row == [delivery[i] EXCEPT !.payload = p, !.port = server.port, !.adapter = adapter]
<1>1. /\ DeliveryTypeOK /\ delivery[i].adapter = "idle" /\ delivery[i].request = "none"
      /\ server.port \in Nat
  BY DEF DeliveryInv, FiredHavePayload, DeliveryTypeOK, DeliveryRow, Launch
<1>2. delivery \in [Firings -> DeliveryRow] /\ delivery[i] \in DeliveryRow
  BY <1>1 DEF DeliveryTypeOK
<1>3. /\ delivery' = [delivery EXCEPT ![i] = row]
      /\ UNCHANGED <<lifecycleVars, stored, server, lost, boundary>>
  BY <1>2 DEF Launch
<1>6. /\ row.payload = p /\ row.adapter \in {"launched", "skipped"} /\ row.request = "none"
      /\ row \in DeliveryRow
  <2>1. adapter \in {"launched", "skipped"}
    OBVIOUS
  <2> HIDE DEF adapter
  <2>2. row \in DeliveryRow
    BY <1>1, <1>2, <2>1, LaunchUpdate
  <2>3. row.payload = p /\ row.adapter = adapter /\ row.request = "none"
    BY <1>1, <1>2 DEF DeliveryRow
  <2> QED
    BY <2>1, <2>2, <2>3
<1> HIDE DEF row
<1>4. lost' \in 0 .. MaxLost /\ boundary' \in [Sessions -> Boundaries \cup {None}]
  BY <1>1, <1>3 DEF DeliveryTypeOK
<1>5. /\ DeliveryTypeOK' /\ delivery'[i] = row
      /\ \A j \in Firings \ {i} : delivery'[j] = delivery[j]
  BY <1>1, <1>3, <1>6, <1>4, AdapterTypes
<1> QED
  BY <1>3, <1>6, <1>5, AdapterStep

(***************************************************************************)
(* The rest of the adapter's steps leave the payload of the hook as it is. *)
(***************************************************************************)
LEMMA UpdateStep ==
    ASSUME DeliveryInv, NEW i \in Firings,
           NEW adapter \in {"launched", "waiting", "delivered", "skipped"},
           NEW request \in {"none", "sent", "handled", "lost"},
           delivery[i].adapter # "idle",
           delivery' = [delivery EXCEPT ![i].adapter = adapter, ![i].request = request],
           request # delivery[i].request => request = "sent",
           adapter = "delivered" => request = "handled" /\ delivery[i].status = 202,
           UNCHANGED <<lifecycleVars, stored, server>>, lost' \in 0 .. MaxLost,
           boundary' \in [Sessions -> Boundaries \cup {None}]
    PROVE  DeliveryInv'
<1> DEFINE row == [delivery[i] EXCEPT !.adapter = adapter, !.request = request]
<1>1. /\ DeliveryTypeOK /\ delivery[i].payload \in Payloads
      /\ delivery \in [Firings -> DeliveryRow] /\ delivery[i] \in DeliveryRow
  BY DEF DeliveryInv, FiredHavePayload, DeliveryTypeOK
<1>2. delivery' = [delivery EXCEPT ![i] = row]
  BY <1>1
<1>3. /\ row.payload = delivery[i].payload /\ row.status = delivery[i].status
      /\ row.adapter = adapter /\ row.request = request
      /\ row \in DeliveryRow
  <2>1. row \in DeliveryRow
    BY <1>1, AdapterUpdate
  <2> QED
    BY <1>1, <2>1 DEF DeliveryRow
<1> HIDE DEF row
<1>4. /\ DeliveryTypeOK' /\ delivery'[i] = row
      /\ \A j \in Firings \ {i} : delivery'[j] = delivery[j]
  BY <1>1, <1>2, <1>3, AdapterTypes
<1>5. \/ delivery'[i].request \in {"none", "sent", "lost"}
      \/ /\ delivery'[i].request = delivery[i].request
         /\ delivery'[i].status = delivery[i].status
         /\ delivery'[i].payload = delivery[i].payload
  BY <1>3, <1>4
<1>6. delivery'[i].adapter = "delivered" =>
          delivery[i].request = "handled" /\ delivery[i].status = 202 /\
          delivery'[i].request = "handled" /\ delivery'[i].status = 202
  BY <1>3, <1>4
<1>7. delivery'[i].adapter # "idle" /\ delivery'[i].payload \in Payloads
  BY <1>1, <1>3, <1>4
<1> QED
  BY <1>4, <1>5, <1>6, <1>7, AdapterStep

LEMMA AdapterMoves ==
    ASSUME DeliveryInv, NEW i \in Firings,
           SkipInput(i) \/ Post(i) \/ TimeOut(i) \/ Receive(i)
    PROVE  DeliveryInv'
<1>1. DeliveryTypeOK /\ lost \in 0 .. MaxLost /\ boundary \in [Sessions -> Boundaries \cup {None}]
  BY DEF DeliveryInv, DeliveryTypeOK
<1>2. Lose => lost' \in 0 .. MaxLost
  BY <1>1, DeliveryFacts DEF Lose
<1>3. \A adapter \in {"launched", "waiting", "delivered", "skipped"} :
        [delivery EXCEPT ![i].adapter = adapter] =
        [delivery EXCEPT ![i].adapter = adapter, ![i].request = delivery[i].request]
  BY <1>1 DEF DeliveryTypeOK
<1>4. delivery[i].request \in {"none", "sent", "handled", "lost"}
  BY <1>1 DEF DeliveryTypeOK, DeliveryRow
<1>5. CASE SkipInput(i)
  BY <1>1, <1>2, <1>3, <1>4, <1>5, UpdateStep DEF SkipInput
<1>6. CASE Post(i)
  BY <1>1, <1>3, <1>4, <1>6, UpdateStep DEF Post
<1>7. CASE TimeOut(i)
  BY <1>1, <1>2, <1>3, <1>4, <1>7, UpdateStep DEF TimeOut
<1>8. CASE Receive(i)
  <2>1. delivery[i].payload \in Payloads
    BY <1>8 DEF Receive, DeliveryInv, FiredHavePayload
  <2>2. boundary' \in [Sessions -> Boundaries \cup {None}]
    BY <1>1, <1>8, <2>1, DeliveryFacts DEF Receive
  <2>3. CASE delivery[i].request = "handled" /\ delivery[i].status = 202
    <3>1. delivery' = [delivery EXCEPT ![i].adapter = "delivered", ![i].request = "handled"]
      BY <1>3, <1>8, <2>3 DEF Receive
    <3>2. /\ UNCHANGED <<lifecycleVars, stored, server>> /\ lost' \in 0 .. MaxLost
          /\ delivery[i].adapter # "idle"
      BY <1>1, <1>8 DEF Receive
    <3> QED
      BY <2>2, <2>3, <3>1, <3>2, UpdateStep
  <2>4. CASE ~(delivery[i].request = "handled" /\ delivery[i].status = 202)
    BY <1>1, <1>3, <1>4, <1>8, <2>2, <2>4, UpdateStep DEF Receive
  <2> QED
    BY <2>3, <2>4
<1> QED
  BY <1>5, <1>6, <1>7, <1>8

-----------------------------------------------------------------------------
(* The ingress route *)

(***************************************************************************)
(* An answer to hook i, with what it says of the journal after the step.   *)
(***************************************************************************)
LEMMA AnswerStep ==
    ASSUME DeliveryInv, TypeInv', NEW i \in Firings, delivery[i].request = "sent",
           NEW status \in {202, 400, 409, 503}, Answer(i, status),
           lost' \in 0 .. MaxLost, UNCHANGED <<server, boundary>>,
           stored' \in [Receipts -> Payloads \cup {NoPayload}],
           StoredIsJournalled', StoredOnce',
           \A r \in Receipts : stored[r] # NoPayload => stored'[r] = stored[r],
           status = 202 => \E r \in Receipts : stored'[r] = delivery[i].payload
    PROVE  DeliveryInv'
<1>1. /\ DeliveryTypeOK /\ delivery[i].payload \in Payloads /\ delivery[i].adapter # "idle"
      /\ delivery \in [Firings -> DeliveryRow] /\ delivery[i] \in DeliveryRow
  BY DEF DeliveryInv, FiredHavePayload, DeliveryTypeOK
<1>2. /\ delivery'[i].payload = delivery[i].payload /\ delivery'[i].adapter = delivery[i].adapter
      /\ delivery'[i].request = "handled" /\ delivery'[i].status = status
      /\ \A j \in Firings \ {i} : delivery'[j] = delivery[j]
      /\ delivery' \in [Firings -> DeliveryRow]
  <2>1. status \in {0, 202, 400, 409, 503}
    OBVIOUS
  <2> QED
    BY <1>1, <2>1, AnswerUpdate
<1>3. DeliveryTypeOK'
  BY <1>1, <1>2 DEF DeliveryTypeOK
<1>4. FiredHavePayload'
  BY <1>1, <1>2 DEF DeliveryInv, FiredHavePayload
<1>5. AcknowledgedIsStored'
  <2> SUFFICES ASSUME NEW j \in Firings, delivery'[j].request = "handled",
                      delivery'[j].status = 202
               PROVE  \E r \in Receipts : stored'[r] = delivery'[j].payload
    BY DEF AcknowledgedIsStored
  <2>1. CASE j = i
    BY <1>2, <2>1
  <2>2. CASE j # i
    <3>1. delivery'[j] = delivery[j]
      BY <1>2, <2>2
    <3>2. delivery[j].payload # NoPayload
      BY <3>1, DeliveryFacts DEF DeliveryInv, FiredHavePayload
    <3> QED
      BY <3>1, <3>2 DEF DeliveryInv, AcknowledgedIsStored
  <2> QED
    BY <2>1, <2>2
<1>6. DeliveredWasAcknowledged'
  BY <1>2 DEF DeliveryInv, DeliveredWasAcknowledged
<1> QED
  BY <1>3, <1>4, <1>5, <1>6 DEF DeliveryInv

LEMMA InsertStep ==
    ASSUME DeliveryInv, TypeInv', NEW p \in Payloads, SameIdentity(p) = {}, InsertReceipt(p)
    PROVE  /\ stored' \in [Receipts -> Payloads \cup {NoPayload}]
           /\ StoredIsJournalled' /\ StoredOnce'
           /\ \A r \in Receipts : stored[r] # NoPayload => stored'[r] = stored[r]
           /\ \E r \in Receipts : stored'[r] = p
<1>1. PICK r \in Receipts, d \in ClockSteps :
        /\ Accept(r, p.session, p.workspace, p.hook, d)
        /\ stored' = [stored EXCEPT ![r] = p]
  BY DEF InsertReceipt
<1>2. /\ stored[r] = NoPayload /\ stored \in [Receipts -> Payloads \cup {NoPayload}]
      /\ p # NoPayload /\ \A q \in Receipts : stored[q] # p
  BY <1>1, NewIdentityIsNewPayload, DeliveryFacts
     DEF Accept, DeliveryInv, StoredIsJournalled, DeliveryTypeOK
<1>3. /\ receipt'[r].hook = p.hook /\ receipt'[r].status = "pending"
      /\ \A q \in Receipts \ {r} : receipt'[q] = receipt[q]
  BY <1>1 DEF Accept, DeliveryInv, TypeInv, LifecycleTypeOK
<1>4. /\ stored'[r] = p /\ \A q \in Receipts \ {r} : stored'[q] = stored[q]
      /\ stored' \in [Receipts -> Payloads \cup {NoPayload}]
  BY <1>1, <1>2
<1>5. StoredIsJournalled'
  BY <1>2, <1>3, <1>4 DEF DeliveryInv, StoredIsJournalled, None
<1>6. StoredOnce'
  BY <1>2, <1>4 DEF DeliveryInv, StoredOnce
<1> QED
  BY <1>2, <1>4, <1>5, <1>6

LEMMA HandleStep ==
    ASSUME DeliveryInv, TypeInv', NEW i \in Firings, Handle(i)
    PROVE  DeliveryInv'
<1>1. /\ DeliveryTypeOK /\ delivery[i].request = "sent" /\ delivery[i].payload \in Payloads
      /\ UNCHANGED <<server, boundary>>
  BY DEF DeliveryInv, FiredHavePayload, Handle
<1>2. lost \in 0 .. MaxLost /\ (Lose => lost' \in 0 .. MaxLost)
  BY <1>1, DeliveryFacts DEF DeliveryTypeOK, Lose
<1>3. ASSUME UNCHANGED <<lifecycleVars, stored>>
      PROVE  /\ stored' \in [Receipts -> Payloads \cup {NoPayload}]
             /\ StoredIsJournalled' /\ StoredOnce'
             /\ \A r \in Receipts : stored[r] # NoPayload => stored'[r] = stored[r]
  BY <1>1, <1>3
     DEF DeliveryInv, StoredIsJournalled, StoredOnce, lifecycleVars, DeliveryTypeOK
<1>4. CASE /\ SameIdentity(delivery[i].payload) = {} /\ InsertReceipt(delivery[i].payload)
           /\ Answer(i, 202) /\ UNCHANGED lost
  <2>1. lost' \in 0 .. MaxLost
    BY <1>2, <1>4
  <2> QED
    BY <1>1, <1>4, <2>1, InsertStep, AnswerStep
<1>5. CASE /\ \E r \in SameIdentity(delivery[i].payload) :
                  Answer(i, IF stored[r] = delivery[i].payload THEN 202 ELSE 409)
           /\ UNCHANGED <<lifecycleVars, stored, lost>>
  <2>1. PICK r \in Receipts :
          Answer(i, IF stored[r] = delivery[i].payload THEN 202 ELSE 409)
    BY <1>5 DEF SameIdentity
  <2>2. lost' \in 0 .. MaxLost
    BY <1>2, <1>5
  <2>3. CASE stored[r] = delivery[i].payload
    <3>1. Answer(i, 202) /\ stored'[r] = delivery[i].payload
      BY <1>5, <2>1, <2>3
    <3> QED
      BY <1>1, <1>3, <1>5, <2>2, <3>1, AnswerStep
  <2>4. CASE stored[r] # delivery[i].payload
    <3>1. Answer(i, 409)
      BY <2>1, <2>4
    <3> QED
      BY <1>1, <1>3, <1>5, <2>2, <3>1, AnswerStep
  <2> QED
    BY <2>3, <2>4
<1>6. CASE (\E status \in {400, 503} : Answer(i, status)) /\ Lose /\ UNCHANGED <<lifecycleVars, stored>>
  BY <1>1, <1>2, <1>3, <1>6, AnswerStep
<1> QED
  BY <1>4, <1>5, <1>6 DEF Handle, InsertPreparedOrGetExisting

-----------------------------------------------------------------------------
LEMMA CrashStep ==
    ASSUME DeliveryInv, TypeInv', CrashServer
    PROVE  DeliveryInv'
<1>1. /\ DeliveryTypeOK /\ UNCHANGED <<lifecycleVars, stored, boundary>>
      /\ delivery \in [Firings -> DeliveryRow]
  BY DEF DeliveryInv, CrashServer, DeliveryTypeOK
<1>2. \A j \in Firings :
        \/ delivery'[j] = delivery[j]
        \/ /\ delivery'[j] = [delivery[j] EXCEPT !.request = "lost"]
           /\ delivery[j].adapter = "waiting" \/ delivery[j].request = "sent"
  BY <1>1 DEF CrashServer
<1>3. DeliveryTypeOK'
  <2>1. lost' \in 0 .. MaxLost /\ server' \in [up: BOOLEAN, port: Nat]
    <3>1. lost \in 0 .. MaxLost /\ lost < MaxLost /\ lost' = lost + 1
      BY <1>1 DEF CrashServer, Lose, DeliveryTypeOK
    <3>2. server \in [up: BOOLEAN, port: Nat] /\ server' = [server EXCEPT !.up = FALSE]
      BY <1>1 DEF CrashServer, DeliveryTypeOK
    <3>3. lost' \in 0 .. MaxLost
      BY <3>1, DeliveryFacts
    <3>4. server' \in [up: BOOLEAN, port: Nat]
      BY <3>2
    <3> QED
      BY <3>3, <3>4
  <2>2. \A row \in DeliveryRow : [row EXCEPT !.request = "lost"] \in DeliveryRow
    BY DEF DeliveryRow
  <2>3. \A j \in Firings : delivery'[j] \in DeliveryRow
    BY <1>1, <1>2, <2>2
  <2>4. delivery' \in [Firings -> DeliveryRow]
    BY <2>3 DEF CrashServer
  <2> QED
    BY <1>1, <2>1, <2>4 DEF DeliveryTypeOK
<1>8. \A row \in DeliveryRow :
        /\ [row EXCEPT !.request = "lost"].payload = row.payload
        /\ [row EXCEPT !.request = "lost"].adapter = row.adapter
        /\ [row EXCEPT !.request = "lost"].status = row.status
        /\ [row EXCEPT !.request = "lost"].request = "lost"
  BY DEF DeliveryRow
<1>7. \A j \in Firings :
        /\ delivery'[j].payload = delivery[j].payload
        /\ delivery'[j].adapter = delivery[j].adapter
        /\ delivery'[j].status = delivery[j].status
        /\ \/ delivery'[j].request = delivery[j].request
           \/ /\ delivery'[j].request = "lost"
              /\ delivery[j].adapter = "waiting" \/ delivery[j].request = "sent"
  <2> SUFFICES ASSUME NEW j \in Firings
               PROVE  /\ delivery'[j].payload = delivery[j].payload
                      /\ delivery'[j].adapter = delivery[j].adapter
                      /\ delivery'[j].status = delivery[j].status
                      /\ \/ delivery'[j].request = delivery[j].request
                         \/ /\ delivery'[j].request = "lost"
                            /\ \/ delivery[j].adapter = "waiting"
                               \/ delivery[j].request = "sent"
    OBVIOUS
  <2>1. delivery[j] \in DeliveryRow
    BY <1>1
  <2>2. CASE delivery'[j] = delivery[j]
    BY <2>2
  <2>3. CASE /\ delivery'[j] = [delivery[j] EXCEPT !.request = "lost"]
             /\ delivery[j].adapter = "waiting" \/ delivery[j].request = "sent"
    BY <1>8, <2>1, <2>3
  <2> QED
    BY <1>2, <2>2, <2>3
<1>4. FiredHavePayload'
  BY <1>7 DEF DeliveryInv, FiredHavePayload
<1>5. StoredIsJournalled' /\ StoredOnce'
  BY <1>1 DEF DeliveryInv, StoredIsJournalled, StoredOnce, lifecycleVars
<1>6. AcknowledgedIsStored' /\ DeliveredWasAcknowledged'
  BY <1>1, <1>7 DEF DeliveryInv, AcknowledgedIsStored, DeliveredWasAcknowledged
<1> QED
  BY <1>3, <1>4, <1>5, <1>6 DEF DeliveryInv

LEMMA WorkOffStep ==
    ASSUME DeliveryInv, TypeInv', WorkOff
    PROVE  DeliveryInv'
<1>1. UNCHANGED deliveryVars
  BY DEF WorkOff
<1>2. StoredIsJournalled'
  BY <1>1, WorkOffKeepsHooks DEF WorkOff, deliveryVars, DeliveryInv, StoredIsJournalled
<1> QED
  BY <1>1, <1>2
     DEF deliveryVars, DeliveryInv, DeliveryTypeOK, FiredHavePayload, StoredOnce,
         AcknowledgedIsStored, DeliveredWasAcknowledged

LEMMA DeliveryStep ==
    DeliveryInv /\ [DeliveryNext]_<<lifecycleVars, deliveryVars>> => DeliveryInv'
<1> SUFFICES ASSUME DeliveryInv, [DeliveryNext]_<<lifecycleVars, deliveryVars>>
             PROVE  DeliveryInv'
  OBVIOUS
<1>1. TypeInv'
  BY DeliveryDrivesLifecycle, TypeStep DEF DeliveryInv
<1>2. CASE \E i \in Firings : \/ \E p \in Payloads : Launch(i, p)
                              \/ SkipInput(i) \/ Post(i) \/ TimeOut(i) \/ Receive(i) \/ Handle(i)
  BY <1>1, <1>2, LaunchStep, AdapterMoves, HandleStep
<1>3. CASE CrashServer
  BY <1>1, <1>3, CrashStep
<1>4. CASE BootServer
  <2>1. DeliveryTypeOK'
    BY <1>4 DEF BootServer, DeliveryInv, DeliveryTypeOK
  <2> QED
    BY <1>1, <1>4, <2>1
       DEF BootServer, lifecycleVars, DeliveryInv, FiredHavePayload, StoredIsJournalled,
           StoredOnce, AcknowledgedIsStored, DeliveredWasAcknowledged
<1>5. CASE WorkOff
  BY <1>1, <1>5, WorkOffStep
<1>6. CASE UNCHANGED <<lifecycleVars, deliveryVars>>
  BY <1>1, <1>6
     DEF lifecycleVars, deliveryVars, DeliveryInv, DeliveryTypeOK, FiredHavePayload,
         StoredIsJournalled, StoredOnce, AcknowledgedIsStored, DeliveredWasAcknowledged
<1> QED
  BY <1>2, <1>3, <1>4, <1>5, <1>6 DEF DeliveryNext

LEMMA DeliveryInvariant == DeliverySpec => []DeliveryInv
BY DeliveryStart, DeliveryStep, PTL DEF DeliverySpec

(***************************************************************************)
(* Types, for any number of firings, payloads, losses and crashes.         *)
(***************************************************************************)
THEOREM DeliveryTypeCorrect == DeliverySpec => []DeliveryTypeOK
<1>1. DeliveryInv => DeliveryTypeOK
  BY DEF DeliveryInv
<1> QED
  BY <1>1, DeliveryInvariant, PTL

(***************************************************************************)
(* What an adapter reports as delivered is in the journal exactly once,    *)
(* under its own hook: timeouts, daemons that die between commit and       *)
(* answer, and payloads fired again by the agent change nothing about it.  *)
(***************************************************************************)
THEOREM DeliveredIsJournalled == DeliverySpec => []AcceptedIsJournalled
<1>1. DeliveryInv => AcceptedIsJournalled
  <2> SUFFICES ASSUME DeliveryInv, NEW i \in Firings, delivery[i].adapter = "delivered"
               PROVE  \E r \in Receipts : /\ stored[r] = delivery[i].payload
                                          /\ receipt[r].hook = stored[r].hook
                                          /\ \A q \in Receipts \ {r} : stored[q] # stored[r]
    BY DEF AcceptedIsJournalled
  <2>1. PICK r \in Receipts : stored[r] = delivery[i].payload
    BY DEF DeliveryInv, DeliveredWasAcknowledged, AcknowledgedIsStored
  <2>2. stored[r] # NoPayload
    BY <2>1, DeliveryFacts DEF DeliveryInv, FiredHavePayload
  <2> QED
    BY <2>1, <2>2 DEF DeliveryInv, StoredIsJournalled, StoredOnce
<1> QED
  BY <1>1, DeliveryInvariant, PTL

(***************************************************************************)
(* Delivery by hooks is one of the journals the lifecycle processor was    *)
(* proved for: what is shown of LifecycleSafety holds of every receipt     *)
(* that came in through launcher, adapter and ingress route, and the runs  *)
(* they start keep the run promise.                                        *)
(***************************************************************************)
THEOREM DeliveryImplementsLifecycle == DeliverySpec => LifecycleSafety /\ KeepsRunPromise
<1>1. DeliveryInit => LifecycleInit
  BY DEF DeliveryInit
<1>2. DeliveryInv /\ [DeliveryNext]_<<lifecycleVars, deliveryVars>> => [LifecycleNext]_lifecycleVars
  BY DeliveryDrivesLifecycle
<1>3. DeliverySpec => LifecycleSafety
  BY <1>1, <1>2, DeliveryInvariant, PTL DEF DeliverySpec, LifecycleSafety
<1> QED
  BY <1>3, RunsKeepTheirPromise

-----------------------------------------------------------------------------
(* State and commands *)

Names == {"none", "start", "stop", "install", "uninstall"}
Steps == {"idle", "probe", "ask", "unlink", "unlinking", "spawn", "post", "await", "await_ask",
          "install", "rollback", "unhook", "rehook", "check", "remove"}

FileRow    == {NoFile} \cup [instance: Instances, phase: Phases]
CommandRow == [name: Names, step: Steps, seen: FileRow, before: [Items -> Nat], index: Nat]

Types ==
    /\ daemon \in [Instances -> DaemonRow]
    /\ stateFile \in FileRow
    /\ command \in CommandRow
    /\ files \in [Items -> Nat]
    /\ commands \in Nat
    /\ strayed \in BOOLEAN /\ stranded \in BOOLEAN

(***************************************************************************)
(* A step belongs to the commands that have it, and whoever is asked to    *)
(* shut down was read in the file.                                         *)
(***************************************************************************)
CommandFits ==
    /\ command.step \in {"unlink", "unlinking", "spawn"} => command.name = "start"
    /\ command.step \in {"install", "rollback"} => command.name = "install"
    /\ command.step \in {"unhook", "rehook", "check", "remove"} => command.name = "uninstall"
    /\ command.step = "post" => command.seen # NoFile

-----------------------------------------------------------------------------
(* One daemon serves *)

Published(d) == daemon[d].boot \in {"recovering", "pumping", "announced", "done", "failed"}

(***************************************************************************)
(* A file names only a daemon that has published itself, and only such a   *)
(* daemon shuts down.                                                      *)
(***************************************************************************)
NamesPublished(file) ==
    file # NoFile => daemon[file.instance].boot \notin {"unborn", "spawned", "bound"}

PublishedFirst ==
    /\ NamesPublished(stateFile) /\ NamesPublished(command.seen)
    /\ \A d \in Instances : daemon[d].shut \notin {"none", "over"} => Published(d)

(***************************************************************************)
(* Holds: the daemon serves, or will still write or remove the file.       *)
(* Claims: it will find the file its own.                                  *)
(***************************************************************************)
Holds(d)  == Published(d) /\ daemon[d].shut \notin {"closed", "over"}
Claims(d) == Published(d) /\ daemon[d].shut # "over" /\ stateFile.instance = d

Deserted == \A d \in Instances : ~Unannounced(d) /\ ~Claims(d)
Live     == \E d \in Instances : Unannounced(d) \/ Listening(d)

HoldersAreNamed == \A d \in Instances : Holds(d) => stateFile.instance = d

NewcomersAreAlone ==
    \A d, e \in Instances : Unannounced(d) /\ d # e => ~Unannounced(e) /\ ~Claims(e)

CommandsKnowTheHolder ==
    /\ command.step = "ask" =>
           \A d \in Instances : ~Unannounced(d) /\ (Claims(d) => d = command.seen.instance)
    /\ command.step \in {"unlink", "unlinking", "spawn", "remove"} => Deserted

Verified == {"release", "manifest", "secrets"}

InstallationStays ==
    /\ Live \/ command.name = "start" => InstallationVerified
    /\ Live /\ command.step \in {"install", "rollback"} =>
           \A item \in Verified : files[item] = command.before[item]

FileIsALock ==
    /\ HoldersAreNamed
    /\ NewcomersAreAlone
    /\ CommandsKnowTheHolder
    /\ InstallationStays

RuntimeInv == Types /\ CommandFits /\ PublishedFirst /\ (strayed \/ FileIsALock)

-----------------------------------------------------------------------------
(* What the parts of a step do *)

LEMMA RuntimeFacts ==
    /\ Instances \subseteq Nat /\ 0 \notin Instances
    /\ NoFile.instance = 0 /\ NoFile \in FileRow
    /\ \A file \in FileRow : file # NoFile => file.instance \in Instances
BY RuntimeConstants DEF RuntimeConstants, Instances, NoFile, FileRow

LEMMA IdleFacts ==
    /\ Idle \in CommandRow
    /\ Idle.name = "none" /\ Idle.step = "idle" /\ Idle.seen = NoFile /\ Idle.index = 0
    /\ Idle.before = [i \in Items |-> NoItem]
BY RuntimeFacts DEF Idle, CommandRow, Names, Steps, Items, NoItem

LEMMA BootEffect ==
    ASSUME Types, NEW d \in Instances, NEW step \in Boots, SetBoot(d, step)
    PROVE  /\ daemon' \in [Instances -> DaemonRow]
           /\ \A e \in Instances \ {d} : daemon'[e] = daemon[e]
           /\ daemon'[d].boot = step /\ daemon'[d].shut = daemon[d].shut
           /\ daemon'[d].phase = daemon[d].phase
BY DEF Types, SetBoot, DaemonRow

LEMMA ShutEffect ==
    ASSUME Types, NEW d \in Instances, NEW step \in Shuts, SetShut(d, step)
    PROVE  /\ daemon' \in [Instances -> DaemonRow]
           /\ \A e \in Instances \ {d} : daemon'[e] = daemon[e]
           /\ daemon'[d].shut = step /\ daemon'[d].boot = daemon[d].boot
           /\ daemon'[d].phase = daemon[d].phase
BY DEF Types, SetShut, DaemonRow

LEMMA GotoEffect ==
    ASSUME Types, NEW step \in Steps, Goto(step)
    PROVE  /\ command' \in CommandRow
           /\ command'.step = step /\ command'.name = command.name
           /\ command'.seen = command.seen /\ command'.before = command.before
           /\ command'.index = command.index
BY DEF Types, Goto, CommandRow

LEMMA BeginEffect ==
    ASSUME Types, NEW name \in Names, NEW step \in Steps, Begin(name, step)
    PROVE  /\ command' \in CommandRow /\ commands' \in Nat
           /\ command'.step = step /\ command'.name = name
           /\ command'.seen = NoFile /\ command'.before = files /\ command'.index = 0
<1>1. \A row \in CommandRow : [row EXCEPT !.name = name] \in CommandRow
  BY DEF CommandRow
<1>2. \A row \in CommandRow : [row EXCEPT !.step = step] \in CommandRow
  BY DEF CommandRow
<1>3. \A row \in CommandRow : [row EXCEPT !.before = files] \in CommandRow
  BY DEF CommandRow, Types
<1>4. PICK row \in CommandRow : row = [[[Idle EXCEPT !.name = name] EXCEPT !.step = step] EXCEPT !.before = files]
  BY <1>1, <1>2, <1>3, IdleFacts
<1>5. command' = row
  BY <1>4 DEF Begin, Idle
<1>6. /\ row.step = step /\ row.name = name /\ row.before = files
      /\ row.seen = Idle.seen /\ row.index = Idle.index
  BY <1>4, IdleFacts DEF CommandRow
<1>7. commands' \in Nat
  BY DEF Begin, Types
<1> QED
  BY <1>5, <1>6, <1>7, IdleFacts

(***************************************************************************)
(* Reading the file: the step, and what was read.                          *)
(***************************************************************************)
ReadsFile(step) == command' = [command EXCEPT !.step = step, !.seen = stateFile]

LEMMA ReadEffect ==
    ASSUME Types, NEW step \in Steps, ReadsFile(step)
    PROVE  /\ command' \in CommandRow
           /\ command'.step = step /\ command'.name = command.name
           /\ command'.seen = stateFile /\ command'.before = command.before
           /\ command'.index = command.index
<1>1. \A row \in CommandRow : [row EXCEPT !.step = step] \in CommandRow
  BY DEF CommandRow
<1>2. \A row \in CommandRow : [row EXCEPT !.seen = stateFile] \in CommandRow
  BY DEF CommandRow, Types
<1>3. PICK row \in CommandRow : row = [[command EXCEPT !.step = step] EXCEPT !.seen = stateFile]
  BY <1>1, <1>2 DEF Types
<1>4. command' = row
  BY <1>3 DEF ReadsFile, Types, CommandRow
<1> QED
  BY <1>3, <1>4 DEF Types, CommandRow

LEMMA ProceedEffect ==
    ASSUME Types, NEW step \in Steps, NEW order, Proceed(step, order)
    PROVE  /\ command' \in CommandRow
           /\ \/ command' = Idle
              \/ /\ command'.step = step /\ command'.name = command.name
                 /\ command'.seen = command.seen /\ command'.before = command.before
                 /\ command'.index = command.index + 1
<1>1. CASE command' = Idle
  BY <1>1, IdleFacts
<1>2. CASE command' = [command EXCEPT !.step = step, !.index = command.index + 1]
  <2>1. \A row \in CommandRow : [row EXCEPT !.step = step] \in CommandRow
    BY DEF CommandRow
  <2>2. \A row \in CommandRow, index \in Nat : [row EXCEPT !.index = index] \in CommandRow
    BY DEF CommandRow
  <2>3. command.index + 1 \in Nat
    BY DEF Types, CommandRow
  <2>4. PICK row \in CommandRow :
            row = [[command EXCEPT !.step = step] EXCEPT !.index = command.index + 1]
    BY <2>1, <2>2, <2>3 DEF Types
  <2>5. command' = row
    BY <1>2, <2>4 DEF Types, CommandRow
  <2> QED
    BY <2>4, <2>5 DEF Types, CommandRow
<1> QED
  BY <1>1, <1>2 DEF Proceed, Types

-----------------------------------------------------------------------------
(* A daemon's steps *)

Fresh == {"unborn", "spawned", "bound"}

(***************************************************************************)
(* What every step of one daemon keeps, whatever the file says ...         *)
(***************************************************************************)
Moves(d) ==
    /\ UNCHANGED <<command, commands, files, stranded>>
    /\ daemon' \in [Instances -> DaemonRow]
    /\ \A e \in Instances \ {d} : daemon'[e] = daemon[e]
    /\ stateFile' \in FileRow
    /\ strayed' \in BOOLEAN /\ (strayed => strayed')
    /\ daemon[d].boot \notin Fresh => daemon'[d].boot \notin Fresh
    /\ daemon'[d].shut \notin {"none", "over"} => Published(d)'
    /\ \/ stateFile' = stateFile
       \/ stateFile' = NoFile
       \/ stateFile'.instance = d /\ daemon'[d].boot \notin Fresh

(***************************************************************************)
(* ... and what it keeps while the file can be trusted: whoever writes it  *)
(* serves already or is about to, and nobody comes to serve otherwise.     *)
(***************************************************************************)
RespectsFile(d) ==
    /\ stateFile' # stateFile => Holds(d) \/ Unannounced(d)
    /\ Unannounced(d)' => Unannounced(d)
    /\ Holds(d)' => stateFile'.instance = d
    /\ Claims(d)' => Claims(d) \/ Unannounced(d)
    /\ Listening(d)' => Unannounced(d) \/ Listening(d)

LEMMA ListenersHold ==
    \A d \in Instances : Listening(d) => Unannounced(d) \/ Holds(d)
BY DEF Listening, Unannounced, Holds, Published

LEMMA DaemonMoveKeeps ==
    ASSUME RuntimeInv, NEW d \in Instances, Moves(d), strayed' \/ RespectsFile(d)
    PROVE  RuntimeInv'
<1>1. Types /\ CommandFits /\ PublishedFirst
  BY DEF RuntimeInv
<1>2. Types' /\ CommandFits'
  BY <1>1 DEF Moves, Types, CommandFits
<1>3. \A file \in FileRow : NamesPublished(file) =>
          (file # NoFile => daemon'[file.instance].boot \notin {"unborn", "spawned", "bound"})
  BY RuntimeFacts DEF NamesPublished, Moves, Fresh
<1>4. PublishedFirst'
  <2>1. command.seen \in FileRow /\ command' = command
    BY <1>1 DEF Types, CommandRow, Moves
  <2>2. NamesPublished(stateFile)'
    BY <1>1, <1>3 DEF Types, PublishedFirst, NamesPublished, Moves, Fresh
  <2>3. NamesPublished(command.seen)'
    BY <1>1, <1>3, <2>1 DEF PublishedFirst, NamesPublished
  <2>4. \A e \in Instances : daemon'[e].shut \notin {"none", "over"} => Published(e)'
    BY <1>1 DEF PublishedFirst, Published, Moves
  <2> QED
    BY <2>2, <2>3, <2>4 DEF PublishedFirst
<1>5. ASSUME ~strayed' PROVE FileIsALock'
  <2>1. FileIsALock /\ RespectsFile(d) /\ UNCHANGED <<command, files>>
    BY <1>5 DEF RuntimeInv, Moves
  <2>2. \A e \in Instances \ {d} : /\ Unannounced(e)' = Unannounced(e)
                                   /\ Listening(e)' = Listening(e)
                                   /\ Holds(e)' = Holds(e)
    BY DEF Moves, Unannounced, Listening, Holds, Published
  <2>3. \A e \in Instances : Holds(e) => Claims(e)
    BY <2>1 DEF FileIsALock, HoldersAreNamed, Holds, Claims
  <2>4. \A e \in Instances \ {d} : Holds(e) \/ Claims(e)' => stateFile' = stateFile
    <3> SUFFICES ASSUME NEW e \in Instances \ {d}, Holds(e) \/ Claims(e)', stateFile' # stateFile
                 PROVE  FALSE
      OBVIOUS
    <3>1. Holds(d) \/ Unannounced(d)
      BY <2>1 DEF RespectsFile
    <3>2. stateFile'.instance \in {0, d}
      BY RuntimeFacts DEF Moves
    <3>3. ~Claims(e)'
      BY <3>2, RuntimeFacts DEF Claims
    <3>4. Holds(e) /\ Claims(e)
      BY <2>3, <3>3
    <3>5. ~Unannounced(d)
      BY <2>1, <3>4 DEF FileIsALock, NewcomersAreAlone
    <3> QED
      BY <2>1, <3>1, <3>4, <3>5 DEF FileIsALock, HoldersAreNamed
  <2>5. HoldersAreNamed'
    BY <2>1, <2>2, <2>4 DEF FileIsALock, HoldersAreNamed, RespectsFile
  <2>6. \A e \in Instances : Claims(e)' => Claims(e) \/ Unannounced(e)
    <3>1. \A e \in Instances \ {d} : Claims(e)' => Claims(e)
      BY <2>4 DEF Claims, Published, Moves
    <3> QED
      BY <2>1, <3>1 DEF RespectsFile
  <2>7. \A e \in Instances : Unannounced(e)' => Unannounced(e)
    BY <2>1, <2>2 DEF RespectsFile
  <2>8. NewcomersAreAlone'
    BY <2>1, <2>6, <2>7 DEF FileIsALock, NewcomersAreAlone
  <2>9. CommandsKnowTheHolder'
    BY <2>1, <2>6, <2>7 DEF FileIsALock, CommandsKnowTheHolder, Deserted
  <2>10. Live' => Live
    BY <2>1, <2>2 DEF Live, RespectsFile
  <2>11. InstallationStays'
    BY <2>1, <2>10 DEF FileIsALock, InstallationStays, InstallationVerified
  <2> QED
    BY <2>5, <2>8, <2>9, <2>11 DEF FileIsALock
<1> QED
  BY <1>2, <1>4, <1>5 DEF RuntimeInv

(***************************************************************************)
(* A step that leaves the file alone.                                      *)
(***************************************************************************)
LEMMA QuietMove ==
    ASSUME RuntimeInv, NEW d \in Instances, UNCHANGED <<command, commands, files, stranded>>,
           UNCHANGED stateFile, strayed' = strayed,
           daemon' \in [Instances -> DaemonRow],
           \A e \in Instances \ {d} : daemon'[e] = daemon[e],
           daemon[d].boot \notin Fresh => daemon'[d].boot \notin Fresh,
           daemon'[d].shut \notin {"none", "over"} => Published(d)',
           Unannounced(d)' => Unannounced(d),
           Holds(d)' => Holds(d) \/ stateFile.instance = d,
           Published(d)' => Published(d) \/ Unannounced(d),
           daemon[d].shut = "over" => daemon'[d].shut = "over",
           Listening(d)' => Unannounced(d) \/ Listening(d)
    PROVE  RuntimeInv'
<1>1. Types
  BY DEF RuntimeInv
<1>2. Moves(d)
  BY <1>1 DEF Moves, Types
<1>3. strayed' \/ RespectsFile(d)
  <2>1. Claims(d)' => Claims(d) \/ Unannounced(d)
    BY DEF Claims
  <2>2. ASSUME ~strayed PROVE Holds(d)' => stateFile'.instance = d
    BY <2>2 DEF RuntimeInv, FileIsALock, HoldersAreNamed
  <2> QED
    BY <2>1, <2>2 DEF RespectsFile
<1> QED
  BY <1>2, <1>3, DaemonMoveKeeps

LEMMA BootFits ==
    ASSUME RuntimeInv, NEW d \in Instances,
           UNCHANGED <<command, commands, files, stranded>>,
           VerifyAndBind(d) \/ RecoverAndPump(d) \/ FinishBoot(d) \/ BootThrows(d)
    PROVE  RuntimeInv'
<1>1. Types /\ UNCHANGED <<stateFile, strayed>>
  BY DEF VerifyAndBind, RecoverAndPump, FinishBoot, BootThrows, RuntimeInv
<1>2. CASE VerifyAndBind(d)
  <2>1. PICK step \in {"bound", "exited"} : SetBoot(d, step)
    BY <1>2 DEF VerifyAndBind
  <2>2. step \in Boots /\ daemon[d].boot = "spawned"
    BY <1>2 DEF Boots, VerifyAndBind
  <2>3. daemon[d].shut \in {"none", "over"}
    BY <2>2 DEF RuntimeInv, PublishedFirst, Published
  <2> QED
    BY <1>1, <2>1, <2>2, <2>3, BootEffect, QuietMove
       DEF Fresh, Published, Unannounced, Holds, Listening
<1>3. CASE RecoverAndPump(d)
  <2>1. SetBoot(d, "pumping") /\ daemon[d].boot = "recovering" /\ "pumping" \in Boots
    BY <1>3 DEF RecoverAndPump, Boots
  <2> QED
    BY <1>1, <2>1, BootEffect, QuietMove DEF Fresh, Published, Unannounced, Holds, Listening
<1>4. CASE FinishBoot(d)
  <2>1. daemon[d].boot = "announced"
        /\ daemon' = [daemon EXCEPT ![d].boot = "done", ![d].phase = "ready"]
    BY <1>4 DEF FinishBoot
  <2>2. /\ daemon' \in [Instances -> DaemonRow]
        /\ \A e \in Instances \ {d} : daemon'[e] = daemon[e]
        /\ daemon'[d].boot = "done" /\ daemon'[d].shut = daemon[d].shut
    BY <1>1, <2>1 DEF Types, DaemonRow, Boots, Phases
  <2> QED
    BY <1>1, <2>1, <2>2, QuietMove DEF Fresh, Published, Unannounced, Holds, Listening
<1>5. CASE BootThrows(d)
  <2> DEFINE shut == IF daemon[d].shut = "none" THEN "closed" ELSE daemon[d].shut
  <2>1. daemon[d].boot \in {"spawned", "bound", "recovering", "pumping"}
        /\ daemon' = [daemon EXCEPT ![d].boot = "failed", ![d].shut = shut]
    BY <1>1, <1>5 DEF BootThrows, Types
  <2>2. shut \in Shuts
    BY <1>1 DEF Types, DaemonRow, Shuts
  <2>3. shut \notin {"closed", "over"} => shut = daemon[d].shut /\ shut # "none"
    OBVIOUS
  <2>4. daemon[d].shut = "over" => shut = "over"
    OBVIOUS
  <2> HIDE DEF shut
  <2>5. /\ daemon' \in [Instances -> DaemonRow]
        /\ \A e \in Instances \ {d} : daemon'[e] = daemon[e]
        /\ daemon'[d].boot = "failed" /\ daemon'[d].shut = shut
    BY <1>1, <2>1, <2>2 DEF Types, DaemonRow, Boots
  <2>6. shut \notin {"closed", "over"} => Published(d)
    BY <2>3 DEF RuntimeInv, PublishedFirst, shut
  <2> QED
    BY <1>1, <2>1, <2>3, <2>4, <2>5, <2>6, QuietMove
       DEF Fresh, Published, Unannounced, Holds, Listening
<1> QED
  BY <1>2, <1>3, <1>4, <1>5

LEMMA ShutdownFits ==
    ASSUME RuntimeInv, NEW d \in Instances,
           UNCHANGED <<command, commands, files, stranded>>,
           Signal(d) \/ StopPump(d) \/ CloseServer(d) \/ CheckOwner(d) \/ Exit(d) \/ Kill(d)
    PROVE  RuntimeInv'
<1>1. Types /\ UNCHANGED <<stateFile, strayed>>
  BY DEF Signal, StopPump, CloseServer, CheckOwner, Exit, Kill, RuntimeInv
<1>2. daemon[d].shut \notin {"none", "over"} => Published(d)
  BY DEF RuntimeInv, PublishedFirst
<1>3. CASE Signal(d)
  <2>1. SetShut(d, "begun") /\ "begun" \in Shuts /\ daemon[d].boot = "done" /\ daemon[d].shut = "none"
    BY <1>3 DEF Signal, Shuts
  <2> QED
    BY <1>1, <2>1, ShutEffect, QuietMove DEF Fresh, Published, Unannounced, Holds, Listening
<1>4. CASE StopPump(d)
  <2>1. daemon[d].shut = "published"
        /\ daemon' = [daemon EXCEPT ![d].shut = "draining", ![d].phase = "stopping"]
    BY <1>4 DEF StopPump
  <2>2. /\ daemon' \in [Instances -> DaemonRow]
        /\ \A e \in Instances \ {d} : daemon'[e] = daemon[e]
        /\ daemon'[d].shut = "draining" /\ daemon'[d].boot = daemon[d].boot
    BY <1>1, <2>1 DEF Types, DaemonRow, Shuts, Phases
  <2> QED
    BY <1>1, <1>2, <2>1, <2>2, QuietMove DEF Fresh, Published, Unannounced, Holds, Listening
<1>5. CASE CloseServer(d)
  <2>1. SetShut(d, "closed") /\ "closed" \in Shuts /\ daemon[d].shut = "draining"
    BY <1>5 DEF CloseServer, Shuts
  <2> QED
    BY <1>1, <1>2, <2>1, ShutEffect, QuietMove DEF Fresh, Published, Unannounced, Holds, Listening
<1>6. CASE CheckOwner(d)
  <2>1. /\ SetShut(d, IF stateFile.instance = d THEN "checked" ELSE "over")
        /\ daemon[d].shut = "closed"
    BY <1>6 DEF CheckOwner
  <2>2. PICK step \in {"checked", "over"} :
            SetShut(d, step) /\ (step = "checked" => stateFile.instance = d)
    BY <2>1
  <2>3. step \in Shuts
    BY DEF Shuts
  <2> QED
    BY <1>1, <1>2, <2>1, <2>2, <2>3, ShutEffect, QuietMove
       DEF Fresh, Published, Unannounced, Holds, Listening
<1>7. CASE Exit(d)
  <2>1. SetBoot(d, "exited") /\ "exited" \in Boots /\ daemon[d].shut = "over"
    BY <1>7 DEF Exit, Boots
  <2> QED
    BY <1>1, <2>1, BootEffect, QuietMove DEF Fresh, Published, Unannounced, Holds, Listening
<1>8. CASE Kill(d)
  <2>1. daemon' = [daemon EXCEPT ![d].boot = "exited", ![d].shut = "over"]
    BY <1>8 DEF Kill
  <2>2. /\ daemon' \in [Instances -> DaemonRow]
        /\ \A e \in Instances \ {d} : daemon'[e] = daemon[e]
        /\ daemon'[d].boot = "exited" /\ daemon'[d].shut = "over"
    BY <1>1, <2>1 DEF Types, DaemonRow, Boots, Shuts
  <2> QED
    BY <1>1, <2>2, QuietMove DEF Fresh, Published, Unannounced, Holds, Listening
<1> QED
  BY <1>3, <1>4, <1>5, <1>6, <1>7, <1>8

(***************************************************************************)
(* The steps that write the file or remove it.                             *)
(***************************************************************************)
LEMMA PublishingFits ==
    ASSUME RuntimeInv, NEW d \in Instances,
           UNCHANGED <<command, commands, files, stranded>>,
           PublishStarting(d) \/ PublishReady(d) \/ PublishStopping(d) \/ RemoveOwned(d)
    PROVE  RuntimeInv'
<1>1. Types
  BY DEF RuntimeInv
<1>2. daemon[d].shut \notin {"none", "over"} => Published(d)
  BY DEF RuntimeInv, PublishedFirst
<1>3. ASSUME ~strayed, Holds(d) PROVE stateFile.instance = d /\ Claims(d)
  BY <1>3 DEF RuntimeInv, FileIsALock, HoldersAreNamed, Claims, Holds
<1>4. \A phase \in Phases : [instance |-> d, phase |-> phase] \in FileRow
  BY DEF FileRow
<1>5. CASE PublishStarting(d)
  <2>1. /\ daemon[d].boot = "bound" /\ SetBoot(d, "recovering") /\ "recovering" \in Boots
        /\ stateFile' = [instance |-> d, phase |-> "starting"] /\ strayed' = strayed
    BY <1>5 DEF PublishStarting, Boots
  <2>2. stateFile' \in FileRow /\ stateFile'.instance = d
    BY <1>4, <2>1 DEF Phases
  <2>3. Moves(d)
    BY <1>1, <1>2, <2>1, <2>2, BootEffect DEF Moves, Types, Fresh, Published
  <2>4. RespectsFile(d)
    BY <1>1, <2>1, <2>2, BootEffect DEF RespectsFile, Unannounced, Holds, Claims, Published, Listening
  <2> QED
    BY <2>3, <2>4, DaemonMoveKeeps
<1>6. CASE PublishReady(d)
  <2>1. /\ daemon[d].boot = "pumping" /\ SetBoot(d, "announced") /\ "announced" \in Boots
        /\ stateFile' = [instance |-> d, phase |-> "ready"]
        /\ strayed' = (strayed \/ daemon[d].shut \in {"closed", "checked", "over"})
    BY <1>6 DEF PublishReady, Boots
  <2>2. stateFile' \in FileRow /\ stateFile'.instance = d
    BY <1>4, <2>1 DEF Phases
  <2>3. Moves(d)
    BY <1>1, <1>2, <2>1, <2>2, BootEffect DEF Moves, Types, Fresh, Published
  <2>4. ASSUME ~strayed' PROVE RespectsFile(d)
    <3>1. Holds(d) /\ ~strayed
      BY <2>1, <2>4 DEF Holds, Published
    <3> QED
      BY <1>1, <1>3, <2>1, <2>2, <3>1, BootEffect
         DEF RespectsFile, Unannounced, Holds, Claims, Published, Listening
  <2> QED
    BY <2>3, <2>4, DaemonMoveKeeps
<1>7. CASE PublishStopping(d)
  <2>1. /\ daemon[d].shut = "begun" /\ SetShut(d, "published") /\ "published" \in Shuts
        /\ stateFile' = [instance |-> d, phase |-> "stopping"] \/ stateFile' = stateFile
        /\ strayed' = strayed
    BY <1>7 DEF PublishStopping, Shuts
  <2>2. /\ stateFile' \in FileRow
        /\ stateFile' = stateFile \/ stateFile'.instance = d
    BY <1>1, <1>4, <2>1 DEF Phases, Types
  <2>3. Holds(d)
    BY <1>2, <2>1 DEF Holds
  <2>4. Moves(d)
    BY <1>1, <1>2, <2>1, <2>2, ShutEffect DEF Moves, Types, Fresh, Published
  <2>5. ASSUME ~strayed PROVE RespectsFile(d)
    BY <1>1, <1>3, <2>1, <2>2, <2>3, <2>5, ShutEffect
       DEF RespectsFile, Unannounced, Holds, Claims, Published, Listening
  <2> QED
    BY <2>1, <2>4, <2>5, DaemonMoveKeeps
<1>8. CASE RemoveOwned(d)
  <2>1. /\ daemon[d].shut = "checked" /\ SetShut(d, "over") /\ "over" \in Shuts
        /\ stateFile' = NoFile \/ stateFile' = stateFile
        /\ strayed' = strayed
    BY <1>8 DEF RemoveOwned, Shuts
  <2>2. Holds(d)
    BY <1>2, <2>1 DEF Holds
  <2>3. Moves(d)
    BY <1>1, <1>2, <2>1, ShutEffect, RuntimeFacts DEF Moves, Types, Fresh, Published
  <2>4. RespectsFile(d)
    BY <1>1, <2>1, <2>2, ShutEffect
       DEF RespectsFile, Unannounced, Holds, Claims, Published, Listening
  <2> QED
    BY <2>3, <2>4, DaemonMoveKeeps
<1> QED
  BY <1>5, <1>6, <1>7, <1>8

LEMMA DaemonStepFits ==
    ASSUME RuntimeInv, DaemonStep, UNCHANGED stranded
    PROVE  RuntimeInv'
<1>1. UNCHANGED <<command, commands, files, stranded>>
  BY DEF DaemonStep
<1>2. PICK d \in Instances :
          \/ VerifyAndBind(d) \/ PublishStarting(d) \/ RecoverAndPump(d) \/ PublishReady(d)
          \/ FinishBoot(d) \/ BootThrows(d) \/ Signal(d) \/ PublishStopping(d) \/ StopPump(d)
          \/ CloseServer(d) \/ CheckOwner(d) \/ RemoveOwned(d) \/ Exit(d) \/ Kill(d)
  BY DEF DaemonStep
<1> QED
  BY <1>1, <1>2, BootFits, ShutdownFits, PublishingFits

-----------------------------------------------------------------------------
(* A command's steps *)

LEMMA ProbeFacts ==
    ASSUME NEW seen
    PROVE  /\ Probe(seen) = "stopped" => seen = NoFile
           /\ Probe(seen) = "running" => seen # NoFile
           /\ Probe(seen) = "stale" => seen # NoFile /\ ~Alive(seen.instance)
BY DEF Probe

LEMMA CommandMoveKeeps ==
    ASSUME RuntimeInv, UNCHANGED <<daemon, stateFile, files>>,
           command' \in CommandRow, commands' \in Nat,
           strayed' \in BOOLEAN, strayed => strayed', stranded' \in BOOLEAN,
           CommandFits',
           command'.seen \in {NoFile, stateFile, command.seen},
           ~strayed' =>
               /\ CommandsKnowTheHolder'
               /\ command'.name = "start" => command.name = "start" \/ InstallationVerified
               /\ command'.step \in {"install", "rollback"} =>
                      \/ command'.before = files
                      \/ /\ command.step \in {"install", "rollback"}
                         /\ command'.before = command.before
    PROVE  RuntimeInv'
<1>1. Types /\ Types'
  BY DEF RuntimeInv, Types
<1>2. PublishedFirst'
  <2>1. PublishedFirst
    BY DEF RuntimeInv
  <2>2. \A d \in Instances : daemon'[d].shut \notin {"none", "over"} => Published(d)'
    BY <2>1 DEF PublishedFirst, Published
  <2>3. NamesPublished(stateFile)' /\ NamesPublished(command.seen)'
    BY <2>1 DEF PublishedFirst, NamesPublished
  <2> QED
    BY <2>2, <2>3 DEF PublishedFirst
<1>3. ASSUME ~strayed' PROVE FileIsALock'
  <2>1. FileIsALock
    BY <1>3 DEF RuntimeInv
  <2>2. \A d \in Instances : /\ Unannounced(d)' = Unannounced(d)
                             /\ Listening(d)' = Listening(d)
                             /\ Holds(d)' = Holds(d) /\ Claims(d)' = Claims(d)
    BY DEF Unannounced, Listening, Holds, Claims, Published
  <2>3. HoldersAreNamed' /\ NewcomersAreAlone'
    BY <2>1, <2>2 DEF FileIsALock, HoldersAreNamed, NewcomersAreAlone
  <2>4. Live' = Live /\ InstallationVerified' = InstallationVerified
    BY <2>2 DEF Live, InstallationVerified
  <2>5. InstallationStays'
    BY <1>3, <2>1, <2>4 DEF FileIsALock, InstallationStays
  <2> QED
    BY <1>3, <2>3, <2>5 DEF FileIsALock
<1> QED
  BY <1>1, <1>2, <1>3 DEF RuntimeInv

LEMMA ReturnKeeps ==
    ASSUME RuntimeInv, Return,
           UNCHANGED <<daemon, stateFile, files, commands, strayed, stranded>>
    PROVE  RuntimeInv'
<1>1. /\ command' \in CommandRow /\ command'.name = "none" /\ command'.step = "idle"
      /\ command'.seen = NoFile
  BY IdleFacts DEF Return
<1>2. CommandFits' /\ CommandsKnowTheHolder'
  BY <1>1 DEF CommandFits, CommandsKnowTheHolder
<1> QED
  BY <1>1, <1>2, CommandMoveKeeps DEF RuntimeInv, Types

LEMMA GotoKeeps ==
    ASSUME RuntimeInv,
           NEW step \in {"probe", "unlink", "unlinking", "spawn", "post", "await", "check", "rehook"},
           Goto(step), UNCHANGED <<daemon, stateFile, files, commands, strayed, stranded>>,
           step \in {"unlink", "unlinking", "spawn"} =>
               command.name = "start" /\ (strayed \/ Deserted),
           step \in {"check", "rehook"} => command.name = "uninstall",
           step = "post" => command.seen # NoFile
    PROVE  RuntimeInv'
<1>1. Types /\ step \in Steps
  BY DEF RuntimeInv, Steps
<1>2. /\ command' \in CommandRow /\ command'.step = step /\ command'.name = command.name
      /\ command'.seen = command.seen
  BY <1>1, GotoEffect
<1>3. CommandFits'
  BY <1>2 DEF CommandFits
<1>4. Deserted' = Deserted
  BY DEF Deserted, Unannounced, Claims, Published
<1>5. ASSUME ~strayed PROVE CommandsKnowTheHolder'
  BY <1>2, <1>4, <1>5 DEF CommandsKnowTheHolder
<1> QED
  BY <1>1, <1>2, <1>3, <1>5, CommandMoveKeeps DEF Types

LEMMA StopEndsKeeps ==
    ASSUME RuntimeInv, NEW success \in BOOLEAN, StopEnds(success),
           UNCHANGED <<daemon, stateFile, files, commands, strayed, stranded>>
    PROVE  RuntimeInv'
BY ReturnKeeps, GotoKeeps DEF StopEnds

LEMMA BeginKeeps ==
    ASSUME RuntimeInv, NEW name \in Names, NEW step \in {"probe", "install", "unhook"},
           Begin(name, step), UNCHANGED <<daemon, stateFile, files, strayed, stranded>>,
           step = "install" => name = "install",
           step = "unhook" => name = "uninstall",
           name = "start" => InstallationVerified
    PROVE  RuntimeInv'
<1>1. Types /\ step \in Steps
  BY DEF RuntimeInv, Steps
<1>2. /\ command' \in CommandRow /\ command'.step = step /\ command'.name = name
      /\ command'.seen = NoFile /\ command'.before = files /\ commands' \in Nat
  BY <1>1, BeginEffect
<1>3. CommandFits' /\ CommandsKnowTheHolder'
  BY <1>2 DEF CommandFits, CommandsKnowTheHolder
<1> QED
  BY <1>1, <1>2, <1>3, CommandMoveKeeps DEF Types

(***************************************************************************)
(* Reading the file: what the command decides on is who holds it.          *)
(***************************************************************************)
LEMMA ReadKeeps ==
    ASSUME RuntimeInv, NEW step \in {"ask", "await_ask", "remove"}, ReadsFile(step),
           UNCHANGED <<daemon, stateFile, files, commands, stranded>>,
           strayed' \in BOOLEAN, strayed => strayed',
           step # "await_ask" => strayed' \/ \A d \in Instances : ~Unannounced(d),
           step = "remove" => command.name = "uninstall" /\ stateFile = NoFile
    PROVE  RuntimeInv'
<1>1. Types /\ step \in Steps
  BY DEF RuntimeInv, Steps
<1>2. /\ command' \in CommandRow /\ command'.step = step /\ command'.name = command.name
      /\ command'.seen = stateFile /\ command'.before = command.before
  BY <1>1, ReadEffect
<1>3. CommandFits'
  BY <1>2 DEF CommandFits
<1>4. ASSUME ~strayed' PROVE CommandsKnowTheHolder'
  <2>1. \A d \in Instances : Claims(d)' => d = stateFile.instance
    BY DEF Claims
  <2>2. \A d \in Instances : Unannounced(d)' = Unannounced(d)
    BY DEF Unannounced
  <2> QED
    BY <1>2, <1>4, <2>1, <2>2, RuntimeFacts DEF CommandsKnowTheHolder, Deserted
<1> QED
  BY <1>1, <1>2, <1>3, <1>4, CommandMoveKeeps DEF Types

LEMMA DecisionFits ==
    ASSUME RuntimeInv, UNCHANGED stranded,
           \/ BeginStart \/ BeginStop \/ ReadFile \/ DecideStart \/ CheckStale \/ DecideStop
           \/ AwaitRead \/ AwaitTimesOut \/ AwaitStart \/ AwaitStop
    PROVE  RuntimeInv'
<1>1. Types /\ CommandFits /\ \A d \in Instances : Claims(d) => d = stateFile.instance
  BY DEF RuntimeInv, Claims
<1>2. UNCHANGED <<daemon, stateFile, files>>
  BY DEF BeginStart, BeginStop, ReadFile, DecideStart, CheckStale, DecideStop, AwaitRead,
         AwaitTimesOut, AwaitStart, AwaitStop
<1>3. CASE BeginStart
  <2>1. Begin("start", "probe") /\ InstallationVerified /\ strayed' = strayed
    BY <1>3 DEF BeginStart
  <2>2. "start" \in Names
    BY DEF Names
  <2> QED
    BY <1>2, <2>1, <2>2, BeginKeeps
<1>4. CASE BeginStop
  <2>1. Begin("stop", "probe") /\ strayed' = strayed
    BY <1>4 DEF BeginStop
  <2>2. "stop" \in Names
    BY DEF Names
  <2> QED
    BY <1>2, <2>1, <2>2, BeginKeeps
<1>5. CASE ReadFile
  <2>1. ReadsFile("ask") /\ strayed' = (strayed \/ \E d \in Instances : Unannounced(d))
    BY <1>5 DEF ReadFile, Decide, ReadsFile
  <2>2. strayed' \in BOOLEAN /\ (strayed => strayed') /\ commands' = commands
    BY <1>1, <1>5, <2>1 DEF Types, ReadFile
  <2> QED
    BY <1>2, <2>1, <2>2, ReadKeeps
<1>6. CASE DecideStart
  <2>1. /\ command.name = "start" /\ command.step = "ask"
        /\ UNCHANGED <<commands, strayed>>
        /\ \/ Probe(command.seen) = "stopped" /\ Goto("spawn")
           \/ Probe(command.seen) = "stale" /\ Goto("unlink")
           \/ Return
    BY <1>6 DEF DecideStart, At
  <2>2. ASSUME Probe(command.seen) \in {"stopped", "stale"} PROVE strayed \/ Deserted
    <3> SUFFICES ASSUME ~strayed PROVE Deserted
      OBVIOUS
    <3>1. \A d \in Instances : ~Unannounced(d) /\ (Claims(d) => d = command.seen.instance)
      BY <2>1 DEF RuntimeInv, FileIsALock, CommandsKnowTheHolder
    <3>2. CASE command.seen = NoFile
      BY <3>1, <3>2, RuntimeFacts DEF Deserted
    <3>3. CASE ~Alive(command.seen.instance)
      BY <3>1, <3>3 DEF Deserted, Alive, Claims, Published
    <3> QED
      BY <2>2, <3>2, <3>3, ProbeFacts
  <2> QED
    BY <1>2, <2>1, <2>2, ReturnKeeps, GotoKeeps
<1>7. CASE CheckStale
  <2>1. /\ command.step = "unlink" /\ UNCHANGED <<commands, strayed>>
        /\ Goto("spawn") \/ Goto("unlinking") \/ Return
    BY <1>7 DEF CheckStale, At
  <2>2. command.name = "start" /\ (strayed \/ Deserted)
    BY <1>1, <2>1 DEF RuntimeInv, CommandFits, FileIsALock, CommandsKnowTheHolder
  <2> QED
    BY <1>2, <2>1, <2>2, ReturnKeeps, GotoKeeps
<1>8. CASE DecideStop
  <2>1. /\ UNCHANGED <<commands, strayed>>
        /\ \/ Probe(command.seen) = "running" /\ Goto("post")
           \/ StopEnds(TRUE) \/ StopEnds(FALSE)
    BY <1>8 DEF DecideStop
  <2> QED
    BY <1>2, <2>1, GotoKeeps, StopEndsKeeps, ProbeFacts
<1>9. CASE AwaitRead
  <2>1. ReadsFile("await_ask") /\ strayed' = strayed /\ commands' = commands
    BY <1>9 DEF AwaitRead, ReadsFile
  <2> QED
    BY <1>1, <1>2, <2>1, ReadKeeps DEF Types
<1>10. CASE AwaitTimesOut \/ AwaitStart \/ AwaitStop
  <2>1. /\ UNCHANGED <<commands, strayed>>
        /\ Goto("await") \/ Return \/ StopEnds(TRUE) \/ StopEnds(FALSE)
    BY <1>10 DEF AwaitTimesOut, AwaitStart, AwaitStop
  <2> QED
    BY <1>2, <2>1, GotoKeeps, ReturnKeeps, StopEndsKeeps
<1> QED
  BY <1>3, <1>4, <1>5, <1>6, <1>7, <1>8, <1>9, <1>10

LEMMA DesertedHold ==
    ASSUME Deserted, HoldersAreNamed
    PROVE  ~Live /\ \A d \in Instances : ~Holds(d)
<1>1. \A d \in Instances : ~Holds(d)
  BY DEF Deserted, HoldersAreNamed, Holds, Claims
<1> QED
  BY <1>1, ListenersHold DEF Deserted, Live

LEMMA RemoveStaleFits ==
    ASSUME RuntimeInv, UNCHANGED stranded, RemoveStale
    PROVE  RuntimeInv'
<1>1. /\ Types /\ PublishedFirst /\ CommandFits /\ command.step = "unlinking"
      /\ stateFile' = NoFile /\ Goto("spawn") /\ UNCHANGED <<daemon, commands, files, strayed>>
  BY DEF RemoveStale, At, RuntimeInv
<1>2. /\ command' \in CommandRow /\ command'.step = "spawn" /\ command'.name = command.name
      /\ command'.seen = command.seen
  BY <1>1, GotoEffect DEF Steps
<1>3. Types' /\ CommandFits'
  BY <1>1, <1>2, RuntimeFacts DEF Types, CommandFits
<1>4. PublishedFirst'
  <2>1. \A d \in Instances : daemon'[d].shut \notin {"none", "over"} => Published(d)'
    BY <1>1 DEF PublishedFirst, Published
  <2> QED
    BY <1>1, <1>2, <2>1 DEF PublishedFirst, NamesPublished
<1>5. ASSUME ~strayed PROVE FileIsALock'
  <2>1. Deserted /\ FileIsALock /\ command.name = "start"
    BY <1>1, <1>5 DEF RuntimeInv, FileIsALock, CommandsKnowTheHolder, CommandFits
  <2>2. \A d \in Instances : /\ Unannounced(d)' = Unannounced(d)
                             /\ Listening(d)' = Listening(d) /\ Holds(d)' = Holds(d)
                             /\ ~Claims(d)'
    BY <1>1, RuntimeFacts DEF Unannounced, Listening, Holds, Claims, Published
  <2>3. HoldersAreNamed' /\ NewcomersAreAlone' /\ CommandsKnowTheHolder'
    BY <1>2, <2>1, <2>2, DesertedHold
       DEF FileIsALock, HoldersAreNamed, NewcomersAreAlone, CommandsKnowTheHolder, Deserted
  <2>4. InstallationStays'
    BY <1>1, <1>2, <2>1 DEF FileIsALock, InstallationStays, InstallationVerified
  <2> QED
    BY <2>3, <2>4 DEF FileIsALock
<1> QED
  BY <1>1, <1>3, <1>4, <1>5 DEF RuntimeInv

LEMMA SpawnFits ==
    ASSUME RuntimeInv, UNCHANGED stranded, Spawn
    PROVE  RuntimeInv'
<1>1. /\ Types /\ PublishedFirst /\ CommandFits /\ command.step = "spawn" /\ Goto("await")
      /\ UNCHANGED <<stateFile, commands, files, strayed>>
  BY DEF Spawn, At, RuntimeInv
<1>2. PICK d \in Instances : daemon[d].boot = "unborn" /\ SetBoot(d, "spawned")
  BY DEF Spawn
<1>3. /\ daemon' \in [Instances -> DaemonRow]
      /\ \A e \in Instances \ {d} : daemon'[e] = daemon[e]
      /\ daemon'[d].boot = "spawned" /\ daemon'[d].shut = daemon[d].shut
  BY <1>1, <1>2, BootEffect DEF Boots
<1>4. /\ command' \in CommandRow /\ command'.step = "await" /\ command'.name = command.name
      /\ command'.seen = command.seen
  BY <1>1, GotoEffect DEF Steps
<1>5. Types' /\ CommandFits'
  BY <1>1, <1>3, <1>4 DEF Types, CommandFits
<1>6. PublishedFirst'
  <2>1. \A file \in FileRow : NamesPublished(file) =>
            (file # NoFile => daemon'[file.instance].boot \notin {"unborn", "spawned", "bound"})
    BY <1>2, <1>3, RuntimeFacts DEF NamesPublished
  <2>2. command.seen \in FileRow /\ stateFile \in FileRow
    BY <1>1 DEF Types, CommandRow
  <2>3. NamesPublished(stateFile)' /\ NamesPublished(command.seen)'
    BY <1>1, <1>4, <2>1, <2>2 DEF PublishedFirst, NamesPublished
  <2>4. \A e \in Instances : daemon'[e].shut \notin {"none", "over"} => Published(e)'
    BY <1>1, <1>2, <1>3 DEF PublishedFirst, Published
  <2> QED
    BY <2>3, <2>4 DEF PublishedFirst
<1>7. ASSUME ~strayed PROVE FileIsALock'
  <2>1. Deserted /\ FileIsALock /\ command.name = "start"
    BY <1>1, <1>7 DEF RuntimeInv, FileIsALock, CommandsKnowTheHolder, CommandFits
  <2>2. \A e \in Instances \ {d} : /\ Unannounced(e)' = Unannounced(e)
                                   /\ Holds(e)' = Holds(e) /\ Claims(e)' = Claims(e)
    BY <1>1, <1>3 DEF Unannounced, Holds, Claims, Published
  <2>3. ~Holds(d)' /\ ~Claims(d)'
    BY <1>3 DEF Holds, Claims, Published
  <2>4. HoldersAreNamed' /\ NewcomersAreAlone'
    BY <1>1, <2>1, <2>2, <2>3, DesertedHold DEF FileIsALock, HoldersAreNamed, NewcomersAreAlone, Deserted
  <2>5. CommandsKnowTheHolder'
    BY <1>4 DEF CommandsKnowTheHolder
  <2>6. InstallationStays'
    BY <1>1, <1>4, <2>1 DEF FileIsALock, InstallationStays, InstallationVerified
  <2> QED
    BY <2>4, <2>5, <2>6 DEF FileIsALock
<1> QED
  BY <1>1, <1>5, <1>6, <1>7 DEF RuntimeInv

LEMMA PostShutdownFits ==
    ASSUME RuntimeInv, UNCHANGED stranded, PostShutdown
    PROVE  RuntimeInv'
<1> DEFINE d == command.seen.instance
<1>1. /\ Types /\ PublishedFirst /\ CommandFits /\ command.step = "post"
      /\ UNCHANGED <<stateFile, commands, files, strayed>>
  BY DEF PostShutdown, At, RuntimeInv
<1>2. command.seen # NoFile /\ command.seen \in FileRow
  BY <1>1 DEF CommandFits, Types, CommandRow
<1>3. CASE StopEnds(FALSE) /\ UNCHANGED daemon
  BY <1>1, <1>3, StopEndsKeeps
<1>4. CASE /\ Listening(d)
           /\ daemon' = [daemon EXCEPT ![d].accepted = TRUE,
                                       ![d].shut = IF @ = "none" THEN "begun" ELSE @]
           /\ Goto("await")
  <2>1. PICK e \in Instances : e = d
    BY <1>2, RuntimeFacts
  <2> HIDE DEF d
  <2>2. Published(e)
    BY <1>1, <1>2, <1>4, <2>1 DEF PublishedFirst, NamesPublished, Listening, Published, d
  <2> DEFINE shut == IF daemon[e].shut = "none" THEN "begun" ELSE daemon[e].shut
  <2>3. shut \in Shuts /\ shut # "none" /\ (daemon[e].shut # "none" => shut = daemon[e].shut)
        /\ (daemon[e].shut = "none" => shut = "begun")
    BY <1>1 DEF Types, DaemonRow, Shuts
  <2>4. daemon' = [daemon EXCEPT ![e].accepted = TRUE, ![e].shut = shut]
    BY <1>1, <1>4, <2>1 DEF Types
  <2> HIDE DEF shut
  <2>5. /\ daemon' \in [Instances -> DaemonRow]
        /\ \A x \in Instances \ {e} : daemon'[x] = daemon[x]
        /\ daemon'[e].boot = daemon[e].boot /\ daemon'[e].shut = shut
    BY <1>1, <2>3, <2>4 DEF Types, DaemonRow
  <2>6. /\ command' \in CommandRow /\ command'.step = "await" /\ command'.name = command.name
        /\ command'.seen = command.seen
    BY <1>1, <1>4, GotoEffect DEF Steps
  <2>7. Types' /\ CommandFits'
    BY <1>1, <2>5, <2>6 DEF Types, CommandFits
  <2>8. \A x \in Instances : daemon'[x].boot = daemon[x].boot
    BY <2>5
  <2>9. PublishedFirst'
    <3>1. \A file \in FileRow : NamesPublished(file) =>
              (file # NoFile => daemon'[file.instance].boot \notin {"unborn", "spawned", "bound"})
      BY <2>8, RuntimeFacts DEF NamesPublished
    <3>2. NamesPublished(stateFile)' /\ NamesPublished(command.seen)'
      BY <1>1, <1>2, <2>6, <3>1 DEF PublishedFirst, NamesPublished, Types
    <3>3. \A x \in Instances : daemon'[x].shut \notin {"none", "over"} => Published(x)'
      BY <1>1, <2>2, <2>5 DEF PublishedFirst, Published
    <3> QED
      BY <3>2, <3>3 DEF PublishedFirst
  <2>10. ASSUME ~strayed PROVE FileIsALock'
    <3>1. FileIsALock
      BY <2>10 DEF RuntimeInv
    <3>2. Holds(e) /\ Listening(e)
      BY <1>4, <2>1, <2>2 DEF Holds, Listening
    <3>3. \A x \in Instances : /\ Unannounced(x)' = Unannounced(x)
                               /\ Holds(x)' <=> Holds(x)
                               /\ Claims(x)' <=> Claims(x)
                               /\ Listening(x)' => Listening(x)
      BY <1>1, <2>3, <2>5, <3>2 DEF Unannounced, Holds, Claims, Listening, Published
    <3>4. HoldersAreNamed' /\ NewcomersAreAlone'
      BY <1>1, <3>1, <3>3 DEF FileIsALock, HoldersAreNamed, NewcomersAreAlone
    <3>5. CommandsKnowTheHolder'
      BY <2>6 DEF CommandsKnowTheHolder
    <3>6. Live' => Live
      BY <3>3 DEF Live
    <3>7. InstallationStays'
      BY <1>1, <2>6, <3>1, <3>6 DEF FileIsALock, InstallationStays, InstallationVerified
    <3> QED
      BY <3>4, <3>5, <3>7 DEF FileIsALock
  <2> QED
    BY <1>1, <2>7, <2>9, <2>10 DEF RuntimeInv
<1> QED
  BY <1>3, <1>4 DEF PostShutdown

LEMMA RuntimeStepFits ==
    ASSUME RuntimeInv, RuntimeStep, UNCHANGED stranded
    PROVE  RuntimeInv'
<1>1. CASE Interrupt
  <2>1. Return /\ UNCHANGED <<daemon, stateFile, commands, files, strayed>>
    BY <1>1 DEF Interrupt
  <2> QED
    BY <2>1, ReturnKeeps
<1> QED
  BY <1>1, DaemonStepFits, DecisionFits, RemoveStaleFits, SpawnFits, PostShutdownFits DEF RuntimeStep

-----------------------------------------------------------------------------
(* Installing and removing *)

(***************************************************************************)
(* What a command does to the files of a daemon that serves, and all the   *)
(* more of one still booting: nothing.                                     *)
(***************************************************************************)
LEMMA FilesMoveKeeps ==
    ASSUME RuntimeInv, UNCHANGED <<daemon, stateFile, strayed>>, Types', CommandFits',
           command'.seen \in {NoFile, command.seen},
           command'.name = "start" => command' = command,
           command'.step \in {"install", "rollback"} =>
               command.step \in {"install", "rollback"} /\ command'.before = command.before,
           command'.step \in {"ask", "unlink", "unlinking", "spawn", "remove"} =>
               command'.step = command.step /\ command'.seen = command.seen,
           ~strayed /\ (Live \/ command'.name = "start") =>
               \A item \in Verified : files'[item] = files[item]
    PROVE  RuntimeInv'
<1>1. PublishedFirst'
  <2>1. PublishedFirst
    BY DEF RuntimeInv
  <2>2. \A d \in Instances : daemon'[d].shut \notin {"none", "over"} => Published(d)'
    BY <2>1 DEF PublishedFirst, Published
  <2> QED
    BY <2>1, <2>2 DEF PublishedFirst, NamesPublished
<1>2. ASSUME ~strayed PROVE FileIsALock'
  <2>1. FileIsALock
    BY <1>2 DEF RuntimeInv
  <2>2. \A d \in Instances : /\ Unannounced(d)' = Unannounced(d)
                             /\ Listening(d)' = Listening(d)
                             /\ Holds(d)' = Holds(d) /\ Claims(d)' = Claims(d)
    BY DEF Unannounced, Listening, Holds, Claims, Published
  <2>3. HoldersAreNamed' /\ NewcomersAreAlone'
    BY <2>1, <2>2 DEF FileIsALock, HoldersAreNamed, NewcomersAreAlone
  <2>4. CommandsKnowTheHolder'
    BY <2>1, <2>2 DEF FileIsALock, CommandsKnowTheHolder, Deserted
  <2>5. Live' = Live
    BY <2>2 DEF Live
  <2>6. InstallationStays'
    BY <1>2, <2>1, <2>5 DEF FileIsALock, InstallationStays, InstallationVerified, Verified
  <2> QED
    BY <2>3, <2>4, <2>6 DEF FileIsALock
<1> QED
  BY <1>1, <1>2 DEF RuntimeInv

LEMMA InstallOrders ==
    /\ Len(InstallOrder) = 6 /\ Len(RollbackOrder) = 6 /\ Len(UninstallOrder) = 5
    /\ InstallOrder[1] = "release" /\ InstallOrder[2] = "secrets"
    /\ InstallOrder[3] = "user_launcher" /\ InstallOrder[4] = "hook_launcher"
    /\ InstallOrder[5] = "hooks" /\ InstallOrder[6] = "manifest"
    /\ RollbackOrder[1] = "hooks" /\ RollbackOrder[2] = "user_launcher"
    /\ RollbackOrder[3] = "hook_launcher" /\ RollbackOrder[4] = "manifest"
    /\ RollbackOrder[5] = "secrets" /\ RollbackOrder[6] = "release"
    /\ UninstallOrder[1] = "user_launcher" /\ UninstallOrder[2] = "hook_launcher"
    /\ UninstallOrder[3] = "release" /\ UninstallOrder[4] = "manifest"
    /\ UninstallOrder[5] = "secrets"
BY DEF InstallOrder, RollbackOrder, UninstallOrder

LEMMA NextItems ==
    ASSUME Types, NEW step
    PROVE  /\ AtItem(step, InstallOrder) => NextOf(InstallOrder) \in Items
           /\ AtItem(step, RollbackOrder) => NextOf(RollbackOrder) \in Items
           /\ AtItem(step, UninstallOrder) => NextOf(UninstallOrder) \in Items \ {"hooks"}
<1>1. command.index \in Nat
  BY DEF Types, CommandRow
<1>2. \A n \in Nat : /\ n < 6 => n \in {0, 1, 2, 3, 4, 5}
                     /\ n < 5 => n \in {0, 1, 2, 3, 4}
  OBVIOUS
<1>3. \A n \in {0, 1, 2, 3, 4, 5} : InstallOrder[n + 1] \in Items /\ RollbackOrder[n + 1] \in Items
  BY InstallOrders DEF Items
<1>4. \A n \in {0, 1, 2, 3, 4} : UninstallOrder[n + 1] \in Items \ {"hooks"}
  BY InstallOrders DEF Items
<1> QED
  BY <1>1, <1>2, <1>3, <1>4, InstallOrders DEF AtItem, NextOf

LEMMA PutEffect ==
    ASSUME Types, NEW item \in Items, NEW value \in Nat, Put(item, value)
    PROVE  /\ files' \in [Items -> Nat]
           /\ files'[item] = value
           /\ \A other \in Items \ {item} : files'[other] = files[other]
BY DEF Types, Put

LEMMA ItemValues ==
    /\ NoItem \in Nat /\ Partial \in Nat /\ Whole \in Nat /\ Whole # NoItem
    /\ Verified \subseteq Items /\ "hooks" \in Items /\ "hook_launcher" \in Items
    /\ "release" \in Items
    /\ \A item \in Items : item \notin Verified \cup {"hooks", "hook_launcher"} => item = "user_launcher"
BY DEF NoItem, Partial, Whole, Items, Verified

LEMMA InstalledValue ==
    ASSUME Types, NEW item \in Items
    PROVE  /\ Installed(item) \in Nat
           /\ item \notin {"secrets", "manifest"} => Installed(item) = Whole
<1>1. /\ files["secrets"] \in Nat /\ files[item] \in Nat /\ commands \in Nat
  BY DEF Types, Items
<1> QED
  BY <1>1, ItemValues DEF Installed

(***************************************************************************)
(* Reinstalling over a verified installation changes nothing of it.        *)
(***************************************************************************)
LEMMA InstalledAlready ==
    ASSUME Types, InstallationVerified, NEW item \in Verified,
           item = "release" => files["release"] # Partial
    PROVE  Installed(item) = files[item]
BY DEF Types, InstallationVerified, Verified, Installed

(***************************************************************************)
(* The next operation of a command, or its end.                            *)
(***************************************************************************)
LEMMA ProceedFits ==
    ASSUME Types, CommandFits, NEW step \in {"install", "rollback", "remove"}, NEW order,
           command.step = step, Proceed(step, order)
    PROVE  /\ command' \in CommandRow /\ CommandFits'
           /\ command'.seen \in {NoFile, command.seen}
           /\ command'.name # "start"
           /\ \/ command'.step = "idle"
              \/ command'.step = command.step /\ command'.before = command.before
                 /\ command'.seen = command.seen
<1>1. step \in Steps
  BY DEF Steps
<1>2. CASE command' = Idle
  BY <1>2, IdleFacts DEF CommandFits
<1>3. CASE /\ command'.step = step /\ command'.name = command.name
           /\ command'.seen = command.seen /\ command'.before = command.before
  BY <1>1, <1>3, ProceedEffect DEF CommandFits
<1> QED
  BY <1>1, <1>2, <1>3, ProceedEffect

LEMMA InstallFits ==
    ASSUME RuntimeInv, InstallItem \/ InstallThrows \/ RollBackItem
    PROVE  RuntimeInv'
<1>1. /\ Types /\ CommandFits /\ UNCHANGED <<daemon, stateFile, commands, strayed>>
  BY DEF InstallItem, InstallThrows, RollBackItem, RuntimeInv
<1>2. stranded' \in BOOLEAN
  BY <1>1 DEF Types, InstallItem, InstallThrows, RollBackItem
<1>3. ASSUME ~strayed, Live PROVE InstallationVerified
  BY <1>3 DEF RuntimeInv, FileIsALock, InstallationStays
<1>4. CASE InstallItem
  <2> DEFINE item == NextOf(InstallOrder)
  <2>1. /\ AtItem("install", InstallOrder) /\ command.step = "install"
        /\ item = "release" => files["release"] # Partial
        /\ Put(item, Installed(item)) /\ Proceed("install", InstallOrder)
    BY <1>4 DEF InstallItem, AtItem, At
  <2>2. item \in Items
    BY <1>1, <2>1, NextItems
  <2>3. command' \in CommandRow /\ CommandFits' /\ command'.seen \in {NoFile, command.seen}
        /\ command'.name # "start"
        /\ \/ command'.step = "idle"
           \/ command'.step = "install" /\ command'.before = command.before
    BY <1>1, <2>1, ProceedFits
  <2> HIDE DEF item
  <2>4. files' \in [Items -> Nat] /\ files'[item] = Installed(item)
        /\ \A other \in Items \ {item} : files'[other] = files[other]
    BY <1>1, <2>1, <2>2, InstalledValue, PutEffect
  <2>5. ASSUME ~strayed, Live PROVE \A x \in Verified : files'[x] = files[x]
    BY <1>1, <1>3, <2>1, <2>2, <2>4, <2>5, InstalledAlready, ItemValues
  <2>6. Types'
    BY <1>1, <1>2, <2>3, <2>4 DEF Types
  <2> QED
    BY <1>1, <2>1, <2>3, <2>5, <2>6, FilesMoveKeeps
<1>5. CASE InstallThrows
  <2>1. /\ command.step = "install" /\ files' = files
        /\ command' = [command EXCEPT !.step = "rollback", !.index = 0]
    BY <1>5 DEF InstallThrows, AtItem, At
  <2>2. /\ command' \in CommandRow /\ command'.step = "rollback"
        /\ command'.name = command.name /\ command'.seen = command.seen
        /\ command'.before = command.before
    BY <1>1, <2>1 DEF Types, CommandRow, Steps
  <2>3. Types' /\ CommandFits' /\ command'.name # "start"
    BY <1>1, <1>2, <2>1, <2>2 DEF Types, CommandFits
  <2> QED
    BY <1>1, <2>1, <2>2, <2>3, FilesMoveKeeps
<1>6. CASE RollBackItem
  <2> DEFINE item == NextOf(RollbackOrder)
  <2>1. /\ AtItem("rollback", RollbackOrder) /\ command.step = "rollback"
        /\ Proceed("rollback", RollbackOrder)
        /\ \/ Put(item, command.before[item])
           \/ files' = files
           \/ /\ item = "release" /\ files["release"] # command.before["release"]
              /\ Put("release", Partial)
    BY <1>6 DEF RollBackItem, AtItem, At, Restore
  <2>2. item \in Items
    BY <1>1, <2>1, NextItems
  <2>3. command' \in CommandRow /\ CommandFits' /\ command'.seen \in {NoFile, command.seen}
        /\ command'.name # "start"
        /\ \/ command'.step = "idle"
           \/ command'.step = "rollback" /\ command'.before = command.before
    BY <1>1, <2>1, ProceedFits
  <2> HIDE DEF item
  <2>4. command.before[item] \in Nat
    BY <1>1, <2>2 DEF Types, CommandRow
  <2>5. PICK value \in Nat :
            /\ files' \in [Items -> Nat]
            /\ \A other \in Items \ {item} : files'[other] = files[other]
            /\ \/ files'[item] = command.before[item]
               \/ files'[item] = files[item]
               \/ item = "release" /\ files["release"] # command.before["release"]
    BY <1>1, <2>1, <2>2, <2>4, PutEffect, ItemValues DEF Types
  <2>6. ASSUME ~strayed, Live PROVE \A x \in Verified : files'[x] = files[x]
    <3>1. \A x \in Verified : files[x] = command.before[x]
      BY <2>1, <2>6 DEF RuntimeInv, FileIsALock, InstallationStays
    <3> QED
      BY <2>2, <2>5, <3>1, ItemValues DEF Verified
  <2>7. Types'
    BY <1>1, <1>2, <2>3, <2>5 DEF Types
  <2> QED
    BY <1>1, <2>1, <2>3, <2>6, <2>7, FilesMoveKeeps
<1> QED
  BY <1>4, <1>5, <1>6

LEMMA UninstallFits ==
    ASSUME RuntimeInv,
           \/ BeginInstall \/ BeginUninstall \/ Unhook \/ Rehook \/ CheckNoState
           \/ RemoveItem \/ RemoveThrows
    PROVE  RuntimeInv'
<1>1. /\ Types /\ CommandFits /\ UNCHANGED <<daemon, stateFile, stranded>>
  BY DEF BeginInstall, BeginUninstall, Unhook, Rehook, CheckNoState, RemoveItem, RemoveThrows,
         RuntimeInv
<1>2. CASE BeginInstall
  <2>1. Begin("install", "install") /\ UNCHANGED <<files, strayed>>
    BY <1>2 DEF BeginInstall
  <2>2. "install" \in Names
    BY DEF Names
  <2> QED
    BY <1>1, <2>1, <2>2, BeginKeeps
<1>3. CASE BeginUninstall
  <2>1. Begin("uninstall", "unhook") /\ UNCHANGED <<files, strayed>>
    BY <1>3 DEF BeginUninstall
  <2>2. "uninstall" \in Names
    BY DEF Names
  <2> QED
    BY <1>1, <2>1, <2>2, BeginKeeps
<1>4. CASE Unhook
  <2>1. /\ command.step = "unhook" /\ Put("hooks", NoItem) /\ Goto("probe")
        /\ UNCHANGED <<commands, strayed>>
    BY <1>4 DEF Unhook, At
  <2>2. files' \in [Items -> Nat] /\ \A item \in Verified : files'[item] = files[item]
    BY <1>1, <2>1, PutEffect, ItemValues DEF Verified
  <2>3. /\ command' \in CommandRow /\ command'.step = "probe" /\ command'.name = command.name
        /\ command'.seen = command.seen
    BY <1>1, <2>1, GotoEffect DEF Steps
  <2>4. Types' /\ CommandFits' /\ command'.name # "start"
    BY <1>1, <2>1, <2>2, <2>3 DEF Types, CommandFits
  <2> QED
    BY <1>1, <2>1, <2>2, <2>3, <2>4, FilesMoveKeeps
<1>5. CASE Rehook
  <2>1. /\ UNCHANGED <<commands, strayed>> /\ command' = Idle
        /\ Put("hooks", command.before["hooks"]) \/ files' = files
    BY <1>5 DEF Rehook, Return, Restore
  <2>2. command.before["hooks"] \in Nat
    BY <1>1, ItemValues DEF Types, CommandRow
  <2>3. files' \in [Items -> Nat] /\ \A item \in Verified : files'[item] = files[item]
    BY <1>1, <2>1, <2>2, PutEffect, ItemValues DEF Verified, Types
  <2>4. Types' /\ CommandFits'
    BY <1>1, <2>1, <2>3, IdleFacts DEF Types, CommandFits
  <2> QED
    BY <1>1, <2>1, <2>3, <2>4, IdleFacts, FilesMoveKeeps
<1>6. CASE CheckNoState
  <2>1. command.step = "check" /\ command.name = "uninstall" /\ UNCHANGED <<commands, files>>
    BY <1>1, <1>6 DEF CheckNoState, At, CommandFits
  <2>2. CASE stateFile = NoFile /\ Decide("remove")
    <3>1. ReadsFile("remove") /\ strayed' = (strayed \/ \E d \in Instances : Unannounced(d))
      BY <2>2 DEF Decide, ReadsFile
    <3>2. strayed' \in BOOLEAN /\ (strayed => strayed')
      BY <1>1, <3>1 DEF Types
    <3> QED
      BY <1>1, <2>1, <2>2, <3>1, <3>2, ReadKeeps
  <2>3. CASE Return /\ UNCHANGED strayed
    BY <1>1, <2>1, <2>3, ReturnKeeps
  <2> QED
    BY <1>6, <2>2, <2>3 DEF CheckNoState
<1>7. CASE RemoveItem
  <2> DEFINE item == NextOf(UninstallOrder)
  <2>1. /\ AtItem("remove", UninstallOrder) /\ command.step = "remove"
        /\ UNCHANGED <<commands, strayed>>
        /\ \/ Put("release", Partial) /\ command' = command
           \/ Put(item, NoItem) /\ Proceed("remove", UninstallOrder)
    BY <1>7 DEF RemoveItem, AtItem, At
  <2>2. item \in Items
    BY <1>1, <2>1, NextItems
  <2> HIDE DEF item
  <2>3. files' \in [Items -> Nat]
    BY <1>1, <2>1, <2>2, PutEffect, ItemValues
  <2>4. command' \in CommandRow /\ CommandFits' /\ command'.seen \in {NoFile, command.seen}
        /\ command'.name # "start"
        /\ \/ command'.step = "idle"
           \/ command'.step = "remove" /\ command'.seen = command.seen
    <3>1. CASE command' = command
      BY <1>1, <2>1, <3>1 DEF Types, CommandFits
    <3>2. CASE Proceed("remove", UninstallOrder)
      BY <1>1, <2>1, <3>2, ProceedFits
    <3> QED
      BY <2>1, <3>1, <3>2
  <2>5. strayed \/ ~Live
    BY <2>1, DesertedHold DEF RuntimeInv, FileIsALock, CommandsKnowTheHolder
  <2>6. Types'
    BY <1>1, <2>1, <2>3, <2>4 DEF Types
  <2> QED
    BY <1>1, <2>1, <2>4, <2>5, <2>6, FilesMoveKeeps
<1>8. CASE RemoveThrows
  <2>1. Return /\ UNCHANGED <<commands, files, strayed>>
    BY <1>8 DEF RemoveThrows
  <2> QED
    BY <1>1, <2>1, ReturnKeeps
<1> QED
  BY <1>2, <1>3, <1>4, <1>5, <1>6, <1>7, <1>8

LEMMA SetHooksFits ==
    ASSUME RuntimeInv, NEW present \in {NoItem, Whole}, SetHooks(present)
    PROVE  RuntimeInv'
<1>1. /\ Types /\ CommandFits /\ UNCHANGED <<daemon, stateFile, strayed>> /\ command' = command
      /\ command = Idle /\ commands' = commands + 1 /\ Put("hooks", present)
  BY DEF SetHooks, RuntimeInv
<1>2. files' \in [Items -> Nat] /\ \A item \in Verified : files'[item] = files[item]
  BY <1>1, PutEffect, ItemValues DEF Verified
<1>3. stranded' \in BOOLEAN
  BY <1>1 DEF SetHooks, Types
<1>4. Types' /\ CommandFits'
  BY <1>1, <1>2, <1>3 DEF Types, CommandFits
<1> QED
  BY <1>1, <1>2, <1>4, IdleFacts, FilesMoveKeeps

LEMMA RuntimeInvKept == RuntimeInv /\ [InstallationNext]_installationVars => RuntimeInv'
<1> SUFFICES ASSUME RuntimeInv, [InstallationNext]_installationVars PROVE RuntimeInv'
  OBVIOUS
<1>1. CASE UNCHANGED installationVars
  <2>1. UNCHANGED <<daemon, stateFile, command, files, commands, strayed, stranded>>
    BY <1>1 DEF installationVars
  <2>2. Types' /\ CommandFits' /\ PublishedFirst'
    BY <2>1 DEF RuntimeInv, Types, CommandFits, PublishedFirst, NamesPublished, Published
  <2>3. FileIsALock' = FileIsALock
    BY <2>1 DEF FileIsALock, HoldersAreNamed, NewcomersAreAlone, CommandsKnowTheHolder, Deserted,
                InstallationStays, InstallationVerified, Live, Holds, Claims, Published, Unannounced,
                Listening
  <2> QED
    BY <2>1, <2>2, <2>3 DEF RuntimeInv
<1>2. CASE RuntimeStep /\ UNCHANGED stranded
  BY <1>2, RuntimeStepFits
<1> QED
  BY <1>1, <1>2, InstallFits, UninstallFits, SetHooksFits DEF InstallationNext

LEMMA RuntimeStart == InstallationInit => RuntimeInv
<1> SUFFICES ASSUME InstallationInit PROVE RuntimeInv
  OBVIOUS
<1>1. /\ daemon = [d \in Instances |->
            [boot |-> "unborn", shut |-> "none", phase |-> "starting", accepted |-> FALSE]]
      /\ stateFile = NoFile /\ command = Idle /\ files = [i \in Items |-> NoItem]
      /\ commands = 0 /\ strayed = FALSE /\ stranded = FALSE
  BY DEF InstallationInit, RuntimeInit, CommandInit
<1>2. Types /\ CommandFits
  BY <1>1, RuntimeFacts, IdleFacts, ItemValues
     DEF Types, CommandFits, DaemonRow, Boots, Shuts, Phases
<1>3. PublishedFirst
  BY <1>1, IdleFacts DEF PublishedFirst, NamesPublished
<1>4. \A d \in Instances : ~Unannounced(d) /\ ~Listening(d) /\ ~Holds(d) /\ ~Claims(d)
  BY <1>1 DEF Unannounced, Listening, Holds, Claims, Published
<1>5. FileIsALock
  BY <1>1, <1>4, IdleFacts
     DEF FileIsALock, HoldersAreNamed, NewcomersAreAlone, CommandsKnowTheHolder,
         InstallationStays, Live
<1> QED
  BY <1>2, <1>3, <1>5 DEF RuntimeInv

(***************************************************************************)
(* The state file is the only lock there is, read, written and removed by  *)
(* daemons and commands in separate steps.  Whatever dies, fails or is     *)
(* interrupted between them, at most one daemon serves, and it serves a    *)
(* whole installation, unless the file is known to have misled a command.  *)
(***************************************************************************)
THEOREM TheFileIsALock == InstallationSpec => []OneDaemonServes
<1>1. RuntimeInv => OneDaemonServes
  <2> SUFFICES ASSUME RuntimeInv, ~strayed, NEW d \in Instances, Listening(d)
               PROVE  (\A e \in Instances : Listening(e) => d = e) /\ InstallationVerified
    BY DEF OneDaemonServes
  <2>1. FileIsALock
    BY DEF RuntimeInv
  <2>2. \A e \in Instances : Listening(e) => Unannounced(e) \/ Claims(e)
    BY <2>1, ListenersHold DEF FileIsALock, HoldersAreNamed, Holds, Claims
  <2>3. ASSUME NEW e \in Instances, Listening(e), d # e PROVE FALSE
    BY <2>1, <2>2, <2>3 DEF FileIsALock, NewcomersAreAlone, Claims
  <2>4. InstallationVerified
    BY <2>1 DEF FileIsALock, InstallationStays, Live
  <2> QED
    BY <2>3, <2>4
<1> QED
  BY <1>1, RuntimeStart, RuntimeInvKept, PTL DEF InstallationSpec

-----------------------------------------------------------------------------
(* Hooks have their launcher *)

Launches(items) == items["hooks"] # NoItem => items["hook_launcher"] # NoItem

LauncherKept == command.before["hook_launcher"] # NoItem => files["hook_launcher"] # NoItem

(***************************************************************************)
(* What is put back, when a command fails, was whole when it began; and    *)
(* hooks are set after their launcher and taken back before it.            *)
(***************************************************************************)
HooksFollow ==
    /\ Launches(files)
    /\ Launches(command.before)
    /\ command.step \in {"install", "rollback"} => LauncherKept
    /\ command.step = "install" /\ command.index >= 4 => files["hook_launcher"] # NoItem
    /\ command.step = "rollback" /\ command.index >= 1 => files["hooks"] = command.before["hooks"]
    /\ command.name = "uninstall" /\ command.step # "unhook" => files["hooks"] = NoItem
    /\ command.name = "uninstall" /\ command.step # "remove" => LauncherKept

HooksInv == RuntimeInv /\ (stranded \/ HooksFollow)

(***************************************************************************)
(* What starting, stopping and the daemons do to the command under way.    *)
(***************************************************************************)
Changes == {"install", "rollback", "unhook", "remove"}

LEMMA RuntimeCommands ==
    ASSUME Types, RuntimeStep
    PROVE  /\ files' = files
           /\ \/ command' = command
              \/ command' = Idle
              \/ /\ command'.before = files /\ command'.step = "probe"
                 /\ command'.name \in {"start", "stop"}
              \/ /\ command'.name = command.name /\ command'.before = command.before
                 /\ command.step \notin Changes /\ command'.step \notin Changes
<1>1. CASE DaemonStep
  BY <1>1 DEF DaemonStep
<1>2. CASE BeginStart \/ BeginStop
  <2>1. PICK name \in {"start", "stop"} : Begin(name, "probe")
    BY <1>2 DEF BeginStart, BeginStop
  <2>2. files' = files
    BY <1>2 DEF BeginStart, BeginStop
  <2> QED
    BY <2>1, <2>2, BeginEffect DEF Names, Steps
<1>3. CASE ReadFile
  <2>1. command.step = "probe" /\ ReadsFile("ask") /\ files' = files
    BY <1>3 DEF ReadFile, Decide, At, ReadsFile
  <2> QED
    BY <2>1, ReadEffect DEF Steps, Changes
<1>4. CASE AwaitRead
  <2>1. command.step = "await" /\ ReadsFile("await_ask") /\ files' = files
    BY <1>4 DEF AwaitRead, At, ReadsFile
  <2> QED
    BY <2>1, ReadEffect DEF Steps, Changes
<1>5. CASE \/ DecideStart \/ CheckStale \/ RemoveStale \/ Spawn \/ DecideStop \/ PostShutdown
           \/ AwaitTimesOut \/ AwaitStart \/ AwaitStop
  <2>1. files' = files /\ command.step \notin Changes
    BY <1>5 DEF DecideStart, CheckStale, RemoveStale, Spawn, DecideStop, PostShutdown,
                AwaitTimesOut, AwaitStart, AwaitStop, At, Changes
  <2>2. \/ command' = Idle
        \/ \E step \in {"spawn", "unlink", "unlinking", "await", "post", "check", "rehook"} : Goto(step)
    BY <1>5 DEF DecideStart, CheckStale, RemoveStale, Spawn, DecideStop, PostShutdown,
                AwaitTimesOut, AwaitStart, AwaitStop, StopEnds, Return
  <2>3. ASSUME NEW step \in {"spawn", "unlink", "unlinking", "await", "post", "check", "rehook"},
               Goto(step)
        PROVE  /\ command'.name = command.name /\ command'.before = command.before
               /\ command'.step \notin Changes
    BY <2>3, GotoEffect DEF Steps, Changes
  <2> QED
    BY <2>1, <2>2, <2>3
<1>6. CASE Interrupt
  BY <1>6 DEF Interrupt, Return
<1> QED
  BY <1>1, <1>2, <1>3, <1>4, <1>5, <1>6 DEF RuntimeStep

LEMMA IdleFollows ==
    ASSUME Launches(files)', command' = Idle
    PROVE  HooksFollow'
<1>1. Launches(command.before)'
  BY IdleFacts, ItemValues DEF Launches
<1> QED
  BY <1>1, IdleFacts DEF HooksFollow

LEMMA InstallFollows ==
    ASSUME RuntimeInv, HooksFollow, InstallItem
    PROVE  HooksFollow'
<1> DEFINE item == NextOf(InstallOrder)
<1>1. /\ Types /\ AtItem("install", InstallOrder) /\ command.step = "install"
      /\ Put(item, Installed(item)) /\ Proceed("install", InstallOrder)
  BY DEF InstallItem, AtItem, At, RuntimeInv
<1>2. /\ command.index \in Nat /\ item = InstallOrder[command.index + 1]
      /\ command.index \in {0, 1, 2, 3, 4, 5} /\ item \in Items
  BY <1>1, InstallOrders, NextItems DEF Types, CommandRow, AtItem, NextOf
<1>3. /\ item = "hooks" <=> command.index = 4
      /\ item = "hook_launcher" <=> command.index = 3
  BY <1>2, InstallOrders
<1> HIDE DEF item
<1>4. /\ files'[item] = Installed(item)
      /\ \A other \in Items \ {item} : files'[other] = files[other]
  BY <1>1, <1>2, InstalledValue, PutEffect
<1>5. /\ item # "hooks" => files'["hooks"] = files["hooks"]
      /\ files'["hook_launcher"] \in {files["hook_launcher"], Whole}
      /\ item = "hook_launcher" => files'["hook_launcher"] = Whole
  BY <1>1, <1>2, <1>4, InstalledValue, ItemValues DEF Items
<1>6. command.index >= 4 => files["hook_launcher"] # NoItem
  BY <1>1 DEF HooksFollow
<1>7. Launches(files)'
  BY <1>2, <1>3, <1>5, <1>6, ItemValues DEF HooksFollow, Launches
<1>8. CASE command' = Idle
  BY <1>7, <1>8, IdleFollows
<1>9. CASE /\ command'.step = "install" /\ command'.name = command.name
           /\ command'.before = command.before /\ command'.index = command.index + 1
  <2>1. command.name = "install"
    BY <1>1 DEF RuntimeInv, CommandFits
  <2>2. LauncherKept'
    BY <1>1, <1>5, <1>9, ItemValues DEF HooksFollow, LauncherKept
  <2>3. command'.index >= 4 => files'["hook_launcher"] # NoItem
    BY <1>2, <1>3, <1>5, <1>6, <1>9, ItemValues
  <2> QED
    BY <1>7, <1>9, <2>1, <2>2, <2>3 DEF HooksFollow
<1> QED
  BY <1>1, <1>8, <1>9, ProceedEffect DEF Steps

LEMMA RollBackFollows ==
    ASSUME RuntimeInv, HooksFollow, RollBackItem
    PROVE  stranded' \/ HooksFollow'
<1> SUFFICES ASSUME ~stranded' PROVE HooksFollow'
  OBVIOUS
<1> DEFINE item == NextOf(RollbackOrder)
<1>1. /\ Types /\ AtItem("rollback", RollbackOrder) /\ command.step = "rollback"
      /\ Proceed("rollback", RollbackOrder)
      /\ \/ Put(item, command.before[item])
         \/ files' = files /\ item # "hooks"
         \/ item = "release" /\ Put("release", Partial)
  BY DEF RollBackItem, AtItem, At, Restore, RuntimeInv
<1>2. /\ command.index \in Nat /\ item = RollbackOrder[command.index + 1]
      /\ command.index \in {0, 1, 2, 3, 4, 5} /\ item \in Items
  BY <1>1, InstallOrders, NextItems DEF Types, CommandRow, AtItem, NextOf
<1>3. item = "hooks" <=> command.index = 0
  BY <1>2, InstallOrders
<1> HIDE DEF item
<1>4. command.before[item] \in Nat
  BY <1>1, <1>2 DEF Types, CommandRow
<1>5. /\ item = "hooks" => files'["hooks"] = command.before["hooks"]
      /\ item # "hooks" => files'["hooks"] = files["hooks"]
      /\ files'["hook_launcher"] \in {files["hook_launcher"], command.before["hook_launcher"]}
  <2>1. CASE Put(item, command.before[item])
    BY <1>1, <1>2, <1>4, <2>1, PutEffect, ItemValues
  <2>2. CASE files' = files /\ item # "hooks"
    BY <2>2
  <2>3. CASE item = "release" /\ Put("release", Partial)
    BY <1>1, <2>3, PutEffect, ItemValues
  <2> QED
    BY <1>1, <2>1, <2>2, <2>3
<1>6. files'["hooks"] = command.before["hooks"]
  BY <1>1, <1>2, <1>3, <1>5 DEF HooksFollow
<1>7. command.before["hook_launcher"] # NoItem => files'["hook_launcher"] # NoItem
  BY <1>1, <1>5 DEF HooksFollow, LauncherKept
<1>8. Launches(files)'
  BY <1>6, <1>7 DEF HooksFollow, Launches
<1>9. CASE command' = Idle
  BY <1>8, <1>9, IdleFollows
<1>10. CASE /\ command'.step = "rollback" /\ command'.name = command.name
            /\ command'.before = command.before
  <2>1. command.name = "install"
    BY <1>1 DEF RuntimeInv, CommandFits
  <2> QED
    BY <1>6, <1>7, <1>8, <1>10, <2>1 DEF HooksFollow, LauncherKept
<1> QED
  BY <1>1, <1>9, <1>10, ProceedEffect DEF Steps

LEMMA UninstallFollows ==
    ASSUME RuntimeInv, HooksFollow,
           \/ BeginInstall \/ InstallThrows \/ BeginUninstall \/ Unhook \/ Rehook \/ CheckNoState
           \/ RemoveItem \/ RemoveThrows
    PROVE  HooksFollow'
<1>1. Types /\ CommandFits /\ Launches(files)
  BY DEF RuntimeInv, HooksFollow
<1>2. CASE BeginInstall \/ BeginUninstall
  <2>1. PICK name \in {"install", "uninstall"}, step \in {"install", "unhook"} :
            Begin(name, step) /\ (name = "uninstall" => step = "unhook")
    BY <1>2 DEF BeginInstall, BeginUninstall
  <2>2. files' = files
    BY <1>2 DEF BeginInstall, BeginUninstall
  <2>3. /\ command'.step = step /\ command'.name = name
        /\ command'.before = files /\ command'.index = 0
    BY <1>1, <2>1, BeginEffect DEF Names, Steps
  <2> QED
    BY <1>1, <2>1, <2>2, <2>3 DEF HooksFollow, LauncherKept, Launches
<1>3. CASE InstallThrows
  <2>1. /\ command.step = "install" /\ files' = files
        /\ command' = [command EXCEPT !.step = "rollback", !.index = 0]
    BY <1>3 DEF InstallThrows, AtItem, At
  <2>2. /\ command'.step = "rollback" /\ command'.name = command.name
        /\ command'.before = command.before /\ command'.index = 0
    BY <1>1, <2>1 DEF Types, CommandRow
  <2>3. command.name = "install"
    BY <1>1, <2>1 DEF CommandFits
  <2> QED
    BY <1>1, <2>1, <2>2, <2>3 DEF HooksFollow, LauncherKept
<1>4. CASE Unhook
  <2>1. command.step = "unhook" /\ Put("hooks", NoItem) /\ Goto("probe")
    BY <1>4 DEF Unhook, At
  <2>2. /\ command'.step = "probe" /\ command'.name = command.name
        /\ command'.before = command.before
    BY <1>1, <2>1, GotoEffect DEF Steps
  <2>3. files'["hooks"] = NoItem /\ files'["hook_launcher"] = files["hook_launcher"]
    BY <1>1, <2>1, PutEffect, ItemValues
  <2>4. command.name = "uninstall"
    BY <1>1, <2>1 DEF CommandFits
  <2> QED
    BY <2>1, <2>2, <2>3, <2>4 DEF HooksFollow, LauncherKept, Launches
<1>5. CASE Rehook
  <2>1. /\ command.step = "rehook" /\ command' = Idle
        /\ Put("hooks", command.before["hooks"]) \/ files' = files
    BY <1>5 DEF Rehook, At, Return, Restore
  <2>2. command.before["hooks"] \in Nat
    BY <1>1, ItemValues DEF Types, CommandRow
  <2>3. LauncherKept /\ Launches(command.before)
    BY <1>1, <2>1 DEF HooksFollow, CommandFits
  <2>4. Launches(files)'
    BY <1>1, <2>1, <2>2, <2>3, PutEffect, ItemValues DEF Launches, LauncherKept
  <2> QED
    BY <2>1, <2>4, IdleFollows
<1>6. CASE CheckNoState
  <2>1. command.step = "check" /\ files' = files
        /\ (ReadsFile("remove") \/ command' = Idle)
    BY <1>6 DEF CheckNoState, At, Decide, ReadsFile, Return
  <2>2. CASE ReadsFile("remove")
    <3>1. /\ command'.step = "remove" /\ command'.name = command.name
          /\ command'.before = command.before
      BY <1>1, <2>2, ReadEffect DEF Steps
    <3>2. command.name = "uninstall"
      BY <1>1, <2>1 DEF CommandFits
    <3> QED
      BY <2>1, <3>1, <3>2 DEF HooksFollow
  <2> QED
    BY <1>1, <2>1, <2>2, IdleFollows DEF Launches
<1>7. CASE RemoveItem
  <2> DEFINE item == NextOf(UninstallOrder)
  <2>1. /\ AtItem("remove", UninstallOrder) /\ command.step = "remove"
        /\ \/ Put("release", Partial) /\ command' = command
           \/ Put(item, NoItem) /\ Proceed("remove", UninstallOrder)
    BY <1>7 DEF RemoveItem, AtItem, At
  <2>2. item \in Items \ {"hooks"}
    BY <1>1, <2>1, NextItems
  <2> HIDE DEF item
  <2>3. command.name = "uninstall" /\ files["hooks"] = NoItem
    BY <1>1, <2>1 DEF CommandFits, HooksFollow
  <2>4. files'["hooks"] = NoItem
    BY <1>1, <2>1, <2>2, <2>3, PutEffect, ItemValues
  <2>5. \/ command' = Idle
        \/ command'.step = "remove" /\ command'.name = command.name
           /\ command'.before = command.before
    BY <1>1, <2>1, ProceedEffect DEF Steps
  <2> QED
    BY <2>3, <2>4, <2>5, IdleFollows DEF HooksFollow, Launches
<1>8. CASE RemoveThrows
  BY <1>1, <1>8, IdleFollows DEF RemoveThrows, Return, Launches
<1> QED
  BY <1>2, <1>3, <1>4, <1>5, <1>6, <1>7, <1>8

LEMMA SetHooksFollows ==
    ASSUME RuntimeInv, HooksFollow, NEW present \in {NoItem, Whole}, SetHooks(present)
    PROVE  stranded' \/ HooksFollow'
<1>1. Types /\ Put("hooks", present) /\ command = Idle /\ command' = command
  BY DEF SetHooks, RuntimeInv
<1>2. files'["hooks"] = present /\ files'["hook_launcher"] = files["hook_launcher"]
  BY <1>1, PutEffect, ItemValues
<1>3. ~stranded' => (present = Whole => files["hook_launcher"] # NoItem)
  BY DEF SetHooks
<1> QED
  BY <1>1, <1>2, <1>3, IdleFollows DEF Launches

LEMMA HooksInvKept == HooksInv /\ [InstallationNext]_installationVars => HooksInv'
<1> SUFFICES ASSUME HooksInv, [InstallationNext]_installationVars, ~stranded' PROVE HooksFollow'
  BY RuntimeInvKept DEF HooksInv
<1>1. RuntimeInv /\ Types /\ HooksFollow
  <2>1. stranded => stranded'
    BY DEF InstallationNext, BeginInstall, InstallItem, InstallThrows, RollBackItem, BeginUninstall,
           Unhook, Rehook, CheckNoState, RemoveItem, RemoveThrows, SetHooks, installationVars
  <2> QED
    BY <2>1 DEF HooksInv, RuntimeInv
<1>2. CASE UNCHANGED installationVars
  BY <1>1, <1>2 DEF installationVars, HooksFollow, Launches, LauncherKept
<1>3. CASE RuntimeStep
  <2>1. Launches(files)'
    BY <1>1, <1>3, RuntimeCommands DEF HooksFollow, Launches
  <2>2. CASE command' = command \/ command' = Idle
    BY <1>1, <1>3, <2>1, <2>2, RuntimeCommands, IdleFollows DEF HooksFollow, Launches, LauncherKept
  <2>3. CASE /\ command'.before = files /\ command'.step = "probe"
             /\ command'.name \in {"start", "stop"}
    BY <1>1, <2>1, <2>3 DEF HooksFollow, Launches
  <2>4. CASE /\ command'.name = command.name /\ command'.before = command.before
             /\ command.step \notin Changes /\ command'.step \notin Changes
    BY <1>1, <1>3, <2>1, <2>4, RuntimeCommands DEF HooksFollow, Launches, LauncherKept, Changes
  <2> QED
    BY <1>1, <1>3, <2>2, <2>3, <2>4, RuntimeCommands
<1> QED
  BY <1>1, <1>2, <1>3, InstallFollows, RollBackFollows, UninstallFollows, SetHooksFollows
     DEF InstallationNext

(***************************************************************************)
(* The agent's settings name no launcher that is not there, however        *)
(* installing, rolling back and removing fail or are cut short: hooks are  *)
(* set after their launcher and taken away before it, and what a rollback  *)
(* restores was whole when the command began.                              *)
(***************************************************************************)
THEOREM HooksAreLaunched == InstallationSpec => []HooksHaveTheirLauncher
<1>1. InstallationInit => HooksInv
  <2> SUFFICES ASSUME InstallationInit PROVE HooksFollow
    BY RuntimeStart DEF HooksInv
  <2>1. command = Idle /\ files = [i \in Items |-> NoItem]
    BY DEF InstallationInit, CommandInit
  <2> QED
    BY <2>1, IdleFacts, ItemValues DEF HooksFollow, Launches
<1>2. HooksInv => HooksHaveTheirLauncher
  BY DEF HooksInv, HooksFollow, HooksHaveTheirLauncher, Launches
<1> QED
  BY <1>1, <1>2, HooksInvKept, PTL DEF InstallationSpec


-----------------------------------------------------------------------------
(***************************************************************************)
(* The counters.                                                           *)
(***************************************************************************)
CountersFit == commands \in 0 .. MaxCommands /\ faults \in 0 .. MaxFaults

LEMMA FaultsFit ==
    ASSUME CountersFit, UNCHANGED faults \/ Fault
    PROVE  faults' \in 0 .. MaxFaults
BY RuntimeConstants DEF RuntimeConstants, CountersFit, Fault

LEMMA CommandsFit ==
    ASSUME CountersFit, UNCHANGED commands \/ (commands < MaxCommands /\ commands' = commands + 1)
    PROVE  commands' \in 0 .. MaxCommands
BY RuntimeConstants DEF RuntimeConstants, CountersFit

LEMMA CountersKept == CountersFit /\ [InstallationNext]_installationVars => CountersFit'
<1> SUFFICES ASSUME CountersFit, [InstallationNext]_installationVars PROVE CountersFit'
  OBVIOUS
<1>1. CASE UNCHANGED installationVars
  BY <1>1 DEF CountersFit, installationVars
<1>2. CASE DaemonStep
  <2>1. UNCHANGED commands
    BY <1>2 DEF DaemonStep
  <2>2. UNCHANGED faults \/ Fault
    BY <1>2 DEF DaemonStep, VerifyAndBind, PublishStarting, RecoverAndPump, PublishReady, FinishBoot,
       BootThrows, Signal, PublishStopping, StopPump, CloseServer, CheckOwner, RemoveOwned, Exit, Kill
  <2> QED BY <2>1, <2>2, FaultsFit, CommandsFit DEF CountersFit
<1>3. CASE RuntimeStep /\ ~DaemonStep
  <2>1. UNCHANGED commands \/ (commands < MaxCommands /\ commands' = commands + 1)
    BY <1>3 DEF RuntimeStep, BeginStart, BeginStop, Begin, ReadFile, DecideStart, CheckStale, RemoveStale,
       Spawn, DecideStop, PostShutdown, AwaitRead, AwaitTimesOut, AwaitStart, AwaitStop, Interrupt
  <2>2. UNCHANGED faults \/ Fault
    BY <1>3 DEF RuntimeStep, BeginStart, BeginStop, Begin, ReadFile, DecideStart, CheckStale, RemoveStale,
       Spawn, DecideStop, PostShutdown, AwaitRead, AwaitTimesOut, AwaitStart, AwaitStop, Interrupt
  <2> QED BY <2>1, <2>2, FaultsFit, CommandsFit DEF CountersFit
<1>4. CASE ~RuntimeStep
  <2>1. UNCHANGED commands \/ (commands < MaxCommands /\ commands' = commands + 1)
    BY <1>1, <1>4 DEF InstallationNext, BeginInstall, Begin, InstallItem, InstallThrows, RollBackItem,
       BeginUninstall, Unhook, Rehook, CheckNoState, RemoveItem, RemoveThrows, SetHooks, installationVars
  <2>2. UNCHANGED faults \/ Fault
    BY <1>1, <1>4 DEF InstallationNext, BeginInstall, Begin, InstallItem, InstallThrows, RollBackItem,
       BeginUninstall, Unhook, Rehook, CheckNoState, RemoveItem, RemoveThrows, SetHooks, installationVars
  <2> QED BY <2>1, <2>2, FaultsFit, CommandsFit DEF CountersFit
<1> QED BY <1>2, <1>3, <1>4

(***************************************************************************)
(* Types, for any number of daemons, commands and faults.                  *)
(***************************************************************************)
THEOREM InstallationTypeCorrect == InstallationSpec => []InstallationTypeOK
<1>1. InstallationInit => CountersFit
  BY RuntimeConstants DEF RuntimeConstants, InstallationInit, RuntimeInit, CountersFit
<1>2. RuntimeInv /\ CountersFit => InstallationTypeOK
  <2> SUFFICES ASSUME RuntimeInv, CountersFit PROVE InstallationTypeOK
    OBVIOUS
  <2>1. FileRow \subseteq [instance: Instances \cup {0}, phase: Phases \cup {"none"}]
    BY DEF FileRow, NoFile
  <2> QED BY <2>1 DEF RuntimeInv, Types, CountersFit, InstallationTypeOK
<1> QED
  BY <1>1, <1>2, RuntimeStart, RuntimeInvKept, CountersKept, PTL DEF InstallationSpec

=================================================================================
