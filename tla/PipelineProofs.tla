----------------------------- MODULE PipelineProofs -----------------------------
(***************************************************************************)
(* Proofs about the pump and startup recovery, for any number of receipts, *)
(* sessions, crashes and failures and any batch sizes.                     *)
(***************************************************************************)
EXTENDS EvidencePipeline, LifecycleProofs, SequenceTheorems, FiniteSetTheorems,
        WellFoundedInduction

(***************************************************************************)
(* What the pump does to the rows of the lifecycle: the ids it draws are   *)
(* the ones a database may hold, and the run of a Stop receipt is past     *)
(* capturing; every accepted receipt names its hook.                       *)
(***************************************************************************)
StopLeavesCapturing(r) ==
    (receipt[r].hook \in StopHooks /\ resolution[r].run # NoRun) =>
        run[resolution[r].run].status \notin {None, "Capturing"}

LifecycleInv == /\ PointerInv
                /\ PromiseInv
                /\ idRank \in IdOrders
                /\ \A r \in Receipts : StopLeavesCapturing(r)
                /\ \A r \in Receipts : receipt[r].status # None => receipt[r].hook \in HookNames

(***************************************************************************)
(* The lifecycle stage works on the oldest pending receipts.               *)
(***************************************************************************)
BatchIsOldest ==
    stage = "lifecycle" =>
        /\ batch \subseteq Pending
        /\ \A i \in batch, j \in Pending \ batch : ~Before(j, i)

(***************************************************************************)
(* Recovery works on runs that are still stale.                            *)
(***************************************************************************)
BatchIsStale == stage = "recovery" => batch \subseteq StaleRuns

(***************************************************************************)
(* A Stop event comes from a Stop receipt that was resolved to its run.    *)
(***************************************************************************)
IsStopOf(r, q) == r \in Receipts /\ receipt[r].hook \in StopHooks /\ resolution[r].run = q

StopEventsHaveReceipts ==
    \A q \in Receipts : \A i \in StopIndices(q) : IsStopOf(events[q][i].by, q)

(***************************************************************************)
(* The terminal event of a run, its finalization row and its status belong *)
(* together.                                                               *)
(***************************************************************************)
Unsealed(q) == finalization[q].status = None /\ TerminalIndices(q) = {}

SealedAs(q) ==
    /\ finalization[q].status \in Terminal
    /\ run[q].status = finalization[q].status
    /\ \E i \in DOMAIN events[q] :
          /\ TerminalIndices(q) = {i}
          /\ events[q][i].type = TerminalEvent[finalization[q].status]

SealInv == \A q \in Receipts : Unsealed(q) \/ SealedAs(q)

(***************************************************************************)
(* A preflight is made for a run of the batch in hand and is used, or      *)
(* thrown away, before the stage ends.                                     *)
(***************************************************************************)
PreflightInv ==
    IF preflight.run = NoRun THEN preflight = NoPreflight
    ELSE /\ stage \in {"finalization", "recovery"}
         /\ preflight.run \in batch
         /\ PreflightStillCurrent

PipelineInv == /\ TypeOK
               /\ LifecycleInv
               /\ BatchIsOldest
               /\ BatchIsStale
               /\ StopEventsHaveReceipts
               /\ SealInv
               /\ PreflightInv

-----------------------------------------------------------------------------
(* Maxima, and events that are appended *)

(***************************************************************************)
(* A non-empty set of indices has a last one: no infinite descent below    *)
(* the bound.                                                              *)
(***************************************************************************)
LEMMA LastIndex ==
    ASSUME NEW n \in Nat, NEW S \in SUBSET (1 .. n), S # {}
    PROVE  Max(S) \in S /\ \A i \in S : i <= Max(S)
<1> DEFINE R == {p \in Nat \X Nat : p[1] < p[2]}
           T == {n - i : i \in S}
<1>1. IsWellFoundedOn(R, Nat)
  <2>1. IsWellFoundedOn(OpToRel(<, Nat), Nat)
    BY NatLessThanWellFounded
  <2>2. R \cap (Nat \X Nat) \subseteq OpToRel(<, Nat)
    BY DEF OpToRel
  <2> QED
    BY <2>1, <2>2, IsWellFoundedOnSubrelation
<1>2. T \subseteq Nat /\ T # {}
  <2>1. \A i \in S : n - i \in Nat
    OBVIOUS
  <2> QED
    BY <2>1
<1> HIDE DEF R
<1>3. PICK x \in T : \A y \in T : <<y, x>> \notin R
  BY <1>1, <1>2, WFMin
<1>4. PICK i \in S : x = n - i
  OBVIOUS
<1>5. ASSUME NEW j \in S PROVE i >= j
  <2>1. n - j \in T /\ n - j \in Nat /\ n - i \in Nat
    OBVIOUS
  <2>2. ~(n - j < n - i)
    BY <1>3, <1>4, <2>1 DEF R
  <2> QED
    BY <2>2
<1>6. Max(S) \in S /\ \A j \in S : Max(S) >= j
  BY <1>5 DEF Max
<1> QED
  BY <1>6

(***************************************************************************)
(* The events of q are kept and more may follow.                           *)
(***************************************************************************)
NewIndices(q) == DOMAIN events'[q] \ DOMAIN events[q]

Grows(q) ==
    /\ Len(events[q]) <= Len(events'[q])
    /\ \A i \in DOMAIN events[q] : /\ i \in DOMAIN events'[q]
                                   /\ events'[q][i] = events[q][i]

(***************************************************************************)
(* What is new are events of run q, of the given types and by receipt r.   *)
(***************************************************************************)
NewAre(q, types, r) ==
    \A p \in Receipts : \A i \in NewIndices(p) :
        /\ p = q
        /\ \E k \in 1 .. Len(types) : /\ i = Len(events[p]) + k
                                      /\ events'[p][i] = Event(types[k], r)

LEMMA AppendIsTyped ==
    ASSUME NEW s \in Seq(EventRow), NEW types \in Seq(EventTypes),
           NEW r \in Receipts \cup {NoReceipt}
    PROVE  LET t == s \o [i \in 1 .. Len(types) |-> Event(types[i], r)] IN
           /\ t \in Seq(EventRow)
           /\ Len(t) = Len(s) + Len(types)
           /\ \A i \in 1 .. Len(s) : t[i] = s[i]
           /\ \A i \in Len(s) + 1 .. Len(s) + Len(types) :
                 t[i] = Event(types[i - Len(s)], r)
<1> DEFINE u == [i \in 1 .. Len(types) |-> Event(types[i], r)]
<1>1. Len(types) \in Nat /\ \A i \in 1 .. Len(types) : types[i] \in EventTypes
  OBVIOUS
<1>2. \A i \in 1 .. Len(types) : Event(types[i], r) \in EventRow
  BY <1>1 DEF Event, EventRow
<1>3. u \in Seq(EventRow) /\ Len(u) = Len(types)
  BY <1>1, <1>2
<1> HIDE DEF u
<1>4. s \o u \in Seq(EventRow) /\ Len(s \o u) = Len(s) + Len(types)
  BY <1>3
<1>5. \A i \in 1 .. Len(s) : (s \o u)[i] = s[i]
  BY <1>3
<1>6. \A i \in Len(s) + 1 .. Len(s) + Len(types) : (s \o u)[i] = u[i - Len(s)]
  BY <1>3
<1>7. \A i \in Len(s) + 1 .. Len(s) + Len(types) : u[i - Len(s)] = Event(types[i - Len(s)], r)
  BY <1>1 DEF u
<1> QED
  BY <1>4, <1>5, <1>6, <1>7 DEF u

LEMMA AppendedEvents ==
    ASSUME events \in [Receipts -> Seq(EventRow)], NEW types \in Seq(EventTypes),
           NEW r \in Receipts \cup {NoReceipt}, NEW q,
           events' = AppendEvents(q, types, r)
    PROVE  /\ events' \in [Receipts -> Seq(EventRow)]
           /\ \A p \in Receipts : Grows(p)
           /\ \A p \in Receipts \ {q} : events'[p] = events[p]
           /\ NewAre(q, types, r)
           /\ q \in Receipts => Len(events'[q]) = Len(events[q]) + Len(types)
<1> DEFINE u(s) == s \o [i \in 1 .. Len(types) |-> Event(types[i], r)]
<1>1. events' = [events EXCEPT ![q] = u(events[q])]
  BY DEF AppendEvents
<1>2. \A p \in Receipts : events[p] \in Seq(EventRow)
  OBVIOUS
<1>3. ASSUME NEW s \in Seq(EventRow)
      PROVE  /\ u(s) \in Seq(EventRow)
             /\ Len(u(s)) = Len(s) + Len(types)
             /\ \A i \in 1 .. Len(s) : u(s)[i] = s[i]
             /\ \A i \in Len(s) + 1 .. Len(s) + Len(types) :
                   u(s)[i] = Event(types[i - Len(s)], r)
  BY <1>3, AppendIsTyped
<1> HIDE DEF u
<1>4. events' \in [Receipts -> Seq(EventRow)]
  BY <1>1, <1>2, <1>3
<1>5. \A p \in Receipts \ {q} : events'[p] = events[p]
  BY <1>1
<1>6. ASSUME NEW p \in Receipts, p = q
      PROVE  /\ Grows(p)
             /\ Len(events'[p]) = Len(events[p]) + Len(types)
             /\ \A i \in NewIndices(p) :
                   \E k \in 1 .. Len(types) : /\ i = Len(events[p]) + k
                                              /\ events'[p][i] = Event(types[k], r)
  <2>1. events'[p] = u(events[p])
    BY <1>1, <1>6
  <2>2. /\ DOMAIN events[p] = 1 .. Len(events[p]) /\ Len(events[p]) \in Nat
        /\ DOMAIN events'[p] = 1 .. Len(events'[p])
        /\ Len(events'[p]) = Len(events[p]) + Len(types) /\ Len(types) \in Nat
    <3>1. events[p] \in Seq(EventRow) /\ u(events[p]) \in Seq(EventRow)
      BY <1>2, <1>3
    <3>2. Len(u(events[p])) = Len(events[p]) + Len(types)
      BY <1>3, <3>1
    <3> QED
      BY <2>1, <3>1, <3>2
  <2>3. Grows(p)
    <3>1. events[p] \in Seq(EventRow)
      BY <1>2
    <3>2. \A i \in 1 .. Len(events[p]) : u(events[p])[i] = events[p][i]
      BY <1>3, <3>1
    <3> QED
      BY <2>1, <2>2, <3>2 DEF Grows
  <2>4. ASSUME NEW i \in NewIndices(p)
        PROVE  \E k \in 1 .. Len(types) : /\ i = Len(events[p]) + k
                                          /\ events'[p][i] = Event(types[k], r)
    <3>1. i \in Len(events[p]) + 1 .. Len(events[p]) + Len(types)
      BY <2>2 DEF NewIndices
    <3>2. events'[p][i] = Event(types[i - Len(events[p])], r)
      BY <1>2, <1>3, <2>1, <3>1
    <3>3. /\ i - Len(events[p]) \in 1 .. Len(types)
          /\ i = Len(events[p]) + (i - Len(events[p]))
      BY <2>2, <3>1
    <3> QED
      BY <3>2, <3>3
  <2> QED
    BY <2>2, <2>3, <2>4
<1>7. ASSUME NEW p \in Receipts \ {q} PROVE Grows(p) /\ NewIndices(p) = {}
  <2>1. Len(events[p]) \in Nat
    BY <1>2
  <2> QED
    BY <1>5, <2>1 DEF Grows, NewIndices
<1>8. NewAre(q, types, r)
  BY <1>6, <1>7 DEF NewAre
<1> QED
  BY <1>4, <1>5, <1>6, <1>7, <1>8

LEMMA GrownPrefix ==
    ASSUME NEW p \in Receipts, events[p] \in Seq(EventRow), events'[p] \in Seq(EventRow), Grows(p)
    PROVE  /\ Len(events'[p]) >= Len(events[p])
           /\ SubSeq(events'[p], 1, Len(events[p])) = events[p]
<1> DEFINE old == events[p]
           new == events'[p]
           m   == Len(events[p])
<1>1. /\ m \in Nat /\ Len(new) \in Nat /\ m <= Len(new)
      /\ DOMAIN old = 1 .. m
      /\ \A i \in 1 .. m : new[i] = old[i]
  BY DEF Grows
<1>2. old \in Seq(EventRow) /\ new \in Seq(EventRow) /\ Len(old) = m
  OBVIOUS
<1> HIDE DEF old, new, m
<1>3. SubSeq(new, 1, m) = old
  <2>1. /\ SubSeq(new, 1, m) \in Seq(EventRow)
        /\ Len(SubSeq(new, 1, m)) = m
        /\ \A i \in 1 .. m : SubSeq(new, 1, m)[i] = new[i]
    BY <1>1, <1>2
  <2> QED
    BY <1>1, <1>2, <2>1, SeqEqual
<1> QED
  BY <1>1, <1>3 DEF old, new, m

LEMMA LatestStopIndex ==
    ASSUME NEW q \in Receipts, events[q] \in Seq(EventRow), StopIndices(q) # {}
    PROVE  Max(StopIndices(q)) \in StopIndices(q)
<1>1. StopIndices(q) \in SUBSET (1 .. Len(events[q])) /\ Len(events[q]) \in Nat
  BY DEF StopIndices
<1> QED
  BY <1>1, LastIndex

LEMMA QuietStops ==
    ASSUME NEW q \in Receipts, events[q] \in Seq(EventRow), Grows(q),
           \A i \in NewIndices(q) : events'[q][i].type \notin StopEvents
    PROVE  StopIndices(q)' = StopIndices(q) /\ LatestStop(q)' = LatestStop(q)
<1>1. StopIndices(q)' = StopIndices(q)
  BY DEF StopIndices, Grows, NewIndices
<1>2. CASE StopIndices(q) = {}
  BY <1>1, <1>2 DEF LatestStop
<1>3. CASE StopIndices(q) # {}
  <2>1. Max(StopIndices(q)) \in DOMAIN events[q]
    BY <1>3, LatestStopIndex DEF StopIndices
  <2>2. events'[q][Max(StopIndices(q))] = events[q][Max(StopIndices(q))]
    BY <2>1 DEF Grows
  <2> QED
    BY <1>1, <1>3, <2>2 DEF LatestStop
<1> QED
  BY <1>2, <1>3

LEMMA QuietTerminals ==
    ASSUME NEW q \in Receipts, Grows(q),
           \A i \in NewIndices(q) : events'[q][i].type \notin {TerminalEvent[v] : v \in Terminal}
    PROVE  TerminalIndices(q)' = TerminalIndices(q)
BY DEF TerminalIndices, Grows, NewIndices

-----------------------------------------------------------------------------
(* The lifecycle under the pump *)

(***************************************************************************)
(* The steps of the pump that the lifecycle processor alone does not take: *)
(* startup reads the clock, an exception is counted.                       *)
(***************************************************************************)
SideStep ==
    /\ UNCHANGED <<receipt, resolution, conversation, run, idRank, resolvedClock>>
    /\ createdClock' \in Nat
    /\ createdClock' >= createdClock
    /\ failures' \in 0 .. MaxFailures

LEMMA OldestOfBatch ==
    ASSUME LifecycleInv, BatchIsOldest, NEW r \in batch, IsNextInBatch("lifecycle", r)
    PROVE  OldestPending(r)
<1>1. /\ r \in Pending
      /\ \A j \in batch : ~Before(j, r)
      /\ \A j \in Pending \ batch : ~Before(j, r)
  BY DEF IsNextInBatch, Precedes, BatchIsOldest
<1>2. ASSUME NEW p \in Pending \ {r} PROVE Before(r, p)
  <2>1. ~Before(p, r)
    BY <1>1
  <2>2. p \in Receipts /\ r \in Receipts /\ p # r
    BY <1>1 DEF Pending
  <2>3. /\ idRank[p] # idRank[r]
        /\ idRank[p] \in Nat /\ idRank[r] \in Nat
    BY <2>2, LifecycleConstants, ConstantFacts DEF LifecycleInv, LifecycleConstants
  <2>4. receipt[p].createdAt \in Nat /\ receipt[r].createdAt \in Nat
    BY <2>2 DEF LifecycleInv, PointerInv, RunInv, TypeInv, LifecycleTypeOK, ReceiptRow
  <2> QED
    BY <2>1, <2>3, <2>4 DEF Before
<1> QED
  BY <1>1, <1>2 DEF OldestPending

LEMMA LifecycleSteps ==
    ASSUME TypeOK, LifecycleInv, BatchIsOldest, [Next]_vars
    PROVE  [LifecycleNext]_lifecycleVars \/ SideStep
<1> USE DEF LifecycleNext
<1>0. batch \subseteq Receipts /\ createdClock \in Nat /\ failures \in 0 .. MaxFailures
  BY DEF TypeOK, LifecycleTypeOK
<1>1. CASE Boot
  BY <1>0, <1>1 DEF Boot, SideStep
<1>2. CASE Advance \/ Crash
  BY <1>2 DEF Advance, Crash
<1>3. ASSUME NEW i \in batch, ResolveReceipt(i)
      PROVE  ResolveOldest
  BY <1>0, <1>3, OldestOfBatch DEF ResolveReceipt, ResolveOldest
<1>4. ASSUME NEW i \in batch, NormalizeReceipt(i)
      PROVE  SideStep
  BY <1>0, <1>4, ConstantFacts DEF NormalizeReceipt, SideStep
<1>5. ASSUME NEW i \in batch,
             CaptureBaseline(i) \/ ReconcileTrigger(i) \/ PreparePreflight(i) \/ ClassifyRun(i)
      PROVE  UNCHANGED lifecycleVars
  BY <1>5 DEF CaptureBaseline, ReconcileTrigger, PreparePreflight, ClassifyRun
<1>6. ASSUME NEW i \in batch, PersistFinalization(i)
      PROVE  SealRun
  <2>1. PICK verdict \in {"Completed", "Partial", "Failed"} :
             TransitionToTerminal(i, "Finalizing", verdict)
    BY <1>6 DEF PersistFinalization, Seal, Verdict
  <2> QED
    BY <1>0, <1>6, <2>1 DEF SealRun, PersistFinalization
<1>7. ASSUME NEW i \in batch, RecoverCapturing(i)
      PROVE  SealRun
  <2>1. TransitionToTerminal(i, "Capturing", "Abandoned")
    BY <1>7 DEF RecoverCapturing, Seal, NoFinalization
  <2> QED
    BY <1>0, <1>7, <2>1 DEF SealRun, RecoverCapturing
<1>8. CASE Ingress
  BY <1>8 DEF Ingress
<1>9. CASE StageThrows
  BY <1>0, <1>9, ConstantFacts DEF StageThrows, SideStep
<1>10. CASE UNCHANGED vars
  BY <1>10 DEF vars
<1> QED
  BY <1>1, <1>2, <1>3, <1>4, <1>5, <1>6, <1>7, <1>8, <1>9, <1>10 DEF Next, Work

(***************************************************************************)
(* A Stop that is given to a run finds it, or makes it, Finalizing.        *)
(***************************************************************************)
LEMMA StopEffect ==
    ASSUME TypeInv, NEW r \in Receipts, Resolve(r), receipt[r].hook \in StopHooks,
           resolution'[r].run # NoRun
    PROVE  run'[resolution'[r].run].status = "Finalizing"
<1>1. PICK d \in ClockSteps :
        \/ RejectReceipt(r, d) \/ StartSession(r, d) \/ StartRun(r, d) \/ JoinRun(r, d)
        \/ StopRun(r, d) \/ MissRun(r, d) \/ EndSession(r, d) \/ FailReceipt(r, d)
  BY DEF Resolve
<1>2. ASSUME NEW outcome, NEW diagnostic, NEW q, RecordResolution(r, d, outcome, diagnostic, q)
      PROVE  resolution'[r].run = q
  BY <1>2 DEF RecordResolution, TypeInv, LifecycleTypeOK
<1>3. CASE StopRun(r, d)
  <2>1. PICK q \in Receipts :
          /\ run' = TransitionToFinalizing(q, receipt[r].hook)
          /\ RecordResolution(r, d,
                 IF run[q].status = "Capturing" THEN "applied" ELSE "associated", None, q)
    BY <1>3 DEF StopRun
  <2>2. run'[q].status = "Finalizing"
    BY <2>1 DEF TransitionToFinalizing, TypeInv, LifecycleTypeOK, RunRow
  <2> QED
    BY <1>2, <2>1, <2>2
<1>4. CASE RejectReceipt(r, d) \/ MissRun(r, d) \/ FailReceipt(r, d)
  BY <1>2, <1>4 DEF RejectReceipt, MissRun, FailReceipt
<1> QED
  BY <1>1, <1>3, <1>4 DEF StartSession, StartRun, JoinRun, EndSession, StopHooks, ToolHooks

(***************************************************************************)
(* A row of the journal is written once; only its status moves later.  A   *)
(* resolution is written once, by the transaction of its pending receipt.  *)
(***************************************************************************)
LEMMA RowsAreKept ==
    ASSUME LifecycleInv, [LifecycleNext]_lifecycleVars \/ SideStep, NEW r \in Receipts
    PROVE  /\ receipt[r].status # None =>
                 /\ receipt'[r].hook = receipt[r].hook
                 /\ receipt'[r].createdAt = receipt[r].createdAt
                 /\ receipt'[r].status # None
           /\ resolution'[r] # resolution[r] => Resolve(r)
           /\ receipt'[r].status = "pending" /\ receipt[r].status # "pending" =>
                 receipt[r].status = None /\ AcceptAny
           /\ (receipt[r].status = None /\ receipt'[r].status # None) =>
                 receipt'[r].hook \in HookNames
           /\ receipt[r].status = None => resolution[r].run = NoRun
<1>1. receipt \in [Receipts -> ReceiptRow] /\ resolution \in [Receipts -> ResolutionRow]
  BY DEF LifecycleInv, PointerInv, RunInv, TypeInv, LifecycleTypeOK
<1>2. CASE AcceptAny
  <2>1. PICK a \in Receipts, s \in Sessions, w \in Workspaces, h \in Hooks, d \in ClockSteps :
          Accept(a, s, w, h, d)
    BY <1>2 DEF AcceptAny
  <2>2. receipt[a].status = None /\ resolution' = resolution
    BY <2>1 DEF Accept
  <2>3. receipt'[a].hook = h /\ \A b \in Receipts \ {a} : receipt'[b] = receipt[b]
    BY <1>1, <2>1 DEF Accept
  <2>4. h \in HookNames
    BY ConstantFacts
  <2> QED
    BY <1>2, <2>2, <2>3, <2>4, <1>1 DEF LifecycleInv, PointerInv, RunInv, UnresolvedIsBlank
<1>3. CASE ResolveOldest
  <2>1. PICK a \in Receipts : Resolve(a) /\ receipt[a].status = "pending"
    BY <1>3 DEF ResolveOldest, Resolve
  <2>2. PICK d \in ClockSteps, outcome \in {"applied", "associated", "failed"} :
           \E diagnostic \in Diagnostics \cup {None}, q \in Receipts \cup {NoRun} :
               RecordResolution(a, d, outcome, diagnostic, q)
    BY <2>1, ResolveRecords
  <2>3. PICK status \in {"failed", "processed"} : receipt' = [receipt EXCEPT ![a].status = status]
    BY <2>2 DEF RecordResolution
  <2>4. \A b \in Receipts \ {a} : resolution'[b] = resolution[b] /\ receipt'[b] = receipt[b]
    BY <1>1, <2>2, <2>3 DEF RecordResolution
  <2>5. /\ receipt'[a].hook = receipt[a].hook
        /\ receipt'[a].createdAt = receipt[a].createdAt
        /\ receipt'[a].status = status
    BY <1>1, <2>3 DEF ReceiptRow
  <2> QED
    BY <2>1, <2>4, <2>5 DEF LifecycleInv, PointerInv, RunInv, UnresolvedIsBlank, None
<1>4. CASE SealRun \/ SideStep \/ UNCHANGED lifecycleVars
  BY <1>4 DEF SealRun, SideStep, lifecycleVars, LifecycleInv, PointerInv, RunInv, UnresolvedIsBlank
<1> QED
  BY <1>2, <1>3, <1>4 DEF LifecycleNext

LEMMA SideStepKeepsInv == ASSUME LifecycleInv, SideStep PROVE LifecycleInv'
<1>1. PointerInv'
  BY DEF SideStep, LifecycleInv, PointerInv, RunInv, TypeInv, LifecycleTypeOK, AcceptedIsFilled,
         UnresolvedIsBlank, RunNumbersUnique, CapturesNewestRun, EndedCapturesNothing, RunsOf,
         PointsHome, OneStopApplies
<1> QED
  BY <1>1 DEF SideStep, LifecycleInv, PointerInv, PromiseInv, RunsHaveSessions, StopLeavesCapturing

LEMMA LifecycleInvStep ==
    ASSUME LifecycleInv, [LifecycleNext]_lifecycleVars \/ SideStep
    PROVE  LifecycleInv'
<1>1. CASE SideStep
  BY <1>1, SideStepKeepsInv
<1>2. CASE [LifecycleNext]_lifecycleVars
  <2>1. PointerInv' /\ PromiseInv'
    BY <1>2, PointerStep, SessionsStep DEF LifecycleInv
  <2>2. idRank' = idRank
    <3>1. ASSUME NEW r \in Receipts, Resolve(r) PROVE idRank' = idRank
      BY <3>1, ResolveRecords DEF RecordResolution
    <3> QED
      BY <1>2, <3>1
         DEF LifecycleNext, AcceptAny, Accept, ResolveOldest, SealRun, lifecycleVars
  <2>3. ASSUME NEW r \in Receipts PROVE StopLeavesCapturing(r)'
    <3>1. TypeInv /\ StopLeavesCapturing(r)
      BY DEF LifecycleInv, PointerInv, RunInv
    <3>2. CASE resolution'[r] # resolution[r]
      <4>1. Resolve(r)
        BY <1>2, <3>2, RowsAreKept
      <4>2. receipt'[r].hook = receipt[r].hook
        BY <1>2, <4>1, RowsAreKept DEF Resolve, None
      <4> QED
        BY <3>1, <4>1, <4>2, StopEffect DEF StopLeavesCapturing, None
    <3>3. CASE resolution'[r] = resolution[r] /\ resolution[r].run # NoRun
      <4> DEFINE q == resolution[r].run
      <4>1. receipt'[r].hook = receipt[r].hook
        BY <1>2, <3>3, RowsAreKept
      <4>2. q \in Receipts /\ run[q].status # None
        BY <3>1, <3>3 DEF TypeInv, LifecycleTypeOK, ResolutionRow, LifecycleInv, PointerInv, PointsHome
      <4>3. Settles \/ \E a \in Receipts : Starts(a) /\ receipt[a].status = "pending"
        BY <1>2, <3>1, StepEffect DEF Starts
      <4>4. \A a \in Receipts : receipt[a].status = "pending" => run[a].status = None
        BY DEF LifecycleInv, PointerInv, RunInv, UnresolvedIsBlank
      <4>5. KeepsCourse(q)
        BY <4>2, <4>3, <4>4 DEF Settles, Starts
      <4> QED
        BY <3>1, <3>3, <4>1, <4>5 DEF StopLeavesCapturing, KeepsCourse
    <3>4. CASE resolution'[r] = resolution[r] /\ resolution[r].run = NoRun
      BY <3>4 DEF StopLeavesCapturing
    <3> QED
      BY <3>2, <3>3, <3>4
  <2>4. ASSUME NEW r \in Receipts, receipt'[r].status # None PROVE receipt'[r].hook \in HookNames
    BY <1>2, <2>4, RowsAreKept DEF LifecycleInv
  <2> QED
    BY <2>1, <2>2, <2>3, <2>4 DEF LifecycleInv
<1> QED
  BY <1>1, <1>2

-----------------------------------------------------------------------------
(* What each transaction appends *)

TerminalTypes == {TerminalEvent[v] : v \in Terminal}

SourceNames == {"run.started", "user.prompt_submitted", "tool.requested",
                "tool.batch_completed", "run.finalization_started"} \cup StopEvents

(***************************************************************************)
(* Neither a source event nor a terminal event is added to q.              *)
(***************************************************************************)
Quiet(q) == \A i \in NewIndices(q) : events'[q][i].type \notin SourceNames \cup TerminalTypes

EventsTyped == events \in [Receipts -> Seq(EventRow)]

LEMMA TerminalTypeNames ==
    /\ TerminalTypes = {"run.completed", "run.partial", "run.failed", "run.abandoned"}
    /\ TerminalTypes \subseteq EventTypes
    /\ TerminalTypes \cap SourceNames = {}
    /\ \A v \in Terminal : TerminalEvent[v] \in TerminalTypes
BY DEF TerminalTypes, TerminalEvent, Terminal, EventTypes, SourceNames, StopEvents

LEMMA HookEvents ==
    ASSUME NEW h \in HookNames
    PROVE  /\ EventsOfHook[h] \in Seq(EventTypes)
           /\ \A k \in 1 .. Len(EventsOfHook[h]) :
                 /\ EventsOfHook[h][k] \in SourceNames
                 /\ EventsOfHook[h][k] \in StopEvents => h \in StopHooks
<1>1. CASE h = "UserPromptSubmit"
  <2>1. EventsOfHook[h] = <<"run.started", "user.prompt_submitted">>
    BY <1>1 DEF EventsOfHook
  <2> QED
    BY <2>1, TerminalTypeNames DEF EventTypes, SourceNames, StopEvents
<1>2. CASE h = "PreToolUse"
  <2>1. EventsOfHook[h] = <<"tool.requested">>
    BY <1>2 DEF EventsOfHook
  <2> QED
    BY <2>1, TerminalTypeNames DEF EventTypes, SourceNames, StopEvents
<1>3. CASE h = "PostToolBatch"
  <2>1. EventsOfHook[h] = <<"tool.batch_completed">>
    BY <1>3 DEF EventsOfHook
  <2> QED
    BY <2>1, TerminalTypeNames DEF EventTypes, SourceNames, StopEvents
<1>4. CASE h = "Stop"
  <2>1. EventsOfHook[h] = <<"run.stop_observed", "run.finalization_started">>
    BY <1>4 DEF EventsOfHook
  <2> QED
    BY <1>4, <2>1, TerminalTypeNames DEF EventTypes, SourceNames, StopEvents, StopHooks
<1>5. CASE h = "StopFailure"
  <2>1. EventsOfHook[h] = <<"run.stop_failed", "run.finalization_started">>
    BY <1>5 DEF EventsOfHook
  <2> QED
    BY <1>5, <2>1, TerminalTypeNames DEF EventTypes, SourceNames, StopEvents, StopHooks
<1>6. CASE h \in {"SessionStart", "SessionEnd"}
  <2>1. EventsOfHook[h] = <<>>
    BY <1>6 DEF EventsOfHook
  <2> QED
    BY <2>1
<1> QED
  BY <1>1, <1>2, <1>3, <1>4, <1>5, <1>6 DEF HookNames

LEMMA SourceEventNames == \A e : IsSourceEvent(e) => e.type \in SourceNames
<1> SUFFICES ASSUME NEW e, NEW h \in HookNames, NEW k \in DOMAIN EventsOfHook[h],
                    EventsOfHook[h][k] = e.type
             PROVE  e.type \in SourceNames
  BY DEF IsSourceEvent
<1>1. DOMAIN EventsOfHook[h] = 1 .. Len(EventsOfHook[h])
  BY HookEvents
<1> QED
  BY <1>1, HookEvents

LEMMA QuietAppend ==
    ASSUME EventsTyped, NEW type \in EventTypes \ (SourceNames \cup TerminalTypes),
           NEW r \in Receipts \cup {NoReceipt}, NEW q,
           events' = AppendEvents(q, <<type>>, r)
    PROVE  EventsTyped' /\ \A p \in Receipts : Grows(p) /\ Quiet(p)
<1>1. <<type>> \in Seq(EventTypes) /\ Len(<<type>>) = 1 /\ <<type>>[1] = type
  OBVIOUS
<1> DEFINE types == <<type>>
<1> HIDE DEF types
<1>2. /\ events' \in [Receipts -> Seq(EventRow)]
      /\ \A p \in Receipts : Grows(p)
      /\ \A p \in Receipts : \A i \in NewIndices(p) :
            \E k \in 1 .. Len(types) : events'[p][i] = Event(types[k], r)
  <2>1. types \in Seq(EventTypes) /\ events' = AppendEvents(q, types, r)
    BY <1>1 DEF types
  <2>2. events' \in [Receipts -> Seq(EventRow)]
    BY <2>1, AppendedEvents DEF EventsTyped
  <2>3. \A p \in Receipts : Grows(p)
    BY <2>1, AppendedEvents DEF EventsTyped
  <2>4. NewAre(q, types, r)
    BY <2>1, AppendedEvents DEF EventsTyped
  <2> QED
    BY <2>2, <2>3, <2>4 DEF NewAre
<1>3. \A k \in 1 .. Len(types) : types[k] = type
  BY <1>1 DEF types
<1>4. ASSUME NEW p \in Receipts, NEW i \in NewIndices(p)
      PROVE  events'[p][i].type = type
  <2>1. PICK k \in 1 .. Len(types) : events'[p][i] = Event(types[k], r)
    BY <1>2
  <2> QED
    BY <1>3, <2>1 DEF Event
<1> QED
  BY <1>2, <1>4 DEF EventsTyped, Quiet

LEMMA NormalizeAppends ==
    ASSUME TypeOK, LifecycleInv, NEW r \in batch, NormalizeReceipt(r)
    PROVE  /\ EventsTyped'
           /\ \A p \in Receipts : Grows(p)
           /\ \A p \in Receipts : \A i \in NewIndices(p) :
                 /\ events'[p][i].type \notin TerminalTypes
                 /\ events'[p][i].by = r /\ resolution[r].run = p
                 /\ events'[p][i].type \in StopEvents => IsStopOf(r, p)
<1>1. /\ r \in Receipts /\ EventsTyped
      /\ receipt[r] \in ReceiptRow /\ resolution[r] \in ResolutionRow
  BY DEF TypeOK, LifecycleTypeOK, EventsTyped
<1>2. CASE events' = events
  BY <1>1, <1>2 DEF EventsTyped, Grows, NewIndices
<1>3. CASE events' # events
  <2> DEFINE q == resolution[r].run
             h == receipt[r].hook
             types == EventsOfHook[h]
  <2>1. q # NoRun /\ events' = AppendEvents(q, types, r)
    BY <1>3 DEF NormalizeReceipt
  <2>2. h \in HookNames
    <3>1. receipt[r].status # None
      BY <1>1, <2>1 DEF LifecycleInv, PointerInv, RunInv, UnresolvedIsBlank
    <3> QED
      BY <1>1, <3>1 DEF LifecycleInv
  <2>3. /\ types \in Seq(EventTypes)
        /\ \A k \in 1 .. Len(types) : /\ types[k] \notin TerminalTypes
                                      /\ types[k] \in StopEvents => h \in StopHooks
    BY <2>2, HookEvents, TerminalTypeNames
  <2> HIDE DEF types
  <2>4. events' \in [Receipts -> Seq(EventRow)]
    BY <1>1, <2>1, <2>3, AppendedEvents DEF EventsTyped
  <2>5. \A p \in Receipts : Grows(p)
    BY <1>1, <2>1, <2>3, AppendedEvents DEF EventsTyped
  <2>6. NewAre(q, types, r)
    BY <1>1, <2>1, <2>3, AppendedEvents DEF EventsTyped
  <2>7. ASSUME NEW p \in Receipts, NEW i \in NewIndices(p)
        PROVE  /\ events'[p][i].type \notin TerminalTypes
               /\ events'[p][i].by = r /\ resolution[r].run = p
               /\ events'[p][i].type \in StopEvents => IsStopOf(r, p)
    <3>1. PICK k \in 1 .. Len(types) : events'[p][i] = Event(types[k], r)
      BY <2>6 DEF NewAre
    <3>2. events'[p][i].type = types[k] /\ events'[p][i].by = r /\ p = q
      BY <2>6, <3>1 DEF Event, NewAre
    <3> QED
      BY <1>1, <2>3, <3>2 DEF IsStopOf
  <2> QED
    BY <2>4, <2>5, <2>7 DEF EventsTyped
<1> QED
  BY <1>2, <1>3

(***************************************************************************)
(* Sealing q adds one terminal event to it, the last one, and no source    *)
(* event.                                                                  *)
(***************************************************************************)
LEMMA SealAppends ==
    ASSUME EventsTyped, NEW q \in Receipts, NEW types \in Seq(EventTypes), NEW v \in Terminal,
           Len(types) > 0, types[Len(types)] = TerminalEvent[v],
           \A k \in 1 .. Len(types) - 1 : types[k] \notin TerminalTypes,
           \A k \in 1 .. Len(types) : types[k] \notin SourceNames,
           events' = AppendEvents(q, types, NoReceipt)
    PROVE  /\ EventsTyped'
           /\ \A p \in Receipts : Grows(p)
           /\ \A p \in Receipts : \A i \in NewIndices(p) : events'[p][i].type \notin SourceNames
           /\ \A p \in Receipts \ {q} : TerminalIndices(p)' = TerminalIndices(p)
           /\ TerminalIndices(q) = {} =>
                 \E i \in DOMAIN events'[q] : /\ TerminalIndices(q)' = {i}
                                              /\ events'[q][i].type = TerminalEvent[v]
<1>1. events' \in [Receipts -> Seq(EventRow)]
  BY AppendedEvents DEF EventsTyped
<1>2. \A p \in Receipts : Grows(p)
  BY AppendedEvents DEF EventsTyped
<1>3. \A p \in Receipts \ {q} : events'[p] = events[p]
  BY AppendedEvents DEF EventsTyped
<1>4. NewAre(q, types, NoReceipt)
  BY AppendedEvents DEF EventsTyped
<1>5. Len(events'[q]) = Len(events[q]) + Len(types)
  BY AppendedEvents DEF EventsTyped
<1>6. ASSUME NEW p \in Receipts, NEW i \in NewIndices(p)
      PROVE  events'[p][i].type \notin SourceNames
  <2>1. PICK k \in 1 .. Len(types) : events'[p][i] = Event(types[k], NoReceipt)
    BY <1>4 DEF NewAre
  <2> QED
    BY <2>1 DEF Event
<1>7. \A p \in Receipts \ {q} : TerminalIndices(p)' = TerminalIndices(p)
  BY <1>3 DEF TerminalIndices
<1>8. ASSUME TerminalIndices(q) = {}
      PROVE  \E i \in DOMAIN events'[q] : /\ TerminalIndices(q)' = {i}
                                          /\ events'[q][i].type = TerminalEvent[v]
  <2> DEFINE last == Len(events'[q])
  <2>1. /\ Len(events[q]) \in Nat /\ Len(types) \in Nat /\ last \in Nat
        /\ DOMAIN events[q] = 1 .. Len(events[q]) /\ DOMAIN events'[q] = 1 .. last
    BY <1>1 DEF EventsTyped
  <2>2. last \in NewIndices(q) /\ last \in DOMAIN events'[q]
    BY <1>5, <2>1 DEF NewIndices
  <2>3. \A i \in NewIndices(q) : \E k \in 1 .. Len(types) :
            /\ i = Len(events[q]) + k
            /\ events'[q][i] = Event(types[k], NoReceipt)
    BY <1>4 DEF NewAre
  <2>4. events'[q][last].type = TerminalEvent[v]
    <3>1. PICK k \in 1 .. Len(types) : /\ last = Len(events[q]) + k
                                       /\ events'[q][last] = Event(types[k], NoReceipt)
      BY <2>2, <2>3
    <3>2. k = Len(types)
      BY <1>5, <2>1, <3>1
    <3> QED
      BY <3>1, <3>2 DEF Event
  <2>5. ASSUME NEW i \in DOMAIN events'[q], events'[q][i].type \in TerminalTypes
        PROVE  i = last
    <3>1. i \in NewIndices(q)
      BY <1>2, <1>8, <2>5 DEF NewIndices, Grows, TerminalIndices, TerminalTypes
    <3>2. PICK k \in 1 .. Len(types) : /\ i = Len(events[q]) + k
                                       /\ events'[q][i] = Event(types[k], NoReceipt)
      BY <2>3, <3>1
    <3>3. types[k] \in TerminalTypes
      BY <2>5, <3>2 DEF Event
    <3>4. k = Len(types)
      BY <2>1, <3>3
    <3> QED
      BY <1>5, <3>2, <3>4
  <2>6. TerminalIndices(q)' = {last}
    BY <2>2, <2>4, <2>5, TerminalTypeNames DEF TerminalIndices, TerminalTypes
  <2> QED
    BY <2>2, <2>4, <2>6
<1> QED
  BY <1>1, <1>2, <1>6, <1>7, <1>8 DEF EventsTyped

(***************************************************************************)
(* The two transactions that seal a run: what they have in common.         *)
(***************************************************************************)
SealsAs(q, row) ==
    /\ run[q].status \in Active
    /\ finalization[q].status = None
    /\ row \in FinalizationRow /\ row.status \in Terminal
    /\ run' = [run EXCEPT ![q].status = row.status]
    /\ finalization' = [finalization EXCEPT ![q] = row]
    /\ EventsTyped'
    /\ \A p \in Receipts : Grows(p)
    /\ \A p \in Receipts : \A i \in NewIndices(p) : events'[p][i].type \notin SourceNames
    /\ \A p \in Receipts \ {q} : TerminalIndices(p)' = TerminalIndices(p)
    /\ TerminalIndices(q) = {} =>
          \E i \in DOMAIN events'[q] : /\ TerminalIndices(q)' = {i}
                                       /\ events'[q][i].type = TerminalEvent[row.status]
    /\ gaps' \in [Receipts -> Nat]
    /\ \A p \in Receipts : gaps'[p] >= gaps[p]

LEMMA NowIsNatural == Now \in Nat
<1>1. IsFiniteSet(Receipts) /\ Finalized \subseteq Receipts
  BY ConstantFacts, LifecycleConstants, FS_Interval DEF LifecycleConstants, Receipts, Finalized, Runs
<1> QED
  BY <1>1, FS_Subset, FS_CardinalityType DEF Now

LEMMA DiagnosticFacts ==
    ASSUME NEW q
    PROVE  /\ NormalDiagnostic(q) \in FinalizationDiagnostics \cup {None}
           /\ \A d : Verdict(d) \in {"Completed", "Partial", "Failed"}
BY DEF NormalDiagnostic, FinalizationDiagnostics, Verdict

LEMMA GapUpdate ==
    ASSUME gaps \in [Receipts -> Nat], NEW q \in Receipts,
           NEW n \in Nat, n >= gaps[q], gaps' = [gaps EXCEPT ![q] = n]
    PROVE  gaps' \in [Receipts -> Nat] /\ \A p \in Receipts : gaps'[p] >= gaps[p]
OBVIOUS

LEMMA SealGaps ==
    ASSUME gaps \in [Receipts -> Nat], NEW q \in Receipts,
           NEW expected, NEW row, NEW types, Seal(q, expected, row, types)
    PROVE  gaps' \in [Receipts -> Nat] /\ \A p \in Receipts : gaps'[p] >= gaps[p]
<1> DEFINE n == IF row.diagnostic # None /\ gaps[q] = 0 THEN 1 ELSE gaps[q]
<1>1. gaps' = [gaps EXCEPT ![q] = n] /\ n \in Nat /\ n >= gaps[q]
  BY DEF Seal
<1> HIDE DEF n
<1> QED
  BY <1>1, GapUpdate

LEMMA SealsAsWritten ==
    ASSUME EventsTyped, gaps \in [Receipts -> Nat], NEW q \in Receipts,
           NEW row \in FinalizationRow, row.status \in Terminal,
           run[q].status \in Active, finalization[q].status = None,
           NEW expected, NEW types \in Seq(EventTypes), Seal(q, expected, row, types),
           Len(types) > 0, types[Len(types)] = TerminalEvent[row.status],
           \A k \in 1 .. Len(types) - 1 : types[k] \notin TerminalTypes,
           \A k \in 1 .. Len(types) : types[k] \notin SourceNames
    PROVE  SealsAs(q, row)
<1>1. /\ run' = [run EXCEPT ![q].status = row.status]
      /\ finalization' = [finalization EXCEPT ![q] = row]
      /\ events' = AppendEvents(q, types, NoReceipt)
  BY DEF Seal, TransitionToTerminal
<1>2. EventsTyped' /\ \A p \in Receipts : Grows(p)
  BY <1>1, SealAppends
<1>3. \A p \in Receipts : \A i \in NewIndices(p) : events'[p][i].type \notin SourceNames
  BY <1>1, SealAppends
<1>4. \A p \in Receipts \ {q} : TerminalIndices(p)' = TerminalIndices(p)
  BY <1>1, SealAppends
<1>5. TerminalIndices(q) = {} =>
          \E i \in DOMAIN events'[q] : /\ TerminalIndices(q)' = {i}
                                       /\ events'[q][i].type = TerminalEvent[row.status]
  BY <1>1, SealAppends
<1>6. gaps' \in [Receipts -> Nat] /\ \A p \in Receipts : gaps'[p] >= gaps[p]
  BY SealGaps
<1> QED
  BY <1>1, <1>2, <1>3, <1>4, <1>5, <1>6 DEF SealsAs

LEMMA RecoverSeals ==
    ASSUME TypeOK, SealInv, NEW q \in batch, RecoverCapturing(q)
    PROVE  /\ q \in Receipts /\ run[q].status = "Capturing"
           /\ \E row : SealsAs(q, row)
<1> DEFINE row == [NoFinalization EXCEPT !.status = "Abandoned", !.mode = "recovery",
                                         !.diagnostic = "stale_capturing_recovered",
                                         !.finalizedAt = Now]
           types == <<TerminalEvent["Abandoned"]>>
<1>1. /\ q \in Receipts /\ EventsTyped /\ gaps \in [Receipts -> Nat]
      /\ Seal(q, "Capturing", row, types)
  BY DEF TypeOK, RecoverCapturing, EventsTyped
<1>2. NoFinalization \in FinalizationRow
  BY DEF NoFinalization, FinalizationRow, NoReceipt
<1>3. row \in FinalizationRow /\ row.status = "Abandoned"
  BY <1>2, NowIsNatural DEF FinalizationRow, Terminal, FinalizationDiagnostics
<1> HIDE DEF row
<1>4. run[q].status = "Capturing" /\ finalization[q].status = None
  BY <1>1 DEF Seal, TransitionToTerminal, SealInv, Unsealed, SealedAs, Terminal
<1>5. /\ types \in Seq(EventTypes) /\ Len(types) = 1
      /\ types[1] = TerminalEvent["Abandoned"]
      /\ "Abandoned" \in Terminal
  BY TerminalTypeNames DEF Terminal
<1> HIDE DEF types
<1>6. /\ Len(types) > 0 /\ types[Len(types)] = TerminalEvent["Abandoned"]
      /\ \A k \in 1 .. Len(types) - 1 : types[k] \notin TerminalTypes
      /\ \A k \in 1 .. Len(types) : types[k] \notin SourceNames
  BY <1>5, TerminalTypeNames
<1>7. SealsAs(q, row)
  BY <1>1, <1>3, <1>4, <1>5, <1>6, SealsAsWritten DEF Active
<1> QED
  BY <1>1, <1>4, <1>7

LEMMA PairOfEvents ==
    ASSUME NEW a \in EventTypes, NEW b \in EventTypes
    PROVE  <<a>> \o <<b>> = <<a, b>>
<1>1. <<a>> \in Seq(EventTypes) /\ <<b>> \in Seq(EventTypes) /\ <<a, b>> \in Seq(EventTypes)
  OBVIOUS
<1>2. /\ <<a>> \o <<b>> \in Seq(EventTypes) /\ Len(<<a>> \o <<b>>) = 2
      /\ (<<a>> \o <<b>>)[1] = a /\ (<<a>> \o <<b>>)[2] = b
  BY <1>1
<1> DEFINE c == <<a>> \o <<b>>
           d == <<a, b>>
<1>3. /\ c \in Seq(EventTypes) /\ d \in Seq(EventTypes) /\ Len(c) = 2 /\ Len(d) = 2
      /\ c[1] = d[1] /\ c[2] = d[2]
  BY <1>1, <1>2
<1> HIDE DEF c, d
<1>4. Len(c) = Len(d) /\ \A i \in 1 .. Len(c) : c[i] = d[i]
  BY <1>3
<1>5. c = d
  BY <1>3, <1>4, SeqEqual
<1> QED
  BY <1>5 DEF c, d

LEMMA PersistSeals ==
    ASSUME TypeOK, NEW q \in batch, PersistFinalization(q)
    PROVE  /\ q \in Receipts /\ run[q].status = "Finalizing" /\ preflight.run = q
           /\ \E row : SealsAs(q, row)
<1> DEFINE diagnostic == IF stage = "recovery" THEN "stale_finalizing_recovered"
                         ELSE NormalDiagnostic(q)
           verdict == Verdict(diagnostic)
           row == [status |-> verdict,
                   mode |-> IF stage = "recovery" THEN "recovery" ELSE "normal",
                   diagnostic |-> diagnostic, trigger |-> preflight.trigger,
                   reconciled |-> preflight.reconciled, manifest |-> preflight.manifest,
                   finalizedAt |-> Now]
           types == (IF preflight.reconciled THEN <<"snapshot.final_captured">> ELSE <<>>)
                        \o <<TerminalEvent[verdict]>>
<1>1. /\ q \in Receipts /\ EventsTyped /\ gaps \in [Receipts -> Nat]
      /\ preflight \in PreflightRow
      /\ Seal(q, "Finalizing", row, types)
      /\ preflight.run = q /\ finalization[q].status = None
  BY DEF TypeOK, PersistFinalization, EventsTyped
<1>2. /\ diagnostic \in FinalizationDiagnostics \cup {None}
      /\ verdict \in {"Completed", "Partial", "Failed"}
  BY DiagnosticFacts DEF FinalizationDiagnostics
<1> HIDE DEF diagnostic, verdict
<1>3. row \in FinalizationRow /\ row.status = verdict /\ verdict \in Terminal
  BY <1>1, <1>2, NowIsNatural DEF FinalizationRow, Terminal, PreflightRow
<1> HIDE DEF row
<1>4. run[q].status = "Finalizing"
  BY <1>1 DEF Seal, TransitionToTerminal
<1>5. /\ types \in Seq(EventTypes)
      /\ Len(types) > 0 /\ types[Len(types)] = TerminalEvent[verdict]
      /\ \A k \in 1 .. Len(types) - 1 : types[k] \notin TerminalTypes
      /\ \A k \in 1 .. Len(types) : types[k] \notin SourceNames
  <2>1. TerminalEvent[verdict] \in TerminalTypes /\ TerminalEvent[verdict] \in EventTypes
    BY <1>3, TerminalTypeNames
  <2>2. CASE preflight.reconciled
    <3>1. types = <<"snapshot.final_captured", TerminalEvent[verdict]>>
      BY <2>1, <2>2, PairOfEvents DEF EventTypes
    <3> HIDE DEF types
    <3>2. Len(types) = 2 /\ types[1] = "snapshot.final_captured" /\ types[2] = TerminalEvent[verdict]
      BY <3>1
    <3>3. types \in Seq(EventTypes)
      BY <2>1, <3>1 DEF EventTypes
    <3> QED
      BY <2>1, <3>2, <3>3, TerminalTypeNames DEF SourceNames, StopEvents
  <2>3. CASE ~preflight.reconciled
    <3>1. types = <<TerminalEvent[verdict]>>
      BY <2>3
    <3> HIDE DEF types
    <3>2. Len(types) = 1 /\ types[1] = TerminalEvent[verdict] /\ types \in Seq(EventTypes)
      BY <2>1, <3>1
    <3> QED
      BY <2>1, <3>2, TerminalTypeNames
  <2> QED
    BY <2>2, <2>3
<1> HIDE DEF types
<1>6. SealsAs(q, row)
  BY <1>1, <1>3, <1>4, <1>5, SealsAsWritten DEF Active
<1> QED
  BY <1>1, <1>4, <1>6

-----------------------------------------------------------------------------
(* What any step does to the rows of the runs *)

(***************************************************************************)
(* Receipt r is normalized into run q.                                     *)
(***************************************************************************)
IsSourceOf(r, q) == r \in batch /\ NormalizeReceipt(r) /\ resolution[r].run = q

(***************************************************************************)
(* Events and gaps are added, source events by normalizing a receipt of    *)
(* the run and Stop events by a Stop receipt.                              *)
(***************************************************************************)
EvidenceAdded ==
    /\ EventsTyped'
    /\ \A p \in Receipts : Grows(p)
    /\ \A p \in Receipts : \A i \in NewIndices(p) :
          /\ events'[p][i].type \in SourceNames => IsSourceOf(events'[p][i].by, p)
          /\ events'[p][i].type \in StopEvents => IsStopOf(events'[p][i].by, p)
    /\ gaps' \in [Receipts -> Nat]
    /\ \A p \in Receipts : gaps'[p] >= gaps[p]

(***************************************************************************)
(* No run is sealed.                                                       *)
(***************************************************************************)
SealsNothing ==
    /\ finalization' = finalization
    /\ \A p \in Receipts : TerminalIndices(p)' = TerminalIndices(p)

SealsOne == \E q \in batch : /\ q \in Receipts
                             /\ \E row : SealsAs(q, row)

LEMMA QuietEvidence ==
    ASSUME EventsTyped', \A p \in Receipts : Grows(p) /\ Quiet(p),
           gaps' \in [Receipts -> Nat], \A p \in Receipts : gaps'[p] >= gaps[p]
    PROVE  /\ EvidenceAdded
           /\ \A p \in Receipts : TerminalIndices(p)' = TerminalIndices(p)
<1>1. EvidenceAdded
  BY DEF EvidenceAdded, Quiet, SourceNames
<1>2. ASSUME NEW p \in Receipts PROVE TerminalIndices(p)' = TerminalIndices(p)
  <2>1. Grows(p) /\ \A i \in NewIndices(p) : events'[p][i].type \notin {TerminalEvent[v] : v \in Terminal}
    BY DEF Quiet, TerminalTypes
  <2> QED
    BY <2>1, QuietTerminals
<1> QED
  BY <1>1, <1>2

LEMMA UnchangedEvidence ==
    ASSUME EventsTyped, gaps \in [Receipts -> Nat], UNCHANGED <<events, gaps>>
    PROVE  /\ EvidenceAdded
           /\ \A p \in Receipts : TerminalIndices(p)' = TerminalIndices(p)
<1>1. EventsTyped' /\ \A p \in Receipts : Grows(p) /\ Quiet(p)
  BY DEF EventsTyped, Grows, Quiet, NewIndices
<1> QED
  BY <1>1, QuietEvidence

LEMMA BaselineEvidence ==
    ASSUME TypeOK, NEW q \in batch, CaptureBaseline(q)
    PROVE  /\ EvidenceAdded
           /\ \A p \in Receipts : TerminalIndices(p)' = TerminalIndices(p)
           /\ baseline' \in [Receipts -> Outcomes]
<1>1. /\ q \in Receipts /\ EventsTyped /\ gaps \in [Receipts -> Nat]
      /\ baseline \in [Receipts -> Outcomes]
  BY DEF TypeOK, EventsTyped
<1>2. PICK observed \in BOOLEAN :
        /\ baseline' = [baseline EXCEPT ![q] = IF observed THEN "captured" ELSE "partial"]
        /\ gaps' = [gaps EXCEPT ![q] = IF observed THEN @ ELSE @ + 1]
  BY DEF CaptureBaseline
<1>3. baseline' \in [Receipts -> Outcomes]
  BY <1>1, <1>2 DEF Outcomes
<1>4. gaps' \in [Receipts -> Nat] /\ \A p \in Receipts : gaps'[p] >= gaps[p]
  BY <1>1, <1>2
<1>5. EventsTyped' /\ \A p \in Receipts : Grows(p) /\ Quiet(p)
  <2>1. events' = AppendEvents(q, <<"snapshot.baseline_captured">>, NoReceipt)
    BY DEF CaptureBaseline
  <2>2. "snapshot.baseline_captured" \in EventTypes \ (SourceNames \cup TerminalTypes)
    BY TerminalTypeNames DEF EventTypes, SourceNames, StopEvents
  <2> QED
    BY <1>1, <2>1, <2>2, QuietAppend
<1> QED
  BY <1>3, <1>4, <1>5, QuietEvidence

LEMMA ReconciliationEvidence ==
    ASSUME TypeOK, NEW r \in Receipts, NEW observed \in BOOLEAN, PersistReconciliation(r, observed)
    PROVE  /\ EvidenceAdded
           /\ \A p \in Receipts : TerminalIndices(p)' = TerminalIndices(p)
           /\ \A p \in Receipts : LatestStop(p)' = LatestStop(p)
           /\ reconciliation' \in [Receipts -> Outcomes]
           /\ reconciliation'[r] # None
           /\ \A p \in Receipts : reconciliation[p] # None => reconciliation'[p] # None
<1> DEFINE q == resolution[r].run
           outcome == IF baseline[q] = "captured" /\ observed THEN "captured" ELSE "partial"
<1>1. /\ EventsTyped /\ gaps \in [Receipts -> Nat]
      /\ reconciliation \in [Receipts -> Outcomes]
  BY DEF TypeOK, EventsTyped
<1>2. /\ reconciliation' = [reconciliation EXCEPT ![r] = outcome]
      /\ events' = AppendEvents(q, <<"git.diff_computed">>, r)
      /\ gaps' = [gaps EXCEPT ![q] = IF outcome = "partial" THEN @ + 1 ELSE @]
  BY DEF PersistReconciliation
<1>3. outcome \in {"captured", "partial"}
  OBVIOUS
<1> HIDE DEF q, outcome
<1>4. /\ reconciliation' \in [Receipts -> Outcomes]
      /\ reconciliation'[r] # None
      /\ \A p \in Receipts : reconciliation[p] # None => reconciliation'[p] # None
  BY <1>1, <1>2, <1>3 DEF Outcomes, None
<1>5. gaps' \in [Receipts -> Nat] /\ \A p \in Receipts : gaps'[p] >= gaps[p]
  <2>1. CASE q \in Receipts
    <3> DEFINE n == IF outcome = "partial" THEN gaps[q] + 1 ELSE gaps[q]
    <3>1. gaps' = [gaps EXCEPT ![q] = n] /\ n \in Nat /\ n >= gaps[q]
      BY <1>1, <1>2, <2>1
    <3> HIDE DEF n
    <3> QED
      BY <1>1, <2>1, <3>1, GapUpdate
  <2>2. CASE q \notin Receipts
    <3>1. gaps' \in [Receipts -> Nat] /\ \A p \in Receipts : gaps'[p] = gaps[p] /\ gaps[p] \in Nat
      BY <1>1, <1>2, <2>2
    <3> QED
      BY <3>1
  <2> QED
    BY <2>1, <2>2
<1>6. EventsTyped' /\ \A p \in Receipts : Grows(p) /\ Quiet(p)
  <2>1. "git.diff_computed" \in EventTypes \ (SourceNames \cup TerminalTypes)
    BY TerminalTypeNames DEF EventTypes, SourceNames, StopEvents
  <2> QED
    BY <1>1, <1>2, <2>1, QuietAppend
<1>7. ASSUME NEW p \in Receipts PROVE LatestStop(p)' = LatestStop(p)
  <2>1. events[p] \in Seq(EventRow)
    BY <1>1 DEF EventsTyped
  <2>2. Grows(p) /\ \A i \in NewIndices(p) : events'[p][i].type \notin StopEvents
    BY <1>6 DEF Quiet, SourceNames
  <2> QED
    BY <2>1, <2>2, QuietStops
<1> QED
  BY <1>4, <1>5, <1>6, <1>7, QuietEvidence

LEMMA NormalizeEvidence ==
    ASSUME TypeOK, LifecycleInv, NEW r \in batch, NormalizeReceipt(r)
    PROVE  /\ EvidenceAdded
           /\ \A p \in Receipts : TerminalIndices(p)' = TerminalIndices(p)
<1>1. gaps' = gaps /\ gaps \in [Receipts -> Nat]
  BY DEF NormalizeReceipt, TypeOK
<1>2. gaps' \in [Receipts -> Nat] /\ \A p \in Receipts : gaps'[p] >= gaps[p]
  BY <1>1
<1>3. EvidenceAdded
  BY <1>2, NormalizeAppends DEF EvidenceAdded, IsSourceOf
<1>4. ASSUME NEW p \in Receipts PROVE TerminalIndices(p)' = TerminalIndices(p)
  <2>1. Grows(p) /\ \A i \in NewIndices(p) : events'[p][i].type \notin {TerminalEvent[v] : v \in Terminal}
    BY NormalizeAppends DEF TerminalTypes
  <2> QED
    BY <2>1, QuietTerminals
<1> QED
  BY <1>3, <1>4

LEMMA SealEvidence == ASSUME NEW q, NEW row, SealsAs(q, row) PROVE EvidenceAdded
BY DEF SealsAs, EvidenceAdded, SourceNames

LEMMA RowEffect ==
    ASSUME TypeOK, LifecycleInv, SealInv, [Next]_vars
    PROVE  EvidenceAdded /\ (SealsNothing \/ SealsOne)
<1>1. /\ batch \subseteq Receipts /\ EventsTyped /\ gaps \in [Receipts -> Nat]
  BY DEF TypeOK, EventsTyped
<1>2. CASE UNCHANGED <<events, gaps, finalization>>
  BY <1>1, <1>2, UnchangedEvidence DEF SealsNothing
<1>3. ASSUME NEW i \in batch, NormalizeReceipt(i)
      PROVE  EvidenceAdded /\ SealsNothing
  BY <1>3, NormalizeEvidence DEF NormalizeReceipt, SealsNothing
<1>4. ASSUME NEW i \in batch, CaptureBaseline(i)
      PROVE  EvidenceAdded /\ SealsNothing
  BY <1>4, BaselineEvidence DEF CaptureBaseline, SealsNothing
<1>5. ASSUME NEW i \in batch, ReconcileTrigger(i)
      PROVE  EvidenceAdded /\ SealsNothing
  BY <1>1, <1>5, ReconciliationEvidence DEF ReconcileTrigger, SealsNothing
<1>6. ASSUME NEW i \in batch, PreparePreflight(i)
      PROVE  EvidenceAdded /\ (SealsNothing \/ SealsOne)
  <2>1. finalization' = finalization
    BY <1>6 DEF PreparePreflight
  <2>2. CASE UNCHANGED <<events, gaps>>
    BY <1>2, <2>1, <2>2
  <2>3. ASSUME NEW observed \in BOOLEAN, PersistReconciliation(LatestStop(i), observed),
               LatestStop(i) # NoReceipt
        PROVE  EvidenceAdded /\ SealsNothing
    <3>1. LatestStop(i) \in Receipts
      <4>1. StopIndices(i) # {} /\ LatestStop(i) = events[i][Max(StopIndices(i))].by
        BY <2>3 DEF LatestStop
      <4>2. Max(StopIndices(i)) \in DOMAIN events[i] /\ events[i] \in Seq(EventRow)
        BY <1>1, <4>1, LatestStopIndex DEF EventsTyped, StopIndices
      <4>3. events[i][Max(StopIndices(i))] \in EventRow
        BY <4>2
      <4> QED
        BY <2>3, <4>1, <4>3 DEF EventRow
    <3> QED
      BY <2>1, <2>3, <3>1, ReconciliationEvidence DEF SealsNothing
  <2> QED
    BY <1>6, <2>2, <2>3 DEF PreparePreflight
<1>7. ASSUME NEW i \in batch, PersistFinalization(i)
      PROVE  EvidenceAdded /\ SealsOne
  BY <1>7, PersistSeals, SealEvidence DEF SealsOne
<1>8. ASSUME NEW i \in batch, RecoverCapturing(i)
      PROVE  EvidenceAdded /\ SealsOne
  BY <1>8, RecoverSeals, SealEvidence DEF SealsOne
<1>9. ASSUME NEW i \in batch, ResolveReceipt(i) \/ ClassifyRun(i)
      PROVE  UNCHANGED <<events, gaps, finalization>>
  BY <1>9 DEF ResolveReceipt, ClassifyRun, rowVars
<1>10. CASE Boot \/ Advance \/ Ingress \/ Crash \/ StageThrows \/ UNCHANGED vars
  BY <1>2, <1>10 DEF Boot, Advance, Ingress, Crash, StageThrows, vars, rowVars
<1> QED
  BY <1>2, <1>3, <1>4, <1>5, <1>6, <1>7, <1>8, <1>9, <1>10 DEF Next, Work

-----------------------------------------------------------------------------
(* Type correctness of the pump *)

LEMMA EligibleAreReceipts == ASSUME NEW s PROVE Eligible(s) \subseteq Receipts
BY DEF Eligible, Pending, Resolved, Runs, PendingTriggers, Finalized, StaleRuns

LEMMA LatestStopType ==
    ASSUME EventsTyped, NEW q \in Receipts
    PROVE  LatestStop(q) \in Receipts \cup {NoReceipt}
<1>1. CASE StopIndices(q) = {}
  BY <1>1 DEF LatestStop
<1>2. CASE StopIndices(q) # {}
  <2>1. events[q] \in Seq(EventRow)
    BY DEF EventsTyped
  <2>2. Max(StopIndices(q)) \in DOMAIN events[q]
    BY <1>2, <2>1, LatestStopIndex DEF StopIndices
  <2>3. events[q][Max(StopIndices(q))] \in EventRow
    BY <2>1, <2>2
  <2> QED
    BY <1>2, <2>3 DEF LatestStop, EventRow
<1> QED
  BY <1>1, <1>2

LEMMA FinalizationType ==
    ASSUME finalization \in [Receipts -> FinalizationRow], SealsNothing \/ SealsOne
    PROVE  finalization' \in [Receipts -> FinalizationRow]
BY DEF SealsNothing, SealsOne, SealsAs

(***************************************************************************)
(* The tables that neither the lifecycle nor the evidence writes.          *)
(***************************************************************************)
MarksTyped ==
    /\ normalization \in [Receipts -> {None, "normalized", "skipped", "failed"}]
    /\ baseline \in [Receipts -> Outcomes]
    /\ reconciliation \in [Receipts -> Outcomes]
    /\ classified \subseteq Receipts

ProcessTyped ==
    /\ stage \in Stages
    /\ batch \subseteq Receipts
    /\ preflight \in PreflightRow
    /\ cutoff \in Nat
    /\ crashes \in 0 .. MaxCrashes

LEMMA PreflightTypes ==
    ASSUME EventsTyped, NEW q \in Receipts, NEW stored \in BOOLEAN
    PROVE  /\ NoPreflight \in PreflightRow
           /\ [NoPreflight EXCEPT !.run = q] \in PreflightRow
           /\ [run |-> q, trigger |-> LatestStop(q), reconciled |-> TRUE, manifest |-> stored]
                  \in PreflightRow
BY LatestStopType DEF NoPreflight, PreflightRow, NoReceipt, NoRun

LEMMA MarksStep ==
    ASSUME TypeOK, [Next]_vars
    PROVE  MarksTyped'
<1>1. MarksTyped /\ batch \subseteq Receipts /\ EventsTyped
  BY DEF TypeOK, MarksTyped, EventsTyped
<1>2. CASE UNCHANGED <<normalization, baseline, reconciliation, classified>>
  BY <1>1, <1>2 DEF MarksTyped
<1>3. ASSUME NEW i \in batch, NormalizeReceipt(i)
      PROVE  MarksTyped'
  <2>1. PICK outcome \in {"normalized", "skipped", "failed"} :
            normalization' = [normalization EXCEPT ![i] = outcome]
    BY <1>3 DEF NormalizeReceipt
  <2> QED
    BY <1>1, <1>3, <2>1 DEF MarksTyped, NormalizeReceipt
<1>4. ASSUME NEW i \in batch, CaptureBaseline(i)
      PROVE  MarksTyped'
  BY <1>1, <1>4, BaselineEvidence DEF MarksTyped, CaptureBaseline
<1>5. ASSUME NEW i \in batch, ReconcileTrigger(i)
      PROVE  MarksTyped'
  BY <1>1, <1>5, ReconciliationEvidence DEF MarksTyped, ReconcileTrigger
<1>6. ASSUME NEW i \in batch, PreparePreflight(i)
      PROVE  MarksTyped'
  <2>1. UNCHANGED <<normalization, baseline, classified>>
    BY <1>6 DEF PreparePreflight
  <2>2. ASSUME NEW observed \in BOOLEAN, LatestStop(i) # NoReceipt,
               PersistReconciliation(LatestStop(i), observed)
        PROVE  MarksTyped'
    <3>1. LatestStop(i) \in Receipts
      BY <1>1, <2>2, LatestStopType
    <3> QED
      BY <1>1, <2>1, <2>2, <3>1, ReconciliationEvidence DEF MarksTyped
  <2> QED
    BY <1>2, <1>6, <2>1, <2>2 DEF PreparePreflight
<1>7. ASSUME NEW i \in batch, PersistFinalization(i) \/ RecoverCapturing(i) \/ ResolveReceipt(i)
      PROVE  UNCHANGED <<normalization, baseline, reconciliation, classified>>
  BY <1>7 DEF PersistFinalization, RecoverCapturing, ResolveReceipt, rowVars
<1>8. ASSUME NEW i \in batch, ClassifyRun(i)
      PROVE  MarksTyped'
  BY <1>1, <1>8 DEF ClassifyRun, MarksTyped
<1>9. CASE Boot \/ Advance \/ Ingress \/ Crash \/ StageThrows \/ UNCHANGED vars
  BY <1>2, <1>9 DEF Boot, Advance, Ingress, Crash, StageThrows, vars, rowVars
<1> QED
  BY <1>2, <1>3, <1>4, <1>5, <1>6, <1>7, <1>8, <1>9 DEF Next, Work

LEMMA StagesFollow ==
    ASSUME stage \in DOMAIN NextStage
    PROVE  /\ NextStage[stage] \in Stages \ {"down", "starting"}
           /\ NextStage[stage] = "recovery" <=> stage = "starting"
           /\ NextStage[stage] = "lifecycle" => stage \in {"recovery", "idle"}
<1>1. stage \in {"starting", "recovery", "lifecycle", "normalization", "baseline",
                 "reconciliation", "finalization", "classification", "idle"}
  BY DEF NextStage
<1> QED
  BY <1>1 DEF NextStage, Stages

LEMMA ProcessStep ==
    ASSUME TypeOK, [Next]_vars
    PROVE  ProcessTyped'
<1>1. /\ ProcessTyped /\ EventsTyped /\ createdClock \in Nat
      /\ MaxCrashes \in Nat /\ NoPreflight \in PreflightRow
  BY PipelineConstants DEF TypeOK, LifecycleTypeOK, ProcessTyped, EventsTyped, PipelineConstants,
     NoPreflight, PreflightRow
<1>2. CASE Boot
  BY <1>1, <1>2 DEF Boot, ProcessTyped, Stages
<1>3. CASE Advance
  <2>1. stage' \in Stages /\ cutoff' \in Nat
    BY <1>1, <1>3, StagesFollow DEF Advance, ProcessTyped
  <2>2. batch' \subseteq Receipts
    BY <1>3, EligibleAreReceipts DEF Advance
  <2> QED
    BY <1>1, <1>3, <2>1, <2>2 DEF Advance, ProcessTyped
<1>4. CASE Crash
  BY <1>1, <1>4 DEF Crash, ProcessTyped, Stages
<1>5. CASE StageThrows
  BY <1>1, <1>5 DEF StageThrows, ProcessTyped, Stages
<1>6. CASE Ingress \/ UNCHANGED vars
  BY <1>1, <1>6 DEF Ingress, vars, processVars, ProcessTyped
<1>7. ASSUME NEW i \in batch, PreparePreflight(i)
      PROVE  ProcessTyped'
  <2>1. preflight' \in PreflightRow
    BY <1>1, <1>7, PreflightTypes DEF PreparePreflight, ProcessTyped
  <2> QED
    BY <1>1, <1>7, <2>1 DEF PreparePreflight, ProcessTyped
<1>8. ASSUME NEW i \in batch,
             \/ ResolveReceipt(i) \/ NormalizeReceipt(i) \/ CaptureBaseline(i)
             \/ ReconcileTrigger(i) \/ PersistFinalization(i) \/ RecoverCapturing(i)
             \/ ClassifyRun(i)
      PROVE  /\ batch' \subseteq batch
             /\ UNCHANGED <<stage, cutoff, crashes>>
             /\ preflight' \in {preflight, NoPreflight}
  BY <1>8 DEF ResolveReceipt, NormalizeReceipt, CaptureBaseline, ReconcileTrigger,
              PersistFinalization, RecoverCapturing, ClassifyRun, WorkedOff
<1>9. ASSUME batch' \subseteq batch, UNCHANGED <<stage, cutoff, crashes>>,
             preflight' \in {preflight, NoPreflight}
      PROVE  ProcessTyped'
  BY <1>1, <1>9 DEF ProcessTyped
<1> QED
  BY <1>2, <1>3, <1>4, <1>5, <1>6, <1>7, <1>8, <1>9 DEF Next, Work

LEMMA PumpTypeStep ==
    ASSUME PipelineInv, [Next]_vars
    PROVE  TypeOK' /\ LifecycleInv'
<1>1. LifecycleInv'
  BY LifecycleSteps, LifecycleInvStep DEF PipelineInv
<1>2. EvidenceAdded /\ finalization' \in [Receipts -> FinalizationRow]
  BY RowEffect, FinalizationType DEF PipelineInv, TypeOK
<1>3. MarksTyped' /\ ProcessTyped'
  BY MarksStep, ProcessStep DEF PipelineInv
<1> QED
  BY <1>1, <1>2, <1>3
     DEF TypeOK, LifecycleInv, PointerInv, RunInv, TypeInv, EvidenceAdded, EventsTyped,
         MarksTyped, ProcessTyped

-----------------------------------------------------------------------------
(* The listing of the lifecycle stage *)

LEMMA ResolveLeavesQueue ==
    ASSUME TypeOK, NEW r \in Receipts, Resolve(r)
    PROVE  /\ Pending' = Pending \ {r}
           /\ \A a, b \in Receipts : Before(a, b)' <=> Before(a, b)
<1>1. receipt \in [Receipts -> ReceiptRow]
  BY DEF TypeOK, LifecycleTypeOK
<1>2. PICK d \in ClockSteps, outcome \in {"applied", "associated", "failed"} :
           \E diagnostic \in Diagnostics \cup {None}, q \in Receipts \cup {NoRun} :
               RecordResolution(r, d, outcome, diagnostic, q)
  BY ResolveRecords
<1>3. PICK status \in {"failed", "processed"} : receipt' = [receipt EXCEPT ![r].status = status]
  BY <1>2 DEF RecordResolution
<1>4. \A b \in Receipts \ {r} : receipt'[b] = receipt[b]
  BY <1>1, <1>3
<1>5. receipt'[r].createdAt = receipt[r].createdAt /\ receipt'[r].status = status
  BY <1>1, <1>3 DEF ReceiptRow
<1>6. idRank' = idRank
  BY <1>2 DEF RecordResolution
<1> QED
  BY <1>4, <1>5, <1>6 DEF Pending, Before

LEMMA BatchIsOldestStep ==
    ASSUME PipelineInv, [Next]_vars
    PROVE  BatchIsOldest'
<1> SUFFICES ASSUME stage' = "lifecycle"
             PROVE  /\ batch' \subseteq Pending'
                    /\ \A i \in batch', j \in Pending' \ batch' : ~Before(j, i)'
  BY DEF BatchIsOldest
<1>1. /\ TypeOK /\ batch \subseteq Receipts
      /\ stage = "lifecycle" => /\ batch \subseteq Pending
                                /\ \A i \in batch, j \in Pending \ batch : ~Before(j, i)
  BY DEF PipelineInv, TypeOK, BatchIsOldest
<1>2. CASE Boot \/ Ingress \/ Crash
  BY <1>2 DEF Boot, Ingress, Crash, processVars
<1>3. CASE Advance
  <2>1. PICK T \in SUBSET Eligible(NextStage[stage]) :
          /\ IsListing(T, NextStage[stage])
          /\ batch' = T
    BY <1>3 DEF Advance
  <2>2. NextStage[stage] = "lifecycle" /\ UNCHANGED lifecycleVars
    BY <1>3 DEF Advance
  <2>3. /\ T \subseteq Pending
        /\ \A i \in T, j \in Pending \ T : ~Before(j, i)
    BY <2>1, <2>2 DEF IsListing, Eligible, Precedes
  <2> QED
    BY <2>1, <2>2, <2>3 DEF lifecycleVars, Pending, Before
<1>4. CASE StageThrows
  <2>1. batch' = {}
    BY <1>4 DEF StageThrows
  <2> QED
    BY <2>1
<1>5. CASE UNCHANGED vars
  BY <1>1, <1>5 DEF vars, lifecycleVars, processVars, Pending, Before
<1>6. ASSUME NEW i \in batch, ResolveReceipt(i)
      PROVE  /\ batch' \subseteq Pending'
             /\ \A a \in batch', j \in Pending' \ batch' : ~Before(j, a)'
  <2>1. /\ i \in Receipts /\ stage = "lifecycle" /\ Resolve(i) /\ batch' = batch \ {i}
    BY <1>1, <1>6 DEF ResolveReceipt, WorkedOff
  <2>2. /\ Pending' = Pending \ {i} /\ Pending \subseteq Receipts
        /\ \A a, b \in Receipts : Before(a, b)' <=> Before(a, b)
    BY <1>1, <2>1, ResolveLeavesQueue DEF Pending
  <2> QED
    BY <1>1, <2>1, <2>2
<1>7. ASSUME NEW i \in batch,
             \/ NormalizeReceipt(i) \/ CaptureBaseline(i) \/ ReconcileTrigger(i)
             \/ PreparePreflight(i) \/ RecoverCapturing(i) \/ ClassifyRun(i)
      PROVE  stage' # "lifecycle"
  BY <1>7 DEF NormalizeReceipt, CaptureBaseline, ReconcileTrigger, PreparePreflight,
              RecoverCapturing, ClassifyRun, IsNextInBatch
<1>8. ASSUME NEW i \in batch, PersistFinalization(i)
      PROVE  stage' # "lifecycle"
  <2>1. preflight.run = i /\ i # NoRun /\ stage' = stage
    BY <1>1, <1>8, ConstantFacts DEF PersistFinalization
  <2> QED
    BY <2>1 DEF PipelineInv, PreflightInv
<1> QED
  BY <1>2, <1>3, <1>4, <1>5, <1>6, <1>7, <1>8 DEF Next, Work

-----------------------------------------------------------------------------
(* Stop events and their receipts; seals *)

LEMMA StopEventsStep ==
    ASSUME PipelineInv, [Next]_vars
    PROVE  StopEventsHaveReceipts'
<1> SUFFICES ASSUME NEW q \in Receipts, NEW i \in StopIndices(q)'
             PROVE  IsStopOf(events[q][i].by, q)'
  BY DEF StopEventsHaveReceipts
<1>1. EvidenceAdded /\ LifecycleInv
  BY RowEffect DEF PipelineInv
<1>2. IsStopOf(events'[q][i].by, q)
  <2>1. i \in DOMAIN events'[q] /\ events'[q][i].type \in StopEvents
    BY DEF StopIndices
  <2>2. CASE i \in DOMAIN events[q]
    <3>1. events'[q][i] = events[q][i]
      BY <1>1, <2>2 DEF EvidenceAdded, Grows
    <3> QED
      BY <2>1, <2>2, <3>1 DEF PipelineInv, StopEventsHaveReceipts, StopIndices
  <2>3. CASE i \notin DOMAIN events[q]
    BY <1>1, <2>1, <2>3 DEF EvidenceAdded, NewIndices
  <2> QED
    BY <2>2, <2>3
<1> DEFINE r == events'[q][i].by
<1>3. /\ r \in Receipts /\ receipt[r].hook \in StopHooks /\ resolution[r].run = q
      /\ q # NoRun
  BY <1>2, ConstantFacts DEF IsStopOf
<1>4. [LifecycleNext]_lifecycleVars \/ SideStep
  BY LifecycleSteps DEF PipelineInv
<1>5. receipt[r].status # None /\ ~Resolve(r)
  BY <1>1, <1>3 DEF Resolve, LifecycleInv, PointerInv, RunInv, UnresolvedIsBlank
<1>6. receipt'[r].hook = receipt[r].hook /\ resolution'[r] = resolution[r]
  BY <1>1, <1>3, <1>4, <1>5, RowsAreKept
<1> QED
  BY <1>3, <1>6 DEF IsStopOf

(***************************************************************************)
(* No step changes a run that has a terminal status.                       *)
(***************************************************************************)
LEMMA SettledStay ==
    ASSUME LifecycleInv, [LifecycleNext]_lifecycleVars \/ SideStep,
           NEW q \in Receipts, run[q].status \in Terminal
    PROVE  run'[q] = run[q]
<1>1. CASE SideStep
  BY <1>1 DEF SideStep
<1>2. CASE [LifecycleNext]_lifecycleVars
  <2>1. TypeInv /\ UnresolvedIsBlank
    BY DEF LifecycleInv, PointerInv, RunInv
  <2>2. Settles \/ \E r \in Receipts : Starts(r)
    BY <1>2, <2>1, StepEffect
  <2>3. \A r \in Receipts : Starts(r) => r # q
    BY <2>1 DEF Starts, UnresolvedIsBlank, Terminal, None
  <2> QED
    BY <2>2, <2>3 DEF Settles, Starts, KeepsCourse
<1> QED
  BY <1>1, <1>2

LEMMA SealStep ==
    ASSUME PipelineInv, [Next]_vars
    PROVE  SealInv'
<1> SUFFICES ASSUME NEW q \in Receipts PROVE Unsealed(q)' \/ SealedAs(q)'
  BY DEF SealInv
<1>1. /\ EvidenceAdded /\ (SealsNothing \/ SealsOne)
      /\ LifecycleInv /\ (Unsealed(q) \/ SealedAs(q))
      /\ [LifecycleNext]_lifecycleVars \/ SideStep
      /\ finalization \in [Receipts -> FinalizationRow]
      /\ run \in [Receipts -> RunRow]
  BY RowEffect, LifecycleSteps DEF PipelineInv, SealInv, TypeOK, LifecycleTypeOK
<1>2. ASSUME finalization'[q] = finalization[q], TerminalIndices(q)' = TerminalIndices(q)
      PROVE  Unsealed(q)' \/ SealedAs(q)'
  <2>1. CASE Unsealed(q)
    BY <1>2, <2>1 DEF Unsealed
  <2>2. CASE SealedAs(q)
    <3>1. run'[q] = run[q]
      BY <1>1, <2>2, SettledStay DEF SealedAs
    <3>2. \A i \in DOMAIN events[q] : i \in DOMAIN events'[q] /\ events'[q][i] = events[q][i]
      BY <1>1 DEF EvidenceAdded, Grows
    <3> QED
      BY <1>2, <2>2, <3>1, <3>2 DEF SealedAs
  <2> QED
    BY <1>1, <2>1, <2>2
<1>3. CASE SealsNothing
  BY <1>2, <1>3 DEF SealsNothing
<1>4. CASE SealsOne
  <2>1. PICK p \in Receipts : \E row : SealsAs(p, row)
    BY <1>4 DEF SealsOne
  <2>2. PICK row : SealsAs(p, row)
    BY <2>1
  <2>3. CASE q # p
    <3>1. finalization'[q] = finalization[q] /\ TerminalIndices(q)' = TerminalIndices(q)
      BY <1>1, <2>2, <2>3 DEF SealsAs
    <3> QED
      BY <1>2, <3>1
  <2>4. CASE q = p
    <3>1. TerminalIndices(q) = {}
      BY <1>1, <2>2, <2>4 DEF SealsAs, SealedAs, Unsealed, Terminal, None
    <3>2. /\ finalization'[q] = row /\ row.status \in Terminal
          /\ run'[q].status = row.status
      BY <1>1, <2>2, <2>4 DEF SealsAs, RunRow
    <3>3. \E i \in DOMAIN events'[q] : /\ TerminalIndices(q)' = {i}
                                       /\ events'[q][i].type = TerminalEvent[row.status]
      BY <2>2, <2>4, <3>1 DEF SealsAs
    <3> QED
      BY <3>2, <3>3 DEF SealedAs
  <2> QED
    BY <2>3, <2>4
<1> QED
  BY <1>1, <1>3, <1>4

-----------------------------------------------------------------------------
(* Recovery's batch and the preflight *)

(***************************************************************************)
(* During recovery a run leaves the stale ones only by being sealed, and   *)
(* none joins them.                                                        *)
(***************************************************************************)
LEMMA StaleRunsStep ==
    ASSUME PipelineInv, [Next]_vars, stage = "recovery", stage' = "recovery"
    PROVE  \/ StaleRuns' = StaleRuns /\ batch' = batch
           \/ \E q \in batch : StaleRuns' = StaleRuns \ {q} /\ batch' = batch \ {q}
<1>1. /\ batch \subseteq Receipts
      /\ run \in [Receipts -> RunRow]
  BY DEF PipelineInv, TypeOK, LifecycleTypeOK
<1>2. ASSUME NEW q \in batch, NEW row, SealsAs(q, row), UNCHANGED <<conversation, cutoff>>
      PROVE  StaleRuns' = StaleRuns \ {q}
  <2>1. /\ run' = [run EXCEPT ![q].status = row.status] /\ q \in Receipts
        /\ row.status \in Terminal /\ run[q].status \in Active
    BY <1>1, <1>2 DEF SealsAs
  <2>2. run'[q].status = row.status /\ \A p \in Receipts \ {q} : run'[p] = run[p]
    BY <1>1, <2>1 DEF RunRow
  <2>3. q \notin StaleRuns'
    BY <2>1, <2>2 DEF StaleRuns, Terminal, Active
  <2>4. ASSUME NEW p \in Receipts \ {q} PROVE p \in StaleRuns' <=> p \in StaleRuns
    BY <1>2, <2>2 DEF StaleRuns, Runs, ConversationOf
  <2>5. StaleRuns \subseteq Receipts /\ StaleRuns' \subseteq Receipts
    BY DEF StaleRuns, Runs
  <2> QED
    BY <2>3, <2>4, <2>5
<1>3. ASSUME NEW q \in batch, PersistFinalization(q)
      PROVE  StaleRuns' = StaleRuns \ {q} /\ batch' = batch \ {q}
  <2>1. PICK row : SealsAs(q, row)
    BY <1>3, PersistSeals DEF PipelineInv
  <2> QED
    BY <1>2, <1>3, <2>1 DEF PersistFinalization, WorkedOff
<1>4. ASSUME NEW q \in batch, RecoverCapturing(q)
      PROVE  StaleRuns' = StaleRuns \ {q} /\ batch' = batch \ {q}
  <2>1. PICK row : SealsAs(q, row)
    BY <1>4, RecoverSeals DEF PipelineInv
  <2> QED
    BY <1>2, <1>4, <2>1 DEF RecoverCapturing, WorkedOff
<1>5. ASSUME UNCHANGED <<run, conversation, cutoff>>
      PROVE  StaleRuns' = StaleRuns
  BY <1>5 DEF StaleRuns, Runs, ConversationOf
<1>6. CASE Boot \/ Advance \/ Crash
  <2>1. NextStage["recovery"] = "lifecycle"
    BY DEF NextStage
  <2> QED
    BY <1>6, <2>1 DEF Boot, Advance, Crash
<1>7. CASE StageThrows
  BY <1>7 DEF StageThrows
<1>8. CASE Ingress
  BY <1>5, <1>8 DEF Ingress, AcceptAny, Accept, processVars
<1>9. CASE UNCHANGED vars
  BY <1>5, <1>9 DEF vars, lifecycleVars, processVars
<1>10. ASSUME NEW i \in batch, PreparePreflight(i)
       PROVE  StaleRuns' = StaleRuns /\ batch' = batch
  BY <1>5, <1>10 DEF PreparePreflight, lifecycleVars
<1>11. ASSUME NEW i \in batch,
             \/ ResolveReceipt(i) \/ NormalizeReceipt(i) \/ CaptureBaseline(i)
             \/ ReconcileTrigger(i) \/ ClassifyRun(i)
       PROVE  FALSE
  BY <1>11 DEF ResolveReceipt, NormalizeReceipt, CaptureBaseline, ReconcileTrigger, ClassifyRun,
               IsNextInBatch
<1> QED
  BY <1>3, <1>4, <1>6, <1>7, <1>8, <1>9, <1>10, <1>11 DEF Next, Work

(***************************************************************************)
(* How recovery is entered.                                                *)
(***************************************************************************)
LEMMA RecoveryStarts ==
    ASSUME PipelineInv, [Next]_vars, stage # "recovery", stage' = "recovery"
    PROVE  IsListing(batch', "recovery") /\ StaleRuns' = StaleRuns
<1>1. CASE Advance
  <2>1. PICK T \in SUBSET Eligible(NextStage[stage]) :
          /\ IsListing(T, NextStage[stage])
          /\ batch' = T
    BY <1>1 DEF Advance
  <2>2. /\ NextStage[stage] = "recovery" /\ UNCHANGED lifecycleVars
        /\ cutoff' = cutoff
    BY <1>1 DEF Advance
  <2> QED
    BY <2>1, <2>2 DEF StaleRuns, Runs, ConversationOf, lifecycleVars
<1>2. CASE Boot \/ Crash \/ StageThrows \/ Ingress \/ UNCHANGED vars
  BY <1>2 DEF Boot, Crash, StageThrows, Ingress, vars, processVars
<1>3. ASSUME NEW i \in batch,
             \/ ResolveReceipt(i) \/ NormalizeReceipt(i) \/ CaptureBaseline(i)
             \/ ReconcileTrigger(i) \/ PreparePreflight(i) \/ PersistFinalization(i)
             \/ RecoverCapturing(i) \/ ClassifyRun(i)
      PROVE  stage' = stage
  BY <1>3 DEF ResolveReceipt, NormalizeReceipt, CaptureBaseline, ReconcileTrigger,
              PreparePreflight, PersistFinalization, RecoverCapturing, ClassifyRun
<1> QED
  BY <1>1, <1>2, <1>3 DEF Next, Work

LEMMA BatchIsStaleStep ==
    ASSUME PipelineInv, [Next]_vars
    PROVE  BatchIsStale'
<1> SUFFICES ASSUME stage' = "recovery" PROVE batch' \subseteq StaleRuns'
  BY DEF BatchIsStale
<1>1. CASE stage = "recovery"
  BY <1>1, StaleRunsStep DEF PipelineInv, BatchIsStale
<1>2. CASE stage # "recovery"
  BY <1>2, RecoveryStarts DEF IsListing, Eligible
<1> QED
  BY <1>1, <1>2

(***************************************************************************)
(* What is true of a run stays true while nothing about it is written.     *)
(***************************************************************************)
LEMMA PreflightFrame ==
    ASSUME preflight.run # NoRun, PreflightInv,
           UNCHANGED <<preflight, stage, conversation, cutoff, reconciliation>>,
           preflight.run \in batch',
           run'[preflight.run] = run[preflight.run],
           finalization'[preflight.run] = finalization[preflight.run],
           events'[preflight.run] = events[preflight.run],
           batch \subseteq Receipts
    PROVE  PreflightInv'
<1> DEFINE q == preflight.run
<1>1. LatestStop(q)' = LatestStop(q)
  BY DEF LatestStop, StopIndices
<1>2. q \in StaleRuns => q \in StaleRuns'
  BY DEF StaleRuns, Runs, ConversationOf
<1>3. PreflightStillCurrent /\ q \in batch
  BY DEF PreflightInv
<1>4. PreflightStillCurrent'
  BY <1>1, <1>2, <1>3 DEF PreflightStillCurrent, Reconciled
<1> QED
  BY <1>4 DEF PreflightInv

LEMMA PreparedPreflight ==
    ASSUME PipelineInv, NEW q \in batch, PreparePreflight(q)
    PROVE  PreflightInv'
<1>1. /\ q \in Receipts /\ q # NoRun /\ EventsTyped
      /\ stage \in {"finalization", "recovery"}
      /\ run[q].status = "Finalizing"
      /\ UNCHANGED <<lifecycleVars, finalization, stage, batch, cutoff>>
  BY ConstantFacts DEF PipelineInv, TypeOK, EventsTyped, PreparePreflight
<1>2. finalization[q].status = None
  BY <1>1 DEF PipelineInv, SealInv, Unsealed, SealedAs, Terminal
<1>3. stage = "recovery" => q \in StaleRuns'
  BY <1>1 DEF PipelineInv, BatchIsStale, StaleRuns, Runs, ConversationOf, lifecycleVars
<1>4. run' = run
  BY <1>1 DEF lifecycleVars
<1>5. /\ preflight'.run = q
      /\ preflight'.trigger = LatestStop(q)'
      /\ preflight'.reconciled = Reconciled(preflight.trigger)'
  <2>1. CASE LatestStop(q) = NoReceipt /\ UNCHANGED <<reconciliation, events, gaps>>
             /\ preflight' = [NoPreflight EXCEPT !.run = q]
    <3>1. LatestStop(q)' = NoReceipt
      BY <2>1 DEF LatestStop, StopIndices
    <3> QED
      BY <2>1, <3>1 DEF NoPreflight, Reconciled
  <2>2. CASE /\ LatestStop(q) # NoReceipt
             /\ IF reconciliation[LatestStop(q)] = None
                THEN \E observed \in BOOLEAN : PersistReconciliation(LatestStop(q), observed)
                ELSE UNCHANGED <<reconciliation, events, gaps>>
             /\ \E stored \in BOOLEAN :
                   preflight' = [run |-> q, trigger |-> LatestStop(q),
                                 reconciled |-> TRUE, manifest |-> stored]
    <3>1. LatestStop(q) \in Receipts
      BY <1>1, <2>2, LatestStopType
    <3>2. LatestStop(q)' = LatestStop(q) /\ reconciliation'[LatestStop(q)] # None
      <4>1. CASE UNCHANGED <<reconciliation, events>> /\ reconciliation[LatestStop(q)] # None
        BY <4>1 DEF LatestStop, StopIndices
      <4>2. ASSUME NEW observed \in BOOLEAN, PersistReconciliation(LatestStop(q), observed)
            PROVE  LatestStop(q)' = LatestStop(q) /\ reconciliation'[LatestStop(q)] # None
        BY <1>1, <3>1, <4>2, ReconciliationEvidence DEF PipelineInv
      <4> QED
        BY <2>2, <4>1, <4>2
    <3>3. /\ preflight'.run = q /\ preflight'.trigger = LatestStop(q)
          /\ preflight'.reconciled = TRUE
      BY <2>2
    <3>4. Reconciled(LatestStop(q))'
      BY <2>2, <3>2 DEF Reconciled
    <3> QED
      BY <3>2, <3>3, <3>4 DEF Reconciled
  <2> QED
    BY <2>1, <2>2 DEF PreparePreflight
<1> QED
  BY <1>1, <1>2, <1>3, <1>4, <1>5 DEF PreflightInv, PreflightStillCurrent

LEMMA PreflightStep ==
    ASSUME PipelineInv, [Next]_vars
    PROVE  PreflightInv'
<1>1. /\ PreflightInv /\ batch \subseteq Receipts /\ NoRun \notin Receipts
      /\ finalization \in [Receipts -> FinalizationRow]
      /\ run \in [Receipts -> RunRow]
  BY ConstantFacts DEF PipelineInv, TypeOK, LifecycleTypeOK
<1>2. NoPreflight.run = NoRun
  BY DEF NoPreflight
<1>3. ASSUME preflight' = NoPreflight
      PROVE  PreflightInv'
  BY <1>2, <1>3 DEF PreflightInv
<1>4. ASSUME preflight.run = NoRun, preflight' = preflight
      PROVE  PreflightInv'
  BY <1>4, <1>1 DEF PreflightInv
<1>5. preflight.run # NoRun => stage \in {"finalization", "recovery"} /\ preflight.run \in batch
  BY <1>1 DEF PreflightInv
<1>6. CASE Boot
  BY <1>4, <1>5, <1>6 DEF Boot
<1>7. CASE Advance
  BY <1>4, <1>5, <1>7 DEF Advance
<1>8. CASE Crash \/ StageThrows
  BY <1>3, <1>8 DEF Crash, StageThrows
<1>9. CASE Ingress
  BY <1>1, <1>4, <1>5, <1>9, PreflightFrame
     DEF Ingress, AcceptAny, Accept, rowVars, processVars
<1>10. CASE UNCHANGED vars
  BY <1>1, <1>4, <1>5, <1>10, PreflightFrame DEF vars, lifecycleVars, rowVars, processVars
<1>11. ASSUME NEW i \in batch,
             \/ ResolveReceipt(i) \/ NormalizeReceipt(i) \/ CaptureBaseline(i)
             \/ ReconcileTrigger(i) \/ ClassifyRun(i)
       PROVE  PreflightInv'
  BY <1>4, <1>5, <1>11 DEF ResolveReceipt, NormalizeReceipt, CaptureBaseline, ReconcileTrigger,
                           ClassifyRun, IsNextInBatch
<1>12. ASSUME NEW i \in batch, PreparePreflight(i)
       PROVE  PreflightInv'
  BY <1>12, PreparedPreflight
<1>13. ASSUME NEW i \in batch, PersistFinalization(i)
       PROVE  PreflightInv'
  BY <1>3, <1>13 DEF PersistFinalization
<1>14. ASSUME NEW i \in batch, RecoverCapturing(i)
       PROVE  PreflightInv'
  <2>1. CASE preflight.run = NoRun
    BY <1>4, <1>14, <2>1 DEF RecoverCapturing
  <2>2. CASE preflight.run # NoRun
    <3>1. /\ run[i].status = "Capturing" /\ i \in Receipts
          /\ \E row : SealsAs(i, row)
      BY <1>14, RecoverSeals DEF PipelineInv
    <3>2. preflight.run \in Receipts \ {i}
      BY <1>1, <1>5, <2>2, <3>1 DEF PreflightInv, PreflightStillCurrent
    <3>3. /\ run'[preflight.run] = run[preflight.run]
          /\ finalization'[preflight.run] = finalization[preflight.run]
      BY <1>1, <3>1, <3>2 DEF SealsAs
    <3>4. events'[preflight.run] = events[preflight.run]
      BY <1>14, <3>2 DEF RecoverCapturing, Seal, AppendEvents, PipelineInv, TypeOK
    <3>5. /\ UNCHANGED <<preflight, stage, conversation, cutoff, reconciliation>>
          /\ preflight.run \in batch'
      BY <1>5, <1>14, <2>2, <3>2 DEF RecoverCapturing, WorkedOff
    <3> QED
      BY <1>1, <2>2, <3>3, <3>4, <3>5, PreflightFrame
  <2> QED
    BY <2>1, <2>2
<1> QED
  BY <1>6, <1>7, <1>8, <1>9, <1>10, <1>11, <1>12, <1>13, <1>14 DEF Next, Work

-----------------------------------------------------------------------------
(* The invariant *)

LEMMA PipelineInit == Init => PipelineInv
<1> SUFFICES ASSUME Init PROVE PipelineInv
  OBVIOUS
<1>1. LifecycleInit
  BY DEF Init
<1>2. PointerInv /\ PromiseInv
  BY <1>1, PointerInit, PromiseStart
<1>3. LifecycleInv
  BY <1>1, <1>2 DEF LifecycleInv, LifecycleInit, StopLeavesCapturing
<1>4. NoFinalization \in FinalizationRow /\ NoPreflight \in PreflightRow
  BY DEF NoFinalization, FinalizationRow, NoPreflight, PreflightRow, NoReceipt, NoRun
<1>5. MaxCrashes \in Nat /\ \A r \in Receipts : <<>> \in Seq(EventRow)
  BY PipelineConstants DEF PipelineConstants
<1>6. TypeOK
  BY <1>2, <1>4, <1>5 DEF Init, TypeOK, PointerInv, RunInv, TypeInv, Outcomes, Stages
<1>7. BatchIsOldest /\ BatchIsStale /\ PreflightInv
  BY DEF Init, BatchIsOldest, BatchIsStale, PreflightInv, NoPreflight
<1>8. ASSUME NEW q \in Receipts
      PROVE  StopIndices(q) = {} /\ TerminalIndices(q) = {} /\ finalization[q].status = None
  <2>1. events[q] = <<>> /\ finalization[q] = NoFinalization /\ DOMAIN events[q] = {}
    BY DEF Init
  <2> QED
    BY <2>1 DEF StopIndices, TerminalIndices, NoFinalization
<1> QED
  BY <1>3, <1>6, <1>7, <1>8 DEF PipelineInv, StopEventsHaveReceipts, SealInv, Unsealed

LEMMA PipelineStep == PipelineInv /\ [Next]_vars => PipelineInv'
<1> SUFFICES ASSUME PipelineInv, [Next]_vars PROVE PipelineInv'
  OBVIOUS
<1>1. TypeOK' /\ LifecycleInv'
  BY PumpTypeStep
<1>2. BatchIsOldest' /\ BatchIsStale'
  BY BatchIsOldestStep, BatchIsStaleStep
<1>3. StopEventsHaveReceipts' /\ SealInv' /\ PreflightInv'
  BY StopEventsStep, SealStep, PreflightStep
<1> QED
  BY <1>1, <1>2, <1>3 DEF PipelineInv

LEMMA PipelineInvariant == Safety => []PipelineInv
BY PipelineInit, PipelineStep, PTL DEF Safety

-----------------------------------------------------------------------------
(* Theorems *)

(***************************************************************************)
(* Every row the pump and recovery write stays within its table's domain.  *)
(***************************************************************************)
THEOREM PumpTypeCorrect == Safety => []TypeOK
<1>1. PipelineInv => TypeOK
  BY DEF PipelineInv
<1> QED
  BY <1>1, PipelineInvariant, PTL

(***************************************************************************)
(* No crash point and no interleaving shows recovery a capturing run with  *)
(* a Stop event: the event is written after the receipt was resolved, and  *)
(* resolving a Stop takes its run out of Capturing for good.               *)
(***************************************************************************)
THEOREM CapturingRunsWereNotStopped == Safety => []CapturingHasNoStop
<1>1. ASSUME PipelineInv, NEW q \in Runs, run[q].status = "Capturing", NEW i \in StopIndices(q)
      PROVE  FALSE
  <2>1. q \in Receipts /\ q # NoRun
    BY ConstantFacts DEF Runs
  <2>2. IsStopOf(events[q][i].by, q)
    BY <1>1, <2>1 DEF PipelineInv, StopEventsHaveReceipts
  <2>3. StopLeavesCapturing(events[q][i].by)
    BY <1>1, <2>2 DEF PipelineInv, LifecycleInv, IsStopOf
  <2> QED
    BY <1>1, <2>1, <2>2, <2>3 DEF IsStopOf, StopLeavesCapturing
<1>2. PipelineInv => CapturingHasNoStop
  BY <1>1 DEF CapturingHasNoStop
<1> QED
  BY <1>2, PipelineInvariant, PTL

(***************************************************************************)
(* What finalization read before its awaits is still so at every moment    *)
(* until its transaction, whoever else writes meanwhile.                   *)
(***************************************************************************)
THEOREM PreflightsStayCurrent == Safety => []PreflightStillCurrent
<1>1. PipelineInv => PreflightStillCurrent
  BY DEF PipelineInv, PreflightInv, PreflightStillCurrent, NoPreflight
<1> QED
  BY <1>1, PipelineInvariant, PTL

(***************************************************************************)
(* A run has one terminal event if it has a finalization and none if it    *)
(* has not, and status, event and finalization agree on the verdict.       *)
(***************************************************************************)
THEOREM RunsAreSealedOnce == Safety => []SealedOnce
<1>1. ASSUME PipelineInv, NEW q \in Runs
      PROVE  /\ Cardinality(TerminalIndices(q)) = IF finalization[q].status = None THEN 0 ELSE 1
             /\ finalization[q].status # None =>
                   /\ run[q].status = finalization[q].status
                   /\ \A i \in TerminalIndices(q) :
                         events[q][i].type = TerminalEvent[finalization[q].status]
  <2>1. q \in Receipts
    BY DEF Runs
  <2>2. CASE Unsealed(q)
    BY <2>2, FS_EmptySet DEF Unsealed
  <2>3. CASE SealedAs(q)
    <3>1. PICK i \in DOMAIN events[q] :
            /\ TerminalIndices(q) = {i}
            /\ events[q][i].type = TerminalEvent[finalization[q].status]
      BY <2>3 DEF SealedAs
    <3>2. finalization[q].status # None /\ run[q].status = finalization[q].status
      BY <2>3 DEF SealedAs, Terminal, None
    <3>3. Cardinality(TerminalIndices(q)) = 1
      BY <3>1, FS_Singleton
    <3> QED
      BY <3>1, <3>2, <3>3
  <2> QED
    BY <1>1, <2>1, <2>2, <2>3 DEF PipelineInv, SealInv
<1>2. PipelineInv => SealedOnce
  BY <1>1 DEF SealedOnce
<1> QED
  BY <1>2, PipelineInvariant, PTL

(***************************************************************************)
(* A finalization is never rewritten, gaps are never withdrawn and events  *)
(* are only appended, by any step of any stage.                            *)
(***************************************************************************)
THEOREM EvidenceAccumulates == Safety => EvidenceOnlyGrows
<1> DEFINE Grown == \A q \in Receipts :
        /\ finalization[q].status # None => finalization'[q] = finalization[q]
        /\ gaps'[q] >= gaps[q]
        /\ Len(events'[q]) >= Len(events[q])
        /\ SubSeq(events'[q], 1, Len(events[q])) = events[q]
<1>1. PipelineInv /\ [Next]_vars => Grown
  <2> SUFFICES ASSUME PipelineInv, [Next]_vars, NEW q \in Receipts
               PROVE  /\ finalization[q].status # None => finalization'[q] = finalization[q]
                      /\ gaps'[q] >= gaps[q]
                      /\ Len(events'[q]) >= Len(events[q])
                      /\ SubSeq(events'[q], 1, Len(events[q])) = events[q]
    OBVIOUS
  <2>1. EvidenceAdded /\ (SealsNothing \/ SealsOne)
    BY RowEffect DEF PipelineInv
  <2>2. /\ events[q] \in Seq(EventRow) /\ events'[q] \in Seq(EventRow) /\ Grows(q)
        /\ gaps'[q] >= gaps[q]
    BY <2>1 DEF EvidenceAdded, EventsTyped, PipelineInv, TypeOK
  <2>3. finalization[q].status # None => finalization'[q] = finalization[q]
    BY <2>1 DEF SealsNothing, SealsOne, SealsAs, PipelineInv, TypeOK
  <2> QED
    BY <2>2, <2>3, GrownPrefix
<1>2. PipelineInv /\ [Next]_vars => [Grown]_vars
  BY <1>1
<1> QED
  BY <1>2, PipelineInvariant, PTL DEF Safety, EvidenceOnlyGrows

(***************************************************************************)
(* The stale runs do not outnumber a recovery batch.                       *)
(***************************************************************************)
StaleRunsFit == Cardinality(StaleRuns) <= RecoveryBatch

RecoveryListsAll == stage = "recovery" => StaleRuns \subseteq batch

LEMMA RecoveryListsAllStep ==
    ASSUME PipelineInv, RecoveryListsAll, StaleRunsFit, [Next]_vars
    PROVE  RecoveryListsAll'
<1> SUFFICES ASSUME stage' = "recovery" PROVE StaleRuns' \subseteq batch'
  BY DEF RecoveryListsAll
<1>1. CASE stage = "recovery"
  BY <1>1, StaleRunsStep DEF RecoveryListsAll
<1>2. CASE stage # "recovery"
  <2>1. IsListing(batch', "recovery") /\ StaleRuns' = StaleRuns
    BY <1>2, RecoveryStarts
  <2>2. /\ batch' \subseteq StaleRuns
        /\ batch' = StaleRuns \/ Cardinality(batch') = RecoveryBatch
    BY <2>1 DEF IsListing, Eligible, Limit
  <2>3. IsFiniteSet(Receipts) /\ StaleRuns \subseteq Receipts
    BY LifecycleConstants, FS_Interval DEF LifecycleConstants, Receipts, StaleRuns, Runs
  <2>4. IsFiniteSet(StaleRuns)
    BY <2>3, FS_Subset
  <2>5. /\ Cardinality(batch') \in Nat /\ Cardinality(StaleRuns) \in Nat
        /\ Cardinality(batch') <= Cardinality(StaleRuns)
        /\ Cardinality(batch') = Cardinality(StaleRuns) => batch' = StaleRuns
    BY <2>2, <2>4, FS_Subset, FS_CardinalityType
  <2>6. RecoveryBatch \in Nat
    BY PipelineConstants DEF PipelineConstants
  <2>7. batch' = StaleRuns
    BY <2>2, <2>5, <2>6 DEF StaleRunsFit
  <2> QED
    BY <2>1, <2>7
<1> QED
  BY <1>1, <1>2

(***************************************************************************)
(* As long as the stale runs never outnumber a recovery batch, no run of   *)
(* an earlier process is left active when recovery is through.             *)
(***************************************************************************)
THEOREM RecoveryLeavesNoStaleRun == Safety /\ []StaleRunsFit => []RecoveryIsComplete
<1>1. Init => RecoveryListsAll
  BY DEF Init, RecoveryListsAll
<1>2. PipelineInv /\ RecoveryListsAll /\ StaleRunsFit /\ [Next]_vars => RecoveryListsAll'
  BY RecoveryListsAllStep
<1>3. RecoveryListsAll => RecoveryIsComplete
  BY DEF RecoveryListsAll, RecoveryIsComplete
<1> QED
  BY <1>1, <1>2, <1>3, PipelineInvariant, PTL DEF Safety

(***************************************************************************)
(* The pump and recovery keep the promise about runs that the lifecycle    *)
(* processor keeps: crashes, batches and failures of stages included.      *)
(***************************************************************************)
THEOREM PumpKeepsRunPromise == Safety => KeepsRunPromise
<1>1. PipelineInv /\ [Next]_vars => [Promise!Next]_(Promise!promiseVars)
  <2> SUFFICES ASSUME PipelineInv, [Next]_vars PROVE [Promise!Next]_(Promise!promiseVars)
    OBVIOUS
  <2>1. PromiseInv /\ PromiseInv'
    BY PumpTypeStep DEF PipelineInv, LifecycleInv
  <2>2. CASE [LifecycleNext]_lifecycleVars
    BY <2>1, <2>2, StepPromised DEF PromiseStep, OpenRuns, ClosingRuns, Judged, Promise!promiseVars
  <2>3. CASE SideStep
    <3>1. PromiseStep
      BY <2>1, <2>3, NothingPromised DEF SideStep, Same
    <3> QED
      BY <3>1 DEF PromiseStep, OpenRuns, ClosingRuns, Judged, Promise!promiseVars
  <2> QED
    BY <2>2, <2>3, LifecycleSteps DEF PipelineInv
<1>2. Init => Promise!Init
  BY PromiseStart DEF Init
<1> QED
  BY <1>1, <1>2, PipelineInvariant, PTL DEF Safety, KeepsRunPromise, Promise!Spec

(***************************************************************************)
(* Seen from the tables of the lifecycle, the pump is the lifecycle        *)
(* processor: whatever a batch lists, the receipt it resolves is the       *)
(* oldest pending one, and the only other steps read the clock or count an *)
(* exception.                                                              *)
(***************************************************************************)
THEOREM PumpRunsTheLifecycle == Safety => [][LifecycleNext \/ SideStep]_lifecycleVars
<1>1. PipelineInv /\ [Next]_vars => [LifecycleNext \/ SideStep]_lifecycleVars
  BY LifecycleSteps DEF PipelineInv
<1> QED
  BY <1>1, PipelineInvariant, PTL DEF Safety

(***************************************************************************)
(* So the pump keeps what the processor keeps: numbers are unique, only    *)
(* the newest run captures, an ended conversation captures nothing and one *)
(* Stop applies.                                                           *)
(***************************************************************************)
THEOREM PumpKeepsTheRuns ==
    Safety => [](/\ RunNumbersUnique /\ CapturesNewestRun
                 /\ EndedCapturesNothing /\ OneStopApplies)
<1>1. PipelineInv => /\ RunNumbersUnique /\ CapturesNewestRun
                     /\ EndedCapturesNothing /\ OneStopApplies
  BY DEF PipelineInv, LifecycleInv, PointerInv, RunInv
<1> QED
  BY <1>1, PipelineInvariant, PTL

-----------------------------------------------------------------------------
(* The order of a run's source events                                      *)

ResolvedAt(r) == resolution[r].resolvedAt

Normalized   == {r \in Receipts : normalization[r] # None}
Unnormalized == Resolved \ Normalized

(***************************************************************************)
(* The clocks are not behind what they stamped.                            *)
(***************************************************************************)
ClocksAhead ==
    /\ \A r \in Resolved : ResolvedAt(r) <= resolvedClock
    /\ \A r \in Receipts : receipt[r].status # None => receipt[r].createdAt <= createdClock

(***************************************************************************)
(* Receipts are normalized in the order of their resolution, up to ties,   *)
(* whatever earlier batches left behind.                                   *)
(***************************************************************************)
NormalizedInOrder ==
    /\ Normalized \subseteq Resolved
    /\ \A a \in Normalized, b \in Unnormalized : ResolvedAt(a) <= ResolvedAt(b)
    /\ stage = "normalization" =>
          /\ batch \subseteq Unnormalized
          /\ \A i \in batch, j \in Unnormalized \ batch : ResolvedAt(i) <= ResolvedAt(j)

(***************************************************************************)
(* Source events are those of normalized receipts, in that order.          *)
(***************************************************************************)
SourceIndices(q) == {i \in DOMAIN events[q] : events[q][i].type \in SourceNames}

SourcesInOrder ==
    \A q \in Receipts :
        /\ \A i \in SourceIndices(q) : /\ events[q][i].by \in Normalized
                                       /\ resolution[events[q][i].by].run = q
        /\ \A i, j \in SourceIndices(q) :
              i < j => ResolvedAt(events[q][i].by) <= ResolvedAt(events[q][j].by)

OrderInv == PipelineInv /\ ClocksAhead /\ NormalizedInOrder /\ SourcesInOrder

(***************************************************************************)
(* No receipt is resolved before an older one, and of two resolved in      *)
(* different milliseconds the earlier one is not the newer.                *)
(***************************************************************************)
CreatedAt(r) == receipt[r].createdAt

ResolvedInOrder ==
    /\ \A a \in Resolved, b \in Pending : CreatedAt(a) <= CreatedAt(b)
    /\ \A a, b \in Resolved : ResolvedAt(a) < ResolvedAt(b) => CreatedAt(a) <= CreatedAt(b)

-----------------------------------------------------------------------------
(* What orders them *)

(***************************************************************************)
(* Receipt r gets its resolution and the clock is read for it.             *)
(***************************************************************************)
ResolvesOne(r) ==
    /\ receipt[r].status = "pending"
    /\ OldestPending(r)
    /\ \E d \in ClockSteps : /\ resolvedClock' = resolvedClock + d
                             /\ resolution'[r].resolvedAt = resolvedClock + d
    /\ resolution'[r].outcome # None
    /\ receipt'[r].status # "pending" /\ receipt'[r].status # None
    /\ receipt'[r].createdAt = receipt[r].createdAt
    /\ \A b \in Receipts \ {r} : resolution'[b] = resolution[b] /\ receipt'[b] = receipt[b]
    /\ UNCHANGED <<idRank, createdClock>>

(***************************************************************************)
(* Receipt r enters the journal and the clock is read for it.              *)
(***************************************************************************)
AcceptsOne(r) ==
    /\ receipt[r].status = None
    /\ \E d \in ClockSteps : /\ createdClock' = createdClock + d
                             /\ receipt'[r].createdAt = createdClock + d
    /\ receipt'[r].status = "pending"
    /\ \A b \in Receipts \ {r} : receipt'[b] = receipt[b]
    /\ UNCHANGED <<idRank, resolution, resolvedClock>>

KeepsJournal == /\ UNCHANGED <<receipt, resolution, idRank, resolvedClock>>
                /\ createdClock' \in Nat /\ createdClock' >= createdClock

LEMMA ResolveStamps ==
    ASSUME TypeInv, NEW r \in Receipts, Resolve(r), OldestPending(r)
    PROVE  ResolvesOne(r)
<1>1. receipt \in [Receipts -> ReceiptRow] /\ resolution \in [Receipts -> ResolutionRow]
  BY DEF TypeInv, LifecycleTypeOK
<1>2. PICK d \in ClockSteps, outcome \in {"applied", "associated", "failed"} :
           \E diagnostic \in Diagnostics \cup {None}, q \in Receipts \cup {NoRun} :
               RecordResolution(r, d, outcome, diagnostic, q)
  BY ResolveRecords
<1>3. PICK diagnostic \in Diagnostics \cup {None}, q \in Receipts \cup {NoRun} :
           RecordResolution(r, d, outcome, diagnostic, q)
  BY <1>2
<1>4. PICK status \in {"failed", "processed"} : receipt' = [receipt EXCEPT ![r].status = status]
  BY <1>3 DEF RecordResolution
<1>5. /\ receipt'[r].createdAt = receipt[r].createdAt
      /\ receipt'[r].status = status
      /\ \A b \in Receipts \ {r} : receipt'[b] = receipt[b]
  BY <1>1, <1>4 DEF ReceiptRow
<1>6. /\ resolution'[r].resolvedAt = resolvedClock + d
      /\ resolution'[r].outcome = outcome
      /\ \A b \in Receipts \ {r} : resolution'[b] = resolution[b]
  BY <1>1, <1>3 DEF RecordResolution
<1>7. resolvedClock' = resolvedClock + d /\ UNCHANGED <<idRank, createdClock>>
  BY <1>3 DEF RecordResolution
<1>8. receipt[r].status = "pending"
  BY DEF Resolve
<1> QED
  BY <1>5, <1>6, <1>7, <1>8 DEF ResolvesOne, None

LEMMA AcceptStamps ==
    ASSUME TypeInv, AcceptAny
    PROVE  \E r \in Receipts : AcceptsOne(r)
<1>1. PICK r \in Receipts, s \in Sessions, w \in Workspaces, h \in Hooks, d \in ClockSteps :
          Accept(r, s, w, h, d)
  BY DEF AcceptAny
<1>2. receipt \in [Receipts -> ReceiptRow]
  BY DEF TypeInv, LifecycleTypeOK
<1>3. /\ receipt'[r].createdAt = createdClock + d
      /\ receipt'[r].status = "pending"
      /\ \A b \in Receipts \ {r} : receipt'[b] = receipt[b]
  BY <1>1, <1>2 DEF Accept
<1>4. AcceptsOne(r)
  BY <1>1, <1>3 DEF Accept, AcceptsOne
<1> QED
  BY <1>4

LEMMA JournalSteps ==
    ASSUME PipelineInv, [Next]_vars
    PROVE  KeepsJournal \/ \E r \in Receipts : ResolvesOne(r) \/ AcceptsOne(r)
<1>1. [LifecycleNext]_lifecycleVars \/ SideStep
  BY LifecycleSteps DEF PipelineInv
<1>2. TypeInv /\ createdClock \in Nat
  BY DEF PipelineInv, LifecycleInv, PointerInv, RunInv, TypeOK, LifecycleTypeOK
<1>3. CASE AcceptAny
  BY <1>2, <1>3, AcceptStamps
<1>4. CASE ResolveOldest
  <2>1. PICK r \in Receipts : OldestPending(r) /\ Resolve(r)
    BY <1>4 DEF ResolveOldest
  <2> QED
    BY <1>2, <2>1, ResolveStamps
<1>5. CASE SealRun \/ SideStep \/ UNCHANGED lifecycleVars
  BY <1>2, <1>5 DEF SealRun, SideStep, lifecycleVars, KeepsJournal
<1> QED
  BY <1>1, <1>3, <1>4, <1>5 DEF LifecycleNext

LEMMA OrderTypes ==
    ASSUME PipelineInv
    PROVE  /\ \A r \in Receipts : /\ ResolvedAt(r) \in Nat
                                  /\ receipt[r].createdAt \in Nat
                                  /\ idRank[r] \in Nat
           /\ resolvedClock \in Nat /\ createdClock \in Nat
           /\ \A r \in Resolved : receipt[r].status \notin {None, "pending"}
           /\ Resolved \subseteq Receipts /\ Pending \subseteq Receipts
           /\ batch \subseteq Receipts
<1>1. TypeOK /\ LifecycleTypeOK /\ UnresolvedIsBlank
  BY DEF PipelineInv, TypeOK, LifecycleInv, PointerInv, RunInv
<1> QED
  BY <1>1, ConstantFacts DEF TypeOK, LifecycleTypeOK, UnresolvedIsBlank, Resolved, Pending,
     ResolvedAt, ReceiptRow, ResolutionRow

(***************************************************************************)
(* What a step does to the resolved receipts and their stamps.             *)
(***************************************************************************)
LEMMA ResolvedStep ==
    ASSUME PipelineInv, [Next]_vars
    PROVE  /\ Resolved \subseteq Resolved'
           /\ \A r \in Resolved : /\ resolution'[r] = resolution[r]
                                  /\ receipt'[r].status # None
                                  /\ receipt'[r].createdAt = receipt[r].createdAt
           /\ \/ Resolved' = Resolved
              \/ \E r \in Receipts : ResolvesOne(r) /\ Resolved' = Resolved \cup {r}
           /\ resolvedClock' >= resolvedClock /\ createdClock' >= createdClock
<1>1. \A r \in Resolved : receipt[r].status \notin {None, "pending"}
  BY OrderTypes
<1>2. resolvedClock \in Nat /\ createdClock \in Nat /\ ClockSteps \subseteq Nat
  BY OrderTypes, ConstantFacts
<1>3. CASE KeepsJournal
  BY <1>1, <1>2, <1>3 DEF KeepsJournal, Resolved
<1>4. ASSUME NEW p \in Receipts, ResolvesOne(p)
      PROVE  /\ \A r \in Resolved : /\ resolution'[r] = resolution[r]
                                    /\ receipt'[r].status # None
                                    /\ receipt'[r].createdAt = receipt[r].createdAt
             /\ Resolved' = Resolved \cup {p}
             /\ resolvedClock' >= resolvedClock /\ createdClock' >= createdClock
  BY <1>1, <1>2, <1>4 DEF ResolvesOne, Resolved
<1>5. ASSUME NEW p \in Receipts, AcceptsOne(p)
      PROVE  /\ \A r \in Resolved : /\ resolution'[r] = resolution[r]
                                    /\ receipt'[r].status # None
                                    /\ receipt'[r].createdAt = receipt[r].createdAt
             /\ Resolved' = Resolved
             /\ resolvedClock' >= resolvedClock /\ createdClock' >= createdClock
  BY <1>1, <1>2, <1>5 DEF AcceptsOne, Resolved
<1> QED
  BY <1>3, <1>4, <1>5, JournalSteps

LEMMA ClocksAheadStep ==
    ASSUME PipelineInv, ClocksAhead, [Next]_vars
    PROVE  ClocksAhead'
<1>1. /\ \A r \in Resolved : ResolvedAt(r) <= resolvedClock
      /\ \A r \in Receipts : receipt[r].status # None => receipt[r].createdAt <= createdClock
  BY DEF ClocksAhead
<1>2. /\ \A r \in Receipts : ResolvedAt(r) \in Nat /\ receipt[r].createdAt \in Nat
      /\ resolvedClock \in Nat /\ createdClock \in Nat
      /\ Resolved \subseteq Receipts
      /\ \A r \in Resolved : receipt[r].status # None
      /\ ClockSteps \subseteq Nat
  BY OrderTypes, ConstantFacts
<1>3. CASE KeepsJournal
  BY <1>1, <1>2, <1>3 DEF KeepsJournal, Resolved, ResolvedAt, ClocksAhead
<1>4. ASSUME NEW p \in Receipts, ResolvesOne(p)
      PROVE  ClocksAhead'
  BY <1>1, <1>2, <1>4 DEF ResolvesOne, Resolved, ResolvedAt, ClocksAhead, None
<1>5. ASSUME NEW p \in Receipts, AcceptsOne(p)
      PROVE  ClocksAhead'
  <2>1. PICK d \in ClockSteps : /\ createdClock' = createdClock + d
                                /\ receipt'[p].createdAt = createdClock + d
    BY <1>5 DEF AcceptsOne
  <2>2. \A r \in Receipts : receipt'[r].status # None => receipt'[r].createdAt <= createdClock'
    BY <1>1, <1>2, <1>5, <2>1 DEF AcceptsOne
  <2>3. \A r \in Resolved' : ResolvedAt(r)' <= resolvedClock'
    BY <1>1, <1>5 DEF AcceptsOne, Resolved, ResolvedAt
  <2> QED
    BY <2>2, <2>3 DEF ClocksAhead
<1> QED
  BY <1>3, <1>4, <1>5, JournalSteps

LEMMA ResolvedInOrderStep ==
    ASSUME PipelineInv, ClocksAhead, ResolvedInOrder, [Next]_vars
    PROVE  ResolvedInOrder'
<1>1. /\ \A r \in Resolved : ResolvedAt(r) <= resolvedClock
      /\ \A r \in Receipts : receipt[r].status # None => CreatedAt(r) <= createdClock
      /\ \A a \in Resolved, b \in Pending : CreatedAt(a) <= CreatedAt(b)
      /\ \A a, b \in Resolved : ResolvedAt(a) < ResolvedAt(b) => CreatedAt(a) <= CreatedAt(b)
  BY DEF ClocksAhead, ResolvedInOrder, CreatedAt
<1>2. /\ \A r \in Receipts : ResolvedAt(r) \in Nat /\ CreatedAt(r) \in Nat
      /\ resolvedClock \in Nat /\ createdClock \in Nat
      /\ Resolved \subseteq Receipts /\ Pending \subseteq Receipts
      /\ \A r \in Resolved : receipt[r].status \notin {None, "pending"}
      /\ ClockSteps \subseteq Nat
  BY OrderTypes, ConstantFacts DEF CreatedAt
<1>3. CASE KeepsJournal
  BY <1>1, <1>3 DEF KeepsJournal, Resolved, ResolvedAt, ResolvedInOrder, CreatedAt, Pending
<1>4. ASSUME NEW p \in Receipts, ResolvesOne(p)
      PROVE  ResolvedInOrder'
  <2>1. /\ Pending' = Pending \ {p} /\ p \in Pending /\ p \notin Resolved
        /\ Resolved' = Resolved \cup {p}
    BY <1>2, <1>4 DEF ResolvesOne, Pending, Resolved
  <2>2. \A a \in Receipts : CreatedAt(a)' = CreatedAt(a)
    BY <1>4 DEF ResolvesOne, CreatedAt
  <2>3. \A b \in Pending \ {p} : CreatedAt(p) <= CreatedAt(b)
    BY <1>2, <1>4 DEF ResolvesOne, OldestPending, Before, CreatedAt
  <2>4. \A r \in Resolved : ResolvedAt(r)' = ResolvedAt(r) /\ ~(ResolvedAt(p)' < ResolvedAt(r))
    <3>1. PICK d \in ClockSteps : resolution'[p].resolvedAt = resolvedClock + d
      BY <1>4 DEF ResolvesOne
    <3>2. \A r \in Resolved : ResolvedAt(r) <= resolvedClock /\ ResolvedAt(r) \in Nat
      BY <1>1, <1>2
    <3>3. ResolvedAt(p)' = resolvedClock + d /\ d \in Nat
      BY <1>2, <3>1 DEF ResolvedAt
    <3>4. \A r \in Resolved : ResolvedAt(r)' = ResolvedAt(r)
      BY <1>2, <1>4, <2>1 DEF ResolvesOne, ResolvedAt
    <3> QED
      BY <1>2, <3>2, <3>3, <3>4
  <2>5. \A a \in Resolved', b \in Pending' : CreatedAt(a)' <= CreatedAt(b)'
    BY <1>1, <1>2, <2>1, <2>2, <2>3
  <2>6. ASSUME NEW a \in Resolved', NEW b \in Resolved', ResolvedAt(a)' < ResolvedAt(b)'
        PROVE  CreatedAt(a)' <= CreatedAt(b)'
    <3>1. CASE a = p /\ b = p
      BY <1>2, <2>2, <3>1
    <3>2. CASE a = p /\ b # p
      BY <2>1, <2>4, <2>6, <3>2
    <3>3. CASE a # p /\ b = p
      BY <1>1, <1>2, <2>1, <2>2, <3>3
    <3>4. CASE a # p /\ b # p
      BY <1>1, <1>2, <2>1, <2>2, <2>4, <2>6, <3>4
    <3> QED
      BY <3>1, <3>2, <3>3, <3>4
  <2> QED
    BY <2>5, <2>6 DEF ResolvedInOrder
<1>5. ASSUME NEW p \in Receipts, AcceptsOne(p)
      PROVE  ResolvedInOrder'
  <2>1. /\ Pending' = Pending \cup {p} /\ Resolved' = Resolved /\ p \notin Resolved
        /\ p \notin Pending
    BY <1>2, <1>5 DEF AcceptsOne, Pending, Resolved, None
  <2>2. \A r \in Resolved : ResolvedAt(r)' = ResolvedAt(r) /\ CreatedAt(r) <= CreatedAt(p)'
    <3>1. PICK d \in ClockSteps : receipt'[p].createdAt = createdClock + d
      BY <1>5 DEF AcceptsOne
    <3>2. \A r \in Resolved : CreatedAt(r) <= createdClock /\ CreatedAt(r) \in Nat
      BY <1>1, <1>2
    <3>3. CreatedAt(p)' = createdClock + d /\ d \in Nat
      BY <1>2, <3>1 DEF CreatedAt
    <3> QED
      BY <1>2, <1>5, <3>2, <3>3 DEF AcceptsOne, ResolvedAt
  <2>3. \A a \in Receipts \ {p} : CreatedAt(a)' = CreatedAt(a)
    BY <1>5 DEF AcceptsOne, CreatedAt
  <2> QED
    BY <1>1, <1>2, <2>1, <2>2, <2>3 DEF ResolvedInOrder
<1> QED
  BY <1>3, <1>4, <1>5, JournalSteps

(***************************************************************************)
(* Receipt r, next of its batch, leaves the queue of normalization.        *)
(***************************************************************************)
NormalizesOne(r) ==
    /\ Normalized' = Normalized \cup {r}
    /\ UNCHANGED <<resolution, stage>>
    /\ stage = "normalization"
    /\ batch' = batch \ {r}
    /\ \A j \in batch : ~(ResolvedAt(j) < ResolvedAt(r))

LEMMA NormalizeLeavesQueue ==
    ASSUME PipelineInv, NEW r \in batch, NormalizeReceipt(r)
    PROVE  NormalizesOne(r)
<1>1. /\ normalization \in [Receipts -> {None, "normalized", "skipped", "failed"}]
      /\ r \in Receipts
  BY OrderTypes DEF PipelineInv, TypeOK
<1>2. PICK o \in {"skipped", "normalized", "failed"} :
          normalization' = [normalization EXCEPT ![r] = o]
  BY DEF NormalizeReceipt
<1>3. Normalized' = Normalized \cup {r}
  BY <1>1, <1>2 DEF Normalized, None
<1>4. \A j \in batch : ~(ResolvedAt(j) < ResolvedAt(r))
  BY DEF NormalizeReceipt, IsNextInBatch, Precedes, ResolvedAt
<1> QED
  BY <1>3, <1>4 DEF NormalizeReceipt, NormalizesOne, IsNextInBatch, WorkedOff

(***************************************************************************)
(* Only normalization writes outcomes, and its listing is in order.        *)
(***************************************************************************)
LEMMA NormalizationSteps ==
    ASSUME PipelineInv, [Next]_vars
    PROVE  \/ \E r \in batch : NormalizeReceipt(r)
           \/ /\ normalization' = normalization
              /\ stage' = "normalization" =>
                    /\ resolution' = resolution
                    /\ \/ batch' = {}
                       \/ stage = "normalization" /\ batch' = batch
                       \/ /\ batch' \subseteq Unnormalized
                          /\ \A i \in batch', j \in Unnormalized \ batch' :
                                ~(ResolvedAt(j) < ResolvedAt(i))
<1> USE DEF rowVars, processVars
<1>1. CASE Boot \/ Ingress \/ Crash \/ StageThrows \/ UNCHANGED vars
  BY <1>1 DEF Boot, Ingress, Crash, StageThrows, vars, lifecycleVars
<1>2. CASE Advance
  <2>1. PICK T \in SUBSET Eligible(NextStage[stage]) :
          /\ IsListing(T, NextStage[stage])
          /\ batch' = T
    BY <1>2 DEF Advance
  <2>2. /\ stage' = NextStage[stage] /\ normalization' = normalization
        /\ resolution' = resolution
    BY <1>2 DEF Advance, lifecycleVars
  <2>3. Eligible("normalization") = Unnormalized
    BY DEF Eligible, Unnormalized, Normalized, Resolved
  <2>4. \A i, j : ~Precedes("normalization", j, i) => ~(ResolvedAt(j) < ResolvedAt(i))
    BY DEF Precedes, ResolvedAt
  <2>5. stage' = "normalization" =>
            /\ T \subseteq Unnormalized
            /\ \A i \in T, j \in Unnormalized \ T : ~Precedes("normalization", j, i)
    BY <2>1, <2>2, <2>3 DEF IsListing
  <2> QED
    BY <2>1, <2>2, <2>4, <2>5
<1>3. ASSUME NEW i \in batch,
             \/ ResolveReceipt(i) \/ CaptureBaseline(i) \/ ReconcileTrigger(i)
             \/ PreparePreflight(i) \/ RecoverCapturing(i) \/ ClassifyRun(i)
      PROVE  normalization' = normalization /\ stage' # "normalization"
  BY <1>3 DEF ResolveReceipt, CaptureBaseline, ReconcileTrigger, PreparePreflight,
              RecoverCapturing, ClassifyRun, IsNextInBatch
<1>4. ASSUME NEW i \in batch, PersistFinalization(i)
      PROVE  normalization' = normalization /\ stage' # "normalization"
  <2>1. preflight.run = i /\ stage' = stage /\ normalization' = normalization
    BY <1>4 DEF PersistFinalization
  <2>2. i # NoRun
    BY OrderTypes, ConstantFacts
  <2> QED
    BY <2>1, <2>2 DEF PipelineInv, PreflightInv
<1> QED
  BY <1>1, <1>2, <1>3, <1>4 DEF Next, Work

LEMMA NormalizedStay ==
    ASSUME PipelineInv, [Next]_vars
    PROVE  Normalized \subseteq Normalized'
<1>1. ASSUME NEW r \in batch, NormalizeReceipt(r) PROVE Normalized \subseteq Normalized'
  BY <1>1, NormalizeLeavesQueue DEF NormalizesOne
<1>2. CASE ~\E r \in batch : NormalizeReceipt(r)
  BY <1>2, NormalizationSteps DEF Normalized
<1> QED
  BY <1>1, <1>2

StampsAreNatural == \A r \in Receipts : ResolvedAt(r) \in Nat

LEMMA StampsNext == PipelineInv' => StampsAreNatural'
<1>1. PipelineInv => StampsAreNatural
  BY OrderTypes DEF StampsAreNatural
<1> QED
  BY <1>1, PTL

LEMMA NormalizedInOrderStep ==
    ASSUME PipelineInv, ClocksAhead, NormalizedInOrder, [Next]_vars
    PROVE  NormalizedInOrder'
<1>1. /\ Normalized \subseteq Resolved
      /\ \A a \in Normalized, b \in Unnormalized : ResolvedAt(a) <= ResolvedAt(b)
      /\ stage = "normalization" =>
            /\ batch \subseteq Unnormalized
            /\ \A i \in batch, j \in Unnormalized \ batch : ResolvedAt(i) <= ResolvedAt(j)
  BY DEF NormalizedInOrder
<1>2. \A r \in Receipts : ResolvedAt(r) \in Nat
  BY OrderTypes
<1>3. Unnormalized \subseteq Receipts /\ Resolved \subseteq Receipts /\ batch \subseteq Receipts
  BY OrderTypes DEF Unnormalized
<1>4. CASE \E r \in batch : NormalizeReceipt(r)
  <2>1. PICK r \in batch : NormalizesOne(r)
    BY <1>4, NormalizeLeavesQueue
  <2>2. /\ r \in Unnormalized
        /\ \A j \in Unnormalized : ResolvedAt(r) <= ResolvedAt(j)
    BY <1>1, <1>2, <1>3, <2>1 DEF NormalizesOne
  <2>3. /\ Resolved' = Resolved
        /\ \A a : ResolvedAt(a)' = ResolvedAt(a)
    BY <2>1 DEF NormalizesOne, Resolved, ResolvedAt
  <2>4. Unnormalized' = Unnormalized \ {r} /\ Normalized' = Normalized \cup {r}
    BY <2>1, <2>3 DEF NormalizesOne, Unnormalized
  <2>5. /\ batch' = batch \ {r} /\ stage = "normalization"
    BY <2>1 DEF NormalizesOne
  <2> QED
    BY <1>1, <2>2, <2>3, <2>4, <2>5 DEF NormalizedInOrder, Unnormalized
<1>5. CASE ~\E r \in batch : NormalizeReceipt(r)
  <2>1. /\ normalization' = normalization
        /\ stage' = "normalization" =>
              /\ resolution' = resolution
              /\ \/ batch' = {}
                 \/ stage = "normalization" /\ batch' = batch
                 \/ /\ batch' \subseteq Unnormalized
                    /\ \A i \in batch', j \in Unnormalized \ batch' :
                          ~(ResolvedAt(j) < ResolvedAt(i))
    BY <1>5, NormalizationSteps
  <2>2. Normalized' = Normalized
    BY <2>1 DEF Normalized
  <2>3. /\ Resolved \subseteq Resolved'
        /\ \A r \in Resolved : ResolvedAt(r)' = ResolvedAt(r)
        /\ \A b \in Resolved' \ Resolved : ResolvedAt(b)' >= resolvedClock
    <3>1. ASSUME NEW p \in Receipts, ResolvesOne(p), Resolved' = Resolved \cup {p}
          PROVE  \A b \in Resolved' \ Resolved : ResolvedAt(b)' >= resolvedClock
      BY <3>1, OrderTypes, ConstantFacts DEF ResolvesOne, ResolvedAt
    <3> QED
      BY <3>1, ResolvedStep DEF ResolvedAt
  <2>4. ASSUME NEW a \in Normalized, NEW b \in Unnormalized'
        PROVE  ResolvedAt(a)' <= ResolvedAt(b)'
    <3>1. a \in Resolved /\ ResolvedAt(a)' = ResolvedAt(a) /\ ResolvedAt(a) <= resolvedClock
      BY <1>1, <2>3 DEF ClocksAhead
    <3>2. CASE b \in Resolved
      BY <1>1, <2>2, <2>3, <2>4, <3>1, <3>2 DEF Unnormalized
    <3>3. CASE b \notin Resolved
      <4>1. ResolvedAt(b)' >= resolvedClock /\ b \in Receipts
        BY <2>3, <2>4, <3>3 DEF Unnormalized, Resolved
      <4>2. ResolvedAt(b)' \in Nat
        BY <4>1, PipelineStep, StampsNext DEF StampsAreNatural
      <4> QED
        BY <1>2, <1>3, <3>1, <4>1, <4>2, OrderTypes
    <3> QED
      BY <3>2, <3>3
  <2>5. ASSUME stage' = "normalization"
        PROVE  /\ batch' \subseteq Unnormalized'
               /\ \A i \in batch', j \in Unnormalized' \ batch' : ResolvedAt(i)' <= ResolvedAt(j)'
    <3>1. Unnormalized' = Unnormalized /\ \A r : ResolvedAt(r)' = ResolvedAt(r)
      BY <2>1, <2>2, <2>5 DEF Unnormalized, Resolved, ResolvedAt
    <3> QED
      BY <1>1, <1>2, <1>3, <2>1, <2>5, <3>1
  <2> QED
    BY <1>1, <2>2, <2>3, <2>4, <2>5 DEF NormalizedInOrder
<1> QED
  BY <1>4, <1>5

LEMMA SourcesInOrderStep ==
    ASSUME PipelineInv, NormalizedInOrder, SourcesInOrder, [Next]_vars
    PROVE  SourcesInOrder'
<1>1. /\ EvidenceAdded
      /\ \A q \in Receipts : Grows(q)
  BY RowEffect DEF PipelineInv, EvidenceAdded
<1>2. /\ Resolved \subseteq Resolved'
      /\ \A r \in Resolved : resolution'[r] = resolution[r]
  BY ResolvedStep
<1>3. /\ Normalized \subseteq Resolved
      /\ \A a \in Normalized, b \in Unnormalized : ResolvedAt(a) <= ResolvedAt(b)
      /\ stage = "normalization" => batch \subseteq Unnormalized
      /\ Unnormalized \subseteq Resolved
  BY DEF NormalizedInOrder, Unnormalized
<1>4. ASSUME NEW r \in batch, NormalizeReceipt(r)
      PROVE  /\ Normalized' = Normalized \cup {r}
             /\ r \in Unnormalized
             /\ batch' = batch \ {r}
  BY <1>3, <1>4, NormalizeLeavesQueue DEF NormalizesOne
<1>5. Normalized \subseteq Normalized'
  BY NormalizedStay
<1> SUFFICES ASSUME NEW q \in Receipts
             PROVE  /\ \A i \in SourceIndices(q)' : /\ events'[q][i].by \in Normalized'
                                                    /\ resolution'[events'[q][i].by].run = q
                    /\ \A i, j \in SourceIndices(q)' :
                          i < j => resolution'[events'[q][i].by].resolvedAt
                                     <= resolution'[events'[q][j].by].resolvedAt
  BY DEF SourcesInOrder, ResolvedAt
<1>6. ASSUME NEW i \in SourceIndices(q)', i \in DOMAIN events[q]
      PROVE  /\ i \in SourceIndices(q)
             /\ events'[q][i] = events[q][i]
             /\ events[q][i].by \in Normalized
             /\ resolution[events[q][i].by].run = q
  <2>1. events'[q][i] = events[q][i]
    BY <1>1, <1>6 DEF Grows
  <2>2. i \in SourceIndices(q)
    BY <1>6, <2>1 DEF SourceIndices
  <2> QED
    BY <2>1, <2>2 DEF SourcesInOrder
<1>7. ASSUME NEW i \in SourceIndices(q)', i \notin DOMAIN events[q]
      PROVE  /\ events'[q][i].by \in batch
             /\ NormalizeReceipt(events'[q][i].by)
             /\ resolution[events'[q][i].by].run = q
  <2>1. i \in NewIndices(q) /\ events'[q][i].type \in SourceNames
    BY <1>7 DEF SourceIndices, NewIndices
  <2> QED
    BY <1>1, <2>1 DEF EvidenceAdded, IsSourceOf
<1>8. ASSUME NEW i \in SourceIndices(q)'
      PROVE  /\ events'[q][i].by \in Normalized'
             /\ events'[q][i].by \in Resolved
             /\ resolution'[events'[q][i].by].run = q
             /\ resolution'[events'[q][i].by].resolvedAt = ResolvedAt(events'[q][i].by)
  <2>1. CASE i \in DOMAIN events[q]
    BY <1>2, <1>3, <1>5, <1>6, <2>1 DEF ResolvedAt
  <2>2. CASE i \notin DOMAIN events[q]
    <3>1. events'[q][i].by \in Resolved /\ events'[q][i].by \in Normalized'
      BY <1>3, <1>4, <1>7, <2>2
    <3> QED
      BY <1>2, <1>7, <2>2, <3>1 DEF ResolvedAt
  <2> QED
    BY <2>1, <2>2
<1>9. ASSUME NEW i \in SourceIndices(q)', NEW j \in SourceIndices(q)', i < j
      PROVE  ResolvedAt(events'[q][i].by) <= ResolvedAt(events'[q][j].by)
  <2> DEFINE a == events'[q][i].by
             b == events'[q][j].by
  <2>1. CASE i \in DOMAIN events[q] /\ j \in DOMAIN events[q]
    BY <1>6, <1>9, <2>1 DEF SourcesInOrder
  <2>2. CASE i \in DOMAIN events[q] /\ j \notin DOMAIN events[q]
    <3>1. a \in Normalized
      BY <1>6, <2>2
    <3>2. b \in Unnormalized
      BY <1>4, <1>7, <2>2
    <3> QED
      BY <1>3, <3>1, <3>2
  <2>3. CASE i \notin DOMAIN events[q] /\ j \in DOMAIN events[q]
    <3>1. /\ events[q] \in Seq(EventRow) /\ events'[q] \in Seq(EventRow)
          /\ i \in DOMAIN events'[q]
      BY <1>1 DEF EvidenceAdded, EventsTyped, PipelineInv, TypeOK, SourceIndices
    <3> QED
      BY <1>9, <2>3, <3>1
  <2>4. CASE i \notin DOMAIN events[q] /\ j \notin DOMAIN events[q]
    <3>1. a \in batch /\ batch' = batch \ {a} /\ a \in Unnormalized
      BY <1>4, <1>7, <2>4
    <3>2. b \in batch /\ batch' = batch \ {b}
      BY <1>4, <1>7, <2>4
    <3>3. a = b /\ ResolvedAt(a) \in Nat
      BY <3>1, <3>2, OrderTypes
    <3> QED
      BY <3>3
  <2> QED
    BY <2>1, <2>2, <2>3, <2>4
<1> QED
  BY <1>8, <1>9

LEMMA OrderInit == Init => OrderInv
<1> SUFFICES ASSUME Init PROVE OrderInv
  OBVIOUS
<1>1. /\ Resolved = {} /\ Normalized = {} /\ Unnormalized = {} /\ stage # "normalization"
      /\ \A r \in Receipts : receipt[r].status = None
  BY DEF Init, LifecycleInit, Resolved, Normalized, Unnormalized
<1>2. ASSUME NEW q \in Receipts PROVE SourceIndices(q) = {}
  <2>1. events[q] = <<>> /\ DOMAIN events[q] = {}
    BY DEF Init
  <2> QED
    BY <2>1 DEF SourceIndices
<1> QED
  BY <1>1, <1>2, PipelineInit DEF OrderInv, ClocksAhead, NormalizedInOrder, SourcesInOrder

LEMMA OrderStep == OrderInv /\ [Next]_vars => OrderInv'
BY PipelineStep, ClocksAheadStep, NormalizedInOrderStep, SourcesInOrderStep DEF OrderInv

LEMMA OrderInvariant == Safety => []OrderInv
BY OrderInit, OrderStep, PTL DEF Safety

LEMMA InOrderInit == Init => ResolvedInOrder
BY DEF Init, LifecycleInit, Resolved, Pending, ResolvedInOrder, None

LEMMA InOrderStep == OrderInv /\ ResolvedInOrder /\ [Next]_vars => ResolvedInOrder'
BY ResolvedInOrderStep DEF OrderInv

(***************************************************************************)
(* The events of a run follow the resolution of its receipts and, unless   *)
(* two were resolved within one millisecond, the journal: for any clock    *)
(* that never runs backwards, any ids, batches, crashes and exceptions.    *)
(***************************************************************************)
THEOREM SourceEventsFollowResolution == Safety => []EventsFollowResolution
<1>1. PipelineInv /\ OrderInv /\ ResolvedInOrder => EventsFollowResolution
  <2> SUFFICES ASSUME PipelineInv, OrderInv, ResolvedInOrder, NEW q \in Runs,
                      NEW i \in DOMAIN events[q], NEW j \in DOMAIN events[q], i < j,
                      IsSourceEvent(events[q][i]), IsSourceEvent(events[q][j])
               PROVE  LET a == events[q][i].by
                          b == events[q][j].by
                      IN  \/ resolution[a].resolvedAt = resolution[b].resolvedAt
                          \/ /\ resolution[a].resolvedAt < resolution[b].resolvedAt
                             /\ receipt[a].createdAt <= receipt[b].createdAt
    BY DEF EventsFollowResolution
  <2>1. q \in Receipts /\ i \in SourceIndices(q) /\ j \in SourceIndices(q)
    BY SourceEventNames DEF SourceIndices, Runs
  <2>2. /\ events[q][i].by \in Normalized /\ events[q][j].by \in Normalized
        /\ ResolvedAt(events[q][i].by) <= ResolvedAt(events[q][j].by)
    BY <2>1 DEF OrderInv, SourcesInOrder
  <2>3. events[q][i].by \in Resolved /\ events[q][j].by \in Resolved
    BY <2>2 DEF OrderInv, NormalizedInOrder
  <2>4. /\ ResolvedAt(events[q][i].by) \in Nat /\ ResolvedAt(events[q][j].by) \in Nat
    BY <2>3, OrderTypes
  <2> QED
    BY <2>2, <2>3, <2>4 DEF ResolvedInOrder, ResolvedAt, CreatedAt
<1>2. OrderInv /\ ResolvedInOrder /\ [Next]_vars => ResolvedInOrder'
  BY InOrderStep
<1>3. OrderInv => PipelineInv
  BY DEF OrderInv
<1> QED
  BY <1>1, <1>2, <1>3, InOrderInit, OrderInvariant, PTL DEF Safety

-----------------------------------------------------------------------------
(* An undisturbed pump: no crash, no exception, and every cycle normalizes *)
(* what it resolved                                                        *)

Undisturbed == /\ MaxCrashes = 0 /\ MaxFailures = 0
               /\ LifecycleBatch <= NormalizationBatch

EarlyStages == {"down", "starting", "recovery"}
LateStages  == {"baseline", "reconciliation", "finalization", "classification", "idle"}

(***************************************************************************)
(* What a cycle resolves it normalizes before Git and finalization look.   *)
(***************************************************************************)
BacklogClears ==
    /\ stage \in EarlyStages => \A r \in Receipts : receipt[r].status \in {None, "pending"}
    /\ stage = "lifecycle" => Cardinality(Unnormalized) + Cardinality(batch) <= LifecycleBatch
    /\ stage = "normalization" => batch = Unnormalized
    /\ stage \in LateStages => Unnormalized = {}

(***************************************************************************)
(* A receipt that was given to a run is normalized, and a Stop is then an  *)
(* event of its run.                                                       *)
(***************************************************************************)
HasStopEvent(r) ==
    \E i \in StopIndices(resolution[r].run) : events[resolution[r].run][i].by = r

StopsAreEvents ==
    \A r \in Receipts :
        /\ resolution[r].outcome = "failed" => resolution[r].run = NoRun
        /\ (r \in Normalized /\ receipt[r].hook \in StopHooks /\ resolution[r].run # NoRun) =>
              HasStopEvent(r)

FinalizingWasStopped ==
    \A q \in Receipts : run[q].status = "Finalizing" => StopReceiptsOf(q) # {}

(***************************************************************************)
(* Nothing is left to normalize for a sealed run, and its trigger is still *)
(* its last Stop.                                                          *)
(***************************************************************************)
SealedAreDone ==
    \A q \in Finalized : /\ \A r \in Unnormalized : resolution[r].run # q
                         /\ finalization[q].trigger = LatestStop(q)

SteadyInv == /\ OrderInv
             /\ BacklogClears
             /\ StopsAreEvents
             /\ FinalizingWasStopped
             /\ SealedAreDone
             /\ NoSourceEventAfterSeal
             /\ VerdictAnswersLastStop

(***************************************************************************)
(* A receipt is given to an active run, or it failed; and only a Stop of   *)
(* its own takes a run to Finalizing.                                      *)
(***************************************************************************)
LEMMA ResolveGives ==
    ASSUME TypeInv, NEW r \in Receipts, Resolve(r)
    PROVE  /\ resolution'[r].outcome = "failed" => resolution'[r].run = NoRun
           /\ resolution'[r].run # NoRun => run'[resolution'[r].run].status \in Active
           /\ \A q \in Receipts :
                 run'[q].status = "Finalizing" =>
                    \/ run[q].status = "Finalizing"
                    \/ receipt[r].hook \in StopHooks /\ resolution'[r].run = q
<1>1. PICK d \in ClockSteps :
        \/ RejectReceipt(r, d) \/ StartSession(r, d) \/ StartRun(r, d) \/ JoinRun(r, d)
        \/ StopRun(r, d) \/ MissRun(r, d) \/ EndSession(r, d) \/ FailReceipt(r, d)
  BY DEF Resolve
<1>2. ASSUME NEW outcome, NEW diagnostic, NEW q, RecordResolution(r, d, outcome, diagnostic, q)
      PROVE  resolution'[r].run = q /\ resolution'[r].outcome = outcome
  BY <1>2 DEF RecordResolution, TypeInv, LifecycleTypeOK
<1>3. run \in [Receipts -> RunRow]
  BY DEF TypeInv, LifecycleTypeOK
<1>4. \A s, reason : \A q \in Receipts :
         AbandonCapturing(s, reason)[q].status = "Finalizing" => run[q].status = "Finalizing"
  BY <1>3 DEF AbandonCapturing, RunRow
<1>5. CASE RejectReceipt(r, d) \/ MissRun(r, d) \/ FailReceipt(r, d)
  BY <1>2, <1>5 DEF RejectReceipt, MissRun, FailReceipt
<1>6. CASE StartSession(r, d)
  BY <1>2, <1>6 DEF StartSession, None
<1>7. CASE EndSession(r, d)
  <2>1. resolution'[r].run = NoRun
    BY <1>2, <1>7 DEF EndSession
  <2>2. run' = run \/ run' = AbandonCapturing(SessionOf(r), "ended")
    BY <1>7 DEF EndSession
  <2> QED
    BY <1>4, <2>1, <2>2
<1>8. CASE JoinRun(r, d)
  <2>1. PICK q \in Receipts : IsLatestActive(q, SessionOf(r))
                              /\ RecordResolution(r, d, "associated", None, q)
    BY <1>8 DEF JoinRun
  <2>2. run' = run /\ run[q].status \in Active
    BY <1>8, <2>1 DEF JoinRun, IsLatestActive, ActiveRuns
  <2> QED
    BY <1>2, <2>1, <2>2
<1>9. CASE StopRun(r, d)
  <2>1. PICK q \in Receipts :
          /\ run' = TransitionToFinalizing(q, receipt[r].hook)
          /\ RecordResolution(r, d,
                 IF run[q].status = "Capturing" THEN "applied" ELSE "associated", None, q)
    BY <1>9 DEF StopRun
  <2>2. /\ run'[q].status = "Finalizing"
        /\ \A p \in Receipts \ {q} : run'[p] = run[p]
    BY <1>3, <2>1 DEF TransitionToFinalizing, RunRow
  <2>3. resolution'[r].run = q /\ resolution'[r].outcome # "failed"
    BY <1>2, <2>1
  <2> QED
    BY <1>9, <2>2, <2>3 DEF StopRun, Active
<1>10. CASE StartRun(r, d)
  <2>1. PICK n \in Receipts :
          run' = [AbandonCapturing(SessionOf(r), "superseded") EXCEPT ![r] =
                [status |-> "Capturing", session |-> SessionOf(r), number |-> n,
                 stopReason |-> None]]
    BY <1>10 DEF StartRun
  <2>2. resolution'[r].run = r /\ resolution'[r].outcome = "applied"
    BY <1>2, <1>10 DEF StartRun
  <2>3. /\ run'[r].status = "Capturing"
        /\ \A q \in Receipts \ {r} :
              run'[q] = AbandonCapturing(SessionOf(r), "superseded")[q]
    BY <2>1 DEF AbandonCapturing
  <2> QED
    BY <1>4, <2>2, <2>3 DEF Active
<1> QED
  BY <1>1, <1>5, <1>6, <1>7, <1>8, <1>9, <1>10

(***************************************************************************)
(* What an undisturbed pump does to the queue of normalization.            *)
(***************************************************************************)
Bystands == /\ UNCHANGED <<receipt, resolution, normalization>>
            /\ \/ stage = "down" /\ stage' = "starting"
               \/ stage' = stage /\ stage \in LateStages \cup {"recovery"}

LEMMA PumpSteps ==
    ASSUME PipelineInv, Undisturbed, [Next]_vars
    PROVE  \/ Bystands \/ Advance \/ UNCHANGED vars
           \/ Ingress
           \/ \E r \in batch : ResolveReceipt(r) \/ NormalizeReceipt(r)
<1>1. failures \in 0 .. 0 /\ crashes \in 0 .. 0
  BY DEF PipelineInv, TypeOK, LifecycleTypeOK, Undisturbed
<1>2. ~Crash /\ ~StageThrows
  BY <1>1 DEF Crash, StageThrows, Undisturbed
<1>3. CASE Boot
  BY <1>3 DEF Boot, Bystands, rowVars
<1>4. ASSUME NEW i \in batch,
             \/ CaptureBaseline(i) \/ ReconcileTrigger(i) \/ PreparePreflight(i)
             \/ RecoverCapturing(i) \/ ClassifyRun(i)
      PROVE  Bystands
  BY <1>4 DEF CaptureBaseline, ReconcileTrigger, PreparePreflight, RecoverCapturing,
              ClassifyRun, IsNextInBatch, Bystands, LateStages, lifecycleVars, rowVars
<1>5. ASSUME NEW i \in batch, PersistFinalization(i)
      PROVE  Bystands
  <2>1. preflight.run = i /\ i # NoRun
    BY <1>5, OrderTypes, ConstantFacts DEF PersistFinalization
  <2>2. stage \in {"finalization", "recovery"}
    BY <2>1 DEF PipelineInv, PreflightInv
  <2> QED
    BY <1>5, <2>2 DEF PersistFinalization, Bystands, LateStages
<1> QED
  BY <1>2, <1>3, <1>4, <1>5 DEF Next, Work

LEMMA FewReceipts ==
    ASSUME NEW S \in SUBSET Receipts
    PROVE  IsFiniteSet(S) /\ Cardinality(S) \in Nat
<1>1. IsFiniteSet(Receipts)
  BY LifecycleConstants, FS_Interval DEF LifecycleConstants, Receipts
<1> QED
  BY <1>1, FS_Subset, FS_CardinalityType

LEMMA BatchLimits ==
    /\ LifecycleBatch \in Nat /\ NormalizationBatch \in Nat
    /\ Limit("lifecycle") = LifecycleBatch /\ Limit("normalization") = NormalizationBatch
BY PipelineConstants DEF PipelineConstants, Limit

(***************************************************************************)
(* A listing that has room for all takes all.                              *)
(***************************************************************************)
LEMMA ListsAll ==
    ASSUME NEW s, Eligible(s) \subseteq Receipts, NEW T, IsListing(T, s),
           Cardinality(Eligible(s)) <= Limit(s), Limit(s) \in Nat
    PROVE  T = Eligible(s)
<1>1. T \subseteq Eligible(s) /\ (T = Eligible(s) \/ Cardinality(T) = Limit(s))
  BY DEF IsListing
<1>2. /\ IsFiniteSet(Eligible(s)) /\ Cardinality(Eligible(s)) \in Nat
      /\ Cardinality(T) \in Nat
  BY <1>1, FewReceipts
<1>3. Cardinality(T) <= Cardinality(Eligible(s))
      /\ (Cardinality(T) = Cardinality(Eligible(s)) => T = Eligible(s))
  BY <1>1, <1>2, FS_Subset
<1> QED
  BY <1>1, <1>2, <1>3

LEMMA FreshIsUnresolved ==
    ASSUME PipelineInv, \A r \in Receipts : receipt[r].status \in {None, "pending"}
    PROVE  Resolved = {} /\ Unnormalized = {} /\ Runs = {}
BY DEF PipelineInv, LifecycleInv, PointerInv, RunInv, UnresolvedIsBlank, Resolved,
       Unnormalized, Runs

LEMMA BacklogStep ==
    ASSUME PipelineInv, NormalizedInOrder, BacklogClears, Undisturbed, [Next]_vars
    PROVE  BacklogClears'
<1>1. /\ stage \in EarlyStages => \A r \in Receipts : receipt[r].status \in {None, "pending"}
      /\ stage = "lifecycle" => Cardinality(Unnormalized) + Cardinality(batch) <= LifecycleBatch
      /\ stage = "normalization" => batch = Unnormalized
      /\ stage \in LateStages => Unnormalized = {}
      /\ LifecycleBatch <= NormalizationBatch
  BY DEF BacklogClears, Undisturbed
<1>2. /\ Unnormalized \subseteq Receipts /\ batch \subseteq Receipts
      /\ IsFiniteSet(Unnormalized) /\ Cardinality(Unnormalized) \in Nat
      /\ IsFiniteSet(batch) /\ Cardinality(batch) \in Nat
  BY OrderTypes, FewReceipts DEF Unnormalized
<1>3. stage \in EarlyStages => Unnormalized = {}
  BY <1>1, FreshIsUnresolved
<1>4. CASE Bystands
  <2>1. Unnormalized' = Unnormalized
    BY <1>4 DEF Bystands, Unnormalized, Normalized, Resolved
  <2> QED
    BY <1>1, <1>4, <2>1 DEF Bystands, BacklogClears, EarlyStages, LateStages
<1>5. CASE Ingress
  <2>1. /\ stage \notin {"down", "lifecycle", "normalization"}
        /\ stage' = stage /\ UNCHANGED <<normalization, resolution>>
    BY <1>5 DEF Ingress, rowVars, processVars, AcceptAny, Accept
  <2>2. Unnormalized' = Unnormalized
    BY <2>1 DEF Unnormalized, Normalized, Resolved
  <2>3. PICK r \in Receipts : AcceptsOne(r)
    BY <1>5, AcceptStamps DEF Ingress, PipelineInv, LifecycleInv, PointerInv, RunInv
  <2>4. \A p \in Receipts : receipt'[p] = receipt[p] \/ receipt'[p].status = "pending"
    BY <2>3 DEF AcceptsOne
  <2> QED
    BY <1>1, <2>1, <2>2, <2>4 DEF BacklogClears, EarlyStages, LateStages
<1>6. ASSUME NEW r \in batch, ResolveReceipt(r)
      PROVE  BacklogClears'
  <2>1. /\ stage = "lifecycle" /\ stage' = stage /\ batch' = batch \ {r}
        /\ normalization' = normalization
    BY <1>6 DEF ResolveReceipt, IsNextInBatch, WorkedOff, rowVars
  <2>2. Resolved' \subseteq Resolved \cup {r}
    <3>1. TypeInv /\ OldestPending(r) /\ r \in Receipts /\ Resolve(r)
      BY <1>2, <1>6, OldestOfBatch DEF ResolveReceipt, PipelineInv, LifecycleInv, PointerInv, RunInv
    <3>2. ResolvesOne(r)
      BY <3>1, ResolveStamps
    <3> QED
      BY <3>2 DEF ResolvesOne, Resolved
  <2>3. Unnormalized' \subseteq Unnormalized \cup {r}
    BY <2>1, <2>2 DEF Unnormalized, Normalized
  <2>4. /\ IsFiniteSet(Unnormalized \cup {r})
        /\ Cardinality(Unnormalized \cup {r}) \in Nat
        /\ Cardinality(Unnormalized \cup {r}) <= Cardinality(Unnormalized) + 1
    <3>1. Unnormalized \cup {r} \subseteq Receipts
      BY <1>2
    <3> QED
      BY <1>2, <3>1, FewReceipts, FS_AddElement
  <2>5. Cardinality(Unnormalized') <= Cardinality(Unnormalized \cup {r})
    BY <2>3, <2>4, FS_Subset
  <2>6. Cardinality(batch \ {r}) = Cardinality(batch) - 1
    BY <1>2, FS_RemoveElement
  <2>7. Cardinality(Unnormalized') \in Nat
    BY <1>2, <2>3, FewReceipts
  <2>8. Cardinality(Unnormalized') + Cardinality(batch') <= LifecycleBatch
    BY <1>1, <1>2, <2>1, <2>4, <2>5, <2>6, <2>7, BatchLimits
  <2> QED
    BY <2>1, <2>8 DEF BacklogClears, EarlyStages, LateStages
<1>7. ASSUME NEW r \in batch, NormalizeReceipt(r)
      PROVE  BacklogClears'
  <2>1. /\ Normalized' = Normalized \cup {r} /\ resolution' = resolution
        /\ stage' = stage /\ stage = "normalization" /\ batch' = batch \ {r}
    BY <1>7, NormalizeLeavesQueue DEF NormalizesOne
  <2>2. Unnormalized' = Unnormalized \ {r}
    BY <2>1 DEF Unnormalized, Resolved
  <2> QED
    BY <1>1, <2>1, <2>2 DEF BacklogClears, EarlyStages, LateStages
<1>8. CASE Advance
  <2>1. PICK T \in SUBSET Eligible(NextStage[stage]) :
          /\ IsListing(T, NextStage[stage])
          /\ batch' = T
    BY <1>8 DEF Advance
  <2>2. /\ stage \in DOMAIN NextStage /\ stage' = NextStage[stage] /\ batch = {}
        /\ UNCHANGED <<receipt, resolution, normalization>>
    BY <1>8 DEF Advance, lifecycleVars, rowVars
  <2>3. Unnormalized' = Unnormalized
    BY <2>2 DEF Unnormalized, Normalized, Resolved
  <2>4. \/ stage = "starting" /\ stage' = "recovery"
        \/ stage \in {"recovery", "idle"} /\ stage' = "lifecycle"
        \/ stage = "lifecycle" /\ stage' = "normalization"
        \/ stage \in {"normalization"} \cup LateStages /\ stage' \in LateStages
    BY <2>2 DEF NextStage, LateStages
  <2>5. CASE stage = "starting"
    BY <1>1, <2>2, <2>4, <2>5 DEF BacklogClears, EarlyStages, LateStages
  <2>6. CASE stage \in {"recovery", "idle"} /\ stage' = "lifecycle"
    <3>1. Unnormalized = {} /\ Cardinality(Unnormalized) = 0
      BY <1>1, <1>3, <2>6, FS_EmptySet DEF EarlyStages, LateStages
    <3>2. Cardinality(T) <= LifecycleBatch /\ T \subseteq Receipts
      BY <2>1, <2>2, <2>6, BatchLimits, OrderTypes DEF IsListing, Eligible
    <3>3. Cardinality(T) \in Nat
      BY <3>2, FewReceipts
    <3> QED
      BY <2>1, <2>3, <2>6, <3>1, <3>2, <3>3 DEF BacklogClears, EarlyStages, LateStages
  <2>7. CASE stage = "lifecycle" /\ stage' = "normalization"
    <3>1. Cardinality(batch) = 0
      BY <2>2, FS_EmptySet
    <3>2. Cardinality(Unnormalized) <= NormalizationBatch
      BY <1>1, <1>2, <2>7, <3>1, BatchLimits
    <3>3. Eligible("normalization") = Unnormalized
      BY DEF Eligible, Unnormalized, Normalized, Resolved
    <3>4. T = Unnormalized
      BY <1>2, <2>1, <2>2, <2>7, <3>2, <3>3, BatchLimits, ListsAll
    <3> QED
      BY <2>1, <2>3, <2>7, <3>4 DEF BacklogClears, EarlyStages, LateStages
  <2>8. CASE stage \in {"normalization"} \cup LateStages /\ stage' \in LateStages
    BY <1>1, <2>2, <2>3, <2>8 DEF BacklogClears, EarlyStages, LateStages
  <2> QED
    BY <2>4, <2>5, <2>6, <2>7, <2>8
<1>9. CASE UNCHANGED vars
  <2>1. UNCHANGED <<receipt, resolution, normalization, stage, batch>>
    BY <1>9 DEF vars, lifecycleVars, rowVars, processVars
  <2>2. Unnormalized' = Unnormalized
    BY <2>1 DEF Unnormalized, Normalized, Resolved
  <2> QED
    BY <1>1, <2>1, <2>2 DEF BacklogClears
<1> QED
  BY <1>4, <1>5, <1>6, <1>7, <1>8, <1>9, PumpSteps

(***************************************************************************)
(* An undisturbed pump seals in the finalization stage only.               *)
(***************************************************************************)
LEMMA NewlySealed ==
    ASSUME PipelineInv, BacklogClears, Undisturbed, [Next]_vars,
           NEW q \in Receipts, finalization[q].status = None, finalization'[q].status # None
    PROVE  q \in batch /\ PersistFinalization(q) /\ stage = "finalization"
<1>1. finalization \in [Receipts -> FinalizationRow] /\ batch \subseteq Receipts
  BY DEF PipelineInv, TypeOK
<1>2. stage = "recovery" => batch = {}
  <2>1. stage = "recovery" => Runs = {}
    BY FreshIsUnresolved DEF BacklogClears, EarlyStages
  <2> QED
    BY <2>1 DEF PipelineInv, BatchIsStale, StaleRuns
<1>3. ~(Boot \/ Advance \/ Ingress \/ Crash \/ StageThrows \/ UNCHANGED vars)
  BY DEF Boot, Advance, Ingress, Crash, StageThrows, vars, rowVars
<1>4. ASSUME NEW i \in batch, PersistFinalization(i)
      PROVE  i = q /\ stage = "finalization"
  <2>1. preflight.run = i /\ i # NoRun
    BY <1>1, <1>4, ConstantFacts DEF PersistFinalization
  <2>2. stage \in {"finalization", "recovery"}
    BY <2>1 DEF PipelineInv, PreflightInv
  <2>3. \A p \in Receipts \ {i} : finalization'[p] = finalization[p]
    BY <1>1, <1>4 DEF PersistFinalization, Seal
  <2> QED
    BY <1>2, <1>4, <2>2, <2>3
<1>5. ASSUME NEW i \in batch,
             \/ ResolveReceipt(i) \/ NormalizeReceipt(i) \/ CaptureBaseline(i)
             \/ ReconcileTrigger(i) \/ PreparePreflight(i) \/ ClassifyRun(i)
      PROVE  FALSE
  <2>1. finalization' = finalization
    BY <1>5 DEF ResolveReceipt, NormalizeReceipt, CaptureBaseline, ReconcileTrigger,
                PreparePreflight, ClassifyRun, rowVars
  <2> QED
    BY <2>1
<1>6. ASSUME NEW i \in batch, RecoverCapturing(i) PROVE FALSE
  BY <1>2, <1>6 DEF RecoverCapturing, IsNextInBatch
<1>7. [Next]_vars
  OBVIOUS
<1> QED
  BY <1>3, <1>4, <1>5, <1>6, <1>7 DEF Next, Work

LEMMA VerdictAsWritten ==
    ASSUME TypeOK, NEW q \in batch, PersistFinalization(q), stage = "finalization"
    PROVE  /\ finalization'[q].mode = "normal"
           /\ finalization'[q].trigger = preflight.trigger
           /\ finalization'[q].diagnostic = NormalDiagnostic(q)
           /\ finalization'[q].status = Verdict(NormalDiagnostic(q))
           /\ run'[q].status = Verdict(NormalDiagnostic(q))
           /\ preflight.trigger = LatestStop(q)
           /\ \A p \in Receipts \ {q} : finalization'[p] = finalization[p]
<1>1. /\ finalization \in [Receipts -> FinalizationRow] /\ q \in Receipts
      /\ run \in [Receipts -> RunRow]
  BY DEF TypeOK, LifecycleTypeOK
<1> DEFINE row == [status |-> Verdict(NormalDiagnostic(q)), mode |-> "normal",
                   diagnostic |-> NormalDiagnostic(q), trigger |-> preflight.trigger,
                   reconciled |-> preflight.reconciled, manifest |-> preflight.manifest,
                   finalizedAt |-> Now]
<1>2. /\ finalization' = [finalization EXCEPT ![q] = row]
      /\ run' = [run EXCEPT ![q].status = row.status]
      /\ preflight.trigger = LatestStop(q)
  BY DEF PersistFinalization, Seal, TransitionToTerminal
<1>3. /\ row.mode = "normal" /\ row.trigger = preflight.trigger
      /\ row.diagnostic = NormalDiagnostic(q)
      /\ row.status = Verdict(NormalDiagnostic(q))
  OBVIOUS
<1> HIDE DEF row
<1> QED
  BY <1>1, <1>2, <1>3 DEF RunRow

(***************************************************************************)
(* Stops                                                                   *)
(***************************************************************************)
LEMMA NormalizedStopIsEvent ==
    ASSUME PipelineInv, Undisturbed, NEW r \in batch, NormalizeReceipt(r),
           resolution[r].outcome = "failed" => resolution[r].run = NoRun,
           receipt[r].hook \in StopHooks, resolution[r].run # NoRun
    PROVE  HasStopEvent(r)'
<1> DEFINE q == resolution[r].run
           types == EventsOfHook[receipt[r].hook]
<1>1. /\ r \in Receipts /\ EventsTyped /\ failures \in 0 .. 0
      /\ resolution[r] \in ResolutionRow
  BY DEF PipelineInv, TypeOK, LifecycleTypeOK, EventsTyped, Undisturbed
<1>2. q \in Receipts /\ resolution' = resolution
  BY <1>1 DEF ResolutionRow, NormalizeReceipt
<1>3. events' = AppendEvents(q, types, r)
  BY <1>1 DEF NormalizeReceipt, Undisturbed
<1>4. types \in Seq(EventTypes) /\ Len(types) > 0 /\ types[1] \in StopEvents
  <2>1. CASE receipt[r].hook = "Stop"
    <3>1. types = <<"run.stop_observed", "run.finalization_started">>
      BY <2>1 DEF EventsOfHook, HookNames
    <3> QED
      BY <3>1 DEF EventTypes, StopEvents
  <2>2. CASE receipt[r].hook = "StopFailure"
    <3>1. types = <<"run.stop_failed", "run.finalization_started">>
      BY <2>2 DEF EventsOfHook, HookNames
    <3> QED
      BY <3>1 DEF EventTypes, StopEvents
  <2> QED
    BY <2>1, <2>2 DEF StopHooks
<1> HIDE DEF types
<1>5. /\ events' \in [Receipts -> Seq(EventRow)]
      /\ Len(events'[q]) = Len(events[q]) + Len(types)
  BY <1>1, <1>2, <1>3, <1>4, AppendedEvents DEF EventsTyped
<1>6. NewAre(q, types, r)
  BY <1>1, <1>2, <1>3, <1>4, AppendedEvents DEF EventsTyped
<1> DEFINE i == Len(events[q]) + 1
<1>7. i \in NewIndices(q)
  BY <1>1, <1>2, <1>4, <1>5 DEF NewIndices, EventsTyped
<1>8. PICK k \in 1 .. Len(types) : i = Len(events[q]) + k /\ events'[q][i] = Event(types[k], r)
  BY <1>2, <1>6, <1>7 DEF NewAre
<1>9. k = 1
  BY <1>1, <1>2, <1>8 DEF EventsTyped
<1>10. i \in DOMAIN events'[q] /\ events'[q][i].type \in StopEvents /\ events'[q][i].by = r
  BY <1>4, <1>7, <1>8, <1>9 DEF NewIndices, Event
<1> QED
  BY <1>2, <1>10 DEF HasStopEvent, StopIndices

LEMMA StopsAreEventsStep ==
    ASSUME OrderInv, StopsAreEvents, Undisturbed, [Next]_vars
    PROVE  StopsAreEvents'
<1>1. /\ PipelineInv /\ TypeInv /\ LifecycleInv /\ Normalized \subseteq Resolved
      /\ [LifecycleNext]_lifecycleVars \/ SideStep
      /\ \A p \in Receipts : Grows(p)
  BY LifecycleSteps, RowEffect
     DEF OrderInv, NormalizedInOrder, PipelineInv, LifecycleInv, PointerInv, RunInv, EvidenceAdded
<1> SUFFICES ASSUME NEW r \in Receipts
             PROVE  /\ resolution'[r].outcome = "failed" => resolution'[r].run = NoRun
                    /\ (r \in Normalized' /\ receipt'[r].hook \in StopHooks
                           /\ resolution'[r].run # NoRun) => HasStopEvent(r)'
  BY DEF StopsAreEvents
<1>2. resolution'[r].outcome = "failed" => resolution'[r].run = NoRun
  <2>1. CASE Resolve(r)
    BY <1>1, <2>1, ResolveGives
  <2>2. CASE ~Resolve(r)
    BY <1>1, <2>2, RowsAreKept DEF StopsAreEvents
  <2> QED
    BY <2>1, <2>2
<1>3. ASSUME r \in Resolved
      PROVE  resolution'[r] = resolution[r] /\ receipt'[r].hook = receipt[r].hook
  <2>1. receipt[r].status # None
    BY <1>1, <1>3, OrderTypes
  <2> QED
    BY <1>1, <1>3, <2>1, ResolvedStep, RowsAreKept
<1>4. ASSUME r \in Normalized, receipt'[r].hook \in StopHooks, resolution'[r].run # NoRun
      PROVE  HasStopEvent(r)'
  <2>1. r \in Resolved /\ resolution'[r] = resolution[r] /\ receipt'[r].hook = receipt[r].hook
    BY <1>1, <1>3, <1>4
  <2>2. HasStopEvent(r) /\ resolution[r].run \in Receipts
    BY <1>1, <1>4, <2>1 DEF StopsAreEvents, PipelineInv, TypeOK, LifecycleTypeOK, ResolutionRow
  <2>3. Grows(resolution[r].run)
    BY <1>1, <2>2
  <2> QED
    BY <2>1, <2>2, <2>3 DEF HasStopEvent, StopIndices, Grows
<1>5. ASSUME r \in Normalized', r \notin Normalized, receipt'[r].hook \in StopHooks,
             resolution'[r].run # NoRun
      PROVE  HasStopEvent(r)'
  <2>1. PICK i \in batch : NormalizeReceipt(i)
    BY <1>1, <1>5, NormalizationSteps DEF Normalized
  <2>2. i = r
    BY <1>1, <1>5, <2>1, NormalizeLeavesQueue DEF NormalizesOne
  <2>3. receipt' = receipt /\ resolution' = resolution
    BY <2>1 DEF NormalizeReceipt
  <2> QED
    BY <1>1, <1>5, <2>1, <2>2, <2>3, NormalizedStopIsEvent DEF StopsAreEvents
<1> QED
  BY <1>2, <1>4, <1>5

LEMMA FinalizingWasStoppedStep ==
    ASSUME PipelineInv, FinalizingWasStopped, [Next]_vars
    PROVE  FinalizingWasStopped'
<1>1. /\ TypeInv /\ LifecycleInv
      /\ [LifecycleNext]_lifecycleVars \/ SideStep
  BY LifecycleSteps DEF PipelineInv, LifecycleInv, PointerInv, RunInv
<1>2. \A r \in Resolved : /\ r \in Resolved' /\ resolution'[r] = resolution[r]
                          /\ receipt'[r].hook = receipt[r].hook
  BY <1>1, ResolvedStep, OrderTypes, RowsAreKept
<1> SUFFICES ASSUME NEW q \in Receipts, run'[q].status = "Finalizing"
             PROVE  StopReceiptsOf(q)' # {}
  BY DEF FinalizingWasStopped
<1>3. CASE run[q].status = "Finalizing"
  <2>1. PICK r \in Resolved : receipt[r].hook \in StopHooks /\ resolution[r].run = q
    BY <1>3 DEF FinalizingWasStopped, StopReceiptsOf
  <2> QED
    BY <1>2, <2>1 DEF StopReceiptsOf
<1>4. CASE run[q].status # "Finalizing"
  <2>1. ~(AcceptAny \/ SideStep \/ UNCHANGED lifecycleVars)
    BY <1>4 DEF AcceptAny, Accept, SideStep, lifecycleVars
  <2>2. ~SealRun
    <3>1. ASSUME NEW p \in Receipts, NEW v \in Terminal, run' = [run EXCEPT ![p].status = v]
          PROVE  FALSE
      BY <1>1, <1>4, <3>1 DEF TypeInv, LifecycleTypeOK, RunRow, Terminal
    <3> QED
      BY <3>1 DEF SealRun, TransitionToTerminal, Terminal
  <2>3. PICK r \in Receipts : OldestPending(r) /\ Resolve(r)
    BY <1>1, <2>1, <2>2 DEF LifecycleNext, ResolveOldest
  <2>4. receipt[r].hook \in StopHooks /\ resolution'[r].run = q
    BY <1>1, <1>4, <2>3, ResolveGives
  <2>5. ResolvesOne(r) /\ receipt'[r].hook = receipt[r].hook
    BY <1>1, <2>3, ResolveStamps, RowsAreKept DEF Resolve, None
  <2> QED
    BY <2>4, <2>5 DEF ResolvesOne, StopReceiptsOf, Resolved
<1> QED
  BY <1>3, <1>4

(***************************************************************************)
(* No receipt is given to a run with a verdict, and none of its own waits  *)
(* to be normalized.                                                       *)
(***************************************************************************)
LEMMA FinalizedRuns ==
    ASSUME PipelineInv, NEW q \in Finalized
    PROVE  q \in Receipts /\ finalization[q].status # None /\ run[q].status \in Terminal
BY DEF PipelineInv, SealInv, Unsealed, SealedAs, Finalized, Runs

LEMMA FinalizedStep ==
    ASSUME PipelineInv, [Next]_vars, NEW q \in Finalized'
    PROVE  /\ q \in Receipts /\ finalization'[q].status # None
           /\ finalization[q].status = None \/ q \in Finalized
BY DEF Finalized, Runs, PipelineInv, SealInv, Unsealed, SealedAs, Terminal, None

LEMMA NoneGivenLate ==
    ASSUME PipelineInv, [Next]_vars, NEW q \in Finalized, NEW r \in Receipts,
           resolution'[r].run = q
    PROVE  resolution'[r] = resolution[r]
<1>1. /\ TypeInv /\ LifecycleInv
      /\ [LifecycleNext]_lifecycleVars \/ SideStep
      /\ q \in Receipts /\ q # NoRun /\ run[q].status \in Terminal
  BY LifecycleSteps, FinalizedRuns, ConstantFacts
     DEF PipelineInv, LifecycleInv, PointerInv, RunInv
<1>2. run'[q].status \notin Active
  BY <1>1, SettledStay DEF Terminal, Active
<1>3. ~Resolve(r)
  BY <1>1, <1>2, ResolveGives
<1> QED
  BY <1>1, <1>3, RowsAreKept

LEMMA SealsStay ==
    ASSUME PipelineInv, [Next]_vars, NEW q \in Receipts, finalization[q].status # None
    PROVE  finalization'[q] = finalization[q] /\ TerminalIndices(q)' = TerminalIndices(q)
<1>1. /\ finalization \in [Receipts -> FinalizationRow]
      /\ SealsNothing \/ SealsOne
  BY RowEffect DEF PipelineInv, TypeOK
<1>2. ASSUME NEW p \in Receipts, NEW row, SealsAs(p, row)
      PROVE  finalization'[q] = finalization[q] /\ TerminalIndices(q)' = TerminalIndices(q)
  BY <1>1, <1>2 DEF SealsAs
<1> QED
  BY <1>1, <1>2 DEF SealsNothing, SealsOne

LEMMA SealedAreDoneStep ==
    ASSUME OrderInv, BacklogClears, SealedAreDone, Undisturbed, [Next]_vars
    PROVE  SealedAreDone'
<1>1. /\ PipelineInv /\ NormalizedInOrder /\ EvidenceAdded /\ TypeOK
      /\ events \in [Receipts -> Seq(EventRow)]
      /\ \A p \in Receipts : Grows(p)
  BY RowEffect DEF OrderInv, PipelineInv, EvidenceAdded, TypeOK
<1> SUFFICES ASSUME NEW q \in Finalized'
             PROVE  /\ \A r \in Unnormalized' : resolution'[r].run # q
                    /\ finalization'[q].trigger = LatestStop(q)'
  BY DEF SealedAreDone
<1>2. q \in Receipts /\ (finalization[q].status = None \/ q \in Finalized)
  BY <1>1, FinalizedStep
<1>3. CASE q \in Finalized
  <2>1. /\ \A r \in Unnormalized : resolution[r].run # q
        /\ finalization[q].trigger = LatestStop(q)
        /\ finalization[q].status # None
    BY <1>1, <1>3, FinalizedRuns DEF SealedAreDone
  <2>2. \A i \in NewIndices(q) : events'[q][i].type \notin SourceNames
    <3>1. ASSUME NEW r, IsSourceOf(r, q) PROVE FALSE
      <4>1. r \in batch /\ stage = "normalization" /\ resolution[r].run = q
        BY <3>1 DEF IsSourceOf, NormalizeReceipt, IsNextInBatch
      <4> QED
        BY <1>1, <2>1, <4>1 DEF NormalizedInOrder
    <3> QED
      BY <1>1, <1>2, <3>1 DEF EvidenceAdded
  <2>3. LatestStop(q)' = LatestStop(q)
    <3>1. \A i \in NewIndices(q) : events'[q][i].type \notin StopEvents
      BY <2>2 DEF SourceNames
    <3> QED
      BY <1>1, <1>2, <3>1, QuietStops
  <2>4. finalization'[q] = finalization[q]
    BY <1>1, <1>2, <2>1, SealsStay
  <2>5. ASSUME NEW r \in Unnormalized', resolution'[r].run = q
        PROVE  FALSE
    <3>1. r \in Receipts /\ resolution'[r] = resolution[r]
      BY <1>1, <1>3, <2>5, NoneGivenLate DEF Unnormalized, Resolved
    <3>2. r \in Resolved /\ r \notin Normalized
      BY <1>1, <2>5, <3>1, NormalizedStay DEF Unnormalized, Resolved
    <3> QED
      BY <2>1, <2>5, <3>1, <3>2 DEF Unnormalized
  <2> QED
    BY <2>1, <2>3, <2>4, <2>5
<1>4. CASE finalization[q].status = None
  <2>1. q \in batch /\ PersistFinalization(q) /\ stage = "finalization"
    BY <1>1, <1>2, <1>4, NewlySealed, FinalizedStep
  <2>2. finalization'[q].trigger = LatestStop(q)
    BY <1>1, <2>1, VerdictAsWritten
  <2>3. Unnormalized' = {}
    <3>1. UNCHANGED <<resolution, normalization>>
      BY <2>1 DEF PersistFinalization
    <3>2. Unnormalized = {}
      BY <2>1 DEF BacklogClears, LateStages
    <3> QED
      BY <3>1, <3>2 DEF Unnormalized, Resolved, Normalized
  <2>4. \A i \in NewIndices(q) : events'[q][i].type \notin StopEvents
    <3>1. PICK row : SealsAs(q, row)
      BY <1>1, <2>1, PersistSeals
    <3> QED
      BY <1>2, <3>1 DEF SealsAs, SourceNames
  <2> QED
    BY <1>1, <1>2, <2>2, <2>3, <2>4, QuietStops
<1> QED
  BY <1>2, <1>3, <1>4

LEMMA NoSourceAfterSealStep ==
    ASSUME OrderInv, BacklogClears, SealedAreDone, NoSourceEventAfterSeal, Undisturbed,
           [Next]_vars
    PROVE  NoSourceEventAfterSeal'
<1>1. /\ PipelineInv /\ NormalizedInOrder /\ EvidenceAdded /\ TypeOK
      /\ \A p \in Receipts : Grows(p)
  BY RowEffect DEF OrderInv, PipelineInv, EvidenceAdded
<1> SUFFICES ASSUME NEW q \in Finalized', NEW i \in TerminalIndices(q)',
                    NEW j \in DOMAIN events'[q], i < j, IsSourceEvent(events'[q][j])
             PROVE  FALSE
  BY DEF NoSourceEventAfterSeal
<1>2. q \in Receipts /\ (finalization[q].status = None \/ q \in Finalized)
  BY <1>1, FinalizedStep
<1>3. events'[q][j].type \in SourceNames /\ i \in DOMAIN events'[q]
  BY SourceEventNames DEF TerminalIndices
<1>4. CASE q \in Finalized
  <2>1. /\ finalization[q].status # None
        /\ \A r \in Unnormalized : resolution[r].run # q
    BY <1>1, <1>4, FinalizedRuns DEF SealedAreDone
  <2>2. TerminalIndices(q)' = TerminalIndices(q)
    BY <1>1, <1>2, <2>1, SealsStay
  <2>3. ASSUME NEW r, IsSourceOf(r, q) PROVE FALSE
    <3>1. r \in batch /\ stage = "normalization" /\ resolution[r].run = q
      BY <2>3 DEF IsSourceOf, NormalizeReceipt, IsNextInBatch
    <3> QED
      BY <1>1, <2>1, <3>1 DEF NormalizedInOrder
  <2>4. j \in DOMAIN events[q]
    BY <1>1, <1>2, <1>3, <2>3 DEF EvidenceAdded, NewIndices
  <2>5. events'[q][j] = events[q][j]
    BY <1>1, <1>2, <2>4 DEF Grows
  <2> QED
    BY <1>4, <2>2, <2>4, <2>5 DEF NoSourceEventAfterSeal
<1>5. CASE finalization[q].status = None
  <2>1. q \in batch /\ PersistFinalization(q)
    BY <1>1, <1>2, <1>5, NewlySealed, FinalizedStep
  <2>2. PICK row : SealsAs(q, row)
    BY <1>1, <2>1, PersistSeals
  <2>3. TerminalIndices(q) = {}
    BY <1>1, <1>2, <1>5 DEF PipelineInv, SealInv, Unsealed, SealedAs, Terminal, None
  <2>4. i \notin DOMAIN events[q]
    <3>1. events'[q][i].type \in {TerminalEvent[v] : v \in Terminal}
      BY DEF TerminalIndices
    <3>2. i \in DOMAIN events[q] => events'[q][i] = events[q][i]
      BY <1>1, <1>2 DEF Grows
    <3> QED
      BY <2>3, <3>1, <3>2 DEF TerminalIndices
  <2>5. j \notin DOMAIN events[q]
    <3>1. events[q] \in Seq(EventRow) /\ events'[q] \in Seq(EventRow)
      BY <1>1, <1>2 DEF TypeOK, EvidenceAdded, EventsTyped
    <3> QED
      BY <1>3, <2>4, <3>1
  <2> QED
    BY <1>2, <1>3, <2>2, <2>5 DEF SealsAs, NewIndices
<1> QED
  BY <1>2, <1>4, <1>5

(***************************************************************************)
(* The last Stop event of a run that finalization has in hand is the one   *)
(* of the Stop that was resolved last.                                     *)
(***************************************************************************)
LEMMA LastStopDecides ==
    ASSUME OrderInv, StopsAreEvents, FinalizingWasStopped, NEW q \in Receipts,
           Unnormalized = {}, run[q].status = "Finalizing"
    PROVE  /\ LatestStop(q) \in StopReceiptsOf(q)
           /\ \A r \in StopReceiptsOf(q) : ResolvedAt(r) <= ResolvedAt(LatestStop(q))
<1>1. /\ events[q] \in Seq(EventRow) /\ q # NoRun
      /\ StopEventsHaveReceipts /\ SourcesInOrder /\ Normalized \subseteq Resolved
  BY ConstantFacts DEF OrderInv, PipelineInv, TypeOK, NormalizedInOrder
<1>2. ASSUME NEW r \in StopReceiptsOf(q)
      PROVE  \E i \in StopIndices(q) : events[q][i].by = r
  <2>1. /\ r \in Receipts /\ r \in Resolved /\ receipt[r].hook \in StopHooks
        /\ resolution[r].run = q
    BY DEF StopReceiptsOf, Resolved
  <2>2. r \in Normalized
    BY <2>1 DEF Unnormalized
  <2> QED
    BY <1>1, <2>1, <2>2 DEF StopsAreEvents, HasStopEvent
<1>3. StopIndices(q) # {}
  BY <1>2 DEF FinalizingWasStopped
<1> DEFINE m == Max(StopIndices(q))
<1>4. m \in StopIndices(q) /\ LatestStop(q) = events[q][m].by
  BY <1>1, <1>3, LatestStopIndex DEF LatestStop
<1>5. \A i \in StopIndices(q) : i <= m
  <2>1. StopIndices(q) \in SUBSET (1 .. Len(events[q])) /\ Len(events[q]) \in Nat
    BY <1>1 DEF StopIndices
  <2> QED
    BY <1>3, <2>1, LastIndex
<1> HIDE DEF m
<1>6. StopIndices(q) \subseteq SourceIndices(q)
  BY DEF StopIndices, SourceIndices, SourceNames
<1>7. LatestStop(q) \in StopReceiptsOf(q)
  <2>1. IsStopOf(LatestStop(q), q)
    BY <1>1, <1>4 DEF StopEventsHaveReceipts
  <2>2. LatestStop(q) \in Resolved
    BY <1>1, <1>4, <1>6 DEF SourcesInOrder
  <2> QED
    BY <2>1, <2>2 DEF IsStopOf, StopReceiptsOf
<1>8. ASSUME NEW r \in StopReceiptsOf(q)
      PROVE  ResolvedAt(r) <= ResolvedAt(LatestStop(q))
  <2>1. PICK i \in StopIndices(q) : events[q][i].by = r
    BY <1>2
  <2>2. i = m \/ i < m
    <3>1. i \in Nat /\ m \in Nat /\ i <= m
      BY <1>1, <1>4, <1>5 DEF StopIndices
    <3> QED
      BY <3>1
  <2>3. CASE i = m
    <3>1. r = LatestStop(q) /\ ResolvedAt(r) \in Nat
      BY <1>4, <2>1, <2>3, OrderTypes DEF StopReceiptsOf, OrderInv
    <3> QED
      BY <3>1
  <2>4. CASE i < m
    BY <1>1, <1>4, <1>6, <2>1, <2>4 DEF SourcesInOrder
  <2> QED
    BY <2>2, <2>3, <2>4
<1> QED
  BY <1>7, <1>8

LEMMA VerdictStep ==
    ASSUME OrderInv, BacklogClears, StopsAreEvents, FinalizingWasStopped,
           VerdictAnswersLastStop, Undisturbed, [Next]_vars
    PROVE  VerdictAnswersLastStop'
<1>1. /\ PipelineInv /\ TypeOK /\ LifecycleInv
      /\ [LifecycleNext]_lifecycleVars \/ SideStep
  BY LifecycleSteps DEF OrderInv, PipelineInv
<1>2. \A r \in Resolved : /\ r \in Resolved' /\ resolution'[r] = resolution[r]
                          /\ receipt'[r].hook = receipt[r].hook
  BY <1>1, ResolvedStep, OrderTypes, RowsAreKept
<1> SUFFICES ASSUME NEW q \in Finalized', finalization'[q].mode = "normal"
             PROVE  LET t == finalization'[q].trigger IN
                    /\ t \in StopReceiptsOf(q)'
                    /\ \A r \in StopReceiptsOf(q)' :
                          resolution'[r].resolvedAt <= resolution'[t].resolvedAt
                    /\ run'[q].status = "Failed" <=> receipt'[t].hook = "StopFailure"
  BY DEF VerdictAnswersLastStop
<1> DEFINE t == finalization'[q].trigger
<1>3. q \in Receipts /\ (finalization[q].status = None \/ q \in Finalized)
  BY <1>1, FinalizedStep
<1>4. CASE q \in Finalized
  <2>1. finalization'[q] = finalization[q]
    BY <1>1, <1>4, FinalizedRuns, SealsStay
  <2>2. run'[q] = run[q]
    BY <1>1, <1>4, FinalizedRuns, SettledStay
  <2>3. /\ t \in StopReceiptsOf(q)
        /\ \A r \in StopReceiptsOf(q) : resolution[r].resolvedAt <= resolution[t].resolvedAt
        /\ run[q].status = "Failed" <=> receipt[t].hook = "StopFailure"
    BY <1>4, <2>1 DEF VerdictAnswersLastStop
  <2>4. t \in StopReceiptsOf(q)'
    BY <1>2, <2>3 DEF StopReceiptsOf
  <2>5. ASSUME NEW r \in StopReceiptsOf(q)' PROVE r \in StopReceiptsOf(q)
    <3>1. r \in Receipts /\ resolution'[r] = resolution[r]
      BY <1>1, <1>4, <2>5, NoneGivenLate DEF StopReceiptsOf, Resolved
    <3>2. r \in Resolved
      BY <2>5, <3>1 DEF StopReceiptsOf, Resolved
    <3> QED
      BY <1>2, <2>5, <3>1, <3>2 DEF StopReceiptsOf
  <2> QED
    BY <1>2, <2>2, <2>3, <2>4, <2>5 DEF StopReceiptsOf
<1>5. CASE finalization[q].status = None
  <2>1. q \in batch /\ PersistFinalization(q) /\ stage = "finalization"
    BY <1>1, <1>3, <1>5, NewlySealed, FinalizedStep
  <2>2. /\ t = LatestStop(q)
        /\ preflight.trigger = LatestStop(q)
        /\ run'[q].status = Verdict(NormalDiagnostic(q))
    BY <1>1, <2>1, VerdictAsWritten
  <2>3. run[q].status = "Finalizing" /\ Unnormalized = {}
    BY <1>1, <2>1, PersistSeals DEF BacklogClears, LateStages
  <2>4. /\ t \in StopReceiptsOf(q)
        /\ \A r \in StopReceiptsOf(q) : ResolvedAt(r) <= ResolvedAt(t)
    BY <1>3, <2>2, <2>3, LastStopDecides
  <2>5. UNCHANGED <<receipt, resolution>>
    BY <2>1 DEF PersistFinalization
  <2>6. run'[q].status = "Failed" <=> receipt[t].hook = "StopFailure"
    <3>1. t # NoReceipt
      BY <2>4, ConstantFacts DEF StopReceiptsOf, Resolved, NoReceipt, NoRun
    <3>2. NormalDiagnostic(q) = "source_stop_failure" <=> receipt[t].hook = "StopFailure"
      BY <2>2, <3>1 DEF NormalDiagnostic, None
    <3> QED
      BY <2>2, <3>2 DEF Verdict, None
  <2>7. StopReceiptsOf(q)' = StopReceiptsOf(q)
    BY <2>5 DEF StopReceiptsOf, Resolved
  <2> QED
    BY <2>4, <2>5, <2>6, <2>7 DEF ResolvedAt
<1> QED
  BY <1>3, <1>4, <1>5

LEMMA SteadyInit == Init => SteadyInv
<1> SUFFICES ASSUME Init PROVE SteadyInv
  OBVIOUS
<1>1. /\ stage = "down"
      /\ \A r \in Receipts : /\ receipt[r].status = None /\ run[r].status = None
                             /\ normalization[r] = None /\ resolution[r].outcome = None
  BY DEF Init, LifecycleInit
<1>2. Finalized = {} /\ Normalized = {}
  BY <1>1 DEF Finalized, Runs, Normalized
<1>3. BacklogClears
  BY <1>1 DEF BacklogClears, EarlyStages, LateStages
<1>4. StopsAreEvents /\ FinalizingWasStopped
  BY <1>1, <1>2 DEF StopsAreEvents, FinalizingWasStopped, None
<1> QED
  BY <1>2, <1>3, <1>4, OrderInit
     DEF SteadyInv, SealedAreDone, NoSourceEventAfterSeal, VerdictAnswersLastStop

LEMMA SteadyStep ==
    ASSUME Undisturbed
    PROVE  SteadyInv /\ [Next]_vars => SteadyInv'
<1> SUFFICES ASSUME SteadyInv, [Next]_vars PROVE SteadyInv'
  OBVIOUS
<1>1. /\ OrderInv /\ PipelineInv /\ NormalizedInOrder /\ BacklogClears /\ StopsAreEvents
      /\ FinalizingWasStopped /\ SealedAreDone /\ NoSourceEventAfterSeal
      /\ VerdictAnswersLastStop
  BY DEF SteadyInv, OrderInv
<1>2. OrderInv' /\ BacklogClears'
  BY <1>1, OrderStep, BacklogStep
<1>3. StopsAreEvents' /\ FinalizingWasStopped'
  BY <1>1, StopsAreEventsStep, FinalizingWasStoppedStep
<1>4. SealedAreDone' /\ NoSourceEventAfterSeal' /\ VerdictAnswersLastStop'
  BY <1>1, SealedAreDoneStep, NoSourceAfterSealStep, VerdictStep
<1> QED
  BY <1>2, <1>3, <1>4 DEF SteadyInv

LEMMA SteadyInvariant == ASSUME Undisturbed PROVE Safety => []SteadyInv
<1>1. SteadyInv /\ [Next]_vars => SteadyInv'
  BY SteadyStep
<1> QED
  BY <1>1, SteadyInit, PTL DEF Safety

(***************************************************************************)
(* While the daemon neither crashes nor meets an exception, and a cycle    *)
(* normalizes at least what it resolves (both batches are 100 in the       *)
(* code), a verdict is the answer to the Stop that was resolved last: by   *)
(* the time finalization lists a run, every Stop given to it is an event,  *)
(* and none is given to it afterwards.                                     *)
(***************************************************************************)
THEOREM VerdictsAnswerTheLastStop ==
    ASSUME Undisturbed
    PROVE  Safety => []VerdictAnswersLastStop
<1>1. SteadyInv => VerdictAnswersLastStop
  BY DEF SteadyInv
<1> QED
  BY <1>1, SteadyInvariant, PTL

(***************************************************************************)
(* Under the same conditions no source event follows the terminal event of *)
(* a run.                                                                  *)
(***************************************************************************)
THEOREM NothingFollowsTheVerdict ==
    ASSUME Undisturbed
    PROVE  Safety => []NoSourceEventAfterSeal
<1>1. SteadyInv => NoSourceEventAfterSeal
  BY DEF SteadyInv
<1> QED
  BY <1>1, SteadyInvariant, PTL

-----------------------------------------------------------------------------
(* Every finalization can be read back                                     *)

(***************************************************************************)
(* A cycle reconciles every trigger there is.                              *)
(***************************************************************************)
TriggersFit == Cardinality(PendingTriggers) <= ReconciliationBatch

(***************************************************************************)
(* No gap reaches a run behind its verdict: its baseline is not taken      *)
(* twice and no trigger of it is left to reconcile.                        *)
(***************************************************************************)
NothingIsLate ==
    /\ stage = "baseline" => \A q \in batch : baseline[q] = None
    /\ stage = "reconciliation" => batch = PendingTriggers
    /\ stage = "finalization" => PendingTriggers = {}
    /\ \A q \in Finalized : \A r \in PendingTriggers : resolution[r].run # q

GapsTellVerdicts ==
    \A q \in Finalized : /\ finalization[q].status = "Completed" => baseline[q] # None
                         /\ finalization[q].status = "Completed" <=> gaps[q] = 0

LEMMA ReconciliationWrites ==
    ASSUME TypeOK, NEW r \in Receipts, NEW observed \in BOOLEAN, PersistReconciliation(r, observed)
    PROVE  /\ reconciliation'[r] # None
           /\ \A p \in Receipts \ {r} : reconciliation'[p] = reconciliation[p]
           /\ \A q \in Receipts : q # resolution[r].run => gaps'[q] = gaps[q]
<1>1. reconciliation \in [Receipts -> Outcomes] /\ gaps \in [Receipts -> Nat]
  BY DEF TypeOK
<1>2. PICK o \in {"captured", "partial"} : reconciliation' = [reconciliation EXCEPT ![r] = o]
  BY DEF PersistReconciliation
<1>3. \A q \in Receipts : q # resolution[r].run => gaps'[q] = gaps[q]
  BY <1>1 DEF PersistReconciliation
<1> QED
  BY <1>1, <1>2, <1>3 DEF None

LEMMA LatestStopIsOfRun ==
    ASSUME PipelineInv, NEW q \in Receipts, LatestStop(q) # NoReceipt
    PROVE  IsStopOf(LatestStop(q), q)
<1>1. StopIndices(q) # {} /\ LatestStop(q) = events[q][Max(StopIndices(q))].by
  BY DEF LatestStop
<1>2. Max(StopIndices(q)) \in StopIndices(q)
  BY <1>1, LatestStopIndex DEF PipelineInv, TypeOK
<1> QED
  BY <1>1, <1>2 DEF PipelineInv, StopEventsHaveReceipts

LEMMA ReconciliationsStay ==
    ASSUME PipelineInv, [Next]_vars, NEW p \in Receipts, reconciliation[p] # None
    PROVE  reconciliation'[p] # None
<1>1. TypeOK /\ batch \subseteq Receipts
  BY DEF PipelineInv, TypeOK
<1>2. ASSUME NEW r \in Receipts, NEW observed \in BOOLEAN, PersistReconciliation(r, observed)
      PROVE  reconciliation'[p] # None
  BY <1>1, <1>2, ReconciliationWrites
<1>3. ASSUME NEW i \in batch, ReconcileTrigger(i) PROVE reconciliation'[p] # None
  BY <1>1, <1>2, <1>3 DEF ReconcileTrigger
<1>4. ASSUME NEW i \in batch, PreparePreflight(i) PROVE reconciliation'[p] # None
  <2>1. CASE reconciliation' = reconciliation
    BY <2>1
  <2>2. CASE /\ LatestStop(i) # NoReceipt
             /\ \E observed \in BOOLEAN : PersistReconciliation(LatestStop(i), observed)
    BY <1>1, <1>2, <2>2, LatestStopIsOfRun DEF IsStopOf
  <2> QED
    BY <1>4, <2>1, <2>2 DEF PreparePreflight
<1>5. ASSUME NEW i \in batch,
             \/ ResolveReceipt(i) \/ NormalizeReceipt(i) \/ CaptureBaseline(i)
             \/ PersistFinalization(i) \/ RecoverCapturing(i) \/ ClassifyRun(i)
      PROVE  reconciliation'[p] # None
  BY <1>5 DEF ResolveReceipt, NormalizeReceipt, CaptureBaseline, PersistFinalization,
              RecoverCapturing, ClassifyRun, rowVars
<1>6. CASE Boot \/ Advance \/ Ingress \/ Crash \/ StageThrows \/ UNCHANGED vars
  BY <1>6 DEF Boot, Advance, Ingress, Crash, StageThrows, vars, rowVars
<1> QED
  BY <1>3, <1>4, <1>5, <1>6 DEF Next, Work

(***************************************************************************)
(* A trigger joins those to be reconciled when it is normalized.           *)
(***************************************************************************)
LEMMA TriggersStep ==
    ASSUME PipelineInv, NormalizedInOrder, [Next]_vars,
           NEW r \in PendingTriggers', r \notin PendingTriggers
    PROVE  \E i \in batch : NormalizeReceipt(i) /\ i = r /\ r \in Unnormalized
<1>1. /\ r \in Receipts /\ r \in Normalized' /\ reconciliation[r] = None
      /\ normalization'[r] = "normalized" /\ receipt'[r].hook \in TriggerHooks
  BY ReconciliationsStay DEF PendingTriggers, Normalized, None
<1>2. /\ [LifecycleNext]_lifecycleVars \/ SideStep
      /\ LifecycleInv
  BY LifecycleSteps DEF PipelineInv
<1>3. CASE r \in Normalized
  <2>1. r \in Resolved
    BY <1>3 DEF NormalizedInOrder
  <2>2. receipt'[r].hook = receipt[r].hook
    BY <1>1, <1>2, <2>1, OrderTypes, RowsAreKept
  <2>3. normalization[r] # "normalized"
    BY <1>1, <2>2 DEF PendingTriggers
  <2>4. PICK i \in batch : NormalizeReceipt(i)
    BY <1>1, <2>3, NormalizationSteps
  <2>5. i \in Unnormalized /\ i = r
    <3>1. i \in Unnormalized
      BY <2>4 DEF NormalizeReceipt, IsNextInBatch, NormalizedInOrder
    <3>2. \A p \in Receipts \ {i} : normalization'[p] = normalization[p]
      BY <2>4 DEF NormalizeReceipt, PipelineInv, TypeOK
    <3> QED
      BY <1>1, <2>3, <3>1, <3>2
  <2> QED
    BY <2>4, <2>5
<1>4. CASE r \notin Normalized
  <2>1. PICK i \in batch : NormalizeReceipt(i)
    BY <1>1, <1>4, NormalizationSteps DEF Normalized
  <2>2. i = r
    BY <1>1, <1>4, <2>1, NormalizeLeavesQueue DEF NormalizesOne
  <2>3. i \in Unnormalized
    BY <2>1 DEF NormalizeReceipt, IsNextInBatch, NormalizedInOrder
  <2> QED
    BY <2>1, <2>2, <2>3
<1> QED
  BY <1>3, <1>4

LEMMA TriggersKept ==
    ASSUME PipelineInv, NormalizedInOrder, [Next]_vars, UNCHANGED <<normalization, reconciliation>>
    PROVE  PendingTriggers' = PendingTriggers
<1>1. /\ [LifecycleNext]_lifecycleVars \/ SideStep
      /\ LifecycleInv
  BY LifecycleSteps DEF PipelineInv
<1>2. ASSUME NEW r \in Receipts, normalization[r] = "normalized"
      PROVE  receipt'[r].hook = receipt[r].hook
  <2>1. r \in Resolved
    BY <1>2 DEF NormalizedInOrder, Normalized, None
  <2> QED
    BY <1>1, <2>1, OrderTypes, RowsAreKept
<1> QED
  BY <1>2 DEF PendingTriggers

(***************************************************************************)
(* While Git is asked, nothing else but ingress moves.                     *)
(***************************************************************************)
LEMMA GitStages ==
    ASSUME PipelineInv, Undisturbed, [Next]_vars, stage \in {"baseline", "reconciliation"},
           stage' = stage
    PROVE  \/ UNCHANGED <<normalization, baseline, reconciliation, batch>>
           \/ \E i \in batch : CaptureBaseline(i) \/ ReconcileTrigger(i)
<1>1. failures \in 0 .. 0 /\ crashes \in 0 .. 0 /\ batch \subseteq Receipts
  BY DEF PipelineInv, TypeOK, LifecycleTypeOK, Undisturbed
<1>2. ~Crash /\ ~StageThrows /\ ~Boot
  BY <1>1 DEF Crash, StageThrows, Undisturbed, Boot
<1>3. ~Advance
  BY DEF Advance, NextStage
<1>4. CASE Ingress \/ UNCHANGED vars
  BY <1>4 DEF Ingress, vars, rowVars, processVars
<1>5. ASSUME NEW i \in batch,
             \/ ResolveReceipt(i) \/ NormalizeReceipt(i) \/ PreparePreflight(i)
             \/ RecoverCapturing(i) \/ ClassifyRun(i)
      PROVE  FALSE
  BY <1>5 DEF ResolveReceipt, NormalizeReceipt, PreparePreflight, RecoverCapturing, ClassifyRun,
              IsNextInBatch
<1>6. ASSUME NEW i \in batch, PersistFinalization(i) PROVE FALSE
  <2>1. preflight.run = i /\ i # NoRun
    BY <1>1, <1>6, ConstantFacts DEF PersistFinalization
  <2> QED
    BY <2>1 DEF PipelineInv, PreflightInv
<1> QED
  BY <1>2, <1>3, <1>4, <1>5, <1>6 DEF Next, Work

LEMMA StageMoves ==
    ASSUME PipelineInv, Undisturbed, [Next]_vars, stage' # stage
    PROVE  stage' = "starting" \/ Advance
<1>1. CASE Ingress \/ UNCHANGED vars
  BY <1>1 DEF Ingress, vars, processVars
<1>2. ASSUME NEW r \in batch, ResolveReceipt(r) \/ NormalizeReceipt(r) PROVE FALSE
  BY <1>2 DEF ResolveReceipt, NormalizeReceipt
<1> QED
  BY <1>1, <1>2, PumpSteps DEF Bystands

LEMMA NothingIsLateStep ==
    ASSUME SteadyInv, NothingIsLate, TriggersFit, Undisturbed, [Next]_vars
    PROVE  NothingIsLate'
<1>1. /\ PipelineInv /\ NormalizedInOrder /\ BacklogClears /\ SealedAreDone /\ TypeOK
      /\ baseline \in [Receipts -> Outcomes] /\ batch \subseteq Receipts
      /\ PendingTriggers \subseteq Receipts
  BY DEF SteadyInv, OrderInv, PipelineInv, TypeOK, PendingTriggers
<1>2. ASSUME stage' = "baseline" PROVE \A q \in batch' : baseline'[q] = None
  <2>1. CASE stage = "baseline"
    <3>1. ASSUME NEW i \in batch, CaptureBaseline(i)
          PROVE  \A q \in batch' : baseline'[q] = None
      <4>1. batch' = batch \ {i} /\ \A q \in Receipts \ {i} : baseline'[q] = baseline[q]
        BY <1>1, <3>1 DEF CaptureBaseline, WorkedOff
      <4> QED
        BY <1>1, <2>1, <4>1 DEF NothingIsLate
    <3>2. ASSUME NEW i \in batch, ReconcileTrigger(i) PROVE FALSE
      BY <2>1, <3>2 DEF ReconcileTrigger, IsNextInBatch
    <3> QED
      BY <1>1, <1>2, <2>1, <3>1, <3>2, GitStages DEF NothingIsLate
  <2>2. CASE stage # "baseline"
    <3>1. Advance
      BY <1>1, <1>2, <2>2, StageMoves
    <3>2. batch' \subseteq Eligible("baseline") /\ baseline' = baseline
      BY <1>2, <3>1 DEF Advance, IsListing, rowVars
    <3> QED
      BY <3>2 DEF Eligible
  <2> QED
    BY <2>1, <2>2
<1>3. ASSUME stage' = "reconciliation" PROVE batch' = PendingTriggers'
  <2>1. CASE stage = "reconciliation"
    <3>1. batch = PendingTriggers
      BY <2>1 DEF NothingIsLate
    <3>2. ASSUME NEW i \in batch, ReconcileTrigger(i) PROVE batch' = PendingTriggers'
      <4>1. /\ batch' = batch \ {i} /\ UNCHANGED <<receipt, normalization>>
            /\ \E observed \in BOOLEAN : PersistReconciliation(i, observed)
        BY <3>2 DEF ReconcileTrigger, WorkedOff, lifecycleVars
      <4>2. /\ reconciliation'[i] # None
            /\ \A p \in Receipts \ {i} : reconciliation'[p] = reconciliation[p]
        BY <1>1, <4>1, ReconciliationWrites
      <4> QED
        BY <1>1, <3>1, <4>1, <4>2 DEF PendingTriggers
    <3>3. ASSUME NEW i \in batch, CaptureBaseline(i) PROVE FALSE
      BY <2>1, <3>3 DEF CaptureBaseline, IsNextInBatch
    <3> QED
      BY <1>1, <1>3, <2>1, <3>1, <3>2, <3>3, GitStages, TriggersKept
  <2>2. CASE stage # "reconciliation"
    <3>1. Advance
      BY <1>1, <1>3, <2>2, StageMoves
    <3>2. IsListing(batch', "reconciliation") /\ UNCHANGED <<normalization, reconciliation>>
      BY <1>3, <3>1 DEF Advance, rowVars
    <3>3. /\ Eligible("reconciliation") = PendingTriggers
          /\ Limit("reconciliation") = ReconciliationBatch /\ ReconciliationBatch \in Nat
      BY PipelineConstants DEF Eligible, Limit, PipelineConstants
    <3>4. batch' = PendingTriggers
      BY <1>1, <3>2, <3>3, ListsAll DEF TriggersFit
    <3> QED
      BY <1>1, <3>2, <3>4, TriggersKept
  <2> QED
    BY <2>1, <2>2
<1>4. ASSUME stage' = "finalization" PROVE PendingTriggers' = {}
  <2>1. CASE stage = "finalization"
    <3>1. PendingTriggers = {}
      BY <2>1 DEF NothingIsLate
    <3>2. ASSUME NEW i \in batch, NormalizeReceipt(i) PROVE FALSE
      BY <2>1, <3>2 DEF NormalizeReceipt, IsNextInBatch
    <3> QED
      BY <1>1, <3>1, <3>2, TriggersStep
  <2>2. CASE stage # "finalization"
    <3>1. Advance
      BY <1>1, <1>4, <2>2, StageMoves
    <3>2. stage = "reconciliation" /\ batch = {} /\ UNCHANGED <<normalization, reconciliation>>
      BY <1>4, <3>1 DEF Advance, NextStage, rowVars
    <3> QED
      BY <1>1, <3>2, TriggersKept DEF NothingIsLate
  <2> QED
    BY <2>1, <2>2
<1>5. ASSUME NEW q \in Finalized', NEW r \in PendingTriggers', resolution'[r].run = q
      PROVE  FALSE
  <2>1. q \in Receipts /\ (finalization[q].status = None \/ q \in Finalized)
    BY <1>1, FinalizedStep
  <2>2. CASE q \in Finalized
    <3>1. r \in Receipts /\ resolution[r].run = q
      BY <1>1, <1>5, <2>2, NoneGivenLate DEF PendingTriggers
    <3>2. r \notin PendingTriggers /\ r \notin Unnormalized
      BY <2>2, <3>1, <1>1 DEF NothingIsLate, SealedAreDone
    <3> QED
      BY <1>1, <3>2, TriggersStep
  <2>3. CASE finalization[q].status = None
    <3>1. q \in batch /\ PersistFinalization(q) /\ stage = "finalization"
      BY <1>1, <2>1, <2>3, NewlySealed, FinalizedStep
    <3>2. stage' = "finalization"
      BY <3>1 DEF PersistFinalization
    <3> QED
      BY <1>4, <3>2
  <2> QED
    BY <2>1, <2>2, <2>3
<1> QED
  BY <1>2, <1>3, <1>4, <1>5 DEF NothingIsLate

(***************************************************************************)
(* Behind its verdict a run that was found whole gets no gap.              *)
(***************************************************************************)
LEMMA WholeStaysWhole ==
    ASSUME SteadyInv, NothingIsLate, [Next]_vars, NEW q \in Finalized, baseline[q] # None
    PROVE  gaps'[q] = gaps[q] /\ baseline'[q] # None
<1>1. /\ PipelineInv /\ TypeOK /\ batch \subseteq Receipts
      /\ baseline \in [Receipts -> Outcomes] /\ gaps \in [Receipts -> Nat]
      /\ q \in Receipts /\ finalization[q].status # None /\ run[q].status \in Terminal
      /\ run \in [Receipts -> RunRow]
  BY FinalizedRuns DEF SteadyInv, OrderInv, PipelineInv, TypeOK, LifecycleTypeOK
<1>2. ASSUME NEW i \in batch, CaptureBaseline(i) PROVE gaps'[q] = gaps[q] /\ baseline'[q] # None
  <2>1. i # q
    BY <1>2 DEF CaptureBaseline, IsNextInBatch, NothingIsLate
  <2>2. PICK observed \in BOOLEAN :
          /\ baseline' = [baseline EXCEPT ![i] = IF observed THEN "captured" ELSE "partial"]
          /\ gaps' = [gaps EXCEPT ![i] = IF observed THEN @ ELSE @ + 1]
    BY <1>2 DEF CaptureBaseline
  <2> QED
    BY <1>1, <2>1, <2>2
<1>3. ASSUME NEW i \in batch, ReconcileTrigger(i) PROVE gaps'[q] = gaps[q] /\ baseline'[q] # None
  <2>1. i \in PendingTriggers /\ resolution[i].run # q
    BY <1>3 DEF ReconcileTrigger, IsNextInBatch, NothingIsLate
  <2>2. baseline' = baseline /\ \E observed \in BOOLEAN : PersistReconciliation(i, observed)
    BY <1>3 DEF ReconcileTrigger
  <2> QED
    BY <1>1, <2>1, <2>2, ReconciliationWrites
<1>4. ASSUME NEW i \in batch, PreparePreflight(i) PROVE gaps'[q] = gaps[q] /\ baseline'[q] # None
  <2>1. i # q /\ baseline' = baseline
    BY <1>1, <1>4 DEF PreparePreflight, Terminal
  <2>2. CASE gaps' = gaps
    BY <2>1, <2>2
  <2>3. CASE /\ LatestStop(i) # NoReceipt
             /\ \E observed \in BOOLEAN : PersistReconciliation(LatestStop(i), observed)
    <3>1. LatestStop(i) \in Receipts /\ resolution[LatestStop(i)].run = i
      BY <1>1, <2>3, LatestStopIsOfRun DEF IsStopOf
    <3> QED
      BY <1>1, <2>1, <2>3, <3>1, ReconciliationWrites
  <2> QED
    BY <1>4, <2>2, <2>3 DEF PreparePreflight
<1>5. ASSUME NEW i \in batch, PersistFinalization(i) \/ RecoverCapturing(i)
      PROVE  gaps'[q] = gaps[q] /\ baseline'[q] # None
  <2>1. PICK expected, row, types : Seal(i, expected, row, types) /\ expected \in Active
    BY <1>5 DEF PersistFinalization, RecoverCapturing, Active
  <2>2. i # q
    BY <1>1, <2>1 DEF Seal, TransitionToTerminal, Active, Terminal
  <2> QED
    BY <1>1, <1>5, <2>1, <2>2 DEF Seal, PersistFinalization, RecoverCapturing
<1>6. ASSUME NEW i \in batch, ResolveReceipt(i) \/ NormalizeReceipt(i) \/ ClassifyRun(i)
      PROVE  gaps'[q] = gaps[q] /\ baseline'[q] # None
  BY <1>6 DEF ResolveReceipt, NormalizeReceipt, ClassifyRun, rowVars
<1>7. CASE Boot \/ Advance \/ Ingress \/ Crash \/ StageThrows \/ UNCHANGED vars
  BY <1>7 DEF Boot, Advance, Ingress, Crash, StageThrows, vars, rowVars
<1> QED
  BY <1>2, <1>3, <1>4, <1>5, <1>6, <1>7 DEF Next, Work

LEMMA GapsTellVerdictsStep ==
    ASSUME SteadyInv, NothingIsLate, GapsTellVerdicts, Undisturbed, [Next]_vars
    PROVE  GapsTellVerdicts'
<1>1. /\ PipelineInv /\ TypeOK /\ BacklogClears
      /\ gaps \in [Receipts -> Nat] /\ gaps' \in [Receipts -> Nat]
      /\ \A p \in Receipts : gaps'[p] >= gaps[p]
  BY RowEffect DEF SteadyInv, OrderInv, PipelineInv, TypeOK, EvidenceAdded
<1> SUFFICES ASSUME NEW q \in Finalized'
             PROVE  /\ finalization'[q].status = "Completed" => baseline'[q] # None
                    /\ finalization'[q].status = "Completed" <=> gaps'[q] = 0
  BY DEF GapsTellVerdicts
<1>2. q \in Receipts /\ (finalization[q].status = None \/ q \in Finalized)
  BY <1>1, FinalizedStep
<1>3. CASE q \in Finalized
  <2>1. finalization'[q] = finalization[q]
    BY <1>1, <1>2, <1>3, FinalizedRuns, SealsStay
  <2>2. CASE finalization[q].status = "Completed"
    BY <1>3, <2>1, <2>2, WholeStaysWhole DEF GapsTellVerdicts
  <2>3. CASE finalization[q].status # "Completed"
    <3>1. gaps[q] \in Nat /\ gaps[q] # 0 /\ gaps'[q] \in Nat /\ gaps'[q] >= gaps[q]
      BY <1>1, <1>2, <1>3, <2>3 DEF GapsTellVerdicts
    <3>2. gaps'[q] # 0
      BY <3>1
    <3> QED
      BY <2>1, <2>3, <3>2
  <2> QED
    BY <2>2, <2>3
<1>4. CASE finalization[q].status = None
  <2>1. q \in batch /\ PersistFinalization(q) /\ stage = "finalization"
    BY <1>1, <1>2, <1>4, NewlySealed, FinalizedStep
  <2> DEFINE diagnostic == NormalDiagnostic(q)
  <2>2. finalization'[q].status = Verdict(diagnostic)
    BY <1>1, <2>1, VerdictAsWritten
  <2>3. /\ gaps'[q] = IF diagnostic # None /\ gaps[q] = 0 THEN 1 ELSE gaps[q]
        /\ baseline' = baseline
    BY <1>1, <1>2, <2>1 DEF PersistFinalization, Seal
  <2>4. Verdict(diagnostic) = "Completed" <=> diagnostic = None
    BY DEF Verdict, None
  <2>5. diagnostic = None => baseline[q] # None /\ ~(gaps[q] > 0)
    BY DEF NormalDiagnostic, None
  <2> HIDE DEF diagnostic
  <2>6. gaps[q] \in Nat
    BY <1>1, <1>2
  <2>7. CASE diagnostic = None
    BY <2>2, <2>3, <2>4, <2>5, <2>6, <2>7
  <2>8. CASE diagnostic # None
    BY <2>2, <2>3, <2>4, <2>6, <2>8
  <2> QED
    BY <2>7, <2>8
<1> QED
  BY <1>2, <1>3, <1>4

LEMMA ReadableInit == Init => NothingIsLate /\ GapsTellVerdicts
<1> SUFFICES ASSUME Init PROVE NothingIsLate /\ GapsTellVerdicts
  OBVIOUS
<1>1. stage = "down" /\ \A q \in Receipts : run[q].status = None
  BY DEF Init, LifecycleInit
<1>2. Finalized = {}
  BY <1>1 DEF Finalized, Runs
<1> QED
  BY <1>1, <1>2 DEF NothingIsLate, GapsTellVerdicts

(***************************************************************************)
(* While the daemon neither crashes nor meets an exception, and every      *)
(* cycle has room for what it resolved and for all triggers (25 at a time  *)
(* in the code), no finalization is ever found corrupt: no gap and no Stop *)
(* arrives behind a verdict.                                               *)
(***************************************************************************)
THEOREM FinalizationsStayReadable ==
    ASSUME Undisturbed
    PROVE  Safety /\ []TriggersFit => []FinalizationsReadable
<1>1. SteadyInv /\ NothingIsLate /\ GapsTellVerdicts => FinalizationsReadable
  <2> SUFFICES ASSUME SteadyInv, GapsTellVerdicts, NEW q \in Finalized PROVE Readable(q)
    BY DEF FinalizationsReadable
  <2>1. PipelineInv /\ SealedAreDone
    BY DEF SteadyInv, OrderInv
  <2>2. SealedAs(q)
    BY <2>1, FinalizedRuns DEF PipelineInv, SealInv, Unsealed
  <2> QED
    BY <2>1, <2>2 DEF SealedAs, SealedAreDone, GapsTellVerdicts, Readable
<1>2. /\ SteadyInv /\ NothingIsLate /\ GapsTellVerdicts /\ TriggersFit /\ [Next]_vars
      => NothingIsLate' /\ GapsTellVerdicts'
  BY NothingIsLateStep, GapsTellVerdictsStep
<1>3. Safety => []SteadyInv
  BY SteadyInvariant
<1> QED
  BY <1>1, <1>2, <1>3, ReadableInit, PTL DEF Safety

=============================================================================
