---------------------------- MODULE LifecycleProofs ----------------------------
(***************************************************************************)
(* Proofs about the lifecycle processor, for any number of receipts,       *)
(* sessions, workspaces and failures.                                      *)
(***************************************************************************)
EXTENDS Lifecycle, TLAPS

(***************************************************************************)
(* The journal row of an accepted receipt is filled in.                    *)
(***************************************************************************)
AcceptedIsFilled ==
    \A r \in Receipts : receipt[r].status # None =>
        receipt[r].session \in Sessions /\ receipt[r].workspace \in Workspaces

(***************************************************************************)
(* A receipt that is not worked off has no resolution and started no run.  *)
(***************************************************************************)
UnresolvedIsBlank ==
    \A r \in Receipts : receipt[r].status \in {None, "pending"} =>
        /\ resolution[r].outcome = None
        /\ resolution[r].run = NoRun
        /\ run[r].status = None

TypeInv == LifecycleTypeOK /\ AcceptedIsFilled

LEMMA ConstantFacts ==
    /\ Receipts \subseteq Nat \ {0}
    /\ NoRun \notin Receipts
    /\ None \notin Sessions /\ None \notin Workspaces
    /\ Hooks \subseteq HookNames
    /\ ClockSteps \subseteq Nat
    /\ Delay \in [Receipts -> Nat]
    /\ IdOrders \subseteq [Receipts -> Receipts]
    /\ MaxFailures \in Nat
BY LifecycleConstants DEF LifecycleConstants, Receipts, NoRun

LEMMA TypeInit == LifecycleInit => TypeInv
BY ConstantFacts
   DEF LifecycleInit, TypeInv, LifecycleTypeOK, AcceptedIsFilled, ReceiptRow, ResolutionRow,
       ConversationRow, RunRow, NoRun, None

-----------------------------------------------------------------------------
(* What the parts of a transaction preserve *)

LEMMA RecordResolutionType ==
    ASSUME TypeInv, NEW r \in Receipts, NEW d \in Nat,
           NEW outcome \in {"applied", "associated", "failed"},
           NEW diagnostic \in Diagnostics \cup {None}, NEW q \in Receipts \cup {NoRun},
           receipt[r].status = "pending",
           RecordResolution(r, d, outcome, diagnostic, q)
    PROVE  /\ receipt' \in [Receipts -> ReceiptRow]
           /\ resolution' \in [Receipts -> ResolutionRow]
           /\ idRank' \in [Receipts -> Receipts]
           /\ createdClock' \in Nat
           /\ resolvedClock' \in Nat
           /\ AcceptedIsFilled'
<1> DEFINE status == IF outcome = "failed" THEN "failed" ELSE "processed"
<1>1. /\ receipt' = [receipt EXCEPT ![r].status = status]
      /\ status \in {"processed", "failed"}
  BY DEF RecordResolution
<1> HIDE DEF status
<1>2. /\ receipt' \in [Receipts -> ReceiptRow]
      /\ AcceptedIsFilled'
  BY <1>1 DEF TypeInv, LifecycleTypeOK, AcceptedIsFilled, ReceiptRow, None
<1>3. resolution' \in [Receipts -> ResolutionRow]
  <2>1. resolution' = [resolution EXCEPT ![r] =
            [outcome |-> outcome, diagnostic |-> diagnostic, run |-> q,
             resolvedAt |-> resolvedClock + d]]
    BY DEF RecordResolution
  <2>2. resolvedClock + d \in Nat
    BY DEF TypeInv, LifecycleTypeOK
  <2> QED
    BY <2>1, <2>2 DEF TypeInv, LifecycleTypeOK, ResolutionRow
<1>4. /\ idRank' = idRank
      /\ createdClock' = createdClock
      /\ resolvedClock' = resolvedClock + d
  BY DEF RecordResolution
<1> QED
  BY <1>2, <1>3, <1>4 DEF TypeInv, LifecycleTypeOK

LEMMA ObserveConversationType ==
    ASSUME TypeInv, NEW r \in Receipts, NEW status \in {"Active", "Ended"},
           receipt[r].status = "pending",
           ObserveConversation(r, status)
    PROVE  conversation' \in [Sessions -> ConversationRow]
<1>1. /\ SessionOf(r) \in Sessions
      /\ receipt[r].workspace \in Workspaces
      /\ receipt[r].receivedAt \in Nat
  BY DEF TypeInv, LifecycleTypeOK, AcceptedIsFilled, SessionOf, ReceiptRow, None
<1>2. conversation[SessionOf(r)].lastObserved \in Nat
  BY <1>1 DEF TypeInv, LifecycleTypeOK, ConversationRow
<1> QED
  BY <1>1, <1>2 DEF TypeInv, LifecycleTypeOK, ObserveConversation, ConversationRow

LEMMA RowUpdateType ==
    ASSUME NEW row \in RunRow, NEW status \in RunStatus,
           NEW reason \in {None, "stop", "error", "superseded", "ended"}
    PROVE  /\ [row EXCEPT !.status = status] \in RunRow
           /\ [row EXCEPT !.status = status, !.stopReason = reason] \in RunRow
BY DEF RunRow

LEMMA AbandonType ==
    ASSUME LifecycleTypeOK, NEW s, NEW reason \in {"superseded", "ended"}
    PROVE  AbandonCapturing(s, reason) \in [Receipts -> RunRow]
<1>1. ASSUME NEW q \in Receipts
      PROVE  /\ run[q] \in RunRow
             /\ [run[q] EXCEPT !.status = "Abandoned", !.stopReason = reason] \in RunRow
  BY RowUpdateType DEF LifecycleTypeOK, RunStatus, Terminal
<1> QED
  BY <1>1 DEF AbandonCapturing

LEMMA FinalizingType ==
    ASSUME LifecycleTypeOK, NEW q \in Receipts, NEW hook \in StopHooks
    PROVE  TransitionToFinalizing(q, hook) \in [Receipts -> RunRow]
<1> DEFINE reason == IF hook = "StopFailure" THEN "error"
                     ELSE IF run[q].stopReason = None THEN "stop" ELSE run[q].stopReason
<1>1. run[q] \in RunRow
  BY DEF LifecycleTypeOK
<1>2. reason \in {None, "stop", "error", "superseded", "ended"}
  BY <1>1 DEF RunRow
<1>3. [run[q] EXCEPT !.status = "Finalizing", !.stopReason = reason] \in RunRow
  BY <1>1, <1>2, RowUpdateType DEF RunStatus, Active
<1>4. TransitionToFinalizing(q, hook) =
          [run EXCEPT ![q] = [run[q] EXCEPT !.status = "Finalizing", !.stopReason = reason]]
  BY DEF TransitionToFinalizing, LifecycleTypeOK
<1> QED
  BY <1>3, <1>4 DEF LifecycleTypeOK

-----------------------------------------------------------------------------
(* Type correctness *)

LEMMA AcceptType ==
    ASSUME TypeInv, NEW r \in Receipts, NEW s \in Sessions, NEW w \in Workspaces,
           NEW h \in Hooks, NEW d \in ClockSteps, Accept(r, s, w, h, d)
    PROVE  TypeInv'
<1> DEFINE row == [session |-> s, workspace |-> w, hook |-> h,
                   receivedAt |-> StampedAt(r, createdClock + d),
                   createdAt |-> createdClock + d, status |-> "pending"]
<1>1. createdClock + d \in Nat
  BY ConstantFacts DEF TypeInv, LifecycleTypeOK
<1>2. StampedAt(r, createdClock + d) \in Nat
  BY <1>1, ConstantFacts DEF StampedAt
<1>3. row \in ReceiptRow
  BY <1>1, <1>2, ConstantFacts DEF ReceiptRow
<1>4. /\ receipt' = [receipt EXCEPT ![r] = row]
      /\ createdClock' = createdClock + d
      /\ UNCHANGED <<resolution, conversation, run, idRank, resolvedClock, failures>>
  BY DEF Accept
<1>5. row.session \in Sessions /\ row.workspace \in Workspaces
  OBVIOUS
<1> HIDE DEF row
<1>6. LifecycleTypeOK'
  BY <1>1, <1>3, <1>4 DEF TypeInv, LifecycleTypeOK
<1>7. AcceptedIsFilled'
  BY <1>4, <1>5 DEF TypeInv, LifecycleTypeOK, AcceptedIsFilled
<1> QED
  BY <1>6, <1>7 DEF TypeInv

LEMMA ResolveType ==
    ASSUME TypeInv, NEW r \in Receipts, Resolve(r)
    PROVE  TypeInv'
<1>1. receipt[r].status = "pending"
  BY DEF Resolve
<1>2. PICK d \in ClockSteps :
        \/ RejectReceipt(r, d) \/ StartSession(r, d) \/ StartRun(r, d) \/ JoinRun(r, d)
        \/ StopRun(r, d) \/ MissRun(r, d) \/ EndSession(r, d) \/ FailReceipt(r, d)
  BY DEF Resolve
<1>3. d \in Nat
  BY ConstantFacts
<1>4. ASSUME NEW outcome \in {"applied", "associated", "failed"},
             NEW diagnostic \in Diagnostics \cup {None}, NEW q \in Receipts \cup {NoRun},
             RecordResolution(r, d, outcome, diagnostic, q),
             conversation' \in [Sessions -> ConversationRow],
             run' \in [Receipts -> RunRow],
             failures' \in 0 .. MaxFailures
      PROVE  TypeInv'
  BY <1>1, <1>3, <1>4, RecordResolutionType DEF TypeInv, LifecycleTypeOK
<1>5. /\ conversation \in [Sessions -> ConversationRow]
      /\ run \in [Receipts -> RunRow]
      /\ failures \in 0 .. MaxFailures
      /\ LifecycleTypeOK
  BY DEF TypeInv, LifecycleTypeOK
<1>6. \A status \in {"Active", "Ended"} :
        ObserveConversation(r, status) => conversation' \in [Sessions -> ConversationRow]
  BY <1>1, ObserveConversationType
<1>7. CASE RejectReceipt(r, d)
  BY <1>4, <1>5, <1>7 DEF RejectReceipt, Diagnostics
<1>8. CASE StartSession(r, d)
  BY <1>4, <1>5, <1>6, <1>8 DEF StartSession
<1>9. CASE StartRun(r, d)
  <2> DEFINE s == SessionOf(r)
  <2>1. PICK n \in Receipts :
          run' = [AbandonCapturing(s, "superseded") EXCEPT ![r] =
                   [status |-> "Capturing", session |-> s, number |-> n, stopReason |-> None]]
    BY <1>9 DEF StartRun
  <2>2. s \in Sessions
    BY <1>1 DEF TypeInv, LifecycleTypeOK, AcceptedIsFilled, SessionOf, None
  <2>3. [status |-> "Capturing", session |-> s, number |-> n, stopReason |-> None] \in RunRow
    BY <2>2, ConstantFacts DEF RunRow, RunStatus, Active
  <2>4. AbandonCapturing(s, "superseded") \in [Receipts -> RunRow]
    BY <1>5, AbandonType
  <2>5. run' \in [Receipts -> RunRow]
    BY <2>1, <2>3, <2>4
  <2> QED
    BY <1>4, <1>5, <1>6, <1>9, <2>5 DEF StartRun
<1>10. CASE JoinRun(r, d)
  BY <1>4, <1>5, <1>6, <1>10 DEF JoinRun
<1>11. CASE StopRun(r, d)
  <2>1. PICK q \in Receipts :
          /\ run' = TransitionToFinalizing(q, receipt[r].hook)
          /\ RecordResolution(r, d,
                 IF run[q].status = "Capturing" THEN "applied" ELSE "associated", None, q)
    BY <1>11 DEF StopRun
  <2>2. run' \in [Receipts -> RunRow]
    BY <1>5, <1>11, <2>1, FinalizingType DEF StopRun
  <2> QED
    BY <1>4, <1>5, <1>6, <1>11, <2>1, <2>2 DEF StopRun
<1>12. CASE MissRun(r, d)
  BY <1>4, <1>5, <1>6, <1>12 DEF MissRun, Diagnostics
<1>13. CASE EndSession(r, d)
  <2>1. AbandonCapturing(SessionOf(r), "ended") \in [Receipts -> RunRow]
    BY <1>5, AbandonType
  <2> QED
    BY <1>4, <1>5, <1>6, <1>13, <2>1 DEF EndSession
<1>14. CASE FailReceipt(r, d)
  <2>1. failures' \in 0 .. MaxFailures
    BY <1>5, <1>14, ConstantFacts DEF FailReceipt
  <2> QED
    BY <1>4, <1>5, <1>14, <2>1 DEF FailReceipt, Diagnostics
<1> QED
  BY <1>2, <1>7, <1>8, <1>9, <1>10, <1>11, <1>12, <1>13, <1>14

LEMMA SealRunType ==
    ASSUME TypeInv, SealRun
    PROVE  TypeInv'
<1>1. PICK q \in Receipts, verdict \in RunStatus :
          run' = [run EXCEPT ![q].status = verdict]
  BY DEF SealRun, TransitionToTerminal, RunStatus, Terminal
<1>2. [run[q] EXCEPT !.status = verdict] \in RunRow
  BY RowUpdateType DEF TypeInv, LifecycleTypeOK, RunRow
<1>3. run' \in [Receipts -> RunRow]
  BY <1>1, <1>2 DEF TypeInv, LifecycleTypeOK
<1> QED
  BY <1>3 DEF SealRun, TypeInv, LifecycleTypeOK, AcceptedIsFilled

LEMMA TypeStep == TypeInv /\ [LifecycleNext]_lifecycleVars => TypeInv'
<1> SUFFICES ASSUME TypeInv, [LifecycleNext]_lifecycleVars PROVE TypeInv'
  OBVIOUS
<1>1. CASE AcceptAny
  BY <1>1, AcceptType DEF AcceptAny
<1>2. CASE ResolveOldest
  BY <1>2, ResolveType DEF ResolveOldest
<1>3. CASE SealRun
  BY <1>3, SealRunType
<1>4. CASE UNCHANGED lifecycleVars
  BY <1>4 DEF lifecycleVars, TypeInv, LifecycleTypeOK, AcceptedIsFilled
<1> QED
  BY <1>1, <1>2, <1>3, <1>4 DEF LifecycleNext

(***************************************************************************)
(* Every row the ingress handler, the lifecycle processor and the sealing  *)
(* of runs write stays within its table's domain, and accepted receipts    *)
(* keep their session and workspace.                                       *)
(***************************************************************************)
THEOREM LifecycleTypeCorrect == LifecycleSafety => []LifecycleTypeOK
<1>1. LifecycleSafety => []TypeInv
  BY TypeInit, TypeStep, PTL DEF LifecycleSafety
<1>2. TypeInv => LifecycleTypeOK
  BY DEF TypeInv
<1> QED
  BY <1>1, <1>2, PTL

-----------------------------------------------------------------------------
(* What a step may do to the runs *)

(***************************************************************************)
(* The runs keep their conversation and number, none starts, none starts   *)
(* capturing again and none of those settled changes.                      *)
(***************************************************************************)
KeepsCourse(q) ==
    /\ run'[q].session = run[q].session
    /\ run'[q].number = run[q].number
    /\ run'[q].status = None <=> run[q].status = None
    /\ run'[q].status = "Capturing" => run[q].status = "Capturing"
    /\ run[q].status \in Terminal => run'[q] = run[q]

Settles == \A q \in Receipts : KeepsCourse(q)

(***************************************************************************)
(* Receipt r starts the next run of its conversation, and no other run of  *)
(* the conversation captures any more.                                     *)
(***************************************************************************)
Starts(r) ==
    /\ receipt[r].status = "pending"
    /\ SessionOf(r) \in Sessions
    /\ conversation'[SessionOf(r)].status = "Active"
    /\ \A s \in Sessions \ {SessionOf(r)} : conversation'[s] = conversation[s]
    /\ run'[r].status = "Capturing"
    /\ run'[r].session = SessionOf(r)
    /\ IsNextNumber(run'[r].number, SessionOf(r))
    /\ \A q \in Receipts \ {r} :
          /\ KeepsCourse(q)
          /\ q \in RunsOf(SessionOf(r)) => run'[q].status # "Capturing"

LEMMA AbandonKeepsCourse ==
    ASSUME TypeInv, NEW s, NEW reason \in {"superseded", "ended"}, NEW q \in Receipts
    PROVE  LET row == AbandonCapturing(s, reason)[q] IN
           /\ row.session = run[q].session
           /\ row.number = run[q].number
           /\ row.status = None <=> run[q].status = None
           /\ row.status = "Capturing" => run[q].status = "Capturing"
           /\ run[q].status \in Terminal => row = run[q]
           /\ q \in RunsOf(s) => row.status # "Capturing"
<1>1. run[q] \in RunRow
  BY DEF TypeInv, LifecycleTypeOK
<1>2. CASE q \in RunsOf(s) /\ run[q].status = "Capturing"
  <2>1. AbandonCapturing(s, reason)[q] =
            [run[q] EXCEPT !.status = "Abandoned", !.stopReason = reason]
    BY <1>2 DEF AbandonCapturing
  <2> QED
    BY <1>1, <1>2, <2>1 DEF RunRow, Terminal, None
<1>3. CASE ~(q \in RunsOf(s) /\ run[q].status = "Capturing")
  <2>1. AbandonCapturing(s, reason)[q] = run[q]
    BY <1>3 DEF AbandonCapturing
  <2> QED
    BY <1>3, <2>1
<1> QED
  BY <1>2, <1>3

LEMMA StatusUpdateKeepsCourse ==
    ASSUME TypeInv, NEW p \in Receipts, NEW row,
           run[p].status \in Active,
           row.session = run[p].session, row.number = run[p].number,
           row.status \notin {None, "Capturing"},
           run' = [run EXCEPT ![p] = row]
    PROVE  Settles
<1>1. ASSUME NEW q \in Receipts PROVE KeepsCourse(q)
  <2>1. CASE q = p
    BY <2>1 DEF TypeInv, LifecycleTypeOK, KeepsCourse, Active, Terminal, None
  <2>2. CASE q # p
    BY <2>2 DEF TypeInv, LifecycleTypeOK, KeepsCourse
  <2> QED
    BY <2>1, <2>2
<1> QED
  BY <1>1 DEF Settles

LEMMA UnchangedSettles == ASSUME run' = run PROVE Settles
BY DEF Settles, KeepsCourse

LEMMA StartRunStarts ==
    ASSUME TypeInv, NEW r \in Receipts, NEW d \in ClockSteps,
           receipt[r].status = "pending", StartRun(r, d)
    PROVE  Starts(r)
<1> DEFINE s == SessionOf(r)
           abandoned == AbandonCapturing(s, "superseded")
<1>1. s \in Sessions
  BY DEF TypeInv, LifecycleTypeOK, AcceptedIsFilled, SessionOf, None
<1>2. /\ conversation'[s].status = "Active"
      /\ \A t \in Sessions \ {s} : conversation'[t] = conversation[t]
  BY <1>1 DEF StartRun, ObserveConversation, TypeInv, LifecycleTypeOK
<1>3. PICK n \in Receipts :
        /\ IsNextNumber(n, s)
        /\ run' = [abandoned EXCEPT ![r] =
                 [status |-> "Capturing", session |-> s, number |-> n, stopReason |-> None]]
  BY DEF StartRun
<1>4. DOMAIN abandoned = Receipts
  BY DEF AbandonCapturing
<1>5. run'[r] = [status |-> "Capturing", session |-> s, number |-> n, stopReason |-> None]
  BY <1>3, <1>4
<1>6. \A q \in Receipts \ {r} : run'[q] = abandoned[q]
  BY <1>3, <1>4
<1>7. ASSUME NEW q \in Receipts \ {r}
      PROVE  KeepsCourse(q) /\ (q \in RunsOf(s) => run'[q].status # "Capturing")
  BY <1>6, AbandonKeepsCourse DEF KeepsCourse
<1> QED
  BY <1>1, <1>2, <1>3, <1>5, <1>7 DEF Starts

LEMMA StopRunSettles ==
    ASSUME TypeInv, NEW r \in Receipts, NEW d \in ClockSteps, StopRun(r, d)
    PROVE  Settles
<1>1. PICK p \in Receipts : /\ IsLatestActive(p, SessionOf(r))
                            /\ run' = TransitionToFinalizing(p, receipt[r].hook)
  BY DEF StopRun
<1> DEFINE reason == IF receipt[r].hook = "StopFailure" THEN "error"
                     ELSE IF run[p].stopReason = None THEN "stop" ELSE run[p].stopReason
           row == [run[p] EXCEPT !.status = "Finalizing", !.stopReason = reason]
<1>2. run[p].status \in Active
  BY <1>1 DEF IsLatestActive, ActiveRuns
<1>3. run' = [run EXCEPT ![p] = row]
  BY <1>1 DEF TransitionToFinalizing, TypeInv, LifecycleTypeOK
<1>4. /\ row.session = run[p].session
      /\ row.number = run[p].number
      /\ row.status \notin {None, "Capturing"}
  BY DEF TypeInv, LifecycleTypeOK, RunRow, None
<1> QED
  BY <1>2, <1>3, <1>4, StatusUpdateKeepsCourse

LEMMA ResolveEffect ==
    ASSUME TypeInv, NEW r \in Receipts, Resolve(r)
    PROVE  Settles \/ Starts(r)
<1>1. receipt[r].status = "pending"
  BY DEF Resolve
<1>2. PICK d \in ClockSteps :
        \/ RejectReceipt(r, d) \/ StartSession(r, d) \/ StartRun(r, d) \/ JoinRun(r, d)
        \/ StopRun(r, d) \/ MissRun(r, d) \/ EndSession(r, d) \/ FailReceipt(r, d)
  BY DEF Resolve
<1>3. CASE StartRun(r, d)
  BY <1>1, <1>3, StartRunStarts
<1>4. CASE StopRun(r, d)
  BY <1>4, StopRunSettles
<1>5. CASE EndSession(r, d)
  <2>1. CASE run' = run
    BY <2>1, UnchangedSettles
  <2>2. CASE run' = AbandonCapturing(SessionOf(r), "ended")
    BY <2>2, AbandonKeepsCourse DEF Settles, KeepsCourse
  <2> QED
    BY <1>5, <2>1, <2>2 DEF EndSession
<1>6. CASE RejectReceipt(r, d) \/ StartSession(r, d) \/ JoinRun(r, d)
           \/ MissRun(r, d) \/ FailReceipt(r, d)
  BY <1>6, UnchangedSettles
     DEF RejectReceipt, StartSession, JoinRun, MissRun, FailReceipt
<1> QED
  BY <1>2, <1>3, <1>4, <1>5, <1>6

LEMMA SealEffect == ASSUME TypeInv, SealRun PROVE Settles
<1>1. PICK q \in Receipts, verdict \in Terminal :
        /\ run[q].status \in Active
        /\ run' = [run EXCEPT ![q].status = verdict]
  BY DEF SealRun, TransitionToTerminal, Active, Terminal
<1> DEFINE row == [run[q] EXCEPT !.status = verdict]
<1>2. run' = [run EXCEPT ![q] = row]
  BY <1>1 DEF TypeInv, LifecycleTypeOK
<1>3. /\ row.session = run[q].session
      /\ row.number = run[q].number
      /\ row.status \notin {None, "Capturing"}
  BY <1>1 DEF TypeInv, LifecycleTypeOK, RunRow, Terminal, None
<1> QED
  BY <1>1, <1>2, <1>3, StatusUpdateKeepsCourse

LEMMA StepEffect ==
    ASSUME TypeInv, [LifecycleNext]_lifecycleVars
    PROVE  Settles \/ \E r \in Receipts : Starts(r)
<1>1. CASE AcceptAny \/ UNCHANGED lifecycleVars
  BY <1>1, UnchangedSettles DEF AcceptAny, Accept, lifecycleVars
<1>2. CASE ResolveOldest
  BY <1>2, ResolveEffect DEF ResolveOldest
<1>3. CASE SealRun
  BY <1>3, SealEffect
<1> QED
  BY <1>1, <1>2, <1>3 DEF LifecycleNext

-----------------------------------------------------------------------------
(* Numbers, the capturing run and ended conversations *)

RunInv == /\ TypeInv
          /\ UnresolvedIsBlank
          /\ RunNumbersUnique
          /\ CapturesNewestRun
          /\ EndedCapturesNothing

LEMMA RunInit == LifecycleInit => RunInv
<1> SUFFICES ASSUME LifecycleInit PROVE RunInv
  OBVIOUS
<1>1. TypeInv
  BY TypeInit
<1>2. UnresolvedIsBlank
  BY DEF LifecycleInit, UnresolvedIsBlank
<1>3. \A s : RunsOf(s) = {}
  BY DEF LifecycleInit, RunsOf
<1> QED
  BY <1>1, <1>2, <1>3 DEF RunInv, RunNumbersUnique, CapturesNewestRun, EndedCapturesNothing

LEMMA NumberIsNatural == TypeInv => \A q \in Receipts : run[q].number \in Nat
BY DEF TypeInv, LifecycleTypeOK, RunRow

LEMMA SettlesKeepsRuns ==
    ASSUME Settles, NEW s
    PROVE  RunsOf(s)' = RunsOf(s)
BY DEF Settles, KeepsCourse, RunsOf

LEMMA StartsKeepsRuns ==
    ASSUME NEW r \in Receipts, Starts(r), NEW s
    PROVE  RunsOf(s)' \ {r} = RunsOf(s) \ {r}
BY DEF Starts, KeepsCourse, RunsOf

LEMMA NumbersStep ==
    ASSUME RunInv, TypeInv', Settles \/ \E r \in Receipts : Starts(r)
    PROVE  RunNumbersUnique'
<1> SUFFICES ASSUME NEW s \in Sessions, NEW q \in RunsOf(s)', NEW p \in RunsOf(s)',
                    run'[q].number = run'[p].number
             PROVE  q = p
  BY DEF RunNumbersUnique
<1>1. CASE Settles
  BY <1>1, SettlesKeepsRuns DEF Settles, KeepsCourse, RunInv, RunNumbersUnique, RunsOf
<1>2. ASSUME NEW r \in Receipts, Starts(r) PROVE q = p
  <2>1. \A o \in RunsOf(s)' \ {r} : o \in RunsOf(s) /\ run'[o].number = run[o].number
    BY <1>2, StartsKeepsRuns DEF Starts, KeepsCourse, RunsOf
  <2>2. CASE q # r /\ p # r
    BY <2>1, <2>2 DEF RunInv, RunNumbersUnique
  <2>3. ASSUME r \in RunsOf(s)', NEW o \in RunsOf(s)' \ {r}
        PROVE  run'[o].number < run'[r].number
    <3>1. s = SessionOf(r)
      BY <1>2, <2>3 DEF RunsOf, Starts
    <3> QED
      BY <1>2, <2>1, <3>1 DEF Starts, IsNextNumber
  <2>4. run'[r].number \in Nat
    BY NumberIsNatural DEF TypeInv, LifecycleTypeOK, RunRow
  <2> QED
    BY <2>2, <2>3, <2>4
<1> QED
  BY <1>1, <1>2

LEMMA CapturingStep ==
    ASSUME RunInv, TypeInv', Settles \/ \E r \in Receipts : Starts(r)
    PROVE  CapturesNewestRun'
<1> SUFFICES ASSUME NEW s \in Sessions, NEW q \in RunsOf(s)', NEW p \in RunsOf(s)',
                    run'[q].status = "Capturing"
             PROVE  run'[p].number <= run'[q].number
  BY DEF CapturesNewestRun
<1>1. CASE Settles
  BY <1>1, SettlesKeepsRuns DEF Settles, KeepsCourse, RunInv, CapturesNewestRun, RunsOf
<1>2. ASSUME NEW r \in Receipts, Starts(r) PROVE run'[p].number <= run'[q].number
  <2>1. \A o \in RunsOf(s)' \ {r} : /\ o \in RunsOf(s)
                                    /\ run'[o].number = run[o].number
                                    /\ run'[o].status = "Capturing" => run[o].status = "Capturing"
    BY <1>2, StartsKeepsRuns DEF Starts, KeepsCourse, RunsOf
  <2>2. \A o \in RunsOf(s)' : run'[o].number \in Nat
    BY DEF TypeInv, LifecycleTypeOK, RunRow, RunsOf
  <2>3. CASE s = SessionOf(r)
    <3>1. q = r
      BY <1>2, <2>1, <2>3 DEF Starts, RunsOf
    <3>2. p # r => run'[p].number < run'[r].number
      BY <1>2, <2>1, <2>3 DEF Starts, IsNextNumber
    <3> QED
      BY <2>2, <3>1, <3>2
  <2>4. CASE s # SessionOf(r)
    <3>1. r \notin RunsOf(s)'
      BY <1>2, <2>4 DEF Starts, RunsOf
    <3> QED
      BY <2>1, <3>1 DEF RunInv, CapturesNewestRun
  <2> QED
    BY <2>3, <2>4
<1> QED
  BY <1>1, <1>2

LEMMA ObservedSession ==
    ASSUME TypeInv, NEW r \in Receipts, receipt[r].status = "pending",
           NEW status, ObserveConversation(r, status)
    PROVE  /\ conversation'[SessionOf(r)].status = status
           /\ \A s \in Sessions \ {SessionOf(r)} : conversation'[s] = conversation[s]
<1>1. SessionOf(r) \in Sessions
  BY DEF TypeInv, LifecycleTypeOK, AcceptedIsFilled, SessionOf, None
<1> QED
  BY <1>1 DEF ObserveConversation, TypeInv, LifecycleTypeOK

(***************************************************************************)
(* A conversation is or becomes Ended only with nothing left to capture.   *)
(***************************************************************************)
LEMMA EndedEffect ==
    ASSUME TypeInv, [LifecycleNext]_lifecycleVars,
           NEW s \in Sessions, conversation'[s].status = "Ended"
    PROVE  \/ conversation[s].status = "Ended"
           \/ \A q \in RunsOf(s)' : run'[q].status # "Capturing"
<1>1. CASE AcceptAny \/ SealRun \/ UNCHANGED lifecycleVars
  BY <1>1 DEF AcceptAny, Accept, SealRun, lifecycleVars
<1>2. CASE ResolveOldest
  <2>1. PICK r \in Receipts, d \in ClockSteps :
          /\ receipt[r].status = "pending"
          /\ \/ RejectReceipt(r, d) \/ StartSession(r, d) \/ StartRun(r, d) \/ JoinRun(r, d)
             \/ StopRun(r, d) \/ MissRun(r, d) \/ EndSession(r, d) \/ FailReceipt(r, d)
    BY <1>2 DEF ResolveOldest, Resolve
  <2>2. CASE RejectReceipt(r, d) \/ FailReceipt(r, d)
    BY <2>2 DEF RejectReceipt, FailReceipt
  <2>3. CASE StartSession(r, d) \/ StartRun(r, d) \/ JoinRun(r, d)
             \/ StopRun(r, d) \/ MissRun(r, d)
    <3>1. ObserveConversation(r, "Active")
      BY <2>3 DEF StartSession, StartRun, JoinRun, StopRun, MissRun
    <3>2. s # SessionOf(r) /\ conversation'[s] = conversation[s]
      BY <2>1, <3>1, ObservedSession
    <3> QED
      BY <3>2
  <2>4. CASE EndSession(r, d)
    <3>1. CASE s # SessionOf(r)
      BY <2>1, <2>4, <3>1, ObservedSession DEF EndSession
    <3>2. CASE s = SessionOf(r) /\ run' = AbandonCapturing(s, "ended")
      <4>1. ASSUME NEW q \in RunsOf(s)' PROVE run'[q].status # "Capturing"
        <5>1. q \in Receipts /\ run'[q].session = s /\ run'[q].status # None
          BY DEF RunsOf
        <5>2. q \in RunsOf(s)
          BY <3>2, <5>1, AbandonKeepsCourse DEF RunsOf
        <5> QED
          BY <3>2, <5>1, <5>2, AbandonKeepsCourse
      <4> QED
        BY <4>1
    <3>3. CASE s = SessionOf(r) /\ conversation[s].status = "Ended"
      BY <3>3
    <3> QED
      BY <2>4, <3>1, <3>2, <3>3 DEF EndSession
  <2> QED
    BY <2>1, <2>2, <2>3, <2>4
<1> QED
  BY <1>1, <1>2 DEF LifecycleNext

LEMMA EndedStep ==
    ASSUME RunInv, [LifecycleNext]_lifecycleVars
    PROVE  EndedCapturesNothing'
<1> SUFFICES ASSUME NEW s \in Sessions, conversation'[s].status = "Ended",
                    NEW q \in RunsOf(s)'
             PROVE  run'[q].status # "Capturing"
  BY DEF EndedCapturesNothing
<1>1. Settles \/ \E r \in Receipts : Starts(r)
  BY StepEffect DEF RunInv
<1>2. CASE conversation[s].status = "Ended"
  <2>1. \A o \in RunsOf(s) : run[o].status # "Capturing"
    BY <1>2 DEF RunInv, EndedCapturesNothing
  <2>2. CASE Settles
    BY <2>1, <2>2, SettlesKeepsRuns DEF Settles, KeepsCourse, RunsOf
  <2>3. ASSUME NEW r \in Receipts, Starts(r) PROVE run'[q].status # "Capturing"
    <3>1. s # SessionOf(r)
      BY <2>3 DEF Starts
    <3>2. q # r /\ q \in RunsOf(s)
      BY <2>3, <3>1, StartsKeepsRuns DEF Starts, RunsOf
    <3> QED
      BY <2>1, <2>3, <3>2 DEF Starts, KeepsCourse, RunsOf
  <2> QED
    BY <1>1, <2>2, <2>3
<1>3. CASE conversation[s].status # "Ended"
  BY <1>3, EndedEffect DEF RunInv
<1> QED
  BY <1>2, <1>3

LEMMA ResolveRecords ==
    ASSUME NEW r \in Receipts, Resolve(r)
    PROVE  \E d \in ClockSteps, outcome \in {"applied", "associated", "failed"} :
           \E diagnostic \in Diagnostics \cup {None}, q \in Receipts \cup {NoRun} :
               RecordResolution(r, d, outcome, diagnostic, q)
<1>1. PICK d \in ClockSteps :
        \/ RejectReceipt(r, d) \/ StartSession(r, d) \/ StartRun(r, d) \/ JoinRun(r, d)
        \/ StopRun(r, d) \/ MissRun(r, d) \/ EndSession(r, d) \/ FailReceipt(r, d)
  BY DEF Resolve
<1>2. CASE RejectReceipt(r, d)
  BY <1>2 DEF RejectReceipt, Diagnostics
<1>3. CASE StartSession(r, d)
  BY <1>3 DEF StartSession
<1>4. CASE StartRun(r, d)
  BY <1>4 DEF StartRun
<1>5. CASE JoinRun(r, d)
  BY <1>5 DEF JoinRun
<1>6. CASE StopRun(r, d)
  <2>1. PICK q \in Receipts :
          RecordResolution(r, d,
              IF run[q].status = "Capturing" THEN "applied" ELSE "associated", None, q)
    BY <1>6 DEF StopRun
  <2> QED
    BY <2>1
<1>7. CASE MissRun(r, d)
  BY <1>7 DEF MissRun, Diagnostics
<1>8. CASE EndSession(r, d)
  BY <1>8 DEF EndSession
<1>9. CASE FailReceipt(r, d)
  BY <1>9 DEF FailReceipt, Diagnostics
<1> QED
  BY <1>1, <1>2, <1>3, <1>4, <1>5, <1>6, <1>7, <1>8, <1>9

LEMMA BlankStep ==
    ASSUME RunInv, [LifecycleNext]_lifecycleVars
    PROVE  UnresolvedIsBlank'
<1> SUFFICES ASSUME NEW a \in Receipts, receipt'[a].status \in {None, "pending"}
             PROVE  /\ resolution'[a].outcome = None
                    /\ resolution'[a].run = NoRun
                    /\ run'[a].status = None
  BY DEF UnresolvedIsBlank
<1>1. ASSUME receipt[a].status \in {None, "pending"}, resolution'[a] = resolution[a],
             KeepsCourse(a)
      PROVE  /\ resolution'[a].outcome = None
             /\ resolution'[a].run = NoRun
             /\ run'[a].status = None
  BY <1>1 DEF RunInv, UnresolvedIsBlank, KeepsCourse
<1>2. CASE AcceptAny
  <2>1. PICK r \in Receipts, s \in Sessions, w \in Workspaces, h \in Hooks, d \in ClockSteps :
          Accept(r, s, w, h, d)
    BY <1>2 DEF AcceptAny
  <2>2. /\ receipt[a].status \in {None, "pending"}
        /\ resolution'[a] = resolution[a]
    BY <2>1 DEF Accept, RunInv, TypeInv, LifecycleTypeOK
  <2>3. KeepsCourse(a)
    BY <2>1, UnchangedSettles DEF Accept, Settles
  <2> QED
    BY <1>1, <2>2, <2>3
<1>3. CASE ResolveOldest
  <2>1. PICK r \in Receipts : Resolve(r)
    BY <1>3 DEF ResolveOldest
  <2>2. PICK d \in ClockSteps, outcome \in {"applied", "associated", "failed"},
             diagnostic \in Diagnostics \cup {None}, q \in Receipts \cup {NoRun} :
          RecordResolution(r, d, outcome, diagnostic, q)
    BY <2>1, ResolveRecords
  <2>3. receipt'[r].status \in {"processed", "failed"}
    BY <2>2 DEF RecordResolution, RunInv, TypeInv, LifecycleTypeOK, ReceiptRow
  <2>4. a # r
    BY <2>3 DEF None
  <2>5. receipt'[a] = receipt[a] /\ resolution'[a] = resolution[a]
    BY <2>2, <2>4 DEF RecordResolution, RunInv, TypeInv, LifecycleTypeOK
  <2>6. KeepsCourse(a)
    BY <2>1, <2>4, ResolveEffect DEF RunInv, Settles, Starts
  <2> QED
    BY <1>1, <2>5, <2>6
<1>4. CASE SealRun
  BY <1>1, <1>4, SealEffect DEF SealRun, RunInv, Settles
<1>5. CASE UNCHANGED lifecycleVars
  BY <1>1, <1>5, UnchangedSettles DEF lifecycleVars, Settles
<1> QED
  BY <1>2, <1>3, <1>4, <1>5 DEF LifecycleNext

LEMMA RunStep == RunInv /\ [LifecycleNext]_lifecycleVars => RunInv'
<1> SUFFICES ASSUME RunInv, [LifecycleNext]_lifecycleVars PROVE RunInv'
  OBVIOUS
<1>1. TypeInv'
  BY TypeStep DEF RunInv
<1>2. Settles \/ \E r \in Receipts : Starts(r)
  BY StepEffect DEF RunInv
<1> QED
  BY <1>1, <1>2, BlankStep, NumbersStep, CapturingStep, EndedStep DEF RunInv

LEMMA RunInvariant == LifecycleSafety => []RunInv
BY RunInit, RunStep, PTL DEF LifecycleSafety

(***************************************************************************)
(* The runs of a conversation never share a number, whatever mixture of    *)
(* prompts, stops, session ends and failures is processed.                 *)
(***************************************************************************)
THEOREM NumbersAreUnique == LifecycleSafety => []RunNumbersUnique
<1>1. RunInv => RunNumbersUnique
  BY DEF RunInv
<1> QED
  BY <1>1, RunInvariant, PTL

(***************************************************************************)
(* Only the newest run of a conversation can be capturing.                 *)
(***************************************************************************)
THEOREM OnlyNewestCaptures == LifecycleSafety => []CapturesNewestRun
<1>1. RunInv => CapturesNewestRun
  BY DEF RunInv
<1> QED
  BY <1>1, RunInvariant, PTL

(***************************************************************************)
(* An ended conversation has no capturing run.                             *)
(***************************************************************************)
THEOREM EndedIsQuiet == LifecycleSafety => []EndedCapturesNothing
<1>1. RunInv => EndedCapturesNothing
  BY DEF RunInv
<1> QED
  BY <1>1, RunInvariant, PTL

(***************************************************************************)
(* No step changes a run that has a terminal status: a pending receipt has *)
(* not started a run (so no prompt overwrites one), lookups return active  *)
(* runs only and sealing compares the status.                              *)
(***************************************************************************)
THEOREM TerminalRunsAreFinal == LifecycleSafety => TerminalIsFinal
<1>1. ASSUME RunInv, [LifecycleNext]_lifecycleVars, NEW q \in Receipts,
             run[q].status \in Terminal
      PROVE  run'[q] = run[q]
  <2>1. CASE Settles
    BY <1>1, <2>1 DEF Settles, KeepsCourse
  <2>2. ASSUME NEW r \in Receipts, Starts(r) PROVE run'[q] = run[q]
    <3>1. q # r
      BY <1>1, <2>2 DEF Starts, RunInv, UnresolvedIsBlank, Terminal, None
    <3> QED
      BY <1>1, <2>2, <3>1 DEF Starts, KeepsCourse
  <2> QED
    BY <1>1, <2>1, <2>2, StepEffect DEF RunInv
<1>2. RunInv /\ [LifecycleNext]_lifecycleVars
        => [\A q \in Receipts : run[q].status \in Terminal => run'[q] = run[q]]_lifecycleVars
  BY <1>1
<1> QED
  BY <1>2, RunInvariant, PTL DEF LifecycleSafety, TerminalIsFinal

-----------------------------------------------------------------------------
(* Which run a resolution points to *)

(***************************************************************************)
(* What a transaction leaves in the resolution of its receipt: no run, the *)
(* run it started, or the latest active run of its conversation; and a     *)
(* Stop is applied only where it took a capturing run to Finalizing.       *)
(***************************************************************************)
LEMMA PointerEffect ==
    ASSUME TypeInv, NEW r \in Receipts, Resolve(r)
    PROVE  LET q == resolution'[r].run IN
           /\ \/ q = NoRun
              \/ q = r /\ Starts(r)
              \/ q \in Receipts /\ IsLatestActive(q, receipt[r].session) /\ Settles
           /\ (receipt[r].hook \in StopHooks /\ resolution'[r].outcome = "applied") =>
                 /\ q \in Receipts
                 /\ run[q].status = "Capturing"
                 /\ run'[q].status = "Finalizing"
<1>1. PICK d \in ClockSteps :
        \/ RejectReceipt(r, d) \/ StartSession(r, d) \/ StartRun(r, d) \/ JoinRun(r, d)
        \/ StopRun(r, d) \/ MissRun(r, d) \/ EndSession(r, d) \/ FailReceipt(r, d)
  BY DEF Resolve
<1>2. ASSUME NEW outcome, NEW diagnostic, NEW q, RecordResolution(r, d, outcome, diagnostic, q)
      PROVE  resolution'[r].run = q /\ resolution'[r].outcome = outcome
  BY <1>2 DEF RecordResolution, TypeInv, LifecycleTypeOK
<1>3. CASE RejectReceipt(r, d)
  BY <1>2, <1>3 DEF RejectReceipt
<1>4. CASE StartSession(r, d)
  BY <1>2, <1>4 DEF StartSession, StopHooks
<1>5. CASE StartRun(r, d)
  <2>1. resolution'[r].run = r
    BY <1>2, <1>5 DEF StartRun
  <2>2. Starts(r)
    BY <1>5, StartRunStarts DEF Resolve
  <2> QED
    BY <1>5, <2>1, <2>2 DEF StartRun, StopHooks
<1>6. CASE JoinRun(r, d)
  <2>1. PICK q \in Receipts : /\ IsLatestActive(q, SessionOf(r))
                              /\ RecordResolution(r, d, "associated", None, q)
    BY <1>6 DEF JoinRun
  <2>2. Settles
    BY <1>6, UnchangedSettles DEF JoinRun
  <2> QED
    BY <1>2, <1>6, <2>1, <2>2 DEF JoinRun, SessionOf
<1>7. CASE StopRun(r, d)
  <2>1. PICK q \in Receipts :
          /\ IsLatestActive(q, SessionOf(r))
          /\ run' = TransitionToFinalizing(q, receipt[r].hook)
          /\ RecordResolution(r, d,
                 IF run[q].status = "Capturing" THEN "applied" ELSE "associated", None, q)
    BY <1>7 DEF StopRun
  <2>2. run'[q].status = "Finalizing"
    BY <2>1 DEF TransitionToFinalizing, TypeInv, LifecycleTypeOK, RunRow
  <2>3. Settles
    BY <1>7, StopRunSettles
  <2>4. /\ resolution'[r].run = q
        /\ resolution'[r].outcome = "applied" => run[q].status = "Capturing"
    BY <1>2, <2>1
  <2> QED
    BY <2>1, <2>2, <2>3, <2>4 DEF SessionOf
<1>8. CASE MissRun(r, d)
  BY <1>2, <1>8 DEF MissRun
<1>9. CASE EndSession(r, d)
  BY <1>2, <1>9 DEF EndSession, StopHooks
<1>10. CASE FailReceipt(r, d)
  BY <1>2, <1>10 DEF FailReceipt
<1> QED
  BY <1>1, <1>3, <1>4, <1>5, <1>6, <1>7, <1>8, <1>9, <1>10

(***************************************************************************)
(* Where the run pointers of the resolutions lead: a receipt without a     *)
(* resolution has none, a pointer leads to a run of the receipt's own      *)
(* conversation, and the run of an applied Stop has left Capturing.        *)
(***************************************************************************)
PointsHome(a) ==
    /\ resolution[a].outcome = None => resolution[a].run = NoRun
    /\ resolution[a].run # NoRun =>
          /\ run[resolution[a].run].status # None
          /\ run[resolution[a].run].session = receipt[a].session
    /\ (receipt[a].hook \in StopHooks /\ resolution[a].outcome = "applied") =>
          /\ resolution[a].run # NoRun
          /\ run[resolution[a].run].status # "Capturing"

PointerInv == /\ RunInv
              /\ \A a \in Receipts : PointsHome(a)
              /\ OneStopApplies

LEMMA PointerInit == LifecycleInit => PointerInv
<1> SUFFICES ASSUME LifecycleInit PROVE PointerInv
  OBVIOUS
<1>1. RunInv
  BY RunInit
<1>2. \A a \in Receipts : resolution[a].outcome = None /\ resolution[a].run = NoRun
  BY DEF LifecycleInit
<1> QED
  BY <1>1, <1>2 DEF PointerInv, PointsHome, OneStopApplies, None

(***************************************************************************)
(* A pointer that leads home still does when the step leaves its own row   *)
(* alone.                                                                  *)
(***************************************************************************)
LEMMA OldPointerStep ==
    ASSUME PointerInv, NEW a \in Receipts,
           Settles \/ \E r \in Receipts : Starts(r),
           resolution'[a] = resolution[a],
           receipt'[a].session = receipt[a].session, receipt'[a].hook = receipt[a].hook
    PROVE  PointsHome(a)'
<1> DEFINE q == resolution[a].run
<1>1. PointsHome(a)
  BY DEF PointerInv
<1>2. CASE q = NoRun
  BY <1>1, <1>2 DEF PointsHome
<1>3. CASE q # NoRun
  <2>1. q \in Receipts /\ run[q].status # None
    BY <1>1, <1>3 DEF PointsHome, PointerInv, RunInv, TypeInv, LifecycleTypeOK, ResolutionRow
  <2>2. ASSUME NEW r \in Receipts, Starts(r) PROVE q # r
    BY <2>1, <2>2 DEF Starts, PointerInv, RunInv, UnresolvedIsBlank
  <2>3. KeepsCourse(q)
    BY <2>1, <2>2 DEF Settles, Starts
  <2> HIDE DEF q
  <2>4. /\ run'[q].status # None
        /\ run'[q].session = run[q].session
        /\ run[q].status # "Capturing" => run'[q].status # "Capturing"
    BY <2>1, <2>3 DEF KeepsCourse
  <2> QED
    BY <1>1, <1>3, <2>4 DEF PointsHome, q
<1> QED
  BY <1>2, <1>3

LEMMA PointerStep == PointerInv /\ [LifecycleNext]_lifecycleVars => PointerInv'
<1> SUFFICES ASSUME PointerInv, [LifecycleNext]_lifecycleVars PROVE PointerInv'
  OBVIOUS
<1>1. RunInv /\ TypeInv /\ UnresolvedIsBlank /\ OneStopApplies
  BY DEF PointerInv, RunInv
<1>2. RunInv'
  BY <1>1, RunStep
<1>3. Settles \/ \E r \in Receipts : Starts(r)
  BY <1>1, StepEffect
<1>4. ASSUME NEW a \in Receipts, \A b \in Receipts : PointsHome(b)',
             \A b \in Receipts \ {a} :
                 resolution'[b] = resolution[b] /\ receipt'[b].hook = receipt[b].hook,
             NEW b \in Receipts \ {a},
             (receipt'[a].hook \in StopHooks /\ resolution'[a].outcome = "applied") =>
                 \/ resolution'[a] = resolution[a] /\ receipt'[a].hook = receipt[a].hook
                 \/ run[resolution'[a].run].status = "Capturing"
      PROVE  ~(/\ receipt'[a].hook \in StopHooks /\ resolution'[a].outcome = "applied"
               /\ receipt'[b].hook \in StopHooks /\ resolution'[b].outcome = "applied"
               /\ resolution'[a].run = resolution'[b].run)
  <2>1. PointsHome(b)
    BY DEF PointerInv
  <2> QED
    BY <1>1, <1>4, <2>1 DEF PointsHome, OneStopApplies
<1>5. ASSUME NEW a \in Receipts, \A b \in Receipts : PointsHome(b)',
             \A b \in Receipts \ {a} :
                 resolution'[b] = resolution[b] /\ receipt'[b].hook = receipt[b].hook,
             (receipt'[a].hook \in StopHooks /\ resolution'[a].outcome = "applied") =>
                 \/ resolution'[a] = resolution[a] /\ receipt'[a].hook = receipt[a].hook
                 \/ run[resolution'[a].run].status = "Capturing"
      PROVE  PointerInv'
  <2>1. \A b \in Receipts : resolution'[b].run # NoRun =>
            run'[resolution'[b].run].session = receipt'[b].session
    BY <1>5 DEF PointsHome
  <2>2. ASSUME NEW b \in Receipts, NEW c \in Receipts,
               receipt'[b].hook \in StopHooks, resolution'[b].outcome = "applied",
               receipt'[c].hook \in StopHooks, resolution'[c].outcome = "applied",
               resolution'[b].run = resolution'[c].run
        PROVE  b = c
    <3>1. CASE b # a /\ c # a
      BY <1>1, <1>5, <2>2, <3>1 DEF OneStopApplies
    <3>2. CASE b = a
      BY <1>4, <1>5, <2>2, <3>2
    <3>3. CASE c = a
      BY <1>4, <1>5, <2>2, <3>3
    <3> QED
      BY <3>1, <3>2, <3>3
  <2>3. OneStopApplies'
    BY <2>1, <2>2 DEF OneStopApplies
  <2> QED
    BY <1>2, <1>5, <2>3 DEF PointerInv
<1>6. CASE AcceptAny
  <2>1. PICK r \in Receipts, s \in Sessions, w \in Workspaces, h \in Hooks, d \in ClockSteps :
          Accept(r, s, w, h, d)
    BY <1>6 DEF AcceptAny
  <2>2. /\ resolution' = resolution
        /\ \A b \in Receipts \ {r} : receipt'[b] = receipt[b]
    BY <1>1, <2>1 DEF Accept, TypeInv, LifecycleTypeOK
  <2>3. resolution[r].outcome = None /\ resolution[r].run = NoRun
    BY <1>1, <2>1 DEF Accept, UnresolvedIsBlank
  <2>4. PointsHome(r)'
    BY <2>2, <2>3 DEF PointsHome, None
  <2>5. \A b \in Receipts : PointsHome(b)'
    BY <1>3, <2>2, <2>4, OldPointerStep
  <2> QED
    BY <1>5, <2>2, <2>3, <2>5 DEF None
<1>7. CASE ResolveOldest
  <2>1. PICK r \in Receipts : Resolve(r)
    BY <1>7 DEF ResolveOldest
  <2>2. PICK d \in ClockSteps, outcome \in {"applied", "associated", "failed"},
             diagnostic \in Diagnostics \cup {None}, q \in Receipts \cup {NoRun} :
          RecordResolution(r, d, outcome, diagnostic, q)
    BY <2>1, ResolveRecords
  <2>3. /\ \A b \in Receipts \ {r} : resolution'[b] = resolution[b]
        /\ \A b \in Receipts : /\ receipt'[b].session = receipt[b].session
                               /\ receipt'[b].hook = receipt[b].hook
        /\ resolution'[r].outcome = outcome
        /\ resolution'[r].run = q
    BY <1>1, <2>2 DEF RecordResolution, TypeInv, LifecycleTypeOK, ReceiptRow
  <2>4. /\ \/ q = NoRun
           \/ q = r /\ Starts(r)
           \/ q \in Receipts /\ IsLatestActive(q, receipt[r].session) /\ Settles
        /\ (receipt[r].hook \in StopHooks /\ outcome = "applied") =>
              /\ q \in Receipts
              /\ run[q].status = "Capturing"
              /\ run'[q].status = "Finalizing"
    BY <1>1, <2>1, <2>3, PointerEffect
  <2>5. q # NoRun => run'[q].status # None /\ run'[q].session = receipt[r].session
    <3>1. CASE q = r /\ Starts(r)
      BY <3>1 DEF Starts, SessionOf, None
    <3>2. CASE q \in Receipts /\ IsLatestActive(q, receipt[r].session) /\ Settles
      BY <3>2 DEF IsLatestActive, ActiveRuns, RunsOf, Settles, KeepsCourse
    <3> QED
      BY <2>4, <3>1, <3>2
  <2>6. PointsHome(r)'
    BY <2>3, <2>4, <2>5, ConstantFacts DEF PointsHome, None
  <2>7. \A b \in Receipts : PointsHome(b)'
    BY <1>3, <2>3, <2>6, OldPointerStep
  <2> QED
    BY <1>5, <2>3, <2>4, <2>7
<1>8. CASE SealRun \/ UNCHANGED lifecycleVars
  <2>1. resolution' = resolution /\ receipt' = receipt
    BY <1>8 DEF SealRun, lifecycleVars
  <2>2. \A b \in Receipts : PointsHome(b)'
    BY <1>3, <2>1, OldPointerStep
  <2>3. OneStopApplies'
    BY <1>1, <2>1, <2>2 DEF OneStopApplies, PointsHome
  <2> QED
    BY <1>2, <2>2, <2>3 DEF PointerInv
<1> QED
  BY <1>6, <1>7, <1>8 DEF LifecycleNext

LEMMA PointerInvariant == LifecycleSafety => []PointerInv
BY PointerInit, PointerStep, PTL DEF LifecycleSafety

(***************************************************************************)
(* Resolutions point into their own conversation and one Stop per run is   *)
(* applied: the Stop that is applied finds the run capturing, and no step  *)
(* brings a run back to Capturing.                                         *)
(***************************************************************************)
THEOREM StopsApplyOnce == LifecycleSafety => []OneStopApplies
<1>1. PointerInv => OneStopApplies
  BY DEF PointerInv
<1> QED
  BY <1>1, PointerInvariant, PTL

(***************************************************************************)
(* Tool and Stop receipts go to the capturing run whenever there is one:   *)
(* it is the newest, so it is the latest active.                           *)
(***************************************************************************)
THEOREM ActivityJoinsCapture == LifecycleSafety => ActivityFollowsCapture
<1>1. ASSUME PointerInv, [LifecycleNext]_lifecycleVars, NEW r \in Receipts,
             resolution[r].outcome = None, resolution'[r].run \notin {NoRun, r},
             NEW q \in RunsOf(receipt[r].session), run[q].status = "Capturing"
      PROVE  resolution'[r].run = q
  <2>1. RunInv /\ TypeInv /\ RunNumbersUnique /\ CapturesNewestRun
    BY <1>1 DEF PointerInv, RunInv
  <2>2. resolution[r].run = NoRun
    BY <1>1 DEF PointerInv, PointsHome
  <2>3. CASE UNCHANGED resolution
    BY <1>1, <2>2, <2>3
  <2>4. CASE ResolveOldest
    <3>1. PICK a \in Receipts : Resolve(a)
      BY <2>4 DEF ResolveOldest
    <3>2. a = r
      BY <1>1, <2>1, <2>2, <3>1, ResolveRecords DEF RecordResolution, TypeInv, LifecycleTypeOK
    <3> DEFINE p == resolution'[r].run
               s == receipt[r].session
    <3>3. p \in Receipts /\ IsLatestActive(p, s)
      BY <1>1, <2>1, <3>1, <3>2, PointerEffect
    <3>4. s \in Sessions
      BY <2>1, <3>1, <3>2 DEF Resolve, TypeInv, AcceptedIsFilled, None
    <3>5. q \in ActiveRuns(s) /\ p \in RunsOf(s)
      BY <1>1, <3>3 DEF IsLatestActive, ActiveRuns, Active
    <3>6. run[q].number <= run[p].number /\ run[p].number <= run[q].number
      BY <1>1, <2>1, <3>3, <3>4, <3>5 DEF IsLatestActive, CapturesNewestRun
    <3>7. run[q].number = run[p].number
      BY <2>1, <3>3, <3>6, NumberIsNatural DEF RunsOf
    <3> QED
      BY <1>1, <2>1, <3>4, <3>5, <3>7 DEF RunNumbersUnique
  <2> QED
    BY <1>1, <2>3, <2>4 DEF LifecycleNext, AcceptAny, Accept, SealRun, lifecycleVars
<1>2. PointerInv /\ [LifecycleNext]_lifecycleVars
        => [\A r \in Receipts :
               (resolution[r].outcome = None /\ resolution'[r].run \notin {NoRun, r}) =>
                   \A q \in RunsOf(receipt[r].session) :
                       run[q].status = "Capturing" => resolution'[r].run = q]_lifecycleVars
  BY <1>1
<1> QED
  BY <1>2, PointerInvariant, PTL DEF LifecycleSafety, ActivityFollowsCapture

-----------------------------------------------------------------------------
(* The refinement of RunPromise *)

(***************************************************************************)
(* What the variables of the promise are here.                             *)
(***************************************************************************)
OpenRuns    == [s \in Sessions |-> CapturingRun(s)]
ClosingRuns == {q \in Receipts : run[q].status = "Finalizing"}
Judged      == [q \in Receipts |-> IF run[q].status \in Terminal THEN run[q].status ELSE None]
PromiseStep == [Promise!Next]_<<OpenRuns, ClosingRuns, Judged>>

CapturesFor(q, s) == run[q].session = s /\ run[q].status = "Capturing"

(***************************************************************************)
(* A started run belongs to a session.                                     *)
(***************************************************************************)
RunsHaveSessions == \A q \in Receipts : run[q].status # None => run[q].session \in Sessions

PromiseInv == RunInv /\ RunsHaveSessions

LEMMA SessionsStep == PromiseInv /\ [LifecycleNext]_lifecycleVars => PromiseInv'
<1> SUFFICES ASSUME PromiseInv, [LifecycleNext]_lifecycleVars PROVE PromiseInv'
  OBVIOUS
<1>1. RunInv'
  BY RunStep DEF PromiseInv
<1>2. Settles \/ \E r \in Receipts : Starts(r)
  BY StepEffect DEF PromiseInv, RunInv
<1>3. RunsHaveSessions'
  BY <1>2 DEF PromiseInv, RunsHaveSessions, Settles, Starts, KeepsCourse
<1> QED
  BY <1>1, <1>3 DEF PromiseInv

(***************************************************************************)
(* A session captures into one run at most: the mapping picks no other.    *)
(***************************************************************************)
OpenIsCapturing ==
    \A s \in Sessions :
        /\ CapturingRun(s) \in Receipts \cup {NoRun}
        /\ \A q \in Receipts : CapturingRun(s) = q <=> CapturesFor(q, s)

LEMMA OneOpenRun == PromiseInv => OpenIsCapturing
<1> SUFFICES ASSUME PromiseInv, NEW s \in Sessions
             PROVE  /\ CapturingRun(s) \in Receipts \cup {NoRun}
                    /\ \A q \in Receipts : CapturingRun(s) = q <=> CapturesFor(q, s)
  BY DEF OpenIsCapturing
<1>1. ASSUME NEW q \in Receipts
      PROVE  CapturesFor(q, s) <=> q \in RunsOf(s) /\ run[q].status = "Capturing"
  BY DEF CapturesFor, RunsOf, None
<1>2. ASSUME NEW p \in RunsOf(s), NEW q \in RunsOf(s),
             run[p].status = "Capturing", run[q].status = "Capturing"
      PROVE  p = q
  <2>1. run[p].number <= run[q].number /\ run[q].number <= run[p].number
    BY <1>2 DEF PromiseInv, RunInv, CapturesNewestRun
  <2>2. run[p].number = run[q].number
    BY <2>1, NumberIsNatural DEF PromiseInv, RunInv, RunsOf
  <2> QED
    BY <2>2 DEF PromiseInv, RunInv, RunNumbersUnique
<1>3. CASE \E q \in RunsOf(s) : run[q].status = "Capturing"
  <2>1. CapturingRun(s) \in RunsOf(s) /\ run[CapturingRun(s)].status = "Capturing"
    BY <1>3 DEF CapturingRun
  <2>2. CapturingRun(s) \in Receipts
    BY <2>1 DEF RunsOf
  <2> QED
    BY <1>1, <1>2, <2>1, <2>2
<1>4. CASE ~\E q \in RunsOf(s) : run[q].status = "Capturing"
  BY <1>1, <1>4, ConstantFacts DEF CapturingRun
<1> QED
  BY <1>3, <1>4

LEMMA OneOpenRunNext == PromiseInv' => OpenIsCapturing'
BY OneOpenRun, PTL

Same(q) == run'[q].status = run[q].status /\ run'[q].session = run[q].session

LEMMA NothingPromised ==
    ASSUME PromiseInv, PromiseInv', \A q \in Receipts : Same(q)
    PROVE  PromiseStep
<1>1. OpenIsCapturing /\ OpenIsCapturing'
  BY OneOpenRun, OneOpenRunNext
<1>2. ASSUME NEW s \in Sessions
      PROVE  CapturingRun(s)' = CapturingRun(s)
  <2>1. \A q \in Receipts : CapturesFor(q, s)' <=> CapturesFor(q, s)
    BY DEF CapturesFor, Same
  <2>2. \A q \in Receipts : CapturingRun(s)' = q <=> CapturingRun(s) = q
    BY <1>1, <2>1 DEF OpenIsCapturing
  <2> QED
    BY <1>1, <2>2 DEF OpenIsCapturing
<1>3. OpenRuns' = OpenRuns
  BY <1>2 DEF OpenRuns
<1>4. ClosingRuns' = ClosingRuns /\ Judged' = Judged
  BY DEF ClosingRuns, Judged, Same
<1> QED
  BY <1>3, <1>4 DEF PromiseStep

(***************************************************************************)
(* What is open after a step in which at most session s changes the run it *)
(* captures into.                                                          *)
(***************************************************************************)
LEMMA OpenElsewhere ==
    ASSUME PromiseInv, PromiseInv', NEW s \in Sessions, NEW q \in Receipts \cup {NoRun},
           \A t \in Sessions \ {s} : \A p \in Receipts : CapturesFor(p, t)' <=> CapturesFor(p, t),
           \A p \in Receipts : CapturesFor(p, s)' <=> p = q
    PROVE  OpenRuns' = [OpenRuns EXCEPT ![s] = q]
<1>1. OpenIsCapturing /\ OpenIsCapturing'
  BY OneOpenRun, OneOpenRunNext
<1>2. ASSUME NEW t \in Sessions \ {s}
      PROVE  CapturingRun(t)' = CapturingRun(t)
  <2>1. \A p \in Receipts : CapturingRun(t)' = p <=> CapturingRun(t) = p
    BY <1>1 DEF OpenIsCapturing
  <2> QED
    BY <1>1, <2>1 DEF OpenIsCapturing
<1>3. CapturingRun(s)' = q
  <2>1. \A p \in Receipts : CapturingRun(s)' = p <=> p = q
    BY <1>1 DEF OpenIsCapturing
  <2> QED
    BY <1>1, <2>1 DEF OpenIsCapturing
<1> QED
  BY <1>2, <1>3 DEF OpenRuns

(***************************************************************************)
(* A run moves on from Capturing: its session's open run is abandoned, or  *)
(* stopped.                                                                *)
(***************************************************************************)
LEMMA LeavingPromised ==
    ASSUME PromiseInv, PromiseInv', NEW p \in Receipts, run[p].status = "Capturing",
           run'[p].session = run[p].session, run'[p].status \in {"Abandoned", "Finalizing"},
           \A q \in Receipts \ {p} : Same(q)
    PROVE  PromiseStep
<1>1. PICK s \in Sessions : s = run[p].session
  BY DEF PromiseInv, RunsHaveSessions, None
<1>2. OpenIsCapturing
  BY OneOpenRun
<1>3. CapturingRun(s) = p /\ \A q \in Receipts : CapturesFor(q, s) <=> q = p
  BY <1>1, <1>2 DEF OpenIsCapturing, CapturesFor
<1>4. OpenRuns[s] = p /\ OpenRuns[s] # NoRun
  BY <1>1, <1>3, ConstantFacts DEF OpenRuns
<1>5. OpenRuns' = [OpenRuns EXCEPT ![s] = NoRun]
  <2>1. \A t \in Sessions \ {s} : \A q \in Receipts : CapturesFor(q, t)' <=> CapturesFor(q, t)
    BY <1>1 DEF CapturesFor, Same
  <2>2. \A q \in Receipts : CapturesFor(q, s)' <=> q = NoRun
    BY <1>3, ConstantFacts DEF CapturesFor, Same
  <2> QED
    BY <1>1, <2>1, <2>2, OpenElsewhere
<1>6. CASE run'[p].status = "Abandoned"
  <2>1. ClosingRuns' = ClosingRuns
    BY <1>6 DEF ClosingRuns, Same
  <2>2. Judged' = [q \in Receipts |-> IF q = OpenRuns[s] THEN "Abandoned" ELSE Judged[q]]
    BY <1>4, <1>6 DEF Judged, Same, Terminal
  <2>3. Promise!Abandon(s)
    BY <1>4, <1>5, <2>1, <2>2
       DEF Promise!Abandon, Promise!Displaced, OpenRuns, ClosingRuns, Judged
  <2> QED
    BY <1>1, <2>3 DEF PromiseStep, Promise!Next
<1>7. CASE run'[p].status = "Finalizing"
  <2>1. ClosingRuns' = ClosingRuns \cup {OpenRuns[s]}
    BY <1>4, <1>7 DEF ClosingRuns, Same
  <2>2. Judged' = Judged
    BY <1>7 DEF Judged, Same, Terminal
  <2>3. Promise!Stop(s)
    BY <1>4, <1>5, <2>1, <2>2 DEF Promise!Stop, OpenRuns, ClosingRuns, Judged
  <2> QED
    BY <1>1, <2>3 DEF PromiseStep, Promise!Next
<1> QED
  BY <1>6, <1>7

(***************************************************************************)
(* A new run displaces what its session was capturing.                     *)
(***************************************************************************)
LEMMA StartingPromised ==
    ASSUME PromiseInv, PromiseInv', NEW r \in Receipts, NEW s \in Sessions,
           run[r].status = None, run'[r].status = "Capturing", run'[r].session = s,
           \A q \in Receipts \ {r} :
               /\ run'[q].session = run[q].session
               /\ run'[q].status = IF CapturesFor(q, s) THEN "Abandoned" ELSE run[q].status
    PROVE  PromiseStep
<1>1. OpenIsCapturing
  BY OneOpenRun
<1>2. /\ \A q \in Receipts : OpenRuns[s] = q <=> CapturesFor(q, s)
      /\ \A t \in Sessions : OpenRuns[t] # r
  BY <1>1 DEF OpenIsCapturing, OpenRuns, CapturesFor, None
<1>3. OpenRuns' = [OpenRuns EXCEPT ![s] = r]
  <2>1. \A t \in Sessions \ {s} : \A q \in Receipts : CapturesFor(q, t)' <=> CapturesFor(q, t)
    BY DEF CapturesFor, None
  <2>2. \A q \in Receipts : CapturesFor(q, s)' <=> q = r
    BY DEF CapturesFor
  <2> QED
    BY <2>1, <2>2, OpenElsewhere
<1>4. ClosingRuns' = ClosingRuns /\ r \notin ClosingRuns
  BY DEF ClosingRuns, CapturesFor, None
<1>5. Judged' = [q \in Receipts |-> IF q = OpenRuns[s] THEN "Abandoned" ELSE Judged[q]]
  BY <1>2 DEF Judged, CapturesFor, Terminal, None
<1>6. Judged[r] = None
  BY DEF Judged, Terminal, None
<1>7. Promise!Begin(s, r)
  BY <1>2, <1>3, <1>4, <1>5, <1>6
     DEF Promise!Begin, Promise!Fresh, Promise!Displaced, OpenRuns, ClosingRuns, Judged
<1> QED
  BY <1>7 DEF PromiseStep, Promise!Next

LEMMA JudgingPromised ==
    ASSUME PromiseInv, PromiseInv', NEW p \in Receipts, run[p].status = "Finalizing",
           NEW v \in {"Completed", "Partial", "Failed"}, run'[p].status = v,
           \A q \in Receipts \ {p} : Same(q), run'[p].session = run[p].session
    PROVE  PromiseStep
<1>1. OpenIsCapturing /\ OpenIsCapturing'
  BY OneOpenRun, OneOpenRunNext
<1>2. ASSUME NEW s \in Sessions
      PROVE  CapturingRun(s)' = CapturingRun(s)
  <2>1. \A q \in Receipts : CapturesFor(q, s)' <=> CapturesFor(q, s)
    BY DEF CapturesFor, Same
  <2>2. \A q \in Receipts : CapturingRun(s)' = q <=> CapturingRun(s) = q
    BY <1>1, <2>1 DEF OpenIsCapturing
  <2> QED
    BY <1>1, <2>2 DEF OpenIsCapturing
<1>3. OpenRuns' = OpenRuns
  BY <1>2 DEF OpenRuns
<1>4. ClosingRuns' = ClosingRuns \ {p} /\ p \in ClosingRuns
  BY DEF ClosingRuns, Same
<1>5. Judged' = [Judged EXCEPT ![p] = v]
  BY DEF Judged, Same, Terminal
<1>6. Promise!Judge(p, v)
  BY <1>3, <1>4, <1>5 DEF Promise!Judge, OpenRuns, ClosingRuns, Judged
<1> QED
  BY <1>6 DEF PromiseStep, Promise!Next

LEMMA AbandonCases ==
    ASSUME TypeInv, NEW s, NEW reason \in {"superseded", "ended"}, NEW q \in Receipts
    PROVE  LET row == AbandonCapturing(s, reason)[q] IN
           /\ row.session = run[q].session
           /\ row.status = IF CapturesFor(q, s) THEN "Abandoned" ELSE run[q].status
<1>1. run[q] \in RunRow
  BY DEF TypeInv, LifecycleTypeOK
<1>2. q \in RunsOf(s) /\ run[q].status = "Capturing" <=> CapturesFor(q, s)
  BY DEF RunsOf, CapturesFor, None
<1>3. CASE CapturesFor(q, s)
  <2>1. AbandonCapturing(s, reason)[q] =
            [run[q] EXCEPT !.status = "Abandoned", !.stopReason = reason]
    BY <1>2, <1>3 DEF AbandonCapturing
  <2> QED
    BY <1>1, <1>3, <2>1 DEF RunRow
<1>4. CASE ~CapturesFor(q, s)
  BY <1>2, <1>4 DEF AbandonCapturing
<1> QED
  BY <1>3, <1>4

LEMMA StepPromised == PromiseInv /\ [LifecycleNext]_lifecycleVars => PromiseStep
<1> SUFFICES ASSUME PromiseInv, [LifecycleNext]_lifecycleVars PROVE PromiseStep
  OBVIOUS
<1>1. PromiseInv' /\ TypeInv
  BY SessionsStep DEF PromiseInv, RunInv
<1>2. CASE run' = run
  BY <1>1, <1>2, NothingPromised DEF Same
<1>3. ASSUME NEW r \in Receipts, NEW d \in ClockSteps, receipt[r].status = "pending", StartRun(r, d)
      PROVE  PromiseStep
  <2> DEFINE s == SessionOf(r)
             abandoned == AbandonCapturing(s, "superseded")
  <2>1. s \in Sessions /\ run[r].status = None
    BY <1>1, <1>3 DEF TypeInv, AcceptedIsFilled, SessionOf, None, PromiseInv, RunInv, UnresolvedIsBlank
  <2>2. PICK n \in Receipts : run' = [abandoned EXCEPT ![r] =
                 [status |-> "Capturing", session |-> s, number |-> n, stopReason |-> None]]
    BY <1>3 DEF StartRun
  <2>3. DOMAIN abandoned = Receipts
    BY DEF AbandonCapturing
  <2>4. /\ run'[r].status = "Capturing" /\ run'[r].session = s
        /\ \A q \in Receipts \ {r} : run'[q] = abandoned[q]
    BY <2>2, <2>3
  <2>5. \A q \in Receipts \ {r} :
               /\ run'[q].session = run[q].session
               /\ run'[q].status = IF CapturesFor(q, s) THEN "Abandoned" ELSE run[q].status
    BY <1>1, <2>4, AbandonCases
  <2> QED
    BY <1>1, <2>1, <2>4, <2>5, StartingPromised
<1>4. ASSUME NEW r \in Receipts, NEW d \in ClockSteps, StopRun(r, d)
      PROVE  PromiseStep
  <2>1. PICK p \in Receipts : /\ IsLatestActive(p, SessionOf(r))
                              /\ run' = TransitionToFinalizing(p, receipt[r].hook)
    BY <1>4 DEF StopRun
  <2>2. run[p].status \in {"Capturing", "Finalizing"}
    BY <2>1 DEF IsLatestActive, ActiveRuns, Active
  <2>3. /\ run'[p].status = "Finalizing" /\ run'[p].session = run[p].session
        /\ \A q \in Receipts \ {p} : Same(q)
    BY <1>1, <2>1 DEF TransitionToFinalizing, TypeInv, LifecycleTypeOK, RunRow, Same
  <2>4. CASE run[p].status = "Capturing"
    BY <1>1, <2>3, <2>4, LeavingPromised
  <2>5. CASE run[p].status = "Finalizing"
    <3>1. \A q \in Receipts : Same(q)
      BY <2>3, <2>5 DEF Same
    <3> QED
      BY <1>1, <3>1, NothingPromised
  <2> QED
    BY <2>2, <2>4, <2>5
<1>5. ASSUME NEW r \in Receipts, NEW d \in ClockSteps, receipt[r].status = "pending", EndSession(r, d)
      PROVE  PromiseStep
  <2> DEFINE s == SessionOf(r)
  <2>1. CASE run' = AbandonCapturing(s, "ended")
    <3>1. s \in Sessions
      BY <1>1, <1>5 DEF TypeInv, AcceptedIsFilled, SessionOf, None
    <3>2. \A q \in Receipts :
               /\ run'[q].session = run[q].session
               /\ run'[q].status = IF CapturesFor(q, s) THEN "Abandoned" ELSE run[q].status
      BY <1>1, <2>1, AbandonCases
    <3>3. CASE \A q \in Receipts : ~CapturesFor(q, s)
      BY <1>1, <3>2, <3>3, NothingPromised DEF Same
    <3>4. ASSUME NEW p \in Receipts, CapturesFor(p, s)
          PROVE  PromiseStep
      <4>1. \A q \in Receipts : CapturesFor(q, s) => q = p
        BY <3>1, <3>4, OneOpenRun DEF OpenIsCapturing
      <4>2. \A q \in Receipts \ {p} : Same(q)
        BY <3>2, <4>1 DEF Same
      <4> QED
        BY <1>1, <3>2, <3>4, <4>2, LeavingPromised DEF CapturesFor
    <3> QED
      BY <3>3, <3>4
  <2> QED
    BY <1>2, <1>5, <2>1 DEF EndSession
<1>6. CASE SealRun
  <2>1. PICK p \in Receipts :
          \/ \E verdict \in {"Completed", "Partial", "Failed"} :
                 TransitionToTerminal(p, "Finalizing", verdict)
          \/ TransitionToTerminal(p, "Capturing", "Abandoned")
    BY <1>6 DEF SealRun
  <2>2. ASSUME NEW verdict, NEW expected, TransitionToTerminal(p, expected, verdict)
        PROVE  /\ run[p].status = expected /\ run'[p].status = verdict
               /\ run'[p].session = run[p].session
               /\ \A q \in Receipts \ {p} : Same(q)
    BY <1>1, <2>2 DEF TransitionToTerminal, TypeInv, LifecycleTypeOK, RunRow, Same
  <2>3. ASSUME NEW verdict \in {"Completed", "Partial", "Failed"},
               TransitionToTerminal(p, "Finalizing", verdict)
        PROVE  PromiseStep
    BY <1>1, <2>2, <2>3, JudgingPromised
  <2>4. CASE TransitionToTerminal(p, "Capturing", "Abandoned")
    BY <1>1, <2>2, <2>4, LeavingPromised
  <2> QED
    BY <2>1, <2>3, <2>4
<1>7. CASE ResolveOldest
  <2>1. PICK r \in Receipts, d \in ClockSteps :
        /\ receipt[r].status = "pending"
        /\ \/ RejectReceipt(r, d) \/ StartSession(r, d) \/ StartRun(r, d) \/ JoinRun(r, d)
           \/ StopRun(r, d) \/ MissRun(r, d) \/ EndSession(r, d) \/ FailReceipt(r, d)
    BY <1>7 DEF ResolveOldest, Resolve
  <2> QED
    BY <1>2, <1>3, <1>4, <1>5, <2>1
       DEF RejectReceipt, StartSession, JoinRun, MissRun, FailReceipt
<1> QED
  BY <1>2, <1>6, <1>7 DEF LifecycleNext, AcceptAny, Accept, lifecycleVars

LEMMA PromiseStart == LifecycleInit => PromiseInv /\ Promise!Init
<1> SUFFICES ASSUME LifecycleInit PROVE PromiseInv /\ Promise!Init
  OBVIOUS
<1>1. PromiseInv
  BY RunInit DEF LifecycleInit, PromiseInv, RunsHaveSessions
<1>2. \A s : RunsOf(s) = {}
  BY DEF LifecycleInit, RunsOf
<1>3. \A q \in Receipts : run[q].status = None
  BY DEF LifecycleInit
<1> QED
  BY <1>1, <1>2, <1>3 DEF Promise!Init, CapturingRun, Terminal, None

(***************************************************************************)
(* The rows of task_runs keep the promise about runs, for any number of    *)
(* receipts, sessions and failures: one open run per conversation, a new   *)
(* one displaces it, and every run is judged once.                         *)
(***************************************************************************)
THEOREM RunsKeepTheirPromise == LifecycleSafety => KeepsRunPromise
<1>1. PromiseInv /\ [LifecycleNext]_lifecycleVars => [Promise!Next]_(Promise!promiseVars)
  BY StepPromised DEF PromiseStep, OpenRuns, ClosingRuns, Judged, Promise!promiseVars
<1> QED
  BY <1>1, PromiseStart, SessionsStep, PTL DEF LifecycleSafety, KeepsRunPromise, Promise!Spec

=============================================================================
