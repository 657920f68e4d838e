----------------------------- MODULE ViewerProofs -----------------------------
(***************************************************************************)
(* Proofs about the replay viewer and the answers it sends to the daemon,  *)
(* for any runs, questions, views, retries, lost requests and deletions.   *)
(***************************************************************************)
EXTENDS Viewer, FiniteSetTheorems, TLAPS

Asks == [run: ReplayRuns, question: Questions]

Given(r, q) == {i \in Recorded(r) : interaction[i].ask.question = q}

IsLatest(i, r, q) == /\ i \in Given(r, q)
                     /\ \A j \in Given(r, q) : interaction[j].at <= interaction[i].at

-----------------------------------------------------------------------------
(* The daemon's side *)

(***************************************************************************)
(* A row says what its interaction asked for, and its run exists.          *)
(***************************************************************************)
RowsAnswerAsks ==
    \A i \in Interactions : interaction[i] # NoRow =>
        /\ asked[i] \in Asks
        /\ interaction[i].ask = asked[i]
        /\ asked[i].run \in known
        /\ interaction[i].at \in 1 .. recordedAt

RowsAreOrdered ==
    \A i, j \in Interactions :
        (interaction[i] # NoRow /\ interaction[j] # NoRow
            /\ interaction[i].at = interaction[j].at) => i = j

SomeAnswerIsLatest ==
    \A r \in ReplayRuns, q \in Questions :
        Given(r, q) # {} => \E i \in Interactions : IsLatest(i, r, q)

CallsWereAsked ==
    \A i \in Interactions, t \in Tries : call[i][t] # "none" => asked[i] \in Asks

DaemonInv ==
    /\ InteractionTypeOK
    /\ \A i \in Interactions : asked[i] # NoAsk => asked[i] \in Asks
    /\ RowsAnswerAsks
    /\ RowsAreOrdered
    /\ SomeAnswerIsLatest
    /\ CallsWereAsked

(***************************************************************************)
(* The only things that happen to the daemon's state.                      *)
(***************************************************************************)
AsksFor(i, r, q) ==
    /\ asked[i] = NoAsk
    /\ asked' = [asked EXCEPT ![i] = [run |-> r, question |-> q]]
    /\ \E t \in Tries : call' = [call EXCEPT ![i][t] = "arrived"]
    /\ UNCHANGED <<known, interaction, recordedAt>>

Repeats(i, t) ==
    /\ asked[i] \in Asks
    /\ call' = [call EXCEPT ![i][t] = "arrived"]
    /\ UNCHANGED <<known, interaction, asked, recordedAt>>

DaemonMoves ==
    \/ \E i \in Interactions, t \in Tries :
           VerifyProjection(i, t) \/ RecordInteraction(i, t) \/ Repeats(i, t)
    \/ \E i \in Interactions, r \in ReplayRuns, q \in Questions : AsksFor(i, r, q)
    \/ \E r \in ReplayRuns : DeleteKnownRun(r)
    \/ UNCHANGED daemonVars

LEMMA AnswerFacts ==
    /\ Interactions \subseteq Nat \ {0}
    /\ Unanswered \notin ReplayRuns /\ Unanswered \notin Questions
    /\ Unanswered \notin Interactions
    /\ NoAsk \notin Asks
BY InteractionConstants DEF InteractionConstants, Interactions, NoAsk, Asks

LEMMA AnswerStart == InteractionInit => DaemonInv
<1> SUFFICES ASSUME InteractionInit PROVE DaemonInv
  OBVIOUS
<1>1. InteractionTypeOK
  BY DEF InteractionInit, InteractionTypeOK, NoRow, NoAsk, CallPhases
<1>2. \A i \in Interactions : interaction[i] = NoRow /\ asked[i] = NoAsk
  BY DEF InteractionInit
<1>3. \A i \in Interactions, t \in Tries : call[i][t] = "none"
  BY DEF InteractionInit
<1>4. \A r : Recorded(r) = {}
  BY <1>2 DEF Recorded, NoRow
<1>5. SomeAnswerIsLatest
  BY <1>4 DEF SomeAnswerIsLatest, Given
<1> QED
  BY <1>1, <1>2, <1>3, <1>5 DEF DaemonInv, RowsAnswerAsks, RowsAreOrdered, CallsWereAsked

(***************************************************************************)
(* What counts for a run are its rows.                                     *)
(***************************************************************************)
LEMMA RecordedRows ==
    ASSUME DaemonInv
    PROVE  \A r, q : \A i \in Interactions :
               /\ i \in Recorded(r) <=> interaction[i] # NoRow /\ interaction[i].ask.run = r
               /\ i \in Given(r, q) <=> /\ interaction[i] # NoRow
                                        /\ interaction[i].ask.run = r
                                        /\ interaction[i].ask.question = q
BY AnswerFacts DEF DaemonInv, RowsAnswerAsks, Recorded, Given, NoRow

(***************************************************************************)
(* The row with the latest time is the one the query finds.                *)
(***************************************************************************)
LEMMA LatestIsFound ==
    ASSUME DaemonInv, NEW r \in ReplayRuns, NEW q \in Questions
    PROVE  /\ \A i \in Interactions : LatestAnswer(r, q) = i <=> IsLatest(i, r, q)
           /\ LatestAnswer(r, q) = Unanswered <=> Given(r, q) = {}
           /\ LatestAnswer(r, q) \in Interactions \cup {Unanswered}
<1>1. CASE Given(r, q) = {}
  BY <1>1, AnswerFacts DEF LatestAnswer, IsLatest, Given
<1>2. CASE Given(r, q) # {}
  <2>1. \A i, j \in Interactions : IsLatest(i, r, q) /\ IsLatest(j, r, q) => i = j
    <3> SUFFICES ASSUME NEW i \in Interactions, NEW j \in Interactions,
                        IsLatest(i, r, q), IsLatest(j, r, q)
                 PROVE  i = j
      OBVIOUS
    <3>1. interaction[i].at = interaction[j].at
      <4>1. interaction[i].at \in Nat /\ interaction[j].at \in Nat
        BY DEF DaemonInv, InteractionTypeOK
      <4>2. interaction[i].at <= interaction[j].at /\ interaction[j].at <= interaction[i].at
        BY DEF IsLatest
      <4> QED
        BY <4>1, <4>2
    <3>2. interaction[i] # NoRow /\ interaction[j] # NoRow
      BY RecordedRows DEF IsLatest
    <3> QED
      BY <3>1, <3>2 DEF DaemonInv, RowsAreOrdered
  <2>2. \E i \in Given(r, q) : \A j \in Given(r, q) : interaction[j].at <= interaction[i].at
    BY <1>2 DEF DaemonInv, SomeAnswerIsLatest, IsLatest
  <2>3. LatestAnswer(r, q) = CHOOSE i \in Given(r, q) :
            \A j \in Given(r, q) : interaction[j].at <= interaction[i].at
    BY <1>2 DEF LatestAnswer, Given
  <2>4. IsLatest(LatestAnswer(r, q), r, q)
    BY <2>2, <2>3 DEF IsLatest
  <2>5. LatestAnswer(r, q) \in Interactions
    BY <2>4 DEF IsLatest, Given, Recorded
  <2> QED
    BY <1>2, <2>1, <2>4, <2>5, AnswerFacts
<1> QED
  BY <1>1, <1>2

-----------------------------------------------------------------------------
(* What each operation of the daemon preserves *)

LEMMA RowsKept ==
    ASSUME DaemonInv, InteractionTypeOK', UNCHANGED <<known, interaction, recordedAt>>,
           \A i \in Interactions : asked[i] \in Asks => asked'[i] = asked[i],
           \A i \in Interactions : asked'[i] # NoAsk => asked'[i] \in Asks,
           \A i \in Interactions, t \in Tries : call'[i][t] # "none" => asked'[i] \in Asks
    PROVE  DaemonInv'
<1>1. RowsAnswerAsks' /\ RowsAreOrdered'
  BY DEF DaemonInv, RowsAnswerAsks, RowsAreOrdered
<1>2. SomeAnswerIsLatest'
  BY DEF DaemonInv, SomeAnswerIsLatest, IsLatest, Given, Recorded
<1>3. CallsWereAsked'
  BY DEF CallsWereAsked
<1> QED
  BY <1>1, <1>2, <1>3 DEF DaemonInv

LEMMA CallUpdate ==
    ASSUME InteractionTypeOK, NEW i \in Interactions, NEW t \in Tries, NEW phase \in CallPhases,
           call' = [call EXCEPT ![i][t] = phase]
    PROVE  /\ call' \in [Interactions -> [Tries -> CallPhases]]
           /\ \A j \in Interactions, u \in Tries :
                  call'[j][u] = IF j = i /\ u = t THEN phase ELSE call[j][u]
BY DEF InteractionTypeOK

LEMMA VerifyStep ==
    ASSUME DaemonInv, NEW i \in Interactions, NEW t \in Tries, VerifyProjection(i, t)
    PROVE  DaemonInv'
<1>1. PICK phase \in CallPhases : call' = [call EXCEPT ![i][t] = phase]
  BY DEF VerifyProjection, SetCall, CallPhases
<1>2. /\ call' \in [Interactions -> [Tries -> CallPhases]]
      /\ \A j \in Interactions, u \in Tries :
             call'[j][u] = IF j = i /\ u = t THEN phase ELSE call[j][u]
  BY <1>1, CallUpdate DEF DaemonInv
<1>3. UNCHANGED <<known, interaction, asked, recordedAt>> /\ call[i][t] = "arrived"
  BY DEF VerifyProjection
<1>4. InteractionTypeOK'
  BY <1>2, <1>3 DEF DaemonInv, InteractionTypeOK
<1>5. \A j \in Interactions, u \in Tries : call'[j][u] # "none" => asked'[j] \in Asks
  BY <1>2, <1>3 DEF DaemonInv, CallsWereAsked
<1> QED
  BY <1>3, <1>4, <1>5, RowsKept DEF DaemonInv

LEMMA RepeatStep ==
    ASSUME DaemonInv, NEW i \in Interactions, NEW t \in Tries, Repeats(i, t)
    PROVE  DaemonInv'
<1>1. /\ call' \in [Interactions -> [Tries -> CallPhases]]
      /\ \A j \in Interactions, u \in Tries :
             call'[j][u] = IF j = i /\ u = t THEN "arrived" ELSE call[j][u]
  <2>1. "arrived" \in CallPhases
    BY DEF CallPhases
  <2>2. InteractionTypeOK /\ call' = [call EXCEPT ![i][t] = "arrived"]
    BY DEF DaemonInv, Repeats
  <2> QED
    BY <2>1, <2>2, CallUpdate
<1>2. UNCHANGED <<known, interaction, asked, recordedAt>> /\ asked[i] \in Asks
  BY DEF Repeats
<1>3. InteractionTypeOK'
  BY <1>1, <1>2 DEF DaemonInv, InteractionTypeOK
<1>4. \A j \in Interactions, u \in Tries : call'[j][u] # "none" => asked'[j] \in Asks
  BY <1>1, <1>2 DEF DaemonInv, CallsWereAsked
<1> QED
  BY <1>2, <1>3, <1>4, RowsKept DEF DaemonInv

LEMMA AskStep ==
    ASSUME DaemonInv, NEW i \in Interactions, NEW r \in ReplayRuns, NEW q \in Questions,
           AsksFor(i, r, q)
    PROVE  DaemonInv'
<1>1. PICK t \in Tries : call' = [call EXCEPT ![i][t] = "arrived"]
  BY DEF AsksFor
<1>2. /\ call' \in [Interactions -> [Tries -> CallPhases]]
      /\ \A j \in Interactions, u \in Tries :
             call'[j][u] = IF j = i /\ u = t THEN "arrived" ELSE call[j][u]
  <2>1. "arrived" \in CallPhases
    BY DEF CallPhases
  <2>2. InteractionTypeOK
    BY DEF DaemonInv
  <2> QED
    BY <1>1, <2>1, <2>2, CallUpdate
<1>3. [run |-> r, question |-> q] \in Asks
  BY DEF Asks
<1>4. /\ UNCHANGED <<known, interaction, recordedAt>> /\ asked[i] = NoAsk
      /\ asked' = [asked EXCEPT ![i] = [run |-> r, question |-> q]]
  BY DEF AsksFor
<1>5. asked' \in [Interactions -> [run: ReplayRuns \cup {Unanswered},
                                   question: Questions \cup {Unanswered}]]
  BY <1>3, <1>4 DEF DaemonInv, InteractionTypeOK, Asks
<1>6. InteractionTypeOK'
  BY <1>2, <1>4, <1>5 DEF DaemonInv, InteractionTypeOK
<1>7. /\ \A j \in Interactions \ {i} : asked'[j] = asked[j]
      /\ asked'[i] \in Asks /\ asked[i] \notin Asks
  BY <1>3, <1>4, AnswerFacts DEF DaemonInv, InteractionTypeOK
<1>8. \A j \in Interactions, u \in Tries : call'[j][u] # "none" => asked'[j] \in Asks
  BY <1>2, <1>7 DEF DaemonInv, CallsWereAsked
<1> QED
  BY <1>4, <1>6, <1>7, <1>8, RowsKept DEF DaemonInv

(***************************************************************************)
(* A new row is later than all the others.                                 *)
(***************************************************************************)
LEMMA InsertStep ==
    ASSUME DaemonInv, NEW i \in Interactions, NEW t \in Tries, call[i][t] # "none",
           interaction[i] = NoRow, asked[i].run \in known,
           interaction' = [interaction EXCEPT ![i] = [ask |-> asked[i], at |-> recordedAt + 1]],
           recordedAt' = recordedAt + 1,
           call' = [call EXCEPT ![i][t] = "accepted"],
           UNCHANGED <<known, asked>>
    PROVE  /\ DaemonInv'
           /\ asked[i] \in Asks
           /\ \A r \in ReplayRuns, q \in Questions :
                  Given(r, q)' = IF asked[i] = [run |-> r, question |-> q]
                                 THEN Given(r, q) \cup {i} ELSE Given(r, q)
           /\ \A r \in ReplayRuns, q \in Questions :
                  asked[i] = [run |-> r, question |-> q] => IsLatest(i, r, q)'
           /\ \A r \in ReplayRuns, q \in Questions : \A j \in Interactions :
                  asked[i] # [run |-> r, question |-> q] =>
                      (IsLatest(j, r, q)' <=> IsLatest(j, r, q))
<1>1. /\ asked[i] \in Asks
      /\ recordedAt \in Nat
      /\ interaction \in [Interactions -> [ask: Asks \cup {NoAsk}, at: Nat]]
  <2>1. \A j \in Interactions : interaction[j].ask \in Asks \cup {NoAsk}
    BY DEF DaemonInv, RowsAnswerAsks, NoRow
  <2> QED
    BY <2>1 DEF DaemonInv, CallsWereAsked, InteractionTypeOK
<1>2. /\ interaction'[i].ask = asked[i] /\ interaction'[i].at = recordedAt + 1
      /\ interaction'[i] # NoRow
      /\ \A j \in Interactions \ {i} : interaction'[j] = interaction[j]
  BY <1>1, AnswerFacts DEF NoRow
<1>3. InteractionTypeOK'
  <2>1. call' \in [Interactions -> [Tries -> CallPhases]]
    <3>1. "accepted" \in CallPhases
      BY DEF CallPhases
    <3> QED
      BY <3>1, CallUpdate DEF DaemonInv
  <2>2. [ask |-> asked[i], at |-> recordedAt + 1] \in
            [ask: [run: ReplayRuns \cup {Unanswered}, question: Questions \cup {Unanswered}],
             at: Nat]
    BY <1>1 DEF Asks
  <2> QED
    BY <2>1, <2>2 DEF DaemonInv, InteractionTypeOK
<1>4. RowsAnswerAsks'
  BY <1>1, <1>2 DEF DaemonInv, RowsAnswerAsks
<1>5. RowsAreOrdered'
  BY <1>1, <1>2 DEF DaemonInv, RowsAreOrdered, RowsAnswerAsks
<1>6. \A j \in Interactions, u \in Tries : call'[j][u] # "none" => asked[j] \in Asks
  <2>1. "accepted" \in CallPhases
    BY DEF CallPhases
  <2>2. \A j \in Interactions, u \in Tries :
             call'[j][u] = IF j = i /\ u = t THEN "accepted" ELSE call[j][u]
    BY <2>1, CallUpdate DEF DaemonInv
  <2> QED
    BY <1>1, <2>2 DEF DaemonInv, CallsWereAsked
<1>7. \A r \in ReplayRuns, q \in Questions :
          Given(r, q)' = IF asked[i] = [run |-> r, question |-> q]
                         THEN Given(r, q) \cup {i} ELSE Given(r, q)
  <2>1. SUFFICES ASSUME NEW r \in ReplayRuns, NEW q \in Questions
                 PROVE  Given(r, q)' = IF asked[i] = [run |-> r, question |-> q]
                                       THEN Given(r, q) \cup {i} ELSE Given(r, q)
    OBVIOUS
  <2>2. asked[i] = [run |-> r, question |-> q] <=> asked[i].run = r /\ asked[i].question = q
    BY <1>1 DEF Asks
  <2>3. Given(r, q) \subseteq Interactions /\ Given(r, q)' \subseteq Interactions
    BY DEF Given, Recorded
  <2>4. i \notin Given(r, q)
    BY DEF Given, Recorded, NoRow
  <2>5. i \in Given(r, q)' <=> asked[i].run = r /\ asked[i].question = q
    BY <1>1, <1>2, AnswerFacts DEF Given, Recorded
  <2>6. \A j \in Interactions \ {i} : j \in Given(r, q)' <=> j \in Given(r, q)
    BY <1>2 DEF Given, Recorded
  <2> QED
    BY <2>2, <2>3, <2>4, <2>5, <2>6
<1>8. ASSUME NEW r \in ReplayRuns, NEW q \in Questions, asked[i] = [run |-> r, question |-> q]
      PROVE  IsLatest(i, r, q)'
  <2>1. i \in Given(r, q)'
    BY <1>7, <1>8
  <2>2. ASSUME NEW j \in Given(r, q)' PROVE interaction'[j].at <= interaction'[i].at
    <3>1. CASE j = i
      BY <1>1, <1>2, <3>1
    <3>2. CASE j # i
      <4>1. j \in Given(r, q) /\ j \in Interactions
        BY <1>7, <1>8, <2>2, <3>2 DEF Given, Recorded
      <4>2. interaction[j].at \in 1 .. recordedAt
        BY <4>1, RecordedRows DEF DaemonInv, RowsAnswerAsks
      <4> QED
        BY <1>1, <1>2, <3>2, <4>1, <4>2
    <3> QED
      BY <3>1, <3>2
  <2> QED
    BY <2>1, <2>2 DEF IsLatest
<1>9. ASSUME NEW r \in ReplayRuns, NEW q \in Questions, NEW j \in Interactions,
             asked[i] # [run |-> r, question |-> q]
      PROVE  IsLatest(j, r, q)' <=> IsLatest(j, r, q)
  <2>1. Given(r, q)' = Given(r, q) /\ i \notin Given(r, q)
    BY <1>7, <1>9 DEF Given, Recorded, NoRow
  <2>2. \A k \in Given(r, q) : interaction'[k] = interaction[k]
    BY <1>2, <2>1 DEF Given, Recorded
  <2> QED
    BY <2>1, <2>2 DEF IsLatest
<1>10. SomeAnswerIsLatest'
  <2> SUFFICES ASSUME NEW r \in ReplayRuns, NEW q \in Questions, Given(r, q)' # {}
               PROVE  \E j \in Interactions : IsLatest(j, r, q)'
    BY DEF SomeAnswerIsLatest
  <2>1. CASE asked[i] = [run |-> r, question |-> q]
    BY <1>8, <2>1
  <2>2. CASE asked[i] # [run |-> r, question |-> q]
    BY <1>7, <1>9, <2>2 DEF DaemonInv, SomeAnswerIsLatest
  <2> QED
    BY <2>1, <2>2
<1>11. CallsWereAsked'
  BY <1>6 DEF CallsWereAsked
<1>12. \A j \in Interactions : asked'[j] # NoAsk => asked'[j] \in Asks
  BY DEF DaemonInv
<1> QED
  BY <1>1, <1>3, <1>4, <1>5, <1>7, <1>8, <1>9, <1>10, <1>11, <1>12 DEF DaemonInv

(***************************************************************************)
(* A deletion takes the rows of its run, and no others.                    *)
(***************************************************************************)
LEMMA DeleteStep ==
    ASSUME DaemonInv, NEW d \in ReplayRuns, DeleteKnownRun(d)
    PROVE  /\ DaemonInv'
           /\ \A r \in ReplayRuns, q \in Questions :
                  Given(r, q)' = IF r = d THEN {} ELSE Given(r, q)
           /\ \A r \in ReplayRuns \ {d}, q \in Questions : \A j \in Interactions :
                  IsLatest(j, r, q)' <=> IsLatest(j, r, q)
<1>1. /\ d \in known /\ known' = known \ {d}
      /\ \A i \in Interactions :
             interaction'[i] = IF i \in Recorded(d) THEN NoRow ELSE interaction[i]
      /\ UNCHANGED <<asked, call, recordedAt>>
  BY DEF DeleteKnownRun
<1>2. InteractionTypeOK'
  <2>1. NoRow \in [ask: [run: ReplayRuns \cup {Unanswered}, question: Questions \cup {Unanswered}],
                   at: Nat]
    BY DEF NoRow, NoAsk
  <2>2. interaction' = [i \in Interactions |->
                            IF i \in Recorded(d) THEN NoRow ELSE interaction[i]]
    BY DEF DeleteKnownRun
  <2> HIDE DEF NoRow
  <2> QED
    BY <1>1, <2>1, <2>2 DEF DaemonInv, InteractionTypeOK
<1>3. \A i \in Interactions : interaction'[i] # NoRow =>
          interaction'[i] = interaction[i] /\ interaction[i].ask.run # d
  BY <1>1, RecordedRows
<1>4. RowsAnswerAsks'
  BY <1>1, <1>3 DEF DaemonInv, RowsAnswerAsks
<1>5. RowsAreOrdered'
  BY <1>3 DEF DaemonInv, RowsAreOrdered
<1>6. ASSUME NEW r \in ReplayRuns, NEW q \in Questions
      PROVE  Given(r, q)' = IF r = d THEN {} ELSE Given(r, q)
  <2>1. Given(r, q) \subseteq Interactions /\ Given(r, q)' \subseteq Interactions
    BY DEF Given, Recorded
  <2>2. \A i \in Interactions : i \in Given(r, q)' <=>
            interaction'[i] # NoRow /\ interaction'[i].ask.run = r
                /\ interaction'[i].ask.question = q
    BY <1>3, <1>4, AnswerFacts DEF Given, Recorded, RowsAnswerAsks, NoRow
  <2>3. \A i \in Interactions : i \in Given(r, q)' <=> r # d /\ i \in Given(r, q)
    BY <1>1, <1>3, <2>2, RecordedRows
  <2> QED
    BY <2>1, <2>3
<1>7. ASSUME NEW r \in ReplayRuns \ {d}, NEW q \in Questions, NEW j \in Interactions
      PROVE  IsLatest(j, r, q)' <=> IsLatest(j, r, q)
  <2>1. Given(r, q)' = Given(r, q)
    BY <1>6
  <2>2. \A k \in Given(r, q) : interaction'[k] = interaction[k]
    <3> SUFFICES ASSUME NEW k \in Given(r, q) PROVE interaction'[k] = interaction[k]
      OBVIOUS
    <3>1. k \in Interactions /\ k \notin Recorded(d)
      BY <1>7, RecordedRows DEF Given, Recorded
    <3> QED
      BY <1>1, <3>1
  <2> QED
    BY <2>1, <2>2 DEF IsLatest
<1>8. SomeAnswerIsLatest'
  BY <1>6, <1>7 DEF DaemonInv, SomeAnswerIsLatest
<1>9. CallsWereAsked' /\ \A i \in Interactions : asked'[i] # NoAsk => asked'[i] \in Asks
  BY <1>1 DEF DaemonInv, CallsWereAsked
<1> QED
  BY <1>2, <1>4, <1>5, <1>6, <1>7, <1>8, <1>9 DEF DaemonInv

(***************************************************************************)
(* The transaction of one request either inserts its row or leaves all     *)
(* rows alone.                                                             *)
(***************************************************************************)
Inserts(i, t) ==
    /\ call[i][t] # "none"
    /\ interaction[i] = NoRow /\ asked[i].run \in known
    /\ interaction' = [interaction EXCEPT ![i] = [ask |-> asked[i], at |-> recordedAt + 1]]
    /\ recordedAt' = recordedAt + 1
    /\ call' = [call EXCEPT ![i][t] = "accepted"]
    /\ UNCHANGED <<known, asked>>

LEMMA RecordTransaction ==
    ASSUME DaemonInv, NEW i \in Interactions, NEW t \in Tries, RecordInteraction(i, t)
    PROVE  \/ Inserts(i, t)
           \/ DaemonInv' /\ UNCHANGED <<known, interaction, asked, recordedAt>>
<1>1. CASE interaction[i] = NoRow /\ asked[i].run \in known
  BY <1>1 DEF RecordInteraction, StillKnown, SetCall, Inserts
<1>2. CASE ~(interaction[i] = NoRow /\ asked[i].run \in known)
  <2>1. /\ UNCHANGED <<known, interaction, asked, recordedAt>> /\ call[i][t] = "verified"
        /\ call' = [call EXCEPT ![i][t] =
                        IF interaction[i].ask = asked[i] THEN "accepted" ELSE "refused"]
    BY <1>2 DEF RecordInteraction, StillKnown, SetCall
  <2>2. PICK phase \in CallPhases : call' = [call EXCEPT ![i][t] = phase]
    BY <2>1 DEF CallPhases
  <2>3. /\ call' \in [Interactions -> [Tries -> CallPhases]]
        /\ \A j \in Interactions, u \in Tries :
               call'[j][u] = IF j = i /\ u = t THEN phase ELSE call[j][u]
    BY <2>2, CallUpdate DEF DaemonInv
  <2>4. InteractionTypeOK'
    BY <2>1, <2>3 DEF DaemonInv, InteractionTypeOK
  <2>5. \A j \in Interactions, u \in Tries : call'[j][u] # "none" => asked'[j] \in Asks
    BY <2>1, <2>3 DEF DaemonInv, CallsWereAsked
  <2> QED
    BY <2>1, <2>4, <2>5, RowsKept DEF DaemonInv
<1> QED
  BY <1>1, <1>2

LEMMA DaemonKept == DaemonInv /\ DaemonMoves => DaemonInv'
<1> SUFFICES ASSUME DaemonInv, DaemonMoves PROVE DaemonInv'
  OBVIOUS
<1>1. ASSUME NEW i \in Interactions, NEW t \in Tries, RecordInteraction(i, t)
      PROVE  DaemonInv'
  BY <1>1, RecordTransaction, InsertStep DEF Inserts
<1>2. CASE UNCHANGED daemonVars
  BY <1>2, RowsKept
     DEF daemonVars, DaemonInv, InteractionTypeOK, CallsWereAsked
<1> QED
  BY <1>1, <1>2, VerifyStep, RepeatStep, AskStep, DeleteStep DEF DaemonMoves

-----------------------------------------------------------------------------
(* The answer promise *)

Applied == [r \in ReplayRuns |-> Recorded(r)]
Answers == [r \in ReplayRuns |-> [q \in Questions |-> LatestAnswer(r, q)]]
Gone    == ReplayRuns \ known

KeepsPromise == [Promised!Next]_(Promised!promiseVars)

AnswersAreFound ==
    \A r \in ReplayRuns, q \in Questions :
        /\ \A i \in Interactions : LatestAnswer(r, q) = i <=> IsLatest(i, r, q)
        /\ LatestAnswer(r, q) = Unanswered <=> Given(r, q) = {}
        /\ LatestAnswer(r, q) \in Interactions \cup {Unanswered}

RecordedAreRows ==
    \A r \in ReplayRuns : \A i \in Interactions :
        i \in Recorded(r) <=> interaction[i] # NoRow /\ interaction[i].ask.run = r

LEMMA QueriesHold == DaemonInv => AnswersAreFound /\ RecordedAreRows
BY LatestIsFound, RecordedRows DEF AnswersAreFound, RecordedAreRows

LEMMA QueriesHoldNext == DaemonInv' => AnswersAreFound' /\ RecordedAreRows'
BY QueriesHold, PTL

(***************************************************************************)
(* The answers after a step, for runs and questions whose rows it leaves.  *)
(***************************************************************************)
LEMMA SameAnswer ==
    ASSUME DaemonInv, DaemonInv', NEW r \in ReplayRuns, NEW q \in Questions,
           Given(r, q)' = {} <=> Given(r, q) = {},
           \A j \in Interactions : IsLatest(j, r, q)' <=> IsLatest(j, r, q)
    PROVE  LatestAnswer(r, q)' = LatestAnswer(r, q)
BY QueriesHold, QueriesHoldNext, AnswerFacts DEF AnswersAreFound

LEMMA RowsKeptPromised ==
    ASSUME DaemonInv, DaemonInv', UNCHANGED interaction, UNCHANGED known
    PROVE  Applied' = Applied /\ Answers' = Answers /\ Gone' = Gone
<1>1. \A r : Recorded(r)' = Recorded(r)
  BY DEF Recorded
<1>2. \A r \in ReplayRuns, q \in Questions : LatestAnswer(r, q)' = LatestAnswer(r, q)
  <2>1. \A r, q : Given(r, q)' = Given(r, q)
    BY <1>1 DEF Given
  <2>2. \A r, q : \A j : IsLatest(j, r, q)' <=> IsLatest(j, r, q)
    BY <2>1 DEF IsLatest
  <2> QED
    BY <2>1, <2>2, SameAnswer
<1> QED
  BY <1>1, <1>2 DEF Applied, Answers, Gone

LEMMA InsertRecorded ==
    ASSUME DaemonInv, DaemonInv', NEW i \in Interactions, NEW t \in Tries, Inserts(i, t),
           NEW r \in ReplayRuns
    PROVE  Recorded(r)' = IF asked[i].run = r THEN Recorded(r) \cup {i} ELSE Recorded(r)
<1>1. /\ interaction'[i].ask = asked[i] /\ asked[i] \in Asks
      /\ \A j \in Interactions \ {i} : interaction'[j] = interaction[j]
  BY InsertStep DEF Inserts, DaemonInv, InteractionTypeOK
<1>2. i \notin Recorded(r)
  BY DEF Inserts, Recorded, NoRow
<1>3. i \in Recorded(r)' <=> asked[i].run = r
  BY <1>1, AnswerFacts DEF Recorded
<1>4. \A j \in Interactions \ {i} : j \in Recorded(r)' <=> j \in Recorded(r)
  BY <1>1 DEF Recorded
<1>5. Recorded(r) \subseteq Interactions /\ Recorded(r)' \subseteq Interactions
  BY DEF Recorded
<1> QED
  BY <1>2, <1>3, <1>4, <1>5

LEMMA DeleteRecorded ==
    ASSUME DaemonInv, DaemonInv', NEW d \in ReplayRuns, DeleteKnownRun(d), NEW r \in ReplayRuns
    PROVE  Recorded(r)' = IF r = d THEN {} ELSE Recorded(r)
<1>1. \A j \in Interactions :
          interaction'[j] = IF j \in Recorded(d) THEN NoRow ELSE interaction[j]
  BY DEF DeleteKnownRun
<1>2. \A j \in Interactions : j \in Recorded(r)' <=> r # d /\ j \in Recorded(r)
  BY <1>1, QueriesHold, QueriesHoldNext DEF RecordedAreRows
<1>3. Recorded(r) \subseteq Interactions /\ Recorded(r)' \subseteq Interactions
  BY DEF Recorded
<1> QED
  BY <1>2, <1>3

LEMMA InsertPromised ==
    ASSUME DaemonInv, NEW i \in Interactions, NEW t \in Tries, Inserts(i, t)
    PROVE  KeepsPromise
<1> DEFINE r == asked[i].run
           q == asked[i].question
<1>1. DaemonInv'
  BY InsertStep DEF Inserts
<1>2. /\ asked[i] \in Asks /\ r \in ReplayRuns /\ q \in Questions
      /\ asked[i] = [run |-> r, question |-> q]
  BY InsertStep DEF Inserts, Asks
<1>3. r \in known /\ UNCHANGED <<known, asked>> /\ i \notin Recorded(r)
  BY DEF Inserts, Recorded, NoRow
<1> HIDE DEF r, q
<1>4. Applied' = [Applied EXCEPT ![r] = @ \cup {i}]
  BY <1>1, <1>2, InsertRecorded DEF Applied, r
<1>5. ASSUME NEW u \in ReplayRuns, NEW v \in Questions
      PROVE  LatestAnswer(u, v)' = IF u = r /\ v = q THEN i ELSE LatestAnswer(u, v)
  <2>1. CASE u = r /\ v = q
    <3>1. IsLatest(i, u, v)'
      BY <1>2, <2>1, InsertStep DEF Inserts
    <3> QED
      BY <1>1, <2>1, <3>1, QueriesHoldNext DEF AnswersAreFound
  <2>2. CASE ~(u = r /\ v = q)
    <3>1. asked[i] # [run |-> u, question |-> v]
      BY <1>2, <2>2
    <3>2. /\ Given(u, v)' = Given(u, v)
          /\ \A j \in Interactions : IsLatest(j, u, v)' <=> IsLatest(j, u, v)
      BY <3>1, InsertStep DEF Inserts
    <3>3. LatestAnswer(u, v)' = LatestAnswer(u, v)
      BY <1>1, <3>2, SameAnswer
    <3> QED
      BY <2>2, <3>3
  <2> QED
    BY <2>1, <2>2
<1>6. Answers' = [Answers EXCEPT ![r][q] = i]
  BY <1>2, <1>5 DEF Answers
<1>7. Promised!Apply(i)
  <2>1. asked[i] # NoAsk /\ asked[i].run = r /\ asked[i].question = q
    BY <1>2, AnswerFacts DEF r, q
  <2> QED
    BY <1>2, <1>3, <1>4, <1>6, <2>1 DEF Promised!Apply, Applied, Answers, Gone
<1> QED
  BY <1>7 DEF KeepsPromise, Promised!Next

LEMMA DeletePromised ==
    ASSUME DaemonInv, NEW d \in ReplayRuns, DeleteKnownRun(d)
    PROVE  KeepsPromise
<1>1. DaemonInv'
  BY DeleteStep
<1>2. Applied' = [Applied EXCEPT ![d] = {}]
  BY <1>1, DeleteRecorded DEF Applied
<1>3. ASSUME NEW u \in ReplayRuns, NEW v \in Questions
      PROVE  LatestAnswer(u, v)' = IF u = d THEN Unanswered ELSE LatestAnswer(u, v)
  <2>1. CASE u = d
    <3>1. Given(u, v)' = {}
      BY <2>1, DeleteStep
    <3> QED
      BY <1>1, <2>1, <3>1, QueriesHoldNext DEF AnswersAreFound
  <2>2. CASE u # d
    <3>1. /\ Given(u, v)' = Given(u, v)
          /\ \A j \in Interactions : IsLatest(j, u, v)' <=> IsLatest(j, u, v)
      BY <2>2, DeleteStep
    <3> QED
      BY <1>1, <2>2, <3>1, SameAnswer
  <2> QED
    BY <2>1, <2>2
<1>4. Answers' = [Answers EXCEPT ![d] = [q \in Questions |-> Unanswered]]
  BY <1>3 DEF Answers
<1>5. Gone' = Gone \cup {d} /\ asked' = asked
  BY DEF DeleteKnownRun, Gone
<1>6. Promised!Forget(d)
  BY <1>2, <1>4, <1>5 DEF Promised!Forget, Applied, Answers, Gone
<1> QED
  BY <1>6 DEF KeepsPromise, Promised!Next

LEMMA DaemonPromised == DaemonInv /\ DaemonMoves => KeepsPromise
<1> SUFFICES ASSUME DaemonInv, DaemonMoves PROVE KeepsPromise
  OBVIOUS
<1>1. ASSUME UNCHANGED <<known, interaction, asked>> PROVE KeepsPromise
  BY <1>1, DaemonKept, RowsKeptPromised DEF KeepsPromise, Promised!promiseVars, Applied, Answers, Gone
<1>2. ASSUME NEW i \in Interactions, NEW t \in Tries, VerifyProjection(i, t) \/ Repeats(i, t)
      PROVE  KeepsPromise
  BY <1>1, <1>2 DEF VerifyProjection, Repeats
<1>3. ASSUME NEW i \in Interactions, NEW t \in Tries, RecordInteraction(i, t)
      PROVE  KeepsPromise
  BY <1>1, <1>3, RecordTransaction, InsertPromised
<1>4. ASSUME NEW i \in Interactions, NEW r \in ReplayRuns, NEW q \in Questions, AsksFor(i, r, q)
      PROVE  KeepsPromise
  <2>1. Promised!Ask(i, r, q)
    BY <1>4, DaemonKept, RowsKeptPromised DEF AsksFor, Promised!Ask, Applied, Answers, Gone
  <2> QED
    BY <2>1 DEF KeepsPromise, Promised!Next
<1>5. CASE UNCHANGED daemonVars
  BY <1>1, <1>5 DEF daemonVars
<1> QED
  BY <1>2, <1>3, <1>4, <1>5, DeletePromised DEF DaemonMoves

LEMMA PromisedStart == InteractionInit => Promised!Init
<1> SUFFICES ASSUME InteractionInit PROVE Promised!Init
  OBVIOUS
<1>1. \A r : Recorded(r) = {}
  BY DEF InteractionInit, Recorded, NoRow
<1>2. \A r, q : LatestAnswer(r, q) = Unanswered
  BY <1>1 DEF LatestAnswer
<1> QED
  BY <1>1, <1>2 DEF InteractionInit, Promised!Init

-----------------------------------------------------------------------------
(* The viewer's state *)

ViewFields == {"number", "connection", "connected", "selected", "replay", "moments", "ready",
               "interactions", "build"}
LoadRow    == [run: ReplayRuns \cup {Nothing},
               step: {"none", "replay", "moments", "state", "response"},
               seen: SUBSET Interactions, build: {"none", "asked", "response"},
               buildSeen: SUBSET Interactions]
RecordRow  == [step: {"idle", "posted", "refresh", "refreshed", "rebuild", "rebuilt"}, try: Nat,
               view: Nat, connection: Nat, seen: SUBSET Interactions]
CardRow    == [pending: Nat, failed: Nat]
ShotRow    == [run: ReplayRuns \cup {Nothing}, seen: SUBSET Interactions]

ViewerTypes ==
    /\ DOMAIN view = ViewFields
    /\ view.number \in 0 .. MaxViews
    /\ view.connection \in Nat
    /\ view.ready \in BOOLEAN
    /\ view.replay \in ReplayRuns \cup {Nothing}
    /\ view.interactions \in ShotRow
    /\ load \in [Views -> LoadRow]
    /\ record \in [Interactions -> RecordRow]
    /\ card \in [Questions -> CardRow]

LEMMA ViewerFacts ==
    /\ Views \subseteq Nat \ {0}
    /\ Nothing \notin ReplayRuns
    /\ 0 \notin Interactions /\ Interactions \subseteq Nat
    /\ MaxViews \in Nat /\ MaxTries \in Nat
    /\ NoLoad \in LoadRow /\ NoRecord \in RecordRow /\ NoCard \in CardRow /\ NoShot \in ShotRow
BY ViewerConstants, InteractionConstants
   DEF ViewerConstants, InteractionConstants, Views, Interactions, Nothing, NoLoad, NoRecord,
       NoCard, NoShot, LoadRow, RecordRow, CardRow, ShotRow

(***************************************************************************)
(* What the parts of a step do to the load of a view.                      *)
(***************************************************************************)
LEMMA LoadStepEffect ==
    ASSUME ViewerTypes, NEW n \in Views,
           NEW step \in {"none", "replay", "moments", "state", "response"}, LoadStep(n, step)
    PROVE  /\ load' \in [Views -> LoadRow]
           /\ \A m \in Views \ {n} : load'[m] = load[m]
           /\ load'[n].step = step /\ load'[n].run = load[n].run
           /\ load'[n].build = load[n].build /\ load'[n].seen = load[n].seen
BY DEF ViewerTypes, LoadStep, LoadRow

LEMMA EndLoadEffect ==
    ASSUME ViewerTypes, NEW n \in Views, EndLoad(n)
    PROVE  /\ load' \in [Views -> LoadRow]
           /\ \A m \in Views \ {n} : load'[m] = load[m]
           /\ load'[n].step = "none" /\ load'[n].build = load[n].build
           /\ load[n].build # "none" => load'[n].run = load[n].run
<1>1. load[n] \in LoadRow
  BY DEF ViewerTypes
<1>2. [load[n] EXCEPT !.step = "none", !.seen = {}] \in LoadRow
  BY <1>1 DEF LoadRow
<1>3. CASE load[n].build = "none"
  <2>1. load' = [load EXCEPT ![n] = NoLoad]
    BY <1>3 DEF EndLoad, ViewerTypes
  <2> QED
    BY <1>3, <2>1, ViewerFacts DEF ViewerTypes, NoLoad
<1>4. CASE load[n].build # "none"
  <2>1. load' = [load EXCEPT ![n] = [load[n] EXCEPT !.step = "none", !.seen = {}]]
    BY <1>4 DEF EndLoad, ViewerTypes
  <2>2. load'[n] = [load[n] EXCEPT !.step = "none", !.seen = {}]
    BY <2>1 DEF ViewerTypes
  <2> QED
    BY <1>1, <1>2, <2>1, <2>2 DEF ViewerTypes, LoadRow
<1> QED
  BY <1>3, <1>4

LEMMA EndBuildEffect ==
    ASSUME ViewerTypes, NEW n \in Views, EndBuild(n)
    PROVE  /\ load' \in [Views -> LoadRow]
           /\ \A m \in Views \ {n} : load'[m] = load[m]
           /\ load'[n].build = "none" /\ load'[n].step = load[n].step
           /\ load[n].step # "none" =>
                  load'[n].run = load[n].run /\ load'[n].seen = load[n].seen
<1>1. load[n] \in LoadRow
  BY DEF ViewerTypes
<1>2. [load[n] EXCEPT !.build = "none", !.buildSeen = {}] \in LoadRow
  BY <1>1 DEF LoadRow
<1>3. CASE load[n].step = "none"
  <2>1. load' = [load EXCEPT ![n] = NoLoad]
    BY <1>3 DEF EndBuild, ViewerTypes
  <2> QED
    BY <1>3, <2>1, ViewerFacts DEF ViewerTypes, NoLoad
<1>4. CASE load[n].step # "none"
  <2>1. load' = [load EXCEPT ![n] = [load[n] EXCEPT !.build = "none", !.buildSeen = {}]]
    BY <1>4 DEF EndBuild, ViewerTypes
  <2>2. load'[n] = [load[n] EXCEPT !.build = "none", !.buildSeen = {}]
    BY <2>1 DEF ViewerTypes
  <2> QED
    BY <1>1, <1>2, <2>1, <2>2 DEF ViewerTypes, LoadRow
<1> QED
  BY <1>3, <1>4

LEMMA EndRecordEffect ==
    ASSUME ViewerTypes, NEW i \in Interactions, EndRecord(i)
    PROVE  /\ record' \in [Interactions -> RecordRow]
           /\ \A j \in Interactions \ {i} : record'[j] = record[j]
           /\ record'[i].step = "idle"
<1>1. [NoRecord EXCEPT !.try = record[i].try] \in RecordRow
  BY DEF ViewerTypes, RecordRow, NoRecord
<1>2. [NoRecord EXCEPT !.try = record[i].try].step = "idle"
  BY DEF NoRecord
<1> QED
  BY <1>1, <1>2 DEF EndRecord, ViewerTypes

LEMMA RecordStepEffect ==
    ASSUME ViewerTypes, NEW i \in Interactions,
           NEW step \in {"posted", "refresh", "refreshed", "rebuild", "rebuilt"},
           RecordStep(i, step)
    PROVE  /\ record' \in [Interactions -> RecordRow]
           /\ \A j \in Interactions \ {i} : record'[j] = record[j]
           /\ record'[i].step = step /\ record'[i].view = record[i].view
           /\ record'[i].seen = record[i].seen
BY DEF ViewerTypes, RecordStep, RecordRow

LEMMA TellCardEffect ==
    ASSUME ViewerTypes, NEW i \in Interactions, NEW failed \in {0, i}, TellCard(i, failed)
    PROVE  /\ card' \in [Questions -> CardRow]
           /\ \A q \in Questions : \/ card'[q] = card[q]
                                   \/ /\ record[i].view = view.number
                                      /\ card'[q].failed = failed
<1>1. [pending |-> 0, failed |-> failed] \in CardRow
  BY ViewerFacts DEF CardRow
<1> QED
  BY <1>1 DEF TellCard, IsCurrent, ViewerTypes

-----------------------------------------------------------------------------
(* What is shown fits together, and what is under way fits what is shown *)

NothingUnshown == ~view.ready => view.interactions = NoShot

LoadsFitScreen ==
    \A n \in Views :
        /\ n > view.number => load[n] = NoLoad
        /\ (load[n].step # "none" \/ load[n].build # "none") => load[n].run \in ReplayRuns
        /\ n = view.number =>
            /\ load[n].step # "none" => ~view.ready
            /\ load[n].step \in {"replay", "moments"} => view.moments = Nothing
            /\ load[n].step = "replay" => view.build = NoShot /\ load[n].build = "none"
            /\ load[n].step = "moments" => view.replay = load[n].run
            /\ load[n].step \in {"state", "response"} => view.moments = load[n].run
            /\ load[n].build # "none" => view.replay = load[n].run

(***************************************************************************)
(* A save under way in this view is about the moments of this view.        *)
(***************************************************************************)
RecordsFitScreen ==
    \A i \in Interactions : record[i].step # "idle" =>
        /\ asked[i] \in Asks
        /\ record[i].view <= view.number
        /\ record[i].view = view.number => view.ready /\ view.moments = asked[i].run

CardsFitScreen ==
    \A q \in Questions : card[q].failed # 0 =>
        /\ card[q].failed \in Interactions
        /\ asked[card[q].failed] \in Asks
        /\ view.ready /\ view.moments = asked[card[q].failed].run

ScreenInv ==
    /\ ViewerTypes
    /\ ShownTogether
    /\ NothingUnshown
    /\ LoadsFitScreen
    /\ RecordsFitScreen
    /\ CardsFitScreen

ViewerInv == DaemonInv /\ ScreenInv

(***************************************************************************)
(* A new view shows nothing that could disagree, and what was under way    *)
(* belongs to earlier ones.                                                *)
(***************************************************************************)
LEMMA NewViewFits ==
    ASSUME ScreenInv, UNCHANGED <<asked, record>>,
           DOMAIN view' = ViewFields, view'.connection = view.connection,
           view'.number = view.number + 1, view'.number \in Views,
           view'.moments = Nothing, view'.ready = FALSE,
           view'.interactions = NoShot, view'.build = NoShot,
           \/ view'.replay = view.replay /\ view'.selected = view.selected
           \/ view'.replay = Nothing,
           card' = [q \in Questions |-> NoCard],
           load' \in [Views -> LoadRow],
           \A n \in Views \ {view.number + 1} : load'[n] = load[n],
           \/ load'[view.number + 1] = NoLoad
           \/ /\ load'[view.number + 1].step = "replay" /\ load'[view.number + 1].build = "none"
              /\ load'[view.number + 1].run \in ReplayRuns
    PROVE  ScreenInv'
<1>1. view.number \in Nat /\ MaxViews \in Nat /\ view'.number \in 0 .. MaxViews
  BY ViewerFacts DEF ScreenInv, ViewerTypes, Views
<1>2. ViewerTypes'
  BY <1>1, ViewerFacts DEF ScreenInv, ViewerTypes
<1>3. ShownTogether' /\ NothingUnshown'
  BY DEF ScreenInv, ShownTogether, NothingUnshown, NoShot
<1>4. LoadsFitScreen'
  <2> SUFFICES ASSUME NEW n \in Views
               PROVE  /\ n > view'.number => load'[n] = NoLoad
                      /\ (load'[n].step # "none" \/ load'[n].build # "none") =>
                             load'[n].run \in ReplayRuns
                      /\ n = view'.number =>
                          /\ load'[n].step \in {"none", "replay"}
                          /\ load'[n].build = "none"
    BY DEF LoadsFitScreen
  <2>1. CASE n = view.number + 1
    BY <1>1, <2>1 DEF NoLoad
  <2>2. CASE n # view.number + 1
    BY <1>1, <2>2, ViewerFacts DEF ScreenInv, LoadsFitScreen
  <2> QED
    BY <2>1, <2>2
<1>5. RecordsFitScreen'
  <2> SUFFICES ASSUME NEW i \in Interactions, record[i].step # "idle"
               PROVE  asked[i] \in Asks /\ record[i].view < view'.number
    BY <1>1 DEF RecordsFitScreen, ScreenInv, ViewerTypes, RecordRow
  <2>1. record[i].view \in Nat /\ record[i].view <= view.number
    BY DEF ScreenInv, RecordsFitScreen, ViewerTypes, RecordRow
  <2> QED
    BY <1>1, <2>1 DEF ScreenInv, RecordsFitScreen
<1>6. CardsFitScreen'
  BY DEF CardsFitScreen, NoCard
<1> QED
  BY <1>2, <1>3, <1>4, <1>5, <1>6 DEF ScreenInv

LEMMA StartLoadFits ==
    ASSUME ScreenInv, NEW r \in ReplayRuns, StartLoad(r), UNCHANGED <<asked, record>>
    PROVE  ScreenInv'
<1>1. view.number \in Nat /\ view.number + 1 \in Views /\ DOMAIN view = ViewFields
  BY ViewerFacts DEF ScreenInv, ViewerTypes, StartLoad, Views
<1>2. /\ DOMAIN view' = ViewFields /\ view'.connection = view.connection
      /\ view'.number = view.number + 1 /\ view'.moments = Nothing /\ view'.ready = FALSE
      /\ view'.interactions = NoShot /\ view'.build = NoShot
      /\ view'.replay = view.replay /\ view'.selected = view.selected
  BY <1>1 DEF StartLoad, ViewFields
<1>3. [NoLoad EXCEPT !.run = r, !.step = "replay"] \in LoadRow
  BY DEF LoadRow, NoLoad
<1>4. /\ [NoLoad EXCEPT !.run = r, !.step = "replay"].step = "replay"
      /\ [NoLoad EXCEPT !.run = r, !.step = "replay"].build = "none"
      /\ [NoLoad EXCEPT !.run = r, !.step = "replay"].run = r
  BY DEF NoLoad
<1>5. /\ load \in [Views -> LoadRow]
      /\ load' = [load EXCEPT ![view.number + 1] = [NoLoad EXCEPT !.run = r, !.step = "replay"]]
      /\ card' = [q \in Questions |-> NoCard]
  BY DEF ScreenInv, ViewerTypes, StartLoad
<1>6. /\ load' \in [Views -> LoadRow]
      /\ \A n \in Views \ {view.number + 1} : load'[n] = load[n]
      /\ load'[view.number + 1].step = "replay" /\ load'[view.number + 1].build = "none"
      /\ load'[view.number + 1].run \in ReplayRuns
  BY <1>1, <1>3, <1>4, <1>5
<1> QED
  BY <1>1, <1>2, <1>5, <1>6, NewViewFits

LEMMA ClearViewFits ==
    ASSUME ScreenInv, NEW connected, ClearView(connected), UNCHANGED <<asked, record, load>>
    PROVE  ScreenInv'
<1>1. view.number \in Nat /\ view.number + 1 \in Views /\ DOMAIN view = ViewFields
  BY ViewerFacts DEF ScreenInv, ViewerTypes, ClearView, Views
<1>2. /\ DOMAIN view' = ViewFields /\ view'.connection = view.connection
      /\ view'.number = view.number + 1 /\ view'.moments = Nothing /\ view'.ready = FALSE
      /\ view'.interactions = NoShot /\ view'.build = NoShot
      /\ view'.replay = Nothing
  BY <1>1 DEF ClearView, ViewFields
<1>3. card' = [q \in Questions |-> NoCard]
  BY DEF ClearView
<1>4. load[view.number + 1] = NoLoad /\ load' \in [Views -> LoadRow]
  BY <1>1 DEF ScreenInv, LoadsFitScreen, ViewerTypes
<1> QED
  BY <1>1, <1>2, <1>3, <1>4, NewViewFits

-----------------------------------------------------------------------------
(* loadRun *)

(***************************************************************************)
(* A step of one load, about a view that still begins or is no longer      *)
(* current.                                                                *)
(***************************************************************************)
LEMMA LoadFits ==
    ASSUME ScreenInv, NEW n \in Views, UNCHANGED <<asked, record, card>>,
           ViewerTypes', view'.number = view.number,
           \A m \in Views \ {n} : load'[m] = load[m],
           load[n].step # "none" \/ load[n].build # "none",
           (load'[n].step # "none" \/ load'[n].build # "none") => load'[n].run = load[n].run,
           n # view.number => view' = view,
           n = view.number =>
               /\ ShownTogether' /\ NothingUnshown'
               /\ view.ready =>
                      view'.ready /\ view'.moments = view.moments
               /\ load'[n].step # "none" => ~view'.ready
               /\ load'[n].step \in {"replay", "moments"} => view'.moments = Nothing
               /\ load'[n].step # "replay"
               /\ load'[n].step = "moments" => view'.replay = load[n].run
               /\ load'[n].step \in {"state", "response"} => view'.moments = load[n].run
               /\ load'[n].build # "none" => view'.replay = load[n].run
    PROVE  ScreenInv'
<1>1. n <= view.number /\ view.number \in Nat
  <2>1. load[n] # NoLoad
    BY DEF NoLoad
  <2> QED
    BY <2>1, ViewerFacts DEF ScreenInv, LoadsFitScreen, ViewerTypes
<1>2. ShownTogether' /\ NothingUnshown'
  BY DEF ScreenInv, ShownTogether, NothingUnshown
<1>3. LoadsFitScreen'
  <2> SUFFICES ASSUME NEW m \in Views
               PROVE  LoadsFitScreen!(m)'
    BY DEF LoadsFitScreen
  <2>1. CASE m = n
    BY <1>1, <2>1, ViewerFacts DEF ScreenInv, LoadsFitScreen
  <2>2. CASE m # n /\ n = view.number
    BY <1>1, <2>2 DEF ScreenInv, LoadsFitScreen
  <2>3. CASE m # n /\ n # view.number
    BY <1>1, <2>3 DEF ScreenInv, LoadsFitScreen
  <2> QED
    BY <2>1, <2>2, <2>3
<1>4. RecordsFitScreen'
  BY DEF ScreenInv, RecordsFitScreen
<1>5. CardsFitScreen'
  BY DEF ScreenInv, CardsFitScreen
<1> QED
  BY <1>2, <1>3, <1>4, <1>5 DEF ScreenInv

LEMMA ReplayFits ==
    ASSUME DaemonInv, ScreenInv, NEW n \in Views, ReceiveReplay(n)
    PROVE  ScreenInv'
<1>1. /\ ViewerTypes /\ UNCHANGED <<asked, record, card>> /\ load[n].step = "replay"
      /\ load[n].run \in ReplayRuns
  BY DEF ReceiveReplay, OnlyLoads, daemonVars, ScreenInv, LoadsFitScreen
<1>2. CASE n # view.number
  <2>1. EndLoad(n) /\ view' = view
    BY <1>2 DEF ReceiveReplay, IsCurrent
  <2>2. ViewerTypes'
    BY <1>1, <2>1, EndLoadEffect DEF ViewerTypes
  <2> QED
    BY <1>1, <1>2, <2>1, <2>2, EndLoadEffect, LoadFits DEF ScreenInv
<1>3. CASE n = view.number
  <2>1. /\ ~view.ready /\ view.moments = Nothing /\ view.build = NoShot
        /\ load[n].build = "none" /\ view.interactions = NoShot
    BY <1>1, <1>3 DEF ScreenInv, LoadsFitScreen, NothingUnshown
  <2>2. CASE load[n].run \in known
    <3>1. /\ view' = [view EXCEPT !.replay = load[n].run, !.selected = load[n].run]
          /\ load' = [load EXCEPT ![n].step = "moments", ![n].build = "asked"]
      BY <1>3, <2>2 DEF ReceiveReplay, IsCurrent
    <3>2. /\ DOMAIN view' = ViewFields
          /\ view'.replay = load[n].run /\ view'.selected = load[n].run
          /\ view'.number = view.number /\ view'.connection = view.connection
          /\ view'.moments = view.moments /\ view'.ready = view.ready
          /\ view'.interactions = view.interactions /\ view'.build = view.build
      BY <1>1, <3>1 DEF ViewerTypes, ViewFields
    <3>3. [load[n] EXCEPT !.step = "moments", !.build = "asked"] \in LoadRow
      BY <1>1 DEF ViewerTypes, LoadRow
    <3>4. /\ load' \in [Views -> LoadRow] /\ \A m \in Views \ {n} : load'[m] = load[m]
          /\ load'[n] = [load[n] EXCEPT !.step = "moments", !.build = "asked"]
      BY <1>1, <3>1, <3>3 DEF ViewerTypes
    <3>5. /\ load'[n].step = "moments" /\ load'[n].build = "asked"
          /\ load'[n].run = load[n].run
      BY <1>1, <3>4 DEF ViewerTypes, LoadRow
    <3>6. ViewerTypes'
      BY <1>1, <3>2, <3>4 DEF ViewerTypes
    <3>7. ShownTogether' /\ NothingUnshown'
      BY <2>1, <3>2 DEF ShownTogether, NothingUnshown, NoShot
    <3> QED
      BY <1>1, <1>3, <2>1, <3>2, <3>4, <3>5, <3>6, <3>7, LoadFits
  <2>3. CASE load[n].run \notin known
    <3>1. view' = [view EXCEPT !.replay = Nothing] /\ EndLoad(n)
      BY <1>3, <2>3 DEF ReceiveReplay, IsCurrent
    <3>2. /\ DOMAIN view' = ViewFields
          /\ view'.replay = Nothing
          /\ view'.number = view.number /\ view'.connection = view.connection
          /\ view'.moments = view.moments /\ view'.ready = view.ready
          /\ view'.interactions = view.interactions /\ view'.build = view.build
      BY <1>1, <3>1 DEF ViewerTypes, ViewFields
    <3>3. ViewerTypes'
      BY <1>1, <3>1, <3>2, EndLoadEffect DEF ViewerTypes
    <3>4. ShownTogether' /\ NothingUnshown'
      BY <2>1, <3>2 DEF ShownTogether, NothingUnshown, NoShot
    <3> QED
      BY <1>1, <1>3, <2>1, <3>1, <3>2, <3>3, <3>4, EndLoadEffect, LoadFits
  <2> QED
    BY <2>2, <2>3
<1> QED
  BY <1>2, <1>3

LEMMA MomentsFit ==
    ASSUME DaemonInv, ScreenInv, NEW n \in Views, ReceiveMoments(n)
    PROVE  ScreenInv'
<1>1. /\ ViewerTypes /\ UNCHANGED <<asked, record, card>> /\ load[n].step = "moments"
      /\ load[n].run \in ReplayRuns
  BY DEF ReceiveMoments, OnlyLoads, daemonVars, ScreenInv, LoadsFitScreen
<1>2. CASE n = view.number /\ load[n].run \in known
  <2>1. /\ ~view.ready /\ view.moments = Nothing /\ view.replay = load[n].run
        /\ view.interactions = NoShot
        /\ load[n].build # "none" => view.replay = load[n].run
    BY <1>1, <1>2 DEF ScreenInv, LoadsFitScreen, NothingUnshown
  <2>2. view' = [view EXCEPT !.moments = load[n].run] /\ LoadStep(n, "state")
    BY <1>2 DEF ReceiveMoments, IsCurrent
  <2>3. /\ DOMAIN view' = ViewFields
        /\ view'.moments = load[n].run
        /\ view'.number = view.number /\ view'.connection = view.connection
        /\ view'.replay = view.replay /\ view'.selected = view.selected /\ view'.ready = view.ready
        /\ view'.interactions = view.interactions /\ view'.build = view.build
    BY <1>1, <2>2 DEF ViewerTypes, ViewFields
  <2>4. ViewerTypes'
    BY <1>1, <2>2, <2>3, LoadStepEffect DEF ViewerTypes
  <2>5. ShownTogether' /\ NothingUnshown'
    BY <2>1, <2>3 DEF ScreenInv, ShownTogether, NothingUnshown, NoShot
  <2> QED
    BY <1>1, <1>2, <2>1, <2>2, <2>3, <2>4, <2>5, LoadStepEffect, LoadFits
<1>3. CASE ~(n = view.number /\ load[n].run \in known)
  <2>1. EndLoad(n) /\ view' = view
    BY <1>3 DEF ReceiveMoments, IsCurrent
  <2>2. ViewerTypes'
    BY <1>1, <2>1, EndLoadEffect DEF ViewerTypes
  <2>3. ShownTogether' /\ NothingUnshown'
    BY <2>1 DEF ScreenInv, ShownTogether, NothingUnshown
  <2>4. n = view.number /\ load[n].build # "none" => view.replay = load[n].run
    BY DEF ScreenInv, LoadsFitScreen
  <2> QED
    BY <1>1, <2>1, <2>2, <2>3, <2>4, EndLoadEffect, LoadFits
<1> QED
  BY <1>2, <1>3

LEMMA ReadInteractionsFits ==
    ASSUME DaemonInv, ScreenInv, NEW n \in Views, ReadInteractions(n)
    PROVE  ScreenInv'
<1>1. /\ ViewerTypes /\ UNCHANGED <<asked, record, card, view>> /\ load[n].step = "state"
  BY DEF ReadInteractions, OnlyLoads, daemonVars, ScreenInv
<1>2. ShownTogether' /\ NothingUnshown'
  BY <1>1 DEF ScreenInv, ShownTogether, NothingUnshown
<1>3. n = view.number => /\ ~view.ready /\ view.moments = load[n].run
                         /\ load[n].build # "none" => view.replay = load[n].run
  BY <1>1 DEF ScreenInv, LoadsFitScreen
<1>4. CASE load[n].run \in known
  <2> DEFINE row == [load[n] EXCEPT !.step = "response", !.seen = Recorded(load[n].run)]
  <2>1. Recorded(load[n].run) \in SUBSET Interactions
    BY DEF Recorded
  <2>2. load' = [load EXCEPT ![n] = row]
    BY <1>1, <1>4 DEF ReadInteractions, ViewerTypes
  <2>3. /\ row \in LoadRow /\ row.step = "response" /\ row.run = load[n].run
        /\ row.build = load[n].build
    BY <1>1, <2>1 DEF ViewerTypes, LoadRow
  <2> HIDE DEF row
  <2>4. /\ load' \in [Views -> LoadRow] /\ load'[n] = row
        /\ \A m \in Views \ {n} : load'[m] = load[m]
    BY <1>1, <2>2, <2>3 DEF ViewerTypes
  <2>5. ViewerTypes'
    BY <1>1, <2>4 DEF ViewerTypes
  <2> QED
    BY <1>1, <1>2, <1>3, <2>3, <2>4, <2>5, LoadFits
<1>5. CASE load[n].run \notin known
  <2>1. EndLoad(n)
    BY <1>5 DEF ReadInteractions
  <2>2. ViewerTypes'
    BY <1>1, <2>1, EndLoadEffect DEF ViewerTypes
  <2> QED
    BY <1>1, <1>2, <1>3, <2>1, <2>2, EndLoadEffect, LoadFits
<1> QED
  BY <1>4, <1>5

LEMMA InteractionsFit ==
    ASSUME DaemonInv, ScreenInv, NEW n \in Views, ReceiveInteractions(n)
    PROVE  ScreenInv'
<1>1. /\ ViewerTypes /\ UNCHANGED <<asked, record, card>> /\ load[n].step = "response"
      /\ load[n].run \in ReplayRuns /\ EndLoad(n)
  BY DEF ReceiveInteractions, OnlyLoads, daemonVars, ScreenInv, LoadsFitScreen
<1>2. CASE n = view.number
  <2>1. /\ ~view.ready /\ view.moments = load[n].run
        /\ load[n].build # "none" => view.replay = load[n].run
    BY <1>1, <1>2 DEF ScreenInv, LoadsFitScreen
  <2> DEFINE shot == Shot(load[n].run, load[n].seen)
  <2>2. shot.run = load[n].run /\ shot \in ShotRow
    BY <1>1 DEF Shot, ShotRow, ViewerTypes, LoadRow
  <2>3. view' = [view EXCEPT !.interactions = shot, !.ready = TRUE]
    BY <1>2 DEF ReceiveInteractions, IsCurrent
  <2> HIDE DEF shot
  <2>4. /\ DOMAIN view' = ViewFields
        /\ view'.interactions = shot /\ view'.ready = TRUE
        /\ view'.number = view.number /\ view'.connection = view.connection
        /\ view'.replay = view.replay /\ view'.selected = view.selected
        /\ view'.moments = view.moments /\ view'.build = view.build
    BY <1>1, <2>3 DEF ViewerTypes, ViewFields
  <2>5. ViewerTypes'
    BY <1>1, <2>2, <2>4, EndLoadEffect DEF ViewerTypes
  <2>6. ShownTogether' /\ NothingUnshown'
    BY <2>1, <2>2, <2>4 DEF ScreenInv, ShownTogether, NothingUnshown
  <2> QED
    BY <1>1, <1>2, <2>1, <2>4, <2>5, <2>6, EndLoadEffect, LoadFits
<1>3. CASE n # view.number
  <2>1. view' = view
    BY <1>3 DEF ReceiveInteractions, IsCurrent
  <2>2. ViewerTypes'
    BY <1>1, <2>1, EndLoadEffect DEF ViewerTypes
  <2> QED
    BY <1>1, <1>3, <2>1, <2>2, EndLoadEffect, LoadFits
<1> QED
  BY <1>2, <1>3

LEMMA ReadBuildFits ==
    ASSUME DaemonInv, ScreenInv, NEW n \in Views, ReadBuildReplay(n)
    PROVE  ScreenInv'
<1>1. /\ ViewerTypes /\ UNCHANGED <<asked, record, card, view>> /\ load[n].build = "asked"
  BY DEF ReadBuildReplay, OnlyLoads, daemonVars, ScreenInv
<1>2. ShownTogether' /\ NothingUnshown'
  BY <1>1 DEF ScreenInv, ShownTogether, NothingUnshown
<1>3. n = view.number =>
        /\ view.replay = load[n].run /\ load[n].step # "replay"
        /\ load[n].step # "none" => ~view.ready
        /\ load[n].step = "moments" => view.moments = Nothing
        /\ load[n].step \in {"state", "response"} => view.moments = load[n].run
  BY <1>1 DEF ScreenInv, LoadsFitScreen
<1>4. CASE load[n].run \in known
  <2> DEFINE row == [load[n] EXCEPT !.build = "response", !.buildSeen = Recorded(load[n].run)]
  <2>1. Recorded(load[n].run) \in SUBSET Interactions
    BY DEF Recorded
  <2>2. load' = [load EXCEPT ![n] = row]
    BY <1>1, <1>4 DEF ReadBuildReplay, ViewerTypes
  <2>3. row \in LoadRow /\ row.step = load[n].step /\ row.run = load[n].run
    BY <1>1, <2>1 DEF ViewerTypes, LoadRow
  <2> HIDE DEF row
  <2>4. /\ load' \in [Views -> LoadRow] /\ load'[n] = row
        /\ \A m \in Views \ {n} : load'[m] = load[m]
    BY <1>1, <2>2, <2>3 DEF ViewerTypes
  <2>5. ViewerTypes'
    BY <1>1, <2>4 DEF ViewerTypes
  <2> QED
    BY <1>1, <1>2, <1>3, <2>3, <2>4, <2>5, LoadFits
<1>5. CASE load[n].run \notin known
  <2>1. EndBuild(n)
    BY <1>5 DEF ReadBuildReplay
  <2>2. ViewerTypes'
    BY <1>1, <2>1, EndBuildEffect DEF ViewerTypes
  <2> QED
    BY <1>1, <1>2, <1>3, <2>1, <2>2, EndBuildEffect, LoadFits
<1> QED
  BY <1>4, <1>5

(***************************************************************************)
(* The build replay on the screen is replaced by one of the run shown, or  *)
(* by none.                                                                *)
(***************************************************************************)
LEMMA BuildShown ==
    ASSUME ScreenInv, NEW shot, view' = [view EXCEPT !.build = shot],
           shot.run \in {Nothing, view.replay}
    PROVE  /\ DOMAIN view' = ViewFields
           /\ view'.number = view.number /\ view'.connection = view.connection
           /\ view'.replay = view.replay /\ view'.selected = view.selected
           /\ view'.moments = view.moments /\ view'.ready = view.ready
           /\ view'.interactions = view.interactions
           /\ ShownTogether' /\ NothingUnshown'
<1>1. /\ DOMAIN view' = ViewFields
      /\ view'.number = view.number /\ view'.connection = view.connection
      /\ view'.replay = view.replay /\ view'.selected = view.selected
      /\ view'.moments = view.moments /\ view'.ready = view.ready
      /\ view'.interactions = view.interactions /\ view'.build = shot
  BY DEF ScreenInv, ViewerTypes, ViewFields
<1> QED
  BY <1>1 DEF ScreenInv, ShownTogether, NothingUnshown

LEMMA BuildFits ==
    ASSUME DaemonInv, ScreenInv, NEW n \in Views, ReceiveBuildReplay(n)
    PROVE  ScreenInv'
<1>1. /\ ViewerTypes /\ UNCHANGED <<asked, record, card>> /\ load[n].build = "response"
      /\ EndBuild(n)
  BY DEF ReceiveBuildReplay, OnlyLoads, daemonVars, ScreenInv
<1>2. CASE n = view.number
  <2>1. /\ view.replay = load[n].run /\ load[n].step # "replay"
        /\ load[n].step # "none" => ~view.ready
        /\ load[n].step = "moments" => view.moments = Nothing
        /\ load[n].step \in {"state", "response"} => view.moments = load[n].run
    BY <1>1, <1>2 DEF ScreenInv, LoadsFitScreen
  <2> DEFINE shot == Shot(load[n].run, load[n].buildSeen)
  <2>2. shot.run = view.replay
    BY <2>1 DEF Shot
  <2>3. view' = [view EXCEPT !.build = shot]
    BY <1>2 DEF ReceiveBuildReplay, IsCurrent
  <2> HIDE DEF shot
  <2>4. ViewerTypes'
    BY <1>1, <2>2, <2>3, BuildShown, EndBuildEffect DEF ViewerTypes
  <2> QED
    BY <1>1, <1>2, <2>1, <2>2, <2>3, <2>4, BuildShown, EndBuildEffect, LoadFits
<1>3. CASE n # view.number
  <2>1. view' = view
    BY <1>3 DEF ReceiveBuildReplay, IsCurrent
  <2>2. ViewerTypes'
    BY <1>1, <2>1, EndBuildEffect DEF ViewerTypes
  <2> QED
    BY <1>1, <1>3, <2>1, <2>2, EndBuildEffect, LoadFits
<1> QED
  BY <1>2, <1>3

LEMMA LoseLoadFits ==
    ASSUME DaemonInv, ScreenInv, NEW n \in Views, LoseLoad(n)
    PROVE  ScreenInv'
<1>1. ViewerTypes /\ UNCHANGED <<asked, record, card>>
  BY DEF LoseLoad, OnlyLoads, daemonVars, ScreenInv
<1>2. CASE /\ load[n].step \in {"replay", "moments", "state"}
           /\ view' = IF IsCurrent(n) /\ load[n].step = "replay"
                      THEN [view EXCEPT !.replay = Nothing] ELSE view
           /\ EndLoad(n)
  <2>1. CASE n = view.number /\ load[n].step = "replay"
    <3>1. /\ ~view.ready /\ view.moments = Nothing /\ view.build = NoShot
          /\ load[n].build = "none" /\ view.interactions = NoShot
      BY <1>1, <2>1 DEF ScreenInv, LoadsFitScreen, NothingUnshown
    <3>2. view' = [view EXCEPT !.replay = Nothing]
      BY <1>2, <2>1 DEF IsCurrent
    <3>3. /\ DOMAIN view' = ViewFields
          /\ view'.replay = Nothing
          /\ view'.number = view.number /\ view'.connection = view.connection
          /\ view'.moments = view.moments /\ view'.ready = view.ready
          /\ view'.interactions = view.interactions /\ view'.build = view.build
      BY <1>1, <3>2 DEF ViewerTypes, ViewFields
    <3>4. ViewerTypes'
      BY <1>1, <1>2, <3>3, EndLoadEffect DEF ViewerTypes
    <3>5. ShownTogether' /\ NothingUnshown'
      BY <3>1, <3>3 DEF ShownTogether, NothingUnshown, NoShot
    <3> QED
      BY <1>1, <1>2, <2>1, <3>1, <3>3, <3>4, <3>5, EndLoadEffect, LoadFits
  <2>2. CASE ~(n = view.number /\ load[n].step = "replay")
    <3>1. view' = view
      BY <1>2, <2>2 DEF IsCurrent
    <3>2. ViewerTypes'
      BY <1>1, <1>2, <3>1, EndLoadEffect DEF ViewerTypes
    <3>3. ShownTogether' /\ NothingUnshown'
      BY <3>1 DEF ScreenInv, ShownTogether, NothingUnshown
    <3>4. n = view.number /\ load[n].build # "none" => view.replay = load[n].run
      BY DEF ScreenInv, LoadsFitScreen
    <3> QED
      BY <1>1, <1>2, <3>1, <3>2, <3>3, <3>4, EndLoadEffect, LoadFits
  <2> QED
    BY <2>1, <2>2
<1>3. CASE /\ load[n].build = "asked"
           /\ view' = IF IsCurrent(n) THEN [view EXCEPT !.build = NoShot] ELSE view
           /\ EndBuild(n)
  <2>1. CASE n = view.number
    <3>1. /\ view.replay = load[n].run /\ load[n].step # "replay"
          /\ load[n].step # "none" => ~view.ready
          /\ load[n].step = "moments" => view.moments = Nothing
          /\ load[n].step \in {"state", "response"} => view.moments = load[n].run
      BY <1>3, <2>1 DEF ScreenInv, LoadsFitScreen
    <3>2. view' = [view EXCEPT !.build = NoShot] /\ NoShot.run \in {Nothing, view.replay}
      BY <1>3, <2>1 DEF IsCurrent, NoShot
    <3>3. ViewerTypes'
      BY <1>1, <1>3, <3>2, BuildShown, EndBuildEffect DEF ViewerTypes
    <3> QED
      BY <1>1, <1>3, <2>1, <3>1, <3>2, <3>3, BuildShown, EndBuildEffect, LoadFits
  <2>2. CASE n # view.number
    <3>1. view' = view
      BY <1>3, <2>2 DEF IsCurrent
    <3>2. ViewerTypes'
      BY <1>1, <1>3, <3>1, EndBuildEffect DEF ViewerTypes
    <3> QED
      BY <1>1, <1>3, <2>2, <3>1, <3>2, EndBuildEffect, LoadFits
  <2> QED
    BY <2>1, <2>2
<1> QED
  BY <1>2, <1>3 DEF LoseLoad

LEMMA LoadRunFits ==
    ASSUME DaemonInv, ScreenInv, LoadRun
    PROVE  ScreenInv'
BY ReplayFits, MomentsFit, ReadInteractionsFits, InteractionsFit, ReadBuildFits, BuildFits,
   LoseLoadFits DEF LoadRun

-----------------------------------------------------------------------------
(* recordMomentInteractionAction *)

(***************************************************************************)
(* A save is sent for a moment of the view it is sent from.                *)
(***************************************************************************)
LEMMA SendFits ==
    ASSUME DaemonInv, ScreenInv, NEW i \in Interactions, NEW t \in Tries, Send(i, t),
           asked'[i] \in Asks, view.ready, view.moments = asked'[i].run,
           \A j \in Interactions : asked[j] \in Asks => asked'[j] = asked[j],
           UNCHANGED <<view, load>>
    PROVE  ScreenInv'
<1> DEFINE row == [step |-> "posted", try |-> t, view |-> view.number,
                   connection |-> view.connection, seen |-> {}]
           q == asked'[i].question
<1>1. ViewerTypes /\ q \in Questions /\ t \in Nat /\ i \in Nat /\ view.number \in Nat
  BY ViewerFacts DEF ScreenInv, ViewerTypes, Asks, Tries
<1>2. row \in RecordRow
  BY <1>1 DEF RecordRow, ViewerTypes
<1>3. /\ record' = [record EXCEPT ![i] = row]
      /\ card' = [card EXCEPT ![q].pending = i]
  BY DEF Send
<1>4. row.step = "posted" /\ row.view = view.number
  OBVIOUS
<1> HIDE DEF row, q
<1>5. [card[q] EXCEPT !.pending = i] \in CardRow /\ [card[q] EXCEPT !.pending = i].failed = card[q].failed
  BY <1>1 DEF ViewerTypes, CardRow
<1>6. /\ card' \in [Questions -> CardRow]
      /\ \A p \in Questions : card'[p].failed = card[p].failed
  BY <1>1, <1>3, <1>5 DEF ViewerTypes
<1>7. /\ record' \in [Interactions -> RecordRow] /\ record'[i] = row
      /\ \A j \in Interactions \ {i} : record'[j] = record[j]
  BY <1>1, <1>2, <1>3 DEF ViewerTypes
<1>8. ViewerTypes'
  BY <1>1, <1>6, <1>7 DEF ViewerTypes
<1>9. ShownTogether' /\ NothingUnshown' /\ LoadsFitScreen'
  BY DEF ScreenInv, ShownTogether, NothingUnshown, LoadsFitScreen
<1>10. RecordsFitScreen'
  BY <1>1, <1>4, <1>7 DEF ScreenInv, RecordsFitScreen
<1>11. CardsFitScreen'
  BY <1>6 DEF ScreenInv, CardsFitScreen
<1> QED
  BY <1>8, <1>9, <1>10, <1>11 DEF ScreenInv

LEMMA SubmitFits ==
    ASSUME DaemonInv, ScreenInv, NEW i \in Interactions, NEW q \in Questions, Submit(i, q)
    PROVE  ScreenInv' /\ DaemonMoves
<1>1. /\ view.moments # Nothing /\ view.ready = TRUE /\ asked[i] = NoAsk
      /\ asked' = [asked EXCEPT ![i] = [run |-> view.moments, question |-> q]]
      /\ Send(i, 1) /\ UNCHANGED <<known, interaction, recordedAt, view, load>>
  BY DEF Submit, CanAnswer, ScreenInv, ViewerTypes
<1>2. view.moments \in ReplayRuns
  BY <1>1 DEF ScreenInv, ShownTogether, ViewerTypes
<1>3. [run |-> view.moments, question |-> q] \in Asks
  BY <1>2 DEF Asks
<1>4. /\ asked'[i] = [run |-> view.moments, question |-> q]
      /\ \A j \in Interactions \ {i} : asked'[j] = asked[j]
  BY <1>1 DEF DaemonInv, InteractionTypeOK
<1>5. 1 \in Tries
  BY InteractionConstants DEF InteractionConstants, Tries
<1>6. AsksFor(i, view.moments, q)
  BY <1>1, <1>5 DEF AsksFor, Send
<1>7. asked'[i] \in Asks /\ view.moments = asked'[i].run
  BY <1>3, <1>4
<1>8. \A j \in Interactions : asked[j] \in Asks => asked'[j] = asked[j]
  BY <1>1, <1>4, AnswerFacts
<1>9. ScreenInv'
  BY <1>1, <1>5, <1>7, <1>8, SendFits
<1> QED
  BY <1>2, <1>6, <1>9 DEF DaemonMoves

LEMMA RetryFits ==
    ASSUME DaemonInv, ScreenInv, NEW q \in Questions, RetrySave(q)
    PROVE  ScreenInv' /\ DaemonMoves
<1>1. PICK i \in Interactions : i = card[q].failed
  BY DEF RetrySave, ScreenInv, CardsFitScreen
<1>2. asked[i] \in Asks /\ view.ready /\ view.moments = asked[i].run
  BY <1>1, ViewerFacts DEF ScreenInv, CardsFitScreen
<1>3. record[i].try \in Nat /\ record[i].try < MaxTries
  BY <1>1 DEF RetrySave, ScreenInv, ViewerTypes, RecordRow
<1>4. PICK t \in Tries : t = record[i].try + 1
  BY <1>3, ViewerFacts DEF Tries
<1>5. /\ Send(i, t) /\ asked' = asked
      /\ UNCHANGED <<known, interaction, recordedAt, view, load>>
  BY <1>1, <1>4 DEF RetrySave
<1>6. Repeats(i, t)
  BY <1>2, <1>5 DEF Repeats, Send
<1>7. ScreenInv'
  BY <1>2, <1>5, SendFits
<1> QED
  BY <1>6, <1>7 DEF DaemonMoves

(***************************************************************************)
(* A step of one save, which may change what is shown once it is shown.    *)
(***************************************************************************)
LEMMA RecordFits ==
    ASSUME ScreenInv, NEW i \in Interactions, UNCHANGED <<asked, load>>,
           ViewerTypes', ShownTogether', NothingUnshown',
           record[i].step # "idle",
           \A j \in Interactions \ {i} : record'[j] = record[j],
           record'[i].step # "idle" => record'[i].view = record[i].view,
           \A q \in Questions :
               \/ card'[q] = card[q]
               \/ record[i].view = view.number /\ card'[q].failed \in {0, i},
           view'.number = view.number, view'.moments = view.moments,
           view'.replay = view.replay,
           view.ready => view'.ready,
           ~view.ready => view' = view
    PROVE  ScreenInv'
<1>1. LoadsFitScreen'
  <2> SUFFICES ASSUME NEW n \in Views PROVE LoadsFitScreen!(n)'
    BY DEF LoadsFitScreen
  <2>1. CASE view.ready
    BY <2>1 DEF ScreenInv, LoadsFitScreen
  <2>2. CASE ~view.ready
    BY <2>2 DEF ScreenInv, LoadsFitScreen
  <2> QED
    BY <2>1, <2>2
<1>2. RecordsFitScreen'
  BY DEF ScreenInv, RecordsFitScreen
<1>3. CardsFitScreen'
  BY DEF ScreenInv, CardsFitScreen, RecordsFitScreen
<1> QED
  BY <1>1, <1>2, <1>3 DEF ScreenInv

LEMMA UnshownRecordFits ==
    ASSUME ScreenInv, NEW i \in Interactions, UNCHANGED <<asked, load, view>>,
           record' \in [Interactions -> RecordRow], card' \in [Questions -> CardRow],
           record[i].step # "idle",
           \A j \in Interactions \ {i} : record'[j] = record[j],
           record'[i].step # "idle" => record'[i].view = record[i].view,
           \A q \in Questions :
               \/ card'[q] = card[q]
               \/ record[i].view = view.number /\ card'[q].failed \in {0, i}
    PROVE  ScreenInv'
<1>1. ViewerTypes' /\ ShownTogether' /\ NothingUnshown'
  BY DEF ScreenInv, ViewerTypes, ShownTogether, NothingUnshown
<1> QED
  BY <1>1, RecordFits

LEMMA ReceiptFits ==
    ASSUME DaemonInv, ScreenInv, NEW i \in Interactions, ReceiveReceipt(i)
    PROVE  ScreenInv'
<1>1. ViewerTypes /\ UNCHANGED <<asked, load, view>> /\ record[i].step # "idle"
  BY DEF ReceiveReceipt, OnlyRecords, daemonVars, ScreenInv
<1>2. CASE RecordStep(i, "refresh") /\ UNCHANGED card
  <2>1. card' \in [Questions -> CardRow]
    BY <1>1, <1>2 DEF ViewerTypes
  <2> QED
    BY <1>1, <1>2, <2>1, RecordStepEffect, UnshownRecordFits
<1>3. CASE EndRecord(i) /\ TellCard(i, i)
  BY <1>1, <1>3, EndRecordEffect, TellCardEffect, UnshownRecordFits
<1> QED
  BY <1>2, <1>3 DEF ReceiveReceipt

LEMMA ReadRefreshEffect ==
    ASSUME ViewerTypes, NEW i \in Interactions, asked[i].run \in known, ReadRefresh(i)
    PROVE  /\ record' \in [Interactions -> RecordRow]
           /\ \A j \in Interactions \ {i} : record'[j] = record[j]
           /\ record'[i].view = record[i].view
           /\ record'[i].step = IF record[i].step = "refresh" THEN "refreshed" ELSE "rebuilt"
           /\ record'[i].seen = Recorded(asked[i].run)
           /\ UNCHANGED card
<1> DEFINE step == IF record[i].step = "refresh" THEN "refreshed" ELSE "rebuilt"
<1>1. record' = [record EXCEPT ![i].step = step, ![i].seen = Recorded(asked[i].run)]
  BY DEF ReadRefresh, ViewerTypes
<1>2. step \in {"refreshed", "rebuilt"} /\ Recorded(asked[i].run) \in SUBSET Interactions
  BY DEF Recorded
<1> HIDE DEF step
<1>3. [record[i] EXCEPT !.step = step, !.seen = Recorded(asked[i].run)] \in RecordRow
  <2>1. record[i] \in RecordRow
    BY DEF ViewerTypes
  <2>2. \A row \in RecordRow : [row EXCEPT !.step = step] \in RecordRow
    BY <1>2 DEF RecordRow
  <2>3. \A row \in RecordRow, seen \in SUBSET Interactions : [row EXCEPT !.seen = seen] \in RecordRow
    BY DEF RecordRow
  <2>4. [record[i] EXCEPT !.step = step, !.seen = Recorded(asked[i].run)]
            = [[record[i] EXCEPT !.step = step] EXCEPT !.seen = Recorded(asked[i].run)]
    BY <2>1, <2>2 DEF RecordRow
  <2> QED
    BY <1>2, <2>1, <2>2, <2>3, <2>4
<1>4. /\ record'[i] = [record[i] EXCEPT !.step = step, !.seen = Recorded(asked[i].run)]
      /\ \A j \in Interactions \ {i} : record'[j] = record[j]
      /\ record' \in [Interactions -> RecordRow]
  BY <1>1, <1>3 DEF ViewerTypes
<1>5. /\ record'[i].view = record[i].view /\ record'[i].step = step
      /\ record'[i].seen = Recorded(asked[i].run)
  BY <1>4 DEF ViewerTypes, RecordRow
<1> QED
  BY <1>4, <1>5 DEF ReadRefresh, step

LEMMA ReadRefreshFits ==
    ASSUME DaemonInv, ScreenInv, NEW i \in Interactions, ReadRefresh(i)
    PROVE  ScreenInv'
<1>1. ViewerTypes /\ UNCHANGED <<asked, load, view>> /\ record[i].step # "idle"
  BY DEF ReadRefresh, OnlyRecords, daemonVars, ScreenInv
<1>2. CASE asked[i].run \in known
  <2>1. card' \in [Questions -> CardRow]
    BY <1>1, <1>2, ReadRefreshEffect DEF ViewerTypes
  <2> QED
    BY <1>1, <1>2, <2>1, ReadRefreshEffect, UnshownRecordFits
<1>3. CASE asked[i].run \notin known
  <2>1. PICK failed \in {0, i} : TellCard(i, failed)
    BY <1>3 DEF ReadRefresh
  <2>2. EndRecord(i)
    BY <1>3 DEF ReadRefresh
  <2> QED
    BY <1>1, <2>1, <2>2, EndRecordEffect, TellCardEffect, UnshownRecordFits
<1> QED
  BY <1>2, <1>3

LEMMA LoseRecordFits ==
    ASSUME DaemonInv, ScreenInv, NEW i \in Interactions, LoseRecord(i)
    PROVE  ScreenInv'
<1>1. ViewerTypes /\ UNCHANGED <<asked, load, view>> /\ record[i].step # "idle"
  BY DEF LoseRecord, OnlyRecords, daemonVars, ScreenInv
<1>2. PICK failed \in {0, i} : TellCard(i, failed)
  BY DEF LoseRecord
<1>3. EndRecord(i)
  BY DEF LoseRecord
<1> QED
  BY <1>1, <1>2, <1>3, EndRecordEffect, TellCardEffect, UnshownRecordFits

LEMMA RefreshFits ==
    ASSUME DaemonInv, ScreenInv, NEW i \in Interactions, ReceiveRefresh(i)
    PROVE  ScreenInv'
<1>1. ViewerTypes /\ UNCHANGED <<asked, load>> /\ record[i].step = "refreshed"
  BY DEF ReceiveRefresh, OnlyRecords, daemonVars, ScreenInv
<1>2. CASE SameView(i)
  <2>1. view.ready = TRUE /\ view.moments = asked[i].run /\ asked[i].run \in ReplayRuns
    BY <1>1, <1>2, AnswerFacts DEF ScreenInv, RecordsFitScreen, ViewerTypes, SameView, IsCurrent, Asks
  <2>2. PICK shot \in ShotRow : shot = Shot(asked[i].run, record[i].seen)
    BY <1>1, <2>1 DEF ViewerTypes, RecordRow, ShotRow, Shot
  <2>3. shot.run = view.moments
    BY <2>1, <2>2 DEF Shot
  <2>4. PICK shown \in ShotRow : shown = PreferNewer(view.interactions, shot)
    BY <1>1 DEF ViewerTypes, PreferNewer
  <2>5. shown.run = view.moments
    BY <2>1, <2>3, <2>4 DEF ScreenInv, ShownTogether, PreferNewer
  <2>6. /\ view' = [view EXCEPT !.interactions = shown, !.ready = TRUE]
        /\ RecordStep(i, "rebuild") /\ card' = card
    BY <1>2, <2>2, <2>4 DEF ReceiveRefresh
  <2>7. /\ DOMAIN view' = ViewFields
        /\ view'.number = view.number /\ view'.connection = view.connection
        /\ view'.replay = view.replay /\ view'.selected = view.selected
        /\ view'.moments = view.moments /\ view'.ready = TRUE
        /\ view'.interactions = shown /\ view'.build = view.build
    BY <1>1, <2>6 DEF ViewerTypes, ViewFields
  <2>8. ViewerTypes'
    BY <1>1, <2>6, <2>7, RecordStepEffect DEF ViewerTypes
  <2>9. ShownTogether' /\ NothingUnshown'
    BY <2>5, <2>7 DEF ScreenInv, ShownTogether, NothingUnshown
  <2> QED
    BY <1>1, <2>1, <2>6, <2>7, <2>8, <2>9, RecordStepEffect, RecordFits
<1>3. CASE ~SameView(i)
  <2>1. EndRecord(i) /\ TellCard(i, 0) /\ view' = view
    BY <1>3 DEF ReceiveRefresh
  <2> QED
    BY <1>1, <2>1, EndRecordEffect, TellCardEffect, UnshownRecordFits
<1> QED
  BY <1>2, <1>3

LEMMA RebuiltFits ==
    ASSUME DaemonInv, ScreenInv, NEW i \in Interactions, ReceiveRebuilt(i)
    PROVE  ScreenInv'
<1>1. ViewerTypes /\ UNCHANGED <<asked, load>> /\ record[i].step = "rebuilt"
  BY DEF ReceiveRebuilt, OnlyRecords, daemonVars, ScreenInv
<1>2. EndRecord(i) /\ TellCard(i, 0)
  BY DEF ReceiveRebuilt
<1>3. CASE SameView(i)
  <2>1. view.ready = TRUE /\ view.moments = asked[i].run /\ asked[i].run \in ReplayRuns
    BY <1>1, <1>3, AnswerFacts DEF ScreenInv, RecordsFitScreen, ViewerTypes, SameView, IsCurrent, Asks
  <2>2. view.moments = view.replay
    BY <2>1, ViewerFacts DEF ScreenInv, ShownTogether
  <2>3. PICK shot : shot = PreferNewer(view.build, Shot(asked[i].run, record[i].seen))
    OBVIOUS
  <2>4. shot.run \in {Nothing, view.replay}
    BY <2>1, <2>2, <2>3 DEF ScreenInv, ShownTogether, PreferNewer, Shot
  <2>5. view' = [view EXCEPT !.build = shot]
    BY <1>3, <2>3 DEF ReceiveRebuilt, ViewerTypes
  <2>6. ViewerTypes'
    BY <1>1, <1>2, <2>4, <2>5, BuildShown, EndRecordEffect, TellCardEffect DEF ViewerTypes
  <2> QED
    BY <1>1, <1>2, <2>1, <2>4, <2>5, <2>6, BuildShown, EndRecordEffect, TellCardEffect, RecordFits
<1>4. CASE ~SameView(i)
  <2>1. view' = view
    BY <1>4 DEF ReceiveRebuilt
  <2> QED
    BY <1>1, <1>2, <2>1, EndRecordEffect, TellCardEffect, UnshownRecordFits
<1> QED
  BY <1>3, <1>4

(***************************************************************************)
(* What a save does to the daemon is a question asked or repeated.         *)
(***************************************************************************)
LEMMA RecordActionFits ==
    ASSUME DaemonInv, ScreenInv, RecordAction
    PROVE  ScreenInv' /\ DaemonMoves
<1>1. ASSUME NEW i \in Interactions, NEW q \in Questions, Submit(i, q) PROVE ScreenInv' /\ DaemonMoves
  BY <1>1, SubmitFits
<1>2. ASSUME NEW q \in Questions, RetrySave(q) PROVE ScreenInv' /\ DaemonMoves
  BY <1>2, RetryFits
<1>3. ASSUME NEW i \in Interactions,
             \/ ReceiveReceipt(i) \/ ReadRefresh(i) \/ ReceiveRefresh(i)
             \/ ReceiveRebuilt(i) \/ LoseRecord(i)
      PROVE  ScreenInv' /\ DaemonMoves
  <2>1. UNCHANGED daemonVars
    BY <1>3 DEF ReceiveReceipt, ReadRefresh, ReceiveRefresh, ReceiveRebuilt, LoseRecord, OnlyRecords
  <2>2. ScreenInv'
    BY <1>3, ReceiptFits, ReadRefreshFits, RefreshFits, RebuiltFits, LoseRecordFits
  <2> QED
    BY <2>1, <2>2 DEF DaemonMoves
<1> QED
  BY <1>1, <1>2, <1>3 DEF RecordAction

-----------------------------------------------------------------------------
(* Every step *)

LEMMA QuietScreenFits ==
    ASSUME ScreenInv, UNCHANGED <<asked, view, load, record, card>>
    PROVE  ScreenInv'
BY DEF ScreenInv, ViewerTypes, ShownTogether, NothingUnshown, LoadsFitScreen, RecordsFitScreen,
       CardsFitScreen

LEMMA ConnectFits ==
    ASSUME ScreenInv, Connect
    PROVE  ScreenInv' /\ UNCHANGED daemonVars
<1>1. /\ ViewerTypes /\ UNCHANGED <<asked, load, record, card>> /\ UNCHANGED daemonVars
      /\ view' = [view EXCEPT !.connected = TRUE, !.connection = view.connection + 1]
  BY DEF Connect, daemonVars, ScreenInv
<1>2. /\ DOMAIN view' = ViewFields /\ view'.connection = view.connection + 1
      /\ view'.number = view.number /\ view'.replay = view.replay
      /\ view'.selected = view.selected /\ view'.moments = view.moments
      /\ view'.ready = view.ready /\ view'.interactions = view.interactions
      /\ view'.build = view.build
  BY <1>1 DEF ViewerTypes, ViewFields
<1>3. ViewerTypes'
  BY <1>1, <1>2 DEF ViewerTypes
<1>4. ShownTogether' /\ NothingUnshown'
  BY <1>2 DEF ScreenInv, ShownTogether, NothingUnshown
<1>5. LoadsFitScreen' /\ RecordsFitScreen' /\ CardsFitScreen'
  BY <1>1, <1>2 DEF ScreenInv, LoadsFitScreen, RecordsFitScreen, CardsFitScreen
<1> QED
  BY <1>1, <1>3, <1>4, <1>5 DEF ScreenInv

LEMMA ListFits ==
    ASSUME DaemonInv, ScreenInv, NEW l, ReceiveList(l)
    PROVE  ScreenInv' /\ UNCHANGED daemonVars
<1>1. UNCHANGED daemonVars /\ UNCHANGED <<asked, record>>
  BY DEF ReceiveList, daemonVars
<1>2. CASE \E r \in known : StartLoad(r)
  BY <1>1, <1>2, StartLoadFits DEF DaemonInv, InteractionTypeOK
<1>3. CASE UNCHANGED <<view, load, card>>
  BY <1>1, <1>3, QuietScreenFits
<1> QED
  BY <1>1, <1>2, <1>3 DEF ReceiveList

LEMMA RunsDeletedFits ==
    ASSUME ScreenInv, NEW l, HandleRunsDeleted(l)
    PROVE  ScreenInv' /\ UNCHANGED daemonVars
<1>1. UNCHANGED daemonVars /\ UNCHANGED <<asked, record, load>>
  BY DEF HandleRunsDeleted, daemonVars
<1>2. CASE ClearView(view.connected)
  BY <1>1, <1>2, ClearViewFits
<1>3. CASE UNCHANGED <<view, card>>
  BY <1>1, <1>3, QuietScreenFits
<1> QED
  BY <1>1, <1>2, <1>3 DEF HandleRunsDeleted

LEMMA ViewerStep ==
    ASSUME ViewerInv, [ViewerNext]_viewerVars
    PROVE  ScreenInv' /\ DaemonMoves
<1>1. DaemonInv /\ ScreenInv
  BY DEF ViewerInv
<1>2. CASE DaemonAnswers /\ UNCHANGED <<view, load, record, card, lists, drops>>
  <2>1. DaemonMoves
    BY <1>2 DEF DaemonAnswers, DaemonMoves
  <2>2. asked' = asked
    BY <1>2 DEF DaemonAnswers, VerifyProjection, RecordInteraction
  <2> QED
    BY <1>1, <1>2, <2>1, <2>2, QuietScreenFits
<1>3. ASSUME NEW r \in ReplayRuns, SelectRun(r) PROVE ScreenInv' /\ DaemonMoves
  <2>1. StartLoad(r) /\ UNCHANGED <<asked, record>> /\ UNCHANGED daemonVars
    BY <1>3 DEF SelectRun, daemonVars
  <2> QED
    BY <1>1, <2>1, StartLoadFits DEF DaemonMoves
<1>4. ASSUME NEW r \in ReplayRuns, DeleteRun(r) \/ DeleteElsewhere(r) PROVE ScreenInv' /\ DaemonMoves
  <2>1. DeleteKnownRun(r) /\ UNCHANGED <<asked, view, load, record, card>>
    BY <1>4 DEF DeleteRun, DeleteElsewhere, DeleteKnownRun
  <2> QED
    BY <1>1, <2>1, QuietScreenFits DEF DaemonMoves
<1>5. CASE Connect
  BY <1>1, <1>5, ConnectFits DEF DaemonMoves
<1>6. CASE Disconnect
  <2>1. ClearView(FALSE) /\ UNCHANGED <<asked, record, load>> /\ UNCHANGED daemonVars
    BY <1>6 DEF Disconnect, daemonVars
  <2> QED
    BY <1>1, <2>1, ClearViewFits DEF DaemonMoves
<1>7. ASSUME NEW l \in lists, ReceiveList(l) PROVE ScreenInv' /\ DaemonMoves
  BY <1>1, <1>7, ListFits DEF DaemonMoves
<1>8. ASSUME NEW l \in lists, LoseList(l) PROVE ScreenInv' /\ DaemonMoves
  <2>1. UNCHANGED daemonVars /\ UNCHANGED <<asked, view, load, record, card>>
    BY <1>8 DEF LoseList, daemonVars
  <2> QED
    BY <1>1, <2>1, QuietScreenFits DEF DaemonMoves
<1>9. CASE LoadRun
  <2>1. UNCHANGED daemonVars
    BY <1>9 DEF LoadRun, ReceiveReplay, ReceiveMoments, ReadInteractions, ReceiveInteractions,
                ReadBuildReplay, ReceiveBuildReplay, LoseLoad, OnlyLoads
  <2> QED
    BY <1>1, <1>9, <2>1, LoadRunFits DEF DaemonMoves
<1>10. CASE RecordAction
  BY <1>1, <1>10, RecordActionFits
<1>11. ASSUME NEW l \in lists, HandleRunsDeleted(l) PROVE ScreenInv' /\ DaemonMoves
  BY <1>1, <1>11, RunsDeletedFits DEF DaemonMoves
<1>12. CASE UNCHANGED viewerVars
  <2>1. UNCHANGED daemonVars /\ UNCHANGED <<asked, view, load, record, card>>
    BY <1>12 DEF viewerVars, daemonVars
  <2> QED
    BY <1>1, <2>1, QuietScreenFits DEF DaemonMoves
<1> QED
  BY <1>2, <1>3, <1>4, <1>5, <1>6, <1>7, <1>8, <1>9, <1>10, <1>11, <1>12 DEF ViewerNext

LEMMA ViewerStart == ViewerInit => ViewerInv
<1> SUFFICES ASSUME ViewerInit PROVE ScreenInv
  BY AnswerStart DEF ViewerInit, ViewerInv
<1>1. /\ view = [number |-> 0, connection |-> 0, connected |-> FALSE, selected |-> Nothing,
                 replay |-> Nothing, moments |-> Nothing, ready |-> FALSE,
                 interactions |-> NoShot, build |-> NoShot]
      /\ load = [n \in Views |-> NoLoad] /\ record = [i \in Interactions |-> NoRecord]
      /\ card = [q \in Questions |-> NoCard]
  BY DEF ViewerInit
<1>2. /\ NoRecord.step = "idle" /\ NoCard.failed = 0 /\ NoShot.run = Nothing
      /\ NoLoad.step = "none" /\ NoLoad.build = "none"
  BY DEF NoRecord, NoCard, NoShot, NoLoad
<1>3. ViewerTypes
  BY <1>1, ViewerFacts DEF ViewerTypes, ViewFields
<1>4. ShownTogether /\ NothingUnshown
  BY <1>1, <1>2 DEF ShownTogether, NothingUnshown
<1>5. LoadsFitScreen
  BY <1>1, <1>2, ViewerFacts DEF LoadsFitScreen
<1>6. RecordsFitScreen /\ CardsFitScreen
  BY <1>1, <1>2 DEF RecordsFitScreen, CardsFitScreen
<1> QED
  BY <1>3, <1>4, <1>5, <1>6 DEF ScreenInv

LEMMA ViewerInvKept == ViewerInv /\ [ViewerNext]_viewerVars => ViewerInv'
BY ViewerStep, DaemonKept DEF ViewerInv

(***************************************************************************)
(* Types of the daemon's side, for any number of views, runs, questions,   *)
(* interactions and tries.                                                 *)
(***************************************************************************)
THEOREM InteractionTypeCorrect == ViewerSpec => []InteractionTypeOK
<1>1. ViewerInv => InteractionTypeOK
  BY DEF ViewerInv, DaemonInv
<1> QED
  BY <1>1, ViewerStart, ViewerInvKept, PTL DEF ViewerSpec

(***************************************************************************)
(* What the screen shows side by side is about the selected run, whatever  *)
(* was selected, answered or deleted while the pieces of it were fetched.  *)
(***************************************************************************)
THEOREM ShownAgrees == ViewerSpec => []ShownTogether
<1>1. ViewerInv => ShownTogether
  BY DEF ViewerInv, ScreenInv
<1> QED
  BY <1>1, ViewerStart, ViewerInvKept, PTL DEF ViewerSpec

(***************************************************************************)
(* Retries, requests that overtake each other and deletions under way:     *)
(* every step of browser and daemon is a step of AnswerPromise or none.    *)
(***************************************************************************)
THEOREM AnswersKeepTheirPromise == ViewerSpec => KeepsAnswerPromise
<1>1. ViewerInit => Promised!Init
  BY PromisedStart DEF ViewerInit
<1>2. ViewerInv /\ [ViewerNext]_viewerVars => [Promised!Next]_(Promised!promiseVars)
  BY ViewerStep, DaemonPromised DEF ViewerInv, KeepsPromise
<1> QED
  BY <1>1, <1>2, ViewerStart, ViewerInvKept, PTL DEF ViewerSpec, KeepsAnswerPromise, Promised!Spec

-----------------------------------------------------------------------------
(* Answers stay on the screen *)

(***************************************************************************)
(* The sets of answers read from the daemon and not yet superseded: the    *)
(* one shown, and those on their way to the screen.                        *)
(***************************************************************************)
OnScreen(r, seen)   == view.interactions.run = r /\ view.interactions.seen = seen
InLoad(n, r, seen)  == load[n].step = "response" /\ load[n].run = r /\ load[n].seen = seen
InSave(i, r, seen)  == record[i].step = "refreshed" /\ asked[i].run = r /\ record[i].seen = seen

Snapshot(r, seen) ==
    \/ OnScreen(r, seen)
    \/ \E n \in Views : InLoad(n, r, seen)
    \/ \E i \in Interactions : InSave(i, r, seen)

(***************************************************************************)
(* Snapshots of one run are versions of the same growing list, and of none *)
(* longer than the list is while the run exists.                           *)
(***************************************************************************)
SnapshotsAreVersions ==
    \A r \in ReplayRuns : \A seen, other \in SUBSET Interactions :
        Snapshot(r, seen) /\ Snapshot(r, other) => seen \subseteq other \/ other \subseteq seen

SnapshotsAreRecorded ==
    \A r \in known : \A seen \in SUBSET Interactions :
        Snapshot(r, seen) => seen \subseteq Recorded(r)

SnapshotInv == ViewerInv /\ SnapshotsAreVersions /\ SnapshotsAreRecorded

(***************************************************************************)
(* Where the snapshots after a step come from.                             *)
(***************************************************************************)
ScreenShows ==
    \/ view'.interactions = view.interactions
    \/ view'.interactions = NoShot /\ view'.number # view.number
    \/ \E n \in Views : /\ n = view.number /\ load[n].step = "response"
                        /\ view'.interactions = Shot(load[n].run, load[n].seen)
    \/ \E i \in Interactions :
          /\ record[i].step = "refreshed"
          /\ view'.interactions =
                PreferNewer(view.interactions, Shot(asked[i].run, record[i].seen))

LoadsCarry ==
    \A n \in Views : load'[n].step = "response" =>
        \/ load[n].step = "response" /\ load'[n].run = load[n].run /\ load'[n].seen = load[n].seen
        \/ load'[n].run \in known /\ load'[n].seen = Recorded(load'[n].run)

SavesCarry ==
    \A i \in Interactions : record'[i].step = "refreshed" =>
        \/ record[i].step = "refreshed" /\ asked'[i] = asked[i] /\ record'[i].seen = record[i].seen
        \/ asked'[i].run \in known /\ record'[i].seen = Recorded(asked'[i].run)

Carries == ScreenShows /\ LoadsCarry /\ SavesCarry

LEMMA LoadRunCarries ==
    ASSUME ViewerInv, LoadRun
    PROVE  Carries
<1>1. /\ ViewerTypes /\ DOMAIN view = ViewFields
      /\ UNCHANGED <<record, asked>>
  BY DEF ViewerInv, ScreenInv, ViewerTypes, LoadRun, ReceiveReplay, ReceiveMoments, ReadInteractions,
         ReceiveInteractions, ReadBuildReplay, ReceiveBuildReplay, LoseLoad, OnlyLoads, daemonVars
<1>2. SavesCarry
  BY <1>1 DEF SavesCarry
<1>3. ASSUME NEW n \in Views, EndLoad(n) PROVE LoadsCarry
  BY <1>1, <1>3, EndLoadEffect DEF LoadsCarry
<1>4. ASSUME NEW n \in Views, EndBuild(n) PROVE LoadsCarry
  BY <1>1, <1>4, EndBuildEffect DEF LoadsCarry
<1>5. ASSUME NEW n \in Views, ReceiveReplay(n) PROVE ScreenShows /\ LoadsCarry
  <2>1. view'.interactions = view.interactions
    BY <1>1, <1>5 DEF ReceiveReplay, ViewFields
  <2>2. CASE EndLoad(n)
    BY <1>3, <2>1, <2>2 DEF ScreenShows
  <2>3. CASE load' = [load EXCEPT ![n].step = "moments", ![n].build = "asked"]
    <3>1. /\ \A m \in Views \ {n} : load'[m] = load[m]
          /\ load'[n].step = "moments"
      BY <1>1, <2>3 DEF ViewerTypes, LoadRow
    <3> QED
      BY <2>1, <3>1 DEF ScreenShows, LoadsCarry
  <2> QED
    BY <1>5, <2>2, <2>3 DEF ReceiveReplay
<1>6. ASSUME NEW n \in Views, ReceiveMoments(n) PROVE ScreenShows /\ LoadsCarry
  <2>1. view'.interactions = view.interactions
    BY <1>1, <1>6 DEF ReceiveMoments, ViewFields
  <2>2. CASE LoadStep(n, "state")
    BY <1>1, <2>1, <2>2, LoadStepEffect DEF ScreenShows, LoadsCarry
  <2> QED
    BY <1>3, <1>6, <2>1, <2>2 DEF ReceiveMoments, ScreenShows
<1>7. ASSUME NEW n \in Views, ReadInteractions(n) PROVE ScreenShows /\ LoadsCarry
  <2>1. view' = view
    BY <1>7 DEF ReadInteractions
  <2>2. CASE load[n].run \in known
    <3>1. load' = [load EXCEPT ![n].step = "response", ![n].seen = Recorded(load[n].run)]
      BY <1>7, <2>2 DEF ReadInteractions
    <3> DEFINE seen == Recorded(load[n].run)
    <3>2. load' = [load EXCEPT ![n].step = "response", ![n].seen = seen]
      BY <3>1
    <3> HIDE DEF seen
    <3>3. /\ \A m \in Views \ {n} : load'[m] = load[m]
          /\ load'[n].run = load[n].run /\ load'[n].seen = seen
      BY <1>1, <3>2 DEF ViewerTypes, LoadRow
    <3> QED
      BY <2>1, <2>2, <3>3 DEF ScreenShows, LoadsCarry, seen
  <2> QED
    BY <1>3, <1>7, <2>1, <2>2 DEF ReadInteractions, ScreenShows
<1>8. ASSUME NEW n \in Views, ReceiveInteractions(n) PROVE ScreenShows /\ LoadsCarry
  <2>1. CASE n = view.number
    <3> DEFINE shot == Shot(load[n].run, load[n].seen)
    <3>1. view' = [view EXCEPT !.interactions = shot, !.ready = TRUE] /\ load[n].step = "response"
      BY <1>8, <2>1 DEF ReceiveInteractions, IsCurrent
    <3> HIDE DEF shot
    <3>2. view'.interactions = shot
      BY <1>1, <3>1 DEF ViewFields
    <3> QED
      BY <1>3, <1>8, <2>1, <3>1, <3>2 DEF ReceiveInteractions, ScreenShows, shot
  <2>2. CASE n # view.number
    BY <1>3, <1>8, <2>2 DEF ReceiveInteractions, IsCurrent, ScreenShows
  <2> QED
    BY <2>1, <2>2
<1>9. ASSUME NEW n \in Views, ReadBuildReplay(n) PROVE ScreenShows /\ LoadsCarry
  <2>1. view' = view
    BY <1>9 DEF ReadBuildReplay
  <2>2. CASE load[n].run \in known
    <3> DEFINE seen == Recorded(load[n].run)
    <3>1. load' = [load EXCEPT ![n].build = "response", ![n].buildSeen = seen]
      BY <1>9, <2>2 DEF ReadBuildReplay
    <3> HIDE DEF seen
    <3>2. /\ \A m \in Views \ {n} : load'[m] = load[m]
          /\ load'[n].run = load[n].run /\ load'[n].seen = load[n].seen
          /\ load'[n].step = load[n].step
      BY <1>1, <3>1 DEF ViewerTypes, LoadRow
    <3> QED
      BY <2>1, <3>2 DEF ScreenShows, LoadsCarry
  <2> QED
    BY <1>4, <1>9, <2>1, <2>2 DEF ReadBuildReplay, ScreenShows
<1>10. ASSUME NEW n \in Views, ReceiveBuildReplay(n) PROVE ScreenShows /\ LoadsCarry
  <2>1. view'.interactions = view.interactions
    BY <1>1, <1>10 DEF ReceiveBuildReplay, ViewFields
  <2> QED
    BY <1>4, <1>10, <2>1 DEF ReceiveBuildReplay, ScreenShows
<1>11. ASSUME NEW n \in Views, LoseLoad(n) PROVE ScreenShows /\ LoadsCarry
  <2>1. view'.interactions = view.interactions
    BY <1>1, <1>11 DEF LoseLoad, ViewFields
  <2> QED
    BY <1>3, <1>4, <1>11, <2>1 DEF LoseLoad, ScreenShows
<1> QED
  BY <1>2, <1>5, <1>6, <1>7, <1>8, <1>9, <1>10, <1>11 DEF LoadRun, Carries

LEMMA RecordActionCarries ==
    ASSUME ViewerInv, RecordAction
    PROVE  Carries
<1>1. /\ ViewerTypes /\ DOMAIN view = ViewFields /\ UNCHANGED load
  <2>1. \A i \in Interactions, q \in Questions : Submit(i, q) => UNCHANGED load
    BY DEF Submit
  <2>2. \A i \in Interactions :
            (\/ ReceiveReceipt(i) \/ ReadRefresh(i) \/ ReceiveRefresh(i)
             \/ ReceiveRebuilt(i) \/ LoseRecord(i)) => UNCHANGED load
    BY DEF ReceiveReceipt, ReadRefresh, ReceiveRefresh, ReceiveRebuilt, LoseRecord, OnlyRecords
  <2>3. \A q \in Questions : RetrySave(q) => UNCHANGED load
    BY DEF RetrySave
  <2> QED
    BY <2>1, <2>2, <2>3 DEF ViewerInv, ScreenInv, ViewerTypes, RecordAction
<1>2. LoadsCarry
  BY <1>1 DEF LoadsCarry
<1>3. ASSUME NEW i \in Interactions, NEW t, Send(i, t),
             \A j \in Interactions \ {i} : asked'[j] = asked[j]
      PROVE  SavesCarry
  <2>1. /\ \A j \in Interactions \ {i} : record'[j] = record[j]
        /\ record'[i].step = "posted"
    BY <1>1, <1>3 DEF Send, ViewerTypes
  <2> QED
    BY <1>3, <2>1 DEF SavesCarry
<1>4. ASSUME NEW i \in Interactions, asked' = asked,
             \A j \in Interactions \ {i} : record'[j] = record[j],
             record'[i].step # "refreshed"
      PROVE  SavesCarry
  BY <1>4 DEF SavesCarry
<1>5. ASSUME NEW i \in Interactions, asked' = asked, EndRecord(i) PROVE SavesCarry
  BY <1>1, <1>4, <1>5, EndRecordEffect
<1>6. ASSUME NEW i \in Interactions, NEW q \in Questions, Submit(i, q)
      PROVE  ScreenShows /\ SavesCarry
  <2>1. /\ Send(i, 1) /\ view' = view
        /\ asked' = [asked EXCEPT ![i] = [run |-> view.moments, question |-> q]]
    BY <1>6 DEF Submit
  <2>2. \A j \in Interactions \ {i} : asked'[j] = asked[j]
    BY <2>1 DEF ViewerInv, DaemonInv, InteractionTypeOK
  <2> QED
    BY <1>3, <2>1, <2>2 DEF ScreenShows
<1>7. ASSUME NEW q \in Questions, RetrySave(q) PROVE ScreenShows /\ SavesCarry
  <2>1. PICK i \in Interactions : i = card[q].failed
    BY <1>7 DEF RetrySave, ViewerInv, ScreenInv, CardsFitScreen
  <2>2. Send(i, record[i].try + 1) /\ view' = view /\ asked' = asked
    BY <1>7, <2>1 DEF RetrySave
  <2> QED
    BY <1>3, <2>2 DEF ScreenShows
<1>8. ASSUME NEW i \in Interactions, ReceiveReceipt(i) PROVE ScreenShows /\ SavesCarry
  <2>1. view' = view /\ asked' = asked
    BY <1>8 DEF ReceiveReceipt, OnlyRecords, daemonVars
  <2>2. CASE RecordStep(i, "refresh")
    BY <1>1, <1>4, <2>1, <2>2, RecordStepEffect DEF ScreenShows
  <2> QED
    BY <1>5, <1>8, <2>1, <2>2 DEF ReceiveReceipt, ScreenShows
<1>9. ASSUME NEW i \in Interactions, ReadRefresh(i) PROVE ScreenShows /\ SavesCarry
  <2>1. view' = view /\ asked' = asked
    BY <1>9 DEF ReadRefresh, OnlyRecords, daemonVars
  <2>2. CASE asked[i].run \in known
    BY <1>1, <1>9, <2>1, <2>2, ReadRefreshEffect DEF ScreenShows, SavesCarry
  <2>3. CASE asked[i].run \notin known
    <3>1. EndRecord(i)
      BY <1>9, <2>3 DEF ReadRefresh
    <3> QED
      BY <1>5, <2>1, <3>1 DEF ScreenShows
  <2> QED
    BY <2>2, <2>3
<1>10. ASSUME NEW i \in Interactions, ReceiveRefresh(i) PROVE ScreenShows /\ SavesCarry
  <2>1. asked' = asked /\ record[i].step = "refreshed"
    BY <1>10 DEF ReceiveRefresh, OnlyRecords, daemonVars
  <2>2. CASE SameView(i)
    <3> DEFINE shown == PreferNewer(view.interactions, Shot(asked[i].run, record[i].seen))
    <3>1. view' = [view EXCEPT !.interactions = shown, !.ready = TRUE] /\ RecordStep(i, "rebuild")
      BY <1>10, <2>2 DEF ReceiveRefresh
    <3> HIDE DEF shown
    <3>2. view'.interactions = shown
      BY <1>1, <3>1 DEF ViewFields
    <3>3. SavesCarry
      BY <1>1, <1>4, <2>1, <3>1, RecordStepEffect
    <3> QED
      BY <2>1, <3>2, <3>3 DEF ScreenShows, shown
  <2>3. CASE ~SameView(i)
    BY <1>5, <1>10, <2>1, <2>3 DEF ReceiveRefresh, ScreenShows
  <2> QED
    BY <2>2, <2>3
<1>11. ASSUME NEW i \in Interactions, ReceiveRebuilt(i) PROVE ScreenShows /\ SavesCarry
  <2>1. asked' = asked /\ EndRecord(i)
    BY <1>11 DEF ReceiveRebuilt, OnlyRecords, daemonVars
  <2>2. view'.interactions = view.interactions
    BY <1>1, <1>11 DEF ReceiveRebuilt, ViewFields
  <2> QED
    BY <1>5, <2>1, <2>2 DEF ScreenShows
<1>12. ASSUME NEW i \in Interactions, LoseRecord(i) PROVE ScreenShows /\ SavesCarry
  <2>1. asked' = asked /\ EndRecord(i) /\ view' = view
    BY <1>12 DEF LoseRecord, OnlyRecords, daemonVars
  <2> QED
    BY <1>5, <2>1 DEF ScreenShows
<1> QED
  BY <1>2, <1>6, <1>7, <1>8, <1>9, <1>10, <1>11, <1>12 DEF RecordAction, Carries

LEMMA ViewerCarries ==
    ASSUME ViewerInv, [ViewerNext]_viewerVars
    PROVE  Carries
<1>1. /\ ViewerTypes /\ DOMAIN view = ViewFields /\ view.number \in Nat
  BY ViewerFacts DEF ViewerInv, ScreenInv, ViewerTypes
<1>2. ASSUME ScreenShows, UNCHANGED <<load, record, asked>> PROVE Carries
  BY <1>2 DEF Carries, LoadsCarry, SavesCarry
<1>3. ASSUME NEW r, StartLoad(r), UNCHANGED <<record, asked>> PROVE Carries
  <2>1. view'.interactions = NoShot /\ view'.number # view.number
    BY <1>1, <1>3 DEF StartLoad, ViewFields
  <2>2. load' = [load EXCEPT ![view.number + 1] = [NoLoad EXCEPT !.run = r, !.step = "replay"]]
    BY <1>3 DEF StartLoad
  <2>3. \A n \in Views : load'[n].step = "response" => load'[n] = load[n]
    BY <1>1, <2>2 DEF ViewerTypes, NoLoad
  <2> QED
    BY <1>3, <2>1, <2>3 DEF Carries, ScreenShows, LoadsCarry, SavesCarry
<1>4. ASSUME NEW connected, ClearView(connected), UNCHANGED <<load, record, asked>> PROVE Carries
  <2>1. view'.interactions = NoShot /\ view'.number # view.number
    BY <1>1, <1>4 DEF ClearView, ViewFields
  <2> QED
    BY <1>2, <1>4, <2>1 DEF ScreenShows
<1>5. ASSUME UNCHANGED <<view, load, record, asked>> PROVE Carries
  BY <1>2, <1>5 DEF ScreenShows
<1>6. CASE DaemonAnswers /\ UNCHANGED <<view, load, record, card, lists, drops>>
  <2>1. asked' = asked
    BY <1>6 DEF DaemonAnswers, VerifyProjection, RecordInteraction
  <2> QED
    BY <1>5, <1>6, <2>1
<1>7. ASSUME NEW r \in ReplayRuns, SelectRun(r) PROVE Carries
  BY <1>3, <1>7 DEF SelectRun, daemonVars
<1>8. ASSUME NEW r \in ReplayRuns, DeleteRun(r) \/ DeleteElsewhere(r) PROVE Carries
  BY <1>5, <1>8 DEF DeleteRun, DeleteElsewhere, DeleteKnownRun
<1>9. CASE Connect
  <2>1. view'.interactions = view.interactions
    BY <1>1, <1>9 DEF Connect, ViewFields
  <2> QED
    BY <1>2, <1>9, <2>1 DEF Connect, daemonVars, ScreenShows
<1>10. CASE Disconnect
  BY <1>4, <1>10 DEF Disconnect, daemonVars
<1>11. ASSUME NEW l \in lists, ReceiveList(l) PROVE Carries
  <2>1. UNCHANGED <<record, asked>>
    BY <1>11 DEF ReceiveList, daemonVars
  <2> QED
    BY <1>3, <1>5, <1>11, <2>1 DEF ReceiveList
<1>12. ASSUME NEW l \in lists, LoseList(l) PROVE Carries
  BY <1>5, <1>12 DEF LoseList, daemonVars
<1>13. ASSUME NEW l \in lists, HandleRunsDeleted(l) PROVE Carries
  <2>1. UNCHANGED <<load, record, asked>>
    BY <1>13 DEF HandleRunsDeleted, daemonVars
  <2> QED
    BY <1>4, <1>5, <1>13, <2>1 DEF HandleRunsDeleted
<1>14. CASE UNCHANGED viewerVars
  BY <1>5, <1>14 DEF viewerVars, daemonVars
<1> QED
  BY <1>6, <1>7, <1>8, <1>9, <1>10, <1>11, <1>12, <1>13, <1>14, LoadRunCarries, RecordActionCarries
     DEF ViewerNext

(***************************************************************************)
(* No run comes back, and the answers of one that stays only grow.         *)
(***************************************************************************)
LEMMA AnswersGrow ==
    ASSUME DaemonInv, DaemonInv', DaemonMoves, NEW r \in known'
    PROVE  r \in known /\ Recorded(r) \subseteq Recorded(r)'
<1>1. r \in ReplayRuns
  BY DEF DaemonInv, InteractionTypeOK
<1>2. ASSUME UNCHANGED <<known, interaction>>
      PROVE  r \in known /\ Recorded(r) \subseteq Recorded(r)'
  BY <1>2 DEF Recorded
<1>3. ASSUME NEW i \in Interactions, NEW t \in Tries, RecordInteraction(i, t)
      PROVE  r \in known /\ Recorded(r) \subseteq Recorded(r)'
  <2>1. CASE Inserts(i, t)
    BY <1>1, <2>1, InsertRecorded DEF Inserts
  <2>2. known' = known
    BY <1>3 DEF RecordInteraction
  <2> QED
    BY <1>2, <1>3, <2>1, <2>2, RecordTransaction
<1>4. ASSUME NEW d \in ReplayRuns, DeleteKnownRun(d)
      PROVE  r \in known /\ Recorded(r) \subseteq Recorded(r)'
  BY <1>1, <1>4, DeleteRecorded DEF DeleteKnownRun
<1> QED
  BY <1>2, <1>3, <1>4 DEF DaemonMoves, VerifyProjection, Repeats, AsksFor, daemonVars

LEMMA SnapshotSources ==
    ASSUME ViewerInv, Carries, NEW r \in ReplayRuns, NEW seen, Snapshot(r, seen)'
    PROVE  Snapshot(r, seen) \/ (r \in known /\ seen = Recorded(r))
<1>1. CASE OnScreen(r, seen)'
  <2>1. view'.interactions.run = r /\ view'.interactions.seen = seen
    BY <1>1 DEF OnScreen
  <2>2. ASSUME view'.interactions = view.interactions PROVE Snapshot(r, seen)
    BY <2>1, <2>2 DEF Snapshot, OnScreen
  <2>3. view'.interactions # NoShot
    BY <2>1, ViewerFacts DEF NoShot
  <2>4. ASSUME NEW n \in Views, load[n].step = "response",
               view'.interactions = Shot(load[n].run, load[n].seen)
        PROVE  InLoad(n, r, seen)
    BY <2>1, <2>4 DEF Shot, InLoad
  <2>5. ASSUME NEW i \in Interactions, record[i].step = "refreshed",
               view'.interactions = PreferNewer(view.interactions, Shot(asked[i].run, record[i].seen))
        PROVE  Snapshot(r, seen)
    <3>1. CASE view'.interactions = Shot(asked[i].run, record[i].seen)
      BY <2>1, <2>5, <3>1 DEF Shot, InSave, Snapshot
    <3> QED
      BY <2>2, <2>5, <3>1 DEF PreferNewer
  <2> QED
    BY <2>2, <2>3, <2>4, <2>5 DEF Carries, ScreenShows, Snapshot
<1>2. ASSUME NEW n \in Views, InLoad(n, r, seen)'
      PROVE  Snapshot(r, seen) \/ (r \in known /\ seen = Recorded(r))
  BY <1>2 DEF InLoad, Carries, LoadsCarry, Snapshot
<1>3. ASSUME NEW i \in Interactions, InSave(i, r, seen)'
      PROVE  Snapshot(r, seen) \/ (r \in known /\ seen = Recorded(r))
  BY <1>3 DEF InSave, Carries, SavesCarry, Snapshot
<1> QED
  BY <1>1, <1>2, <1>3 DEF Snapshot

LEMMA SnapshotsKept == SnapshotInv /\ [ViewerNext]_viewerVars => SnapshotInv'
<1> SUFFICES ASSUME SnapshotInv, [ViewerNext]_viewerVars PROVE SnapshotInv'
  OBVIOUS
<1>1. ViewerInv /\ ViewerInv' /\ DaemonInv /\ DaemonInv' /\ DaemonMoves /\ Carries
  BY ViewerInvKept, ViewerStep, ViewerCarries DEF SnapshotInv, ViewerInv
<1>2. known \subseteq ReplayRuns /\ \A r \in known' : r \in ReplayRuns
  BY <1>1 DEF DaemonInv, InteractionTypeOK
<1>3. \A r \in known : \A seen \in SUBSET Interactions : Snapshot(r, seen) => seen \subseteq Recorded(r)
  BY DEF SnapshotInv, SnapshotsAreRecorded
<1>4. SnapshotsAreVersions'
  <2> SUFFICES ASSUME NEW r \in ReplayRuns, NEW seen \in SUBSET Interactions,
                      NEW other \in SUBSET Interactions,
                      Snapshot(r, seen)', Snapshot(r, other)'
               PROVE  seen \subseteq other \/ other \subseteq seen
    BY DEF SnapshotsAreVersions
  <2>1. Snapshot(r, seen) \/ (r \in known /\ seen = Recorded(r))
    BY <1>1, SnapshotSources
  <2>2. Snapshot(r, other) \/ (r \in known /\ other = Recorded(r))
    BY <1>1, SnapshotSources
  <2> QED
    BY <1>3, <2>1, <2>2 DEF SnapshotInv, SnapshotsAreVersions
<1>5. SnapshotsAreRecorded'
  <2> SUFFICES ASSUME NEW r \in known', NEW seen \in SUBSET Interactions, Snapshot(r, seen)'
               PROVE  seen \subseteq Recorded(r)'
    BY DEF SnapshotsAreRecorded
  <2>1. Snapshot(r, seen) \/ (r \in known /\ seen = Recorded(r))
    BY <1>1, <1>2, SnapshotSources
  <2>2. r \in known /\ Recorded(r) \subseteq Recorded(r)'
    BY <1>1, AnswersGrow
  <2> QED
    BY <1>3, <2>1, <2>2
<1> QED
  BY <1>1, <1>4, <1>5 DEF SnapshotInv

LEMMA SnapshotsStart == ViewerInit => SnapshotInv
<1> SUFFICES ASSUME ViewerInit, NEW r \in ReplayRuns, NEW seen PROVE ~Snapshot(r, seen)
  BY ViewerStart DEF SnapshotInv, SnapshotsAreVersions, SnapshotsAreRecorded, ViewerInit, InteractionInit
<1> QED
  BY ViewerFacts
     DEF ViewerInit, Snapshot, OnScreen, InLoad, InSave, NoShot, NoLoad, NoRecord

LEMMA InteractionsFinite == IsFiniteSet(Interactions)
BY InteractionConstants, FS_Interval DEF InteractionConstants, Interactions

LEMMA ScreenKeepsAnswers ==
    ASSUME SnapshotInv, [ViewerNext]_viewerVars, view'.number = view.number,
           view'.interactions.run = view.interactions.run
    PROVE  view.interactions.seen \subseteq view'.interactions.seen
<1>1. ViewerInv /\ ScreenInv /\ Carries
  BY ViewerCarries DEF SnapshotInv, ViewerInv
<1>2. ASSUME NEW n \in Views, n = view.number, load[n].step = "response",
             view'.interactions = Shot(load[n].run, load[n].seen)
      PROVE  FALSE
  <2>1. view.interactions = NoShot /\ load[n].run \in ReplayRuns
    BY <1>1, <1>2 DEF ScreenInv, LoadsFitScreen, NothingUnshown
  <2> QED
    BY <1>2, <2>1, ViewerFacts DEF NoShot, Shot
<1>3. ASSUME NEW i \in Interactions, record[i].step = "refreshed",
             view'.interactions = PreferNewer(view.interactions, Shot(asked[i].run, record[i].seen))
      PROVE  view.interactions.seen \subseteq view'.interactions.seen
  <2> DEFINE r    == asked[i].run
             next == Shot(r, record[i].seen)
             seen == view.interactions.seen
  <2>1. r \in ReplayRuns /\ seen \subseteq Interactions /\ record[i].seen \subseteq Interactions
    BY <1>1, <1>3, AnswerFacts
       DEF ScreenInv, RecordsFitScreen, ViewerTypes, RecordRow, ShotRow, Asks
  <2>2. CASE view'.interactions = next /\ Cardinality(record[i].seen) >= Cardinality(seen)
    <3>1. view.interactions.run = r /\ view'.interactions.seen = record[i].seen
      BY <2>2 DEF Shot
    <3>2. Snapshot(r, seen) /\ Snapshot(r, record[i].seen)
      BY <1>3, <3>1 DEF Snapshot, OnScreen, InSave
    <3>3. seen \subseteq record[i].seen \/ record[i].seen \subseteq seen
      BY <2>1, <3>2 DEF SnapshotInv, SnapshotsAreVersions
    <3>4. IsFiniteSet(seen) /\ IsFiniteSet(record[i].seen)
      BY <2>1, InteractionsFinite, FS_Subset
    <3>5. CASE record[i].seen \subseteq seen
      <4>1. Cardinality(record[i].seen) = Cardinality(seen)
        BY <2>2, <3>4, <3>5, FS_Subset, FS_CardinalityType
      <4> QED
        BY <3>1, <3>4, <3>5, <4>1, FS_Subset
    <3> QED
      BY <3>1, <3>3, <3>5
  <2>3. next.run = r /\ next.seen = record[i].seen
    BY DEF Shot
  <2>4. view'.interactions = view.interactions \/
            (view'.interactions = next /\ (view.interactions.run # next.run
                                           \/ Cardinality(next.seen) >= Cardinality(seen)))
    BY <1>3 DEF PreferNewer
  <2> QED
    BY <2>2, <2>3, <2>4
<1> QED
  BY <1>1, <1>2, <1>3 DEF Carries, ScreenShows

(***************************************************************************)
(* Whatever order the answers of the daemon arrive in, an answer recorded  *)
(* and shown stays on the screen for as long as the view does: what is on  *)
(* the screen and on its way to it are versions of one growing list, so    *)
(* that to compare their lengths is to compare them.                       *)
(***************************************************************************)
THEOREM ShownAnswersStay == ViewerSpec => AnswersStayShown
<1>1. SnapshotInv /\ [ViewerNext]_viewerVars =>
          [view'.number = view.number /\ view'.interactions.run = view.interactions.run =>
              view.interactions.seen \subseteq view'.interactions.seen]_viewerVars
  BY ScreenKeepsAnswers
<1> QED
  BY <1>1, SnapshotsStart, SnapshotsKept, PTL DEF ViewerSpec, AnswersStayShown

=============================================================================
