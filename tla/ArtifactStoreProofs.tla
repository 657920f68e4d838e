-------------------------- MODULE ArtifactStoreProofs --------------------------
(***************************************************************************)
(* Proofs about the artifact store, for any number of runs, contents,      *)
(* requests, failures and crashes.                                         *)
(***************************************************************************)
EXTENDS ArtifactStore, TLAPS

-----------------------------------------------------------------------------
(* Type correctness *)

LEMMA TypeInit == Init => TypeOK
BY StoreConstants
   DEF StoreConstants, Init, TypeOK, PutState, IdlePut, GcState, IdleGc

LEMMA GcUpdateType ==
    ASSUME TypeOK, NEW q \in Requests, NEW g \in GcState,
           g.at # "loop" => g.content \in Contents
    PROVE  /\ [gc EXCEPT ![q] = g] \in [Requests -> GcState]
           /\ \A p \in Requests : [gc EXCEPT ![q] = g][p].at # "loop"
                                    => [gc EXCEPT ![q] = g][p].content \in Contents
BY DEF TypeOK

LEMMA IdleTypes ==
    /\ IdlePut \in PutState /\ IdlePut.at = "idle"
    /\ IdleGc \in GcState /\ IdleGc.at = "loop" /\ IdleGc.todo = {}
BY DEF IdlePut, PutState, IdleGc, GcState

LEMMA TypePump == TypeOK /\ Pump => TypeOK'
<1> SUFFICES ASSUME TypeOK, Pump PROVE TypeOK'
  OBVIOUS
<1> USE StoreConstants, IdleTypes DEF StoreConstants
<1>0. ASSUME NEW c \in Contents, StartPut(c) PROVE TypeOK'
  BY <1>0 DEF StartPut, TypeOK, PutState, tableVars, historyVars
<1>1. CASE LinkObject
  <2>1. put \in PutState /\ put.content \in Contents
    BY <1>1 DEF LinkObject, TypeOK
  <2>2. put' \in PutState /\ put'.content = put.content
    BY <1>1, <2>1 DEF LinkObject, PutState
  <2> QED
    BY <1>1, <2>1, <2>2 DEF LinkObject, TypeOK, tableVars
<1>2. CASE VerifyObject
  <2>1. [put EXCEPT !.at = "verified"] \in PutState
    BY DEF TypeOK, PutState
  <2>2. [put EXCEPT !.at = "verified"].content = put.content
    BY DEF TypeOK, PutState
  <2>3. put.content \in Contents
    BY <1>2 DEF VerifyObject, TypeOK
  <2>4. put' \in PutState /\ (put'.at # "idle" => put'.content \in Contents)
    BY <1>2, <2>1, <2>2, <2>3 DEF VerifyObject, IdlePut
  <2> QED
    BY <1>2, <2>4 DEF VerifyObject, TypeOK, tableVars, historyVars
<1>3. CASE PersistArtifact
  <2>1. put.content \in Contents
    BY <1>3 DEF PersistArtifact, TypeOK
  <2>2. CASE LinkFails(put.content)
    BY <1>3, <2>1, <2>2 DEF PersistArtifact, TypeOK, tableVars
  <2>3. ASSUME NEW id \in RowIdFor(put.content), UseRow(put.content, id),
               UNCHANGED <<objects, gc, failures, crashes, overlapped>>
        PROVE  TypeOK'
    <3>1. id \in Nat
      BY <2>3 DEF RowIdFor, RowsOf, TypeOK, Row
    <3>2. [id |-> id, content |-> put.content] \in Row
      BY <2>1, <3>1 DEF Row
    <3>3. [run |-> RunOf[put.content], id |-> id] \in Reference
      BY <2>1, <3>1 DEF Reference
    <3>4. [at |-> "persisted", content |-> put.content, id |-> id] \in PutState
      BY <2>1, <3>1 DEF PutState
    <3> QED
      BY <2>3, <2>1, <3>1, <3>2, <3>3, <3>4 DEF UseRow, TypeOK, IdlePut
  <2> QED
    BY <1>3, <2>2, <2>3 DEF PersistArtifact
<1>4. CASE LinkArtifact
  <2>1. put.content \in Contents /\ put.id \in Nat
    BY <1>4 DEF LinkArtifact, TypeOK, PutState
  <2> QED
    BY <1>4, <2>1
       DEF LinkArtifact, TypeOK, Reference, IdlePut, historyVars
<1> QED
  BY <1>0, <1>1, <1>2, <1>3, <1>4 DEF Pump

LEMMA TypeCollect ==
    ASSUME TypeOK, NEW q \in Requests, Collect(q)
    PROVE  TypeOK'
<1>1. gc[q] \in GcState
  BY DEF TypeOK
<1>2. ASSUME NEW a \in gc[q].todo, CheckObject(q, a) PROVE TypeOK'
  <2> DEFINE g == [at |-> "checked", todo |-> gc[q].todo \ {a}, content |-> a.content,
                   id |-> a.id, present |-> a.content \in objects]
  <2>1. a \in Row
    BY <1>1 DEF GcState
  <2>2. g \in GcState /\ g.content \in Contents
    BY <1>1, <2>1 DEF GcState, Row
  <2>3. gc' = [gc EXCEPT ![q] = g]
    BY <1>2 DEF CheckObject
  <2> HIDE DEF g
  <2>4. /\ gc' \in [Requests -> GcState]
        /\ \A p \in Requests : gc'[p].at # "loop" => gc'[p].content \in Contents
    BY <2>2, <2>3, GcUpdateType
  <2> QED
    BY <1>2, <2>4 DEF CheckObject, TypeOK, tableVars, historyVars
<1>3. ASSUME gc[q].at # "loop", NEW at \in {"loop", "checked", "deleted", "found"},
             gc' = [gc EXCEPT ![q].at = at]
      PROVE  /\ gc' \in [Requests -> GcState]
             /\ \A p \in Requests : gc'[p].at # "loop" => gc'[p].content \in Contents
  <2>1. [gc[q] EXCEPT !.at = at] \in GcState
    BY <1>1 DEF GcState
  <2>2. [gc[q] EXCEPT !.at = at].content \in Contents
    BY <1>1, <1>3 DEF TypeOK, GcState
  <2>3. gc' = [gc EXCEPT ![q] = [gc[q] EXCEPT !.at = at]]
    BY <1>3
  <2> QED
    BY <2>1, <2>2, <2>3, GcUpdateType
<1>4. CASE DeleteRow(q)
  <2>1. gc[q].at # "loop" /\ gc[q].content \in Contents
    BY <1>4 DEF DeleteRow, TypeOK
  <2>2. /\ gc' \in [Requests -> GcState]
        /\ \A p \in Requests : gc'[p].at # "loop" => gc'[p].content \in Contents
    BY <1>3, <1>4, <2>1 DEF DeleteRow
  <2> QED
    BY <1>4, <2>1, <2>2 DEF DeleteRow, TypeOK
<1>5. CASE CheckAgain(q)
  <2>1. /\ gc' \in [Requests -> GcState]
        /\ \A p \in Requests : gc'[p].at # "loop" => gc'[p].content \in Contents
    BY <1>3, <1>5 DEF CheckAgain
  <2> QED
    BY <1>5, <2>1 DEF CheckAgain, TypeOK, tableVars, historyVars
<1>6. CASE UnlinkObject(q)
  <2>1. /\ gc' \in [Requests -> GcState]
        /\ \A p \in Requests : gc'[p].at # "loop" => gc'[p].content \in Contents
    BY <1>3, <1>6 DEF UnlinkObject
  <2> QED
    BY <1>6, <2>1 DEF UnlinkObject, TypeOK, tableVars, historyVars
<1> QED
  BY <1>2, <1>4, <1>5, <1>6 DEF Collect

LEMMA TypeNext == TypeOK /\ [Next]_vars => TypeOK'
<1> SUFFICES ASSUME TypeOK, [Next]_vars PROVE TypeOK'
  OBVIOUS
<1> USE IdleTypes
<1>1. CASE Pump
  BY <1>1, TypePump
<1>2. ASSUME NEW r \in Runs, SealWithoutManifest(r) PROVE TypeOK'
  BY <1>2 DEF SealWithoutManifest, TypeOK, historyVars
<1>3. CASE StageThrows
  BY <1>3 DEF StageThrows, TypeOK, tableVars, IdlePut
<1>4. ASSUME NEW q \in Requests, NEW deleted \in SUBSET Runs, DeleteRuns(q, deleted)
      PROVE  TypeOK'
  <2> DEFINE kept == {f.id : f \in runArtifacts'}
             rows == {a \in artifacts : a.id \notin kept}
             g    == [IdleGc EXCEPT !.todo = Oldest(rows)]
  <2>1. Oldest(rows) \subseteq Row
    BY DEF Oldest, TypeOK
  <2>2. g \in GcState /\ g.at = "loop"
    BY <2>1 DEF GcState, IdleGc
  <2>3. gc' = [gc EXCEPT ![q] = g]
    BY <1>4 DEF DeleteRuns
  <2> HIDE DEF g
  <2>4. /\ gc' \in [Requests -> GcState]
        /\ \A p \in Requests : gc'[p].at # "loop" => gc'[p].content \in Contents
    BY <2>2, <2>3, GcUpdateType
  <2>5. /\ status' \in [Runs -> {"Finalizing", "Sealed", "Deleted"}]
        /\ runArtifacts' \subseteq Reference
    BY <1>4 DEF DeleteRuns, TypeOK
  <2> QED
    BY <1>4, <2>4, <2>5 DEF DeleteRuns, TypeOK, historyVars
<1>5. ASSUME NEW q \in Requests, Collect(q) PROVE TypeOK'
  BY <1>5, TypeCollect
<1>6. ASSUME NEW q \in Requests, CollectionThrows(q) PROVE TypeOK'
  <2>1. /\ gc' \in [Requests -> GcState]
        /\ \A p \in Requests : gc'[p].at # "loop" => gc'[p].content \in Contents
    BY <1>6, GcUpdateType DEF CollectionThrows, IdleGc
  <2>2. interrupted' \subseteq Contents
    BY <1>6 DEF CollectionThrows, TypeOK
  <2> QED
    BY <1>6, <2>1, <2>2 DEF CollectionThrows, TypeOK, tableVars
<1>7. CASE Crash
  <2>1. interrupted' \subseteq Contents
    BY <1>7 DEF Crash, TypeOK
  <2> QED
    BY <1>7, <2>1 DEF Crash, TypeOK, tableVars, IdlePut, IdleGc
<1>8. CASE UNCHANGED vars
  BY <1>8 DEF TypeOK, vars, tableVars, historyVars
<1> QED
  BY <1>1, <1>2, <1>3, <1>4, <1>5, <1>6, <1>7, <1>8 DEF Next

(***************************************************************************)
(* The tables, the objects and what puts and collections hold keep their   *)
(* types.                                                                  *)
(***************************************************************************)
THEOREM StoreTypeCorrect == Safety => []TypeOK
BY TypeInit, TypeNext, PTL DEF Safety

-----------------------------------------------------------------------------
(* Safety *)

(***************************************************************************)
(* Ids are never reused: a row has an id handed out before, and no two     *)
(* rows share one.                                                         *)
(***************************************************************************)
IdsAreKeys ==
    /\ \A a \in artifacts : a.id <= inserted
    /\ \A a, b \in artifacts : a.id = b.id => a = b

(***************************************************************************)
(* What a collection remembers of a row is still true of the row, if there *)
(* is one.                                                                 *)
(***************************************************************************)
ListingsAreTrue ==
    /\ \A q \in Requests : \A e \in gc[q].todo :
          e.id <= inserted /\ \A a \in artifacts : a.id = e.id => a.content = e.content
    /\ \A q \in Requests : gc[q].at = "checked" =>
          gc[q].id <= inserted /\ \A a \in artifacts : a.id = gc[q].id => a.content = gc[q].content

(***************************************************************************)
(* A digest that has a row or a put while a collection is about to unlink  *)
(* its object was recorded as overlapped, and a verified object is there.  *)
(***************************************************************************)
OverlapsAreRecorded ==
    /\ \A c \in Contents : Collecting(c) /\ (RowsOf(c) # {} \/ Putting(c)) => c \in overlapped
    /\ put.at = "verified" => put.content \in objects \cup overlapped

StoreInv ==
    /\ TypeOK
    /\ IdsAreKeys
    /\ OneRowPerContent
    /\ PutKeepsItsRow
    /\ ListingsAreTrue
    /\ OverlapsAreRecorded
    /\ OnlyOverlapLosesContent

LEMMA StoreInit == Init => StoreInv
BY TypeInit
   DEF Init, StoreInv, IdsAreKeys, OneRowPerContent, PutKeepsItsRow, ListingsAreTrue,
       OverlapsAreRecorded, OnlyOverlapLosesContent, Collecting, IdleGc, IdlePut

(***************************************************************************)
(* What a step preserves that leaves the rows alone, keeps or drops        *)
(* collections, puts nothing under its digest, and loses no object.        *)
(***************************************************************************)
LEMMA StoreFrame ==
    ASSUME StoreInv, TypeOK',
           UNCHANGED <<artifacts, inserted, objects, overlapped>>,
           runArtifacts' \subseteq runArtifacts,
           put' = put \/ put'.at \in {"idle", "writing"},
           \A q \in Requests : gc'[q] = gc[q] \/ gc'[q] = IdleGc
    PROVE  StoreInv'
<1>1. IdsAreKeys' /\ OnlyOverlapLosesContent'
  BY DEF StoreInv, IdsAreKeys, OnlyOverlapLosesContent
<1>2. OneRowPerContent'
  BY DEF StoreInv, OneRowPerContent
<1>3. PutKeepsItsRow'
  BY DEF StoreInv, PutKeepsItsRow
<1>4. ListingsAreTrue'
  BY IdleTypes DEF StoreInv, ListingsAreTrue
<1>5. OverlapsAreRecorded'
  <2>1. \A c \in Contents : Collecting(c)' => Collecting(c)
    BY IdleTypes DEF Collecting
  <2>2. \A c \in Contents : Putting(c)' => Putting(c)
    BY DEF Putting
  <2>3. \A c \in Contents : RowsOf(c)' = RowsOf(c)
    BY DEF RowsOf
  <2> QED
    BY <2>1, <2>2, <2>3 DEF StoreInv, OverlapsAreRecorded
<1> QED
  BY <1>1, <1>2, <1>3, <1>4, <1>5 DEF StoreInv

LEMMA LinkObjectSafe ==
    ASSUME StoreInv, TypeOK', LinkObject
    PROVE  StoreInv'
<1> DEFINE c == put.content
<1>1. /\ UNCHANGED <<artifacts, runArtifacts, inserted, gc>>
      /\ put'.at = "linked" /\ put'.content = c
      /\ objects \subseteq objects' /\ overlapped \subseteq overlapped'
      /\ Collecting(c) => c \in overlapped'
  BY DEF LinkObject, tableVars, StoreInv, TypeOK, PutState
<1>2. IdsAreKeys' /\ OnlyOverlapLosesContent'
  BY <1>1 DEF StoreInv, IdsAreKeys, OnlyOverlapLosesContent
<1>3. OneRowPerContent' /\ PutKeepsItsRow'
  BY <1>1 DEF StoreInv, OneRowPerContent, PutKeepsItsRow
<1>4. ListingsAreTrue'
  BY <1>1 DEF StoreInv, ListingsAreTrue
<1>5. OverlapsAreRecorded'
  <2>1. \A d \in Contents : Collecting(d)' <=> Collecting(d)
    BY <1>1 DEF Collecting
  <2>2. \A d \in Contents : RowsOf(d)' = RowsOf(d)
    BY <1>1 DEF RowsOf
  <2>3. \A d \in Contents : Putting(d)' => d = c
    BY <1>1 DEF Putting
  <2> QED
    BY <1>1, <2>1, <2>2, <2>3 DEF StoreInv, OverlapsAreRecorded
<1> QED
  BY <1>2, <1>3, <1>4, <1>5 DEF StoreInv

LEMMA VerifyObjectSafe ==
    ASSUME StoreInv, TypeOK', VerifyObject
    PROVE  StoreInv'
<1>1. UNCHANGED <<artifacts, runArtifacts, inserted, objects, overlapped, gc>>
  BY DEF VerifyObject, tableVars, historyVars
<1>2. CASE put' = IdlePut
  BY <1>1, <1>2, IdleTypes, StoreFrame
<1>3. CASE put.content \in objects /\ put' = [put EXCEPT !.at = "verified"]
  <2>1. put'.at = "verified" /\ put'.content = put.content /\ put.at = "linked"
    BY <1>3 DEF VerifyObject, StoreInv, TypeOK, PutState
  <2>2. IdsAreKeys' /\ OnlyOverlapLosesContent'
    BY <1>1 DEF StoreInv, IdsAreKeys, OnlyOverlapLosesContent
  <2>3. OneRowPerContent' /\ PutKeepsItsRow'
    BY <1>1, <2>1 DEF StoreInv, OneRowPerContent, PutKeepsItsRow
  <2>4. ListingsAreTrue'
    BY <1>1 DEF StoreInv, ListingsAreTrue
  <2>5. OverlapsAreRecorded'
    <3>1. \A d \in Contents : Collecting(d)' <=> Collecting(d)
      BY <1>1 DEF Collecting
    <3>2. \A d \in Contents : RowsOf(d)' = RowsOf(d)
      BY <1>1 DEF RowsOf
    <3>3. \A d \in Contents : Putting(d)' <=> Putting(d)
      BY <2>1 DEF Putting
    <3> QED
      BY <1>1, <1>3, <2>1, <3>1, <3>2, <3>3 DEF StoreInv, OverlapsAreRecorded
  <2> QED
    BY <2>2, <2>3, <2>4, <2>5 DEF StoreInv
<1> QED
  BY <1>2, <1>3 DEF VerifyObject

LEMMA UseRowSafe ==
    ASSUME StoreInv, TypeOK', put.at = "verified",
           NEW id \in RowIdFor(put.content), UseRow(put.content, id),
           UNCHANGED <<objects, gc, overlapped>>
    PROVE  StoreInv'
<1> DEFINE c   == put.content
           row == [id |-> id, content |-> c]
<1>1. /\ c \in Contents /\ id \in Nat /\ inserted \in Nat
      /\ \A a \in artifacts : a = [id |-> a.id, content |-> a.content] /\ a.id \in Nat
  BY DEF StoreInv, TypeOK, RowIdFor, RowsOf, Row
<1>2. /\ artifacts' = artifacts \cup {row}
      /\ inserted' = IF id = inserted + 1 THEN id ELSE inserted
      /\ runArtifacts' \subseteq runArtifacts \cup {[run |-> RunOf[c], id |-> id]}
      /\ put' = IdlePut \/ put' = [at |-> "persisted", content |-> c, id |-> id]
  BY DEF UseRow
<1>3. CASE row \in artifacts
  <2>1. artifacts' = artifacts /\ inserted' = inserted
    BY <1>1, <1>2, <1>3 DEF StoreInv, IdsAreKeys
  <2>2. IdsAreKeys' /\ OnlyOverlapLosesContent'
    BY <2>1 DEF StoreInv, IdsAreKeys, OnlyOverlapLosesContent
  <2>3. OneRowPerContent'
    BY <1>2, <1>3, <2>1 DEF StoreInv, OneRowPerContent
  <2>4. PutKeepsItsRow'
    BY <1>2, <1>3, <2>1, IdleTypes DEF PutKeepsItsRow
  <2>5. ListingsAreTrue'
    BY <2>1 DEF StoreInv, ListingsAreTrue
  <2>6. OverlapsAreRecorded'
    <3>1. \A d \in Contents : (Collecting(d)' <=> Collecting(d)) /\ RowsOf(d)' = RowsOf(d)
      BY <2>1 DEF Collecting, RowsOf
    <3>2. \A d \in Contents : Putting(d)' => Putting(d)
      BY <1>2, IdleTypes DEF Putting
    <3>3. put'.at # "verified"
      BY <1>2, IdleTypes
    <3> QED
      BY <3>1, <3>2, <3>3 DEF StoreInv, OverlapsAreRecorded
  <2> QED
    BY <2>2, <2>3, <2>4, <2>5, <2>6 DEF StoreInv
<1>4. CASE row \notin artifacts
  <2>1. RowsOf(c) = {} /\ id = inserted + 1
    BY <1>1, <1>4 DEF RowIdFor, RowsOf
  <2>2. inserted' = inserted + 1
    BY <1>2, <2>1
  <2>3. IdsAreKeys'
    BY <1>1, <1>2, <2>1, <2>2 DEF StoreInv, IdsAreKeys
  <2>4. OnlyOverlapLosesContent'
    BY <1>2 DEF StoreInv, OnlyOverlapLosesContent, OverlapsAreRecorded
  <2>5. OneRowPerContent'
    <3>1. \A a, b \in artifacts' : a.content = b.content => a = b
      <4>1. \A a \in artifacts' : a = row \/ (a \in artifacts /\ a.content # c)
        BY <1>2, <2>1 DEF RowsOf
      <4>2. row.content = c
        OBVIOUS
      <4> QED
        BY <4>1, <4>2 DEF StoreInv, OneRowPerContent
    <3>2. \A f \in runArtifacts' : f \in runArtifacts \/ f.id = row.id
      BY <1>2
    <3>3. \A f \in runArtifacts' : \E a \in artifacts' : a.id = f.id
      BY <1>2, <3>2 DEF StoreInv, OneRowPerContent
    <3> QED
      BY <3>1, <3>3 DEF OneRowPerContent
  <2>6. PutKeepsItsRow'
    BY <1>2, IdleTypes DEF PutKeepsItsRow
  <2>7. ListingsAreTrue'
    <3>1. \A q \in Requests : gc[q].todo \subseteq Row /\ gc[q].id \in Nat
      BY DEF StoreInv, TypeOK, GcState
    <3>2. \A q \in Requests : \A e \in gc[q].todo : e.id \in Nat
      BY <3>1 DEF Row
    <3> QED
      BY <1>1, <1>2, <2>1, <2>2, <3>1, <3>2 DEF StoreInv, ListingsAreTrue
  <2>8. OverlapsAreRecorded'
    <3>1. \A d \in Contents : Collecting(d)' <=> Collecting(d)
      BY DEF Collecting
    <3>2. \A d \in Contents : d # c => RowsOf(d)' = RowsOf(d)
      BY <1>2 DEF RowsOf
    <3>3. \A d \in Contents : Putting(d)' => Putting(d)
      BY <1>2, IdleTypes DEF Putting
    <3>4. Putting(c) /\ put'.at # "verified"
      BY <1>2, IdleTypes DEF Putting
    <3> QED
      BY <3>1, <3>2, <3>3, <3>4 DEF StoreInv, OverlapsAreRecorded
  <2> QED
    BY <2>3, <2>4, <2>5, <2>6, <2>7, <2>8 DEF StoreInv
<1> QED
  BY <1>3, <1>4

LEMMA PumpSafe ==
    ASSUME StoreInv, TypeOK', Pump
    PROVE  StoreInv'
<1>0. ASSUME NEW c \in Contents, StartPut(c) PROVE StoreInv'
  BY <1>0, StoreFrame DEF StartPut, tableVars, historyVars
<1>1. CASE LinkObject
  BY <1>1, LinkObjectSafe
<1>2. CASE VerifyObject
  BY <1>2, VerifyObjectSafe
<1>3. CASE PersistArtifact
  <2>1. CASE LinkFails(put.content)
    BY <1>3, <2>1, IdleTypes, StoreFrame DEF PersistArtifact, tableVars
  <2>2. CASE ~LinkFails(put.content)
    BY <1>3, <2>2, UseRowSafe DEF PersistArtifact
  <2> QED
    BY <2>1, <2>2
<1>4. CASE LinkArtifact
  <2>1. /\ UNCHANGED <<artifacts, inserted, objects, overlapped, gc>>
        /\ put.at = "persisted" /\ put'.at = "idle"
        /\ runArtifacts' \subseteq runArtifacts
              \cup {[run |-> RunOf[put.content], id |-> put.id]}
    BY <1>4, IdleTypes DEF LinkArtifact, historyVars
  <2>2. [id |-> put.id, content |-> put.content] \in artifacts
    BY <2>1 DEF StoreInv, PutKeepsItsRow
  <2>3. OneRowPerContent'
    BY <2>1, <2>2 DEF StoreInv, OneRowPerContent
  <2>4. IdsAreKeys' /\ OnlyOverlapLosesContent' /\ PutKeepsItsRow'
    BY <2>1 DEF StoreInv, IdsAreKeys, OnlyOverlapLosesContent, PutKeepsItsRow
  <2>5. ListingsAreTrue'
    BY <2>1 DEF StoreInv, ListingsAreTrue
  <2>6. OverlapsAreRecorded'
    <3>1. \A d \in Contents : /\ Collecting(d)' <=> Collecting(d)
                              /\ RowsOf(d)' = RowsOf(d)
                              /\ ~Putting(d)'
      BY <2>1 DEF Collecting, RowsOf, Putting
    <3> QED
      BY <2>1, <3>1 DEF StoreInv, OverlapsAreRecorded
  <2> QED
    BY <2>3, <2>4, <2>5, <2>6 DEF StoreInv
<1> QED
  BY <1>0, <1>1, <1>2, <1>3, <1>4 DEF Pump

(***************************************************************************)
(* A collection that starts, or goes on to its next candidate, copies rows *)
(* as they are.                                                            *)
(***************************************************************************)
LEMMA DeleteRunsSafe ==
    ASSUME StoreInv, TypeOK', NEW q \in Requests, NEW deleted \in SUBSET Runs,
           DeleteRuns(q, deleted)
    PROVE  StoreInv'
<1>1. /\ UNCHANGED <<artifacts, inserted, objects, overlapped, put>>
      /\ runArtifacts' \subseteq runArtifacts
  BY DEF DeleteRuns, historyVars
<1>2. PICK rows \in SUBSET artifacts : gc' = [gc EXCEPT ![q] = [IdleGc EXCEPT !.todo = rows]]
  BY DEF DeleteRuns, Oldest
<1>3. /\ gc'[q].at = "loop" /\ gc'[q].todo = rows
      /\ \A p \in Requests \ {q} : gc'[p] = gc[p]
  BY <1>2 DEF StoreInv, TypeOK, IdleGc
<1>4. /\ IdsAreKeys' /\ OnlyOverlapLosesContent'
      /\ OneRowPerContent' /\ PutKeepsItsRow'
  BY <1>1 DEF StoreInv, IdsAreKeys, OnlyOverlapLosesContent, OneRowPerContent, PutKeepsItsRow
<1>5. ListingsAreTrue'
  BY <1>1, <1>3 DEF StoreInv, ListingsAreTrue, IdsAreKeys
<1>6. OverlapsAreRecorded'
  <2>1. \A c \in Contents : /\ Collecting(c)' => Collecting(c)
                            /\ RowsOf(c)' = RowsOf(c)
                            /\ Putting(c)' <=> Putting(c)
    BY <1>1, <1>3 DEF Collecting, RowsOf, Putting
  <2> QED
    BY <1>1, <2>1 DEF StoreInv, OverlapsAreRecorded
<1> QED
  BY <1>4, <1>5, <1>6 DEF StoreInv

LEMMA CheckObjectSafe ==
    ASSUME StoreInv, TypeOK', NEW q \in Requests, NEW a \in gc[q].todo, CheckObject(q, a)
    PROVE  StoreInv'
<1>1. UNCHANGED <<artifacts, runArtifacts, inserted, objects, overlapped, put>>
  BY DEF CheckObject, tableVars, historyVars
<1>2. /\ gc'[q].at = "checked" /\ gc'[q].todo \subseteq gc[q].todo
      /\ gc'[q].id = a.id /\ gc'[q].content = a.content
      /\ \A p \in Requests \ {q} : gc'[p] = gc[p]
  BY DEF CheckObject, StoreInv, TypeOK
<1>3. /\ IdsAreKeys' /\ OnlyOverlapLosesContent'
      /\ OneRowPerContent' /\ PutKeepsItsRow'
  BY <1>1 DEF StoreInv, IdsAreKeys, OnlyOverlapLosesContent, OneRowPerContent, PutKeepsItsRow
<1>4. ListingsAreTrue'
  BY <1>1, <1>2 DEF StoreInv, ListingsAreTrue
<1>5. OverlapsAreRecorded'
  <2>1. \A c \in Contents : /\ Collecting(c)' => Collecting(c)
                            /\ RowsOf(c)' = RowsOf(c)
                            /\ Putting(c)' <=> Putting(c)
    BY <1>1, <1>2 DEF Collecting, RowsOf, Putting
  <2> QED
    BY <1>1, <2>1 DEF StoreInv, OverlapsAreRecorded
<1> QED
  BY <1>3, <1>4, <1>5 DEF StoreInv

(***************************************************************************)
(* The row the collection deletes is the only one of its content, and a    *)
(* put under way is recorded.                                              *)
(***************************************************************************)
LEMMA DeleteRowSafe ==
    ASSUME StoreInv, TypeOK', NEW q \in Requests, DeleteRow(q)
    PROVE  StoreInv'
<1> DEFINE mine == {a \in Unreferenced : a.id = gc[q].id}
<1>1. /\ UNCHANGED <<runArtifacts, inserted, objects, put>>
      /\ artifacts' = artifacts \ mine
      /\ put.at # "persisted" /\ gc[q].at = "checked"
      /\ overlapped \subseteq overlapped'
      /\ mine # {} /\ gc[q].present /\ Putting(gc[q].content) => gc[q].content \in overlapped'
  BY DEF DeleteRow, TurnIsOver
<1>2. /\ gc'[q].at = IF mine # {} /\ gc[q].present THEN "deleted" ELSE "loop"
      /\ gc'[q].todo = gc[q].todo /\ gc'[q].content = gc[q].content
      /\ \A p \in Requests \ {q} : gc'[p] = gc[p]
  BY DEF DeleteRow, StoreInv, TypeOK, GcState
<1>3. IdsAreKeys' /\ OnlyOverlapLosesContent' /\ PutKeepsItsRow'
  BY <1>1 DEF StoreInv, IdsAreKeys, OnlyOverlapLosesContent, PutKeepsItsRow
<1>4. OneRowPerContent'
  <2>1. \A f \in runArtifacts : \A a \in mine : a.id # f.id
    BY DEF Unreferenced, Referenced
  <2> QED
    BY <1>1, <2>1 DEF StoreInv, OneRowPerContent
<1>5. ListingsAreTrue'
  BY <1>1, <1>2 DEF StoreInv, ListingsAreTrue
<1>6. OverlapsAreRecorded'
  <2>1. \A c \in Contents : /\ RowsOf(c)' \subseteq RowsOf(c)
                            /\ Putting(c)' <=> Putting(c)
    BY <1>1 DEF RowsOf, Putting
  <2>2. ASSUME NEW c \in Contents, Collecting(c)', ~Collecting(c),
               RowsOf(c)' # {} \/ Putting(c)
        PROVE  c \in overlapped'
    <3>1. mine # {} /\ gc[q].present /\ gc[q].content = c
      BY <1>2, <2>2 DEF Collecting
    <3>2. PICK a \in artifacts : a \in mine
      BY <3>1 DEF Unreferenced
    <3>3. a.content = c
      BY <1>1, <3>1, <3>2 DEF StoreInv, ListingsAreTrue
    <3>4. RowsOf(c) \subseteq mine
      BY <3>2, <3>3 DEF RowsOf, StoreInv, OneRowPerContent
    <3>5. RowsOf(c)' = {}
      BY <1>1, <3>4 DEF RowsOf
    <3> QED
      BY <1>1, <2>2, <3>1, <3>5
  <2> QED
    BY <1>1, <2>1, <2>2 DEF StoreInv, OverlapsAreRecorded
<1> QED
  BY <1>3, <1>4, <1>5, <1>6 DEF StoreInv

LEMMA CheckAgainSafe ==
    ASSUME StoreInv, TypeOK', NEW q \in Requests, CheckAgain(q)
    PROVE  StoreInv'
<1>1. UNCHANGED <<artifacts, runArtifacts, inserted, objects, overlapped, put>>
  BY DEF CheckAgain, tableVars, historyVars
<1>2. /\ gc[q].at = "deleted" /\ gc'[q].at \in {"found", "loop"}
      /\ gc'[q].todo = gc[q].todo /\ gc'[q].content = gc[q].content
      /\ \A p \in Requests \ {q} : gc'[p] = gc[p]
  BY DEF CheckAgain, StoreInv, TypeOK, GcState
<1>3. /\ IdsAreKeys' /\ OnlyOverlapLosesContent'
      /\ OneRowPerContent' /\ PutKeepsItsRow'
  BY <1>1 DEF StoreInv, IdsAreKeys, OnlyOverlapLosesContent, OneRowPerContent, PutKeepsItsRow
<1>4. ListingsAreTrue'
  BY <1>1, <1>2 DEF StoreInv, ListingsAreTrue
<1>5. OverlapsAreRecorded'
  <2>1. \A c \in Contents : /\ Collecting(c)' => Collecting(c)
                            /\ RowsOf(c)' = RowsOf(c)
                            /\ Putting(c)' <=> Putting(c)
    BY <1>1, <1>2 DEF Collecting, RowsOf, Putting
  <2> QED
    BY <1>1, <2>1 DEF StoreInv, OverlapsAreRecorded
<1> QED
  BY <1>3, <1>4, <1>5 DEF StoreInv

(***************************************************************************)
(* Whoever depends on the object that goes was recorded as overlapping.    *)
(***************************************************************************)
LEMMA UnlinkObjectSafe ==
    ASSUME StoreInv, TypeOK', NEW q \in Requests, UnlinkObject(q)
    PROVE  StoreInv'
<1> DEFINE d == gc[q].content
<1>1. /\ UNCHANGED <<artifacts, runArtifacts, inserted, overlapped, put>>
      /\ objects' = objects \ {d}
      /\ gc[q].at = "found"
  BY DEF UnlinkObject, tableVars, historyVars
<1>2. /\ gc'[q].at = "loop" /\ gc'[q].todo = gc[q].todo
      /\ \A p \in Requests \ {q} : gc'[p] = gc[p]
  BY DEF UnlinkObject, StoreInv, TypeOK, GcState
<1>3. d \in Contents /\ Collecting(d)
  BY <1>1 DEF Collecting, StoreInv, TypeOK
<1>4. IdsAreKeys' /\ OneRowPerContent' /\ PutKeepsItsRow'
  BY <1>1 DEF StoreInv, IdsAreKeys, OneRowPerContent, PutKeepsItsRow
<1>5. OnlyOverlapLosesContent'
  BY <1>1, <1>3 DEF StoreInv, OnlyOverlapLosesContent, OverlapsAreRecorded, RowsOf
<1>6. ListingsAreTrue'
  BY <1>1, <1>2 DEF StoreInv, ListingsAreTrue
<1>7. OverlapsAreRecorded'
  <2>1. \A c \in Contents : /\ Collecting(c)' => Collecting(c)
                            /\ RowsOf(c)' = RowsOf(c)
                            /\ Putting(c)' <=> Putting(c)
    BY <1>1, <1>2 DEF Collecting, RowsOf, Putting
  <2>2. put.at = "verified" => put.content \in objects' \cup overlapped
    BY <1>1, <1>3 DEF StoreInv, OverlapsAreRecorded, Putting
  <2> QED
    BY <1>1, <2>1, <2>2 DEF StoreInv, OverlapsAreRecorded
<1> QED
  BY <1>4, <1>5, <1>6, <1>7 DEF StoreInv

LEMMA StoreNext == StoreInv /\ [Next]_vars => StoreInv'
<1> SUFFICES ASSUME StoreInv, [Next]_vars PROVE StoreInv'
  OBVIOUS
<1>1. TypeOK'
  BY TypeNext DEF StoreInv
<1> USE <1>1
<1>2. CASE Pump
  BY <1>2, PumpSafe
<1>3. ASSUME NEW r \in Runs, SealWithoutManifest(r) PROVE StoreInv'
  BY <1>3, StoreFrame DEF SealWithoutManifest, historyVars
<1>4. CASE StageThrows
  BY <1>4, StoreFrame, IdleTypes DEF StageThrows, tableVars
<1>5. ASSUME NEW q \in Requests, NEW deleted \in SUBSET Runs, DeleteRuns(q, deleted)
      PROVE  StoreInv'
  BY <1>5, DeleteRunsSafe
<1>6. ASSUME NEW q \in Requests, Collect(q) PROVE StoreInv'
  BY <1>6, CheckObjectSafe, DeleteRowSafe, CheckAgainSafe, UnlinkObjectSafe DEF Collect
<1>7. ASSUME NEW q \in Requests, CollectionThrows(q) PROVE StoreInv'
  BY <1>7, StoreFrame DEF CollectionThrows, tableVars, StoreInv, TypeOK
<1>8. CASE Crash
  BY <1>8, StoreFrame, IdleTypes DEF Crash, tableVars
<1>9. CASE UNCHANGED vars
  BY <1>9, StoreFrame DEF vars, tableVars, historyVars
<1> QED
  BY <1>2, <1>3, <1>4, <1>5, <1>6, <1>7, <1>8, <1>9 DEF Next

LEMMA StoreSafety == Safety => []StoreInv
BY StoreInit, StoreNext, PTL DEF Safety

(***************************************************************************)
(* An artifact row lacks its object only if its digest was put while it    *)
(* was being collected, wherever the process crashes or fails.             *)
(***************************************************************************)
THEOREM ContentIsLostByOverlapOnly == Safety => []OnlyOverlapLosesContent
BY StoreSafety, PTL DEF StoreInv

(***************************************************************************)
(* A put finds its row when it comes to link it.                           *)
(***************************************************************************)
THEOREM RowsSurviveTheirPut == Safety => []PutKeepsItsRow
BY StoreSafety, PTL DEF StoreInv

(***************************************************************************)
(* A digest has one row, and every reference has a row.                    *)
(***************************************************************************)
THEOREM DigestsAreUnique == Safety => []OneRowPerContent
BY StoreSafety, PTL DEF StoreInv

-----------------------------------------------------------------------------
(* Objects without a row *)

(***************************************************************************)
(* A collection that found no object for a row which is still there can    *)
(* only have found it so because the digest was overlapped.                *)
(***************************************************************************)
AbsencesWereOverlaps ==
    \A q \in Requests : \A a \in artifacts :
        gc[q].at = "checked" /\ ~gc[q].present /\ a.id = gc[q].id => gc[q].content \in overlapped

Caused(c) == \/ RowsOf(c) # {}
             \/ Putting(c) \/ Collecting(c)
             \/ c \in interrupted \cup overlapped

StrayInv ==
    /\ StoreInv
    /\ AbsencesWereOverlaps
    /\ StrayObjectsHaveACause

LEMMA StrayInit == Init => StrayInv
BY StoreInit DEF Init, StrayInv, AbsencesWereOverlaps, StrayObjectsHaveACause

(***************************************************************************)
(* Rows may go and new ones get fresh ids; a collection that is not at its *)
(* first look remembers nothing.                                           *)
(***************************************************************************)
LEMMA AbsencesFrame ==
    ASSUME StrayInv, artifacts' \subseteq artifacts, overlapped \subseteq overlapped',
           \A q \in Requests : gc'[q] = gc[q] \/ gc'[q].at # "checked"
    PROVE  AbsencesWereOverlaps'
BY DEF StrayInv, AbsencesWereOverlaps

(***************************************************************************)
(* A step that adds no object and takes away no row, no collection and no  *)
(* record leaves at most the digest of its put without a cause.            *)
(***************************************************************************)
LEMMA CauseFrame ==
    ASSUME StrayInv, objects' \subseteq objects, artifacts \subseteq artifacts',
           \A c \in Contents : Collecting(c) => Collecting(c)' \/ c \notin objects'
                                                  \/ c \in interrupted',
           interrupted \subseteq interrupted', overlapped \subseteq overlapped',
           \A c \in Contents : Putting(c) => Putting(c)' \/ c \notin objects'
                                               \/ RowsOf(c)' # {} \/ c \in interrupted'
    PROVE  StrayObjectsHaveACause'
<1>1. objects \subseteq Contents
  BY DEF StrayInv, StoreInv, TypeOK
<1>2. SUFFICES ASSUME NEW c \in objects' PROVE Caused(c)'
  BY DEF StrayObjectsHaveACause, Caused
<1>3. c \in Contents /\ Caused(c)
  BY <1>1 DEF StrayInv, StrayObjectsHaveACause, Caused
<1>4. CASE RowsOf(c) # {}
  BY <1>4 DEF RowsOf, Caused
<1> QED
  BY <1>3, <1>4 DEF Caused

LEMMA SameCollections ==
    ASSUME \A q \in Requests : gc'[q] = gc[q]
    PROVE  \A c \in Contents : Collecting(c) => Collecting(c)'
BY DEF Collecting

LEMMA StrayPump ==
    ASSUME StrayInv, StoreInv', Pump
    PROVE  AbsencesWereOverlaps' /\ StrayObjectsHaveACause'
<1> USE SameCollections
<1>0. TypeOK /\ PutKeepsItsRow
  BY DEF StrayInv, StoreInv
<1>1. ASSUME NEW c \in Contents, StartPut(c)
      PROVE  AbsencesWereOverlaps' /\ StrayObjectsHaveACause'
  <2>1. /\ UNCHANGED <<artifacts, objects, gc, interrupted, overlapped>>
        /\ put.at = "idle"
    BY <1>1 DEF StartPut, tableVars, historyVars
  <2> QED
    BY <2>1, AbsencesFrame, CauseFrame DEF Putting
<1>2. CASE LinkObject
  <2>1. /\ UNCHANGED <<artifacts, gc, interrupted>>
        /\ overlapped \subseteq overlapped'
        /\ objects' = objects \cup {put.content}
        /\ put.at = "writing" /\ put'.at = "linked" /\ put'.content = put.content
    BY <1>0, <1>2 DEF LinkObject, tableVars, TypeOK, PutState
  <2>2. SUFFICES ASSUME NEW c \in objects' PROVE Caused(c)'
    BY <2>1, AbsencesFrame DEF StrayObjectsHaveACause, Caused
  <2>3. CASE c = put.content
    BY <2>1, <2>3 DEF Caused, Putting
  <2>4. CASE c \in objects
    <3>1. Caused(c) /\ c \in Contents
      BY <2>4, <1>0 DEF StrayInv, StrayObjectsHaveACause, Caused, TypeOK
    <3>2. ~Putting(c) /\ RowsOf(c)' = RowsOf(c)
      BY <2>1 DEF Putting, RowsOf
    <3> QED
      BY <2>1, <3>1, <3>2 DEF Caused
  <2> QED
    BY <2>1, <2>3, <2>4
<1>3. CASE VerifyObject
  <2>1. /\ UNCHANGED <<artifacts, objects, gc, interrupted, overlapped>>
        /\ put.content \in objects => put'.at = "verified" /\ put'.content = put.content
    BY <1>0, <1>3 DEF VerifyObject, tableVars, historyVars, TypeOK, PutState
  <2>2. \A c \in Contents : Putting(c) => Putting(c)' \/ c \notin objects'
    BY <2>1 DEF Putting
  <2> QED
    BY <2>1, <2>2, AbsencesFrame, CauseFrame
<1>4. CASE PersistArtifact
  <2>1. UNCHANGED <<objects, gc, overlapped>> /\ interrupted \subseteq interrupted'
    BY <1>4 DEF PersistArtifact, UseRow
  <2>2. CASE LinkFails(put.content)
    <3>1. artifacts' = artifacts /\ put.content \in interrupted'
      BY <1>4, <2>2 DEF PersistArtifact, tableVars
    <3>2. \A c \in Contents : Putting(c) => c \in interrupted'
      BY <3>1 DEF Putting
    <3> QED
      BY <2>1, <3>1, <3>2, AbsencesFrame, CauseFrame
  <2>3. CASE ~LinkFails(put.content)
    <3>1. PICK id \in RowIdFor(put.content) : UseRow(put.content, id)
      BY <1>4, <2>3 DEF PersistArtifact
    <3> DEFINE row == [id |-> id, content |-> put.content]
    <3>2. artifacts' = artifacts \cup {row}
      BY <3>1 DEF UseRow
    <3>3. \A c \in Contents : Putting(c) => RowsOf(c)' # {}
      <4>1. row \in artifacts' /\ row.content = put.content
        BY <3>2
      <4> HIDE DEF row
      <4> QED
        BY <4>1 DEF Putting, RowsOf
    <3>4. StrayObjectsHaveACause'
      BY <2>1, <3>2, <3>3, CauseFrame
    <3>5. row \in artifacts \/ row.id = inserted + 1
      <4>1. \A a \in artifacts : a = [id |-> a.id, content |-> a.content]
        BY <1>0 DEF TypeOK, Row
      <4> QED
        BY <3>1, <4>1 DEF RowIdFor, RowsOf
    <3>6. AbsencesWereOverlaps'
      <4>1. SUFFICES ASSUME NEW q \in Requests, NEW a \in artifacts',
                            gc[q].at = "checked", ~gc[q].present, a.id = gc[q].id
                     PROVE  gc[q].content \in overlapped
        BY <2>1 DEF AbsencesWereOverlaps
      <4>2. gc[q].id <= inserted /\ inserted \in Nat /\ gc[q].id \in Nat
        BY <4>1, <1>0 DEF StrayInv, StoreInv, ListingsAreTrue, TypeOK, GcState
      <4>3. a \in artifacts
        BY <3>2, <3>5, <4>1, <4>2
      <4> QED
        BY <4>1, <4>3 DEF StrayInv, AbsencesWereOverlaps
    <3> QED
      BY <3>4, <3>6
  <2> QED
    BY <2>2, <2>3
<1>5. CASE LinkArtifact
  <2>1. /\ UNCHANGED <<artifacts, objects, gc, interrupted, overlapped>>
        /\ put.at = "persisted"
    BY <1>5 DEF LinkArtifact, historyVars
  <2>2. \A c \in Contents : Putting(c) => RowsOf(c)' # {}
    BY <1>0, <2>1 DEF Putting, RowsOf, PutKeepsItsRow
  <2> QED
    BY <2>1, <2>2, AbsencesFrame, CauseFrame
<1> QED
  BY <1>1, <1>2, <1>3, <1>4, <1>5 DEF Pump

LEMMA StrayRequest ==
    ASSUME StrayInv, StoreInv', NEW q \in Requests,
           (\E deleted \in SUBSET Runs : DeleteRuns(q, deleted)) \/ Collect(q) \/ CollectionThrows(q)
    PROVE  AbsencesWereOverlaps' /\ StrayObjectsHaveACause'
<1>0. TypeOK /\ gc[q] \in GcState
  BY DEF StrayInv, StoreInv, TypeOK
<1>1. ASSUME NEW deleted \in SUBSET Runs, DeleteRuns(q, deleted)
      PROVE  AbsencesWereOverlaps' /\ StrayObjectsHaveACause'
  <2>1. /\ UNCHANGED <<artifacts, objects, put, interrupted, overlapped>>
        /\ gc[q].at = "loop"
    BY <1>1 DEF DeleteRuns, historyVars, Finished
  <2>2. gc'[q].at = "loop" /\ \A p \in Requests \ {q} : gc'[p] = gc[p]
    BY <1>0, <1>1 DEF DeleteRuns, TypeOK, IdleGc
  <2>3. \A c \in Contents : Collecting(c) => Collecting(c)'
    BY <2>1, <2>2 DEF Collecting
  <2>4. \A c \in Contents : Putting(c) => Putting(c)'
    BY <2>1 DEF Putting
  <2> QED
    BY <2>1, <2>2, <2>3, <2>4, AbsencesFrame, CauseFrame
<1>2. ASSUME NEW a \in gc[q].todo, CheckObject(q, a)
      PROVE  AbsencesWereOverlaps' /\ StrayObjectsHaveACause'
  <2>1. /\ UNCHANGED <<artifacts, objects, put, interrupted, overlapped>>
        /\ gc[q].at = "loop"
    BY <1>2 DEF CheckObject, tableVars, historyVars
  <2>2. /\ gc'[q].at = "checked" /\ gc'[q].id = a.id /\ gc'[q].content = a.content
        /\ gc'[q].present = (a.content \in objects)
        /\ \A p \in Requests \ {q} : gc'[p] = gc[p]
    BY <1>0, <1>2 DEF CheckObject, TypeOK
  <2>3. \A c \in Contents : Collecting(c) => Collecting(c)'
    BY <2>1, <2>2 DEF Collecting
  <2>4. \A c \in Contents : Putting(c) => Putting(c)'
    BY <2>1 DEF Putting
  <2>5. AbsencesWereOverlaps'
    <3>1. \A b \in artifacts : b.id = a.id => b.content = a.content
      BY DEF StrayInv, StoreInv, ListingsAreTrue
    <3>2. \A b \in artifacts : b.content \in objects \cup overlapped
      BY DEF StrayInv, StoreInv, OnlyOverlapLosesContent
    <3> QED
      BY <2>1, <2>2, <3>1, <3>2 DEF StrayInv, AbsencesWereOverlaps
  <2> QED
    BY <2>1, <2>3, <2>4, <2>5, CauseFrame
<1>3. CASE DeleteRow(q)
  <2> DEFINE mine == {a \in Unreferenced : a.id = gc[q].id}
  <2>1. /\ UNCHANGED <<objects, put, interrupted>>
        /\ artifacts' = artifacts \ mine
        /\ gc[q].at = "checked"
        /\ overlapped \subseteq overlapped'
    BY <1>3 DEF DeleteRow
  <2>2. /\ gc'[q].at = IF mine # {} /\ gc[q].present THEN "deleted" ELSE "loop"
        /\ gc'[q].content = gc[q].content
        /\ \A p \in Requests \ {q} : gc'[p] = gc[p]
    BY <1>0, <1>3 DEF DeleteRow, TypeOK, GcState
  <2>3. AbsencesWereOverlaps'
    BY <2>1, <2>2, AbsencesFrame
  <2>4. SUFFICES ASSUME NEW c \in objects PROVE Caused(c)'
    BY <2>1, <2>3 DEF StrayObjectsHaveACause, Caused
  <2>5. Caused(c)
    BY DEF StrayInv, StrayObjectsHaveACause, Caused
  <2>6. CASE RowsOf(c) # {} /\ RowsOf(c)' = {}
    <3>1. PICK a \in mine : a.content = c
      BY <2>1, <2>6 DEF RowsOf
    <3>2. a \in artifacts /\ a.id = gc[q].id
      BY DEF Unreferenced
    <3>3. gc[q].content = c
      BY <2>1, <3>1, <3>2 DEF StrayInv, StoreInv, ListingsAreTrue
    <3>4. CASE gc[q].present
      BY <2>2, <3>1, <3>3, <3>4 DEF Caused, Collecting
    <3>5. CASE ~gc[q].present
      BY <2>1, <3>2, <3>3, <3>5 DEF StrayInv, AbsencesWereOverlaps, Caused
    <3> QED
      BY <3>4, <3>5
  <2>7. Collecting(c) => Collecting(c)'
    BY <2>1, <2>2 DEF Collecting
  <2>8. Putting(c) => Putting(c)'
    BY <2>1 DEF Putting
  <2> QED
    BY <2>1, <2>5, <2>6, <2>7, <2>8 DEF Caused
<1>4. CASE CheckAgain(q)
  <2>1. UNCHANGED <<artifacts, objects, put, interrupted, overlapped>>
    BY <1>4 DEF CheckAgain, tableVars, historyVars
  <2>2. /\ gc'[q].at = IF gc[q].content \in objects THEN "found" ELSE "loop"
        /\ gc'[q].content = gc[q].content
        /\ \A p \in Requests \ {q} : gc'[p] = gc[p]
    BY <1>0, <1>4 DEF CheckAgain, TypeOK, GcState
  <2>3. \A c \in Contents : Collecting(c) => Collecting(c)' \/ c \notin objects'
    BY <2>1, <2>2 DEF Collecting
  <2>4. \A c \in Contents : Putting(c) => Putting(c)'
    BY <2>1 DEF Putting
  <2> QED
    BY <2>1, <2>2, <2>3, <2>4, AbsencesFrame, CauseFrame
<1>5. CASE UnlinkObject(q)
  <2>1. /\ UNCHANGED <<artifacts, put, interrupted, overlapped>>
        /\ objects' = objects \ {gc[q].content}
    BY <1>5 DEF UnlinkObject, tableVars, historyVars
  <2>2. gc'[q].at = "loop" /\ \A p \in Requests \ {q} : gc'[p] = gc[p]
    BY <1>0, <1>5 DEF UnlinkObject, TypeOK, GcState
  <2>3. \A c \in Contents : Collecting(c) => Collecting(c)' \/ c \notin objects'
    BY <2>1, <2>2 DEF Collecting
  <2>4. \A c \in Contents : Putting(c) => Putting(c)'
    BY <2>1 DEF Putting
  <2> QED
    BY <2>1, <2>2, <2>3, <2>4, AbsencesFrame, CauseFrame
<1>6. CASE CollectionThrows(q)
  <2>1. /\ UNCHANGED <<artifacts, objects, put, overlapped>>
        /\ interrupted' = IF gc[q].at \in {"deleted", "found"}
                          THEN interrupted \cup {gc[q].content} ELSE interrupted
    BY <1>6 DEF CollectionThrows, tableVars
  <2>2. gc'[q].at = "loop" /\ \A p \in Requests \ {q} : gc'[p] = gc[p]
    BY <1>0, <1>6 DEF CollectionThrows, TypeOK, IdleGc
  <2>3. \A c \in Contents : Collecting(c) => Collecting(c)' \/ c \in interrupted'
    BY <2>1, <2>2 DEF Collecting
  <2>4. \A c \in Contents : Putting(c) => Putting(c)'
    BY <2>1 DEF Putting
  <2> QED
    BY <2>1, <2>2, <2>3, <2>4, AbsencesFrame, CauseFrame
<1> QED
  BY <1>1, <1>2, <1>3, <1>4, <1>5, <1>6 DEF Collect

LEMMA StrayNext == StrayInv /\ [Next]_vars => StrayInv'
<1> SUFFICES ASSUME StrayInv, [Next]_vars PROVE StrayInv'
  OBVIOUS
<1>1. StoreInv'
  BY StoreNext DEF StrayInv
<1>2. SUFFICES AbsencesWereOverlaps' /\ StrayObjectsHaveACause'
  BY <1>1 DEF StrayInv
<1>3. TypeOK /\ PutKeepsItsRow
  BY DEF StrayInv, StoreInv
<1>4. CASE Pump
  BY <1>1, <1>4, StrayPump
<1>5. ASSUME NEW r \in Runs, SealWithoutManifest(r)
      PROVE  AbsencesWereOverlaps' /\ StrayObjectsHaveACause'
  <2>1. UNCHANGED <<artifacts, objects, put, gc, interrupted, overlapped>>
    BY <1>5 DEF SealWithoutManifest, historyVars
  <2> QED
    BY <2>1, AbsencesFrame, CauseFrame, SameCollections DEF Putting
<1>6. CASE StageThrows
  <2>1. /\ UNCHANGED <<artifacts, objects, gc, overlapped>>
        /\ interrupted \subseteq interrupted'
        /\ put.at \in {"linked", "verified"} => put.content \in interrupted'
    BY <1>6 DEF StageThrows, tableVars
  <2>2. \A c \in Contents : Putting(c) => RowsOf(c)' # {} \/ c \in interrupted'
    BY <1>3, <2>1 DEF Putting, RowsOf, PutKeepsItsRow, TypeOK, PutState
  <2> QED
    BY <2>1, <2>2, AbsencesFrame, CauseFrame, SameCollections
<1>7. ASSUME NEW q \in Requests,
             (\E deleted \in SUBSET Runs : DeleteRuns(q, deleted)) \/ Collect(q)
                \/ CollectionThrows(q)
      PROVE  AbsencesWereOverlaps' /\ StrayObjectsHaveACause'
  BY <1>1, <1>7, StrayRequest
<1>8. CASE Crash
  <2>1. /\ UNCHANGED <<artifacts, objects, overlapped>>
        /\ interrupted \subseteq interrupted'
        /\ \A c \in Contents : Collecting(c) => c \in interrupted'
        /\ put.at \in {"linked", "verified"} => put.content \in interrupted'
        /\ \A q \in Requests : gc'[q].at = "loop"
    BY <1>8, IdleTypes DEF Crash, tableVars
  <2>2. \A c \in Contents : Putting(c) => RowsOf(c)' # {} \/ c \in interrupted'
    BY <1>3, <2>1 DEF Putting, RowsOf, PutKeepsItsRow, TypeOK, PutState
  <2> QED
    BY <2>1, <2>2, AbsencesFrame, CauseFrame
<1>9. CASE UNCHANGED vars
  <2>1. UNCHANGED <<artifacts, objects, put, gc, interrupted, overlapped>>
    BY <1>9 DEF vars, tableVars, historyVars
  <2> QED
    BY <2>1, AbsencesFrame, CauseFrame, SameCollections DEF Putting
<1> QED
  BY <1>4, <1>5, <1>6, <1>7, <1>8, <1>9 DEF Next

(***************************************************************************)
(* An object that no row names is being put or collected, or a put or a    *)
(* collection of it was cut short or overlapped the other.                 *)
(***************************************************************************)
THEOREM StrayObjectsAreExplained == Safety => []StrayObjectsHaveACause
<1>1. StrayInv => StrayObjectsHaveACause
  BY DEF StrayInv
<1> QED
  BY <1>1, StrayInit, StrayNext, PTL DEF Safety

-----------------------------------------------------------------------------
(* References *)

LEMMA StepKeepsReferences ==
    ASSUME StoreInv, Next
    PROVE  \A f \in runArtifacts \ runArtifacts' : status'[f.run] = "Deleted"
<1>0. TypeOK
  BY DEF StoreInv
<1>1. CASE Pump
  <2>1. runArtifacts \subseteq runArtifacts'
    BY <1>1 DEF Pump, StartPut, LinkObject, VerifyObject, PersistArtifact, UseRow, LinkArtifact,
                tableVars
  <2> QED
    BY <2>1
<1>2. ASSUME NEW q \in Requests, NEW deleted \in SUBSET Runs, DeleteRuns(q, deleted)
      PROVE  \A f \in runArtifacts \ runArtifacts' : status'[f.run] = "Deleted"
  BY <1>0, <1>2 DEF DeleteRuns, TypeOK, Reference
<1>3. ASSUME NEW q \in Requests, Collect(q) \/ CollectionThrows(q)
      PROVE  runArtifacts' = runArtifacts
  BY <1>3 DEF Collect, CheckObject, DeleteRow, CheckAgain, UnlinkObject, CollectionThrows,
              tableVars
<1> QED
  BY <1>1, <1>2, <1>3 DEF Next, SealWithoutManifest, StageThrows, Crash, tableVars

(***************************************************************************)
(* Only deleting a run takes its references away.                          *)
(***************************************************************************)
THEOREM ReferencesOutliveCollections == Safety => ReferencesEndWithTheirRun
<1>1. StoreInv /\ [Next]_vars
         => [\A f \in runArtifacts \ runArtifacts' : status'[f.run] = "Deleted"]_vars
  BY StepKeepsReferences
<1> QED
  BY <1>1, StoreSafety, PTL DEF Safety, ReferencesEndWithTheirRun

=============================================================================
