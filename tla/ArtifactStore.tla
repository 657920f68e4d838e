----------------------------- MODULE ArtifactStore -----------------------------
(***************************************************************************)
(* Prepared evidence lives in two places no transaction spans: object      *)
(* files named by their digest, and the tables `artifacts` and             *)
(* `run_artifacts`.  The pump puts contents and links them to their runs;  *)
(* HTTP requests delete runs and collect what became unreferenced; nothing *)
(* serializes them but the event loop, and the process may die anywhere.   *)
(*                                                                         *)
(* One step is what runs between two awaits: a file-system call, or a      *)
(* transaction with everything synchronous around it.                      *)
(***************************************************************************)
EXTENDS Integers, FiniteSets

CONSTANTS
    Runs,             \* task runs, each with a conversation of its own
    Contents,         \* prepared byte strings, standing for their digests
    RunOf,            \* the run a content names in its bytes
    KindOf,           \* the stage that prepares it, see Kinds
    Requests,         \* settings requests that may be in flight at once
    None,
    CollectionBatch,  \* MAX_ARTIFACT_GC_BATCH, 100 in the code
    MaxRows,          \* metadata rows ever inserted (bound)
    MaxFailures,      \* exceptions of stages and collections (bound)
    MaxCrashes        \* crashes of the daemon (bound)

\* manifest: put, then linked by the transaction that seals the run
\* derived:  put and linked at once (classification, evidence graph, semantic input)
\* report:   put, then linked by its stage (verification, generation, validation)
Kinds == {"manifest", "derived", "report"}

ASSUME StoreConstants ==
    /\ RunOf \in [Contents -> Runs]
    /\ KindOf \in [Contents -> Kinds]
    /\ None \notin Contents
    /\ CollectionBatch \in Nat \ {0}
    /\ {MaxRows, MaxFailures, MaxCrashes} \subseteq Nat

VARIABLES
    status,        \* task_runs.status, as far as deletion asks for it
    objects,       \* digests with an object file
    artifacts,     \* rows of the table artifacts
    runArtifacts,  \* rows of the table run_artifacts
    inserted,      \* number of artifact rows inserted so far
    put,           \* process: the put of the pump, one at a time
    gc,            \* process: the collection of each request
    failures,
    crashes,
    overlapped,    \* history: digests put while they were being collected
    interrupted    \* history: digests whose put or collection was cut short

tableVars   == <<status, artifacts, runArtifacts, inserted>>
historyVars == <<overlapped, interrupted>>
vars        == <<tableVars, objects, put, gc, failures, crashes, historyVars>>

-----------------------------------------------------------------------------
(* Rows and process state *)

Row       == [id: Nat, content: Contents]   \* ids in order of created_at
Reference == [run: Runs, id: Nat]

\* writing: into a temporary file; linked: the object file is there; verified: read
\* back; persisted: its row is there
PutState == [at: {"idle", "writing", "linked", "verified",
                  "persisted"},
             content: Contents \cup {None}, id: Nat]
IdlePut  == [at |-> "idle", content |-> None, id |-> 0]

\* loop: before the next candidate; checked: its first lstat is back;
\* deleted: its row is gone; found: the second lstat saw the object
GcState == [at: {"loop", "checked", "deleted", "found"},
            todo: SUBSET Row, content: Contents \cup {None}, id: Nat, present: BOOLEAN]
IdleGc  == [at |-> "loop", todo |-> {}, content |-> None, id |-> 0, present |-> FALSE]

Finished(q)   == gc[q].at = "loop" /\ gc[q].todo = {}
Collecting(c) == \E q \in Requests : gc[q].at \in {"deleted", "found"} /\ gc[q].content = c
Putting(c)    == put.at \notin {"idle", "writing"} /\ put.content = c

\* the caller of putPreparedBytes goes on in the microtasks of the same turn
TurnIsOver == put.at # "persisted"

RowsOf(c)         == {a \in artifacts : a.content = c}
Referenced(id)    == \E f \in runArtifacts : f.id = id
Unreferenced      == {a \in artifacts : ~Referenced(a.id)}
LinkedContents(r) == {a.content : a \in {b \in artifacts : [run |-> r, id |-> b.id] \in runArtifacts}}

\* what a stage still lists and prepares
Wanted(c) ==
    IF KindOf[c] = "manifest" THEN status[RunOf[c]] = "Finalizing"
    ELSE status[RunOf[c]] = "Sealed" /\ c \notin LinkedContents(RunOf[c])

TypeOK ==
    /\ status \in [Runs -> {"Finalizing", "Sealed", "Deleted"}]
    /\ objects \subseteq Contents
    /\ artifacts \subseteq Row
    /\ runArtifacts \subseteq Reference
    /\ inserted \in Nat
    /\ put \in PutState
    /\ put.at # "idle" => put.content \in Contents
    /\ gc \in [Requests -> GcState]
    /\ \A q \in Requests : gc[q].at # "loop" => gc[q].content \in Contents
    /\ {failures, crashes} \subseteq Nat
    /\ overlapped \subseteq Contents
    /\ interrupted \subseteq Contents

Init ==
    /\ status = [r \in Runs |-> "Finalizing"]
    /\ objects = {} /\ artifacts = {} /\ runArtifacts = {}
    /\ inserted = 0 /\ failures = 0 /\ crashes = 0
    /\ put = IdlePut
    /\ gc = [q \in Requests |-> IdleGc]
    /\ overlapped = {} /\ interrupted = {}

-----------------------------------------------------------------------------
(* The pump: put and link *)

(***************************************************************************)
(* A stage lists a run without the artifact and puts the content.          *)
(***************************************************************************)
StartPut(c) ==
    /\ put.at = "idle" /\ Wanted(c)
    /\ put' = [at |-> "writing", content |-> c, id |-> 0]
    /\ UNCHANGED <<tableVars, objects, gc, failures, crashes, historyVars>>

LinkFailingOnExisting ==   \* mutant
    /\ put.at = "writing"
    /\ put' = IF put.content \in objects THEN IdlePut ELSE [put EXCEPT !.at = "linked"]
    /\ objects' = objects \cup {put.content}
    /\ overlapped' = IF Collecting(put.content) THEN overlapped \cup {put.content} ELSE overlapped
    /\ UNCHANGED <<tableVars, gc, failures, crashes, interrupted>>

(***************************************************************************)
(* The temporary file is linked under its digest; an object that is there  *)
(* already is kept.                                                        *)
(***************************************************************************)
LinkObject ==
    /\ put.at = "writing"
    /\ put' = [put EXCEPT !.at = "linked"]
    /\ objects' = objects \cup {put.content}
    /\ overlapped' = IF Collecting(put.content) THEN overlapped \cup {put.content} ELSE overlapped
    /\ UNCHANGED <<tableVars, gc, failures, crashes, interrupted>>

(***************************************************************************)
(* The object is read back; if it is gone the put throws.                  *)
(***************************************************************************)
VerifyObject ==
    /\ put.at = "linked"
    /\ put' = IF put.content \in objects THEN [put EXCEPT !.at = "verified"] ELSE IdlePut
    /\ UNCHANGED <<tableVars, objects, gc, failures, crashes, historyVars>>

FreshRowId(c) == {inserted + 1}   \* mutant

\* the row that has the digest, or a new one
RowIdFor(c) == IF RowsOf(c) = {} THEN {inserted + 1} ELSE {a.id : a \in RowsOf(c)}

\* the foreign key of run_artifacts
LinkFails(c) == KindOf[c] = "derived" /\ status[RunOf[c]] = "Deleted"

UseRow(c, id) ==
    /\ artifacts' = artifacts \cup {[id |-> id, content |-> c]}
    /\ inserted' = IF id = inserted + 1 THEN id ELSE inserted
    /\ IF KindOf[c] = "derived"
       THEN /\ runArtifacts' = runArtifacts \cup {[run |-> RunOf[c], id |-> id]}
            /\ put' = IdlePut
       ELSE /\ put' = [at |-> "persisted", content |-> c, id |-> id]
            /\ UNCHANGED runArtifacts
    /\ UNCHANGED <<status, interrupted>>

(***************************************************************************)
(* One transaction finds the metadata row of the digest or inserts one     *)
(* and, for a derived content, links it.  The link fails on a run that was *)
(* deleted meanwhile, and the row with it.                                 *)
(***************************************************************************)
PersistArtifact ==
    /\ put.at = "verified"
    /\ RowsOf(put.content) = {} => inserted < MaxRows
    /\ \/ /\ ~LinkFails(put.content)
          /\ \E id \in RowIdFor(put.content) : UseRow(put.content, id)
       \/ /\ LinkFails(put.content)
          /\ put' = IdlePut
          /\ interrupted' = interrupted \cup {put.content}
          /\ UNCHANGED tableVars
    /\ UNCHANGED <<objects, gc, failures, crashes, overlapped>>

(***************************************************************************)
(* The second transaction of finalization (which seals the run),           *)
(* verification, generation and validation: the row and the run must still *)
(* be there.                                                               *)
(***************************************************************************)
LinkArtifact ==
    LET c == put.content
        r == RunOf[c]
    IN  /\ put.at = "persisted"
        /\ put' = IdlePut
        /\ IF RowsOf(c) # {} /\ status[r] = (IF KindOf[c] = "manifest" THEN "Finalizing" ELSE "Sealed")
           THEN /\ runArtifacts' = runArtifacts \cup {[run |-> r, id |-> put.id]}
                /\ status' = [status EXCEPT ![r] = "Sealed"]
           ELSE UNCHANGED <<status, runArtifacts>>
        /\ UNCHANGED <<artifacts, inserted, objects, gc, failures, crashes, historyVars>>

(***************************************************************************)
(* Runs end without a manifest when there is no reconciliation, when the   *)
(* manifest could not be written, and when recovery or a new prompt        *)
(* abandons them.                                                          *)
(***************************************************************************)
SealWithoutManifest(r) ==
    /\ put.at = "idle" /\ status[r] = "Finalizing"
    /\ status' = [status EXCEPT ![r] = "Sealed"]
    /\ UNCHANGED <<artifacts, runArtifacts, inserted, objects, put, gc, failures, crashes,
                   historyVars>>

(***************************************************************************)
(* The put or its stage throws: a full disk, a busy database, a source     *)
(* that changed since it was read.  The stage tries again another cycle.   *)
(***************************************************************************)
StageThrows ==
    /\ put.at # "idle" /\ failures < MaxFailures
    /\ failures' = failures + 1
    /\ put' = IdlePut
    /\ interrupted' = IF put.at \in {"linked", "verified"}
                      THEN interrupted \cup {put.content} ELSE interrupted
    /\ UNCHANGED <<tableVars, objects, gc, crashes, overlapped>>

-----------------------------------------------------------------------------
(* Settings requests: delete runs, then collect *)

\* the oldest CollectionBatch of a set of rows
Oldest(rows) == {a \in rows : Cardinality({b \in rows : b.id < a.id}) < CollectionBatch}

(***************************************************************************)
(* Terminal runs are deleted, one by request or several by retention,      *)
(* their references cascade, and the collection takes its listing before   *)
(* it first awaits.                                                        *)
(***************************************************************************)
DeleteRuns(q, deleted) ==
    /\ TurnIsOver /\ Finished(q)
    /\ \A r \in deleted : status[r] = "Sealed"
    /\ status' = [r \in Runs |-> IF r \in deleted THEN "Deleted" ELSE status[r]]
    /\ runArtifacts' = {f \in runArtifacts : f.run \notin deleted}
    /\ LET kept == {f.id : f \in runArtifacts'}
       IN  gc' = [gc EXCEPT ![q] = [IdleGc EXCEPT !.todo =
                                       Oldest({a \in artifacts : a.id \notin kept})]]
    /\ UNCHANGED <<artifacts, inserted, objects, put, failures, crashes, historyVars>>

UnlinkBeforeRow(q, a) ==   \* mutant: the order the decision record rejects
    /\ TurnIsOver /\ gc[q].at = "loop" /\ a \in gc[q].todo
    /\ objects' = objects \ {a.content}
    /\ gc' = [gc EXCEPT ![q] = [at |-> "checked", todo |-> @.todo \ {a}, content |-> a.content,
                                id |-> a.id, present |-> FALSE]]
    /\ UNCHANGED <<tableVars, put, failures, crashes, historyVars>>

(***************************************************************************)
(* The next listed row: is its object a regular file?                      *)
(***************************************************************************)
CheckObject(q, a) ==
    /\ TurnIsOver /\ gc[q].at = "loop" /\ a \in gc[q].todo
    /\ gc' = [gc EXCEPT ![q] = [at |-> "checked", todo |-> @.todo \ {a}, content |-> a.content,
                                id |-> a.id, present |-> a.content \in objects]]
    /\ UNCHANGED <<tableVars, objects, put, failures, crashes, historyVars>>

DeleteListedRow(q) ==   \* mutant
    LET mine == {a \in artifacts : a.id = gc[q].id}
    IN  /\ TurnIsOver /\ gc[q].at = "checked"
        /\ artifacts' = artifacts \ mine
        /\ runArtifacts' = {f \in runArtifacts : f.id # gc[q].id}
        /\ gc' = [gc EXCEPT ![q].at = IF mine # {} /\ gc[q].present THEN "deleted" ELSE "loop"]
        /\ overlapped' = IF mine # {} /\ gc[q].present /\ Putting(gc[q].content)
                         THEN overlapped \cup {gc[q].content} ELSE overlapped
        /\ UNCHANGED <<status, inserted, objects, put, failures, crashes, interrupted>>

DeleteInMidTurn(q) ==   \* mutant
    LET mine == {a \in Unreferenced : a.id = gc[q].id}
    IN  /\ gc[q].at = "checked"
        /\ artifacts' = artifacts \ mine
        /\ gc' = [gc EXCEPT ![q].at = IF mine # {} /\ gc[q].present THEN "deleted" ELSE "loop"]
        /\ overlapped' = IF mine # {} /\ gc[q].present /\ Putting(gc[q].content)
                         THEN overlapped \cup {gc[q].content} ELSE overlapped
        /\ UNCHANGED <<status, runArtifacts, inserted, objects, put, failures, crashes,
                       interrupted>>

DeleteOnlyRow(q) ==   \* mutant
    LET mine == {a \in Unreferenced : a.id = gc[q].id}
    IN  /\ TurnIsOver /\ gc[q].at = "checked"
        /\ artifacts' = artifacts \ mine
        /\ gc' = [gc EXCEPT ![q].at = "loop"]
        /\ UNCHANGED <<status, runArtifacts, inserted, objects, put, failures, crashes,
                       historyVars>>

(***************************************************************************)
(* The row is deleted if it is still there and still unreferenced.         *)
(***************************************************************************)
DeleteRow(q) ==
    LET mine == {a \in Unreferenced : a.id = gc[q].id}
    IN  /\ TurnIsOver /\ gc[q].at = "checked"
        /\ artifacts' = artifacts \ mine
        /\ gc' = [gc EXCEPT ![q].at = IF mine # {} /\ gc[q].present THEN "deleted" ELSE "loop"]
        /\ overlapped' = IF mine # {} /\ gc[q].present /\ Putting(gc[q].content)
                         THEN overlapped \cup {gc[q].content} ELSE overlapped
        /\ UNCHANGED <<status, runArtifacts, inserted, objects, put, failures, crashes,
                       interrupted>>

(***************************************************************************)
(* With the row gone, the object is looked at again and unlinked.          *)
(***************************************************************************)
CheckAgain(q) ==
    /\ TurnIsOver /\ gc[q].at = "deleted"
    /\ gc' = [gc EXCEPT ![q].at = IF gc[q].content \in objects THEN "found" ELSE "loop"]
    /\ UNCHANGED <<tableVars, objects, put, failures, crashes, historyVars>>

UnlinkObject(q) ==
    /\ TurnIsOver /\ gc[q].at = "found"
    /\ objects' = objects \ {gc[q].content}
    /\ gc' = [gc EXCEPT ![q].at = "loop"]
    /\ UNCHANGED <<tableVars, put, failures, crashes, historyVars>>

(***************************************************************************)
(* A file-system error or a busy database ends the whole collection; the   *)
(* request reports a failure and nobody goes on with the rest.             *)
(***************************************************************************)
CollectionThrows(q) ==
    /\ TurnIsOver /\ ~Finished(q) /\ failures < MaxFailures
    /\ failures' = failures + 1
    /\ gc' = [gc EXCEPT ![q] = IdleGc]
    /\ interrupted' = IF gc[q].at \in {"deleted", "found"}
                      THEN interrupted \cup {gc[q].content} ELSE interrupted
    /\ UNCHANGED <<tableVars, objects, put, crashes, overlapped>>

(***************************************************************************)
(* The process dies; the tables and the objects stay.                      *)
(***************************************************************************)
Crash ==
    /\ crashes < MaxCrashes
    /\ crashes' = crashes + 1
    /\ put' = IdlePut
    /\ gc' = [q \in Requests |-> IdleGc]
    /\ interrupted' = interrupted \cup {c \in Contents : Collecting(c)}
                                  \cup (IF put.at \in {"linked", "verified"} THEN {put.content} ELSE {})
    /\ UNCHANGED <<tableVars, objects, failures, overlapped>>

-----------------------------------------------------------------------------
(* The system *)

Pump ==
    \/ \E c \in Contents : StartPut(c)
    \/ LinkObject
    \/ VerifyObject
    \/ PersistArtifact
    \/ LinkArtifact

Collect(q) ==
    \/ \E a \in gc[q].todo : CheckObject(q, a)
    \/ DeleteRow(q)
    \/ CheckAgain(q)
    \/ UnlinkObject(q)

Next ==
    \/ Pump
    \/ \E r \in Runs : SealWithoutManifest(r)
    \/ StageThrows
    \/ \E q \in Requests :
          \/ \E deleted \in (SUBSET Runs) \ {{}} : DeleteRuns(q, deleted)
          \/ Collect(q)
          \/ CollectionThrows(q)
    \/ Crash

Safety == Init /\ [][Next]_vars

(***************************************************************************)
(* The pump comes back to what it wants, and a collection whose request is *)
(* in flight goes on, as the event loop serves both.                       *)
(***************************************************************************)
Spec == Safety /\ WF_vars(Pump) /\ \A q \in Requests : WF_vars(Collect(q))

-----------------------------------------------------------------------------
(* Invariants *)

(***************************************************************************)
(* Whatever crashes and fails, in whatever order: a row of `artifacts` has *)
(* its object.  Rows appear after the object and disappear before it; the  *)
(* one thing that breaks this is a digest being put while a collection is  *)
(* between deleting its row and unlinking its object.                      *)
(***************************************************************************)
OnlyOverlapLosesContent ==
    \A a \in artifacts : a.content \in objects \cup overlapped

(***************************************************************************)
(* "Referenced artifacts are never deleted", says the decision record: the *)
(* content a run refers to can be read.                                    *)
(***************************************************************************)
ReferencedContentExists ==
    \A f \in runArtifacts : \A a \in artifacts : a.id = f.id => a.content \in objects

(***************************************************************************)
(* Between putPreparedBytes and the transaction that links its result no   *)
(* collection takes the row away, although it is unreferenced that long.   *)
(***************************************************************************)
PutKeepsItsRow ==
    put.at = "persisted" => [id |-> put.id, content |-> put.content] \in artifacts

(***************************************************************************)
(* Equal bytes resolve to one row, however puts, collections and retries   *)
(* interleave, and no reference dangles.                                   *)
(***************************************************************************)
OneRowPerContent ==
    /\ \A a, b \in artifacts : a.content = b.content => a = b
    /\ \A f \in runArtifacts : \E a \in artifacts : a.id = f.id

(***************************************************************************)
(* An object without a row (which no request ever removes) is on its way   *)
(* to a row or to its removal, or was left by a put or collection that was *)
(* cut short.                                                              *)
(***************************************************************************)
StrayObjectsHaveACause ==
    \A c \in objects : \/ RowsOf(c) # {}
                       \/ Putting(c) \/ Collecting(c)
                       \/ c \in interrupted \cup overlapped

-----------------------------------------------------------------------------
(* Action and liveness properties *)

(***************************************************************************)
(* A run keeps every reference until it is deleted, although collections   *)
(* work from listings that puts have overtaken, and deleting an artifact   *)
(* row would cascade to its references.                                    *)
(***************************************************************************)
ReferencesEndWithTheirRun ==
    [][\A f \in runArtifacts \ runArtifacts' : status'[f.run] = "Deleted"]_vars

(***************************************************************************)
(* What a stage wants to keep of a run is kept in the end, over crashes,   *)
(* exceptions, collections and objects left behind by earlier attempts.    *)
(***************************************************************************)
WantedContentIsKept == \A c \in Contents : Wanted(c) ~> ~Wanted(c)
=============================================================================
