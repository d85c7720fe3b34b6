------------------------------ MODULE Aggregate ------------------------------
(***************************************************************************)
(* internal/store/matriculas.go, statement by statement, for one document: *)
(* SaveAggregate replaces the aggregate in a transaction while other       *)
(* extractions of the same document may be saving theirs, and the read API *)
(* (services/matriculas) loads it with one query per table and no          *)
(* transaction.  Postgres runs at READ COMMITTED: a statement sees what is *)
(* committed when it starts; DELETE waits for a row another transaction    *)
(* has deleted, INSERT waits for one that might collide with it.           *)
(***************************************************************************)
EXTENDS FiniteSets, Naturals

CONSTANTS
    Savers,    \* extractions of the document, one per claim
    Readers,   \* API requests
    None       \* "no aggregate"

ASSUME AggregateAssumption == None \notin Savers

Parts == {"atos", "partes", "proprietarios", "onus"}    \* the child tables

VARIABLES
    status,       \* documents.status, from "ocr_done" on
    row,          \* matriculas: the committed row, named by the saver it is from
    child,        \* child[s]: child tables with the committed rows of s's aggregate
    extractions,  \* extractions: committed raw answers
    tx,           \* tx[s]: where the extraction s stands
    read          \* read[q]: where request q stands

aggregateVars == <<status, row, child, extractions, tx, read>>

TxPC == {"idle", "claimed", "delete", "deleting", "insert", "atos", "partes",
         "proprietarios", "onus", "commit", "flip", "requeue", "done"}

\* target: the row DELETE has found.  gone: the row it deleted.  put: the new
\* row is inserted.  parts: child tables filled.  All of it uncommitted.
Tx == [pc: TxPC, target: Savers \cup {None}, gone: Savers \cup {None},
       put: BOOLEAN, parts: SUBSET Parts]

NewTx == [pc |-> "idle", target |-> None, gone |-> None, put |-> FALSE, parts |-> {}]

\* id: the row that was read.  got: child tables whose query returned rows.
Read == [pc: {"idle", "status", "row", "atos", "partes", "proprietarios", "onus",
              "ok", "not_ready", "failed", "not_found"},
         id: Savers \cup {None}, got: SUBSET Parts]

NewRead == [pc |-> "idle", id |-> None, got |-> {}]

AggregateInit ==
    /\ status = "ocr_done"
    /\ row = None
    /\ child = [s \in Savers |-> {}]
    /\ extractions = {}
    /\ tx = [s \in Savers |-> NewTx]
    /\ read = [q \in Readers |-> NewRead]

TxGoto(s, pc) == tx' = [tx EXCEPT ![s].pc = pc]
Tables == <<row, child, extractions>>

\* Every error rolls the transaction back, and is transient.
RollbackKeepingLocks(s) == TxGoto(s, "requeue")
Rollback(s) == tx' = [tx EXCEPT ![s] = [NewTx EXCEPT !.pc = "requeue"]]

(***************************************************************************)
(* An extraction around its transaction.                                   *)
(***************************************************************************)

\* ClaimForExtraction, and the LLM's answer.
ClaimAttempt(s) ==
    /\ tx[s].pc = "idle"
    /\ status = "ocr_done"
    /\ status' = "extracting"
    /\ TxGoto(s, "claimed")
    /\ UNCHANGED <<Tables, read>>

\* A terminal error of the LLM.
GiveUpAttempt(s) ==
    /\ tx[s].pc = "claimed"
    /\ status' = IF status = "extracting" THEN "failed" ELSE status
    /\ TxGoto(s, "done")
    /\ UNCHANGED <<Tables, read>>

\* The move to "extracted" is guarded by "extracting", and only logged when it
\* moves nothing; an error, which may hide a move, is transient.
Flip(s) ==
    /\ tx[s].pc = "flip"
    /\ LET moved == IF status = "extracting" THEN "extracted" ELSE status IN
       \/ status' = moved /\ TxGoto(s, "done")
       \/ status' \in {status, moved} /\ TxGoto(s, "requeue")
    /\ UNCHANGED <<Tables, read>>

RequeueAttempt(s) ==
    /\ tx[s].pc = "requeue"
    /\ status' = IF status = "extracting" THEN "ocr_done" ELSE status
    /\ TxGoto(s, "done")
    /\ UNCHANGED <<Tables, read>>

\* The janitor takes the document back from an extraction that is too slow.
TakeBack ==
    /\ status = "extracting"
    /\ status' = "ocr_done"
    /\ UNCHANGED <<Tables, tx, read>>

\* All attempts are used up.
FailUsedUp ==
    /\ status = "ocr_done"
    /\ \A s \in Savers : tx[s].pc # "idle"
    /\ status' = "failed"
    /\ UNCHANGED <<Tables, tx, read>>

(***************************************************************************)
(* SaveAggregate.                                                          *)
(***************************************************************************)
DeletedBy(t, v)   == v # None /\ tx[t].gone = v
InsertedBy(t)     == tx[t].put

\* INSERT INTO extractions: its row is committed with the rest.
BeginSave(s) ==
    /\ tx[s].pc = "claimed"
    /\ TxGoto(s, "delete") \/ Rollback(s)
    /\ UNCHANGED <<status, Tables, read>>

\* DELETE FROM matriculas takes its snapshot.
StartDelete(s) ==
    /\ tx[s].pc = "delete"
    /\ tx' = [tx EXCEPT ![s].target = row, ![s].pc = "deleting"]
    /\ UNCHANGED <<status, Tables, read>>

DeleteAtOnce(s) ==
    /\ tx[s].pc = "deleting"
    /\ row' = None
    /\ child' = [v \in Savers |-> {}]
    /\ TxGoto(s, "insert")
    /\ UNCHANGED <<status, extractions, read>>

\* It waits for another transaction that has deleted the row it found; when
\* that one commits, the row is gone and nothing else is looked for.
FinishDelete(s) ==
    /\ tx[s].pc = "deleting"
    /\ \A t \in Savers \ {s} : ~DeletedBy(t, tx[s].target)
    /\ tx' = [tx EXCEPT ![s].gone = IF row = tx[s].target THEN row ELSE None,
                        ![s].pc = "insert"]
    /\ UNCHANGED <<status, Tables, read>>

InsertRowNotUnique(s) ==
    /\ tx[s].pc = "insert"
    /\ tx' = [tx EXCEPT ![s].put = TRUE, ![s].pc = "atos"]
    /\ UNCHANGED <<status, Tables, read>>

\* INSERT INTO matriculas, UNIQUE (document_id): waits while the fate of a row
\* it would collide with is open; a committed one is an error.
InsertRow(s) ==
    /\ tx[s].pc = "insert"
    /\ \A t \in Savers \ {s} : ~InsertedBy(t) /\ ~DeletedBy(t, row)
    /\ IF row \in {None, tx[s].gone}
       THEN tx' = [tx EXCEPT ![s].put = TRUE, ![s].pc = "atos"] \/ Rollback(s)
       ELSE Rollback(s)
    /\ UNCHANGED <<status, Tables, read>>

After(part) == CASE part = "atos" -> "partes"        [] part = "partes" -> "proprietarios"
                 [] part = "proprietarios" -> "onus" [] part = "onus" -> "commit"

\* The rows of one child table; a CHECK, or the connection, may fail it.
InsertPart(s, part) ==
    /\ tx[s].pc = part
    /\ \/ tx' = [tx EXCEPT ![s].parts = @ \cup {part}, ![s].pc = After(part)]
       \/ Rollback(s)
    /\ UNCHANGED <<status, Tables, read>>

AppliedWithoutCascade(s) ==
    /\ row' = s
    /\ child' = [child EXCEPT ![s] = tx[s].parts]
    /\ extractions' = extractions \cup {s}

\* The rows of a deleted aggregate go with it (ON DELETE CASCADE).
Applied(s) ==
    /\ row' = s
    /\ child' = [v \in Savers |-> IF v = s THEN tx[s].parts ELSE IF v = tx[s].gone THEN {} ELSE child[v]]
    /\ extractions' = extractions \cup {s}

\* An error may hide a commit that took place.
Commit(s) ==
    /\ tx[s].pc = "commit"
    /\ \/ Applied(s) /\ tx' = [tx EXCEPT ![s] = [NewTx EXCEPT !.pc = "flip"]]
       \/ (Applied(s) \/ UNCHANGED Tables) /\ Rollback(s)
    /\ UNCHANGED <<status, read>>

(***************************************************************************)
(* The read API: ByDocument looks at the status first; Proprietarios, Atos *)
(* and Onus come with the id of an aggregate they have seen.               *)
(***************************************************************************)
ReadGoto(q, pc) == read' = [read EXCEPT ![q].pc = pc]

RequestByDocument(q) ==
    /\ read[q].pc = "idle"
    /\ ReadGoto(q, "status")
    /\ UNCHANGED <<status, Tables, tx>>

ReadStatus(q) ==
    /\ read[q].pc = "status"
    /\ ReadGoto(q, CASE status = "extracted" -> "row" [] status = "failed" -> "failed"
                     [] status \in {"ocr_done", "extracting"} -> "not_ready")
    /\ UNCHANGED <<status, Tables, tx>>

ReadRow(q) ==
    /\ read[q].pc = "row"
    /\ read' = [read EXCEPT ![q].id = row, ![q].pc = IF row = None THEN "not_found" ELSE "atos"]
    /\ UNCHANGED <<status, Tables, tx>>

\* The same get, by matricula id.
RequestById(q, v) ==
    /\ read[q].pc = "idle"
    /\ v \in extractions
    /\ read' = [read EXCEPT ![q].id = v, ![q].pc = IF row = v THEN "atos" ELSE "not_found"]
    /\ UNCHANGED <<status, Tables, tx>>

LoadPartPastEnd(q, part) ==
    /\ read[q].pc = part
    /\ read' = [read EXCEPT ![q].got = IF part \in child[read[q].id] THEN @ \cup {part} ELSE @,
                            ![q].pc = After(part)]
    /\ UNCHANGED <<status, Tables, tx>>

\* The rows of one child table that belong to the row read first.
LoadPart(q, part) ==
    /\ read[q].pc = part
    /\ read' = [read EXCEPT ![q].got = IF part \in child[read[q].id] THEN @ \cup {part} ELSE @,
                            ![q].pc = IF part = "onus" THEN "ok" ELSE After(part)]
    /\ UNCHANGED <<status, Tables, tx>>

\* The answer is sent; the next request comes.
Answered(q) ==
    /\ read[q].pc \in {"ok", "not_ready", "failed", "not_found"}
    /\ read' = [read EXCEPT ![q] = NewRead]
    /\ UNCHANGED <<status, Tables, tx>>

SaveStep(s) ==
    \/ BeginSave(s) \/ StartDelete(s) \/ FinishDelete(s) \/ InsertRow(s)
    \/ \E part \in Parts : InsertPart(s, part)
    \/ Commit(s) \/ Flip(s) \/ RequeueAttempt(s) \/ GiveUpAttempt(s)

ReadStep(q) ==
    \/ ReadStatus(q) \/ ReadRow(q) \/ Answered(q)
    \/ \E part \in Parts : LoadPart(q, part)

AggregateNext ==
    \/ \E s \in Savers : ClaimAttempt(s) \/ SaveStep(s)
    \/ TakeBack
    \/ FailUsedUp
    \/ \E q \in Readers : RequestByDocument(q) \/ ReadStep(q) \/ \E v \in Savers : RequestById(q, v)

AggregateSpec == AggregateInit /\ [][AggregateNext]_aggregateVars

\* A transaction that is not waiting for another one goes on.
AggregateFairSpec == AggregateSpec /\ \A s \in Savers : WF_aggregateVars(SaveStep(s))

(***************************************************************************)
(* Properties.                                                             *)
(***************************************************************************)

AggregateTypeOK ==
    /\ status \in {"ocr_done", "extracting", "extracted", "failed"}
    /\ row \in Savers \cup {None}
    /\ child \in [Savers -> SUBSET Parts]
    /\ extractions \subseteq Savers
    /\ tx \in [Savers -> Tx]
    /\ read \in [Readers -> Read]

\* What is committed is one whole aggregate with its raw answer, and no row of
\* another one, whatever transactions overlap or fail (one transaction, UNIQUE
\* document_id, ON DELETE CASCADE).
StoredIsWhole ==
    /\ row # None => child[row] = Parts /\ row \in extractions
    /\ \A s \in Savers \ {row} : child[s] = {}

\* An extracted document always has an aggregate: a request that has seen
\* "extracted" is never told 404, even while a late extraction replaces it.
ExtractedIsReadable ==
    /\ status = "extracted" => row # None
    /\ \A q \in Readers : read[q].pc = "row" => row # None

\* At most one transaction at a time has its row in the table uncommitted, and
\* only if it deleted the committed one: two can never both commit.
OneReplacement ==
    \A s \in Savers : tx[s].put =>
        /\ row \in {None, tx[s].gone}
        /\ \A t \in Savers \ {s} : ~tx[t].put

\* Where ExtractDocument stands, with all of SaveAggregate in one place.
StageOf(pc) == IF pc \in {"idle", "flip", "requeue", "done"} THEN pc ELSE "save"

Atomic == INSTANCE AtomicSave WITH
    stored <- {r \in Savers \X Parts : r[2] \in child[r[1]]},
    raw    <- extractions,
    at     <- [s \in Savers |-> StageOf(tx[s].pc)]

\* Seen from extraction.go, every transaction of SaveAggregate is one step that
\* replaces all tables or none, however many of them overlap, wait for each
\* other or fail: the step that Poller takes it for.
SavesAreAtomic == Atomic!SSpec

\* No transaction waits for ever for another one.
SavesEnd == \A s \in Savers : tx[s].pc = "claimed" ~> tx[s].pc = "done"

\* matriculas.go: GetByDocumentID "loads the full aggregate for a document".
LoadsFullAggregate ==
    \A q \in Readers : read[q].pc = "ok" => read[q].got = Parts
==============================================================================
