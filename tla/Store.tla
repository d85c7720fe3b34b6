-------------------------------- MODULE Store --------------------------------
(***************************************************************************)
(* The shared state of the system: the Postgres tables that internal/store *)
(* and cmd/ocr/store.go write, and the bucket that holds the PDF and the   *)
(* page images.  Every SQL statement is one operator from the old row to   *)
(* the new row; a statement whose WHERE clause does not match returns the  *)
(* row it was given (RowsAffected() = 0).                                  *)
(*                                                                         *)
(* Time is kept only as far as a WHERE clause can see it:                  *)
(*   row.stale    updated_at < now() - STUCK_TIMEOUT                       *)
(*   row.backoff  next_extraction_at > now()                               *)
(* so every "updated_at = now()" is stale |-> FALSE.                       *)
(***************************************************************************)
EXTENDS Integers, FiniteSets

CONSTANTS
    Docs,          \* document ids; CreateAndProcess draws a fresh uuid
    NumPages,      \* pages every PDF converts to
    MaxAttempts,   \* MAX_EXTRACTION_ATTEMPTS
    NoDoc,         \* "no document" in a worker's record
    Faults,        \* the kinds of fault that may happen (see FaultKinds)
    FaultsLimited, \* whether the number of faults is limited at all
    FaultLimit     \* the limit, when there is one

FaultKinds == {"db", "gcs", "net", "ocr", "llm", "crash", "loss"}

ASSUME PagesAssumption    == NumPages \in Nat \ {0}
ASSUME AttemptsAssumption == MaxAttempts \in Nat \ {0}
ASSUME NoDocAssumption    == NoDoc \notin Docs
ASSUME FaultsAssumption   == /\ Faults \subseteq FaultKinds
                             /\ FaultsLimited \in BOOLEAN
                             /\ FaultLimit \in Nat

VARIABLES
    docs,         \* table documents: one row per document
    pages,        \* table pages: page numbers recorded for a document
    ocrResults,   \* table ocr_results: page numbers with recognised text
    extractions,  \* table extractions: the claims that stored a raw answer
    matriculas,   \* table matriculas (with its child tables): the aggregate
    bucket,       \* GCS objects: PDF, or a page number for that page's PNG
    faults        \* number of faults so far, when they are limited

storeVars == <<docs, pages, ocrResults, extractions, matriculas, bucket, faults>>

(***************************************************************************)
(* The rows.                                                               *)
(***************************************************************************)
Status  == {"uploaded", "processing", "ocr_done", "extracting", "extracted", "failed"}
Stages  == {"ingest", "ocr_dispatch", "ocr", "extraction"}
PageNums == 1 .. NumPages
PDF     == 0                       \* documents/<id>/original.pdf
Objects == {PDF} \cup PageNums     \* n stands for documents/<id>/pages/<n>.png
Claims  == 1 .. MaxAttempts

Row == [status: Status \cup {"absent"}, failedStage: Stages \cup {"none"},
        pageCount: 0 .. NumPages, dispatched: BOOLEAN,
        attempts: 0 .. MaxAttempts, backoff: BOOLEAN, stale: BOOLEAN]

NoRow == [status |-> "absent", failedStage |-> "none", pageCount |-> 0,
          dispatched |-> FALSE, attempts |-> 0, backoff |-> FALSE, stale |-> FALSE]

\* An aggregate: the claim that wrote it and the pages its prompt contained.
Aggregates  == [claim: Claims, text: SUBSET PageNums]
NoAggregate == [claim |-> 0, text |-> {}]

StoreTypeOK ==
    /\ docs \in [Docs -> Row]
    /\ pages \in [Docs -> SUBSET PageNums]
    /\ ocrResults \in [Docs -> SUBSET PageNums]
    /\ extractions \in [Docs -> SUBSET Claims]
    /\ matriculas \in [Docs -> Aggregates \cup {NoAggregate}]
    /\ bucket \in [Docs -> SUBSET Objects]
    /\ faults \in Nat

StoreInit ==
    /\ docs = [d \in Docs |-> NoRow]
    /\ pages = [d \in Docs |-> {}]
    /\ ocrResults = [d \in Docs |-> {}]
    /\ extractions = [d \in Docs |-> {}]
    /\ matriculas = [d \in Docs |-> NoAggregate]
    /\ bucket = [d \in Docs |-> {}]
    /\ faults = 0

(***************************************************************************)
(* internal/store/documents.go                                             *)
(***************************************************************************)
Create(row) == [NoRow EXCEPT !.status = "uploaded"]

UpdateStatus(row, from, to) ==
    IF row.status = from THEN [row EXCEPT !.status = to, !.stale = FALSE] ELSE row

MarkFailedUnguarded(row, from, stage) ==
    [row EXCEPT !.status = "failed", !.failedStage = stage, !.stale = FALSE]

MarkFailed(row, from, stage) ==
    IF row.status = from
    THEN [row EXCEPT !.status = "failed", !.failedStage = stage, !.stale = FALSE]
    ELSE row

SetPageCount(row, n) == [row EXCEPT !.pageCount = n, !.stale = FALSE]

SetOCRDispatched(row) == [row EXCEPT !.dispatched = TRUE, !.stale = FALSE]

ClaimableIgnoringCap(row) == row.status = "ocr_done" /\ ~row.backoff

\* The inner SELECT of ClaimForExtraction.
Claimable(row) ==
    row.status = "ocr_done" /\ ~row.backoff /\ row.attempts < MaxAttempts

ClaimWithoutCounting(row) == [row EXCEPT !.status = "extracting", !.stale = FALSE]

ClaimForExtraction(row) ==
    [row EXCEPT !.status = "extracting", !.attempts = @ + 1, !.stale = FALSE]

\* later: the backoff is positive, so next_extraction_at is in the future.
ReturnForRetry(row, later) ==
    IF row.status = "extracting"
    THEN [row EXCEPT !.status = "ocr_done", !.backoff = later, !.stale = FALSE]
    ELSE row

\* Applied to every row by one UPDATE.
FailExhausted(row) ==
    IF row.status = "ocr_done" /\ row.attempts >= MaxAttempts
    THEN [row EXCEPT !.status = "failed", !.failedStage = "extraction", !.stale = FALSE]
    ELSE row

StuckIgnoringExtracting(row) == row.status = "processing" /\ row.stale

StuckDocument(row) == row.status \in {"processing", "extracting"} /\ row.stale

(***************************************************************************)
(* cmd/ocr/store.go: the two status flips the OCR service is granted.      *)
(***************************************************************************)
MarkOCRDoneUnguarded(row) == [row EXCEPT !.status = "ocr_done", !.stale = FALSE]

MarkOCRDone(row) ==
    IF row.status = "processing"
    THEN [row EXCEPT !.status = "ocr_done", !.stale = FALSE] ELSE row

MarkOCRFailed(row) == MarkFailed(row, "processing", "ocr")

(***************************************************************************)
(* Running a statement.  Exec is a statement that succeeds.  A statement   *)
(* that returns an error may still have been applied: the connection can   *)
(* break before the commit or after it.                                    *)
(***************************************************************************)
Exec(d, row)      == docs' = [docs EXCEPT ![d] = row]
MaybeExec(d, row) == docs' \in {docs, [docs EXCEPT ![d] = row]}

Fault(kind) ==
    /\ kind \in Faults
    /\ FaultsLimited => faults < FaultLimit
    /\ faults' = IF FaultsLimited THEN faults + 1 ELSE faults

NoFault == UNCHANGED faults
==============================================================================
