-------------------------------- MODULE Ingest --------------------------------
(***************************************************************************)
(* internal/services/ingest: storing an uploaded PDF, turning it into page *)
(* images and handing them to the OCR service (Process), and sending a     *)
(* lost OCR job again (Redispatch).                                        *)
(*                                                                         *)
(* A "runner" is a goroutine that executes this code for one document.  It *)
(* is named by the document for the goroutine that serves the upload, and  *)
(* by the replica for the janitor, which runs Process and Redispatch in    *)
(* its own goroutine.                                                      *)
(***************************************************************************)
EXTENDS OcrService

CONSTANTS
    Replicas,    \* instances of the API process
    NoReplica,
    Retries      \* POSTs that DispatchOCRJob tries (3 in the code)

ASSUME ReplicasAssumption == /\ NoReplica \notin Replicas
                             /\ Docs \cap Replicas = {}
ASSUME RetriesAssumption  == Retries \in Nat \ {0}

VARIABLE ing     \* ing[x]: where runner x stands

Runners == Docs \cup Replicas

IngestPC == {"idle", "upload", "create", "claim", "check", "render", "pages", "record",
             "count", "post", "stamp", "fail_ingest", "fail_dispatch", "reload"}

\* n: page images uploaded, then the length of the object list of the job.
\* again: the runner executes Redispatch.  try: POSTs that have failed.
Runner == [pc: IngestPC, doc: Docs \cup {NoDoc}, on: Replicas \cup {NoReplica},
           n: 0 .. NumPages, again: BOOLEAN, try: 0 .. Retries]

IdleRunner == [pc |-> "idle", doc |-> NoDoc, on |-> NoReplica,
               n |-> 0, again |-> FALSE, try |-> 0]

IngestTypeOK == ing \in [Runners -> Runner]
IngestInit   == ing = [x \in Runners |-> IdleRunner]

Goto(x, pc) == ing' = [ing EXCEPT ![x].pc = pc]
EndRunner(x) == ing' = [ing EXCEPT ![x] = IdleRunner]
Start(x, d, r, pc, again) ==
    ing' = [ing EXCEPT ![x] = [IdleRunner EXCEPT !.pc = pc, !.doc = d, !.on = r, !.again = again]]

(***************************************************************************)
(* CreateAndProcess.                                                       *)
(***************************************************************************)

\* A request arrives at replica r; the id is new.
Upload(d, r) ==
    /\ ing[d].pc = "idle"
    /\ docs[d].status = "absent"
    /\ bucket[d] = {}
    /\ Start(d, d, r, "upload", FALSE)
    /\ UNCHANGED <<storeVars, jobs>>

\* The raw PDF goes to the bucket first; an error answers 500 and leaves no row.
StorePDF(x) ==
    /\ ing[x].pc = "upload"
    /\ \/ /\ bucket' = [bucket EXCEPT ![ing[x].doc] = @ \cup {PDF}]
          /\ Goto(x, "create")
          /\ NoFault
       \/ /\ Fault("gcs")
          /\ bucket' \in {bucket, [bucket EXCEPT ![ing[x].doc] = @ \cup {PDF}]}
          /\ EndRunner(x)
    /\ UNCHANGED <<docs, pages, ocrResults, extractions, matriculas, jobs>>

\* The row is inserted and the background goroutine starts.  After an error the
\* request ends; the row may exist all the same.
CreateRow(x) ==
    /\ ing[x].pc = "create"
    /\ LET d == ing[x].doc IN
       \/ Exec(d, Create(docs[d])) /\ Goto(x, "claim") /\ NoFault
       \/ Fault("db") /\ MaybeExec(d, Create(docs[d])) /\ EndRunner(x)
    /\ UNCHANGED <<pages, ocrResults, extractions, matriculas, bucket, jobs>>

(***************************************************************************)
(* Process and process.  Every error ends in MarkFailed(.., "ingest").     *)
(***************************************************************************)
ClaimIngest(x) ==
    /\ ing[x].pc = "claim"
    /\ LET d   == ing[x].doc
           row == UpdateStatus(docs[d], "uploaded", "processing") IN
       \/ /\ Exec(d, row)
          /\ Goto(x, IF docs[d].status = "uploaded" THEN "render" ELSE "check")
          /\ NoFault
       \/ Fault("db") /\ MaybeExec(d, row) /\ Goto(x, "fail_ingest")
    /\ UNCHANGED <<pages, ocrResults, extractions, matriculas, bucket, jobs>>

\* GetByID after a claim that moved nothing: only "processing" is re-run.
CheckStatus(x) ==
    /\ ing[x].pc = "check"
    /\ \/ /\ IF docs[ing[x].doc].status = "processing" THEN Goto(x, "render") ELSE EndRunner(x)
          /\ NoFault
       \/ Fault("db") /\ Goto(x, "fail_ingest")
    /\ UNCHANGED <<docs, pages, ocrResults, extractions, matriculas, bucket, jobs>>

\* Fetch the stored PDF and convert it into NumPages images in a temporary
\* directory.  A PDF that cannot be converted is a "gcs" fault as well.
Render(x) ==
    /\ ing[x].pc = "render"
    /\ \/ PDF \in bucket[ing[x].doc] /\ Goto(x, "pages") /\ NoFault
       \/ /\ IF PDF \in bucket[ing[x].doc] THEN Fault("gcs") ELSE NoFault
          /\ Goto(x, "fail_ingest")
    /\ UNCHANGED <<docs, pages, ocrResults, extractions, matriculas, bucket, jobs>>

RecordBeforeUpload(x) ==
    /\ ing[x].pc = "pages"
    /\ ing' = [ing EXCEPT ![x].n = NumPages, ![x].pc = "record"]
    /\ UNCHANGED <<storeVars, jobs>>

\* The upload loop puts one page image at a time into the bucket.
UploadPage(x) ==
    /\ ing[x].pc = "pages"
    /\ LET n == ing[x].n + 1
           put == [bucket EXCEPT ![ing[x].doc] = @ \cup {n}] IN
       \/ /\ bucket' = put
          /\ ing' = [ing EXCEPT ![x].n = n, ![x].pc = IF n = NumPages THEN "record" ELSE "pages"]
          /\ NoFault
       \/ Fault("gcs") /\ bucket' \in {bucket, put} /\ Goto(x, "fail_ingest")
    /\ UNCHANGED <<docs, pages, ocrResults, extractions, matriculas, jobs>>

SkipAddPages(x) ==
    /\ ing[x].pc = "record"
    /\ Goto(x, "count")
    /\ UNCHANGED <<storeVars, jobs>>

\* AddPages: one batch, so all rows or none; existing rows are kept.
AddPages(x) ==
    /\ ing[x].pc = "record"
    /\ LET added == [pages EXCEPT ![ing[x].doc] = @ \cup 1 .. ing[x].n] IN
       \/ pages' = added /\ Goto(x, "count") /\ NoFault
       \/ Fault("db") /\ pages' \in {pages, added} /\ Goto(x, "fail_ingest")
    /\ UNCHANGED <<docs, ocrResults, extractions, matriculas, bucket, jobs>>

CountPages(x) ==
    /\ ing[x].pc = "count"
    /\ LET d   == ing[x].doc
           row == SetPageCount(docs[d], ing[x].n) IN
       \/ Exec(d, row) /\ Goto(x, "post") /\ NoFault
       \/ Fault("db") /\ MaybeExec(d, row) /\ Goto(x, "fail_ingest")
    /\ UNCHANGED <<pages, ocrResults, extractions, matriculas, bucket, jobs>>

(***************************************************************************)
(* DispatchOCRJob: POST /v1/ocr-jobs, up to Retries times.                 *)
(***************************************************************************)
PostFailed(x) ==
    ing' = [ing EXCEPT ![x].try = @ + 1,
                       ![x].pc = IF ing[x].try + 1 = Retries THEN "fail_dispatch" ELSE "post"]

\* The service answers 202.
PostAccepted(x, j) ==
    /\ ing[x].pc = "post"
    /\ Accept(j, ing[x].doc, ing[x].n)
    /\ Goto(x, "stamp")
    /\ UNCHANGED storeVars

\* The service takes the job but its answer is lost or late: the client cannot
\* tell, and counts the POST as failed.
PostUnanswered(x, j) ==
    /\ ing[x].pc = "post"
    /\ Fault("net")
    /\ Accept(j, ing[x].doc, ing[x].n)
    /\ PostFailed(x)
    /\ UNCHANGED <<docs, pages, ocrResults, extractions, matriculas, bucket>>

\* The request does not reach the service, or it answers with an error.
PostRefused(x) ==
    /\ ing[x].pc = "post"
    /\ Fault("net")
    /\ PostFailed(x)
    /\ UNCHANGED <<docs, pages, ocrResults, extractions, matriculas, bucket, jobs>>

\* SetOCRDispatched.  Process treats an error as a failed ingest, although the
\* job is already running; Redispatch only logs it.
Stamp(x) ==
    /\ ing[x].pc = "stamp"
    /\ LET d   == ing[x].doc
           row == SetOCRDispatched(docs[d]) IN
       \/ Exec(d, row) /\ EndRunner(x) /\ NoFault
       \/ /\ Fault("db")
          /\ MaybeExec(d, row)
          /\ IF ing[x].again THEN EndRunner(x) ELSE Goto(x, "fail_ingest")
    /\ UNCHANGED <<pages, ocrResults, extractions, matriculas, bucket, jobs>>

\* MarkFailed from "processing" with the stage of the error; its own error is
\* only logged.
RecordFailure(x) ==
    /\ ing[x].pc \in {"fail_ingest", "fail_dispatch"}
    /\ LET d   == ing[x].doc
           row == MarkFailed(docs[d], "processing",
                    IF ing[x].pc = "fail_ingest" THEN "ingest" ELSE "ocr_dispatch") IN
       \/ Exec(d, row) /\ NoFault
       \/ Fault("db") /\ MaybeExec(d, row)
    /\ EndRunner(x)
    /\ UNCHANGED <<pages, ocrResults, extractions, matriculas, bucket, jobs>>

(***************************************************************************)
(* Redispatch: PagesByDocument, then DispatchOCRJob with pages renumbered  *)
(* from 1.  There is no second look at the document's status.              *)
(***************************************************************************)
LoadPages(x) ==
    /\ ing[x].pc = "reload"
    /\ LET known == pages[ing[x].doc] IN
       \/ /\ IF known = {} THEN EndRunner(x)
             ELSE ing' = [ing EXCEPT ![x].pc = "post", ![x].n = Cardinality(known)]
          /\ NoFault
       \/ Fault("db") /\ EndRunner(x)
    /\ UNCHANGED <<docs, pages, ocrResults, extractions, matriculas, bucket, jobs>>

RunnerStep(x) ==
    \/ StorePDF(x) \/ CreateRow(x)
    \/ ClaimIngest(x) \/ CheckStatus(x) \/ Render(x) \/ UploadPage(x)
    \/ AddPages(x) \/ CountPages(x)
    \/ \E j \in JobSlots : PostAccepted(x, j) \/ PostUnanswered(x, j)
    \/ PostRefused(x) \/ Stamp(x) \/ RecordFailure(x) \/ LoadPages(x)
==============================================================================
