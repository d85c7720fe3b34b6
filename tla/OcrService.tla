------------------------------ MODULE OcrService ------------------------------
(***************************************************************************)
(* The OCR service (cmd/ocr) as the rest of the pipeline sees it: jobs it  *)
(* has accepted, each working through its pages and writing the results    *)
(* and one status flip into the shared tables.  The goroutines inside one  *)
(* job are the subject of OcrWorker, which is shown to implement the job   *)
(* that is used here.                                                      *)
(***************************************************************************)
EXTENDS Store

CONSTANT JobSlots   \* bound: at most this many jobs run at a time

VARIABLE jobs       \* jobs[j]: one running job

Job == [pc: {"free", "pages", "fail"}, doc: Docs \cup {NoDoc}, todo: SUBSET PageNums]

FreeJob == [pc |-> "free", doc |-> NoDoc, todo |-> {}]

OcrTypeOK == jobs \in [JobSlots -> Job]
OcrInit   == jobs = [j \in JobSlots |-> FreeJob]

EndJob(j) == jobs' = [jobs EXCEPT ![j] = FreeJob]

\* handleJob: the service takes a job with pages 1..n and starts process.
Accept(j, d, n) ==
    /\ jobs[j].pc = "free"
    /\ jobs' = [jobs EXCEPT ![j] = [pc |-> "pages", doc |-> d, todo |-> 1 .. n]]

\* One page is fetched, recognised and its text upserted.
RecognizePage(j, p) ==
    /\ jobs[j].pc = "pages"
    /\ p \in jobs[j].todo
    /\ p \in bucket[jobs[j].doc]
    /\ ocrResults' = [ocrResults EXCEPT ![jobs[j].doc] = @ \cup {p}]
    /\ jobs' = [jobs EXCEPT ![j].todo = @ \ {p}]
    /\ UNCHANGED <<docs, pages, extractions, matriculas, bucket, faults>>

\* A page cannot be fetched or recognised, or the job's deadline passes: the
\* first error ends the job, which then marks the document failed.
PageFails(j) ==
    /\ jobs[j].pc = "pages"
    /\ IF jobs[j].todo \subseteq bucket[jobs[j].doc] THEN Fault("ocr") ELSE NoFault
    /\ jobs' = [jobs EXCEPT ![j].pc = "fail", ![j].todo = {}]
    /\ UNCHANGED <<docs, pages, ocrResults, extractions, matriculas, bucket>>

\* A result cannot be written (errStore): the job ends and flips nothing.
UpsertFails(j, p) ==
    /\ jobs[j].pc = "pages"
    /\ p \in jobs[j].todo
    /\ Fault("db")
    /\ ocrResults' \in {ocrResults, [ocrResults EXCEPT ![jobs[j].doc] = @ \cup {p}]}
    /\ EndJob(j)
    /\ UNCHANGED <<docs, pages, extractions, matriculas, bucket>>

FlipBeforeAllPages(j) ==
    /\ jobs[j].pc = "pages"
    /\ LET row == MarkOCRDone(docs[jobs[j].doc]) IN
       \/ Exec(jobs[j].doc, row) /\ NoFault
       \/ Fault("db") /\ MaybeExec(jobs[j].doc, row)
    /\ EndJob(j)
    /\ UNCHANGED <<pages, ocrResults, extractions, matriculas, bucket>>

\* All results are in: MarkOCRDone.  An error is only logged.
FlipDone(j) ==
    /\ jobs[j].pc = "pages"
    /\ jobs[j].todo = {}
    /\ LET row == MarkOCRDone(docs[jobs[j].doc]) IN
       \/ Exec(jobs[j].doc, row) /\ NoFault
       \/ Fault("db") /\ MaybeExec(jobs[j].doc, row)
    /\ EndJob(j)
    /\ UNCHANGED <<pages, ocrResults, extractions, matriculas, bucket>>

\* worker.fail: MarkFailed on a fresh context.  An error is only logged.
FlipFailed(j) ==
    /\ jobs[j].pc = "fail"
    /\ LET row == MarkOCRFailed(docs[jobs[j].doc]) IN
       \/ Exec(jobs[j].doc, row) /\ NoFault
       \/ Fault("db") /\ MaybeExec(jobs[j].doc, row)
    /\ EndJob(j)
    /\ UNCHANGED <<pages, ocrResults, extractions, matriculas, bucket>>

\* The service restarts: jobs live in goroutines only, so all of them are lost.
LoseJobs ==
    /\ \E j \in JobSlots : jobs[j].pc # "free"
    /\ Fault("loss")
    /\ jobs' = [j \in JobSlots |-> FreeJob]
    /\ UNCHANGED <<docs, pages, ocrResults, extractions, matriculas, bucket>>

JobStep(j) ==
    \/ \E p \in PageNums : RecognizePage(j, p) \/ UpsertFails(j, p)
    \/ PageFails(j)
    \/ FlipDone(j)
    \/ FlipFailed(j)

(***************************************************************************)
(* The service on its own: what OcrWorker has to implement.  Steps of the  *)
(* orchestrator, which only touch docs, are stutters here.                 *)
(***************************************************************************)
OcrNext ==
    \/ \E j \in JobSlots, d \in Docs : Accept(j, d, NumPages) /\ UNCHANGED storeVars
    \/ \E j \in JobSlots : JobStep(j)
    \/ LoseJobs

OcrSpec == OcrInit /\ [][OcrNext]_<<ocrResults, jobs>>
==============================================================================
