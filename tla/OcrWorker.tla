------------------------------ MODULE OcrWorker ------------------------------
(***************************************************************************)
(* cmd/ocr/worker.go: the goroutines of an OCR job.  process calls         *)
(* recognizeAll, whose loop starts one goroutine per page, at most         *)
(* Concurrency at a time; the first error cancels the rest; after wg.Wait  *)
(* process flips the document once, or leaves it alone.  A page goroutine  *)
(* downloads its image and asks the engine (internal/ocrengine), which     *)
(* tries the model endpoint twice.  OcrService, the coarse job that        *)
(* Pipeline uses, is shown to be implemented by this one.                  *)
(***************************************************************************)
EXTENDS Store

CONSTANTS JobSlots,      \* bound: at most this many jobs run at a time
          Concurrency,   \* OCR_PAGE_CONCURRENCY
          Engines        \* the values of OCR_ENGINE considered

ASSUME ConcurrencyAssumption == Concurrency \in Nat \ {0}
ASSUME EnginesAssumption == Engines \subseteq {"stub", "glm", "glm-maas"}

VARIABLES work,          \* work[j]: the goroutines of job j
          engine,        \* OCR_ENGINE of the running process
          pool           \* FALSE once a graceful stop has closed the pool

workerVars == <<storeVars, work, engine, pool>>

\* ask, again: the first and the second call of doWithRetry; pause: the backoff
\* between them.
PageState == {"unsent", "fetch", "ask", "pause", "again", "writing", "error", "returned"}

\* "canceled" and "deadline" are the errors of a done context; "timeout" is
\* OCR_MODEL_TIMEOUT passing on one call; "ocr" is every other failure to read
\* a page.
Errors == {"ocr", "timeout", "canceled", "deadline", "store"}

\* pc: where process stands.  next: the page the loop starts next.  page, err:
\* the page goroutines and the errors they return.  firstErr: the error that
\* canceled the context.  expired: OCR_JOB_TIMEOUT has passed.  written: the
\* pages whose upsert took effect (not in the code; for the refinement).
Work == [pc: {"free", "loop", "wait", "flip", "fail"}, doc: Docs \cup {NoDoc},
         next: 1 .. NumPages + 1, page: [PageNums -> PageState],
         err: [PageNums -> Errors \cup {"none"}], firstErr: Errors \cup {"none"},
         expired: BOOLEAN, written: SUBSET PageNums]

NoWork == [pc |-> "free", doc |-> NoDoc, next |-> 1, page |-> [p \in PageNums |-> "unsent"],
           err |-> [p \in PageNums |-> "none"], firstErr |-> "none",
           expired |-> FALSE, written |-> {}]

\* Page goroutines that have not finished: they hold a slot of the semaphore.
Alive(j) == {p \in PageNums : work[j].page[p] \in {"fetch", "ask", "pause", "again", "writing", "error"}}

\* The context of recognizeAll: canceled, or past its deadline.
CtxDone(j) == work[j].expired \/ work[j].firstErr # "none"

Untouched == UNCHANGED <<pages, extractions, matriculas, bucket>>

\* Documents that a job can be about: ingested, in "processing".
WorkerInit ==
    /\ docs = [d \in Docs |-> [NoRow EXCEPT !.status = "processing", !.pageCount = NumPages]]
    /\ pages = [d \in Docs |-> PageNums]
    /\ bucket = [d \in Docs |-> Objects]
    /\ ocrResults = [d \in Docs |-> {}]
    /\ extractions = [d \in Docs |-> {}]
    /\ matriculas = [d \in Docs |-> NoAggregate]
    /\ faults = 0
    /\ work = [j \in JobSlots |-> NoWork]
    /\ engine \in Engines
    /\ pool = TRUE

SameProcess == UNCHANGED <<engine, pool>>

\* A job arrives; a second one for the same document is a duplicate dispatch.
HandleJob(j, d) ==
    /\ work[j].pc = "free"
    /\ pool
    /\ work' = [work EXCEPT ![j] = [NoWork EXCEPT !.pc = "loop", !.doc = d]]
    /\ UNCHANGED storeVars /\ SameProcess

\* Engine.NeedsImage.
FirstState == IF engine = "stub" THEN "ask" ELSE "fetch"

StartPageForever(j) ==
    /\ work[j].pc = "loop"
    /\ Cardinality(Alive(j)) < Concurrency
    /\ ~CtxDone(j)
    /\ work' = [work EXCEPT ![j].page[work[j].next] = FirstState, ![j].next = @ + 1]
    /\ UNCHANGED storeVars /\ SameProcess

\* The loop of recognizeAll gets a slot and starts the next page.
StartPage(j) ==
    /\ work[j].pc = "loop"
    /\ Cardinality(Alive(j)) < Concurrency
    /\ ~CtxDone(j)
    /\ work' = [work EXCEPT ![j].page[work[j].next] = FirstState,
                            ![j].next = @ + 1,
                            ![j].pc = IF work[j].next = NumPages THEN "wait" ELSE "loop"]
    /\ UNCHANGED storeVars /\ SameProcess

\* The loop sees the context done, with or without a free slot.
StopLoop(j) ==
    /\ work[j].pc = "loop"
    /\ CtxDone(j)
    /\ work' = [work EXCEPT ![j].pc = "wait"]
    /\ UNCHANGED storeVars /\ SameProcess

PageError(j, p, kind) ==
    work' = [work EXCEPT ![j].page[p] = "error", ![j].err[p] = kind]

PageGoto(j, p, state) == work' = [work EXCEPT ![j].page[p] = state]

\* What a call reports when the context of recognizeAll is done under it.
ContextErrors(j) ==
    {k \in {"canceled", "deadline"} :
       \/ k = "canceled" /\ work[j].firstErr # "none"
       \/ k = "deadline" /\ work[j].expired}

\* Download of the page image.  glm-maas refuses an image over its size limit
\* before any call.
FetchPage(j, p) ==
    /\ work[j].page[p] = "fetch"
    /\ \/ p \in bucket[work[j].doc] /\ PageGoto(j, p, "ask") /\ NoFault
       \/ p \notin bucket[work[j].doc] /\ PageError(j, p, "ocr") /\ NoFault
       \/ Fault("ocr") /\ PageError(j, p, "ocr")
       \/ (\E k \in ContextErrors(j) : PageError(j, p, k)) /\ NoFault
    /\ UNCHANGED <<docs, ocrResults>> /\ Untouched /\ SameProcess

\* The first call of doWithRetry.  A network error, an unreadable body, 429,
\* 5xx, OCR_MODEL_TIMEOUT and the error of a done context lead to the backoff;
\* any other status, or a body of an unknown shape, ends the page.  The stub
\* has no second call.
AskModel(j, p) ==
    /\ work[j].page[p] = "ask"
    /\ \/ PageGoto(j, p, "writing") /\ NoFault
       \/ Fault("ocr") /\ PageError(j, p, "ocr")
       \/ engine # "stub" /\ Fault("ocr") /\ PageGoto(j, p, "pause")
       \/ engine # "stub" /\ CtxDone(j) /\ PageGoto(j, p, "pause") /\ NoFault
       \/ engine = "stub" /\ (\E k \in ContextErrors(j) : PageError(j, p, k)) /\ NoFault
    /\ UNCHANGED <<docs, ocrResults>> /\ Untouched /\ SameProcess

\* The backoff, which a done context cuts short.
BackOff(j, p) ==
    /\ work[j].page[p] = "pause"
    /\ PageGoto(j, p, "again") \/ \E k \in ContextErrors(j) : PageError(j, p, k)
    /\ UNCHANGED storeVars /\ SameProcess

\* The second and last call: its error is the error of the page.
AskAgain(j, p) ==
    /\ work[j].page[p] = "again"
    /\ \/ PageGoto(j, p, "writing") /\ NoFault
       \/ Fault("ocr") /\ (PageError(j, p, "ocr") \/ PageError(j, p, "timeout"))
       \/ (\E k \in ContextErrors(j) : PageError(j, p, k)) /\ NoFault
    /\ UNCHANGED <<docs, ocrResults>> /\ Untouched /\ SameProcess

\* UpsertPage; after an error the row may have been written all the same, but
\* not through a closed pool.
WritePage(j, p) ==
    /\ work[j].page[p] = "writing"
    /\ LET upserted == [ocrResults EXCEPT ![work[j].doc] = @ \cup {p}] IN
       \/ /\ ~pool
          /\ ocrResults' = ocrResults /\ PageError(j, p, "store")
          /\ NoFault
       \/ /\ pool
          /\ ocrResults' = upserted
          /\ work' = [work EXCEPT ![j].page[p] = "returned", ![j].written = @ \cup {p}]
          /\ NoFault
       \/ /\ pool
          /\ IF CtxDone(j) THEN NoFault ELSE Fault("db")
          /\ \/ ocrResults' = ocrResults /\ PageError(j, p, "store")
             \/ /\ ocrResults' = upserted
                /\ work' = [work EXCEPT ![j].page[p] = "error", ![j].err[p] = "store",
                                        ![j].written = @ \cup {p}]
    /\ UNCHANGED docs /\ Untouched /\ SameProcess

RecordWithoutDone(j, p) ==
    /\ work[j].page[p] = "error"
    /\ work[j].firstErr = "none"
    /\ work' = [work EXCEPT ![j].firstErr = work[j].err[p]]
    /\ UNCHANGED storeVars /\ SameProcess

KeepLastError(j, p) ==
    /\ work[j].page[p] = "error"
    /\ work' = [work EXCEPT ![j].page[p] = "returned", ![j].err[p] = "none",
                            ![j].firstErr = work[j].err[p]]
    /\ UNCHANGED storeVars /\ SameProcess

\* Under the mutex: the first error is kept and cancels the context.
RecordError(j, p) ==
    /\ work[j].page[p] = "error"
    /\ work' = [work EXCEPT ![j].page[p] = "returned", ![j].err[p] = "none",
                            ![j].firstErr = IF @ = "none" THEN work[j].err[p] ELSE @]
    /\ UNCHANGED storeVars /\ SameProcess

\* OCR_JOB_TIMEOUT passes.
Expire(j) ==
    /\ work[j].pc \in {"loop", "wait", "flip"}
    /\ ~work[j].expired
    /\ Fault("ocr")
    /\ work' = [work EXCEPT ![j].expired = TRUE]
    /\ UNCHANGED <<docs, ocrResults>> /\ Untouched /\ SameProcess

CollectWithoutWaiting(j) ==
    /\ work[j].pc = "wait"
    /\ IF work[j].firstErr = "store" THEN work' = [work EXCEPT ![j] = NoWork]
       ELSE work' = [work EXCEPT ![j].pc = IF CtxDone(j) THEN "fail" ELSE "flip"]
    /\ UNCHANGED storeVars /\ SameProcess

CollectIgnoringDeadline(j) ==
    /\ work[j].pc = "wait"
    /\ Alive(j) = {}
    /\ IF work[j].firstErr = "store" THEN work' = [work EXCEPT ![j] = NoWork]
       ELSE work' = [work EXCEPT ![j].pc = IF work[j].firstErr = "ocr" THEN "fail" ELSE "flip"]
    /\ UNCHANGED storeVars /\ SameProcess

\* wg.Wait returns.  A store error ends the job and leaves the document in
\* "processing" for the janitor; any other error fails it.
Collect(j) ==
    /\ work[j].pc = "wait"
    /\ Alive(j) = {}
    /\ IF work[j].firstErr = "store" THEN work' = [work EXCEPT ![j] = NoWork]
       ELSE work' = [work EXCEPT ![j].pc = IF CtxDone(j) THEN "fail" ELSE "flip"]
    /\ UNCHANGED storeVars /\ SameProcess

EndWork(j) == work' = [work EXCEPT ![j] = NoWork]

\* MarkOCRDone runs on the job's own context, which may expire first.
MarkDone(j) ==
    /\ work[j].pc = "flip"
    /\ LET row == MarkOCRDone(docs[work[j].doc]) IN
       \/ pool /\ Exec(work[j].doc, row) /\ NoFault
       \/ pool /\ (IF work[j].expired THEN NoFault ELSE Fault("db")) /\ MaybeExec(work[j].doc, row)
       \/ ~pool /\ UNCHANGED docs /\ NoFault
    /\ EndWork(j)
    /\ UNCHANGED ocrResults /\ Untouched /\ SameProcess

\* worker.fail runs on a fresh context.
MarkJobFailed(j) ==
    /\ work[j].pc = "fail"
    /\ LET row == MarkOCRFailed(docs[work[j].doc]) IN
       \/ pool /\ Exec(work[j].doc, row) /\ NoFault
       \/ pool /\ Fault("db") /\ MaybeExec(work[j].doc, row)
       \/ ~pool /\ UNCHANGED docs /\ NoFault
    /\ EndWork(j)
    /\ UNCHANGED ocrResults /\ Untouched /\ SameProcess

\* A signal: the listener closes, then the pool; jobs go on, without a store,
\* until the process ends.
Stop ==
    /\ pool
    /\ Fault("loss")
    /\ pool' = FALSE
    /\ UNCHANGED <<docs, ocrResults, work, engine>> /\ Untouched

\* The service ends, by itself or after Stop, and starts again.
Restart ==
    /\ \/ \E j \in JobSlots : work[j].pc # "free"
       \/ ~pool
    /\ Fault("loss")
    /\ work' = [j \in JobSlots |-> NoWork]
    /\ engine' \in Engines
    /\ pool' = TRUE
    /\ UNCHANGED <<docs, ocrResults>> /\ Untouched

\* Meanwhile the orchestrator fails or claims the document.
Orchestrator(d) ==
    /\ \/ docs[d].status = "processing" /\ Exec(d, MarkFailed(docs[d], "processing", "ocr_dispatch"))
       \/ Claimable(docs[d]) /\ Exec(d, ClaimForExtraction(docs[d]))
    /\ UNCHANGED <<ocrResults, faults, work>> /\ Untouched /\ SameProcess

WorkStep(j) ==
    \/ StartPage(j) \/ StopLoop(j) \/ Collect(j) \/ MarkDone(j) \/ MarkJobFailed(j)
    \/ \E p \in PageNums :
         \/ FetchPage(j, p) \/ AskModel(j, p) \/ BackOff(j, p) \/ AskAgain(j, p)
         \/ WritePage(j, p) \/ RecordError(j, p)

WorkerNext ==
    \/ \E j \in JobSlots : WorkStep(j) \/ Expire(j) \/ \E d \in Docs : HandleJob(j, d)
    \/ Stop \/ Restart
    \/ \E d \in Docs : Orchestrator(d)

WorkerSpec == WorkerInit /\ [][WorkerNext]_workerVars

\* The goroutines of a job run on, and every call of theirs has a deadline.
WorkerFairSpec == WorkerSpec /\ \A j \in JobSlots : WF_workerVars(WorkStep(j))

(***************************************************************************)
(* Properties.                                                             *)
(***************************************************************************)

\* Tables and goroutines have their types.
WorkerTypeOK ==
    StoreTypeOK /\ work \in [JobSlots -> Work] /\ engine \in Engines /\ pool \in BOOLEAN

\* Once process has decided, no goroutine of the job can still write a result
\* or report an error, and the flip to ocr_done finds every page written
\* (wg.Wait and the ctx.Err check after it).
VerdictIsFinal ==
    \A j \in JobSlots :
        /\ work[j].pc \in {"flip", "fail", "free"} => Alive(j) = {}
        /\ work[j].pc = "flip" => ocrResults[work[j].doc] = PageNums

\* A job that fails its document names what went wrong first: an error of a
\* page or the job's deadline, never the cancellation that the error itself
\* caused in the other pages, and never a store (errStore leaves the document
\* to the janitor).
RootCause ==
    \A j \in JobSlots :
        /\ work[j].firstErr # "canceled"
        /\ work[j].firstErr = "deadline" => work[j].expired
        /\ work[j].pc = "fail" =>
             /\ work[j].firstErr # "store"
             /\ work[j].firstErr = "none" => work[j].expired

\* No job hangs, whichever goroutine fails while the loop waits for a slot.
JobsEnd == \A j \in JobSlots : work[j].pc # "free" ~> work[j].pc = "free"

\* The coarse job: still at its pages until process has decided.
CoarseJob(w) ==
    [pc   |-> CASE w.pc = "free" -> "free" [] w.pc = "fail" -> "fail"
                [] w.pc \in {"loop", "wait", "flip"} -> "pages",
     doc  |-> w.doc,
     todo |-> IF w.pc \in {"free", "fail"} THEN {} ELSE PageNums \ w.written]

Coarse == INSTANCE OcrService WITH jobs <- [j \in JobSlots |-> CoarseJob(work[j])]

\* The goroutines implement the job that OcrService offers to the pipeline.
ImplementsOcrService == Coarse!OcrSpec
==============================================================================
