------------------------------- MODULE Pipeline -------------------------------
(***************************************************************************)
(* The whole pipeline: the API replicas with their ingest goroutines and   *)
(* pollers, the OCR service, and the tables and bucket they share.         *)
(***************************************************************************)
EXTENDS Poller

CONSTANT Slow   \* activities that may outlive STUCK_TIMEOUT without touching the row

ASSUME SlowAssumption == Slow \subseteq {"ingest", "ocr", "extract"}

vars == <<storeVars, jobs, ing, poll>>

(***************************************************************************)
(* The environment: crashes and the passing of time.                       *)
(***************************************************************************)

\* Replica r stops and is started again: its goroutines are gone.
Crash(r) ==
    /\ poll[r].pc # "idle" \/ \E x \in Runners : ing[x].on = r
    /\ Fault("crash")
    /\ ing' = [x \in Runners |-> IF ing[x].on = r THEN IdleRunner ELSE ing[x]]
    /\ poll' = [poll EXCEPT ![r] = IdlePoll]
    /\ UNCHANGED <<docs, pages, ocrResults, extractions, matriculas, bucket, jobs>>

Extracting == {"read", "llm", "save", "flip", "requeue", "giveup"}

\* Who is still at work on document d.
BusyWith(d) ==
    {k \in {"ingest", "ocr", "extract"} :
       CASE k = "ingest"  -> \E x \in Runners : ing[x].doc = d
         [] k = "ocr"     -> \E j \in JobSlots : jobs[j].doc = d
         [] k = "extract" -> \E r \in Replicas : poll[r].doc = d /\ poll[r].pc \in Extracting}

\* STUCK_TIMEOUT passes without an update of the row.
Age(d) ==
    /\ docs[d].status \in {"processing", "extracting"}
    /\ ~docs[d].stale
    /\ BusyWith(d) \subseteq Slow
    /\ docs' = [docs EXCEPT ![d].stale = TRUE]
    /\ UNCHANGED <<pages, ocrResults, extractions, matriculas, bucket, faults, jobs, ing, poll>>

\* next_extraction_at is reached.
BackoffElapses(d) ==
    /\ docs[d].backoff
    /\ docs' = [docs EXCEPT ![d].backoff = FALSE]
    /\ UNCHANGED <<pages, ocrResults, extractions, matriculas, bucket, faults, jobs, ing, poll>>

Init == StoreInit /\ OcrInit /\ IngestInit /\ PollInit

Next ==
    \/ \E d \in Docs, r \in Replicas : Upload(d, r) /\ UNCHANGED poll
    \/ \E x \in Runners : RunnerStep(x) /\ UNCHANGED poll
    \/ \E j \in JobSlots : JobStep(j) /\ UNCHANGED <<ing, poll>>
    \/ LoseJobs /\ UNCHANGED <<ing, poll>>
    \/ \E r \in Replicas : PollStep(r) \/ Crash(r)
    \/ \E d \in Docs : Age(d) \/ BackoffElapses(d)

Spec == Init /\ [][Next]_vars

\* Every goroutine that can take a step takes one sooner or later (the Go
\* scheduler, and the timeouts on every request it waits for), and time passes.
\* No fault, no crash and no upload is ever owed.
Fairness ==
    /\ \A x \in Runners : WF_vars(RunnerStep(x) /\ UNCHANGED poll)
    /\ \A j \in JobSlots : WF_vars(JobStep(j) /\ UNCHANGED <<ing, poll>>)
    /\ \A r \in Replicas : WF_vars(PollStep(r))
    /\ \A d \in Docs : WF_vars(Age(d)) /\ WF_vars(BackoffElapses(d))

FairSpec == Spec /\ Fairness

(***************************************************************************)
(* Properties.                                                             *)
(***************************************************************************)

\* Every table row, job, runner and poller has its type; in particular no
\* document is ever claimed more than MaxAttempts times.
TypeOK == StoreTypeOK /\ OcrTypeOK /\ IngestTypeOK /\ PollTypeOK

PastOCR == {"ocr_done", "extracting", "extracted"}

\* A document that has left "processing" towards the LLM has the text of every
\* page, its page rows and its page count, whatever jobs were lost, repeated,
\* or started by two replicas (worker.process flips only after recognizeAll).
OCRDoneComplete ==
    \A d \in Docs : docs[d].status \in PastOCR =>
        /\ ocrResults[d] = PageNums
        /\ pages[d] = PageNums
        /\ docs[d].pageCount = NumPages

\* "extracted" means there is an aggregate to read, produced by a claim of this
\* document from the text of all its pages, with its raw answer kept.
ExtractedHasAggregate ==
    \A d \in Docs : docs[d].status = "extracted" =>
        /\ matriculas[d].claim \in 1 .. docs[d].attempts
        /\ matriculas[d].claim \in extractions[d]
        /\ matriculas[d].text = PageNums

\* A job in the OCR service, or a dispatch stamp on a row, is only ever there
\* when all page images are in the bucket and all page rows are recorded: a
\* re-dispatch by the janitor never sends a partial document.
DispatchedIsIngested ==
    \A d \in Docs :
        docs[d].dispatched \/ (\E j \in JobSlots : jobs[j].pc # "free" /\ jobs[j].doc = d) =>
            /\ pages[d] = PageNums
            /\ Objects \subseteq bucket[d]

\* failed_stage tells the truth about how far the document got: a document
\* that failed in extraction has its whole text and used an attempt; one that
\* failed before was never claimed for extraction; one that failed in OCR or
\* its dispatch had been ingested.
FailedStageHonest ==
    \A d \in Docs : docs[d].status = "failed" =>
        CASE docs[d].failedStage = "extraction" ->
               docs[d].attempts > 0 /\ ocrResults[d] = PageNums
          [] docs[d].failedStage \in {"ocr", "ocr_dispatch"} ->
               docs[d].attempts = 0 /\ pages[d] = PageNums /\ docs[d].pageCount = NumPages
          [] docs[d].failedStage = "ingest" -> docs[d].attempts = 0
          [] docs[d].failedStage = "none"   -> FALSE

\* A claim is handed to one poller: two replicas never work on the same attempt
\* of a document, so they never write the same extraction twice (the claim is
\* one UPDATE with FOR UPDATE SKIP LOCKED).
ClaimsAreExclusive ==
    \A r, s \in Replicas :
        /\ r # s
        /\ poll[r].pc \in Extracting /\ poll[s].pc \in Extracting
        /\ poll[r].doc = poll[s].doc
        => poll[r].claim # poll[s].claim

\* The pipeline implements the document life cycle promised to clients.
Lifecycle == INSTANCE DocumentLifecycle WITH
    Pages     <- PageNums,
    status    <- [d \in Docs |-> docs[d].status],
    stage     <- [d \in Docs |-> docs[d].failedStage],
    attempts  <- [d \in Docs |-> docs[d].attempts],
    text      <- ocrResults,
    aggregate <- [d \in Docs |-> matriculas[d].claim]

\* Every status, stage, attempt and data change of the tables is a step of
\* DocumentLifecycle (guarded updates: documents.go, cmd/ocr/store.go).
ImplementsLifecycle == Lifecycle!LSpec

\* With finitely many faults every uploaded document ends in "extracted" or
\* "failed": whatever dies or takes longer than STUCK_TIMEOUT, the janitor of
\* some replica picks it up.  Only an upload that a fault hits before its first
\* status change may stay "uploaded".
Settles ==
    \A d \in Docs :
        docs[d].status # "absent" ~>
            \/ docs[d].status \in {"extracted", "failed"}
            \/ docs[d].status = "uploaded" /\ faults > 0

\* The janitor gave document d up: claims outlived STUCK_TIMEOUT, or failed,
\* until the attempts were used up.
GivenUp(d) ==
    docs[d].status = "failed" /\ docs[d].failedStage = "extraction" /\ docs[d].attempts = MaxAttempts

\* Without a fault no document fails before its attempts are used up: duplicate
\* ingests, dispatches and OCR jobs are harmless.
FailureNeedsFault == \A d \in Docs : docs[d].status = "failed" => GivenUp(d) \/ faults > 0

\* docs/ARCHITECTURE.md: SKIP LOCKED lets multiple API replicas run the poller
\* without double-processing.
NoDoubleProcessing ==
    \A r, s \in Replicas :
        /\ r # s
        /\ poll[r].pc \in Extracting
        /\ poll[s].pc \in Extracting
        => poll[r].doc # poll[s].doc

\* ingest.Shutdown: the janitor recovers anything unfinished on next start.
UploadedIsRecovered ==
    \A d \in Docs : docs[d].status = "uploaded" ~> docs[d].status # "uploaded"
==============================================================================
