# TLA+ verification of tax-deeds

tax-deeds turns scanned property deeds (*matrículas*) into structured data: a PDF
is uploaded, rendered into page images, read by an OCR service, and structured by
an LLM into an aggregate that a read API serves. Three kinds of process share one
Postgres database and one bucket, and each of them may die, be slow, or run twice.
This directory holds TLA+ modules of that system, the TLC configurations that
check them, and TLAPS proofs. Paths below are relative to the repository root
(`src/`).

## 1. Inventory

| Part | State | Operations | Talks to |
|---|---|---|---|
| Document store (`internal/store/documents.go`, `ocr.go`) | tables `documents`, `pages`, `ocr_results` | guarded status updates, claim, requeue, fail, list of stuck rows | everybody, by SQL |
| Ingest (`internal/services/ingest`) | one goroutine per upload; a `WaitGroup` | `CreateAndProcess`, `Process`, `Redispatch`, `Shutdown` | store, bucket, pdftoppm, OCR client |
| OCR client (`internal/clients/ocr`) | none | one POST, tried 3 times | OCR service |
| OCR service (`cmd/ocr`) | jobs in goroutines, in memory only | `handleJob`, `process`, one flip of `documents.status` | engine, store (own role) |
| OCR engines (`internal/ocrengine`) | none | one page: download if needed, a call, a backoff, a second call | bucket, OCR model |
| Poller and janitor (`internal/services/extraction/poller.go`) | one goroutine per API replica, a list of stuck rows during a tick | claim loop, `FailExhausted`, janitor | store, ingest, extraction |
| Extraction (`extraction.go`, `normalize.go`, `clients/llm`) | none | read OCR text, ask the model, one repair round, normalise, save, flip | LLM, store |
| Aggregate (`internal/store/matriculas.go`) | `extractions`, `matriculas` and four child tables | `SaveAggregate` in a transaction; reads without one | store |
| HTTP API (`internal/handlers`, `routes`, `services/matriculas`) | none | upload, status, OCR texts, matrícula by document, three views by matrícula id | ingest, store |
| API process (`cmd/api`) | listener, pool, bucket client, signal context | start, drain, wait, close | all of the above |
| Config, logger, middleware, migrations, gcs, LLM client construction | - | - | - |

The parts interact through the row of the document: `status` says who may act
next, every change of it is `UPDATE ... WHERE id = $1 AND status = $2`, and a caller
whose update matched nothing has lost a race. There are no locks between processes
besides that, and `FOR UPDATE SKIP LOCKED` in the claim.

**What is hard.** An OCR job can be lost, duplicated, or accepted without the caller
learning of it; a janitor in every replica re-runs ingest, re-sends jobs and requeues
extractions while the original may still be running; it works from a list read
earlier; an update that returned an error may have been committed; goroutines die at any
point; an extraction that was taken back still finishes; two transactions replace
the same aggregate; the API reads row, texts and aggregate in separate statements; a
shutdown takes contexts, pool and bucket client away from work that is under way.
`PROJECT.json` lists every such hazard at its line with the properties aimed at it.

**What correctness means, part by part.**

- Store: statuses follow the life cycle; the attempt count is bounded; the recorded failure stage is true.
- Ingest and dispatch: nothing is dispatched that is not completely stored; duplicates do no harm.
- OCR service: `ocr_done` means every page has text; no work after the verdict; the verdict names the first cause; no job hangs.
- Poller: no attempt is handed out twice; every document that has started comes to an end.
- Aggregate: one whole aggregate or none; `extracted` implies it is there; a reader sees all of it.
- LLM answers: what is accepted can be stored; the cost is bounded; only lasting failures are final; the arithmetic is right.
- HTTP API: answers given one after the other never contradict each other or the document.
- API process: it ends; a drain in time loses no accepted upload of which the database took the claim; a shutdown is never a document's failure.

## 2. Modules

```
Store <- OcrService <- Ingest <- Poller <- Pipeline <- PipelineInv <- MCPipeline
  ^                                           |            ^
  |                                           |            +- PipelineTypeProofs <- PipelineSafetyProofs
  |                                           |                                         ^
  |                                           |                        PipelineRefinementProofs
  |                                           +- INSTANCE DocumentLifecycle <- ReadApi <- ReadApiProofs
  +- OcrWorker  (INSTANCE OcrService) <- OcrWorkerProofs
Aggregate (INSTANCE AtomicSave) <- AggregateProofs        Values <- Answer <- AnswerProofs
Shutdown <- ShutdownProofs
```

(`A <- B`: B extends A.)

| Module | Models | How state and actions correspond |
|---|---|---|
| `Store` | `documents.go`, `cmd/ocr/store.go`, tables, bucket, faults | One operator per SQL statement, from old row to new row; a `WHERE` that does not match returns the row. `Exec` is a statement that succeeds, `MaybeExec` one that returns an error and may have been applied. `row.stale` is `updated_at < now() - STUCK_TIMEOUT`, `row.backoff` is `next_extraction_at > now()`. |
| `OcrService` | a job as others see it | `jobs[j]`: the pages still to do; `Accept` = `handleJob`, `RecognizePage`, `PageFails`, `UpsertFails` (`errStore`), `FlipDone`, `FlipFailed`, `LoseJobs` (restart). |
| `Ingest` | `ingest.go`, `clients/ocr`, `pdfconvert` as an outcome | `ing[x]`: a goroutine running `Process` (named by the document that was uploaded, or by the replica whose janitor runs it). One action per call that leaves the process, each with its error path. |
| `Poller` | `poller.go`, `extraction.go` | `poll[r]`: where the tick of replica r stands, the claimed document and the janitor's list. |
| `Pipeline` | the system | Composition, `Crash`, and time: `Age` (a row becomes stale), `BackoffElapses`. Its safety and liveness properties. |
| `DocumentLifecycle` | abstract specification | What a client may rely on: statuses, stage, attempts, whole text, an aggregate. No workers and no faults. |
| `PipelineInv` | - | The inductive invariant. |
| `OcrWorker` | `cmd/ocr/worker.go`, `main.go`, `internal/ocrengine` | The goroutines of a job: the loop with its semaphore, page goroutines with download, two calls of the model and the backoff between them, first error and the cancellation it causes, deadline, `wg.Wait`, verdict; the stop and the restart of the process. Implements `OcrService`. |
| `Aggregate` | `store/matriculas.go`, `services/matriculas` | Each statement of `SaveAggregate` under READ COMMITTED, with the waits for other transactions' rows and keys; the read API query by query. |
| `AtomicSave` | abstract specification | What `extraction.go` takes `SaveAggregate` for: one step that replaces the whole aggregate, or an error that may hide that it has; around it, where `ExtractDocument` stands (`at`). No transaction and no statement. |
| `Values` | check digits and cleaning in `normalize.go`, `retryBackoff` | Pure operators: CPF and CNPJ digits, `normalizeDoc`, and an `int64` of nanoseconds that wraps at 2^64 (kept in units of 2^10 ns, in two limbs, as TLC has 32-bit integers). |
| `Answer` | `langchain.go`, `normalize.go`, the constraints of migration 00004 | The content of an answer as spellings of its closed vocabularies, through decode, repair round, normalisation and persistence, over the attempts. |
| `ReadApi` | `handlers`, `services/matriculas`, `Get`/`OCRResults` of ingest | Requests with their first and second read, over `DocumentLifecycle`, whose steps happen in between. `told` is what the answers so far have told a client. |
| `Shutdown` | `cmd/api/main.go`, `ingest.Shutdown` | The main goroutine (select, drain, wait, deferred calls in their order), upload handlers, ingest goroutines and poller with the statements that hold a connection, the signal context and the 15 s deadline. Any statement may fail by itself (`Breaks`), applied or not; `broken[d]` is a history of those of the goroutine of upload d. |

How the modules fit together: `Pipeline` implements `DocumentLifecycle` (checked and
proved), and `ReadApi` takes the life cycle in place of the pipeline, so what it shows of
clients holds with the pipeline underneath. `OcrWorker` implements the `OcrService` that the
pipeline runs (checked and proved). `Aggregate` and `Answer` are the inside of single steps of `Poller`
(`SaveAggregate`, and `CallLLM` with the reasons for a failing save) in a world of one
document. `Aggregate` implements `AtomicSave` (checked and proved), whose `SaveAggregate` has the outcomes
that the one of `Poller` has; that `Poller` in turn implements `AtomicSave` is not stated. `Answer` and
`Shutdown`, which is the inside of `Crash` for one process, are checked on their own. Definitions in which one guard or assignment is missing
(`ClaimableIgnoringCap`, `FlipBeforeAllPages`, ...) belong to no specification: each is a
plausible bug, and `PROJECT.json` names the property that catches it.

## 3. Runs

| Run | Checks | Instance | States |
|---|---|---|---|
| `pipeline_faults` | `TypeOK`, `OCRDoneComplete`, `DispatchedIsIngested`, `FailedStageHonest`, `ExtractedHasAggregate`, `Inductive`, `ImplementsLifecycle` | 1 document, 1 replica, 2 job slots, 2 pages, 2 attempts, 2 POSTs, all fault kinds, unlimited | 253,378 |
| `pipeline_fair` | `ClaimsAreExclusive`, `FailureNeedsFault`, `Settles` | 1 document, 2 replicas, 1 job slot, 1 page, 2 attempts, 1 fault of any kind, everything may be slow | 468,993 |
| `ocr_worker` | `VerdictIsFinal`, `RootCause`, `JobsEnd`, `ImplementsOcrService` | 3 pages, 2 at a time, an engine that downloads (glm) and one that does not (stub), unlimited faults | 77,264 |
| `shutdown` | `DrainLosesNothing`, `NoAddDuringWait`, `NoVerdictByShutdown`, `ShutdownEnds` | 1 upload, 1 document left by an earlier process, unlimited database errors | 202,274 |
| `read_api` | `OcrAnswerIsWhole`, `KnownIsFound`, `ServedStaysServed`, `IdsAreStable`, `AnswersOnlyAdvance` | 1 client, 1 document, 3 pages, 3 attempts | 28,338 |
| `aggregate` | `StoredIsWhole`, `ExtractedIsReadable`, `SavesAreAtomic`, `SavesEnd` | 3 overlapping extractions, 1 reader | 142,212 |
| `answer` | `AcceptedCanBeStored`, `CostIsBounded`, `ActiveIsNotCancelled`, `CPFsAreRight`, `CNPJsAreRight`, `DocsAreKept`, `BackoffIsInRange` | all answers, 2 attempts; 36 CPF and 66 CNPJ stems with all endings, about 800 texts, 29 attempts of backoff | 642,188 |

Each of these runs also checks the type invariant of its module.

What they show:

- `pipeline_faults`: whatever fails, is lost, is sent twice or is taken over by the
  janitor, the tables agree with each other and with the workers, and every step is
  a step of the document life cycle.
- `pipeline_fair`: with two replicas whose pollers and janitors race, every document
  ends in `extracted` or `failed`; an attempt is never handed out twice; and nothing
  that no fault has touched fails before its attempts are used up, duplicates
  of ingests and jobs included. One upload may stay behind: see `upload_lost`.
- `ocr_worker`: nothing of a job runs on after its verdict, the verdict names the first
  cause and not the cancellation that it set off, every job ends.
- `shutdown`: the process exits even if handlers, conversions or the LLM hang; no
  document is recorded as failed because its context or its pool went away. When the drain
  ends in time, an upload answered with 202 has been dispatched or has failed, with two exceptions,
  both errors of the database and neither of the shutdown: `UpdateStatus` (`ingest.go:97`)
  failed, and the row is still `uploaded`, where `MarkFailed`, guarded on `processing`, does
  not reach it and the janitor does not look; or `MarkFailed` failed, and the row is in `processing`, where
  the janitor finds it. `DrainLosesNothing` names both through `broken`.
- `read_api`: reading row and texts, or row and aggregate, in two statements is harmless
  in the order the code has them; what a client has been told is never taken back; and
  a matrícula id, which every `SaveAggregate` changes, stays good unless a second claim was made.
- `aggregate`: overlapping saves leave one whole aggregate, `extracted` never reads as missing,
  each save is for its caller the one step of `AtomicSave`, and
  no two transactions wait for each other for ever.
- `answer`: as the names say; the four last are the arithmetic that `Normalize` and
  `ReturnForRetry` apply when an answer reaches them. `DocsAreKept`: no digit of a document
  number is lost, a number that has digits gets a verdict, one without letters comes out
  digit-only, and a second pass changes nothing. Of letters it says nothing, see below.

Five runs disagree with something the repository says; each ends in a counterexample:

- `upload_lost`: a replica dies between inserting the row and claiming it. The janitor
  lists `processing` and `extracting` only, so the document stays `uploaded`, although
  `Shutdown` says that the janitor recovers anything unfinished. A crash is not
  needed: with `Faults = {"db"}` the same run ends in a claim that the database fails, after
  which `MarkFailed` matches nothing.
- `double_processing`: replica A reads its list of stuck rows with a document in it; B
  requeues that document first and claims it again; A's late requeue
  makes it claimable, and a second replica starts on it while B is at work.
  `docs/ARCHITECTURE.md` promises no double-processing. `ClaimsAreExclusive` is what
  does hold: they work under different attempt numbers.
- `torn_read`: a reader finds the aggregate's row, a late extraction replaces it, and
  the reader's remaining queries come back empty: 200 with parts missing.
- `partial_ocr`: `/ocr` answers 200 with the pages read so far, where the comment of its
  handler promises 409 `not_ready` until OCR has finished. `OcrAnswerIsWhole` is what
  does hold: the answer is whole when the status in it is past OCR.
- `onus_spelling`: `"Ativo"` passes `validateEnums` because "normalization lowercases
  these fields", but `Normalize` leaves an onus status as it is, and the CHECK refuses it.

Met on the way and not the subject of a run: there is no cap on re-dispatching a lost
job (`docs/ARCHITECTURE.md:236`, `docs/plans/00-overview.md:50`); a deadline that passes during
`UpsertPage` leaves the document in `processing` (`docs/ocr-contract.md:77`); an answer in
code fences is accepted but its raw text is no `jsonb`; from attempt 30 on the backoff
overflows to a negative duration, or to 0 (`BackoffIsInRange` therefore stops at 29; the default of
`MAX_EXTRACTION_ATTEMPTS` is 3); two timeouts of the model on one page are worded as a
timeout of the job (`cmd/ocr/worker.go:77`).

Two more places where the repository disagrees with itself. The modules follow the code, and no
property takes either side:

- Malformed output after the repair round: `langchain.go:91` has "Malformed output twice: worth a
  document-level retry later" and returns a transient error, so the document goes back to `ocr_done` (`Reject`
  in `Answer`). `docs/plans/00-overview.md:52` has "Terminal (4xx, schema-invalid output after 1
  in-call retry) -> `failed`".
- Letters in CPF and CNPJ: `normalizeDoc` keeps them ("2026+ CNPJs may be alphanumeric",
  `normalize.go:78`), so they are stored (`Cleaned` in `Values`). `normalize.go:13` has "digit-only CPF/CNPJ",
  `store/matriculas.go:36` "documents digit-only", and the column `cpf_cnpj` "digits-only text"
  (migration `00004`, line 52).

### Bounds, and why they are enough

- `Docs`: documents meet only in the claim loop, in `FailExhausted` (one UPDATE for
  all rows), in the janitor's list, and in the fault budget; the guards never compare two rows. The
  runs have one document. For any number, the safety invariants and the refinement are
  proved (section 4); `ExhaustAll` of the life cycle is there because several documents fail in one statement.
- `Replicas = 2`: the races are between two pollers or janitors. A third replica
  adds another competitor for the same guarded update. `pipeline_faults` has one, whose
  janitor and uploads already overlap with jobs and each other; the proofs have any number.
- `JobSlots = 2`: an original job and a duplicate. With no free slot the OCR service
  simply has not taken the request yet.
- `NumPages = 2` (3 in `OcrWorker` and `ReadApi`): a first, a last, and one in the middle; one more than
  `Concurrency`. `pipeline_fair` has one page: its properties are about races of whole activities.
- `MaxAttempts = 2`: an attempt with a retry left and one without. `Retries = 2` for the
  three POSTs of the code: one that is retried, one that is the last. `double_processing`
  uses 3 attempts so that a document can be claimed once more while one is extracting;
  `ReadApi` uses 3 so that an id can be replaced twice.
- `FaultLimit`: `pipeline_faults` and `ocr_worker` have no limit. `pipeline_fair` needs
  one: with faults for ever nothing can be promised.
- `Slow`: which activities may outlive STUCK_TIMEOUT without touching their row. Only
  then can the janitor duplicate work that is not dead. In `pipeline_faults` and `pipeline_fair`
  everything may be slow.
- `Savers = 3`: one transaction that holds the locks, one that waits for them, and one more behind.
- `Clients = 1`: clients share nothing but the documents, which other clients do not
  change except by uploading; the proofs have any number.
- `Stems`, `Texts` in `Values`: numbers whose digits differ in two places, so that every pair of
  weights matters; texts with a letter in each case, punctuation, good and bad numbers.
- Symmetry (documents and job slots) is only used in `pipeline_faults`, which checks no liveness.
- Deadlock is checked in every run but `shutdown`, where the process exits. A poller can
  always tick. `Answer` says with `Rest` that a finished document stays as it is.

Data is abstract: a page's text is its number, an aggregate is the claim that wrote it
and the pages its prompt contained, a matrícula id is the attempt that inserted the row, an answer
is how its closed-vocabulary fields are spelled.

### Fairness

- `Pipeline`: weak fairness of every goroutine (runners, jobs, pollers), of `Age` and of
  `BackoffElapses`: the Go scheduler runs what can run; calls to Postgres, the bucket,
  pdftoppm and the OCR model return (most have a timeout; the LLM call has none, which is an
  assumption and listed as a hazard); time passes, and the ticker of `Run` fires. No fault,
  crash or upload is ever forced, and nothing is strongly fair. `Settles`
  relies on the poller, hence on `LLMConfigured`: without an LLM `cmd/api` does not start
  the janitor either.
- `OcrWorker`: only the goroutines of a job; every call they make has a deadline.
- `Aggregate`: only the transactions, statement by statement; readers may stop.
- `Shutdown`: the main goroutine, the timer of `shutdownCtx`, and the end of a
  statement that Postgres is executing (`pool.Close` waits for those). Nothing is asked of handlers,
  conversions, dispatches or the LLM.

## 4. Proofs

All proofs are checked by tlapm without any assumption besides those the modules
name: numbers of pages, attempts and retries are positive integers, null values are no
documents or replicas, documents and replicas are disjoint, the name of an upload
handler is not that of a goroutine (`HandlersAssumption`), the fault constants have their types. They hold
for any sets of documents, replicas, job slots, savers, clients and uploads, and without a limit on
faults; two theorems say in their own hypothesis what they need of the fault constants (`FaultsShow`,
`FaultsHappen`). Every safety invariant, action property and refinement that a run checks is proved.

**The pipeline** (`PipelineTypeProofs`, `PipelineSafetyProofs`).

- `TypeCorrect`: `Spec => []TypeOK`. Each statement keeps the type of a row
  (`StatementTypes`); then runners, jobs, pollers and the environment in turn. Two facts
  are not local: a runner's page count is only used from the upload loop on
  (`TInv`, the strengthening of `TypeOK`), and the number of page rows that
  `Redispatch` counts is at most `NumPages` (`PageCounts`).
- `Agreement`: `Spec => []Inductive`. None of the properties of section 3 is inductive alone. That a flip to `ocr_done`
  finds all text is a fact about what the job did before (`JobInv`); that the job had all
  pages is a fact about the runner that sent it (`RunnerInv`), or about the page rows if
  the janitor did (`RowInv`: a dispatch stamp implies ingested); that a failed stage is true needs to know where each
  worker stands when it writes it (`PollInv`, `FailureInv`).
  The proof separates *data grows* (page rows, objects, texts and page counts are never
  taken back, so what a worker knows stays true whoever else runs) from *rows move*:
  `Move` lists the only transitions of a row, each with the fact it depends on, and
  `RowKept`, `RunnerKept`, `JobKept`, `ClaimKept`, `ListKept` show what survives any of
  them. `JobEffects`, `RunnerEffects`, `PollEffects` show that every action is such a
  transition, and `...Moves` that the actor itself keeps its invariant.
- `OCRDoneIsComplete`, `ExtractedIsBacked`, `DispatchIsAfterIngest`,
  `FailuresAreHonest`: the invariants of the runs, from `Agreement`.
- `FailuresNeedFaults`: `Spec => []FailureNeedsFault`. The danger is a duplicate: the janitor runs a
  slow ingest again, or dispatches a slow job again, and the two meet in page rows, bucket and
  texts. `BlameInv` says why neither fails the other: without a fault nobody is about to record
  a failure, and what has failed was given up by the janitor, its attempts used up (`Blameless`); a run
  always finds its PDF (`Stored`), and by `Inductive` a job its images and a poller its texts.
  It is inductive on top of `Inductive`. `FaultsShow` is needed because faults that are not counted leave the
  counter at 0: either they are limited, hence counted, or there are none.

**Claims and the refinement** (`PipelineRefinementProofs`).

- `ExclusiveClaims`: `Spec => []ClaimsAreExclusive`. By `PollInv` every claim held is at
  most the row's attempt count, and a new claim is one more than that count.
- `RefinesLifecycle`: `Spec => Lifecycle!LSpec`. Every step writes at most one row
  (`Written`), except `FailExhausted`, and `EdgeIsStep` maps each edge of the status machine to
  its abstract action. `Inductive` gives the guards: whole text at the flip to
  `ocr_done`, an aggregate at the flip to `extracted`, a claim that counts when a late
  `SaveAggregate` commits. One more invariant, `Started`, is needed: before `processing`
  a document has no page count and no runner past its claim, so no text of it can arrive in a
  status in which the life cycle has none.

**The OCR job** (`OcrWorkerProofs`). `WorkersAgree` proves `[]WorkerInv`. `WorkGood` is
stated of the record of one job, so that each step is a lemma about two records: a page
that has returned was written or left an error behind, an error of a done context comes
after what ended the context, and `wait` is only reached with every page started or the
context over. `WorkerTypes`, `VerdictsAreFinal` and `CausesAreFirst` follow.
`JobsAreImplemented` is the refinement of `OcrService`, the job
that the proofs of the pipeline use (here over documents that are already ingested and an
orchestrator that only moves their status). It assumes `FaultsHappen`: `"ocr"`, `"db"` and
`"loss"` may happen and are not counted. A page whose row was written although its upsert
failed is a fault for the goroutine and a success in the coarse job, so that a
count of faults would differ; without a limit there is no count to keep.

**What clients are told** (`ReadApiProofs`). `ApiAgreement` proves `[]ApiInv`: the life of a
document only goes one way (`Progress`); what a client was told lies behind what is
stored (`ToldInv`); a request between its two reads holds a status that lies between
the two (`UnderWay`); an answer that `Fits` keeps all of that (`AnswerOutcome`), and each
handler gives such an answer. `OcrAnswersAreWhole`, `KnownIsAlwaysFound`,
`ServedIsNeverWithdrawn`, `IdsStayGood` and the action property `ClientsSeeProgress` follow.

**The aggregate** (`AggregateProofs`). `AggregateInv` adds to the properties how far each
transaction is (`TxInv`) and `LockInv`: at most one transaction has deleted the committed
row, and the row that a transaction inserted replaces only the one that it deleted itself. That
yields `StoredIsAlwaysWhole`, `ExtractedIsAlwaysReadable`, `ReplacementsAreSerial`
(`OneReplacement`, which no run checks by itself). `SavesImplementAtomic` is the refinement of `AtomicSave`:
all statements stutter but the commit, which puts one whole aggregate in the place of whatever was
there (`RowsAreWhole`), and what a flip makes visible is there to be read.

**The shutdown** (`ShutdownProofs`). `ShutdownAgrees` proves `[]ShutdownInv`, in four parts beside the
types. `StageInv`: what is over when `run` has got so far; in particular no handler can still call
`wg.Add` once the drain of the server has ended in time. `WorkInv`: a goroutine that the shutdown cut
short gets no connection to record that with, because what cut it short, a done context or a
closed pool, is never undone. `UploadInv`: an upload with 202 has a goroutine at work or, while
there is a pool to write to, is `Settled`: handed over, failed, or left where the database
failed its claim or its `MarkFailed`. For that the claim must be the upload's own to lose:
by `PollerInv` the poller only ever holds what was claimed, and moves no row out of `uploaded`. `CountIsExact` is
the count of the wait group, by the cardinality theorems for one goroutine more or less. From
these `DrainIsComplete`, and the action properties `WaitIsAlone` and `ShutdownIsNoVerdict`.

**Answers** (`AnswerProofs`). `AnswerInv` adds what an attempt has cost so far, by where it
stands (`CostInv`), and that an answer in `save` has passed the decode (`DecodedInv`).
`CostIsAlwaysBounded`, `AcceptedIsStorable`, `ActiveHasNoCancelling` hold for every `MAX_EXTRACTION_ATTEMPTS`.

**Document numbers and the backoff** (second half of `AnswerProofs`). The operators of `Values` are recursive
functions over an index. That such a function exists, and that it obeys its recursion, is shown for
every length by induction; the induction theorems of the library have an operator as parameter, which the
provers cannot instantiate, so `Counting` states induction for a set, from the least element of a
well-founded order (`WFMin`). Then:

- `CPFIsChecked`, `CNPJIsChecked`: for *every* 11 or 14 digits the code accepts exactly the numbers
  that balance, and `CPFHasOneEnding`, `CNPJHasOneEnding`: every prefix has exactly one ending. The
  run looks at `Stems`. The key is `CNPJDigitUses`: reading the
  weights from position 13 - n of the table gives 2..9 from the right for both digits.
- `EveryTextSurvives`: what `DocsAreKept` says, for *every* text, by induction over the loop of
  `normalizeDoc` (`CleanedKeeps`, with `AppendDigits` for one turn of it, and `CleanStays`).
- `BackoffIsAlwaysInRange`: `FirstDelays` has the delays up to ten minutes; above them
  `Between` bounds the upper limb by powers of two, so that it cannot reach the sign before attempt 30.

Only model-checked: all liveness (`Settles`, `JobsEnd`, `SavesEnd`, `ShutdownEnds`), as
the prover has no rule for fairness and ENABLED.

## 5. Not modelled

- The shape of requests and accepted bodies of the OCR engines; pdftoppm, its timeout and
  page limit (an outcome of `Render`); the clients of bucket and LLM; prompt text;
  DTOs, configuration, logging, middleware, the migration tool: they keep no state
  that survives a call. What they decide is a constant (`LLMConfigured`, `Concurrency`, `Retries`)
  or an outcome.
- Dates, currency defaults, token usage, and the filters and `OwnershipChain` of the read API: pure
  functions of one value without cases that interact.
- Request parsing and ids that are no uuid (answered 500 by way of the database error),
  the health check.
- Row locks inside a single UPDATE are taken as atomic, as Postgres makes them.
- A cap on documents waiting: the number of documents is finite in the model, so that a
  drain of the claim loop that starves the janitor cannot be shown (a hazard in `PROJECT.json`).

## 6. Plan

Done: the status machine under faults with its abstract life cycle, the OCR worker with
its engines, aggregates, answers and their arithmetic, the HTTP read path, the shutdown; proofs of
the pipeline's safety and refinement, of the OCR worker with its own refinement, and of
`Aggregate`, `Answer`, `ReadApi` and `Shutdown`. Left, in this order:

1. `AtomicSave`, and `Answer`, as refinements of the extraction steps of `Poller`, whose claims carry
   attempt numbers and whose documents have a life before `ocr_done`.
2. A run without an LLM, once the documentation says what a client is then promised.
