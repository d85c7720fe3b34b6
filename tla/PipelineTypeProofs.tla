-------------------------- MODULE PipelineTypeProofs --------------------------
(***************************************************************************)
(* Type correctness of Pipeline, for every number of documents, replicas,  *)
(* pages, attempts, retries and job slots, and every number of faults.     *)
(***************************************************************************)
EXTENDS Pipeline, FiniteSetTheorems, TLAPS

(***************************************************************************)
(* The statements on a row.                                                *)
(***************************************************************************)

\* Every statement maps a row to a row; only a claim needs its guard, which
\* keeps extraction_attempts within MAX_EXTRACTION_ATTEMPTS.
LEMMA StatementTypes ==
    ASSUME NEW row \in Row
    PROVE  /\ Create(row) \in Row
           /\ \A from, to \in Status : UpdateStatus(row, from, to) \in Row
           /\ \A from \in Status, s \in Stages : MarkFailed(row, from, s) \in Row
           /\ \A n \in 0 .. NumPages : SetPageCount(row, n) \in Row
           /\ SetOCRDispatched(row) \in Row
           /\ MarkOCRDone(row) \in Row
           /\ MarkOCRFailed(row) \in Row
           /\ \A later \in BOOLEAN : ReturnForRetry(row, later) \in Row
           /\ FailExhausted(row) \in Row
           /\ Claimable(row) => ClaimForExtraction(row) \in Row
<1> USE PagesAssumption, AttemptsAssumption
<1>1. NoRow \in Row
  BY DEF NoRow, Row
<1>2. Create(row) \in Row
  BY <1>1 DEF Create, Row, Status
<1>3. \A from, to \in Status : UpdateStatus(row, from, to) \in Row
  BY DEF UpdateStatus, Row
<1>4. \A from \in Status, s \in Stages : MarkFailed(row, from, s) \in Row
  BY DEF MarkFailed, Row, Status
<1>5. \A n \in 0 .. NumPages : SetPageCount(row, n) \in Row
  BY DEF SetPageCount, Row
<1>6. SetOCRDispatched(row) \in Row
  BY DEF SetOCRDispatched, Row
<1>7. MarkOCRDone(row) \in Row
  BY DEF MarkOCRDone, Row, Status
<1>8. MarkOCRFailed(row) \in Row
  BY <1>4 DEF MarkOCRFailed, Status, Stages
<1>9. \A later \in BOOLEAN : ReturnForRetry(row, later) \in Row
  BY DEF ReturnForRetry, Row, Status
<1>10. FailExhausted(row) \in Row
  BY DEF FailExhausted, Row, Status, Stages
<1>11. Claimable(row) => ClaimForExtraction(row) \in Row
  <2> SUFFICES ASSUME Claimable(row) PROVE ClaimForExtraction(row) \in Row
    OBVIOUS
  <2>1. row.attempts + 1 \in 0 .. MaxAttempts
    BY DEF Claimable, Row
  <2> QED
    BY <2>1 DEF ClaimForExtraction, Row, Status
<1> QED
  BY <1>2, <1>3, <1>4, <1>5, <1>6, <1>7, <1>8, <1>9, <1>10, <1>11

\* A statement that writes a row leaves a table of rows, applied or not.
LEMMA TableOfRows ==
    ASSUME docs \in [Docs -> Row], NEW d, NEW row \in Row,
           Exec(d, row) \/ MaybeExec(d, row)
    PROVE  docs' \in [Docs -> Row]
  BY DEF Exec, MaybeExec

\* Counting the faults keeps the counter a number.
LEMMA FaultCounter ==
    ASSUME faults \in Nat, NEW k, Fault(k) \/ NoFault
    PROVE  faults' \in Nat
  BY DEF Fault, NoFault

(***************************************************************************)
(* Type correctness.  TypeOK is not inductive: that a runner's counters    *)
(* stay in range depends on where it stands.                               *)
(***************************************************************************)
BeforePages == {"upload", "create", "claim", "check", "render"}

RunnerRange(x) ==
    /\ ing[x].pc # "idle" => ing[x].doc \in Docs
    /\ ing[x].pc \in BeforePages => ing[x].n = 0
    /\ ing[x].pc = "pages" => ing[x].n < NumPages
    /\ ing[x].pc # "fail_dispatch" => ing[x].try < Retries

JobRange(j) == jobs[j].pc # "free" => jobs[j].doc \in Docs

PollRange(r) == poll[r].pc \in Extracting => poll[r].doc \in Docs /\ poll[r].claim \in Claims

Ranges ==
    /\ \A x \in Runners : RunnerRange(x)
    /\ \A j \in JobSlots : JobRange(j)
    /\ \A r \in Replicas : PollRange(r)

TInv == TypeOK /\ Ranges

\* The initial states have their types.
LEMMA InitTypes == Init => TInv
<1> SUFFICES ASSUME Init PROVE TInv
  OBVIOUS
<1> USE PagesAssumption, AttemptsAssumption, RetriesAssumption
<1>1. NoRow \in Row
  BY DEF NoRow, Row
<1>2. StoreTypeOK
  BY <1>1 DEF Init, StoreInit, StoreTypeOK
<1>3. OcrTypeOK /\ \A j \in JobSlots : JobRange(j)
  BY DEF Init, OcrInit, OcrTypeOK, FreeJob, Job, JobRange
<1>4. IngestTypeOK /\ \A x \in Runners : RunnerRange(x)
  BY DEF Init, IngestInit, IngestTypeOK, IdleRunner, Runner, RunnerRange, IngestPC, BeforePages
<1>5. PollTypeOK /\ \A r \in Replicas : PollRange(r)
  BY DEF Init, PollInit, PollTypeOK, IdlePoll, PollState, PollPC, PollRange, Extracting
<1> QED
  BY <1>2, <1>3, <1>4, <1>5 DEF TInv, TypeOK, Ranges

\* A step of the OCR service.
LEMMA JobTypes ==
    ASSUME TInv, NEW j \in JobSlots, JobStep(j), UNCHANGED <<ing, poll>>
    PROVE  TInv'
<1> USE PagesAssumption
<1>1. /\ StoreTypeOK /\ OcrTypeOK /\ IngestTypeOK /\ PollTypeOK
      /\ \A x \in Runners : RunnerRange(x)
      /\ \A r \in Replicas : PollRange(r)
      /\ \A i \in JobSlots : JobRange(i)
  BY DEF TInv, TypeOK, Ranges
<1>2. IngestTypeOK' /\ PollTypeOK' /\ (\A x \in Runners : RunnerRange(x)') /\ (\A r \in Replicas : PollRange(r)')
  BY <1>1 DEF IngestTypeOK, PollTypeOK, RunnerRange, PollRange
<1>3. ASSUME NEW p \in PageNums, RecognizePage(j, p)
      PROVE  StoreTypeOK' /\ OcrTypeOK' /\ \A i \in JobSlots : JobRange(i)'
  <2>1. StoreTypeOK'
    BY <1>1, <1>3 DEF RecognizePage, StoreTypeOK
  <2>2. OcrTypeOK' /\ \A i \in JobSlots : JobRange(i)'
    BY <1>1, <1>3 DEF RecognizePage, OcrTypeOK, Job, JobRange
  <2> QED
    BY <2>1, <2>2
<1>4. ASSUME NEW p \in PageNums, UpsertFails(j, p)
      PROVE  StoreTypeOK' /\ OcrTypeOK' /\ \A i \in JobSlots : JobRange(i)'
  <2>1. faults' \in Nat
    BY <1>1, <1>4, FaultCounter DEF UpsertFails, StoreTypeOK
  <2>2. StoreTypeOK'
    BY <1>1, <1>4, <2>1 DEF UpsertFails, StoreTypeOK
  <2>3. OcrTypeOK' /\ \A i \in JobSlots : JobRange(i)'
    BY <1>1, <1>4 DEF UpsertFails, EndJob, FreeJob, OcrTypeOK, Job, JobRange
  <2> QED
    BY <2>2, <2>3
<1>5. ASSUME PageFails(j)
      PROVE  StoreTypeOK' /\ OcrTypeOK' /\ \A i \in JobSlots : JobRange(i)'
  <2>1. faults' \in Nat
    BY <1>1, <1>5, FaultCounter DEF PageFails, StoreTypeOK
  <2>2. StoreTypeOK'
    BY <1>1, <1>5, <2>1 DEF PageFails, StoreTypeOK
  <2>3. OcrTypeOK' /\ \A i \in JobSlots : JobRange(i)'
    BY <1>1, <1>5 DEF PageFails, OcrTypeOK, Job, JobRange
  <2> QED
    BY <2>2, <2>3
<1>6. ASSUME FlipDone(j) \/ FlipFailed(j)
      PROVE  StoreTypeOK' /\ OcrTypeOK' /\ \A i \in JobSlots : JobRange(i)'
  <2>1. faults' \in Nat
    BY <1>1, <1>6, FaultCounter DEF FlipDone, FlipFailed, StoreTypeOK
  <2>2. jobs[j].doc \in Docs /\ docs[jobs[j].doc] \in Row
    BY <1>1, <1>6 DEF FlipDone, FlipFailed, JobRange, StoreTypeOK
  <2>3. MarkOCRDone(docs[jobs[j].doc]) \in Row /\ MarkOCRFailed(docs[jobs[j].doc]) \in Row
    BY <2>2, StatementTypes
  <2>4. docs' \in [Docs -> Row]
    BY <1>1, <1>6, <2>3, TableOfRows DEF FlipDone, FlipFailed, StoreTypeOK
  <2>5. StoreTypeOK'
    BY <1>1, <1>6, <2>1, <2>4 DEF FlipDone, FlipFailed, StoreTypeOK
  <2>6. OcrTypeOK' /\ \A i \in JobSlots : JobRange(i)'
    BY <1>1, <1>6 DEF FlipDone, FlipFailed, EndJob, FreeJob, OcrTypeOK, Job, JobRange
  <2> QED
    BY <2>5, <2>6
<1>7. StoreTypeOK' /\ OcrTypeOK' /\ \A i \in JobSlots : JobRange(i)'
  BY <1>3, <1>4, <1>5, <1>6 DEF JobStep
<1> QED
  BY <1>2, <1>7 DEF TInv, TypeOK, Ranges

\* The number of recorded pages is a possible length of the object list.
LEMMA PageCounts ==
    ASSUME NEW S \in SUBSET PageNums
    PROVE  Cardinality(S) \in 0 .. NumPages
<1> USE PagesAssumption
<1>1. IsFiniteSet(PageNums) /\ Cardinality(PageNums) = NumPages
  BY FS_Interval DEF PageNums
<1>2. IsFiniteSet(S) /\ Cardinality(S) <= NumPages
  BY <1>1, FS_Subset
<1>3. Cardinality(S) \in Nat
  BY <1>2, FS_CardinalityType
<1> QED
  BY <1>2, <1>3

\* A runner that has a document executes its statements on a row.
LEMMA RunnerRow ==
    ASSUME TInv, NEW x \in Runners, ing[x].pc # "idle"
    PROVE  /\ ing[x].doc \in Docs
           /\ docs[ing[x].doc] \in Row
           /\ ing[x] \in Runner
  BY DEF TInv, TypeOK, Ranges, RunnerRange, StoreTypeOK, IngestTypeOK

\* Tables and bucket after a step of a runner.
LEMMA RunnerStoreTypes ==
    ASSUME TInv, NEW x \in Runners, RunnerStep(x)
    PROVE  StoreTypeOK'
<1> USE PagesAssumption
<1>1. StoreTypeOK /\ IngestTypeOK
  BY DEF TInv, TypeOK
<1>2. ing[x].pc # "idle" /\ x \in Runners
  BY DEF RunnerStep, StorePDF, CreateRow, ClaimIngest, CheckStatus, Render, UploadPage, AddPages,
         CountPages, PostAccepted, PostUnanswered, PostRefused, Stamp, RecordFailure, LoadPages
<1>3. /\ ing[x].doc \in Docs
      /\ docs[ing[x].doc] \in Row
      /\ ing[x].n \in 0 .. NumPages
  BY <1>2, RunnerRow DEF Runner
<1>4. CASE StorePDF(x)
  <2>1. faults' \in Nat
    BY <1>1, <1>4, FaultCounter DEF StorePDF, StoreTypeOK
  <2>2. PDF \in Objects
    BY DEF Objects
  <2> QED
    BY <1>1, <1>3, <1>4, <2>1, <2>2 DEF StorePDF, StoreTypeOK
<1>5. CASE CreateRow(x) \/ ClaimIngest(x) \/ CountPages(x) \/ Stamp(x) \/ RecordFailure(x)
  <2> DEFINE d == ing[x].doc
  <2>1. faults' \in Nat
    BY <1>1, <1>5, FaultCounter DEF CreateRow, ClaimIngest, CountPages, Stamp, RecordFailure, StoreTypeOK
  <2>2. /\ Create(docs[d]) \in Row
        /\ UpdateStatus(docs[d], "uploaded", "processing") \in Row
        /\ SetPageCount(docs[d], ing[x].n) \in Row
        /\ SetOCRDispatched(docs[d]) \in Row
        /\ MarkFailed(docs[d], "processing", "ingest") \in Row
        /\ MarkFailed(docs[d], "processing", "ocr_dispatch") \in Row
    BY <1>3, StatementTypes DEF Status, Stages
  <2>3. docs' \in [Docs -> Row]
    <3>1. CASE CreateRow(x)
      BY <1>1, <2>2, <3>1, TableOfRows DEF CreateRow, StoreTypeOK
    <3>2. CASE ClaimIngest(x)
      BY <1>1, <2>2, <3>2, TableOfRows DEF ClaimIngest, StoreTypeOK
    <3>3. CASE CountPages(x)
      BY <1>1, <2>2, <3>3, TableOfRows DEF CountPages, StoreTypeOK
    <3>4. CASE Stamp(x)
      BY <1>1, <2>2, <3>4, TableOfRows DEF Stamp, StoreTypeOK
    <3>5. CASE RecordFailure(x)
      BY <1>1, <2>2, <3>5, TableOfRows DEF RecordFailure, StoreTypeOK
    <3> QED
      BY <1>5, <3>1, <3>2, <3>3, <3>4, <3>5
  <2> QED
    BY <1>1, <1>5, <2>1, <2>3 DEF CreateRow, ClaimIngest, CountPages, Stamp, RecordFailure, StoreTypeOK
<1>6. CASE CheckStatus(x) \/ Render(x) \/ PostRefused(x) \/ LoadPages(x)
           \/ \E j \in JobSlots : PostAccepted(x, j) \/ PostUnanswered(x, j)
  <2>1. faults' \in Nat
    BY <1>1, <1>6, FaultCounter
    DEF CheckStatus, Render, PostRefused, LoadPages, PostAccepted, PostUnanswered, StoreTypeOK, storeVars, NoFault
  <2> QED
    BY <1>1, <1>6, <2>1
    DEF CheckStatus, Render, PostRefused, LoadPages, PostAccepted, PostUnanswered, StoreTypeOK, storeVars
<1>7. CASE UploadPage(x)
  <2>1. faults' \in Nat
    BY <1>1, <1>7, FaultCounter DEF UploadPage, StoreTypeOK
  <2>2. ing[x].n < NumPages
    BY <1>7 DEF UploadPage, TInv, Ranges, RunnerRange
  <2>3. ing[x].n + 1 \in Objects
    BY <1>3, <2>2 DEF Objects, PageNums
  <2> QED
    BY <1>1, <1>3, <1>7, <2>1, <2>3 DEF UploadPage, StoreTypeOK
<1>8. CASE AddPages(x)
  <2>1. faults' \in Nat
    BY <1>1, <1>8, FaultCounter DEF AddPages, StoreTypeOK
  <2>2. 1 .. ing[x].n \subseteq PageNums
    BY <1>3 DEF PageNums
  <2> QED
    BY <1>1, <1>3, <1>8, <2>1, <2>2 DEF AddPages, StoreTypeOK
<1> QED
  BY <1>4, <1>5, <1>6, <1>7, <1>8 DEF RunnerStep

\* Position and counters of the runners after a step of one of them.
LEMMA RunnerRanges ==
    ASSUME TInv, NEW x \in Runners, RunnerStep(x)
    PROVE  IngestTypeOK' /\ \A y \in Runners : RunnerRange(y)'
<1> USE PagesAssumption, RetriesAssumption
<1> DEFINE OK(w) == /\ w \in Runner
                    /\ w.pc # "idle" => w.doc \in Docs
                    /\ w.pc \in BeforePages => w.n = 0
                    /\ w.pc = "pages" => w.n < NumPages
                    /\ w.pc # "fail_dispatch" => w.try < Retries
<1>1. IngestTypeOK /\ \A y \in Runners : OK(ing[y])
  BY DEF TInv, TypeOK, Ranges, RunnerRange, IngestTypeOK
<1>2. SUFFICES \E w : OK(w) /\ ing' = [ing EXCEPT ![x] = w]
  BY <1>1 DEF IngestTypeOK, RunnerRange
<1>3. OK(IdleRunner)
  BY DEF IdleRunner, Runner, IngestPC, BeforePages
<1> DEFINE At(pc) == [ing[x] EXCEPT !.pc = pc]
<1>4. \A pc \in IngestPC :
        /\ ing[x].pc # "idle"
        /\ pc \in BeforePages => ing[x].pc \in BeforePages
        /\ pc = "pages" => ing[x].pc \in BeforePages
        /\ ing[x].pc # "fail_dispatch"
        => OK(At(pc))
  BY <1>1 DEF Runner, IngestPC, BeforePages
<1>5. OK(At("fail_ingest")) \/ ing[x].pc \in {"idle", "fail_dispatch"}
  BY <1>4 DEF IngestPC, BeforePages
<1>6. CASE StorePDF(x) \/ CreateRow(x) \/ ClaimIngest(x) \/ CheckStatus(x) \/ Render(x)
  <2>1. ing[x].pc \in BeforePages
    BY <1>6 DEF StorePDF, CreateRow, ClaimIngest, CheckStatus, Render, BeforePages
  <2>2. \A pc \in {"create", "claim", "check", "render", "pages", "fail_ingest"} : OK(At(pc))
    BY <1>4, <2>1 DEF IngestPC, BeforePages
  <2>3. \/ \E pc \in {"create", "claim", "check", "render", "pages", "fail_ingest"} : Goto(x, pc)
        \/ EndRunner(x)
    BY <1>6 DEF StorePDF, CreateRow, ClaimIngest, CheckStatus, Render
  <2> QED
    BY <1>3, <2>2, <2>3 DEF Goto, EndRunner
<1>7. CASE UploadPage(x)
  <2>1. ing[x].n \in 0 .. NumPages /\ ing[x].n < NumPages /\ ing[x].pc = "pages"
    BY <1>1, <1>7 DEF UploadPage, Runner
  <2>2. CASE Goto(x, "fail_ingest")
    BY <1>5, <2>1, <2>2 DEF Goto
  <2>3. CASE ing' = [ing EXCEPT ![x].n = ing[x].n + 1,
                                ![x].pc = IF ing[x].n + 1 = NumPages THEN "record" ELSE "pages"]
    <3> DEFINE w == [ing[x] EXCEPT !.n = ing[x].n + 1,
                                   !.pc = IF ing[x].n + 1 = NumPages THEN "record" ELSE "pages"]
    <3>1. ing[x].n + 1 \in 0 .. NumPages /\ (ing[x].n + 1 # NumPages => ing[x].n + 1 < NumPages)
      BY <2>1
    <3>2. \A n \in 0 .. NumPages, pc \in {"record", "pages"} :
            (pc = "pages" => n < NumPages) => OK([ing[x] EXCEPT !.n = n, !.pc = pc])
      BY <1>1, <2>1 DEF Runner, IngestPC, BeforePages
    <3>3. OK(w)
      BY <3>1, <3>2
    <3>4. ing' = [ing EXCEPT ![x] = w]
      BY <2>3, <1>1 DEF IngestTypeOK
    <3> QED
      BY <3>3, <3>4
  <2> QED
    BY <1>7, <2>2, <2>3 DEF UploadPage
<1>8. CASE AddPages(x) \/ CountPages(x) \/ Stamp(x) \/ RecordFailure(x)
  <2>1. \/ EndRunner(x)
        \/ /\ ing[x].pc \in {"record", "count", "stamp"}
           /\ \E pc \in {"count", "post", "fail_ingest"} : Goto(x, pc)
    BY <1>8 DEF AddPages, CountPages, Stamp, RecordFailure
  <2>2. ing[x].pc \in {"record", "count", "stamp"} =>
          \A pc \in {"count", "post", "fail_ingest"} : OK(At(pc))
    BY <1>4 DEF IngestPC, BeforePages
  <2> QED
    BY <1>3, <2>1, <2>2 DEF Goto, EndRunner
<1>9. CASE \E j \in JobSlots : PostAccepted(x, j)
  <2>1. ing[x].pc = "post" /\ Goto(x, "stamp")
    BY <1>9 DEF PostAccepted
  <2>2. OK(At("stamp"))
    BY <1>4, <2>1 DEF IngestPC, BeforePages
  <2> QED
    BY <2>1, <2>2 DEF Goto
<1>10. CASE PostRefused(x) \/ \E j \in JobSlots : PostUnanswered(x, j)
  <2>1. ing[x].pc = "post" /\ PostFailed(x)
    BY <1>10 DEF PostRefused, PostUnanswered
  <2>2. ing[x].try \in 0 .. Retries /\ ing[x].try < Retries
    BY <1>1, <2>1 DEF Runner
  <2> DEFINE w == [ing[x] EXCEPT !.try = ing[x].try + 1,
                     !.pc = IF ing[x].try + 1 = Retries THEN "fail_dispatch" ELSE "post"]
  <2>3. ing[x].try + 1 \in 0 .. Retries /\ (ing[x].try + 1 # Retries => ing[x].try + 1 < Retries)
    BY <2>2
  <2>4. \A t \in 0 .. Retries, pc \in {"fail_dispatch", "post"} :
          (pc = "post" => t < Retries) => OK([ing[x] EXCEPT !.try = t, !.pc = pc])
    BY <1>1, <2>1 DEF Runner, IngestPC, BeforePages
  <2>5. OK(w)
    BY <2>3, <2>4
  <2>6. ing' = [ing EXCEPT ![x] = w]
    BY <2>1, <1>1 DEF PostFailed, IngestTypeOK
  <2> QED
    BY <2>5, <2>6
<1>11. CASE LoadPages(x)
  <2>1. ing[x].pc = "reload" /\ ing[x].doc \in Docs
    BY <1>1, <1>11 DEF LoadPages
  <2>2. Cardinality(pages[ing[x].doc]) \in 0 .. NumPages
    BY <2>1, PageCounts DEF TInv, TypeOK, StoreTypeOK
  <2> DEFINE w == [ing[x] EXCEPT !.pc = "post", !.n = Cardinality(pages[ing[x].doc])]
  <2>3. OK(w)
    BY <1>1, <2>1, <2>2 DEF Runner, IngestPC, BeforePages
  <2>4. ing' = [ing EXCEPT ![x] = w] \/ EndRunner(x)
    BY <1>1, <1>11 DEF LoadPages, IngestTypeOK
  <2> QED
    BY <1>3, <2>3, <2>4 DEF EndRunner
<1> QED
  BY <1>6, <1>7, <1>8, <1>9, <1>10, <1>11 DEF RunnerStep

\* The jobs after a step of a runner: only a POST touches them.
LEMMA RunnerJobTypes ==
    ASSUME TInv, NEW x \in Runners, RunnerStep(x)
    PROVE  OcrTypeOK' /\ \A j \in JobSlots : JobRange(j)'
<1> USE PagesAssumption
<1>1. OcrTypeOK /\ \A j \in JobSlots : JobRange(j)
  BY DEF TInv, TypeOK, Ranges
<1>2. CASE UNCHANGED jobs
  BY <1>1, <1>2 DEF OcrTypeOK, JobRange
<1>3. ASSUME NEW i \in JobSlots, PostAccepted(x, i) \/ PostUnanswered(x, i)
      PROVE  OcrTypeOK' /\ \A j \in JobSlots : JobRange(j)'
  <2>1. ing[x].pc # "idle" /\ Accept(i, ing[x].doc, ing[x].n)
    BY <1>3 DEF PostAccepted, PostUnanswered
  <2>2. ing[x].doc \in Docs /\ ing[x].n \in 0 .. NumPages
    BY <2>1, RunnerRow DEF Runner
  <2>3. 1 .. ing[x].n \in SUBSET PageNums
    BY <2>2 DEF PageNums
  <2> QED
    BY <1>1, <2>1, <2>2, <2>3 DEF Accept, OcrTypeOK, Job, JobRange
<1>4. UNCHANGED jobs \/ \E i \in JobSlots : PostAccepted(x, i) \/ PostUnanswered(x, i)
  BY DEF RunnerStep, StorePDF, CreateRow, ClaimIngest, CheckStatus, Render, UploadPage, AddPages,
         CountPages, PostRefused, Stamp, RecordFailure, LoadPages
<1> QED
  BY <1>2, <1>3, <1>4

\* Runners keep the types.
LEMMA RunnerTypes ==
    ASSUME TInv, NEW x \in Runners, RunnerStep(x), UNCHANGED poll
    PROVE  TInv'
<1>1. PollTypeOK' /\ \A r \in Replicas : PollRange(r)'
  BY DEF TInv, TypeOK, Ranges, PollTypeOK, PollRange
<1> QED
  BY <1>1, RunnerStoreTypes, RunnerRanges, RunnerJobTypes DEF TInv, TypeOK, Ranges

\* Starting a runner, for an upload or from the janitor.
LEMMA StartRanges ==
    ASSUME TInv, NEW x \in Runners, NEW d \in Docs, NEW r \in Replicas,
           NEW pc \in {"upload", "claim", "reload"},
           Start(x, d, r, pc, FALSE) \/ Start(x, d, r, pc, TRUE)
    PROVE  IngestTypeOK' /\ \A y \in Runners : RunnerRange(y)'
<1> USE PagesAssumption, RetriesAssumption
<1>1. IngestTypeOK /\ \A y \in Runners : RunnerRange(y)
  BY DEF TInv, TypeOK, Ranges
<1>2. PICK w \in {[IdleRunner EXCEPT !.pc = pc, !.doc = d, !.on = r, !.again = FALSE],
                   [IdleRunner EXCEPT !.pc = pc, !.doc = d, !.on = r, !.again = TRUE]} :
        ing' = [ing EXCEPT ![x] = w]
  BY DEF Start
<1>3. w \in Runner /\ w.pc = pc /\ w.doc = d /\ w.n = 0 /\ w.try = 0
  <2>1. IdleRunner \in Runner /\ IdleRunner.n = 0 /\ IdleRunner.try = 0
    BY DEF IdleRunner, Runner, IngestPC
  <2>2. pc \in IngestPC
    BY DEF IngestPC
  <2>3. CASE w = [IdleRunner EXCEPT !.pc = pc, !.doc = d, !.on = r, !.again = FALSE]
    BY <2>1, <2>2, <2>3 DEF Runner
  <2>4. CASE w = [IdleRunner EXCEPT !.pc = pc, !.doc = d, !.on = r, !.again = TRUE]
    BY <2>1, <2>2, <2>4 DEF Runner
  <2> QED
    BY <1>2, <2>3, <2>4
<1> QED
  BY <1>1, <1>2, <1>3 DEF IngestTypeOK, RunnerRange

\* Uploads keep the types.
LEMMA UploadTypes ==
    ASSUME TInv, NEW d \in Docs, NEW r \in Replicas, Upload(d, r), UNCHANGED poll
    PROVE  TInv'
<1>1. IngestTypeOK' /\ \A y \in Runners : RunnerRange(y)'
  <2>1. d \in Runners /\ Start(d, d, r, "upload", FALSE)
    BY DEF Upload, Runners
  <2> QED
    BY <2>1, StartRanges
<1>2. StoreTypeOK' /\ OcrTypeOK' /\ PollTypeOK'
  BY DEF Upload, storeVars, TInv, TypeOK, StoreTypeOK, OcrTypeOK, PollTypeOK
<1>3. (\A j \in JobSlots : JobRange(j)') /\ \A s \in Replicas : PollRange(s)'
  BY DEF Upload, TInv, Ranges, JobRange, PollRange
<1> QED
  BY <1>1, <1>2, <1>3 DEF TInv, TypeOK, Ranges

\* Tables after a step of a poller.
LEMMA PollStoreTypes ==
    ASSUME TInv, NEW r \in Replicas, PollStep(r)
    PROVE  StoreTypeOK'
<1>1. /\ StoreTypeOK
      /\ poll[r] \in PollState
      /\ poll[r].pc \in Extracting => poll[r].doc \in Docs /\ poll[r].claim \in Claims
  BY DEF TInv, TypeOK, Ranges, PollRange, PollTypeOK
<1>2. CASE Tick(r) \/ NothingToClaim(r) \/ ReadOCR(r) \/ CallLLM(r) \/ Scan(r) \/ EndTick(r)
  <2>1. faults' \in Nat
    BY <1>1, <1>2, FaultCounter
    DEF Tick, NothingToClaim, ReadOCR, CallLLM, Scan, EndTick, StoreTypeOK, storeVars, NoFault
  <2> QED
    BY <1>1, <1>2, <2>1 DEF Tick, NothingToClaim, ReadOCR, CallLLM, Scan, EndTick, StoreTypeOK, storeVars
<1>3. CASE Claim(r)
  <2>1. faults' \in Nat
    BY <1>1, <1>3, FaultCounter DEF Claim, StoreTypeOK
  <2>2. PICK d \in Docs : Claimable(docs[d]) /\ (\/ Exec(d, ClaimForExtraction(docs[d]))
                                                \/ MaybeExec(d, ClaimForExtraction(docs[d])))
    BY <1>3 DEF Claim
  <2>3. docs[d] \in Row
    BY <1>1 DEF StoreTypeOK
  <2>4. docs' \in [Docs -> Row]
    BY <1>1, <2>2, <2>3, StatementTypes, TableOfRows DEF StoreTypeOK
  <2> QED
    BY <1>1, <1>3, <2>1, <2>4 DEF Claim, StoreTypeOK
<1>4. CASE SaveAggregate(r)
  <2>1. faults' \in Nat
    BY <1>1, <1>4, FaultCounter DEF SaveAggregate, StoreTypeOK
  <2>2. poll[r].doc \in Docs /\ poll[r].claim \in Claims /\ poll[r].text \in SUBSET PageNums
    BY <1>1, <1>4 DEF SaveAggregate, Extracting, PollState
  <2>3. [claim |-> poll[r].claim, text |-> poll[r].text] \in Aggregates
    BY <2>2 DEF Aggregates
  <2> QED
    BY <1>1, <1>4, <2>1, <2>2, <2>3 DEF SaveAggregate, StoreTypeOK
<1>5. CASE FlipExtracted(r) \/ Requeue(r) \/ GiveUp(r)
  <2>1. faults' \in Nat
    BY <1>1, <1>5, FaultCounter DEF FlipExtracted, Requeue, GiveUp, StoreTypeOK
  <2>2. docs[poll[r].doc] \in Row
    BY <1>1, <1>5 DEF FlipExtracted, Requeue, GiveUp, Extracting, StoreTypeOK
  <2>3. /\ UpdateStatus(docs[poll[r].doc], "extracting", "extracted") \in Row
        /\ ReturnForRetry(docs[poll[r].doc], TRUE) \in Row
        /\ MarkFailed(docs[poll[r].doc], "extracting", "extraction") \in Row
    BY <2>2, StatementTypes DEF Status, Stages
  <2>4. docs' \in [Docs -> Row]
    BY <1>1, <1>5, <2>3, TableOfRows DEF FlipExtracted, Requeue, GiveUp, StoreTypeOK
  <2> QED
    BY <1>1, <1>5, <2>1, <2>4 DEF FlipExtracted, Requeue, GiveUp, StoreTypeOK
<1>6. CASE Exhaust(r)
  <2>1. faults' \in Nat
    BY <1>1, <1>6, FaultCounter DEF Exhaust, StoreTypeOK
  <2>2. \A d \in Docs : FailExhausted(docs[d]) \in Row
    BY <1>1, StatementTypes DEF StoreTypeOK
  <2>3. docs' \in [Docs -> Row]
    BY <1>1, <1>6, <2>2 DEF Exhaust, StoreTypeOK
  <2> QED
    BY <1>1, <1>6, <2>1, <2>3 DEF Exhaust, StoreTypeOK
<1>7. CASE Repair(r)
  <2>1. faults' \in Nat
    BY <1>1, <1>7, FaultCounter DEF Repair, StoreTypeOK
  <2>2. \A d \in Docs : ReturnForRetry(docs[d], FALSE) \in Row
    BY <1>1, StatementTypes DEF StoreTypeOK
  <2>3. \A item \in poll[r].list : item.doc \in Docs
    BY <1>1 DEF PollState
  <2>4. docs' \in [Docs -> Row]
    BY <1>1, <1>7, <2>2, <2>3, TableOfRows DEF Repair, StoreTypeOK
  <2> QED
    BY <1>1, <1>7, <2>1, <2>4 DEF Repair, StoreTypeOK
<1> QED
  BY <1>2, <1>3, <1>4, <1>5, <1>6, <1>7 DEF PollStep

\* The pollers after a step of one of them.
LEMMA PollRanges ==
    ASSUME TInv, NEW r \in Replicas, PollStep(r)
    PROVE  PollTypeOK' /\ \A s \in Replicas : PollRange(s)'
<1> USE AttemptsAssumption
<1> DEFINE OK(w) == /\ w \in PollState
                    /\ w.pc \in Extracting => w.doc \in Docs /\ w.claim \in Claims
<1>1. StoreTypeOK /\ PollTypeOK /\ \A s \in Replicas : OK(poll[s])
  BY DEF TInv, TypeOK, Ranges, PollRange, PollTypeOK
<1>2. SUFFICES \E w : OK(w) /\ poll' = [poll EXCEPT ![r] = w]
  BY <1>1 DEF PollTypeOK, PollRange
<1> DEFINE At(pc) == [poll[r] EXCEPT !.pc = pc]
<1>3. \A pc \in PollPC : (pc \in Extracting => poll[r].pc \in Extracting) => OK(At(pc))
  BY <1>1 DEF PollState, Extracting
<1>4. CASE Tick(r) \/ NothingToClaim(r) \/ CallLLM(r) \/ SaveAggregate(r) \/ Exhaust(r) \/ EndTick(r)
  <2>1. \E pc \in PollPC : (pc \in Extracting => poll[r].pc \in Extracting) /\ PollGoto(r, pc)
    BY <1>4 DEF Tick, NothingToClaim, CallLLM, SaveAggregate, Exhaust, EndTick, PollPC, Extracting
  <2> QED
    BY <1>3, <2>1 DEF PollGoto
<1>5. CASE Claim(r)
  <2>1. PICK d \in Docs : /\ Claimable(docs[d])
                          /\ \/ poll' = [poll EXCEPT ![r].pc = "read", ![r].doc = d,
                                            ![r].claim = ClaimForExtraction(docs[d]).attempts]
                             \/ PollGoto(r, "exhaust")
    BY <1>5 DEF Claim
  <2>2. OK(At("exhaust"))
    BY <1>3 DEF PollPC, Extracting
  <2>3. docs[d].attempts \in 0 .. MaxAttempts /\ docs[d].attempts < MaxAttempts
    BY <1>1, <2>1 DEF StoreTypeOK, Row, Claimable
  <2>4. ClaimForExtraction(docs[d]).attempts = docs[d].attempts + 1
    BY <1>1 DEF ClaimForExtraction, StoreTypeOK, Row
  <2>5. ClaimForExtraction(docs[d]).attempts \in Claims
    BY <2>3, <2>4 DEF Claims
  <2> DEFINE w == [poll[r] EXCEPT !.pc = "read", !.doc = d, !.claim = ClaimForExtraction(docs[d]).attempts]
  <2>6. OK(w)
    <3>1. ASSUME NEW k \in Claims PROVE OK([poll[r] EXCEPT !.pc = "read", !.doc = d, !.claim = k])
      <4>1. k \in 0 .. MaxAttempts
        BY DEF Claims
      <4>2. poll[r] \in PollState /\ "read" \in PollPC
        BY <1>1 DEF PollPC
      <4> QED
        BY <4>1, <4>2 DEF PollState
    <3> QED
      BY <2>5, <3>1
  <2>7. poll' = [poll EXCEPT ![r] = w] \/ poll' = [poll EXCEPT ![r] = At("exhaust")]
    BY <1>1, <2>1 DEF PollGoto, PollTypeOK
  <2> QED
    BY <2>2, <2>6, <2>7
<1>6. CASE ReadOCR(r)
  <2>1. poll[r].pc = "read"
    BY <1>6 DEF ReadOCR
  <2>2. poll[r].doc \in Docs /\ poll[r].claim \in Claims
    BY <1>1, <2>1 DEF Extracting
  <2>3. ocrResults[poll[r].doc] \in SUBSET PageNums
    BY <1>1, <2>2 DEF StoreTypeOK
  <2> DEFINE w == [poll[r] EXCEPT !.pc = IF ocrResults[poll[r].doc] = {} THEN "giveup" ELSE "llm",
                                  !.text = ocrResults[poll[r].doc]]
  <2>4. OK(w)
    BY <1>1, <2>2, <2>3 DEF PollState, PollPC
  <2>5. OK(At("requeue"))
    BY <1>3, <2>1 DEF PollPC, Extracting
  <2>6. poll' = [poll EXCEPT ![r] = w] \/ poll' = [poll EXCEPT ![r] = At("requeue")]
    BY <1>1, <1>6 DEF ReadOCR, PollGoto, PollTypeOK
  <2> QED
    BY <2>4, <2>5, <2>6
<1>7. CASE FlipExtracted(r) \/ Requeue(r) \/ GiveUp(r)
  <2> DEFINE w == [IdlePoll EXCEPT !.pc = "claim"]
  <2>1. w = [pc |-> "claim", doc |-> NoDoc, claim |-> 0, text |-> {}, list |-> {}]
    BY DEF IdlePoll
  <2>2. OK(w)
    BY <2>1 DEF PollState, PollPC, Extracting
  <2>3. poll[r].pc \in Extracting => OK(At("requeue"))
    BY <1>3 DEF PollPC, Extracting
  <2> QED
    BY <1>7, <2>2, <2>3 DEF FlipExtracted, Requeue, GiveUp, NextClaim, PollGoto, Extracting
<1>8. CASE Scan(r)
  <2> DEFINE L == {[doc |-> d, repair |-> RepairOf(docs[d])] : d \in {e \in Docs : StuckDocument(docs[e])}}
  <2>1. L \in SUBSET [doc : Docs, repair : Repairs]
    <3>1. \A d \in Docs : RepairOf(docs[d]) \in Repairs
      BY <1>1 DEF RepairOf, Repairs, StoreTypeOK, Row
    <3> QED
      BY <3>1
  <2> DEFINE w == [poll[r] EXCEPT !.pc = "janitor", !.list = L]
  <2>2. OK(w)
    <3> HIDE DEF L
    <3> QED
      BY <1>1, <2>1 DEF PollState, PollPC, Extracting
  <2>3. OK(At("idle"))
    BY <1>3 DEF PollPC, Extracting
  <2>4. poll' = [poll EXCEPT ![r] = w] \/ poll' = [poll EXCEPT ![r] = At("idle")]
    <3>1. \/ poll' = [poll EXCEPT ![r].pc = "janitor", ![r].list = L]
          \/ PollGoto(r, "idle")
      BY <1>8 DEF Scan
    <3> HIDE DEF L
    <3> QED
      BY <1>1, <3>1 DEF PollGoto, PollTypeOK
  <2> QED
    BY <2>2, <2>3, <2>4
<1>9. CASE Repair(r)
  <2>1. PICK item \in poll[r].list : poll' = [poll EXCEPT ![r].list = @ \ {item}]
    BY <1>9 DEF Repair
  <2> DEFINE w == [poll[r] EXCEPT !.list = @ \ {item}]
  <2>2. OK(w)
    BY <1>1 DEF PollState
  <2>3. poll' = [poll EXCEPT ![r] = w]
    BY <1>1, <2>1 DEF PollTypeOK
  <2> QED
    BY <2>2, <2>3
<1> QED
  BY <1>4, <1>5, <1>6, <1>7, <1>8, <1>9 DEF PollStep

\* Pollers and janitors keep the types.
LEMMA PollTypes ==
    ASSUME TInv, NEW r \in Replicas, PollStep(r)
    PROVE  TInv'
<1>1. IngestTypeOK' /\ \A y \in Runners : RunnerRange(y)'
  <2>1. CASE UNCHANGED ing
    BY <2>1 DEF TInv, TypeOK, Ranges, IngestTypeOK, RunnerRange
  <2>2. CASE Repair(r)
    <3>1. \A item \in poll[r].list : item.doc \in Docs
      BY DEF TInv, TypeOK, PollTypeOK, PollState
    <3>2. r \in Runners
      BY DEF Runners
    <3>3. \/ \E item \in poll[r].list : Start(r, item.doc, r, "claim", FALSE)
          \/ \E item \in poll[r].list : Start(r, item.doc, r, "reload", TRUE)
          \/ UNCHANGED ing
      BY <2>2 DEF Repair
    <3> QED
      BY <2>1, <3>1, <3>2, <3>3, StartRanges
  <2> QED
    BY <2>1, <2>2 DEF PollStep, Tick, Claim, NothingToClaim, ReadOCR, CallLLM, SaveAggregate,
         FlipExtracted, Requeue, GiveUp, Exhaust, Scan, EndTick
<1>2. UNCHANGED jobs
  BY DEF PollStep, Tick, Claim, NothingToClaim, ReadOCR, CallLLM, SaveAggregate, FlipExtracted,
         Requeue, GiveUp, Exhaust, Scan, Repair, EndTick
<1>3. OcrTypeOK' /\ \A j \in JobSlots : JobRange(j)'
  BY <1>2 DEF TInv, TypeOK, Ranges, OcrTypeOK, JobRange
<1> QED
  BY <1>1, <1>3, PollStoreTypes, PollRanges DEF TInv, TypeOK, Ranges

\* Crashes, lost jobs and the passing of time.
LEMMA EnvironmentTypes ==
    ASSUME TInv,
           \/ LoseJobs /\ UNCHANGED <<ing, poll>>
           \/ \E r \in Replicas : Crash(r)
           \/ \E d \in Docs : Age(d) \/ BackoffElapses(d)
    PROVE  TInv'
<1> USE PagesAssumption, AttemptsAssumption, RetriesAssumption
<1>1. StoreTypeOK /\ OcrTypeOK /\ IngestTypeOK /\ PollTypeOK /\ Ranges
  BY DEF TInv, TypeOK
<1>2. CASE LoseJobs /\ UNCHANGED <<ing, poll>>
  <2>1. faults' \in Nat
    BY <1>1, <1>2, FaultCounter DEF LoseJobs, StoreTypeOK
  <2>2. StoreTypeOK'
    BY <1>1, <1>2, <2>1 DEF LoseJobs, StoreTypeOK
  <2>3. OcrTypeOK' /\ \A j \in JobSlots : JobRange(j)'
    BY <1>2 DEF LoseJobs, FreeJob, OcrTypeOK, Job, JobRange
  <2> QED
    BY <1>1, <1>2, <2>2, <2>3 DEF TInv, TypeOK, Ranges, IngestTypeOK, PollTypeOK, RunnerRange, PollRange
<1>3. ASSUME NEW r \in Replicas, Crash(r) PROVE TInv'
  <2>1. faults' \in Nat
    BY <1>1, <1>3, FaultCounter DEF Crash, StoreTypeOK
  <2>2. StoreTypeOK'
    BY <1>1, <1>3, <2>1 DEF Crash, StoreTypeOK
  <2>3. IdleRunner \in Runner
    BY DEF IdleRunner, Runner, IngestPC
  <2>4. IngestTypeOK' /\ \A y \in Runners : RunnerRange(y)'
    BY <1>1, <1>3, <2>3 DEF Crash, IngestTypeOK, Ranges, RunnerRange, IdleRunner, BeforePages
  <2>5. IdlePoll \in PollState
    BY DEF IdlePoll, PollState, PollPC
  <2>6. PollTypeOK' /\ \A s \in Replicas : PollRange(s)'
    BY <1>1, <1>3, <2>5 DEF Crash, PollTypeOK, Ranges, PollRange, IdlePoll, Extracting
  <2>7. OcrTypeOK' /\ \A j \in JobSlots : JobRange(j)'
    BY <1>1, <1>3 DEF Crash, OcrTypeOK, Ranges, JobRange
  <2> QED
    BY <2>2, <2>4, <2>6, <2>7 DEF TInv, TypeOK, Ranges
<1>4. ASSUME NEW d \in Docs, Age(d) \/ BackoffElapses(d) PROVE TInv'
  <2>1. docs' \in [Docs -> Row]
    <3>1. docs[d] \in Row
      BY <1>1 DEF StoreTypeOK
    <3>2. [docs[d] EXCEPT !.stale = TRUE] \in Row /\ [docs[d] EXCEPT !.backoff = FALSE] \in Row
      BY <3>1 DEF Row
    <3>3. \/ docs' = [docs EXCEPT ![d] = [docs[d] EXCEPT !.stale = TRUE]]
          \/ docs' = [docs EXCEPT ![d] = [docs[d] EXCEPT !.backoff = FALSE]]
      BY <1>1, <1>4 DEF Age, BackoffElapses, StoreTypeOK
    <3> QED
      BY <1>1, <3>2, <3>3 DEF StoreTypeOK
  <2>2. StoreTypeOK'
    BY <1>1, <1>4, <2>1 DEF Age, BackoffElapses, StoreTypeOK
  <2> QED
    BY <1>1, <1>4, <2>2 DEF Age, BackoffElapses, TInv, TypeOK, Ranges, OcrTypeOK, IngestTypeOK,
         PollTypeOK, JobRange, RunnerRange, PollRange
<1> QED
  BY <1>2, <1>3, <1>4

\* Every step keeps the types.
LEMMA StepTypes == TInv /\ [Next]_vars => TInv'
<1> SUFFICES ASSUME TInv, [Next]_vars PROVE TInv'
  OBVIOUS
<1>1. CASE UNCHANGED vars
  BY <1>1 DEF vars, storeVars, TInv, TypeOK, StoreTypeOK, OcrTypeOK, IngestTypeOK, PollTypeOK,
       Ranges, RunnerRange, JobRange, PollRange
<1>2. CASE Next
  BY <1>2, UploadTypes, RunnerTypes, JobTypes, PollTypes, EnvironmentTypes DEF Next
<1> QED
  BY <1>1, <1>2

\* All tables, jobs, runners and pollers keep their types; in particular no
\* document is claimed for extraction more than MAX_EXTRACTION_ATTEMPTS times.
THEOREM TypeCorrect == Spec => []TypeOK
<1>1. TInv => TypeOK
  BY DEF TInv
<1> QED
  BY <1>1, InitTypes, StepTypes, PTL DEF Spec
==============================================================================
