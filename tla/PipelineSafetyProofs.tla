------------------------- MODULE PipelineSafetyProofs -------------------------
(***************************************************************************)
(* The safety invariants of Pipeline.  The proof has three layers:         *)
(*   - what a step can do to one row (Effect) and to the data behind it    *)
(*     (DataGrows), action by action;                                      *)
(*   - that rows, jobs, runners and pollers keep their part of Inductive   *)
(*     under any such effect;                                              *)
(*   - that the properties follow from Inductive.                          *)
(***************************************************************************)
EXTENDS PipelineTypeProofs, PipelineInv

(***************************************************************************)
(* What one step may do to the row of document d.                          *)
(***************************************************************************)

\* Only time stamps, the page count or the dispatch stamp change.
Quiet(d) ==
    /\ docs[d].status # "absent"
    /\ docs'[d].status = docs[d].status
    /\ docs'[d].failedStage = docs[d].failedStage
    /\ docs'[d].attempts = docs[d].attempts
    /\ docs'[d].pageCount \in {docs[d].pageCount, NumPages}
    /\ docs'[d].dispatched => docs[d].dispatched \/ Ingested(d)

\* The status moves, by one of the guarded statements.
Move(d) ==
    /\ docs[d].status # "absent"
    /\ \/ docs'[d] = UpdateStatus(docs[d], "uploaded", "processing")
       \/ docs'[d] = MarkFailed(docs[d], "processing", "ingest")
       \/ docs'[d] = MarkFailed(docs[d], "processing", "ocr_dispatch") /\ Ingested(d)
       \/ docs'[d] = MarkFailed(docs[d], "processing", "ocr") /\ Ingested(d)
       \/ docs'[d] = MarkOCRDone(docs[d]) /\ Ingested(d) /\ HasWholeText(d)
       \/ docs'[d] = ClaimForExtraction(docs[d]) /\ Claimable(docs[d])
       \/ docs'[d] = ReturnForRetry(docs[d], TRUE)
       \/ docs'[d] = ReturnForRetry(docs[d], FALSE)
       \/ docs'[d] = UpdateStatus(docs[d], "extracting", "extracted") /\ matriculas[d] # NoAggregate
       \/ docs'[d] = MarkFailed(docs[d], "extracting", "extraction")
       \/ docs'[d] = FailExhausted(docs[d])

Born(d) ==
    /\ docs[d].status = "absent"
    /\ docs'[d] = Create(docs[d])
    /\ CreateRow(d)

Effect(d) == docs'[d] = docs[d] \/ Quiet(d) \/ Move(d) \/ Born(d)

\* Recorded pages, texts, answers and objects are never taken back.
DataGrows(d) ==
    /\ pages[d] \subseteq pages'[d]
    /\ ocrResults[d] \subseteq ocrResults'[d]
    /\ extractions[d] \subseteq extractions'[d]
    /\ bucket[d] \subseteq bucket'[d]

RowGrows(d) ==
    /\ docs[d].pageCount = NumPages => docs'[d].pageCount = NumPages
    /\ docs[d].attempts <= docs'[d].attempts
    /\ docs[d].status # "absent" => docs'[d].status # "absent"
    /\ docs[d].status = "absent" => docs'[d] = docs[d] \/ CreateRow(d)

\* What a move amounts to: one edge of the status machine.
Edge(d, from, to) ==
    /\ docs[d].status = from
    /\ docs'[d].status = to
    /\ docs'[d].pageCount = docs[d].pageCount
    /\ docs'[d].dispatched = docs[d].dispatched

SameStage(d)    == docs'[d].failedStage = docs[d].failedStage
SameAttempts(d) == docs'[d].attempts = docs[d].attempts

Transition(d) ==
    \/ Edge(d, "uploaded", "processing") /\ SameStage(d) /\ SameAttempts(d)
    \/ /\ Edge(d, "processing", "failed") /\ SameAttempts(d)
       /\ \/ docs'[d].failedStage = "ingest"
          \/ docs'[d].failedStage \in {"ocr", "ocr_dispatch"} /\ Ingested(d)
    \/ /\ Edge(d, "processing", "ocr_done") /\ SameStage(d) /\ SameAttempts(d)
       /\ Ingested(d) /\ HasWholeText(d)
    \/ /\ Edge(d, "ocr_done", "extracting") /\ SameStage(d)
       /\ docs[d].attempts < MaxAttempts
       /\ docs'[d].attempts = docs[d].attempts + 1
    \/ Edge(d, "extracting", "ocr_done") /\ SameStage(d) /\ SameAttempts(d)
    \/ /\ Edge(d, "extracting", "extracted") /\ SameStage(d) /\ SameAttempts(d)
       /\ matriculas[d] # NoAggregate
    \/ /\ Edge(d, "extracting", "failed") /\ SameAttempts(d)
       /\ docs'[d].failedStage = "extraction"
    \/ /\ Edge(d, "ocr_done", "failed") /\ SameAttempts(d)
       /\ docs[d].attempts >= MaxAttempts
       /\ docs'[d].failedStage = "extraction"

\* A guarded statement moves the document along an edge, or does nothing.
LEMMA MoveIsTransition ==
    ASSUME TInv, NEW d \in Docs, Move(d)
    PROVE  docs'[d] = docs[d] \/ Transition(d)
<1>1. docs[d] \in Row
  BY DEF TInv, TypeOK, StoreTypeOK
<1> USE <1>1 DEF Edge, SameStage, SameAttempts, Row
<1>2. CASE docs'[d] = UpdateStatus(docs[d], "uploaded", "processing")
  BY <1>2 DEF Transition, UpdateStatus
<1>3. CASE docs'[d] = MarkFailed(docs[d], "processing", "ingest")
  BY <1>3 DEF Transition, MarkFailed
<1>4. CASE docs'[d] = MarkFailed(docs[d], "processing", "ocr_dispatch") /\ Ingested(d)
  BY <1>4 DEF Transition, MarkFailed
<1>5. CASE docs'[d] = MarkFailed(docs[d], "processing", "ocr") /\ Ingested(d)
  BY <1>5 DEF Transition, MarkFailed
<1>6. CASE docs'[d] = MarkOCRDone(docs[d]) /\ Ingested(d) /\ HasWholeText(d)
  BY <1>6 DEF Transition, MarkOCRDone
<1>7. CASE docs'[d] = ClaimForExtraction(docs[d]) /\ Claimable(docs[d])
  BY <1>7 DEF Transition, ClaimForExtraction, Claimable
<1>8. CASE docs'[d] = ReturnForRetry(docs[d], TRUE) \/ docs'[d] = ReturnForRetry(docs[d], FALSE)
  BY <1>8 DEF Transition, ReturnForRetry
<1>9. CASE docs'[d] = UpdateStatus(docs[d], "extracting", "extracted") /\ matriculas[d] # NoAggregate
  BY <1>9 DEF Transition, UpdateStatus
<1>10. CASE docs'[d] = MarkFailed(docs[d], "extracting", "extraction")
  BY <1>10 DEF Transition, MarkFailed
<1>11. CASE docs'[d] = FailExhausted(docs[d])
  BY <1>11 DEF Transition, FailExhausted
<1> QED
  BY <1>2, <1>3, <1>4, <1>5, <1>6, <1>7, <1>8, <1>9, <1>10, <1>11 DEF Move

\* Whatever a step does to a row, what the row records of its progress is kept.
LEMMA EffectGrows ==
    ASSUME TInv, TInv', NEW d \in Docs, RowInv(d), Effect(d)
    PROVE  RowGrows(d)
<1> USE PagesAssumption
<1>1. docs[d] \in Row /\ docs'[d] \in Row
  BY DEF TInv, TypeOK, StoreTypeOK
<1>2. CASE docs'[d] = docs[d]
  BY <1>1, <1>2 DEF RowGrows, Row
<1>3. CASE Quiet(d)
  BY <1>1, <1>3 DEF RowGrows, Row, Quiet
<1>4. CASE Move(d)
  <2>1. docs[d].attempts \in Int
    BY <1>1 DEF Row
  <2>2. CASE Transition(d)
    BY <2>1, <2>2 DEF RowGrows, Transition, Edge, SameAttempts
  <2> QED
    BY <1>2, <1>4, <2>2, MoveIsTransition
<1>5. CASE Born(d)
  <2>1. docs[d] = NoRow
    BY <1>5 DEF Born, RowInv
  <2> QED
    BY <1>5, <2>1 DEF RowGrows, Born, Create, NoRow
<1> QED
  BY <1>2, <1>3, <1>4, <1>5 DEF Effect

\* What ingest and OCR have done stays done.
LEMMA DoneStaysDone ==
    ASSUME TInv', NEW d \in Docs, DataGrows(d), RowGrows(d)
    PROVE  /\ Ingested(d) => Ingested(d)'
           /\ HasWholeText(d) => HasWholeText(d)'
<1>1. pages'[d] \subseteq PageNums /\ ocrResults'[d] \subseteq PageNums
  BY DEF TInv, TypeOK, StoreTypeOK
<1> QED
  BY <1>1 DEF DataGrows, RowGrows, Ingested, HasWholeText

(***************************************************************************)
(* Each part of Inductive under such an effect.                            *)
(***************************************************************************)
LEMMA RowKept ==
    ASSUME TInv, TInv', NEW d \in Docs, RowInv(d), FailureInv(d), Effect(d), DataGrows(d),
           \/ matriculas'[d] = matriculas[d]
           \/ /\ docs'[d] = docs[d]
              /\ docs[d].status # "absent"
              /\ GoodAggregate(d)' /\ matriculas'[d] # NoAggregate
    PROVE  RowInv(d)' /\ FailureInv(d)'
<1> USE PagesAssumption, AttemptsAssumption
<1>1. docs[d] \in Row /\ docs'[d] \in Row
  BY DEF TInv, TypeOK, StoreTypeOK
<1>2. RowGrows(d)
  BY EffectGrows
<1>3. (Ingested(d) => Ingested(d)') /\ (HasWholeText(d) => HasWholeText(d)')
  BY <1>2, DoneStaysDone
<1>4. matriculas'[d] # NoAggregate => GoodAggregate(d)'
  <2>1. CASE matriculas'[d] = matriculas[d]
    <3>1. docs[d].attempts \in Int /\ docs'[d].attempts \in Int
      BY <1>1 DEF Row
    <3> QED
      BY <1>2, <2>1, <3>1 DEF RowInv, GoodAggregate, RowGrows, DataGrows
  <2> QED
    BY <2>1
<1>5. docs[d].status = "extracted" => matriculas'[d] # NoAggregate
  BY DEF RowInv
<1>6. CASE docs'[d] = docs[d]
  BY <1>3, <1>4, <1>5, <1>6 DEF RowInv, FailureInv
<1>7. CASE Quiet(d)
  BY <1>1, <1>3, <1>4, <1>5, <1>7 DEF RowInv, FailureInv, Quiet
<1>8. CASE Born(d)
  <2>1. docs[d] = NoRow
    BY <1>8 DEF Born, RowInv
  <2>2. docs'[d].status = "uploaded" /\ docs'[d].dispatched = FALSE /\ docs'[d].attempts = 0
    BY <1>8, <2>1 DEF Born, Create, NoRow
  <2> QED
    BY <1>4, <2>2 DEF RowInv, FailureInv, PastOCR, BeforeClaim
<1>9. CASE Move(d) /\ docs'[d] # docs[d]
  <2>1. Transition(d) /\ matriculas'[d] = matriculas[d]
    BY <1>9, MoveIsTransition
  <2>2. (docs'[d].dispatched => Ingested(d)') /\ docs'[d].status # "absent"
    BY <1>3, <2>1 DEF RowInv, Transition, Edge
  <2>3. docs'[d].status \in PastOCR => Ingested(d) /\ HasWholeText(d)
    BY <2>1 DEF Transition, Edge, RowInv, PastOCR
  <2>4. docs'[d].status \in BeforeClaim => docs'[d].attempts = 0
    BY <2>1 DEF Transition, Edge, SameAttempts, RowInv, BeforeClaim
  <2>5. docs[d].attempts \in Nat
    BY <1>1 DEF Row
  <2>6. docs'[d].status = "extracting" => docs'[d].attempts > 0
    BY <2>1, <2>5 DEF Transition, Edge
  <2>7. docs'[d].status = "extracted" => matriculas[d] # NoAggregate
    BY <2>1 DEF Transition, Edge
  <2>8. FailureInv(d)'
    <3>1. /\ docs[d].status = "processing" => docs[d].attempts = 0
          /\ docs[d].status = "extracting" => docs[d].attempts > 0 /\ HasWholeText(d)
          /\ docs[d].status = "ocr_done" => HasWholeText(d)
      BY DEF RowInv, BeforeClaim, PastOCR
    <3> QED
      BY <1>3, <2>1, <2>5, <3>1 DEF Transition, Edge, SameAttempts, FailureInv
  <2> QED
    BY <1>3, <1>4, <2>1, <2>2, <2>3, <2>4, <2>6, <2>7, <2>8 DEF RowInv
<1> QED
  BY <1>6, <1>7, <1>8, <1>9 DEF Effect

\* Everything grows: the context in which the workers that do not move in a
\* step keep their invariant.
AllGrow == \A d \in Docs : RowGrows(d) /\ DataGrows(d)

\* What a runner knows survives the steps of others.
LEMMA RunnerKept ==
    ASSUME TInv, TInv', AllGrow, NEW x \in Runners, RunnerInv(x), ing'[x] = ing[x]
    PROVE  RunnerInv(x)'
<1>1. CASE ing[x].pc = "idle"
  BY <1>1 DEF RunnerInv
<1>2. CASE ing[x].pc # "idle"
  <2>1. PICK d \in Docs : d = ing[x].doc
    BY <1>2, RunnerRow
  <2>2. RowGrows(d) /\ DataGrows(d) /\ (Ingested(d) => Ingested(d)')
    BY <2>1, DoneStaysDone DEF AllGrow
  <2>3. pages'[d] \subseteq PageNums
    BY <2>1 DEF TInv, TypeOK, StoreTypeOK
  <2>4. ing[x].pc \in {"upload", "create"} => docs'[d].status = "absent"
    <3>1. ing[x].pc \in {"upload", "create"} => x = d
      BY <2>1 DEF RunnerInv
    <3>2. CreateRow(x) => ing'[x] # ing[x]
      <4>1. ing \in [Runners -> Runner]
        BY DEF TInv, TypeOK, IngestTypeOK
      <4>2. CreateRow(x) => ing[x].pc = "create" /\ (Goto(x, "claim") \/ EndRunner(x))
        BY DEF CreateRow
      <4>3. Goto(x, "claim") => ing'[x].pc = "claim"
        BY <4>1 DEF Goto, Runner
      <4>4. EndRunner(x) => ing'[x].pc = "idle"
        BY <4>1 DEF EndRunner, IdleRunner
      <4> QED
        BY <4>2, <4>3, <4>4
    <3> QED
      BY <2>1, <2>2, <3>1, <3>2 DEF RunnerInv, RowGrows
  <2>5. d = ing'[x].doc
    BY <2>1
  <2>6. ing[x].pc # "idle" /\ ing[x].pc \notin {"upload", "create"} => docs'[d].status # "absent"
    BY <2>1, <2>2 DEF RunnerInv, RowGrows
  <2>7. ing[x].pc = "count" => pages'[d] = PageNums
    BY <2>1, <2>2, <2>3 DEF RunnerInv, DataGrows
  <2> QED
    BY <2>1, <2>2, <2>4, <2>5, <2>6, <2>7 DEF RunnerInv, DataGrows
<1> QED
  BY <1>1, <1>2

\* So does what a job has done.
LEMMA JobKept ==
    ASSUME TInv, TInv', AllGrow, NEW j \in JobSlots, JobInv(j), jobs'[j] = jobs[j]
    PROVE  JobInv(j)'
<1> DEFINE d == jobs[j].doc
<1>1. CASE jobs[j].pc = "free"
  BY <1>1 DEF JobInv
<1>2. CASE jobs[j].pc # "free"
  <2>1. d \in Docs
    BY <1>2 DEF TInv, Ranges, JobRange
  <2>2. DataGrows(d) /\ (Ingested(d) => Ingested(d)')
    BY <2>1, DoneStaysDone DEF AllGrow
  <2> QED
    BY <2>2 DEF JobInv, DataGrows
<1> QED
  BY <1>1, <1>2

\* The janitor's list is only ever read once and then gets shorter.
ListInv(L) ==
    \A item \in L : /\ docs[item.doc].status # "absent"
                    /\ item.repair = "redispatch" => Ingested(item.doc)

ClaimInv(w) ==
    /\ w.pc \in Extracting => Ingested(w.doc) /\ HasWholeText(w.doc) /\ w.claim <= docs[w.doc].attempts
    /\ w.pc \in {"llm", "save", "flip"} => w.text = PageNums
    /\ w.pc = "flip" => matriculas[w.doc] # NoAggregate

\* A poller knows things about its claim and about its list.
LEMMA PollInvParts == \A r \in Replicas : PollInv(r) <=> ClaimInv(poll[r]) /\ ListInv(poll[r].list)
  BY DEF PollInv, ClaimInv, ListInv

\* A list of stuck rows stays true of what has been ingested.
LEMMA ListKept ==
    ASSUME TInv', AllGrow, NEW L \in SUBSET [doc : Docs, repair : Repairs], ListInv(L)
    PROVE  ListInv(L)'
<1> SUFFICES ASSUME NEW item \in L
             PROVE  /\ docs'[item.doc].status # "absent"
                    /\ item.repair = "redispatch" => Ingested(item.doc)'
  BY DEF ListInv
<1>1. item.doc \in Docs
  OBVIOUS
<1> QED
  BY <1>1, DoneStaysDone DEF AllGrow, ListInv, RowGrows

\* What a poller knows of its claim survives the steps of others.
LEMMA ClaimKept ==
    ASSUME TInv, TInv', AllGrow, NEW w \in PollState, w.pc \in Extracting => w.doc \in Docs,
           ClaimInv(w),
           \A d \in Docs : matriculas[d] # NoAggregate => matriculas'[d] # NoAggregate
    PROVE  ClaimInv(w)'
<1>1. CASE w.pc \notin Extracting
  BY <1>1 DEF ClaimInv, Extracting
<1>2. CASE w.pc \in Extracting
  <2>1. w.doc \in Docs
    BY <1>2
  <2>2. RowGrows(w.doc) /\ (Ingested(w.doc) => Ingested(w.doc)') /\ (HasWholeText(w.doc) => HasWholeText(w.doc)')
    BY <2>1, DoneStaysDone DEF AllGrow
  <2>3. docs[w.doc].attempts \in Int /\ docs'[w.doc].attempts \in Int /\ w.claim \in Int
    BY <2>1, AttemptsAssumption DEF TInv, TypeOK, StoreTypeOK, Row, PollState
  <2> QED
    BY <2>1, <2>2, <2>3 DEF ClaimInv, RowGrows
<1> QED
  BY <1>1, <1>2

(***************************************************************************)
(* The effect of each step.                                                *)
(***************************************************************************)

\* The step changes the row of d by one effect, if at all, and no other row.
Touches(d) ==
    /\ Effect(d)
    /\ \A e \in Docs \ {d} : docs'[e] = docs[e]

\* A step on one row leaves the others as they are.
LEMMA TouchesOne ==
    ASSUME NEW d \in Docs, Touches(d)
    PROVE  \A e \in Docs : Effect(e)
  BY DEF Touches, Effect

\* The row that a statement writes.
LEMMA WritesRow ==
    ASSUME TInv, NEW d \in Docs, NEW row, Exec(d, row) \/ MaybeExec(d, row)
    PROVE  /\ docs'[d] \in {docs[d], row}
           /\ \A e \in Docs \ {d} : docs'[e] = docs[e]
  BY DEF Exec, MaybeExec, TInv, TypeOK, StoreTypeOK

SameData == UNCHANGED <<pages, ocrResults, extractions, bucket>>

\* Unchanged data has grown.
LEMMA SameDataGrows == ASSUME SameData PROVE \A d \in Docs : DataGrows(d)
  BY DEF SameData, DataGrows

\* A job's step: its document is ingested, and complete when it flips.
LEMMA JobEffects ==
    ASSUME TInv, Inductive, NEW j \in JobSlots, JobStep(j)
    PROVE  /\ \A d \in Docs : Effect(d) /\ DataGrows(d)
           /\ UNCHANGED matriculas
<1> DEFINE d == jobs[j].doc
<1>1. JobInv(j) /\ JobRange(j)
  BY DEF Inductive, TInv, Ranges
<1>2. ASSUME NEW p \in PageNums, RecognizePage(j, p) \/ UpsertFails(j, p)
      PROVE  (\A e \in Docs : Effect(e) /\ DataGrows(e)) /\ UNCHANGED matriculas
  BY <1>2 DEF RecognizePage, UpsertFails, Effect, DataGrows, TInv, TypeOK, StoreTypeOK
<1>3. CASE PageFails(j)
  BY <1>3, SameDataGrows DEF PageFails, Effect, SameData
<1>4. CASE FlipDone(j) \/ FlipFailed(j)
  <2>1. d \in Docs /\ Ingested(d) /\ docs[d] \in Row
    BY <1>1, <1>4 DEF FlipDone, FlipFailed, JobRange, JobInv, TInv, TypeOK, StoreTypeOK
  <2>2. docs[d].status # "absent"
    BY <2>1, PagesAssumption DEF Inductive, RowInv, Ingested, NoRow
  <2>3. CASE FlipDone(j)
    <3>1. HasWholeText(d)
      <4>1. ocrResults[d] \subseteq PageNums
        BY <2>1 DEF TInv, TypeOK, StoreTypeOK
      <4> QED
        BY <1>1, <2>3, <4>1 DEF FlipDone, JobInv, HasWholeText
    <3>2. Exec(d, MarkOCRDone(docs[d])) \/ MaybeExec(d, MarkOCRDone(docs[d]))
      BY <2>3 DEF FlipDone
    <3>3. Touches(d)
      BY <2>1, <2>2, <3>1, <3>2, WritesRow DEF Touches, Effect, Move
    <3> QED
      BY <2>1, <2>3, <3>3, TouchesOne, SameDataGrows DEF FlipDone, SameData
  <2>4. CASE FlipFailed(j)
    <3>1. Exec(d, MarkOCRFailed(docs[d])) \/ MaybeExec(d, MarkOCRFailed(docs[d]))
      BY <2>4 DEF FlipFailed
    <3>2. Touches(d)
      BY <2>1, <2>2, <3>1, WritesRow DEF Touches, Effect, Move, MarkOCRFailed
    <3> QED
      BY <2>1, <2>4, <3>2, TouchesOne, SameDataGrows DEF FlipFailed, SameData
  <2> QED
    BY <1>4, <2>3, <2>4
<1> QED
  BY <1>2, <1>3, <1>4 DEF JobStep

\* A step of an ingest goroutine.
LEMMA RunnerEffects ==
    ASSUME TInv, Inductive, NEW x \in Runners, RunnerStep(x)
    PROVE  /\ \A d \in Docs : Effect(d) /\ DataGrows(d)
           /\ UNCHANGED matriculas
<1> USE PagesAssumption
<1>1. ing[x].pc # "idle"
  BY DEF RunnerStep, StorePDF, CreateRow, ClaimIngest, CheckStatus, Render, UploadPage, AddPages,
         CountPages, PostAccepted, PostUnanswered, PostRefused, Stamp, RecordFailure, LoadPages
<1>2. PICK d \in Docs : d = ing[x].doc
  BY <1>1, RunnerRow
<1>3. docs[d] \in Row /\ RunnerInv(x)
  BY DEF TInv, TypeOK, StoreTypeOK, Inductive
<1>4. CASE UNCHANGED <<docs, matriculas>> /\ (SameData \/ StorePDF(x) \/ UploadPage(x) \/ AddPages(x))
  <2>1. \A e \in Docs : Effect(e)
    BY <1>4 DEF Effect
  <2>2. \A e \in Docs : DataGrows(e)
    BY <1>4, SameDataGrows DEF StorePDF, UploadPage, AddPages, DataGrows, TInv, TypeOK, StoreTypeOK
  <2> QED
    BY <1>4, <2>1, <2>2
<1>5. CASE StorePDF(x) \/ UploadPage(x) \/ AddPages(x) \/ CheckStatus(x) \/ Render(x) \/ LoadPages(x)
           \/ PostRefused(x) \/ \E j \in JobSlots : PostAccepted(x, j) \/ PostUnanswered(x, j)
  BY <1>4, <1>5 DEF StorePDF, UploadPage, AddPages, CheckStatus, Render, LoadPages, PostRefused,
                    PostAccepted, PostUnanswered, SameData, storeVars
<1>6. CASE CreateRow(x)
  <2>1. x = d /\ docs[d].status = "absent"
    BY <1>2, <1>3, <1>6 DEF CreateRow, RunnerInv
  <2>2. Exec(d, Create(docs[d])) \/ MaybeExec(d, Create(docs[d]))
    BY <1>2, <1>6 DEF CreateRow
  <2>3. Touches(d)
    BY <1>6, <2>1, <2>2, WritesRow DEF Touches, Effect, Born
  <2> QED
    BY <1>6, <2>3, TouchesOne, SameDataGrows DEF CreateRow, SameData
<1>7. CASE ClaimIngest(x)
  <2> DEFINE row == UpdateStatus(docs[d], "uploaded", "processing")
  <2>1. docs[d].status # "absent"
    BY <1>2, <1>3, <1>7 DEF ClaimIngest, RunnerInv
  <2>2. Exec(d, row) \/ MaybeExec(d, row)
    BY <1>2, <1>7 DEF ClaimIngest
  <2>3. Touches(d)
    BY <2>1, <2>2, WritesRow DEF Touches, Effect, Move
  <2> QED
    BY <1>7, <2>3, TouchesOne, SameDataGrows DEF ClaimIngest, SameData
<1>8. CASE CountPages(x)
  <2> DEFINE row == SetPageCount(docs[d], NumPages)
  <2>1. docs[d].status # "absent" /\ ing[x].n = NumPages
    BY <1>2, <1>3, <1>8 DEF CountPages, RunnerInv
  <2>2. Exec(d, row) \/ MaybeExec(d, row)
    BY <1>2, <1>8, <2>1 DEF CountPages
  <2>3. docs'[d] = row => Quiet(d)
    BY <1>3, <2>1 DEF Quiet, SetPageCount, Row
  <2>4. Touches(d)
    BY <2>2, <2>3, WritesRow DEF Touches, Effect
  <2> QED
    BY <1>8, <2>4, TouchesOne, SameDataGrows DEF CountPages, SameData
<1>9. CASE Stamp(x)
  <2> DEFINE row == SetOCRDispatched(docs[d])
  <2>1. docs[d].status # "absent" /\ Ingested(d)
    BY <1>2, <1>3, <1>9 DEF Stamp, RunnerInv
  <2>2. Exec(d, row) \/ MaybeExec(d, row)
    BY <1>2, <1>9 DEF Stamp
  <2>3. docs'[d] = row => Quiet(d)
    BY <1>3, <2>1 DEF Quiet, SetOCRDispatched, Row
  <2>4. Touches(d)
    BY <2>2, <2>3, WritesRow DEF Touches, Effect
  <2> QED
    BY <1>9, <2>4, TouchesOne, SameDataGrows DEF Stamp, SameData
<1>10. CASE RecordFailure(x)
  <2>1. docs[d].status # "absent"
    BY <1>2, <1>3, <1>10 DEF RecordFailure, RunnerInv
  <2>2. CASE ing[x].pc = "fail_ingest"
    <3> DEFINE row == MarkFailed(docs[d], "processing", "ingest")
    <3>1. Exec(d, row) \/ MaybeExec(d, row)
      BY <1>2, <1>10, <2>2 DEF RecordFailure
    <3> QED
      BY <2>1, <3>1, WritesRow, TouchesOne, SameDataGrows, <1>10
      DEF Touches, Effect, Move, RecordFailure, SameData
  <2>3. CASE ing[x].pc = "fail_dispatch"
    <3> DEFINE row == MarkFailed(docs[d], "processing", "ocr_dispatch")
    <3>1. Exec(d, row) \/ MaybeExec(d, row)
      BY <1>2, <1>10, <2>3 DEF RecordFailure
    <3>2. Ingested(d)
      BY <1>2, <1>3, <2>3 DEF RunnerInv
    <3> QED
      BY <2>1, <3>1, <3>2, WritesRow, TouchesOne, SameDataGrows, <1>10
      DEF Touches, Effect, Move, RecordFailure, SameData
  <2> QED
    BY <1>10, <2>2, <2>3 DEF RecordFailure
<1> QED
  BY <1>5, <1>6, <1>7, <1>8, <1>9, <1>10 DEF RunnerStep

\* What a poller's step does to the aggregates: only SaveAggregate replaces
\* one, by an aggregate of a claim that read the whole text.
Saves(d) ==
    /\ docs'[d] = docs[d]
    /\ docs[d].status # "absent"
    /\ GoodAggregate(d)'
    /\ matriculas'[d] # NoAggregate

\* Every step of a poller is a move of one row, a growth of data, or neither.
LEMMA PollEffects ==
    ASSUME TInv, Inductive, NEW r \in Replicas, PollStep(r)
    PROVE  \A d \in Docs : /\ Effect(d) /\ DataGrows(d)
                           /\ matriculas'[d] = matriculas[d] \/ Saves(d)
<1> USE PagesAssumption, AttemptsAssumption
<1>1. PollInv(r) /\ PollRange(r) /\ poll[r] \in PollState /\ docs \in [Docs -> Row]
  BY DEF Inductive, TInv, Ranges, TypeOK, PollTypeOK, StoreTypeOK
<1>2. \A e \in Docs : Ingested(e) => docs[e].status # "absent"
  BY DEF Inductive, RowInv, Ingested, NoRow
<1>3. CASE UNCHANGED <<docs, matriculas>> /\ SameData
  BY <1>3, SameDataGrows DEF Effect
<1>4. CASE Tick(r) \/ NothingToClaim(r) \/ ReadOCR(r) \/ CallLLM(r) \/ Scan(r) \/ EndTick(r)
  BY <1>3, <1>4 DEF Tick, NothingToClaim, ReadOCR, CallLLM, Scan, EndTick, storeVars, SameData
<1>5. CASE Claim(r)
  <2>1. PICK d \in Docs : Claimable(docs[d]) /\ (\/ Exec(d, ClaimForExtraction(docs[d]))
                                                \/ MaybeExec(d, ClaimForExtraction(docs[d])))
    BY <1>5 DEF Claim
  <2>2. docs[d].status # "absent"
    BY <2>1 DEF Claimable
  <2>3. Touches(d)
    BY <2>1, <2>2, WritesRow DEF Touches, Effect, Move
  <2> QED
    BY <1>5, <2>3, TouchesOne, SameDataGrows DEF Claim, SameData
<1>6. CASE SaveAggregate(r)
  <2>1. PICK d \in Docs : d = poll[r].doc
    BY <1>1, <1>6 DEF SaveAggregate, PollRange, Extracting
  <2>2. /\ docs[d].status # "absent"
        /\ poll[r].claim \in Claims /\ poll[r].claim <= docs[d].attempts
        /\ poll[r].text = PageNums
    BY <1>1, <1>2, <1>6, <2>1 DEF SaveAggregate, PollInv, PollRange, Extracting
  <2>3. docs[d].attempts \in Nat /\ poll[r].claim \in 1 .. docs[d].attempts
    BY <1>1, <2>2 DEF Row, Claims
  <2>4. /\ docs' = docs /\ pages' = pages /\ ocrResults' = ocrResults /\ bucket' = bucket
        /\ \/ extractions' = extractions /\ matriculas' = matriculas
           \/ /\ extractions' = [extractions EXCEPT ![d] = @ \cup {poll[r].claim}]
              /\ matriculas' = [matriculas EXCEPT ![d] = [claim |-> poll[r].claim, text |-> poll[r].text]]
    BY <1>6, <2>1 DEF SaveAggregate
  <2>5. \A e \in Docs : Effect(e) /\ DataGrows(e)
    BY <2>4 DEF Effect, DataGrows, TInv, TypeOK, StoreTypeOK
  <2>6. CASE extractions' = extractions /\ matriculas' = matriculas
    BY <2>5, <2>6
  <2>7. CASE /\ extractions' = [extractions EXCEPT ![d] = @ \cup {poll[r].claim}]
             /\ matriculas' = [matriculas EXCEPT ![d] = [claim |-> poll[r].claim, text |-> poll[r].text]]
    <3>1. \A e \in Docs \ {d} : matriculas'[e] = matriculas[e]
      BY <2>7 DEF TInv, TypeOK, StoreTypeOK
    <3>2. matriculas'[d] = [claim |-> poll[r].claim, text |-> PageNums] /\ poll[r].claim \in extractions'[d]
      BY <2>2, <2>7 DEF TInv, TypeOK, StoreTypeOK
    <3>3. GoodAggregate(d)' /\ matriculas'[d] # NoAggregate
      BY <2>3, <2>4, <3>2 DEF GoodAggregate, NoAggregate
    <3> QED
      BY <2>2, <2>4, <2>5, <3>1, <3>3 DEF Saves
  <2> QED
    BY <2>4, <2>6, <2>7
<1>7. CASE FlipExtracted(r) \/ Requeue(r) \/ GiveUp(r)
  <2>1. PICK d \in Docs : d = poll[r].doc
    BY <1>1, <1>7 DEF FlipExtracted, Requeue, GiveUp, PollRange, Extracting
  <2>2. docs[d].status # "absent"
    BY <1>1, <1>2, <1>7, <2>1 DEF FlipExtracted, Requeue, GiveUp, PollInv, Extracting
  <2>3. Touches(d)
    <3>1. CASE FlipExtracted(r)
      <4> DEFINE row == UpdateStatus(docs[d], "extracting", "extracted")
      <4>1. Exec(d, row) \/ MaybeExec(d, row)
        BY <2>1, <3>1 DEF FlipExtracted
      <4>2. matriculas[d] # NoAggregate
        BY <1>1, <2>1, <3>1 DEF FlipExtracted, PollInv
      <4> QED
        BY <2>2, <4>1, <4>2, WritesRow DEF Touches, Effect, Move
    <3>2. CASE Requeue(r)
      <4> DEFINE row == ReturnForRetry(docs[d], TRUE)
      <4>1. Exec(d, row) \/ MaybeExec(d, row)
        BY <2>1, <3>2 DEF Requeue
      <4> QED
        BY <2>2, <4>1, WritesRow DEF Touches, Effect, Move
    <3>3. CASE GiveUp(r)
      <4> DEFINE row == MarkFailed(docs[d], "extracting", "extraction")
      <4>1. Exec(d, row) \/ MaybeExec(d, row)
        BY <2>1, <3>3 DEF GiveUp
      <4> QED
        BY <2>2, <4>1, WritesRow DEF Touches, Effect, Move
    <3> QED
      BY <1>7, <3>1, <3>2, <3>3
  <2> QED
    BY <1>7, <2>3, TouchesOne, SameDataGrows DEF FlipExtracted, Requeue, GiveUp, SameData
<1>8. CASE Exhaust(r)
  <2>1. \A e \in Docs : docs'[e] = docs[e] \/ docs'[e] = FailExhausted(docs[e])
    BY <1>1, <1>8 DEF Exhaust
  <2>2. \A e \in Docs : docs[e].status = "absent" => FailExhausted(docs[e]) = docs[e]
    BY DEF FailExhausted
  <2>3. \A e \in Docs : Effect(e)
    BY <2>1, <2>2 DEF Effect, Move
  <2> QED
    BY <1>8, <2>3, SameDataGrows DEF Exhaust, SameData
<1>9. CASE Repair(r)
  <2>1. PICK item \in poll[r].list :
          UNCHANGED docs \/ Exec(item.doc, ReturnForRetry(docs[item.doc], FALSE))
                         \/ MaybeExec(item.doc, ReturnForRetry(docs[item.doc], FALSE))
    BY <1>9 DEF Repair
  <2>2. PICK d \in Docs : d = item.doc
    BY <1>1 DEF PollState
  <2>3. docs[d].status # "absent"
    BY <1>1, <2>2 DEF PollInv
  <2>4. Touches(d)
    BY <2>1, <2>2, <2>3, WritesRow DEF Touches, Effect, Move
  <2> QED
    BY <1>9, <2>4, TouchesOne, SameDataGrows DEF Repair, SameData
<1> QED
  BY <1>4, <1>5, <1>6, <1>7, <1>8, <1>9 DEF PollStep

\* Uploads, crashes, lost jobs and time.
LEMMA OtherEffects ==
    ASSUME TInv, Inductive,
           \/ \E d \in Docs, r \in Replicas : Upload(d, r)
           \/ LoseJobs
           \/ \E r \in Replicas : Crash(r)
           \/ \E d \in Docs : Age(d) \/ BackoffElapses(d)
    PROVE  /\ \A d \in Docs : Effect(d) /\ DataGrows(d)
           /\ UNCHANGED matriculas
<1>1. CASE \/ \E d \in Docs, r \in Replicas : Upload(d, r)
           \/ LoseJobs
           \/ \E r \in Replicas : Crash(r)
  BY <1>1, SameDataGrows DEF Upload, LoseJobs, Crash, storeVars, Effect, SameData
<1>2. ASSUME NEW d \in Docs, Age(d) \/ BackoffElapses(d)
      PROVE  (\A e \in Docs : Effect(e) /\ DataGrows(e)) /\ UNCHANGED matriculas
  <2>1. docs[d] \in Row
    BY DEF TInv, TypeOK, StoreTypeOK
  <2>2. docs[d].status # "absent"
    BY <1>2 DEF Age, BackoffElapses, Inductive, RowInv, NoRow
  <2>3. docs'[d] \in {[docs[d] EXCEPT !.stale = TRUE], [docs[d] EXCEPT !.backoff = FALSE]}
        /\ \A e \in Docs \ {d} : docs'[e] = docs[e]
    BY <1>2 DEF Age, BackoffElapses, TInv, TypeOK, StoreTypeOK
  <2>4. Touches(d)
    BY <2>1, <2>2, <2>3 DEF Touches, Effect, Quiet, Row
  <2> QED
    BY <1>2, <2>4, TouchesOne, SameDataGrows DEF Age, BackoffElapses, SameData
<1> QED
  BY <1>1, <1>2

(***************************************************************************)
(* The worker that moves keeps its invariant, too.                         *)
(***************************************************************************)

\* A step in which AllGrow holds keeps every row, and every worker at rest.
LEMMA RowsKept ==
    ASSUME TInv, TInv', Inductive,
           \A d \in Docs : /\ Effect(d) /\ DataGrows(d)
                           /\ matriculas'[d] = matriculas[d] \/ Saves(d)
    PROVE  /\ AllGrow
           /\ \A d \in Docs : RowInv(d)' /\ FailureInv(d)'
           /\ \A d \in Docs : matriculas[d] # NoAggregate => matriculas'[d] # NoAggregate
<1>1. AllGrow
  BY EffectGrows DEF AllGrow, Inductive
<1>2. \A d \in Docs : RowInv(d)' /\ FailureInv(d)'
  BY RowKept DEF Inductive, Saves
<1> QED
  BY <1>1, <1>2 DEF Saves

\* A job keeps its own invariant.
LEMMA JobMoves ==
    ASSUME TInv, TInv', Inductive, AllGrow, NEW j \in JobSlots, JobStep(j)
    PROVE  \A i \in JobSlots : JobInv(i)'
<1> SUFFICES ASSUME NEW i \in JobSlots PROVE JobInv(i)'
  OBVIOUS
<1>1. JobInv(i) /\ JobInv(j) /\ jobs \in [JobSlots -> Job]
  BY DEF Inductive, TInv, TypeOK, OcrTypeOK
<1>2. CASE jobs'[i] = jobs[i]
  BY <1>1, <1>2, JobKept
<1>3. CASE i = j /\ \E p \in PageNums : RecognizePage(j, p)
  <2>1. PICK p \in PageNums : RecognizePage(j, p)
    BY <1>3
  <2>2. PICK d \in Docs : d = jobs[j].doc
    BY <2>1 DEF RecognizePage, TInv, Ranges, JobRange
  <2>3. Ingested(d) /\ PageNums \ jobs[j].todo \subseteq ocrResults[d]
    BY <1>1, <2>1, <2>2 DEF RecognizePage, JobInv
  <2>4. jobs'[j].doc = d /\ jobs'[j].todo = jobs[j].todo \ {p} /\ ocrResults'[d] = ocrResults[d] \cup {p}
    BY <1>1, <2>1, <2>2 DEF RecognizePage, TInv, TypeOK, StoreTypeOK, Job
  <2>5. Ingested(d)'
    BY <2>3, DoneStaysDone DEF AllGrow
  <2> QED
    BY <1>3, <2>3, <2>4, <2>5 DEF JobInv
<1>4. CASE i = j /\ PageFails(j)
  <2>1. PICK d \in Docs : d = jobs[j].doc
    BY <1>4 DEF PageFails, TInv, Ranges, JobRange
  <2>2. jobs'[j].doc = d /\ jobs'[j].pc = "fail"
    BY <1>1, <1>4, <2>1 DEF PageFails, Job
  <2>3. Ingested(d)'
    BY <1>1, <1>4, <2>1, DoneStaysDone DEF PageFails, JobInv, AllGrow
  <2> QED
    BY <1>4, <2>2, <2>3 DEF JobInv
<1>5. CASE i = j /\ EndJob(j)
  BY <1>1, <1>5 DEF EndJob, FreeJob, JobInv
<1> QED
  BY <1>1, <1>2, <1>3, <1>4, <1>5 DEF JobStep, RecognizePage, UpsertFails, PageFails, FlipDone, FlipFailed, EndJob

\* A runner only starts jobs that have everything they need.
LEMMA RunnerMovesJobs ==
    ASSUME TInv, TInv', Inductive, AllGrow, NEW x \in Runners, RunnerStep(x)
    PROVE  \A i \in JobSlots : JobInv(i)'
<1> SUFFICES ASSUME NEW i \in JobSlots PROVE JobInv(i)'
  OBVIOUS
<1>1. JobInv(i) /\ jobs \in [JobSlots -> Job]
  BY DEF Inductive, TInv, TypeOK, OcrTypeOK
<1>2. CASE jobs'[i] = jobs[i]
  BY <1>1, <1>2, JobKept
<1>3. CASE ing[x].pc = "post" /\ Accept(i, ing[x].doc, ing[x].n)
  <2>1. PICK d \in Docs : d = ing[x].doc
    BY <1>3, RunnerRow
  <2>2. Ingested(d) /\ ing[x].n = NumPages
    BY <1>3, <2>1 DEF Inductive, RunnerInv
  <2>3. jobs'[i].doc = d /\ jobs'[i].todo = PageNums
    BY <1>1, <1>3, <2>1, <2>2 DEF Accept, PageNums
  <2>4. Ingested(d)'
    BY <2>2, DoneStaysDone DEF AllGrow
  <2> QED
    BY <2>3, <2>4 DEF JobInv
<1>4. \/ UNCHANGED jobs
      \/ \E j \in JobSlots : ing[x].pc = "post" /\ Accept(j, ing[x].doc, ing[x].n)
  BY DEF RunnerStep, StorePDF, CreateRow, ClaimIngest, CheckStatus, Render, UploadPage, AddPages,
         CountPages, PostAccepted, PostUnanswered, PostRefused, Stamp, RecordFailure, LoadPages
<1>5. \A j \in JobSlots : Accept(j, ing[x].doc, ing[x].n) => i = j \/ jobs'[i] = jobs[i]
  BY <1>1 DEF Accept
<1> QED
  BY <1>2, <1>3, <1>4, <1>5

\* RunnerInv for a runner whose document is named.
Reached(x, d) ==
    /\ ing[x].doc = d
    /\ ing[x].pc \in {"upload", "create"} => x = d /\ docs[d].status = "absent"
    /\ ing[x].pc \notin {"idle", "upload", "create"} => docs[d].status # "absent"
    /\ ing[x].pc = "pages" => PDF \in bucket[d] /\ 1 .. ing[x].n \subseteq bucket[d]
    /\ ing[x].pc \in {"record", "count", "post", "stamp"} =>
         ing[x].n = NumPages /\ Objects \subseteq bucket[d]
    /\ ing[x].pc = "count" => pages[d] = PageNums
    /\ ing[x].pc \in {"post", "stamp", "fail_dispatch", "reload"} => Ingested(d)

\* What a runner has reached is all that its invariant asks.
LEMMA ReachedSuffices ==
    ASSUME NEW x \in Runners, NEW d \in Docs, Reached(x, d)'
    PROVE  RunnerInv(x)'
<1>1. d = ing'[x].doc
  BY DEF Reached
<1> QED
  BY <1>1 DEF Reached, RunnerInv

\* The progress facts of the runner that moves.
LEMMA RunnerMoves ==
    ASSUME TInv, TInv', Inductive, AllGrow, NEW x \in Runners, RunnerStep(x)
    PROVE  \A y \in Runners : RunnerInv(y)'
<1> USE PagesAssumption
<1>1. ing \in [Runners -> Runner] /\ \A y \in Runners : RunnerInv(y)
  BY DEF TInv, TypeOK, IngestTypeOK, Inductive
<1>2. ing[x].pc # "idle" /\ \A y \in Runners \ {x} : ing'[y] = ing[y]
  BY <1>1 DEF RunnerStep, StorePDF, CreateRow, ClaimIngest, CheckStatus, Render, UploadPage, AddPages,
         CountPages, PostAccepted, PostUnanswered, PostRefused, Stamp, RecordFailure, LoadPages,
         Goto, EndRunner, PostFailed
<1>3. \A y \in Runners \ {x} : RunnerInv(y)'
  BY <1>1, <1>2, RunnerKept
<1> SUFFICES RunnerInv(x)'
  BY <1>3
<1>4. PICK d \in Docs : d = ing[x].doc
  BY <1>2, RunnerRow
<1>5. /\ RowGrows(d) /\ DataGrows(d) /\ (Ingested(d) => Ingested(d)')
      /\ pages'[d] \subseteq PageNums /\ bucket'[d] \subseteq Objects
      /\ ing[x].n \in 0 .. NumPages
  BY <1>1, <1>4, DoneStaysDone DEF AllGrow, TInv, TypeOK, StoreTypeOK, Runner
<1>6. EndRunner(x) => RunnerInv(x)'
  BY <1>1 DEF EndRunner, IdleRunner, RunnerInv
<1>7. \A pc : Goto(x, pc) => ing'[x].doc = d /\ ing'[x].n = ing[x].n /\ ing'[x].pc = pc
  BY <1>1, <1>4 DEF Goto, Runner
<1>8. CASE StorePDF(x)
  <2>1. docs' = docs /\ x = d /\ docs[d].status = "absent"
    BY <1>1, <1>4, <1>8 DEF StorePDF, RunnerInv
  <2>2. Goto(x, "create") => Reached(x, d)'
    BY <1>7, <2>1 DEF Reached
  <2> QED
    BY <1>6, <1>8, <2>2, ReachedSuffices DEF StorePDF
<1>9. docs[d].status # "absent" => docs'[d].status # "absent"
  BY <1>5 DEF RowGrows
<1>10. docs[d].status # "absent" /\ Goto(x, "fail_ingest") => RunnerInv(x)'
  <2> SUFFICES ASSUME docs[d].status # "absent", Goto(x, "fail_ingest") PROVE Reached(x, d)'
    BY ReachedSuffices
  <2> QED
    BY <1>7, <1>9 DEF Reached
<1>11. CASE CreateRow(x)
  <2>1. Goto(x, "claim") => docs'[d] = Create(docs[d])
    BY <1>4, <1>11, WritesRow DEF CreateRow, EndRunner, Goto, TInv, TypeOK, IngestTypeOK, StoreTypeOK,
       Exec, MaybeExec, IdleRunner, Runner
  <2>2. Create(docs[d]).status = "uploaded"
    BY DEF Create, NoRow
  <2>3. Goto(x, "claim") => Reached(x, d)'
    BY <1>7, <2>1, <2>2 DEF Reached
  <2> QED
    BY <1>6, <1>11, <2>3, ReachedSuffices DEF CreateRow
<1>12. CASE ClaimIngest(x) \/ CheckStatus(x)
  <2>1. docs[d].status # "absent"
    BY <1>1, <1>4, <1>12 DEF ClaimIngest, CheckStatus, RunnerInv
  <2>2. Goto(x, "render") \/ Goto(x, "check") \/ Goto(x, "fail_ingest") \/ EndRunner(x)
    BY <1>12 DEF ClaimIngest, CheckStatus
  <2>3. Goto(x, "render") \/ Goto(x, "check") => Reached(x, d)'
    BY <1>7, <1>9, <2>1 DEF Reached
  <2> QED
    BY <1>6, <1>10, <2>1, <2>2, <2>3, ReachedSuffices
<1>13. CASE Render(x)
  <2>1. docs[d].status # "absent" /\ ing[x].n = 0
    BY <1>1, <1>4, <1>13 DEF Render, RunnerInv, TInv, Ranges, RunnerRange, BeforePages
  <2>2. (PDF \in bucket'[d] /\ Goto(x, "pages")) \/ Goto(x, "fail_ingest")
    BY <1>4, <1>13 DEF Render
  <2>3. PDF \in bucket'[d] /\ Goto(x, "pages") => Reached(x, d)'
    BY <1>7, <1>9, <2>1 DEF Reached
  <2> QED
    BY <1>10, <2>1, <2>2, <2>3, ReachedSuffices
<1>14. CASE UploadPage(x)
  <2>1. /\ docs[d].status # "absent"
        /\ PDF \in bucket[d] /\ 1 .. ing[x].n \subseteq bucket[d] /\ ing[x].n < NumPages
    BY <1>1, <1>4, <1>14 DEF UploadPage, RunnerInv, TInv, Ranges, RunnerRange
  <2>2. CASE Goto(x, "fail_ingest")
    BY <1>10, <2>1, <2>2
  <2>3. CASE /\ bucket' = [bucket EXCEPT ![ing[x].doc] = @ \cup {ing[x].n + 1}]
             /\ ing' = [ing EXCEPT ![x].n = ing[x].n + 1,
                                   ![x].pc = IF ing[x].n + 1 = NumPages THEN "record" ELSE "pages"]
    <3>1. /\ ing'[x].doc = d /\ ing'[x].n = ing[x].n + 1
          /\ ing'[x].pc = IF ing[x].n + 1 = NumPages THEN "record" ELSE "pages"
      BY <1>1, <1>4, <2>3 DEF Runner
    <3>2. bucket'[d] = bucket[d] \cup {ing[x].n + 1}
      BY <1>4, <2>3 DEF TInv, TypeOK, StoreTypeOK
    <3>3. PDF \in bucket'[d] /\ 1 .. (ing[x].n + 1) \subseteq bucket'[d]
      <4>1. 1 .. (ing[x].n + 1) = (1 .. ing[x].n) \cup {ing[x].n + 1}
        BY <1>5
      <4> QED
        BY <2>1, <3>2, <4>1
    <3>4. ing[x].n + 1 = NumPages => Objects \subseteq bucket'[d]
      BY <3>3 DEF Objects, PageNums
    <3>5. Reached(x, d)'
      BY <1>9, <2>1, <3>1, <3>3, <3>4 DEF Reached
    <3> QED
      BY <3>5, ReachedSuffices
  <2> QED
    BY <1>14, <2>2, <2>3 DEF UploadPage
<1>15. CASE AddPages(x)
  <2>1. docs[d].status # "absent" /\ ing[x].n = NumPages /\ Objects \subseteq bucket[d]
    BY <1>1, <1>4, <1>15 DEF AddPages, RunnerInv
  <2>2. CASE Goto(x, "fail_ingest")
    BY <1>10, <2>1, <2>2
  <2>3. CASE pages' = [pages EXCEPT ![ing[x].doc] = @ \cup 1 .. ing[x].n] /\ Goto(x, "count")
    <3>1. pages'[d] = PageNums
      BY <1>4, <1>5, <2>1, <2>3 DEF PageNums, TInv, TypeOK, StoreTypeOK
    <3>2. Objects \subseteq bucket'[d]
      BY <1>5, <2>1 DEF DataGrows
    <3>3. Reached(x, d)'
      BY <1>7, <1>9, <2>1, <2>3, <3>1, <3>2 DEF Reached
    <3> QED
      BY <3>3, ReachedSuffices
  <2> QED
    BY <1>15, <2>2, <2>3 DEF AddPages
<1>16. CASE CountPages(x)
  <2>1. /\ docs[d].status # "absent" /\ ing[x].n = NumPages
        /\ Objects \subseteq bucket[d] /\ pages[d] = PageNums
    BY <1>1, <1>4, <1>16 DEF CountPages, RunnerInv
  <2>2. CASE Goto(x, "fail_ingest")
    BY <1>10, <2>1, <2>2
  <2>3. CASE Exec(ing[x].doc, SetPageCount(docs[ing[x].doc], ing[x].n)) /\ Goto(x, "post")
    <3>1. docs'[d].pageCount = NumPages
      BY <1>4, <2>1, <2>3 DEF Exec, SetPageCount, TInv, TypeOK, StoreTypeOK, Row
    <3>2. Ingested(d)'
      BY <1>5, <2>1, <3>1 DEF Ingested, DataGrows
    <3>3. Objects \subseteq bucket'[d]
      BY <1>5, <2>1 DEF DataGrows
    <3>4. Reached(x, d)'
      BY <1>7, <1>9, <2>1, <2>3, <3>2, <3>3 DEF Reached
    <3> QED
      BY <3>4, ReachedSuffices
  <2> QED
    BY <1>16, <2>2, <2>3 DEF CountPages
<1>17. CASE (\E j \in JobSlots : PostAccepted(x, j) \/ PostUnanswered(x, j)) \/ PostRefused(x)
  <2>1. docs[d].status # "absent" /\ ing[x].n = NumPages /\ Objects \subseteq bucket[d] /\ Ingested(d)
    BY <1>1, <1>4, <1>17 DEF PostAccepted, PostUnanswered, PostRefused, RunnerInv
  <2>2. /\ ing'[x].doc = d /\ ing'[x].n = NumPages
        /\ ing'[x].pc \in {"stamp", "post", "fail_dispatch"}
    BY <1>1, <1>4, <1>17, <2>1 DEF PostAccepted, PostUnanswered, PostRefused, PostFailed, Goto, Runner
  <2>3. Objects \subseteq bucket'[d]
    BY <1>5, <2>1 DEF DataGrows
  <2>4. Reached(x, d)'
    BY <1>5, <1>9, <2>1, <2>2, <2>3 DEF Reached
  <2> QED
    BY <2>4, ReachedSuffices
<1>18. CASE Stamp(x) \/ RecordFailure(x)
  <2>1. EndRunner(x) \/ (ing[x].pc = "stamp" /\ Goto(x, "fail_ingest"))
    BY <1>18 DEF Stamp, RecordFailure
  <2> QED
    BY <1>1, <1>4, <1>6, <1>10, <2>1 DEF RunnerInv
<1>19. CASE LoadPages(x)
  <2>1. docs[d].status # "absent" /\ Ingested(d)
    BY <1>1, <1>4, <1>19 DEF LoadPages, RunnerInv
  <2>2. Cardinality(pages[d]) = NumPages
    BY <2>1, FS_Interval DEF Ingested, PageNums
  <2>3. \/ EndRunner(x)
        \/ ing'[x].doc = d /\ ing'[x].n = NumPages /\ ing'[x].pc = "post"
    BY <1>1, <1>4, <1>19, <2>2 DEF LoadPages, Runner
  <2>4. Objects \subseteq bucket'[d]
    BY <1>5, <2>1 DEF DataGrows, Ingested
  <2>5. ing'[x].doc = d /\ ing'[x].n = NumPages /\ ing'[x].pc = "post" => Reached(x, d)'
    BY <1>5, <1>9, <2>1, <2>4 DEF Reached
  <2> QED
    BY <1>6, <2>3, <2>5, ReachedSuffices
<1> QED
  BY <1>8, <1>11, <1>12, <1>13, <1>14, <1>15, <1>16, <1>17, <1>18, <1>19 DEF RunnerStep

(***************************************************************************)
(* Pollers.                                                                *)
(***************************************************************************)
LEMMA PollKept ==
    ASSUME TInv, TInv', AllGrow, NEW s \in Replicas, PollInv(s), poll'[s] = poll[s],
           \A d \in Docs : matriculas[d] # NoAggregate => matriculas'[d] # NoAggregate
    PROVE  PollInv(s)'
<1>1. PICK w : w = poll[s]
  OBVIOUS
<1>2. w = poll'[s] /\ w \in PollState /\ (w.pc \in Extracting => w.doc \in Docs)
  BY <1>1 DEF TInv, TypeOK, PollTypeOK, Ranges, PollRange
<1>3. ClaimInv(w) /\ ListInv(w.list) /\ w.list \in SUBSET [doc : Docs, repair : Repairs]
  BY <1>1, <1>2, PollInvParts DEF PollState
<1>4. ClaimInv(w)' /\ ListInv(w.list)'
  BY <1>2, <1>3, ClaimKept, ListKept
<1> QED
  BY <1>2, <1>4 DEF PollInv, ClaimInv, ListInv

\* The claim, the prompt and the janitor's list of the poller that moves.
LEMMA PollMoves ==
    ASSUME TInv, TInv', Inductive, AllGrow, NEW r \in Replicas, PollStep(r),
           \A d \in Docs : matriculas[d] # NoAggregate => matriculas'[d] # NoAggregate
    PROVE  \A s \in Replicas : PollInv(s)'
<1> USE AttemptsAssumption
<1>1. poll \in [Replicas -> PollState] /\ \A s \in Replicas : PollInv(s) /\ PollRange(s)
  BY DEF TInv, TypeOK, PollTypeOK, Inductive, Ranges
<1>2. \A s \in Replicas \ {r} : poll'[s] = poll[s]
  BY <1>1 DEF PollStep, Tick, Claim, NothingToClaim, ReadOCR, CallLLM, SaveAggregate, FlipExtracted,
         Requeue, GiveUp, Exhaust, Scan, Repair, EndTick, PollGoto, NextClaim
<1>3. \A s \in Replicas \ {r} : PollInv(s)'
  BY <1>1, <1>2, PollKept
<1> SUFFICES PollInv(r)'
  BY <1>3
<1>4. PICK w : w = poll'[r]
  OBVIOUS
<1>5. ClaimInv(w)' /\ ListInv(w.list)' => PollInv(r)'
  BY <1>4 DEF PollInv, ClaimInv, ListInv
<1>6. PICK L \in SUBSET [doc : Docs, repair : Repairs] : L = poll[r].list
  BY <1>1 DEF PollState
<1>L. \A M \in SUBSET L : ListInv(M)'
  BY <1>1, <1>6, PollInvParts, ListKept DEF ListInv
<1>7. \A pc : PollGoto(r, pc) =>
        w.pc = pc /\ w.doc = poll[r].doc /\ w.claim = poll[r].claim
        /\ w.text = poll[r].text /\ w.list = L
  BY <1>1, <1>4, <1>6 DEF PollGoto, PollState
<1>8. w.pc \notin Extracting => ClaimInv(w)'
  BY DEF ClaimInv, Extracting
<1>9. NextClaim(r) => w.pc = "claim" /\ w.list = {}
  BY <1>1, <1>4 DEF NextClaim, IdlePoll
<1>10. w.list = {} => ListInv(w.list)'
  BY DEF ListInv
<1>11. CASE Tick(r) \/ NothingToClaim(r) \/ Exhaust(r) \/ EndTick(r)
  <2>1. PICK pc \in {"claim", "exhaust", "scan", "idle"} : PollGoto(r, pc)
    BY <1>11 DEF Tick, NothingToClaim, Exhaust, EndTick
  <2>2. w.pc \notin Extracting /\ w.list = L
    BY <1>7, <2>1 DEF Extracting
  <2> QED
    BY <1>5, <1>L, <1>8, <2>2
<1>12. CASE Requeue(r) \/ GiveUp(r)
  <2>1. NextClaim(r)
    BY <1>12 DEF Requeue, GiveUp
  <2> QED
    BY <1>5, <1>8, <1>9, <1>10, <2>1 DEF Extracting
<1>13. ASSUME poll[r].pc \in Extracting, w.doc = poll[r].doc, w.claim = poll[r].claim, w.list = L,
              w.pc \in {"llm", "save", "flip"} => w.text = PageNums,
              w.pc = "flip" => \A d \in Docs : d = w.doc => matriculas'[d] # NoAggregate
       PROVE  PollInv(r)'
  <2>1. PICK d \in Docs : d = poll[r].doc
    BY <1>1, <1>13 DEF PollRange
  <2>2. Ingested(d) /\ HasWholeText(d) /\ poll[r].claim <= docs[d].attempts
    BY <1>1, <1>13, <2>1 DEF PollInv
  <2>3. docs[d].attempts \in Int /\ docs'[d].attempts \in Int /\ poll[r].claim \in Int
    BY <1>1 DEF TInv, TypeOK, StoreTypeOK, Row, PollState
  <2>4. Ingested(d)' /\ HasWholeText(d)' /\ w.claim <= docs'[d].attempts
    BY <1>13, <2>2, <2>3, DoneStaysDone DEF AllGrow, RowGrows
  <2>5. d = w.doc
    BY <1>13, <2>1
  <2>6. ClaimInv(w)'
    BY <1>13, <2>4, <2>5 DEF ClaimInv
  <2> QED
    BY <1>5, <1>L, <1>13, <2>6
<1>14. CASE Claim(r)
  <2>1. CASE PollGoto(r, "exhaust")
    BY <1>5, <1>L, <1>7, <1>8, <2>1 DEF Extracting
  <2>2. CASE \E d \in Docs :
               /\ Claimable(docs[d])
               /\ Exec(d, ClaimForExtraction(docs[d]))
               /\ poll' = [poll EXCEPT ![r].pc = "read", ![r].doc = d,
                                       ![r].claim = ClaimForExtraction(docs[d]).attempts]
    <3>1. PICK d \in Docs :
               /\ Claimable(docs[d])
               /\ Exec(d, ClaimForExtraction(docs[d]))
               /\ poll' = [poll EXCEPT ![r].pc = "read", ![r].doc = d,
                                       ![r].claim = ClaimForExtraction(docs[d]).attempts]
      BY <2>2
    <3>2. docs[d].status = "ocr_done" /\ docs[d].attempts \in Nat
      BY <3>1 DEF Claimable, TInv, TypeOK, StoreTypeOK, Row
    <3>3. Ingested(d)' /\ HasWholeText(d)'
      BY <3>2, DoneStaysDone DEF Inductive, RowInv, PastOCR, AllGrow
    <3>4. docs'[d] = ClaimForExtraction(docs[d])
      BY <3>1 DEF Exec, TInv, TypeOK, StoreTypeOK
    <3>5. w.pc = "read" /\ d = w.doc /\ w.claim = docs'[d].attempts /\ w.list = L
      BY <1>1, <1>4, <1>6, <3>1, <3>4 DEF PollState
    <3>6. w.claim <= docs'[d].attempts
      BY <3>5 DEF TInv, TypeOK, StoreTypeOK, Row
    <3>7. ClaimInv(w)'
      BY <3>3, <3>5, <3>6 DEF ClaimInv
    <3> QED
      BY <1>5, <1>L, <3>5, <3>7
  <2> QED
    BY <1>14, <2>1, <2>2 DEF Claim
<1>15. CASE ReadOCR(r)
  <2>1. poll[r].pc \in Extracting
    BY <1>15 DEF ReadOCR, Extracting
  <2>2. PollGoto(r, "requeue") => PollInv(r)'
    BY <1>7, <1>13, <2>1
  <2>3. CASE poll' = [poll EXCEPT ![r].pc = IF ocrResults[poll[r].doc] = {} THEN "giveup" ELSE "llm",
                                  ![r].text = ocrResults[poll[r].doc]]
    <3>1. /\ w.pc \in {"giveup", "llm"} /\ w.text = ocrResults[poll[r].doc]
          /\ w.doc = poll[r].doc /\ w.claim = poll[r].claim /\ w.list = L
      BY <1>1, <1>4, <1>6, <2>3 DEF PollState
    <3>2. w.text = PageNums
      BY <1>1, <2>1, <3>1 DEF PollInv, HasWholeText
    <3> QED
      BY <1>13, <2>1, <3>1, <3>2
  <2> QED
    BY <1>15, <2>2, <2>3 DEF ReadOCR
<1>16. CASE CallLLM(r)
  <2>1. poll[r].pc = "llm" /\ poll[r].text = PageNums
    BY <1>1, <1>16 DEF CallLLM, PollInv
  <2>2. PICK pc \in {"save", "requeue", "giveup"} : PollGoto(r, pc)
    BY <1>16 DEF CallLLM
  <2> QED
    BY <1>7, <1>13, <2>1, <2>2 DEF Extracting
<1>17. CASE SaveAggregate(r)
  <2>1. poll[r].pc = "save" /\ poll[r].text = PageNums /\ poll[r].claim \in Claims
    BY <1>1, <1>17 DEF SaveAggregate, PollInv, PollRange, Extracting
  <2>2. CASE PollGoto(r, "requeue")
    BY <1>7, <1>13, <2>1, <2>2 DEF Extracting
  <2>3. CASE /\ matriculas' = [matriculas EXCEPT ![poll[r].doc] =
                                 [claim |-> poll[r].claim, text |-> poll[r].text]]
             /\ PollGoto(r, "flip")
    <3>1. PICK d \in Docs : d = poll[r].doc
      BY <1>1, <2>1 DEF PollRange, Extracting
    <3>2. matriculas'[d] = [claim |-> poll[r].claim, text |-> poll[r].text]
      BY <2>3, <3>1 DEF TInv, TypeOK, StoreTypeOK
    <3>3. matriculas'[d] # NoAggregate
      BY <2>1, <3>2 DEF NoAggregate, Claims
    <3> QED
      BY <1>7, <1>13, <2>1, <2>3, <3>1, <3>3 DEF Extracting
  <2> QED
    BY <1>17, <2>2, <2>3 DEF SaveAggregate
<1>18. CASE FlipExtracted(r)
  <2>1. CASE NextClaim(r)
    BY <1>5, <1>8, <1>9, <1>10, <2>1 DEF Extracting
  <2>2. CASE PollGoto(r, "requeue")
    BY <1>7, <1>13, <1>18, <2>2 DEF FlipExtracted, Extracting
  <2> QED
    BY <1>18, <2>1, <2>2 DEF FlipExtracted
<1>19. CASE Scan(r)
  <2>1. CASE PollGoto(r, "idle")
    BY <1>5, <1>L, <1>7, <1>8, <2>1 DEF Extracting
  <2> DEFINE S == {[doc |-> e, repair |-> RepairOf(docs[e])] :
                     e \in {f \in Docs : StuckDocument(docs[f])}}
  <2>2. CASE docs' = docs /\ poll' = [poll EXCEPT ![r].pc = "janitor", ![r].list = S]
    <3>1. w.pc = "janitor" /\ w.list = S
      BY <1>1, <1>4, <2>2 DEF PollState
    <3>2. ASSUME NEW item \in w.list
          PROVE  docs'[item.doc].status # "absent" /\ (item.repair = "redispatch" => Ingested(item.doc)')
      <4>1. PICK e \in Docs : StuckDocument(docs[e]) /\ item = [doc |-> e, repair |-> RepairOf(docs[e])]
        BY <3>1
      <4>2. docs'[e].status # "absent" /\ item.doc = e
        BY <2>2, <4>1 DEF StuckDocument
      <4>3. item.repair = "redispatch" => docs[e].dispatched
        BY <4>1 DEF RepairOf
      <4>4. item.repair = "redispatch" => Ingested(e)'
        BY <4>3, DoneStaysDone DEF Inductive, RowInv, AllGrow
      <4> QED
        BY <4>2, <4>4
    <3>3. ListInv(w.list)'
      BY <3>2 DEF ListInv
    <3> QED
      BY <1>5, <1>8, <3>1, <3>3 DEF Extracting
  <2> QED
    BY <1>19, <2>1, <2>2 DEF Scan
<1>20. CASE Repair(r)
  <2>1. poll[r].pc = "janitor" /\ \E item \in L : poll' = [poll EXCEPT ![r].list = @ \ {item}]
    BY <1>6, <1>20 DEF Repair
  <2>2. w.pc = "janitor" /\ w.list \subseteq L
    BY <1>1, <1>4, <1>6, <2>1 DEF PollState
  <2> QED
    BY <1>5, <1>8, <1>L, <2>2 DEF Extracting
<1> QED
  BY <1>11, <1>12, <1>14, <1>15, <1>16, <1>17, <1>18, <1>19, <1>20 DEF PollStep

\* A repair of the janitor starts a runner; no other step of a poller does.
LEMMA PollMovesRunners ==
    ASSUME TInv, TInv', Inductive, AllGrow, NEW r \in Replicas, PollStep(r)
    PROVE  \A y \in Runners : RunnerInv(y)'
<1> SUFFICES ASSUME NEW y \in Runners PROVE RunnerInv(y)'
  OBVIOUS
<1>1. ing \in [Runners -> Runner] /\ RunnerInv(y) /\ PollInv(r) /\ poll[r] \in PollState
  BY DEF TInv, TypeOK, IngestTypeOK, PollTypeOK, Inductive
<1>2. CASE ing'[y] = ing[y]
  BY <1>1, <1>2, RunnerKept
<1>3. \/ UNCHANGED ing
      \/ \E item \in poll[r].list :
           \/ Start(r, item.doc, r, "claim", FALSE)
           \/ item.repair = "redispatch" /\ Start(r, item.doc, r, "reload", TRUE)
  BY DEF PollStep, Tick, Claim, NothingToClaim, ReadOCR, CallLLM, SaveAggregate, FlipExtracted,
         Requeue, GiveUp, Exhaust, Scan, Repair, EndTick
<1>4. ASSUME NEW item \in poll[r].list, y = r,
             \/ Start(r, item.doc, r, "claim", FALSE)
             \/ item.repair = "redispatch" /\ Start(r, item.doc, r, "reload", TRUE)
      PROVE  RunnerInv(y)'
  <2>1. PICK d \in Docs : d = item.doc
    BY <1>1 DEF PollState
  <2>2. docs[d].status # "absent" /\ (item.repair = "redispatch" => Ingested(d))
    BY <1>1, <2>1 DEF PollInv
  <2>3. docs'[d].status # "absent" /\ (item.repair = "redispatch" => Ingested(d)')
    BY <2>2, DoneStaysDone DEF AllGrow, RowGrows
  <2>4. ing'[y].doc = d /\ (\/ ing'[y].pc = "claim"
                            \/ item.repair = "redispatch" /\ ing'[y].pc = "reload")
    BY <1>1, <1>4, <2>1 DEF Start, IdleRunner
  <2>5. Reached(y, d)'
    BY <2>3, <2>4 DEF Reached
  <2> QED
    BY <2>5, ReachedSuffices
<1>5. \A x, d, s, pc, again : y # x /\ Start(x, d, s, pc, again) => ing'[y] = ing[y]
  BY <1>1 DEF Start
<1> QED
  BY <1>2, <1>3, <1>4, <1>5

(***************************************************************************)
(* Inductive is inductive.                                                 *)
(***************************************************************************)
LEMMA InitInductive == Init => Inductive
<1> SUFFICES ASSUME Init PROVE Inductive
  OBVIOUS
<1>1. \A d \in Docs : RowInv(d) /\ FailureInv(d)
  BY DEF Init, StoreInit, RowInv, FailureInv, NoRow, PastOCR, BeforeClaim
<1>2. \A x \in Runners : RunnerInv(x)
  BY DEF Init, IngestInit, IdleRunner, RunnerInv
<1>3. \A j \in JobSlots : JobInv(j)
  BY DEF Init, OcrInit, FreeJob, JobInv
<1>4. \A r \in Replicas : PollInv(r)
  BY DEF Init, PollInit, IdlePoll, PollInv, Extracting
<1> QED
  BY <1>1, <1>2, <1>3, <1>4 DEF Inductive

\* Workers other than the one that moves.
LEMMA OthersKept ==
    ASSUME TInv, TInv', Inductive, AllGrow,
           \A d \in Docs : matriculas[d] # NoAggregate => matriculas'[d] # NoAggregate
    PROVE  /\ UNCHANGED ing  => \A x \in Runners : RunnerInv(x)'
           /\ UNCHANGED jobs => \A j \in JobSlots : JobInv(j)'
           /\ UNCHANGED poll => \A r \in Replicas : PollInv(r)'
<1>1. UNCHANGED ing  => \A x \in Runners : RunnerInv(x)'
  BY RunnerKept DEF Inductive
<1>2. UNCHANGED jobs => \A j \in JobSlots : JobInv(j)'
  BY JobKept DEF Inductive
<1>3. UNCHANGED poll => \A r \in Replicas : PollInv(r)'
  BY PollKept DEF Inductive
<1> QED
  BY <1>1, <1>2, <1>3

\* Every step keeps the invariant.
LEMMA StepInductive == TInv /\ Inductive /\ [Next]_vars => Inductive'
<1> SUFFICES ASSUME TInv, Inductive, [Next]_vars PROVE Inductive'
  OBVIOUS
<1>1. TInv'
  BY StepTypes
<1>2. CASE UNCHANGED vars
  BY <1>2 DEF vars, storeVars, Inductive, RowInv, FailureInv, RunnerInv, JobInv, PollInv,
       Ingested, HasWholeText, GoodAggregate
<1>3. ASSUME NEW d \in Docs, NEW r \in Replicas, Upload(d, r), UNCHANGED poll PROVE Inductive'
  <2>1. AllGrow /\ \A e \in Docs : RowInv(e)' /\ FailureInv(e)'
    BY <1>1, <1>3, OtherEffects, RowsKept
  <2>2. ing' = [ing EXCEPT ![d] = [IdleRunner EXCEPT !.pc = "upload", !.doc = d, !.on = r, !.again = FALSE]]
        /\ docs' = docs /\ docs[d].status = "absent" /\ jobs' = jobs /\ matriculas' = matriculas
    BY <1>3 DEF Upload, Start, storeVars
  <2>3. ing \in [Runners -> Runner] /\ d \in Runners
    BY DEF TInv, TypeOK, IngestTypeOK, Runners
  <2>4. ing'[d].doc = d /\ ing'[d].pc = "upload"
    BY <2>2, <2>3 DEF IdleRunner
  <2>5. RunnerInv(d)'
    <3>1. Reached(d, d)'
      BY <2>2, <2>4 DEF Reached
    <3> QED
      BY <2>3, <3>1, ReachedSuffices
  <2>6. \A y \in Runners \ {d} : ing'[y] = ing[y]
    BY <2>2, <2>3
  <2>7. \A y \in Runners : RunnerInv(y)'
    BY <1>1, <2>1, <2>5, <2>6, RunnerKept DEF Inductive
  <2> QED
    BY <1>1, <1>3, <2>1, <2>2, <2>7, OthersKept DEF Inductive
<1>4. ASSUME NEW x \in Runners, RunnerStep(x), UNCHANGED poll PROVE Inductive'
  <2>1. (\A e \in Docs : Effect(e) /\ DataGrows(e)) /\ UNCHANGED matriculas
    BY <1>4, RunnerEffects
  <2>2. AllGrow /\ \A e \in Docs : RowInv(e)' /\ FailureInv(e)'
    BY <1>1, <2>1, RowsKept
  <2> QED
    BY <1>1, <1>4, <2>1, <2>2, RunnerMoves, RunnerMovesJobs, OthersKept DEF Inductive
<1>5. ASSUME NEW j \in JobSlots, JobStep(j), UNCHANGED <<ing, poll>> PROVE Inductive'
  <2>1. (\A e \in Docs : Effect(e) /\ DataGrows(e)) /\ UNCHANGED matriculas
    BY <1>5, JobEffects
  <2>2. AllGrow /\ \A e \in Docs : RowInv(e)' /\ FailureInv(e)'
    BY <1>1, <2>1, RowsKept
  <2> QED
    BY <1>1, <1>5, <2>1, <2>2, JobMoves, OthersKept DEF Inductive
<1>6. ASSUME NEW r \in Replicas, PollStep(r) PROVE Inductive'
  <2>1. \A e \in Docs : /\ Effect(e) /\ DataGrows(e)
                        /\ matriculas'[e] = matriculas[e] \/ Saves(e)
    BY <1>6, PollEffects
  <2>2. /\ AllGrow /\ \A e \in Docs : RowInv(e)' /\ FailureInv(e)'
        /\ \A e \in Docs : matriculas[e] # NoAggregate => matriculas'[e] # NoAggregate
    BY <1>1, <2>1, RowsKept
  <2>3. UNCHANGED jobs
    BY <1>6 DEF PollStep, Tick, Claim, NothingToClaim, ReadOCR, CallLLM, SaveAggregate, FlipExtracted,
         Requeue, GiveUp, Exhaust, Scan, Repair, EndTick
  <2> QED
    BY <1>1, <1>6, <2>2, <2>3, PollMoves, PollMovesRunners, OthersKept DEF Inductive
<1>7. CASE LoseJobs /\ UNCHANGED <<ing, poll>>
  <2>1. AllGrow /\ (\A e \in Docs : RowInv(e)' /\ FailureInv(e)') /\ UNCHANGED matriculas
    BY <1>1, <1>7, OtherEffects, RowsKept
  <2>2. \A j \in JobSlots : JobInv(j)'
    BY <1>7 DEF LoseJobs, FreeJob, JobInv
  <2> QED
    BY <1>1, <1>7, <2>1, <2>2, OthersKept DEF Inductive
<1>8. ASSUME NEW r \in Replicas, Crash(r) PROVE Inductive'
  <2>1. AllGrow /\ (\A e \in Docs : RowInv(e)' /\ FailureInv(e)') /\ UNCHANGED matriculas
    BY <1>1, <1>8, OtherEffects, RowsKept
  <2>2. \A y \in Runners : RunnerInv(y)'
    <3> SUFFICES ASSUME NEW y \in Runners PROVE RunnerInv(y)'
      OBVIOUS
    <3>1. ing'[y] = ing[y] \/ ing'[y] = IdleRunner
      BY <1>8 DEF Crash
    <3>2. ing'[y] = IdleRunner => RunnerInv(y)'
      BY DEF IdleRunner, RunnerInv
    <3> QED
      BY <1>1, <2>1, <3>1, <3>2, RunnerKept DEF Inductive
  <2>3. \A s \in Replicas : PollInv(s)'
    <3> SUFFICES ASSUME NEW s \in Replicas PROVE PollInv(s)'
      OBVIOUS
    <3>1. poll'[s] = poll[s] \/ poll'[s] = IdlePoll
      BY <1>8 DEF Crash, TInv, TypeOK, PollTypeOK
    <3>2. poll'[s] = IdlePoll => PollInv(s)'
      BY DEF IdlePoll, PollInv, Extracting
    <3> QED
      BY <1>1, <2>1, <3>1, <3>2, PollKept DEF Inductive
  <2>4. UNCHANGED jobs
    BY <1>8 DEF Crash
  <2> QED
    BY <1>1, <2>1, <2>2, <2>3, <2>4, OthersKept DEF Inductive
<1>9. ASSUME NEW d \in Docs, Age(d) \/ BackoffElapses(d) PROVE Inductive'
  <2>1. AllGrow /\ (\A e \in Docs : RowInv(e)' /\ FailureInv(e)') /\ UNCHANGED matriculas
    BY <1>1, <1>9, OtherEffects, RowsKept
  <2>2. UNCHANGED <<jobs, ing, poll>>
    BY <1>9 DEF Age, BackoffElapses
  <2> QED
    BY <1>1, <2>1, <2>2, OthersKept DEF Inductive
<1> QED
  BY <1>2, <1>3, <1>4, <1>5, <1>6, <1>7, <1>8, <1>9 DEF Next

(***************************************************************************)
(* The theorems.                                                           *)
(***************************************************************************)

\* In every reachable state the tables, the jobs, the ingest goroutines and the
\* pollers agree on how far every document has come.
THEOREM Agreement == Spec => []Inductive
<1>1. Init => TInv /\ Inductive
  BY InitTypes, InitInductive
<1>2. TInv /\ Inductive /\ [Next]_vars => (TInv /\ Inductive)'
  BY StepTypes, StepInductive
<1> QED
  BY <1>1, <1>2, PTL DEF Spec

\* A document past OCR has the text of every page (the flip of
\* worker.process, whatever jobs were lost, repeated or duplicated).
THEOREM OCRDoneIsComplete == Spec => []OCRDoneComplete
<1>1. Inductive => OCRDoneComplete
  BY DEF Inductive, RowInv, OCRDoneComplete, Ingested, HasWholeText
<1> QED
  BY <1>1, Agreement, PTL

\* An extracted document has an aggregate made from its whole text by one of
\* its claims, with the raw answer kept (extraction.extract, SaveAggregate).
THEOREM ExtractedIsBacked == Spec => []ExtractedHasAggregate
<1>1. Inductive => ExtractedHasAggregate
  BY DEF Inductive, RowInv, ExtractedHasAggregate, GoodAggregate
<1> QED
  BY <1>1, Agreement, PTL

\* A job, or a dispatch stamp, exists only for a fully ingested document
\* (ingest.process and Redispatch).
THEOREM DispatchIsAfterIngest == Spec => []DispatchedIsIngested
<1>1. Inductive => DispatchedIsIngested
  BY DEF Inductive, RowInv, JobInv, DispatchedIsIngested, Ingested
<1> QED
  BY <1>1, Agreement, PTL

\* failed_stage says how far a failed document had come (every MarkFailed and
\* FailExhausted).
THEOREM FailuresAreHonest == Spec => []FailedStageHonest
<1>1. Inductive => FailedStageHonest
  <2> SUFFICES ASSUME Inductive, NEW d \in Docs, docs[d].status = "failed"
               PROVE  CASE docs[d].failedStage = "extraction" ->
                             docs[d].attempts > 0 /\ ocrResults[d] = PageNums
                        [] docs[d].failedStage \in {"ocr", "ocr_dispatch"} ->
                             docs[d].attempts = 0 /\ pages[d] = PageNums /\ docs[d].pageCount = NumPages
                        [] docs[d].failedStage = "ingest" -> docs[d].attempts = 0
                        [] docs[d].failedStage = "none"   -> FALSE
    BY DEF FailedStageHonest
  <2>1. FailureInv(d)
    BY DEF Inductive
  <2> QED
    BY <2>1 DEF FailureInv, HasWholeText, Ingested
<1> QED
  BY <1>1, Agreement, PTL
(***************************************************************************)
(* Failures without a fault.  FailureNeedsFault counts faults, so it says  *)
(* something only where they are counted, or where there are none.  It is  *)
(* not inductive: who is about to record a failure must be known as well,  *)
(* and that no PDF and no page image is ever missing.                      *)
(***************************************************************************)

\* Every row has its PDF: it is stored before the row is inserted.
Stored ==
    /\ \A d \in Docs : docs[d].status # "absent" => PDF \in bucket[d]
    /\ \A x \in Runners : ing[x].pc = "create" => PDF \in bucket[ing[x].doc]

\* No failure but by the janitor, and nobody about to record another one.
Blameless ==
    /\ \A d \in Docs : docs[d].status = "failed" => GivenUp(d)
    /\ \A x \in Runners : ing[x].pc \notin {"fail_ingest", "fail_dispatch"}
    /\ \A j \in JobSlots : jobs[j].pc # "fail"
    /\ \A r \in Replicas : poll[r].pc # "giveup"

FaultsShow == FaultsLimited \/ Faults = {}

BlameInv == Stored /\ (faults > 0 \/ Blameless)

\* A counted fault leaves its mark.
LEMMA FaultIsCounted ==
    ASSUME FaultsShow, faults \in Nat, NEW k, Fault(k)
    PROVE  faults' > 0
  BY DEF FaultsShow, Fault

\* The count of faults never goes back.
LEMMA FaultsStay ==
    ASSUME TInv, [Next]_vars
    PROVE  faults' \in {faults, faults + 1}
<1>1. ASSUME NEW k, Fault(k) PROVE faults' \in {faults, faults + 1}
  BY <1>1 DEF Fault
<1>2. ASSUME NEW x \in Runners, RunnerStep(x) PROVE UNCHANGED faults \/ \E k : Fault(k)
  BY <1>2 DEF RunnerStep, StorePDF, CreateRow, ClaimIngest, CheckStatus, Render, UploadPage, AddPages,
       CountPages, PostAccepted, PostUnanswered, PostRefused, Stamp, RecordFailure, LoadPages, NoFault, storeVars
<1>3. ASSUME NEW j \in JobSlots, JobStep(j) PROVE UNCHANGED faults \/ \E k : Fault(k)
  BY <1>3 DEF JobStep, RecognizePage, UpsertFails, PageFails, FlipDone, FlipFailed, NoFault
<1>4. ASSUME NEW r \in Replicas, PollStep(r) PROVE UNCHANGED faults \/ \E k : Fault(k)
  BY <1>4 DEF PollStep, Tick, Claim, NothingToClaim, ReadOCR, CallLLM, SaveAggregate, FlipExtracted,
       Requeue, GiveUp, Exhaust, Scan, Repair, EndTick, NoFault, storeVars
<1>5. UNCHANGED faults \/ \E k : Fault(k)
  BY <1>2, <1>3, <1>4 DEF Next, vars, storeVars, Upload, LoseJobs, Crash, Age, BackoffElapses
<1> QED
  BY <1>1, <1>5

\* A failure that is there stays as it is, and a new one is the janitor's.
HonestFailures == \A d \in Docs : docs'[d].status = "failed" => GivenUp(d)'

\* A statement that is not a MarkFailed makes no new failure.
LEMMA StatementSpares ==
    ASSUME TInv, NEW d \in Docs, NEW row, Exec(d, row),
           \A e \in Docs : docs[e].status = "failed" => GivenUp(e),
           row.status = "failed" => /\ docs[d].status = "failed"
                                    /\ row.failedStage = docs[d].failedStage
                                    /\ row.attempts = docs[d].attempts
    PROVE  HonestFailures
<1>1. docs'[d] = row /\ \A e \in Docs \ {d} : docs'[e] = docs[e]
  BY DEF Exec, TInv, TypeOK, StoreTypeOK
<1> QED
  BY <1>1 DEF HonestFailures, GivenUp

\* The statements that move a document on, one by one.
LEMMA OtherStatements ==
    ASSUME NEW row \in Row
    PROVE  \A new \in {UpdateStatus(row, "uploaded", "processing"), SetOCRDispatched(row),
                       MarkOCRDone(row), ClaimForExtraction(row), ReturnForRetry(row, TRUE),
                       ReturnForRetry(row, FALSE), UpdateStatus(row, "extracting", "extracted")} :
             new.status = "failed" => /\ row.status = "failed"
                                      /\ new.failedStage = row.failedStage
                                      /\ new.attempts = row.attempts
  BY DEF UpdateStatus, SetOCRDispatched, MarkOCRDone, ClaimForExtraction, ReturnForRetry, Row

\* Without a fault a runner meets no error: the PDF it fetches is there.
LEMMA RunnerIsBlameless ==
    ASSUME TInv, Inductive, Stored, Blameless, NEW x \in Runners, RunnerStep(x), \A k : ~Fault(k)
    PROVE  HonestFailures /\ \A y \in Runners : ing'[y].pc \notin {"fail_ingest", "fail_dispatch"}
<1>1. ing \in [Runners -> Runner] /\ ing[x].pc \notin {"fail_ingest", "fail_dispatch"}
  BY DEF TInv, TypeOK, IngestTypeOK, Blameless
<1>2. PICK d \in Docs : d = ing[x].doc /\ docs[d] \in Row
  BY RunnerRow DEF RunnerStep, StorePDF, CreateRow, ClaimIngest, CheckStatus, Render, UploadPage, AddPages,
       CountPages, PostAccepted, PostUnanswered, PostRefused, Stamp, RecordFailure, LoadPages
<1>3. HonestFailures
  <2>1. CASE UNCHANGED docs
    BY <2>1 DEF Blameless, HonestFailures, GivenUp
  <2>2. CASE \/ CreateRow(x) /\ Exec(d, Create(docs[d]))
             \/ ClaimIngest(x) /\ Exec(d, UpdateStatus(docs[d], "uploaded", "processing"))
             \/ CountPages(x) /\ Exec(d, SetPageCount(docs[d], ing[x].n))
             \/ Stamp(x) /\ Exec(d, SetOCRDispatched(docs[d]))
    <3>1. Create(docs[d]).status # "failed" /\ ing[x].n \in Int
      BY <1>1, PagesAssumption DEF Create, NoRow, Runner
    <3>2. \A e \in Docs : docs[e].status = "failed" => GivenUp(e)
      BY DEF Blameless
    <3> HIDE DEF HonestFailures
    <3>3. CASE Exec(d, Create(docs[d]))
      BY <3>1, <3>2, <3>3, StatementSpares
    <3>4. CASE Exec(d, UpdateStatus(docs[d], "uploaded", "processing"))
      BY <1>2, <3>2, <3>4, StatementSpares, OtherStatements
    <3>5. CASE Exec(d, SetPageCount(docs[d], ing[x].n))
      <4>1. PICK new : new = SetPageCount(docs[d], ing[x].n)
        OBVIOUS
      <4>2. /\ new.status = docs[d].status
            /\ new.failedStage = docs[d].failedStage
            /\ new.attempts = docs[d].attempts
        BY <1>2, <4>1 DEF SetPageCount, Row
      <4> QED
        BY <3>2, <3>5, <4>1, <4>2, StatementSpares
    <3>6. CASE Exec(d, SetOCRDispatched(docs[d]))
      BY <1>2, <3>2, <3>6, StatementSpares, OtherStatements
    <3> QED
      BY <2>2, <3>3, <3>4, <3>5, <3>6
  <2> QED
    BY <1>1, <1>2, <2>1, <2>2 DEF RunnerStep, StorePDF, CreateRow, ClaimIngest, CheckStatus, Render,
         UploadPage, AddPages, CountPages, PostAccepted, PostUnanswered, PostRefused, Stamp,
         RecordFailure, LoadPages, storeVars
<1>4. \A y \in Runners \ {x} : ing'[y] = ing[y]
  BY <1>1 DEF RunnerStep, StorePDF, CreateRow, ClaimIngest, CheckStatus, Render, UploadPage, AddPages,
         CountPages, PostAccepted, PostUnanswered, PostRefused, Stamp, RecordFailure, LoadPages,
         Goto, EndRunner, PostFailed
<1>5. ing'[x].pc \notin {"fail_ingest", "fail_dispatch"}
  <2>1. CASE Render(x)
    <3>1. PDF \in bucket[ing[x].doc]
      BY <1>2, <2>1 DEF Inductive, RunnerInv, Render, Stored
    <3> QED
      BY <1>1, <2>1, <3>1 DEF Render, Goto, Runner
  <2>2. CASE \/ StorePDF(x) \/ CreateRow(x) \/ ClaimIngest(x) \/ CheckStatus(x)
             \/ AddPages(x) \/ CountPages(x) \/ Stamp(x)
    BY <1>1, <2>2 DEF StorePDF, CreateRow, ClaimIngest, CheckStatus, AddPages, CountPages, Stamp,
         Goto, EndRunner, IdleRunner, Runner
  <2>3. CASE UploadPage(x) \/ LoadPages(x) \/ \E j \in JobSlots : PostAccepted(x, j)
    BY <1>1, <2>3 DEF UploadPage, LoadPages, PostAccepted, Goto, EndRunner, IdleRunner, Runner
  <2> QED
    BY <1>1, <2>1, <2>2, <2>3 DEF RunnerStep, PostUnanswered, PostRefused, RecordFailure
<1> QED
  BY <1>3, <1>4, <1>5 DEF Blameless

\* Without a fault a job finds every page image and does not fail.
LEMMA JobIsBlameless ==
    ASSUME TInv, Inductive, Blameless, NEW j \in JobSlots, JobStep(j), \A k : ~Fault(k)
    PROVE  HonestFailures /\ \A i \in JobSlots : jobs'[i].pc # "fail"
<1>1. jobs \in [JobSlots -> Job] /\ JobInv(j) /\ JobRange(j) /\ jobs[j].pc # "fail"
  BY DEF TInv, TypeOK, OcrTypeOK, Inductive, Ranges, Blameless
<1>2. ~PageFails(j)
  BY <1>1 DEF PageFails, JobInv, Ingested, Objects, Job
<1>3. \/ /\ jobs[j].pc # "free" /\ Exec(jobs[j].doc, MarkOCRDone(docs[jobs[j].doc]))
         /\ EndJob(j)
      \/ /\ UNCHANGED docs
         /\ \E p : jobs' = [jobs EXCEPT ![j].todo = @ \ {p}]
  BY <1>1, <1>2 DEF JobStep, RecognizePage, UpsertFails, FlipDone, FlipFailed
<1>4. HonestFailures
  <2>1. CASE UNCHANGED docs
    BY <2>1 DEF Blameless, HonestFailures, GivenUp
  <2>2. CASE jobs[j].pc # "free" /\ Exec(jobs[j].doc, MarkOCRDone(docs[jobs[j].doc]))
    <3>1. PICK d \in Docs : d = jobs[j].doc /\ docs[d] \in Row
      BY <1>1, <2>2 DEF JobRange, TInv, TypeOK, StoreTypeOK
    <3>2. \A e \in Docs : docs[e].status = "failed" => GivenUp(e)
      BY DEF Blameless
    <3> QED
      BY <2>2, <3>1, <3>2, StatementSpares, OtherStatements
  <2> QED
    BY <1>3, <2>1, <2>2
<1> QED
  BY <1>1, <1>3, <1>4 DEF Blameless, EndJob, FreeJob, Job

\* A poller starts a runner only for the janitor's repairs.
LEMMA PollStarts ==
    ASSUME NEW r \in Replicas, PollStep(r)
    PROVE  UNCHANGED ing \/ \E d : Start(r, d, r, "claim", FALSE) \/ Start(r, d, r, "reload", TRUE)
<1>1. CASE Repair(r)
  <2>1. PICK item \in poll[r].list :
            \/ Start(r, item.doc, r, "claim", FALSE)
            \/ Start(r, item.doc, r, "reload", TRUE)
            \/ ing' = ing
    BY <1>1 DEF Repair
  <2> QED
    BY <2>1
<1>2. CASE ~Repair(r)
  BY <1>2 DEF PollStep, Tick, Claim, NothingToClaim, ReadOCR, CallLLM, SaveAggregate, FlipExtracted,
       Requeue, GiveUp, Exhaust, Scan, EndTick
<1> QED
  BY <1>1, <1>2

\* Without a fault a poller only fails what has used up its attempts.
LEMMA PollIsBlameless ==
    ASSUME TInv, Inductive, Blameless, NEW r \in Replicas, PollStep(r), \A k : ~Fault(k)
    PROVE  /\ HonestFailures
           /\ \A s \in Replicas : poll'[s].pc # "giveup"
           /\ \A y \in Runners : ing'[y].pc \notin {"fail_ingest", "fail_dispatch"}
<1> USE AttemptsAssumption
<1>1. /\ poll \in [Replicas -> PollState] /\ docs \in [Docs -> Row] /\ ing \in [Runners -> Runner]
      /\ PollInv(r) /\ PollRange(r) /\ poll[r].pc # "giveup"
  BY DEF TInv, TypeOK, PollTypeOK, IngestTypeOK, StoreTypeOK, Inductive, Ranges, Blameless
<1>2. \A e \in Docs : docs[e].status = "failed" => GivenUp(e)
  BY DEF Blameless
<1>3. HonestFailures
  <2>1. CASE UNCHANGED docs
    BY <1>2, <2>1 DEF HonestFailures, GivenUp
  <2>2. CASE Exhaust(r)
    <3>1. \A d \in Docs : docs'[d] = FailExhausted(docs[d])
      BY <2>1, <2>2 DEF Exhaust
    <3> SUFFICES ASSUME NEW d \in Docs, docs'[d].status = "failed" PROVE GivenUp(d)'
      BY DEF HonestFailures
    <3>2. docs[d] \in Row /\ docs'[d] = FailExhausted(docs[d])
      BY <1>1, <3>1
    <3> QED
      BY <1>2, <3>2 DEF FailExhausted, GivenUp, Row
  <2>3. CASE \E d \in Docs : \/ Exec(d, ClaimForExtraction(docs[d]))
                             \/ Exec(d, UpdateStatus(docs[d], "extracting", "extracted"))
                             \/ Exec(d, ReturnForRetry(docs[d], TRUE))
                             \/ Exec(d, ReturnForRetry(docs[d], FALSE))
    <3>1. PICK d \in Docs : \/ Exec(d, ClaimForExtraction(docs[d]))
                            \/ Exec(d, UpdateStatus(docs[d], "extracting", "extracted"))
                            \/ Exec(d, ReturnForRetry(docs[d], TRUE))
                            \/ Exec(d, ReturnForRetry(docs[d], FALSE))
      BY <2>3
    <3>2. docs[d] \in Row
      BY <1>1
    <3> QED
      BY <1>2, <3>1, <3>2, StatementSpares, OtherStatements
  <2>4. ASSUME FlipExtracted(r) \/ Requeue(r)
        PROVE  poll[r].doc \in Docs
    BY <1>1, <2>4 DEF FlipExtracted, Requeue, PollRange, Extracting
  <2>5. ASSUME Repair(r), ~UNCHANGED docs
        PROVE  \E d \in Docs : Exec(d, ReturnForRetry(docs[d], FALSE))
    <3>1. PICK item \in poll[r].list : Exec(item.doc, ReturnForRetry(docs[item.doc], FALSE))
      BY <2>5 DEF Repair
    <3>2. item.doc \in Docs
      BY <1>1 DEF PollState
    <3> QED
      BY <3>1, <3>2
  <2> QED
    BY <1>1, <2>1, <2>2, <2>3, <2>4, <2>5 DEF PollStep, Tick, Claim, NothingToClaim, ReadOCR, CallLLM,
         SaveAggregate, FlipExtracted, Requeue, GiveUp, Scan, EndTick, storeVars
<1>4. \A s \in Replicas \ {r} : poll'[s] = poll[s]
  BY <1>1 DEF PollStep, Tick, Claim, NothingToClaim, ReadOCR, CallLLM, SaveAggregate, FlipExtracted,
         Requeue, GiveUp, Exhaust, Scan, Repair, EndTick, PollGoto, NextClaim
<1>5. poll'[r].pc # "giveup"
  <2>1. CASE ReadOCR(r)
    <3>1. ocrResults[poll[r].doc] = PageNums /\ 1 \in PageNums
      BY <1>1, <2>1, PagesAssumption DEF PollInv, Extracting, ReadOCR, HasWholeText, PageNums
    <3> QED
      BY <1>1, <2>1, <3>1 DEF ReadOCR, PollState
  <2>2. CASE Claim(r) \/ Scan(r) \/ Repair(r)
    <3>1. \/ \E pc \in {"exhaust", "idle"} : PollGoto(r, pc)
          \/ \E d, c : poll' = [poll EXCEPT ![r].pc = "read", ![r].doc = d, ![r].claim = c]
          \/ \E L : poll' = [poll EXCEPT ![r].pc = "janitor", ![r].list = L]
          \/ \E L : poll' = [poll EXCEPT ![r].list = L]
      <4>1. CASE Claim(r)
        BY <4>1 DEF Claim
      <4>2. CASE Scan(r)
        BY <4>2 DEF Scan
      <4>3. CASE Repair(r)
        BY <4>3 DEF Repair
      <4> QED
        BY <2>2, <4>1, <4>2, <4>3
    <3> QED
      BY <1>1, <3>1 DEF PollGoto, PollState
  <2>3. CASE \/ Tick(r) \/ NothingToClaim(r) \/ CallLLM(r) \/ SaveAggregate(r) \/ FlipExtracted(r)
             \/ Requeue(r) \/ Exhaust(r) \/ EndTick(r)
    BY <1>1, <2>3 DEF Tick, NothingToClaim, CallLLM, SaveAggregate, FlipExtracted, Requeue, Exhaust,
         EndTick, PollGoto, NextClaim, IdlePoll, PollState
  <2> QED
    BY <1>1, <2>1, <2>2, <2>3 DEF PollStep, GiveUp
<1>6. \A y \in Runners : ing'[y].pc \notin {"fail_ingest", "fail_dispatch"}
  <2>1. CASE UNCHANGED ing
    BY <2>1 DEF Blameless
  <2>2. CASE \E d : Start(r, d, r, "claim", FALSE) \/ Start(r, d, r, "reload", TRUE)
    BY <1>1, <2>2 DEF Start, IdleRunner, Blameless
  <2>3. UNCHANGED ing \/ \E d : Start(r, d, r, "claim", FALSE) \/ Start(r, d, r, "reload", TRUE)
    BY PollStarts
  <2> QED
    BY <2>1, <2>2, <2>3
<1> QED
  BY <1>3, <1>4, <1>5, <1>6 DEF Blameless

\* Every row keeps its PDF, and gets it before it is inserted.
LEMMA StoredKept ==
    ASSUME TInv, Inductive, Stored, [Next]_vars
    PROVE  Stored'
<1>1. TInv'
  BY StepTypes
<1>2. AllGrow
  <2>1. CASE UNCHANGED vars
    <3>1. \A d \in Docs : Effect(d) /\ DataGrows(d) /\ matriculas'[d] = matriculas[d]
      BY <2>1 DEF vars, storeVars, Effect, DataGrows
    <3> QED
      BY <1>1, <3>1, RowsKept
  <2>2. CASE Next
    <3>1. \A d \in Docs : Effect(d) /\ DataGrows(d) /\ (matriculas'[d] = matriculas[d] \/ Saves(d))
      BY <2>2, JobEffects, RunnerEffects, PollEffects, OtherEffects DEF Next
    <3> QED
      BY <1>1, <3>1, RowsKept
  <2> QED
    BY <2>1, <2>2
<1>3. ASSUME NEW d \in Docs, docs'[d].status # "absent" PROVE PDF \in bucket'[d]
  <2>1. CASE docs[d].status # "absent"
    BY <1>2, <2>1 DEF AllGrow, DataGrows, Stored
  <2>2. CASE CreateRow(d)
    <3>1. d \in Runners /\ ing[d].pc = "create" /\ ing[d].doc = d
      BY <2>2 DEF CreateRow, Runners, Inductive, RunnerInv
    <3> QED
      BY <1>2, <3>1 DEF AllGrow, DataGrows, Stored
  <2> QED
    BY <1>2, <1>3, <2>1, <2>2 DEF AllGrow, RowGrows
<1>4. ASSUME NEW y \in Runners, ing'[y].pc = "create" PROVE PDF \in bucket'[ing'[y].doc]
  <2>1. ing \in [Runners -> Runner]
    BY DEF TInv, TypeOK, IngestTypeOK
  <2>2. CASE ing'[y] = ing[y]
    <3>1. ing[y].doc \in Docs
      BY <1>4, <2>2, RunnerRow
    <3> QED
      BY <1>2, <1>4, <2>2, <3>1 DEF AllGrow, DataGrows, Stored
  <2>3. CASE RunnerStep(y)
    <3>1. CASE StorePDF(y)
      <4>1. ing[y].doc \in Docs
        BY <3>1, RunnerRow DEF StorePDF
      <4>2. /\ bucket' = [bucket EXCEPT ![ing[y].doc] = @ \cup {PDF}]
            /\ Goto(y, "create")
        BY <1>4, <2>1, <3>1 DEF StorePDF, EndRunner, IdleRunner
      <4>3. bucket \in [Docs -> SUBSET Objects]
        BY DEF TInv, TypeOK, StoreTypeOK
      <4> QED
        BY <2>1, <4>1, <4>2, <4>3 DEF Goto, Runner
    <3>2. CASE ~StorePDF(y)
      <4>1. ing'[y].pc # "create"
        BY <2>1, <2>3, <3>2 DEF RunnerStep, CreateRow, ClaimIngest, CheckStatus, Render, UploadPage,
             AddPages, CountPages, PostAccepted, PostUnanswered, PostRefused, Stamp, RecordFailure,
             LoadPages, Goto, EndRunner, PostFailed, IdleRunner, Runner
      <4> QED
        BY <1>4, <4>1
    <3> QED
      BY <3>1, <3>2
  <2>4. ASSUME NEW x \in Runners, RunnerStep(x), x # y PROVE ing'[y] = ing[y]
    BY <2>1, <2>4 DEF RunnerStep, StorePDF, CreateRow, ClaimIngest, CheckStatus, Render, UploadPage, AddPages,
         CountPages, PostAccepted, PostUnanswered, PostRefused, Stamp, RecordFailure, LoadPages,
         Goto, EndRunner, PostFailed
  <2>5. ASSUME NEW r \in Replicas, PollStep(r) PROVE ing'[y] = ing[y]
    <3>1. CASE \E d : Start(r, d, r, "claim", FALSE) \/ Start(r, d, r, "reload", TRUE)
      BY <1>4, <2>1, <3>1 DEF Start, IdleRunner
    <3> QED
      BY <2>5, <3>1, PollStarts
  <2>6. ASSUME NEW r \in Replicas, Crash(r) PROVE ing'[y] = ing[y]
    BY <1>4, <2>1, <2>6 DEF Crash, IdleRunner
  <2>7. ASSUME NEW d \in Docs, NEW r \in Replicas, Upload(d, r) PROVE ing'[y] = ing[y]
    BY <1>4, <2>1, <2>7 DEF Upload, Start, IdleRunner
  <2>8. \/ ing'[y] = ing[y] \/ \E x \in Runners : RunnerStep(x)
    BY <2>5, <2>6, <2>7 DEF Next, vars, LoseJobs, Age, BackoffElapses
  <2> QED
    BY <2>2, <2>3, <2>4, <2>8
<1> QED
  BY <1>3, <1>4 DEF Stored

\* As long as no fault is counted, nobody is to blame.
LEMMA BlameKept ==
    ASSUME FaultsShow, TInv, Inductive, BlameInv, [Next]_vars
    PROVE  BlameInv'
<1>1. faults \in Nat /\ faults' \in {faults, faults + 1}
  BY FaultsStay DEF TInv, TypeOK, StoreTypeOK
<1>2. Stored'
  BY StoredKept DEF BlameInv
<1>3. CASE faults' > 0
  BY <1>2, <1>3 DEF BlameInv
<1>4. CASE ~(faults' > 0)
  <2>1. Stored /\ Blameless
    BY <1>1, <1>4 DEF BlameInv
  <2>2. \A k : ~Fault(k)
    BY <1>1, <1>4, FaultIsCounted
  <2>3. CASE UNCHANGED docs /\ UNCHANGED jobs /\ UNCHANGED ing /\ UNCHANGED poll
    BY <1>2, <2>1, <2>3 DEF BlameInv, Blameless, GivenUp
  <2>4. ASSUME NEW x \in Runners, RunnerStep(x), UNCHANGED poll PROVE Blameless'
    <3>1. jobs \in [JobSlots -> Job]
      BY DEF TInv, TypeOK, OcrTypeOK
    <3>2. \A j \in JobSlots : jobs'[j].pc # "fail"
      BY <2>1, <2>4, <3>1 DEF RunnerStep, StorePDF, CreateRow, ClaimIngest, CheckStatus, Render, UploadPage,
           AddPages, CountPages, PostAccepted, PostUnanswered, PostRefused, Stamp, RecordFailure,
           LoadPages, Accept, Blameless, storeVars
    <3> QED
      BY <2>1, <2>2, <2>4, <3>2, RunnerIsBlameless DEF Blameless, HonestFailures
  <2>5. ASSUME NEW j \in JobSlots, JobStep(j), UNCHANGED <<ing, poll>> PROVE Blameless'
    BY <2>1, <2>2, <2>5, JobIsBlameless DEF Blameless, HonestFailures
  <2>6. ASSUME NEW r \in Replicas, PollStep(r) PROVE Blameless'
    <3>1. UNCHANGED jobs
      BY <2>6 DEF PollStep, Tick, Claim, NothingToClaim, ReadOCR, CallLLM, SaveAggregate, FlipExtracted,
         Requeue, GiveUp, Exhaust, Scan, Repair, EndTick
    <3> QED
      BY <2>1, <2>2, <2>6, <3>1, PollIsBlameless DEF Blameless, HonestFailures
  <2>7. ASSUME NEW d \in Docs, Age(d) \/ BackoffElapses(d) PROVE Blameless'
    <3>1. docs \in [Docs -> Row]
      BY DEF TInv, TypeOK, StoreTypeOK
    <3>2. /\ \A e \in Docs : /\ docs'[e].status = docs[e].status
                             /\ docs'[e].failedStage = docs[e].failedStage
                             /\ docs'[e].attempts = docs[e].attempts
          /\ UNCHANGED <<jobs, ing, poll>>
      BY <2>7, <3>1 DEF Age, BackoffElapses, Row
    <3> QED
      BY <2>1, <3>2 DEF Blameless, GivenUp
  <2>8. ASSUME NEW d \in Docs, NEW r \in Replicas, Upload(d, r), UNCHANGED poll PROVE Blameless'
    <3>1. ing \in [Runners -> Runner]
      BY DEF TInv, TypeOK, IngestTypeOK
    <3>2. UNCHANGED <<docs, jobs>> /\ \A y \in Runners : ing'[y] = ing[y] \/ ing'[y].pc = "upload"
      BY <2>8, <3>1 DEF Upload, storeVars, Start, IdleRunner
    <3> QED
      BY <2>1, <2>8, <3>2 DEF Blameless, GivenUp
  <2>9. ~LoseJobs /\ \A r \in Replicas : ~Crash(r)
    BY <2>2 DEF LoseJobs, Crash
  <2>10. CASE Next
    <3>1. Blameless'
      <4>1. \/ \E d \in Docs, r \in Replicas : Upload(d, r) /\ UNCHANGED poll
            \/ \E x \in Runners : RunnerStep(x) /\ UNCHANGED poll
            \/ \E j \in JobSlots : JobStep(j) /\ UNCHANGED <<ing, poll>>
            \/ \E r \in Replicas : PollStep(r)
            \/ \E d \in Docs : Age(d) \/ BackoffElapses(d)
        BY <2>9, <2>10 DEF Next
      <4> QED
        BY <2>4, <2>5, <2>6, <2>7, <2>8, <4>1
    <3> QED
      BY <1>2, <3>1 DEF BlameInv
  <2> QED
    BY <2>3, <2>10 DEF vars, storeVars
<1> QED
  BY <1>3, <1>4

\* Where faults are counted, or there are none: a document fails before its
\* attempts are used up only after a fault.  Duplicate ingests, dispatches and
\* OCR jobs never make a document fail (ingest.Process, worker.process).
THEOREM FailuresNeedFaults ==
    ASSUME FaultsShow
    PROVE  Spec => []FailureNeedsFault
<1>1. Init => BlameInv
  BY DEF Init, StoreInit, OcrInit, IngestInit, PollInit, NoRow, IdleRunner, FreeJob, IdlePoll,
       BlameInv, Stored, Blameless
<1>2. Init => TInv /\ Inductive
  BY InitTypes, InitInductive
<1>3. TInv /\ Inductive /\ [Next]_vars => (TInv /\ Inductive)'
  BY StepTypes, StepInductive
<1>4. TInv /\ Inductive /\ BlameInv /\ [Next]_vars => BlameInv'
  BY BlameKept
<1>5. BlameInv => FailureNeedsFault
  BY DEF BlameInv, Blameless, FailureNeedsFault
<1> QED
  BY <1>1, <1>2, <1>3, <1>4, <1>5, PTL DEF Spec
==============================================================================
