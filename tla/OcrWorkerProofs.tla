---------------------------- MODULE OcrWorkerProofs ----------------------------
(***************************************************************************)
(* The job of the OCR service, for any number of pages, page goroutines    *)
(* and jobs.  WorkGood says what the goroutines of one job agree on: which *)
(* pages have been started, why one has returned, and what canceled the    *)
(* context.  It is stated of a record, so that each step is a lemma about  *)
(* two records, whatever the other jobs do.                                *)
(***************************************************************************)
EXTENDS OcrWorker, TLAPS

Reading == {"fetch", "ask", "pause", "again"}
Living  == Reading \cup {"writing", "error"}

Live(w) == {p \in PageNums : w.page[p] \in Living}
Over(w) == w.expired \/ w.firstErr # "none"

\* The loop starts pages in order; a page that has returned was written or has
\* left an error; an error of a done context comes after what ended it.
PageGood(w, p) ==
    /\ p < w.next <=> w.page[p] # "unsent"
    /\ w.page[p] = "returned" => p \in w.written \/ w.firstErr # "none"
    /\ w.page[p] \in Reading \cup {"unsent", "writing"} => p \notin w.written
    /\ w.page[p] = "error" =>
         /\ w.err[p] # "none"
         /\ w.err[p] = "canceled" => w.firstErr # "none"
         /\ w.err[p] = "deadline" => w.expired

WorkGood(w) ==
    /\ w.pc = "free" => w = NoWork
    /\ w.pc # "free" => w.doc \in Docs
    /\ w.pc = "loop" => w.next <= NumPages
    /\ w.pc = "wait" => w.next = NumPages + 1 \/ Over(w)
    /\ w.pc \in {"flip", "fail", "free"} => Live(w) = {}
    /\ w.pc = "flip" => w.written = PageNums
    /\ w.pc = "fail" => Over(w) /\ w.firstErr # "store"
    /\ w.firstErr # "canceled"
    /\ w.firstErr = "deadline" => w.expired
    /\ \A p \in PageNums : PageGood(w, p)

\* A free slot.
LEMMA FreeIsGood == NoWork \in Work /\ WorkGood(NoWork)
<1>1. NoWork \in Work
  BY PagesAssumption DEF NoWork, Work, PageNums, PageState
<1>2. Live(NoWork) = {}
  BY DEF NoWork, Live, Living, Reading
<1>3. \A p \in PageNums : PageGood(NoWork, p)
  BY DEF NoWork, PageGood, Reading, PageNums
<1> QED
  BY <1>1, <1>2, <1>3 DEF WorkGood, NoWork

\* A page goroutine is only at work while process starts pages or waits.
LEMMA LiveMeansRunning ==
    ASSUME NEW w \in Work, WorkGood(w), NEW p \in PageNums, w.page[p] \in Living
    PROVE  w.pc \in {"loop", "wait"}
  BY DEF WorkGood, Live, Work

\* A page goroutine goes on to state s, or to an error that its context allows.
LEMMA PageMoves ==
    ASSUME NEW w \in Work, WorkGood(w), NEW p \in PageNums, w.page[p] \in Reading,
           NEW s \in Reading \cup {"writing"}
    PROVE  [w EXCEPT !.page[p] = s] \in Work /\ WorkGood([w EXCEPT !.page[p] = s])
<1> DEFINE v == [w EXCEPT !.page[p] = s]
<1>1. /\ v \in Work /\ v.pc = w.pc /\ v.doc = w.doc /\ v.next = w.next /\ v.err = w.err /\ v.firstErr = w.firstErr
      /\ v.expired = w.expired /\ v.written = w.written /\ v.page[p] = s
      /\ \A q \in PageNums \ {p} : v.page[q] = w.page[q]
  BY DEF Work, PageState, Reading
<1>2. w.pc \in {"loop", "wait"}
  BY LiveMeansRunning DEF Living
<1> HIDE DEF v
<1>3. \A q \in PageNums : PageGood(v, q)
  <2>1. PageGood(v, p)
    BY <1>1 DEF WorkGood, PageGood, Reading
  <2>2. \A q \in PageNums \ {p} : PageGood(v, q)
    BY <1>1 DEF WorkGood, PageGood
  <2> QED
    BY <2>1, <2>2
<1>4. WorkGood(v)
  BY <1>1, <1>2, <1>3 DEF WorkGood, Over
<1> QED
  BY <1>1, <1>4 DEF v

Failed(w, p, k)          == [w EXCEPT !.page[p] = "error", !.err[p] = k]
FailedLate(w, p, k, put) == [w EXCEPT !.page[p] = "error", !.err[p] = k, !.written = @ \cup put]

\* A page goroutine gets an error, its row written or not.
LEMMA PageErrs ==
    ASSUME NEW w \in Work, WorkGood(w), NEW p \in PageNums, w.page[p] \in Reading \cup {"writing"},
           NEW k \in Errors, k = "canceled" => w.firstErr # "none", k = "deadline" => w.expired,
           NEW put \in SUBSET {p}
    PROVE  FailedLate(w, p, k, put) \in Work /\ WorkGood(FailedLate(w, p, k, put))
<1> DEFINE v == FailedLate(w, p, k, put)
<1>1. /\ v \in Work /\ v.pc = w.pc /\ v.doc = w.doc /\ v.next = w.next /\ v.firstErr = w.firstErr
      /\ v.expired = w.expired /\ v.written = w.written \cup put /\ v.page[p] = "error" /\ v.err[p] = k
      /\ \A q \in PageNums \ {p} : v.page[q] = w.page[q] /\ v.err[q] = w.err[q]
  BY DEF Work, PageState, FailedLate
<1>2. w.pc \in {"loop", "wait"}
  BY LiveMeansRunning DEF Living
<1> HIDE DEF v
<1>3. \A q \in PageNums : PageGood(v, q)
  <2>1. PageGood(v, p)
    BY <1>1 DEF WorkGood, PageGood, Reading, Errors
  <2>2. \A q \in PageNums \ {p} : PageGood(v, q)
    BY <1>1 DEF WorkGood, PageGood
  <2> QED
    BY <2>1, <2>2
<1>4. WorkGood(v)
  BY <1>1, <1>2, <1>3 DEF WorkGood, Over
<1> QED
  BY <1>1, <1>4 DEF v

\* The same without a row.
LEMMA PageErrsEarly ==
    ASSUME NEW w \in Work, WorkGood(w), NEW p \in PageNums, w.page[p] \in Reading \cup {"writing"},
           NEW k \in Errors, k = "canceled" => w.firstErr # "none", k = "deadline" => w.expired
    PROVE  /\ Failed(w, p, k) \in Work /\ WorkGood(Failed(w, p, k))
           /\ Failed(w, p, k).doc = w.doc /\ Failed(w, p, k).written = w.written
<1>1. w.written \cup {} = w.written
  OBVIOUS
<1>2. FailedLate(w, p, k, {}) = Failed(w, p, k)
  BY <1>1 DEF Work, Failed, FailedLate
<1>3. {} \in SUBSET {p}
  OBVIOUS
<1>4. FailedLate(w, p, k, {}) \in Work /\ WorkGood(FailedLate(w, p, k, {}))
  BY <1>3, PageErrs
<1> QED
  BY <1>2, <1>4 DEF Failed, Work

\* A page goroutine returns with its row written.
LEMMA PageReturns ==
    ASSUME NEW w \in Work, WorkGood(w), NEW p \in PageNums, w.page[p] = "writing"
    PROVE  LET v == [w EXCEPT !.page[p] = "returned", !.written = @ \cup {p}]
           IN  v \in Work /\ WorkGood(v)
<1> DEFINE v == [w EXCEPT !.page[p] = "returned", !.written = @ \cup {p}]
<1>1. /\ v \in Work /\ v.pc = w.pc /\ v.doc = w.doc /\ v.next = w.next /\ v.err = w.err /\ v.firstErr = w.firstErr
      /\ v.expired = w.expired /\ v.written = w.written \cup {p} /\ v.page[p] = "returned"
      /\ \A q \in PageNums \ {p} : v.page[q] = w.page[q]
  BY DEF Work, PageState
<1>2. w.pc \in {"loop", "wait"}
  BY LiveMeansRunning DEF Living
<1> HIDE DEF v
<1>3. \A q \in PageNums : PageGood(v, q)
  <2>1. PageGood(v, p)
    BY <1>1 DEF WorkGood, PageGood, Reading
  <2>2. \A q \in PageNums \ {p} : PageGood(v, q)
    BY <1>1 DEF WorkGood, PageGood
  <2> QED
    BY <2>1, <2>2
<1>4. WorkGood(v)
  BY <1>1, <1>2, <1>3 DEF WorkGood, Over
<1> QED
  BY <1>1, <1>4 DEF v

\* The first error is kept, the later ones are dropped.
LEMMA ErrorsAreRecorded ==
    ASSUME NEW w \in Work, WorkGood(w), NEW p \in PageNums, w.page[p] = "error"
    PROVE  LET v == [w EXCEPT !.page[p] = "returned", !.err[p] = "none",
                              !.firstErr = IF @ = "none" THEN w.err[p] ELSE @]
           IN  v \in Work /\ WorkGood(v)
<1> DEFINE v == [w EXCEPT !.page[p] = "returned", !.err[p] = "none",
                          !.firstErr = IF @ = "none" THEN w.err[p] ELSE @]
<1>1. w.err[p] \in Errors /\ w.firstErr \in Errors \cup {"none"}
  BY DEF WorkGood, PageGood, Work
<1>2. /\ v \in Work /\ v.pc = w.pc /\ v.doc = w.doc /\ v.next = w.next
      /\ v.firstErr = (IF w.firstErr = "none" THEN w.err[p] ELSE w.firstErr)
      /\ v.expired = w.expired /\ v.written = w.written /\ v.page[p] = "returned" /\ v.err[p] = "none"
      /\ \A q \in PageNums \ {p} : v.page[q] = w.page[q] /\ v.err[q] = w.err[q]
  BY <1>1 DEF Work, PageState
<1>3. w.pc \in {"loop", "wait"}
  BY LiveMeansRunning DEF Living
<1> HIDE DEF v
<1>4. v.firstErr # "none" /\ v.firstErr # "canceled" /\ (v.firstErr = "deadline" => v.expired)
  BY <1>1, <1>2 DEF WorkGood, PageGood, Errors
<1>5. \A q \in PageNums : PageGood(v, q)
  <2>1. PageGood(v, p)
    BY <1>2, <1>4 DEF WorkGood, PageGood, Reading
  <2>2. \A q \in PageNums \ {p} : PageGood(v, q)
    BY <1>2, <1>4 DEF WorkGood, PageGood
  <2> QED
    BY <2>1, <2>2
<1>6. WorkGood(v)
  BY <1>2, <1>3, <1>4, <1>5 DEF WorkGood, Over
<1> QED
  BY <1>2, <1>6 DEF v

\* The loop starts its next page.
LEMMA PageStarts ==
    ASSUME NEW w \in Work, WorkGood(w), w.pc = "loop", NEW s \in Reading
    PROVE  LET v == [w EXCEPT !.page[w.next] = s, !.next = @ + 1,
                              !.pc = IF w.next = NumPages THEN "wait" ELSE "loop"]
           IN  v \in Work /\ WorkGood(v)
<1> DEFINE v == [w EXCEPT !.page[w.next] = s, !.next = @ + 1,
                          !.pc = IF w.next = NumPages THEN "wait" ELSE "loop"]
<1> USE PagesAssumption
<1>1. w.next \in PageNums /\ w.next + 1 \in 1 .. NumPages + 1 /\ w.next \in Nat
  BY DEF WorkGood, Work, PageNums
<1>2. PICK n \in PageNums : n = w.next
  BY <1>1
<1>3. /\ v \in Work /\ v.pc = (IF n = NumPages THEN "wait" ELSE "loop") /\ v.doc = w.doc /\ v.next = n + 1
      /\ v.err = w.err /\ v.firstErr = w.firstErr
      /\ v.expired = w.expired /\ v.written = w.written /\ v.page[n] = s
      /\ \A q \in PageNums \ {n} : v.page[q] = w.page[q]
  BY <1>1, <1>2 DEF Work, PageState, Reading
<1> HIDE DEF v
<1>4. \A q \in PageNums : PageGood(v, q)
  <2>1. PageGood(v, n)
    BY <1>2, <1>3 DEF WorkGood, PageGood, Reading, PageNums
  <2>2. ASSUME NEW q \in PageNums \ {n} PROVE PageGood(v, q)
    <3>1. q < n + 1 <=> q < n
      BY DEF PageNums
    <3> QED
      BY <1>2, <1>3, <3>1 DEF WorkGood, PageGood
  <2> QED
    BY <2>1, <2>2
<1>5. n \in Int /\ (n # NumPages => n + 1 <= NumPages)
  BY <1>2 DEF PageNums
<1>6. WorkGood(v)
  BY <1>3, <1>4, <1>5 DEF WorkGood, Over
<1> QED
  BY <1>3, <1>6 DEF v

\* The deadline passes, before or after the verdict.
LEMMA DeadlinePasses ==
    ASSUME NEW w \in Work, WorkGood(w), w.pc # "free"
    PROVE  [w EXCEPT !.expired = TRUE] \in Work /\ WorkGood([w EXCEPT !.expired = TRUE])
<1> DEFINE v == [w EXCEPT !.expired = TRUE]
<1>1. /\ v \in Work /\ v.pc = w.pc /\ v.doc = w.doc /\ v.next = w.next /\ v.err = w.err /\ v.firstErr = w.firstErr
      /\ v.expired = TRUE /\ v.written = w.written /\ v.page = w.page
  BY DEF Work
<1> HIDE DEF v
<1>2. \A q \in PageNums : PageGood(v, q)
  BY <1>1 DEF WorkGood, PageGood
<1>3. Live(v) = Live(w)
  BY <1>1 DEF Live
<1>4. WorkGood(v)
  BY <1>1, <1>2, <1>3 DEF WorkGood, Over
<1> QED
  BY <1>1, <1>4 DEF v

\* process goes from one of its program points to the next.
LEMMA ProcessMoves ==
    ASSUME NEW w \in Work, WorkGood(w), NEW to \in {"wait", "flip", "fail"},
           \/ w.pc = "loop" /\ to = "wait" /\ Over(w)
           \/ w.pc = "wait" /\ Live(w) = {} /\ to = "flip" /\ ~Over(w)
           \/ w.pc = "wait" /\ Live(w) = {} /\ to = "fail" /\ Over(w) /\ w.firstErr # "store"
    PROVE  [w EXCEPT !.pc = to] \in Work /\ WorkGood([w EXCEPT !.pc = to])
<1> DEFINE v == [w EXCEPT !.pc = to]
<1>1. /\ v \in Work /\ v.pc = to /\ v.doc = w.doc /\ v.next = w.next /\ v.err = w.err /\ v.firstErr = w.firstErr
      /\ v.expired = w.expired /\ v.written = w.written /\ v.page = w.page
  BY DEF Work
<1> HIDE DEF v
<1>2. \A q \in PageNums : PageGood(v, q)
  BY <1>1 DEF WorkGood, PageGood
<1>3. Live(v) = Live(w) /\ (Over(v) <=> Over(w))
  BY <1>1 DEF Live, Over
<1>4. to = "flip" => w.written = PageNums
  <2> SUFFICES ASSUME to = "flip" PROVE w.written = PageNums
    OBVIOUS
  <2>1. w.next = NumPages + 1 /\ w.firstErr = "none" /\ Live(w) = {}
    BY DEF WorkGood, Over
  <2>2. ASSUME NEW q \in PageNums PROVE q \in w.written
    <3>1. q < NumPages + 1
      BY PagesAssumption DEF PageNums
    <3>2. PageGood(w, q) /\ w.page[q] \in PageState /\ w.page[q] \notin Living
      BY <2>1 DEF WorkGood, Live, Work
    <3>3. w.page[q] = "returned"
      BY <2>1, <3>1, <3>2 DEF PageGood, PageState, Living, Reading
    <3> QED
      BY <2>1, <3>2, <3>3 DEF PageGood
  <2> QED
    BY <2>2 DEF Work
<1>5. WorkGood(v)
  BY <1>1, <1>2, <1>3, <1>4 DEF WorkGood
<1> QED
  BY <1>1, <1>5 DEF v

(***************************************************************************)
(* The inductive invariant, and the steps.                                 *)
(***************************************************************************)
JobInv(j) ==
    /\ WorkGood(work[j])
    /\ work[j].pc # "free" => work[j].written \subseteq ocrResults[work[j].doc]

WorkerInv ==
    /\ WorkerTypeOK
    /\ \A j \in JobSlots : JobInv(j)
    /\ \A d \in Docs : bucket[d] = Objects

\* What every step does to the tables.
StoreStep ==
    /\ StoreTypeOK'
    /\ \A d \in Docs : ocrResults[d] \subseteq ocrResults'[d]
    /\ bucket' = bucket

\* A step of one job that leaves it good leaves all of them good.
LEMMA JobTurns ==
    ASSUME WorkerInv, NEW j \in JobSlots, NEW v \in Work, WorkGood(v),
           work' = [work EXCEPT ![j] = v], StoreStep, SameProcess,
           v.pc # "free" => v.written \subseteq ocrResults'[v.doc]
    PROVE  WorkerInv'
<1>1. WorkerTypeOK'
  BY DEF WorkerInv, WorkerTypeOK, StoreStep, SameProcess
<1>2. work'[j] = v /\ \A i \in JobSlots \ {j} : work'[i] = work[i]
  BY DEF WorkerInv, WorkerTypeOK
<1>3. JobInv(j)'
  BY <1>2 DEF JobInv
<1>4. ASSUME NEW i \in JobSlots \ {j} PROVE JobInv(i)'
  BY <1>2 DEF WorkerInv, JobInv, WorkGood, StoreStep
<1>5. \A i \in JobSlots : JobInv(i)'
  BY <1>3, <1>4
<1> QED
  BY <1>1, <1>5 DEF WorkerInv, StoreStep

\* The statements on documents keep the type of a row.
LEMMA FlipTypes ==
    ASSUME NEW row \in Row
    PROVE  /\ MarkOCRDone(row) \in Row /\ MarkOCRFailed(row) \in Row
           /\ MarkFailed(row, "processing", "ocr_dispatch") \in Row
           /\ Claimable(row) => ClaimForExtraction(row) \in Row
<1>1. MarkOCRDone(row) \in Row
  BY DEF MarkOCRDone, Row, Status
<1>2. \A stage \in Stages : MarkFailed(row, "processing", stage) \in Row
  BY DEF MarkFailed, Row, Status
<1>3. MarkOCRFailed(row) \in Row
  BY <1>2 DEF MarkOCRFailed, Stages
<1>4. Claimable(row) => row.attempts + 1 \in 0 .. MaxAttempts
  BY AttemptsAssumption DEF Claimable, Row
<1>5. Claimable(row) => ClaimForExtraction(row) \in Row
  BY <1>4 DEF ClaimForExtraction, Row, Status
<1> QED
  BY <1>1, <1>2, <1>3, <1>5 DEF Stages

\* A step that writes one row, one page of results, or nothing.
LEMMA TablesKept ==
    ASSUME WorkerInv, Untouched, faults' \in Nat,
           docs' \in [Docs -> Row],
           \/ ocrResults' = ocrResults
           \/ \E d \in Docs, p \in PageNums : ocrResults' = [ocrResults EXCEPT ![d] = @ \cup {p}]
    PROVE  StoreStep
<1>1. ocrResults' \in [Docs -> SUBSET PageNums] /\ \A d \in Docs : ocrResults[d] \subseteq ocrResults'[d]
  BY DEF WorkerInv, WorkerTypeOK, StoreTypeOK
<1> QED
  BY <1>1 DEF StoreStep, WorkerInv, WorkerTypeOK, StoreTypeOK, Untouched

\* A fault that is counted leaves a number.
LEMMA FaultCounted ==
    ASSUME WorkerInv, NEW k, Fault(k) \/ NoFault
    PROVE  faults' \in Nat
  BY DEF Fault, NoFault, WorkerInv, WorkerTypeOK, StoreTypeOK

\* What is known of a job before a step of it.
LEMMA JobBefore ==
    ASSUME WorkerInv, NEW j \in JobSlots
    PROVE  /\ work \in [JobSlots -> Work] /\ work[j] \in Work /\ WorkGood(work[j])
           /\ Alive(j) = Live(work[j]) /\ (CtxDone(j) <=> Over(work[j]))
           /\ work[j].pc # "free" => work[j].doc \in Docs /\ work[j].written \subseteq ocrResults[work[j].doc]
           /\ docs \in [Docs -> Row] /\ ocrResults \in [Docs -> SUBSET PageNums]
<1>1. Alive(j) = Live(work[j])
  BY DEF Alive, Live, Living, Reading
<1> QED
  BY <1>1 DEF WorkerInv, WorkerTypeOK, StoreTypeOK, JobInv, WorkGood, CtxDone, Over

\* Nothing but the job changes.
LEMMA OnlyTheJob ==
    ASSUME WorkerInv, NEW j \in JobSlots, NEW v \in Work, WorkGood(v),
           work' = [work EXCEPT ![j] = v], SameProcess, Untouched, UNCHANGED <<docs, ocrResults>>, faults' \in Nat,
           work[j].pc # "free" => v.doc = work[j].doc /\ v.written = work[j].written,
           work[j].pc = "free" => v.written = {}
    PROVE  WorkerInv'
<1>1. StoreStep
  BY TablesKept DEF WorkerInv, WorkerTypeOK, StoreTypeOK
<1>2. v.pc # "free" => v.written \subseteq ocrResults'[v.doc]
  BY JobBefore
<1> QED
  BY <1>1, <1>2, JobTurns

\* A page goroutine goes on, or ends in an error.
LEMMA PageStepKept ==
    ASSUME WorkerInv, NEW j \in JobSlots, NEW p \in PageNums,
           FetchPage(j, p) \/ AskModel(j, p) \/ BackOff(j, p) \/ AskAgain(j, p)
    PROVE  WorkerInv'
<1>1. /\ work[j].page[p] \in Reading
      /\ SameProcess /\ Untouched /\ UNCHANGED <<docs, ocrResults>>
      /\ \/ \E s \in Reading \cup {"writing"} : PageGoto(j, p, s)
         \/ \E k \in {"ocr", "timeout"} \cup ContextErrors(j) : PageError(j, p, k)
  BY DEF FetchPage, AskModel, BackOff, AskAgain, Reading, storeVars, Untouched
<1>2. \E k : Fault(k) \/ NoFault
  BY DEF FetchPage, AskModel, BackOff, AskAgain, storeVars, NoFault
<1>3. faults' \in Nat
  BY <1>2, FaultCounted
<1>4. work[j] \in Work /\ WorkGood(work[j]) /\ work[j].pc # "free"
  BY <1>1, JobBefore, LiveMeansRunning DEF Living
<1>5. ASSUME NEW s \in Reading \cup {"writing"}, PageGoto(j, p, s) PROVE WorkerInv'
  <2> DEFINE v == [work[j] EXCEPT !.page[p] = s]
  <2>1. v \in Work /\ WorkGood(v)
    BY <1>1, <1>4, PageMoves
  <2>2. work' = [work EXCEPT ![j] = v] /\ v.doc = work[j].doc /\ v.written = work[j].written
    BY <1>4, <1>5, JobBefore DEF PageGoto, Work
  <2> HIDE DEF v
  <2> QED
    BY <1>1, <1>3, <1>4, <2>1, <2>2, OnlyTheJob
<1>6. ASSUME NEW k \in {"ocr", "timeout"} \cup ContextErrors(j), PageError(j, p, k) PROVE WorkerInv'
  <2> DEFINE v == Failed(work[j], p, k)
  <2>1. k \in Errors /\ (k = "canceled" => work[j].firstErr # "none") /\ (k = "deadline" => work[j].expired)
    BY <1>6 DEF ContextErrors, Errors
  <2>2. v \in Work /\ WorkGood(v) /\ v.doc = work[j].doc /\ v.written = work[j].written
    BY <1>1, <1>4, <2>1, PageErrsEarly
  <2>3. work' = [work EXCEPT ![j] = v]
    BY <1>6 DEF PageError, Failed
  <2> HIDE DEF v
  <2> QED
    BY <1>1, <1>3, <1>4, <2>2, <2>3, OnlyTheJob
<1> QED
  BY <1>1, <1>5, <1>6

\* A page goroutine writes its row, or fails to, or may have.
LEMMA WritePageKept ==
    ASSUME WorkerInv, NEW j \in JobSlots, NEW p \in PageNums, WritePage(j, p)
    PROVE  WorkerInv'
<1>1. /\ work[j].page[p] = "writing" /\ SameProcess /\ Untouched /\ docs' = docs
      /\ work[j] \in Work /\ WorkGood(work[j]) /\ work[j].pc # "free" /\ work[j].doc \in Docs
      /\ work[j].written \subseteq ocrResults[work[j].doc]
  BY JobBefore, LiveMeansRunning DEF WritePage, Living
<1>2. \E k : Fault(k) \/ NoFault
  BY DEF WritePage
<1>3. faults' \in Nat
  BY <1>2, FaultCounted
<1> DEFINE upserted == [ocrResults EXCEPT ![work[j].doc] = @ \cup {p}]
           early == Failed(work[j], p, "store")
           late == FailedLate(work[j], p, "store", {p})
           good == [work[j] EXCEPT !.page[p] = "returned", !.written = @ \cup {p}]
<1>4. StoreStep
  <2>1. ocrResults' = ocrResults \/ ocrResults' = upserted
    BY DEF WritePage
  <2> QED
    BY <1>1, <1>3, <2>1, TablesKept, JobBefore
<1>5. early \in Work /\ WorkGood(early) /\ early.doc = work[j].doc /\ early.written = work[j].written
  BY <1>1, PageErrsEarly DEF Errors
<1>6. late \in Work /\ WorkGood(late) /\ late.doc = work[j].doc /\ late.written = work[j].written \cup {p}
  <2>1. "store" \in Errors /\ {p} \in SUBSET {p}
    BY DEF Errors
  <2>2. late \in Work /\ WorkGood(late)
    BY <1>1, <2>1, PageErrs
  <2> QED
    BY <1>1, <2>2 DEF Work, FailedLate
<1>7. good \in Work /\ WorkGood(good) /\ good.doc = work[j].doc /\ good.written = work[j].written \cup {p}
  <2>1. good \in Work /\ WorkGood(good)
    BY <1>1, PageReturns
  <2> QED
    BY <1>1, <2>1 DEF Work
<1>8. PICK v : /\ work' = [work EXCEPT ![j] = v]
               /\ v = early \/ (ocrResults' = upserted /\ v \in {good, late})
  <2>1. CASE ocrResults' = ocrResults /\ PageError(j, p, "store")
    <3>1. work' = [work EXCEPT ![j] = early]
      BY <2>1 DEF PageError, Failed
    <3> QED
      BY <3>1
  <2>2. CASE ocrResults' = upserted /\ work' = [work EXCEPT ![j].page[p] = "returned", ![j].written = @ \cup {p}]
    <3>1. work' = [work EXCEPT ![j] = good]
      BY <2>2
    <3> QED
      BY <2>2, <3>1
  <2>3. CASE ocrResults' = upserted /\ work' = [work EXCEPT ![j].page[p] = "error", ![j].err[p] = "store",
                                                            ![j].written = @ \cup {p}]
    <3>1. work' = [work EXCEPT ![j] = late]
      BY <2>3 DEF FailedLate
    <3> QED
      BY <2>3, <3>1
  <2> QED
    BY <2>1, <2>2, <2>3 DEF WritePage
<1>9. upserted[work[j].doc] = ocrResults[work[j].doc] \cup {p}
  BY <1>1, JobBefore
<1>10. v \in Work /\ WorkGood(v) /\ v.written \subseteq ocrResults'[v.doc]
  <2>1. ocrResults[work[j].doc] \subseteq ocrResults'[work[j].doc]
    BY <1>1, <1>4 DEF StoreStep
  <2> HIDE DEF early, late, good, upserted
  <2>2. CASE v = early
    BY <1>1, <1>5, <2>1, <2>2
  <2>3. CASE ocrResults' = upserted /\ v \in {good, late}
    BY <1>1, <1>6, <1>7, <1>9, <2>3
  <2> QED
    BY <1>8, <2>2, <2>3
<1> QED
  BY <1>1, <1>4, <1>8, <1>10, JobTurns

\* process, its loop, and the errors it is told.
LEMMA ProcessKept ==
    ASSUME WorkerInv, NEW j \in JobSlots,
           \/ StartPage(j) \/ StopLoop(j) \/ Collect(j) \/ Expire(j)
           \/ \E p \in PageNums : RecordError(j, p)
    PROVE  WorkerInv'
<1>1. /\ work[j] \in Work /\ WorkGood(work[j]) /\ (Alive(j) = Live(work[j])) /\ (CtxDone(j) <=> Over(work[j]))
      /\ SameProcess /\ Untouched /\ UNCHANGED <<docs, ocrResults>>
  BY JobBefore DEF StartPage, StopLoop, Collect, Expire, RecordError, storeVars, Untouched
<1>2. \E k : Fault(k) \/ NoFault
  BY DEF StartPage, StopLoop, Collect, Expire, RecordError, storeVars, NoFault
<1>3. faults' \in Nat
  BY <1>2, FaultCounted
<1>4. work[j].pc # "free"
  BY <1>1, LiveMeansRunning DEF StartPage, StopLoop, Collect, Expire, RecordError, Living
<1>5. ASSUME NEW v \in Work, WorkGood(v), work' = [work EXCEPT ![j] = v],
             v.doc = work[j].doc, v.written = work[j].written
      PROVE  WorkerInv'
  BY <1>1, <1>3, <1>4, <1>5, OnlyTheJob
<1>6. CASE StartPage(j)
  <2> DEFINE v == [work[j] EXCEPT !.page[work[j].next] = FirstState, !.next = @ + 1,
                                  !.pc = IF work[j].next = NumPages THEN "wait" ELSE "loop"]
  <2>1. v \in Work /\ WorkGood(v)
    BY <1>1, <1>6, PageStarts DEF StartPage, FirstState, Reading
  <2>2. work' = [work EXCEPT ![j] = v] /\ v.doc = work[j].doc /\ v.written = work[j].written
    BY <1>1, <1>6, JobBefore DEF StartPage, Work
  <2> HIDE DEF v
  <2> QED
    BY <1>5, <2>1, <2>2
<1>7. ASSUME NEW to \in {"wait", "flip", "fail"}, work' = [work EXCEPT ![j].pc = to],
             \/ work[j].pc = "loop" /\ to = "wait" /\ Over(work[j])
             \/ work[j].pc = "wait" /\ Live(work[j]) = {} /\ to = "flip" /\ ~Over(work[j])
             \/ /\ work[j].pc = "wait" /\ Live(work[j]) = {} /\ to = "fail"
                /\ Over(work[j]) /\ work[j].firstErr # "store"
      PROVE  WorkerInv'
  <2> DEFINE v == [work[j] EXCEPT !.pc = to]
  <2>1. v \in Work /\ WorkGood(v)
    BY <1>1, <1>7, ProcessMoves
  <2>2. work' = [work EXCEPT ![j] = v] /\ v.doc = work[j].doc /\ v.written = work[j].written
    BY <1>1, <1>7, JobBefore DEF Work
  <2> HIDE DEF v
  <2> QED
    BY <1>5, <2>1, <2>2
<1>8. CASE StopLoop(j)
  BY <1>1, <1>7, <1>8 DEF StopLoop
<1>9. CASE Collect(j) /\ work[j].firstErr # "store"
  BY <1>1, <1>7, <1>9 DEF Collect
<1>10. CASE Collect(j) /\ work[j].firstErr = "store"
  <2>1. work' = [work EXCEPT ![j] = NoWork]
    BY <1>10 DEF Collect
  <2>2. StoreStep
    BY <1>1, <1>3, TablesKept, JobBefore
  <2>3. NoWork.pc = "free"
    BY DEF NoWork
  <2> QED
    BY <1>1, <2>1, <2>2, <2>3, FreeIsGood, JobTurns
<1>11. CASE Expire(j)
  <2> DEFINE v == [work[j] EXCEPT !.expired = TRUE]
  <2>1. v \in Work /\ WorkGood(v)
    BY <1>1, <1>4, DeadlinePasses
  <2>2. work' = [work EXCEPT ![j] = v] /\ v.doc = work[j].doc /\ v.written = work[j].written
    BY <1>1, <1>11, JobBefore DEF Expire, Work
  <2> HIDE DEF v
  <2> QED
    BY <1>5, <2>1, <2>2
<1>12. ASSUME NEW p \in PageNums, RecordError(j, p) PROVE WorkerInv'
  <2> DEFINE v == [work[j] EXCEPT !.page[p] = "returned", !.err[p] = "none",
                                  !.firstErr = IF @ = "none" THEN work[j].err[p] ELSE @]
  <2>1. v \in Work /\ WorkGood(v)
    BY <1>1, <1>12, ErrorsAreRecorded DEF RecordError
  <2>2. work' = [work EXCEPT ![j] = v] /\ v.doc = work[j].doc /\ v.written = work[j].written
    BY <1>1, <1>12, JobBefore DEF RecordError, Work
  <2> HIDE DEF v
  <2> QED
    BY <1>5, <2>1, <2>2
<1> QED
  BY <1>6, <1>8, <1>9, <1>10, <1>11, <1>12

\* The verdict.
LEMMA VerdictKept ==
    ASSUME WorkerInv, NEW j \in JobSlots, MarkDone(j) \/ MarkJobFailed(j)
    PROVE  WorkerInv'
<1>1. /\ work[j].doc \in Docs /\ docs \in [Docs -> Row]
      /\ work' = [work EXCEPT ![j] = NoWork] /\ SameProcess /\ Untouched /\ ocrResults' = ocrResults
  BY JobBefore DEF MarkDone, MarkJobFailed, EndWork
<1>2. \E k : Fault(k) \/ NoFault
  BY DEF MarkDone, MarkJobFailed
<1>3. faults' \in Nat
  BY <1>2, FaultCounted
<1>4. PICK row \in {MarkOCRDone(docs[work[j].doc]), MarkOCRFailed(docs[work[j].doc])} :
        docs' \in {docs, [docs EXCEPT ![work[j].doc] = row]}
  BY DEF MarkDone, MarkJobFailed, Exec, MaybeExec
<1>5. docs' \in [Docs -> Row]
  BY <1>1, <1>4, FlipTypes
<1>6. StoreStep
  BY <1>1, <1>3, <1>5, TablesKept
<1>7. NoWork.pc = "free"
  BY DEF NoWork
<1> QED
  BY <1>1, <1>6, <1>7, FreeIsGood, JobTurns

\* A job arrives.
LEMMA HandleKept ==
    ASSUME WorkerInv, NEW j \in JobSlots, NEW d \in Docs, HandleJob(j, d)
    PROVE  WorkerInv'
<1> DEFINE v == [NoWork EXCEPT !.pc = "loop", !.doc = d]
<1>1. /\ v.pc = "loop" /\ v.doc = d /\ v.next = 1 /\ v.firstErr = "none" /\ v.written = {}
      /\ v.page = [p \in PageNums |-> "unsent"]
  BY DEF NoWork
<1>2. v \in Work
  BY FreeIsGood DEF Work
<1> HIDE DEF v
<1>3. \A p \in PageNums : PageGood(v, p)
  BY <1>1 DEF PageGood, Reading, PageNums
<1>4. WorkGood(v)
  BY <1>1, <1>3, PagesAssumption DEF WorkGood
<1>5. work' = [work EXCEPT ![j] = v] /\ UNCHANGED storeVars /\ SameProcess /\ work[j].pc = "free"
  BY DEF HandleJob, v
<1>6. Untouched /\ UNCHANGED <<docs, ocrResults>> /\ faults' \in Nat
  BY <1>5 DEF storeVars, Untouched, WorkerInv, WorkerTypeOK, StoreTypeOK
<1> QED
  BY <1>1, <1>2, <1>4, <1>5, <1>6, OnlyTheJob

\* The process stops, ends and starts again; the orchestrator goes on.
LEMMA SurroundingsKept ==
    ASSUME WorkerInv, Stop \/ Restart \/ (\E d \in Docs : Orchestrator(d)) \/ UNCHANGED workerVars
    PROVE  WorkerInv'
<1>1. CASE Stop \/ UNCHANGED workerVars
  <2>1. /\ UNCHANGED <<docs, ocrResults, work, engine>> /\ Untouched /\ pool' \in {FALSE, pool}
        /\ \E k : Fault(k) \/ NoFault
    BY <1>1 DEF Stop, workerVars, storeVars, Untouched, NoFault
  <2>2. faults' \in Nat
    BY <2>1, FaultCounted
  <2> QED
    BY <2>1, <2>2 DEF WorkerInv, WorkerTypeOK, StoreTypeOK, Untouched, JobInv
<1>2. CASE Restart
  <2>1. faults' \in Nat
    BY <1>2, FaultCounted DEF Restart
  <2>2. WorkerTypeOK' /\ bucket' = bucket
    BY <1>2, <2>1, FreeIsGood DEF Restart, WorkerInv, WorkerTypeOK, StoreTypeOK, Untouched
  <2>3. \A j \in JobSlots : work'[j] = NoWork
    BY <1>2 DEF Restart
  <2>4. NoWork.pc = "free"
    BY DEF NoWork
  <2>5. \A j \in JobSlots : JobInv(j)'
    BY <2>3, <2>4, FreeIsGood DEF JobInv
  <2> QED
    BY <2>2, <2>5 DEF WorkerInv
<1>3. ASSUME NEW d \in Docs, Orchestrator(d) PROVE WorkerInv'
  <2>1. docs \in [Docs -> Row]
    BY DEF WorkerInv, WorkerTypeOK, StoreTypeOK
  <2>2. docs' \in [Docs -> Row]
    BY <1>3, <2>1, FlipTypes DEF Orchestrator, Exec
  <2> QED
    BY <1>3, <2>2 DEF Orchestrator, WorkerInv, WorkerTypeOK, StoreTypeOK, Untouched, SameProcess, JobInv
<1> QED
  BY <1>1, <1>2, <1>3

\* Every step keeps the invariant.
LEMMA WorkerStep == WorkerInv /\ [WorkerNext]_workerVars => WorkerInv'
<1> SUFFICES ASSUME WorkerInv, [WorkerNext]_workerVars PROVE WorkerInv'
  OBVIOUS
<1>1. ASSUME NEW j \in JobSlots, WorkStep(j) PROVE WorkerInv'
  BY <1>1, PageStepKept, WritePageKept, ProcessKept, VerdictKept DEF WorkStep
<1> QED
  BY <1>1, ProcessKept, HandleKept, SurroundingsKept DEF WorkerNext

\* The service starts without jobs, over documents that have been ingested.
LEMMA WorkerStarts == WorkerInit => WorkerInv
<1> SUFFICES ASSUME WorkerInit PROVE WorkerInv
  OBVIOUS
<1>1. [NoRow EXCEPT !.status = "processing", !.pageCount = NumPages] \in Row
  <2>1. 0 \in 0 .. MaxAttempts /\ NumPages \in 0 .. NumPages
    BY PagesAssumption, AttemptsAssumption
  <2> QED
    BY <2>1 DEF NoRow, Row, Status
<1>2. StoreTypeOK
  BY <1>1 DEF WorkerInit, StoreTypeOK, Objects
<1>3. \A j \in JobSlots : JobInv(j)
  BY FreeIsGood DEF WorkerInit, JobInv, NoWork
<1> QED
  BY <1>2, <1>3, FreeIsGood DEF WorkerInit, WorkerInv, WorkerTypeOK

\* The inductive invariant of the OCR service, for any number of pages, page
\* goroutines, jobs, documents and faults.
THEOREM WorkersAgree == WorkerSpec => []WorkerInv
  BY WorkerStarts, WorkerStep, PTL DEF WorkerSpec

\* Tables and goroutines keep their types.
THEOREM WorkerTypes == WorkerSpec => []WorkerTypeOK
<1>1. WorkerInv => WorkerTypeOK
  BY DEF WorkerInv
<1> QED
  BY WorkersAgree, <1>1, PTL

\* After process has decided, no goroutine of the job is left, and a flip to
\* ocr_done finds every page written.
THEOREM VerdictsAreFinal == WorkerSpec => []VerdictIsFinal
<1>1. WorkerInv => VerdictIsFinal
  <2> SUFFICES ASSUME WorkerInv, NEW j \in JobSlots
               PROVE  /\ work[j].pc \in {"flip", "fail", "free"} => Alive(j) = {}
                      /\ work[j].pc = "flip" => ocrResults[work[j].doc] = PageNums
    BY DEF VerdictIsFinal
  <2>1. work[j].pc \in {"flip", "fail", "free"} => Alive(j) = {}
    BY JobBefore DEF WorkGood
  <2>2. ASSUME work[j].pc = "flip" PROVE ocrResults[work[j].doc] = PageNums
    <3>1. work[j].doc \in Docs /\ work[j].written \subseteq ocrResults[work[j].doc] /\ work[j].written = PageNums
      BY <2>2, JobBefore DEF WorkGood
    <3>2. ocrResults[work[j].doc] \subseteq PageNums
      BY <3>1, JobBefore
    <3> QED
      BY <3>1, <3>2
  <2> QED
    BY <2>1, <2>2
<1> QED
  BY WorkersAgree, <1>1, PTL

\* A job that fails its document names what went wrong first.
THEOREM CausesAreFirst == WorkerSpec => []RootCause
<1>1. WorkerInv => RootCause
  BY JobBefore DEF RootCause, WorkGood, Over
<1> QED
  BY WorkersAgree, <1>1, PTL

(***************************************************************************)
(* The job that the pipeline uses.                                         *)
(***************************************************************************)

\* The coarse job counts no faults inside a step: a page whose row was written
\* although its upsert failed is one fault here and a success there.
FaultsHappen == {"ocr", "db", "loss"} \subseteq Faults /\ ~FaultsLimited

CoarseJobs == [j \in JobSlots |-> CoarseJob(work[j])]

CoarseStep == Coarse!OcrNext \/ UNCHANGED <<ocrResults, CoarseJobs>>

\* The coarse view of a job at each point.
LEMMA CoarseView ==
    /\ \A w \in Work : w.pc \in {"loop", "wait", "flip"} =>
         CoarseJob(w) = [pc |-> "pages", doc |-> w.doc, todo |-> PageNums \ w.written]
    /\ \A w \in Work : w.pc = "fail" => CoarseJob(w) = [pc |-> "fail", doc |-> w.doc, todo |-> {}]
    /\ CoarseJob(NoWork) = Coarse!FreeJob
  BY DEF CoarseJob, NoWork, Coarse!FreeJob

\* A step of one job, seen from outside.
LEMMA CoarseTurn ==
    ASSUME WorkerInv, NEW j \in JobSlots, NEW v, work' = [work EXCEPT ![j] = v]
    PROVE  CoarseJobs' = [CoarseJobs EXCEPT ![j] = CoarseJob(v)]
  BY JobBefore DEF CoarseJobs

\* What the coarse job sees of its own state.
LEMMA CoarseAt == ASSUME NEW j \in JobSlots PROVE CoarseJobs[j] = CoarseJob(work[j])
  BY DEF CoarseJobs

\* When faults are not counted they leave the counter alone, and any may happen.
LEMMA FaultsUncounted ==
    ASSUME FaultsHappen
    PROVE  /\ \A k : Fault(k) \/ NoFault => faults' = faults
           /\ faults' = faults => \A k \in {"ocr", "db", "loss"} : Coarse!Fault(k)
           /\ faults' = faults => Coarse!NoFault
  BY DEF FaultsHappen, Fault, NoFault, Coarse!Fault, Coarse!NoFault

\* Steps that the pipeline does not see.
LEMMA HiddenSteps ==
    ASSUME WorkerInv, NEW j \in JobSlots,
           \/ StartPage(j) \/ StopLoop(j) \/ Expire(j)
           \/ \E p \in PageNums : \/ FetchPage(j, p) \/ AskModel(j, p) \/ BackOff(j, p) \/ AskAgain(j, p)
                                  \/ RecordError(j, p)
                                  \/ PageError(j, p, "store") /\ work[j].page[p] = "writing" /\ UNCHANGED ocrResults
    PROVE  UNCHANGED <<ocrResults, CoarseJobs>>
<1>1. work \in [JobSlots -> Work] /\ work[j] \in Work /\ WorkGood(work[j])
  BY JobBefore
<1>2. ocrResults' = ocrResults
  BY DEF StartPage, StopLoop, Expire, FetchPage, AskModel, BackOff, AskAgain, RecordError, storeVars
<1>3. \A i \in JobSlots \ {j} : work'[i] = work[i]
  BY <1>1 DEF StartPage, StopLoop, Expire, FetchPage, AskModel, BackOff, AskAgain, RecordError, PageGoto, PageError
<1>4. /\ work'[j].doc = work[j].doc /\ work'[j].written = work[j].written
      /\ \/ work'[j].pc = work[j].pc
         \/ work[j].pc = "loop" /\ work'[j].pc \in {"loop", "wait"}
  <2>1. CASE StartPage(j)
    <3> DEFINE begun == [work[j].page EXCEPT ![work[j].next] = FirstState]
    <3>1. /\ work[j].pc = "loop"
          /\ work' = [work EXCEPT ![j].page = begun, ![j].next = @ + 1,
                                  ![j].pc = IF work[j].next = NumPages THEN "wait" ELSE "loop"]
      BY <2>1 DEF StartPage
    <3> HIDE DEF begun
    <3> QED
      BY <1>1, <3>1 DEF Work
  <2>2. CASE StopLoop(j) \/ Expire(j)
    BY <1>1, <2>2 DEF StopLoop, Expire, Work
  <2>3. ASSUME NEW p \in PageNums, NEW k, PageError(j, p, k)
        PROVE  work'[j].doc = work[j].doc /\ work'[j].written = work[j].written /\ work'[j].pc = work[j].pc
    <3> DEFINE gone == [work[j].page EXCEPT ![p] = "error"]
               told == [work[j].err EXCEPT ![p] = k]
    <3>1. work' = [work EXCEPT ![j].page = gone, ![j].err = told]
      BY <1>1, <2>3 DEF PageError, Work
    <3> HIDE DEF gone, told
    <3> QED
      BY <1>1, <3>1 DEF Work
  <2>4. ASSUME NEW p \in PageNums, NEW k, PageGoto(j, p, k)
        PROVE  work'[j].doc = work[j].doc /\ work'[j].written = work[j].written /\ work'[j].pc = work[j].pc
    <3> DEFINE gone == [work[j].page EXCEPT ![p] = k]
    <3>1. work' = [work EXCEPT ![j].page = gone]
      BY <1>1, <2>4 DEF PageGoto, Work
    <3> HIDE DEF gone
    <3> QED
      BY <1>1, <3>1 DEF Work
  <2>5. ASSUME NEW p \in PageNums, RecordError(j, p)
        PROVE  work'[j].doc = work[j].doc /\ work'[j].written = work[j].written /\ work'[j].pc = work[j].pc
    <3> DEFINE gone == [work[j].page EXCEPT ![p] = "returned"]
               told == [work[j].err EXCEPT ![p] = "none"]
               first == IF work[j].firstErr = "none" THEN work[j].err[p] ELSE work[j].firstErr
    <3>1. work' = [work EXCEPT ![j].page = gone, ![j].err = told, ![j].firstErr = first]
      BY <1>1, <2>5 DEF RecordError, Work
    <3> HIDE DEF gone, told, first
    <3> QED
      BY <1>1, <3>1 DEF Work
  <2>6. ASSUME NEW p \in PageNums,
               FetchPage(j, p) \/ AskModel(j, p) \/ BackOff(j, p) \/ AskAgain(j, p)
        PROVE  \E k : PageError(j, p, k) \/ PageGoto(j, p, k)
    BY <2>6 DEF FetchPage, AskModel, BackOff, AskAgain
  <2> QED
    BY <2>1, <2>2, <2>3, <2>4, <2>5, <2>6
<1>6. CoarseJob(work'[j]) = CoarseJob(work[j])
  BY <1>4 DEF CoarseJob
<1>7. \A i \in JobSlots : CoarseJob(work'[i]) = CoarseJob(work[i])
  BY <1>3, <1>6
<1> QED
  BY <1>2, <1>7 DEF CoarseJobs

\* A page that was read: its row is written, and known to be or not.
LEMMA WriteIsCoarse ==
    ASSUME WorkerInv, FaultsHappen, NEW j \in JobSlots, NEW p \in PageNums, WritePage(j, p)
    PROVE  CoarseStep
<1>1. CASE ocrResults' = ocrResults /\ PageError(j, p, "store")
  BY <1>1, HiddenSteps DEF WritePage, CoarseStep
<1>2. ASSUME NEW v, work' = [work EXCEPT ![j] = v], v \in Work, v.pc = work[j].pc, v.doc = work[j].doc,
             v.written = work[j].written \cup {p},
             ocrResults' = [ocrResults EXCEPT ![work[j].doc] = @ \cup {p}]
      PROVE  CoarseStep
  <2>1. /\ work[j] \in Work /\ WorkGood(work[j]) /\ work[j].page[p] = "writing" /\ work[j].doc \in Docs
        /\ work[j].pc \in {"loop", "wait"} /\ p \notin work[j].written
    BY JobBefore, LiveMeansRunning DEF WritePage, Living, WorkGood, PageGood
  <2>2. /\ CoarseJobs[j] = [pc |-> "pages", doc |-> work[j].doc, todo |-> PageNums \ work[j].written]
        /\ CoarseJob(v) = [pc |-> "pages", doc |-> work[j].doc, todo |-> PageNums \ v.written]
    BY <1>2, <2>1, CoarseView, CoarseAt
  <2>3. PageNums \ v.written = (PageNums \ work[j].written) \ {p}
    BY <1>2
  <2>4. CoarseJobs' = [CoarseJobs EXCEPT ![j].todo = @ \ {p}]
    <3>1. [CoarseJobs[j] EXCEPT !.todo = @ \ {p}] = CoarseJob(v)
      BY <2>2, <2>3
    <3>2. CoarseJobs' = [CoarseJobs EXCEPT ![j] = CoarseJob(v)]
      BY <1>2, CoarseTurn
    <3> QED
      BY <3>1, <3>2
  <2>5. p \in bucket[CoarseJobs[j].doc]
    BY <2>1, <2>2 DEF WorkerInv, Objects
  <2>6. UNCHANGED <<docs, pages, extractions, matriculas, bucket, faults>>
    BY FaultsUncounted DEF WritePage, Untouched
  <2>7. Coarse!RecognizePage(j, p)
    <3>1. CoarseJobs[j].pc = "pages" /\ CoarseJobs[j].doc = work[j].doc /\ p \in CoarseJobs[j].todo
      BY <2>1, <2>2
    <3>2. ocrResults' = [ocrResults EXCEPT ![CoarseJobs[j].doc] = @ \cup {p}]
      BY <1>2, <3>1
    <3> QED
      BY <2>4, <2>5, <2>6, <3>1, <3>2 DEF Coarse!RecognizePage, CoarseJobs
  <2> QED
    BY <2>7 DEF CoarseStep, Coarse!OcrNext, Coarse!JobStep, Coarse!PageNums, PageNums
<1>3. work[j] \in Work
  BY JobBefore
<1>4. CASE /\ ocrResults' = [ocrResults EXCEPT ![work[j].doc] = @ \cup {p}]
           /\ work' = [work EXCEPT ![j].page[p] = "returned", ![j].written = @ \cup {p}]
  <2> DEFINE v == [work[j] EXCEPT !.page[p] = "returned", !.written = @ \cup {p}]
  <2>1. v \in Work /\ v.pc = work[j].pc /\ v.doc = work[j].doc /\ v.written = work[j].written \cup {p}
    BY <1>3 DEF Work, PageState
  <2>2. work' = [work EXCEPT ![j] = v]
    BY <1>4
  <2> HIDE DEF v
  <2> QED
    BY <1>2, <1>4, <2>1, <2>2
<1>5. CASE /\ ocrResults' = [ocrResults EXCEPT ![work[j].doc] = @ \cup {p}]
           /\ work' = [work EXCEPT ![j].page[p] = "error", ![j].err[p] = "store", ![j].written = @ \cup {p}]
  <2> DEFINE v == FailedLate(work[j], p, "store", {p})
  <2>1. v \in Work /\ v.pc = work[j].pc /\ v.doc = work[j].doc /\ v.written = work[j].written \cup {p}
    BY <1>3 DEF Work, PageState, Errors, FailedLate
  <2>2. work' = [work EXCEPT ![j] = v]
    BY <1>5 DEF FailedLate
  <2> HIDE DEF v
  <2> QED
    BY <1>2, <1>5, <2>1, <2>2
<1> QED
  BY <1>1, <1>4, <1>5 DEF WritePage

\* After the pages: a failure, a flip to come, or a job that just ends.
LEMMA CollectIsCoarse ==
    ASSUME WorkerInv, FaultsHappen, NEW j \in JobSlots, Collect(j)
    PROVE  CoarseStep
<1>1. /\ work[j] \in Work /\ WorkGood(work[j]) /\ work[j].pc = "wait" /\ work[j].doc \in Docs
      /\ UNCHANGED storeVars
  BY JobBefore DEF Collect
<1>2. CoarseJobs[j] = [pc |-> "pages", doc |-> work[j].doc, todo |-> PageNums \ work[j].written]
  BY <1>1, CoarseView, CoarseAt
<1>3. /\ \A k \in {"ocr", "db", "loss"} : Coarse!Fault(k)
      /\ UNCHANGED <<docs, pages, ocrResults, extractions, matriculas, bucket>>
  BY <1>1, FaultsUncounted DEF storeVars
<1>4. CASE work' = [work EXCEPT ![j].pc = "flip"]
  <2> DEFINE v == [work[j] EXCEPT !.pc = "flip"]
  <2>1. v \in Work /\ v.pc = "flip" /\ v.doc = work[j].doc /\ v.written = work[j].written
    BY <1>1 DEF Work
  <2>2. work' = [work EXCEPT ![j] = v]
    BY <1>4
  <2> HIDE DEF v
  <2>3. CoarseJob(v) = CoarseJobs[j]
    BY <1>2, <2>1, CoarseView
  <2>4. CoarseJobs' = CoarseJobs
    BY <2>2, <2>3, CoarseTurn DEF CoarseJobs
  <2> QED
    BY <1>3, <2>4 DEF CoarseStep
<1>5. CASE work' = [work EXCEPT ![j].pc = "fail"]
  <2> DEFINE v == [work[j] EXCEPT !.pc = "fail"]
  <2>1. v \in Work /\ v.pc = "fail" /\ v.doc = work[j].doc
    BY <1>1 DEF Work
  <2>2. work' = [work EXCEPT ![j] = v]
    BY <1>5
  <2> HIDE DEF v
  <2>3. CoarseJob(v) = [pc |-> "fail", doc |-> work[j].doc, todo |-> {}]
    BY <2>1, CoarseView
  <2>4. CoarseJobs' = [CoarseJobs EXCEPT ![j].pc = "fail", ![j].todo = {}]
    <3> DEFINE u == [CoarseJobs[j] EXCEPT !.pc = "fail"]
    <3>1. [CoarseJobs[j] EXCEPT !.pc = "fail", !.todo = {}] = CoarseJob(v)
      <4> DEFINE left == PageNums \ work[j].written
      <4>1. u = [pc |-> "fail", doc |-> work[j].doc, todo |-> left]
        BY <1>2
      <4>2. [CoarseJobs[j] EXCEPT !.pc = "fail", !.todo = {}] = [u EXCEPT !.todo = {}]
        BY <1>2
      <4> HIDE DEF u, left
      <4>3. [u EXCEPT !.todo = {}] = [pc |-> "fail", doc |-> work[j].doc, todo |-> {}]
        BY <4>1
      <4> QED
        BY <2>3, <4>2, <4>3
    <3>2. CoarseJobs' = [CoarseJobs EXCEPT ![j] = CoarseJob(v)]
      BY <2>2, CoarseTurn
    <3> QED
      BY <3>1, <3>2
  <2>5. CoarseJobs[j].todo \subseteq bucket[CoarseJobs[j].doc]
    BY <1>1, <1>2 DEF WorkerInv, Objects
  <2>6. Coarse!PageFails(j)
    BY <1>2, <1>3, <2>4, <2>5 DEF Coarse!PageFails, CoarseJobs
  <2> QED
    BY <2>6 DEF CoarseStep, Coarse!OcrNext, Coarse!JobStep
<1>6. CASE work' = [work EXCEPT ![j] = NoWork]
  <2>1. CoarseJobs' = [CoarseJobs EXCEPT ![j] = Coarse!FreeJob]
    BY <1>6, CoarseTurn, CoarseView
  <2>2. Coarse!EndJob(j)
    BY <2>1 DEF Coarse!EndJob, CoarseJobs
  <2>3. CASE CoarseJobs[j].todo = {}
    <3>1. Coarse!FlipDone(j)
      BY <1>2, <1>3, <2>2, <2>3 DEF Coarse!FlipDone, Coarse!MaybeExec, CoarseJobs
    <3> QED
      BY <3>1 DEF CoarseStep, Coarse!OcrNext, Coarse!JobStep
  <2>4. ASSUME NEW p \in CoarseJobs[j].todo PROVE CoarseStep
    <3>1. Coarse!UpsertFails(j, p)
      BY <1>2, <1>3, <2>2, <2>4 DEF Coarse!UpsertFails, CoarseJobs
    <3>2. p \in Coarse!PageNums
      BY <1>2, <2>4 DEF Coarse!PageNums, PageNums
    <3> QED
      BY <3>1, <3>2 DEF CoarseStep, Coarse!OcrNext, Coarse!JobStep
  <2> QED
    BY <2>3, <2>4
<1> QED
  BY <1>4, <1>5, <1>6 DEF Collect

\* The verdict is the flip of the coarse job.
LEMMA VerdictIsCoarse ==
    ASSUME WorkerInv, FaultsHappen, NEW j \in JobSlots, MarkDone(j) \/ MarkJobFailed(j)
    PROVE  CoarseStep
<1>1. /\ work[j] \in Work /\ WorkGood(work[j]) /\ work[j].pc \in {"flip", "fail"}
      /\ work' = [work EXCEPT ![j] = NoWork]
      /\ UNCHANGED <<pages, ocrResults, extractions, matriculas, bucket>>
  BY JobBefore DEF MarkDone, MarkJobFailed, EndWork, Untouched
<1>2. faults' = faults
  BY FaultsUncounted DEF MarkDone, MarkJobFailed
<1>3. Coarse!Fault("db")
  BY <1>2, FaultsUncounted
<1>4. Coarse!EndJob(j)
  <2>1. CoarseJobs' = [CoarseJobs EXCEPT ![j] = Coarse!FreeJob]
    BY <1>1, CoarseTurn, CoarseView
  <2> QED
    BY <2>1 DEF Coarse!EndJob, CoarseJobs
<1>5. CASE MarkDone(j)
  <2>1. CoarseJobs[j] = [pc |-> "pages", doc |-> work[j].doc, todo |-> {}]
    <3>1. work[j].pc = "flip" /\ work[j].written = PageNums
      BY <1>1, <1>5 DEF MarkDone, WorkGood
    <3>2. PageNums \ work[j].written = {}
      BY <3>1
    <3> QED
      BY <1>1, <3>1, <3>2, CoarseView, CoarseAt
  <2>2. docs' \in {docs, [docs EXCEPT ![work[j].doc] = MarkOCRDone(docs[work[j].doc])]}
    BY <1>5 DEF MarkDone, Exec, MaybeExec
  <2>3. Coarse!MarkOCRDone(docs[work[j].doc]) = MarkOCRDone(docs[work[j].doc])
    BY DEF Coarse!MarkOCRDone, MarkOCRDone
  <2>4. Coarse!FlipDone(j)
    BY <1>1, <1>3, <1>4, <2>1, <2>2, <2>3 DEF Coarse!FlipDone, Coarse!MaybeExec, CoarseJobs
  <2> QED
    BY <2>4 DEF CoarseStep, Coarse!OcrNext, Coarse!JobStep
<1>6. CASE MarkJobFailed(j)
  <2>1. CoarseJobs[j] = [pc |-> "fail", doc |-> work[j].doc, todo |-> {}]
    BY <1>1, <1>6, CoarseView, CoarseAt DEF MarkJobFailed
  <2>2. docs' \in {docs, [docs EXCEPT ![work[j].doc] = MarkOCRFailed(docs[work[j].doc])]}
    BY <1>6 DEF MarkJobFailed, Exec, MaybeExec
  <2>3. Coarse!MarkOCRFailed(docs[work[j].doc]) = MarkOCRFailed(docs[work[j].doc])
    BY DEF Coarse!MarkOCRFailed, MarkOCRFailed, Coarse!MarkFailed, MarkFailed
  <2>4. Coarse!FlipFailed(j)
    BY <1>1, <1>3, <1>4, <2>1, <2>2, <2>3 DEF Coarse!FlipFailed, Coarse!MaybeExec, CoarseJobs
  <2> QED
    BY <2>4 DEF CoarseStep, Coarse!OcrNext, Coarse!JobStep
<1> QED
  BY <1>5, <1>6

\* An accepted job has all its pages to do.
LEMMA HandleIsCoarse ==
    ASSUME WorkerInv, NEW j \in JobSlots, NEW d \in Docs, HandleJob(j, d)
    PROVE  CoarseStep
<1> DEFINE v == [NoWork EXCEPT !.pc = "loop", !.doc = d]
<1>1. v \in Work /\ v.pc = "loop" /\ v.doc = d /\ v.written = {}
  BY FreeIsGood DEF Work, NoWork
<1>2. work' = [work EXCEPT ![j] = v] /\ UNCHANGED storeVars /\ work[j] = NoWork
  BY JobBefore DEF HandleJob, WorkGood
<1> HIDE DEF v
<1>3. CoarseJob(v) = [pc |-> "pages", doc |-> d, todo |-> 1 .. NumPages]
  BY <1>1, CoarseView DEF PageNums
<1>4. CoarseJobs[j] = Coarse!FreeJob
  BY <1>2, CoarseView, CoarseAt
<1>5. CoarseJobs' = [CoarseJobs EXCEPT ![j] = [pc |-> "pages", doc |-> d, todo |-> 1 .. NumPages]]
  BY <1>2, <1>3, CoarseTurn
<1>6. Coarse!Accept(j, d, NumPages)
  BY <1>4, <1>5 DEF Coarse!Accept, Coarse!FreeJob, CoarseJobs
<1>7. UNCHANGED Coarse!storeVars
  BY <1>2 DEF storeVars, Coarse!storeVars
<1> QED
  BY <1>6, <1>7 DEF CoarseStep, Coarse!OcrNext

\* A restart loses all jobs; the rest is hidden.
LEMMA SurroundingsAreCoarse ==
    ASSUME WorkerInv, FaultsHappen,
           Stop \/ Restart \/ (\E d \in Docs : Orchestrator(d)) \/ UNCHANGED workerVars
    PROVE  CoarseStep
<1>1. CASE Stop \/ (\E d \in Docs : Orchestrator(d)) \/ UNCHANGED workerVars
  <2>1. UNCHANGED <<ocrResults, work>>
    BY <1>1 DEF Stop, Orchestrator, workerVars, storeVars
  <2> QED
    BY <2>1 DEF CoarseStep, CoarseJobs
<1>2. CASE Restart
  <2>1. /\ faults' = faults /\ UNCHANGED <<docs, pages, ocrResults, extractions, matriculas, bucket>>
        /\ \A j \in JobSlots : work'[j] = NoWork
    BY <1>2, FaultsUncounted DEF Restart, Untouched
  <2>2. Coarse!Fault("loss")
    BY <2>1, FaultsUncounted
  <2>3. CoarseJobs' = [j \in JobSlots |-> Coarse!FreeJob]
    BY <2>1, CoarseView DEF CoarseJobs
  <2>4. CASE \E j \in JobSlots : CoarseJobs[j].pc # "free"
    <3>1. Coarse!LoseJobs
      BY <2>1, <2>2, <2>3, <2>4 DEF Coarse!LoseJobs, CoarseJobs
    <3> QED
      BY <3>1 DEF CoarseStep, Coarse!OcrNext
  <2>5. CASE \A j \in JobSlots : CoarseJobs[j].pc = "free"
    <3>1. ASSUME NEW j \in JobSlots PROVE CoarseJobs[j] = Coarse!FreeJob
      <4>1. work[j].pc = "free"
        <5>1. CoarseJob(work[j]).pc = "free" /\ work[j] \in Work
          BY <2>5, CoarseAt, JobBefore
        <5>2. work[j].pc \in {"free", "loop", "wait", "flip", "fail"}
          BY <5>1 DEF Work
        <5> QED
          BY <5>1, <5>2, CoarseView
      <4> QED
        BY <4>1, JobBefore, CoarseView, CoarseAt DEF WorkGood
    <3> QED
      BY <2>1, <2>3, <3>1 DEF CoarseStep, CoarseJobs
  <2> QED
    BY <2>4, <2>5
<1> QED
  BY <1>1, <1>2

\* Every step is a step of the coarse job, or hidden from it.
LEMMA StepIsCoarse ==
    ASSUME WorkerInv, FaultsHappen, [WorkerNext]_workerVars
    PROVE  CoarseStep
<1>1. ASSUME NEW j \in JobSlots, WorkStep(j) PROVE CoarseStep
  BY <1>1, HiddenSteps, WriteIsCoarse, CollectIsCoarse, VerdictIsCoarse DEF WorkStep, CoarseStep
<1>2. ASSUME NEW j \in JobSlots, Expire(j) PROVE CoarseStep
  BY <1>2, HiddenSteps DEF CoarseStep
<1> QED
  BY <1>1, <1>2, HandleIsCoarse, SurroundingsAreCoarse DEF WorkerNext

\* The goroutines of a job implement the job that the pipeline uses, whatever
\* number of pages and jobs: the engine, the semaphore, the errors and the
\* closing pool add no behaviour that OcrService does not have.
THEOREM JobsAreImplemented ==
    ASSUME FaultsHappen
    PROVE  WorkerSpec => ImplementsOcrService
<1>1. WorkerInit => Coarse!OcrInit
  <2> SUFFICES ASSUME WorkerInit PROVE Coarse!OcrInit
    OBVIOUS
  <2>1. CoarseJobs = [j \in JobSlots |-> Coarse!FreeJob]
    BY CoarseView DEF WorkerInit, CoarseJobs
  <2> QED
    BY <2>1 DEF Coarse!OcrInit, CoarseJobs
<1>2. WorkerInv /\ [WorkerNext]_workerVars =>
        [Coarse!OcrNext]_<<ocrResults, [j \in JobSlots |-> CoarseJob(work[j])]>>
  BY StepIsCoarse DEF CoarseStep, CoarseJobs
<1> QED
  BY <1>1, <1>2, WorkersAgree, PTL DEF WorkerSpec, ImplementsOcrService, Coarse!OcrSpec
==============================================================================
