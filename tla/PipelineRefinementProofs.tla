----------------------- MODULE PipelineRefinementProofs -----------------------
(***************************************************************************)
(* Two results about Pipeline that need a look at single steps:            *)
(*   - a claim belongs to one poller (ExclusiveClaims);                    *)
(*   - Pipeline implements DocumentLifecycle (RefinesLifecycle).           *)
(***************************************************************************)
EXTENDS PipelineSafetyProofs

(***************************************************************************)
(* Claims.                                                                 *)
(***************************************************************************)

\* A step of a poller ends its work, keeps its claim, or takes the next claim
\* of a document, which is one higher than every claim before it.
LEMMA PollClaims ==
    ASSUME TInv, NEW r \in Replicas, PollStep(r)
    PROVE  /\ \A s \in Replicas \ {r} : poll'[s] = poll[s]
           /\ \/ poll'[r].pc \notin Extracting
              \/ /\ poll[r].pc \in Extracting
                 /\ poll'[r].doc = poll[r].doc
                 /\ poll'[r].claim = poll[r].claim
              \/ \E d \in Docs : /\ poll'[r].doc = d
                                 /\ poll'[r].claim = docs[d].attempts + 1
<1>1. poll \in [Replicas -> PollState] /\ docs \in [Docs -> Row]
  BY DEF TInv, TypeOK, PollTypeOK, StoreTypeOK
<1>2. \A s \in Replicas \ {r} : poll'[s] = poll[s]
  BY <1>1 DEF PollStep, Tick, Claim, NothingToClaim, ReadOCR, CallLLM, SaveAggregate, FlipExtracted,
         Requeue, GiveUp, Exhaust, Scan, Repair, EndTick, PollGoto, NextClaim
<1>3. CASE Claim(r)
  <2>1. PICK d \in Docs :
            \/ poll' = [poll EXCEPT ![r].pc = "read", ![r].doc = d,
                                    ![r].claim = ClaimForExtraction(docs[d]).attempts]
            \/ PollGoto(r, "exhaust")
    BY <1>3 DEF Claim
  <2>2. ClaimForExtraction(docs[d]).attempts = docs[d].attempts + 1
    BY <1>1 DEF ClaimForExtraction, Row
  <2>3. CASE PollGoto(r, "exhaust")
    BY <1>1, <1>2, <2>3 DEF PollGoto, Extracting, PollState
  <2>4. CASE poll' = [poll EXCEPT ![r].pc = "read", ![r].doc = d,
                                  ![r].claim = ClaimForExtraction(docs[d]).attempts]
    <3>1. poll'[r].doc = d /\ poll'[r].claim = docs[d].attempts + 1
      BY <1>1, <2>2, <2>4 DEF PollState
    <3> QED
      BY <1>2, <3>1
  <2> QED
    BY <2>1, <2>3, <2>4
<1>4. CASE Tick(r) \/ NothingToClaim(r) \/ Exhaust(r) \/ EndTick(r)
  <2>1. \E pc \in PollPC \ Extracting : PollGoto(r, pc)
    BY <1>4 DEF Tick, NothingToClaim, Exhaust, EndTick, PollPC, Extracting
  <2> QED
    BY <1>1, <1>2, <2>1 DEF PollGoto, PollState
<1>7. CASE Scan(r)
  <2>1. poll'[r].pc \in {"janitor", "idle"}
    BY <1>1, <1>7 DEF Scan, PollGoto, PollState
  <2> QED
    BY <1>2, <2>1 DEF Extracting
<1>8. CASE Repair(r)
  <2>1. poll[r].pc = "janitor" /\ \E L : poll' = [poll EXCEPT ![r].list = L]
    BY <1>8 DEF Repair
  <2> QED
    BY <1>1, <1>2, <2>1 DEF Extracting, PollState
<1>5. CASE Requeue(r) \/ GiveUp(r) \/ FlipExtracted(r)
  BY <1>1, <1>2, <1>5 DEF Requeue, GiveUp, FlipExtracted, NextClaim, PollGoto, IdlePoll, PollState, Extracting
<1>6. CASE ReadOCR(r) \/ CallLLM(r) \/ SaveAggregate(r)
  BY <1>1, <1>2, <1>6 DEF ReadOCR, CallLLM, SaveAggregate, PollGoto, PollState, Extracting
<1> QED
  BY <1>3, <1>4, <1>5, <1>6, <1>7, <1>8 DEF PollStep

\* Every step keeps claims apart.
LEMMA StepExclusive ==
    ASSUME TInv, Inductive, ClaimsAreExclusive, [Next]_vars
    PROVE  ClaimsAreExclusive'
<1>1. poll \in [Replicas -> PollState] /\ docs \in [Docs -> Row]
  BY DEF TInv, TypeOK, PollTypeOK, StoreTypeOK
<1>2. CASE UNCHANGED poll
  BY <1>2 DEF ClaimsAreExclusive
<1>3. ASSUME NEW r \in Replicas, PollStep(r) PROVE ClaimsAreExclusive'
  <2> SUFFICES ASSUME NEW s \in Replicas \ {r}, poll'[r].pc \in Extracting, poll[s].pc \in Extracting,
                      poll'[r].doc = poll[s].doc
               PROVE  poll'[r].claim # poll[s].claim
    BY <1>3, PollClaims DEF ClaimsAreExclusive
  <2>1. CASE /\ poll[r].pc \in Extracting
             /\ poll'[r].doc = poll[r].doc
             /\ poll'[r].claim = poll[r].claim
    BY <2>1 DEF ClaimsAreExclusive
  <2>2. ASSUME NEW d \in Docs, poll'[r].doc = d, poll'[r].claim = docs[d].attempts + 1
        PROVE  poll'[r].claim # poll[s].claim
    <3>1. poll[s].claim <= docs[d].attempts
      BY <2>2 DEF Inductive, PollInv
    <3>2. poll[s].claim \in Int /\ docs[d].attempts \in Int
      BY <1>1, AttemptsAssumption DEF PollState, Row
    <3> QED
      BY <2>2, <3>1, <3>2
  <2> QED
    BY <1>3, <2>1, <2>2, PollClaims
<1>4. ASSUME NEW r \in Replicas, Crash(r) PROVE ClaimsAreExclusive'
  BY <1>1, <1>4 DEF Crash, ClaimsAreExclusive, IdlePoll, Extracting
<1>5. \/ UNCHANGED poll
      \/ \E r \in Replicas : PollStep(r) \/ Crash(r)
  BY DEF Next, vars, Age, BackoffElapses
<1> QED
  BY <1>2, <1>3, <1>4, <1>5

\* No two replicas ever hold the same claim of a document, however the claims,
\* crashes and janitor repairs interleave (ClaimForExtraction is one UPDATE
\* that counts the attempt; ExtractDocument works on the row it returned).
THEOREM ExclusiveClaims == Spec => []ClaimsAreExclusive
<1>1. Init => ClaimsAreExclusive
  BY DEF Init, PollInit, IdlePoll, Extracting, ClaimsAreExclusive
<1>2. TInv /\ Inductive /\ ClaimsAreExclusive /\ [Next]_vars => ClaimsAreExclusive'
  BY StepExclusive
<1>3. Init => TInv /\ Inductive
  BY InitTypes, InitInductive
<1>4. TInv /\ Inductive /\ [Next]_vars => (TInv /\ Inductive)'
  BY StepTypes, StepInductive
<1> QED
  BY <1>1, <1>2, <1>3, <1>4, PTL DEF Spec

(***************************************************************************)
(* What the refinement needs beyond Inductive: a document that still waits *)
(* in "uploaded" has not been ingested, and no runner is past the claim of *)
(* such a document.  OCR therefore never adds text to it.                  *)
(***************************************************************************)
PastClaim == {"render", "pages", "record", "count"}

Started ==
    /\ \A d \in Docs : docs[d].status = "uploaded" => docs[d].pageCount = 0
    /\ \A x \in Runners : ing[x].pc \in PastClaim => docs[ing[x].doc].status # "uploaded"

Counts(d) == \E x \in Runners : ing[x].pc = "count" /\ ing[x].doc = d

\* A step other than Exhaust changes one row, and only CountPages its page count.
Written(d) ==
    /\ \A e \in Docs \ {d} : docs'[e] = docs[e]
    /\ docs[d].status = "ocr_done" => docs'[d].status # "failed"
    /\ docs'[d].pageCount = docs[d].pageCount \/ docs[d].status = "absent" \/ Counts(d)

\* A single-row statement that fails no row in ocr_done, and leaves a page count alone, is Written.
LEMMA StatementWrites ==
    ASSUME TInv, NEW d \in Docs, NEW row, Exec(d, row) \/ MaybeExec(d, row),
           docs[d].status = "ocr_done" => row.status # "failed",
           row.pageCount = docs[d].pageCount \/ docs[d].status = "absent" \/ Counts(d)
    PROVE  Written(d)
<1>1. docs'[d] \in {docs[d], row} /\ \A e \in Docs \ {d} : docs'[e] = docs[e]
  BY WritesRow
<1>2. docs[d].status = "ocr_done" => docs[d].status # "failed"
  OBVIOUS
<1> QED
  BY <1>1, <1>2 DEF Written

\* Jobs write rows in no other way.
LEMMA JobWrites ==
    ASSUME TInv, NEW j \in JobSlots, JobStep(j)
    PROVE  UNCHANGED docs \/ \E d \in Docs : Written(d)
<1>1. CASE PageFails(j) \/ \E p \in PageNums : RecognizePage(j, p) \/ UpsertFails(j, p)
  BY <1>1 DEF PageFails, RecognizePage, UpsertFails
<1>2. CASE FlipDone(j) \/ FlipFailed(j)
  <2>1. PICK d \in Docs : d = jobs[j].doc
    BY <1>2 DEF FlipDone, FlipFailed, TInv, Ranges, JobRange
  <2>2. docs[d] \in Row
    BY DEF TInv, TypeOK, StoreTypeOK
  <2>3. PICK row \in {MarkOCRDone(docs[d]), MarkOCRFailed(docs[d])} : Exec(d, row) \/ MaybeExec(d, row)
    BY <1>2, <2>1 DEF FlipDone, FlipFailed
  <2>4. (docs[d].status = "ocr_done" => row.status # "failed") /\ row.pageCount = docs[d].pageCount
    BY <2>2, <2>3 DEF MarkOCRDone, MarkOCRFailed, MarkFailed, Row
  <2> QED
    BY <2>3, <2>4, StatementWrites
<1> QED
  BY <1>1, <1>2 DEF JobStep

\* So do the goroutines that run Process.
LEMMA RunnerWrites ==
    ASSUME TInv, Inductive, NEW x \in Runners, RunnerStep(x)
    PROVE  UNCHANGED docs \/ \E d \in Docs : Written(d)
<1>1. ing[x].pc # "idle"
  BY DEF RunnerStep, StorePDF, CreateRow, ClaimIngest, CheckStatus, Render, UploadPage, AddPages,
         CountPages, PostAccepted, PostUnanswered, PostRefused, Stamp, RecordFailure, LoadPages
<1>2. PICK d \in Docs : d = ing[x].doc
  BY <1>1, RunnerRow
<1>3. docs[d] \in Row /\ RunnerInv(x)
  BY DEF TInv, TypeOK, StoreTypeOK, Inductive
<1>4. CASE \/ StorePDF(x) \/ UploadPage(x) \/ AddPages(x) \/ CheckStatus(x) \/ Render(x) \/ LoadPages(x)
           \/ PostRefused(x) \/ \E j \in JobSlots : PostAccepted(x, j) \/ PostUnanswered(x, j)
  BY <1>4 DEF StorePDF, UploadPage, AddPages, CheckStatus, Render, LoadPages, PostRefused,
              PostAccepted, PostUnanswered, storeVars
<1>5. CASE CreateRow(x)
  <2>1. Exec(d, Create(docs[d])) \/ MaybeExec(d, Create(docs[d]))
    BY <1>2, <1>5 DEF CreateRow
  <2>2. docs[d].status = "absent"
    BY <1>2, <1>3, <1>5 DEF CreateRow, RunnerInv
  <2> QED
    BY <2>1, <2>2, StatementWrites
<1>6. CASE CountPages(x)
  <2>1. Exec(d, SetPageCount(docs[d], ing[x].n)) \/ MaybeExec(d, SetPageCount(docs[d], ing[x].n))
    BY <1>2, <1>6 DEF CountPages
  <2>2. Counts(d) /\ SetPageCount(docs[d], ing[x].n).status = docs[d].status
    BY <1>2, <1>3, <1>6 DEF CountPages, Counts, SetPageCount, Row
  <2> QED
    BY <2>1, <2>2, StatementWrites
<1>7. CASE ClaimIngest(x) \/ Stamp(x) \/ RecordFailure(x)
  <2>1. PICK row \in {UpdateStatus(docs[d], "uploaded", "processing"), SetOCRDispatched(docs[d]),
                      MarkFailed(docs[d], "processing", "ingest"),
                      MarkFailed(docs[d], "processing", "ocr_dispatch")} :
            Exec(d, row) \/ MaybeExec(d, row)
    BY <1>2, <1>7 DEF ClaimIngest, Stamp, RecordFailure
  <2>2. (docs[d].status = "ocr_done" => row.status # "failed") /\ row.pageCount = docs[d].pageCount
    BY <1>3, <2>1 DEF UpdateStatus, SetOCRDispatched, MarkFailed, Row
  <2> QED
    BY <2>1, <2>2, StatementWrites
<1> QED
  BY <1>4, <1>5, <1>6, <1>7 DEF RunnerStep

\* So do the pollers and janitors.
LEMMA PollWrites ==
    ASSUME TInv, Inductive, NEW r \in Replicas, PollStep(r), ~Exhaust(r)
    PROVE  UNCHANGED docs \/ \E d \in Docs : Written(d)
<1>1. PollInv(r) /\ PollRange(r) /\ poll[r] \in PollState /\ docs \in [Docs -> Row]
  BY DEF Inductive, TInv, Ranges, TypeOK, PollTypeOK, StoreTypeOK
<1>2. CASE Tick(r) \/ NothingToClaim(r) \/ ReadOCR(r) \/ CallLLM(r) \/ SaveAggregate(r) \/ Scan(r) \/ EndTick(r)
  BY <1>2 DEF Tick, NothingToClaim, ReadOCR, CallLLM, SaveAggregate, Scan, EndTick, storeVars
<1>3. CASE Claim(r)
  <2>1. PICK d \in Docs : Exec(d, ClaimForExtraction(docs[d])) \/ MaybeExec(d, ClaimForExtraction(docs[d]))
    BY <1>3 DEF Claim
  <2>2. ClaimForExtraction(docs[d]).status # "failed" /\ ClaimForExtraction(docs[d]).pageCount = docs[d].pageCount
    BY <1>1 DEF ClaimForExtraction, Row
  <2> QED
    BY <2>1, <2>2, StatementWrites
<1>4. ASSUME NEW d \in Docs,
             \E row \in {UpdateStatus(docs[d], "extracting", "extracted"), ReturnForRetry(docs[d], TRUE),
                         ReturnForRetry(docs[d], FALSE), MarkFailed(docs[d], "extracting", "extraction")} :
                Exec(d, row) \/ MaybeExec(d, row)
      PROVE  \E e \in Docs : Written(e)
  <2>1. PICK row \in {UpdateStatus(docs[d], "extracting", "extracted"), ReturnForRetry(docs[d], TRUE),
                      ReturnForRetry(docs[d], FALSE), MarkFailed(docs[d], "extracting", "extraction")} :
            Exec(d, row) \/ MaybeExec(d, row)
    BY <1>4
  <2>2. (docs[d].status = "ocr_done" => row.status # "failed") /\ row.pageCount = docs[d].pageCount
    BY <1>1, <2>1 DEF UpdateStatus, ReturnForRetry, MarkFailed, Row
  <2> QED
    BY <2>1, <2>2, StatementWrites
<1>5. CASE FlipExtracted(r) \/ Requeue(r) \/ GiveUp(r)
  <2>1. poll[r].doc \in Docs
    BY <1>1, <1>5 DEF FlipExtracted, Requeue, GiveUp, PollRange, Extracting
  <2> QED
    BY <1>4, <1>5, <2>1 DEF FlipExtracted, Requeue, GiveUp
<1>6. CASE Repair(r)
  <2>1. PICK item \in poll[r].list :
            \/ UNCHANGED docs
            \/ Exec(item.doc, ReturnForRetry(docs[item.doc], FALSE))
            \/ MaybeExec(item.doc, ReturnForRetry(docs[item.doc], FALSE))
    BY <1>6 DEF Repair
  <2>2. item.doc \in Docs
    BY <1>1 DEF PollState
  <2> QED
    BY <1>4, <2>1, <2>2
<1> QED
  BY <1>2, <1>3, <1>5, <1>6 DEF PollStep

\* Every step but Exhaust, as far as the rows go.
LEMMA OneRow ==
    ASSUME TInv, Inductive, [Next]_vars, \A r \in Replicas : ~Exhaust(r)
    PROVE  UNCHANGED docs \/ \E d \in Docs : Written(d)
<1>1. ASSUME NEW d \in Docs, Age(d) \/ BackoffElapses(d) PROVE Written(d)
  <2>1. docs \in [Docs -> Row]
    BY DEF TInv, TypeOK, StoreTypeOK
  <2>2. PICK row \in {[docs[d] EXCEPT !.stale = TRUE], [docs[d] EXCEPT !.backoff = FALSE]} :
            docs' = [docs EXCEPT ![d] = row]
    BY <1>1 DEF Age, BackoffElapses
  <2>3. row.status = docs[d].status /\ row.pageCount = docs[d].pageCount
    BY <2>1, <2>2 DEF Row
  <2> QED
    BY <2>2, <2>3, StatementWrites DEF Exec
<1>2. CASE \/ UNCHANGED vars
           \/ \E d \in Docs, r \in Replicas : Upload(d, r)
           \/ LoseJobs
           \/ \E r \in Replicas : Crash(r)
  BY <1>2 DEF vars, storeVars, Upload, LoseJobs, Crash
<1> QED
  BY <1>1, <1>2, JobWrites, RunnerWrites, PollWrites DEF Next

(***************************************************************************)
(* Every step of Pipeline, by what it does to rows and data.               *)
(***************************************************************************)
LEMMA AllEffects ==
    ASSUME TInv, Inductive, [Next]_vars
    PROVE  \A d \in Docs : /\ Effect(d)
                           /\ matriculas'[d] = matriculas[d] \/ Saves(d)
<1>1. CASE UNCHANGED vars
  BY <1>1 DEF vars, storeVars, Effect
<1>2. CASE Next
  BY <1>2, JobEffects, RunnerEffects, PollEffects, OtherEffects DEF Next
<1> QED
  BY <1>1, <1>2

\* No move leads back to uploaded.
LEMMA NotBackToUploaded ==
    ASSUME TInv, NEW d \in Docs, Effect(d), docs[d].status # "absent", docs'[d].status = "uploaded"
    PROVE  docs[d].status = "uploaded"
  BY MoveIsTransition DEF Effect, Quiet, Born, Transition, Edge

\* Only CountPages writes page_count.
LEMMA PageCountKept ==
    ASSUME TInv, Inductive, [Next]_vars, NEW d \in Docs, docs[d].status # "absent", ~Counts(d)
    PROVE  docs'[d].pageCount = docs[d].pageCount
<1>1. ASSUME NEW r \in Replicas, Exhaust(r) PROVE docs'[d].pageCount = docs[d].pageCount
  <2>1. docs[d] \in Row
    BY DEF TInv, TypeOK, StoreTypeOK
  <2>2. docs'[d] \in {docs[d], FailExhausted(docs[d])}
    BY <1>1 DEF Exhaust
  <2> QED
    BY <2>1, <2>2 DEF FailExhausted, Row
<1>2. CASE \A r \in Replicas : ~Exhaust(r)
  BY <1>2, OneRow DEF Written
<1> QED
  BY <1>1, <1>2

\* A runner comes past its claim only by winning it, or when the document is
\* already in "processing".
LEMMA ComesPastClaim ==
    ASSUME TInv, [Next]_vars, NEW x \in Runners, ing'[x].pc \in PastClaim, ing[x].pc \notin PastClaim
    PROVE  /\ ing'[x].doc = ing[x].doc /\ ing[x].doc \in Docs
           /\ ing[x].pc \in {"claim", "check"}
           /\ docs'[ing[x].doc].status = "processing"
<1>1. ing \in [Runners -> Runner] /\ docs \in [Docs -> Row]
  BY DEF TInv, TypeOK, IngestTypeOK, StoreTypeOK
<1>2. CASE ing'[x] = ing[x]
  BY <1>2
<1>3. ASSUME NEW y \in Runners, RunnerStep(y), y # x PROVE ing'[x] = ing[x]
  BY <1>1, <1>3 DEF RunnerStep, StorePDF, CreateRow, ClaimIngest, CheckStatus, Render, UploadPage, AddPages,
         CountPages, PostAccepted, PostUnanswered, PostRefused, Stamp, RecordFailure, LoadPages,
         Goto, EndRunner, PostFailed
<1>4. CASE ClaimIngest(x) \/ CheckStatus(x)
  <2>1. PICK d \in Docs : d = ing[x].doc
    BY <1>4, RunnerRow DEF ClaimIngest, CheckStatus
  <2>2. docs[d] \in Row
    BY <1>1
  <2>3. \A pc : Goto(x, pc) => ing'[x].pc = pc /\ ing'[x].doc = d
    BY <1>1, <2>1 DEF Goto, Runner
  <2>4. EndRunner(x) => ing'[x].pc = "idle"
    BY <1>1 DEF EndRunner, IdleRunner
  <2>5. CASE ClaimIngest(x)
    <3>1. /\ docs' = [docs EXCEPT ![d] = UpdateStatus(docs[d], "uploaded", "processing")]
          /\ docs[d].status = "uploaded" /\ Goto(x, "render")
      BY <2>1, <2>3, <2>5 DEF ClaimIngest, PastClaim, Exec
    <3>2. docs'[d].status = "processing"
      BY <1>1, <2>2, <3>1 DEF UpdateStatus, Row
    <3> QED
      BY <2>1, <2>3, <2>5, <3>1, <3>2 DEF ClaimIngest
  <2>6. CASE CheckStatus(x)
    <3>1. docs[d].status = "processing" /\ docs' = docs /\ Goto(x, "render")
      BY <2>1, <2>3, <2>4, <2>6 DEF CheckStatus, PastClaim
    <3> QED
      BY <2>1, <2>3, <2>6, <3>1 DEF CheckStatus
  <2> QED
    BY <1>4, <2>5, <2>6
<1>5. ASSUME RunnerStep(x), ~ClaimIngest(x), ~CheckStatus(x) PROVE FALSE
  <2>1. \A pc : Goto(x, pc) => ing'[x].pc = pc
    BY <1>1 DEF Goto, Runner
  <2>2. EndRunner(x) => ing'[x].pc = "idle"
    BY <1>1 DEF EndRunner, IdleRunner
  <2>3. PostFailed(x) => ing'[x].pc \in {"fail_dispatch", "post"}
    BY <1>1 DEF PostFailed, Runner
  <2>4. CASE Render(x) \/ UploadPage(x) \/ AddPages(x) \/ CountPages(x)
    BY <2>4 DEF Render, UploadPage, AddPages, CountPages, PastClaim
  <2>5. CASE StorePDF(x) \/ CreateRow(x) \/ Stamp(x) \/ RecordFailure(x)
    BY <2>1, <2>2, <2>5 DEF StorePDF, CreateRow, Stamp, RecordFailure, PastClaim
  <2>6. CASE PostRefused(x) \/ \E j \in JobSlots : PostAccepted(x, j) \/ PostUnanswered(x, j)
    BY <2>1, <2>3, <2>6 DEF PostRefused, PostAccepted, PostUnanswered, PastClaim
  <2>7. CASE LoadPages(x)
    <3>1. EndRunner(x) \/ ing'[x].pc = "post"
      BY <1>1, <2>7 DEF LoadPages, Runner
    <3> QED
      BY <2>2, <3>1 DEF PastClaim
  <2> QED
    BY <1>5, <2>4, <2>5, <2>6, <2>7 DEF RunnerStep
<1>6. ASSUME \/ \E d \in Docs, r \in Replicas : Upload(d, r)
             \/ \E r \in Replicas : Crash(r) \/ PollStep(r)
      PROVE  ing'[x] = ing[x] \/ ing'[x].pc \in {"idle", "upload", "claim", "reload"}
  <2>1. ASSUME NEW y, NEW d, NEW r, NEW pc \in {"upload", "claim", "reload"}, NEW again, Start(y, d, r, pc, again)
        PROVE  ing'[x] = ing[x] \/ ing'[x].pc \in {"idle", "upload", "claim", "reload"}
    BY <1>1, <2>1 DEF Start, IdleRunner
  <2>2. ASSUME NEW r \in Replicas, PollStep(r)
        PROVE  \/ UNCHANGED ing
               \/ \E d : Start(r, d, r, "claim", FALSE) \/ Start(r, d, r, "reload", TRUE)
    BY <2>2 DEF PollStep, Tick, Claim, NothingToClaim, ReadOCR, CallLLM, SaveAggregate, FlipExtracted,
         Requeue, GiveUp, Exhaust, Scan, Repair, EndTick
  <2>3. CASE \E d \in Docs, r \in Replicas : Upload(d, r)
    BY <2>1, <2>3 DEF Upload
  <2>4. CASE \E r \in Replicas : Crash(r)
    BY <1>1, <2>4 DEF Crash, IdleRunner
  <2>5. CASE \E r \in Replicas : PollStep(r)
    BY <2>1, <2>2, <2>5
  <2> QED
    BY <1>6, <2>3, <2>4, <2>5
<1>7. CASE \/ UNCHANGED vars
           \/ \E j \in JobSlots : JobStep(j) /\ UNCHANGED <<ing, poll>>
           \/ LoseJobs /\ UNCHANGED <<ing, poll>>
           \/ \E d \in Docs : Age(d) \/ BackoffElapses(d)
  BY <1>2, <1>7 DEF vars, Age, BackoffElapses
<1> QED
  BY <1>2, <1>3, <1>4, <1>5, <1>6, <1>7 DEF Next, PastClaim

\* While past its claim a runner stays with its document.
LEMMA StaysWithDoc ==
    ASSUME TInv, [Next]_vars, NEW x \in Runners, ing'[x].pc \in PastClaim, ing[x].pc \in PastClaim
    PROVE  ing'[x].doc = ing[x].doc
<1>1. ing \in [Runners -> Runner]
  BY DEF TInv, TypeOK, IngestTypeOK
<1>2. ASSUME NEW y \in Runners, RunnerStep(y) PROVE ing'[x].doc = ing[x].doc
  <2>1. CASE y # x
    BY <1>1, <1>2, <2>1 DEF RunnerStep, StorePDF, CreateRow, ClaimIngest, CheckStatus, Render, UploadPage,
         AddPages, CountPages, PostAccepted, PostUnanswered, PostRefused, Stamp, RecordFailure, LoadPages,
         Goto, EndRunner, PostFailed
  <2>2. EndRunner(x) => FALSE
    BY <1>1 DEF EndRunner, IdleRunner, PastClaim
  <2>3. CASE Render(x) \/ UploadPage(x) \/ AddPages(x) \/ CountPages(x)
    BY <1>1, <2>3 DEF Render, UploadPage, AddPages, CountPages, Goto, Runner
  <2>4. CASE \/ StorePDF(x) \/ CreateRow(x) \/ ClaimIngest(x) \/ CheckStatus(x) \/ Stamp(x)
             \/ RecordFailure(x) \/ LoadPages(x) \/ PostRefused(x)
             \/ \E j \in JobSlots : PostAccepted(x, j) \/ PostUnanswered(x, j)
    BY <2>4 DEF StorePDF, CreateRow, ClaimIngest, CheckStatus, Stamp, RecordFailure, LoadPages, PostRefused,
         PostAccepted, PostUnanswered, PastClaim
  <2> QED
    BY <1>2, <2>1, <2>3, <2>4 DEF RunnerStep
<1>3. CASE \E d \in Docs, r \in Replicas : Upload(d, r)
  BY <1>1, <1>3 DEF Upload, Start, IdleRunner, PastClaim
<1>4. CASE \E r \in Replicas : Crash(r)
  BY <1>1, <1>4 DEF Crash, IdleRunner, PastClaim
<1>5. ASSUME NEW r \in Replicas, PollStep(r) PROVE ing'[x].doc = ing[x].doc
  <2>1. \/ UNCHANGED ing
        \/ /\ ing[r].pc = "idle"
           /\ \E d : Start(r, d, r, "claim", FALSE) \/ Start(r, d, r, "reload", TRUE)
    BY <1>5 DEF PollStep, Tick, Claim, NothingToClaim, ReadOCR, CallLLM, SaveAggregate, FlipExtracted,
         Requeue, GiveUp, Exhaust, Scan, Repair, EndTick
  <2>2. x # r => ing'[x] = ing[x]
    BY <1>1, <2>1 DEF Start
  <2> QED
    BY <2>1, <2>2 DEF PastClaim
<1>6. CASE \/ UNCHANGED vars
           \/ \E j \in JobSlots : JobStep(j) /\ UNCHANGED <<ing, poll>>
           \/ LoseJobs /\ UNCHANGED <<ing, poll>>
           \/ \E d \in Docs : Age(d) \/ BackoffElapses(d)
  BY <1>6 DEF vars, Age, BackoffElapses
<1> QED
  BY <1>2, <1>3, <1>4, <1>5, <1>6 DEF Next

\* Nothing has started at first.
LEMMA InitStarted == Init => Started
  BY DEF Init, StoreInit, IngestInit, NoRow, IdleRunner, PastClaim, Started

\* Every step keeps it.
LEMMA StepStarted ==
    ASSUME TInv, Inductive, Started, [Next]_vars
    PROVE  Started'
<1>1. \A d \in Docs : Effect(d)
  BY AllEffects
<1>2. ASSUME NEW d \in Docs, docs'[d].status = "uploaded" PROVE docs'[d].pageCount = 0
  <2>1. CASE docs[d].status = "absent"
    <3>1. docs[d] = NoRow /\ docs'[d] = Create(docs[d])
      BY <1>1, <1>2, <2>1 DEF Effect, Quiet, Move, Born, Inductive, RowInv
    <3> QED
      BY <3>1 DEF NoRow, Create
  <2>2. CASE docs[d].status # "absent"
    <3>1. docs[d].status = "uploaded"
      BY <1>1, <1>2, <2>2, NotBackToUploaded
    <3>2. ~Counts(d) /\ docs[d].pageCount = 0
      BY <3>1 DEF Started, Counts, PastClaim
    <3> QED
      BY <2>2, <3>2, PageCountKept
  <2> QED
    BY <2>1, <2>2
<1>3. ASSUME NEW x \in Runners, ing'[x].pc \in PastClaim PROVE docs'[ing'[x].doc].status # "uploaded"
  <2>1. CASE ing[x].pc \notin PastClaim
    BY <1>3, <2>1, ComesPastClaim
  <2>2. CASE ing[x].pc \in PastClaim
    <3>1. PICK d \in Docs : d = ing[x].doc
      BY <2>2, RunnerRow DEF PastClaim
    <3>2. docs[d].status \notin {"absent", "uploaded"}
      BY <2>2, <3>1 DEF Inductive, RunnerInv, Started, PastClaim
    <3>3. ing'[x].doc = d
      BY <1>3, <2>2, <3>1, StaysWithDoc
    <3> QED
      BY <1>1, <3>2, <3>3, NotBackToUploaded
  <2> QED
    BY <2>1, <2>2
<1> QED
  BY <1>2, <1>3 DEF Started

(***************************************************************************)
(* The refinement.  A step that leaves what a client can see is a stutter  *)
(* of DocumentLifecycle; any other step is one of its actions.             *)
(***************************************************************************)
LifecycleStep == Lifecycle!LNext \/ UNCHANGED Lifecycle!lifecycleVars

SameView(d) == docs'[d].status = docs[d].status /\ SameStage(d) /\ SameAttempts(d)

\* A step that keeps what a client sees of a document is no step of its life.
LEMMA Stutters ==
    ASSUME \A d \in Docs : SameView(d), UNCHANGED ocrResults,
           \A d \in Docs : matriculas'[d].claim = matriculas[d].claim
    PROVE  UNCHANGED Lifecycle!lifecycleVars
<1>1. /\ [d \in Docs |-> docs'[d].status] = [d \in Docs |-> docs[d].status]
      /\ [d \in Docs |-> docs'[d].failedStage] = [d \in Docs |-> docs[d].failedStage]
      /\ [d \in Docs |-> docs'[d].attempts] = [d \in Docs |-> docs[d].attempts]
      /\ [d \in Docs |-> matriculas'[d].claim] = [d \in Docs |-> matriculas[d].claim]
  BY DEF SameView, SameStage, SameAttempts
<1> QED
  BY <1>1 DEF Lifecycle!lifecycleVars

\* A move of one document's status, seen from DocumentLifecycle.
Moves(d, from, to) ==
    /\ docs[d].status = from
    /\ docs'[d].status = to
    /\ \A e \in Docs \ {d} : docs'[e] = docs[e]

\* A move of the status alone, seen from the life cycle.
LEMMA MovesStatus ==
    ASSUME NEW d \in Docs, NEW from, NEW to, Moves(d, from, to)
    PROVE  Lifecycle!Move(d, from, to)
<1>1. [e \in Docs |-> docs'[e].status] = [[e \in Docs |-> docs[e].status] EXCEPT ![d] = to]
  BY DEF Moves
<1> QED
  BY <1>1 DEF Lifecycle!Move, Moves

\* The stage and the attempts of the other documents stay.
LEMMA KeepsRest ==
    ASSUME NEW d \in Docs, \A e \in Docs \ {d} : docs'[e] = docs[e]
    PROVE  /\ SameStage(d) =>
                [e \in Docs |-> docs'[e].failedStage] = [e \in Docs |-> docs[e].failedStage]
           /\ SameAttempts(d) =>
                [e \in Docs |-> docs'[e].attempts] = [e \in Docs |-> docs[e].attempts]
           /\ [e \in Docs |-> docs'[e].failedStage] =
                [[e \in Docs |-> docs[e].failedStage] EXCEPT ![d] = docs'[d].failedStage]
           /\ [e \in Docs |-> docs'[e].attempts] =
                [[e \in Docs |-> docs[e].attempts] EXCEPT ![d] = docs'[d].attempts]
  BY DEF SameStage, SameAttempts

\* A step on a row alone leaves texts and aggregates as a client sees them.
LEMMA DataView ==
    ASSUME UNCHANGED <<ocrResults, matriculas>>
    PROVE  /\ ocrResults' = ocrResults
           /\ [e \in Docs |-> matriculas'[e].claim] = [e \in Docs |-> matriculas[e].claim]
  OBVIOUS

\* One row takes one edge of the status machine.
LEMMA EdgeIsStep ==
    ASSUME TInv, Inductive, NEW d \in Docs, Transition(d), Written(d), UNCHANGED <<ocrResults, matriculas>>
    PROVE  Lifecycle!LNext
<1>1. \A e \in Docs \ {d} : docs'[e] = docs[e]
  BY DEF Written
<1>2. docs[d].attempts \in Int /\ ocrResults[d] = ocrResults[d]
  BY DEF TInv, TypeOK, StoreTypeOK, Row
<1>3. CASE Edge(d, "uploaded", "processing") /\ SameStage(d) /\ SameAttempts(d)
  <2>1. Lifecycle!StartIngest(d)
    BY <1>1, <1>3, MovesStatus, KeepsRest, DataView DEF Lifecycle!StartIngest, Moves, Edge
  <2> QED
    BY <2>1 DEF Lifecycle!LNext
<1>4. CASE /\ Edge(d, "processing", "failed") /\ SameAttempts(d)
           /\ docs'[d].failedStage \in {"ingest", "ocr", "ocr_dispatch"}
  <2>1. Lifecycle!FailBeforeText(d)
    BY <1>1, <1>4, MovesStatus, KeepsRest, DataView DEF Lifecycle!FailBeforeText, Moves, Edge
  <2> QED
    BY <2>1 DEF Lifecycle!LNext
<1>5. CASE Edge(d, "processing", "ocr_done") /\ SameStage(d) /\ SameAttempts(d) /\ HasWholeText(d)
  <2>1. Lifecycle!OCRDone(d)
    BY <1>1, <1>5, MovesStatus, KeepsRest, DataView DEF Lifecycle!OCRDone, Moves, Edge, HasWholeText
  <2> QED
    BY <2>1 DEF Lifecycle!LNext
<1>6. CASE /\ Edge(d, "ocr_done", "extracting") /\ SameStage(d)
           /\ docs[d].attempts < MaxAttempts
           /\ docs'[d].attempts = docs[d].attempts + 1
  <2>1. Lifecycle!ClaimDoc(d)
    BY <1>1, <1>6, MovesStatus, KeepsRest, DataView DEF Lifecycle!ClaimDoc, Moves, Edge
  <2> QED
    BY <2>1 DEF Lifecycle!LNext
<1>7. CASE Edge(d, "extracting", "ocr_done") /\ SameStage(d) /\ SameAttempts(d)
  <2>1. Lifecycle!Retry(d)
    BY <1>1, <1>7, MovesStatus, KeepsRest, DataView DEF Lifecycle!Retry, Moves, Edge
  <2> QED
    BY <2>1 DEF Lifecycle!LNext
<1>8. CASE /\ Edge(d, "extracting", "extracted") /\ SameStage(d) /\ SameAttempts(d)
           /\ matriculas[d] # NoAggregate
  <2>1. matriculas[d].claim # 0
    BY <1>2, <1>8 DEF Inductive, RowInv, GoodAggregate
  <2>2. Lifecycle!Extract(d)
    BY <1>1, <1>8, <2>1, MovesStatus, KeepsRest, DataView DEF Lifecycle!Extract, Moves, Edge
  <2> QED
    BY <2>2 DEF Lifecycle!LNext
<1>9. CASE Edge(d, "extracting", "failed") /\ SameAttempts(d) /\ docs'[d].failedStage = "extraction"
  <2>1. Lifecycle!FailExtraction(d)
    BY <1>1, <1>9, MovesStatus, KeepsRest, DataView DEF Lifecycle!FailExtraction, Moves, Edge
  <2> QED
    BY <2>1 DEF Lifecycle!LNext
<1>10. ~Edge(d, "ocr_done", "failed")
  BY DEF Written, Edge
<1> QED
  BY <1>3, <1>4, <1>5, <1>6, <1>7, <1>8, <1>9, <1>10 DEF Transition

\* A move of a row is a step of the life of its document, or none.
LEMMA RowStep ==
    ASSUME TInv, Inductive, NEW d \in Docs, Effect(d), Written(d), UNCHANGED <<ocrResults, matriculas>>
    PROVE  LifecycleStep
<1>1. \A e \in Docs \ {d} : SameView(e)
  BY DEF Written, SameView, SameStage, SameAttempts
<1>2. CASE docs'[d] = docs[d] \/ Quiet(d)
  <2>1. SameView(d)
    BY <1>2 DEF SameView, SameStage, SameAttempts, Quiet
  <2> QED
    BY <1>1, <2>1, Stutters DEF LifecycleStep
<1>3. CASE Transition(d)
  BY <1>3, EdgeIsStep DEF LifecycleStep
<1>4. CASE Born(d)
  <2>1. docs[d] = NoRow /\ docs'[d] = Create(NoRow)
    BY <1>4 DEF Born, Inductive, RowInv
  <2>2. Moves(d, "absent", "uploaded") /\ SameStage(d) /\ SameAttempts(d)
    BY <2>1 DEF NoRow, Create, Moves, SameStage, SameAttempts, Written
  <2>3. Lifecycle!Create(d)
    BY <2>2, MovesStatus, KeepsRest, DataView DEF Lifecycle!Create, Moves
  <2> QED
    BY <2>3 DEF Lifecycle!LNext, LifecycleStep
<1> QED
  BY <1>2, <1>3, <1>4, MoveIsTransition DEF Effect

\* A page's text arrives.
LEMMA TextStep ==
    ASSUME TInv, Inductive, Started, NEW j \in JobSlots, NEW p \in PageNums,
           RecognizePage(j, p) \/ UpsertFails(j, p)
    PROVE  LifecycleStep
<1>1. UNCHANGED <<docs, matriculas>> /\ jobs[j].pc # "free"
  BY DEF RecognizePage, UpsertFails
<1>2. PICK d \in Docs : d = jobs[j].doc
  BY <1>1 DEF TInv, Ranges, JobRange
<1>3. ocrResults \in [Docs -> SUBSET PageNums] /\ docs[d] \in Row
  BY DEF TInv, TypeOK, StoreTypeOK
<1>4. Ingested(d) /\ RowInv(d)
  BY <1>1, <1>2 DEF Inductive, JobInv
<1>5. ocrResults' \in {ocrResults, [ocrResults EXCEPT ![d] = @ \cup {p}]}
  BY <1>2 DEF RecognizePage, UpsertFails
<1>6. CASE ocrResults' = ocrResults
  BY <1>1, <1>6, Stutters DEF SameView, SameStage, SameAttempts, LifecycleStep
<1>7. CASE p \notin ocrResults[d] /\ ocrResults' = [ocrResults EXCEPT ![d] = @ \cup {p}]
  <2>1. docs[d].status \notin PastOCR
    BY <1>4, <1>7 DEF RowInv, HasWholeText
  <2>2. docs[d].status # "absent"
    BY <1>4, PagesAssumption DEF RowInv, Ingested, NoRow
  <2>3. docs[d].status # "uploaded"
    BY <1>4, PagesAssumption DEF Started, Ingested
  <2>4. docs[d].status \in {"processing", "failed"}
    BY <1>3, <2>1, <2>2, <2>3 DEF Row, Status, PastOCR
  <2>5. Lifecycle!StoreText(d)
    BY <1>1, <1>7, <2>4 DEF Lifecycle!StoreText
  <2> QED
    BY <2>5 DEF Lifecycle!LNext, LifecycleStep
<1>8. CASE p \in ocrResults[d] /\ ocrResults' = [ocrResults EXCEPT ![d] = @ \cup {p}]
  <2>1. ocrResults' = ocrResults
    BY <1>3, <1>8
  <2> QED
    BY <1>6, <2>1
<1> QED
  BY <1>5, <1>6, <1>7, <1>8

\* An aggregate is stored.
LEMMA SaveStep ==
    ASSUME TInv, Inductive, NEW r \in Replicas, SaveAggregate(r)
    PROVE  LifecycleStep
<1>1. UNCHANGED <<docs, ocrResults>> /\ poll[r].pc = "save"
  BY DEF SaveAggregate
<1>2. PICK d \in Docs : d = poll[r].doc
  BY <1>1 DEF TInv, Ranges, PollRange, Extracting
<1>3. PICK c : c = poll[r].claim
  OBVIOUS
<1>4. c \in 1 .. docs[d].attempts
  <2>1. c <= docs[d].attempts
    BY <1>1, <1>2, <1>3 DEF Inductive, PollInv, Extracting
  <2>2. c \in Claims /\ docs[d].attempts \in Int
    BY <1>1, <1>3, AttemptsAssumption DEF TInv, Ranges, PollRange, Extracting, Claims, TypeOK, StoreTypeOK, Row
  <2> QED
    BY <2>1, <2>2, AttemptsAssumption DEF Claims
<1>5. CASE UNCHANGED matriculas
  BY <1>1, <1>5, Stutters DEF SameView, SameStage, SameAttempts, LifecycleStep
<1>6. CASE matriculas' = [matriculas EXCEPT ![d] = [claim |-> c, text |-> poll[r].text]]
  <2>1. matriculas \in [Docs -> Aggregates \cup {NoAggregate}]
    BY DEF TInv, TypeOK, StoreTypeOK
  <2>2. matriculas'[d].claim = c /\ \A e \in Docs \ {d} : matriculas'[e] = matriculas[e]
    BY <1>6, <2>1
  <2>3. CASE c = matriculas[d].claim
    BY <1>1, <2>2, <2>3, Stutters DEF SameView, SameStage, SameAttempts, LifecycleStep
  <2>4. CASE c # matriculas[d].claim
    <3>1. [e \in Docs |-> matriculas'[e].claim] = [[e \in Docs |-> matriculas[e].claim] EXCEPT ![d] = c]
      BY <2>2
    <3>2. Lifecycle!Save(d)
      BY <1>1, <1>4, <2>4, <3>1 DEF Lifecycle!Save
    <3> QED
      BY <3>2 DEF Lifecycle!LNext, LifecycleStep
  <2> QED
    BY <2>3, <2>4
<1> QED
  BY <1>2, <1>3, <1>5, <1>6 DEF SaveAggregate

\* The documents whose attempts are used up fail together.
LEMMA ExhaustStep ==
    ASSUME TInv, NEW r \in Replicas, Exhaust(r)
    PROVE  LifecycleStep
<1>1. UNCHANGED <<ocrResults, matriculas>> /\ docs \in [Docs -> Row]
  BY DEF Exhaust, TInv, TypeOK, StoreTypeOK
<1> DEFINE out == {d \in Docs : docs[d].status = "ocr_done" /\ docs[d].attempts >= MaxAttempts}
<1>2. \A d \in Docs \ out : FailExhausted(docs[d]) = docs[d]
  BY DEF FailExhausted
<1>3. CASE docs' = docs
  BY <1>1, <1>3, Stutters DEF SameView, SameStage, SameAttempts, LifecycleStep
<1>4. CASE docs' = [d \in Docs |-> FailExhausted(docs[d])]
  <2>1. CASE out = {}
    <3>1. \A d \in Docs : docs'[d] = docs[d]
      BY <1>2, <1>4, <2>1
    <3> QED
      BY <1>1, <3>1, Stutters DEF SameView, SameStage, SameAttempts, LifecycleStep
  <2>2. CASE out # {}
    <3>1. \A d \in out : /\ docs'[d].status = "failed" /\ docs'[d].failedStage = "extraction"
                          /\ docs'[d].attempts = docs[d].attempts
      BY <1>1, <1>4 DEF FailExhausted, Row
    <3>2. \A d \in Docs \ out : docs'[d] = docs[d]
      BY <1>2, <1>4
    <3>3. /\ [d \in Docs |-> docs'[d].status] =
                [d \in Docs |-> IF d \in out THEN "failed" ELSE docs[d].status]
          /\ [d \in Docs |-> docs'[d].failedStage] =
                [d \in Docs |-> IF d \in out THEN "extraction" ELSE docs[d].failedStage]
          /\ [d \in Docs |-> docs'[d].attempts] = [d \in Docs |-> docs[d].attempts]
      BY <3>1, <3>2
    <3>4. Lifecycle!ExhaustAll
      BY <1>1, <2>2, <3>3 DEF Lifecycle!ExhaustAll
    <3> QED
      BY <3>4 DEF Lifecycle!LNext, LifecycleStep
  <2> QED
    BY <2>1, <2>2
<1> QED
  BY <1>3, <1>4 DEF Exhaust

\* Every step of the pipeline is a step of the life of one document, the common verdict of FailExhausted, or none.
LEMMA StepRefines ==
    ASSUME TInv, Inductive, Started, [Next]_vars
    PROVE  LifecycleStep
<1>1. ASSUME UNCHANGED <<ocrResults, matriculas>>, \A r \in Replicas : ~Exhaust(r)
      PROVE  LifecycleStep
  <2>1. CASE UNCHANGED docs
    BY <1>1, <2>1, Stutters DEF SameView, SameStage, SameAttempts, LifecycleStep
  <2> QED
    BY <1>1, <2>1, OneRow, AllEffects, RowStep
<1>2. \/ UNCHANGED <<ocrResults, matriculas>>
      \/ \E j \in JobSlots, p \in PageNums : RecognizePage(j, p) \/ UpsertFails(j, p)
      \/ \E r \in Replicas : SaveAggregate(r)
  <2>1. ASSUME NEW j \in JobSlots, JobStep(j)
        PROVE  \/ UNCHANGED <<ocrResults, matriculas>>
               \/ \E p \in PageNums : RecognizePage(j, p) \/ UpsertFails(j, p)
    BY <2>1 DEF JobStep, PageFails, FlipDone, FlipFailed
  <2>2. ASSUME NEW x \in Runners, RunnerStep(x) PROVE UNCHANGED <<ocrResults, matriculas>>
    BY <2>2 DEF RunnerStep, StorePDF, CreateRow, ClaimIngest, CheckStatus, Render, UploadPage, AddPages,
         CountPages, PostAccepted, PostUnanswered, PostRefused, Stamp, RecordFailure, LoadPages, storeVars
  <2>3. ASSUME NEW r \in Replicas, PollStep(r), ~SaveAggregate(r) PROVE UNCHANGED <<ocrResults, matriculas>>
    BY <2>3 DEF PollStep, Tick, Claim, NothingToClaim, ReadOCR, CallLLM, FlipExtracted,
         Requeue, GiveUp, Exhaust, Scan, Repair, EndTick, storeVars
  <2>4. CASE \/ UNCHANGED vars
             \/ \E d \in Docs, r \in Replicas : Upload(d, r)
             \/ LoseJobs
             \/ \E r \in Replicas : Crash(r)
             \/ \E d \in Docs : Age(d) \/ BackoffElapses(d)
    BY <2>4 DEF vars, storeVars, Upload, LoseJobs, Crash, Age, BackoffElapses
  <2> QED
    BY <2>1, <2>2, <2>3, <2>4 DEF Next
<1> QED
  BY <1>1, <1>2, TextStep, SaveStep, ExhaustStep

\* No document exists at first.
LEMMA InitRefines == Init => Lifecycle!LInit
  BY DEF Init, StoreInit, NoRow, NoAggregate, Lifecycle!LInit

\* Whatever replicas, pollers, jobs, duplicates, crashes and lost answers do,
\* a client sees a document go through DocumentLifecycle and nothing else (the
\* status guards of documents.go and of cmd/ocr/store.go).
THEOREM RefinesLifecycle == Spec => ImplementsLifecycle
<1>1. Init => Lifecycle!LInit
  BY InitRefines
<1>2. Init => TInv /\ Inductive /\ Started
  BY InitTypes, InitInductive, InitStarted
<1>3. TInv /\ Inductive /\ Started /\ [Next]_vars => (TInv /\ Inductive /\ Started)'
  BY StepTypes, StepInductive, StepStarted
<1>4. TInv /\ Inductive /\ Started /\ [Next]_vars => [Lifecycle!LNext]_(Lifecycle!lifecycleVars)
  BY StepRefines DEF LifecycleStep
<1> QED
  BY <1>1, <1>2, <1>3, <1>4, PTL DEF Spec, ImplementsLifecycle, Lifecycle!LSpec
==============================================================================
