----------------------------- MODULE PipelineInv -----------------------------
(***************************************************************************)
(* The inductive invariant of Pipeline.  The safety properties are not     *)
(* inductive: that a flip to ocr_done finds every text in place is a fact  *)
(* about what the job has done so far, and that a job is complete is a     *)
(* fact about what the runner that sent it had done before.                *)
(***************************************************************************)
EXTENDS Pipeline

\* Ingest has finished its part for document d, and nothing ever undoes it.
Ingested(d) ==
    /\ pages[d] = PageNums
    /\ Objects \subseteq bucket[d]
    /\ docs[d].pageCount = NumPages

HasWholeText(d) == ocrResults[d] = PageNums

GoodAggregate(d) ==
    /\ matriculas[d].claim \in 1 .. docs[d].attempts
    /\ matriculas[d].claim \in extractions[d]
    /\ matriculas[d].text = PageNums

BeforeClaim == {"absent", "uploaded", "processing"}

RowInv(d) ==
    /\ docs[d].status = "absent" => docs[d] = NoRow
    /\ docs[d].dispatched => Ingested(d)
    /\ docs[d].status \in PastOCR => Ingested(d) /\ HasWholeText(d)
    /\ docs[d].status \in BeforeClaim => docs[d].attempts = 0
    /\ docs[d].status = "extracting" => docs[d].attempts > 0
    /\ docs[d].status = "extracted" => matriculas[d] # NoAggregate
    /\ matriculas[d] # NoAggregate => GoodAggregate(d)

FailureInv(d) ==
    docs[d].status = "failed" =>
        \/ docs[d].failedStage = "extraction" /\ docs[d].attempts > 0 /\ HasWholeText(d)
        \/ docs[d].failedStage \in {"ocr", "ocr_dispatch"} /\ docs[d].attempts = 0 /\ Ingested(d)
        \/ docs[d].failedStage = "ingest" /\ docs[d].attempts = 0

RunnerInv(x) ==
    LET d == ing[x].doc IN
    /\ ing[x].pc \in {"upload", "create"} => x = d /\ docs[d].status = "absent"
    /\ ing[x].pc \notin {"idle", "upload", "create"} => docs[d].status # "absent"
    /\ ing[x].pc = "pages" => PDF \in bucket[d] /\ 1 .. ing[x].n \subseteq bucket[d]
    /\ ing[x].pc \in {"record", "count", "post", "stamp"} =>
         ing[x].n = NumPages /\ Objects \subseteq bucket[d]
    /\ ing[x].pc = "count" => pages[d] = PageNums
    /\ ing[x].pc \in {"post", "stamp", "fail_dispatch", "reload"} => Ingested(d)

JobInv(j) ==
    LET d == jobs[j].doc IN
    /\ jobs[j].pc # "free" => Ingested(d)
    /\ jobs[j].pc = "pages" => PageNums \ jobs[j].todo \subseteq ocrResults[d]

PollInv(r) ==
    LET d == poll[r].doc IN
    /\ poll[r].pc \in Extracting =>
         Ingested(d) /\ HasWholeText(d) /\ poll[r].claim <= docs[d].attempts
    /\ poll[r].pc \in {"llm", "save", "flip"} => poll[r].text = PageNums
    /\ poll[r].pc = "flip" => matriculas[d] # NoAggregate
    /\ \A item \in poll[r].list :
         /\ docs[item.doc].status # "absent"
         /\ item.repair = "redispatch" => Ingested(item.doc)

\* Everything above at once: the tables, the jobs, the ingest goroutines and
\* the pollers agree on how far every document has come.
Inductive ==
    /\ \A d \in Docs : RowInv(d) /\ FailureInv(d)
    /\ \A x \in Runners : RunnerInv(x)
    /\ \A j \in JobSlots : JobInv(j)
    /\ \A r \in Replicas : PollInv(r)
==============================================================================
