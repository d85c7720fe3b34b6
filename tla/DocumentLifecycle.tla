-------------------------- MODULE DocumentLifecycle --------------------------
(***************************************************************************)
(* What the pipeline promises to a client that polls one document: the     *)
(* status machine of documents.status, and what a status guarantees about  *)
(* the stored data.  No worker, message, timeout or fault appears here.    *)
(*                                                                         *)
(*   uploaded -> processing -> ocr_done <-> extracting -> extracted        *)
(*                   |             |             |                         *)
(*                   +-------------+-------------+------> failed (stage)   *)
(***************************************************************************)
EXTENDS Naturals

CONSTANTS Docs, Pages, MaxAttempts

VARIABLES
    status,     \* documents.status, "absent" before the row exists
    stage,      \* documents.failed_stage, "none" for NULL
    attempts,   \* documents.extraction_attempts
    text,       \* the pages whose text is stored
    aggregate   \* the attempt whose aggregate is stored, 0 for none

lifecycleVars == <<status, stage, attempts, text, aggregate>>

LInit ==
    /\ status = [d \in Docs |-> "absent"]
    /\ stage = [d \in Docs |-> "none"]
    /\ attempts = [d \in Docs |-> 0]
    /\ text = [d \in Docs |-> {}]
    /\ aggregate = [d \in Docs |-> 0]

Move(d, from, to) ==
    /\ status[d] = from
    /\ status' = [status EXCEPT ![d] = to]

Create(d) == Move(d, "absent", "uploaded") /\ UNCHANGED <<stage, attempts, text, aggregate>>

StartIngest(d) == Move(d, "uploaded", "processing") /\ UNCHANGED <<stage, attempts, text, aggregate>>

\* The text of one more page arrives; a late duplicate of a job that failed may
\* still add to it.
StoreText(d) ==
    /\ status[d] \in {"processing", "failed"}
    /\ \E p \in Pages \ text[d] : text' = [text EXCEPT ![d] = @ \cup {p}]
    /\ UNCHANGED <<status, stage, attempts, aggregate>>

OCRDone(d) ==
    /\ text[d] = Pages
    /\ Move(d, "processing", "ocr_done")
    /\ UNCHANGED <<stage, attempts, text, aggregate>>

FailBeforeText(d) ==
    /\ Move(d, "processing", "failed")
    /\ \E s \in {"ingest", "ocr_dispatch", "ocr"} : stage' = [stage EXCEPT ![d] = s]
    /\ UNCHANGED <<attempts, text, aggregate>>

ClaimDoc(d) ==
    /\ attempts[d] < MaxAttempts
    /\ Move(d, "ocr_done", "extracting")
    /\ attempts' = [attempts EXCEPT ![d] = @ + 1]
    /\ UNCHANGED <<stage, text, aggregate>>

SaveUncounted(d) ==
    /\ \E n \in 1 .. attempts[d] + 1 : n # aggregate[d] /\ aggregate' = [aggregate EXCEPT ![d] = n]
    /\ UNCHANGED <<status, stage, attempts, text>>

\* An extraction that has been claimed stores its answer, at once or after the
\* document has moved on, in place of the answer that was there.
Save(d) ==
    /\ \E n \in 1 .. attempts[d] : n # aggregate[d] /\ aggregate' = [aggregate EXCEPT ![d] = n]
    /\ UNCHANGED <<status, stage, attempts, text>>

RetryUnguarded(d) ==
    /\ attempts[d] > 0
    /\ Move(d, status[d], "ocr_done")
    /\ UNCHANGED <<stage, attempts, text, aggregate>>

Retry(d) == Move(d, "extracting", "ocr_done") /\ UNCHANGED <<stage, attempts, text, aggregate>>

Extract(d) ==
    /\ aggregate[d] # 0
    /\ Move(d, "extracting", "extracted")
    /\ UNCHANGED <<stage, attempts, text, aggregate>>

FailExtractionUnguarded(d) ==
    /\ attempts[d] > 0
    /\ Move(d, status[d], "failed")
    /\ stage' = [stage EXCEPT ![d] = "extraction"]
    /\ UNCHANGED <<attempts, text, aggregate>>

FailExtraction(d) ==
    /\ Move(d, "extracting", "failed")
    /\ stage' = [stage EXCEPT ![d] = "extraction"]
    /\ UNCHANGED <<attempts, text, aggregate>>

\* Every document whose attempts are used up fails at once, and no other.
ExhaustAll ==
    LET out == {d \in Docs : status[d] = "ocr_done" /\ attempts[d] >= MaxAttempts} IN
    /\ out # {}
    /\ status' = [d \in Docs |-> IF d \in out THEN "failed" ELSE status[d]]
    /\ stage' = [d \in Docs |-> IF d \in out THEN "extraction" ELSE stage[d]]
    /\ UNCHANGED <<attempts, text, aggregate>>

LNext ==
    \/ \E d \in Docs :
         \/ Create(d) \/ StartIngest(d) \/ StoreText(d) \/ OCRDone(d) \/ FailBeforeText(d)
         \/ ClaimDoc(d) \/ Save(d) \/ Retry(d) \/ Extract(d) \/ FailExtraction(d)
    \/ ExhaustAll

LSpec == LInit /\ [][LNext]_lifecycleVars
==============================================================================
