-------------------------------- MODULE Poller --------------------------------
(***************************************************************************)
(* internal/services/extraction: the poller of every API replica.  A tick  *)
(* drains the documents that are ready for the LLM (ExtractDocument), then *)
(* fails the ones whose attempts are used up, then runs the janitor over   *)
(* a list of stuck documents that it reads once.                           *)
(***************************************************************************)
EXTENDS Ingest

CONSTANT LLMConfigured   \* cmd/api/main.go starts the poller only with an LLM

ASSUME LLMAssumption == LLMConfigured \in BOOLEAN

VARIABLE poll            \* poll[r]: where the poller of replica r stands

PollPC == {"idle", "claim", "read", "llm", "save", "flip", "requeue", "giveup",
           "exhaust", "scan", "janitor"}

Repairs == {"reingest", "redispatch", "requeue"}

\* doc, claim: the claimed document and its attempt number; text: the pages in
\* the prompt; list: what is left of the janitor's list.
PollState == [pc: PollPC, doc: Docs \cup {NoDoc}, claim: 0 .. MaxAttempts,
              text: SUBSET PageNums, list: SUBSET [doc: Docs, repair: Repairs]]

IdlePoll == [pc |-> "idle", doc |-> NoDoc, claim |-> 0, text |-> {}, list |-> {}]

PollTypeOK == poll \in [Replicas -> PollState]
PollInit   == poll = [r \in Replicas |-> IdlePoll]

PollGoto(r, pc) == poll' = [poll EXCEPT ![r].pc = pc]
NextClaim(r)    == poll' = [poll EXCEPT ![r] = [IdlePoll EXCEPT !.pc = "claim"]]

\* The ticker of Run fires.
Tick(r) ==
    /\ LLMConfigured
    /\ poll[r].pc = "idle"
    /\ PollGoto(r, "claim")
    /\ UNCHANGED <<storeVars, jobs, ing>>

(***************************************************************************)
(* The claim loop of tick.                                                 *)
(***************************************************************************)

\* One statement selects, locks and claims a document.  SKIP LOCKED may pass
\* over the oldest one, so any claimable document can come back.
Claim(r) ==
    /\ poll[r].pc = "claim"
    /\ \E d \in Docs :
         /\ Claimable(docs[d])
         /\ LET row == ClaimForExtraction(docs[d]) IN
            \/ /\ Exec(d, row)
               /\ poll' = [poll EXCEPT ![r].pc = "read", ![r].doc = d, ![r].claim = row.attempts]
               /\ NoFault
            \/ Fault("db") /\ MaybeExec(d, row) /\ PollGoto(r, "exhaust")
    /\ UNCHANGED <<pages, ocrResults, extractions, matriculas, bucket, jobs, ing>>

NothingToClaim(r) ==
    /\ poll[r].pc = "claim"
    /\ ~ \E d \in Docs : Claimable(docs[d])
    /\ PollGoto(r, "exhaust")
    /\ UNCHANGED <<storeVars, jobs, ing>>

(***************************************************************************)
(* ExtractDocument and extract.                                            *)
(***************************************************************************)

\* ResultsByDocument: an error is transient, no rows at all is terminal.
ReadOCR(r) ==
    /\ poll[r].pc = "read"
    /\ LET found == ocrResults[poll[r].doc] IN
       \/ /\ poll' = [poll EXCEPT ![r].pc = IF found = {} THEN "giveup" ELSE "llm",
                                  ![r].text = found]
          /\ NoFault
       \/ Fault("db") /\ PollGoto(r, "requeue")
    /\ UNCHANGED <<docs, pages, ocrResults, extractions, matriculas, bucket, jobs, ing>>

\* ExtractMatricula: an answer, a transient error, or a terminal one.
CallLLM(r) ==
    /\ poll[r].pc = "llm"
    /\ \/ PollGoto(r, "save") /\ NoFault
       \/ Fault("llm") /\ (PollGoto(r, "requeue") \/ PollGoto(r, "giveup"))
    /\ UNCHANGED <<docs, pages, ocrResults, extractions, matriculas, bucket, jobs, ing>>

SkipSave(r) ==
    /\ poll[r].pc = "save"
    /\ PollGoto(r, "flip")
    /\ UNCHANGED <<storeVars, jobs, ing>>

\* SaveAggregate: one transaction adds the raw answer to extractions and
\* replaces the document's aggregate.  Every error is transient.
SaveAggregate(r) ==
    /\ poll[r].pc = "save"
    /\ LET d     == poll[r].doc
           rows  == [extractions EXCEPT ![d] = @ \cup {poll[r].claim}]
           aggrs == [matriculas EXCEPT ![d] = [claim |-> poll[r].claim, text |-> poll[r].text]] IN
       \/ extractions' = rows /\ matriculas' = aggrs /\ PollGoto(r, "flip") /\ NoFault
       \/ /\ Fault("db")
          /\ \/ UNCHANGED <<extractions, matriculas>>
             \/ extractions' = rows /\ matriculas' = aggrs
          /\ PollGoto(r, "requeue")
    /\ UNCHANGED <<docs, pages, ocrResults, bucket, jobs, ing>>

\* extracting -> extracted; when nothing moved it is only logged.
FlipExtracted(r) ==
    /\ poll[r].pc = "flip"
    /\ LET d   == poll[r].doc
           row == UpdateStatus(docs[d], "extracting", "extracted") IN
       \/ Exec(d, row) /\ NextClaim(r) /\ NoFault
       \/ Fault("db") /\ MaybeExec(d, row) /\ PollGoto(r, "requeue")
    /\ UNCHANGED <<pages, ocrResults, extractions, matriculas, bucket, jobs, ing>>

\* A transient error: back to the queue after the backoff.
Requeue(r) ==
    /\ poll[r].pc = "requeue"
    /\ LET d   == poll[r].doc
           row == ReturnForRetry(docs[d], TRUE) IN
       \/ Exec(d, row) /\ NoFault
       \/ Fault("db") /\ MaybeExec(d, row)
    /\ NextClaim(r)
    /\ UNCHANGED <<pages, ocrResults, extractions, matriculas, bucket, jobs, ing>>

\* A terminal error.
GiveUp(r) ==
    /\ poll[r].pc = "giveup"
    /\ LET d   == poll[r].doc
           row == MarkFailed(docs[d], "extracting", "extraction") IN
       \/ Exec(d, row) /\ NoFault
       \/ Fault("db") /\ MaybeExec(d, row)
    /\ NextClaim(r)
    /\ UNCHANGED <<pages, ocrResults, extractions, matriculas, bucket, jobs, ing>>

(***************************************************************************)
(* After the claims: FailExhausted, then the janitor.                      *)
(***************************************************************************)
Exhaust(r) ==
    /\ poll[r].pc = "exhaust"
    /\ LET rows == [d \in Docs |-> FailExhausted(docs[d])] IN
       \/ docs' = rows /\ NoFault
       \/ Fault("db") /\ docs' \in {docs, rows}
    /\ PollGoto(r, "scan")
    /\ UNCHANGED <<pages, ocrResults, extractions, matriculas, bucket, jobs, ing>>

\* What the janitor will do about a row, decided by the row it has read.
RepairOf(row) ==
    CASE row.status = "extracting"                    -> "requeue"
      [] row.status # "extracting" /\ row.dispatched  -> "redispatch"
      [] row.status # "extracting" /\ ~row.dispatched -> "reingest"

\* StuckDocuments is read once; the list is worked through later.
Scan(r) ==
    /\ poll[r].pc = "scan"
    /\ \/ /\ poll' = [poll EXCEPT
                ![r].pc = "janitor",
                ![r].list = {[doc |-> d, repair |-> RepairOf(docs[d])] :
                               d \in {e \in Docs : StuckDocument(docs[e])}}]
          /\ NoFault
       \/ Fault("db") /\ PollGoto(r, "idle")
    /\ UNCHANGED <<docs, pages, ocrResults, extractions, matriculas, bucket, jobs, ing>>

\* One entry of the list.  Process and Redispatch run in this goroutine: the
\* next entry waits until runner r is idle again.
Repair(r) ==
    /\ poll[r].pc = "janitor"
    /\ ing[r].pc = "idle"
    /\ \E item \in poll[r].list :
         /\ poll' = [poll EXCEPT ![r].list = @ \ {item}]
         /\ \/ /\ item.repair = "reingest"
               /\ Start(r, item.doc, r, "claim", FALSE)
               /\ UNCHANGED <<docs, faults>>
            \/ /\ item.repair = "redispatch"
               /\ Start(r, item.doc, r, "reload", TRUE)
               /\ UNCHANGED <<docs, faults>>
            \/ /\ item.repair = "requeue"
               /\ LET row == ReturnForRetry(docs[item.doc], FALSE) IN
                  \/ Exec(item.doc, row) /\ NoFault
                  \/ Fault("db") /\ MaybeExec(item.doc, row)
               /\ UNCHANGED ing
    /\ UNCHANGED <<pages, ocrResults, extractions, matriculas, bucket, jobs>>

EndTick(r) ==
    /\ poll[r].pc = "janitor"
    /\ ing[r].pc = "idle"
    /\ poll[r].list = {}
    /\ PollGoto(r, "idle")
    /\ UNCHANGED <<storeVars, jobs, ing>>

PollStep(r) ==
    \/ Tick(r) \/ Claim(r) \/ NothingToClaim(r)
    \/ ReadOCR(r) \/ CallLLM(r) \/ SaveAggregate(r) \/ FlipExtracted(r)
    \/ Requeue(r) \/ GiveUp(r)
    \/ Exhaust(r) \/ Scan(r) \/ Repair(r) \/ EndTick(r)
==============================================================================
