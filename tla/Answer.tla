-------------------------------- MODULE Answer --------------------------------
(***************************************************************************)
(* What becomes of the model's answers to one document: the strict decode  *)
(* and its repair round (clients/llm/langchain.go), Normalize              *)
(* (services/extraction/normalize.go), and the constraints of the tables   *)
(* the result is inserted in (migration 00004), over the attempts that     *)
(* extraction.go grants.  An answer has one ato with one parte, one        *)
(* proprietario and one onus: the code treats the elements of a list alike.*)
(* Nobody else touches the document here, so the status guards of the      *)
(* updates always hold; Pipeline has the races.  Values has the document   *)
(* numbers of the answer and the backoff between the attempts.             *)
(***************************************************************************)
EXTENDS Values

CONSTANT MaxAttempts    \* MAX_EXTRACTION_ATTEMPTS

ASSUME AnswerAssumption == MaxAttempts \in Nat \ {0}

\* A field with a closed vocabulary holds one of its words; such a word in
\* another case or with spaces around it; only spaces; nothing; another word.
Loose    == {"cased", "spaces", "empty", "other"}
Spelling == {"word"} \cup Loose

\* form: how the JSON object comes, alone or with prose or code fences around;
\* "unusable" stands for no object, one that does not decode, no "numero".
Answers ==
    [form: {"bare", "wrapped", "unusable"},
     kind: Spelling, papel: Spelling, parte: Spelling, dono: Spelling,
     onus: {"ativo", "cancelado"} \cup Loose,
     cancel: {"none", "listed", "dangling"}]    \* ato_cancelamento

NoAnswer == [form |-> "unusable", kind |-> "empty", papel |-> "empty", parte |-> "empty",
             dono |-> "empty", onus |-> "empty", cancel |-> "none"]

VARIABLES
    status,      \* documents.status, from "ocr_done" on
    attempts,    \* documents.extraction_attempts
    pc,          \* where the attempt stands
    call,        \* generate calls of this attempt
    answer,      \* the answer being looked at
    aggregate,   \* the stored aggregates, at most one
    asked        \* generate calls for this document so far

answerVars == <<status, attempts, pc, call, answer, aggregate, asked>>

AnswerInit ==
    /\ status = "ocr_done"
    /\ attempts = 0
    /\ pc = "idle"
    /\ call = 0
    /\ answer = NoAnswer
    /\ aggregate = {}
    /\ asked = 0

(***************************************************************************)
(* What is computed from an answer.                                        *)
(***************************************************************************)
enumOK(spelling, optional) ==
    \/ spelling \in {"word", "ativo", "cancelado", "cased"}
    \/ spelling \in {"spaces", "empty"} /\ optional

validateEnumsOfAtos(a) ==
    /\ enumOK(a.kind, FALSE) /\ enumOK(a.papel, FALSE) /\ enumOK(a.parte, TRUE)
    /\ enumOK(a.onus, TRUE)

validateEnums(a) ==
    /\ enumOK(a.kind, FALSE) /\ enumOK(a.papel, FALSE) /\ enumOK(a.parte, TRUE)
    /\ enumOK(a.dono, TRUE)
    /\ enumOK(a.onus, TRUE)

parseExtraction(a) == a.form # "unusable" /\ validateEnums(a)

Lowered(spelling) ==    \* ToLower and TrimSpace
    CASE spelling = "cased" -> "word" [] spelling = "spaces" -> "empty" [] OTHER -> spelling

LoweredEnums(a) == [a EXCEPT !.kind = Lowered(@), !.papel = Lowered(@),
                             !.parte = Lowered(@), !.dono = Lowered(@)]

NormalizeKeepingStatus(a) ==
    [LoweredEnums(a) EXCEPT
        !.onus = IF @ # "empty" THEN @ ELSE IF a.cancel # "none" THEN "cancelado" ELSE "ativo"]

\* A cancelling act decides the status of an onus, or else what the model said.
Normalize(a) ==
    [LoweredEnums(a) EXCEPT
        !.onus = IF a.cancel # "none" THEN "cancelado" ELSE IF @ = "empty" THEN "ativo" ELSE @]

\* The CHECK and NOT NULL constraints; an empty tipo_pessoa is stored as NULL.
EnumChecks(a) ==
    /\ a.kind = "word" /\ a.papel = "word"
    /\ {a.parte, a.dono} \subseteq {"word", "empty"}
    /\ a.onus \in {"ativo", "cancelado"}

\* extractions.raw_response is jsonb, and gets the answer as it came.
Storable(a) == a.form = "bare" /\ EnumChecks(a)

\* atoRef: a reference to an ato that is not listed is stored as NULL.
OnusRow(a) == [status |-> a.onus, cancelledBy |-> IF a.cancel = "listed" THEN "ato" ELSE "null"]

(***************************************************************************)
(* An attempt.                                                             *)
(***************************************************************************)
\* ClaimForExtraction.
Claim ==
    /\ pc = "idle" /\ status = "ocr_done" /\ attempts < MaxAttempts
    /\ status' = "extracting"
    /\ attempts' = attempts + 1
    /\ pc' = "ask"
    /\ UNCHANGED <<call, answer, aggregate, asked>>

Asked == call' = call + 1 /\ asked' = asked + 1

\* generate returns text.
Answered ==
    /\ pc = "ask" /\ Asked
    /\ answer' \in Answers
    /\ pc' = "parse"
    /\ UNCHANGED <<status, attempts, aggregate>>

\* An error that classify takes for a passing one, or no choices at all.
Unanswered ==
    /\ pc = "ask" /\ Asked
    /\ pc' = "requeue"
    /\ UNCHANGED <<status, attempts, answer, aggregate>>

\* An error that classify takes for a terminal one.
Refused ==
    /\ pc = "ask" /\ Asked
    /\ pc' = "fail"
    /\ UNCHANGED <<status, attempts, answer, aggregate>>

Accept ==
    /\ pc = "parse" /\ parseExtraction(answer)
    /\ pc' = "save"
    /\ UNCHANGED <<status, attempts, call, answer, aggregate, asked>>

RejectAlways ==
    /\ pc = "parse" /\ ~parseExtraction(answer)
    /\ pc' = IF call <= 2 THEN "ask" ELSE "requeue"
    /\ answer' = NoAnswer
    /\ UNCHANGED <<status, attempts, call, aggregate, asked>>

\* The first malformed answer is shown to the model; the second is transient
\* (langchain.go:91: "worth a document-level retry later"), although
\* docs/plans/00-overview.md:52 has it terminal after one retry within the call.
Reject ==
    /\ pc = "parse" /\ ~parseExtraction(answer)
    /\ pc' = IF call = 1 THEN "ask" ELSE "requeue"
    /\ answer' = NoAnswer
    /\ UNCHANGED <<status, attempts, call, aggregate, asked>>

\* Normalize and SaveAggregate.  Every error of it is transient.
Persist ==
    /\ pc = "save"
    /\ answer' = NoAnswer
    /\ \/ /\ Storable(Normalize(answer))
          /\ aggregate' = {OnusRow(Normalize(answer))}
          /\ pc' = "flip"
       \/ pc' = "requeue" /\ UNCHANGED aggregate
    /\ UNCHANGED <<status, attempts, call, asked>>

\* UpdateStatus to "extracted"; an error requeues.
MoveToExtracted ==
    /\ pc = "flip"
    /\ \/ status' = "extracted" /\ pc' = "idle" /\ call' = 0
       \/ pc' = "requeue" /\ UNCHANGED <<status, call>>
    /\ UNCHANGED <<attempts, answer, aggregate, asked>>

\* ReturnForRetry.
Requeue ==
    /\ pc = "requeue"
    /\ status' = "ocr_done" /\ pc' = "idle" /\ call' = 0
    /\ UNCHANGED <<attempts, answer, aggregate, asked>>

\* MarkFailed of a terminal error.
Fail ==
    /\ pc = "fail"
    /\ status' = "failed" /\ pc' = "idle" /\ call' = 0
    /\ UNCHANGED <<attempts, answer, aggregate, asked>>

\* FailExhausted, in the poller's tick.
FailExhausted ==
    /\ pc = "idle" /\ status = "ocr_done" /\ attempts >= MaxAttempts
    /\ status' = "failed"
    /\ UNCHANGED <<attempts, pc, call, answer, aggregate, asked>>

AnswerNext ==
    \/ Claim \/ Answered \/ Unanswered \/ Refused \/ Accept \/ Reject
    \/ Persist \/ MoveToExtracted \/ Requeue \/ Fail \/ FailExhausted

\* The document is done with.
Rest ==
    /\ status \in {"extracted", "failed"} /\ pc = "idle"
    /\ UNCHANGED answerVars

AnswerSpec == AnswerInit /\ [][AnswerNext \/ Rest]_answerVars

(***************************************************************************)
(* Properties.                                                             *)
(***************************************************************************)

AnswerTypeOK ==
    /\ status \in {"ocr_done", "extracting", "extracted", "failed"}
    /\ attempts \in 0..MaxAttempts
    /\ pc \in {"idle", "ask", "parse", "save", "flip", "requeue", "fail"}
    /\ call \in 0..2
    /\ answer \in Answers
    /\ aggregate \in SUBSET [status: {"ativo", "cancelado"}, cancelledBy: {"ato", "null"}]
    /\ asked \in Nat

\* The vocabularies of validateEnums, Normalize and the CHECK constraints
\* agree: an accepted answer that is JSON alone and whose onus status is
\* spelled exactly, absent or overruled by a cancelling act can be stored.
AcceptedCanBeStored ==
    (pc = "save" /\ answer.form = "bare"
       /\ (answer.onus \in {"ativo", "cancelado", "empty"} \/ answer.cancel # "none"))
    => Storable(Normalize(answer))

\* The model is asked at most twice an attempt, repair round included, and a
\* document never costs more than that over all its attempts.
CostIsBounded == asked <= 2 * attempts

\* The onus that is served as active has no cancelling act, whatever the model
\* wrote as its status (normalize.go: a cancelling act is authoritative).
ActiveIsNotCancelled ==
    \A row \in aggregate : row.cancelledBy = "ato" => row.status = "cancelado"

\* validCPF takes the one ending of a number that balances both of its weighted
\* sums, and no other, whatever CPF an answer brings to Normalize.
CPFsAreRight == pc = "save" => CPFsBalance

\* The same for validCNPJ, whose weights start again after the eighth character.
CNPJsAreRight == pc = "save" => CNPJsBalance

\* Flag, never reject: whatever text stands in a document field, normalizeDoc
\* loses none of its digits, flags what has any, and settles in one pass.
DocsAreKept == pc = "save" => DocsSurvive

\* The backoff of a returned document is positive, never shrinks from one
\* attempt to the next and stays within ten minutes, for 29 attempts: that is
\* what keeps one tick from claiming the document again and again.
BackoffIsInRange == pc = "requeue" => BackoffsGrow

\* langchain.go: validateEnums accepts what persistence accepts, "because
\* normalization lowercases these fields before insert".
AcceptedEnumsPersist == pc = "save" => EnumChecks(Normalize(answer))
==============================================================================
