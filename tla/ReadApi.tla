------------------------------- MODULE ReadApi -------------------------------
(***************************************************************************)
(* The HTTP API of cmd/api as its clients see it: the upload handler, the  *)
(* status, OCR and matricula endpoints and the services behind them.  The  *)
(* pipeline appears only through its promise, DocumentLifecycle (which     *)
(* Pipeline is shown to implement), and takes its steps between any two    *)
(* reads of one request: no endpoint reads in a transaction.               *)
(***************************************************************************)
EXTENDS DocumentLifecycle

CONSTANTS
    Clients,   \* each has one request under way at a time
    NoDoc

ASSUME NoDocAssumption    == NoDoc \notin Docs
ASSUME AttemptsAssumption == MaxAttempts \in Nat \ {0}

VARIABLES
    req,    \* req[c]: the request of client c, or the answer to its last one
    told    \* told[c][d]: what the answers so far have told c about document d

apiVars == <<lifecycleVars, req, told>>

\* "byId" stands for the three views of a matricula by its own id.
Routes == {"upload", "status", "ocr", "matricula", "byId"}

Statuses == {"absent", "uploaded", "processing", "ocr_done", "extracting", "extracted", "failed"}

\* Error codes of the envelope that the properties tell apart.
Codes == {"ok", "not_found", "not_ready", "failed", "bad_request", "internal"}

\* seen, stage: the row as read; code, text, id: the answer.  The id of a
\* matricula row is named by the attempt that inserted it: every SaveAggregate
\* inserts a new row with a new id.
Request == [pc: {"idle", "first", "second", "answered"}, route: Routes, doc: Docs \cup {NoDoc},
            seen: Statuses, stage: {"none", "ingest", "ocr_dispatch", "ocr", "extraction"},
            code: Codes, text: SUBSET Pages, id: 0 .. MaxAttempts]

Idle == [pc |-> "idle", route |-> "status", doc |-> NoDoc, seen |-> "absent", stage |-> "none",
         code |-> "ok", text |-> {}, id |-> 0]

Nothing == [status |-> "absent", text |-> {}, id |-> 0]

ApiInit ==
    /\ LInit
    /\ req = [c \in Clients |-> Idle]
    /\ told = [c \in Clients |-> [d \in Docs |-> Nothing]]

\* Answer a names the status of the document: in its body, or by being the one
\* answer that status gets.  A not_ready of /ocr only says that it exists.
NamesStatus(a) ==
    \/ a.code \in {"ok", "failed"}
    \/ a.code = "not_ready" /\ a.route = "matricula"

\* What client c knows once it has been given answer a.
Learn(c, a) ==
    told' = IF a.code \notin {"ok", "not_ready", "failed"} \/ a.route = "byId" THEN told
            ELSE [told EXCEPT ![c][a.doc] =
                    [status |-> IF NamesStatus(a) THEN a.seen
                                ELSE IF @.status = "absent" THEN "uploaded" ELSE @.status,
                     text   |-> IF a.code = "ok" /\ a.route = "ocr" THEN a.text ELSE @.text,
                     id     |-> IF a.code = "ok" /\ a.route = "matricula" THEN a.id ELSE @.id]]

Answer(c, a) ==
    /\ req' = [req EXCEPT ![c] = [a EXCEPT !.pc = "answered"]]
    /\ Learn(c, a)

\* A request arrives: for any document id, known to the client or not, and for
\* the matricula id it was given.
Ask(c, route, d) ==
    /\ req[c].pc \in {"idle", "answered"}
    /\ route = "byId" => told[c][d].id # 0
    /\ req' = [req EXCEPT ![c] = [Idle EXCEPT !.pc = "first", !.route = route,
                                    !.doc = IF route = "upload" THEN NoDoc ELSE d,
                                    !.id = IF route = "byId" THEN told[c][d].id ELSE 0]]
    /\ UNCHANGED <<told, lifecycleVars>>

\* No PDF, too large, or an unknown filter value: answered without a read.
Reject(c) ==
    /\ req[c].pc = "first"
    /\ req[c].route \in {"upload", "byId"}
    /\ Answer(c, [req[c] EXCEPT !.code = "bad_request"])
    /\ UNCHANGED lifecycleVars

AnswerBeforeInsert(c) ==
    /\ req[c].pc = "first"
    /\ req[c].route = "upload"
    /\ \E d \in Docs : /\ status[d] = "absent"
                       /\ Answer(c, [req[c] EXCEPT !.doc = d, !.seen = "uploaded"])
    /\ UNCHANGED lifecycleVars

\* CreateAndProcess inserts the row of a new document; Upload then answers 202.
InsertRow(c) ==
    /\ req[c].pc = "first"
    /\ req[c].route = "upload"
    /\ \E d \in Docs :
         /\ Create(d)
         /\ req' = [req EXCEPT ![c].pc = "second", ![c].doc = d]
    /\ UNCHANGED told

Accepted(c) ==
    /\ req[c].pc = "second"
    /\ req[c].route = "upload"
    /\ Answer(c, [req[c] EXCEPT !.seen = "uploaded"])
    /\ UNCHANGED lifecycleVars

\* GetByID: every route under /documents/{id} reads the row first.
ReadRow(c) ==
    /\ req[c].pc = "first"
    /\ req[c].route \in {"status", "ocr", "matricula"}
    /\ LET row == [req[c] EXCEPT !.seen = status[req[c].doc], !.stage = stage[req[c].doc]] IN
       \/ /\ row.seen = "absent"
          /\ Answer(c, [row EXCEPT !.code = "not_found"])
       \/ /\ row.seen # "absent" /\ row.route = "status"
          /\ Answer(c, row)
       \/ /\ row.seen = "failed" /\ row.route = "matricula"
          /\ Answer(c, [row EXCEPT !.code = "failed"])
       \/ /\ row.seen \notin {"absent", "failed", "extracted"} /\ row.route = "matricula"
          /\ Answer(c, [row EXCEPT !.code = "not_ready"])
       \/ /\ \/ row.seen # "absent" /\ row.route = "ocr"
             \/ row.seen = "extracted" /\ row.route = "matricula"
          /\ req' = [req EXCEPT ![c] = [row EXCEPT !.pc = "second"]]
          /\ UNCHANGED told
    /\ UNCHANGED lifecycleVars

TextThenRow(c) ==
    /\ req[c].pc = "second"
    /\ req[c].route = "ocr"
    /\ LET d == req[c].doc IN
       \/ /\ req' = [req EXCEPT ![c].text = text[d]]
          /\ UNCHANGED told
       \/ /\ req[c].text # {}
          /\ Answer(c, [req[c] EXCEPT !.seen = status[d]])
    /\ UNCHANGED lifecycleVars

\* OCRResults, second read: ResultsByDocument.
ReadText(c) ==
    /\ req[c].pc = "second"
    /\ req[c].route = "ocr"
    /\ LET found == text[req[c].doc] IN
       Answer(c, [req[c] EXCEPT !.text = found, !.code = IF found = {} THEN "not_ready" ELSE "ok"])
    /\ UNCHANGED lifecycleVars

\* ByDocument, second read: GetByDocumentID.  (Its four queries are the subject
\* of Aggregate.)
ReadMatricula(c) ==
    /\ req[c].pc = "second"
    /\ req[c].route = "matricula"
    /\ LET found == aggregate[req[c].doc] IN
       Answer(c, [req[c] EXCEPT !.id = found, !.code = IF found = 0 THEN "not_found" ELSE "ok"])
    /\ UNCHANGED lifecycleVars

\* Proprietarios, Atos, Onus: GetByID of the matricula row.
ReadById(c) ==
    /\ req[c].pc = "first"
    /\ req[c].route = "byId"
    /\ \E d \in Docs :
         /\ d = req[c].doc
         /\ Answer(c, [req[c] EXCEPT !.code = IF aggregate[d] = req[c].id THEN "ok" ELSE "not_found"])
    /\ UNCHANGED lifecycleVars

\* The bucket, the database or its connection fails under a request.  A failed
\* insert may have been applied; its client never learns the id.
StoreError(c) ==
    /\ req[c].pc \in {"first", "second"}
    /\ ~(req[c].route = "upload" /\ req[c].pc = "second")
    /\ Answer(c, [req[c] EXCEPT !.code = "internal"])
    /\ \/ UNCHANGED lifecycleVars
       \/ req[c].route = "upload" /\ \E d \in Docs : Create(d)

\* Everything in the life of a document that no request does.
PipelineStep ==
    /\ \/ \E d \in Docs :
            \/ StartIngest(d) \/ StoreText(d) \/ OCRDone(d) \/ FailBeforeText(d)
            \/ ClaimDoc(d) \/ Save(d) \/ Retry(d) \/ Extract(d) \/ FailExtraction(d)
       \/ ExhaustAll
    /\ UNCHANGED <<req, told>>

Handle(c) ==
    \/ Reject(c) \/ InsertRow(c) \/ Accepted(c)
    \/ ReadRow(c) \/ ReadText(c) \/ ReadMatricula(c) \/ ReadById(c)
    \/ StoreError(c)

ApiNext ==
    \/ \E c \in Clients : Handle(c) \/ \E route \in Routes, d \in Docs : Ask(c, route, d)
    \/ PipelineStep

ApiSpec == ApiInit /\ [][ApiNext]_apiVars

(***************************************************************************)
(* Properties.                                                             *)
(***************************************************************************)

\* Requests and what was told have their types.
ApiTypeOK ==
    /\ req \in [Clients -> Request]
    /\ told \in [Clients -> [Docs -> [status: Statuses, text: SUBSET Pages, id: 0 .. MaxAttempts]]]

Answered(c, route, code) ==
    req[c].pc = "answered" /\ req[c].route = route /\ req[c].code = code

\* An /ocr answer that names a status past OCR carries the text of every page,
\* although the row and the texts are read by two statements with the pipeline
\* in between (OCRResults reads the row first).
OcrAnswerIsWhole ==
    \A c \in Clients :
        Answered(c, "ocr", "ok") /\ req[c].seen \in {"ocr_done", "extracting", "extracted"}
            => req[c].text = Pages

\* "404 means the id is wrong" (handlers.Matriculas.ByDocument): a client that
\* was given a document id, by the upload or by an answer, never gets 404 for it.
KnownIsFound ==
    \A c \in Clients :
        \A route \in {"status", "ocr", "matricula"} :
            Answered(c, route, "not_found") => told[c][req[c].doc].status = "absent"

Rank(s) == CASE s = "absent" -> 0 [] s = "uploaded" -> 1 [] s = "processing" -> 2
             [] s \in {"ocr_done", "extracting"} -> 3 [] s \in {"extracted", "failed"} -> 4

\* One answer after the other, a client sees a document only advance: the status
\* never goes back (but from extracting to ocr_done), a verdict is never taken
\* back, and no page text disappears.
AnswersOnlyAdvance ==
    [][\A c \in Clients, d \in Docs :
         LET before == told[c][d]
             after  == told'[c][d] IN
         /\ Rank(before.status) <= Rank(after.status)
         /\ before.status \in {"extracted", "failed"} => after.status = before.status
         /\ before.text \subseteq after.text]_apiVars

\* Once a matricula has been served it is not withdrawn: /matricula never again
\* answers not_ready, failed or not_found for that document.
ServedStaysServed ==
    \A c \in Clients :
        /\ req[c].pc = "answered"
        /\ req[c].route = "matricula"
        /\ req[c].code \in {"not_ready", "failed", "not_found"}
        => told[c][req[c].doc].id = 0

\* A matricula id that was served stays good unless the document was claimed
\* more than once: only then can a late SaveAggregate replace the row.
IdsAreStable ==
    \A c \in Clients :
        Answered(c, "byId", "not_found") => attempts[req[c].doc] > 1

\* internal/handlers/ocr.go: while OCR has not finished it answers 409
\* not_ready, so a 200 has every page.
PartialIsNotReady ==
    \A c \in Clients : Answered(c, "ocr", "ok") => req[c].text = Pages
==============================================================================
