------------------------------- MODULE Shutdown -------------------------------
(***************************************************************************)
(* One process of cmd/api from its start to its exit: the main goroutine   *)
(* (run), the upload handlers, the background ingest goroutines that they  *)
(* start, the poller, and the connection pool they all share.  What the    *)
(* goroutines do to a document is kept only as far as a shutdown can cut   *)
(* it short; Pipeline has the rest, with a shutdown as its Crash.          *)
(***************************************************************************)
EXTENDS Integers, FiniteSets

CONSTANTS
    Uploads,   \* documents uploaded to this process
    Found,     \* documents an earlier process left behind
    Poller,    \* the goroutine of poller.Run; an upload names its own goroutine
    NoDoc

ASSUME ActorsAssumption == /\ Uploads \cap Found = {}
                           /\ Poller \notin Uploads \cup Found
                           /\ NoDoc \notin Uploads \cup Found

VARIABLES
    main,       \* where run stands
    exit,       \* how it came to close: "none" until it does
    cancelled,  \* the signal context is done
    expired,    \* the 15 seconds of shutdownCtx are over
    storage,    \* the bucket client is open
    pool,       \* "open", "closing" (no new connection), "closed"
    conn,       \* goroutines that hold a connection: a statement is running
    wg,         \* ingest.Service.wg
    request,    \* request[d]: the upload handler of d
    work,       \* work[g]: the goroutine g
    row,        \* row[d]: status of document d
    broken      \* history: statements of the goroutine of upload d that failed by themselves

shutdownVars == <<main, exit, cancelled, expired, storage, pool, conn, wg, request, work, row, broken>>
mainVars     == <<main, exit, cancelled, expired, storage, pool>>

Docs       == Uploads \cup Found
Goroutines == Uploads \cup {Poller}
Handler(d) == <<"handler", d>>

\* The name of a handler is not that of a goroutine.
ASSUME HandlersAssumption == \A d \in Uploads : Handler(d) \notin Goroutines

Serving    == {"storing", "inserting", "starting", "answering"}

\* "dispatched" is "processing" with ocr_dispatched_at set: the document is in
\* the hands of the OCR service.
RowStatus == {"absent", "uploaded", "processing", "dispatched", "ocr_done", "extracting",
              "extracted", "failed"}

\* err: why the goroutine is about to record a failure: an error of its own, or
\* a context or pool that the shutdown took away ("cut").
Work == [pc: {"none", "claim", "convert", "record", "post", "stamp", "take", "llm", "save",
              "requeue", "fail"},
         doc: Docs \cup {NoDoc}, err: {"none", "own", "cut"}]

NoWork == [pc |-> "none", doc |-> NoDoc, err |-> "none"]

\* Program points at which a statement is executed.
Statement == {"claim", "record", "stamp", "take", "save", "requeue", "fail"}

ShutdownInit ==
    /\ main = "serving" /\ exit = "none"
    /\ cancelled = FALSE /\ expired = FALSE
    /\ storage = TRUE /\ pool = "open" /\ conn = {}
    /\ wg = 0
    /\ request = [d \in Uploads |-> "none"]
    /\ work = [g \in Goroutines |-> NoWork]
    /\ row \in {r \in [Docs -> {"absent", "processing", "ocr_done"}] :
                  \A d \in Docs : r[d] = "absent" <=> d \in Uploads}
    /\ broken = [d \in Uploads |-> {}]

Alive == main # "exited"

(***************************************************************************)
(* The upload handler: handlers.Upload and CreateAndProcess.               *)
(***************************************************************************)
RequestGoto(d, pc) == request' = [request EXCEPT ![d] = pc]

\* The listener accepts until run leaves its select.
Receive(d) ==
    /\ main = "serving"
    /\ request[d] = "none"
    /\ RequestGoto(d, "storing")
    /\ UNCHANGED <<mainVars, conn, wg, work, row, broken>>

\* The PDF is stored, or the client goes away or the bucket refuses.
StorePDF(d) ==
    /\ request[d] = "storing"
    /\ RequestGoto(d, "inserting") \/ RequestGoto(d, "refused")
    /\ UNCHANGED <<mainVars, conn, wg, work, row, broken>>

\* The handler gets a connection for its insert, or an error: of the pool that
\* is closing, of the database, of a client that is gone.
BeginInsert(d) ==
    /\ request[d] = "inserting" /\ Handler(d) \notin conn
    /\ \/ pool = "open" /\ conn' = conn \cup {Handler(d)} /\ UNCHANGED request
       \/ RequestGoto(d, "refused") /\ UNCHANGED conn
    /\ UNCHANGED <<mainVars, wg, work, row, broken>>

\* The insert ends.  One that fails, or whose client goes away, may be applied or not.
EndInsert(d) ==
    /\ request[d] = "inserting" /\ Handler(d) \in conn
    /\ conn' = conn \ {Handler(d)}
    /\ \/ row' = [row EXCEPT ![d] = "uploaded"] /\ RequestGoto(d, "starting")
       \/ row' \in {row, [row EXCEPT ![d] = "uploaded"]} /\ RequestGoto(d, "refused")
    /\ UNCHANGED <<mainVars, wg, work, broken>>

StartUncounted(d) ==
    /\ request[d] = "starting"
    /\ work' = [work EXCEPT ![d] = [NoWork EXCEPT !.pc = "claim", !.doc = d]]
    /\ RequestGoto(d, "answering")
    /\ UNCHANGED <<mainVars, conn, wg, row, broken>>

\* wg.Add(1), then the goroutine.
StartWork(d) ==
    /\ request[d] = "starting"
    /\ wg' = wg + 1
    /\ work' = [work EXCEPT ![d] = [NoWork EXCEPT !.pc = "claim", !.doc = d]]
    /\ RequestGoto(d, "answering")
    /\ UNCHANGED <<mainVars, conn, row, broken>>

AnswerAccepted(d) ==
    /\ request[d] = "answering"
    /\ RequestGoto(d, "answered")
    /\ UNCHANGED <<mainVars, conn, wg, work, row, broken>>

HandlerStep(d) ==
    Receive(d) \/ StorePDF(d) \/ BeginInsert(d) \/ EndInsert(d) \/ StartWork(d) \/ AnswerAccepted(d)

(***************************************************************************)
(* The goroutines behind the handlers: Process on a context that is never  *)
(* cancelled, and the poller on the signal context.                        *)
(***************************************************************************)
FailuresOnFreshContext(g) == g = Poller /\ cancelled /\ work[g].pc # "fail"

ContextDone(g) == g = Poller /\ cancelled

\* Goroutine g ends its piece of work: wg.Done, or the next round of the poller.
End(g) ==
    /\ work' = [work EXCEPT ![g] = NoWork]
    /\ wg' = IF g = Poller THEN wg ELSE wg - 1

Goto(g, pc, err) ==
    /\ work' = [work EXCEPT ![g].pc = pc, ![g].err = err]
    /\ UNCHANGED wg

\* An error: of the document's own work it is recorded (Process) or leads to a
\* retry (ExtractDocument); of that record, or of a claim, it is only logged.
OnError(g, err) ==
    \/ work[g].pc \in {"take", "requeue", "fail"} /\ End(g)
    \/ work[g].pc \in {"claim", "convert", "record", "post", "stamp"} /\ Goto(g, "fail", err)
    \/ work[g].pc \in {"llm", "save"} /\ Goto(g, "requeue", err)

\* tick: a document whose text is complete, or one the janitor starts again.
PollerPicks ==
    /\ ~cancelled
    /\ work[Poller].pc = "none"
    /\ \E d \in Docs :
         \/ /\ row[d] = "ocr_done"
            /\ work' = [work EXCEPT ![Poller] = [NoWork EXCEPT !.pc = "take", !.doc = d]]
         \/ /\ row[d] = "processing"
            /\ work' = [work EXCEPT ![Poller] = [NoWork EXCEPT !.pc = "claim", !.doc = d]]
    /\ UNCHANGED <<mainVars, conn, wg, request, row, broken>>

\* The statement at the program point of g fails by itself: the database cannot
\* be reached, or answers with an error.
Breaks(g) ==
    /\ OnError(g, "own")
    /\ broken' = IF g = Poller THEN broken ELSE [broken EXCEPT ![g] = @ \cup {work[g].pc}]

\* A statement gets a connection, unless its context or the pool is gone or the
\* database fails it.
BeginStatement(g) ==
    /\ work[g].pc \in Statement /\ g \notin conn
    /\ \/ /\ pool = "open" /\ ~ContextDone(g)
          /\ conn' = conn \cup {g}
          /\ UNCHANGED <<work, wg, broken>>
       \/ (pool # "open" \/ ContextDone(g)) /\ OnError(g, "cut") /\ UNCHANGED <<conn, broken>>
       \/ Breaks(g) /\ UNCHANGED conn
    /\ UNCHANGED <<mainVars, request, row>>

\* What the statement at the program point of g makes of a status.
Effect(g, s) ==
    CASE work[g].pc = "claim"   -> IF s = "uploaded" THEN "processing" ELSE s
      [] work[g].pc = "record"  -> s
      [] work[g].pc = "stamp"   -> IF s = "processing" THEN "dispatched" ELSE s
      [] work[g].pc = "take"    -> IF s = "ocr_done" THEN "extracting" ELSE s
      [] work[g].pc = "save"    -> IF s = "extracting" THEN "extracted" ELSE s
      [] work[g].pc = "requeue" -> IF s = "extracting" THEN "ocr_done" ELSE s
      [] work[g].pc = "fail"    -> IF s \in {"processing", "dispatched", "extracting"} THEN "failed" ELSE s

Continue(g, s) ==
    \/ /\ work[g].pc = "claim"
       /\ IF s \in {"processing", "dispatched"} THEN Goto(g, "convert", "none") ELSE End(g)
    \/ work[g].pc = "record" /\ Goto(g, "post", "none")
    \/ /\ work[g].pc = "take"
       /\ IF s = "extracting" THEN Goto(g, "llm", "none") ELSE End(g)
    \/ work[g].pc \in {"stamp", "save", "requeue", "fail"} /\ End(g)

\* The statement ends; one that fails, or whose context is cancelled under way,
\* reports an error and may have been applied.
EndStatement(g) ==
    /\ g \in conn
    /\ conn' = conn \ {g}
    /\ LET d     == work[g].doc
           after == [row EXCEPT ![d] = Effect(g, @)] IN
       \/ row' = after /\ Continue(g, after[d]) /\ UNCHANGED broken
       \/ ContextDone(g) /\ row' \in {row, after} /\ OnError(g, "cut") /\ UNCHANGED broken
       \/ row' \in {row, after} /\ Breaks(g)
    /\ UNCHANGED <<mainVars, request>>

\* Converting, sending and asking the LLM: success, an error of its own, or the
\* cancelled context.  A terminal answer of the LLM fails the document.
Toil(g) ==
    /\ \/ work[g].pc = "convert" /\ Goto(g, "record", "none")
       \/ work[g].pc = "post" /\ Goto(g, "stamp", "none")
       \/ work[g].pc = "llm" /\ (Goto(g, "save", "none") \/ Goto(g, "fail", "own"))
       \/ work[g].pc \in {"convert", "post", "llm"} /\ OnError(g, "own")
       \/ work[g].pc \in {"convert", "post", "llm"} /\ ContextDone(g) /\ OnError(g, "cut")
    /\ UNCHANGED <<mainVars, conn, request, row, broken>>

WorkStep(g) == BeginStatement(g) \/ EndStatement(g) \/ Toil(g)

(***************************************************************************)
(* run.                                                                    *)
(***************************************************************************)
Leave(how) == main' = "closing" /\ exit' = how

\* SIGINT or SIGTERM; later signals change nothing.
Signal ==
    /\ ~cancelled
    /\ cancelled' = TRUE
    /\ UNCHANGED <<main, exit, expired, storage, pool, conn, wg, request, work, row, broken>>

\* ListenAndServe fails: run returns at once, without cancelling anything.
ListenFails ==
    /\ main = "serving"
    /\ Leave("error")
    /\ UNCHANGED <<cancelled, expired, storage, pool, conn, wg, request, work, row, broken>>

\* srv.Shutdown closes the listener.
BeginDrain ==
    /\ main = "serving" /\ cancelled
    /\ main' = "draining"
    /\ UNCHANGED <<exit, cancelled, expired, storage, pool, conn, wg, request, work, row, broken>>

NeverExpires == FALSE

Expire ==
    /\ main \in {"draining", "waiting"} /\ ~expired
    /\ expired' = TRUE
    /\ UNCHANGED <<main, exit, cancelled, storage, pool, conn, wg, request, work, row, broken>>

DrainIgnoringError ==
    /\ main = "draining"
    /\ expired \/ \A d \in Uploads : request[d] \notin Serving
    /\ main' = "waiting"
    /\ UNCHANGED <<exit, cancelled, expired, storage, pool, conn, wg, request, work, row, broken>>

\* srv.Shutdown returns when no handler is active, or with the error of the
\* deadline, which run returns without waiting for the background work.
EndDrain ==
    /\ main = "draining"
    /\ \/ (\A d \in Uploads : request[d] \notin Serving) /\ main' = "waiting" /\ UNCHANGED exit
       \/ expired /\ Leave("error")
    /\ UNCHANGED <<cancelled, expired, storage, pool, conn, wg, request, work, row, broken>>

\* ingestSvc.Shutdown: wg.Wait, or the same deadline.
EndWait ==
    /\ main = "waiting"
    /\ \/ wg = 0 /\ Leave("drained")
       \/ expired /\ Leave("late")
    /\ UNCHANGED <<cancelled, expired, storage, pool, conn, wg, request, work, row, broken>>

\* The deferred calls, last first: storage.Close, pool.Close (which waits for
\* the connections in use), then the log flush and the end of the process.
CloseStorage ==
    /\ main = "closing" /\ storage
    /\ storage' = FALSE
    /\ UNCHANGED <<main, exit, cancelled, expired, pool, conn, wg, request, work, row, broken>>

ClosePool ==
    /\ main = "closing" /\ ~storage
    /\ \/ pool = "open" /\ pool' = "closing"
       \/ pool = "closing" /\ conn = {} /\ pool' = "closed"
    /\ UNCHANGED <<main, exit, cancelled, expired, storage, conn, wg, request, work, row, broken>>

Exit ==
    /\ main = "closing" /\ pool = "closed"
    /\ main' = "exited"
    /\ UNCHANGED <<exit, cancelled, expired, storage, pool, conn, wg, request, work, row, broken>>

\* The bucket client is used after storage.Close: it still works (Toil) or
\* panics, and with it the process.
UseClosedStorage(g) ==
    /\ ~storage
    /\ work[g].pc = "convert"
    /\ main' = "exited" /\ exit' = "panic"
    /\ UNCHANGED <<cancelled, expired, storage, pool, conn, wg, request, work, row, broken>>

MainStep == BeginDrain \/ EndDrain \/ EndWait \/ CloseStorage \/ ClosePool \/ Exit

ShutdownNext ==
    /\ Alive
    /\ \/ \E d \in Uploads : HandlerStep(d)
       \/ \E g \in Goroutines : WorkStep(g) \/ UseClosedStorage(g)
       \/ PollerPicks
       \/ Signal \/ ListenFails \/ Expire \/ MainStep

ShutdownSpec == ShutdownInit /\ [][ShutdownNext]_shutdownVars

\* run and the timer go on, and the database ends every statement.  Nothing is
\* asked of handlers, conversions, dispatches or the LLM: they may hang.
ShutdownFairSpec ==
    /\ ShutdownSpec
    /\ WF_shutdownVars(Alive /\ MainStep)
    /\ WF_shutdownVars(Alive /\ Expire)
    /\ \A g \in Goroutines : WF_shutdownVars(Alive /\ EndStatement(g))
    /\ \A d \in Uploads : WF_shutdownVars(Alive /\ EndInsert(d))

(***************************************************************************)
(* Properties.                                                             *)
(***************************************************************************)

\* Types, and wg counts exactly the ingest goroutines that are at work.
ShutdownTypeOK ==
    /\ main \in {"serving", "draining", "waiting", "closing", "exited"}
    /\ exit \in {"none", "drained", "late", "error", "panic"}
    /\ pool \in {"open", "closing", "closed"}
    /\ conn \subseteq Goroutines \cup {Handler(d) : d \in Uploads}
    /\ request \in [Uploads -> Serving \cup {"none", "answered", "refused"}]
    /\ work \in [Goroutines -> Work]
    /\ row \in [Docs -> RowStatus]
    /\ broken \in [Uploads -> SUBSET Statement]
    /\ wg = Cardinality({d \in Uploads : work[d].pc # "none"})

\* sync.WaitGroup allows no Add that races with a Wait: while run is in
\* ingestSvc.Shutdown no upload starts another goroutine.
NoAddDuringWait == [][main = "waiting" => wg' <= wg]_shutdownVars

\* A shutdown that ends in time loses no upload that was answered 202: its
\* document was handed to the OCR service, or it failed, or the database itself
\* failed the statement that would have moved it on.  After a claim that failed
\* (ingest.go:97) the row is still 'uploaded', where MarkFailed, guarded on
\* 'processing', does not reach it; after a MarkFailed that failed it is in
\* 'processing', where the janitor finds it.
DrainLosesNothing ==
    exit = "drained" =>
        \A d \in Uploads : request[d] = "answered" =>
            \/ row[d] \in {"dispatched", "failed"}
            \/ row[d] = "uploaded" /\ "claim" \in broken[d]
            \/ row[d] = "processing" /\ "fail" \in broken[d]

\* A shutdown is not a verdict: a document that the cancelled context or the
\* closed pool cut short is never recorded as failed, so that the janitor of
\* the next process finds it ("the janitor recovers anything that doesn't
\* finish in time").
NoVerdictByShutdown ==
    [][\A d \in Docs :
         row[d] # "failed" /\ row'[d] = "failed" =>
           \E g \in conn : work[g].pc = "fail" /\ work[g].doc = d /\ work[g].err = "own"]_shutdownVars

\* After a signal or a failed listener the process ends, even when handlers,
\* conversions or the LLM hang.
ShutdownEnds == (cancelled \/ main # "serving") ~> main = "exited"
==============================================================================
