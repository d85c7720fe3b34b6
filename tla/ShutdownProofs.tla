---------------------------- MODULE ShutdownProofs ----------------------------
(***************************************************************************)
(* The shutdown of one process of cmd/api, for any number of uploads and   *)
(* of documents that were left behind.  What a goroutine may still do to a *)
(* document depends on what run has closed by then, and what run closes    *)
(* depends on who is still at work: ShutdownInv relates the two.           *)
(***************************************************************************)
EXTENDS Shutdown, FiniteSetTheorems, TLAPS

\* The goroutines that wg counts.
Busy == {d \in Uploads : work[d].pc # "none"}

\* How run got where it stands.  Until it leaves its select or its two waits
\* for good the pool is open; after a wait that ended in time nobody is left.
StageInv ==
    /\ exit = "none" <=> main \in {"serving", "draining", "waiting"}
    /\ exit = "none" => pool = "open"
    /\ main = "waiting" \/ exit = "drained" => \A d \in Uploads : request[d] \notin Serving
    /\ exit = "drained" => Busy = {}

\* A goroutine that was cut short records that only through a connection, and
\* what cut it short keeps it from ever getting one.
WorkInv(g) ==
    /\ work[g].pc # "none" => work[g].doc \in Docs
    /\ g \in conn => work[g].pc \in Statement
    /\ work[g].pc = "fail" => work[g].err # "none"
    /\ work[g].pc = "fail" /\ work[g].err = "cut" => pool # "open" \/ ContextDone(g)
    /\ work[g].pc = "fail" /\ g \in conn => work[g].err = "own"

Ingesting == {"convert", "record", "post", "stamp", "fail"}
Handed    == {"dispatched", "failed"}

\* The claim of d was applied, or the database failed it.
Claimed(d)   == row[d] \in {"processing"} \cup Handed
Unclaimed(d) == row[d] = "uploaded" /\ "claim" \in broken[d]

\* Nothing is left to be done to d, or the database failed the last attempt to.
Settled(d) ==
    \/ row[d] \in Handed
    \/ Unclaimed(d)
    \/ row[d] = "processing" /\ "fail" \in broken[d]

\* An upload belongs to its handler, then to its goroutine, then, as long as
\* that had a pool to write to, to the OCR service or to its failure, unless the
\* database fails the statement that says so.
UploadInv(d) ==
    /\ work[d].pc \in {"none", "claim"} \cup Ingesting
    /\ work[d].pc # "none" => work[d].doc = d /\ request[d] \in {"answering", "answered"}
    /\ row[d] \in {"absent", "uploaded", "processing"} \cup Handed
    /\ request[d] \in {"starting", "answering", "answered"} => row[d] # "absent"
    /\ request[d] \in {"none", "storing", "inserting"} => row[d] = "absent"
    /\ pool = "open" /\ work[d].pc \in Ingesting => Claimed(d) \/ (work[d].pc = "fail" /\ Unclaimed(d))
    /\ (pool = "open" \/ exit = "drained") /\ request[d] \in {"answering", "answered"}
         /\ work[d].pc = "none" => Settled(d)

\* The poller takes only what was claimed: it moves no row that the goroutine of
\* an upload still has to.
PollerInv == \A d \in Uploads : work[Poller].pc # "none" /\ work[Poller].doc = d => Claimed(d)

ShutdownInv ==
    /\ ShutdownTypeOK /\ IsFiniteSet(Busy) /\ StageInv
    /\ \A g \in Goroutines : WorkInv(g)
    /\ \A d \in Uploads : UploadInv(d)
    /\ PollerInv

(***************************************************************************)
(* Goroutines and their count.                                             *)
(***************************************************************************)

Turn(g, v) == work' = [work EXCEPT ![g] = v]

\* wg changes with the goroutine of an upload, and with nobody else.
Counted(g, v) ==
    \/ (g = Poller \/ (v.pc = "none" <=> work[g].pc = "none")) /\ wg' = wg
    \/ g # Poller /\ work[g].pc = "none" /\ v.pc # "none" /\ wg' = wg + 1
    \/ g # Poller /\ work[g].pc # "none" /\ v.pc = "none" /\ wg' = wg - 1

\* Docs, uploads and goroutines.
LEMMA Names ==
    /\ Poller \in Goroutines /\ Poller \notin Uploads /\ Uploads \subseteq Goroutines
    /\ Uploads \subseteq Docs /\ NoWork \in Work
    /\ \A g \in Goroutines : g # Poller <=> g \in Uploads
  BY ActorsAssumption DEF Goroutines, Docs, NoWork, Work

\* A count that follows one goroutine stays the number of busy ones.
LEMMA CountKept ==
    ASSUME ShutdownInv, NEW g \in Goroutines, NEW v \in Work, Turn(g, v), Counted(g, v)
    PROVE  IsFiniteSet(Busy') /\ wg' = Cardinality(Busy')
<1>1. IsFiniteSet(Busy) /\ wg = Cardinality(Busy) /\ work \in [Goroutines -> Work]
  BY DEF ShutdownInv, ShutdownTypeOK, Busy
<1>2. /\ work'[g] = v
      /\ \A h \in Goroutines \ {g} : work'[h] = work[h]
  BY <1>1 DEF Turn
<1>3. CASE (g = Poller \/ (v.pc = "none" <=> work[g].pc = "none")) /\ wg' = wg
  <2>1. Busy' = Busy
    BY <1>2, <1>3, Names DEF Busy
  <2> QED
    BY <1>1, <1>3, <2>1
<1>4. CASE g # Poller /\ work[g].pc = "none" /\ v.pc # "none" /\ wg' = wg + 1
  <2>1. Busy' = Busy \cup {g} /\ g \notin Busy
    BY <1>2, <1>4, Names DEF Busy
  <2> QED
    BY <1>1, <1>4, <2>1, FS_AddElement
<1>5. CASE g # Poller /\ work[g].pc # "none" /\ v.pc = "none" /\ wg' = wg - 1
  <2>1. Busy' = Busy \ {g} /\ g \in Busy
    BY <1>2, <1>5, Names DEF Busy
  <2> QED
    BY <1>1, <1>5, <2>1, FS_RemoveElement
<1> QED
  BY <1>3, <1>4, <1>5 DEF Counted

\* The statuses of an upload go one way.
RowMoves(d) ==
    \/ row'[d] = row[d]
    \/ row[d] = "uploaded" /\ row'[d] = "processing"
    \/ row[d] = "processing" /\ row'[d] \in Handed
    \/ row[d] = "dispatched" /\ row'[d] = "failed"

\* The database fails only statements of the goroutine that is at work.
Recorded(g) ==
    /\ broken' \in [Uploads -> SUBSET Statement]
    /\ \A d \in Uploads : broken[d] \subseteq broken'[d] /\ (d # g => broken'[d] = broken[d])

\* What one goroutine does with its own record and connection, and with rows
\* as they go, leaves everybody else where they were.
LEMMA GoroutineKept ==
    ASSUME ShutdownInv, NEW g \in Goroutines, NEW v \in Work, Turn(g, v), Counted(g, v),
           UNCHANGED <<mainVars, request>>,
           conn' \subseteq conn \cup {g}, conn \subseteq conn' \cup {g},
           row' \in [Docs -> RowStatus], \A d \in Uploads : RowMoves(d), Recorded(g),
           \A d \in Uploads : row[d] = "uploaded" /\ row'[d] # row[d] => d = g,
           g = Poller => \A d \in Uploads : v.pc # "none" /\ v.doc = d => Claimed(d),
           exit = "drained" => g = Poller,
           WorkInv(g)', g \in Uploads => UploadInv(g)'
    PROVE  ShutdownInv'
<1>1. /\ work \in [Goroutines -> Work] /\ StageInv /\ UNCHANGED <<main, exit, cancelled, pool, request>>
      /\ \A h \in Goroutines : WorkInv(h)
      /\ \A d \in Uploads : UploadInv(d)
  BY DEF ShutdownInv, ShutdownTypeOK, mainVars
<1>2. /\ work'[g] = v
      /\ \A h \in Goroutines \ {g} : work'[h] = work[h] /\ (h \in conn' <=> h \in conn)
  BY <1>1 DEF Turn
<1>3. ShutdownTypeOK'
  <2>1. wg' = Cardinality({d \in Uploads : work'[d].pc # "none"})
    BY CountKept DEF Busy
  <2>2. work' \in [Goroutines -> Work]
    BY <1>1 DEF Turn
  <2> QED
    BY <2>1, <2>2 DEF ShutdownInv, ShutdownTypeOK, Recorded, mainVars
<1>4. StageInv'
  <2>1. exit = "drained" => Busy' = Busy
    BY <1>2, Names DEF Busy
  <2> QED
    BY <1>1, <2>1 DEF StageInv
<1>5. ASSUME NEW h \in Goroutines PROVE WorkInv(h)'
  BY <1>1, <1>2, <1>5 DEF WorkInv, ContextDone
<1>6. ASSUME NEW d \in Uploads PROVE UploadInv(d)'
  <2>1. CASE d = g
    BY <2>1
  <2>2. CASE d # g
    <3>1. /\ work'[d] = work[d] /\ UploadInv(d) /\ RowMoves(d) /\ broken[d] \subseteq broken'[d]
          /\ row[d] = "uploaded" => row'[d] = row[d]
      BY <1>1, <1>2, <2>2, Names DEF Recorded
    <3>2. (Claimed(d) => Claimed(d)') /\ (Unclaimed(d) => Unclaimed(d)') /\ (Settled(d) => Settled(d)')
      BY <3>1 DEF Claimed, Unclaimed, Settled, RowMoves, Handed
    <3> HIDE DEF Claimed, Unclaimed, Settled
    <3> QED
      BY <1>1, <3>1, <3>2 DEF UploadInv, RowMoves, Handed
  <2> QED
    BY <2>1, <2>2
<1>7. PollerInv'
  <2>1. ASSUME NEW d \in Uploads, work'[Poller].pc # "none", work'[Poller].doc = d PROVE Claimed(d)'
    <3>1. Claimed(d)
      BY <1>2, <2>1, Names DEF ShutdownInv, PollerInv
    <3> QED
      BY <3>1 DEF Claimed, RowMoves, Handed
  <2> QED
    BY <2>1 DEF PollerInv
<1> QED
  BY <1>3, <1>4, <1>5, <1>6, <1>7, CountKept DEF ShutdownInv

\* An error ends the piece of work, or leads to the statement that records it.
LEMMA ErrorTurns ==
    ASSUME ShutdownInv, NEW g \in Goroutines, NEW k \in {"own", "cut"}, OnError(g, k)
    PROVE  \E v \in Work :
             /\ Turn(g, v) /\ Counted(g, v) /\ work[g].pc # "none"
             /\ \/ v = NoWork /\ work[g].pc \in {"take", "requeue", "fail"}
                \/ /\ v.doc = work[g].doc /\ v.err = k
                   /\ \/ v.pc = "fail" /\ work[g].pc \in {"claim", "convert", "record", "post", "stamp"}
                      \/ v.pc = "requeue" /\ work[g].pc \in {"llm", "save"}
<1>1. work \in [Goroutines -> Work]
  BY DEF ShutdownInv, ShutdownTypeOK
<1>2. CASE work[g].pc \in {"take", "requeue", "fail"} /\ End(g)
  BY <1>1, <1>2, Names DEF End, Turn, Counted, NoWork
<1>3. CASE work[g].pc \in {"claim", "convert", "record", "post", "stamp"} /\ Goto(g, "fail", k)
  <2>1. [work[g] EXCEPT !.pc = "fail", !.err = k] \in Work
    BY <1>1 DEF Work
  <2> QED
    BY <1>1, <1>3, <2>1 DEF Goto, Turn, Counted, Work
<1>4. CASE work[g].pc \in {"llm", "save"} /\ Goto(g, "requeue", k)
  <2>1. [work[g] EXCEPT !.pc = "requeue", !.err = k] \in Work
    BY <1>1 DEF Work
  <2> QED
    BY <1>1, <1>4, <2>1 DEF Goto, Turn, Counted, Work
<1> QED
  BY <1>2, <1>3, <1>4 DEF OnError

\* After a statement: the next piece of work, or the end of it.
LEMMA ContinueTurns ==
    ASSUME ShutdownInv, NEW g \in Goroutines, NEW s, Continue(g, s)
    PROVE  \E v \in Work :
             /\ Turn(g, v) /\ Counted(g, v)
             /\ \/ v = NoWork /\ (work[g].pc = "claim" => s \notin {"processing", "dispatched"})
                     /\ work[g].pc \in {"claim", "stamp", "take", "save", "requeue", "fail"}
                \/ /\ v.doc = work[g].doc
                   /\ \/ v.pc = "convert" /\ work[g].pc = "claim" /\ s \in {"processing", "dispatched"}
                      \/ v.pc = "post" /\ work[g].pc = "record"
                      \/ v.pc = "llm" /\ work[g].pc = "take"
<1>1. work \in [Goroutines -> Work]
  BY DEF ShutdownInv, ShutdownTypeOK
<1>2. ASSUME NEW to \in {"convert", "post", "llm"}, Goto(g, to, "none"), work[g].pc # "none"
      PROVE  \E v \in Work : Turn(g, v) /\ Counted(g, v) /\ v.doc = work[g].doc /\ v.pc = to
  <2> DEFINE v == [work[g] EXCEPT !.pc = to, !.err = "none"]
  <2>1. v \in Work /\ v.doc = work[g].doc /\ v.pc = to
    BY <1>1 DEF Work
  <2>2. Turn(g, v) /\ Counted(g, v)
    BY <1>1, <1>2 DEF Goto, Turn, Counted, Work
  <2> QED
    BY <2>1, <2>2
<1>3. ASSUME End(g), work[g].pc # "none"
      PROVE  NoWork \in Work /\ Turn(g, NoWork) /\ Counted(g, NoWork)
  BY <1>1, <1>3, Names DEF End, Turn, Counted, NoWork
<1>4. CASE work[g].pc = "claim" /\ s \in {"processing", "dispatched"} /\ Goto(g, "convert", "none")
  BY <1>2, <1>4
<1>5. CASE work[g].pc = "record" /\ Goto(g, "post", "none")
  BY <1>2, <1>5
<1>6. CASE work[g].pc = "take" /\ Goto(g, "llm", "none")
  BY <1>2, <1>6
<1>7. CASE /\ End(g) /\ work[g].pc \in {"claim", "stamp", "take", "save", "requeue", "fail"}
           /\ work[g].pc = "claim" => s \notin {"processing", "dispatched"}
  BY <1>3, <1>7
<1> QED
  BY <1>4, <1>5, <1>6, <1>7 DEF Continue

(***************************************************************************)
(* One step of a goroutine.                                                *)
(***************************************************************************)

\* A goroutine at work after a drained wait is the poller's.
LEMMA DrainedIsIdle ==
    ASSUME ShutdownInv, NEW g \in Goroutines, work[g].pc # "none", exit = "drained"
    PROVE  g = Poller
  BY Names DEF ShutdownInv, StageInv, Busy

\* A statement that the database fails: its goroutine is at work, and remembers.
LEMMA BreaksTurns ==
    ASSUME ShutdownInv, NEW g \in Goroutines, Breaks(g), work[g].pc \in Statement
    PROVE  Recorded(g) /\ (g \in Uploads => work[g].pc \in broken'[g])
<1>1. broken \in [Uploads -> SUBSET Statement]
  BY DEF ShutdownInv, ShutdownTypeOK
<1> QED
  BY <1>1, Names DEF Breaks, Recorded

\* An upload whose goroutine breaks off, on an error of the database or of a pool
\* that is gone.
LEMMA ErrorOfUpload ==
    ASSUME ShutdownInv, NEW g \in Uploads, NEW v \in Work, work'[g] = v, work[g].pc \in Statement,
           UNCHANGED <<mainVars, request>>, RowMoves(g), Recorded(g),
           pool = "open" => work[g].pc \in broken'[g],
           exit # "drained",
           row[g] = "uploaded" /\ row'[g] # row[g] => work[g].pc = "claim",
           \/ v = NoWork /\ work[g].pc \in {"take", "requeue", "fail"}
           \/ /\ v.doc = work[g].doc
              /\ \/ v.pc = "fail" /\ work[g].pc \in {"claim", "convert", "record", "post", "stamp"}
                 \/ v.pc = "requeue" /\ work[g].pc \in {"llm", "save"}
    PROVE  UploadInv(g)'
<1>1. UploadInv(g) /\ UNCHANGED <<pool, exit, request>> /\ broken[g] \subseteq broken'[g]
  BY DEF ShutdownInv, mainVars, Recorded
<1>2. /\ work[g].pc \in {"claim", "record", "stamp", "fail"} /\ work[g].doc = g
      /\ request[g] \in {"answering", "answered"} /\ row[g] # "absent"
  BY <1>1 DEF UploadInv, Statement, Ingesting
<1>3. CASE work[g].pc = "fail"
  <2>1. v.pc = "none" /\ (pool = "open" => Settled(g)')
    BY <1>1, <1>2, <1>3 DEF UploadInv, NoWork, Ingesting, Settled, Claimed, Unclaimed, RowMoves, Handed
  <2> QED
    BY <1>1, <1>2, <2>1 DEF UploadInv, RowMoves, Handed, Ingesting
<1>4. CASE work[g].pc \in {"claim", "record", "stamp"}
  <2>1. v.pc = "fail" /\ v.doc = g
    BY <1>2, <1>4
  <2>2. pool = "open" => Claimed(g)' \/ Unclaimed(g)'
    BY <1>1, <1>2, <1>4 DEF UploadInv, Ingesting, Claimed, Unclaimed, RowMoves, Handed
  <2> QED
    BY <1>1, <1>2, <2>1, <2>2 DEF UploadInv, RowMoves, Handed, Ingesting
<1> QED
  BY <1>2, <1>3, <1>4

\* A statement gets a connection, or the error of a context or pool that is gone,
\* or of the database.
LEMMA BeginKept ==
    ASSUME ShutdownInv, NEW g \in Goroutines, BeginStatement(g)
    PROVE  ShutdownInv'
<1>1. /\ work \in [Goroutines -> Work] /\ row \in [Docs -> RowStatus]
      /\ WorkInv(g) /\ work[g].pc \in Statement /\ g \notin conn
      /\ UNCHANGED <<mainVars, request, row>>
      /\ g \in Uploads => UploadInv(g)
      /\ broken \in [Uploads -> SUBSET Statement] /\ PollerInv
  BY DEF BeginStatement, ShutdownInv, ShutdownTypeOK
<1>2. exit = "drained" => g = Poller
  BY <1>1, DrainedIsIdle DEF Statement
<1>3. \A d \in Uploads : RowMoves(d)
  BY <1>1 DEF RowMoves
<1>4. CASE pool = "open" /\ ~ContextDone(g) /\ conn' = conn \cup {g} /\ UNCHANGED <<work, wg, broken>>
  <2>1. work[g] \in Work /\ Turn(g, work[g]) /\ Counted(g, work[g])
    BY <1>1, <1>4 DEF Turn, Counted
  <2>2. WorkInv(g)'
    <3>1. work[g].err \in {"none", "own", "cut"}
      BY <1>1 DEF Work
    <3> QED
      BY <1>1, <1>4, <3>1 DEF WorkInv, mainVars, ContextDone
  <2>3. g \in Uploads => UploadInv(g)'
    BY <1>1, <1>4 DEF UploadInv, Claimed, Unclaimed, Settled, mainVars
  <2>4. g = Poller => \A d \in Uploads : work[g].pc # "none" /\ work[g].doc = d => Claimed(d)
    BY <1>1 DEF PollerInv
  <2> QED
    BY <1>1, <1>2, <1>3, <1>4, <2>1, <2>2, <2>3, <2>4, GoroutineKept DEF Recorded
<1>5. ASSUME NEW k \in {"own", "cut"}, OnError(g, k), UNCHANGED conn, Recorded(g),
             k = "cut" => pool # "open" \/ ContextDone(g),
             g \in Uploads /\ pool = "open" => work[g].pc \in broken'[g]
      PROVE  ShutdownInv'
  <2>1. PICK v \in Work :
             /\ Turn(g, v) /\ Counted(g, v) /\ work[g].pc # "none"
             /\ \/ v = NoWork /\ work[g].pc \in {"take", "requeue", "fail"}
                \/ /\ v.doc = work[g].doc /\ v.err = k
                   /\ \/ v.pc = "fail" /\ work[g].pc \in {"claim", "convert", "record", "post", "stamp"}
                      \/ v.pc = "requeue" /\ work[g].pc \in {"llm", "save"}
    BY <1>5, ErrorTurns
  <2>2. work'[g] = v
    BY <1>1, <2>1 DEF Turn
  <2>3. WorkInv(g)'
    BY <1>1, <1>5, <2>1, <2>2 DEF WorkInv, mainVars, ContextDone, NoWork
  <2>4. ASSUME g \in Uploads PROVE UploadInv(g)'
    BY <1>1, <1>2, <1>3, <1>5, <2>1, <2>2, <2>4, Names, ErrorOfUpload
  <2>5. g = Poller => \A d \in Uploads : v.pc # "none" /\ v.doc = d => Claimed(d)
    BY <1>1, <2>1 DEF PollerInv, NoWork
  <2> QED
    BY <1>1, <1>2, <1>3, <1>5, <2>1, <2>3, <2>4, <2>5, GoroutineKept
<1>6. CASE (pool # "open" \/ ContextDone(g)) /\ OnError(g, "cut") /\ UNCHANGED <<conn, broken>>
  BY <1>1, <1>5, <1>6, Names DEF Recorded, ContextDone
<1>7. CASE Breaks(g) /\ UNCHANGED conn
  BY <1>1, <1>5, <1>7, BreaksTurns DEF Breaks
<1> QED
  BY <1>4, <1>6, <1>7 DEF BeginStatement

\* What a statement makes of the rows.
LEMMA StatementMoves ==
    ASSUME ShutdownInv, NEW g \in Goroutines, g \in conn,
           row' \in {row, [row EXCEPT ![work[g].doc] = Effect(g, @)]}
    PROVE  /\ row' \in [Docs -> RowStatus]
           /\ \A d \in Uploads : RowMoves(d)
           /\ \A d \in Uploads : row[d] = "uploaded" /\ row'[d] # row[d] => d = g /\ work[g].pc = "claim"
<1>1. /\ row \in [Docs -> RowStatus] /\ work[g].doc \in Docs /\ work[g].pc \in Statement
      /\ \A d \in Uploads : row[d] \in {"absent", "uploaded", "processing", "dispatched", "failed"}
  BY DEF ShutdownInv, ShutdownTypeOK, WorkInv, UploadInv, Handed, Statement
<1>2. \A s \in RowStatus : Effect(g, s) \in RowStatus
  BY <1>1 DEF Effect, RowStatus, Statement
<1>3. \A d \in Uploads : RowMoves(d)
  BY <1>1, Names DEF RowMoves, Effect, Statement, Handed
<1>4. ASSUME NEW d \in Uploads, row[d] = "uploaded", row'[d] # row[d] PROVE d = g /\ work[g].pc = "claim"
  <2>1. work[g].doc = d /\ work[g].pc = "claim"
    BY <1>1, <1>4, Names DEF Effect, Statement
  <2>2. g # Poller
    BY <1>4, <2>1 DEF ShutdownInv, PollerInv, Claimed, Handed
  <2> QED
    BY <2>1, <2>2, Names DEF ShutdownInv, UploadInv
<1> QED
  BY <1>1, <1>2, <1>3, <1>4

\* A statement ends, applied and answered, or cut short by its context.
LEMMA EndKept ==
    ASSUME ShutdownInv, NEW g \in Goroutines, EndStatement(g)
    PROVE  ShutdownInv'
<1> DEFINE d == work[g].doc
           after == [row EXCEPT ![d] = Effect(g, @)]
<1>1. /\ work \in [Goroutines -> Work] /\ row \in [Docs -> RowStatus] /\ d \in Docs
      /\ WorkInv(g) /\ work[g].pc \in Statement /\ g \in conn /\ conn' = conn \ {g}
      /\ UNCHANGED <<mainVars, request>>
      /\ g \in Uploads => UploadInv(g)
      /\ broken \in [Uploads -> SUBSET Statement] /\ PollerInv
  BY DEF EndStatement, ShutdownInv, ShutdownTypeOK, WorkInv, Statement
<1>2. exit = "drained" => g = Poller
  BY <1>1, DrainedIsIdle DEF Statement
<1>3. /\ row' \in [Docs -> RowStatus] /\ \A e \in Uploads : RowMoves(e)
      /\ \A e \in Uploads : row[e] = "uploaded" /\ row'[e] # row[e] => e = g /\ work[g].pc = "claim"
  BY StatementMoves DEF EndStatement
<1>4. CASE row' = after /\ Continue(g, after[d]) /\ UNCHANGED broken
  <2>1. PICK v \in Work :
             /\ Turn(g, v) /\ Counted(g, v)
             /\ \/ v = NoWork /\ (work[g].pc = "claim" => after[d] \notin {"processing", "dispatched"})
                     /\ work[g].pc \in {"claim", "stamp", "take", "save", "requeue", "fail"}
                \/ /\ v.doc = work[g].doc
                   /\ \/ v.pc = "convert" /\ work[g].pc = "claim" /\ after[d] \in {"processing", "dispatched"}
                      \/ v.pc = "post" /\ work[g].pc = "record"
                      \/ v.pc = "llm" /\ work[g].pc = "take"
    BY <1>4, ContinueTurns
  <2>2. work'[g] = v
    BY <1>1, <2>1 DEF Turn
  <2>3. WorkInv(g)'
    BY <1>1, <2>1, <2>2 DEF WorkInv, NoWork
  <2>4. ASSUME g \in Uploads PROVE UploadInv(g)'
    <3>1. d = g /\ row'[g] = Effect(g, row[g]) /\ after[d] = row'[g] /\ exit # "drained"
      BY <1>1, <1>2, <1>4, <2>4, Names DEF UploadInv, Statement
    <3> HIDE DEF d, after
    <3>2. /\ work[g].pc = "claim" => row'[g] \in {"processing"} \cup Handed
          /\ work[g].pc = "record" => row'[g] = row[g]
          /\ pool = "open" /\ work[g].pc = "stamp" => row'[g] \in Handed
          /\ pool = "open" /\ work[g].pc = "fail" => row'[g] \in Handed \/ Unclaimed(g)'
          /\ row'[g] \in {"absent", "uploaded", "processing"} \cup Handed
          /\ row[g] # "absent" => row'[g] # "absent"
      BY <1>1, <1>4, <2>4, <3>1 DEF UploadInv, Effect, Ingesting, Handed, Statement, Claimed, Unclaimed
    <3>3. request[g] \in {"answering", "answered"} /\ UNCHANGED <<pool, exit, request>>
      BY <1>1, <2>4 DEF UploadInv, Statement, mainVars
    <3>4. CASE v = NoWork
      <4>1. pool = "open" => Settled(g)'
        BY <1>1, <2>1, <2>4, <3>1, <3>2, <3>4 DEF Settled, Handed, UploadInv, Ingesting, Statement, NoWork
      <4> QED
        BY <1>1, <2>2, <2>4, <3>1, <3>2, <3>3, <3>4, <4>1 DEF UploadInv, Ingesting, NoWork
    <3>5. CASE v.pc = "convert" /\ work[g].pc = "claim" /\ v.doc = d
      BY <1>1, <2>2, <2>4, <3>1, <3>2, <3>3, <3>5 DEF UploadInv, Ingesting, Claimed
    <3>6. CASE v.pc = "post" /\ work[g].pc = "record" /\ v.doc = d
      BY <1>1, <2>2, <2>4, <3>1, <3>2, <3>3, <3>6 DEF UploadInv, Ingesting, Claimed
    <3>7. work[g].pc # "take"
      BY <1>1, <2>4 DEF UploadInv, Ingesting
    <3> QED
      BY <2>1, <3>4, <3>5, <3>6, <3>7 DEF d
  <2>5. g = Poller => \A e \in Uploads : v.pc # "none" /\ v.doc = e => Claimed(e)
    BY <1>1, <2>1 DEF PollerInv, NoWork, Statement
  <2> QED
    BY <1>1, <1>2, <1>3, <1>4, <2>1, <2>3, <2>4, <2>5, GoroutineKept DEF Recorded
<1>5. ASSUME NEW k \in {"own", "cut"}, OnError(g, k), Recorded(g),
             k = "cut" => ContextDone(g),
             g \in Uploads => work[g].pc \in broken'[g]
      PROVE  ShutdownInv'
  <2>1. PICK v \in Work :
             /\ Turn(g, v) /\ Counted(g, v) /\ work[g].pc # "none"
             /\ \/ v = NoWork /\ work[g].pc \in {"take", "requeue", "fail"}
                \/ /\ v.doc = work[g].doc /\ v.err = k
                   /\ \/ v.pc = "fail" /\ work[g].pc \in {"claim", "convert", "record", "post", "stamp"}
                      \/ v.pc = "requeue" /\ work[g].pc \in {"llm", "save"}
    BY <1>5, ErrorTurns
  <2>2. work'[g] = v
    BY <1>1, <2>1 DEF Turn
  <2>3. WorkInv(g)'
    BY <1>1, <1>5, <2>1, <2>2 DEF WorkInv, NoWork, mainVars, ContextDone
  <2>4. ASSUME g \in Uploads PROVE UploadInv(g)'
    BY <1>1, <1>2, <1>3, <1>5, <2>1, <2>2, <2>4, Names, ErrorOfUpload
  <2>5. g = Poller => \A e \in Uploads : v.pc # "none" /\ v.doc = e => Claimed(e)
    BY <1>1, <2>1 DEF PollerInv, NoWork
  <2> QED
    BY <1>1, <1>2, <1>3, <1>5, <2>1, <2>3, <2>4, <2>5, GoroutineKept
<1>6. CASE ContextDone(g) /\ row' \in {row, after} /\ OnError(g, "cut") /\ UNCHANGED broken
  BY <1>1, <1>5, <1>6, Names DEF Recorded, ContextDone
<1>7. CASE row' \in {row, after} /\ Breaks(g)
  BY <1>1, <1>5, <1>7, BreaksTurns DEF Breaks
<1> QED
  BY <1>4, <1>6, <1>7 DEF EndStatement

\* Conversions, dispatches and the LLM.
LEMMA ToilKept ==
    ASSUME ShutdownInv, NEW g \in Goroutines, Toil(g)
    PROVE  ShutdownInv'
<1>1. /\ work \in [Goroutines -> Work] /\ row \in [Docs -> RowStatus]
      /\ WorkInv(g) /\ work[g].pc \in {"convert", "post", "llm"} /\ g \notin conn
      /\ UNCHANGED <<mainVars, conn, request, row, broken>>
      /\ g \in Uploads => UploadInv(g)
      /\ broken \in [Uploads -> SUBSET Statement] /\ PollerInv
  BY DEF Toil, ShutdownInv, ShutdownTypeOK, WorkInv, Statement
<1>2. exit = "drained" => g = Poller
  BY <1>1, DrainedIsIdle
<1>3. \A d \in Uploads : RowMoves(d)
  BY <1>1 DEF RowMoves
<1>4. \E v \in Work :
         /\ Turn(g, v) /\ Counted(g, v) /\ v.doc = work[g].doc
         /\ \/ v.pc = "record" /\ work[g].pc = "convert"
            \/ v.pc = "stamp" /\ work[g].pc = "post"
            \/ v.pc = "save" /\ work[g].pc = "llm"
            \/ v.pc \in {"fail", "requeue"} /\ (v.err = "own" \/ (v.err = "cut" /\ ContextDone(g)))
                 /\ (v.pc = "requeue" => work[g].pc = "llm")
  <2>1. ASSUME NEW to \in {"record", "stamp", "save", "fail"}, NEW k \in {"none", "own"}, Goto(g, to, k)
        PROVE  \E v \in Work : Turn(g, v) /\ Counted(g, v) /\ v.doc = work[g].doc /\ v.pc = to /\ v.err = k
    <3> DEFINE v == [work[g] EXCEPT !.pc = to, !.err = k]
    <3>1. v \in Work /\ v.doc = work[g].doc /\ v.pc = to /\ v.err = k
      BY <1>1 DEF Work
    <3>2. Turn(g, v) /\ Counted(g, v)
      BY <1>1, <2>1 DEF Goto, Turn, Counted, Work
    <3> QED
      BY <3>1, <3>2
  <2>2. CASE work[g].pc = "convert" /\ Goto(g, "record", "none")
    BY <2>1, <2>2
  <2>3. CASE work[g].pc = "post" /\ Goto(g, "stamp", "none")
    BY <2>1, <2>3
  <2>4. CASE work[g].pc = "llm" /\ Goto(g, "save", "none")
    BY <2>1, <2>4
  <2>5. CASE work[g].pc = "llm" /\ Goto(g, "fail", "own")
    BY <2>1, <2>5
  <2>6. ASSUME NEW k \in {"own", "cut"}, OnError(g, k), k = "cut" => ContextDone(g)
        PROVE  \E v \in Work :
                 /\ Turn(g, v) /\ Counted(g, v) /\ v.doc = work[g].doc /\ v.err = k
                 /\ v.pc = "fail" \/ (v.pc = "requeue" /\ work[g].pc = "llm")
    <3>1. PICK v \in Work :
             /\ Turn(g, v) /\ Counted(g, v) /\ work[g].pc # "none"
             /\ \/ v = NoWork /\ work[g].pc \in {"take", "requeue", "fail"}
                \/ /\ v.doc = work[g].doc /\ v.err = k
                   /\ \/ v.pc = "fail" /\ work[g].pc \in {"claim", "convert", "record", "post", "stamp"}
                      \/ v.pc = "requeue" /\ work[g].pc \in {"llm", "save"}
      BY <2>6, ErrorTurns
    <3> QED
      BY <1>1, <3>1
  <2>7. CASE OnError(g, "own")
    BY <2>6, <2>7
  <2>8. CASE ContextDone(g) /\ OnError(g, "cut")
    BY <2>6, <2>8
  <2> QED
    BY <2>2, <2>3, <2>4, <2>5, <2>7, <2>8 DEF Toil
<1>5. PICK v \in Work :
         /\ Turn(g, v) /\ Counted(g, v) /\ v.doc = work[g].doc
         /\ \/ v.pc = "record" /\ work[g].pc = "convert"
            \/ v.pc = "stamp" /\ work[g].pc = "post"
            \/ v.pc = "save" /\ work[g].pc = "llm"
            \/ v.pc \in {"fail", "requeue"} /\ (v.err = "own" \/ (v.err = "cut" /\ ContextDone(g)))
                 /\ (v.pc = "requeue" => work[g].pc = "llm")
  BY <1>4
<1>6. work'[g] = v
  BY <1>1, <1>5 DEF Turn
<1>7. WorkInv(g)'
  BY <1>1, <1>5, <1>6 DEF WorkInv, mainVars, ContextDone
<1>8. g \in Uploads => UploadInv(g)'
  BY <1>1, <1>5, <1>6 DEF UploadInv, Ingesting, Claimed, mainVars
<1>9. g = Poller => \A d \in Uploads : v.pc # "none" /\ v.doc = d => Claimed(d)
  BY <1>1, <1>5 DEF PollerInv
<1> QED
  BY <1>1, <1>2, <1>3, <1>5, <1>7, <1>8, <1>9, GoroutineKept DEF Recorded

\* The poller takes a document: one that has no goroutine of its own to end.
LEMMA PicksKept == ShutdownInv /\ PollerPicks => ShutdownInv'
<1> SUFFICES ASSUME ShutdownInv, PollerPicks PROVE ShutdownInv'
  OBVIOUS
<1>1. /\ work \in [Goroutines -> Work] /\ row \in [Docs -> RowStatus] /\ WorkInv(Poller)
      /\ UNCHANGED <<mainVars, conn, request, row, wg, broken>> /\ work[Poller].pc = "none"
      /\ broken \in [Uploads -> SUBSET Statement]
  BY Names DEF PollerPicks, ShutdownInv, ShutdownTypeOK
<1>2. PICK d \in Docs, to \in {"take", "claim"} :
        /\ work' = [work EXCEPT ![Poller] = [NoWork EXCEPT !.pc = to, !.doc = d]]
        /\ row[d] \in {"ocr_done", "processing"}
  BY DEF PollerPicks
<1> DEFINE v == [NoWork EXCEPT !.pc = to, !.doc = d]
<1>3. v \in Work /\ v.pc = to /\ v.doc = d
  BY Names DEF NoWork, Work
<1>4. Turn(Poller, v) /\ Counted(Poller, v) /\ work'[Poller] = v
  BY <1>1, <1>2, Names DEF Turn, Counted
<1> HIDE DEF v
<1>5. WorkInv(Poller)'
  BY <1>1, <1>3, <1>4 DEF WorkInv, Statement
<1>6. \A e \in Uploads : RowMoves(e)
  BY <1>1 DEF RowMoves
<1>7. \A e \in Uploads : v.doc = e => Claimed(e)
  BY <1>2, <1>3 DEF ShutdownInv, UploadInv, Claimed, Handed
<1> QED
  BY <1>1, <1>3, <1>4, <1>5, <1>6, <1>7, Names, GoroutineKept DEF Recorded

(***************************************************************************)
(* Handlers.                                                               *)
(***************************************************************************)

\* Once run waits, and after a drain, no upload has more to ask of anybody.
LEMMA HandlerKept ==
    ASSUME ShutdownInv, NEW d \in Uploads, HandlerStep(d)
    PROVE  ShutdownInv'
<1>1. /\ work \in [Goroutines -> Work] /\ row \in [Docs -> RowStatus] /\ conn \subseteq Goroutines \cup {Handler(e) : e \in Uploads}
      /\ request \in [Uploads -> Serving \cup {"none", "answered", "refused"}]
      /\ StageInv /\ UploadInv(d) /\ wg = Cardinality(Busy) /\ IsFiniteSet(Busy)
      /\ \A g \in Goroutines : WorkInv(g)
      /\ \A e \in Uploads : UploadInv(e)
      /\ UNCHANGED <<mainVars, broken>> /\ broken \in [Uploads -> SUBSET Statement] /\ PollerInv
  BY DEF HandlerStep, Receive, StorePDF, BeginInsert, EndInsert, StartWork, AnswerAccepted,
         ShutdownInv, ShutdownTypeOK, Busy
<1>2. request[d] \in Serving \/ main = "serving"
  BY DEF HandlerStep, Receive, StorePDF, BeginInsert, EndInsert, StartWork, AnswerAccepted, Serving
<1>3. main # "waiting" /\ exit # "drained"
  BY <1>1, <1>2 DEF StageInv
<1>4. CASE StartWork(d)
  <2> DEFINE v == [NoWork EXCEPT !.pc = "claim", !.doc = d]
  <2>1. v \in Work /\ v.pc = "claim" /\ v.doc = d
    BY Names DEF NoWork, Work
  <2>2. /\ Turn(d, v) /\ request' = [request EXCEPT ![d] = "answering"] /\ request[d] = "starting"
        /\ wg' = wg + 1 /\ UNCHANGED <<mainVars, conn, row>>
    BY <1>4 DEF StartWork, RequestGoto, Turn
  <2> HIDE DEF v
  <2>3. work[d].pc = "none" /\ d \in Goroutines /\ d # Poller
    BY <1>1, <2>2, Names DEF UploadInv
  <2>4. IsFiniteSet(Busy') /\ wg' = Cardinality(Busy')
    BY <2>1, <2>2, <2>3, CountKept DEF Counted
  <2>5. work'[d] = v /\ \A g \in Goroutines \ {d} : work'[g] = work[g]
    BY <1>1, <2>2, <2>3 DEF Turn
  <2>6. ShutdownTypeOK'
    <3>1. wg' = Cardinality({e \in Uploads : work'[e].pc # "none"})
      BY <2>4 DEF Busy
    <3>2. work' \in [Goroutines -> Work]
      BY <1>1, <2>1, <2>2 DEF Turn
    <3> QED
      BY <1>1, <2>2, <3>1, <3>2 DEF ShutdownInv, ShutdownTypeOK, mainVars, Serving
  <2>7. StageInv'
    BY <1>1, <1>3 DEF StageInv, mainVars
  <2>8. ASSUME NEW g \in Goroutines PROVE WorkInv(g)'
    BY <1>1, <2>1, <2>2, <2>3, <2>5, Names DEF WorkInv, ContextDone, mainVars, Statement
  <2>9. ASSUME NEW e \in Uploads PROVE UploadInv(e)'
    BY <1>1, <2>1, <2>2, <2>3, <2>5, Names DEF UploadInv, Claimed, Unclaimed, Settled, mainVars, Ingesting
  <2>10. PollerInv'
    BY <1>1, <2>2, <2>3, <2>5, Names DEF PollerInv, Claimed
  <2> QED
    BY <2>4, <2>6, <2>7, <2>8, <2>9, <2>10 DEF ShutdownInv
<1>5. ASSUME UNCHANGED <<wg, work>>,
             NEW s \in Serving \cup {"answered", "refused"}, request' = [request EXCEPT ![d] = s],
             conn' \subseteq conn \cup {Handler(d)}, conn \subseteq conn' \cup {Handler(d)},
             row' = row \/ (row' = [row EXCEPT ![d] = "uploaded"] /\ request[d] = "inserting"
                             /\ s \in {"starting", "refused"}),
             \/ s \in {"storing", "inserting", "refused"} /\ request[d] \in {"none", "storing", "inserting"}
             \/ s = "starting" /\ row'[d] = "uploaded" /\ request[d] = "inserting"
             \/ s = "answered" /\ request[d] = "answering" /\ row' = row
      PROVE  ShutdownInv'
  <2>1. Handler(d) \notin Goroutines
    BY HandlersAssumption
  <2>2. IsFiniteSet(Busy') /\ Busy' = Busy
    BY <1>1, <1>5 DEF Busy
  <2>3. ShutdownTypeOK'
    <3>1. wg' = Cardinality({e \in Uploads : work'[e].pc # "none"})
      BY <1>1, <1>5, <2>2 DEF Busy
    <3>2. row' \in [Docs -> RowStatus] /\ request' \in [Uploads -> Serving \cup {"none", "answered", "refused"}]
      BY <1>1, <1>5 DEF RowStatus
    <3> QED
      BY <1>1, <1>5, <3>1, <3>2 DEF ShutdownInv, ShutdownTypeOK, mainVars
  <2>4. StageInv'
    BY <1>1, <1>3 DEF StageInv, mainVars
  <2>5. ASSUME NEW g \in Goroutines PROVE WorkInv(g)'
    BY <1>1, <1>5, <2>1 DEF WorkInv, ContextDone, mainVars
  <2>6. ASSUME NEW e \in Uploads PROVE UploadInv(e)'
    <3>1. CASE e = d
      <4>1. request'[d] = s /\ work'[d] = work[d] /\ (row'[d] = row[d] \/ row'[d] = "uploaded")
        BY <1>1, <1>5, Names
      <4>2. CASE request[d] # "answering"
        <5>1. work[d].pc = "none"
          BY <1>1, <1>5, <4>2 DEF UploadInv
        <5> QED
          BY <1>1, <1>5, <3>1, <4>1, <4>2, <5>1 DEF UploadInv, Ingesting, Serving
      <4>3. CASE request[d] = "answering"
        BY <1>1, <1>5, <3>1, <4>1, <4>3 DEF UploadInv, Claimed, Unclaimed, Settled, mainVars
      <4> QED
        BY <4>2, <4>3
    <3>2. CASE e # d
      <4>1. request'[e] = request[e] /\ work'[e] = work[e] /\ row'[e] = row[e]
        BY <1>1, <1>5, <3>2, Names
      <4> QED
        BY <1>1, <4>1 DEF UploadInv, Claimed, Unclaimed, Settled, mainVars
    <3> QED
      BY <3>1, <3>2
  <2>7. PollerInv'
    <3>1. \A e \in Uploads : Claimed(e) => row'[e] = row[e]
      BY <1>1, <1>5, Names DEF UploadInv, Claimed, Handed
    <3> QED
      BY <1>1, <1>5, <3>1 DEF PollerInv, Claimed
  <2> QED
    BY <2>2, <2>3, <2>4, <2>5, <2>6, <2>7 DEF ShutdownInv
<1>6. CASE Receive(d) \/ StorePDF(d) \/ AnswerAccepted(d)
  BY <1>5, <1>6 DEF Receive, StorePDF, AnswerAccepted, RequestGoto, Serving
<1>7. CASE BeginInsert(d)
  <2>1. request = [request EXCEPT ![d] = request[d]]
    BY <1>1
  <2> QED
    BY <1>5, <1>7, <2>1 DEF BeginInsert, RequestGoto, Serving
<1>8. CASE EndInsert(d)
  <2>1. [row EXCEPT ![d] = "uploaded"][d] = "uploaded"
    BY <1>1, Names
  <2>2. CASE row' = [row EXCEPT ![d] = "uploaded"] /\ RequestGoto(d, "starting")
    BY <1>5, <1>8, <2>1, <2>2 DEF EndInsert, RequestGoto, Serving
  <2>3. CASE row' \in {row, [row EXCEPT ![d] = "uploaded"]} /\ RequestGoto(d, "refused")
    BY <1>5, <1>8, <2>3 DEF EndInsert, RequestGoto
  <2> QED
    BY <1>8, <2>2, <2>3 DEF EndInsert
<1> QED
  BY <1>4, <1>6, <1>7, <1>8 DEF HandlerStep

(***************************************************************************)
(* run.                                                                    *)
(***************************************************************************)

\* run only ever narrows what goroutines may do: nothing is opened again.
LEMMA RunKept ==
    ASSUME ShutdownInv,
           \/ MainStep \/ Signal \/ ListenFails \/ Expire
           \/ \E g \in Goroutines : UseClosedStorage(g)
           \/ UNCHANGED shutdownVars
    PROVE  ShutdownInv'
<1>1. /\ UNCHANGED <<conn, wg, request, work, row, broken>>
      /\ main' \in {"serving", "draining", "waiting", "closing", "exited"}
      /\ exit' \in {"none", "drained", "late", "error", "panic"}
      /\ pool' \in {"open", "closing", "closed"}
  BY DEF ShutdownInv, ShutdownTypeOK, shutdownVars, MainStep, Signal, ListenFails, Expire, UseClosedStorage,
         BeginDrain, EndDrain, EndWait, CloseStorage, ClosePool, Exit, Leave
<1>2. /\ pool' = "open" => pool = "open"
      /\ pool # "open" => pool' # "open"
      /\ cancelled => cancelled'
  BY DEF shutdownVars, MainStep, Signal, ListenFails, Expire, UseClosedStorage,
         BeginDrain, EndDrain, EndWait, CloseStorage, ClosePool, Exit
<1>3. Busy' = Busy /\ IsFiniteSet(Busy) /\ wg = Cardinality(Busy) /\ StageInv
  BY <1>1 DEF Busy, ShutdownInv, ShutdownTypeOK
<1>4. StageInv' /\ (exit' = "drained" => pool = "open" \/ exit = "drained")
  <2>1. wg = 0 => Busy = {}
    BY <1>3, FS_EmptySet
  <2>2. CASE EndWait
    BY <1>1, <1>3, <2>1, <2>2 DEF StageInv, EndWait, Leave
  <2>3. CASE EndDrain \/ BeginDrain
    BY <1>1, <1>3, <2>3 DEF StageInv, EndDrain, BeginDrain, Leave
  <2>4. CASE CloseStorage \/ ClosePool \/ Exit \/ Signal \/ Expire \/ UNCHANGED shutdownVars
    BY <1>1, <1>3, <2>4 DEF StageInv, CloseStorage, ClosePool, Exit, Signal, Expire, shutdownVars
  <2>5. CASE ListenFails \/ \E g \in Goroutines : UseClosedStorage(g)
    BY <1>1, <1>3, <2>5 DEF StageInv, ListenFails, UseClosedStorage, Leave
  <2> QED
    BY <2>2, <2>3, <2>4, <2>5 DEF MainStep
<1>5. ShutdownTypeOK'
  BY <1>1 DEF ShutdownInv, ShutdownTypeOK
<1>6. ASSUME NEW g \in Goroutines PROVE WorkInv(g)'
  BY <1>1, <1>2 DEF ShutdownInv, WorkInv, ContextDone
<1>7. ASSUME NEW d \in Uploads PROVE UploadInv(d)'
  BY <1>1, <1>2, <1>4 DEF ShutdownInv, UploadInv, Claimed, Unclaimed, Settled
<1>8. PollerInv'
  BY <1>1 DEF ShutdownInv, PollerInv, Claimed
<1> QED
  BY <1>3, <1>4, <1>5, <1>6, <1>7, <1>8 DEF ShutdownInv

\* Every step keeps the invariant.
LEMMA ShutdownStep == ShutdownInv /\ [ShutdownNext]_shutdownVars => ShutdownInv'
  BY BeginKept, EndKept, ToilKept, PicksKept, HandlerKept, RunKept DEF ShutdownNext, WorkStep

\* A process starts with nothing under way, over what others left behind.
LEMMA ShutdownStarts == ShutdownInit => ShutdownInv
<1> SUFFICES ASSUME ShutdownInit PROVE ShutdownInv
  OBVIOUS
<1>1. Busy = {} /\ IsFiniteSet(Busy) /\ wg = Cardinality(Busy)
  BY FS_EmptySet, Names DEF ShutdownInit, Busy, NoWork
<1>2. ShutdownTypeOK
  <2>1. row \in [Docs -> RowStatus] /\ work \in [Goroutines -> Work]
    BY Names DEF ShutdownInit, RowStatus
  <2> QED
    BY <1>1, <2>1 DEF ShutdownInit, ShutdownTypeOK, Busy
<1>3. StageInv /\ \A g \in Goroutines : WorkInv(g)
  BY <1>1 DEF ShutdownInit, StageInv, WorkInv, NoWork
<1>4. ASSUME NEW d \in Uploads PROVE UploadInv(d)
  BY Names DEF ShutdownInit, UploadInv, Ingesting, NoWork
<1>5. PollerInv
  BY Names DEF ShutdownInit, PollerInv, NoWork
<1> QED
  BY <1>1, <1>2, <1>3, <1>4, <1>5 DEF ShutdownInv

(***************************************************************************)
(* What the shutdown promises.                                             *)
(***************************************************************************)

\* run, handlers and goroutines agree on what is still to be done, for any
\* number of uploads and documents left behind.
THEOREM ShutdownAgrees == ShutdownSpec => []ShutdownInv
  BY ShutdownStarts, ShutdownStep, PTL DEF ShutdownSpec

\* ingest.Service.wg counts exactly the ingest goroutines that are at work.
THEOREM CountIsExact == ShutdownSpec => []ShutdownTypeOK
<1>1. ShutdownInv => ShutdownTypeOK
  BY DEF ShutdownInv
<1> QED
  BY ShutdownAgrees, <1>1, PTL

\* A shutdown that ends in time (wg.Wait before the deadline) leaves an upload that
\* was answered 202 handed over or failed, or where a failing database left it: no
\* goroutine that was to move it on is lost with the process.
THEOREM DrainIsComplete == ShutdownSpec => []DrainLosesNothing
<1>1. ASSUME ShutdownInv, exit = "drained", NEW d \in Uploads, request[d] = "answered"
      PROVE  Settled(d)
  BY <1>1 DEF ShutdownInv, StageInv, UploadInv, Busy
<1>2. ShutdownInv => DrainLosesNothing
  BY <1>1 DEF DrainLosesNothing, Settled, Unclaimed, Handed
<1> QED
  BY ShutdownAgrees, <1>2, PTL

\* sync.WaitGroup: no Add while run is in ingestSvc.Shutdown's Wait.
THEOREM WaitIsAlone == ShutdownSpec => NoAddDuringWait
<1>1. ShutdownInv /\ [ShutdownNext]_shutdownVars
        => [main = "waiting" => wg' <= wg]_shutdownVars
  <2> SUFFICES ASSUME ShutdownInv, [ShutdownNext]_shutdownVars, main = "waiting"
               PROVE  wg' <= wg
    OBVIOUS
  <2>1. wg \in Nat
    BY FS_CardinalityType DEF ShutdownInv, ShutdownTypeOK, Busy
  <2>2. \A d \in Uploads : ~StartWork(d)
    BY DEF ShutdownInv, StageInv, StartWork, Serving
  <2>3. wg' = wg \/ wg' = wg - 1
    BY <2>2 DEF ShutdownNext, shutdownVars, HandlerStep, Receive, StorePDF, BeginInsert, EndInsert, AnswerAccepted,
       WorkStep, BeginStatement, EndStatement, Breaks, Toil, OnError, Continue, End, Goto, PollerPicks, UseClosedStorage,
       Signal, ListenFails, Expire, MainStep, BeginDrain, EndDrain, EndWait, CloseStorage, ClosePool, Exit
  <2> QED
    BY <2>1, <2>3
<1> QED
  BY ShutdownAgrees, <1>1, PTL DEF ShutdownSpec, NoAddDuringWait

\* Only an error of a document's own is recorded as its failure: one that the
\* shutdown caused never reaches the table (MarkFailed in ingest.Process and in
\* ExtractDocument, which need the context and the pool that the shutdown takes away).
THEOREM ShutdownIsNoVerdict == ShutdownSpec => NoVerdictByShutdown
<1>1. ASSUME ShutdownInv, [ShutdownNext]_shutdownVars, NEW d \in Docs, row[d] # "failed", row'[d] = "failed"
      PROVE  \E g \in conn : work[g].pc = "fail" /\ work[g].doc = d /\ work[g].err = "own"
  <2>1. row \in [Docs -> RowStatus] /\ row' # row
    BY <1>1 DEF ShutdownInv, ShutdownTypeOK
  <2>2. \/ \E g \in Goroutines : EndStatement(g)
        \/ \E e \in Uploads : EndInsert(e)
    BY <1>1, <2>1 DEF ShutdownNext, shutdownVars, HandlerStep, Receive, StorePDF, BeginInsert, StartWork, AnswerAccepted,
       WorkStep, BeginStatement, Toil, PollerPicks, UseClosedStorage,
       Signal, ListenFails, Expire, MainStep, BeginDrain, EndDrain, EndWait, CloseStorage, ClosePool, Exit
  <2>3. ASSUME NEW e \in Uploads, EndInsert(e) PROVE FALSE
    BY <1>1, <2>1, <2>3, Names DEF EndInsert
  <2>4. PICK g \in Goroutines : EndStatement(g)
    BY <2>2, <2>3
  <2>5. /\ g \in conn /\ WorkInv(g) /\ work[g].pc \in Statement
        /\ row' = [row EXCEPT ![work[g].doc] = Effect(g, @)]
    BY <1>1, <2>1, <2>4 DEF EndStatement, ShutdownInv, WorkInv
  <2>6. work[g].doc = d /\ row'[d] = Effect(g, row[d])
    BY <1>1, <2>1, <2>5
  <2>7. work[g].pc = "fail"
    BY <1>1, <2>5, <2>6 DEF Effect, Statement
  <2> QED
    BY <2>5, <2>6, <2>7 DEF WorkInv
<1>2. ShutdownInv /\ [ShutdownNext]_shutdownVars =>
        [\A d \in Docs : row[d] # "failed" /\ row'[d] = "failed" =>
           \E g \in conn : work[g].pc = "fail" /\ work[g].doc = d /\ work[g].err = "own"]_shutdownVars
  BY <1>1
<1> QED
  BY ShutdownAgrees, <1>2, PTL DEF ShutdownSpec, NoVerdictByShutdown
==============================================================================
