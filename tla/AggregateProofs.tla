---------------------------- MODULE AggregateProofs ----------------------------
(***************************************************************************)
(* The invariants of Aggregate, for any number of overlapping saves and    *)
(* requests.  The heart is LockInv: the committed row has at most one      *)
(* transaction that has deleted it, and the row that a transaction has     *)
(* inserted can only replace the row that the same transaction deleted.    *)
(***************************************************************************)
EXTENDS Aggregate, TLAPS

Inserting == {"atos", "partes", "proprietarios", "onus", "commit"}

\* The child tables a transaction has filled when it stands at pc.
PartsAt(pc) ==
    CASE pc = "partes"        -> {"atos"}
      [] pc = "proprietarios" -> {"atos", "partes"}
      [] pc = "onus"          -> {"atos", "partes", "proprietarios"}
      [] pc = "commit"        -> Parts
      [] OTHER                -> {}

\* How far a transaction is, and that its row is committed before the flip.
TxInv(s) ==
    /\ tx[s].put <=> tx[s].pc \in Inserting
    /\ tx[s].parts = PartsAt(tx[s].pc)
    /\ tx[s].gone # None => tx[s].pc \in Inserting \cup {"insert"}
    /\ tx[s].pc = "flip" => row # None

LockInv ==
    /\ \A s \in Savers : tx[s].gone # None => row = tx[s].gone
    /\ \A s, t \in Savers : tx[s].gone # None /\ tx[t].gone # None => s = t
    /\ OneReplacement

AggregateInv ==
    /\ AggregateTypeOK
    /\ \A s \in Savers : TxInv(s)
    /\ LockInv
    /\ StoredIsWhole
    /\ ExtractedIsReadable

\* The empty tables satisfy it.
LEMMA AggregateStarts == AggregateInit => AggregateInv
<1> SUFFICES ASSUME AggregateInit PROVE AggregateInv
  OBVIOUS
<1>1. NewTx \in Tx /\ NewRead \in Read
  BY DEF NewTx, Tx, TxPC, NewRead, Read
<1>2. AggregateTypeOK
  BY <1>1 DEF AggregateInit, AggregateTypeOK
<1>3. \A s \in Savers : TxInv(s)
  BY DEF AggregateInit, TxInv, NewTx, PartsAt, Inserting
<1>4. LockInv /\ StoredIsWhole /\ ExtractedIsReadable
  BY DEF AggregateInit, LockInv, OneReplacement, StoredIsWhole, ExtractedIsReadable, NewTx, NewRead
<1> QED
  BY <1>2, <1>3, <1>4 DEF AggregateInv

(***************************************************************************)
(* What one step of extraction s may do to its own transaction while the   *)
(* tables stay as they are.                                                *)
(***************************************************************************)
TxStep(s) ==
    \/ tx'[s].gone = tx[s].gone /\ tx'[s].put = tx[s].put
    \/ tx'[s].gone = None /\ ~tx'[s].put
    \/ /\ tx[s].pc = "deleting" /\ ~tx'[s].put
       /\ tx'[s].gone = row
       /\ \A t \in Savers \ {s} : ~DeletedBy(t, row)
    \/ /\ tx[s].pc = "insert" /\ tx'[s].put
       /\ tx'[s].gone = tx[s].gone
       /\ row \in {None, tx[s].gone}
       /\ \A t \in Savers \ {s} : ~InsertedBy(t) /\ ~DeletedBy(t, row)

\* A step that writes nothing to the tables keeps the locks in order.
LEMMA LocksKept ==
    ASSUME AggregateInv, UNCHANGED Tables, NEW s \in Savers, TxStep(s), tx'[s] \in Tx,
           \A t \in Savers \ {s} : tx'[t] = tx[t]
    PROVE  LockInv'
<1>1. row' = row
  BY DEF Tables
<1>2. \A t \in Savers : tx[t].gone # None => row = tx[t].gone
  BY DEF AggregateInv, LockInv
<1>3. \A t, u \in Savers : tx[t].gone # None /\ tx[u].gone # None => t = u
  BY DEF AggregateInv, LockInv
<1>4. \A t \in Savers : tx[t].put => row \in {None, tx[t].gone} /\ \A u \in Savers \ {t} : ~tx[u].put
  BY DEF AggregateInv, LockInv, OneReplacement
<1>5. \A t \in Savers : tx'[t].gone # None => row' = tx'[t].gone
  BY <1>1, <1>2 DEF TxStep
<1>6. \A t, u \in Savers : tx'[t].gone # None /\ tx'[u].gone # None => t = u
  <2>1. \A t \in Savers \ {s} : tx'[s].gone # None => tx[t].gone = None
    BY <1>2, <1>3 DEF TxStep, DeletedBy
  <2> QED
    BY <1>3, <2>1
<1>7. \A t \in Savers : tx'[t].put => row' \in {None, tx'[t].gone} /\ \A u \in Savers \ {t} : ~tx'[u].put
  <2>1. CASE tx'[s].gone = tx[s].gone /\ tx'[s].put = tx[s].put
    BY <1>1, <1>4, <2>1
  <2>2. CASE ~tx'[s].put
    BY <1>1, <1>4, <2>2
  <2>3. CASE /\ row \in {None, tx[s].gone} /\ tx'[s].gone = tx[s].gone
             /\ \A t \in Savers \ {s} : ~InsertedBy(t)
    BY <1>1, <2>3 DEF InsertedBy
  <2> QED
    BY <2>1, <2>2, <2>3 DEF TxStep
<1> QED
  BY <1>5, <1>6, <1>7 DEF LockInv, OneReplacement

\* The step of extraction s before or after its commit.
LEMMA QuietSave ==
    ASSUME AggregateInv, NEW s \in Savers, UNCHANGED <<Tables, read>>,
           \A t \in Savers \ {s} : tx'[t] = tx[t],
           tx' \in [Savers -> Tx], TxStep(s), TxInv(s)',
           status' \in {"ocr_done", "extracting", "extracted", "failed"},
           status' = "extracted" => status = "extracted" \/ tx[s].pc = "flip"
    PROVE  AggregateInv'
<1>1. row' = row /\ child' = child /\ extractions' = extractions /\ read' = read
  BY DEF Tables
<1>2. AggregateTypeOK' /\ StoredIsWhole'
  BY <1>1 DEF AggregateInv, AggregateTypeOK, StoredIsWhole
<1>3. \A t \in Savers : TxInv(t)'
  BY <1>1 DEF AggregateInv, TxInv
<1>4. LockInv'
  BY LocksKept
<1>5. ExtractedIsReadable'
  BY <1>1 DEF AggregateInv, ExtractedIsReadable, TxInv
<1> QED
  BY <1>2, <1>3, <1>4, <1>5 DEF AggregateInv

\* Everything extraction s does but its commit.
LEMMA SaveStepKeeps ==
    ASSUME AggregateInv, NEW s \in Savers, ClaimAttempt(s) \/ SaveStep(s), ~Commit(s)
    PROVE  AggregateInv'
<1> DEFINE Statuses == {"ocr_done", "extracting", "extracted", "failed"}
<1>0. /\ tx \in [Savers -> Tx] /\ status \in Statuses /\ row \in Savers \cup {None}
      /\ TxInv(s)
      /\ tx[s] \in Tx
  BY DEF AggregateInv, AggregateTypeOK
<1>1. ASSUME NEW new \in Tx, tx' = [tx EXCEPT ![s] = new]
      PROVE  tx' \in [Savers -> Tx] /\ tx'[s] = new /\ \A t \in Savers \ {s} : tx'[t] = tx[t]
  BY <1>0, <1>1
<1>2. \A pc \in TxPC : TxGoto(s, pc) => /\ tx' = [tx EXCEPT ![s] = [tx[s] EXCEPT !.pc = pc]]
                                        /\ [tx[s] EXCEPT !.pc = pc] \in Tx
  BY <1>0 DEF TxGoto, Tx
<1>3. Rollback(s) => /\ tx' = [tx EXCEPT ![s] = [NewTx EXCEPT !.pc = "requeue"]]
                     /\ [NewTx EXCEPT !.pc = "requeue"] \in Tx
  BY DEF Rollback, NewTx, Tx, TxPC
<1>4. ASSUME UNCHANGED <<status, Tables, read>>, Rollback(s) PROVE AggregateInv'
  <2>1. /\ tx' \in [Savers -> Tx] /\ tx'[s] = [NewTx EXCEPT !.pc = "requeue"]
        /\ \A t \in Savers \ {s} : tx'[t] = tx[t]
    BY <1>1, <1>3, <1>4
  <2>2. TxStep(s) /\ TxInv(s)'
    BY <2>1 DEF TxStep, TxInv, NewTx, PartsAt, Inserting
  <2> QED
    BY <1>0, <1>4, <2>1, <2>2, QuietSave
\* It moves on without holding a row.
<1>5. ASSUME NEW pc \in TxPC, TxGoto(s, pc), UNCHANGED <<Tables, read>>,
             tx[s].pc \notin Inserting \cup {"insert"}, pc \notin Inserting \cup {"flip"},
             status' \in Statuses, status' = "extracted" => status = "extracted" \/ tx[s].pc = "flip"
      PROVE  AggregateInv'
  <2>1. /\ tx' \in [Savers -> Tx] /\ tx'[s] = [tx[s] EXCEPT !.pc = pc]
        /\ \A t \in Savers \ {s} : tx'[t] = tx[t]
    BY <1>1, <1>2, <1>5
  <2>2. tx'[s].pc = pc /\ tx'[s].gone = tx[s].gone /\ tx'[s].put = tx[s].put /\ tx'[s].parts = tx[s].parts
    BY <1>0, <2>1 DEF Tx
  <2>3. TxStep(s) /\ TxInv(s)'
    BY <1>0, <1>5, <2>2 DEF TxStep, TxInv, PartsAt, Inserting, TxPC
  <2> QED
    BY <1>5, <2>1, <2>3, QuietSave
<1>6. CASE ClaimAttempt(s) \/ GiveUpAttempt(s) \/ Flip(s) \/ RequeueAttempt(s)
  BY <1>0, <1>5, <1>6 DEF ClaimAttempt, GiveUpAttempt, Flip, RequeueAttempt, Inserting, TxPC
<1>7. CASE BeginSave(s)
  BY <1>0, <1>4, <1>5, <1>7 DEF BeginSave, Inserting, TxPC
<1>8. CASE StartDelete(s)
  <2> DEFINE new == [tx[s] EXCEPT !.target = row, !.pc = "deleting"]
  <2>1. new \in Tx /\ tx' = [tx EXCEPT ![s] = new]
    BY <1>0, <1>8 DEF StartDelete, Tx, TxPC
  <2>2. new.pc = "deleting" /\ new.gone = tx[s].gone /\ new.put = tx[s].put /\ new.parts = tx[s].parts
    BY <1>0 DEF Tx
  <2>3. tx' \in [Savers -> Tx] /\ tx'[s] = new /\ \A t \in Savers \ {s} : tx'[t] = tx[t]
    BY <1>1, <2>1
  <2>4. TxStep(s) /\ TxInv(s)'
    BY <1>0, <1>8, <2>2, <2>3 DEF StartDelete, TxStep, TxInv, PartsAt, Inserting
  <2> QED
    BY <1>0, <1>8, <2>3, <2>4, QuietSave DEF StartDelete
<1>9. CASE FinishDelete(s)
  <2> DEFINE new == [tx[s] EXCEPT !.gone = IF row = tx[s].target THEN row ELSE None, !.pc = "insert"]
  <2>1. new \in Tx /\ tx' = [tx EXCEPT ![s] = new]
    BY <1>0, <1>9 DEF FinishDelete, Tx, TxPC
  <2>2. /\ new.pc = "insert" /\ new.put = tx[s].put /\ new.parts = tx[s].parts
        /\ new.gone = IF row = tx[s].target THEN row ELSE None
    BY <1>0 DEF Tx
  <2>3. tx' \in [Savers -> Tx] /\ tx'[s] = new /\ \A t \in Savers \ {s} : tx'[t] = tx[t]
    BY <1>1, <2>1
  <2>4. tx[s].pc = "deleting" /\ ~tx[s].put /\ tx[s].parts = {}
    BY <1>0, <1>9 DEF FinishDelete, TxInv, PartsAt, Inserting
  <2>5. TxStep(s) /\ TxInv(s)'
    BY <1>9, <2>2, <2>3, <2>4 DEF FinishDelete, TxStep, TxInv, PartsAt, Inserting
  <2> QED
    BY <1>0, <1>9, <2>3, <2>5, QuietSave DEF FinishDelete
<1>10. CASE InsertRow(s)
  <2>1. CASE /\ row \in {None, tx[s].gone}
             /\ tx' = [tx EXCEPT ![s].put = TRUE, ![s].pc = "atos"]
    <3> DEFINE new == [tx[s] EXCEPT !.put = TRUE, !.pc = "atos"]
    <3>1. new \in Tx /\ tx' = [tx EXCEPT ![s] = new]
      BY <1>0, <2>1 DEF Tx, TxPC
    <3>2. new.pc = "atos" /\ new.put /\ new.gone = tx[s].gone /\ new.parts = tx[s].parts
      BY <1>0 DEF Tx
    <3>3. tx' \in [Savers -> Tx] /\ tx'[s] = new /\ \A t \in Savers \ {s} : tx'[t] = tx[t]
      BY <1>1, <3>1
    <3>4. TxStep(s) /\ TxInv(s)'
      BY <1>0, <1>10, <2>1, <3>2, <3>3 DEF InsertRow, TxStep, TxInv, PartsAt, Inserting
    <3> QED
      BY <1>0, <1>10, <3>3, <3>4, QuietSave DEF InsertRow
  <2> QED
    BY <1>4, <1>10, <2>1 DEF InsertRow
<1>11. ASSUME NEW part \in Parts, InsertPart(s, part) PROVE AggregateInv'
  <2>1. CASE tx' = [tx EXCEPT ![s].parts = @ \cup {part}, ![s].pc = After(part)]
    <3> DEFINE new == [tx[s] EXCEPT !.parts = @ \cup {part}, !.pc = After(part)]
    <3>1. After(part) \in Inserting \ {"atos"} /\ PartsAt(After(part)) = PartsAt(part) \cup {part}
      BY DEF After, Inserting, PartsAt, Parts
    <3>2. new \in Tx /\ tx' = [tx EXCEPT ![s] = new]
      BY <1>0, <2>1, <3>1 DEF Tx, TxPC, Inserting
    <3>3. new.pc = After(part) /\ new.put = tx[s].put /\ new.gone = tx[s].gone
          /\ new.parts = tx[s].parts \cup {part}
      BY <1>0 DEF Tx
    <3>4. tx' \in [Savers -> Tx] /\ tx'[s] = new /\ \A t \in Savers \ {s} : tx'[t] = tx[t]
      BY <1>1, <3>2
    <3>5. tx[s].pc = part /\ part \in Inserting
      BY <1>11 DEF InsertPart, Parts, Inserting
    <3>6. TxStep(s) /\ TxInv(s)'
      BY <1>0, <3>1, <3>3, <3>4, <3>5 DEF TxStep, TxInv, Inserting
    <3> QED
      BY <1>0, <1>11, <3>4, <3>6, QuietSave DEF InsertPart
  <2> QED
    BY <1>4, <1>11, <2>1 DEF InsertPart
<1> QED
  BY <1>6, <1>7, <1>8, <1>9, <1>10, <1>11 DEF SaveStep

\* The commit: the only step that writes to the tables.
LEMMA CommitKeeps ==
    ASSUME AggregateInv, NEW s \in Savers, Commit(s)
    PROVE  AggregateInv'
<1> USE AggregateAssumption
<1>1. /\ tx \in [Savers -> Tx] /\ child \in [Savers -> SUBSET Parts] /\ extractions \subseteq Savers
      /\ tx[s].pc = "commit" /\ tx[s].put /\ tx[s].parts = Parts
      /\ read \in [Readers -> Read]
  BY DEF AggregateInv, AggregateTypeOK, TxInv, Commit, PartsAt, Inserting
<1>2. PICK pc \in {"flip", "requeue"} : tx' = [tx EXCEPT ![s] = [NewTx EXCEPT !.pc = pc]]
  BY DEF Commit, Rollback
<1>3. [NewTx EXCEPT !.pc = pc] \in Tx
  BY <1>2 DEF NewTx, Tx, TxPC
<1>4. /\ tx' \in [Savers -> Tx] /\ tx'[s].pc = pc /\ tx'[s].gone = None /\ ~tx'[s].put /\ tx'[s].parts = {}
      /\ \A t \in Savers \ {s} : tx'[t] = tx[t]
  BY <1>1, <1>2, <1>3 DEF NewTx
<1>5. CASE UNCHANGED Tables /\ pc = "requeue"
  <2>1. TxStep(s) /\ TxInv(s)'
    BY <1>4, <1>5 DEF TxStep, TxInv, PartsAt, Inserting
  <2>2. UNCHANGED <<Tables, read, status>> /\ status \in {"ocr_done", "extracting", "extracted", "failed"}
    BY <1>5 DEF Commit, AggregateInv, AggregateTypeOK
  <2> QED
    BY <1>4, <2>1, <2>2, QuietSave
<1>6. CASE Applied(s)
  <2>1. row \in {None, tx[s].gone} /\ \A t \in Savers \ {s} : ~tx[t].put
    BY <1>1 DEF AggregateInv, LockInv, OneReplacement
  <2>2. \A t \in Savers \ {s} : tx[t].gone = None
    <3> SUFFICES ASSUME NEW t \in Savers \ {s}, tx[t].gone # None PROVE FALSE
      OBVIOUS
    <3>1. row = tx[t].gone /\ row # None
      BY DEF AggregateInv, LockInv
    <3>2. tx[s].gone # None
      BY <2>1, <3>1
    <3> QED
      BY <3>2 DEF AggregateInv, LockInv
  <2>3. LockInv'
    BY <1>4, <2>1, <2>2 DEF LockInv, OneReplacement
  <2>4. row' = s /\ extractions' = extractions \cup {s} /\ s # None
    BY <1>6 DEF Applied
  <2>5. child' = [v \in Savers |-> IF v = s THEN Parts ELSE IF v = tx[s].gone THEN {} ELSE child[v]]
    BY <1>1, <1>6 DEF Applied
  <2>6. StoredIsWhole'
    <3>1. \A v \in Savers \ {s} : v # tx[s].gone => v # row
      BY <2>1
    <3>2. \A v \in Savers \ {s} : child'[v] = {}
      BY <2>5, <3>1 DEF AggregateInv, StoredIsWhole
    <3> QED
      BY <2>4, <2>5, <3>2 DEF StoredIsWhole
  <2>7. \A t \in Savers : TxInv(t)'
    <3>1. TxInv(s)'
      BY <1>2, <1>4, <2>4 DEF TxInv, PartsAt, Inserting
    <3>2. ASSUME NEW t \in Savers \ {s} PROVE TxInv(t)'
      BY <1>4, <2>4 DEF AggregateInv, TxInv
    <3> QED
      BY <3>1, <3>2
  <2>8. AggregateTypeOK'
    BY <1>1, <1>4, <2>4, <2>5 DEF AggregateInv, AggregateTypeOK, Commit
  <2>9. ExtractedIsReadable'
    BY <2>4 DEF AggregateInv, ExtractedIsReadable, Commit
  <2> QED
    BY <2>3, <2>6, <2>7, <2>8, <2>9 DEF AggregateInv
<1>7. Applied(s) \/ (UNCHANGED Tables /\ pc = "requeue")
  <2>1. tx'[s].pc = "flip" => Applied(s)
    BY <1>1 DEF Commit, Rollback, NewTx
  <2> QED
    BY <1>4, <2>1 DEF Commit
<1> QED
  BY <1>5, <1>6, <1>7

\* Requests, the janitor and the end of the attempts leave tables and
\* transactions alone.
LEMMA OtherKeeps ==
    ASSUME AggregateInv, UNCHANGED <<Tables, tx>>,
           status' \in {"ocr_done", "extracting", "extracted", "failed"},
           status' = "extracted" => status = "extracted",
           read' \in [Readers -> Read],
           \A q \in Readers : read'[q].pc = "row" => read[q].pc = "row" \/ status = "extracted"
    PROVE  AggregateInv'
<1>1. row' = row /\ child' = child /\ extractions' = extractions /\ tx' = tx
  BY DEF Tables
<1>2. AggregateTypeOK' /\ StoredIsWhole' /\ (\A s \in Savers : TxInv(s)') /\ LockInv'
  BY <1>1 DEF AggregateInv, AggregateTypeOK, StoredIsWhole, TxInv, LockInv, OneReplacement
<1>3. ExtractedIsReadable'
  BY <1>1 DEF AggregateInv, ExtractedIsReadable
<1> QED
  BY <1>2, <1>3 DEF AggregateInv

\* A reader only moves itself.
LEMMA ReadStepKeeps ==
    ASSUME AggregateInv, NEW q \in Readers,
           RequestByDocument(q) \/ ReadStep(q) \/ \E v \in Savers : RequestById(q, v)
    PROVE  AggregateInv'
<1>1. read \in [Readers -> Read] /\ read[q] \in Read /\ row \in Savers \cup {None}
      /\ status \in {"ocr_done", "extracting", "extracted", "failed"}
  BY DEF AggregateInv, AggregateTypeOK
<1>2. UNCHANGED <<status, Tables, tx>>
  BY DEF RequestByDocument, ReadStep, ReadStatus, ReadRow, LoadPart, Answered, RequestById
<1>3. ASSUME NEW new \in Read, read' = [read EXCEPT ![q] = new], new.pc = "row" => status = "extracted"
      PROVE  AggregateInv'
  <2>1. read' \in [Readers -> Read] /\ \A p \in Readers : read'[p].pc = "row" => read[p].pc = "row" \/ status = "extracted"
    BY <1>1, <1>3
  <2> QED
    BY <1>1, <1>2, <2>1, OtherKeeps
<1>4. ASSUME NEW pc \in {"status", "row", "failed", "not_ready"}, ReadGoto(q, pc), pc = "row" => status = "extracted"
      PROVE  AggregateInv'
  <2>1. [read[q] EXCEPT !.pc = pc] \in Read /\ [read[q] EXCEPT !.pc = pc].pc = pc
    BY <1>1 DEF Read
  <2> QED
    BY <1>3, <1>4, <2>1 DEF ReadGoto
<1>5. CASE RequestByDocument(q)
  BY <1>4, <1>5 DEF RequestByDocument
<1>6. CASE ReadStatus(q)
  <2> DEFINE pc == CASE status = "extracted" -> "row" [] status = "failed" -> "failed"
                     [] status \in {"ocr_done", "extracting"} -> "not_ready"
  <2>1. pc \in {"row", "failed", "not_ready"} /\ (pc = "row" => status = "extracted")
    BY <1>1
  <2>2. ReadGoto(q, pc)
    BY <1>6 DEF ReadStatus
  <2> HIDE DEF pc
  <2> QED
    BY <1>4, <2>1, <2>2
<1>7. CASE ReadRow(q) \/ \E v \in Savers : RequestById(q, v)
  <2>1. PICK v \in Savers \cup {None}, pc \in {"not_found", "atos"} :
            read' = [read EXCEPT ![q].id = v, ![q].pc = pc]
    BY <1>1, <1>7 DEF ReadRow, RequestById
  <2>2. [read[q] EXCEPT !.id = v, !.pc = pc] \in Read /\ [read[q] EXCEPT !.id = v, !.pc = pc].pc # "row"
    BY <1>1, <2>1 DEF Read
  <2> QED
    BY <1>3, <2>1, <2>2
<1>8. ASSUME NEW part \in Parts, LoadPart(q, part) PROVE AggregateInv'
  <2>1. PICK got \in SUBSET Parts, pc \in {"ok", "partes", "proprietarios", "onus"} :
            read' = [read EXCEPT ![q].got = got, ![q].pc = pc]
    <3>1. (IF part = "onus" THEN "ok" ELSE After(part)) \in {"ok", "partes", "proprietarios", "onus"}
      BY DEF After, Parts
    <3>2. (IF part \in child[read[q].id] THEN read[q].got \cup {part} ELSE read[q].got) \in SUBSET Parts
      BY <1>1 DEF Read
    <3> QED
      BY <1>8, <3>1, <3>2 DEF LoadPart
  <2>2. [read[q] EXCEPT !.got = got, !.pc = pc] \in Read /\ [read[q] EXCEPT !.got = got, !.pc = pc].pc # "row"
    BY <1>1, <2>1 DEF Read
  <2> QED
    BY <1>3, <2>1, <2>2
<1>9. CASE Answered(q)
  BY <1>3, <1>9 DEF Answered, NewRead, Read
<1> QED
  BY <1>5, <1>6, <1>7, <1>8, <1>9 DEF ReadStep

\* Every step keeps it.
LEMMA AggregateStep ==
    ASSUME AggregateInv, [AggregateNext]_aggregateVars
    PROVE  AggregateInv'
<1>1. CASE TakeBack \/ FailUsedUp \/ UNCHANGED aggregateVars
  <2>1. /\ UNCHANGED <<Tables, tx>> /\ read' = read
        /\ status' = "extracted" => status = "extracted"
        /\ status' \in {"ocr_done", "failed", status}
    BY <1>1 DEF TakeBack, FailUsedUp, aggregateVars, Tables
  <2>2. read \in [Readers -> Read] /\ status \in {"ocr_done", "extracting", "extracted", "failed"}
    BY DEF AggregateInv, AggregateTypeOK
  <2> QED
    BY <2>1, <2>2, OtherKeeps
<1> QED
  BY <1>1, SaveStepKeeps, CommitKeeps, ReadStepKeeps DEF AggregateNext

\* The inductive invariant of the tables and the transactions.
LEMMA AggregateInvariant == AggregateSpec => []AggregateInv
<1>1. AggregateInit => AggregateInv
  BY AggregateStarts
<1>2. AggregateInv /\ [AggregateNext]_aggregateVars => AggregateInv'
  BY AggregateStep
<1> QED
  BY <1>1, <1>2, PTL DEF AggregateSpec

\* The tables, the transactions and the requests keep their types.
THEOREM AggregateTypes == AggregateSpec => []AggregateTypeOK
<1>1. AggregateInv => AggregateTypeOK
  BY DEF AggregateInv
<1> QED
  BY <1>1, AggregateInvariant, PTL

\* Whatever transactions overlap, fail or lose their answer, the tables hold no
\* aggregate or one whole aggregate (SaveAggregate).
THEOREM StoredIsAlwaysWhole == AggregateSpec => []StoredIsWhole
<1>1. AggregateInv => StoredIsWhole
  BY DEF AggregateInv
<1> QED
  BY <1>1, AggregateInvariant, PTL

\* A request that has seen "extracted" finds the matricula row, whatever late
\* extraction replaces it in between (services/matriculas ByDocument).
THEOREM ExtractedIsAlwaysReadable == AggregateSpec => []ExtractedIsReadable
<1>1. AggregateInv => ExtractedIsReadable
  BY DEF AggregateInv
<1> QED
  BY <1>1, AggregateInvariant, PTL

\* Two saves of one document never both have their row in the table, and one
\* only replaces the row it deleted itself (DELETE and INSERT in SaveAggregate,
\* UNIQUE document_id).
THEOREM ReplacementsAreSerial == AggregateSpec => []OneReplacement
<1>1. AggregateInv => OneReplacement
  BY DEF AggregateInv, LockInv
<1> QED
  BY <1>1, AggregateInvariant, PTL

(***************************************************************************)
(* SaveAggregate as one step.                                              *)
(***************************************************************************)
Rows  == {r \in Savers \X Parts : r[2] \in child[r[1]]}
Stand == [s \in Savers |-> StageOf(tx[s].pc)]

\* The child tables hold the rows of the one whole aggregate and no others.
LEMMA RowsAreWhole ==
    ASSUME AggregateInv
    PROVE  Rows = IF row = None THEN {} ELSE {row} \X Parts
<1>1. /\ row # None => row \in Savers /\ child[row] = Parts
      /\ \A s \in Savers \ {row} : child[s] = {}
  BY DEF AggregateInv, AggregateTypeOK, StoredIsWhole
<1>2. CASE row = None
  BY <1>1, <1>2, AggregateAssumption DEF Rows
<1>3. CASE row # None
  <2>1. ASSUME NEW r \in Savers \X Parts PROVE r \in Rows <=> r[1] = row
    BY <1>1, <1>3, <2>1 DEF Rows
  <2>2. Rows \subseteq Savers \X Parts /\ {row} \X Parts \subseteq Savers \X Parts
    BY <1>1, <1>3 DEF Rows
  <2>3. \A r \in Savers \X Parts : r \in {row} \X Parts <=> r[1] = row
    OBVIOUS
  <2> QED
    BY <1>3, <2>1, <2>2, <2>3
<1> QED
  BY <1>2, <1>3

\* A step of one extraction moves it alone.
LEMMA StandMoves ==
    ASSUME AggregateTypeOK, AggregateTypeOK', NEW s \in Savers, \A t \in Savers \ {s} : tx'[t] = tx[t]
    PROVE  Stand' = [Stand EXCEPT ![s] = StageOf(tx'[s].pc)]
  BY DEF Stand, AggregateTypeOK

\* Every step of an extraction is the one step of AtomicSave, or none.
LEMMA SaveIsAtomic ==
    ASSUME AggregateInv, AggregateInv', NEW s \in Savers, ClaimAttempt(s) \/ SaveStep(s)
    PROVE  (\E v \in Savers : Atomic!SaverStep(v)) \/ UNCHANGED <<status, Rows, extractions, Stand>>
<1> DEFINE Alone == \A t \in Savers \ {s} : tx'[t] = tx[t]
<1>1. tx \in [Savers -> Tx] /\ tx' \in [Savers -> Tx] /\ tx[s] \in Tx /\ Stand[s] = StageOf(tx[s].pc)
  BY DEF AggregateInv, AggregateTypeOK, Stand
<1>2. ASSUME NEW pc, TxGoto(s, pc) PROVE tx'[s].pc = pc /\ Alone
  BY <1>1, <1>2 DEF TxGoto, Tx
<1>3. Rollback(s) => tx'[s].pc = "requeue" /\ Alone
  BY <1>1 DEF Rollback, NewTx
<1>4. Alone => Stand' = [Stand EXCEPT ![s] = StageOf(tx'[s].pc)]
  BY StandMoves DEF AggregateInv
<1>5. ASSUME UNCHANGED Tables PROVE Rows' = Rows /\ extractions' = extractions
  BY <1>5 DEF Tables, Rows
<1>6. ASSUME UNCHANGED <<status, Tables>>, Alone, StageOf(tx'[s].pc) = StageOf(tx[s].pc)
      PROVE  UNCHANGED <<status, Rows, extractions, Stand>>
  <2>1. Stand' = Stand
    BY <1>1, <1>4, <1>6 DEF Stand
  <2> QED
    BY <1>5, <1>6, <2>1
\* A save that fails before its commit is one that replaced nothing.
<1>7. ASSUME UNCHANGED <<status, Tables>>, Rollback(s), StageOf(tx[s].pc) = "save"
      PROVE  Atomic!SaveAggregate(s)
  <2>1. Stand[s] = "save" /\ Stand' = [Stand EXCEPT ![s] = "requeue"]
    BY <1>1, <1>3, <1>4, <1>7 DEF StageOf
  <2> QED
    BY <1>5, <1>7, <2>1 DEF Atomic!SaveAggregate, Atomic!StandsAt, Rows, Stand
<1>8. CASE ClaimAttempt(s)
  <2>1. Stand[s] = "idle" /\ Stand' = [Stand EXCEPT ![s] = "save"]
    BY <1>1, <1>2, <1>4, <1>8 DEF ClaimAttempt, StageOf
  <2>2. Rows' = Rows /\ extractions' = extractions
    BY <1>5, <1>8 DEF ClaimAttempt
  <2>3. Atomic!SClaim(s)
    BY <1>8, <2>1, <2>2 DEF ClaimAttempt, Atomic!SClaim, Atomic!MoveFrom, Atomic!StandsAt, Rows, Stand
  <2> QED
    BY <2>3 DEF Atomic!SaverStep
<1>9. CASE GiveUpAttempt(s)
  <2>1. Stand[s] = "save" /\ Stand' = [Stand EXCEPT ![s] = "done"]
    BY <1>1, <1>2, <1>4, <1>9 DEF GiveUpAttempt, StageOf
  <2>2. Rows' = Rows /\ extractions' = extractions
    BY <1>5, <1>9 DEF GiveUpAttempt
  <2>3. Atomic!SGiveUp(s)
    BY <1>9, <2>1, <2>2 DEF GiveUpAttempt, Atomic!SGiveUp, Atomic!MoveFrom, Atomic!StandsAt, Rows, Stand
  <2> QED
    BY <2>3 DEF Atomic!SaverStep
<1>10. CASE RequeueAttempt(s)
  <2>1. Stand[s] = "requeue" /\ Stand' = [Stand EXCEPT ![s] = "done"]
    BY <1>1, <1>2, <1>4, <1>10 DEF RequeueAttempt, StageOf
  <2>2. Rows' = Rows /\ extractions' = extractions
    BY <1>5, <1>10 DEF RequeueAttempt
  <2>3. Atomic!SRequeue(s)
    BY <1>10, <2>1, <2>2 DEF RequeueAttempt, Atomic!SRequeue, Atomic!MoveFrom, Atomic!StandsAt, Rows, Stand
  <2> QED
    BY <2>3 DEF Atomic!SaverStep
\* What can be flipped is there to be read.
<1>11. CASE Flip(s)
  <2>1. Stand[s] = "flip" /\ \A pc \in {"done", "requeue"} : TxGoto(s, pc) => Stand' = [Stand EXCEPT ![s] = pc]
    BY <1>1, <1>2, <1>4, <1>11 DEF Flip, StageOf
  <2>2. Rows' = Rows /\ extractions' = extractions
    BY <1>5, <1>11 DEF Flip
  <2>3. Rows # {}
    <3>1. row # None /\ row \in Savers \cup {None}
      BY <1>11 DEF AggregateInv, AggregateTypeOK, TxInv, Flip
    <3>2. <<row, "onus">> \in {row} \X Parts
      BY DEF Parts
    <3> QED
      BY <3>1, <3>2, RowsAreWhole
  <2>4. Atomic!SFlip(s)
    BY <1>11, <2>1, <2>2, <2>3 DEF Flip, Atomic!SFlip, Atomic!MoveFrom, Atomic!StandsAt, Rows, Stand
  <2> QED
    BY <2>4 DEF Atomic!SaverStep
\* The statements of the transaction are none of them seen.
<1>12. CASE BeginSave(s) \/ StartDelete(s) \/ FinishDelete(s) \/ InsertRow(s) \/ \E part \in Parts : InsertPart(s, part)
  <2>1. UNCHANGED <<status, Tables>> /\ StageOf(tx[s].pc) = "save"
    BY <1>12 DEF BeginSave, StartDelete, FinishDelete, InsertRow, InsertPart, StageOf, Parts
  <2>2. Rollback(s) \/ (Alone /\ StageOf(tx'[s].pc) = "save")
    <3>1. CASE BeginSave(s)
      BY <1>2, <3>1 DEF BeginSave, StageOf
    <3>2. CASE StartDelete(s)
      BY <1>1, <3>2 DEF StartDelete, StageOf, Tx
    <3>3. CASE FinishDelete(s)
      BY <1>1, <3>3 DEF FinishDelete, StageOf, Tx
    <3>4. CASE InsertRow(s)
      BY <1>1, <3>4 DEF InsertRow, StageOf, Tx
    <3>5. ASSUME NEW part \in Parts, InsertPart(s, part)
          PROVE  Rollback(s) \/ (Alone /\ StageOf(tx'[s].pc) = "save")
      <4>1. StageOf(After(part)) = "save"
        BY DEF After, StageOf, Parts
      <4> QED
        BY <1>1, <3>5, <4>1 DEF InsertPart, Tx
    <3> QED
      BY <1>12, <3>1, <3>2, <3>3, <3>4, <3>5
  <2> QED
    BY <1>6, <1>7, <2>1, <2>2 DEF Atomic!SaverStep
\* The commit is the step.
<1>13. CASE Commit(s)
  <2>1. Stand[s] = "save" /\ UNCHANGED status
    BY <1>1, <1>13 DEF Commit, StageOf
  <2>2. CASE Applied(s)
    <3>1. PICK pc \in {"flip", "requeue"} : tx' = [tx EXCEPT ![s] = [NewTx EXCEPT !.pc = pc]]
      BY <1>13 DEF Commit, Rollback
    <3>2. Stand' = [Stand EXCEPT ![s] = pc]
      BY <1>1, <1>4, <3>1 DEF NewTx, StageOf
    <3>3. Rows' = {s} \X Parts /\ extractions' = extractions \cup {s}
      <4>1. row' = s /\ s # None
        BY <2>2, AggregateAssumption DEF Applied
      <4>2. \A v \in Savers : child'[v] = IF v = s THEN Parts ELSE {}
        BY <4>1 DEF AggregateInv, StoredIsWhole
      <4>3. ASSUME NEW r \in Savers \X Parts PROVE r \in Rows' <=> r[1] = s
        BY <4>2, <4>3 DEF Rows
      <4>4. Rows' \subseteq Savers \X Parts /\ {s} \X Parts \subseteq Savers \X Parts
        BY DEF Rows
      <4>5. \A r \in Savers \X Parts : r \in {s} \X Parts <=> r[1] = s
        OBVIOUS
      <4> QED
        BY <2>2, <4>3, <4>4, <4>5 DEF Applied
    <3>4. Atomic!SaveAggregate(s)
      BY <2>1, <3>1, <3>2, <3>3 DEF Atomic!SaveAggregate, Atomic!Replaced, Atomic!StandsAt, Rows, Stand
    <3> QED
      BY <3>4 DEF Atomic!SaverStep
  <2>3. CASE UNCHANGED Tables /\ Rollback(s)
    BY <1>7, <1>13, <2>1, <2>3 DEF Commit, Atomic!SaverStep, StageOf
  <2> QED
    BY <1>13, <2>2, <2>3 DEF Commit
<1> QED
  BY <1>8, <1>9, <1>10, <1>11, <1>12, <1>13 DEF SaveStep

\* The janitor, the end of the attempts and the requests.
LEMMA OtherIsAtomic ==
    ASSUME AggregateInv, [AggregateNext]_aggregateVars, ~ \E s \in Savers : ClaimAttempt(s) \/ SaveStep(s)
    PROVE  Atomic!STakeBack \/ Atomic!SExhaust \/ UNCHANGED <<status, Rows, extractions, Stand>>
<1>1. UNCHANGED Tables /\ UNCHANGED tx
  BY DEF AggregateNext, aggregateVars, Tables, TakeBack, FailUsedUp, RequestByDocument, ReadStep,
         ReadStatus, ReadRow, LoadPart, Answered, RequestById
<1>2. Rows' = Rows /\ extractions' = extractions /\ Stand' = Stand
  BY <1>1 DEF Tables, Rows, Stand
<1>3. CASE TakeBack
  BY <1>2, <1>3 DEF TakeBack, Atomic!STakeBack, Atomic!MoveFrom, Rows, Stand
<1>4. CASE FailUsedUp
  <2>1. \A s \in Savers : Stand[s] # "idle"
    BY <1>4 DEF FailUsedUp, Stand, StageOf
  <2> QED
    BY <1>2, <1>4, <2>1 DEF FailUsedUp, Atomic!SExhaust, Atomic!MoveFrom, Rows, Stand
<1>5. CASE UNCHANGED status
  BY <1>2, <1>5
<1> QED
  BY <1>3, <1>4, <1>5 DEF AggregateNext, aggregateVars, RequestByDocument, ReadStep,
         ReadStatus, ReadRow, LoadPart, Answered, RequestById

\* Before anything is saved there is nothing to see.
LEMMA AtomicStarts == AggregateInit => Atomic!SInit
  BY DEF AggregateInit, Atomic!SInit, NewTx, StageOf

\* Every behaviour of the statements, overlapping, waiting for each other and
\* failing as they may, is one in which SaveAggregate takes a single step
\* (SaveAggregate, and ExtractDocument around it).
THEOREM SavesImplementAtomic == AggregateSpec => SavesAreAtomic
<1>1. AggregateInv /\ AggregateInv' /\ [AggregateNext]_aggregateVars => [Atomic!SNext]_(Atomic!saveVars)
  <2> SUFFICES ASSUME AggregateInv, AggregateInv', [AggregateNext]_aggregateVars
               PROVE  Atomic!SNext \/ UNCHANGED <<status, Rows, extractions, Stand>>
    BY DEF Atomic!saveVars, Rows, Stand
  <2>1. CASE \E s \in Savers : ClaimAttempt(s) \/ SaveStep(s)
    BY <2>1, SaveIsAtomic DEF Atomic!SNext
  <2>2. CASE ~ \E s \in Savers : ClaimAttempt(s) \/ SaveStep(s)
    BY <2>2, OtherIsAtomic DEF Atomic!SNext
  <2> QED
    BY <2>1, <2>2
<1> QED
  BY <1>1, AtomicStarts, AggregateInvariant, PTL DEF AggregateSpec, SavesAreAtomic, Atomic!SSpec
==============================================================================
