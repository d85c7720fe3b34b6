----------------------------- MODULE ReadApiProofs -----------------------------
(***************************************************************************)
(* What the API tells its clients, for any number of clients, documents,   *)
(* pages and attempts.  The life of a document only goes one way           *)
(* (Progress); every answer lies between what the client was told before   *)
(* and what is stored now (ToldInv), and a request under way keeps what it *)
(* has read in between (UnderWay).                                         *)
(***************************************************************************)
EXTENDS ReadApi, TLAPS

Verdicts == {"extracted", "failed"}
WithText == {"ocr_done", "extracting", "extracted"}
StageSet == {"none", "ingest", "ocr_dispatch", "ocr", "extraction"}

(***************************************************************************)
(* The life of a document.                                                 *)
(***************************************************************************)
LifeTypeOK ==
    /\ status \in [Docs -> Statuses]
    /\ stage \in [Docs -> StageSet]
    /\ attempts \in [Docs -> 0 .. MaxAttempts]
    /\ text \in [Docs -> SUBSET Pages]
    /\ aggregate \in [Docs -> 0 .. MaxAttempts]

LifeInv ==
    /\ LifeTypeOK
    /\ \A d \in Docs :
         /\ aggregate[d] <= attempts[d]
         /\ status[d] \in WithText => text[d] = Pages
         /\ status[d] = "extracted" => aggregate[d] # 0

\* What one step may do to document d.
Progress(d) ==
    /\ Rank(status[d]) <= Rank(status'[d])
    /\ status[d] \in Verdicts => status'[d] = status[d]
    /\ text[d] \subseteq text'[d]
    /\ attempts[d] <= attempts'[d]
    /\ aggregate[d] # 0 => aggregate'[d] # 0

\* Ranks order the statuses, verdicts last.
LEMMA RankType ==
    \A s \in Statuses : /\ Rank(s) \in 0 .. 4
                        /\ Rank(s) = 0 <=> s = "absent"
                        /\ s \in Verdicts <=> Rank(s) = 4
  BY DEF Rank, Statuses, Verdicts

\* A step that does not touch a document takes nothing back.
LEMMA NoChange == ASSUME LifeInv, UNCHANGED lifecycleVars PROVE LifeInv' /\ \A d \in Docs : Progress(d)
<1>1. \A d \in Docs : Rank(status[d]) \in Nat /\ attempts[d] \in Nat
  BY RankType DEF LifeInv, LifeTypeOK
<1> QED
  BY <1>1 DEF lifecycleVars, LifeInv, LifeTypeOK, Progress

\* A step that changes no other document than d.
LEMMA OneDocument ==
    ASSUME LifeInv, LifeTypeOK', NEW d \in Docs, Progress(d),
           \A e \in Docs \ {d} : /\ status'[e] = status[e] /\ text'[e] = text[e]
                                 /\ attempts'[e] = attempts[e] /\ aggregate'[e] = aggregate[e],
           aggregate'[d] <= attempts'[d],
           status'[d] \in WithText => text'[d] = Pages,
           status'[d] = "extracted" => aggregate'[d] # 0
    PROVE  LifeInv' /\ \A e \in Docs : Progress(e)
<1>1. \A e \in Docs : Rank(status[e]) \in Nat /\ attempts[e] \in Nat
  BY RankType DEF LifeInv, LifeTypeOK
<1>2. \A e \in Docs \ {d} : Progress(e)
  BY <1>1 DEF Progress
<1> QED
  BY <1>2 DEF LifeInv

\* The life of a document only goes forward.
LEMMA LifeStep ==
    ASSUME LifeInv, [LNext]_lifecycleVars
    PROVE  LifeInv' /\ \A d \in Docs : Progress(d)
<1> USE AttemptsAssumption
<1>0. /\ LifeTypeOK
      /\ \A d \in Docs : /\ status[d] \in Statuses /\ stage[d] \in StageSet /\ text[d] \subseteq Pages
                         /\ attempts[d] \in 0 .. MaxAttempts /\ aggregate[d] \in 0 .. MaxAttempts
                         /\ aggregate[d] <= attempts[d]
                         /\ status[d] \in WithText => text[d] = Pages
                         /\ status[d] = "extracted" => aggregate[d] # 0
  BY DEF LifeInv, LifeTypeOK
<1>1. ASSUME NEW d \in Docs, Create(d) \/ StartIngest(d) \/ FailBeforeText(d) \/ Retry(d) \/ FailExtraction(d)
      PROVE  LifeInv' /\ \A e \in Docs : Progress(e)
  <2>1. LifeTypeOK'
    BY <1>0, <1>1 DEF Create, StartIngest, FailBeforeText, Retry, FailExtraction, Move, LifeTypeOK, Statuses, StageSet
  <2>2. /\ \/ status[d] = "absent" /\ status'[d] = "uploaded"
           \/ status[d] = "uploaded" /\ status'[d] = "processing"
           \/ status[d] = "processing" /\ status'[d] = "failed"
           \/ status[d] = "extracting" /\ status'[d] \in {"ocr_done", "failed"}
        /\ \A e \in Docs \ {d} : status'[e] = status[e]
        /\ UNCHANGED <<attempts, text, aggregate>>
    BY <1>0, <1>1 DEF Create, StartIngest, FailBeforeText, Retry, FailExtraction, Move, LifeTypeOK
  <2>3. Progress(d)
    BY <1>0, <2>2 DEF Progress, Rank, Verdicts
  <2> QED
    BY <1>0, <2>1, <2>2, <2>3, OneDocument DEF WithText
<1>2. ASSUME NEW d \in Docs, StoreText(d) PROVE LifeInv' /\ \A e \in Docs : Progress(e)
  <2>1. PICK p \in Pages : text' = [text EXCEPT ![d] = @ \cup {p}]
    BY <1>2 DEF StoreText
  <2>2. LifeTypeOK' /\ UNCHANGED <<status, attempts, aggregate>> /\ status[d] \in {"processing", "failed"}
    BY <1>0, <1>2, <2>1 DEF StoreText, LifeTypeOK
  <2>3. Progress(d)
    BY <1>0, <2>1, <2>2, RankType DEF Progress, LifeTypeOK
  <2> QED
    BY <1>0, <2>1, <2>2, <2>3, OneDocument DEF WithText, LifeTypeOK
<1>3. ASSUME NEW d \in Docs, OCRDone(d) \/ ClaimDoc(d) \/ Extract(d)
      PROVE  LifeInv' /\ \A e \in Docs : Progress(e)
  <2>1. LifeTypeOK'
    BY <1>0, <1>3 DEF OCRDone, ClaimDoc, Extract, Move, LifeTypeOK, Statuses
  <2>2. /\ \/ status[d] = "processing" /\ status'[d] = "ocr_done" /\ text[d] = Pages
           \/ status[d] = "ocr_done" /\ status'[d] = "extracting"
           \/ status[d] = "extracting" /\ status'[d] = "extracted" /\ aggregate[d] # 0
        /\ attempts'[d] \in {attempts[d], attempts[d] + 1}
        /\ \A e \in Docs \ {d} : status'[e] = status[e] /\ attempts'[e] = attempts[e]
        /\ UNCHANGED <<text, aggregate>>
    BY <1>0, <1>3 DEF OCRDone, ClaimDoc, Extract, Move, LifeTypeOK
  <2>3. Progress(d)
    BY <1>0, <2>2 DEF Progress, Rank, Verdicts
  <2> QED
    BY <1>0, <2>1, <2>2, <2>3, OneDocument DEF WithText
<1>4. ASSUME NEW d \in Docs, Save(d) PROVE LifeInv' /\ \A e \in Docs : Progress(e)
  <2>1. PICK n \in 1 .. attempts[d] : aggregate' = [aggregate EXCEPT ![d] = n]
    BY <1>4 DEF Save
  <2>2. LifeTypeOK' /\ UNCHANGED <<status, attempts, text>>
    BY <1>0, <1>4, <2>1 DEF Save, LifeTypeOK
  <2>3. Progress(d) /\ aggregate'[d] = n
    BY <1>0, <2>1, <2>2, RankType DEF Progress, LifeTypeOK
  <2> QED
    BY <1>0, <2>1, <2>2, <2>3, OneDocument DEF LifeTypeOK
<1>5. ASSUME ExhaustAll PROVE LifeInv' /\ \A e \in Docs : Progress(e)
  <2>1. LifeTypeOK' /\ UNCHANGED <<attempts, text, aggregate>>
    BY <1>0, <1>5 DEF ExhaustAll, LifeTypeOK, Statuses, StageSet
  <2>2. \A e \in Docs : status'[e] = status[e] \/ (status[e] = "ocr_done" /\ status'[e] = "failed")
    BY <1>0, <1>5 DEF ExhaustAll
  <2>3. ASSUME NEW e \in Docs PROVE Progress(e)
    <3>1. CASE status'[e] = status[e]
      <4>1. Rank(status[e]) \in Nat
        BY <1>0, RankType
      <4> QED
        BY <1>0, <2>1, <3>1, <4>1 DEF Progress
    <3>2. CASE status[e] = "ocr_done" /\ status'[e] = "failed"
      BY <1>0, <2>1, <3>2 DEF Progress, Rank, Verdicts
    <3> QED
      BY <2>2, <3>1, <3>2
  <2> QED
    BY <1>0, <2>1, <2>2, <2>3 DEF LifeInv, WithText
<1> QED
  BY <1>1, <1>2, <1>3, <1>4, <1>5, NoChange DEF LNext

(***************************************************************************)
(* What the clients know and are being told.                               *)
(***************************************************************************)

\* s was read after the answer t, and before the status became now.
Between(t, s, now) ==
    /\ s # "absent"
    /\ Rank(t) <= Rank(s) /\ Rank(s) <= Rank(now)
    /\ t \in Verdicts => s = t
    /\ s \in Verdicts => now = s

ToldInv(c, d) ==
    /\ Rank(told[c][d].status) <= Rank(status[d])
    /\ told[c][d].status \in Verdicts => status[d] = told[c][d].status
    /\ told[c][d].text \subseteq text[d]
    /\ told[c][d].id # 0 => status[d] = "extracted" /\ told[c][d].id <= attempts[d]

\* A request between its first read and its second.
Waits(c) ==
    LET a == req[c] IN
    /\ a.doc \in Docs
    /\ \/ a.route = "upload" /\ told[c][a.doc].status = "absent" /\ status[a.doc] # "absent"
       \/ /\ a.route \in {"ocr", "matricula"}
          /\ Between(told[c][a.doc].status, a.seen, status[a.doc])
          /\ a.seen \in WithText => text[a.doc] = Pages
          /\ a.route = "matricula" => a.seen = "extracted"

UnderWay(c) ==
    LET a == req[c] IN
    /\ a.pc # "idle" /\ a.route # "upload" => a.doc \in Docs
    /\ a.pc \in {"first", "second"} => a.code = "ok"
    /\ a.pc = "second" => Waits(c)
    /\ a.pc = "first" /\ a.route = "byId" =>
         a.id # 0 /\ a.id <= attempts[a.doc] /\ aggregate[a.doc] # 0

GoodAnswer(c) ==
    LET a == req[c] IN
    a.pc = "answered" =>
      /\ a.route = "ocr" /\ a.code = "ok" /\ a.seen \in WithText => a.text = Pages
      /\ a.route \in {"status", "ocr", "matricula"} /\ a.code = "not_found" =>
           told[c][a.doc].status = "absent"
      /\ a.route = "matricula" /\ a.code \in {"not_ready", "failed", "not_found"} =>
           told[c][a.doc].id = 0
      /\ a.route = "byId" /\ a.code = "not_found" => attempts[a.doc] > 1

ClientInv(c) == (\A d \in Docs : ToldInv(c, d)) /\ UnderWay(c) /\ GoodAnswer(c)

ApiInv == LifeInv /\ ApiTypeOK /\ \A c \in Clients : ClientInv(c)

Advance(c, d) ==
    /\ Rank(told[c][d].status) <= Rank(told'[c][d].status)
    /\ told[c][d].status \in Verdicts => told'[c][d].status = told[c][d].status
    /\ told[c][d].text \subseteq told'[c][d].text

\* The ranks of all statuses in play.
LEMMA Ranks ==
    ASSUME ApiInv
    PROVE  /\ \A d \in Docs : Rank(status[d]) \in Nat /\ (status[d] = "absent" <=> Rank(status[d]) = 0)
           /\ \A c \in Clients, d \in Docs :
                 /\ told[c][d].status \in Statuses /\ Rank(told[c][d].status) \in Nat
                 /\ told[c][d].status = "absent" <=> Rank(told[c][d].status) = 0
           /\ \A c \in Clients : Rank(req[c].seen) \in Nat
<1>1. /\ \A d \in Docs : status[d] \in Statuses
      /\ \A c \in Clients, d \in Docs : told[c][d].status \in Statuses
      /\ \A c \in Clients : req[c].seen \in Statuses
  BY DEF ApiInv, LifeInv, LifeTypeOK, ApiTypeOK, Request
<1> QED
  BY <1>1, RankType

\* The numbers in play.
LEMMA Types ==
    ASSUME ApiInv
    PROVE  /\ \A d \in Docs : attempts[d] \in Nat
           /\ \A c \in Clients, d \in Docs : told[c][d].id \in Nat
           /\ \A c \in Clients : req[c].id \in Nat
<1>1. \A n \in 0 .. MaxAttempts : n \in Nat
  BY AttemptsAssumption
<1>2. \A c \in Clients, d \in Docs : told[c][d].id \in 0 .. MaxAttempts
  BY DEF ApiInv, ApiTypeOK
<1>3. \A c \in Clients : req[c].id \in 0 .. MaxAttempts
  BY DEF ApiInv, ApiTypeOK, Request
<1> QED
  BY <1>1, <1>2, <1>3 DEF ApiInv, LifeInv, LifeTypeOK

\* The types of the documents after a step.
LEMMA NextTypes ==
    ASSUME LifeInv'
    PROVE  \A d \in Docs : /\ attempts'[d] \in Nat /\ text'[d] \subseteq Pages
                           /\ status'[d] \in Statuses /\ Rank(status'[d]) \in Nat
                           /\ status'[d] = "absent" <=> Rank(status'[d]) = 0
<1>1. \A d \in Docs : attempts'[d] \in 0 .. MaxAttempts /\ status'[d] \in Statuses /\ text'[d] \subseteq Pages
  BY DEF LifeInv, LifeTypeOK
<1>2. \A n \in 0 .. MaxAttempts : n \in Nat
  BY AttemptsAssumption
<1>3. \A d \in Docs : /\ Rank(status'[d]) \in 0 .. 4
                      /\ status'[d] = "absent" <=> Rank(status'[d]) = 0
  BY <1>1, RankType
<1> QED
  BY <1>1, <1>2, <1>3

\* A client whose request does not move.
LEMMA ClientKept ==
    ASSUME ApiInv, LifeInv', \A d \in Docs : Progress(d), NEW c \in Clients,
           req'[c] = req[c], told'[c] = told[c]
    PROVE  ClientInv(c)' /\ \A d \in Docs : Advance(c, d)
<1>1. /\ \A d \in Docs : attempts[d] \in Nat /\ attempts'[d] \in Nat /\ status'[d] \in Statuses
                         /\ Rank(status'[d]) \in Nat /\ text'[d] \subseteq Pages
      /\ \A d \in Docs : told[c][d].id \in Nat
      /\ req[c].id \in Nat
  BY Types, NextTypes
<1>2. \A d \in Docs : ToldInv(c, d)'
  BY <1>1, Ranks DEF ApiInv, ClientInv, ToldInv, Progress, Verdicts
<1>3. Waits(c) => Waits(c)'
  <2> SUFFICES ASSUME Waits(c) PROVE Waits(c)'
    OBVIOUS
  <2>1. PICK d \in Docs : d = req[c].doc
    BY DEF Waits
  <2>2. Progress(d) /\ (status[d] # "absent" => status'[d] # "absent")
    BY <1>1, Ranks, RankType DEF Progress
  <2>3. Between(told[c][d].status, req[c].seen, status[d]) => Between(told[c][d].status, req[c].seen, status'[d])
    BY <1>1, <2>1, <2>2, Ranks DEF Between, Progress
  <2>4. text[d] = Pages => text'[d] = Pages
    BY <1>1, <2>2 DEF Progress
  <2> QED
    BY <2>1, <2>2, <2>3, <2>4 DEF Waits
<1>4. UnderWay(c)'
  <2>1. UnderWay(c)
    BY DEF ApiInv, ClientInv
  <2> QED
    BY <1>1, <1>3, <2>1 DEF UnderWay, Progress
<1>5. GoodAnswer(c)'
  <2>1. UnderWay(c) /\ GoodAnswer(c)
    BY DEF ApiInv, ClientInv
  <2> QED
    BY <1>1, <2>1 DEF UnderWay, GoodAnswer, Progress
<1>6. \A d \in Docs : Advance(c, d)
  BY Ranks DEF Advance
<1> QED
  BY <1>2, <1>4, <1>5, <1>6 DEF ClientInv

\* What answer a has to satisfy, against what c knows and what is stored when
\* it is sent.
Fits(c, a) ==
    /\ a.route # "upload" => a.doc \in Docs
    /\ a.code \in {"ok", "not_ready", "failed"} /\ a.route # "byId" =>
         a.doc \in Docs /\ status'[a.doc] # "absent"
    /\ NamesStatus(a) /\ a.route # "byId" => Between(told[c][a.doc].status, a.seen, status'[a.doc])
    /\ a.route = "ocr" /\ a.code = "ok" =>
         /\ told[c][a.doc].text \subseteq a.text /\ a.text \subseteq text'[a.doc]
         /\ a.seen \in WithText => a.text = Pages
    /\ a.route = "matricula" /\ a.code = "ok" =>
         status'[a.doc] = "extracted" /\ a.id <= attempts'[a.doc]
    /\ a.route \in {"status", "ocr", "matricula"} /\ a.code = "not_found" => told[c][a.doc].status = "absent"
    /\ a.route = "matricula" /\ a.code \in {"not_ready", "failed", "not_found"} => told[c][a.doc].id = 0
    /\ a.route = "byId" /\ a.code = "not_found" => attempts'[a.doc] > 1

\* An answer that fits keeps the invariant, and adds to what the client knows.
LEMMA AnswerOutcome ==
    ASSUME ApiInv, LifeInv', \A d \in Docs : Progress(d),
           NEW c \in Clients, NEW a \in Request, Answer(c, a), Fits(c, a)
    PROVE  /\ ApiTypeOK' /\ ClientInv(c)' /\ \A d \in Docs : Advance(c, d)
           /\ \A b \in Clients \ {c} : req'[b] = req[b] /\ told'[b] = told[b]
<1>1. /\ req \in [Clients -> Request]
      /\ told \in [Clients -> [Docs -> [status: Statuses, text: SUBSET Pages, id: 0 .. MaxAttempts]]]
  BY DEF ApiInv, ApiTypeOK
<1>2. /\ req' = [req EXCEPT ![c] = [a EXCEPT !.pc = "answered"]]
      /\ [a EXCEPT !.pc = "answered"] \in Request
  BY DEF Answer, Request
<1>3. PICK a1 \in Request : /\ a1 = req'[c] /\ a1.pc = "answered" /\ a1.route = a.route /\ a1.doc = a.doc
                            /\ a1.seen = a.seen /\ a1.code = a.code /\ a1.text = a.text /\ a1.id = a.id
  BY <1>1, <1>2 DEF Request
<1>4. \A d \in Docs : ToldInv(c, d)
  BY DEF ApiInv, ClientInv
<1>5. CASE a.code \notin {"ok", "not_ready", "failed"} \/ a.route = "byId"
  <2>1. told' = told
    BY <1>5 DEF Answer, Learn
  <2>2. (\A d \in Docs : ToldInv(c, d)') /\ \A d \in Docs : Advance(c, d)
    <3>1. \A d \in Docs : /\ attempts[d] \in Nat /\ attempts'[d] \in Nat /\ Rank(status'[d]) \in Nat
                          /\ told[c][d].id \in Nat
      BY Types, NextTypes
    <3> QED
      BY <1>4, <2>1, <3>1, Ranks DEF ToldInv, Progress, Verdicts, Advance
  <2>3. UnderWay(c)' /\ GoodAnswer(c)'
    BY <1>3, <1>5, <2>1 DEF UnderWay, GoodAnswer, Fits
  <2>4. ApiTypeOK'
    BY <1>1, <1>2, <2>1 DEF ApiTypeOK
  <2> QED
    BY <1>1, <1>2, <2>1, <2>2, <2>3, <2>4 DEF ClientInv
<1>6. CASE a.code \in {"ok", "not_ready", "failed"} /\ a.route # "byId"
  <2>1. PICK d \in Docs : d = a.doc
    BY <1>6 DEF Fits
  <2> DEFINE t   == told[c][d]
             new == [status |-> IF NamesStatus(a) THEN a.seen
                                ELSE IF t.status = "absent" THEN "uploaded" ELSE t.status,
                     text   |-> IF a.code = "ok" /\ a.route = "ocr" THEN a.text ELSE t.text,
                     id     |-> IF a.code = "ok" /\ a.route = "matricula" THEN a.id ELSE t.id]
  <2>2. t \in [status: Statuses, text: SUBSET Pages, id: 0 .. MaxAttempts]
    BY <1>1
  <2>3. new \in [status: Statuses, text: SUBSET Pages, id: 0 .. MaxAttempts]
    <3>1. (IF NamesStatus(a) THEN a.seen ELSE IF t.status = "absent" THEN "uploaded" ELSE t.status) \in Statuses
      BY <2>2 DEF Request, Statuses
    <3>2. (IF a.code = "ok" /\ a.route = "ocr" THEN a.text ELSE t.text) \in SUBSET Pages
      BY <2>2 DEF Request
    <3>3. (IF a.code = "ok" /\ a.route = "matricula" THEN a.id ELSE t.id) \in 0 .. MaxAttempts
      BY <2>2 DEF Request
    <3> QED
      BY <3>1, <3>2, <3>3
  <2>4. told' = [told EXCEPT ![c][d] = new]
    BY <1>6, <2>1 DEF Answer, Learn
  <2>5. /\ told'[c][d] = new /\ (\A e \in Docs \ {d} : told'[c][e] = told[c][e])
        /\ \A b \in Clients \ {c} : told'[b] = told[b]
    BY <1>1, <2>4
  <2>6. ApiTypeOK'
    BY <1>1, <1>2, <2>3, <2>4 DEF ApiTypeOK
  <2>7. /\ attempts'[d] \in Nat /\ attempts[d] \in Nat /\ Rank(status'[d]) \in Nat /\ Rank(status[d]) \in Nat
        /\ t.id \in Nat /\ a.id \in Nat /\ Rank(t.status) \in Nat /\ Rank(a.seen) \in Nat
        /\ status'[d] # "absent" => Rank(status'[d]) > 0
    BY <2>2, RankType, AttemptsAssumption DEF LifeInv, LifeTypeOK, ApiInv, Request
  <2>8. ToldInv(c, d) /\ Progress(d) /\ status'[d] # "absent"
    BY <1>4, <1>6, <2>1 DEF Fits
  <2>9. /\ Rank(t.status) <= Rank(new.status) /\ Rank(new.status) <= Rank(status'[d])
        /\ t.status \in Verdicts => new.status = t.status
        /\ new.status \in Verdicts => status'[d] = new.status
    <3>1. CASE NamesStatus(a)
      BY <1>6, <2>1, <3>1 DEF Fits, Between
    <3>2. CASE ~NamesStatus(a) /\ t.status # "absent"
      BY <2>7, <2>8, <3>2 DEF ToldInv, Progress, Verdicts
    <3>3. CASE ~NamesStatus(a) /\ t.status = "absent"
      <4>1. Rank("uploaded") = 1 /\ Rank("absent") = 0
        BY DEF Rank
      <4> QED
        BY <2>7, <2>8, <3>3, <4>1 DEF Verdicts
    <3> QED
      BY <3>1, <3>2, <3>3
  <2>10. t.text \subseteq new.text /\ new.text \subseteq text'[d]
    BY <1>6, <2>1, <2>8 DEF Fits, ToldInv, Progress
  <2>11. new.id # 0 => status'[d] = "extracted" /\ new.id <= attempts'[d]
    BY <1>6, <2>1, <2>7, <2>8 DEF Fits, ToldInv, Progress, Verdicts
  <2>12. ToldInv(c, d)' /\ Advance(c, d)
    BY <2>5, <2>9, <2>10, <2>11 DEF ToldInv, Advance
  <2>13. ASSUME NEW e \in Docs \ {d} PROVE ToldInv(c, e)' /\ Advance(c, e)
    <3>1. /\ attempts[e] \in Nat /\ attempts'[e] \in Nat /\ Rank(status'[e]) \in Nat /\ told[c][e].id \in Nat
      BY Types, NextTypes
    <3> QED
      BY <1>4, <2>5, <3>1, Ranks DEF ToldInv, Progress, Verdicts, Advance
  <2>14. UnderWay(c)'
    BY <1>3 DEF UnderWay, Fits
  <2>15. GoodAnswer(c)'
    <3>1. a.route = "matricula" /\ a.code \in {"not_ready", "failed", "not_found"} => new.id = 0
      BY <2>1 DEF Fits
    <3> QED
      BY <1>3, <1>6, <2>1, <2>5, <3>1 DEF GoodAnswer, Fits
  <2> QED
    BY <1>1, <1>2, <2>5, <2>6, <2>12, <2>13, <2>14, <2>15 DEF ClientInv
<1> QED
  BY <1>5, <1>6

\* What a step of client c's request keeps.
ClientStep(c) ==
    /\ ApiTypeOK' /\ ClientInv(c)' /\ \A d \in Docs : Advance(c, d)
    /\ \A b \in Clients \ {c} : req'[b] = req[b] /\ told'[b] = told[b]

\* A request that goes on without telling its client anything.
LEMMA Onward ==
    ASSUME ApiInv, LifeInv', \A d \in Docs : Progress(d),
           NEW c \in Clients, NEW a \in Request, a.pc \in {"first", "second"},
           req' = [req EXCEPT ![c] = a], told' = told, UnderWay(c)'
    PROVE  ClientStep(c)
<1>1. ApiTypeOK' /\ req'[c] = a
  BY DEF ApiInv, ApiTypeOK
<1>2. (\A d \in Docs : ToldInv(c, d)') /\ \A d \in Docs : Advance(c, d)
  BY Types, NextTypes, Ranks DEF ApiInv, ClientInv, ToldInv, Progress, Verdicts, Advance
<1>3. GoodAnswer(c)'
  BY <1>1 DEF GoodAnswer
<1> QED
  BY <1>1, <1>2, <1>3 DEF ClientStep, ClientInv

\* What is known of a request when one of its statements runs.
LEMMA Before ==
    ASSUME ApiInv, NEW c \in Clients
    PROVE  /\ req[c] \in Request
           /\ UnderWay(c) /\ \A d \in Docs : ToldInv(c, d)
           /\ \A d \in Docs : /\ status[d] \in Statuses /\ stage[d] \in StageSet /\ text[d] \subseteq Pages
                              /\ aggregate[d] \in 0 .. MaxAttempts /\ aggregate[d] <= attempts[d]
                              /\ status[d] \in WithText => text[d] = Pages
                              /\ status[d] = "extracted" => aggregate[d] # 0
  BY DEF ApiInv, ApiTypeOK, ClientInv, LifeInv, LifeTypeOK

\* A new request knows only what its client was told.
LEMMA AskKept ==
    ASSUME ApiInv, NEW c \in Clients, NEW route \in Routes, NEW d \in Docs, Ask(c, route, d)
    PROVE  ClientStep(c) /\ UNCHANGED lifecycleVars
<1> DEFINE a == [Idle EXCEPT !.pc = "first", !.route = route,
                   !.doc = IF route = "upload" THEN NoDoc ELSE d,
                   !.id = IF route = "byId" THEN told[c][d].id ELSE 0]
<1>1. /\ a \in Request /\ a.pc = "first" /\ a.route = route /\ a.code = "ok"
      /\ a.doc = IF route = "upload" THEN NoDoc ELSE d
      /\ a.id = IF route = "byId" THEN told[c][d].id ELSE 0
  <2>1. Idle \in Request /\ Idle.code = "ok"
    BY AttemptsAssumption DEF Idle, Request, Routes, Statuses, Codes
  <2>2. (IF route = "byId" THEN told[c][d].id ELSE 0) \in 0 .. MaxAttempts
    BY AttemptsAssumption DEF ApiInv, ApiTypeOK
  <2>3. (IF route = "upload" THEN NoDoc ELSE d) \in Docs \cup {NoDoc}
    OBVIOUS
  <2> QED
    BY <2>1, <2>2, <2>3 DEF Request
<1>2. /\ req' = [req EXCEPT ![c] = a] /\ told' = told /\ UNCHANGED lifecycleVars
      /\ route = "byId" => told[c][d].id # 0
  BY DEF Ask
<1>3. req'[c] = a
  BY <1>2 DEF ApiInv, ApiTypeOK
<1>4. route = "byId" => /\ told[c][d].id <= attempts[d]
                        /\ aggregate[d] # 0
  BY <1>2, Before DEF ToldInv
<1>5. UnderWay(c)'
  BY <1>1, <1>2, <1>3, <1>4 DEF UnderWay, lifecycleVars
<1>6. LifeInv' /\ \A e \in Docs : Progress(e)
  BY <1>2, NoChange DEF ApiInv
<1> HIDE DEF a
<1> QED
  BY <1>1, <1>2, <1>5, <1>6, Onward

\* A step of a request that answers.
LEMMA Answers ==
    ASSUME ApiInv, NEW c \in Clients, NEW a \in Request, Answer(c, a), [LNext]_lifecycleVars, Fits(c, a)
    PROVE  ClientStep(c)
<1>1. LifeInv' /\ \A d \in Docs : Progress(d)
  BY LifeStep DEF ApiInv
<1> QED
  BY <1>1, AnswerOutcome DEF ClientStep

\* A refusal or an internal error tells nothing.
LEMMA RefusalKept ==
    ASSUME ApiInv, NEW c \in Clients, NEW code \in {"bad_request", "internal"}, req[c].pc \in {"first", "second"},
           Answer(c, [req[c] EXCEPT !.code = code]), [LNext]_lifecycleVars
    PROVE  ClientStep(c)
<1> DEFINE a == [req[c] EXCEPT !.code = code]
<1>1. a \in Request /\ a.code = code /\ a.route = req[c].route /\ a.doc = req[c].doc
  BY Before DEF Request, Codes
<1>2. Fits(c, a)
  BY <1>1, Before DEF Fits, NamesStatus, UnderWay
<1> HIDE DEF a
<1> QED
  BY <1>1, <1>2, Answers DEF a

\* An upload inserts a document that no client has heard of.
LEMMA InsertKept ==
    ASSUME ApiInv, NEW c \in Clients, InsertRow(c)
    PROVE  ClientStep(c) /\ [LNext]_lifecycleVars
<1>1. PICK d \in Docs : Create(d) /\ req' = [req EXCEPT ![c].pc = "second", ![c].doc = d]
  BY DEF InsertRow
<1> DEFINE a == [req[c] EXCEPT !.pc = "second", !.doc = d]
<1>2. /\ a \in Request /\ a.pc = "second" /\ a.doc = d /\ a.route = "upload" /\ a.code = "ok"
  BY Before DEF InsertRow, Request, UnderWay
<1>3. req' = [req EXCEPT ![c] = a] /\ told' = told
  BY <1>1 DEF InsertRow, ApiInv, ApiTypeOK
<1>4. req'[c] = a
  BY <1>3 DEF ApiInv, ApiTypeOK
<1>5. status[d] = "absent" /\ status'[d] = "uploaded"
  BY <1>1 DEF Create, Move, ApiInv, LifeInv, LifeTypeOK
<1>6. told[c][d].status = "absent"
  BY <1>5, Before, Ranks DEF ToldInv
<1>7. UnderWay(c)'
  BY <1>2, <1>3, <1>4, <1>5, <1>6 DEF UnderWay, Waits
<1>8. [LNext]_lifecycleVars
  BY <1>1 DEF LNext
<1>9. LifeInv' /\ \A e \in Docs : Progress(e)
  BY <1>8, LifeStep DEF ApiInv
<1> HIDE DEF a
<1> QED
  BY <1>2, <1>3, <1>7, <1>8, <1>9, Onward

\* The answer of an upload is the first its client hears of the document.
LEMMA AcceptedKept == ASSUME ApiInv, NEW c \in Clients, Accepted(c) PROVE ClientStep(c)
<1> DEFINE a == [req[c] EXCEPT !.seen = "uploaded"]
<1>1. /\ a \in Request /\ a.doc = req[c].doc /\ a.route = "upload" /\ a.code = "ok" /\ a.seen = "uploaded"
      /\ Waits(c) /\ a.doc \in Docs /\ UNCHANGED lifecycleVars
  BY Before DEF Accepted, Request, Statuses, UnderWay, Waits
<1>2. told[c][a.doc].status = "absent" /\ status'[a.doc] = status[a.doc] /\ status[a.doc] # "absent"
  BY <1>1 DEF Waits, lifecycleVars
<1>3. Rank("absent") = 0 /\ Rank("uploaded") = 1
  BY DEF Rank
<1>4. Between(told[c][a.doc].status, a.seen, status'[a.doc])
  BY <1>1, <1>2, <1>3, Ranks DEF Between, Verdicts
<1>5. Fits(c, a)
  BY <1>1, <1>2, <1>4 DEF Fits
<1> QED
  BY <1>1, <1>5, Answers DEF Accepted

\* The first read answers, or is kept for the second.
LEMMA ReadRowKept == ASSUME ApiInv, NEW c \in Clients, ReadRow(c) PROVE ClientStep(c)
<1>1. PICK d \in Docs : d = req[c].doc
  BY Before DEF ReadRow, UnderWay
<1> DEFINE row == [req[c] EXCEPT !.seen = status[d], !.stage = stage[d]]
<1>2. /\ row \in Request /\ row.pc = "first" /\ row.doc = d /\ row.route = req[c].route
      /\ row.route \in {"status", "ocr", "matricula"} /\ row.seen = status[d] /\ row.code = "ok"
  <2>1. status[d] \in Statuses /\ stage[d] \in {"none", "ingest", "ocr_dispatch", "ocr", "extraction"}
    BY Before DEF StageSet
  <2>2. req[c] \in Request /\ req[c].pc = "first" /\ req[c].code = "ok" /\ req[c].route \in {"status", "ocr", "matricula"}
    BY Before DEF ReadRow, UnderWay
  <2> QED
    BY <1>1, <2>1, <2>2 DEF Request
<1>3. UNCHANGED lifecycleVars /\ LifeInv' /\ \A e \in Docs : Progress(e)
  BY NoChange DEF ReadRow, ApiInv
<1>4. status'[d] = status[d] /\ text'[d] = text[d] /\ attempts'[d] = attempts[d]
  BY <1>3 DEF lifecycleVars
<1>5. status[d] # "absent" => Between(told[c][d].status, status[d], status[d])
  BY Before, Ranks DEF Between, ToldInv
<1>6. told[c][d].id # 0 => status[d] = "extracted"
  BY Before DEF ToldInv
<1>7. CASE status[d] = "absent" /\ Answer(c, [row EXCEPT !.code = "not_found"])
  <2> DEFINE a == [row EXCEPT !.code = "not_found"]
  <2>1. /\ a \in Request /\ a.code = "not_found" /\ a.doc = d /\ a.route = row.route
    BY <1>2 DEF Request, Codes
  <2>2. told[c][d].status = "absent" /\ told[c][d].id = 0
    BY <1>6, <1>7, Before, Ranks DEF ToldInv
  <2>3. Fits(c, a)
    BY <1>2, <2>1, <2>2 DEF Fits, NamesStatus
  <2> HIDE DEF a
  <2> QED
    BY <1>3, <1>7, <2>1, <2>3, Answers DEF a
<1>8. CASE status[d] # "absent" /\ row.route = "status" /\ Answer(c, row)
  <2>1. Fits(c, row)
    BY <1>2, <1>4, <1>5, <1>8 DEF Fits
  <2> HIDE DEF row
  <2> QED
    BY <1>2, <1>3, <1>8, <2>1, Answers
<1>9. ASSUME NEW code \in {"failed", "not_ready"}, row.route = "matricula", status[d] \notin {"absent", "extracted"},
             Answer(c, [row EXCEPT !.code = code])
      PROVE  ClientStep(c)
  <2> DEFINE a == [row EXCEPT !.code = code]
  <2>1. /\ a \in Request /\ a.code = code /\ a.doc = d /\ a.route = "matricula" /\ a.seen = status[d]
    BY <1>2, <1>9 DEF Request, Codes
  <2>2. Fits(c, a)
    BY <1>4, <1>5, <1>6, <1>9, <2>1 DEF Fits
  <2> HIDE DEF a
  <2> QED
    BY <1>3, <1>9, <2>1, <2>2, Answers DEF a
<1>10. CASE /\ \/ status[d] # "absent" /\ row.route = "ocr"
               \/ status[d] = "extracted" /\ row.route = "matricula"
            /\ req' = [req EXCEPT ![c] = [row EXCEPT !.pc = "second"]] /\ told' = told
  <2> DEFINE a == [row EXCEPT !.pc = "second"]
  <2>1. /\ a \in Request /\ a.pc = "second" /\ a.code = "ok" /\ a.doc = d /\ a.route = row.route /\ a.seen = status[d]
    BY <1>2 DEF Request
  <2>2. req'[c] = a
    BY <1>10 DEF ApiInv, ApiTypeOK
  <2>3. status[d] \in WithText => text[d] = Pages
    BY Before
  <2>4. Waits(c)'
    BY <1>4, <1>5, <1>10, <2>1, <2>2, <2>3 DEF Waits
  <2>5. UnderWay(c)'
    BY <2>1, <2>2, <2>4 DEF UnderWay
  <2> HIDE DEF a
  <2> QED
    BY <1>3, <1>10, <2>1, <2>5, Onward DEF a
<1> QED
  BY <1>1, <1>2, <1>7, <1>8, <1>9, <1>10 DEF ReadRow

\* The texts read second go with the status read first.
LEMMA ReadTextKept == ASSUME ApiInv, NEW c \in Clients, ReadText(c) PROVE ClientStep(c)
<1>1. PICK d \in Docs : d = req[c].doc
  BY Before DEF ReadText, UnderWay
<1> DEFINE a == [req[c] EXCEPT !.text = text[d], !.code = IF text[d] = {} THEN "not_ready" ELSE "ok"]
<1>2. /\ a \in Request /\ a.doc = d /\ a.route = "ocr" /\ a.seen = req[c].seen /\ a.text = text[d]
      /\ a.code \in {"ok", "not_ready"} /\ Answer(c, a) /\ UNCHANGED lifecycleVars
  BY <1>1, Before DEF ReadText, Request, Codes
<1>3. status'[d] = status[d] /\ text'[d] = text[d]
  BY <1>2 DEF lifecycleVars
<1>4. /\ Between(told[c][d].status, req[c].seen, status[d])
      /\ req[c].seen \in WithText => text[d] = Pages
      /\ told[c][d].text \subseteq text[d]
  BY <1>1, Before DEF ReadText, UnderWay, Waits, ToldInv
<1>5. status[d] # "absent"
  <2>1. Rank(req[c].seen) # 0
    BY <1>4, Before, RankType DEF Between, Request
  <2> QED
    BY <1>4, <2>1, Ranks DEF Between
<1>6. Fits(c, a)
  BY <1>2, <1>3, <1>4, <1>5 DEF Fits
<1> HIDE DEF a
<1> QED
  BY <1>2, <1>6, Answers

\* The matricula of a row that was extracted is there.
LEMMA ReadMatriculaKept == ASSUME ApiInv, NEW c \in Clients, ReadMatricula(c) PROVE ClientStep(c)
<1>1. PICK d \in Docs : d = req[c].doc
  BY Before DEF ReadMatricula, UnderWay
<1>2. /\ Between(told[c][d].status, "extracted", status[d]) /\ req[c].seen = "extracted" /\ status[d] = "extracted"
  BY <1>1, Before DEF ReadMatricula, UnderWay, Waits, Between, Verdicts
<1>3. aggregate[d] # 0 /\ aggregate[d] \in 0 .. MaxAttempts /\ aggregate[d] <= attempts[d]
  BY <1>2, Before
<1> DEFINE a == [req[c] EXCEPT !.id = aggregate[d], !.code = "ok"]
<1>4. /\ a \in Request /\ a.doc = d /\ a.route = "matricula" /\ a.seen = "extracted" /\ a.id = aggregate[d]
      /\ a.code = "ok" /\ Answer(c, a) /\ UNCHANGED lifecycleVars
  BY <1>1, <1>2, <1>3, Before DEF ReadMatricula, Request, Codes
<1>5. status'[d] = status[d] /\ attempts'[d] = attempts[d]
  BY <1>4 DEF lifecycleVars
<1>6. Fits(c, a)
  BY <1>2, <1>3, <1>4, <1>5 DEF Fits
<1> HIDE DEF a
<1> QED
  BY <1>4, <1>6, Answers

\* A matricula id is lost only when another attempt replaced it.
LEMMA ReadByIdKept == ASSUME ApiInv, NEW c \in Clients, ReadById(c) PROVE ClientStep(c)
<1>1. PICK d \in Docs : /\ d = req[c].doc
                        /\ Answer(c, [req[c] EXCEPT !.code = IF aggregate[d] = req[c].id THEN "ok" ELSE "not_found"])
  BY DEF ReadById
<1> DEFINE a == [req[c] EXCEPT !.code = IF aggregate[d] = req[c].id THEN "ok" ELSE "not_found"]
<1>2. /\ a \in Request /\ a.doc = d /\ a.route = "byId" /\ a.code \in {"ok", "not_found"}
      /\ a.code = "not_found" => aggregate[d] # req[c].id
      /\ UNCHANGED lifecycleVars
  BY <1>1, Before DEF ReadById, Request, Codes
<1>3. /\ req[c].id # 0 /\ req[c].id <= attempts[d] /\ aggregate[d] # 0 /\ aggregate[d] <= attempts[d]
      /\ req[c].id \in Nat /\ aggregate[d] \in Nat /\ attempts[d] \in Nat
  BY <1>1, Before, Types, AttemptsAssumption DEF ReadById, UnderWay
<1>4. attempts'[d] = attempts[d]
  BY <1>2 DEF lifecycleVars
<1>5. a.code = "not_found" => attempts'[d] > 1
  BY <1>2, <1>3, <1>4
<1>6. Fits(c, a)
  BY <1>2, <1>5 DEF Fits
<1> HIDE DEF a
<1> QED
  BY <1>1, <1>2, <1>6, Answers DEF a

(***************************************************************************)
(* Every step, and the theorems.                                           *)
(***************************************************************************)
LEMMA HandleKept ==
    ASSUME ApiInv, NEW c \in Clients, Handle(c)
    PROVE  ClientStep(c) /\ [LNext]_lifecycleVars
<1>1. [LNext]_lifecycleVars
  BY InsertKept DEF Handle, Reject, InsertRow, Accepted, ReadRow, ReadText, ReadMatricula, ReadById, StoreError, LNext
<1>2. CASE Reject(c) \/ StoreError(c)
  BY <1>1, <1>2, RefusalKept DEF Reject, StoreError
<1> QED
  BY <1>1, <1>2, InsertKept, AcceptedKept, ReadRowKept, ReadTextKept, ReadMatriculaKept, ReadByIdKept DEF Handle

\* Every step keeps the invariant and lets clients only advance.
LEMMA ApiStep ==
    ASSUME ApiInv, [ApiNext]_apiVars
    PROVE  ApiInv' /\ \A c \in Clients, d \in Docs : Advance(c, d)
<1>1. ASSUME NEW c \in Clients, ClientStep(c), [LNext]_lifecycleVars
      PROVE  ApiInv' /\ \A b \in Clients, d \in Docs : Advance(b, d)
  <2>1. LifeInv' /\ \A d \in Docs : Progress(d)
    BY <1>1, LifeStep DEF ApiInv
  <2>2. ASSUME NEW b \in Clients \ {c} PROVE ClientInv(b)' /\ \A d \in Docs : Advance(b, d)
    BY <1>1, <2>1, ClientKept DEF ClientStep
  <2> QED
    BY <1>1, <2>1, <2>2 DEF ClientStep, ApiInv
<1>2. ASSUME NEW c \in Clients, Handle(c) PROVE ApiInv' /\ \A b \in Clients, d \in Docs : Advance(b, d)
  BY <1>1, <1>2, HandleKept
<1>3. ASSUME NEW c \in Clients, NEW route \in Routes, NEW d \in Docs, Ask(c, route, d)
      PROVE  ApiInv' /\ \A b \in Clients, e \in Docs : Advance(b, e)
  BY <1>1, <1>3, AskKept
<1>4. ASSUME [LNext]_lifecycleVars, UNCHANGED <<req, told>>
      PROVE  ApiInv' /\ \A b \in Clients, d \in Docs : Advance(b, d)
  <2>1. LifeInv' /\ \A d \in Docs : Progress(d)
    BY <1>4, LifeStep DEF ApiInv
  <2>2. \A b \in Clients : ClientInv(b)' /\ \A d \in Docs : Advance(b, d)
    BY <1>4, <2>1, ClientKept
  <2> QED
    BY <1>4, <2>1, <2>2 DEF ApiInv, ApiTypeOK
<1>5. CASE PipelineStep
  BY <1>4, <1>5 DEF PipelineStep, LNext
<1>6. CASE UNCHANGED apiVars
  BY <1>4, <1>6 DEF apiVars
<1> QED
  BY <1>2, <1>3, <1>5, <1>6 DEF ApiNext

\* No client knows anything at first.
LEMMA ApiStart == ASSUME ApiInit PROVE ApiInv
<1>1. /\ status = [d \in Docs |-> "absent"] /\ LifeTypeOK
      /\ \A d \in Docs : aggregate[d] = 0 /\ attempts[d] = 0 /\ text[d] = {}
  BY AttemptsAssumption DEF ApiInit, LInit, LifeTypeOK, Statuses, StageSet
<1>2. LifeInv
  BY <1>1 DEF LifeInv, WithText
<1>3. Idle \in Request /\ Idle.pc = "idle"
  BY AttemptsAssumption DEF Idle, Request, Routes, Statuses, Codes
<1>4. Nothing \in [status: Statuses, text: SUBSET Pages, id: 0 .. MaxAttempts]
  BY AttemptsAssumption DEF Nothing, Statuses
<1>5. ApiTypeOK
  BY <1>3, <1>4 DEF ApiInit, ApiTypeOK
<1>6. ASSUME NEW c \in Clients PROVE ClientInv(c)
  <2>1. UnderWay(c) /\ GoodAnswer(c)
    BY <1>3 DEF ApiInit, UnderWay, GoodAnswer
  <2>2. Rank("absent") = 0
    BY DEF Rank
  <2>3. \A d \in Docs : told[c][d].status = "absent" /\ told[c][d].text = {} /\ told[c][d].id = 0
    BY DEF ApiInit, Nothing
  <2>4. \A d \in Docs : status[d] = "absent"
    BY <1>1
  <2>5. ASSUME NEW d \in Docs PROVE ToldInv(c, d)
    <3>1. told[c][d].status = status[d] /\ told[c][d].text = {} /\ told[c][d].id = 0
      BY <2>3, <2>4
    <3>2. Rank(told[c][d].status) <= Rank(status[d])
      BY <2>2, <2>3, <2>4
    <3> QED
      BY <3>1, <3>2 DEF ToldInv
  <2> QED
    BY <2>1, <2>5 DEF ClientInv
<1> QED
  BY <1>2, <1>5, <1>6 DEF ApiInv

\* The invariant behind what the API tells, for any number of clients,
\* documents, pages and attempts.
THEOREM ApiAgreement == ApiSpec => []ApiInv
<1>1. ApiInv /\ [ApiNext]_apiVars => ApiInv'
  BY ApiStep
<1> QED
  BY ApiStart, <1>1, PTL DEF ApiSpec

\* Requests, answers and what clients were told keep their types.
THEOREM ApiTypes == ApiSpec => []ApiTypeOK
<1>1. ApiInv => ApiTypeOK
  BY DEF ApiInv
<1> QED
  BY ApiAgreement, <1>1, PTL

\* An /ocr answer past OCR has every page, with the pipeline running between
\* the two reads of OCRResults.
THEOREM OcrAnswersAreWhole == ApiSpec => []OcrAnswerIsWhole
<1>1. ApiInv => OcrAnswerIsWhole
  BY DEF ApiInv, ClientInv, GoodAnswer, OcrAnswerIsWhole, Answered, WithText
<1> QED
  BY ApiAgreement, <1>1, PTL

\* No client gets 404 for a document it was told about.
THEOREM KnownIsAlwaysFound == ApiSpec => []KnownIsFound
<1>1. ApiInv => KnownIsFound
  BY DEF ApiInv, ClientInv, GoodAnswer, KnownIsFound, Answered
<1> QED
  BY ApiAgreement, <1>1, PTL

\* A matricula that was served is served from then on.
THEOREM ServedIsNeverWithdrawn == ApiSpec => []ServedStaysServed
<1>1. ApiInv => ServedStaysServed
  BY DEF ApiInv, ClientInv, GoodAnswer, ServedStaysServed
<1> QED
  BY ApiAgreement, <1>1, PTL

\* Only a document that was claimed again can lose a matricula id.
THEOREM IdsStayGood == ApiSpec => []IdsAreStable
<1>1. ApiInv => IdsAreStable
  BY DEF ApiInv, ClientInv, GoodAnswer, IdsAreStable, Answered
<1> QED
  BY ApiAgreement, <1>1, PTL

\* One answer after the other, a client sees a document only advance.
THEOREM ClientsSeeProgress == ApiSpec => AnswersOnlyAdvance
<1>1. ApiInv /\ [ApiNext]_apiVars =>
        [\A c \in Clients, d \in Docs :
           LET before == told[c][d]
               after  == told'[c][d] IN
           /\ Rank(before.status) <= Rank(after.status)
           /\ before.status \in {"extracted", "failed"} => after.status = before.status
           /\ before.text \subseteq after.text]_apiVars
  BY ApiStep DEF Advance, Verdicts
<1> QED
  BY ApiAgreement, <1>1, PTL DEF ApiSpec, AnswersOnlyAdvance
==============================================================================
