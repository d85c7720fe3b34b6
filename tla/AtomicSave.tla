------------------------------ MODULE AtomicSave ------------------------------
(***************************************************************************)
(* What extraction.go takes SaveAggregate for, and how Poller has it: one  *)
(* step that puts a whole aggregate with its raw answer in the place of    *)
(* the one before, or an error that may hide that it has.  No transaction, *)
(* no lock and no statement appears here.  Each extraction of the document *)
(* that was ever claimed has a name, and may still save when the document  *)
(* has been taken from it.                                                 *)
(***************************************************************************)
CONSTANTS
    Savers,   \* the extractions of the document
    Parts     \* the child tables

VARIABLES
    status,   \* documents.status, from "ocr_done" on
    stored,   \* the rows of the child tables, <<extraction, table>>
    raw,      \* the extractions whose raw answer is stored
    at        \* at[s]: where ExtractDocument stands for s

saveVars == <<status, stored, raw, at>>

SInit ==
    /\ status = "ocr_done"
    /\ stored = {}
    /\ raw = {}
    /\ at = [s \in Savers |-> "idle"]

StandsAt(s, from, to) == at[s] = from /\ at' = [at EXCEPT ![s] = to]

\* The guarded updates of documents.status: nothing when the guard fails.
MoveFrom(from, to) == status' = IF status = from THEN to ELSE status

SClaim(s) ==
    /\ status = "ocr_done"
    /\ MoveFrom("ocr_done", "extracting")
    /\ StandsAt(s, "idle", "save")
    /\ UNCHANGED <<stored, raw>>

Replaced(s) ==
    /\ stored' = {s} \X Parts
    /\ raw' = raw \cup {s}

SaveAggregate(s) ==
    /\ \/ Replaced(s) /\ StandsAt(s, "save", "flip")
       \/ (Replaced(s) \/ UNCHANGED <<stored, raw>>) /\ StandsAt(s, "save", "requeue")
    /\ UNCHANGED status

\* Only what is stored can become visible as "extracted".
SFlip(s) ==
    /\ stored # {}
    /\ \/ MoveFrom("extracting", "extracted") /\ StandsAt(s, "flip", "done")
       \/ (MoveFrom("extracting", "extracted") \/ UNCHANGED status) /\ StandsAt(s, "flip", "requeue")
    /\ UNCHANGED <<stored, raw>>

SRequeue(s) ==
    /\ MoveFrom("extracting", "ocr_done")
    /\ StandsAt(s, "requeue", "done")
    /\ UNCHANGED <<stored, raw>>

SGiveUp(s) ==
    /\ MoveFrom("extracting", "failed")
    /\ StandsAt(s, "save", "done")
    /\ UNCHANGED <<stored, raw>>

\* The janitor, and FailExhausted.
STakeBack ==
    /\ status = "extracting" /\ MoveFrom("extracting", "ocr_done")
    /\ UNCHANGED <<stored, raw, at>>

SExhaust ==
    /\ \A s \in Savers : at[s] # "idle"
    /\ status = "ocr_done" /\ MoveFrom("ocr_done", "failed")
    /\ UNCHANGED <<stored, raw, at>>

SaverStep(s) == SClaim(s) \/ SaveAggregate(s) \/ SFlip(s) \/ SRequeue(s) \/ SGiveUp(s)

SNext ==
    \/ \E s \in Savers : SaverStep(s)
    \/ STakeBack
    \/ SExhaust

SSpec == SInit /\ [][SNext]_saveVars
==============================================================================
