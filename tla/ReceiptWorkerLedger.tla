-------------------------- MODULE ReceiptWorkerLedger --------------------------
(***************************************************************************)
(* ReceiptWorker implements ReceiptLedger.  Of a row the owner sees what   *)
(* was asked, what is done and what failed; QUEUED, RUNNING and WAITING    *)
(* are all the same to the ledger: the job is open.                        *)
(***************************************************************************)
EXTENDS ReceiptWorker

StatusOf(row) ==
    IF row.state \in {"queued", "running", "waiting"} THEN "open" ELSE row.state

EntryOf(row) ==
    [status |-> StatusOf(row), asked |-> row.services, done |-> row.completed,
     failed |-> row.failed]

Ledger == INSTANCE ReceiptLedger
            WITH saved <- drive, ledger <- [j \in Jobs |-> EntryOf(jobs[j])]

\* Every behaviour of the worker, its handlers and its process, crashes and
\* lost upload responses included, is one the ledger allows.
ImplementsLedger == Ledger!Spec
===============================================================================
