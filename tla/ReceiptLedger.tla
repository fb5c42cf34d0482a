----------------------------- MODULE ReceiptLedger -----------------------------
(***************************************************************************)
(* What the owner may rely on, with no thread, process, lock or challenge  *)
(* in it: which receipts Google Drive holds, and what is still owed on     *)
(* each job.  ReceiptWorkerLedger shows that ReceiptWorker implements it.  *)
(*                                                                         *)
(* A receipt appears in Drive only on behalf of a job that is open and     *)
(* still owes it, a service counts as done only once its receipt is there, *)
(* and a job that ended by itself has ended for good.  The promise about a *)
(* cancelled job is weaker than one would wish: see Reopen.                *)
(***************************************************************************)
CONSTANTS Jobs, Services

VARIABLES
    saved,      \* the services whose receipt is in Drive
    ledger      \* ledger[j]: status, what was asked, what is done, what failed

ledgerVars == <<saved, ledger>>

Settled == {"succeeded", "failed", "intervention"}

\* The services of an entry that have come to no end yet.
Owed(entry) == entry.asked \ (entry.done \cup entry.failed)

Closed == [status |-> "absent", asked |-> {}, done |-> {}, failed |-> {}]

Entry(status, asked, done, failed) ==
    [status |-> status, asked |-> asked, done |-> done, failed |-> failed]

Init ==
    /\ saved = {}
    /\ ledger = [j \in Jobs |-> Closed]

Write(j, entry) ==
    /\ ledger' = [ledger EXCEPT ![j] = entry]
    /\ UNCHANGED saved

\* The owner asks for the receipts of S.
Ask(j, S) ==
    /\ ledger[j].status = "absent"
    /\ Write(j, Entry("open", S, {}, {}))

\* A receipt reaches Drive, for an open job that owes it.
Save(s) ==
    /\ \E j \in Jobs : ledger[j].status = "open" /\ s \in Owed(ledger[j])
    /\ saved' = saved \cup {s}
    /\ UNCHANGED ledger

\* A service is done, once Drive holds its receipt.  With the last one the
\* job ends: as a success if nothing failed.
Complete(j, s) ==
    LET old == ledger[j]
        new(status) == Entry(status, old.asked, old.done \cup {s}, old.failed)
    IN  /\ old.status = "open"
        /\ s \in Owed(old) \cap saved
        /\ \/ Write(j, new("open"))
           \/ /\ Owed(old) = {s}
              /\ Write(j, new(IF old.failed = {} THEN "succeeded" ELSE "failed"))

\* A service is given up; the others go on.
GiveUp(j, s) ==
    LET old == ledger[j]
    IN  /\ old.status = "open"
        /\ s \in Owed(old)
        /\ Write(j, Entry("open", old.asked, old.done, old.failed \cup {s}))

\* The job ends early, or at last with nothing owed.
Settle(j, status) ==
    LET old == ledger[j]
    IN  /\ old.status = "open"
        /\ status = "succeeded" => Owed(old) = {} /\ old.failed = {}
        /\ Write(j, Entry(status, old.asked, old.done, old.failed))

Cancel(j) ==
    LET old == ledger[j]
    IN  /\ old.status = "open"
        /\ Write(j, Entry("cancelled", old.asked, old.done, old.failed))

\* What the worker does to a job that was cancelled while a challenge of it
\* was being issued or answered: it takes the cancellation back.
Reopen(j) ==
    LET old == ledger[j]
    IN  /\ old.status = "cancelled"
        /\ Write(j, Entry("open", old.asked, old.done, old.failed))

Next ==
    \/ \E s \in Services : Save(s)
    \/ \E j \in Jobs :
         \/ \E S \in SUBSET Services : Ask(j, S)
         \/ \E s \in Services : Complete(j, s) \/ GiveUp(j, s)
         \/ \E status \in Settled : Settle(j, status)
         \/ Cancel(j) \/ Reopen(j)

Spec == Init /\ [][Next]_ledgerVars
===============================================================================
