------------------------------ MODULE ReceiptSaves -----------------------------
(***************************************************************************)
(* How receipts of one month get into the Drive folder in worker mode.     *)
(*                                                                         *)
(* The worker's thread saves what it acquires; a manual upload is saved by *)
(* a thread of its own (workers/service.py save_manual_receipt), which the *)
(* owner's page starts and may stop waiting for.  Both go through          *)
(* run_auto_acquisition: _ACQUISITION_LOCK, a look at Drive, the document, *)
(* a second look, the upload and a last look.                              *)
(*                                                                         *)
(* The job is seen from outside: it is active or not.  A document's name   *)
(* carries the date and the amount read from it, so two documents of one   *)
(* service may have two names; only one name for both would be noticed by  *)
(* Drive.  A write whose answer is lost has been done or is never done.    *)
(***************************************************************************)
EXTENDS Naturals

CONSTANTS
    Services,
    Names,          \* the names a service's documents may come to have
    Uploads,        \* manual saves that may be under way in the worker
    MaxCrashes      \* bound: crashes of the worker's process

\* The worker's thread as a holder of the lock, beside the manual saves.
TheThread == 0

NoFile == [service |-> 0, name |-> 0]
Files == [service: Services, name: Names]

VARIABLES
    folder,     \* the month's receipts in Drive
    lock,       \* _ACQUISITION_LOCK: who has it, one at most
    month,      \* the month has an active job
    acquirer,   \* the worker's thread: what it saves, and whether its job still lives
    upload,     \* upload[u]: a manual save in the worker
    form,       \* the page's upload form: the upload it waits for, or 0
    crashes

vars == <<folder, lock, month, acquirer, upload, form, crashes>>

Idle == [pc |-> "idle", file |-> NoFile, live |-> FALSE]
NoUpload == [pc |-> "none", file |-> NoFile]

Init ==
    /\ folder = {}
    /\ lock = {}
    /\ month = FALSE
    /\ acquirer = Idle
    /\ upload = [u \in Uploads |-> NoUpload]
    /\ form = 0
    /\ crashes = 0

\* find_receipt finds a receipt of this service and month, whatever its amount.
Stored(s) == \E f \in folder : f.service = s

\* The lock is not waited for.
MutantLockFor(holder) == UNCHANGED lock
LockFor(holder) == lock = {} /\ lock' = {holder}

\* upsert_bytes: the file with this receipt key or name is replaced.
Upsert(file) == folder' = folder \cup {file}

-------------------------------------------------------------------------------
(* The job and the worker's thread.                                        *)

\* create_job asks nothing about manual saves.
JobStarts ==
    /\ ~month
    /\ month' = TRUE
    /\ UNCHANGED <<folder, lock, acquirer, upload, form, crashes>>

\* The job ends, or its owner cancels it; the thread may be in the middle of it.
JobEnds ==
    /\ month
    /\ month' = FALSE
    /\ acquirer' = [acquirer EXCEPT !.live = FALSE]
    /\ UNCHANGED <<folder, lock, upload, form, crashes>>

Thread(pc) == acquirer' = [acquirer EXCEPT !.pc = pc]

Select(s) ==
    /\ acquirer.pc = "idle" /\ month
    /\ acquirer' = [pc |-> "wants", file |-> [NoFile EXCEPT !.service = s], live |-> TRUE]
    /\ UNCHANGED <<folder, lock, month, upload, form, crashes>>

\* The lock, then cancelled or stored: the thread leaves at once.
AcquirerLooks ==
    /\ acquirer.pc = "wants"
    /\ \/ /\ ~acquirer.live \/ Stored(acquirer.file.service)
          /\ lock = {} /\ acquirer' = Idle /\ UNCHANGED lock
       \/ /\ acquirer.live /\ ~Stored(acquirer.file.service)
          /\ LockFor(TheThread) /\ Thread("fetching")
    /\ UNCHANGED <<folder, month, upload, form, crashes>>

\* The provider gives a document, and Drive is looked at again.
AcquirerFetches(n) ==
    /\ acquirer.pc = "fetching" /\ acquirer.live
    /\ IF Stored(acquirer.file.service)
       THEN acquirer' = Idle /\ lock' = {}
       ELSE acquirer' = [acquirer EXCEPT !.pc = "saving", !.file.name = n] /\ UNCHANGED lock
    /\ UNCHANGED <<folder, month, upload, form, crashes>>

\* It fails, or the job was cancelled meanwhile.
AcquirerFails ==
    /\ acquirer.pc = "fetching"
    /\ acquirer' = Idle /\ lock' = {}
    /\ UNCHANGED <<folder, month, upload, form, crashes>>

\* A challenge: the lock is not kept while the owner is waited for.
AcquirerAsks ==
    /\ acquirer.pc = "fetching"
    /\ Thread("asking") /\ lock' = {}
    /\ UNCHANGED <<folder, month, upload, form, crashes>>

\* The answer comes, and all the looks are taken again; or it never comes.
AcquirerResumes ==
    /\ acquirer.pc = "asking"
    /\ \/ acquirer.live /\ Thread("wants")
       \/ acquirer' = Idle
    /\ UNCHANGED <<folder, lock, month, upload, form, crashes>>

\* The upload, unless the job was cancelled (_CancellationAwareStorage).
AcquirerSaves ==
    /\ acquirer.pc = "saving"
    /\ IF acquirer.live THEN Upsert(acquirer.file) \/ UNCHANGED folder ELSE UNCHANGED folder
    /\ acquirer' = Idle /\ lock' = {}
    /\ UNCHANGED <<month, upload, form, crashes>>

-------------------------------------------------------------------------------
(* A manual save.                                                          *)

Step(u, pc) == upload' = [upload EXCEPT ![u].pc = pc]

\* The button of render_manual_upload: no job is active, as far as the page can
\* tell, and the PDF was inspected.
Press(u, file) ==
    /\ form = 0 /\ ~month
    /\ upload[u] = NoUpload
    /\ upload' = [upload EXCEPT ![u] = [pc |-> "sent", file |-> file]]
    /\ form' = u
    /\ UNCHANGED <<folder, lock, month, acquirer, crashes>>

\* The page waits 120 s and no longer; a reloaded page does not wait at all.
GiveUp ==
    /\ form # 0
    /\ form' = 0
    /\ UNCHANGED <<folder, lock, month, acquirer, upload, crashes>>

\* The save is over, well or not; the page may still wait for it.
Answer(u) ==
    /\ upload' = [upload EXCEPT ![u] = NoUpload]
    /\ form' = IF form = u THEN 0 ELSE form

\* MANUAL_UPLOAD_BUSY: a job of the month, or any job in the thread.
Admit(u) ==
    /\ upload[u].pc = "sent"
    /\ IF ~month /\ acquirer.pc = "idle"
       THEN Step(u, "admitted") /\ UNCHANGED form
       ELSE Answer(u)
    /\ UNCHANGED <<folder, lock, month, acquirer, crashes>>

\* The first look: the receipt is there, or Drive cannot be listed, or it is missing.
UploadLooks(u) ==
    /\ upload[u].pc = "admitted"
    /\ \/ lock = {} /\ Answer(u) /\ UNCHANGED lock
       \/ /\ ~Stored(upload[u].file.service)
          /\ LockFor(u) /\ Step(u, "holding") /\ UNCHANGED form
    /\ UNCHANGED <<folder, month, acquirer, crashes>>

\* Name and amount are read from the document, or not, and Drive is looked at again.
UploadLooksAgain(u) ==
    /\ upload[u].pc = "holding"
    /\ \/ Answer(u) /\ lock' = {}
       \/ /\ ~Stored(upload[u].file.service)
          /\ Step(u, "saving") /\ UNCHANGED <<form, lock>>
    /\ UNCHANGED <<folder, month, acquirer, crashes>>

\* The upload, by itself under the commit guard (_CommitGuardedStorage).
UploadSaves(u) ==
    /\ upload[u].pc = "saving"
    /\ Upsert(upload[u].file) \/ UNCHANGED folder
    /\ Answer(u) /\ lock' = {}
    /\ UNCHANGED <<month, acquirer, crashes>>

\* The process dies with its threads and its lock.  The job is queued again.
Crash ==
    /\ crashes < MaxCrashes
    /\ crashes' = crashes + 1
    /\ LET writing == {upload[u].file : u \in {v \in Uploads : upload[v].pc = "saving"}}
                      \cup (IF acquirer.pc = "saving" /\ acquirer.live
                            THEN {acquirer.file} ELSE {})
       IN  \E done \in SUBSET writing : folder' = folder \cup done
    /\ lock' = {} /\ acquirer' = Idle
    /\ upload' = [u \in Uploads |-> NoUpload]
    /\ form' = 0
    /\ UNCHANGED month

Next ==
    \/ JobStarts \/ JobEnds \/ GiveUp \/ Crash
    \/ \E s \in Services : Select(s)
    \/ AcquirerLooks \/ AcquirerFails \/ AcquirerAsks \/ AcquirerResumes \/ AcquirerSaves
    \/ \E n \in Names : AcquirerFetches(n)
    \/ \E u \in Uploads : \/ \E file \in Files : Press(u, file)
                          \/ Admit(u) \/ UploadLooks(u) \/ UploadLooksAgain(u) \/ UploadSaves(u)

Spec == Init /\ [][Next]_vars

-------------------------------------------------------------------------------
(* What the owner may rely on.                                             *)

\* The variables have the values the code gives them.
TypeOK ==
    /\ folder \subseteq Files
    /\ lock \subseteq Uploads \cup {TheThread}
    /\ month \in BOOLEAN
    /\ acquirer \in [pc: {"idle", "wants", "fetching", "saving", "asking"}, live: BOOLEAN,
                     file: [service: Services \cup {0}, name: Names \cup {0}]]
    /\ upload \in [Uploads -> [pc: {"none", "sent", "admitted", "holding", "saving"},
                              file: Files \cup {NoFile}]]
    /\ form \in Uploads \cup {0}
    /\ crashes \in 0 .. MaxCrashes

\* Drive holds one receipt of a service and month, whatever the thread, manual
\* saves, retries of either and crashes add up to.
OneReceipt == \A f, g \in folder : f.service = g.service => f = g
===============================================================================
