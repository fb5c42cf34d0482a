----------------------------- MODULE WorkerProcess -----------------------------
(***************************************************************************)
(* The life of the worker's process: worker/app.py build_app, the lifespan *)
(* of workers/http_api.py, the instance lease of runtime_security.py, the  *)
(* snapshots of the job database (workers/backup_lifecycle.py over         *)
(* storage/sqlite_backup.py) and the start and stop of the worker's        *)
(* thread (workers/runner.py).                                             *)
(*                                                                         *)
(* A process may die anywhere, and its supervisor starts it again.  Two    *)
(* processes may be started on one data directory.  The database is its    *)
(* number of writes.  A snapshot's name is the time of the wall clock, by  *)
(* which snapshots are ordered, and that clock may be set back.            *)
(***************************************************************************)
EXTENDS Naturals, FiniteSets

CONSTANTS
    Processes,
    Names,          \* snapshot names, in the order in which they sort
    Retention,      \* GETRECEIPT_BACKUP_RETENTION_COUNT
    Threshold,      \* GETRECEIPT_BACKUP_FATAL_FAILURES
    MaxWrites       \* bound: writes to the job database

VARIABLES
    lease,      \* who holds the lock of the data directory, one at most
    process,    \* process[p]: its main thread and what it remembers
    worker,     \* worker[p]: the acquisition thread
    backup,     \* backup[p]: the thread of periodic snapshots
    copying,    \* copying[p]: the snapshot p is making
    snapshots,  \* the published snapshots
    last,       \* history: the name of the snapshot published last, or 0
    writes      \* writes to the job database

vars == <<lease, process, worker, backup, copying, snapshots, last, writes>>

Down == [pc |-> "down", failures |-> 0, fatal |-> FALSE, asked |-> FALSE,
         joined |-> FALSE, closed |-> FALSE, final |-> FALSE]
NoCopy == [pc |-> "none", name |-> 0, writes |-> 0]

Init ==
    /\ lease = {}
    /\ process = [p \in Processes |-> Down]
    /\ worker = [p \in Processes |-> "none"]
    /\ backup = [p \in Processes |-> "none"]
    /\ copying = [p \in Processes |-> NoCopy]
    /\ snapshots = {} /\ last = 0
    /\ writes = 0

At(p, pc) == process[p].pc = pc
Goto(p, pc) == process' = [process EXCEPT ![p].pc = pc]

-------------------------------------------------------------------------------
(* One snapshot (SQLiteBackupManager.create_backup), by whichever thread   *)
(* of p makes it; the manager's lock admits one at a time.                 *)

PublishedNames == {s.name : s \in snapshots}

BeginCopy(p) ==
    /\ copying[p] = NoCopy
    /\ \E n \in Names \ PublishedNames :
         copying' = [copying EXCEPT ![p] = [pc |-> "copying", name |-> n, writes |-> writes]]

\* Checked and renamed into place.
Publish(p) ==
    /\ copying[p].pc = "copying"
    /\ copying[p].name \notin PublishedNames
    /\ copying' = [copying EXCEPT ![p].pc = "published"]
    /\ snapshots' = snapshots \cup {[name |-> copying[p].name, writes |-> copying[p].writes]}
    /\ last' = copying[p].name
    /\ UNCHANGED <<lease, process, worker, backup, writes>>

\* The newest n names of a set, by the order of their names.
Newest(S, n) == {s \in S : Cardinality({t \in S : t > s}) < n}

\* The names kept are the newest, whether or not the one just made is of them.
MutantKept(protected) == Newest(PublishedNames, Retention)

\* _prune: the one just made, and the newest of the others.
Kept(protected) ==
    {protected} \cup Newest(PublishedNames \ {protected}, Retention - 1)

Prune(p) ==
    /\ copying[p].pc = "published"
    /\ \E s \in snapshots : s.name \notin Kept(copying[p].name) /\ snapshots' = snapshots \ {s}
    /\ UNCHANGED <<lease, process, worker, backup, copying, last, writes>>

Pruned(p) ==
    /\ copying[p].pc = "published"
    /\ PublishedNames \subseteq Kept(copying[p].name)
    /\ copying' = [copying EXCEPT ![p] = NoCopy]

\* It fails where it may, and leaves no file of its own that is not published.
CopyFails(p) ==
    /\ copying[p].pc \in {"copying", "published"}
    /\ copying' = [copying EXCEPT ![p] = NoCopy]

\* _backup_once: what its caller learns.
Failures(p) == IF process[p].failures < Threshold THEN process[p].failures + 1 ELSE Threshold

-------------------------------------------------------------------------------
(* Start.                                                                  *)

\* WorkerInstanceLease.acquire: flock, without waiting.
TakeLease(p) == lease = {} /\ lease' = {p}

\* build_app: the lock, then the store and all that is built on it.
Build(p) ==
    /\ At(p, "down")
    /\ TakeLease(p)
    /\ process' = [process EXCEPT ![p] = [Down EXCEPT !.pc = "built"]]
    /\ UNCHANGED <<worker, backup, copying, snapshots, last, writes>>

\* lifespan.startup: backup_lifecycle.start takes the first snapshot itself.
FirstSnapshot(p) ==
    /\ At(p, "built")
    /\ BeginCopy(p)
    /\ Goto(p, "first")
    /\ UNCHANGED <<lease, worker, backup, snapshots, last, writes>>

FirstMade(p) ==
    /\ At(p, "first")
    /\ Pruned(p)
    /\ backup' = [backup EXCEPT ![p] = "waits"]
    /\ process' = [process EXCEPT ![p].pc = "snapshots", ![p].failures = 0]
    /\ UNCHANGED <<lease, worker, snapshots, last, writes>>

\* lifespan.startup.failed: no worker, the store is closed, the server exits.
FirstFails(p) ==
    /\ At(p, "first")
    /\ CopyFails(p)
    /\ process' = [process EXCEPT ![p].pc = "exiting", ![p].failures = 1, ![p].closed = TRUE]
    /\ UNCHANGED <<lease, worker, backup, snapshots, last, writes>>

\* ReceiptWorker.start, with its recovery of the jobs.
StartWorker(p) ==
    /\ At(p, "snapshots")
    /\ worker' = [worker EXCEPT ![p] = "runs"]
    /\ Goto(p, "serves")
    /\ UNCHANGED <<lease, backup, copying, snapshots, last, writes>>

-------------------------------------------------------------------------------
(* Work, and the thread of periodic snapshots.                             *)

Works(p) ==
    /\ worker[p] = "runs"
    /\ writes < MaxWrites
    /\ writes' = writes + 1
    /\ UNCHANGED <<lease, process, worker, backup, copying, snapshots, last>>

\* run_once raises: the loop is over, and asks for a restart
\* (_request_supervisor_restart, once in a process).
LoopDies(p) ==
    /\ worker[p] = "runs" /\ At(p, "serves")
    /\ worker' = [worker EXCEPT ![p] = "ended"]
    /\ process' = [process EXCEPT ![p].asked = TRUE]
    /\ UNCHANGED <<lease, backup, copying, snapshots, last, writes>>

\* The thread's wait is over: interval_seconds, or retry_interval_seconds.
BackupWakes(p) ==
    /\ backup[p] = "waits" /\ At(p, "serves")
    /\ BeginCopy(p)
    /\ backup' = [backup EXCEPT ![p] = "copies"]
    /\ UNCHANGED <<lease, process, worker, snapshots, last, writes>>

BackupMade(p) ==
    /\ backup[p] = "copies"
    /\ Pruned(p)
    /\ backup' = [backup EXCEPT ![p] = "waits"]
    /\ process' = [process EXCEPT ![p].failures = 0]
    /\ UNCHANGED <<lease, worker, snapshots, last, writes>>

\* The failures are counted, and the callback is forgotten.
MutantBackupFails(p) ==
    /\ backup[p] = "copies"
    /\ CopyFails(p)
    /\ LET fatal == Failures(p) >= Threshold
       IN  /\ process' = [process EXCEPT ![p].failures = Failures(p), ![p].fatal = fatal]
           /\ backup' = [backup EXCEPT ![p] = IF fatal THEN "ended" ELSE "waits"]
    /\ UNCHANGED <<lease, worker, snapshots, last, writes>>

\* The last failure in a row that is tolerated ends the thread, and asks for a restart.
BackupFails(p) ==
    /\ backup[p] = "copies"
    /\ CopyFails(p)
    /\ LET fatal == Failures(p) >= Threshold
       IN  /\ process' = [process EXCEPT ![p].failures = Failures(p), ![p].fatal = fatal,
                                         ![p].asked = @ \/ fatal]
           /\ backup' = [backup EXCEPT ![p] = IF fatal THEN "ended" ELSE "waits"]
    /\ UNCHANGED <<lease, worker, snapshots, last, writes>>

-------------------------------------------------------------------------------
(* Stop: lifespan.shutdown, once the requests in hand are answered.        *)

\* SIGTERM, which the process may send to itself.
Terminate(p) ==
    /\ At(p, "serves")
    /\ Goto(p, "stopping")
    /\ UNCHANGED <<lease, worker, backup, copying, snapshots, last, writes>>

\* The thread sees the stop event when it gets to look at it.
WorkerEnds(p) ==
    /\ worker[p] = "runs" /\ process[p].pc \notin {"snapshots", "serves"}
    /\ worker' = [worker EXCEPT ![p] = "ended"]
    /\ UNCHANGED <<lease, process, backup, copying, snapshots, last, writes>>

\* The thread is said to have stopped, whatever the join came to.
MutantWorkerStopped(p) ==
    /\ At(p, "stopping")
    /\ process' = [process EXCEPT ![p].pc = "workerStopped", ![p].joined = TRUE]
    /\ UNCHANGED <<lease, worker, backup, copying, snapshots, last, writes>>

\* ReceiptWorker.stop: the thread has ended, or the 45 s are over.
WorkerStopped(p) ==
    /\ At(p, "stopping")
    /\ process' = [process EXCEPT ![p].pc = "workerStopped", ![p].joined = worker[p] = "ended"]
    /\ UNCHANGED <<lease, worker, backup, copying, snapshots, last, writes>>

\* The thread of snapshots sees the stop event where it waits.
BackupEnds(p) ==
    /\ backup[p] = "waits" /\ process[p].pc \notin {"snapshots", "serves"}
    /\ backup' = [backup EXCEPT ![p] = "ended"]
    /\ UNCHANGED <<lease, process, worker, copying, snapshots, last, writes>>

\* SQLiteBackupLifecycle.stop: the thread has ended, and a final snapshot is made,
FinalSnapshot(p) ==
    /\ At(p, "workerStopped") /\ backup[p] = "ended"
    /\ BeginCopy(p)
    /\ Goto(p, "final")
    /\ UNCHANGED <<lease, worker, backup, snapshots, last, writes>>

FinalMade(p) ==
    /\ At(p, "final")
    /\ Pruned(p)
    /\ process' = [process EXCEPT ![p].pc = "stopped", ![p].final = TRUE]
    /\ UNCHANGED <<lease, worker, backup, snapshots, last, writes>>

\* or fails, before it has a file or after, or the one under way outlasts the 35 s.
NoFinal(p) ==
    /\ \/ At(p, "final") /\ CopyFails(p)
       \/ At(p, "workerStopped") /\ UNCHANGED copying
    /\ Goto(p, "stopped")
    /\ UNCHANGED <<lease, worker, backup, snapshots, last, writes>>

\* shutdown_callback: the store is closed, unless the worker may still use it.
CloseStore(p) ==
    /\ At(p, "stopped")
    /\ process' = [process EXCEPT ![p].pc = "exiting", ![p].closed = process[p].joined]
    /\ UNCHANGED <<lease, worker, backup, copying, snapshots, last, writes>>

\* ReceiptWorker.start fails: backups stop without a final one, the store is closed.
StartFails(p) ==
    /\ At(p, "snapshots")
    /\ backup' = [backup EXCEPT ![p] = "ended"]
    /\ process' = [process EXCEPT ![p].pc = "exiting", ![p].closed = TRUE]
    /\ UNCHANGED <<lease, worker, copying, snapshots, last, writes>>

\* The process ends, and with it its threads and its lock.
Ends(p) ==
    /\ lease' = lease \ {p}
    /\ process' = [process EXCEPT ![p] = Down]
    /\ worker' = [worker EXCEPT ![p] = "none"]
    /\ backup' = [backup EXCEPT ![p] = "none"]
    /\ copying' = [copying EXCEPT ![p] = NoCopy]
    /\ UNCHANGED <<snapshots, last, writes>>

\* Both threads are daemons: they end where they are.
Exit(p) == At(p, "exiting") /\ Ends(p)
Crash(p) == ~At(p, "down") /\ Ends(p)

Main(p) ==
    \/ FirstSnapshot(p) \/ FirstMade(p) \/ FirstFails(p) \/ StartWorker(p) \/ StartFails(p)
    \/ WorkerStopped(p) \/ FinalSnapshot(p) \/ FinalMade(p) \/ NoFinal(p)
    \/ CloseStore(p) \/ Exit(p)

Copies(p) == Publish(p) \/ Prune(p)

Next ==
    \E p \in Processes :
        \/ Build(p) \/ Main(p) \/ Copies(p) \/ Terminate(p) \/ Crash(p)
        \/ Works(p) \/ LoopDies(p) \/ WorkerEnds(p)
        \/ BackupWakes(p) \/ BackupMade(p) \/ BackupFails(p) \/ BackupEnds(p)

\* The main thread goes on, a snapshot it makes comes to an end, and a signal
\* that was asked for is delivered.  Threads may hang: every join has its limit.
Fairness ==
    \A p \in Processes :
        /\ WF_vars(Main(p))
        /\ WF_vars(process[p].pc \in {"first", "final"} /\ Copies(p))
        /\ WF_vars(process[p].asked /\ Terminate(p))

Spec == Init /\ [][Next]_vars /\ Fairness

-------------------------------------------------------------------------------
(* What the owner of the data directory may rely on.                       *)

\* The variables have the values the code gives them.
TypeOK ==
    /\ lease \subseteq Processes
    /\ process \in [Processes ->
         [pc: {"down", "built", "first", "snapshots", "serves", "stopping", "workerStopped",
               "final", "stopped", "exiting"},
          failures: 0 .. Threshold, fatal: BOOLEAN, asked: BOOLEAN, joined: BOOLEAN,
          closed: BOOLEAN, final: BOOLEAN]]
    /\ worker \in [Processes -> {"none", "runs", "ended"}]
    /\ backup \in [Processes -> {"none", "waits", "copies", "ended"}]
    /\ copying \in [Processes -> [pc: {"none", "copying", "published"}, name: Names \cup {0},
                                  writes: 0 .. MaxWrites]]
    /\ snapshots \subseteq [name: Names, writes: 0 .. MaxWrites]
    /\ last \in Names \cup {0}
    /\ writes \in 0 .. MaxWrites

\* Whoever writes to the jobs is the only one to do so, and can fall back on the
\* snapshot published last: no snapshot, retry, crash or clock set back prunes it.
WorkIsBackedUp ==
    \A p \in Processes : worker[p] = "runs" =>
        /\ last \in PublishedNames
        /\ \A q \in Processes : worker[q] = "runs" => q = p

\* "Normal shutdown stops the acquisition thread, publishes a final snapshot, and
\* then closes SQLite": a closed store is not written to, and once the final
\* snapshot is there too, no write is missing from it.
StopIsClean ==
    \A p \in Processes : process[p].closed =>
        /\ worker[p] # "runs"
        /\ process[p].final => [name |-> last, writes |-> writes] \in snapshots

\* A process whose worker died, or whose snapshots keep failing, comes down; and
\* one that is coming down gets there.
Sick(p) == ~At(p, "down") /\ (process[p].fatal \/ worker[p] = "ended")
SickComesDown == \A p \in Processes : []<>~Sick(p)
===============================================================================
