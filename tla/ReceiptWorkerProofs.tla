------------------------- MODULE ReceiptWorkerProofs -------------------------
(***************************************************************************)
(* Proofs about ReceiptWorker, for every set of jobs and services and      *)
(* every bound.  The state-dependent part of the inductive invariant is    *)
(* proved once per kind of step (a move inside an acquisition, a read of   *)
(* the row, a write, ...); each action is then shown to be of its kind.    *)
(***************************************************************************)
EXTENDS ReceiptWorkerLedger, TLAPS

-------------------------------------------------------------------------------
(* What each operation of the job table returns, stated once so that the   *)
(* proofs about its callers need not look inside a row.                    *)

RowsOK == jobs \in [Jobs -> JobRows]

\* Row k is as it was.
SameRow(k) == jobs'[k] = jobs[k]

\* Row j differs from what it was only in these fields, and is one newer.
Rewritten(j, state, completed, failed, current) ==
    /\ jobs'[j].state = state
    /\ jobs'[j].completed = completed
    /\ jobs'[j].failed = failed
    /\ jobs'[j].current = current
    /\ jobs'[j].services = jobs[j].services
    /\ jobs'[j].version = jobs[j].version + 1
    /\ jobs'[j].before = jobs[j].before

\* What is remaining of a row is part of the request, and of the services.
LEMMA RemainingIsRequested ==
    ASSUME NEW row \in JobRows
    PROVE  /\ Remaining(row) \subseteq row.services
           /\ Remaining(row) \subseteq Services
           /\ NoService \notin Remaining(row)
BY ServicesAssumption DEF Remaining, JobRows, NoService

\* The next service is one that remains; there is none exactly when nothing
\* remains.
LEMMA NextRemains ==
    ASSUME NEW row \in JobRows, NEW s, IsNext(s, row)
    PROVE  /\ s = NoService <=> Remaining(row) = {}
           /\ s # NoService => s \in Remaining(row) /\ s \in Services
<1>1. NoService \notin Remaining(row) /\ Remaining(row) \subseteq Services
  BY RemainingIsRequested
<1>2. CASE Remaining(row) = {}
  BY <1>2 DEF IsNext
<1>3. CASE Remaining(row) # {}
  BY <1>1, <1>3 DEF IsNext
<1>4. QED  BY <1>2, <1>3

\* A rewritten row is a row.
LEMMA RewriteIsRow ==
    ASSUME NEW row \in JobRows,
           NEW state \in JobStates,
           NEW completed \in SUBSET Services,
           NEW failed \in SUBSET Services,
           NEW current \in Services \cup {NoService},
           NEW new, new = Rewrite(row, state, completed, failed, current)
    PROVE  /\ new \in JobRows
           /\ new.state = state /\ new.completed = completed
           /\ new.failed = failed /\ new.current = current
           /\ new.services = row.services /\ new.before = row.before
           /\ new.version = row.version + 1
<1>1. /\ new.state = state /\ new.completed = completed
      /\ new.failed = failed /\ new.current = current
      /\ new.services = row.services /\ new.before = row.before
      /\ new.version = row.version + 1
  BY DEF JobRows, Rewrite
<1>2. row.version + 1 \in Nat /\ row.services \in SUBSET Services /\ row.before \in SUBSET Jobs
  BY DEF JobRows
<1>3. new \in JobRows
  BY <1>1, <1>2 DEF JobRows, Rewrite
<1>4. QED  BY <1>1, <1>3

\* compare_and_set changes the row it names, by one version, and no other.
LEMMA CompareAndSetRow ==
    ASSUME RowsOK,
           NEW j \in Jobs, NEW version,
           NEW state \in JobStates,
           NEW completed \in SUBSET Services,
           NEW failed \in SUBSET Services,
           NEW current \in Services \cup {NoService},
           CompareAndSet(j, version, state, completed, failed, current)
    PROVE  /\ RowsOK'
           /\ jobs[j].version = version
           /\ Rewritten(j, state, completed, failed, current)
           /\ \A k \in Jobs \ {j} : SameRow(k)
<1> DEFINE new == Rewrite(jobs[j], state, completed, failed, current)
<1>1. jobs \in [Jobs -> JobRows] /\ jobs[j] \in JobRows
  BY DEF RowsOK
<1>2. jobs' = [jobs EXCEPT ![j] = new] /\ jobs[j].version = version
  BY DEF CompareAndSet, Fresh
<1>3. /\ new \in JobRows
      /\ new.state = state /\ new.completed = completed
      /\ new.failed = failed /\ new.current = current
      /\ new.services = jobs[j].services /\ new.before = jobs[j].before
      /\ new.version = jobs[j].version + 1
  BY <1>1, RewriteIsRow
<1> HIDE DEF new
<1>4. jobs'[j] = new /\ \A k \in Jobs \ {j} : jobs'[k] = jobs[k]
  BY <1>1, <1>2
<1>5. RowsOK'
  BY <1>1, <1>2, <1>3 DEF RowsOK
<1>6. QED
  BY <1>2, <1>3, <1>4, <1>5 DEF Rewritten, SameRow

\* create_job inserts a queued row with nothing done and touches no other.
LEMMA CreateJobRow ==
    ASSUME RowsOK,
           NEW j \in Jobs, NEW S \in SUBSET Services,
           CreateJob(j, S)
    PROVE  /\ RowsOK'
           /\ jobs[j].state = "absent"
           /\ jobs'[j].state = "queued" /\ jobs'[j].services = S
           /\ jobs'[j].completed = {} /\ jobs'[j].failed = {}
           /\ \A k \in Jobs \ {j} : SameRow(k)
<1> DEFINE new == [NoRow EXCEPT !.state = "queued",
                                !.services = S,
                                !.before = {k \in Jobs : jobs[k].state # "absent"}]
<1>1. jobs \in [Jobs -> JobRows]
  BY DEF RowsOK
<1>2. jobs' = [jobs EXCEPT ![j] = new] /\ jobs[j].state = "absent"
  BY DEF CreateJob
<1>3. new \in JobRows
  BY DEF JobRows, NoRow, JobStates, NoService
<1>4. new.state = "queued" /\ new.services = S /\ new.completed = {} /\ new.failed = {}
  BY DEF NoRow
<1> HIDE DEF new
<1>5. jobs'[j] = new /\ \A k \in Jobs \ {j} : jobs'[k] = jobs[k]
  BY <1>1, <1>2
<1>6. QED
  BY <1>1, <1>2, <1>3, <1>4, <1>5 DEF RowsOK, SameRow

\* claim_next makes a queued row the running one, on its first remaining
\* service.
LEMMA ClaimNextRow ==
    ASSUME RowsOK, NEW j \in Jobs, ClaimNext(j)
    PROVE  /\ RowsOK'
           /\ jobs[j].state = "queued"
           /\ \E s \in Services \cup {NoService} :
                /\ IsNext(s, jobs[j])
                /\ Rewritten(j, "running", jobs[j].completed, jobs[j].failed, s)
           /\ \A k \in Jobs \ {j} : SameRow(k)
<1>1. jobs[j].state = "queued" /\ jobs[j] \in JobRows
  BY DEF ClaimNext, RowsOK
<1>2. PICK s \in Services \cup {NoService} :
         /\ IsNext(s, jobs[j])
         /\ jobs' = [jobs EXCEPT ![j] =
                       Rewrite(jobs[j], "running", jobs[j].completed, jobs[j].failed, s)]
  BY DEF ClaimNext
<1>3. CompareAndSet(j, jobs[j].version, "running", jobs[j].completed, jobs[j].failed, s)
  BY <1>2 DEF CompareAndSet, Fresh
<1>4. "running" \in JobStates /\ {jobs[j].completed, jobs[j].failed} \subseteq SUBSET Services
  BY <1>1 DEF JobRows, JobStates
<1>5. QED
  BY <1>1, <1>2, <1>3, <1>4, CompareAndSetRow

\* recover_incomplete_jobs queues every incomplete row again, keeps what each
\* had completed and failed, and touches no other row.
LEMMA RecoverRow ==
    ASSUME RowsOK, RecoverIncompleteJobs
    PROVE  /\ RowsOK'
           /\ \A k \in Jobs :
                IF jobs[k].state \in Incomplete
                THEN Rewritten(k, "queued", jobs[k].completed, jobs[k].failed, NoService)
                ELSE SameRow(k)
<1> DEFINE new(k) == Rewrite(jobs[k], "queued", jobs[k].completed, jobs[k].failed, NoService)
<1>1. \A k \in Jobs : jobs[k] \in JobRows
  BY DEF RowsOK
<1>2. jobs' = [k \in Jobs |-> IF jobs[k].state \in Incomplete THEN new(k) ELSE jobs[k]]
  BY DEF RecoverIncompleteJobs
<1>3. ASSUME NEW k \in Jobs
      PROVE  /\ new(k) \in JobRows
             /\ jobs'[k] = new(k) => Rewritten(k, "queued", jobs[k].completed,
                                               jobs[k].failed, NoService)
  <2>1. {jobs[k].completed, jobs[k].failed} \subseteq SUBSET Services
        /\ "queued" \in JobStates
    BY <1>1 DEF JobRows, JobStates
  <2>2. QED  BY <1>1, <2>1, RewriteIsRow DEF Rewritten
<1> HIDE DEF new
<1>4. RowsOK'
  BY <1>1, <1>2, <1>3 DEF RowsOK
<1>5. QED
  BY <1>2, <1>3, <1>4 DEF SameRow

-------------------------------------------------------------------------------
(* The invariant in its parts.                                             *)

\* The inductive invariant without the types.
Core ==
    /\ HoldsJob
    /\ GuardIsHeld
    /\ ReadIsCurrent
    /\ ServiceIsRemaining
    /\ SuccessIsComplete
    /\ CompletedIsSaved
    /\ OutcomesAreDisjoint
    /\ LoopHeadIsSettled
    /\ LiveJobIsOwned

\* The types of the variables that are neither the table, the receipts nor
\* the thread.
AroundOK ==
    /\ guard \in {"free", "worker", "api"}
    /\ inbox \in [id: Nat, phase: {"empty", "pending", "answered", "closed"}]
    /\ viewer \in [id: Nat, proceed: BOOLEAN]
    /\ expired \in BOOLEAN
    /\ challenges \in [Jobs -> [id: Nat, kind: ChallengeKinds \cup {"none"}]]
    /\ issued \in Nat
    /\ api \in [op: {"none", "discard", "release", "notify", "submit", "continue"},
                job: Jobs \cup {NoJob}, id: Nat]
    /\ process \in [stopping: BOOLEAN, restarts: Nat, faults: Nat]

LEMMA TypeParts ==
    TypeOK <=> RowsOK /\ drive \in SUBSET Services /\ worker \in Workers /\ AroundOK
BY DEF TypeOK, RowsOK, AroundOK

LEMMA InvParts == IInv <=> TypeOK /\ Core
BY DEF IInv, Core

-------------------------------------------------------------------------------
(* What the moves of the thread do to its record.                          *)

\* Going to another place changes the place only.
LEMMA GotoFacts ==
    ASSUME worker \in Workers, NEW pc \in Places, Goto(pc)
    PROVE  /\ worker' \in Workers
           /\ worker'.pc = pc /\ worker'.plan = worker.plan
           /\ worker'.job = worker.job /\ worker'.service = worker.service
           /\ worker'.version = worker.version
BY DEF Goto, Workers

\* Turning to a plan changes the place and the plan only.
LEMMA TurnFacts ==
    ASSUME worker \in Workers, NEW plan \in Plans,
           worker' = [worker EXCEPT !.pc = "reload", !.plan = plan]
    PROVE  /\ worker' \in Workers
           /\ worker'.pc = "reload" /\ worker'.plan = plan
           /\ worker'.job = worker.job /\ worker'.service = worker.service
BY DEF Workers, Places

\* An idle or stopped thread holds no job.
LEMMA IdleFacts ==
    /\ IdleWorker \in Workers /\ DownWorker \in Workers
    /\ IdleWorker.pc = "idle" /\ IdleWorker.job = NoJob
    /\ DownWorker.pc = "down" /\ DownWorker.job = NoJob
    /\ IdleWorker.plan = "none" /\ IdleWorker.service = NoService
BY DEF IdleWorker, DownWorker, Workers, Places, Plans, NoService

\* A thread at the head of its loop.
LEMMA LoadFacts ==
    ASSUME NEW j \in Jobs, worker' = [IdleWorker EXCEPT !.pc = "load", !.job = j]
    PROVE  worker' \in Workers /\ worker'.pc = "load" /\ worker'.job = j
BY DEF IdleWorker, Workers, Places, Plans, NoService

-------------------------------------------------------------------------------
(* Steps that leave the table alone.                                       *)

RowInvariants == SuccessIsComplete /\ CompletedIsSaved /\ OutcomesAreDisjoint

\* The invariants of the table alone survive while Drive only gains receipts.
LEMMA SameTable ==
    ASSUME RowInvariants, jobs' = jobs, drive \subseteq drive'
    PROVE  RowInvariants'
BY DEF RowInvariants, SuccessIsComplete, CompletedIsSaved, OutcomesAreDisjoint

\* The places inside an acquisition between whose steps nothing has been
\* read for a write and no upload runs.
Plain == (Acquiring \cup Waiting \cup {"open", "challenge"}) \ {"upload"}

\* A move inside an acquisition.
LEMMA MoveKeepsCore ==
    ASSUME IInv, UNCHANGED <<jobs, drive, guard, api, process>>,
           worker.pc \in Plain, worker'.pc \in Plain,
           worker'.job = worker.job, worker'.service = worker.service
    PROVE  Core'
<1> USE DEF IInv, Plain, Acquiring, Waiting, Row, Cancelled, Stopping
<1>1. HoldsJob'  BY DEF HoldsJob
<1>2. GuardIsHeld'  BY DEF GuardIsHeld
<1>3. ReadIsCurrent'  BY DEF ReadIsCurrent
<1>4. ServiceIsRemaining'  BY DEF ServiceIsRemaining, OnService, Listed, Remaining
<1>5. RowInvariants'  BY SameTable DEF RowInvariants
<1>6. LoopHeadIsSettled'  BY DEF LoopHeadIsSettled
<1>7. LiveJobIsOwned'  BY DEF LiveJobIsOwned
<1>8. QED  BY <1>1, <1>2, <1>3, <1>4, <1>5, <1>6, <1>7 DEF Core, RowInvariants

\* An acquisition, or the thread after an error, turns to a write: the row is
\* about to be read again.
LEMMA TurnKeepsCore ==
    ASSUME IInv, UNCHANGED <<jobs, api>>, drive \subseteq drive',
           worker.pc \notin {"idle", "down"}, worker'.pc = "reload",
           worker'.job = worker.job, worker'.service = worker.service,
           guard' = IF worker.pc = "upload" THEN "free" ELSE guard,
           worker'.plan = "unexpected" \/ OnService,
           worker'.plan = "complete" => Listed,
           process'.stopping = process.stopping,
           process'.faults = 0 => process.faults = 0
    PROVE  Core'
<1> USE DEF IInv, Row, Cancelled, Stopping
<1>1. HoldsJob'  BY DEF HoldsJob
<1>2. GuardIsHeld'  BY DEF GuardIsHeld
<1>3. ReadIsCurrent'  BY DEF ReadIsCurrent
<1>4. ServiceIsRemaining'
  BY DEF ServiceIsRemaining, OnService, Acquiring, Waiting, Listed, Remaining
<1>5. RowInvariants'  BY SameTable DEF RowInvariants
<1>6. LoopHeadIsSettled'  BY DEF LoopHeadIsSettled
<1>7. LiveJobIsOwned'  BY DEF LiveJobIsOwned
<1>8. QED  BY <1>1, <1>2, <1>3, <1>4, <1>5, <1>6, <1>7 DEF Core, RowInvariants

\* The thread lets go of a job that needs it no longer.
LEMMA DropKeepsCore ==
    ASSUME IInv, UNCHANGED <<jobs, drive, guard, api>>,
           worker.pc \notin {"idle", "down", "upload"}, worker' = IdleWorker,
           Row.state \notin Incomplete \/ Stopping \/ process'.faults # 0,
           process'.stopping = process.stopping,
           process'.faults = 0 => process.faults = 0
    PROVE  Core'
<1> USE DEF IInv, Row, Cancelled, Stopping
<1>0. worker'.pc = "idle" /\ worker'.job = NoJob
  BY IdleFacts
<1>1. HoldsJob'  BY <1>0 DEF HoldsJob
<1>2. GuardIsHeld'  BY <1>0 DEF GuardIsHeld
<1>3. ReadIsCurrent'  BY <1>0 DEF ReadIsCurrent
<1>4. ServiceIsRemaining'
  BY <1>0 DEF ServiceIsRemaining, OnService, Acquiring, Waiting
<1>5. RowInvariants'  BY SameTable DEF RowInvariants
<1>6. LoopHeadIsSettled'  BY <1>0 DEF LoopHeadIsSettled
<1>7. LiveJobIsOwned'
  BY <1>0 DEF LiveJobIsOwned
<1>8. QED  BY <1>1, <1>2, <1>3, <1>4, <1>5, <1>6, <1>7 DEF Core, RowInvariants

\* The row has been read for a write.
LEMMA ReadKeepsCore ==
    ASSUME IInv, UNCHANGED <<jobs, drive, guard, api, process>>,
           worker.pc \in {"load", "challenge", "reload"},
           worker'.pc \in {"finish", "open", "publish", "write"},
           worker'.job = worker.job, worker'.version = Row.version,
           OnService' => worker'.service \in Remaining(Row),
           worker'.pc = "finish" => Remaining(Row) = {},
           worker'.pc = "write" /\ worker'.plan = "complete" => worker'.service \in drive,
           worker'.pc = "finish" => ~Cancelled,
           worker'.pc = "write" /\ Cancelled => worker'.plan = "resumeCode"
    PROVE  Core'
<1> USE DEF IInv, Row, Cancelled, Stopping
<1>0. worker.job \in Jobs /\ Row \in JobRows /\ Row.version \in Nat
  BY DEF HoldsJob, TypeOK, Workers, JobRows
<1>1. HoldsJob'  BY DEF HoldsJob
<1>2. GuardIsHeld'  BY DEF GuardIsHeld
<1>3. ReadIsCurrent'  BY <1>0 DEF ReadIsCurrent, Fresh
<1>4. ServiceIsRemaining'  BY DEF ServiceIsRemaining, Listed
<1>5. RowInvariants'  BY SameTable DEF RowInvariants
<1>6. LoopHeadIsSettled'  BY DEF LoopHeadIsSettled
<1>7. LiveJobIsOwned'  BY DEF LiveJobIsOwned
<1>8. QED  BY <1>1, <1>2, <1>3, <1>4, <1>5, <1>6, <1>7 DEF Core, RowInvariants

\* A step of somebody else that touches neither the table nor the thread.
LEMMA OthersKeepCore ==
    ASSUME IInv, UNCHANGED <<jobs, drive, worker>>,
           guard' = IF api.op \in {"discard", "release"} THEN "free" ELSE guard,
           api'.op \notin {"discard", "release"},
           process'.stopping \/ process'.stopping = process.stopping,
           process'.faults = process.faults
    PROVE  Core'
<1> USE DEF IInv, Row, Cancelled, Stopping
<1>1. HoldsJob'  BY DEF HoldsJob
<1>2. GuardIsHeld'  BY DEF GuardIsHeld
<1>3. ReadIsCurrent'  BY DEF ReadIsCurrent, Fresh, Remaining
<1>4. ServiceIsRemaining'  BY DEF ServiceIsRemaining, OnService, Listed, Remaining
<1>5. RowInvariants'  BY SameTable DEF RowInvariants
<1>6. LoopHeadIsSettled'  BY DEF LoopHeadIsSettled
<1>7. LiveJobIsOwned'  BY DEF LiveJobIsOwned
<1>8. QED  BY <1>1, <1>2, <1>3, <1>4, <1>5, <1>6, <1>7 DEF Core, RowInvariants

-------------------------------------------------------------------------------
(* Steps that write a row.                                                 *)

\* The next service of a row depends only on what remains of it.
LEMMA SameRemaining ==
    ASSUME NEW s, NEW r1, NEW r2, Remaining(r1) = Remaining(r2), IsNext(s, r1)
    PROVE  IsNext(s, r2)
BY DEF IsNext

\* The thread writes back the row it has read: it then drops the job that
\* has ended, takes its next service, or goes on with the same one.
LEMMA WriteKeepsCore ==
    ASSUME IInv, UNCHANGED <<drive, guard, api, process>>,
           worker.pc \in {"finish", "publish", "write"},
           NEW state, NEW completed, NEW failed, NEW current,
           Rewritten(worker.job, state, completed, failed, current),
           \A k \in Jobs \ {worker.job} : SameRow(k),
           completed \subseteq drive,
           completed \cup failed \subseteq Row.services,
           completed \cap failed = {},
           state = "succeeded" => Row.services \subseteq completed,
           \/ worker' = IdleWorker /\ state \in Terminal
           \/ /\ worker'.job = worker.job /\ worker'.pc = "load"
              /\ state = "running" /\ IsNext(current, jobs'[worker.job])
           \/ /\ worker'.job = worker.job /\ worker'.pc \in Plain
              /\ worker'.service = worker.service
              /\ state \in Incomplete /\ OnService
              /\ completed = Row.completed /\ failed = Row.failed
    PROVE  Core'
<1> USE DEF IInv, Row, Cancelled, Stopping
<1>1. worker.job \in Jobs /\ worker.job # NoJob
  BY DEF HoldsJob, TypeOK, Workers
<1>2. /\ Row.services = jobs'[worker.job].services
      /\ jobs'[worker.job].state = state
      /\ jobs'[worker.job].completed = completed
      /\ jobs'[worker.job].failed = failed
      /\ jobs'[worker.job].current = current
  BY DEF Rewritten
<1>3. \A k \in Jobs : k # worker.job => jobs'[k] = jobs[k]
  BY DEF SameRow
<1>4. RowInvariants'
  <2>1. SuccessIsComplete'  BY <1>2, <1>3 DEF SuccessIsComplete
  <2>2. CompletedIsSaved'  BY <1>2, <1>3 DEF CompletedIsSaved
  <2>3. OutcomesAreDisjoint'  BY <1>2, <1>3 DEF OutcomesAreDisjoint
  <2>4. QED  BY <2>1, <2>2, <2>3 DEF RowInvariants
<1> DEFINE Others == \A k \in Jobs : jobs'[k].state \in Incomplete => k = worker.job
<1>5. worker'.pc # "down" /\ ~Stopping' /\ process'.faults = 0 => Others
  BY <1>3, <1>1 DEF LiveJobIsOwned
<1>6. CASE worker' = IdleWorker /\ state \in Terminal
  <2>0. worker'.pc = "idle" /\ worker'.job = NoJob
    BY <1>6, IdleFacts
  <2>1. HoldsJob'  BY <2>0 DEF HoldsJob
  <2>2. GuardIsHeld'  BY <2>0 DEF GuardIsHeld
  <2>3. ReadIsCurrent'  BY <2>0 DEF ReadIsCurrent
  <2>4. ServiceIsRemaining'
    BY <2>0 DEF ServiceIsRemaining, OnService, Acquiring, Waiting
  <2>5. LoopHeadIsSettled'  BY <2>0 DEF LoopHeadIsSettled
  <2>6. LiveJobIsOwned'
    BY <1>2, <1>5, <1>6 DEF LiveJobIsOwned, Terminal, Incomplete
  <2>7. QED  BY <1>4, <2>1, <2>2, <2>3, <2>4, <2>5, <2>6 DEF Core, RowInvariants
<1>7. CASE /\ worker'.job = worker.job /\ worker'.pc = "load"
           /\ state = "running" /\ IsNext(current, jobs'[worker.job])
  <2>1. HoldsJob'  BY <1>1, <1>2, <1>7 DEF HoldsJob, Incomplete
  <2>2. GuardIsHeld'  BY <1>7 DEF GuardIsHeld
  <2>3. ReadIsCurrent'  BY <1>7 DEF ReadIsCurrent
  <2>4. ServiceIsRemaining'
    BY <1>7 DEF ServiceIsRemaining, OnService, Acquiring, Waiting
  <2>5. LoopHeadIsSettled'  BY <1>2, <1>7 DEF LoopHeadIsSettled
  <2>6. LiveJobIsOwned'  BY <1>5, <1>7 DEF LiveJobIsOwned
  <2>7. QED  BY <1>4, <2>1, <2>2, <2>3, <2>4, <2>5, <2>6 DEF Core, RowInvariants
<1>8. CASE /\ worker'.job = worker.job /\ worker'.pc \in Plain
           /\ worker'.service = worker.service
           /\ state \in Incomplete /\ OnService
           /\ completed = Row.completed /\ failed = Row.failed
  <2>0. worker'.pc \notin {"idle", "down", "upload", "load", "finish", "publish", "write", "reload"}
    BY <1>8 DEF Plain, Acquiring, Waiting
  <2>1. HoldsJob'  BY <1>1, <1>2, <1>8, <2>0 DEF HoldsJob
  <2>2. GuardIsHeld'  BY <2>0 DEF GuardIsHeld
  <2>3. ReadIsCurrent'  BY <2>0 DEF ReadIsCurrent
  <2>4. ServiceIsRemaining'
    BY <1>2, <1>8, <2>0 DEF ServiceIsRemaining, Remaining
  <2>5. LoopHeadIsSettled'  BY <2>0 DEF LoopHeadIsSettled
  <2>6. LiveJobIsOwned'  BY <1>5, <1>8, <2>0 DEF LiveJobIsOwned
  <2>7. QED  BY <1>4, <2>1, <2>2, <2>3, <2>4, <2>5, <2>6 DEF Core, RowInvariants
<1>9. QED  BY <1>6, <1>7, <1>8

\* A new job disturbs nothing that exists.
LEMMA RequestKeepsCore ==
    ASSUME IInv, NEW j \in Jobs, NEW S \in SUBSET Services, RequestJob(j, S)
    PROVE  RowsOK' /\ Core'
<1> USE DEF IInv, Row, Cancelled, Stopping
<1>1. /\ RowsOK'
      /\ jobs[j].state = "absent" /\ jobs'[j].state = "queued"
      /\ jobs'[j].completed = {} /\ jobs'[j].failed = {}
      /\ \A k \in Jobs : k # j => jobs'[k] = jobs[k]
  BY TypeParts, CreateJobRow DEF RequestJob, SameRow
<1>2. UNCHANGED <<drive, worker, guard, api, process>>
  BY DEF RequestJob
<1>3. worker.job # NoJob => worker.job \in Jobs /\ worker.job # j
  BY <1>1 DEF HoldsJob, TypeOK, Workers, Incomplete
<1>4. worker.job # NoJob => jobs'[worker.job] = jobs[worker.job]
  BY <1>1, <1>3
<1>5. worker.pc \notin {"idle", "down"} => worker.job # NoJob
  BY DEF HoldsJob
<1>6. HoldsJob'  BY <1>2, <1>4 DEF HoldsJob
<1>7. GuardIsHeld'  BY <1>2, <1>4, <1>5 DEF GuardIsHeld
<1>8. ReadIsCurrent'
  BY <1>2, <1>4, <1>5 DEF ReadIsCurrent, Fresh
<1>9. ServiceIsRemaining'
  BY <1>2, <1>4, <1>5 DEF ServiceIsRemaining, OnService, Acquiring, Waiting, Listed
<1>10. RowInvariants'
  BY <1>1, <1>2 DEF RowInvariants, SuccessIsComplete, CompletedIsSaved, OutcomesAreDisjoint
<1>11. LoopHeadIsSettled'  BY <1>2, <1>4, <1>5 DEF LoopHeadIsSettled
<1>12. LiveJobIsOwned'  BY <1>1, <1>2 DEF LiveJobIsOwned, Incomplete
<1>13. QED
  BY <1>1, <1>6, <1>7, <1>8, <1>9, <1>10, <1>11, <1>12 DEF Core, RowInvariants

\* A cancellation: the thread keeps the job in its hands, and whatever it has
\* read of the row is out of date from now on.
LEMMA CancelKeepsCore ==
    ASSUME IInv, NEW j \in Jobs, CancelJob(j)
    PROVE  RowsOK' /\ Core'
<1> USE DEF IInv, Row, Cancelled, Stopping
<1>0. RowsOK /\ jobs[j] \in JobRows
  BY DEF TypeOK, RowsOK
<1>1. /\ RowsOK'
      /\ Rewritten(j, "cancelled", jobs[j].completed, jobs[j].failed, NoService)
      /\ \A k \in Jobs \ {j} : SameRow(k)
  <2>1. CompareAndSet(j, jobs[j].version, "cancelled", jobs[j].completed, jobs[j].failed,
                      NoService)
    BY DEF CancelJob
  <2>2. {jobs[j].completed, jobs[j].failed} \subseteq SUBSET Services
        /\ "cancelled" \in JobStates /\ NoService \in Services \cup {NoService}
    BY <1>0 DEF JobRows, JobStates
  <2>3. QED  BY <1>0, <2>1, <2>2, CompareAndSetRow
<1>2. /\ UNCHANGED <<drive, worker, process>>
      /\ guard = "free" /\ guard' = "api"
      /\ api'.op \in {"discard", "release"}
  BY DEF CancelJob
<1>3. /\ jobs'[j].state = "cancelled" /\ jobs'[j].version = jobs[j].version + 1
      /\ jobs'[j].completed = jobs[j].completed /\ jobs'[j].failed = jobs[j].failed
      /\ jobs'[j].services = jobs[j].services
      /\ \A k \in Jobs : k # j => jobs'[k] = jobs[k]
  BY <1>1 DEF Rewritten, SameRow
<1>4. worker.pc \notin {"idle", "down"} => worker.job \in Jobs /\ worker.job # NoJob
  BY DEF HoldsJob, TypeOK, Workers
<1>5. jobs[j].version \in Nat /\ worker.version \in Nat
  BY <1>0 DEF JobRows, TypeOK, Workers
<1>6. HoldsJob'
  BY <1>2, <1>3, <1>4 DEF HoldsJob
<1>7. GuardIsHeld'  BY <1>2 DEF GuardIsHeld
<1>8. ReadIsCurrent'
  <2>1. CASE worker.job = j
    BY <1>2, <1>3, <1>5, <2>1 DEF ReadIsCurrent, Fresh, Remaining
  <2>2. CASE worker.job # j
    BY <1>2, <1>3, <1>4, <2>2 DEF ReadIsCurrent, Fresh
  <2>3. QED  BY <2>1, <2>2
<1>9. ServiceIsRemaining'
  <2>1. worker.pc \notin {"idle", "down"} => Remaining(Row') = Remaining(Row)
    BY <1>2, <1>3, <1>4 DEF Remaining
  <2>2. QED
    BY <1>2, <2>1 DEF ServiceIsRemaining, OnService, Acquiring, Waiting, Listed
<1>10. RowInvariants'
  BY <1>2, <1>3 DEF RowInvariants, SuccessIsComplete, CompletedIsSaved, OutcomesAreDisjoint
<1>11. LoopHeadIsSettled'
  BY <1>2, <1>3, <1>4 DEF LoopHeadIsSettled
<1>12. LiveJobIsOwned'  BY <1>2, <1>3 DEF LiveJobIsOwned, Incomplete
<1>13. QED
  BY <1>1, <1>6, <1>7, <1>8, <1>9, <1>10, <1>11, <1>12 DEF Core, RowInvariants

\* A claim takes the oldest queued row into the thread's hands.
LEMMA ClaimKeepsCore ==
    ASSUME IInv, NEW j \in Jobs, Claim(j)
    PROVE  RowsOK' /\ worker' \in Workers /\ Core'
<1> USE DEF IInv, Row, Cancelled, Stopping
<1>1. PICK s \in Services \cup {NoService} :
        /\ RowsOK'
        /\ jobs[j].state = "queued"
        /\ IsNext(s, jobs[j])
        /\ Rewritten(j, "running", jobs[j].completed, jobs[j].failed, s)
        /\ \A k \in Jobs \ {j} : SameRow(k)
  BY TypeParts, ClaimNextRow DEF Claim
<1>2. /\ UNCHANGED <<drive, guard, api, process>>
      /\ worker.pc = "idle" /\ ~Stopping
      /\ worker' \in Workers /\ worker'.pc = "load" /\ worker'.job = j
  BY LoadFacts DEF Claim
<1>3. /\ jobs'[j].state = "running" /\ jobs'[j].current = s
      /\ jobs'[j].completed = jobs[j].completed /\ jobs'[j].failed = jobs[j].failed
      /\ jobs'[j].services = jobs[j].services
      /\ \A k \in Jobs : k # j => jobs'[k] = jobs[k]
  BY <1>1 DEF Rewritten, SameRow
<1>4. j # NoJob
  BY NoJobAssumption
<1>5. IsNext(s, jobs'[j])
  BY <1>1, <1>3, SameRemaining DEF Remaining
<1>6. HoldsJob'  BY <1>2, <1>3, <1>4 DEF HoldsJob, Incomplete
<1>7. GuardIsHeld'  BY <1>2 DEF GuardIsHeld
<1>8. ReadIsCurrent'  BY <1>2 DEF ReadIsCurrent
<1>9. ServiceIsRemaining'  BY <1>2 DEF ServiceIsRemaining, OnService, Acquiring, Waiting
<1>10. RowInvariants'
  BY <1>2, <1>3 DEF RowInvariants, SuccessIsComplete, CompletedIsSaved, OutcomesAreDisjoint
<1>11. LoopHeadIsSettled'  BY <1>2, <1>3, <1>5 DEF LoopHeadIsSettled
<1>12. LiveJobIsOwned'
  <2>1. process.faults = 0 => \A k \in Jobs : jobs[k].state \notin Incomplete
    BY <1>2, NoJobAssumption DEF LiveJobIsOwned, HoldsJob
  <2>2. QED  BY <1>2, <1>3, <2>1 DEF LiveJobIsOwned
<1>13. QED
  BY <1>1, <1>2, <1>6, <1>7, <1>8, <1>9, <1>10, <1>11, <1>12 DEF Core, RowInvariants

\* Startup queues again what the last process left RUNNING or WAITING.
LEMMA StartKeepsCore ==
    ASSUME IInv, StartProcess
    PROVE  RowsOK' /\ Core'
<1> USE DEF IInv, Row, Cancelled, Stopping
<1>1. /\ RowsOK'
      /\ \A k \in Jobs :
           IF jobs[k].state \in Incomplete
           THEN Rewritten(k, "queued", jobs[k].completed, jobs[k].failed, NoService)
           ELSE SameRow(k)
  BY TypeParts, RecoverRow DEF StartProcess
<1>2. /\ UNCHANGED <<drive, guard, api, process>>
      /\ worker.pc = "down" /\ worker'.pc = "idle" /\ worker'.job = NoJob
  BY IdleFacts DEF StartProcess
<1>3. \A k \in Jobs :
        /\ jobs'[k].services = jobs[k].services
        /\ jobs'[k].completed = jobs[k].completed /\ jobs'[k].failed = jobs[k].failed
        /\ jobs'[k].state \notin Incomplete
        /\ jobs'[k].state = "succeeded" => jobs[k].state = "succeeded"
  BY <1>1 DEF Rewritten, SameRow, Incomplete
<1>4. HoldsJob'  BY <1>2 DEF HoldsJob
<1>5. GuardIsHeld'  BY <1>2 DEF GuardIsHeld
<1>6. ReadIsCurrent'  BY <1>2 DEF ReadIsCurrent
<1>7. ServiceIsRemaining'  BY <1>2 DEF ServiceIsRemaining, OnService, Acquiring, Waiting
<1>8. RowInvariants'
  BY <1>2, <1>3 DEF RowInvariants, SuccessIsComplete, CompletedIsSaved, OutcomesAreDisjoint
<1>9. LoopHeadIsSettled'  BY <1>2 DEF LoopHeadIsSettled
<1>10. LiveJobIsOwned'  BY <1>3 DEF LiveJobIsOwned
<1>11. QED
  BY <1>1, <1>4, <1>5, <1>6, <1>7, <1>8, <1>9, <1>10 DEF Core, RowInvariants

\* The end of the process, orderly or not, loses only what is in memory.
LEMMA EndKeepsCore ==
    ASSUME IInv, ProcessEnds
    PROVE  Core'
<1> USE DEF IInv, Row, Cancelled, Stopping
<1>1. /\ jobs' = jobs /\ drive \subseteq drive'
      /\ guard' = "free" /\ api' = NoRequest
      /\ worker'.pc = "down" /\ worker'.job = NoJob
  BY IdleFacts DEF ProcessEnds
<1>2. HoldsJob'  BY <1>1 DEF HoldsJob
<1>3. GuardIsHeld'  BY <1>1 DEF GuardIsHeld, NoRequest
<1>4. ReadIsCurrent'  BY <1>1 DEF ReadIsCurrent
<1>5. ServiceIsRemaining'  BY <1>1 DEF ServiceIsRemaining, OnService, Acquiring, Waiting
<1>6. RowInvariants'  BY <1>1, SameTable DEF RowInvariants
<1>7. LoopHeadIsSettled'  BY <1>1 DEF LoopHeadIsSettled
<1>8. LiveJobIsOwned'  BY <1>1 DEF LiveJobIsOwned
<1>9. QED  BY <1>2, <1>3, <1>4, <1>5, <1>6, <1>7, <1>8 DEF Core, RowInvariants

-------------------------------------------------------------------------------
(* Every action preserves the inductive invariant.  What follows of each   *)
(* state is Good': the types of the three main variables, and Core.        *)

Good == RowsOK /\ drive \in SUBSET Services /\ worker \in Workers /\ Core

\* The thread works on a job of the table and on one of its services.
LEMMA HeldRow ==
    ASSUME IInv, worker.pc \notin {"idle", "down"}
    PROVE  /\ worker.job \in Jobs /\ Row \in JobRows
           /\ Row.state \in Incomplete \cup {"cancelled"}
           /\ worker \in Workers /\ RowsOK /\ drive \in SUBSET Services
           /\ OnService => worker.service \in Remaining(Row) /\ worker.service \in Services
<1>1. worker.job \in Jobs
  BY DEF IInv, HoldsJob, TypeOK, Workers
<1>2. Row \in JobRows
  BY <1>1 DEF IInv, TypeOK, Row
<1>3. QED
  BY <1>1, <1>2, RemainingIsRequested
     DEF IInv, HoldsJob, ServiceIsRemaining, TypeOK, RowsOK

\* A place inside an acquisition or a wait works on a service.
LEMMA PlacesOnService ==
    /\ Plain \subseteq Places
    /\ worker.pc \in Plain => worker.pc \notin {"idle", "down"} /\ OnService
BY DEF Plain, Places, OnService, Acquiring, Waiting

\* Leaving the browser for a write, from any place that works on a service.
LEMMA LeaveIsGood ==
    ASSUME IInv, NEW plan \in Plans,
           worker' = [worker EXCEPT !.pc = "reload", !.plan = plan],
           UNCHANGED <<jobs, api>>, drive' \in SUBSET Services, drive \subseteq drive',
           worker.pc \notin {"idle", "down"},
           guard' = IF worker.pc = "upload" THEN "free" ELSE guard,
           plan = "unexpected" \/ OnService, plan = "complete" => Listed,
           process'.stopping = process.stopping,
           process'.faults = 0 => process.faults = 0
    PROVE  Good'
<1>1. worker \in Workers /\ RowsOK
  BY HeldRow
<1>2. /\ worker' \in Workers
      /\ worker'.pc = "reload" /\ worker'.plan = plan
      /\ worker'.job = worker.job /\ worker'.service = worker.service
  BY <1>1, TurnFacts
<1>3. Core'
  BY <1>2, TurnKeepsCore
<1>4. QED  BY <1>1, <1>2, <1>3 DEF Good, RowsOK

\* Going from one place of an acquisition to the next.
LEMMA GotoIsGood ==
    ASSUME IInv, NEW pc \in Plain, Goto(pc), worker.pc \in Plain,
           UNCHANGED <<jobs, drive, guard, api, process>>
    PROVE  Good'
<1>1. worker \in Workers /\ RowsOK /\ drive \in SUBSET Services
  BY HeldRow, PlacesOnService
<1>2. /\ worker' \in Workers /\ worker'.pc = pc
      /\ worker'.job = worker.job /\ worker'.service = worker.service
  BY <1>1, GotoFacts, PlacesOnService
<1>3. Core'
  BY <1>2, MoveKeepsCore
<1>4. QED  BY <1>1, <1>2, <1>3 DEF Good, RowsOK

\* Dropping the job.
LEMMA DropIsGood ==
    ASSUME IInv, UNCHANGED <<jobs, drive, guard, api>>,
           worker.pc \notin {"idle", "down", "upload"}, worker' = IdleWorker,
           Row.state \notin Incomplete \/ Stopping \/ process'.faults # 0,
           process'.stopping = process.stopping,
           process'.faults = 0 => process.faults = 0
    PROVE  Good'
<1>1. RowsOK /\ drive \in SUBSET Services
  BY HeldRow
<1>2. Core'  BY DropKeepsCore
<1>3. QED  BY <1>1, <1>2, IdleFacts DEF Good, RowsOK

\* The steps of an acquisition.
LEMMA AcquireGood ==
    ASSUME IInv, OpenBrowser \/ AcquireStep
    PROVE  Good'
<1> USE PlacesOnService
<1>1. CASE OpenBrowser
  <2>1. CASE Goto("check")
    BY <1>1, <2>1, GotoIsGood DEF OpenBrowser, Plain, Acquiring
  <2>2. CASE LeaveBrowser("unexpected")
    BY <1>1, <2>2, HeldRow, LeaveIsGood DEF OpenBrowser, LeaveBrowser, Plans
  <2>3. QED  BY <1>1, <2>1, <2>2 DEF OpenBrowser
<1> DEFINE Leaves(pc) ==
             /\ worker.pc = pc
             /\ \E plan \in Plans : /\ LeaveBrowser(plan)
                                    /\ plan = "complete" => Listed
             /\ UNCHANGED <<jobs, drive, guard, api, process>>
           Goes(pc, next) ==
             /\ worker.pc = pc /\ Goto(next)
             /\ UNCHANGED <<jobs, drive, guard, api, process>>
<1>2. ASSUME NEW pc \in Plain, Leaves(pc)
      PROVE  Good'
  <2>1. PICK plan \in Plans : LeaveBrowser(plan) /\ (plan = "complete" => Listed)
    BY <1>2
  <2>2. worker.pc # "upload"
    BY <1>2 DEF Plain
  <2>3. QED  BY <1>2, <2>1, <2>2, HeldRow, LeaveIsGood DEF LeaveBrowser
<1>3. ASSUME NEW pc \in Plain, NEW next \in Plain, Goes(pc, next)
      PROVE  Good'
  BY <1>3, GotoIsGood
<1>4. {"check", "beginFetch", "fetching", "recheck", "save", "verify"} \subseteq Plain
      /\ {"failService", "failJob", "complete", "intervene"} \subseteq Plans
  BY DEF Plain, Acquiring, Plans
<1>5. CASE CheckDrive
  <2>1. Leaves("check") \/ Goes("check", "beginFetch")
    BY <1>4, <1>5 DEF CheckDrive
  <2>2. QED  BY <1>2, <1>3, <1>4, <2>1
<1>6. CASE BeginFetch
  <2>1. Leaves("beginFetch") \/ Goes("beginFetch", "fetching")
    BY <1>4, <1>6 DEF BeginFetch
  <2>2. QED  BY <1>2, <1>3, <1>4, <2>1
<1>7. CASE EndFetch
  <2>1. CASE \E k \in ChallengeKinds \cup {"unsupported"} :
               worker' = [worker EXCEPT !.pc = "challenge", !.kind = k]
    <3>1. worker \in Workers /\ worker.pc = "fetching" /\ RowsOK /\ drive \in SUBSET Services
      BY <1>4, <1>7, HeldRow DEF EndFetch
    <3>2. /\ worker' \in Workers /\ worker'.pc = "challenge"
          /\ worker'.job = worker.job /\ worker'.service = worker.service
      BY <2>1, <3>1 DEF Workers, Places
    <3>3. worker'.pc \in Plain /\ worker.pc \in Plain
      BY <1>4, <3>1, <3>2 DEF Plain
    <3>4. Core'
      BY <1>7, <3>2, <3>3, MoveKeepsCore DEF EndFetch
    <3>5. QED  BY <1>7, <3>1, <3>2, <3>4 DEF EndFetch, Good, RowsOK
  <2>2. CASE ~ \E k \in ChallengeKinds \cup {"unsupported"} :
               worker' = [worker EXCEPT !.pc = "challenge", !.kind = k]
    <3>1. Leaves("fetching") \/ Goes("fetching", "recheck")
      BY <1>4, <1>7, <2>2 DEF EndFetch
    <3>2. QED  BY <1>2, <1>3, <1>4, <3>1
  <2>3. QED  BY <2>1, <2>2
<1>8. CASE RecheckDrive
  <2>1. Leaves("recheck") \/ Goes("recheck", "save")
    BY <1>4, <1>8 DEF RecheckDrive
  <2>2. QED  BY <1>2, <1>3, <1>4, <2>1
<1>9. CASE TakeGuard
  <2>1. CASE Cancelled
    <3>1. Leaves("save")
      BY <1>4, <1>9, <2>1 DEF TakeGuard
    <3>2. QED  BY <1>2, <1>4, <3>1
  <2>2. CASE ~Cancelled
    <3>1. /\ Goto("upload") /\ worker.pc = "save" /\ guard = "free" /\ guard' = "worker"
          /\ UNCHANGED <<jobs, drive, api, process>>
      BY <1>9, <2>2 DEF TakeGuard
    <3>2. worker \in Workers /\ RowsOK /\ drive \in SUBSET Services /\ worker.job # NoJob
          /\ worker.job \in Jobs
      BY <3>1, HeldRow, NoJobAssumption
    <3>3. /\ worker' \in Workers /\ worker'.pc = "upload"
          /\ worker'.job = worker.job /\ worker'.service = worker.service
      BY <3>1, <3>2, GotoFacts DEF Places, Acquiring
    <3>4. HoldsJob'  BY <3>1, <3>2, <3>3 DEF IInv, HoldsJob, Row
    <3>5. GuardIsHeld'
      BY <2>2, <3>1, <3>3 DEF IInv, GuardIsHeld, Cancelled, Row
    <3>6. ReadIsCurrent'  BY <3>3 DEF ReadIsCurrent
    <3>7. ServiceIsRemaining'
      BY <3>1, <3>3 DEF IInv, ServiceIsRemaining, OnService, Acquiring, Waiting, Row, Remaining
    <3>8. RowInvariants'  BY <3>1, SameTable DEF IInv, RowInvariants
    <3>9. LoopHeadIsSettled'  BY <3>3 DEF LoopHeadIsSettled
    <3>10. LiveJobIsOwned'
      BY <3>1, <3>3 DEF IInv, LiveJobIsOwned, Stopping
    <3>11. QED
      BY <3>1, <3>2, <3>3, <3>4, <3>5, <3>6, <3>7, <3>8, <3>9, <3>10
         DEF Good, Core, RowsOK, RowInvariants
  <2>3. QED  BY <2>1, <2>2
<1>10. CASE Upload
  <2>1. /\ worker.pc = "upload" /\ guard' = "free"
        /\ UNCHANGED <<jobs, api, process>>
        /\ drive' \in {drive, drive \cup {worker.service}}
    BY <1>10 DEF Upload
  <2>2. worker.pc \notin {"idle", "down"} /\ OnService
    BY <2>1 DEF OnService, Acquiring
  <2>3. /\ worker \in Workers /\ RowsOK /\ drive \in SUBSET Services
        /\ worker.service \in Services /\ worker.job \in Jobs
    BY <2>2, HeldRow
  <2>4. drive' \in SUBSET Services /\ drive \subseteq drive'
    BY <2>1, <2>3
  <2>5. CASE LeaveBrowser("failJob")
    BY <1>4, <2>1, <2>2, <2>4, <2>5, LeaveIsGood DEF LeaveBrowser
  <2>6. CASE Goto("verify")
    <3>1. /\ worker' \in Workers /\ worker'.pc = "verify"
          /\ worker'.job = worker.job /\ worker'.service = worker.service
      BY <2>3, <2>6, GotoFacts DEF Places, Acquiring
    <3>2. HoldsJob'  BY <2>1, <3>1 DEF IInv, HoldsJob, Row
    <3>3. GuardIsHeld'  BY <2>1, <3>1 DEF IInv, GuardIsHeld
    <3>4. ReadIsCurrent'  BY <3>1 DEF ReadIsCurrent
    <3>5. ServiceIsRemaining'
      BY <2>1, <2>2, <3>1 DEF IInv, ServiceIsRemaining, Row, Remaining
    <3>6. RowInvariants'  BY <2>1, <2>4, SameTable DEF IInv, RowInvariants
    <3>7. LoopHeadIsSettled'  BY <3>1 DEF LoopHeadIsSettled
    <3>8. LiveJobIsOwned'  BY <2>1, <3>1 DEF IInv, LiveJobIsOwned, Stopping
    <3>9. QED
      BY <2>1, <2>3, <2>4, <3>1, <3>2, <3>3, <3>4, <3>5, <3>6, <3>7, <3>8
         DEF Good, Core, RowsOK, RowInvariants
  <2>7. QED  BY <1>10, <2>5, <2>6 DEF Upload
<1>11. CASE VerifyDrive
  <2>1. Leaves("verify")
    BY <1>4, <1>11 DEF VerifyDrive
  <2>2. QED  BY <1>2, <1>4, <2>1
<1>12. QED
  BY <1>1, <1>5, <1>6, <1>7, <1>8, <1>9, <1>10, <1>11 DEF AcquireStep

\* A write of the row the thread has read, as it has read it.
LEMMA WriteIsGood ==
    ASSUME IInv, UNCHANGED <<drive, guard, api, process>>,
           worker.pc \in {"finish", "publish", "write"},
           NEW state \in JobStates, NEW completed, NEW failed,
           NEW current \in Services \cup {NoService},
           CompareAndSet(worker.job, worker.version, state, completed, failed, current),
           completed \subseteq drive,
           completed \cup failed \subseteq Row.services,
           completed \cap failed = {},
           state = "succeeded" => Row.services \subseteq completed,
           worker' \in Workers,
           \/ worker' = IdleWorker /\ state \in Terminal
           \/ /\ worker'.job = worker.job /\ worker'.pc = "load" /\ state = "running"
              /\ \E row : /\ Remaining(row) = Row.services \ (completed \cup failed)
                          /\ IsNext(current, row)
           \/ /\ worker'.job = worker.job /\ worker'.pc \in Plain
              /\ worker'.service = worker.service
              /\ state \in Incomplete /\ OnService
              /\ completed = Row.completed /\ failed = Row.failed
    PROVE  Good'
<1>1. /\ RowsOK /\ worker.job \in Jobs /\ drive \in SUBSET Services
      /\ Row.services \in SUBSET Services
  BY HeldRow DEF JobRows
<1>2. completed \in SUBSET Services /\ failed \in SUBSET Services
  BY <1>1
<1>3. /\ RowsOK'
      /\ Rewritten(worker.job, state, completed, failed, current)
      /\ \A k \in Jobs \ {worker.job} : SameRow(k)
  BY <1>1, <1>2, CompareAndSetRow
<1>4. Remaining(jobs'[worker.job]) = Row.services \ (completed \cup failed)
  BY <1>3 DEF Rewritten, Remaining, Row
<1>5. (\E row : /\ Remaining(row) = Row.services \ (completed \cup failed)
                /\ IsNext(current, row))
        => IsNext(current, jobs'[worker.job])
  BY <1>4, SameRemaining
<1>6. Core'
  BY <1>3, <1>5, WriteKeepsCore
<1>7. QED  BY <1>1, <1>3, <1>6 DEF Good

\* What the row read for a write still has.
LEMMA HeldOutcomes ==
    ASSUME IInv, worker.pc \notin {"idle", "down"}
    PROVE  /\ Row.completed \subseteq drive
           /\ Row.completed \cup Row.failed \subseteq Row.services
           /\ Row.completed \cap Row.failed = {}
           /\ Row.current \in Services \cup {NoService}
BY HeldRow DEF IInv, CompletedIsSaved, OutcomesAreDisjoint, Row, JobRows

\* The steps of a challenge.
LEMMA ChallengeGood ==
    ASSUME IInv, ChallengeStep
    PROVE  Good'
<1>0. /\ {"challenge", "codeWait", "codeCheck", "interWait", "check"} \subseteq Plain
      /\ {"intervene", "unexpected", "expire", "resumeCode", "resumeInteractive"} \subseteq Plans
  BY DEF Plain, Acquiring, Waiting, Plans
<1> DEFINE Leaves(plan) ==
             /\ worker' = [worker EXCEPT !.pc = "reload", !.plan = plan]
             /\ UNCHANGED <<jobs, drive, guard, api, process>>
           Drops ==
             /\ worker' = IdleWorker
             /\ Stopping \/ Cancelled
             /\ UNCHANGED <<jobs, drive, guard, api, process>>
           Goes(next) ==
             /\ Goto(next)
             /\ UNCHANGED <<jobs, drive, guard, api, process>>
<1>here. ASSUME worker.pc \in Plain
         PROVE  /\ worker.pc \notin {"idle", "down", "upload"} /\ OnService
                /\ drive \in SUBSET Services /\ worker \in Workers
  BY <1>here, PlacesOnService, HeldRow DEF Plain
<1>leave. ASSUME worker.pc \in Plain, NEW plan \in Plans \ {"complete"}, Leaves(plan)
          PROVE  Good'
  BY <1>here, <1>leave, LeaveIsGood
<1>drop. ASSUME worker.pc \in Plain, Drops
         PROVE  Good'
  BY <1>here, <1>drop, DropIsGood DEF Cancelled, Incomplete
<1>go. ASSUME worker.pc \in Plain, NEW next \in Plain, Goes(next)
       PROVE  Good'
  BY <1>go, GotoIsGood
<1> HIDE DEF Leaves
<1>2. CASE RefuseChallenge
  <2>1. worker.pc \in Plain /\ Leaves("intervene")
    BY <1>0, <1>2 DEF Leaves, RefuseChallenge, LeaveBrowser
  <2>2. QED  BY <1>0, <1>leave, <2>1
<1>3. CASE ConsumeAnswer
  <2>1. worker.pc \in Plain /\ Leaves("resumeCode")
    BY <1>0, <1>3 DEF Leaves, ConsumeAnswer
  <2>2. QED  BY <1>0, <1>leave, <2>1
<1>4. CASE WaitSliceEnds
  <2>1. worker.pc \in Plain /\ Goes("codeCheck")
    BY <1>0, <1>4 DEF WaitSliceEnds
  <2>2. QED  BY <1>0, <1>go, <2>1
<1>5. CASE WaitFindsNoEntry
  <2>1. worker.pc \in Plain /\ Leaves("unexpected")
    BY <1>0, <1>5 DEF Leaves, WaitFindsNoEntry, LeaveBrowser
  <2>2. QED  BY <1>0, <1>leave, <2>1
<1>6. CASE WaitAgain
  <2>1. worker.pc \in Plain /\ Goes("codeWait")
    BY <1>0, <1>6 DEF WaitAgain
  <2>2. QED  BY <1>0, <1>go, <2>1
<1>7. CASE GiveUpCode
  <2>1. worker.pc \in Plain /\ (Leaves("expire") \/ Drops)
    BY <1>0, <1>7 DEF Leaves, GiveUpCode, ToIdle
  <2>2. QED  BY <1>0, <1>leave, <1>drop, <2>1
<1>8. CASE InteractiveProceeds
  <2>1. worker.pc \in Plain /\ Leaves("resumeInteractive")
    BY <1>0, <1>8 DEF Leaves, InteractiveProceeds
  <2>2. QED  BY <1>0, <1>leave, <2>1
<1>9. CASE InteractiveCancelled
  <2>1. worker.pc \in Plain /\ Drops
    BY <1>0, <1>9 DEF InteractiveCancelled, ToIdle
  <2>2. QED  BY <1>0, <1>drop, <2>1
<1>10. CASE GiveUpInteractive
  <2>1. worker.pc \in Plain /\ (Leaves("expire") \/ Drops)
    BY <1>0, <1>10 DEF Leaves, GiveUpInteractive, ToIdle
  <2>2. QED  BY <1>0, <1>leave, <1>drop, <2>1
<1>11. CASE IssueChallenge
  <2>1. /\ worker.pc = "challenge"
        /\ worker' = [worker EXCEPT !.pc = "publish", !.version = Row.version,
                                    !.attempts = worker.attempts + 1]
        /\ UNCHANGED <<jobs, drive, guard, api, process>>
    BY <1>11 DEF IssueChallenge
  <2>2. /\ worker \in Workers /\ Row \in JobRows /\ RowsOK /\ drive \in SUBSET Services
        /\ worker.service \in Remaining(Row)
    BY <1>0, <2>1, PlacesOnService, HeldRow
  <2>3. /\ worker' \in Workers /\ worker'.pc = "publish"
        /\ worker'.job = worker.job /\ worker'.service = worker.service
        /\ worker'.version = Row.version
    <3>1. Row.version \in Nat /\ worker.attempts + 1 \in Nat
      BY <2>2 DEF JobRows, Workers
    <3>2. QED  BY <2>1, <2>2, <3>1 DEF Workers, Places
  <2>4. Core'
    BY <2>1, <2>2, <2>3, ReadKeepsCore
  <2>5. QED  BY <2>1, <2>2, <2>3, <2>4 DEF Good, RowsOK
<1>12. CASE PublishChallenge
  <2>1. /\ worker.pc = "publish"
        /\ CompareAndSet(worker.job, worker.version, "waiting",
                         Row.completed, Row.failed, worker.service)
        /\ UNCHANGED <<drive, guard, api, process>>
    BY <1>12 DEF PublishChallenge
  <2>2. OnService
    BY <2>1 DEF OnService
  <2>3. /\ worker \in Workers /\ worker.service \in Services \cup {NoService}
        /\ "waiting" \in JobStates /\ "waiting" \in Incomplete
    BY <2>1, <2>2, HeldRow DEF JobStates, Incomplete
  <2>4. PICK pc \in {"codeWait", "interWait"} :
          worker' = [worker EXCEPT !.pc = pc, !.kind = "none"]
    BY <1>12 DEF PublishChallenge
  <2>5. /\ worker' \in Workers /\ worker'.pc \in Plain
        /\ worker'.job = worker.job /\ worker'.service = worker.service
    BY <1>0, <2>3, <2>4, PlacesOnService DEF Workers
  <2>6. QED  BY <2>1, <2>2, <2>3, <2>5, HeldOutcomes, WriteIsGood
<1>13. QED
  BY <1>2, <1>3, <1>4, <1>5, <1>6, <1>7, <1>8, <1>9, <1>10, <1>11, <1>12 DEF ChallengeStep

\* What the row read for a write is known to be: the thread holds it, and it
\* has not been cancelled unless the write is one of a challenge.
LEMMA FreshRow ==
    ASSUME IInv, worker.pc \in {"finish", "publish", "write"}
    PROVE  /\ worker \in Workers /\ Row \in JobRows /\ worker.job \in Jobs
           /\ worker.job # NoJob
           /\ worker.pc = "finish" => Remaining(Row) = {}
           /\ ~Fresh(worker.job, worker.version) => Cancelled
BY HeldRow, NoJobAssumption DEF IInv, ReadIsCurrent

\* A requested service that is neither completed nor failed has been completed
\* now, or failed now.
LEMMA OneMore ==
    ASSUME NEW row \in JobRows, NEW s \in Remaining(row),
           row.completed \cup row.failed \subseteq row.services,
           row.completed \cap row.failed = {}
    PROVE  /\ (row.completed \cup {s}) \cup row.failed \subseteq row.services
           /\ (row.completed \cup {s}) \cap row.failed = {}
           /\ (row.failed \cup {s}) \cup row.completed \subseteq row.services
           /\ (row.failed \cup {s}) \cap row.completed = {}
           /\ Remaining([row EXCEPT !.completed = row.completed \cup {s}])
                = row.services \ ((row.completed \cup {s}) \cup row.failed)
           /\ Remaining([row EXCEPT !.failed = row.failed \cup {s}])
                = row.services \ (row.completed \cup (row.failed \cup {s}))
<1>1. s \in row.services /\ s \notin row.completed /\ s \notin row.failed
  BY DEF Remaining
<1>2. /\ [row EXCEPT !.completed = row.completed \cup {s}].services = row.services
      /\ [row EXCEPT !.completed = row.completed \cup {s}].failed = row.failed
      /\ [row EXCEPT !.completed = row.completed \cup {s}].completed = row.completed \cup {s}
      /\ [row EXCEPT !.failed = row.failed \cup {s}].services = row.services
      /\ [row EXCEPT !.failed = row.failed \cup {s}].completed = row.completed
      /\ [row EXCEPT !.failed = row.failed \cup {s}].failed = row.failed \cup {s}
  BY DEF JobRows
<1>3. QED  BY <1>1, <1>2 DEF Remaining

\* When nothing remains and nothing failed, all that was asked for is done.
LEMMA AllDone ==
    ASSUME NEW services, NEW completed, services \ completed = {}
    PROVE  services \subseteq completed
OBVIOUS

\* Reading the row again and writing it back.
LEMMA RowGood ==
    ASSUME IInv, RowStep
    PROVE  Good'
<1>1. CASE ReloadRefuses
  <2>1. /\ worker.pc = "reload" /\ worker' = IdleWorker
        /\ UNCHANGED <<jobs, drive, guard, api, process>>
        /\ Row.state \in Refused(worker.plan)
    BY <1>1 DEF ReloadRefuses, ToIdle
  <2>2. Row.state \notin Incomplete
    BY <2>1 DEF Refused, Terminal, Incomplete
  <2>3. QED  BY <2>1, <2>2, DropIsGood
<1>2. CASE ReloadReads
  <2>1. /\ worker.pc = "reload"
        /\ worker' = [worker EXCEPT !.pc = "write", !.version = Row.version]
        /\ UNCHANGED <<jobs, drive, guard, api, process>>
        /\ Row.state \notin Refused(worker.plan)
    BY <1>2 DEF ReloadReads
  <2>2. /\ worker \in Workers /\ Row \in JobRows /\ RowsOK /\ drive \in SUBSET Services
    BY <2>1, HeldRow
  <2>3. /\ worker' \in Workers /\ worker'.pc = "write" /\ worker'.plan = worker.plan
        /\ worker'.job = worker.job /\ worker'.service = worker.service
        /\ worker'.version = Row.version
    BY <2>1, <2>2 DEF Workers, Places, JobRows
  <2>4. Cancelled => worker'.plan = "resumeCode"
    BY <2>1, <2>2, <2>3 DEF Cancelled, Refused, Terminal, Workers, Plans
  <2>5. OnService' => worker'.service \in Remaining(Row)
    BY <2>1, <2>3, HeldRow DEF OnService, Acquiring, Waiting
  <2>6. worker'.plan = "complete" => worker'.service \in drive
    BY <2>1, <2>3 DEF IInv, ServiceIsRemaining, Listed
  <2>7. Core'
    BY <2>1, <2>3, <2>4, <2>5, <2>6, ReadKeepsCore
  <2>8. QED  BY <2>1, <2>2, <2>3, <2>7 DEF Good, RowsOK
<1>3. CASE WriteEnd
  <2>1. PICK state \in {"intervention", "failed"} :
          /\ worker.pc = "write"
          /\ CompareAndSet(worker.job, worker.version, state,
                           Row.completed, Row.failed, Row.current)
          /\ worker' = IdleWorker
          /\ UNCHANGED <<drive, guard, api, process>>
    BY <1>3 DEF WriteEnd, ToIdle
  <2>2. state \in JobStates /\ state \in Terminal /\ state # "succeeded"
    BY DEF JobStates, Terminal
  <2>3. QED  BY <2>1, <2>2, HeldOutcomes, IdleFacts, WriteIsGood
<1>4. CASE WriteResume
  <2>1. /\ worker.pc = "write" /\ worker.plan # "unexpected"
        /\ CompareAndSet(worker.job, worker.version, "running",
                         Row.completed, Row.failed, worker.service)
        /\ worker' = [worker EXCEPT !.pc = "check", !.plan = "none"]
        /\ UNCHANGED <<drive, guard, api, process>>
    BY <1>4 DEF WriteResume
  <2>2. OnService
    BY <2>1 DEF OnService
  <2>3. /\ worker \in Workers /\ worker.service \in Services \cup {NoService}
        /\ "running" \in JobStates /\ "running" \in Incomplete
    BY <2>1, <2>2, HeldRow DEF JobStates, Incomplete
  <2>4. /\ worker' \in Workers /\ worker'.pc \in Plain
        /\ worker'.job = worker.job /\ worker'.service = worker.service
    BY <2>1, <2>3 DEF Workers, Places, Acquiring, Plans, Plain
  <2>5. QED  BY <2>1, <2>2, <2>3, <2>4, HeldOutcomes, WriteIsGood
<1>5. CASE VersionConflict
  <2>1. /\ worker.pc \in {"finish", "publish", "write"} /\ worker' = IdleWorker
        /\ UNCHANGED <<jobs, drive, guard, api, process>>
        /\ ~Fresh(worker.job, worker.version)
    BY <1>5 DEF VersionConflict, ToIdle
  <2>2. Row.state \notin Incomplete
    BY <2>1, FreshRow DEF Cancelled, Incomplete
  <2>3. QED  BY <2>1, <2>2, DropIsGood
<1>6. ASSUME NEW s \in Services \cup {NoService}, WriteComplete(s)
      PROVE  Good'
  <2> DEFINE done == Row.completed \cup {worker.service}
             row == [Row EXCEPT !.completed = done]
             state == IF s # NoService THEN "running"
                      ELSE IF Row.failed = {} THEN "succeeded" ELSE "failed"
  <2>1. /\ worker.pc = "write" /\ worker.plan = "complete"
        /\ IsNext(s, row)
        /\ CompareAndSet(worker.job, worker.version, state, done, Row.failed, s)
        /\ UNCHANGED <<drive, guard, api, process>>
    BY <1>6 DEF WriteComplete
  <2>2. /\ worker.service \in Remaining(Row) /\ worker.service \in drive
        /\ Row \in JobRows /\ worker.job \in Jobs
    BY <2>1, HeldRow DEF IInv, ServiceIsRemaining, OnService, Listed
  <2>3. /\ done \subseteq drive
        /\ done \cup Row.failed \subseteq Row.services
        /\ done \cap Row.failed = {}
        /\ Remaining(row) = Row.services \ (done \cup Row.failed)
    BY <2>1, <2>2, HeldOutcomes, OneMore
  <2>4. state \in JobStates
    BY DEF JobStates
  <2>5. s = NoService => Remaining(row) = {}
    <3>1. row \in JobRows
      <4>1. done \in SUBSET Services
        BY <2>2, <2>3 DEF JobRows
      <4>2. QED  BY <2>2, <4>1 DEF JobRows
    <3>2. QED  BY <2>1, <3>1, NextRemains
  <2>6. state = "succeeded" => Row.services \subseteq done
    BY <2>3, <2>5
  <2> HIDE DEF row, done
  <2>7. CASE s = NoService
    <3>1. worker' = IdleWorker
      BY <1>6, <2>7 DEF WriteComplete, ToIdle
    <3>2. state \in Terminal
      BY <2>7 DEF Terminal
    <3> HIDE DEF state
    <3>3. QED  BY <2>1, <2>3, <2>4, <2>6, <3>1, <3>2, IdleFacts, WriteIsGood
  <2>8. CASE s # NoService
    <3>1. worker' \in Workers /\ worker'.pc = "load" /\ worker'.job = worker.job
      BY <1>6, <2>2, <2>8, LoadFacts DEF WriteComplete
    <3>2. state = "running"
      BY <2>8
    <3>3. \E r : /\ Remaining(r) = Row.services \ (done \cup Row.failed)
                 /\ IsNext(s, r)
      BY <2>1, <2>3
    <3> HIDE DEF state
    <3>4. QED  BY <2>1, <2>3, <2>4, <2>6, <3>1, <3>2, <3>3, WriteIsGood
  <2>9. QED  BY <2>7, <2>8
<1>7. ASSUME NEW s \in Services \cup {NoService}, WriteFailService(s)
      PROVE  Good'
  <2> DEFINE failures == Row.failed \cup {worker.service}
             row == [Row EXCEPT !.failed = failures]
  <2>1. /\ worker.pc = "write" /\ worker.plan = "failService"
        /\ IsNext(s, row)
        /\ CompareAndSet(worker.job, worker.version, "running", Row.completed, failures, s)
        /\ worker' = [IdleWorker EXCEPT !.pc = "load", !.job = worker.job]
        /\ UNCHANGED <<drive, guard, api, process>>
    BY <1>7 DEF WriteFailService
  <2>2. /\ worker.service \in Remaining(Row) /\ Row \in JobRows /\ worker.job \in Jobs
    BY <2>1, HeldRow DEF OnService
  <2>3. /\ Row.completed \subseteq drive
        /\ Row.completed \cup failures \subseteq Row.services
        /\ Row.completed \cap failures = {}
        /\ Remaining(row) = Row.services \ (Row.completed \cup failures)
    BY <2>1, <2>2, HeldOutcomes, OneMore
  <2>4. worker' \in Workers /\ worker'.pc = "load" /\ worker'.job = worker.job
    BY <2>1, <2>2, LoadFacts
  <2>5. "running" \in JobStates
    BY DEF JobStates
  <2> HIDE DEF row, failures
  <2>6. \E r : /\ Remaining(r) = Row.services \ (Row.completed \cup failures)
               /\ IsNext(s, r)
    BY <2>1, <2>3
  <2>7. QED  BY <2>1, <2>3, <2>4, <2>5, <2>6, WriteIsGood
<1>8. QED
  BY <1>1, <1>2, <1>3, <1>4, <1>5, <1>6, <1>7 DEF RowStep

\* The steps of the job loop.
LEMMA LoopGood ==
    ASSUME IInv, LoopStep
    PROVE  Good'
<1>1. ASSUME NEW j \in Jobs, Claim(j)
      PROVE  Good'
  BY <1>1, ClaimKeepsCore DEF Claim, Good, IInv, TypeOK
<1>2. CASE LoopReturns
  BY <1>2, DropIsGood DEF LoopReturns, ToIdle, Cancelled, Incomplete
<1>3. CASE FinishBatch
  <2> DEFINE state == IF Row.failed = {} THEN "succeeded" ELSE "failed"
  <2>1. /\ worker.pc = "finish"
        /\ CompareAndSet(worker.job, worker.version, state,
                         Row.completed, Row.failed, NoService)
        /\ worker' = IdleWorker
        /\ UNCHANGED <<drive, guard, api, process>>
    BY <1>3 DEF FinishBatch, ToIdle
  <2>2. state \in JobStates /\ state \in Terminal
    BY DEF JobStates, Terminal
  <2>3. state = "succeeded" => Row.services \subseteq Row.completed
    BY <2>1, FreshRow DEF Remaining
  <2> HIDE DEF state
  <2>4. QED  BY <2>1, <2>2, <2>3, HeldOutcomes, IdleFacts, WriteIsGood
<1>4. CASE OpenBrowser
  BY <1>4, AcquireGood
<1>5. ASSUME NEW s \in Services \cup {NoService}, LoopSelects(s)
      PROVE  Good'
  <2>1. PICK pc \in {"finish", "open"} :
          /\ worker.pc = "load" /\ ~Cancelled /\ IsNext(s, Row)
          /\ (pc = "finish" <=> s = NoService)
          /\ worker' = [worker EXCEPT !.pc = pc, !.service = s,
                                      !.version = Row.version, !.attempts = 0]
          /\ UNCHANGED <<jobs, drive, guard, api, process>>
    BY <1>5 DEF LoopSelects
  <2>2. /\ worker \in Workers /\ Row \in JobRows /\ RowsOK /\ drive \in SUBSET Services
    BY <2>1, HeldRow
  <2>3. /\ worker' \in Workers /\ worker'.pc = pc
        /\ worker'.job = worker.job /\ worker'.service = s
        /\ worker'.version = Row.version
    BY <2>1, <2>2 DEF Workers, Places, JobRows
  <2>4. (pc = "finish" => Remaining(Row) = {}) /\ (pc = "open" => s \in Remaining(Row))
    BY <2>1, <2>2, NextRemains
  <2>5. OnService' => s \in Remaining(Row)
    BY <2>1, <2>3, <2>4 DEF OnService, Acquiring, Waiting
  <2>6. Core'
    BY <2>1, <2>3, <2>4, <2>5, ReadKeepsCore
  <2>7. QED  BY <2>1, <2>2, <2>3, <2>6 DEF Good, RowsOK
<1>6. QED  BY <1>1, <1>2, <1>3, <1>4, <1>5 DEF LoopStep

\* The store fails, or the process stops, crashes or starts.
LEMMA FailureGood ==
    ASSUME IInv, FailureStep \/ StartProcess \/ Exit
    PROVE  Good'
<1>0. /\ RowsOK /\ drive \in SUBSET Services /\ worker \in Workers
      /\ process.faults \in Nat /\ {"unexpected", "failService"} \subseteq Plans
  BY DEF IInv, TypeOK, RowsOK, Plans
<1>1. CASE StoreFails
  <2>1. /\ worker.pc \notin {"idle", "down", "upload"}
        /\ process'.stopping = process.stopping /\ process'.faults # 0
        /\ UNCHANGED <<jobs, drive, guard, api>>
        /\ worker' = IdleWorker \/ LeaveBrowser("unexpected")
    BY <1>0, <1>1 DEF StoreFails, Fault, ToIdle, IInv, TypeOK
  <2>2. CASE worker' = IdleWorker
    BY <2>1, <2>2, DropIsGood
  <2>3. CASE LeaveBrowser("unexpected")
    BY <1>0, <2>1, <2>3, LeaveIsGood DEF LeaveBrowser
  <2>4. QED  BY <2>1, <2>2, <2>3
<1>2. CASE CancellationCheckFails
  <2>1. /\ worker.pc \in Plain /\ worker.pc # "upload" /\ LeaveBrowser("failService")
        /\ process'.stopping = process.stopping /\ process'.faults # 0
        /\ UNCHANGED <<jobs, drive, guard, api>>
    BY <1>0, <1>2 DEF CancellationCheckFails, Fault, Plain, Acquiring, IInv, TypeOK
  <2>2. QED  BY <1>0, <2>1, PlacesOnService, LeaveIsGood DEF LeaveBrowser
<1>3. CASE RequestStop
  <2>1. /\ UNCHANGED <<jobs, drive, worker, guard, api>>
        /\ process'.stopping = TRUE /\ process'.faults = process.faults
        /\ api = NoRequest
    BY <1>3 DEF RequestStop, Ready, IInv, TypeOK
  <2>2. Core'
    BY <2>1, OthersKeepCore DEF NoRequest
  <2>3. QED  BY <1>0, <2>1, <2>2 DEF Good, RowsOK
<1>4. CASE Crash \/ Exit
  <2>1. ProcessEnds
    BY <1>4 DEF Crash, Exit
  <2>2. jobs' = jobs /\ worker' = DownWorker
    BY <2>1 DEF ProcessEnds
  <2>3. drive' \in SUBSET Services
    <3>1. worker.pc = "upload" => worker.service \in Services
      BY HeldRow DEF OnService, Acquiring
    <3>2. QED  BY <1>0, <2>1, <3>1 DEF ProcessEnds
  <2>4. QED  BY <1>0, <2>1, <2>2, <2>3, IdleFacts, EndKeepsCore DEF Good, RowsOK
<1>5. CASE StartProcess
  BY <1>0, <1>5, StartKeepsCore, IdleFacts DEF StartProcess, Good
<1>6. CASE ClaimFails
  <2>1. /\ UNCHANGED <<jobs, drive, worker, guard, api>>
        /\ process'.stopping = TRUE
    BY <1>6 DEF ClaimFails, IInv, TypeOK
  <2> USE DEF IInv, Row, Cancelled, Stopping
  <2>2. HoldsJob'  BY <2>1 DEF HoldsJob
  <2>3. GuardIsHeld'  BY <2>1 DEF GuardIsHeld
  <2>4. ReadIsCurrent'  BY <2>1 DEF ReadIsCurrent, Fresh, Remaining
  <2>5. ServiceIsRemaining'  BY <2>1 DEF ServiceIsRemaining, OnService, Listed, Remaining
  <2>6. RowInvariants'  BY <2>1, SameTable DEF RowInvariants
  <2>7. LoopHeadIsSettled'  BY <2>1 DEF LoopHeadIsSettled
  <2>8. LiveJobIsOwned'  BY <2>1 DEF LiveJobIsOwned
  <2>9. QED
    BY <1>0, <2>1, <2>2, <2>3, <2>4, <2>5, <2>6, <2>7, <2>8 DEF Good, Core, RowsOK, RowInvariants
<1>7. QED  BY <1>1, <1>2, <1>3, <1>4, <1>5, <1>6 DEF FailureStep

\* The requests of the owner, and what is left of them.
LEMMA RequestGood ==
    ASSUME IInv, OwnerStep \/ HandlerStep \/ ChallengeExpires
    PROVE  Good'
<1>0. RowsOK /\ drive \in SUBSET Services /\ worker \in Workers
  BY DEF IInv, TypeOK, RowsOK
<1>1. ASSUME NEW j \in Jobs, NEW S \in SUBSET Services, RequestJob(j, S)
      PROVE  Good'
  BY <1>0, <1>1, RequestKeepsCore DEF RequestJob, Good
<1>2. ASSUME NEW j \in Jobs, CancelJob(j)
      PROVE  Good'
  BY <1>0, <1>2, CancelKeepsCore DEF CancelJob, Good
<1>3. ASSUME UNCHANGED <<jobs, drive, worker, process>>,
             guard' = IF api.op \in {"discard", "release"} THEN "free" ELSE guard,
             api'.op \notin {"discard", "release"}
      PROVE  Good'
  BY <1>0, <1>3, OthersKeepCore DEF Good, RowsOK
<1>4. api \in [op: {"none", "discard", "release", "notify", "submit", "continue"},
               job: Jobs \cup {NoJob}, id: Nat]
  BY DEF IInv, TypeOK
<1>5. ASSUME NEW j \in Jobs, RequestAnswer(j)
      PROVE  Good'
  BY <1>3, <1>5 DEF RequestAnswer, Ready, NoRequest
<1>6. CASE CancelDiscards
  <2>1. api'.op = "notify"
    BY <1>4, <1>6 DEF CancelDiscards
  <2>2. QED  BY <1>3, <1>6, <2>1 DEF CancelDiscards
<1>7. CASE CancelNotifies
  BY <1>3, <1>7 DEF CancelNotifies, NoRequest
<1>8. CASE SubmitAnswer
  BY <1>3, <1>8 DEF SubmitAnswer, NoRequest
<1>9. CASE ContinueInteractive
  BY <1>3, <1>9 DEF ContinueInteractive, NoRequest
<1>10. CASE ChallengeExpires
  BY <1>0, <1>10 DEF ChallengeExpires, Good, RowsOK, IInv, Core, HoldsJob, GuardIsHeld,
     ReadIsCurrent, ServiceIsRemaining, SuccessIsComplete, CompletedIsSaved,
     OutcomesAreDisjoint, LoopHeadIsSettled, LiveJobIsOwned, OnService, Row, Cancelled,
     Stopping, Listed, Fresh, Remaining
<1>11. QED
  BY <1>1, <1>2, <1>5, <1>6, <1>7, <1>8, <1>9, <1>10 DEF OwnerStep, HandlerStep

\* A step in which nothing happens.
LEMMA StutterGood ==
    ASSUME IInv, UNCHANGED vars
    PROVE  IInv'
BY DEF vars, IInv, TypeOK, HoldsJob, GuardIsHeld,
   ReadIsCurrent, ServiceIsRemaining, SuccessIsComplete, CompletedIsSaved,
   OutcomesAreDisjoint, LoopHeadIsSettled, LiveJobIsOwned, OnService, Row, Cancelled,
   Stopping, Listed, Fresh, Remaining

-------------------------------------------------------------------------------
(* The types of what surrounds the thread.                                 *)

\* What the thread does keeps them.
LEMMA WorkerAround ==
    ASSUME IInv, WorkerStep
    PROVE  AroundOK'
<1>0. AroundOK /\ NoViewer \in [id: Nat, proceed: BOOLEAN]
      /\ EmptyInbox \in [id: Nat, phase: {"empty", "pending", "answered", "closed"}]
  BY TypeParts DEF IInv, NoViewer, EmptyInbox
<1> USE <1>0 DEF AroundOK, challengeVars, ToIdle, LeaveBrowser
<1>1. CASE LoopStep
  BY <1>1 DEF LoopStep, Claim, LoopReturns, FinishBatch, OpenBrowser, LoopSelects
<1>2. CASE AcquireStep
  BY <1>2 DEF AcquireStep, CheckDrive, BeginFetch, EndFetch, RecheckDrive, TakeGuard,
     Upload, VerifyDrive
<1>3. CASE RowStep
  BY <1>3 DEF RowStep, ReloadRefuses, ReloadReads, WriteEnd, WriteResume, VersionConflict,
     WriteComplete, WriteFailService
<1>4. CASE ChallengeStep
  <2>1. CASE RefuseChallenge  BY <2>1 DEF RefuseChallenge
  <2>2. CASE IssueChallenge
    <3>1. worker.job \in Jobs
      BY <2>2, HeldRow DEF IssueChallenge
    <3>2. issued' \in Nat /\ worker.kind \in ChallengeKinds
      BY <2>2 DEF IssueChallenge
    <3>3. [id |-> issued + 1, kind |-> worker.kind] \in [id: Nat, kind: ChallengeKinds \cup {"none"}]
      BY <3>2, <2>2 DEF IssueChallenge
    <3>4. challenges' \in [Jobs -> [id: Nat, kind: ChallengeKinds \cup {"none"}]]
      BY <2>2, <3>1, <3>3 DEF IssueChallenge
    <3>5. inbox' \in [id: Nat, phase: {"empty", "pending", "answered", "closed"}]
          /\ viewer' \in [id: Nat, proceed: BOOLEAN]
      <4>1. issued + 1 \in Nat
        BY <1>0
      <4>2. /\ [id |-> issued + 1, phase |-> "pending"]
                 \in [id: Nat, phase: {"empty", "pending", "answered", "closed"}]
            /\ [id |-> issued + 1, proceed |-> FALSE] \in [id: Nat, proceed: BOOLEAN]
        BY <4>1
      <4>3. /\ inbox' = inbox \/ inbox' = [id |-> issued + 1, phase |-> "pending"]
            /\ viewer' = viewer \/ viewer' = [id |-> issued + 1, proceed |-> FALSE]
        BY <2>2, Zenon DEF IssueChallenge
      <4>4. QED  BY <1>0, <4>2, <4>3
    <3>6. UNCHANGED <<guard, api, process>> /\ expired' = FALSE
      BY <2>2, Zenon DEF IssueChallenge
    <3>7. QED  BY <3>2, <3>4, <3>5, <3>6
  <2>3. CASE PublishChallenge  BY <2>3 DEF PublishChallenge
  <2>4. CASE ConsumeAnswer  BY <2>4 DEF ConsumeAnswer
  <2>5. CASE WaitSliceEnds  BY <2>5 DEF WaitSliceEnds
  <2>6. CASE WaitFindsNoEntry  BY <2>6 DEF WaitFindsNoEntry
  <2>7. CASE WaitAgain  BY <2>7 DEF WaitAgain
  <2>8. CASE GiveUpCode  BY <2>8 DEF GiveUpCode
  <2>9. CASE InteractiveProceeds  BY <2>9 DEF InteractiveProceeds
  <2>10. CASE InteractiveCancelled  BY <2>10 DEF InteractiveCancelled
  <2>11. CASE GiveUpInteractive  BY <2>11 DEF GiveUpInteractive
  <2>12. QED
    BY <1>4, <2>1, <2>2, <2>3, <2>4, <2>5, <2>6, <2>7, <2>8, <2>9, <2>10, <2>11
       DEF ChallengeStep
<1>5. QED  BY <1>1, <1>2, <1>3, <1>4 DEF WorkerStep

\* What everybody else does keeps them.
LEMMA OthersAround ==
    ASSUME IInv, HandlerStep \/ OwnerStep \/ FailureStep \/ ChallengeExpires
                 \/ StartProcess \/ Exit
    PROVE  AroundOK'
<1>0. AroundOK /\ NoViewer \in [id: Nat, proceed: BOOLEAN]
      /\ EmptyInbox \in [id: Nat, phase: {"empty", "pending", "answered", "closed"}]
      /\ NoRequest \in [op: {"none", "discard", "release", "notify", "submit", "continue"},
                        job: Jobs \cup {NoJob}, id: Nat]
  BY TypeParts DEF IInv, NoViewer, EmptyInbox, NoRequest
<1> USE <1>0 DEF AroundOK, challengeVars, ToIdle, LeaveBrowser
<1>1. CASE HandlerStep
  <2>1. CASE CancelDiscards  BY <2>1 DEF CancelDiscards
  <2>2. CASE CancelNotifies  BY <2>2 DEF CancelNotifies
  <2>3. CASE SubmitAnswer  BY <2>3 DEF SubmitAnswer
  <2>4. CASE ContinueInteractive  BY <2>4 DEF ContinueInteractive
  <2>5. QED  BY <1>1, <2>1, <2>2, <2>3, <2>4 DEF HandlerStep
<1>2. ASSUME NEW j \in Jobs, NEW S \in SUBSET Services, RequestJob(j, S)
      PROVE  AroundOK'
  BY <1>2 DEF RequestJob
<1>3. ASSUME NEW j \in Jobs, CancelJob(j)
      PROVE  AroundOK'
  BY <1>3 DEF CancelJob
<1>4. ASSUME NEW j \in Jobs, RequestAnswer(j)
      PROVE  AroundOK'
  BY <1>4 DEF RequestAnswer
<1>5. CASE FailureStep
  <2>1. CASE StoreFails  BY <2>1 DEF StoreFails, Fault
  <2>2. CASE CancellationCheckFails  BY <2>2 DEF CancellationCheckFails, Fault
  <2>3. CASE RequestStop
    <3>0. process.restarts + 1 \in Nat
      BY <1>0
    <3>1. process' \in [stopping: BOOLEAN, restarts: Nat, faults: Nat]
      BY <2>3, <3>0, Zenon DEF RequestStop
    <3>2. UNCHANGED <<guard, inbox, viewer, expired, challenges, issued, api>>
      BY <2>3 DEF RequestStop
    <3>3. QED  BY <3>1, <3>2
  <2>4. CASE Crash
    <3>1. process' \in [stopping: BOOLEAN, restarts: Nat, faults: Nat]
      BY <2>4 DEF Crash
    <3>2. /\ guard' = "free" /\ inbox' = EmptyInbox /\ viewer' = NoViewer
          /\ expired' = FALSE /\ api' = NoRequest /\ UNCHANGED <<challenges, issued>>
      BY <2>4 DEF Crash, ProcessEnds
    <3>3. QED  BY <3>1, <3>2
  <2>5. CASE ClaimFails
    <3>0. process.faults + 1 \in Nat
      BY <1>0
    <3>1. process' \in [stopping: BOOLEAN, restarts: Nat, faults: Nat]
      BY <2>5, <3>0, Zenon DEF ClaimFails
    <3>2. UNCHANGED <<guard, inbox, viewer, expired, challenges, issued, api>>
      BY <2>5 DEF ClaimFails
    <3>3. QED  BY <3>1, <3>2
  <2>6. QED  BY <1>5, <2>1, <2>2, <2>3, <2>4, <2>5 DEF FailureStep
<1>6. CASE ChallengeExpires  BY <1>6 DEF ChallengeExpires
<1>7. CASE StartProcess  BY <1>7 DEF StartProcess
<1>8. CASE Exit  BY <1>8 DEF Exit, ProcessEnds
<1>9. QED
  BY <1>1, <1>2, <1>3, <1>4, <1>5, <1>6, <1>7, <1>8 DEF OwnerStep

-------------------------------------------------------------------------------
(* The inductive invariant.                                                *)

\* It holds at the start, when there is no job and no process yet.
LEMMA InitInv == Init => IInv
<1> SUFFICES ASSUME Init PROVE IInv
  OBVIOUS
<1>1. /\ worker.pc = "down" /\ worker.job = NoJob /\ worker \in Workers
      /\ guard = "free" /\ api = NoRequest /\ drive = {}
  BY IdleFacts DEF Init
<1>2. NoRow \in JobRows /\ NoRow.state = "absent" /\ NoRow.completed = {} /\ NoRow.failed = {}
  BY DEF NoRow, JobRows, JobStates, NoService
<1>3. \A j \in Jobs : jobs[j] = NoRow
  BY DEF Init, InitJobs
<1>4. RowsOK
  BY <1>2 DEF Init, InitJobs, RowsOK
<1>5. AroundOK
  BY DEF Init, AroundOK, EmptyInbox, NoViewer, NoChallenge, NoRequest
<1>6. TypeOK
  BY <1>1, <1>4, <1>5, TypeParts
<1>7. HoldsJob /\ GuardIsHeld /\ ReadIsCurrent
  BY <1>1 DEF HoldsJob, GuardIsHeld, ReadIsCurrent, NoRequest
<1>8. ServiceIsRemaining /\ LoopHeadIsSettled /\ LiveJobIsOwned
  BY <1>1 DEF ServiceIsRemaining, OnService, Acquiring, Waiting, LoopHeadIsSettled, LiveJobIsOwned
<1>9. SuccessIsComplete /\ CompletedIsSaved /\ OutcomesAreDisjoint
  BY <1>2, <1>3 DEF SuccessIsComplete, CompletedIsSaved, OutcomesAreDisjoint
<1>10. QED  BY <1>6, <1>7, <1>8, <1>9 DEF IInv

\* Every step keeps it.
LEMMA NextInv == IInv /\ [Next]_vars => IInv'
<1> SUFFICES ASSUME IInv, [Next]_vars PROVE IInv'
  OBVIOUS
<1>1. CASE Next
  <2>1. Good'
    BY <1>1, LoopGood, AcquireGood, ChallengeGood, RowGood, FailureGood, RequestGood
       DEF Next, WorkerStep
  <2>2. AroundOK'
    BY <1>1, WorkerAround, OthersAround DEF Next
  <2>3. TypeOK'
    BY <2>1, <2>2 DEF Good, TypeOK, RowsOK, AroundOK
  <2>4. QED  BY <2>1, <2>3 DEF Good, Core, IInv
<1>2. CASE UNCHANGED vars
  BY <1>2, StutterGood
<1>3. QED  BY <1>1, <1>2

\* Whatever the owner asks for and whatever stops, crashes or fails, the
\* thread's hands, the commit guard, the rows and Google Drive agree.
THEOREM Inductive == Spec => []IInv
<1>1. Init => IInv  BY InitInv
<1>2. IInv /\ [Next]_vars => IInv'  BY NextInv
<1>3. QED  BY <1>1, <1>2, PTL DEF Spec

-------------------------------------------------------------------------------
(* What the inductive invariant gives.                                     *)

\* Every variable keeps its type.
THEOREM TypeCorrect == Spec => []TypeOK
BY Inductive, PTL DEF IInv

\* No crash, lost upload response, retry or restart makes the worker report a
\* receipt that Google Drive does not hold.
THEOREM CompletionIsTrue == Spec => []CompletedIsSaved
BY Inductive, PTL DEF IInv

\* SUCCEEDED means that the receipt of every requested service is in Drive.
THEOREM SuccessIsHonest == Spec => []SuccessMeansSaved
<1>1. IInv => SuccessMeansSaved
  BY DEF IInv, SuccessIsComplete, CompletedIsSaved, SuccessMeansSaved
<1>2. QED  BY <1>1, Inductive, PTL

\* No service is both completed and failed.
THEOREM OutcomesStayApart == Spec => []OutcomesAreDisjoint
BY Inductive, PTL DEF IInv

\* The commit guard keeps an upload and a cancellation of its job apart.
THEOREM CancelStopsUploads == Spec => []NoCancelledUpload
<1>1. IInv => NoCancelledUpload
  BY DEF IInv, GuardIsHeld, NoCancelledUpload
<1>2. QED  BY <1>1, Inductive, PTL

\* While the process runs and the store answers, every RUNNING or WAITING job
\* is the one the thread works on.
THEOREM NoJobIsLeftBehind == Spec => []LiveJobIsOwned
BY Inductive, PTL DEF IInv

\* The job loop always finds its row claimed for the service it chooses.
THEOREM LoopHeadIsAlwaysSettled == Spec => []LoopHeadIsSettled
BY Inductive, PTL DEF IInv

-------------------------------------------------------------------------------
(* How a row may change.                                                   *)

\* Row k exists now, keeps its outcomes, had not ended by itself, and had been
\* cancelled only if the thread is writing the answer to a challenge of it.
Allowed(k) ==
    /\ jobs'[k].state # "absent"
    /\ jobs[k].state # "absent" =>
         /\ jobs[k].completed \subseteq jobs'[k].completed
         /\ jobs[k].failed \subseteq jobs'[k].failed
    /\ jobs[k].state \notin {"succeeded", "failed", "intervention"}
    /\ jobs[k].state = "cancelled" =>
         /\ worker.job = k
         /\ worker.pc = "publish" \/ (worker.pc = "write" /\ worker.plan = "resumeCode")

\* A write of the row the thread has read.
LEMMA HeldWriteAllowed ==
    ASSUME IInv, worker.pc \in {"finish", "publish", "write"},
           NEW state, state # "absent", NEW completed, NEW failed, NEW current,
           CompareAndSet(worker.job, worker.version, state, completed, failed, current),
           Row.completed \subseteq completed, Row.failed \subseteq failed,
           NEW k \in Jobs, jobs'[k] # jobs[k]
    PROVE  Allowed(k)
<1>1. /\ worker.job \in Jobs /\ Row \in JobRows /\ RowsOK
      /\ Row.state \in Incomplete \cup {"cancelled"}
  BY HeldRow
<1>2. jobs' = [jobs EXCEPT ![worker.job] = Rewrite(Row, state, completed, failed, current)]
      /\ Fresh(worker.job, worker.version)
  BY DEF CompareAndSet, Row
<1>3. k = worker.job
  BY <1>1, <1>2 DEF RowsOK
<1>4. /\ jobs'[k].completed = completed /\ jobs'[k].failed = failed
      /\ jobs'[k].state = state
  BY <1>1, <1>2, <1>3 DEF RowsOK, Rewrite, JobRows
<1>5. Row.state = "cancelled" => 
         worker.pc = "publish" \/ (worker.pc = "write" /\ worker.plan = "resumeCode")
  BY <1>2 DEF IInv, ReadIsCurrent, Cancelled
<1>6. QED
  BY <1>1, <1>3, <1>4, <1>5 DEF Allowed, Row, Incomplete

\* Every step of the thread changes rows as allowed.
LEMMA WorkerAllowed ==
    ASSUME IInv, WorkerStep, NEW k \in Jobs, jobs'[k] # jobs[k]
    PROVE  Allowed(k)
<1>1. ASSUME NEW j \in Jobs, Claim(j)
      PROVE  Allowed(k)
  <2>1. /\ jobs[j].state = "queued" /\ \A i \in Jobs \ {j} : SameRow(i)
        /\ jobs'[j].completed = jobs[j].completed /\ jobs'[j].failed = jobs[j].failed
        /\ jobs'[j].state = "running"
    BY <1>1, TypeParts, ClaimNextRow DEF Claim, IInv, Rewritten
  <2>2. k = j
    BY <2>1 DEF SameRow
  <2>3. QED  BY <2>1, <2>2 DEF Allowed
<1>2. CASE LoopReturns \/ OpenBrowser \/ \E s \in Services \cup {NoService} : LoopSelects(s)
  BY <1>2 DEF LoopReturns, OpenBrowser, LoopSelects
<1>3. CASE FinishBatch
  BY <1>3, HeldWriteAllowed DEF FinishBatch
<1>4. CASE AcquireStep
  BY <1>4 DEF AcquireStep, CheckDrive, BeginFetch, EndFetch, RecheckDrive, TakeGuard, Upload,
     VerifyDrive
<1>5. CASE PublishChallenge
  BY <1>5, HeldWriteAllowed DEF PublishChallenge
<1>6. CASE ChallengeStep /\ ~PublishChallenge
  BY <1>6 DEF ChallengeStep, RefuseChallenge, IssueChallenge, ConsumeAnswer, WaitSliceEnds,
     WaitFindsNoEntry, WaitAgain, GiveUpCode, InteractiveProceeds, InteractiveCancelled,
     GiveUpInteractive
<1>7. CASE ReloadRefuses \/ ReloadReads \/ VersionConflict
  BY <1>7 DEF ReloadRefuses, ReloadReads, VersionConflict
<1>8. CASE WriteEnd
  BY <1>8, HeldWriteAllowed DEF WriteEnd
<1>9. CASE WriteResume
  BY <1>9, HeldWriteAllowed DEF WriteResume
<1>10. ASSUME NEW s \in Services \cup {NoService}, WriteComplete(s)
       PROVE  Allowed(k)
  BY <1>10, HeldWriteAllowed DEF WriteComplete
<1>11. ASSUME NEW s \in Services \cup {NoService}, WriteFailService(s)
       PROVE  Allowed(k)
  BY <1>11, HeldWriteAllowed DEF WriteFailService
<1>12. QED
  BY <1>1, <1>2, <1>3, <1>4, <1>5, <1>6, <1>7, <1>8, <1>9, <1>10, <1>11
     DEF WorkerStep, LoopStep, RowStep

\* So does every step of anybody else.
LEMMA OthersAllowed ==
    ASSUME IInv, NEW k \in Jobs, jobs'[k] # jobs[k],
           HandlerStep \/ OwnerStep \/ FailureStep \/ ChallengeExpires
             \/ StartProcess \/ Exit
    PROVE  Allowed(k)
<1>1. ASSUME NEW j \in Jobs, NEW S \in SUBSET Services, RequestJob(j, S)
      PROVE  Allowed(k)
  <2>1. /\ jobs[j].state = "absent" /\ jobs'[j].state = "queued"
        /\ \A i \in Jobs \ {j} : SameRow(i)
    BY <1>1, TypeParts, CreateJobRow DEF RequestJob, IInv
  <2>2. k = j
    BY <2>1 DEF SameRow
  <2>3. QED  BY <2>1, <2>2 DEF Allowed
<1>2. ASSUME NEW j \in Jobs, CancelJob(j)
      PROVE  Allowed(k)
  <2>1. /\ jobs[j].state \notin Terminal
        /\ jobs' = [jobs EXCEPT ![j] = Rewrite(jobs[j], "cancelled", jobs[j].completed,
                                               jobs[j].failed, NoService)]
        /\ jobs \in [Jobs -> JobRows]
    BY <1>2 DEF CancelJob, CompareAndSet, IInv, TypeOK
  <2>2. k = j
    BY <2>1
  <2>3. /\ jobs'[j].completed = jobs[j].completed /\ jobs'[j].failed = jobs[j].failed
        /\ jobs'[j].state = "cancelled"
    BY <2>1 DEF Rewrite, JobRows
  <2>4. QED  BY <2>1, <2>2, <2>3 DEF Allowed, Terminal
<1>3. CASE StartProcess
  <2>1. IF jobs[k].state \in Incomplete
        THEN Rewritten(k, "queued", jobs[k].completed, jobs[k].failed, NoService)
        ELSE SameRow(k)
    BY <1>3, TypeParts, RecoverRow DEF StartProcess, IInv
  <2>2. jobs[k].state \in Incomplete /\ jobs'[k].completed = jobs[k].completed
        /\ jobs'[k].failed = jobs[k].failed /\ jobs'[k].state = "queued"
    BY <2>1 DEF SameRow, Rewritten
  <2>3. QED  BY <2>2 DEF Allowed, Incomplete
<1>4. CASE HandlerStep \/ FailureStep \/ ChallengeExpires \/ Exit
  BY <1>4 DEF HandlerStep, CancelDiscards, CancelNotifies, SubmitAnswer, ContinueInteractive,
     FailureStep, StoreFails, CancellationCheckFails, ClaimFails, RequestStop, Crash, ProcessEnds,
     ChallengeExpires, Exit
<1>5. ASSUME NEW j \in Jobs, RequestAnswer(j)
      PROVE  Allowed(k)
  BY <1>5 DEF RequestAnswer
<1>6. QED  BY <1>1, <1>2, <1>3, <1>4, <1>5 DEF OwnerStep

\* Rows change only as allowed.
LEMMA RowsChangeAsAllowed ==
    ASSUME IInv, [Next]_vars, NEW k \in Jobs, jobs'[k] # jobs[k]
    PROVE  Allowed(k)
<1>1. CASE Next  BY <1>1, WorkerAllowed, OthersAllowed DEF Next
<1>2. CASE UNCHANGED vars  BY <1>2 DEF vars
<1>3. QED  BY <1>1, <1>2

\* A row that has not been inserted holds nothing.
AbsentIsEmpty == \A j \in Jobs : jobs[j].state = "absent" => jobs[j] = NoRow

\* No write takes a row out of the table.
LEMMA AbsentStaysEmpty == Spec => []AbsentIsEmpty
<1>1. Init => AbsentIsEmpty
  BY DEF Init, InitJobs, AbsentIsEmpty
<1>2. AbsentIsEmpty /\ IInv /\ [Next]_vars => AbsentIsEmpty'
  BY RowsChangeAsAllowed DEF Allowed, AbsentIsEmpty
<1>3. QED  BY <1>1, <1>2, Inductive, PTL DEF Spec

\* Completed and failed services only accumulate: no writer undoes another.
THEOREM NoOutcomeIsLost == Spec => OutcomesAccumulate
<1>1. AbsentIsEmpty /\ IInv /\ [Next]_vars =>
        [\A j \in Jobs : /\ jobs[j].completed \subseteq jobs'[j].completed
                         /\ jobs[j].failed \subseteq jobs'[j].failed]_jobs
  <2>1. ASSUME AbsentIsEmpty, IInv, [Next]_vars, NEW j \in Jobs
        PROVE  /\ jobs[j].completed \subseteq jobs'[j].completed
               /\ jobs[j].failed \subseteq jobs'[j].failed
    <3>1. jobs[j].state = "absent" => jobs[j].completed = {} /\ jobs[j].failed = {}
      BY <2>1 DEF AbsentIsEmpty, NoRow
    <3>2. jobs'[j] # jobs[j] => Allowed(j)
      BY <2>1, RowsChangeAsAllowed
    <3>3. QED  BY <3>1, <3>2 DEF Allowed
  <2>2. QED  BY <2>1
<1>2. QED  BY <1>1, Inductive, AbsentStaysEmpty, PTL DEF Spec, OutcomesAccumulate

\* A job that succeeded, failed or needs its owner is never written again.
THEOREM EndedStaysEnded == Spec => EndedIsFinal
<1>1. IInv /\ [Next]_vars =>
        [\A j \in Jobs : jobs[j].state \in {"succeeded", "failed", "intervention"}
                           => jobs'[j] = jobs[j]]_jobs
  BY RowsChangeAsAllowed DEF Allowed
<1>2. QED  BY <1>1, Inductive, PTL DEF Spec, EndedIsFinal

\* Only the publication of a challenge, or the answer to one, may rewrite a
\* cancelled job.
THEOREM CancelYieldsOnce == Spec => CancelYieldsOnlyToChallenge
<1>1. IInv /\ [Next]_vars =>
        [\A j \in Jobs :
           jobs[j].state = "cancelled" /\ jobs'[j] # jobs[j] =>
             /\ worker.job = j
             /\ \/ worker.pc = "publish"
                \/ worker.pc = "write" /\ worker.plan = "resumeCode"]_jobs
  BY RowsChangeAsAllowed DEF Allowed
<1>2. QED  BY <1>1, Inductive, PTL DEF Spec, CancelYieldsOnlyToChallenge
-------------------------------------------------------------------------------
(* How a challenge finds its answer.                                       *)

\* Where the thread is from the issue of a challenge to the end of its wait.
Asking == Waiting \cup {"publish"}

\* From its issue on, the thread's challenge is the latest one stored for its
\* job, and it is the viewer's (interactive), or the inbox holds it unless a
\* cancellation emptied the inbox (code), whatever has become of the row.
AnswerIsFound ==
    /\ worker.pc = "publish" => worker.kind \in ChallengeKinds
    /\ worker.pc = "interWait" \/ (worker.pc = "publish" /\ worker.kind = "interactive")
         => challenges[worker.job] = [id |-> viewer.id, kind |-> "interactive"]
    /\ worker.pc \in {"codeWait", "codeCheck"} \/ (worker.pc = "publish" /\ worker.kind = "code")
         => inbox = EmptyInbox \/ challenges[worker.job] = [id |-> inbox.id, kind |-> "code"]

\* Nothing is asked of a thread that waits for no answer.
LEMMA NothingAsked ==
    ASSUME worker'.pc \notin Asking
    PROVE  AnswerIsFound'
BY DEF AnswerIsFound, Asking, Waiting

\* While the thread stays with its challenge, the viewer may be told to go on,
\* and the inbox may take an answer, close, or be emptied.
LEMMA ChallengeStays ==
    ASSUME AnswerIsFound, challenges' = challenges, worker.pc \in Asking,
           worker'.job = worker.job, worker'.pc \in Asking \ {"publish"} \/ worker' = worker,
           worker'.pc = "interWait" <=>
             worker.pc = "interWait" \/ (worker.pc = "publish" /\ worker.kind = "interactive"
                                         /\ worker' # worker),
           viewer'.id = viewer.id,
           inbox' \in {inbox, EmptyInbox} \/ (inbox # EmptyInbox /\ inbox'.id = inbox.id)
    PROVE  AnswerIsFound'
<1>1. challenges'[worker'.job] = challenges[worker.job]
  OBVIOUS
<1>2. CASE worker' = worker
  BY <1>1, <1>2 DEF AnswerIsFound
<1>3. CASE worker' # worker
  BY <1>1, <1>3 DEF AnswerIsFound, Asking, Waiting, ChallengeKinds
<1>4. QED  BY <1>2, <1>3

\* The steps of the thread.
LEMMA WorkerFinds ==
    ASSUME IInv, AnswerIsFound, WorkerStep
    PROVE  AnswerIsFound'
<1>0. worker \in Workers
  BY DEF IInv, TypeOK
<1>1. ASSUME ToIdle PROVE AnswerIsFound'
  BY <1>1, IdleFacts, NothingAsked DEF ToIdle, Asking, Waiting
<1>2. ASSUME NEW plan, LeaveBrowser(plan) PROVE AnswerIsFound'
  BY <1>2, <1>0, NothingAsked DEF LeaveBrowser, Workers, Asking, Waiting
<1>3. ASSUME NEW pc \in Places \ Asking, Goto(pc) PROVE AnswerIsFound'
  BY <1>3, <1>0, NothingAsked DEF Goto, Workers
<1>4. CASE LoopStep
  <2>1. ASSUME NEW j \in Jobs, Claim(j) PROVE AnswerIsFound'
    BY <2>1, LoadFacts, NothingAsked DEF Claim, Asking, Waiting
  <2>2. ASSUME NEW s, LoopSelects(s) PROVE AnswerIsFound'
    BY <2>2, <1>0, NothingAsked DEF LoopSelects, Workers, Asking, Waiting
  <2>3. CASE LoopReturns  BY <2>3, <1>1 DEF LoopReturns
  <2>4. CASE FinishBatch  BY <2>4, <1>1 DEF FinishBatch
  <2>5. CASE OpenBrowser
    BY <2>5, <1>2, <1>3 DEF OpenBrowser, Places, Acquiring, Asking, Waiting
  <2>6. QED  BY <1>4, <2>1, <2>2, <2>3, <2>4, <2>5 DEF LoopStep
<1>5. CASE AcquireStep
  <2>0. \A pc \in Acquiring : pc \in Places \ Asking
    BY DEF Places, Acquiring, Asking, Waiting
  <2>1. CASE EndFetch
    BY <2>1, <2>0, <1>0, <1>2, <1>3, NothingAsked DEF EndFetch, Acquiring, Workers, Asking, Waiting
  <2>2. CASE AcquireStep /\ ~EndFetch
    BY <2>2, <2>0, <1>2, <1>3
       DEF AcquireStep, CheckDrive, BeginFetch, RecheckDrive, TakeGuard, Upload, VerifyDrive,
           Acquiring
  <2>3. QED  BY <1>5, <2>1, <2>2
<1>6. CASE RowStep
  <2>1. CASE ReloadRefuses  BY <2>1, <1>1 DEF ReloadRefuses
  <2>2. CASE ReloadReads  BY <2>2, <1>0, NothingAsked DEF ReloadReads, Workers, Asking, Waiting
  <2>3. CASE WriteEnd  BY <2>3, <1>1 DEF WriteEnd
  <2>4. CASE WriteResume  BY <2>4, <1>0, NothingAsked DEF WriteResume, Workers, Asking, Waiting
  <2>5. CASE VersionConflict  BY <2>5, <1>1 DEF VersionConflict
  <2>6. ASSUME NEW s, WriteComplete(s) \/ WriteFailService(s) PROVE AnswerIsFound'
    <3>1. worker.job \in Jobs
      BY <2>6, HeldRow DEF WriteComplete, WriteFailService
    <3>2. ToIdle \/ worker' = [IdleWorker EXCEPT !.pc = "load", !.job = worker.job]
      BY <2>6, Zenon DEF WriteComplete, WriteFailService
    <3>3. QED  BY <1>1, <3>1, <3>2, LoadFacts, NothingAsked DEF Asking, Waiting
  <2>7. QED  BY <1>6, <2>1, <2>2, <2>3, <2>4, <2>5, <2>6 DEF RowStep
<1>7. CASE ChallengeStep
  <2>1. CASE RefuseChallenge  BY <2>1, <1>2 DEF RefuseChallenge
  <2>2. CASE IssueChallenge
    <3>1. /\ worker'.pc = "publish" /\ worker'.kind = worker.kind /\ worker'.job = worker.job
          /\ worker.job \in Jobs /\ worker.kind \in ChallengeKinds
      BY <2>2, <1>0, HeldRow DEF IssueChallenge, Workers
    <3>2. challenges'[worker.job] = [id |-> issued + 1, kind |-> worker.kind]
      BY <2>2, <3>1 DEF IssueChallenge, IInv, TypeOK
    <3>3. CASE worker.kind = "code"
      <4>1. inbox' = [id |-> issued + 1, phase |-> "pending"]
        BY <2>2, <3>3 DEF IssueChallenge
      <4>2. QED  BY <3>1, <3>2, <3>3, <4>1 DEF AnswerIsFound
    <3>4. CASE worker.kind = "interactive"
      <4>1. viewer' = [id |-> issued + 1, proceed |-> FALSE]
        BY <2>2, <3>4 DEF IssueChallenge
      <4>2. QED  BY <3>1, <3>2, <3>4, <4>1 DEF AnswerIsFound
    <3>5. QED  BY <3>1, <3>3, <3>4 DEF ChallengeKinds
  <2>3. CASE PublishChallenge
    <3>1. /\ worker'.pc = IF worker.kind = "code" THEN "codeWait" ELSE "interWait"
          /\ worker'.job = worker.job /\ worker.pc = "publish"
      BY <2>3, <1>0 DEF PublishChallenge, Workers
    <3>2. UNCHANGED <<challenges, viewer, inbox>>
      BY <2>3 DEF PublishChallenge, challengeVars
    <3>3. QED  BY <3>1, <3>2, ChallengeStays DEF Asking, Waiting, AnswerIsFound, ChallengeKinds
  <2>4. CASE ConsumeAnswer
    BY <2>4, <1>0, NothingAsked DEF ConsumeAnswer, Workers, Asking, Waiting
  <2>5. CASE WaitSliceEnds
    <3>1. worker'.pc = "codeCheck" /\ worker'.job = worker.job /\ worker.pc = "codeWait"
      BY <2>5, <1>0 DEF WaitSliceEnds, Goto, Workers
    <3>2. inbox' = inbox \/ (inbox # EmptyInbox /\ inbox'.id = inbox.id)
      BY <2>5 DEF WaitSliceEnds, EmptyInbox, IInv, TypeOK
    <3>3. UNCHANGED <<challenges, viewer>>
      BY <2>5 DEF WaitSliceEnds
    <3>4. QED  BY <3>1, <3>2, <3>3, ChallengeStays DEF Asking, Waiting
  <2>6. CASE WaitFindsNoEntry  BY <2>6, <1>2 DEF WaitFindsNoEntry
  <2>7. CASE WaitAgain
    <3>1. worker'.pc = "codeWait" /\ worker'.job = worker.job /\ worker.pc = "codeCheck"
      BY <2>7, <1>0 DEF WaitAgain, Goto, Workers
    <3>2. UNCHANGED <<challenges, viewer, inbox>>
      BY <2>7 DEF WaitAgain, challengeVars
    <3>3. QED  BY <3>1, <3>2, ChallengeStays DEF Asking, Waiting
  <2>8. CASE GiveUpCode
    <3>1. ToIdle \/ worker' = [worker EXCEPT !.pc = "reload", !.plan = "expire"]
      BY <2>8, Zenon DEF GiveUpCode
    <3>2. QED  BY <3>1, <1>0, <1>1, NothingAsked DEF Workers, Asking, Waiting
  <2>9. CASE InteractiveProceeds
    BY <2>9, <1>0, NothingAsked DEF InteractiveProceeds, Workers, Asking, Waiting
  <2>10. CASE InteractiveCancelled  BY <2>10, <1>1 DEF InteractiveCancelled
  <2>11. CASE GiveUpInteractive
    <3>1. ToIdle \/ worker' = [worker EXCEPT !.pc = "reload", !.plan = "expire"]
      BY <2>11, Zenon DEF GiveUpInteractive
    <3>2. QED  BY <3>1, <1>0, <1>1, NothingAsked DEF Workers, Asking, Waiting
  <2>12. QED
    BY <1>7, <2>1, <2>2, <2>3, <2>4, <2>5, <2>6, <2>7, <2>8, <2>9, <2>10, <2>11
       DEF ChallengeStep
<1>8. QED  BY <1>4, <1>5, <1>6, <1>7 DEF WorkerStep

\* A step of somebody else during a wait: no handler takes a challenge from the
\* thread but a cancellation, and that empties the inbox.
LEMMA OthersFind ==
    ASSUME IInv, AnswerIsFound,
           HandlerStep \/ OwnerStep \/ FailureStep \/ ChallengeExpires \/ StartProcess \/ Exit
    PROVE  AnswerIsFound'
<1>0. worker \in Workers /\ viewer \in [id: Nat, proceed: BOOLEAN]
      /\ inbox \in [id: Nat, phase: {"empty", "pending", "answered", "closed"}]
  BY DEF IInv, TypeOK
<1>1. ASSUME UNCHANGED <<worker, challenges>>, viewer'.id = viewer.id,
             inbox' \in {inbox, EmptyInbox} \/ (inbox # EmptyInbox /\ inbox'.id = inbox.id)
      PROVE  AnswerIsFound'
  <2>1. CASE worker.pc \in Asking  BY <2>1, <1>1, ChallengeStays DEF AnswerIsFound, Asking, Waiting
  <2>2. CASE worker.pc \notin Asking  BY <2>2, <1>1, NothingAsked
  <2>3. QED  BY <2>1, <2>2
<1>2. CASE HandlerStep
  <2>1. CASE CancelDiscards  BY <2>1, <1>1 DEF CancelDiscards
  <2>2. CASE CancelNotifies  BY <2>2, <1>0, <1>1 DEF CancelNotifies, challengeVars
  <2>3. CASE SubmitAnswer
    <3>1. inbox' = inbox \/ (inbox # EmptyInbox /\ inbox'.id = inbox.id)
      BY <2>3, <1>0 DEF SubmitAnswer, EmptyInbox
    <3>2. QED  BY <2>3, <3>1, <1>1 DEF SubmitAnswer
  <2>4. CASE ContinueInteractive  BY <2>4, <1>0, <1>1 DEF ContinueInteractive, challengeVars
  <2>5. QED  BY <1>2, <2>1, <2>2, <2>3, <2>4 DEF HandlerStep
<1>3. CASE OwnerStep
  BY <1>3, <1>1 DEF OwnerStep, RequestJob, CancelJob, RequestAnswer, challengeVars
<1>4. CASE FailureStep
  <2>1. CASE StoreFails \/ CancellationCheckFails
    <3>1. ToIdle \/ \E plan : LeaveBrowser(plan)
      BY <2>1, Zenon DEF StoreFails, CancellationCheckFails
    <3>2. worker'.pc \notin Asking
      BY <3>1, <1>0, IdleFacts DEF ToIdle, LeaveBrowser, Workers, Asking, Waiting
    <3>3. QED  BY <3>2, NothingAsked
  <2>2. CASE ClaimFails \/ RequestStop
    BY <2>2, <1>1 DEF ClaimFails, RequestStop, challengeVars
  <2>3. CASE Crash
    BY <2>3, IdleFacts, NothingAsked DEF Crash, ProcessEnds, Asking, Waiting
  <2>4. QED  BY <1>4, <2>1, <2>2, <2>3 DEF FailureStep
<1>5. CASE ChallengeExpires  BY <1>5, <1>1 DEF ChallengeExpires
<1>6. CASE StartProcess
  BY <1>6, IdleFacts, NothingAsked DEF StartProcess, Asking, Waiting
<1>7. CASE Exit
  BY <1>7, IdleFacts, NothingAsked DEF Exit, ProcessEnds, Asking, Waiting
<1>8. QED  BY <1>2, <1>3, <1>4, <1>5, <1>6, <1>7

\* Whoever cancels, answers, stops or crashes while the thread waits, a job
\* shown as WAITING waits on the challenge that its owner's answer will reach.
THEOREM OwnerCanAnswer == Spec => []WaitingIsAnswerable
<1>1. Init => AnswerIsFound
  BY IdleFacts DEF Init, AnswerIsFound
<1>2. IInv /\ AnswerIsFound /\ [Next]_vars => AnswerIsFound'
  <2>1. ASSUME IInv, AnswerIsFound, Next PROVE AnswerIsFound'
    BY <2>1, WorkerFinds, OthersFind DEF Next
  <2>2. AnswerIsFound /\ UNCHANGED vars => AnswerIsFound'
    BY DEF vars, AnswerIsFound
  <2>3. QED  BY <2>1, <2>2
<1>3. AnswerIsFound => WaitingIsAnswerable
  BY DEF AnswerIsFound, WaitingIsAnswerable, Waiting
<1>4. QED  BY <1>1, <1>2, <1>3, Inductive, PTL DEF Spec

-------------------------------------------------------------------------------
(* ReceiptWorker implements ReceiptLedger for every set of jobs and        *)
(* services: each step, in a state of the inductive invariant, is a step   *)
(* of the ledger or leaves the ledger as it is.                            *)

\* The ledger entries of all jobs.
Entries == [j \in Jobs |-> EntryOf(jobs[j])]

\* A step the ledger allows, or does not see.
LedgerStep == Ledger!Next \/ UNCHANGED <<drive, Entries>>

\* The entry of a row that is rewritten.
LEMMA RewrittenEntry ==
    ASSUME NEW j \in Jobs, NEW state, NEW completed, NEW failed, NEW current,
           Rewritten(j, state, completed, failed, current)
    PROVE  EntryOf(jobs'[j]) =
             [status |-> IF state \in {"queued", "running", "waiting"} THEN "open" ELSE state,
              asked |-> jobs[j].services, done |-> completed, failed |-> failed]
BY DEF Rewritten, EntryOf, StatusOf

\* When one row changes, one entry does.
LEMMA OneEntry ==
    ASSUME NEW j \in Jobs, \A k \in Jobs \ {j} : SameRow(k)
    PROVE  Entries' = [Entries EXCEPT ![j] = EntryOf(jobs'[j])]
BY DEF Entries, SameRow

\* A write that changes none of what the ledger shows.
LEMMA NoEntry ==
    ASSUME NEW j \in Jobs, \A k \in Jobs \ {j} : SameRow(k),
           EntryOf(jobs'[j]) = EntryOf(jobs[j])
    PROVE  Entries' = Entries
BY DEF Entries, SameRow

\* A write of one row is a write of one entry.
LEMMA EntryWritten ==
    ASSUME NEW j \in Jobs, \A k \in Jobs \ {j} : SameRow(k), drive' = drive,
           NEW entry, EntryOf(jobs'[j]) = entry
    PROVE  Ledger!Write(j, entry)
BY OneEntry DEF Ledger!Write, Entries

\* What the ledger shows of a job.
LEMMA EntryFacts ==
    ASSUME NEW j \in Jobs
    PROVE  /\ Entries[j] = EntryOf(jobs[j])
           /\ EntryOf(jobs[j]).status = StatusOf(jobs[j])
           /\ EntryOf(jobs[j]).asked = jobs[j].services
           /\ EntryOf(jobs[j]).done = jobs[j].completed
           /\ EntryOf(jobs[j]).failed = jobs[j].failed
           /\ Ledger!Owed(EntryOf(jobs[j])) = Remaining(jobs[j])
BY DEF Entries, EntryOf, Ledger!Owed, Remaining

\* The entry of the job whose row the thread writes, before and after.
LEMMA HeldEntry ==
    ASSUME IInv, worker.pc \in {"finish", "publish", "write"},
           NEW state \in JobStates, NEW completed \in SUBSET Services,
           NEW failed \in SUBSET Services, NEW current \in Services \cup {NoService},
           CompareAndSet(worker.job, worker.version, state, completed, failed, current)
    PROVE  /\ worker.job \in Jobs /\ Row \in JobRows
           /\ \A k \in Jobs \ {worker.job} : SameRow(k)
           /\ EntryOf(jobs'[worker.job]) =
                Ledger!Entry(IF state \in {"queued", "running", "waiting"} THEN "open" ELSE state,
                             Row.services, completed, failed)
           /\ StatusOf(Row) \in {"open", "cancelled"}
           /\ worker.pc = "finish" \/ (worker.pc = "write" /\ worker.plan # "resumeCode") =>
                StatusOf(Row) = "open"
<1>1. /\ worker.job \in Jobs /\ Row \in JobRows /\ RowsOK
      /\ Row.state \in Incomplete \cup {"cancelled"}
  BY HeldRow
<1>2. /\ Rewritten(worker.job, state, completed, failed, current)
      /\ \A k \in Jobs \ {worker.job} : SameRow(k)
  BY <1>1, CompareAndSetRow
<1>3. Fresh(worker.job, worker.version)
  BY DEF CompareAndSet
<1>4. worker.pc = "finish" \/ (worker.pc = "write" /\ worker.plan # "resumeCode") => ~Cancelled
  BY <1>3 DEF IInv, ReadIsCurrent
<1>5. StatusOf(Row) = IF Cancelled THEN "cancelled" ELSE "open"
  BY <1>1 DEF StatusOf, Cancelled, Incomplete
<1>6. EntryOf(jobs'[worker.job]) =
        Ledger!Entry(IF state \in {"queued", "running", "waiting"} THEN "open" ELSE state,
                     Row.services, completed, failed)
  BY <1>1, <1>2, RewrittenEntry DEF Ledger!Entry, Row
<1>7. QED  BY <1>1, <1>2, <1>4, <1>5, <1>6

-------------------------------------------------------------------------------
(* Each step of the worker is a step of the ledger, or none.               *)

\* An upload saves a receipt that an open job owes.
LEMMA UploadSaves ==
    ASSUME IInv, worker.pc = "upload", jobs' = jobs,
           drive' \in {drive, drive \cup {worker.service}}
    PROVE  LedgerStep
<1>1. CASE drive' = drive
  BY <1>1 DEF LedgerStep, Entries
<1>2. CASE drive' = drive \cup {worker.service}
  <2>1. OnService
    BY DEF OnService, Acquiring
  <2>2. /\ worker.job \in Jobs /\ Row.state \in Incomplete
        /\ worker.service \in Remaining(Row) /\ worker.service \in Services
    BY <2>1, HeldRow DEF IInv, GuardIsHeld, Cancelled
  <2>3. EntryOf(jobs[worker.job]).status = "open"
    BY <2>2, EntryFacts DEF StatusOf, Incomplete, Row
  <2>4. worker.service \in Ledger!Owed(EntryOf(jobs[worker.job]))
    BY <2>2, EntryFacts DEF Row
  <2>5. Ledger!Save(worker.service)
    BY <1>2, <2>2, <2>3, <2>4 DEF Ledger!Save
  <2>6. QED  BY <2>2, <2>5 DEF LedgerStep, Ledger!Next
<1>3. QED  BY <1>1, <1>2

\* A write that keeps the outcomes opens the job, or leaves it open.
LEMMA OpenWrite ==
    ASSUME IInv, worker.pc \in {"publish", "write"}, drive' = drive,
           NEW state \in Incomplete, NEW current \in Services \cup {NoService},
           CompareAndSet(worker.job, worker.version, state, Row.completed, Row.failed, current)
    PROVE  LedgerStep
<1>1. /\ state \in JobStates /\ state \in {"queued", "running", "waiting"}
      /\ Row.completed \in SUBSET Services /\ Row.failed \in SUBSET Services
  BY HeldRow DEF Incomplete, JobStates, JobRows
<1>2. /\ worker.job \in Jobs /\ Row \in JobRows
      /\ \A k \in Jobs \ {worker.job} : SameRow(k)
      /\ EntryOf(jobs'[worker.job]) = Ledger!Entry("open", Row.services, Row.completed, Row.failed)
      /\ StatusOf(Row) \in {"open", "cancelled"}
  BY <1>1, HeldEntry
<1>3. EntryOf(Row) = Ledger!Entry(StatusOf(Row), Row.services, Row.completed, Row.failed)
  BY DEF EntryOf, Ledger!Entry
<1>4. CASE StatusOf(Row) = "open"
  <2>1. Entries' = Entries
    BY <1>2, <1>3, <1>4, NoEntry DEF Row
  <2>2. QED  BY <2>1 DEF LedgerStep
<1>5. CASE StatusOf(Row) = "cancelled"
  <2>1. Ledger!Write(worker.job, Ledger!Entry("open", Row.services, Row.completed, Row.failed))
    BY <1>2, EntryWritten
  <2>2. Ledger!Reopen(worker.job)
    BY <1>2, <1>5, <2>1, EntryFacts DEF Ledger!Reopen, Row, Entries
  <2>3. QED  BY <1>2, <2>2 DEF LedgerStep, Ledger!Next
<1>6. QED  BY <1>2, <1>4, <1>5

\* A write that ends the job settles it.
LEMMA EndWrite ==
    ASSUME IInv, worker.pc = "finish" \/ (worker.pc = "write" /\ worker.plan # "resumeCode"), drive' = drive,
           NEW state \in Ledger!Settled, NEW current \in Services \cup {NoService},
           state = "succeeded" => Remaining(Row) = {} /\ Row.failed = {},
           CompareAndSet(worker.job, worker.version, state, Row.completed, Row.failed, current)
    PROVE  LedgerStep
<1>1. /\ state \in JobStates /\ state \notin {"queued", "running", "waiting"}
      /\ Row.completed \in SUBSET Services /\ Row.failed \in SUBSET Services
  BY HeldRow DEF Ledger!Settled, JobStates, JobRows
<1>2. /\ worker.job \in Jobs
      /\ \A k \in Jobs \ {worker.job} : SameRow(k)
      /\ EntryOf(jobs'[worker.job]) = Ledger!Entry(state, Row.services, Row.completed, Row.failed)
      /\ StatusOf(Row) = "open"
  BY <1>1, HeldEntry
<1>3. Ledger!Write(worker.job, Ledger!Entry(state, Row.services, Row.completed, Row.failed))
  BY <1>2, EntryWritten
<1>4. Ledger!Settle(worker.job, state)
  BY <1>2, <1>3, EntryFacts DEF Ledger!Settle, Row, Entries
<1>5. QED  BY <1>2, <1>4 DEF LedgerStep, Ledger!Next

\* Completing a service whose receipt Drive holds.
LEMMA CompleteStep ==
    ASSUME IInv, NEW s \in Services \cup {NoService}, WriteComplete(s)
    PROVE  LedgerStep
<1> DEFINE service == worker.service
           done == Row.completed \cup {service}
           row == [Row EXCEPT !.completed = done]
           state == IF s # NoService THEN "running"
                    ELSE IF Row.failed = {} THEN "succeeded" ELSE "failed"
           status == IF s # NoService THEN "open"
                     ELSE IF Row.failed = {} THEN "succeeded" ELSE "failed"
<1>1. /\ worker.pc = "write" /\ worker.plan = "complete" /\ IsNext(s, row) /\ drive' = drive
      /\ CompareAndSet(worker.job, worker.version, state, done, Row.failed, s)
  BY DEF WriteComplete
<1>2. /\ service \in Remaining(Row) /\ service \in drive /\ service \in Services
      /\ Row \in JobRows /\ worker.job \in Jobs
  BY <1>1, HeldRow DEF IInv, ServiceIsRemaining, OnService, Listed
<1>3. done \in SUBSET Services /\ Row.failed \in SUBSET Services
  BY <1>2 DEF JobRows
<1>4. state \in JobStates
      /\ (IF state \in {"queued", "running", "waiting"} THEN "open" ELSE state) = status
  BY DEF JobStates
<1>5. Remaining(row) = Remaining(Row) \ {service} /\ row \in JobRows
  <2>1. /\ row.services = Row.services /\ row.completed = done /\ row.failed = Row.failed
    BY <1>2 DEF JobRows
  <2>2. row \in JobRows
    BY <1>2, <1>3 DEF JobRows
  <2>3. QED  BY <2>1, <2>2 DEF Remaining
<1>6. s = NoService <=> Remaining(Row) = {service}
  <2>1. s = NoService <=> Remaining(row) = {}
    BY <1>1, <1>5, NextRemains
  <2>2. QED  BY <1>2, <1>5, <2>1
<1> HIDE DEF row, done, state
<1>7. /\ \A k \in Jobs \ {worker.job} : SameRow(k)
      /\ EntryOf(jobs'[worker.job]) = Ledger!Entry(status, Row.services, done, Row.failed)
      /\ StatusOf(Row) = "open"
  BY <1>1, <1>3, <1>4, HeldEntry
<1>8. Ledger!Write(worker.job, Ledger!Entry(status, Row.services, done, Row.failed))
  BY <1>1, <1>2, <1>7, EntryWritten
<1>9. /\ Entries[worker.job] = EntryOf(Row)
      /\ EntryOf(Row).status = "open" /\ EntryOf(Row).asked = Row.services
      /\ EntryOf(Row).done = Row.completed /\ EntryOf(Row).failed = Row.failed
      /\ Ledger!Owed(EntryOf(Row)) = Remaining(Row)
  BY <1>2, <1>7, EntryFacts DEF Row
<1>10. Ledger!Complete(worker.job, service)
  BY <1>2, <1>6, <1>8, <1>9 DEF Ledger!Complete, Entries, done
<1>11. QED  BY <1>2, <1>10 DEF LedgerStep, Ledger!Next

\* Recording a service as failed.
LEMMA FailServiceStep ==
    ASSUME IInv, NEW s \in Services \cup {NoService}, WriteFailService(s)
    PROVE  LedgerStep
<1> DEFINE service == worker.service
           failures == Row.failed \cup {service}
<1>1. /\ worker.pc = "write" /\ worker.plan = "failService" /\ drive' = drive
      /\ CompareAndSet(worker.job, worker.version, "running", Row.completed, failures, s)
  BY DEF WriteFailService
<1>2. /\ service \in Remaining(Row) /\ service \in Services
      /\ Row \in JobRows /\ worker.job \in Jobs
  BY <1>1, HeldRow DEF OnService
<1>3. /\ failures \in SUBSET Services /\ Row.completed \in SUBSET Services
      /\ "running" \in JobStates
  BY <1>2 DEF JobRows, JobStates
<1> HIDE DEF failures
<1>4. /\ \A k \in Jobs \ {worker.job} : SameRow(k)
      /\ EntryOf(jobs'[worker.job]) = Ledger!Entry("open", Row.services, Row.completed, failures)
      /\ StatusOf(Row) = "open"
  BY <1>1, <1>3, HeldEntry
<1>5. Ledger!Write(worker.job, Ledger!Entry("open", Row.services, Row.completed, failures))
  BY <1>1, <1>2, <1>4, EntryWritten
<1>6. /\ Entries[worker.job] = EntryOf(Row)
      /\ EntryOf(Row).status = "open" /\ EntryOf(Row).asked = Row.services
      /\ EntryOf(Row).done = Row.completed /\ EntryOf(Row).failed = Row.failed
      /\ Ledger!Owed(EntryOf(Row)) = Remaining(Row)
  BY <1>2, <1>4, EntryFacts DEF Row
<1>7. Ledger!GiveUp(worker.job, service)
  BY <1>2, <1>5, <1>6 DEF Ledger!GiveUp, Entries, failures
<1>8. QED  BY <1>2, <1>7 DEF LedgerStep, Ledger!Next

\* The worker thread.
LEMMA WorkerStepsLedger ==
    ASSUME IInv, WorkerStep
    PROVE  LedgerStep
<1>0. {"running", "waiting"} \subseteq Incomplete
      /\ {"succeeded", "failed", "intervention"} \subseteq Ledger!Settled
  BY DEF Incomplete, Ledger!Settled
<1>1. ASSUME NEW j \in Jobs, Claim(j)
      PROVE  LedgerStep
  <2>1. /\ jobs[j].state = "queued" /\ drive' = drive
        /\ \A k \in Jobs \ {j} : SameRow(k)
        /\ \E s \in Services \cup {NoService} :
             Rewritten(j, "running", jobs[j].completed, jobs[j].failed, s)
    BY <1>1, TypeParts, ClaimNextRow DEF Claim, IInv
  <2>2. EntryOf(jobs'[j]) = EntryOf(jobs[j])
    BY <2>1, RewrittenEntry DEF EntryOf, StatusOf
  <2>3. QED  BY <2>1, <2>2, NoEntry DEF LedgerStep
<1>2. CASE LoopReturns \/ OpenBrowser \/ \E s \in Services \cup {NoService} : LoopSelects(s)
  BY <1>2 DEF LoopReturns, OpenBrowser, LoopSelects, LedgerStep, Entries
<1>3. CASE FinishBatch
  <2>1. worker.pc = "finish" /\ drive' = drive /\ Remaining(Row) = {}
    BY <1>3 DEF FinishBatch, IInv, ReadIsCurrent
  <2>2. PICK state \in {"succeeded", "failed"} :
          /\ CompareAndSet(worker.job, worker.version, state, Row.completed, Row.failed, NoService)
          /\ state = "succeeded" => Row.failed = {}
    BY <1>3 DEF FinishBatch
  <2>3. QED  BY <1>0, <2>1, <2>2, EndWrite
<1>4. CASE AcquireStep
  <2>1. CASE Upload
    <3>1. worker.pc = "upload" /\ jobs' = jobs /\ drive' \in {drive, drive \cup {worker.service}}
      BY <2>1 DEF Upload
    <3>2. QED  BY <3>1, UploadSaves
  <2>2. CASE CheckDrive \/ BeginFetch \/ EndFetch \/ RecheckDrive \/ TakeGuard \/ VerifyDrive
    BY <2>2 DEF CheckDrive, BeginFetch, EndFetch, RecheckDrive, TakeGuard, VerifyDrive,
       LedgerStep, Entries
  <2>3. QED  BY <1>4, <2>1, <2>2 DEF AcquireStep
<1>5. CASE PublishChallenge
  <2>1. /\ worker.pc = "publish" /\ drive' = drive
        /\ CompareAndSet(worker.job, worker.version, "waiting",
                         Row.completed, Row.failed, worker.service)
    BY <1>5 DEF PublishChallenge
  <2>2. worker.service \in Services \cup {NoService}
    BY <2>1, HeldRow DEF Workers
  <2>3. QED  BY <1>0, <2>1, <2>2, OpenWrite
<1>6. CASE ChallengeStep /\ ~PublishChallenge
  BY <1>6 DEF ChallengeStep, RefuseChallenge, IssueChallenge, ConsumeAnswer, WaitSliceEnds,
     WaitFindsNoEntry, WaitAgain, GiveUpCode, InteractiveProceeds, InteractiveCancelled,
     GiveUpInteractive, LedgerStep, Entries
<1>7. CASE ReloadRefuses \/ ReloadReads \/ VersionConflict
  BY <1>7 DEF ReloadRefuses, ReloadReads, VersionConflict, LedgerStep, Entries
<1>8. CASE WriteEnd
  <2>1. PICK state \in {"intervention", "failed"} :
          /\ worker.pc = "write" /\ worker.plan # "resumeCode" /\ drive' = drive
          /\ CompareAndSet(worker.job, worker.version, state,
                           Row.completed, Row.failed, Row.current)
    BY <1>8 DEF WriteEnd
  <2>2. Row.current \in Services \cup {NoService}
    BY <2>1, HeldOutcomes
  <2>3. QED  BY <1>0, <2>1, <2>2, EndWrite
<1>9. CASE WriteResume
  <2>1. /\ worker.pc = "write" /\ drive' = drive
        /\ CompareAndSet(worker.job, worker.version, "running",
                         Row.completed, Row.failed, worker.service)
    BY <1>9 DEF WriteResume
  <2>2. worker.service \in Services \cup {NoService}
    BY <2>1, HeldRow DEF Workers
  <2>3. QED  BY <1>0, <2>1, <2>2, OpenWrite
<1>10. CASE \E s \in Services \cup {NoService} : WriteComplete(s) \/ WriteFailService(s)
  BY <1>10, CompleteStep, FailServiceStep
<1>11. QED
  BY <1>1, <1>2, <1>3, <1>4, <1>5, <1>6, <1>7, <1>8, <1>9, <1>10
     DEF WorkerStep, LoopStep, RowStep

\* The owner, the request handlers, the process, and failures.
LEMMA OthersStepLedger ==
    ASSUME IInv, HandlerStep \/ OwnerStep \/ FailureStep \/ ChallengeExpires
                 \/ StartProcess \/ Exit
    PROVE  LedgerStep
<1>1. ASSUME NEW j \in Jobs, NEW S \in SUBSET Services, RequestJob(j, S)
      PROVE  LedgerStep
  <2>1. /\ jobs[j].state = "absent" /\ drive' = drive
        /\ jobs'[j].state = "queued" /\ jobs'[j].services = S
        /\ jobs'[j].completed = {} /\ jobs'[j].failed = {}
        /\ \A k \in Jobs \ {j} : SameRow(k)
    BY <1>1, TypeParts, CreateJobRow DEF RequestJob, IInv
  <2>2. EntryOf(jobs'[j]) = Ledger!Entry("open", S, {}, {})
    BY <2>1 DEF EntryOf, StatusOf, Ledger!Entry
  <2>3. Ledger!Write(j, Ledger!Entry("open", S, {}, {}))
    BY <2>1, <2>2, EntryWritten
  <2>4. Ledger!Ask(j, S)
    BY <2>1, <2>3 DEF Ledger!Ask, EntryOf, StatusOf
  <2>5. QED  BY <2>4 DEF LedgerStep, Ledger!Next
<1>2. ASSUME NEW j \in Jobs, CancelJob(j)
      PROVE  LedgerStep
  <2>1. /\ jobs[j].state \notin Terminal \cup {"absent"} /\ drive' = drive
        /\ CompareAndSet(j, jobs[j].version, "cancelled", jobs[j].completed,
                         jobs[j].failed, NoService)
    BY <1>2 DEF CancelJob
  <2>2. /\ jobs[j] \in JobRows /\ RowsOK /\ "cancelled" \in JobStates
        /\ jobs[j].completed \in SUBSET Services /\ jobs[j].failed \in SUBSET Services
    BY TypeParts DEF IInv, RowsOK, JobRows, JobStates
  <2>3. /\ Rewritten(j, "cancelled", jobs[j].completed, jobs[j].failed, NoService)
        /\ \A k \in Jobs \ {j} : SameRow(k)
    BY <2>1, <2>2, CompareAndSetRow
  <2>4. EntryOf(jobs'[j]) = Ledger!Entry("cancelled", jobs[j].services, jobs[j].completed,
                                         jobs[j].failed)
    BY <2>3, RewrittenEntry DEF Ledger!Entry
  <2>5. EntryOf(jobs[j]).status = "open"
    BY <2>1, <2>2, EntryFacts DEF StatusOf, JobRows, JobStates, Terminal
  <2>6. Ledger!Write(j, Ledger!Entry("cancelled", jobs[j].services, jobs[j].completed,
                                     jobs[j].failed))
    BY <2>1, <2>3, <2>4, EntryWritten
  <2>7. Ledger!Cancel(j)
    BY <2>5, <2>6, EntryFacts DEF Ledger!Cancel, Entries
  <2>8. QED  BY <2>7 DEF LedgerStep, Ledger!Next
<1>3. CASE StartProcess
  <2>1. \A k \in Jobs : IF jobs[k].state \in Incomplete
                        THEN Rewritten(k, "queued", jobs[k].completed, jobs[k].failed, NoService)
                        ELSE SameRow(k)
    BY <1>3, TypeParts, RecoverRow DEF StartProcess, IInv
  <2>2. ASSUME NEW k \in Jobs
        PROVE  EntryOf(jobs'[k]) = EntryOf(jobs[k])
    <3>1. CASE jobs[k].state \in Incomplete
      BY <2>1, <3>1, RewrittenEntry DEF EntryOf, StatusOf, Incomplete
    <3>2. CASE jobs[k].state \notin Incomplete
      BY <2>1, <3>2 DEF SameRow
    <3>3. QED  BY <3>1, <3>2
  <2>3. drive' = drive
    BY <1>3 DEF StartProcess
  <2>4. QED  BY <2>2, <2>3 DEF LedgerStep, Entries
<1>4. CASE Crash \/ Exit
  <2>1. ProcessEnds
    BY <1>4 DEF Crash, Exit
  <2>2. CASE worker.pc = "upload"
    <3>1. jobs' = jobs /\ drive' \in {drive, drive \cup {worker.service}}
      BY <2>1, <2>2 DEF ProcessEnds
    <3>2. QED  BY <2>2, <3>1, UploadSaves
  <2>3. CASE worker.pc # "upload"
    BY <2>1, <2>3 DEF ProcessEnds, LedgerStep, Entries
  <2>4. QED  BY <2>2, <2>3
<1>5. CASE HandlerStep \/ ChallengeExpires
  BY <1>5 DEF HandlerStep, CancelDiscards, CancelNotifies, SubmitAnswer, ContinueInteractive,
     ChallengeExpires, LedgerStep, Entries
<1>6. CASE FailureStep /\ ~Crash
  BY <1>6 DEF FailureStep, StoreFails, CancellationCheckFails, ClaimFails, RequestStop,
     LedgerStep, Entries
<1>7. ASSUME NEW j \in Jobs, RequestAnswer(j)
      PROVE  LedgerStep
  BY <1>7 DEF RequestAnswer, LedgerStep, Entries
<1>8. QED  BY <1>1, <1>2, <1>3, <1>4, <1>5, <1>6, <1>7 DEF OwnerStep, FailureStep

-------------------------------------------------------------------------------

\* Whatever is interleaved, stopped, crashed or lost, the owner sees receipts
\* saved for open jobs that owe them, and services done that Drive holds: the
\* worker implements the ledger.
THEOREM WorkerImplementsLedger == Spec => ImplementsLedger
<1>1. Init => Ledger!Init
  BY DEF Init, InitJobs, Ledger!Init, Ledger!Closed, EntryOf, StatusOf, NoRow
<1>2. IInv /\ [Next]_vars => [Ledger!Next]_<<drive, Entries>>
  <2>1. ASSUME IInv, Next
        PROVE  LedgerStep
    BY <2>1, WorkerStepsLedger, OthersStepLedger DEF Next
  <2>2. UNCHANGED vars => UNCHANGED <<drive, Entries>>
    BY DEF vars, Entries
  <2>3. QED  BY <2>1, <2>2 DEF LedgerStep
<1>3. [Ledger!Next]_<<drive, Entries>> => [Ledger!Next]_Ledger!ledgerVars
  BY DEF Ledger!ledgerVars, Entries
<1>4. QED
  BY <1>1, <1>2, <1>3, Inductive, PTL DEF Spec, ImplementsLedger, Ledger!Spec
===============================================================================
