---------------------------- MODULE ReceiptWorker ----------------------------
(***************************************************************************)
(* The always-on receipt worker: the worker thread of                      *)
(* cloud/src/workers/runner.py (ReceiptWorker), the request handlers of    *)
(* cloud/src/workers/service.py (WorkerService) that interleave with it,   *)
(* the durable job table (JobStore), the receipts in Google Drive, and the *)
(* process that hosts all of it and may stop, crash and start again.       *)
(*                                                                         *)
(* The thread and the handlers share no lock around a job row: each reads  *)
(* the row, works, and writes it back under the version it read.  One      *)
(* action below is one access to shared state.  Handlers run one at a time *)
(* on the event loop; api holds the rest of the one in progress.           *)
(***************************************************************************)
EXTENDS JobStore

CONSTANTS
    NoJob,          \* what the worker holds between two jobs
    MaxAttempts,    \* challenges one acquisition may ask for (3 in the code)
    MaxRestarts,    \* bound: how often the process stops or crashes
    MaxFaults       \* bound: how often the store, or opening Drive, raises

ASSUME NoJobAssumption == NoJob \notin Jobs
ASSUME BoundsAssumption == {MaxAttempts, MaxRestarts, MaxFaults} \subseteq Nat

VARIABLES
    drive,      \* the services whose receipt of the month is in Google Drive
    worker,     \* the worker thread: where it is and what it has read
    guard,      \* who holds receipt_commit_guard
    inbox,      \* the entry of ChallengeResponseInbox the worker waits on
    viewer,     \* _interactive_challenge_id and _interactive_continue
    expired,    \* whether the current challenge has reached its expiry
    challenges, \* challenges[j] is the latest challenge stored for j
    issued,     \* how many challenges have been created
    api,        \* the rest of the request handler in progress
    process     \* the stop event, and the restarts and faults so far

vars == <<jobs, drive, worker, guard, inbox, viewer, expired, challenges,
          issued, api, process>>

\* What a step of the worker thread outside challenges leaves alone.
challengeVars == <<inbox, expired, challenges, issued>>

-------------------------------------------------------------------------------
(* The worker thread.  plan names the write that a re-read of the row is   *)
(* meant for; version is the version that was read.                        *)

Plans == {"none", "complete", "failService", "failJob", "intervene", "expire",
          "resumeCode", "resumeInteractive", "unexpected"}

\* Inside run_auto_acquisition.
Acquiring == {"check", "beginFetch", "fetching", "recheck", "save", "upload",
              "verify"}

\* Inside _wait_for_code and _wait_for_interactive.
Waiting == {"codeWait", "codeCheck", "interWait"}

Places == {"down", "idle", "load", "finish", "open", "challenge", "publish",
           "reload", "write"} \cup Acquiring \cup Waiting

ChallengeKinds == {"code", "interactive"}

Workers == [pc: Places, plan: Plans, job: Jobs \cup {NoJob}, version: Nat,
            service: Services \cup {NoService}, attempts: Nat,
            kind: ChallengeKinds \cup {"none", "unsupported"}]

IdleWorker == [pc |-> "idle", plan |-> "none", job |-> NoJob, version |-> 0,
               service |-> NoService, attempts |-> 0, kind |-> "none"]

DownWorker == [IdleWorker EXCEPT !.pc = "down"]

EmptyInbox == [id |-> 0, phase |-> "empty"]
NoViewer == [id |-> 0, proceed |-> FALSE]
NoChallenge == [id |-> 0, kind |-> "none"]
NoRequest == [op |-> "none", job |-> NoJob, id |-> 0]

Row == jobs[worker.job]
Cancelled == Row.state = "cancelled"
Stopping == process.stopping

\* A browser is registered as the active one of the worker's job.
BrowserActive ==
    \/ worker.pc \in Acquiring \cup Waiting \cup {"challenge", "publish"}
    \/ /\ worker.pc \in {"reload", "write"}
       /\ worker.plan \in {"expire", "resumeCode", "resumeInteractive"}

Init ==
    /\ InitJobs
    /\ drive = {}
    /\ worker = DownWorker
    /\ guard = "free"
    /\ inbox = EmptyInbox
    /\ viewer = NoViewer
    /\ expired = FALSE
    /\ challenges = [j \in Jobs |-> NoChallenge]
    /\ issued = 0
    /\ api = NoRequest
    /\ process = [stopping |-> FALSE, restarts |-> 0, faults |-> 0]

Goto(pc) == worker' = [worker EXCEPT !.pc = pc]

\* run_once returns: the finally blocks have cleared the viewer and the job.
ToIdle ==
    /\ worker' = IdleWorker
    /\ viewer' = NoViewer

\* _acquire_service is over: its finally block clears the viewer, and plan
\* says what the row is about to be read again for.
LeaveBrowser(plan) ==
    /\ worker' = [worker EXCEPT !.pc = "reload", !.plan = plan]
    /\ viewer' = NoViewer

-------------------------------------------------------------------------------
(* The job loop: run_once and _process_job.                                *)

Claim(j) ==
    /\ worker.pc = "idle"
    /\ ~Stopping
    /\ ClaimNext(j)
    /\ worker' = [IdleWorker EXCEPT !.pc = "load", !.job = j]
    /\ UNCHANGED <<drive, guard, viewer, challengeVars, api, process>>

\* The loop ends on the stop event and on a cancelled job.
LoopReturns ==
    /\ worker.pc = "load"
    /\ Stopping \/ Cancelled
    /\ ToIdle
    /\ UNCHANGED <<jobs, drive, guard, challengeVars, api, process>>

\* get_job at the head of the loop, and the choice of the next service.  The
\* row is RUNNING on that service already (see LoopHeadIsSettled), so that
\* the code's second claim of it never happens.
LoopSelects(s) ==
    /\ worker.pc = "load"
    /\ ~Stopping /\ ~Cancelled
    /\ IsNext(s, Row)
    /\ worker' = [worker EXCEPT !.pc = IF s = NoService THEN "finish" ELSE "open",
                                !.service = s,
                                !.version = Row.version,
                                !.attempts = 0]
    /\ UNCHANGED <<jobs, drive, guard, viewer, challengeVars, api, process>>

\* The batch result looks at the completed services only.
MutantFinishBatch ==
    /\ worker.pc = "finish"
    /\ CompareAndSet(worker.job, worker.version, "succeeded",
                     Row.completed, Row.failed, NoService)
    /\ ToIdle
    /\ UNCHANGED <<drive, guard, challengeVars, api, process>>

\* Nothing remains: the batch ends as a whole.
FinishBatch ==
    /\ worker.pc = "finish"
    /\ CompareAndSet(worker.job, worker.version,
                     IF Row.failed = {} THEN "succeeded" ELSE "failed",
                     Row.completed, Row.failed, NoService)
    /\ ToIdle
    /\ UNCHANGED <<drive, guard, challengeVars, api, process>>

\* The browser of the service opens, or its launch or credentials raise.
OpenBrowser ==
    /\ worker.pc = "open"
    /\ \/ Goto("check") /\ UNCHANGED viewer
       \/ LeaveBrowser("unexpected")
    /\ UNCHANGED <<jobs, drive, guard, challengeVars, api, process>>

-------------------------------------------------------------------------------
(* run_auto_acquisition.  A Drive listing shows a receipt only if Drive    *)
(* holds it; it may miss one.                                              *)

\* The listing is not narrowed to the service.
MutantListed == drive # {}

Listed == worker.service \in drive

\* The cancellation check and the first Drive check.
CheckDrive ==
    /\ worker.pc = "check"
    /\ \/ Cancelled /\ LeaveBrowser("failService")
       \/ ~Cancelled /\ LeaveBrowser("failJob")               \* DRIVE_CHECK_FAILED
       \/ ~Cancelled /\ Listed /\ LeaveBrowser("complete")    \* ALREADY_EXISTS
       \/ ~Cancelled /\ Goto("beginFetch") /\ UNCHANGED viewer
    /\ UNCHANGED <<jobs, drive, guard, challengeVars, api, process>>

BeginFetch ==
    /\ worker.pc = "beginFetch"
    /\ IF Cancelled
       THEN LeaveBrowser("failService")
       ELSE Goto("fetching") /\ UNCHANGED viewer
    /\ UNCHANGED <<jobs, drive, guard, challengeVars, api, process>>

\* The provider returned a statement, failed (continuable, not continuable,
\* or SECURITY_CHALLENGE), or asks for a challenge.  A challenge is returned
\* without asking again whether the job was cancelled meanwhile.
EndFetch ==
    /\ worker.pc = "fetching"
    /\ \/ Goto("recheck") /\ UNCHANGED viewer
       \/ \E plan \in {"failService", "failJob", "intervene"} : LeaveBrowser(plan)
       \/ \E k \in ChallengeKinds \cup {"unsupported"} :
            /\ worker' = [worker EXCEPT !.pc = "challenge", !.kind = k]
            /\ UNCHANGED viewer
    /\ UNCHANGED <<jobs, drive, guard, challengeVars, api, process>>

\* The PDF and its metadata are validated, and Drive is listed again.
RecheckDrive ==
    /\ worker.pc = "recheck"
    /\ \/ LeaveBrowser("failService")           \* cancelled, or not a usable PDF
       \/ ~Cancelled /\ LeaveBrowser("failJob")               \* DRIVE_RECHECK_FAILED
       \/ ~Cancelled /\ Listed /\ LeaveBrowser("complete")
       \/ ~Cancelled /\ Goto("save") /\ UNCHANGED viewer
    /\ UNCHANGED <<jobs, drive, guard, challengeVars, api, process>>

\* The row is not asked once more after the guard was taken.
MutantTakeGuard ==
    /\ worker.pc = "save"
    /\ guard = "free"
    /\ Goto("upload") /\ guard' = "worker" /\ UNCHANGED viewer
    /\ UNCHANGED <<jobs, drive, challengeVars, api, process>>

\* _CancellationAwareStorage.upsert_bytes up to the upload: the commit guard
\* is taken, then the row is asked once more.
TakeGuard ==
    /\ worker.pc = "save"
    /\ guard = "free"
    /\ IF Cancelled
       THEN LeaveBrowser("failService") /\ UNCHANGED guard
       ELSE Goto("upload") /\ guard' = "worker" /\ UNCHANGED viewer
    /\ UNCHANGED <<jobs, drive, challengeVars, api, process>>

\* The upload ends and releases the guard.  When it raises, Drive may hold
\* the receipt all the same (DRIVE_SAVE_FAILED).
Upload ==
    /\ worker.pc = "upload"
    /\ guard' = "free"
    /\ \/ /\ drive' = drive \cup {worker.service}
          /\ Goto("verify")
          /\ UNCHANGED viewer
       \/ /\ drive' \in {drive, drive \cup {worker.service}}
          /\ LeaveBrowser("failJob")
    /\ UNCHANGED <<jobs, challengeVars, api, process>>

\* DRIVE_VERIFY_FAILED and SAVED_FILE_NOT_FOUND both end the batch.
VerifyDrive ==
    /\ worker.pc = "verify"
    /\ \/ Listed /\ LeaveBrowser("complete")
       \/ LeaveBrowser("failJob")
    /\ UNCHANGED <<jobs, drive, guard, challengeVars, api, process>>

-------------------------------------------------------------------------------
(* Challenges: _wait_for_code and _wait_for_interactive.                   *)

\* Attempts exhausted, an unsupported kind, or no official page to show.
RefuseChallenge ==
    /\ worker.pc = "challenge"
    /\ \/ worker.attempts = MaxAttempts
       \/ worker.kind \in {"unsupported", "interactive"}
    /\ LeaveBrowser("intervene")
    /\ UNCHANGED <<jobs, drive, guard, challengeVars, api, process>>

\* The viewer is not told which challenge it shows.
MutantIssueChallenge ==
    /\ worker.pc = "challenge"
    /\ worker.attempts < MaxAttempts
    /\ worker.kind \in ChallengeKinds
    /\ worker' = [worker EXCEPT !.pc = "publish",
                                !.version = Row.version,
                                !.attempts = @ + 1]
    /\ issued' = issued + 1
    /\ challenges' = [challenges EXCEPT ![worker.job] =
                        [id |-> issued + 1, kind |-> worker.kind]]
    /\ expired' = FALSE
    /\ inbox' = IF worker.kind = "code" THEN [id |-> issued + 1, phase |-> "pending"] ELSE inbox
    /\ UNCHANGED <<jobs, drive, guard, viewer, api, process>>

\* get_job, whatever the state it shows, then add_challenge, then the inbox
\* entry (code) or the viewer's challenge (interactive).
IssueChallenge ==
    /\ worker.pc = "challenge"
    /\ worker.attempts < MaxAttempts
    /\ worker.kind \in ChallengeKinds
    /\ worker' = [worker EXCEPT !.pc = "publish",
                                !.version = Row.version,
                                !.attempts = @ + 1]
    /\ issued' = issued + 1
    /\ challenges' = [challenges EXCEPT ![worker.job] =
                        [id |-> issued + 1, kind |-> worker.kind]]
    /\ expired' = FALSE
    /\ IF worker.kind = "code"
       THEN inbox' = [id |-> issued + 1, phase |-> "pending"] /\ UNCHANGED viewer
       ELSE viewer' = [id |-> issued + 1, proceed |-> FALSE] /\ UNCHANGED inbox
    /\ UNCHANGED <<jobs, drive, guard, api, process>>

PublishChallenge ==
    /\ worker.pc = "publish"
    /\ CompareAndSet(worker.job, worker.version, "waiting",
                     Row.completed, Row.failed, worker.service)
    /\ worker' = [worker EXCEPT !.pc = IF worker.kind = "code" THEN "codeWait" ELSE "interWait",
                                !.kind = "none"]
    /\ UNCHANGED <<drive, guard, viewer, challengeVars, api, process>>

\* The clock reaches expires_at of the challenge that is being waited on.
ChallengeExpires ==
    /\ worker.pc \in Waiting \cup {"publish"}
    /\ ~expired
    /\ expired' = TRUE
    /\ UNCHANGED <<jobs, drive, worker, guard, inbox, viewer, challenges, issued,
                   api, process>>

\* wait_and_consume returns the answer and closes the entry.
ConsumeAnswer ==
    /\ worker.pc = "codeWait"
    /\ inbox.phase = "answered"
    /\ inbox' = EmptyInbox
    /\ worker' = [worker EXCEPT !.pc = "reload", !.plan = "resumeCode"]
    /\ UNCHANGED <<jobs, drive, guard, viewer, expired, challenges, issued, api,
                   process>>

\* wait_and_consume returns None: no answer came within its time slice.
WaitSliceEnds ==
    /\ worker.pc = "codeWait"
    /\ inbox.phase # "answered"
    /\ Goto("codeCheck")
    /\ inbox' = IF expired /\ inbox.phase = "pending"
                THEN [inbox EXCEPT !.phase = "closed"]
                ELSE inbox
    /\ UNCHANGED <<jobs, drive, guard, viewer, expired, challenges, issued, api,
                   process>>

\* wait_and_consume finds that a cancellation removed the entry, and raises.
WaitFindsNoEntry ==
    /\ worker.pc = "codeWait"
    /\ inbox.phase = "empty"
    /\ LeaveBrowser("unexpected")
    /\ UNCHANGED <<jobs, drive, guard, challengeVars, api, process>>

\* The wait goes on whatever became of the entry.
MutantStillPending == TRUE

StillPending == inbox.phase \in {"pending", "answered"} /\ ~expired

WaitAgain ==
    /\ worker.pc = "codeCheck"
    /\ ~Stopping /\ StillPending
    /\ Goto("codeWait")
    /\ UNCHANGED <<jobs, drive, guard, viewer, challengeVars, api, process>>

\* The loop ends without a response: discard the entry, then either leave
\* the waiting row for the next process or record the expiry.
GiveUpCode ==
    /\ worker.pc = "codeCheck"
    /\ Stopping \/ ~StillPending
    /\ inbox' = EmptyInbox
    /\ IF Stopping
       THEN ToIdle
       ELSE /\ worker' = [worker EXCEPT !.pc = "reload", !.plan = "expire"]
            /\ UNCHANGED viewer
    /\ UNCHANGED <<jobs, drive, guard, expired, challenges, issued, api, process>>

\* _interactive_continue is set.
InteractiveProceeds ==
    /\ worker.pc = "interWait"
    /\ viewer.proceed
    /\ worker' = [worker EXCEPT !.pc = "reload", !.plan = "resumeInteractive"]
    /\ UNCHANGED <<jobs, drive, guard, viewer, challengeVars, api, process>>

\* The half-second poll sees the cancellation.
InteractiveCancelled ==
    /\ worker.pc = "interWait"
    /\ ~viewer.proceed
    /\ Cancelled
    /\ ToIdle
    /\ UNCHANGED <<jobs, drive, guard, challengeVars, api, process>>

GiveUpInteractive ==
    /\ worker.pc = "interWait"
    /\ Stopping \/ expired
    /\ IF Stopping
       THEN ToIdle
       ELSE /\ worker' = [worker EXCEPT !.pc = "reload", !.plan = "expire"]
            /\ UNCHANGED viewer
    /\ UNCHANGED <<jobs, drive, guard, challengeVars, api, process>>

-------------------------------------------------------------------------------
(* Reading the row again and writing it back.                              *)

\* The row that was read again is not looked at.
MutantRefused(plan) ==
    CASE plan = "complete" -> {"cancelled", "failed", "intervention"}
      [] plan = "unexpected" -> Terminal
      [] OTHER -> {}

\* The states in which a plan is dropped after the row was read again.  A
\* consumed code is never dropped.
Refused(plan) ==
    CASE plan = "complete" -> {"cancelled", "failed", "intervention"}
      [] plan = "unexpected" -> Terminal
      [] plan = "resumeCode" -> {}
      [] OTHER -> {"cancelled"}

ReloadRefuses ==
    /\ worker.pc = "reload"
    /\ Row.state \in Refused(worker.plan)
    /\ ToIdle
    /\ UNCHANGED <<jobs, drive, guard, challengeVars, api, process>>

ReloadReads ==
    /\ worker.pc = "reload"
    /\ Row.state \notin Refused(worker.plan)
    /\ worker' = [worker EXCEPT !.pc = "write", !.version = Row.version]
    /\ UNCHANGED <<jobs, drive, guard, viewer, challengeVars, api, process>>

\* The service is completed; the batch ends with the last of them.
WriteComplete(s) ==
    LET done == Row.completed \cup {worker.service}
    IN  /\ worker.pc = "write"
        /\ worker.plan = "complete"
        /\ IsNext(s, [Row EXCEPT !.completed = done])
        /\ CompareAndSet(worker.job, worker.version,
                         IF s # NoService THEN "running"
                         ELSE IF Row.failed = {} THEN "succeeded" ELSE "failed",
                         done, Row.failed, s)
        /\ IF s = NoService
           THEN ToIdle
           ELSE /\ worker' = [IdleWorker EXCEPT !.pc = "load", !.job = worker.job]
                /\ UNCHANGED viewer
        /\ UNCHANGED <<drive, guard, challengeVars, api, process>>

\* The row goes on naming the service that failed.
MutantWriteFailService(s) ==
    LET failures == Row.failed \cup {worker.service}
    IN  /\ worker.pc = "write"
        /\ worker.plan = "failService"
        /\ IsNext(s, [Row EXCEPT !.failed = failures])
        /\ CompareAndSet(worker.job, worker.version, "running",
                         Row.completed, failures, worker.service)
        /\ worker' = [IdleWorker EXCEPT !.pc = "load", !.job = worker.job]
        /\ UNCHANGED <<drive, guard, viewer, challengeVars, api, process>>

\* _finish_failed_result, continuable: the service is recorded as failed.
WriteFailService(s) ==
    LET failures == Row.failed \cup {worker.service}
    IN  /\ worker.pc = "write"
        /\ worker.plan = "failService"
        /\ IsNext(s, [Row EXCEPT !.failed = failures])
        /\ CompareAndSet(worker.job, worker.version, "running",
                         Row.completed, failures, s)
        /\ worker' = [IdleWorker EXCEPT !.pc = "load", !.job = worker.job]
        /\ UNCHANGED <<drive, guard, viewer, challengeVars, api, process>>

\* The job ends: a failure that stops the batch, an expired challenge, an
\* unexpected error, or the need for the owner's intervention.
WriteEnd ==
    /\ worker.pc = "write"
    /\ worker.plan \in {"failJob", "expire", "unexpected", "intervene"}
    /\ CompareAndSet(worker.job, worker.version,
                     IF worker.plan = "intervene" THEN "intervention" ELSE "failed",
                     Row.completed, Row.failed, Row.current)
    /\ ToIdle
    /\ UNCHANGED <<drive, guard, challengeVars, api, process>>

\* The answered challenge resumes: the acquisition runs again from its start.
WriteResume ==
    /\ worker.pc = "write"
    /\ worker.plan \in {"resumeCode", "resumeInteractive"}
    /\ CompareAndSet(worker.job, worker.version, "running",
                     Row.completed, Row.failed, worker.service)
    /\ worker' = [worker EXCEPT !.pc = "check", !.plan = "none"]
    /\ viewer' = NoViewer
    /\ UNCHANGED <<drive, guard, challengeVars, api, process>>

\* VersionConflictError: the row changed since it was read, and run_once
\* (or _fail_unexpected) drops the job.
VersionConflict ==
    /\ worker.pc \in {"finish", "publish", "write"}
    /\ ~Fresh(worker.job, worker.version)
    /\ ToIdle
    /\ UNCHANGED <<jobs, drive, guard, challengeVars, api, process>>

\* Bound on the accesses to the store that raise.
Fault ==
    /\ process.faults < MaxFaults
    /\ process' = [process EXCEPT !.faults = @ + 1]

\* An access of the thread to the store raises, or storage_factory does before
\* the loop.  run_once turns to _fail_unexpected, which swallows an error of
\* its own.
StoreFails ==
    /\ Fault
    /\ worker.pc \in {"load", "finish", "challenge", "publish", "interWait", "reload", "write"}
    /\ IF worker.plan = "unexpected" THEN ToIdle ELSE LeaveBrowser("unexpected")
    /\ UNCHANGED <<jobs, drive, guard, challengeVars, api>>

\* claim_next raises: the loop ends for good, and fatal_callback has the
\* supervisor stop the process.
ClaimFails ==
    /\ worker.pc = "idle"
    /\ ~Stopping
    /\ process.faults < MaxFaults
    /\ process' = [process EXCEPT !.faults = @ + 1, !.stopping = TRUE]
    /\ UNCHANGED <<jobs, drive, worker, guard, viewer, challengeVars, api>>

\* _cancellation_requested cannot read the row and answers TRUE.
CancellationCheckFails ==
    /\ Fault
    /\ worker.pc \in {"check", "beginFetch", "recheck", "save"}
    /\ LeaveBrowser("failService")
    /\ UNCHANGED <<jobs, drive, guard, challengeVars, api>>

-------------------------------------------------------------------------------
(* Request handlers of WorkerService.                                      *)

\* The process serves requests, and the event loop is free for one.
Serving == worker.pc # "down" /\ ~Stopping
Ready == Serving /\ api = NoRequest

RequestJob(j, S) ==
    /\ Ready
    /\ CreateJob(j, S)
    /\ UNCHANGED <<drive, worker, guard, viewer, challengeVars, api, process>>

\* cancel_job does not wait for the commit guard.
MutantCancelUnguarded(j) ==
    /\ Ready
    /\ jobs[j].state \notin Terminal \cup {"absent"}
    /\ CompareAndSet(j, jobs[j].version, "cancelled",
                     jobs[j].completed, jobs[j].failed, NoService)
    /\ api' = [op |-> IF jobs[j].state = "waiting" THEN "discard" ELSE "release",
               job |-> j, id |-> 0]
    /\ UNCHANGED <<drive, worker, guard, viewer, challengeVars, process>>

\* cancel_job does not ask whether the job has ended already.
MutantCancelEnded(j) ==
    /\ Ready
    /\ guard = "free"
    /\ jobs[j].state # "absent"
    /\ CompareAndSet(j, jobs[j].version, "cancelled",
                     jobs[j].completed, jobs[j].failed, NoService)
    /\ guard' = "api"
    /\ api' = [op |-> IF jobs[j].state = "waiting" THEN "discard" ELSE "release",
               job |-> j, id |-> 0]
    /\ UNCHANGED <<drive, worker, viewer, challengeVars, process>>

\* cancel_job takes the commit guard and retries its compare-and-set until
\* no other transition comes between: together, one write to the row.
CancelJob(j) ==
    /\ Ready
    /\ guard = "free"
    /\ jobs[j].state \notin Terminal \cup {"absent"}
    /\ CompareAndSet(j, jobs[j].version, "cancelled",
                     jobs[j].completed, jobs[j].failed, NoService)
    /\ guard' = "api"
    /\ api' = [op |-> IF jobs[j].state = "waiting" THEN "discard" ELSE "release",
               job |-> j, id |-> 0]
    /\ UNCHANGED <<drive, worker, viewer, challengeVars, process>>

\* The latest challenge of a job that was waiting is discarded; the guard
\* is released.
CancelDiscards ==
    /\ api.op \in {"discard", "release"}
    /\ inbox' = IF api.op = "discard" /\ inbox.id = challenges[api.job].id
                THEN EmptyInbox
                ELSE inbox
    /\ guard' = "free"
    /\ api' = [api EXCEPT !.op = "notify"]
    /\ UNCHANGED <<jobs, drive, worker, viewer, expired, challenges, issued, process>>

\* notify_job_cancelled wakes the thread if its browser works on this job.
CancelNotifies ==
    /\ api.op = "notify"
    /\ viewer' = IF BrowserActive /\ worker.job = api.job
                 THEN [viewer EXCEPT !.proceed = TRUE]
                 ELSE viewer
    /\ api' = NoRequest
    /\ UNCHANGED <<jobs, drive, worker, guard, challengeVars, process>>

\* submit_challenge_response and complete_interactive_challenge read the row
\* and its latest challenge first ...
RequestAnswer(j) ==
    /\ Ready
    /\ jobs[j].state = "waiting"
    /\ api' = [op |-> IF challenges[j].kind = "code" THEN "submit" ELSE "continue",
               job |-> j, id |-> challenges[j].id]
    /\ UNCHANGED <<jobs, drive, worker, guard, viewer, challengeVars, process>>

\* ... then hand the code to the inbox, which takes the first answer to an
\* open entry and closes an expired one ...
SubmitAnswer ==
    /\ api.op = "submit"
    /\ inbox' = IF inbox.id = api.id /\ inbox.phase \in {"pending", "answered"}
                THEN [inbox EXCEPT !.phase = IF expired THEN "closed" ELSE "answered"]
                ELSE inbox
    /\ api' = NoRequest
    /\ UNCHANGED <<jobs, drive, worker, guard, viewer, expired, challenges, issued,
                   process>>

\* ... or set the continue event, if the browser still shows that challenge.
ContinueInteractive ==
    /\ api.op = "continue"
    /\ viewer' = IF BrowserActive /\ worker.job = api.job /\ viewer.id = api.id
                 THEN [viewer EXCEPT !.proceed = TRUE]
                 ELSE viewer
    /\ api' = NoRequest
    /\ UNCHANGED <<jobs, drive, worker, guard, challengeVars, process>>

-------------------------------------------------------------------------------
(* The process.                                                            *)

\* Startup: recover_incomplete_jobs, then a fresh thread.
StartProcess ==
    /\ worker.pc = "down"
    /\ RecoverIncompleteJobs
    /\ worker' = IdleWorker
    /\ UNCHANGED <<drive, guard, viewer, challengeVars, api, process>>

\* Shutdown sets the stop event once no request is in progress.
RequestStop ==
    /\ Ready
    /\ process.restarts < MaxRestarts
    /\ process' = [process EXCEPT !.stopping = TRUE, !.restarts = @ + 1]
    /\ UNCHANGED <<jobs, drive, worker, guard, viewer, challengeVars, api>>

\* All that lives in memory is lost; an upload in flight may have succeeded.
ProcessEnds ==
    /\ worker.pc # "down"
    /\ worker' = DownWorker
    /\ guard' = "free"
    /\ inbox' = EmptyInbox
    /\ viewer' = NoViewer
    /\ expired' = FALSE
    /\ api' = NoRequest
    /\ drive' \in IF worker.pc = "upload" THEN {drive, drive \cup {worker.service}}
                                          ELSE {drive}
    /\ UNCHANGED <<jobs, challenges, issued>>

\* The process exits after a shutdown, with the thread joined or not.
Exit ==
    /\ Stopping
    /\ ProcessEnds
    /\ process' = [process EXCEPT !.stopping = FALSE]

Crash ==
    /\ ~Stopping
    /\ process.restarts < MaxRestarts
    /\ ProcessEnds
    /\ process' = [process EXCEPT !.restarts = @ + 1]

-------------------------------------------------------------------------------
AcquireStep ==
    \/ CheckDrive \/ BeginFetch \/ EndFetch \/ RecheckDrive
    \/ TakeGuard \/ Upload \/ VerifyDrive

ChallengeStep ==
    \/ RefuseChallenge \/ IssueChallenge \/ PublishChallenge
    \/ ConsumeAnswer \/ WaitSliceEnds \/ WaitFindsNoEntry \/ WaitAgain \/ GiveUpCode
    \/ InteractiveProceeds \/ InteractiveCancelled \/ GiveUpInteractive

RowStep ==
    \/ ReloadRefuses \/ ReloadReads \/ WriteEnd \/ WriteResume \/ VersionConflict
    \/ \E s \in Services \cup {NoService} : WriteComplete(s) \/ WriteFailService(s)

LoopStep ==
    \/ \E j \in Jobs : Claim(j)
    \/ LoopReturns \/ FinishBatch \/ OpenBrowser
    \/ \E s \in Services \cup {NoService} : LoopSelects(s)

\* What the thread does by itself.
WorkerStep == LoopStep \/ AcquireStep \/ ChallengeStep \/ RowStep

\* The rest of a request handler that has begun.
HandlerStep == CancelDiscards \/ CancelNotifies \/ SubmitAnswer \/ ContinueInteractive

\* What the owner may ask for.
OwnerStep ==
    \E j \in Jobs :
      \/ \E S \in SUBSET Services \ {{}} : RequestJob(j, S)
      \/ CancelJob(j) \/ RequestAnswer(j)

FailureStep ==
    StoreFails \/ CancellationCheckFails \/ ClaimFails \/ RequestStop \/ Crash

Next ==
    \/ WorkerStep \/ HandlerStep \/ OwnerStep \/ FailureStep
    \/ ChallengeExpires \/ StartProcess \/ Exit

Spec == Init /\ [][Next]_vars

\* A running thread is scheduled and its external calls return (each has a
\* time limit), a handler that has begun runs on, clocks advance, the
\* supervisor restarts the container and a stopping process exits.
Fairness ==
    /\ WF_vars(WorkerStep)
    /\ WF_vars(HandlerStep)
    /\ WF_vars(ChallengeExpires)
    /\ WF_vars(StartProcess)
    /\ WF_vars(Exit)

FairSpec == Spec /\ Fairness

-------------------------------------------------------------------------------
(* What the worker promises.                                               *)

\* The variables have the values the code gives them.
TypeOK ==
    /\ jobs \in [Jobs -> JobRows]
    /\ drive \in SUBSET Services
    /\ worker \in Workers
    /\ guard \in {"free", "worker", "api"}
    /\ inbox \in [id: Nat, phase: {"empty", "pending", "answered", "closed"}]
    /\ viewer \in [id: Nat, proceed: BOOLEAN]
    /\ expired \in BOOLEAN
    /\ challenges \in [Jobs -> [id: Nat, kind: ChallengeKinds \cup {"none"}]]
    /\ issued \in Nat
    /\ api \in [op: {"none", "discard", "release", "notify", "submit", "continue"},
                job: Jobs \cup {NoJob}, id: Nat]
    /\ process \in [stopping: BOOLEAN, restarts: Nat, faults: Nat]

\* A service is reported complete only once Drive holds its receipt, whatever
\* was lost, retried or restarted on the way ("treats Google Drive as the
\* only receipt-completion truth", docs/iphone-only-architecture.md).
CompletedIsSaved == \A j \in Jobs : jobs[j].completed \subseteq drive

\* SUCCEEDED is honest: the receipt of every requested service is in Drive.
SuccessMeansSaved ==
    \A j \in Jobs : jobs[j].state = "succeeded" => jobs[j].services \subseteq drive

\* A service of a job is never both completed and failed, also when a
\* restarted job meets a service it had already tried.
OutcomesAreDisjoint ==
    \A j \in Jobs :
      /\ jobs[j].completed \cup jobs[j].failed \subseteq jobs[j].services
      /\ jobs[j].completed \cap jobs[j].failed = {}

\* An upload never runs for a job that is cancelled: cancel_job and
\* upsert_bytes exclude each other through the commit guard.
NoCancelledUpload == worker.pc = "upload" => ~Cancelled

\* While the process runs, a RUNNING or WAITING row is the one in the thread's
\* hands: no job is left behind that nobody works on.  It takes an error of
\* the store to break this.
LiveJobIsOwned ==
    worker.pc # "down" /\ ~Stopping /\ process.faults = 0 =>
      \A j \in Jobs : jobs[j].state \in Incomplete => worker.job = j

\* At the head of the loop the row is claimed and its current service is the
\* one the loop is about to choose: _process_job never has to claim again.
LoopHeadIsSettled ==
    worker.pc = "load" /\ ~Cancelled =>
      Row.state = "running" /\ IsNext(Row.current, Row)

\* A job shown as WAITING can be answered: its latest stored challenge is the
\* one whose browser page, or whose inbox entry unless a cancellation took it
\* away, the thread is waiting on.
WaitingIsAnswerable ==
    worker.pc \in Waiting /\ Row.state = "waiting" =>
      \/ challenges[worker.job] = [id |-> viewer.id, kind |-> "interactive"]
      \/ challenges[worker.job] = [id |-> inbox.id, kind |-> "code"]
      \/ worker.pc # "interWait" /\ inbox = EmptyInbox

\* No writer overwrites what another one recorded: completed and failed
\* services only accumulate.
OutcomesAccumulate ==
    [][\A j \in Jobs : /\ jobs[j].completed \subseteq jobs'[j].completed
                       /\ jobs[j].failed \subseteq jobs'[j].failed]_jobs

\* A job that ended by itself never changes again: no late cancellation,
\* recovery, or write of a stale row touches it.
EndedIsFinal ==
    [][\A j \in Jobs : jobs[j].state \in {"succeeded", "failed", "intervention"}
                         => jobs'[j] = jobs[j]]_jobs

\* A cancelled job is left alone by every transition except the two that
\* handle a challenge without looking at the state they read.
CancelYieldsOnlyToChallenge ==
    [][\A j \in Jobs :
         jobs[j].state = "cancelled" /\ jobs'[j] # jobs[j] =>
           /\ worker.job = j
           /\ \/ worker.pc = "publish"
              \/ worker.pc = "write" /\ worker.plan = "resumeCode"]_jobs

\* A job the owner cancelled stays cancelled ("User cancellation or another
\* accepted state transition won", runner.py run_once).
CancelIsFinal ==
    [][\A j \in Jobs : jobs[j].state = "cancelled" => jobs'[j].state = "cancelled"]_jobs

\* Every job that was accepted ends, through expiries, crashes and restarts,
\* as long as the store does not fail.
EveryJobEnds ==
    \A j \in Jobs : jobs[j].state # "absent" ~> jobs[j].state \in Terminal

\* The thread is never left working for a cancelled job: it lets go of it.
CancelFreesWorker ==
    \A j \in Jobs : jobs[j].state = "cancelled" /\ worker.job = j ~> worker.job # j

-------------------------------------------------------------------------------
(* The inductive invariant behind the safety properties: what the thread   *)
(* knows of the row it works on, at each place where it may be interrupted.*)

\* The thread holds a job exactly while it processes one, and that job's row
\* can only have been cancelled under it.
HoldsJob ==
    /\ worker.job = NoJob <=> worker.pc \in {"idle", "down"}
    /\ worker.job # NoJob => Row.state \in Incomplete \cup {"cancelled"}

\* The commit guard is held exactly during an upload, whose job is then not
\* cancelled, or between the two halves of a cancellation.
GuardIsHeld ==
    /\ guard = "worker" <=> worker.pc = "upload"
    /\ guard = "api" <=> api.op \in {"discard", "release"}
    /\ worker.pc = "upload" => ~Cancelled

\* A row that was read and is about to be written: only a cancellation can
\* have come between, and what was read still decides what is written.
ReadIsCurrent ==
    worker.pc \in {"finish", "publish", "write"} =>
      /\ worker.version <= Row.version
      /\ ~Fresh(worker.job, worker.version) => Cancelled
      /\ Cancelled /\ Fresh(worker.job, worker.version) =>
           \/ worker.pc = "publish"
           \/ worker.pc = "write" /\ worker.plan = "resumeCode"
      /\ worker.pc = "finish" => Remaining(Row) = {}

\* The place works on a service of the job.
OnService ==
    \/ worker.pc \in Acquiring \cup Waiting \cup {"open", "challenge", "publish"}
    \/ worker.pc \in {"reload", "write"} /\ worker.plan # "unexpected"

\* That service is neither completed nor failed yet, and once it is about to
\* be completed Drive holds its receipt.
ServiceIsRemaining ==
    /\ OnService => worker.service \in Remaining(Row)
    /\ worker.pc \in {"reload", "write"} /\ worker.plan = "complete" => Listed

\* A job succeeded by completing all that it was asked for.
SuccessIsComplete ==
    \A j \in Jobs : jobs[j].state = "succeeded" => jobs[j].services \subseteq jobs[j].completed

\* The inductive invariant: all of the above together.
IInv ==
    /\ TypeOK
    /\ HoldsJob
    /\ GuardIsHeld
    /\ ReadIsCurrent
    /\ ServiceIsRemaining
    /\ SuccessIsComplete
    /\ CompletedIsSaved
    /\ OutcomesAreDisjoint
    /\ LoopHeadIsSettled
    /\ LiveJobIsOwned
===============================================================================
