------------------------------- MODULE JobStore -------------------------------
(***************************************************************************)
(* The durable job table of cloud/src/jobs/store.py (SQLiteJobStore).      *)
(*                                                                         *)
(* Every method of the store runs under one RLock and inside one           *)
(* BEGIN IMMEDIATE transaction, so each operation below is atomic.  What   *)
(* is not atomic is a caller that reads a row and later writes it back:    *)
(* the row's version is the only thing that ties the two together.         *)
(*                                                                         *)
(* A member of Jobs stands for one (owner, idempotency key) pair, the      *)
(* UNIQUE key of the table.  Services are numbered in the order in which   *)
(* a request lists them.                                                   *)
(***************************************************************************)
EXTENDS Integers

CONSTANTS
    Jobs,       \* the (owner, idempotency key) pairs a client may create
    Services    \* the service ids, numbered by their place in a request

NoService == 0

ASSUME ServicesAssumption == Services \subseteq Nat \ {NoService}

VARIABLE jobs   \* jobs[j] is the row of j

JobStates == {"absent", "queued", "running", "waiting", "succeeded",
              "failed", "intervention", "cancelled"}

\* TERMINAL_STATES of the service: nothing more is owed to the owner.
Terminal == {"succeeded", "failed", "intervention", "cancelled"}

\* The states whose browser dies with the process.
Incomplete == {"running", "waiting"}

\* failed is result.failed_service_ids.  before stands for created_at: the
\* rows that already existed when this one was inserted.
JobRows ==
    [state: JobStates, services: SUBSET Services, completed: SUBSET Services,
     failed: SUBSET Services, current: Services \cup {NoService},
     version: Nat, before: SUBSET Jobs]

NoRow == [state |-> "absent", services |-> {}, completed |-> {}, failed |-> {},
          current |-> NoService, version |-> 0, before |-> {}]

InitJobs == jobs = [j \in Jobs |-> NoRow]

-------------------------------------------------------------------------------
\* Operators named Mutant... are faults for mutation runs; nothing uses them.

\* A service that failed is tried again by the next pass.
MutantRemaining(row) == row.services \ row.completed

\* The services of a row that are neither completed nor recorded as failed.
Remaining(row) == row.services \ (row.completed \cup row.failed)

\* s is the first remaining service, or NoService when none remains.
IsNext(s, row) ==
    IF Remaining(row) = {}
    THEN s = NoService
    ELSE /\ s \in Remaining(row)
         /\ \A t \in Remaining(row) : s <= t

\* The version is counted down.
MutantRewrite(row, state, completed, failed, current) ==
    [row EXCEPT !.state = state,
                !.completed = completed,
                !.failed = failed,
                !.current = current,
                !.version = row.version - 1]

\* A row written again: every write makes it one version newer.
Rewrite(row, state, completed, failed, current) ==
    [row EXCEPT !.state = state,
                !.completed = completed,
                !.failed = failed,
                !.current = current,
                !.version = row.version + 1]

\* create_job: an existing row with this key is returned unchanged.
CreateJob(j, S) ==
    /\ jobs[j].state = "absent"
    /\ jobs' = [jobs EXCEPT ![j] =
                  [NoRow EXCEPT !.state = "queued",
                                !.services = S,
                                !.before = {k \in Jobs : jobs[k].state # "absent"}]]

\* claim_next: the oldest queued row becomes the running one.
ClaimNext(j) ==
    /\ jobs[j].state = "queued"
    /\ \A k \in jobs[j].before : jobs[k].state # "queued"
    /\ \E s \in Services \cup {NoService} :
         /\ IsNext(s, jobs[j])
         /\ jobs' = [jobs EXCEPT ![j] =
                       Rewrite(jobs[j], "running", jobs[j].completed, jobs[j].failed, s)]

\* Recovery overlooks the jobs that were waiting for their owner.
MutantRecoverRunning ==
    jobs' = [j \in Jobs |->
               IF jobs[j].state = "running"
               THEN Rewrite(jobs[j], "queued", jobs[j].completed, jobs[j].failed, NoService)
               ELSE jobs[j]]

\* Recovery starts a job over and forgets what had failed.
MutantRecoverAfresh ==
    jobs' = [j \in Jobs |->
               IF jobs[j].state \in Incomplete
               THEN Rewrite(jobs[j], "queued", jobs[j].completed, {}, NoService)
               ELSE jobs[j]]

\* recover_incomplete_jobs: every row whose browser was lost is queued again.
RecoverIncompleteJobs ==
    jobs' = [j \in Jobs |->
               IF jobs[j].state \in Incomplete
               THEN Rewrite(jobs[j], "queued", jobs[j].completed, jobs[j].failed, NoService)
               ELSE jobs[j]]

\* The version check of compare_and_set: the row is still the one read.
Fresh(j, version) == jobs[j].version = version

\* compare_and_set without its version check.
MutantCompareAndSet(j, version, state, completed, failed, current) ==
    jobs' = [jobs EXCEPT ![j] = Rewrite(jobs[j], state, completed, failed, current)]

\* compare_and_set.  It checks the version and nothing else: any state may
\* follow any state.
CompareAndSet(j, version, state, completed, failed, current) ==
    /\ Fresh(j, version)
    /\ jobs' = [jobs EXCEPT ![j] = Rewrite(jobs[j], state, completed, failed, current)]
===============================================================================
