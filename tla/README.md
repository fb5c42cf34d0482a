# GetReceipt in TLA+

GetReceipt fetches the monthly receipts of a handful of service providers and
keeps them in Google Drive. A worker process drives Google Chrome against the
providers' pages; its owner watches and answers challenges (one-time codes,
picture checks) from a phone, through a Streamlit page and a small HTTP API.
This directory holds TLA+ models of the parts whose steps interleave, the TLC
runs that check them on small instances, and TLAPS proofs of the most important
properties for instances of every size.

* [The system](#the-system): components, state, operations, interactions
* [What is hard about it](#what-is-hard-about-it)
* [The modules](#the-modules): how state and actions correspond to the code
* [The runs](#the-runs): what is checked, with which bounds
* [Fairness](#fairness)
* [The proofs](#the-proofs)
* [Disagreements found](#disagreements-found)
* [Abstractions, and what is not modelled](#abstractions-and-what-is-not-modelled)
* [Plan](#plan)

Paths below are relative to `src/`; `cloud/src/` is left out where it is obvious.

## The system

| Component | Code | State it keeps | Operations |
|---|---|---|---|
| Job store | `jobs/store.py`, `jobs/models.py` | SQLite table `batch_jobs` (state, services, completed, failed, current service, version), `challenges`, `job_events` | `create_job` (idempotency key), `claim_next`, `compare_and_set` (by version), `recover_incomplete_jobs`, `add_challenge` |
| Worker thread | `workers/runner.py` | the job in hand, the active browser, `_interactive_challenge_id`, `_interactive_continue`, `_receipt_commit_lock`, `_stop_event` | `start`, `stop`, `run_once`, `_process_job`, `_acquire_service`, `_wait_for_code`, `_wait_for_interactive` |
| Request handlers | `workers/service.py`, `workers/http_api.py` | none of their own | create, read and cancel a job; submit a code; continue, view and tap a live page; save a receipt by hand |
| Challenge inbox | `jobs/inbox.py` | `_pending`: one entry per open challenge, with answer, closed flag, expiry | `register`, `submit`, `wait_and_consume`, `is_pending`, `discard` |
| Acquisition | `workflows/auto_acquisition.py` | `_ACQUISITION_LOCK` | check Drive, fetch, recheck, save, verify |
| Drive storage and status | `storage/drive_storage.py`, `workflows/drive_status.py` | files in a Drive folder, keyed by content and name | `list_files`, `upsert_bytes`, `find_receipt` |
| Backups | `workers/backup_lifecycle.py`, `storage/sqlite_backup.py` | thread, counters of failures, snapshots on disk | `start` (a gate: one snapshot must succeed), periodic snapshots, `stop`, pruning |
| Process | `worker/app.py`, `worker/healthcheck.py`, `runtime_security.py` | single-instance file lock | startup, shutdown, fatal restart by SIGTERM |
| Microsoft OAuth | `oauth/microsoft.py`, `oauth/drive_token_store.py` | encrypted refresh token, pending authorizations, cached access token | `start`, `complete`, `access_token`, `disconnect` |
| Browser leases | `automation/security_challenge.py` | `_claims`, `_leases`, timers; `_lock`, `_slot_lock`, one `_operation_lock` per lease | `claim_attempt`, `promote_claim_to_lease`, `create`, `extend`, `checkout`, `discard`, `close_all`, expiry |
| Job client and remote view | `jobs/client.py`, `ui/remote_jobs.py` | query parameters of the page | create with an idempotency key, poll, recover the active job after a reload |
| Streamlit batch | `cloud/streamlit_app.py` | `st.session_state` | the page's own acquisition, without a worker |
| Stores in Drive | `storage/status_store.py`, `storage/browser_profile_store.py`, `storage/google_credential_store.py` | JSON documents | read, change, write back |
| Pure parts | `config.py`, `domain/`, `workflows/receipt_archive.py` | none | months, file names, the archive |
| Provider automation | `automation/official_sites.py`, `epos.py`, `browser_session.py`, ... | a Chrome process | drives third-party pages |

How they meet:

* The thread and the handlers share the job table without a lock around a row.
  Each reads the row, works - the thread for minutes - and writes it back under
  the version it read. A write under an old version raises
  `VersionConflictError` and changes nothing.
* A handler answers a challenge through the inbox (codes) or by setting an event
  (live viewer). The thread polls both, and the stop event, and the row.
* `receipt_commit_guard` is the one lock between an upload and a cancellation.
* The process owns thread, inbox, viewer and locks; the table and Drive survive
  it. Startup calls `recover_incomplete_jobs`, which requeues what was RUNNING
  or WAITING.
* In the page, every session and every expiry timer is a thread of one process,
  and `BrowserLeaseRegistry` gives them one browser slot between them.

What makes each of them correct:

* *Store*: an accepted job is never lost, a job that ended stays as it ended, no
  stale write undoes another.
* *Worker*: it says a receipt is saved only when Drive holds it; every accepted
  job comes to an end; one job never starves the others of the only thread;
  after a cancellation nothing is uploaded.
* *Inbox*: a challenge shown to the owner can be answered, once, until it expires.
* *Leases*: one attempt at a time, the last browser closed before the next
  opens, none closed under a page that uses it, no two threads waiting on each
  other.
* *OAuth*: an authorization state is good for one completion; a disconnect
  takes the tokens in memory and in the store, unless a refresh is in flight
  across it (then the code may keep one); a rotated token is not lost.
* *Backups*: no acquisition before a first snapshot; repeated failures are
  reported and restart the process once; pruning keeps the newest snapshots.
* *Page batch*: what the owner is told at the end is so; no more codes are sent
  than the cap allows; the page's own hold is never in its way; every run ends or
  comes to the owner.
* *Save by hand*: the worker and the owner never store the same receipt twice.
* *Remote view*: an answer goes to the challenge that was on the screen; a press
  of the button comes to something; a list of what is missing is not kept after
  the job that saved it; a job that runs is the one on the page.
* *Names and archive*: a receipt saved for a month of use is shown for it, or one
  put there later; a file is on a month's page or in the archive and not in both,
  unless it is an older one for a month that shows a newer, or for a month that
  has no page.

## What is hard about it

`PROJECT.json` lists the hazards one by one, with the line where each bites and
the property that watches it. They fall into eight groups:

1. a row read before minutes of browser work and written after it, while the
   owner cancels, a code expires or the process restarts;
2. uploads whose response is lost, and crashes between an upload and the row
   that records it;
3. waits that end in four ways at once (answer, expiry, cancellation, stop);
4. locks taken in two orders, and timers that fire just before they are
   cancelled (the lease registry);
5. a page whose script may be stopped, rerun or thrown away between any two of
   its steps, with a browser held for it meanwhile (the Streamlit batch);
6. caches, tokens and documents read by one thread and replaced by another
   (OAuth, the stores in Drive);
7. HTTP calls that are lost on the way there or back, pages that are reloaded,
   and second tabs, between which only the worker's table can tell (the remote
   view, the upload form);
8. processes that die between any two steps of a start, a snapshot or a stop,
   under a clock that may be set back.

## The modules

| Module | Models | Role |
|---|---|---|
| `JobStore` | `jobs/store.py` | the table `jobs` and the transactions on it, as operators other modules use in their actions |
| `ReceiptWorker` | `workers/runner.py`, and what meets it in `service.py`, `inbox.py`, `auto_acquisition.py`, `drive_storage.py`, `http_api.py`, `worker/app.py` | the core: thread, handlers, process, failures |
| `ReceiptLedger` | - | the abstract promise to the owner: what is saved, what is owed |
| `ReceiptWorkerLedger` | - | the refinement mapping, property `ImplementsLedger` |
| `ReceiptWorkerProofs` | - | lemmas on the table, the worker's invariant and its theorems, the refinement |
| `RemoteMonth`, `RemoteMonthProofs` | `ui/remote_jobs.py`, `jobs/client.py`, and what they meet in `service.py`, `http_api.py`, `runner.py` | one page in worker mode, over HTTP, with other tabs |
| `ReceiptSaves`, `ReceiptSavesProofs` | `service.py` `save_manual_receipt`, `workflows/manual_upload.py`, `ui/manual_upload.py`, the locks and looks of `auto_acquisition.py` | two kinds of savers and one folder |
| `ReceiptFolder` | `config.py`, `domain/naming.py`, `domain/periods.py`, `drive_status.py`, `receipt_archive.py` | whose receipt a file is |
| `WorkerProcess` | `worker/app.py`, the lifespan of `http_api.py`, `backup_lifecycle.py`, `sqlite_backup.py`, `WorkerInstanceLease` | the process: start, snapshots, stop, crash |
| `MicrosoftLink`, `MicrosoftLinkProofs` | `oauth/microsoft.py` | the worker's tokens: handlers on the event loop beside the thread |
| `ChallengeInbox`, `ChallengeInboxProofs` | `jobs/inbox.py` and its use by `runner.py` and `service.py` | one challenge under two levels of locks |
| `AnswerBox` | - | the abstract promise of an inbox: one answer, given out once |
| `DriveTokens` | `oauth/drive_token_store.py`, `ui/graph_link.py` | the page's tokens without a worker, in a file of Drive |
| `BrowserLease`, `BrowserLeaseProofs` | `BrowserLeaseRegistry` of `automation/security_challenge.py` | the browser slot of the Streamlit process |
| `OwnerPage`, `OwnerPageProofs` | the worker-less batch of `cloud/streamlit_app.py`, with `storage/status_store.py` | the owner's page, its session and its hold on the browser slot |
| `MCReceiptWorker`, `MCBrowserLease`, `MCOwnerPage`, `MCWorkerMonth`, `MCDriveTokens` | - | what TLC runs; symmetry sets |
| `MCWorkerMonthProofs` | - | proofs of `WorkerProcess` and `ReceiptFolder`, and of the composition `MCWorkerMonth` |

Operators whose name begins with `Mutant` are variants of the definition that
follows each of them, changed as a plausible bug would change it. No
specification uses them; they are there to show that a property can fail.

### JobStore

`jobs[j]` is the row of job `j`: `state`, `services` requested, `completed`,
`failed`, `current`, `version`. A job's name stands for its idempotency key, so
`CreateJob` of a job that is there is no step. Services are numbers in the order
of the request, and `IsNext(s, row)` says that `s` is the first one that remains
(0: none does), as the loop over `service_ids` finds it. `CompareAndSet` is
guarded by the version read earlier; the branch that raises is an action of the
caller (`VersionConflict`). `ClaimNext` takes the oldest queued row: `before`
stands for `created_at`.

### ReceiptWorker

`worker.pc` is the place of the thread between two accesses to shared state:

| `pc` | in the code |
|---|---|
| `idle`, `down` | `_run_loop` between jobs; no process |
| `load`, `finish`, `open` | the head of `_process_job`, the end of the batch, the browser about to open |
| `check` ... `verify` | `_run_auto_acquisition_unlocked`, one place per Drive access and cancellation check |
| `challenge`, `publish` | a challenge was returned; it is issued, then the row is set WAITING |
| `codeWait`, `codeCheck`, `interWait` | the loops of `_wait_for_code` and `_wait_for_interactive` |
| `reload`, `write` | a `get_job` and the `compare_and_set` that follows it; `worker.plan` says which of the seven of them |

`worker.version` is the version read, `worker.attempts` the challenges issued
for this acquisition. `guard` is the holder of the commit guard, `inbox` the
entry the thread waits on, `viewer` the pair `_interactive_challenge_id` and
`_interactive_continue`, `expired` whether the current challenge has run out.
`api` is what is left of a handler that has begun: a handler is two or three
steps (row; inbox and guard; viewer), with the thread's steps between them, and
handlers run one at a time as they do on the event loop. `process` holds the
stop event and the counters of restarts and faults.

`FailureStep` has the failures: an access to the store that raises at any place
(`StoreFails`, `ClaimFails`, `CancellationCheckFails`), a requested stop, and a
crash, which may leave an upload in flight done or not done. `Upload` may raise
after Drive stored the file. Drive listings may miss a file, and never invent
one.

### ReceiptLedger

Two variables: `saved`, the receipts in Drive, and `ledger[j]`, a status
(open, cancelled, or settled) with what was asked, done and failed. It knows of
no thread, version or challenge. Its one blemish is `Reopen`: a cancelled job
may come back (see the findings). `ReceiptWorkerLedger` maps QUEUED, RUNNING and
WAITING to *open*.

### BrowserLease

`entry[t]` is what the dictionaries hold for token `t`; `closing` is the moment
between `_leases.pop` and `_close_lease`. `_lock` is never held while another
lock is waited for, so a section under it is one step; `slot` and `operation`
are the holders of `_slot_lock` and of each lease's `_operation_lock`. Sessions
and fired timers are the threads. A timer is named by its token and a
generation: 0 for the claim's, 1 for the lease's, one more for each extension;
`armed` is the generation that has not been cancelled. `Fire` needs the timer to
be due and armed; after it, cancelling has no effect, as with
`threading.Timer`. The re-entrant locks are asked for by a thread that holds
them only in `Close` (a lease's lock), which allows it.

### OwnerPage

One session, one month. Between two runs of the script its state is
`st.session_state`:

| Variable | in the code |
|---|---|
| `batch`, `challenge`, `stamps`, `failures`, `notice`, `known` | the values under `BATCH_KEY`, `SECURITY_CHALLENGE_KEY` (with `PUZZLE_OPEN_KEY` as `opened`), `SIGNIN_ATTEMPTS_KEY`, `FAILURES_KEY`, `NOTICE_KEY`, `STORED_OUTCOMES_KEY` |
| `saved`, `stored` | Drive: receipts, and the outcomes "not billed yet" that `ServiceStatusStore` dates of today |
| `slot` | the registry: free, held under this session's token, or under one this session does not have |
| `run` | the place of the script, the click it handles, the service in hand, the Drive listing of this run |
| `codes`, `quiet` | history: codes sent in the cool-off window, and whether the stored outcomes were left alone |

`run.pc` goes `idle` (nothing runs), `top`, `listed`, and from there to the
challenge (`form`, `mirror`, `submit`, `resuming`) or to the next service
(`waiting`, `mail`, `fetching`, `hold`, `won`, `lost`). `Rerun` is `st.rerun()`,
`Stop` the end of the script. The world acts between any two of these places:
the owner clicks or interrupts (Streamlit ends a running script at its next
call), reloads, another tab saves a receipt, takes the slot or writes the
outcomes, the hold runs out, time passes. A hold cannot end while the lease is
checked out for a resumption; `BrowserLease` is the module about that lock.

A service is read from the mailbox (`GraphServices`), may show a gate to be
worked by hand (`GateServices`), or has a code sent when it is signed in to.
`CoolOff` forgets every sign-in at once, and `NextDay` every stored answer.

Three things are taken as one step: a function that only updates the session
(`fail_batch_service` and its like, with its write to Drive), `create` and the
challenge's record that follows it, and a run of `run_auto_acquisition` but for
its beginning. An interruption within the second leaves a lease whose token
nobody has; the model has the same state by `OtherHolds` and `Interrupt`.

### RemoteMonth

`page` is one session of the page in worker mode. `page.pc` goes `script` (the
whole script, which lists Drive), `recover` and `find` (the two questions of
`recover_remote_job`), `act` (the fragment with the job it found and the click it
handles), `posting` (a `create_job` on its way), and `rest` or `stopped` between
runs. `page.missing` and `page.start` are the arguments of the fragment: every
5 s it runs again with those of the last full run (`Tick`), and only `Rerun` -
`st.rerun(scope="app")` - makes new ones. `page.view` is the job as it was told
of (`PublicJob`), `page.url` the `job_id` of the address, `page.refreshed` the
session's note of ended jobs for which the list was read again.

A call is one step that changes both sides or neither; where its answer is lost
after the effect, the page goes on with `FragmentEnds`. `GiveUpPosting` is a
creation given up after its time limit, and `OtherCreates` the same request
handled later, or a second tab's. The key of a request is the services asked for
and the job before it; `previous[j]` keeps that of job `j`. `thread` is the
thread of `ReceiptWorker` from outside: an acquisition is a single step here.
That a challenge is issued for a job that was cancelled meanwhile is as in
`ReceiptWorker`.

### ReceiptSaves

`lock` is `_ACQUISITION_LOCK`, `month` whether the month has an active job,
`acquirer` the thread and `upload[u]` the manual saves, which are threads of the
worker's process. `form` is the save the page still waits for: after 120 s, or a
reload, the page waits no longer while the save goes on, and another may be
pressed. The places of both savers are the looks at Drive of
`_run_auto_acquisition_unlocked`. A document's name is chosen freely: amount and
date are read from the document, and two documents of one month's bill may
differ. Drive replaces a file of the same receipt key or name; two names are two
files.

### ReceiptFolder

A file is what its name and size say: the month and day of its date, its
partner, its kind of amount. In `folder` each file has the number of the change
that wrote it (`at`), which is `find_receipt`'s order by time of modification, so
that two files of one name are two. `Matches` is what `find_receipt` asks of one
file, `Shown` its answer for a service and month: the newest match. `today` is
the month of the clock and `SelectableMonths` the months from `TARGET_MONTH_START`
to it, the only ones that have a page. `Listing` is the sorting of
`build_receipt_archive`, one file at a time and for months with or without a
page. `Acquire` names a document by `date_in_target_month` over whatever date
was read from it, and writes over a file of the same name or makes a new one
(`upsert_bytes`); `PutFile` is the owner, who may put in duplicates, files of
months to come and files of other people. `ShiftMonth` is arithmetic on years and
months; around 2026-01 and 2026-02 the months of use and of payment lie across the
end of a year. The worker takes any month of the right form; `Acquire` asks for
those the page offers.

### WorkerProcess

`process[p]` is the main thread's place from `build_app` to exit with the
counters of the backup lifecycle; `worker[p]` and `backup[p]` are its two
threads. `copying[p]` is the snapshot under way, by whichever thread, with the
writes it has seen; `snapshots` are the published files and `last` the latest
one. A snapshot's name is the time of the wall clock: `BeginCopy` takes any free
name, as after the clock was set back. `Prune` removes one file at a time, and a
process may die between any two. `lease` is the lock on the data directory,
which the operating system frees with the process. `asked` is a SIGTERM the
process sent itself; `fatal` the state after too many failures in a row.

### MicrosoftLink and DriveTokens

Both are about `MicrosoftOAuthManager`. In the worker (`MicrosoftLink`) its store
is a table, each statement of which is atomic; `handler` is the request in hand,
which may be between two statements when the thread (`reader`) refreshes a
token. A token is named by its account. `complete` may be called again at any
time for the same state: a page is loaded again, or Microsoft's redirect is.
Without a worker (`DriveTokens`) the store is one encrypted file which every
write reads and writes as a whole, from any session of the page, and a failing
download counts as an empty file.

### ChallengeInbox

One entry: a waiting thread in the loop of `_wait_for_code`, and the requests,
which the event loop handles one after the other. Each method of the inbox first
looks the entry up under the inbox's lock (`_get`) and then uses it under the
entry's condition, so both sides are two steps and may use an entry that was
unlisted, wiped or closed since. `Lapse` is the entry's clock, `StopAsked` the
stop event. The entry maps to `AnswerBox`: *open* while it is not closed, *closed*
when it still holds an answer, *wiped* when there is none to give.

## The runs

| Run | Instance | Shows |
|---|---|---|
| `worker_batch` | 1 job, services {1, 2}, 1 challenge per acquisition, 1 restart, 1 fault | all safety and action properties of the worker, the inductive invariant, and the refinement of `ReceiptLedger` |
| `worker_queue` | 2 interchangeable jobs, 1 service, 1 restart, no fault | `LiveJobIsOwned`, `EndedIsFinal` with two jobs for one thread |
| `worker_liveness` | as `worker_batch`, no fault, `FairSpec` | `EveryJobEnds`, `CancelFreesWorker` |
| `cancel_resurrected` | 1 job, 1 service, nothing fails | `CancelIsFinal` does not hold |
| `lease_slot` | 2 sessions, 2 tokens, 1 extension | the safety of the browser slot |
| `lease_standoff` | 1 session, 1 token | `NoStandoff` does not hold |
| `lease_extension` | 1 session, 1 token, 1 extension | `HoldIsKept` does not hold |
| `page_batch` | 2 services: one with codes only, one with mailbox and gate; cap 2 | the safety of the page's batch |
| `page_liveness` | 2 services, no mailbox, cap 1 | `BatchSettles` |
| `page_restart` | 1 service with a gate, cap 2 | `OwnersCall` does not hold |
| `worker_month` | seven parts side by side (below) | the safety and liveness of what surrounds the job loop |
| `mailbox_forgotten` | `DriveTokens`, 1 session, 2 authorizations | `OnceIsEnough` does not hold |

`MCWorkerMonth` extends `WorkerProcess` and holds instances of five more modules.
They share no variable, and the variable `part` chooses the one that runs, so a
state of the run is a state of one instance and the graph is their sum (369,631
states). `TypesOK` is the type invariant of all of them. The constants of the
instances are constants of `MCWorkerMonth`; the .cfg gives them values, and
`PartsAssumption` says what the proofs assume of them. Where a part has a module
of proofs, that module is the one instantiated: it defines what the part defines,
and its theorems can be cited of the instance.

| `part` | Instance | Properties |
|---|---|---|
| `month` | `RemoteMonth`: jobs {1, 2}, 1 service, 1 challenge | `EndIsShown`, `PressPays`, `JobIsShown` |
| `codes` | `RemoteMonth`: 1 job, 1 service, 2 challenges | `AnswersMatch` |
| `saves` | `ReceiptSaves`: 1 service, 2 names, 2 manual saves, 1 crash | `OneReceipt` |
| `folder` | `ReceiptFolder`: today in 2026-01 or 2026-02, 2 changes of the folder, all four services | `SavedIsFound`, `OnlyOlderAreLeftOut` |
| `process` | `WorkerProcess`: 2 processes, 3 names, retention 2, threshold 2, 2 writes | `WorkIsBackedUp`, `StopIsClean`, `SickComesDown` |
| `link` | `MicrosoftLink`: 3 authorizations, 2 accounts | `OneExchange`, `TokensFollowOwner` |
| `inbox` | `ChallengeInbox`: 2 answers | `AcceptedIsUsed`, `ImplementsBox` |

Bounds. Two services are enough for every shape of a batch: something done and
something left, something failed and something left, the last one. One
challenge per acquisition reaches both the issue of a challenge and its refusal
for too many attempts; a second service gets its own, so that a viewer or inbox
entry of an earlier challenge can be confused with a later one. One restart
allows a job to be recovered in every state in which a process can die, and one
fault hits every access to the store. With two jobs the second may be queued,
requested, cancelled or claimed at any point of the first. The proofs do not
depend on any of these bounds: `MaxAttempts`, `MaxRestarts` and `MaxFaults` are
arbitrary numbers there. In `lease_slot` two sessions are a user of the browser
and a rival for the slot, two tokens an attempt and its successor; timers come
on top. In `page_batch` the two services have all three ways of being fetched
between them, a batch may end with one of them done and one failed, and the cap
of 2 is the code's own. `page_liveness` keeps the gate and a cap of 1, so that
every way out of a sign-in is there in a smaller graph. In `worker_month` two
jobs are one that ended and one that another tab started, two challenges one
that was answered and the one that replaced it, two manual saves one that the
page gave up and the next. Three snapshot names under a retention of 2 leave one
to prune, before or after the last in order; a threshold of 2 separates a failure
that is forgiven from one that is not. Three authorizations are one used, one
that expired and one more. Deadlock is not
checked: the owner of a page may never click, a worker whose jobs have all ended and whose
restarts are used up is done, and so is a registry without tokens.

Properties worth a word:

* `CompletedIsSaved`, `SuccessMeansSaved`: the table never claims a receipt
  Drive does not hold, whatever was lost, retried or restarted.
* `NoCancelledUpload`: the commit guard, the check after taking it and
  `cancel_job` together keep an upload and a cancelled job apart.
* `OutcomesAccumulate`, `EndedIsFinal`, `CancelYieldsOnlyToChallenge`: what a
  write may never do to a row, whichever thread it comes from.
* `WaitingIsAnswerable`: a job shown as waiting waits on the very challenge that
  the handlers will find, or is about to be ended by a cancellation.
* `LoopHeadIsSettled`: why the second `compare_and_set` of `_process_job`
  (`runner.py:370`) is never needed.
* `NoticeHonest`: the last word of a batch against Drive, although services
  fail, are found there by another tab, or are interrupted after their upload.
* `CodesCapped`: an answer "not billed yet" takes its sign-ins off the count, so
  the cap holds only because the stored answer stops the next sign-in. `quiet`
  says on which days that can be relied on: an unreadable document, a failed
  write or another tab's loses the answer.
* `HoldIsWatched`: every path that drops the challenge also frees the slot.
* `ClosedBeforeNext`, `UsedIsOpen`: both rest on the lock order, and fail if a
  lock is skipped.
* `AnswersMatch`: a submit is a run of the script that asks the worker for the
  job first, and the widget's key holds the challenge's id. Both the page and
  the handler compare; the handler's comparison is the one that counts, as the
  challenge may be replaced between the two.
* `EndIsShown`: the list of missing receipts is as old as the last full run. The
  property is about a page at rest whose view is up to date; that the list was
  read again for this job and version is what makes it true.
* `PressPays`: a press whose answer is lost is repeated with the same key and
  finds its job; but a key that only ever finds ended jobs would make the button
  useless. The job before it in the key is what prevents that. The property is
  stated for a worker and a Drive that answer from some time on (`Calm`), while
  receipts are missing that can be acquired and jobs are there to be made: with
  the bound on jobs reached it says nothing.
* `JobIsShown`: a page that was at an ended job comes to the active one.
* `OneReceipt`: rests on the lock and on the look at Drive that follows it, not
  on the names: two documents of one month may have two.
* `SavedIsFound`: the month paid and the month of use differ by the service, also
  across the end of a year; and what was saved is not hidden again but by
  something newer, whatever is put into the folder or written over.
* `OnlyOlderAreLeftOut`: the page goes from the month of use to the month paid, for
  the months it offers, and takes one file of several; the archive goes back from
  each file's date, whatever the month. The two must agree on every file. What
  the archive leaves out is a receipt of a service's, and either the page shows it,
  or it shows a newer one for the same service and month, or the month has no page.
  The files of the last two kinds are shown nowhere, as `receipt_archive.py:138`
  and `tests/test_receipt_archive.py:163` intend of duplicates and months to come.
* `WorkIsBackedUp`: a snapshot is found again by its name, and names are times.
  `_prune` protects the one just made; without it a clock set back lets it be
  the first to go.
* `StopIsClean`: `worker/README.md:65` says that a shutdown stops the thread,
  publishes a final snapshot and then closes the database. So it is for a thread
  that was joined; a join that timed out leaves the store open.
* `SickComesDown`: both threads end by themselves and only ask for the restart.
* `OneExchange`: the row is deleted by the statement that reads it.
* `AcceptedIsUsed`: the thread may leave its loop at three places, and an answer
  may come while it is between any two of them. That an expiry excuses is no
  accident: an answer accepted in the last moment is thrown away when the thread
  next asks whether the challenge is pending.
* `ImplementsBox`: an entry keeps an answer when a later submission finds it
  expired and closes it; the box may be closed and still give.
* `TokensFollowOwner`: excludes, by `crossed`, the two races the code has: a
  refresh in flight across `disconnect` or a second `complete`.

## Fairness

`FairSpec` assumes weak fairness of five things and of nothing else:

* `WorkerStep`: the thread runs on. Each of its external calls ends, because
  each has a time limit: page and HTTP timeouts, the budget of an acquisition.
* `HandlerStep`: a handler that has begun runs to its end on the event loop.
* `ChallengeExpires`: clocks advance.
* `StartProcess`: Compose restarts the container (`restart: unless-stopped`).
* `Exit`: a process told to stop exits; the joins of `stop` have time limits.

`OwnerPage` assumes weak fairness of `Script`: a script that runs goes on. Its
waits are bounded by `SERVICE_ATTEMPT_BUDGET_SECONDS` and
`SECURITY_RESUME_BUDGET_SECONDS`, and its calls to Drive by their own time
limits. An owner who interrupts it for ever is excluded by the property itself,
`BatchSettles`, and not by a fairness condition.

`RemoteMonth` assumes `Attended`: weak fairness of `Script` (each call of the
page has a time limit) and of `Tick` (`run_every="5s"`), and, as `PressPays` is
about an owner who presses on, weak fairness of `RunAgain` and strong fairness of
`PressStart`; strong, as the button comes and goes with each run of the script.
Nothing is assumed of the thread, and of the network only what `Calm` says.

`WorkerProcess` assumes `Fairness`: the main thread goes on (its joins have time
limits: 45 s for the worker, 35 s for the backups), a snapshot that it makes
itself comes to an end, and a signal that was sent is delivered. The two other
threads may hang anywhere.

Except for that button, the owner is never assumed to do anything, and no failure is assumed to happen
or not to happen beyond the bounds. `EveryJobEnds` is stated for a store that
does not raise: `_fail_unexpected` gives up on a second error, and the job then
stays RUNNING until the next restart, which nobody promises.

## The proofs

All theorems hold for any values of the constants. What they assume of them is
in part said where the constants are declared, and so also evaluated by TLC:

* `ServicesAssumption` (0 is not a service, services are numbers),
  `NoJobAssumption` and `BoundsAssumption` for the worker;
* `NoTokenAssumption` (what stands for no lease is not one), `MaxExtendsAssumption`
  and `ThreadsAssumption` for `BrowserLease`: the thread of an expiry timer is
  none of a session, and nobody is neither;
* `NAssumption`, `MaxAssumption` and `KindsAssumption` for `OwnerPage`: the number
  of services, the caps, and that gated services and those read from the mailbox
  are among the services;
* `PartsAssumption` for `MCWorkerMonth`, which puts together what the parts need:
  services are numbers from 1 on, the months asked for are months of a calendar
  (`month` from 1 to 12, any `year`), the threshold of failures is at least 1, as
  `backup_lifecycle.py:41` has it, the bounds are numbers, no manual save is
  called like the thread, and no answer stands for none.

The rest are hypotheses of the theorems themselves: `MaxCrashes \in Nat` and
`TheThread \notin Uploads` (a manual save is not called like the thread) for
`ReceiptSaves`; `Threshold \in Nat` for `WorkerProcess`, and for its types
`Threshold \in Nat \ {0}` and `MaxWrites \in Nat`; `NoAnswer \notin Answers`
for `ChallengeInbox`; `MaxChallenges \in Nat` for `RemoteMonth`. `MicrosoftLink`
needs nothing.

| Theorem | Statement |
|---|---|
| `Inductive` | `Spec => []IInv` |
| `TypeCorrect`, `CompletionIsTrue`, `SuccessIsHonest`, `OutcomesStayApart`, `CancelStopsUploads`, `NoJobIsLeftBehind`, `LoopHeadIsAlwaysSettled` | the invariants of the runs |
| `NoOutcomeIsLost`, `EndedStaysEnded`, `CancelYieldsOnce` | the action properties of the runs |
| `OwnerCanAnswer` | `Spec => []WaitingIsAnswerable` |
| `WorkerImplementsLedger` | `Spec => ImplementsLedger` |
| `SavesTypeCorrect`, `OneReceiptEver` | `ReceiptSaves`: `Spec => []TypeOK`, `Spec => []OneReceipt` |
| `OneExchangeEver`, `TokensAlwaysFollow` | `MicrosoftLink`: `Spec => []OneExchange`, `Spec => []TokensFollowOwner` |
| `WorkIsAlwaysBackedUp`, `StopsAreClean`, `ProcessTypeOK` | `WorkerProcess`: `Spec => []WorkIsBackedUp`, `Spec => []StopIsClean`, `Spec => []TypeOK` |
| `SavedIsAlwaysFound`, `OlderAloneAreLeftOut` | `ReceiptFolder`: `Spec => []SavedIsFound`, `Spec => []OnlyOlderAreLeftOut` |
| `InboxTypeOK`, `AcceptedIsAlwaysUsed`, `InboxIsABox` | `ChallengeInbox`: `Spec => []TypeOK`, `Spec => []AcceptedIsUsed`, `Spec => ImplementsBox` |
| `TypeIsOK`, `SlotIsSole`, `BrowserIsClosedFirst`, `BrowserStaysOpen` | `BrowserLease`: `TypeOK`, `OneAttempt`, `ClosedBeforeNext`, `UsedIsOpen` always hold |
| `PageInvariant` | `OwnerPage`: `Spec => []IInv` |
| `TypeIsOK`, `OwnerIsToldTheTruth`, `CodesStayCapped`, `HoldStaysWatched` | `OwnerPage`: `TypeOK`, `NoticeHonest`, `CodesCapped`, `HoldIsWatched` always hold |
| `MonthInvariant` | `RemoteMonth`: `Spec => []IInv` |
| `MonthTypeOK`, `AnswersAlwaysMatch`, `EndsAreShown` | `RemoteMonth`: `TypeOK`, `AnswersMatch`, `EndIsShown` always hold |
| `PartsTypesOK`, `PartAnswersMatch`, `PartEndIsShown`, `PartOneReceipt`, `PartSavedIsFound`, `PartOnlyOlderAreLeftOut`, `PartWorkIsBackedUp`, `PartStopIsClean`, `PartOneExchange`, `PartTokensFollowOwner`, `PartAcceptedIsUsed`, `PartImplementsBox` | `MCWorkerMonth`: every property of its run but liveness, from `MCSpec` |

### The worker

None of the invariants is inductive alone. That the table is honest
(`CompletedIsSaved`) depends on what the thread knows between its read of the
row and its write, and that in turn on what others may do to the row meanwhile.
`IInv` says it place by place:

* `HoldsJob`: a job in hand is RUNNING, WAITING, or was cancelled under the
  thread; nothing else can happen to it.
* `ReadIsCurrent`: at a write, the version read is the row's unless the row has
  been cancelled since, and a write that would hit a cancelled row under its own
  version is one of the two that deal with a challenge.
* `ServiceIsRemaining`: the service in hand is neither done nor failed, and is
  in Drive once the plan is to complete it.
* `GuardIsHeld`: who holds the commit guard, by place.
* `SuccessIsComplete`, `CompletedIsSaved`, `OutcomesAreDisjoint`,
  `LoopHeadIsSettled`, `LiveJobIsOwned`: what is promised about the rows.

`ReceiptWorkerProofs` begins with one lemma per transaction of the table: what it
leaves of the row it writes and of the other rows. The actions then fall into
kinds - moves that touch no row, reads, writes under a version, drops of the
job, steps of others - and a lemma per kind (`MoveKeepsCore`, `ReadKeepsCore`,
`WriteKeepsCore`, `DropKeepsCore`, `OthersKeepCore`, ...) shows what it does to
the invariant; the lemmas `AcquireGood`, `ChallengeGood`, `RowGood`, `LoopGood`,
`FailureGood` and `RequestGood` reduce each action to its kind. The action
properties follow from one more case split over the writes
(`RowsChangeAsAllowed`). The last section shows, from `IInv`, that a
write is a step of the ledger (`OpenWrite`, `EndWrite`, `CompleteStep`,
`FailServiceStep`), an upload a `Save`, and everything else a stutter.

`OwnerCanAnswer` has an invariant of its own, `AnswerIsFound`: from the issue of
a challenge on, before the row says WAITING and after a cancellation has taken
WAITING away, the latest stored challenge is the one in the viewer or in the
inbox. `WaitingIsAnswerable` alone says nothing of the place between issue and
publication, and would not survive the step that publishes.

### The saves

`OneReceipt` is about the folder alone, and an upload may happen long after the
look that justified it. `IInv` of `ReceiptSavesProofs` adds who may be between
the two: `InHand` (what a saver holds is a file it may save), `LockIsHeld` (a
saver at a place behind the first look is the holder of the lock, so there is
one of them), and `LookIsGood` (the receipt of a service that is about to be
saved is not in the folder). Nobody else writes, so the look stays good.

### The process

`LeaseIsHeld` says that whoever is up holds the lease and that one who is down
has nothing in hand; then all processes but one are down, and an invariant of a
step's own process is an invariant of all (`OneSteps`). What is left is
`Backed(p)` - the snapshot in hand, once published, is the last one, so `_prune`
protects it; from the first snapshot on there is a last one - and `Stops(p)`,
which says by place what a stop has reached: a joined thread is over, a final
copy made after it has seen every write, a closed store belongs to a process on
its way out. The types need one more fact (`TypesHold`): a copy under way has a
name of its own, or what is published would not be a snapshot. That the count of
failures never passes the threshold is `_backup_once` stopping there, and a
first snapshot that fails counts 1, which is why the threshold has to be 1 at
least.

### The folder

Months are numbered, `Index(m)` = 12 times the year and the month from 0 on.
`ShiftIs` says that `shift_month` adds to the number and yields a month of the
calendar, `IndexTells` that the number tells the month; so shifts add up
(`ShiftsAdd`), and `usage_month_for_transaction` and `expected_transaction_month`
undo each other for every service (`UsageIs`), over the end of a year as anywhere.
`FolderInv` is inductive. What was saved for a service and month of use bears the
name of that service and of the month in which it is paid (`IsFor`), which is what
`date_in_target_month` sees to whatever date the document bears (`NamedIsFor`). By
`UsageIs` such a file matches its own service and month of use and no others
(`MatchesOne`). It stays in the folder, as a file is written over only where
`find_receipt` found none, so the one that goes counts for no month at all
(`ReplacedIsFound`, `ReceiptStays`). That a newest match is there whenever there is
a match (`NewestIsThere`) needs no argument about finite sets: the file written
last is the newest for every month it counts for, and the other months keep theirs
(`WriteKeeps`). `OnlyOlderAreLeftOut` follows: a file that the archive takes for a
month's matches that month, and if the page shows another one, no two files are of
one change, so it is newer. `MonthsStay` says that a month that has a page keeps it.
`Months` and `MaxChanges` are arbitrary, as long as the first month is among them.

### The parts together

`PartsStep` says that a step of `MCWorkerMonth` is for each part a step of its own
or none, and `PartsBehave` that a behavior of all is one of each part. The
theorems of the parts then hold of the instances. `RemoteMonth` is the exception,
as the fairness of its `Spec` is given only to the part that runs; what is safe
about it needs no fairness, so `MonthsHold` goes by the inductive invariant
(`InitHolds`, `NextHolds`) instead.

### The tokens

`RowsBuyOnce` relates a state's row, the handler that consumed it and the codes
redeemed for it; `HandsFollowOwner` says what handler and thread hold between
two statements. Without `crossed`, it is of the account chosen last.

### The inbox

`AnswerIsKept` says where an accepted answer is - in the entry, or with the
thread, or wiped with the entry closed - whatever was looked up before;
`EndIsExcused` says that what ends the entry while the thread goes round is a
reason of the three, place by place. The refinement needs the first only: a step
wipes the box, closes it, takes or gives an answer, or leaves it alone
(`BoxWipes`, `BoxCloses`, `BoxRests`, `BoxStep`).

### The leases

`ThreadsOK` says what a thread's place lets others rely on: whoever is inside a
lifecycle operation is the one who holds the slot (`SlotIsHeld`), a session at a
place where it has checked out a lease holds that lease's lock
(`LeaseIsLocked`), and a thread that is about to touch a lease aims at one
(`Fits`; an expiry timer aims only at its own). `EntriesOK` adds that a closing
lease is in the hands of exactly the thread that closes it (`ClosingIsInHand`),
which is what makes `ClosedBeforeNext` survive the end of a close. No property is
inductive without the others: two attempts would be in the slot if a thread could
enter while another one is closing, and a browser would be closed under its
user if an expiry did not have to wait for the lock of a lease that is checked
out. The lemma
`ThreadMoves` does for `ThreadsOK` what is common to all steps; each action then
shows what it does to the entries. The two runs that violate their property are
no contradiction: that two threads wait for each other, and that a lease is
closed early, leaves these four true.

### The page

`NoticeHonest` is about the end of a batch, and what is said there was gathered
over many runs of the script. `RecordIsTrue` carries it: what the batch calls
completed is in Drive, what it calls failed has its reason on the page.
`CodesCapped` needs the longest argument. The count of sign-ins is not a count
of codes: "not billed yet" takes its sign-ins off it. `CodesAreCovered` says that a
service is in one of three states - every code sent has a sign-in counted
(`IsCounted`, with one more for the sign-in whose code is still to be sent), the
receipt is there (`IsSaved`), or the outcome "not billed yet" is stored, is known
to the page whenever it has read the outcomes, and nothing of the service is
under way (`IsSettled`). The last is what the reading of the outcomes before each
sign-in is for: when an unissued outcome is not kept until then, the cap is
broken (`MutantFailForgets`). `HandsOK` ties
the service in hand to the place of the script, and `HoldIsWatched` is inductive
beside it. There is a lemma per action, over lemmas on what the ends of a service
have in common (`OneEnds`, `CodesOfOneEnd`, `CodesKept`, `NothingRecorded`,
`AtRest`).

### The remote month

The page lives on copies, and `IInv` of `RemoteMonthProofs` says what a copy is
worth: of a row that still has the version the page saw, the state is the one it
saw (`ViewIsPast`), and for a job and version remembered as refreshed the list of
missing receipts was read since (`RefreshedIsFresh`). `EndIsFresh` extends
`EndIsShown` to the places where the page waits for its next job. Versions only
grow and an ended row is not written again under its version, so a copy that was
right stays right: `SeenStays` says so of one row, and `StepHolds` reduces every
action to two facts, that each row moves as a transaction moves it (`JobsMove`)
and that the page takes its view from the table or keeps it (`PageMoves`).
`AnswersMatch` holds because a click counts only while the page still shows the
question it was made for (`ShownWaits`), and the worker takes an answer only for
the question it is waiting on.

### Model-checked only

The liveness properties (`EveryJobEnds`, `CancelFreesWorker`, `BatchSettles`,
`PressPays`, `JobIsShown`, `SickComesDown`): liveness under fairness is out of
the prover's reach. Every invariant and action property of a passing run, and
both refinements, are proved. `DriveTokens` has no theorem: it does not keep what
it promises.

## Disagreements found

* **A cancelled job comes back** (`cancel_resurrected`). `_wait_for_code` and
  `_wait_for_interactive` read the row (`runner.py:555`, `:643`) and write it
  WAITING under the version read without looking at its state; so does the path
  of an answered code (`:623`). If the owner cancels while the provider is being
  driven, after the last check of the cancellation, the job that was reported as
  cancelled goes on as WAITING. `CancelYieldsOnlyToChallenge` shows, and
  `CancelYieldsOnce` proves, that these are the only places.
* **Checkout and expiry wait for each other** (`lease_standoff`). A checkout
  that finds the lease just expired discards it (`security_challenge.py:431`)
  while holding the lease's lock, and waits for the slot; the expiry holds the
  slot and waits for the lease's lock. The comment at `:180` rules this out.
* **An extended hold is cut short** (`lease_extension`). `extend` cancels the old
  timer (`:401`), but one that has fired and waits for the slot finds the same
  lease object and closes it. The docstring promises the full hold again.
* **A sign-in nobody asked for** (`page_restart`). When the hold is gone at the
  mirror's checkout, `render_interactive_challenge` restarts the sign-in itself
  (`streamlit_app.py:1857`), where `render_security_code_form` a few lines
  earlier and `resume_security_code` leave that to the owner, and say why
  (`:1580`, `:1235`).
* **A connection that was to last is forgotten** (`mailbox_forgotten`). A download
  of the token file that fails counts as an empty file
  (`drive_token_store.py:133`); the next write, of a pending authorization that
  the page makes because it seems unconnected, puts that empty file in place of
  the refresh token. The page says that allowing it once is enough
  (`graph_link.py:85`). Two sessions that write the file at once lose one of the
  writes too.

Seen while modelling, and promised by nobody:

* Two requests for one month with different services have different keys and
  become two active jobs of the month; the thread works on one after the other.
* An upload whose checksum cannot be verified raises and leaves the file in the
  folder (`drive_storage.py:165`), where it counts as the receipt.
* A crash in the middle of a snapshot leaves a temporary file.
* A bill of 0 yen is saved and never found for its month, as `find_receipt` asks
  for an amount above zero: the archive lists it for review, and the month keeps
  it as missing.
* A receipt of a service's for a month of use before 2026-01 (`config.py:14`) is
  shown nowhere and never will be: the archive leaves it to a page that no month
  list reaches. The docstring of the archive speaks of months to come only.
* A code accepted just before the challenge expires may never be used: the job
  ends as expired although the owner was told that the code was taken.
* A tap whose answer was lost is sent again every 5 s until one is answered.

## Abstractions, and what is not modelled

* `drive` is a set of services: all jobs of a model are for one month, and a
  receipt in Drive is never deleted by somebody else. Names and duplicates are
  in `ReceiptSaves` and `ReceiptFolder`, hashes nowhere.
* The provider is a free choice among everything `_acquire_service` can be
  given: a statement, a failure of any of three kinds, a challenge of any kind.
* Owner and token checks, the event timeline, timestamps, wording and the
  contents of challenges are left out: no property tells them apart.
* Time is two flags, `expired` in either model, which may become true at any
  moment. The monotonic clock of the inbox and the wall clock of the row are
  taken to agree.
* `_latest_challenge` is the last one stored for the job. `cancel_job`'s loop of
  compare-and-set is one step, as it repeats until no write comes between.
* A thread whose `claim_next` raised is taken to stop the process at once.
* In `BrowserLease`, `timer.start()` always succeeds, and what a page does with
  a browser it has checked out is one place, `using`.
* In `OwnerPage`, a page that has moved on to a verification code after a gate is
  not counted as a code (the code does not count it either), a browser under a
  hold does not crash, and the batch is for the month on display: the selector
  is disabled while one runs. A listing of Drive misses nothing there (in
  `ReceiptWorker` it may), and a challenge's lease is for its own service and
  month, so that the restart for any other is left out.
* In `RemoteMonth` a list of Drive is exact, a page has one click at a time, and
  which of two active jobs `find_active_job` answers is left open. The length of
  a code, and what a tap does to the provider's page, are left out.
* In `ReceiptSaves` Drive is listed exactly, and a write whose answer is lost has
  been done when the next step is taken or is never done. With listings that
  miss a file a second receipt is possible, and nothing in the code could tell.
* In `ReceiptFolder` a day is the first of a month or another one, and the owner's
  files are dated the first, as a day matters to equal names only; dates are at
  most a month off the months of the run. Nobody deletes or renames a file, and
  each change has a later time than the one before, so that `find_receipt` never
  falls back on names and ids. A document saved again with the same content is
  left alone, which changes nothing. The texts of a PDF, their amounts and their
  dates are a free choice.
* In `WorkerProcess` a snapshot sees the writes of the moment at which it begins,
  and its copying, checking and synchronising are one step.
* In `MicrosoftLink` states are never alike and decryption never fails; `start`
  is a single statement.
* Not modelled, and not planned: rendering, provider pages, HTTP routing and
  authentication, file permissions, deployment. Not modelled yet: see the plan.

## Plan

In order of importance, with what is done first:

1. `JobStore`, `ReceiptWorker`: the worker and its failures. *Done, proved.*
2. `ReceiptLedger`, `ReceiptWorkerLedger`: the promise to the owner, and that the
   worker keeps it. *Done, proved.*
3. `BrowserLease`: the browser slot. *Done, proved:* one attempt, closed
   before the next, none closed in use.
4. `OwnerPage`: the page's own batch. *Done, its invariants proved.*
5. `RemoteMonth`: the client and the page over it, with lost responses and
   reloads. *Done, its safety proved.*
6. `ReceiptSaves`: two savers with the lock, the BUSY check and lost responses.
   *Done, proved.*
7. `WorkerProcess`: start, snapshots, stop. *Done, proved.*
8. `MicrosoftLink`, `DriveTokens`: the tokens in both kinds of store. *Done; the
   first is proved, the second does not keep its promise.*
9. `ReceiptFolder`: months, pages, names, `find_receipt`, the archive. *Done, proved.*
10. `ChallengeInbox`, `AnswerBox`: the two levels of locks, expiry and the one
    consumer. *Done, proved.*
11. `MCWorkerMonth`: the parts together. *Done, proved.*
12. Left: what is left of partly modelled components: the save without a worker in the
    page's process, and the two stores of profiles and credentials.
