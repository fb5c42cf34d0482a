------------------------------ MODULE RemoteMonth ------------------------------
(***************************************************************************)
(* A month in worker mode: the owner's page (ui/remote_jobs.py), which     *)
(* speaks HTTP through jobs/client.py, the handlers of workers/service.py, *)
(* the job table and the worker's thread.                                  *)
(*                                                                         *)
(* An HTTP call is one step of the page that changes both sides; its       *)
(* answer may be lost after the effect, or the request before it, and the  *)
(* call that creates a job may be handled after the page gave it up.       *)
(* The thread is the one of ReceiptWorker, seen from outside: what it does *)
(* between two writes to the table is one step.  How receipts get into     *)
(* Drive is ReceiptSaves'; here a service's receipt is there or not.       *)
(***************************************************************************)
EXTENDS JobStore, FiniteSets

CONSTANTS
    MailServices,   \* services that need the Microsoft connection (tokuten)
    MaxChallenges   \* bound: challenges issued by all the jobs

\* Jobs are numbered in the order in which they were created.
NoJob == 0
Room == \E j \in Jobs : jobs[j].state = "absent"
IsNewest(j) == jobs[j].state = "absent" /\ \A k \in Jobs : k < j => jobs[k].state # "absent"

VARIABLES
    previous,   \* previous[j]: the previous_job_id in the key that created j
    page,       \* the owner's page
    thread,     \* the worker's thread
    saved,      \* the services whose receipt is in the Drive folder
    question,   \* question[j]: the latest challenge of job j
    replied,    \* an answer to it, or "done", is there for the thread
    issued,     \* how many challenges were issued
    crossed     \* history: an answer crossed another challenge than the owner saw

worker == <<jobs, previous, thread, question, replied, issued>>
vars == <<worker, page, saved, crossed>>

Active == {"queued", "running", "waiting"}
Challenges == 1 .. MaxChallenges
NoQuestion == [id |-> 0, kind |-> "none"]
Questions == [id: Challenges, kind: {"code", "screen"}] \cup {NoQuestion}

NoClick == [does |-> "none", of |-> 0]
Press(does) == [NoClick EXCEPT !.does = does]
NoView == [job |-> NoJob, state |-> "none", version |-> 0, question |-> NoQuestion]
Unreachable == [NoView EXCEPT !.state = "unreachable"]
Idle == [pc |-> "idle", job |-> NoJob]

\* find_active_job: one of a month is found, and told of.
Working == {j \in Jobs : jobs[j].state \in Active}

Init ==
    /\ InitJobs
    /\ previous = [j \in Jobs |-> NoJob]
    /\ page = [pc |-> "script", url |-> NoJob, view |-> NoView, missing |-> {}, start |-> {},
               refreshed |-> {}, click |-> NoClick]
    /\ thread = Idle
    /\ saved = {}
    /\ question = [j \in Jobs |-> NoQuestion]
    /\ replied = FALSE
    /\ issued = 0
    /\ crossed = FALSE

-------------------------------------------------------------------------------
(* The handlers of WorkerService, as steps of whoever calls them.          *)

\* public_job: what a page is told of a job.
PublicJob(j) ==
    [job |-> j, state |-> jobs[j].state, version |-> jobs[j].version,
     question |-> IF jobs[j].state = "waiting" THEN question[j] ELSE NoQuestion]

\* The request's key is the one of j (ui idempotency_key, a hash of these).
MutantHasKey(j, key) == jobs[j].state # "absent" /\ jobs[j].services = key.ids
HasKey(j, key) ==
    /\ jobs[j].state # "absent"
    /\ jobs[j].services = key.ids
    /\ previous[j] = key.previous

\* create_job: the job with this key, made now if there is none.
Create(key, j) ==
    \/ HasKey(j, key) /\ UNCHANGED <<jobs, previous>>
    \/ /\ ~\E k \in Jobs : HasKey(k, key)
       /\ IsNewest(j)
       /\ CreateJob(j, key.ids)
       /\ previous' = [previous EXCEPT ![j] = key.previous]

\* cancel_job
Cancel(j) ==
    \/ jobs[j].state \in Terminal /\ UNCHANGED <<jobs, replied>>
    \/ /\ jobs[j].state \in Active
       /\ CompareAndSet(j, jobs[j].version, "cancelled", jobs[j].completed, jobs[j].failed, NoService)
       /\ replied' = IF jobs[j].state = "waiting" THEN FALSE ELSE replied

\* The challenge named by a request is the one the job waits for.
MutantAsked(j, of, kind) == jobs[j].state = "waiting" /\ question[j].kind = kind
Asked(j, of, kind) ==
    /\ jobs[j].state = "waiting"
    /\ question[j] = [id |-> of, kind |-> kind]

\* submit_challenge_response, and complete_interactive_challenge (continue_interactive).
Reply(j, of, kind) ==
    /\ Asked(j, of, kind)
    /\ thread.job = j
    /\ replied' = TRUE

\* A browser that waits for its owner is there (_require_active_browser).
HasBrowser(j) == thread = [pc |-> "waiting", job |-> j]

\* send_viewer_input, of a click, a text or a key.
Tapped(j, of) == Asked(j, of, "screen") /\ HasBrowser(j)

-------------------------------------------------------------------------------
(* The page's script: streamlit_app.py down to render_remote_month, and     *)
(* that fragment.                                                          *)

At(pc) == page.pc = pc

\* A tap that was not answered is sent again by the next run, as long as the same
\* challenge is shown (remote_viewer_processed_).
Unsent(p) == p.click.does = "tap" /\ p.view.question.id = p.click.of

\* The fragment is over, and with it the script, which the widgets outlive.
FragmentEnds(p) ==
    page' = [p EXCEPT !.pc = "rest", !.click = IF Unsent(p) THEN p.click ELSE NoClick]

Rerun(p) ==
    page' = [p EXCEPT !.pc = "script", !.view = NoView, !.missing = {}, !.start = {},
                      !.click = NoClick]

\* render_microsoft_connection: what may be acquired, with the mailbox connected
\* or without.
Acquirables(missing) == {missing, missing \ MailServices}

\* load_drive_snapshot and receipts_for_month.
ListDrive ==
    /\ At("script")
    /\ LET missing == {s \in Services : s \notin saved}
       IN  \E start \in Acquirables(missing) :
             page' = [page EXCEPT !.pc = "recover", !.missing = missing, !.start = start]
    /\ UNCHANGED <<worker, saved, crossed>>

DriveDown ==
    /\ At("script")
    /\ page' = [page EXCEPT !.pc = "stopped"]
    /\ UNCHANGED <<worker, saved, crossed>>

\* The owner touches something, and the whole script runs.
RunAgain ==
    /\ page.pc \in {"rest", "stopped"}
    /\ Rerun(page)
    /\ UNCHANGED <<worker, saved, crossed>>

\* run_every="5s": the fragment runs by itself, with the arguments of the last
\* full run.
Tick ==
    /\ At("rest")
    /\ page' = [page EXCEPT !.pc = "recover", !.view = NoView]
    /\ UNCHANGED <<worker, saved, crossed>>

\* A job that ended is not asked whether another one is active.
MutantRecoverRequested ==
    /\ At("recover") /\ page.url # NoJob
    /\ page' = [page EXCEPT !.pc = "act", !.view = PublicJob(page.url)]
    /\ UNCHANGED <<worker, saved, crossed>>

\* recover_remote_job: first the job of the URL, if it is active.  (A job of
\* another month counts as none.)
RecoverRequested ==
    /\ At("recover") /\ page.url # NoJob
    /\ page' = [page EXCEPT !.pc = IF jobs[page.url].state \in Active THEN "act" ELSE "find",
                            !.view = PublicJob(page.url)]
    /\ UNCHANGED <<worker, saved, crossed>>

RecoverNothing ==
    /\ At("recover") /\ page.url = NoJob
    /\ page' = [page EXCEPT !.pc = "find"]
    /\ UNCHANGED <<worker, saved, crossed>>

\* then the active job of the month, then the ended one of the URL.
FindActive ==
    /\ At("find")
    /\ \/ \E j \in Working : page' = [page EXCEPT !.pc = "act", !.url = j,
                                                     !.view = PublicJob(j)]
       \/ Working = {} /\ page' = [page EXCEPT !.pc = "act"]
    /\ UNCHANGED <<worker, saved, crossed>>

RecoverFails ==
    /\ page.pc \in {"recover", "find"} /\ (At("recover") => page.url # NoJob)
    /\ FragmentEnds([page EXCEPT !.view = Unreachable])
    /\ UNCHANGED <<worker, saved, crossed>>

-------------------------------------------------------------------------------
(* The widgets of the fragment, as the run before left them, and what the  *)
(* run started by a press does with it.                                    *)

Offers == page.start # {} /\ page.view.state \notin Active \cup {"unreachable"}

Touch(click) ==
    /\ At("rest")
    /\ page' = [page EXCEPT !.pc = "recover", !.view = NoView, !.click = click]
    /\ UNCHANGED <<worker, saved, crossed>>

PressStart == Offers /\ Touch(Press("start"))
PressCancel == page.view.state \in Active /\ Touch(Press("cancel"))
PressReply(does) ==
    /\ page.view.question.kind = (IF does = "code" THEN "code" ELSE "screen")
    /\ Touch([Press(does) EXCEPT !.of = page.view.question.id])

\* The press is lost with the challenge it was made for: the widget's key holds
\* the challenge's id.
Shows(kind) == page.view.question = [id |-> page.click.of, kind |-> kind]

\* The list is refreshed at the end of a job once in a visit, not once a job.
MutantRefreshes ==
    /\ page.view.state \in Terminal /\ page.missing # {}
    /\ page.refreshed = {}

\* A job that ended has the list of receipts read again, once.
Refreshes ==
    /\ page.view.state \in Terminal /\ page.missing # {}
    /\ <<page.view.job, page.view.version>> \notin page.refreshed

Refresh ==
    /\ At("act") /\ Refreshes
    /\ Rerun([page EXCEPT !.refreshed = @ \cup {<<page.view.job, page.view.version>>}])
    /\ UNCHANGED <<worker, saved, crossed>>

\* The form of _render_challenge and the button of _render_interactive_viewer.
SendReply(does, kind) ==
    /\ At("act") /\ page.click.does = does /\ Shows(kind)
    /\ \/ /\ Reply(page.view.job, page.view.question.id, kind)
          /\ crossed' = (crossed \/ page.click.of # question[page.view.job].id)
          /\ Rerun(page) \/ FragmentEnds(page)
       \/ FragmentEnds(page) /\ UNCHANGED <<replied, crossed>>
    /\ UNCHANGED <<jobs, previous, thread, question, issued, saved>>

\* A click, text or key of _render_interactive_viewer.
SendTap ==
    /\ At("act") /\ page.click.does = "tap" /\ Shows("screen")
    /\ \/ /\ Tapped(page.view.job, page.view.question.id)
          /\ crossed' = (crossed \/ page.click.of # question[page.view.job].id)
          /\ Rerun(page) \/ FragmentEnds(page)
       \/ FragmentEnds(page) /\ UNCHANGED crossed
    /\ UNCHANGED <<worker, saved>>

Key == [ids |-> page.start,
        previous |-> IF page.view.state \in Terminal THEN page.view.job ELSE NoJob]

Start ==
    /\ At("act") /\ page.click.does = "start" /\ Offers /\ ~Refreshes
    /\ page' = [page EXCEPT !.pc = "posting"]
    /\ UNCHANGED <<worker, saved, crossed>>

SendCancel ==
    /\ At("act") /\ page.click.does = "cancel" /\ page.view.state \in Active
    /\ \/ Cancel(page.view.job) /\ (Rerun(page) \/ FragmentEnds(page))
       \/ FragmentEnds(page) /\ UNCHANGED <<jobs, replied>>
    /\ UNCHANGED <<previous, thread, question, issued, saved, crossed>>

\* Nothing was pressed that is still there.
Show ==
    /\ At("act") /\ ~Refreshes
    /\ page.click.does = "start" => ~Offers
    /\ page.click.does = "cancel" => page.view.state \notin Active
    /\ page.click.does = "code" => ~Shows("code")
    /\ page.click.does \in {"tap", "done"} => ~Shows("screen")
    /\ FragmentEnds(page)
    /\ UNCHANGED <<worker, saved, crossed>>

\* WorkerService.create_job, and the page hears of it.
Created(j) ==
    /\ At("posting")
    /\ Create(Key, j)
    /\ Rerun([page EXCEPT !.url = j])
    /\ UNCHANGED <<thread, question, replied, issued, saved, crossed>>

\* WORKER_UNREACHABLE, after timeout_seconds; the request may yet be handled.
GiveUpPosting ==
    /\ At("posting")
    /\ FragmentEnds(page)
    /\ UNCHANGED <<worker, saved, crossed>>

\* A reloaded page is a new session; its address keeps the job or not.
Reload(url) ==
    /\ Rerun([page EXCEPT !.url = url, !.refreshed = {}])
    /\ UNCHANGED <<worker, saved, crossed>>

-------------------------------------------------------------------------------
(* The worker's thread (workers/runner.py), seen from outside.             *)

outside == <<previous, page, crossed>>
Row == jobs[thread.job]
Hold(pc) == thread' = [thread EXCEPT !.pc = pc]

\* The row is written, with its next service as the current one.
Write(state, completed, failed) ==
    \E s \in Services \cup {NoService} :
        /\ IsNext(s, [Row EXCEPT !.completed = completed, !.failed = failed])
        /\ CompareAndSet(thread.job, Row.version, state, completed, failed,
                         IF state = "running" THEN s ELSE NoService)

Claim(j) ==
    /\ thread.pc = "idle"
    /\ ClaimNext(j)
    /\ thread' = [pc |-> "loop", job |-> j]
    /\ UNCHANGED <<outside, saved, question, replied, issued>>

\* _process_job: cancelled, or nothing remains.
JobEnds ==
    /\ thread.pc = "loop"
    /\ \/ Row.state # "running" /\ UNCHANGED jobs
       \/ /\ Row.state = "running" /\ Remaining(Row) = {}
          /\ Write(IF Row.failed = {} THEN "succeeded" ELSE "failed", Row.completed, Row.failed)
    /\ thread' = Idle
    /\ UNCHANGED <<outside, saved, question, replied, issued>>

\* The current service is acquired, found in Drive, or fails, perhaps with its
\* receipt saved all the same.
Acquire(s, there) ==
    /\ thread.pc = "loop" /\ Row.state = "running"
    /\ Remaining(Row) # {} /\ IsNext(s, Row)
    /\ saved' = IF there THEN saved \cup {s} ELSE saved
    /\ \/ there /\ Write("running", Row.completed \cup {s}, Row.failed)
       \/ (s \in saved => there) /\ Write("running", Row.completed, Row.failed \cup {s})
    /\ UNCHANGED <<outside, thread, question, replied, issued>>

\* add_challenge, of the job the thread is at.
AddChallenge(kind) ==
    /\ issued' = issued + 1
    /\ question' = [question EXCEPT ![thread.job] = [id |-> issued + 1, kind |-> kind]]

\* A challenge: issued whatever became of the job meanwhile.
Ask(kind) ==
    /\ thread.pc = "loop" /\ issued < MaxChallenges
    /\ Row.state \in {"running", "cancelled"} /\ Remaining(Row) # {}
    /\ AddChallenge(kind)
    /\ replied' = FALSE
    /\ CompareAndSet(thread.job, Row.version, "waiting", Row.completed, Row.failed, Row.current)
    /\ Hold("waiting")
    /\ UNCHANGED <<outside, saved>>

\* The answer is taken, and the acquisition goes on.
Resume ==
    /\ thread.pc = "waiting" /\ Row.state = "waiting" /\ replied
    /\ Write("running", Row.completed, Row.failed)
    /\ Hold("loop")
    /\ replied' = FALSE
    /\ UNCHANGED <<outside, saved, question, issued>>

\* It expired, or the job was cancelled.
StopWaiting ==
    /\ thread.pc = "waiting"
    /\ IF Row.state = "waiting"
       THEN Write("intervention", Row.completed, Row.failed)
       ELSE UNCHANGED jobs
    /\ thread' = Idle
    /\ replied' = FALSE
    /\ UNCHANGED <<outside, saved, question, issued>>

-------------------------------------------------------------------------------
(* The owner's other tabs.                                                 *)

\* Another tab presses, or a request whose page gave it up is handled.
OtherCreates(key, j) ==
    /\ Create(key, j)
    /\ UNCHANGED <<page, saved, crossed, thread, question, replied, issued>>

OtherCancels(j) ==
    /\ jobs[j].state \in Active
    /\ Cancel(j)
    /\ UNCHANGED <<outside, thread, saved, question, issued>>

\* A manual upload (ReceiptSaves), refused while a job of the month is active.
ManualSave(s) ==
    /\ Working = {} /\ s \notin saved
    /\ saved' = saved \cup {s}
    /\ UNCHANGED <<worker, page, crossed>>

Keys == [ids: SUBSET Services \ {{}}, previous: Jobs \cup {NoJob}]
MadeJobs == {j \in Jobs : jobs[j].state # "absent"}

Script ==
    \/ ListDrive \/ RecoverRequested \/ RecoverNothing \/ FindActive \/ Refresh
    \/ Start \/ SendTap \/ SendCancel \/ Show \/ GiveUpPosting
    \/ \E j \in Jobs : Created(j)
    \/ SendReply("code", "code") \/ SendReply("done", "screen")

Owner ==
    \/ PressStart \/ PressCancel \/ RunAgain
    \/ \E does \in {"code", "tap", "done"} : PressReply(does)
    \/ \E j \in MadeJobs \cup {NoJob} : Reload(j)

Thread ==
    \/ JobEnds \/ Resume \/ StopWaiting
    \/ \E j \in Jobs : Claim(j)
    \/ \E s \in Services, there \in BOOLEAN : Acquire(s, there)
    \/ \E kind \in {"code", "screen"} : Ask(kind)

World ==
    \/ DriveDown \/ RecoverFails \/ Tick
    \/ \E key \in Keys, j \in Jobs : key.previous \in MadeJobs \cup {NoJob} /\ OtherCreates(key, j)
    \/ \E j \in Jobs : OtherCancels(j)
    \/ \E s \in Services : ManualSave(s)

Next == Script \/ Owner \/ Thread \/ World

\* The page's script goes on, the open page runs again, and its owner presses
\* the button as long as it is there.
Attended ==
    /\ WF_vars(Script) /\ WF_vars(Tick) /\ WF_vars(RunAgain)
    /\ SF_vars(PressStart)

Spec == Init /\ [][Next]_vars /\ Attended

-------------------------------------------------------------------------------
(* What the owner may rely on.                                             *)

\* The variables have the values the code gives them.
TypeOK ==
    /\ jobs \in [Jobs -> JobRows]
    /\ previous \in [Jobs -> Jobs \cup {NoJob}]
    /\ page.pc \in {"script", "stopped", "rest", "recover", "find", "act", "posting"}
    /\ page.url \in Jobs \cup {NoJob} /\ page.view.job \in Jobs \cup {NoJob}
    /\ page.start \subseteq page.missing /\ page.missing \subseteq Services
    /\ thread.pc \in {"idle", "loop", "waiting"}
    /\ saved \subseteq Services
    /\ question \in [Jobs -> Questions]

\* A code, a tap or a "done" goes to the challenge the owner was looking at.
AnswersMatch == ~crossed

\* A page that shows a job as ended does not list as missing what it saved.
EndIsShown ==
    At("rest") /\ page.view.state \in Terminal
        /\ jobs[page.view.job].version = page.view.version
    => jobs[page.view.job].completed \cap page.missing = {}

\* From some time on the worker and Drive answer every call of the tab.
Calm ==
    <>[][~DriveDown /\ ~RecoverFails /\ ~GiveUpPosting
         /\ \A j \in Jobs \cup {NoJob} : ~Reload(j)]_vars

\* An owner who presses on gets a job: receipts stay missing with no active
\* job only once there is no room for another, and never because each press is
\* answered with a job that ended.
Acquirable == Services \ (saved \cup MailServices)
PressPays == Calm => []<>~(Working = {} /\ Acquirable # {} /\ Room)

\* A month whose jobs stay active has one of them on the page.
JobIsShown == Calm => (<>[](Working # {}) => []<>(page.view.state \in Active))
===============================================================================
