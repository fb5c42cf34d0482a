--------------------------- MODULE RemoteMonthProofs ---------------------------
(***************************************************************************)
(* What the owner of a month in worker mode may rely on, for any number of *)
(* jobs, services and challenges.                                          *)
(*                                                                         *)
(* The page lives on copies: a row as some call told it, a list of missing *)
(* receipts as Drive had it when the whole script ran last, and the pairs  *)
(* of job and version for which that list was read again.  The invariant   *)
(* says what a copy is worth: of a row that has the version the page saw,  *)
(* the state is the one it saw, and a pair that is remembered has a list   *)
(* read since.                                                             *)
(***************************************************************************)
EXTENDS RemoteMonth, TLAPS

Views == [job: Jobs \cup {NoJob}, state: JobStates \cup {"none", "unreachable"},
          version: Nat, question: Questions]
Clicks == [does: {"none", "start", "cancel", "code", "tap", "done"}, of: Challenges \cup {0}]
Pages == [pc: {"script", "stopped", "rest", "recover", "find", "act", "posting"},
          url: Jobs \cup {NoJob}, view: Views, missing: SUBSET Services,
          start: SUBSET Services, refreshed: SUBSET (Jobs \X Nat), click: Clicks]
Threads == [pc: {"idle", "loop", "waiting"}, job: Jobs \cup {NoJob}]

RowsOK == jobs \in [Jobs -> JobRows]

\* The types of everything but the page and the table.
AroundOK ==
    /\ previous \in [Jobs -> Jobs \cup {NoJob}]
    /\ thread \in Threads
    /\ thread.pc # "idle" => thread.job \in Jobs
    /\ saved \in SUBSET Services
    /\ question \in [Jobs -> Questions]
    /\ issued \in Nat

PageOK == page \in Pages /\ page.start \subseteq page.missing

\* What a job has completed is in Drive.
CompletedIsSaved == \A j \in Jobs : jobs[j].completed \subseteq saved

\* What was seen of a row that ended holds of it as long as it has that version.
IsAsSeen(row, version, states) ==
    /\ row.state # "absent"
    /\ version <= row.version
    /\ version = row.version => row.state \in states

\* A list has none of the receipts that a row of this version completed.
IsFresh(row, version, missing) == version = row.version => row.completed \cap missing = {}

ViewIsPast ==
    /\ page.view.state \in JobStates => page.view.job \in Jobs
    /\ page.view.state \in Terminal =>
         IsAsSeen(jobs[page.view.job], page.view.version, {page.view.state})
    /\ page.view.question.kind # "none" => page.view.state = "waiting"

\* The list was read again for the end of every job that is remembered so.
RefreshedIsFresh ==
    \A r \in page.refreshed :
        /\ IsAsSeen(jobs[r[1]], r[2], Terminal)
        /\ IsFresh(jobs[r[1]], r[2], page.missing)

\* EndIsShown, and as long as the page waits for its next job.
EndIsFresh ==
    page.pc \in {"rest", "posting"} /\ page.view.state \in Terminal
    => IsFresh(jobs[page.view.job], page.view.version, page.missing)

IInv ==
    /\ RowsOK
    /\ AroundOK
    /\ PageOK
    /\ CompletedIsSaved
    /\ ViewIsPast
    /\ RefreshedIsFresh
    /\ EndIsFresh
    /\ AnswersMatch

-------------------------------------------------------------------------------
(* Rows and what was seen of them.                                         *)

LEMMA EndsAreStates == Terminal \subseteq JobStates
BY DEF Terminal, JobStates

\* What one transaction makes of a row: nothing, a new one, or a newer one.
Moves(row, new) ==
    \/ new = row
    \/ row.state = "absent"
    \/ new.state # "absent" /\ new.version = row.version + 1

LEMMA SeenStays ==
    ASSUME NEW row \in JobRows, NEW new \in JobRows, Moves(row, new),
           NEW version \in Nat, NEW states, IsAsSeen(row, version, states)
    PROVE  /\ IsAsSeen(new, version, states)
           /\ \A missing : IsFresh(row, version, missing) => IsFresh(new, version, missing)
<1>1. row.version \in Nat /\ new.version \in Nat
  BY DEF JobRows
<1>2. CASE new = row
  BY <1>2
<1>3. CASE new.state # "absent" /\ new.version = row.version + 1
  BY <1>1, <1>3 DEF IsAsSeen, IsFresh
<1>4. QED  BY <1>2, <1>3 DEF Moves, IsAsSeen

\* The table moves: rows stay rows, each moves, and what they complete is saved.
JobsMove ==
    /\ RowsOK'
    /\ \A j \in Jobs : Moves(jobs[j], jobs'[j])
    /\ CompletedIsSaved'

\* What a step may do to the page, if the invariant is to hold after it: the view
\* is kept, dropped or told by the table, the list is kept or none of it is saved,
\* an end is remembered only with the list dropped, and at rest the page shows
\* what it had, an end only beside a list that is right for it.
PageMoves ==
    /\ PageOK'
    /\ \/ page'.view = page.view
       \/ page'.view.state \notin JobStates /\ page'.view.question.kind = "none"
       \/ \E j \in Jobs : page'.view = PublicJob(j) /\ jobs' = jobs
    /\ page'.missing = page.missing \/ page'.missing \cap saved' = {}
    /\ \/ page'.refreshed \subseteq page.refreshed
       \/ /\ page.view.state \in Terminal /\ page'.missing = {}
          /\ page'.refreshed = page.refreshed \cup {<<page.view.job, page.view.version>>}
    /\ page'.pc \in {"rest", "posting"} =>
         /\ page'.missing = page.missing
         /\ page'.view.state \in Terminal =>
              /\ page'.view = page.view
              /\ IsFresh(jobs[page.view.job], page.view.version, page.missing)

LEMMA StepHolds ==
    ASSUME IInv, JobsMove, PageMoves, AroundOK', AnswersMatch'
    PROVE  IInv'
<1>1. \A j \in Jobs : jobs[j] \in JobRows /\ jobs'[j] \in JobRows
  BY DEF IInv, JobsMove, RowsOK
<1>2. /\ page \in Pages /\ page' \in Pages
      /\ page.view.version \in Nat /\ page'.view.version \in Nat
      /\ page.refreshed \in SUBSET (Jobs \X Nat) /\ page'.refreshed \in SUBSET (Jobs \X Nat)
  BY DEF IInv, PageMoves, PageOK, Pages, Views
<1>3. ASSUME page.view.state \in Terminal
      PROVE  /\ page.view.job \in Jobs
             /\ IsAsSeen(jobs'[page.view.job], page.view.version, {page.view.state})
             /\ \A missing : IsFresh(jobs[page.view.job], page.view.version, missing)
                             => IsFresh(jobs'[page.view.job], page.view.version, missing)
  <2>1. page.view.job \in Jobs
        /\ IsAsSeen(jobs[page.view.job], page.view.version, {page.view.state})
    BY <1>3, EndsAreStates DEF IInv, ViewIsPast
  <2>2. Moves(jobs[page.view.job], jobs'[page.view.job])
    BY <2>1 DEF JobsMove
  <2>3. QED  BY <1>1, <1>2, <2>1, <2>2, SeenStays
<1>4. ViewIsPast'
  <2>1. CASE page'.view = page.view
    BY <1>3, <2>1 DEF IInv, ViewIsPast
  <2>2. CASE page'.view.state \notin JobStates /\ page'.view.question.kind = "none"
    BY <2>2, EndsAreStates DEF ViewIsPast
  <2>3. ASSUME NEW j \in Jobs, page'.view = PublicJob(j), jobs' = jobs
        PROVE  ViewIsPast'
    <3>1. /\ page'.view.job = j /\ page'.view.state = jobs[j].state
          /\ page'.view.version = jobs[j].version
          /\ jobs[j].state # "waiting" => page'.view.question.kind = "none"
      BY <2>3 DEF PublicJob, NoQuestion
    <3>2. jobs[j].version \in Nat
      BY <1>1 DEF JobRows
    <3>3. QED  BY <2>3, <3>1, <3>2 DEF ViewIsPast, IsAsSeen, Terminal
  <2>4. QED  BY <2>1, <2>2, <2>3 DEF PageMoves
<1>5. RefreshedIsFresh'
  <2> SUFFICES ASSUME NEW r \in page'.refreshed
               PROVE  /\ IsAsSeen(jobs'[r[1]], r[2], Terminal)
                      /\ IsFresh(jobs'[r[1]], r[2], page'.missing)
    BY DEF RefreshedIsFresh
  <2>1. r[1] \in Jobs /\ r[2] \in Nat
    BY <1>2
  <2>2. page'.missing \cap saved' = {} => IsFresh(jobs'[r[1]], r[2], page'.missing)
    BY <2>1 DEF JobsMove, CompletedIsSaved, IsFresh
  <2>3. CASE r \in page.refreshed
    <3>1. /\ IsAsSeen(jobs[r[1]], r[2], Terminal)
          /\ IsFresh(jobs[r[1]], r[2], page.missing)
      BY <2>3 DEF IInv, RefreshedIsFresh
    <3>2. Moves(jobs[r[1]], jobs'[r[1]])
      BY <2>1 DEF JobsMove
    <3>3. /\ IsAsSeen(jobs'[r[1]], r[2], Terminal)
          /\ IsFresh(jobs'[r[1]], r[2], page.missing)
      BY <1>1, <2>1, <3>1, <3>2, SeenStays
    <3>4. QED  BY <2>2, <3>3 DEF PageMoves
  <2>4. CASE r \notin page.refreshed
    <3>1. /\ page.view.state \in Terminal /\ page'.missing = {}
          /\ r = <<page.view.job, page.view.version>>
      BY <2>4 DEF PageMoves
    <3>2. IsAsSeen(jobs'[r[1]], r[2], {page.view.state})
      BY <1>3, <3>1
    <3>3. IsAsSeen(jobs'[r[1]], r[2], Terminal)
      BY <3>1, <3>2 DEF IsAsSeen
    <3>4. QED  BY <3>1, <3>3 DEF IsFresh
  <2>5. QED  BY <2>3, <2>4
<1>6. EndIsFresh'
  BY <1>3 DEF PageMoves, EndIsFresh
<1>7. QED  BY <1>4, <1>5, <1>6 DEF IInv, JobsMove, PageMoves, AnswersMatch

-------------------------------------------------------------------------------
(* The steps by what they do to the table and to the page.                 *)

\* Nothing happens in the worker; Drive may gain receipts.
LEMMA TableStays ==
    ASSUME IInv, jobs' = jobs, saved \subseteq saved'
    PROVE  JobsMove
BY DEF IInv, JobsMove, RowsOK, Moves, CompletedIsSaved

LEMMA WorkerStays ==
    ASSUME IInv, UNCHANGED <<jobs, previous, thread, question, issued, saved>>
    PROVE  JobsMove /\ AroundOK'
BY TableStays DEF IInv, AroundOK

\* One row is written.
LEMMA Written ==
    ASSUME IInv, NEW j \in Jobs, NEW state \in JobStates \ {"absent"},
           NEW completed \in SUBSET Services, NEW failed \in SUBSET Services,
           NEW current \in Services \cup {NoService}, NEW version,
           CompareAndSet(j, version, state, completed, failed, current),
           completed \subseteq saved', saved \subseteq saved'
    PROVE  JobsMove
<1> DEFINE new == Rewrite(jobs[j], state, completed, failed, current)
<1>1. jobs \in [Jobs -> JobRows] /\ jobs[j] \in JobRows
  BY DEF IInv, RowsOK
<1>2. jobs' = [jobs EXCEPT ![j] = new]
  BY DEF CompareAndSet
<1>3. /\ new.state = state /\ new.completed = completed
      /\ new.version = jobs[j].version + 1
  BY <1>1 DEF JobRows, Rewrite
<1>4. new \in JobRows
  <2>1. jobs[j].version + 1 \in Nat
    BY <1>1 DEF JobRows
  <2>2. QED  BY <1>1, <2>1 DEF JobRows, Rewrite
<1> HIDE DEF new
<1>5. jobs'[j] = new /\ \A k \in Jobs : k # j => jobs'[k] = jobs[k]
  BY <1>1, <1>2
<1>6. RowsOK'
  BY <1>1, <1>2, <1>4 DEF RowsOK
<1>7. \A k \in Jobs : Moves(jobs[k], jobs'[k])
  BY <1>3, <1>5 DEF Moves
<1>8. CompletedIsSaved'
  BY <1>3, <1>5 DEF IInv, CompletedIsSaved
<1>9. QED  BY <1>6, <1>7, <1>8 DEF JobsMove

\* The thread writes its row; which service is next does not matter here.
LEMMA ThreadWrites ==
    ASSUME IInv, thread.job \in Jobs, NEW state \in JobStates \ {"absent"},
           NEW completed \in SUBSET Services, NEW failed \in SUBSET Services,
           Write(state, completed, failed),
           completed \subseteq saved', saved \subseteq saved'
    PROVE  JobsMove
<1>1. PICK s \in Services \cup {NoService} :
         CompareAndSet(thread.job, Row.version, state, completed, failed,
                       IF state = "running" THEN s ELSE NoService)
  BY DEF Write
<1>2. (IF state = "running" THEN s ELSE NoService) \in Services \cup {NoService}
  OBVIOUS
<1>3. QED  BY <1>1, <1>2, Written

LEMMA JobCreated ==
    ASSUME IInv, NEW j \in Jobs, NEW S \in SUBSET Services, CreateJob(j, S), saved' = saved
    PROVE  JobsMove
<1> DEFINE new == [NoRow EXCEPT !.state = "queued", !.services = S,
                                !.before = {k \in Jobs : jobs[k].state # "absent"}]
<1>1. jobs \in [Jobs -> JobRows] /\ jobs[j].state = "absent" /\ jobs' = [jobs EXCEPT ![j] = new]
  BY DEF IInv, RowsOK, CreateJob
<1>2. new \in JobRows
  BY DEF JobRows, NoRow, JobStates, NoService
<1>3. new.completed = {}
  BY DEF NoRow
<1> HIDE DEF new
<1>4. jobs'[j] = new /\ \A k \in Jobs : k # j => jobs'[k] = jobs[k]
  BY <1>1
<1>5. RowsOK'
  BY <1>1, <1>2 DEF RowsOK
<1>6. \A k \in Jobs : Moves(jobs[k], jobs'[k])
  BY <1>1, <1>4 DEF Moves
<1>7. CompletedIsSaved'
  BY <1>3, <1>4 DEF IInv, CompletedIsSaved
<1>8. QED  BY <1>5, <1>6, <1>7 DEF JobsMove

\* create_job, by this page or another tab.
LEMMA Creates ==
    ASSUME IInv, NEW j \in Jobs, NEW key, key.ids \in SUBSET Services,
           key.previous \in Jobs \cup {NoJob}, Create(key, j),
           UNCHANGED <<thread, question, issued, saved>>
    PROVE  JobsMove /\ AroundOK'
<1>1. CASE UNCHANGED <<jobs, previous>>
  BY <1>1, WorkerStays
<1>2. CASE CreateJob(j, key.ids) /\ previous' = [previous EXCEPT ![j] = key.previous]
  <2>1. JobsMove
    BY <1>2, JobCreated
  <2>2. AroundOK'
    BY <1>2 DEF IInv, AroundOK
  <2>3. QED  BY <2>1, <2>2
<1>3. QED  BY <1>1, <1>2 DEF Create

\* cancel_job
LEMMA Cancels ==
    ASSUME IInv, NEW j \in Jobs, Cancel(j), UNCHANGED <<previous, thread, question, issued, saved>>
    PROVE  JobsMove /\ AroundOK'
<1>1. CASE jobs' = jobs
  BY <1>1, WorkerStays
<1>2. CASE CompareAndSet(j, jobs[j].version, "cancelled", jobs[j].completed, jobs[j].failed,
                         NoService)
  <2>1. /\ jobs[j].completed \in SUBSET Services /\ jobs[j].failed \in SUBSET Services
        /\ jobs[j].completed \subseteq saved
    BY DEF IInv, RowsOK, JobRows, CompletedIsSaved
  <2>2. "cancelled" \in JobStates \ {"absent"} /\ NoService \in Services \cup {NoService}
    BY DEF JobStates
  <2>3. JobsMove
    BY <1>2, <2>1, <2>2, Written
  <2>4. AroundOK'
    BY DEF IInv, AroundOK
  <2>5. QED  BY <2>3, <2>4
<1>3. QED  BY <1>1, <1>2 DEF Cancel

-------------------------------------------------------------------------------
\* What is dropped with a view.
LEMMA NoViews ==
    /\ NoView \in Views /\ NoView.state \notin JobStates /\ NoView.question.kind = "none"
    /\ Unreachable \in Views /\ Unreachable.state \notin JobStates
    /\ Unreachable.question.kind = "none"
    /\ NoClick \in Clicks /\ NoClick.of = 0
    /\ \A does \in {"none", "start", "cancel", "code", "tap", "done"}, of \in Challenges \cup {0} :
          [Press(does) EXCEPT !.of = of] \in Clicks /\ Press(does) \in Clicks
<1>1. NoQuestion \in Questions /\ NoQuestion.kind = "none"
  BY DEF Questions, NoQuestion
<1>2. /\ NoView \in Views /\ NoView.state \notin JobStates /\ NoView.question.kind = "none"
      /\ Unreachable \in Views /\ Unreachable.state \notin JobStates
      /\ Unreachable.question.kind = "none"
  BY <1>1 DEF NoView, Unreachable, Views, JobStates, NoJob
<1>3. NoClick \in Clicks /\ NoClick.of = 0
  BY DEF NoClick, Clicks
<1>4. ASSUME NEW does \in {"none", "start", "cancel", "code", "tap", "done"},
             NEW of \in Challenges \cup {0}
      PROVE  [Press(does) EXCEPT !.of = of] \in Clicks /\ Press(does) \in Clicks
  BY DEF Press, NoClick, Clicks
<1>5. QED  BY <1>2, <1>3, <1>4

\* The page begins again: it shows no job and no list.
LEMMA Reruns ==
    ASSUME NEW p \in Pages, Rerun(p)
    PROVE  /\ PageOK' /\ page'.pc = "script" /\ page'.view = NoView /\ page'.missing = {}
           /\ page'.refreshed = p.refreshed
<1>1. page' = [p EXCEPT !.pc = "script", !.view = NoView, !.missing = {}, !.start = {},
                        !.click = NoClick]
  BY DEF Rerun
<1>2. page' \in Pages
  BY <1>1, NoViews DEF Pages
<1>3. QED  BY <1>1, <1>2 DEF PageOK, Pages

LEMMA RerunMoves ==
    ASSUME IInv, NEW p \in Pages, p.refreshed \subseteq page.refreshed, Rerun(p)
    PROVE  PageMoves
BY Reruns, NoViews DEF PageMoves

\* The fragment ends and leaves on the page what it had.
LEMMA Rests ==
    ASSUME NEW p \in Pages, p.start \subseteq p.missing, FragmentEnds(p)
    PROVE  /\ PageOK' /\ page'.pc = "rest" /\ page'.view = p.view /\ page'.missing = p.missing
           /\ page'.refreshed = p.refreshed
<1> DEFINE click == IF Unsent(p) THEN p.click ELSE NoClick
<1>1. page' = [p EXCEPT !.pc = "rest", !.click = click]
  BY DEF FragmentEnds
<1>2. click \in Clicks
  BY NoViews DEF Pages
<1> HIDE DEF click
<1>3. page' \in Pages
  BY <1>1, <1>2 DEF Pages
<1>4. QED  BY <1>1, <1>3 DEF PageOK, Pages

LEMMA RestMoves ==
    ASSUME IInv, FragmentEnds(page),
           page.view.state \in Terminal
             => IsFresh(jobs[page.view.job], page.view.version, page.missing)
    PROVE  PageMoves
<1>1. page \in Pages /\ page.start \subseteq page.missing
  BY DEF IInv, PageOK
<1>2. QED  BY <1>1, Rests DEF PageMoves

\* Where the list need not be read again it is right.
LEMMA NotRefreshed ==
    ASSUME IInv, ~Refreshes, page.view.state \in Terminal
    PROVE  IsFresh(jobs[page.view.job], page.view.version, page.missing)
<1>1. CASE page.missing = {}
  BY <1>1 DEF IsFresh
<1>2. CASE <<page.view.job, page.view.version>> \in page.refreshed
  BY <1>2 DEF IInv, RefreshedIsFresh
<1>3. QED  BY <1>1, <1>2 DEF Refreshes

\* A challenge is shown only of a job that waits.
LEMMA ShownWaits ==
    ASSUME IInv, NEW kind \in {"code", "screen"}, Shows(kind)
    PROVE  page.view.state \notin Terminal /\ page.click.of = page.view.question.id
<1>1. page.view.question.kind = kind /\ page.click.of = page.view.question.id
  BY DEF Shows
<1>2. QED  BY <1>1 DEF IInv, ViewIsPast, Terminal

-------------------------------------------------------------------------------
(* The page's steps that leave the worker alone.                           *)

\* The parts of the page at hand.
LEMMA PageParts ==
    ASSUME IInv
    PROVE  /\ page \in Pages /\ page.start \subseteq page.missing
           /\ page.view \in Views /\ page.refreshed \in SUBSET (Jobs \X Nat)
           /\ page.view.question.id \in Challenges \cup {0}
           /\ saved \in SUBSET Services
<1>1. page \in Pages /\ page.start \subseteq page.missing /\ saved \in SUBSET Services
  BY DEF IInv, PageOK, AroundOK
<1>2. page.view \in Views /\ page.refreshed \in SUBSET (Jobs \X Nat)
  BY <1>1 DEF Pages
<1>3. page.view.question \in Questions
  BY <1>2 DEF Views
<1>4. page.view.question.id \in Challenges \cup {0}
  BY <1>3 DEF Questions, NoQuestion
<1>5. QED  BY <1>1, <1>2, <1>4

\* A step of the page alone.
LEMMA Alone ==
    ASSUME IInv, PageMoves, UNCHANGED <<worker, saved, crossed>>
    PROVE  IInv'
<1>1. AnswersMatch'
  BY DEF IInv, AnswersMatch
<1>2. QED  BY <1>1, WorkerStays, StepHolds DEF worker

\* The page goes on to another place.
LEMMA GoesOn ==
    ASSUME IInv, NEW pc \in {"stopped", "find", "act"}, page' = [page EXCEPT !.pc = pc]
    PROVE  PageMoves
<1>1. page \in Pages
  BY PageParts
<1>2. page' \in Pages
  BY <1>1 DEF Pages
<1>3. /\ page'.pc = pc /\ page'.view = page.view /\ page'.missing = page.missing
      /\ page'.start = page.start /\ page'.refreshed = page.refreshed
  BY <1>1 DEF Pages
<1>4. QED  BY <1>2, <1>3, PageParts DEF PageMoves, PageOK

LEMMA ListDriveHolds == ASSUME IInv, ListDrive PROVE IInv'
<1> DEFINE missing == {s \in Services : s \notin saved}
<1>1. PICK start \in Acquirables(missing) :
        page' = [page EXCEPT !.pc = "recover", !.missing = missing, !.start = start]
  BY DEF ListDrive
<1>2. /\ missing \in SUBSET Services /\ missing \cap saved = {}
      /\ start \subseteq missing
  BY DEF Acquirables
<1> HIDE DEF missing
<1>3. page \in Pages
  BY PageParts
<1>4. page' \in Pages
  BY <1>1, <1>2, <1>3 DEF Pages
<1>5. /\ page'.pc = "recover" /\ page'.view = page.view /\ page'.missing = missing
      /\ page'.start = start /\ page'.refreshed = page.refreshed
  BY <1>1, <1>3 DEF Pages
<1>6. UNCHANGED <<worker, saved, crossed>>
  BY DEF ListDrive
<1>7. PageMoves
  BY <1>2, <1>4, <1>5, <1>6 DEF PageMoves, PageOK
<1>8. QED  BY <1>6, <1>7, Alone

LEMMA DriveDownHolds == ASSUME IInv, DriveDown PROVE IInv'
BY GoesOn, Alone DEF DriveDown

LEMMA RecoverNothingHolds == ASSUME IInv, RecoverNothing PROVE IInv'
BY GoesOn, Alone DEF RecoverNothing

LEMMA RunAgainHolds == ASSUME IInv, RunAgain PROVE IInv'
<1>1. Rerun(page) /\ UNCHANGED <<worker, saved, crossed>>
  BY DEF RunAgain
<1>2. PageMoves
  BY <1>1, PageParts, RerunMoves
<1>3. QED  BY <1>1, <1>2, Alone

\* The view is dropped, or told by the table.
LEMMA LooksAgain ==
    ASSUME IInv, NEW pc \in {"recover", "find", "act"}, NEW view \in Views, NEW click \in Clicks,
           NEW url \in Jobs \cup {NoJob},
           page' = [page EXCEPT !.pc = pc, !.url = url, !.view = view, !.click = click],
           view = NoView \/ ((\E j \in Jobs : view = PublicJob(j)) /\ jobs' = jobs)
    PROVE  PageMoves
<1>1. page \in Pages
  BY PageParts
<1>2. page' \in Pages
  BY <1>1 DEF Pages
<1>3. /\ page'.pc = pc /\ page'.view = view /\ page'.missing = page.missing
      /\ page'.start = page.start /\ page'.refreshed = page.refreshed
  BY <1>1 DEF Pages
<1>4. QED  BY <1>2, <1>3, PageParts, NoViews DEF PageMoves, PageOK

\* A page with the same field is the same page.
LEMMA SameField ==
    ASSUME NEW p \in Pages
    PROVE  /\ \A pc, view : [p EXCEPT !.pc = pc, !.view = view]
                 = [p EXCEPT !.pc = pc, !.url = p.url, !.view = view, !.click = p.click]
           /\ \A pc, view, click : [p EXCEPT !.pc = pc, !.view = view, !.click = click]
                 = [p EXCEPT !.pc = pc, !.url = p.url, !.view = view, !.click = click]
           /\ \A pc, url, view : [p EXCEPT !.pc = pc, !.url = url, !.view = view]
                 = [p EXCEPT !.pc = pc, !.url = url, !.view = view, !.click = p.click]
           /\ p.url \in Jobs \cup {NoJob} /\ p.click \in Clicks
BY DEF Pages

LEMMA TickHolds == ASSUME IInv, Tick PROVE IInv'
<1>1. page' = [page EXCEPT !.pc = "recover", !.view = NoView]
      /\ UNCHANGED <<worker, saved, crossed>>
  BY DEF Tick
<1>2. page' = [page EXCEPT !.pc = "recover", !.url = page.url, !.view = NoView, !.click = page.click]
  BY <1>1, PageParts, SameField
<1>3. /\ page.url \in Jobs \cup {NoJob} /\ page.click \in Clicks /\ NoView \in Views
      /\ "recover" \in {"recover", "find", "act"}
  BY PageParts, SameField, NoViews
<1>4. PageMoves
  BY <1>2, <1>3, LooksAgain
<1>5. QED  BY <1>1, <1>4, Alone

\* The owner touches a widget.
LEMMA TouchHolds == ASSUME IInv, NEW click \in Clicks, Touch(click) PROVE IInv'
<1>1. page' = [page EXCEPT !.pc = "recover", !.view = NoView, !.click = click]
      /\ UNCHANGED <<worker, saved, crossed>>
  BY DEF Touch
<1>2. page' = [page EXCEPT !.pc = "recover", !.url = page.url, !.view = NoView, !.click = click]
  BY <1>1, PageParts, SameField
<1>3. /\ page.url \in Jobs \cup {NoJob} /\ NoView \in Views
      /\ "recover" \in {"recover", "find", "act"}
  BY PageParts, SameField, NoViews
<1>4. PageMoves
  BY <1>2, <1>3, LooksAgain
<1>5. QED  BY <1>1, <1>4, Alone

LEMMA PressHolds ==
    ASSUME IInv,
           \/ PressStart \/ PressCancel
           \/ \E does \in {"code", "tap", "done"} : PressReply(does)
    PROVE  IInv'
<1>1. CASE PressStart \/ PressCancel
  BY <1>1, NoViews, TouchHolds DEF PressStart, PressCancel
<1>2. ASSUME NEW does \in {"code", "tap", "done"}, PressReply(does) PROVE IInv'
  BY <1>2, NoViews, PageParts, TouchHolds DEF PressReply
<1>3. QED  BY <1>1, <1>2

\* What the table tells of a job.
LEMMA ToldIsView == ASSUME IInv, NEW j \in Jobs PROVE PublicJob(j) \in Views
<1>1. jobs[j] \in JobRows /\ question[j] \in Questions
  BY DEF IInv, RowsOK, AroundOK
<1>2. jobs[j].state \in JobStates /\ jobs[j].version \in Nat
  BY <1>1 DEF JobRows
<1>3. QED  BY <1>1, <1>2 DEF PublicJob, Views, Questions

LEMMA RecoverRequestedHolds == ASSUME IInv, RecoverRequested PROVE IInv'
<1> DEFINE pc == IF jobs[page.url].state \in Active THEN "act" ELSE "find"
<1>1. /\ page' = [page EXCEPT !.pc = pc, !.view = PublicJob(page.url)]
      /\ UNCHANGED <<worker, saved, crossed>> /\ page.url # NoJob
  BY DEF RecoverRequested
<1>2. pc \in {"recover", "find", "act"}
  OBVIOUS
<1> HIDE DEF pc
<1>3. page.url \in Jobs
  BY <1>1, PageParts, SameField
<1>4. page' = [page EXCEPT !.pc = pc, !.url = page.url, !.view = PublicJob(page.url),
                           !.click = page.click]
  BY <1>1, PageParts, SameField
<1>5. PageMoves
  <2>1. /\ page.url \in Jobs \cup {NoJob} /\ page.click \in Clicks
        /\ PublicJob(page.url) \in Views
    BY <1>3, PageParts, SameField, ToldIsView
  <2>2. (\E j \in Jobs : PublicJob(page.url) = PublicJob(j)) /\ jobs' = jobs
    BY <1>1, <1>3 DEF worker
  <2>3. QED  BY <1>2, <1>4, <2>1, <2>2, LooksAgain
<1>6. QED  BY <1>1, <1>5, Alone

LEMMA FindActiveHolds == ASSUME IInv, FindActive PROVE IInv'
<1>1. UNCHANGED <<worker, saved, crossed>>
  BY DEF FindActive
<1>2. CASE page' = [page EXCEPT !.pc = "act"]
  BY <1>1, <1>2, GoesOn, Alone
<1>3. ASSUME NEW j \in Working,
             page' = [page EXCEPT !.pc = "act", !.url = j, !.view = PublicJob(j)]
      PROVE  IInv'
  <2>1. j \in Jobs /\ PublicJob(j) \in Views
    BY ToldIsView DEF Working
  <2>2. page' = [page EXCEPT !.pc = "act", !.url = j, !.view = PublicJob(j), !.click = page.click]
    BY <1>3, PageParts, SameField
  <2>3. PageMoves
    BY <1>1, <2>1, <2>2, PageParts, SameField, LooksAgain DEF worker
  <2>4. QED  BY <1>1, <2>3, Alone
<1>4. QED  BY <1>2, <1>3 DEF FindActive

LEMMA RecoverFailsHolds == ASSUME IInv, RecoverFails PROVE IInv'
<1> DEFINE p == [page EXCEPT !.view = Unreachable]
<1>1. FragmentEnds(p) /\ UNCHANGED <<worker, saved, crossed>>
  BY DEF RecoverFails
<1>2. /\ p \in Pages /\ p.start \subseteq p.missing /\ p.view = Unreachable
      /\ p.missing = page.missing /\ p.refreshed = page.refreshed
  BY PageParts, NoViews DEF Pages
<1> HIDE DEF p
<1>3. PageMoves
  BY <1>1, <1>2, Rests, NoViews, EndsAreStates DEF PageMoves
<1>4. QED  BY <1>1, <1>3, Alone

LEMMA RefreshHolds == ASSUME IInv, Refresh PROVE IInv'
<1> DEFINE p == [page EXCEPT !.refreshed = @ \cup {<<page.view.job, page.view.version>>}]
<1>1. Rerun(p) /\ page.view.state \in Terminal /\ UNCHANGED <<worker, saved, crossed>>
  BY DEF Refresh, Refreshes
<1>2. page.view.job \in Jobs /\ page.view.version \in Nat
  BY <1>1, PageParts, EndsAreStates DEF IInv, ViewIsPast, Views
<1>3. <<page.view.job, page.view.version>> \in Jobs \X Nat
  BY <1>2
<1>4. p \in Pages /\ p.refreshed = page.refreshed \cup {<<page.view.job, page.view.version>>}
  BY <1>3, PageParts DEF Pages
<1> HIDE DEF p
<1>5. PageMoves
  BY <1>1, <1>4, Reruns, NoViews DEF PageMoves
<1>6. QED  BY <1>1, <1>5, Alone

LEMMA StartHolds == ASSUME IInv, Start PROVE IInv'
<1>1. page' = [page EXCEPT !.pc = "posting"] /\ ~Refreshes /\ UNCHANGED <<worker, saved, crossed>>
  BY DEF Start
<1>2. page \in Pages
  BY PageParts
<1>3. page' \in Pages
  BY <1>1, <1>2 DEF Pages
<1>4. /\ page'.view = page.view /\ page'.missing = page.missing
      /\ page'.start = page.start /\ page'.refreshed = page.refreshed
  BY <1>1, <1>2 DEF Pages
<1>5. PageMoves
  BY <1>1, <1>3, <1>4, PageParts, NotRefreshed DEF PageMoves, PageOK
<1>6. QED  BY <1>1, <1>5, Alone

LEMMA ShowHolds == ASSUME IInv, Show PROVE IInv'
<1>1. FragmentEnds(page) /\ ~Refreshes /\ UNCHANGED <<worker, saved, crossed>>
  BY DEF Show
<1>2. PageMoves
  BY <1>1, NotRefreshed, RestMoves
<1>3. QED  BY <1>1, <1>2, Alone

LEMMA GiveUpPostingHolds == ASSUME IInv, GiveUpPosting PROVE IInv'
<1>1. FragmentEnds(page) /\ page.pc = "posting" /\ UNCHANGED <<worker, saved, crossed>>
  BY DEF GiveUpPosting, At
<1>2. PageMoves
  BY <1>1, RestMoves DEF IInv, EndIsFresh
<1>3. QED  BY <1>1, <1>2, Alone

LEMMA ReloadHolds == ASSUME IInv, NEW url \in Jobs \cup {NoJob}, Reload(url) PROVE IInv'
<1> DEFINE p == [page EXCEPT !.url = url, !.refreshed = {}]
<1>1. Rerun(p) /\ UNCHANGED <<worker, saved, crossed>>
  BY DEF Reload
<1>2. p \in Pages /\ p.refreshed = {}
  BY PageParts DEF Pages
<1> HIDE DEF p
<1>3. PageMoves
  BY <1>1, <1>2, RerunMoves
<1>4. QED  BY <1>1, <1>3, Alone

-------------------------------------------------------------------------------
(* The page's calls that have an effect.                                   *)

\* An answer that the worker accepts is for the challenge that was touched.
LEMMA SendReplyHolds ==
    ASSUME IInv, NEW does, NEW kind \in {"code", "screen"}, SendReply(does, kind) PROVE IInv'
<1>1. /\ Shows(kind) /\ (Rerun(page) \/ FragmentEnds(page))
      /\ UNCHANGED <<jobs, previous, thread, question, issued, saved>>
      /\ crossed' = crossed
         \/ /\ Reply(page.view.job, page.view.question.id, kind)
            /\ crossed' = (crossed \/ page.click.of # question[page.view.job].id)
  BY DEF SendReply
<1>2. page.view.state \notin Terminal /\ page.click.of = page.view.question.id
  BY <1>1, ShownWaits
<1>3. Reply(page.view.job, page.view.question.id, kind)
        => question[page.view.job].id = page.view.question.id
  BY DEF Reply, Asked
<1>4. AnswersMatch'
  BY <1>1, <1>2, <1>3, Zenon DEF IInv, AnswersMatch
<1>5. PageMoves
  BY <1>1, <1>2, PageParts, RerunMoves, RestMoves
<1>6. QED  BY <1>1, <1>4, <1>5, WorkerStays, StepHolds

LEMMA SendTapHolds == ASSUME IInv, SendTap PROVE IInv'
<1>1. /\ Shows("screen") /\ (Rerun(page) \/ FragmentEnds(page))
      /\ UNCHANGED <<worker, saved>>
      /\ crossed' = crossed
         \/ /\ Tapped(page.view.job, page.view.question.id)
            /\ crossed' = (crossed \/ page.click.of # question[page.view.job].id)
  BY DEF SendTap
<1>2. page.view.state \notin Terminal /\ page.click.of = page.view.question.id
  BY <1>1, ShownWaits
<1>3. Tapped(page.view.job, page.view.question.id)
        => question[page.view.job].id = page.view.question.id
  BY DEF Tapped, Asked
<1>4. AnswersMatch'
  BY <1>1, <1>2, <1>3, Zenon DEF IInv, AnswersMatch
<1>5. PageMoves
  BY <1>1, <1>2, PageParts, RerunMoves, RestMoves
<1>6. QED  BY <1>1, <1>4, <1>5, WorkerStays, StepHolds DEF worker

LEMMA SendCancelHolds == ASSUME IInv, SendCancel PROVE IInv'
<1>1. /\ page.view.state \in Active
      /\ UNCHANGED <<previous, thread, question, issued, saved, crossed>>
      /\ \/ Cancel(page.view.job) /\ (Rerun(page) \/ FragmentEnds(page))
         \/ FragmentEnds(page) /\ jobs' = jobs
  BY DEF SendCancel
<1>2. page.view.state \notin Terminal
  BY <1>1 DEF Active, Terminal
<1>3. PageMoves
  BY <1>1, <1>2, PageParts, RerunMoves, RestMoves
<1>4. AnswersMatch'
  BY <1>1 DEF IInv, AnswersMatch
<1>5. CASE Cancel(page.view.job)
  <2>1. page.view.job \in Jobs
    BY <1>1 DEF IInv, ViewIsPast, Active, JobStates
  <2>2. QED  BY <1>1, <1>3, <1>4, <1>5, <2>1, Cancels, StepHolds
<1>6. CASE jobs' = jobs
  BY <1>1, <1>3, <1>4, <1>6, WorkerStays, StepHolds
<1>7. QED  BY <1>1, <1>5, <1>6

\* The job that is created is the one the page turns to.
LEMMA CreatedHolds == ASSUME IInv, NEW j \in Jobs, Created(j) PROVE IInv'
<1> DEFINE p == [page EXCEPT !.url = j]
<1>1. Create(Key, j) /\ Rerun(p) /\ UNCHANGED <<thread, question, replied, issued, saved, crossed>>
  BY DEF Created
<1>2. p \in Pages /\ p.refreshed = page.refreshed
  BY PageParts DEF Pages
<1>3. Key.ids \in SUBSET Services /\ Key.previous \in Jobs \cup {NoJob}
  BY PageParts DEF Key, Pages, Views
<1> HIDE DEF p
<1>4. PageMoves
  BY <1>1, <1>2, RerunMoves
<1>5. JobsMove /\ AroundOK'
  BY <1>1, <1>3, Creates
<1>6. AnswersMatch'
  BY <1>1 DEF IInv, AnswersMatch
<1>7. QED  BY <1>4, <1>5, <1>6, StepHolds

-------------------------------------------------------------------------------
(* The steps of the worker's thread and of the other tabs.                 *)

LEMMA Elsewhere ==
    ASSUME IInv, JobsMove, AroundOK', page' = page, crossed' = crossed
    PROVE  IInv'
<1>1. PageMoves
  BY DEF IInv, PageOK, EndIsFresh, PageMoves
<1>2. AnswersMatch'
  BY DEF IInv, AnswersMatch
<1>3. QED  BY <1>1, <1>2, StepHolds

\* The thread's row, and its place in the next state.
LEMMA ThreadParts ==
    ASSUME IInv
    PROVE  /\ thread \in Threads
           /\ thread.pc # "idle" => thread.job \in Jobs
           /\ thread.job \in Jobs =>
                /\ Row \in JobRows /\ Row.completed \in SUBSET Services
                /\ Row.failed \in SUBSET Services /\ Row.completed \subseteq saved
                /\ Row.current \in Services \cup {NoService}
           /\ \A pc \in {"loop", "waiting"} :
                Hold(pc) => /\ thread' \in Threads /\ thread'.job = thread.job
           /\ Idle \in Threads /\ Idle.pc = "idle"
<1>1. thread \in Threads /\ (thread.pc # "idle" => thread.job \in Jobs)
  BY DEF IInv, AroundOK
<1>2. ASSUME thread.job \in Jobs
      PROVE  /\ Row \in JobRows /\ Row.completed \in SUBSET Services
             /\ Row.failed \in SUBSET Services /\ Row.completed \subseteq saved
             /\ Row.current \in Services \cup {NoService}
  BY <1>2 DEF IInv, RowsOK, Row, JobRows, CompletedIsSaved
<1>3. \A pc \in {"loop", "waiting"} :
        Hold(pc) => /\ thread' \in Threads /\ thread'.job = thread.job
  BY <1>1 DEF Hold, Threads
<1>4. QED  BY <1>1, <1>2, <1>3 DEF Idle, Threads

LEMMA ClaimHolds == ASSUME IInv, NEW j \in Jobs, Claim(j) PROVE IInv'
<1>1. /\ ClaimNext(j) /\ thread' = [pc |-> "loop", job |-> j]
      /\ UNCHANGED <<previous, page, crossed, saved, question, replied, issued>>
  BY DEF Claim, outside
<1>2. PICK s \in Services \cup {NoService} :
        CompareAndSet(j, jobs[j].version, "running", jobs[j].completed, jobs[j].failed, s)
  BY <1>1 DEF ClaimNext, CompareAndSet, Fresh
<1>3. /\ jobs[j].completed \in SUBSET Services /\ jobs[j].failed \in SUBSET Services
      /\ jobs[j].completed \subseteq saved /\ "running" \in JobStates \ {"absent"}
  BY DEF IInv, RowsOK, JobRows, CompletedIsSaved, JobStates
<1>4. JobsMove
  BY <1>1, <1>2, <1>3, Written
<1>5. AroundOK'
  BY <1>1 DEF IInv, AroundOK, Threads
<1>6. QED  BY <1>1, <1>4, <1>5, Elsewhere

LEMMA JobEndsHolds == ASSUME IInv, JobEnds PROVE IInv'
<1> DEFINE state == IF Row.failed = {} THEN "succeeded" ELSE "failed"
<1>1. /\ thread.pc = "loop" /\ thread' = Idle
      /\ UNCHANGED <<previous, page, crossed, saved, question, replied, issued>>
      /\ jobs' = jobs \/ Write(state, Row.completed, Row.failed)
  BY DEF JobEnds, outside
<1>2. state \in JobStates \ {"absent"}
  BY DEF JobStates
<1> HIDE DEF state
<1>3. thread.job \in Jobs
  BY <1>1, ThreadParts
<1>4. JobsMove
  BY <1>1, <1>2, <1>3, ThreadParts, ThreadWrites, TableStays
<1>5. AroundOK'
  BY <1>1, ThreadParts DEF IInv, AroundOK
<1>6. QED  BY <1>1, <1>4, <1>5, Elsewhere

\* What a service completes is in Drive when the row is written.
LEMMA AcquireHolds ==
    ASSUME IInv, NEW s \in Services, NEW there \in BOOLEAN, Acquire(s, there) PROVE IInv'
<1>1. /\ thread.pc = "loop" /\ saved' = IF there THEN saved \cup {s} ELSE saved
      /\ UNCHANGED <<previous, page, crossed, thread, question, replied, issued>>
      /\ \/ there /\ Write("running", Row.completed \cup {s}, Row.failed)
         \/ Write("running", Row.completed, Row.failed \cup {s})
  BY DEF Acquire, outside
<1>2. thread.job \in Jobs /\ "running" \in JobStates \ {"absent"}
  BY <1>1, ThreadParts DEF JobStates
<1>3. saved \subseteq saved' /\ saved' \in SUBSET Services /\ (there => s \in saved')
  BY <1>1, PageParts
<1>4. /\ Row.completed \in SUBSET Services /\ Row.completed \cup {s} \in SUBSET Services
      /\ Row.failed \in SUBSET Services /\ Row.failed \cup {s} \in SUBSET Services
      /\ Row.completed \subseteq saved' /\ (there => Row.completed \cup {s} \subseteq saved')
  BY <1>2, <1>3, ThreadParts
<1>5. JobsMove
  BY <1>1, <1>2, <1>3, <1>4, ThreadWrites
<1>6. AroundOK'
  BY <1>1, <1>3 DEF IInv, AroundOK
<1>7. QED  BY <1>1, <1>5, <1>6, Elsewhere

\* A challenge has a number of its own within the bound.
LEMMA AskHolds ==
    ASSUME IInv, MaxChallenges \in Nat, NEW kind \in {"code", "screen"}, Ask(kind) PROVE IInv'
<1>1. /\ thread.pc = "loop" /\ issued < MaxChallenges /\ Hold("waiting") /\ issued' = issued + 1
      /\ question' = [question EXCEPT ![thread.job] = [id |-> issued + 1, kind |-> kind]]
      /\ CompareAndSet(thread.job, Row.version, "waiting", Row.completed, Row.failed, Row.current)
      /\ UNCHANGED <<previous, page, crossed, saved>>
  BY DEF Ask, AddChallenge, outside
<1>2. thread.job \in Jobs /\ "waiting" \in JobStates \ {"absent"}
  BY <1>1, ThreadParts DEF JobStates
<1>3. issued \in Nat /\ question \in [Jobs -> Questions]
  BY DEF IInv, AroundOK
<1>4. issued' \in Nat /\ issued + 1 \in Challenges
  BY <1>1, <1>3 DEF Challenges
<1>5. question' \in [Jobs -> Questions]
  <2>1. [id |-> issued + 1, kind |-> kind] \in Questions
    BY <1>4 DEF Questions
  <2>2. QED  BY <1>1, <1>3, <2>1
<1>6. JobsMove
  BY <1>1, <1>2, ThreadParts, Written
<1>7. AroundOK'
  BY <1>1, <1>2, <1>4, <1>5, ThreadParts DEF IInv, AroundOK
<1>8. QED  BY <1>1, <1>6, <1>7, Elsewhere

LEMMA ResumeHolds == ASSUME IInv, Resume PROVE IInv'
<1>1. /\ thread.pc = "waiting" /\ Hold("loop") /\ Write("running", Row.completed, Row.failed)
      /\ UNCHANGED <<previous, page, crossed, saved, question, issued>>
  BY DEF Resume, outside
<1>2. thread.job \in Jobs /\ "running" \in JobStates \ {"absent"}
  BY <1>1, ThreadParts DEF JobStates
<1>3. JobsMove
  BY <1>1, <1>2, ThreadParts, ThreadWrites
<1>4. AroundOK'
  BY <1>1, <1>2, ThreadParts DEF IInv, AroundOK
<1>5. QED  BY <1>1, <1>3, <1>4, Elsewhere

LEMMA StopWaitingHolds == ASSUME IInv, StopWaiting PROVE IInv'
<1>1. /\ thread.pc = "waiting" /\ thread' = Idle
      /\ jobs' = jobs \/ Write("intervention", Row.completed, Row.failed)
      /\ UNCHANGED <<previous, page, crossed, saved, question, issued>>
  BY DEF StopWaiting, outside
<1>2. thread.job \in Jobs /\ "intervention" \in JobStates \ {"absent"}
  BY <1>1, ThreadParts DEF JobStates
<1>3. JobsMove
  BY <1>1, <1>2, ThreadParts, ThreadWrites, TableStays
<1>4. AroundOK'
  BY <1>1, ThreadParts DEF IInv, AroundOK
<1>5. QED  BY <1>1, <1>3, <1>4, Elsewhere

LEMMA OtherCreatesHolds ==
    ASSUME IInv, NEW key \in Keys, NEW j \in Jobs, OtherCreates(key, j) PROVE IInv'
<1>1. key.ids \in SUBSET Services /\ key.previous \in Jobs \cup {NoJob}
  BY DEF Keys
<1>2. QED  BY <1>1, Creates, Elsewhere DEF OtherCreates

LEMMA OtherCancelsHolds == ASSUME IInv, NEW j \in Jobs, OtherCancels(j) PROVE IInv'
BY Cancels, Elsewhere DEF OtherCancels, outside

LEMMA ManualSaveHolds == ASSUME IInv, NEW s \in Services, ManualSave(s) PROVE IInv'
<1>1. saved' = saved \cup {s} /\ UNCHANGED <<worker, page, crossed>>
  BY DEF ManualSave
<1>2. JobsMove
  BY <1>1, TableStays DEF worker
<1>3. AroundOK'
  BY <1>1, PageParts DEF IInv, AroundOK, worker
<1>4. QED  BY <1>1, <1>2, <1>3, Elsewhere

-------------------------------------------------------------------------------
(* The theorems.                                                           *)

LEMMA InitHolds == Init => IInv
<1> SUFFICES ASSUME Init PROVE IInv
  OBVIOUS
<1>1. /\ jobs = [j \in Jobs |-> NoRow] /\ previous = [j \in Jobs |-> NoJob]
      /\ page = [pc |-> "script", url |-> NoJob, view |-> NoView, missing |-> {}, start |-> {},
                 refreshed |-> {}, click |-> NoClick]
      /\ thread = Idle /\ saved = {} /\ question = [j \in Jobs |-> NoQuestion]
      /\ issued = 0 /\ crossed = FALSE
  BY DEF Init, InitJobs
<1>2. NoRow \in JobRows /\ NoRow.completed = {}
  BY DEF NoRow, JobRows, JobStates, NoService
<1>3. RowsOK /\ CompletedIsSaved
  BY <1>1, <1>2 DEF RowsOK, CompletedIsSaved
<1>4. AroundOK
  BY <1>1 DEF AroundOK, Idle, Threads, Questions
<1>5. PageOK
  BY <1>1, NoViews DEF PageOK, Pages
<1>6. ViewIsPast /\ RefreshedIsFresh /\ EndIsFresh /\ AnswersMatch
  BY <1>1, NoViews, EndsAreStates
     DEF ViewIsPast, RefreshedIsFresh, EndIsFresh, AnswersMatch
<1>7. QED  BY <1>3, <1>4, <1>5, <1>6 DEF IInv

LEMMA NextHolds == ASSUME IInv, MaxChallenges \in Nat, [Next]_vars PROVE IInv'
<1>1. CASE Script
  <2>1. \A j \in Jobs : Created(j) => IInv'
    BY CreatedHolds
  <2>2. SendReply("code", "code") \/ SendReply("done", "screen") => IInv'
    BY SendReplyHolds
  <2>3. QED
    BY <1>1, <2>1, <2>2, ListDriveHolds, RecoverRequestedHolds, RecoverNothingHolds,
       FindActiveHolds, RefreshHolds, StartHolds, SendTapHolds, SendCancelHolds, ShowHolds,
       GiveUpPostingHolds DEF Script
<1>2. CASE Owner
  <2>1. \A j \in MadeJobs \cup {NoJob} : Reload(j) => IInv'
    BY ReloadHolds DEF MadeJobs
  <2>2. QED  BY <1>2, <2>1, PressHolds, RunAgainHolds DEF Owner
<1>3. CASE Thread
  <2>1. /\ \A j \in Jobs : Claim(j) => IInv'
        /\ \A s \in Services, there \in BOOLEAN : Acquire(s, there) => IInv'
        /\ \A kind \in {"code", "screen"} : Ask(kind) => IInv'
    BY ClaimHolds, AcquireHolds, AskHolds
  <2>2. QED  BY <1>3, <2>1, JobEndsHolds, ResumeHolds, StopWaitingHolds DEF Thread
<1>4. CASE World
  <2>1. /\ \A key \in Keys, j \in Jobs : OtherCreates(key, j) => IInv'
        /\ \A j \in Jobs : OtherCancels(j) => IInv'
        /\ \A s \in Services : ManualSave(s) => IInv'
    BY OtherCreatesHolds, OtherCancelsHolds, ManualSaveHolds
  <2>2. QED  BY <1>4, <2>1, DriveDownHolds, RecoverFailsHolds, TickHolds DEF World
<1>5. CASE UNCHANGED vars
  BY <1>5, WorkerStays, Elsewhere DEF vars, worker
<1>6. QED  BY <1>1, <1>2, <1>3, <1>4, <1>5 DEF Next

\* What the page holds of rows and lists is worth what the invariant says.
THEOREM MonthInvariant == ASSUME MaxChallenges \in Nat PROVE Spec => []IInv
<1>1. IInv /\ [Next]_vars => IInv'
  BY NextHolds
<1>2. QED  BY InitHolds, <1>1, PTL DEF Spec

LEMMA InvGives == IInv => TypeOK /\ AnswersMatch /\ EndIsShown
<1>1. IInv => TypeOK
  BY DEF IInv, TypeOK, RowsOK, AroundOK, PageOK, Pages, Views, Threads
<1>2. IInv => EndIsShown
  BY DEF IInv, EndIsFresh, IsFresh, EndIsShown, At
<1>3. QED  BY <1>1, <1>2 DEF IInv

\* The state of the page, the table and the thread has the values the code gives it.
THEOREM MonthTypeOK == ASSUME MaxChallenges \in Nat PROVE Spec => []TypeOK
BY MonthInvariant, InvGives, PTL

\* A code, a tap or a "done" goes to the challenge the owner was looking at,
\* however many challenges and jobs passed since the page was drawn.
THEOREM AnswersAlwaysMatch == ASSUME MaxChallenges \in Nat PROVE Spec => []AnswersMatch
BY MonthInvariant, InvGives, PTL

\* A page that shows a job as ended does not list as missing what the job saved
\* (the list is read again at the end of each job, and once only).
THEOREM EndsAreShown == ASSUME MaxChallenges \in Nat PROVE Spec => []EndIsShown
BY MonthInvariant, InvGives, PTL
===============================================================================
