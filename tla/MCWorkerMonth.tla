----------------------------- MODULE MCWorkerMonth -----------------------------
(***************************************************************************)
(* Instances of RemoteMonth, ReceiptSaves, ReceiptFolder, WorkerProcess,   *)
(* MicrosoftLink and ChallengeInbox for TLC, side by side in one run: they *)
(* share no state, and a behavior is one of the part it starts in.         *)
(* WorkerProcess is extended, so that its properties are checked as it     *)
(* states them; they hold of its initial state, in which it stays in the   *)
(* other parts.                                                            *)
(*                                                                         *)
(* Most parts are instantiated with the module of their proofs, which      *)
(* extends the part: MCWorkerMonthProofs can then cite what is proved of   *)
(* any instance, and TLC can evaluate the inductive invariants.            *)
(***************************************************************************)
EXTENDS WorkerProcess, Integers

CONSTANTS
    Jobs, ServiceIds, MailServices, MaxChallenges,  \* of "month"
    CodeJobs, CodeChallenges,                       \* of "codes"
    Documents, Uploads, MaxCrashes,                 \* of "saves"
    Months, MaxChanges,                             \* of "folder"
    States, Accounts,                               \* of "link"
    Answers, NoAnswer                               \* of "inbox"

\* What the parts assume of their constants.
ASSUME PartsAssumption ==
    /\ ServiceIds \subseteq Nat \ {0}
    /\ MaxChallenges \in Nat /\ CodeChallenges \in Nat
    /\ 0 \notin Uploads /\ MaxCrashes \in Nat
    /\ Months \subseteq [year: Int, month: 1 .. 12] /\ [year |-> 2026, month |-> 1] \in Months
    /\ MaxChanges \in Nat
    /\ NoAnswer \notin Answers
    /\ Threshold \in Nat \ {0} /\ MaxWrites \in Nat

VARIABLES
    part,
    jobs, previous, page, thread, saved, question, replied, issued, crossed,
    jobs2, previous2, page2, thread2, saved2, question2, replied2, issued2, crossed2,
    folder, lock, month, acquirer, upload, form, crashes,
    drive, changes, today, receipts,
    pending, stored, cached, handler, reader, exchanged, lapsed, chosen, mixed,
    entry, clock, stopping, waiter, request, cancelled, accepted

monthVars == <<jobs, previous, page, thread, saved, question, replied, issued, crossed>>
codesVars == <<jobs2, previous2, page2, thread2, saved2, question2, replied2, issued2, crossed2>>
savesVars == <<folder, lock, month, acquirer, upload, form, crashes>>
driveVars == <<drive, changes, today, receipts>>
linkVars == <<pending, stored, cached, handler, reader, exchanged, lapsed, chosen, mixed>>
inboxVars == <<entry, clock, stopping, waiter, request, cancelled, accepted>>
allVars == <<part, monthVars, codesVars, savesVars, driveVars, vars, linkVars, inboxVars>>

\* Jobs after one another, and challenges of one job.
Month == INSTANCE RemoteMonthProofs WITH Services <- ServiceIds
Codes == INSTANCE RemoteMonthProofs
           WITH Services <- ServiceIds, Jobs <- CodeJobs, MaxChallenges <- CodeChallenges,
                jobs <- jobs2, previous <- previous2, page <- page2, thread <- thread2,
                saved <- saved2, question <- question2, replied <- replied2, issued <- issued2,
                crossed <- crossed2
Saves == INSTANCE ReceiptSavesProofs WITH Services <- ServiceIds, Names <- Documents
Folder == INSTANCE ReceiptFolder WITH folder <- drive
Link == INSTANCE MicrosoftLinkProofs WITH crossed <- mixed
Inbox == INSTANCE ChallengeInboxProofs WITH lapsed <- clock

\* The run begins in the first months that have a page: the months of use and of
\* payment around them lie across the end of a year.
FirstMonths == {[year |-> 2026, month |-> 1], [year |-> 2026, month |-> 2]}

In(name) == part = name

MCInit ==
    /\ part \in {"month", "codes", "saves", "folder", "process", "link", "inbox"}
    /\ Month!Init /\ Codes!Init /\ Saves!Init /\ Folder!Init /\ Init /\ Link!Init
    /\ Inbox!Init

MCNext ==
    \/ In("month") /\ Month!Next
       /\ UNCHANGED <<part, codesVars, savesVars, driveVars, vars, linkVars, inboxVars>>
    \/ In("codes") /\ Codes!Next
       /\ UNCHANGED <<part, monthVars, savesVars, driveVars, vars, linkVars, inboxVars>>
    \/ In("saves") /\ Saves!Next
       /\ UNCHANGED <<part, monthVars, codesVars, driveVars, vars, linkVars, inboxVars>>
    \/ In("folder") /\ Folder!Next
       /\ UNCHANGED <<part, monthVars, codesVars, savesVars, vars, linkVars, inboxVars>>
    \/ In("process") /\ Next
       /\ UNCHANGED <<part, monthVars, codesVars, savesVars, driveVars, linkVars, inboxVars>>
    \/ In("link") /\ Link!Next
       /\ UNCHANGED <<part, monthVars, codesVars, savesVars, driveVars, vars, inboxVars>>
    \/ In("inbox") /\ Inbox!Next
       /\ UNCHANGED <<part, monthVars, codesVars, savesVars, driveVars, vars, linkVars>>

\* Attended, of the part that runs.
Fair ==
    /\ WF_monthVars(In("month") /\ Month!Script)
    /\ WF_monthVars(In("month") /\ Month!Tick)
    /\ WF_monthVars(In("month") /\ Month!RunAgain)
    /\ SF_monthVars(In("month") /\ Month!PressStart)

MCSpec == MCInit /\ [][MCNext]_allVars /\ Fairness /\ Fair

\* The variables of the part that runs have the values the code gives them.
TypesOK ==
    /\ In("month") => Month!TypeOK
    /\ In("codes") => Codes!TypeOK
    /\ In("saves") => Saves!TypeOK
    /\ In("folder") => Folder!TypeOK
    /\ TypeOK
    /\ In("link") => Link!TypeOK
    /\ In("inbox") => Inbox!TypeOK

\* RemoteMonth: an answer goes to the challenge the owner saw.
AnswersMatch == In("codes") => Codes!AnswersMatch

\* RemoteMonth: an ended job is not shown beside a list that misses what it saved.
EndIsShown == In("month") => Month!EndIsShown

\* RemoteMonth: an owner who presses on gets a job.
PressPays == []<>In("month") => Month!PressPays

\* RemoteMonth: a month whose jobs stay active has one on the page.
JobIsShown == []<>In("month") => Month!JobIsShown

\* ReceiptSaves: one receipt of a service and month.
OneReceipt == In("saves") => Saves!OneReceipt

\* ReceiptFolder: a saved receipt is shown for its service and month.
SavedIsFound == In("folder") => Folder!SavedIsFound

\* ReceiptFolder: of the months that have a page, the archive leaves out just what
\* the page shows, and what is older.
OnlyOlderAreLeftOut == In("folder") => Folder!OnlyOlderAreLeftOut

\* MicrosoftLink: a state buys one exchange, and none once expired.
OneExchange == In("link") => Link!OneExchange

\* MicrosoftLink: no token of an account but the one connected last.
TokensFollowOwner == In("link") => Link!TokensFollowOwner

\* ChallengeInbox: an accepted answer reaches the thread.
AcceptedIsUsed == In("inbox") => Inbox!AcceptedIsUsed

\* ChallengeInbox: the entry is a box that gives its answer out once.
ImplementsBox == Inbox!ImplementsBox
===============================================================================
