----------------------------- MODULE ChallengeInbox -----------------------------
(***************************************************************************)
(* One challenge in ChallengeResponseInbox (jobs/inbox.py): the thread     *)
(* that waits for its answer (_wait_for_code of workers/runner.py), and    *)
(* the requests that submit one or cancel the job (workers/service.py),    *)
(* which the event loop handles one after the other.                       *)
(*                                                                         *)
(* Whoever looks up the entry does so under the lock of the inbox, and     *)
(* then uses what was found under the entry's own condition: the other     *)
(* side may come in between.  ReceiptWorker takes both for one step.       *)
(***************************************************************************)
CONSTANTS Answers, NoAnswer

VARIABLES
    entry,      \* the _PendingResponse, and whether _pending still lists it
    lapsed,     \* its expires_monotonic has passed
    stopping,   \* _stop_event
    waiter,     \* the thread, and the answer it was given
    request,    \* the request in hand
    cancelled,  \* a request cancelled the job
    accepted    \* history: the answer whose submission was told to be accepted

vars == <<entry, lapsed, stopping, waiter, request, cancelled, accepted>>

NoRequest == [does |-> "none", answer |-> NoAnswer]

\* register, before any request can name the challenge.
Init ==
    /\ entry = [listed |-> TRUE, answered |-> FALSE, response |-> NoAnswer, closed |-> FALSE]
    /\ lapsed = FALSE /\ stopping = FALSE
    /\ waiter = [pc |-> "loop", answer |-> NoAnswer]
    /\ request = NoRequest
    /\ cancelled = FALSE
    /\ accepted = NoAnswer

\* discard, in two steps: the entry is taken off the list, and wiped.
Unlist == entry' = [entry EXCEPT !.listed = FALSE]
Wipe == entry' = [entry EXCEPT !.response = NoAnswer, !.closed = TRUE]

-------------------------------------------------------------------------------
(* The thread.                                                             *)

Waits(pc) == waiter.pc = pc
Goto(pc) == waiter' = [waiter EXCEPT !.pc = pc]
outside == <<lapsed, stopping, request, cancelled, accepted>>

\* The stop event, then the lookup of is_pending.
LoopHead ==
    /\ Waits("loop")
    /\ Goto(IF stopping \/ ~entry.listed THEN "leaves" ELSE "asks")
    /\ UNCHANGED <<entry, outside>>

\* One that was answered is no longer waited for.
MutantIsPending == ~entry.closed /\ ~entry.answered /\ ~lapsed

IsPending == ~entry.closed /\ ~lapsed

AsksPending ==
    /\ Waits("asks")
    /\ Goto(IF IsPending THEN "looks" ELSE "leaves")
    /\ UNCHANGED <<entry, outside>>

\* wait_and_consume looks the entry up, or raises ChallengeNotPendingError;
LooksUp ==
    /\ Waits("looks")
    /\ Goto(IF entry.listed THEN "waits" ELSE "raised")
    /\ UNCHANGED <<entry, outside>>

\* it takes the answer that is there,
Consume ==
    /\ Waits("waits") /\ entry.answered /\ entry.response # NoAnswer
    /\ waiter' = [pc |-> "pops", answer |-> entry.response]
    /\ Wipe
    /\ UNCHANGED outside

Pops ==
    /\ Waits("pops")
    /\ Goto("done")
    /\ Unlist
    /\ UNCHANGED outside

\* or its slice is over, or the entry was closed, and there is none.
SliceEnds ==
    /\ Waits("waits") /\ ~(entry.answered /\ entry.response # NoAnswer)
    /\ Goto("loop")
    /\ entry' = [entry EXCEPT !.closed = @ \/ lapsed]
    /\ UNCHANGED outside

\* The loop is over without an answer: the entry is discarded.
Leaves ==
    /\ Waits("leaves")
    /\ Goto(IF entry.listed THEN "wipes" ELSE "done")
    /\ Unlist
    /\ UNCHANGED outside

LeavesWiped ==
    /\ Waits("wipes")
    /\ Goto("done")
    /\ Wipe
    /\ UNCHANGED outside

-------------------------------------------------------------------------------
(* The requests.                                                           *)

Requests(does) == request.does = does
Answered == request' = NoRequest
inside == <<lapsed, stopping, waiter>>

\* submit looks the entry up;
SubmitLooks(a) ==
    /\ Requests("none") /\ ~cancelled /\ entry.listed
    /\ request' = [does |-> "submit", answer |-> a]
    /\ UNCHANGED <<entry, inside, cancelled, accepted>>

\* A second answer takes the place of the first.
MutantTakesAnswers == ~entry.closed /\ ~lapsed

TakesAnswers == ~entry.closed /\ ~lapsed /\ ~entry.answered

\* the answer is accepted,
SubmitAccepts ==
    /\ Requests("submit") /\ TakesAnswers
    /\ entry' = [entry EXCEPT !.answered = TRUE, !.response = request.answer]
    /\ accepted' = request.answer
    /\ Answered
    /\ UNCHANGED <<inside, cancelled>>

\* or refused; an entry that is found to have expired is closed, and keeps an
\* answer it has.
SubmitRefused ==
    /\ Requests("submit") /\ ~TakesAnswers
    /\ entry' = [entry EXCEPT !.closed = @ \/ lapsed]
    /\ Answered
    /\ UNCHANGED <<inside, cancelled, accepted>>

\* cancel_job, once the row is written: discard.
CancelJob ==
    /\ Requests("none") /\ ~cancelled
    /\ cancelled' = TRUE
    /\ request' = IF entry.listed THEN [NoRequest EXCEPT !.does = "wipe"] ELSE NoRequest
    /\ Unlist
    /\ UNCHANGED <<inside, accepted>>

CancelWipes ==
    /\ Requests("wipe")
    /\ Wipe
    /\ Answered
    /\ UNCHANGED <<inside, cancelled, accepted>>

-------------------------------------------------------------------------------
Lapse ==
    /\ ~lapsed /\ lapsed' = TRUE
    /\ UNCHANGED <<entry, stopping, waiter, request, cancelled, accepted>>

\* ReceiptWorker.stop sets the event.
StopAsked ==
    /\ ~stopping /\ stopping' = TRUE
    /\ UNCHANGED <<entry, lapsed, waiter, request, cancelled, accepted>>

Next ==
    \/ LoopHead \/ AsksPending \/ LooksUp \/ Consume \/ Pops \/ SliceEnds \/ Leaves \/ LeavesWiped
    \/ \E a \in Answers : SubmitLooks(a)
    \/ SubmitAccepts \/ SubmitRefused \/ CancelJob \/ CancelWipes \/ Lapse \/ StopAsked

Spec == Init /\ [][Next]_vars

-------------------------------------------------------------------------------
(* What the thread and the owner may rely on.                              *)

\* The variables have the values the code gives them.
TypeOK ==
    /\ entry \in [listed: BOOLEAN, answered: BOOLEAN, response: Answers \cup {NoAnswer},
                  closed: BOOLEAN]
    /\ {lapsed, stopping, cancelled} \subseteq BOOLEAN
    /\ waiter \in [pc: {"loop", "asks", "looks", "waits", "pops", "leaves", "wipes", "done",
                        "raised"}, answer: Answers \cup {NoAnswer}]
    /\ request \in [does: {"none", "submit", "wipe"}, answer: Answers \cup {NoAnswer}]
    /\ accepted \in Answers \cup {NoAnswer}

\* An answer the owner was told is accepted reaches the thread, unless the challenge
\* expired, the process stops or the job was cancelled.
AcceptedIsUsed ==
    waiter.pc \in {"done", "raised"} /\ accepted # NoAnswer /\ waiter.answer = NoAnswer
        => lapsed \/ stopping \/ cancelled

\* For the thread and the requests the entry is a box that takes one answer and
\* gives it out once: wiped when its answer is gone, closed when it takes no more.
Box == INSTANCE AnswerBox
         WITH given <- waiter.answer,
              box <- IF ~entry.closed THEN "open"
                     ELSE IF entry.answered /\ entry.response # NoAnswer THEN "closed"
                     ELSE "wiped"
ImplementsBox == Box!Spec
===============================================================================
