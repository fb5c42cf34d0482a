------------------------------ MODULE OwnerPage ------------------------------
(***************************************************************************)
(* The worker-less mode of cloud/streamlit_app.py: a batch acquired by the *)
(* owner's page itself, for one month.  The script runs from the top at    *)
(* every click and after every st.rerun(); between two runs the page lives *)
(* in st.session_state, a live browser waits in the lease registry's slot, *)
(* and Drive holds the receipts and the outcomes the page remembers.  The  *)
(* rest of the world is the owner's other tabs, time, and the providers.   *)
(***************************************************************************)
EXTENDS Integers, FiniteSets

CONSTANTS
    N,              \* how many services there are, in the order of SERVICES
    GraphServices,  \* those read from the mailbox, without a browser (tokuten)
    GateServices,   \* those whose sign-in may show a gate to be worked by hand
    MaxSignins      \* MAX_SIGNIN_ATTEMPTS

ASSUME NAssumption == N \in Nat \ {0}
ASSUME MaxAssumption == MaxSignins \in Nat \ {0}
ASSUME KindsAssumption == GraphServices \subseteq 1 .. N /\ GateServices \subseteq 1 .. N

Services == 1 .. N

\* A sign-in to these has a code sent, and nothing else has.
CodeServices == Services \ (GateServices \cup GraphServices)

VARIABLES
    run,        \* where the page's script is, and what it has at hand
    batch,      \* BATCH_KEY
    challenge,  \* SECURITY_CHALLENGE_KEY
    stamps,     \* SIGNIN_ATTEMPTS_KEY: sign-ins counted in the cool-off window
    failures,   \* FAILURES_KEY: the services of the month with a reason
    notice,     \* NOTICE_KEY, and the batch it is about
    known,      \* STORED_OUTCOMES_KEY: services not billed yet, said today
    saved,      \* Drive: the services whose receipt is there
    stored,     \* Drive: services not billed yet, said today (ServiceStatusStore)
    slot,       \* the registry: nobody's lease, this page's, or another's
    codes,      \* history: codes sent by this page's sign-ins, in that window
    quiet       \* history: Drive and the other tabs left the outcomes alone

session == <<batch, challenge, stamps, failures, notice, known>>
drive == <<saved, stored, quiet>>
vars == <<run, session, drive, slot, codes>>

Clicks == {"none", "queue", "open", "solved", "code", "restart", "giveUp"}
Places == {"idle", "top", "listed", "form", "mirror", "submit", "waiting", "mail", "fetching", "hold",
           "resuming", "won", "lost"}
ChallengeKinds == {"code", "gate"}
Outcomes == {"failed", "unissued"}

Idle == [pc |-> "idle", click |-> "none", service |-> 0, kind |-> "none", seen |-> {}]
NoNotice == [tells |-> "nothing", of |-> {}]
NoBatch == [ids |-> {}, completed |-> {}, failed |-> {}]
NotRead == [read |-> FALSE, unissued |-> {}]
NoChallenge == [service |-> 0, kind |-> "none", live |-> FALSE, opened |-> FALSE]

Remaining(b) == b.ids \ (b.completed \cup b.failed)
First(S) == CHOOSE s \in S : \A t \in S : s <= t

AtPc(pc) == run.pc = pc
Goto(pc) == run' = [run EXCEPT !.pc = pc]
Rerun == run' = [Idle EXCEPT !.pc = "top"]
Stop == run' = Idle

Init ==
    /\ run = Idle
    /\ batch = NoBatch
    /\ challenge = NoChallenge
    /\ stamps = [s \in Services |-> 0]
    /\ failures = {}
    /\ notice = NoNotice
    /\ known = NotRead
    /\ saved \in SUBSET Services
    /\ stored \in SUBSET Services
    /\ slot = "nobody"
    /\ codes = [s \in Services |-> 0]
    /\ quiet = TRUE

-------------------------------------------------------------------------------
(* What the script does in several places.                                 *)

\* discard_security_challenge, and discard(token) before a pop of the challenge.
DropChallenge ==
    /\ slot' = IF slot = "mine" /\ challenge.live THEN "nobody" ELSE slot
    /\ challenge' = NoChallenge

\* _advance_batch and _finish_batch.
Advance(b) ==
    IF Remaining(b) = {}
    THEN /\ batch' = NoBatch
         /\ notice' = [tells |-> IF b.failed = {} THEN "all" ELSE "some", of |-> b.ids]
    ELSE batch' = b /\ UNCHANGED notice

\* remember_month_outcome: the whole file is read and written again.  A file
\* that cannot be read counts as an empty one, a failed write is let go.
Remember(s, outcome) ==
    LET new == IF outcome = "unissued" THEN {s} ELSE {}
    IN  /\ \/ stored' = (stored \ {s}) \cup new /\ UNCHANGED quiet
           \/ stored' \in {new, stored} /\ quiet' = FALSE
        /\ known' = NotRead

\* forget_month_outcome writes nothing when it cannot read the file.
Forget(s) ==
    /\ stored' \in {stored \ {s}, stored}
    /\ known' = NotRead
    /\ UNCHANGED quiet

\* A failure that is not kept in the batch.
MutantFail(s, outcome) ==
    /\ failures' = failures \cup {s}
    /\ Remember(s, outcome)
    /\ stamps' = IF outcome = "unissued" THEN [stamps EXCEPT ![s] = 0] ELSE stamps
    /\ Advance(batch)

\* An answer "not billed yet" that is not remembered.
MutantFailForgets(s, outcome) ==
    /\ failures' = failures \cup {s}
    /\ UNCHANGED <<stored, quiet, known>>
    /\ stamps' = IF outcome = "unissued" THEN [stamps EXCEPT ![s] = 0] ELSE stamps
    /\ Advance([batch EXCEPT !.failed = @ \cup {s}])

\* fail_batch_service
Fail(s, outcome) ==
    /\ failures' = failures \cup {s}
    /\ Remember(s, outcome)
    /\ stamps' = IF outcome = "unissued" THEN [stamps EXCEPT ![s] = 0] ELSE stamps
    /\ Advance([batch EXCEPT !.failed = @ \cup {s}])

\* complete_batch_service
Complete(s) ==
    /\ Forget(s)
    /\ stamps' = [stamps EXCEPT ![s] = 0]
    /\ Advance([batch EXCEPT !.completed = @ \cup {s}])
    /\ UNCHANGED failures

-------------------------------------------------------------------------------
(* The top of the script and render_monthly_view.                          *)

\* The owner touches the page, and the script runs again.
Click(c) ==
    /\ AtPc("idle")
    /\ run' = [Idle EXCEPT !.pc = "top", !.click = c]
    /\ UNCHANGED <<session, drive, slot, codes>>

\* load_drive_snapshot
Snapshot ==
    /\ AtPc("top")
    /\ run' = [run EXCEPT !.pc = "listed", !.seen = saved]
    /\ UNCHANGED <<session, drive, slot, codes>>

\* Drive cannot be listed: the batch and its challenge are given up.
DriveDown ==
    /\ AtPc("top")
    /\ batch' = NoBatch
    /\ DropChallenge
    /\ Stop
    /\ UNCHANGED <<stamps, failures, notice, known, drive, codes>>

\* The receipt of the challenged service is in Drive after all.
ReceiptAppeared ==
    /\ AtPc("listed")
    /\ batch # NoBatch
    /\ challenge.service \in run.seen
    /\ DropChallenge
    /\ Complete(challenge.service)
    /\ Rerun
    /\ UNCHANGED <<saved, codes>>

Missing == Services \ run.seen

\* queue_batch, with the slot taken back from whoever holds it.  A service read
\* from the mailbox may be left out: the mailbox is not connected.
QueueBatch(ids) ==
    /\ AtPc("listed")
    /\ batch = NoBatch
    /\ run.click = "queue"
    /\ ids # {} /\ ids \subseteq Missing /\ Missing \ ids \subseteq GraphServices
    /\ slot' = "nobody"
    /\ challenge' = NoChallenge
    /\ batch' = [NoBatch EXCEPT !.ids = ids]
    /\ notice' = NoNotice
    /\ failures' = failures \ ids
    /\ Rerun
    /\ UNCHANGED <<stamps, known, drive, codes>>

\* Nothing is under way: the page is shown, and the notice with it.
Rest ==
    /\ AtPc("listed")
    /\ batch = NoBatch
    /\ run.click # "queue" \/ Missing \subseteq GraphServices
    /\ DropChallenge
    /\ notice' = NoNotice
    /\ Stop
    /\ UNCHANGED <<batch, stamps, failures, known, drive, codes>>

-------------------------------------------------------------------------------
(* The challenge on the page.                                              *)

Challenged ==
    /\ batch # NoBatch
    /\ challenge # NoChallenge
    /\ challenge.service \notin run.seen

Holds == slot = "mine" /\ challenge.live

\* The lease is not discarded.
MutantRestart ==
    /\ challenge' = NoChallenge
    /\ Rerun
    /\ UNCHANGED slot

\* restart_security_challenge (its notice, another text, is left out)
Restart ==
    /\ DropChallenge
    /\ Rerun

\* The hold is over: offer_expired_challenge_restart asks the owner.
OfferRestart ==
    /\ AtPc("listed") /\ Challenged /\ ~Holds
    /\ run.click # "giveUp"
    /\ IF run.click = "restart"
       THEN Restart
       ELSE Stop /\ UNCHANGED <<challenge, slot>>
    /\ notice' = NoNotice
    /\ UNCHANGED <<batch, stamps, failures, known, drive, codes>>

GiveUp ==
    /\ AtPc("listed") /\ Challenged /\ ~Holds
    /\ run.click = "giveUp"
    /\ DropChallenge
    /\ Fail(challenge.service, "failed")
    /\ Rerun
    /\ UNCHANGED <<saved, codes>>

\* render_security_code_form finds the lease (metadata) and shows the code box,
\* the button that opens the gate, or the gate itself.
Form ==
    /\ AtPc("listed") /\ Challenged /\ Holds
    /\ run' = [run EXCEPT !.pc = IF challenge.opened THEN "mirror" ELSE "form", !.seen = {}]
    /\ notice' = NoNotice
    /\ UNCHANGED <<batch, challenge, stamps, failures, known, drive, slot, codes>>

CodeBox ==
    /\ AtPc("form") /\ challenge.kind = "code"
    /\ CASE run.click = "restart" -> Restart
         [] run.click = "code" -> Goto("submit") /\ UNCHANGED <<challenge, slot>>
         [] OTHER -> Stop /\ UNCHANGED <<challenge, slot>>
    /\ UNCHANGED <<batch, stamps, failures, notice, known, drive, codes>>

ClosedGate ==
    /\ AtPc("form") /\ challenge.kind = "gate"
    /\ IF run.click = "open"
       THEN Rerun /\ challenge' = [challenge EXCEPT !.opened = TRUE]
       ELSE Stop /\ UNCHANGED challenge
    /\ UNCHANGED <<batch, stamps, failures, notice, known, drive, slot, codes>>

\* render_interactive_challenge: the gate is mirrored under a checkout, and with
\* the hold gone the sign-in starts over.  A gate on which nothing has moved is
\* not submitted.
Mirror ==
    /\ AtPc("mirror")
    /\ \/ /\ ~Holds \/ run.click = "restart"
          /\ Restart
       \/ /\ Holds /\ run.click = "solved"
          /\ Goto("submit")
          /\ challenge' = [challenge EXCEPT !.opened = FALSE]
          /\ UNCHANGED slot
       \/ /\ Holds /\ run.click # "restart"
          /\ Stop
          /\ UNCHANGED <<challenge, slot>>
    /\ UNCHANGED <<batch, stamps, failures, notice, known, drive, codes>>

-------------------------------------------------------------------------------
(* execute_next_service                                                    *)

\* The stored outcomes are read once and kept in the session until this page
\* changes them (stored_month_outcomes); unreadable ones count as none.
RecallOutcomes(k) ==
    /\ AtPc("listed")
    /\ batch # NoBatch /\ challenge = NoChallenge
    /\ ~known.read
    /\ k \in {stored, {}}
    /\ known' = [read |-> TRUE, unissued |-> k]
    /\ quiet' = (quiet /\ k = stored)
    /\ UNCHANGED <<run, batch, challenge, stamps, failures, notice, saved, stored, slot, codes>>

Executes(s) ==
    /\ AtPc("listed")
    /\ batch # NoBatch /\ challenge = NoChallenge
    /\ known.read
    /\ s = First(Remaining(batch))

\* A service read from the mailbox, when the mailbox is connected.
FetchMail(s) ==
    /\ Executes(s)
    /\ s \in GraphServices
    /\ run' = [Idle EXCEPT !.pc = "mail", !.service = s]
    /\ notice' = NoNotice
    /\ UNCHANGED <<batch, challenge, stamps, failures, known, drive, slot, codes>>

\* Not billed yet, said the provider earlier today (settled_unissued_outcome).
Settled(s) ==
    /\ Executes(s)
    /\ s \in known.unissued
    /\ Fail(s, "unissued")
    /\ Rerun
    /\ UNCHANGED <<challenge, saved, slot, codes>>

Capped(s) ==
    /\ Executes(s)
    /\ s \notin known.unissued
    /\ stamps[s] >= MaxSignins
    /\ Fail(s, "failed")
    /\ Rerun
    /\ UNCHANGED <<challenge, saved, slot, codes>>

\* The cap is not looked at.
MutantAttempt(s) ==
    /\ Executes(s)
    /\ s \notin known.unissued
    /\ stamps' = [stamps EXCEPT ![s] = @ + 1]
    /\ run' = [Idle EXCEPT !.pc = "waiting", !.service = s]
    /\ notice' = NoNotice
    /\ UNCHANGED <<batch, challenge, failures, known, drive, slot, codes>>

\* record_signin_attempt, then run_auto_acquisition waits for its lock.
Attempt(s) ==
    /\ Executes(s)
    /\ s \notin known.unissued
    /\ stamps[s] < MaxSignins
    /\ stamps' = [stamps EXCEPT ![s] = @ + 1]
    /\ run' = [Idle EXCEPT !.pc = "waiting", !.service = s]
    /\ notice' = NoNotice
    /\ UNCHANGED <<batch, challenge, failures, known, drive, slot, codes>>

\* One more code, up to the bound.
Count(s, n) == IF s \in CodeServices /\ n <= MaxSignins THEN n + 1 ELSE n

\* The receipt is in Drive already, or the page signs in and a code is sent.
SignIn ==
    /\ AtPc("waiting")
    /\ LET s == run.service
       IN  IF s \in saved
           THEN Goto("won") /\ UNCHANGED codes
           ELSE /\ Goto("fetching")
                /\ codes' = [codes EXCEPT ![s] = Count(s, @)]
    /\ UNCHANGED <<session, drive, slot>>

\* What run_auto_acquisition comes to: the statement is found in Drive, it could
\* not be had, or it is in Drive but could not be found there again.
Concludes ==
    \/ Goto("won") /\ saved' = saved \cup {run.service}
    \/ \E o \in Outcomes :
          /\ run' = [run EXCEPT !.pc = "lost", !.kind = o]
          /\ \/ UNCHANGED saved
             \/ o = "failed" /\ saved' = saved \cup {run.service}

Fetched ==
    /\ run.pc \in {"fetching", "mail"}
    /\ Concludes
    /\ UNCHANGED <<session, stored, quiet, slot, codes>>

\* The provider wants a code that is not in the mailbox, or shows a gate: then
\* it has sent nothing, and the sign-in is not counted.
AskedFor(kind) ==
    /\ AtPc("fetching")
    /\ kind = "gate" => run.service \in GateServices
    /\ run' = [run EXCEPT !.pc = "hold", !.kind = kind]
    /\ stamps' = IF kind = "gate" THEN [stamps EXCEPT ![run.service] = 0] ELSE stamps
    /\ UNCHANGED <<batch, challenge, failures, notice, known, drive, slot, codes>>

\* browser_lease_registry.create, and the challenge's record.
Hold ==
    /\ AtPc("hold")
    /\ slot = "nobody"
    /\ slot' = "mine"
    /\ challenge' = [service |-> run.service, kind |-> run.kind, live |-> TRUE,
                     opened |-> FALSE]
    /\ Rerun
    /\ UNCHANGED <<batch, stamps, failures, notice, known, drive, codes>>

\* The slot is taken, or the browser's page is gone.
HoldRefused ==
    /\ AtPc("hold")
    /\ run' = [run EXCEPT !.pc = "lost", !.kind = "failed"]
    /\ UNCHANGED <<session, drive, slot, codes>>

Won ==
    /\ AtPc("won")
    /\ Complete(run.service)
    /\ Rerun
    /\ UNCHANGED <<challenge, saved, slot, codes>>

\* A failure goes into the list of what is done.
MutantLost ==
    /\ AtPc("lost")
    /\ Complete(run.service)
    /\ Rerun
    /\ UNCHANGED <<challenge, saved, slot, codes>>

Lost ==
    /\ AtPc("lost")
    /\ Fail(run.service, run.kind)
    /\ Rerun
    /\ UNCHANGED <<challenge, saved, slot, codes>>

-------------------------------------------------------------------------------
(* resume_security_code                                                    *)

\* checkout: from here until it returns nobody closes the browser.  Without a
\* lease the challenge loses its token, and the next run offers a restart.
BeginResume ==
    /\ AtPc("submit")
    /\ IF Holds
       THEN /\ run' = [run EXCEPT !.pc = "resuming", !.service = challenge.service]
            /\ UNCHANGED challenge
       ELSE /\ challenge' = [challenge EXCEPT !.live = FALSE]
            /\ Rerun
    /\ UNCHANGED <<batch, stamps, failures, notice, known, drive, slot, codes>>

\* The provider asks again, perhaps for the other kind.
AskedAgain(kind) ==
    /\ AtPc("resuming")
    /\ kind = "gate" => run.service \in GateServices
    /\ challenge' = [challenge EXCEPT !.kind = kind, !.opened = (kind = "gate")]
    /\ Rerun
    /\ UNCHANGED <<batch, stamps, failures, notice, known, drive, slot, codes>>

\* The browser is closed and discarded whatever came of it.
Resumed ==
    /\ AtPc("resuming")
    /\ DropChallenge
    /\ Concludes
    /\ UNCHANGED <<batch, stamps, failures, notice, known, stored, quiet, codes>>

-------------------------------------------------------------------------------
(* The rest of the world.                                                  *)

\* The owner's click on something else ends the script where it is; its finally
\* closes a browser that is not held.
Interrupt ==
    /\ run.pc \in {"waiting", "mail", "fetching", "hold", "resuming", "won", "lost"}
    /\ Rerun
    /\ UNCHANGED <<session, drive, slot, codes>>

\* A reloaded page is a new session.
Reload ==
    /\ run.pc \in {"idle", "top"}
    /\ Rerun
    /\ batch' = NoBatch /\ challenge' = NoChallenge
    /\ stamps' = [s \in Services |-> 0]
    /\ failures' = {} /\ notice' = NoNotice /\ known' = NotRead
    /\ slot' = IF slot = "mine" THEN "other" ELSE slot
    /\ codes' = [s \in Services |-> 0]
    /\ UNCHANGED drive

\* A hold runs out, or another tab takes the slot.
HoldEnds ==
    /\ slot # "nobody" /\ ~AtPc("resuming")
    /\ slot' = "nobody"
    /\ UNCHANGED <<run, session, drive, codes>>

OtherHolds ==
    /\ slot = "nobody"
    /\ slot' = "other"
    /\ UNCHANGED <<run, session, drive, codes>>

\* Another tab saves a receipt, or writes the outcomes.
OtherSaves(s) ==
    /\ s \notin saved
    /\ saved' = saved \cup {s}
    /\ UNCHANGED <<run, session, stored, quiet, slot, codes>>

OtherRemembers(S) ==
    /\ stored' = S
    /\ quiet' = FALSE
    /\ UNCHANGED <<run, session, saved, slot, codes>>

\* SIGNIN_COOL_OFF_SECONDS pass.
CoolOff ==
    /\ AtPc("idle")
    /\ stamps' = [s \in Services |-> 0]
    /\ codes' = [s \in Services |-> 0]
    /\ UNCHANGED <<run, batch, challenge, failures, notice, known, drive, slot>>

\* Midnight: what was said today is of yesterday.
NextDay ==
    /\ stored' = {} /\ quiet' = TRUE
    /\ known' = [known EXCEPT !.unissued = {}]
    /\ codes' = [s \in Services |-> 0]
    /\ UNCHANGED <<run, batch, challenge, stamps, failures, notice, saved, slot>>

-------------------------------------------------------------------------------
\* What the script does by itself.
Script ==
    \/ Snapshot \/ DriveDown \/ ReceiptAppeared \/ Rest
    \/ \E ids \in SUBSET Services : QueueBatch(ids)
    \/ OfferRestart \/ GiveUp \/ Form \/ CodeBox \/ ClosedGate \/ Mirror
    \/ RecallOutcomes(stored) \/ RecallOutcomes({})
    \/ \E s \in Services : FetchMail(s) \/ Settled(s) \/ Capped(s) \/ Attempt(s)
    \/ SignIn \/ Fetched \/ Hold \/ HoldRefused \/ Won \/ Lost
    \/ BeginResume \/ Resumed
    \/ \E kind \in ChallengeKinds : AskedFor(kind) \/ AskedAgain(kind)

World ==
    \/ \E c \in Clicks : Click(c)
    \/ Interrupt \/ Reload \/ HoldEnds \/ OtherHolds \/ CoolOff \/ NextDay
    \/ \E s \in Services : OtherSaves(s)
    \/ \E S \in SUBSET Services : OtherRemembers(S)

Next == Script \/ World

\* A script that runs goes on: every wait of an attempt is bounded by its budget
\* (SERVICE_ATTEMPT_BUDGET_SECONDS, SECURITY_RESUME_BUDGET_SECONDS).
Fairness == WF_vars(Script)

Spec == Init /\ [][Next]_vars /\ Fairness

-------------------------------------------------------------------------------
(* What the page promises.                                                 *)

\* The variables have the values the code gives them.
TypeOK ==
    /\ run \in [pc: Places, click: Clicks, service: Services \cup {0},
                kind: ChallengeKinds \cup Outcomes \cup {"none"}, seen: SUBSET Services]
    /\ batch \in [ids: SUBSET Services, completed: SUBSET Services, failed: SUBSET Services]
    /\ challenge \in [service: Services \cup {0}, kind: ChallengeKinds \cup {"none"},
                      live: BOOLEAN, opened: BOOLEAN]
    /\ stamps \in [Services -> 0 .. MaxSignins]
    /\ failures \in SUBSET Services
    /\ notice \in [tells: {"nothing", "all", "some"}, of: SUBSET Services]
    /\ known \in [read: BOOLEAN, unissued: SUBSET Services]
    /\ saved \in SUBSET Services
    /\ stored \in SUBSET Services
    /\ slot \in {"nobody", "mine", "other"}
    /\ codes \in [Services -> 0 .. MaxSignins + 1]
    /\ quiet \in BOOLEAN

\* What the owner is told at the end is so (_finish_batch): "all" the receipts
\* are in Drive, or those are that have no failure on the page.
NoticeHonest ==
    /\ notice.tells = "all" => notice.of \subseteq saved
    /\ notice.tells = "some" => notice.of \ saved \subseteq failures

\* One visit has at most MAX_SIGNIN_ATTEMPTS codes sent for a service and month
\* ("beyond that the owner is just being spammed"), although an answer "not
\* billed yet" takes its sign-ins off the count: the stored answer stops the next
\* one.  A service with a gate, or also read from the mailbox, is outside, and so
\* is a day on which the stored outcomes were unreadable or written by another tab.
CodesCapped == quiet => \A s \in CodeServices : codes[s] <= MaxSignins

\* This page's hold on the one slot is a challenge it can still end or resume,
\* and it signs in nowhere with its own hold in the way ("the provider logs in
\* and mails a code, and only then does the lease creation fail", queue_batch).
HoldIsWatched ==
    slot = "mine" => /\ challenge # NoChallenge /\ challenge.live
                     /\ run.pc \notin {"waiting", "fetching", "hold"}

\* A challenge is given up for another sign-in only at the owner's click ("that is
\* the owner's call, not something to do silently", render_security_code_form).
OwnersCall ==
    [][/\ challenge # NoChallenge /\ challenge' = NoChallenge
       /\ batch # NoBatch /\ batch' = batch
       => AtPc("resuming") \/ run.click = "restart"]_vars

\* A batch comes to its end, or to the owner (it is never "an acquisition that
\* never ends"), unless the owner goes on interrupting it.
BatchSettles ==
    <>[][~Interrupt]_vars =>
        (batch # NoBatch ~> (batch = NoBatch \/ challenge # NoChallenge))
===============================================================================
