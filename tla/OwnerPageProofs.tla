---------------------------- MODULE OwnerPageProofs ----------------------------
(***************************************************************************)
(* The page's batch keeps its word, for any number of services of any      *)
(* kinds and any cap on sign-ins.                                          *)
(*                                                                         *)
(* What the page says at the end rests on what it carries along: a service *)
(* is noted as completed only once its receipt was seen in Drive, and as   *)
(* failed only with a reason on the page.  The cap on codes rests on three *)
(* ways to stand with a service: every code sent has a sign-in counted, or *)
(* the receipt is there, or the answer "not billed yet" is stored, known   *)
(* to the page when it asks, and not under way again.                      *)
(***************************************************************************)
EXTENDS OwnerPage, TLAPS

\* Where the script has a service in hand, and where it has no challenge.
InHand == {"waiting", "mail", "fetching", "hold", "resuming", "won", "lost"}
Unchallenged == InHand \ {"resuming"}

\* What the script has in hand at each place is what the place is about.
HandsOK ==
    /\ run.pc \in InHand => run.service \in Services
    /\ run.pc \in Unchallenged => challenge = NoChallenge
    /\ run.pc = "resuming" => challenge.service = run.service
    /\ run.pc = "mail" => run.service \in GraphServices
    /\ run.pc = "hold" => run.kind \in ChallengeKinds
    /\ run.pc = "lost" => run.kind \in Outcomes
    /\ challenge # NoChallenge => challenge.service \in Services

\* The listing of this run, a service won, and what is completed are in Drive;
\* what failed has its reason.
RecordIsTrue ==
    /\ run.seen \subseteq saved
    /\ run.pc = "won" => run.service \in saved
    /\ batch.completed \subseteq saved
    /\ batch.failed \subseteq failures

\* A sign-in to s is counted whose code, if any, is still to be sent.
Underway(s) == IF run.pc = "waiting" /\ run.service = s THEN 1 ELSE 0

\* Every code sent has a sign-in counted ...
IsCounted(s) == codes[s] + Underway(s) <= stamps[s]

\* ... or the receipt is there, so that no more are sent ...
IsSaved(s) == s \in saved /\ codes[s] <= MaxSignins

\* ... or it is not billed yet: the answer is stored, the page reads it before
\* it signs in, and nothing of this service is under way.
IsSettled(s) ==
    /\ s \in stored /\ codes[s] <= MaxSignins
    /\ known.read => s \in known.unissued
    /\ run.pc \in InHand => run.service # s
    /\ challenge.service # s

CodesAreCovered ==
    /\ run.pc = "waiting" => stamps[run.service] >= 1
    /\ quiet => \A s \in CodeServices : IsCounted(s) \/ IsSaved(s) \/ IsSettled(s)

IInv ==
    /\ TypeOK
    /\ HandsOK
    /\ RecordIsTrue
    /\ NoticeHonest
    /\ CodesAreCovered
    /\ HoldIsWatched

-------------------------------------------------------------------------------
Runs == [pc: Places, click: Clicks, service: Services \cup {0},
         kind: ChallengeKinds \cup Outcomes \cup {"none"}, seen: SUBSET Services]
Batches == [ids: SUBSET Services, completed: SUBSET Services, failed: SUBSET Services]
Challenges == [service: Services \cup {0}, kind: ChallengeKinds \cup {"none"},
               live: BOOLEAN, opened: BOOLEAN]

\* What a variable is when nothing is under way.
LEMMA NothingIs ==
    /\ Idle \in Runs /\ Idle.pc = "idle" /\ Idle.service = 0 /\ Idle.seen = {}
    /\ NoBatch \in Batches /\ NoBatch.completed = {} /\ NoBatch.failed = {} /\ NoBatch.ids = {}
    /\ NoChallenge \in Challenges /\ ~NoChallenge.live /\ NoChallenge.service = 0
    /\ NoNotice \in [tells: {"nothing", "all", "some"}, of: SUBSET Services]
    /\ NoNotice.tells = "nothing"
    /\ NotRead \in [read: BOOLEAN, unissued: SUBSET Services] /\ ~NotRead.read
    /\ \A s \in Services : s # 0
BY DEF Idle, Runs, Places, Clicks, NoBatch, Batches, NoChallenge, Challenges, NoNotice, NotRead,
       Services

\* A run that ends, or begins again.
LEMMA RunEnds ==
    ASSUME Stop \/ Rerun
    PROVE  run' \in Runs /\ run'.pc \in {"idle", "top"} /\ run'.seen = {} /\ run'.service = 0
BY NothingIs DEF Stop, Rerun, Idle, Runs, Places, Clicks

\* A script that goes on.
LEMMA RunGoesOn ==
    ASSUME run \in Runs, NEW pc \in Places, Goto(pc)
    PROVE  /\ run' \in Runs /\ run'.pc = pc /\ run'.service = run.service
           /\ run'.seen = run.seen /\ run'.kind = run.kind
BY DEF Goto, Runs

\* The script takes a service in hand.
LEMMA RunTakes ==
    ASSUME NEW s \in Services, NEW pc \in Places,
           run' = [Idle EXCEPT !.pc = pc, !.service = s]
    PROVE  /\ run' \in Runs /\ run'.pc = pc /\ run'.service = s /\ run'.seen = {}
BY NothingIs DEF Idle, Runs

\* A challenge that is dropped is gone, and the page has no hold any more.
LEMMA Dropped ==
    ASSUME slot \in {"nobody", "mine", "other"}, HoldIsWatched, DropChallenge
    PROVE  /\ challenge' = NoChallenge /\ challenge' \in Challenges
           /\ slot' \in {"nobody", "other"}
BY NothingIs DEF DropChallenge, HoldIsWatched

\* What the end of a service does to the batch and the notice.
LEMMA Advanced ==
    ASSUME NEW b \in Batches, notice \in [tells: {"nothing", "all", "some"}, of: SUBSET Services],
           Advance(b)
    PROVE  /\ batch' \in Batches
           /\ notice' \in [tells: {"nothing", "all", "some"}, of: SUBSET Services]
           /\ batch'.completed \subseteq b.completed /\ batch'.failed \subseteq b.failed
           /\ \/ notice' = notice
              \/ /\ notice'.of \subseteq b.completed \cup b.failed
                 /\ notice'.tells = "all" => b.failed = {}
<1>1. CASE Remaining(b) = {}
  <2>1. batch' = NoBatch
        /\ notice' = [tells |-> IF b.failed = {} THEN "all" ELSE "some", of |-> b.ids]
    BY <1>1 DEF Advance
  <2>2. b.ids \subseteq b.completed \cup b.failed /\ b.ids \in SUBSET Services
    BY <1>1 DEF Remaining, Batches
  <2>3. notice'.of = b.ids /\ notice'.tells = IF b.failed = {} THEN "all" ELSE "some"
    BY <2>1
  <2>4. QED  BY <2>1, <2>2, <2>3, NothingIs
<1>2. CASE Remaining(b) # {}
  BY <1>2 DEF Advance
<1>3. QED  BY <1>1, <1>2

\* What an outcome that is remembered leaves in Drive and in the session.
LEMMA Remembered ==
    ASSUME stored \in SUBSET Services, quiet \in BOOLEAN, NEW s \in Services, NEW outcome,
           Remember(s, outcome)
    PROVE  /\ stored' \in SUBSET Services /\ quiet' \in BOOLEAN /\ known' = NotRead
           /\ quiet' => /\ quiet
                        /\ \A u \in stored : u # s => u \in stored'
                        /\ outcome = "unissued" => s \in stored'
<1> DEFINE new == IF outcome = "unissued" THEN {s} ELSE {}
<1>1. new \in SUBSET Services /\ (outcome = "unissued" => s \in new)
  OBVIOUS
<1> HIDE DEF new
<1>2. /\ known' = NotRead
      /\ \/ stored' = (stored \ {s}) \cup new /\ UNCHANGED quiet
         \/ stored' \in {new, stored} /\ quiet' = FALSE
  BY DEF Remember, new
<1>3. CASE stored' = (stored \ {s}) \cup new /\ quiet' = quiet
  <2>1. stored' \in SUBSET Services /\ \A u \in stored : u # s => u \in stored'
    BY <1>1, <1>3
  <2>2. outcome = "unissued" => s \in stored'
    BY <1>1, <1>3
  <2>3. QED  BY <1>2, <1>3, <2>1, <2>2
<1>4. CASE stored' \in {new, stored} /\ quiet' = FALSE
  <2>1. stored' \in SUBSET Services
    BY <1>1, <1>4
  <2>2. QED  BY <1>2, <1>4, <2>1
<1>5. QED  BY <1>2, <1>3, <1>4

\* The parts of TypeOK by name.
LEMMA Types ==
    TypeOK <=> /\ run \in Runs /\ batch \in Batches /\ challenge \in Challenges
               /\ stamps \in [Services -> 0 .. MaxSignins]
               /\ failures \in SUBSET Services
               /\ notice \in [tells: {"nothing", "all", "some"}, of: SUBSET Services]
               /\ known \in [read: BOOLEAN, unissued: SUBSET Services]
               /\ saved \in SUBSET Services
               /\ stored \in SUBSET Services
               /\ slot \in {"nobody", "mine", "other"}
               /\ codes \in [Services -> 0 .. MaxSignins + 1]
               /\ quiet \in BOOLEAN
BY DEF TypeOK, Runs, Batches, Challenges

\* A service that ends in a failure.
LEMMA Failed ==
    ASSUME IInv, NEW s \in Services, NEW outcome \in Outcomes, Fail(s, outcome),
           saved' = saved
    PROVE  /\ batch' \in Batches /\ failures' \in SUBSET Services
           /\ notice' \in [tells: {"nothing", "all", "some"}, of: SUBSET Services]
           /\ stored' \in SUBSET Services /\ quiet' \in BOOLEAN /\ known' = NotRead
           /\ stamps' \in [Services -> 0 .. MaxSignins]
           /\ \A u \in Services : u # s \/ outcome # "unissued" => stamps'[u] = stamps[u]
           /\ quiet' => /\ quiet
                        /\ \A u \in stored : u # s => u \in stored'
                        /\ outcome = "unissued" => s \in stored'
           /\ batch'.completed \subseteq saved /\ batch'.failed \subseteq failures'
           /\ NoticeHonest'
<1> DEFINE b == [batch EXCEPT !.failed = @ \cup {s}]
<1>1. /\ stored \in SUBSET Services /\ quiet \in BOOLEAN /\ batch \in Batches
      /\ failures \in SUBSET Services /\ stamps \in [Services -> 0 .. MaxSignins]
      /\ notice \in [tells: {"nothing", "all", "some"}, of: SUBSET Services]
  BY Types DEF IInv
<1>2. failures' = failures \cup {s} /\ Remember(s, outcome) /\ Advance(b)
      /\ stamps' = IF outcome = "unissued" THEN [stamps EXCEPT ![s] = 0] ELSE stamps
  BY DEF Fail
<1>3. b \in Batches /\ b.completed = batch.completed /\ b.failed = batch.failed \cup {s}
  BY <1>1 DEF Batches
<1>4. stamps' \in [Services -> 0 .. MaxSignins]
      /\ \A u \in Services : u # s \/ outcome # "unissued" => stamps'[u] = stamps[u]
  BY <1>1, <1>2, MaxAssumption
<1>5. batch.completed \subseteq saved /\ batch.failed \subseteq failures
  BY DEF IInv, RecordIsTrue
<1> HIDE DEF b
<1>6. /\ batch' \in Batches
      /\ notice' \in [tells: {"nothing", "all", "some"}, of: SUBSET Services]
      /\ batch'.completed \subseteq b.completed /\ batch'.failed \subseteq b.failed
      /\ \/ notice' = notice
         \/ /\ notice'.of \subseteq b.completed \cup b.failed
            /\ notice'.tells = "all" => b.failed = {}
  BY <1>1, <1>2, <1>3, Advanced
<1>7. b.completed \subseteq saved /\ b.failed \subseteq failures' /\ failures \subseteq failures'
  BY <1>2, <1>3, <1>5
<1>8. NoticeHonest'
  BY <1>6, <1>7 DEF IInv, NoticeHonest
<1>9. QED  BY <1>1, <1>2, <1>4, <1>6, <1>7, <1>8, Remembered

\* A service that ends with its receipt in Drive.
LEMMA Completed ==
    ASSUME IInv, NEW s \in saved, Complete(s), saved' = saved
    PROVE  /\ batch' \in Batches /\ failures' = failures
           /\ notice' \in [tells: {"nothing", "all", "some"}, of: SUBSET Services]
           /\ stored' \in SUBSET Services /\ quiet' = quiet /\ known' = NotRead
           /\ stamps' \in [Services -> 0 .. MaxSignins]
           /\ \A u \in Services : u # s => stamps'[u] = stamps[u]
           /\ \A u \in stored : u # s => u \in stored'
           /\ batch'.completed \subseteq saved /\ batch'.failed \subseteq failures'
           /\ NoticeHonest'
<1> DEFINE b == [batch EXCEPT !.completed = @ \cup {s}]
<1>1. /\ stored \in SUBSET Services /\ batch \in Batches /\ saved \in SUBSET Services
      /\ stamps \in [Services -> 0 .. MaxSignins]
      /\ notice \in [tells: {"nothing", "all", "some"}, of: SUBSET Services]
  BY Types DEF IInv
<1>2. Forget(s) /\ Advance(b) /\ stamps' = [stamps EXCEPT ![s] = 0] /\ failures' = failures
  BY DEF Complete
<1>3. b \in Batches /\ b.completed = batch.completed \cup {s} /\ b.failed = batch.failed
  BY <1>1 DEF Batches
<1>4. stamps' \in [Services -> 0 .. MaxSignins]
      /\ \A u \in Services : u # s => stamps'[u] = stamps[u]
  BY <1>1, <1>2, MaxAssumption
<1>5. batch.completed \subseteq saved /\ batch.failed \subseteq failures
  BY DEF IInv, RecordIsTrue
<1> HIDE DEF b
<1>6. /\ batch' \in Batches
      /\ notice' \in [tells: {"nothing", "all", "some"}, of: SUBSET Services]
      /\ batch'.completed \subseteq b.completed /\ batch'.failed \subseteq b.failed
      /\ \/ notice' = notice
         \/ /\ notice'.of \subseteq b.completed \cup b.failed
            /\ notice'.tells = "all" => b.failed = {}
  BY <1>1, <1>2, <1>3, Advanced
<1>7. b.completed \subseteq saved /\ b.failed \subseteq failures
  BY <1>3, <1>5
<1>8. NoticeHonest'
  BY <1>2, <1>6, <1>7 DEF IInv, NoticeHonest
<1>9. stored' \in SUBSET Services /\ quiet' = quiet /\ known' = NotRead
      /\ \A u \in stored : u # s => u \in stored'
  BY <1>1, <1>2 DEF Forget
<1>10. QED  BY <1>2, <1>4, <1>6, <1>7, <1>8, <1>9

-------------------------------------------------------------------------------
(* Steps that record no outcome and count no sign-in.                      *)

\* How services may come into hand and challenges be replaced without a sign-in:
\* a service stays in hand, is taken up from its challenge or left to it, or is
\* one whose code nobody sends.
Continues ==
    /\ run' = run \/ run'.pc # "waiting"
    /\ run'.pc \in InHand =>
         \/ run.pc \in InHand /\ run'.service = run.service
         \/ run'.service = challenge.service
         \/ run'.service \in GraphServices
    /\ \/ challenge'.service \in {0, challenge.service}
       \/ run.pc \in InHand /\ challenge'.service = run.service

LEMMA CodesKept ==
    ASSUME CodesAreCovered, UNCHANGED <<known, stored, quiet, codes>>,
           \A s \in CodeServices : stamps'[s] = stamps[s],
           run'.pc # "waiting" \/ UNCHANGED stamps,
           saved \subseteq saved', Continues,
           stamps \in [Services -> 0 .. MaxSignins], codes \in [Services -> 0 .. MaxSignins + 1]
    PROVE  CodesAreCovered'
<1>1. run'.pc = "waiting" => stamps'[run'.service] >= 1
  BY DEF Continues, CodesAreCovered
<1>2. ASSUME quiet', NEW s \in CodeServices, IsCounted(s)
      PROVE  IsCounted(s)'
  <2>1. codes[s] \in Nat /\ stamps[s] \in Nat /\ s \in Services
    BY MaxAssumption DEF CodeServices
  <2>2. Underway(s)' = 0 \/ Underway(s)' = Underway(s)
    BY DEF Underway, Continues
  <2>3. Underway(s) \in {0, 1}
    BY DEF Underway
  <2>4. QED  BY <1>2, <2>1, <2>2, <2>3 DEF IsCounted
<1>3. ASSUME NEW s \in CodeServices, IsSaved(s)
      PROVE  IsSaved(s)'
  BY <1>3 DEF IsSaved
<1>4. ASSUME NEW s \in CodeServices, IsSettled(s)
      PROVE  IsSettled(s)'
  <2>1. s # 0 /\ s \notin GraphServices
    BY DEF CodeServices, Services
  <2>2. run'.pc \in InHand => run'.service # s
    BY <1>4, <2>1 DEF IsSettled, Continues
  <2>3. challenge'.service # s
    BY <1>4, <2>1 DEF IsSettled, Continues
  <2>4. QED  BY <1>4, <2>2, <2>3 DEF IsSettled
<1>5. quiet' => \A s \in CodeServices : IsCounted(s)' \/ IsSaved(s)' \/ IsSettled(s)'
  BY <1>2, <1>3, <1>4 DEF CodesAreCovered
<1>6. QED  BY <1>1, <1>5 DEF CodesAreCovered

LEMMA NothingRecorded ==
    ASSUME IInv, UNCHANGED <<stamps, failures, known, stored, quiet, codes>>,
           saved \subseteq saved', saved' \in SUBSET Services,
           batch' \in {batch, NoBatch}, notice' \in {notice, NoNotice},
           run' \in Runs, challenge' \in Challenges, slot' \in {"nobody", "mine", "other"},
           HandsOK', HoldIsWatched', Continues,
           run'.seen \subseteq saved', run'.pc = "won" => run'.service \in saved'
    PROVE  IInv'
<1>1. TypeOK'
  BY NothingIs, Types DEF IInv, TypeOK, Runs, Challenges, Batches
<1>2. RecordIsTrue'
  BY NothingIs DEF IInv, RecordIsTrue
<1>3. NoticeHonest'
  BY NothingIs DEF IInv, NoticeHonest
<1>4. CodesAreCovered'
  BY Types, CodesKept DEF IInv
<1>5. QED  BY <1>1, <1>2, <1>3, <1>4 DEF IInv

\* Where the script rests or begins again there is nothing in hand to be right.
LEMMA HandsAtRest ==
    ASSUME run'.pc \notin InHand, challenge' # NoChallenge => challenge'.service \in Services
    PROVE  HandsOK'
BY DEF HandsOK, InHand, Unchallenged

\* The script ends or begins again, under the same challenge or without it.
LEMMA AtRest ==
    ASSUME IInv, UNCHANGED <<stamps, failures, known, saved, stored, quiet, codes>>,
           batch' \in {batch, NoBatch}, notice' \in {notice, NoNotice},
           run' \in Runs, run'.pc \notin InHand, run'.seen \subseteq saved,
           \/ challenge' = NoChallenge /\ slot' \in {"nobody", "other"}
           \/ challenge' = challenge /\ slot' = slot
           \/ /\ challenge' \in Challenges /\ challenge'.service = challenge.service
              /\ challenge # NoChallenge /\ slot' = slot
              /\ challenge'.live = challenge.live \/ slot # "mine"
    PROVE  IInv'
<1>1. /\ challenge \in Challenges /\ slot \in {"nobody", "mine", "other"}
      /\ saved \in SUBSET Services
      /\ challenge # NoChallenge => challenge.service \in Services
  BY Types DEF IInv, HandsOK
<1>2. /\ challenge' \in Challenges
      /\ slot' \in {"nobody", "mine", "other"}
      /\ challenge'.service = 0 \/ challenge'.service = challenge.service
      /\ challenge' # NoChallenge => challenge'.service \in Services
  BY <1>1, NothingIs
<1>3. /\ run'.pc \notin InHand
      /\ run'.pc \notin {"waiting", "fetching", "hold", "won"}
  BY DEF InHand
<1>4. HandsOK'
  <2>1. challenge' # NoChallenge => challenge'.service \in Services
    BY <1>2
  <2>2. QED  BY <1>3, <2>1, HandsAtRest
<1>5. HoldIsWatched'
  BY <1>1, <1>3, NothingIs DEF IInv, HoldIsWatched
<1>6. Continues
  <2>1. run' = run \/ run'.pc # "waiting"
    BY <1>3
  <2>2. challenge'.service \in {0, challenge.service}
    BY <1>2
  <2>3. QED  BY <1>3, <2>1, <2>2 DEF Continues
<1>7. run'.seen \subseteq saved' /\ (run'.pc = "won" => run'.service \in saved')
      /\ saved \subseteq saved' /\ saved' \in SUBSET Services
  BY <1>1, <1>3
<1>8. UNCHANGED <<stamps, failures, known, stored, quiet, codes>>
  OBVIOUS
<1>9. QED  BY <1>2, <1>4, <1>5, <1>6, <1>7, <1>8, NothingRecorded

LEMMA InitHolds == Init => IInv
<1> SUFFICES ASSUME Init PROVE IInv
  OBVIOUS
<1>1. /\ run = Idle /\ batch = NoBatch /\ challenge = NoChallenge /\ notice = NoNotice
      /\ known = NotRead /\ failures = {} /\ saved \in SUBSET Services
      /\ stored \in SUBSET Services /\ slot = "nobody" /\ quiet \in BOOLEAN
  BY DEF Init
<1>2. /\ stamps = [s \in Services |-> 0] /\ codes = [s \in Services |-> 0]
      /\ 0 \in 0 .. MaxSignins /\ 0 \in 0 .. MaxSignins + 1
  BY MaxAssumption DEF Init
<1>3. stamps \in [Services -> 0 .. MaxSignins] /\ codes \in [Services -> 0 .. MaxSignins + 1]
  BY <1>2
<1>4. TypeOK
  BY <1>1, <1>3, NothingIs, Types
<1>5. HandsOK
  BY <1>1, NothingIs DEF HandsOK, InHand, Unchallenged
<1>6. RecordIsTrue /\ NoticeHonest /\ HoldIsWatched
  BY <1>1, NothingIs DEF RecordIsTrue, NoticeHonest, HoldIsWatched
<1>7. ASSUME NEW s \in CodeServices PROVE IsCounted(s)
  BY <1>1, <1>2, NothingIs DEF IsCounted, Underway, CodeServices
<1>8. CodesAreCovered
  BY <1>1, <1>7, NothingIs DEF CodesAreCovered
<1>9. QED  BY <1>4, <1>5, <1>6, <1>8 DEF IInv

\* The page's actions that rest or begin again.
LEMMA ClickHolds == ASSUME IInv, NEW c \in Clicks, Click(c) PROVE IInv'
<1>1. run' = [Idle EXCEPT !.pc = "top", !.click = c]
      /\ UNCHANGED <<batch, challenge, stamps, failures, notice, known, saved, stored, quiet,
                     slot, codes>>
  BY DEF Click, session, drive
<1>2. run' \in Runs /\ run'.pc = "top" /\ run'.seen = {}
  BY <1>1, NothingIs DEF Idle, Runs, Places
<1>3. run'.pc \notin InHand
  BY <1>2 DEF InHand
<1>4. QED  BY <1>1, <1>2, <1>3, AtRest

LEMMA SnapshotHolds == ASSUME IInv, Snapshot PROVE IInv'
<1>1. run' = [run EXCEPT !.pc = "listed", !.seen = saved]
      /\ UNCHANGED <<batch, challenge, stamps, failures, notice, known, saved, stored, quiet,
                     slot, codes>>
  BY DEF Snapshot, session, drive
<1>2. run \in Runs /\ saved \in SUBSET Services
  BY Types DEF IInv
<1>3. run' \in Runs /\ run'.pc = "listed" /\ run'.seen = saved
  BY <1>1, <1>2 DEF Runs, Places
<1>4. run'.pc \notin InHand
  BY <1>3 DEF InHand
<1>5. QED  BY <1>1, <1>3, <1>4, AtRest

\* A run that ends, or begins again, has nothing in hand.
LEMMA EndsAtRest ==
    ASSUME Stop \/ Rerun
    PROVE  run' \in Runs /\ run'.pc \notin InHand /\ run'.seen \subseteq saved
BY RunEnds DEF InHand

\* A challenge that is dropped at rest.
LEMMA DropsAtRest ==
    ASSUME IInv, DropChallenge
    PROVE  challenge' = NoChallenge /\ slot' \in {"nobody", "other"}
BY Types, Dropped DEF IInv

LEMMA DriveDownHolds == ASSUME IInv, DriveDown PROVE IInv'
<1>1. batch' = NoBatch /\ DropChallenge /\ Stop
      /\ UNCHANGED <<stamps, failures, notice, known, saved, stored, quiet, codes>>
  BY DEF DriveDown, drive
<1>2. QED  BY <1>1, DropsAtRest, EndsAtRest, AtRest

LEMMA RestHolds == ASSUME IInv, Rest PROVE IInv'
<1>1. notice' = NoNotice /\ batch' = batch /\ DropChallenge /\ Stop
      /\ UNCHANGED <<stamps, failures, known, saved, stored, quiet, codes>>
  BY DEF Rest, drive
<1>2. QED  BY <1>1, DropsAtRest, EndsAtRest, AtRest

LEMMA OfferRestartHolds == ASSUME IInv, OfferRestart PROVE IInv'
<1>1. notice' = NoNotice /\ batch' = batch
      /\ UNCHANGED <<stamps, failures, known, saved, stored, quiet, codes>>
      /\ \/ DropChallenge /\ Rerun
         \/ Stop /\ UNCHANGED <<challenge, slot>>
  BY DEF OfferRestart, Restart, drive
<1>2. CASE DropChallenge /\ Rerun
  BY <1>1, <1>2, DropsAtRest, EndsAtRest, AtRest
<1>3. CASE Stop /\ UNCHANGED <<challenge, slot>>
  BY <1>1, <1>3, EndsAtRest, AtRest
<1>4. QED  BY <1>1, <1>2, <1>3

\* The script goes on to a place where it has nothing in hand.
LEMMA GoesOnAtRest ==
    ASSUME IInv, NEW pc \in {"submit", "form", "mirror"}, Goto(pc)
    PROVE  run' \in Runs /\ run'.pc \notin InHand /\ run'.seen \subseteq saved
<1>1. run \in Runs /\ pc \in Places /\ run.seen \subseteq saved
  BY Types DEF IInv, Places, RecordIsTrue
<1>2. run' \in Runs /\ run'.pc = pc /\ run'.seen = run.seen
  BY <1>1, RunGoesOn
<1>3. QED  BY <1>1, <1>2 DEF InHand

LEMMA FormHolds == ASSUME IInv, Form PROVE IInv'
<1> DEFINE pc == IF challenge.opened THEN "mirror" ELSE "form"
<1>1. notice' = NoNotice /\ run' = [run EXCEPT !.pc = pc, !.seen = {}]
      /\ UNCHANGED <<batch, challenge, stamps, failures, known, saved, stored, quiet, slot,
                     codes>>
  BY DEF Form, drive
<1>2. run \in Runs
  BY Types DEF IInv
<1>3. pc \in {"form", "mirror"} /\ pc \in Places
  BY DEF Places
<1> HIDE DEF pc
<1>4. run' \in Runs /\ run'.pc = pc /\ run'.seen = {}
  BY <1>1, <1>2, <1>3 DEF Runs
<1>5. run'.pc \notin InHand
  BY <1>3, <1>4 DEF InHand
<1>6. QED  BY <1>1, <1>4, <1>5, AtRest

LEMMA CodeBoxHolds == ASSUME IInv, CodeBox PROVE IInv'
<1>1. UNCHANGED <<batch, stamps, failures, notice, known, saved, stored, quiet, codes>>
      /\ \/ DropChallenge /\ Rerun
         \/ Goto("submit") /\ UNCHANGED <<challenge, slot>>
         \/ Stop /\ UNCHANGED <<challenge, slot>>
  BY DEF CodeBox, Restart, drive
<1>2. CASE DropChallenge /\ Rerun
  BY <1>1, <1>2, DropsAtRest, EndsAtRest, AtRest
<1>3. CASE Goto("submit") /\ UNCHANGED <<challenge, slot>>
  BY <1>1, <1>3, GoesOnAtRest, AtRest
<1>4. CASE Stop /\ UNCHANGED <<challenge, slot>>
  BY <1>1, <1>4, EndsAtRest, AtRest
<1>5. QED  BY <1>1, <1>2, <1>3, <1>4

\* A challenge that is only opened or closed stays this page's.
LEMMA Redrawn ==
    ASSUME IInv, challenge # NoChallenge, NEW kind \in ChallengeKinds, NEW opened \in BOOLEAN,
           challenge' \in {[challenge EXCEPT !.opened = opened],
                           [challenge EXCEPT !.kind = kind, !.opened = opened]}
    PROVE  challenge' \in Challenges /\ challenge'.service = challenge.service
           /\ challenge'.live = challenge.live
<1>1. challenge \in Challenges
  BY Types DEF IInv
<1>2. QED  BY <1>1 DEF Challenges

LEMMA ClosedGateHolds == ASSUME IInv, ClosedGate PROVE IInv'
<1>1. UNCHANGED <<batch, stamps, failures, notice, known, saved, stored, quiet, slot, codes>>
      /\ challenge.kind = "gate"
      /\ \/ Rerun /\ challenge' = [challenge EXCEPT !.opened = TRUE]
         \/ Stop /\ UNCHANGED challenge
  BY DEF ClosedGate, drive
<1>2. challenge # NoChallenge /\ "gate" \in ChallengeKinds
  BY <1>1 DEF NoChallenge, ChallengeKinds
<1>3. CASE Rerun /\ challenge' = [challenge EXCEPT !.opened = TRUE]
  BY <1>1, <1>2, <1>3, Redrawn, EndsAtRest, AtRest
<1>4. CASE Stop /\ UNCHANGED challenge
  BY <1>1, <1>4, EndsAtRest, AtRest
<1>5. QED  BY <1>1, <1>3, <1>4

LEMMA MirrorHolds == ASSUME IInv, Mirror PROVE IInv'
<1>1. UNCHANGED <<batch, stamps, failures, notice, known, saved, stored, quiet, codes>>
      /\ \/ DropChallenge /\ Rerun
         \/ /\ Holds /\ Goto("submit") /\ slot' = slot
            /\ challenge' = [challenge EXCEPT !.opened = FALSE]
         \/ Stop /\ UNCHANGED <<challenge, slot>>
  BY DEF Mirror, Restart, drive
<1>2. CASE DropChallenge /\ Rerun
  BY <1>1, <1>2, DropsAtRest, EndsAtRest, AtRest
<1>3. CASE /\ Holds /\ Goto("submit") /\ slot' = slot
           /\ challenge' = [challenge EXCEPT !.opened = FALSE]
  <2>1. challenge # NoChallenge /\ "gate" \in ChallengeKinds
    BY <1>3, NothingIs DEF Holds, ChallengeKinds
  <2>2. QED  BY <1>1, <1>3, <2>1, Redrawn, GoesOnAtRest, AtRest
<1>4. CASE Stop /\ UNCHANGED <<challenge, slot>>
  BY <1>1, <1>4, EndsAtRest, AtRest
<1>5. QED  BY <1>1, <1>2, <1>3, <1>4

LEMMA AskedAgainHolds ==
    ASSUME IInv, NEW kind \in ChallengeKinds, AskedAgain(kind) PROVE IInv'
<1>1. UNCHANGED <<batch, stamps, failures, notice, known, saved, stored, quiet, slot, codes>>
      /\ Rerun /\ run.pc = "resuming"
      /\ challenge' = [challenge EXCEPT !.kind = kind, !.opened = (kind = "gate")]
  BY DEF AskedAgain, AtPc, drive
<1>2. challenge # NoChallenge /\ (kind = "gate") \in BOOLEAN
  BY <1>1, NothingIs DEF IInv, HandsOK, InHand
<1>3. challenge' \in Challenges /\ challenge'.service = challenge.service
      /\ challenge'.live = challenge.live
  BY <1>1, <1>2, Redrawn
<1>4. QED  BY <1>1, <1>2, <1>3, EndsAtRest, AtRest

LEMMA InterruptHolds == ASSUME IInv, Interrupt PROVE IInv'
<1>1. Rerun /\ UNCHANGED <<batch, challenge, stamps, failures, notice, known, saved, stored,
                           quiet, slot, codes>>
  BY DEF Interrupt, session, drive
<1>2. QED  BY <1>1, EndsAtRest, AtRest

-------------------------------------------------------------------------------
(* Steps of a service that is in hand.                                     *)

\* The parts of IInv at hand.
LEMMA Parts ==
    ASSUME IInv
    PROVE  /\ run \in Runs /\ batch \in Batches /\ challenge \in Challenges
           /\ saved \in SUBSET Services /\ slot \in {"nobody", "mine", "other"}
           /\ run.seen \subseteq saved
           /\ run.pc \in InHand => run.service \in Services /\ run.service # 0
           /\ challenge # NoChallenge => challenge.service \in Services /\ challenge.service # 0
           /\ stamps \in [Services -> 0 .. MaxSignins]
           /\ codes \in [Services -> 0 .. MaxSignins + 1]
           /\ stored \in SUBSET Services /\ quiet \in BOOLEAN /\ failures \in SUBSET Services
           /\ known \in [read: BOOLEAN, unissued: SUBSET Services]
           /\ notice \in [tells: {"nothing", "all", "some"}, of: SUBSET Services]
BY Types, NothingIs DEF IInv, HandsOK, RecordIsTrue

LEMMA BeginResumeHolds == ASSUME IInv, BeginResume PROVE IInv'
<1>1. UNCHANGED <<batch, stamps, failures, notice, known, saved, stored, quiet, slot, codes>>
      /\ \/ /\ Holds /\ challenge' = challenge
            /\ run' = [run EXCEPT !.pc = "resuming", !.service = challenge.service]
         \/ ~Holds /\ Rerun /\ challenge' = [challenge EXCEPT !.live = FALSE]
  BY DEF BeginResume, drive
<1>2. CASE /\ Holds /\ challenge' = challenge
           /\ run' = [run EXCEPT !.pc = "resuming", !.service = challenge.service]
  <2>1. challenge # NoChallenge
    BY <1>2, NothingIs DEF Holds
  <2>2. challenge.service \in Services /\ challenge.service # 0
    BY <2>1, Parts
  <2>3. run' \in Runs /\ run'.pc = "resuming" /\ run'.service = challenge.service
        /\ run'.seen = run.seen
    BY <1>2, <2>2, Parts DEF Runs, Places
  <2>4. HandsOK'
    BY <1>2, <2>1, <2>2, <2>3 DEF HandsOK, InHand, Unchallenged
  <2>5. HoldIsWatched'
    BY <1>1, <1>2, <2>3 DEF IInv, HoldIsWatched
  <2>6. Continues
    BY <1>2, <2>3 DEF Continues
  <2>7. QED  BY <1>1, <1>2, <2>3, <2>4, <2>5, <2>6, Parts, NothingRecorded
<1>3. CASE ~Holds /\ Rerun /\ challenge' = [challenge EXCEPT !.live = FALSE]
  <2>1. challenge' \in Challenges /\ challenge'.service = challenge.service
        /\ challenge'.live = FALSE
    BY <1>3, Parts DEF Challenges
  <2>2. slot # "mine"
    BY <1>3 DEF IInv, HoldIsWatched, Holds
  <2>3. ASSUME challenge = NoChallenge PROVE challenge' = challenge
    <3>1. challenge.live = FALSE
      BY <2>3 DEF NoChallenge
    <3>2. [challenge EXCEPT !.live = challenge.live] = challenge
      BY Parts DEF Challenges
    <3>3. QED  BY <1>3, <3>1, <3>2
  <2>4. QED  BY <1>1, <1>3, <2>1, <2>2, <2>3, EndsAtRest, AtRest
<1>4. QED  BY <1>1, <1>2, <1>3

LEMMA FetchMailHolds == ASSUME IInv, NEW s \in Services, FetchMail(s) PROVE IInv'
<1>1. /\ run' = [Idle EXCEPT !.pc = "mail", !.service = s] /\ notice' = NoNotice
      /\ UNCHANGED <<batch, challenge, stamps, failures, known, saved, stored, quiet, slot,
                     codes>>
      /\ challenge = NoChallenge /\ s \in GraphServices
  BY DEF FetchMail, Executes, drive
<1>2. run' \in Runs /\ run'.pc = "mail" /\ run'.service = s /\ run'.seen = {}
  BY <1>1, RunTakes DEF Places
<1>3. HandsOK'
  BY <1>1, <1>2 DEF HandsOK, InHand, Unchallenged
<1>4. HoldIsWatched'
  BY <1>1, <1>2 DEF IInv, HoldIsWatched
<1>5. Continues
  BY <1>1, <1>2 DEF Continues
<1>6. QED  BY <1>1, <1>2, <1>3, <1>4, <1>5, Parts, NothingRecorded

\* What an acquisition comes to.
LEMMA Concluded ==
    ASSUME IInv, Concludes, run.pc \in InHand
    PROVE  /\ run' \in Runs /\ run'.pc \in {"won", "lost"} /\ run'.service = run.service
           /\ run'.pc = "lost" => run'.kind \in Outcomes
           /\ run'.seen \subseteq saved'
           /\ run'.pc = "won" => run'.service \in saved'
           /\ saved \subseteq saved' /\ saved' \in SUBSET Services
<1>1. /\ run \in Runs /\ run.seen \subseteq saved /\ saved \in SUBSET Services
      /\ run.service \in Services
  BY Parts
<1>2. CASE Goto("won") /\ saved' = saved \cup {run.service}
  <2>1. run' \in Runs /\ run'.pc = "won" /\ run'.service = run.service /\ run'.seen = run.seen
    BY <1>1, <1>2, RunGoesOn DEF Places
  <2>2. saved \subseteq saved' /\ saved' \in SUBSET Services /\ run.service \in saved'
    BY <1>1, <1>2
  <2>3. QED  BY <1>1, <2>1, <2>2
<1>3. ASSUME NEW o \in Outcomes, run' = [run EXCEPT !.pc = "lost", !.kind = o],
             saved' \in {saved, saved \cup {run.service}}
      PROVE  /\ run' \in Runs /\ run'.pc \in {"won", "lost"} /\ run'.service = run.service
             /\ run'.pc = "lost" => run'.kind \in Outcomes
             /\ run'.seen \subseteq saved'
             /\ run'.pc = "won" => run'.service \in saved'
             /\ saved \subseteq saved' /\ saved' \in SUBSET Services
  <2>1. run' \in Runs /\ run'.pc = "lost" /\ run'.service = run.service
        /\ run'.seen = run.seen /\ run'.kind = o
    BY <1>1, <1>3 DEF Runs, Places
  <2>2. saved \subseteq saved' /\ saved' \in SUBSET Services
    BY <1>1, <1>3
  <2>3. QED  BY <1>1, <2>1, <2>2
<1>4. \/ Goto("won") /\ saved' = saved \cup {run.service}
      \/ \E o \in Outcomes : /\ run' = [run EXCEPT !.pc = "lost", !.kind = o]
                            /\ saved' \in {saved, saved \cup {run.service}}
  BY DEF Concludes
<1>5. QED  BY <1>2, <1>3, <1>4

LEMMA FetchedHolds == ASSUME IInv, Fetched PROVE IInv'
<1>1. /\ run.pc \in {"fetching", "mail"} /\ Concludes
      /\ UNCHANGED <<batch, challenge, notice, stamps, failures, known, stored, quiet, slot,
                     codes>>
  BY DEF Fetched, session
<1>2. run.pc \in InHand /\ challenge = NoChallenge /\ run.service \in Services
  BY <1>1 DEF IInv, HandsOK, InHand, Unchallenged
<1>3. HandsOK'
  BY <1>1, <1>2, Concluded DEF HandsOK, InHand, Unchallenged
<1>4. HoldIsWatched'
  BY <1>1, <1>2, Concluded DEF IInv, HoldIsWatched
<1>5. Continues
  BY <1>1, <1>2, Concluded DEF Continues
<1>6. QED  BY <1>1, <1>2, <1>3, <1>4, <1>5, Parts, Concluded, NothingRecorded

LEMMA ResumedHolds == ASSUME IInv, Resumed PROVE IInv'
<1>1. /\ run.pc = "resuming" /\ Concludes /\ DropChallenge
      /\ UNCHANGED <<batch, notice, stamps, failures, known, stored, quiet, codes>>
  BY DEF Resumed, AtPc
<1>2. run.pc \in InHand /\ run.service \in Services
  BY <1>1 DEF IInv, HandsOK, InHand
<1>3. /\ challenge' = NoChallenge /\ challenge' \in Challenges
      /\ slot' \in {"nobody", "other"}
      /\ challenge'.service = 0
  BY <1>1, Parts, Dropped, NothingIs DEF IInv
<1>4. HandsOK'
  BY <1>1, <1>2, <1>3, Concluded DEF HandsOK, InHand, Unchallenged
<1>5. HoldIsWatched'
  BY <1>3 DEF HoldIsWatched
<1>6. Continues
  BY <1>1, <1>2, <1>3, Concluded DEF Continues
<1>7. QED  BY <1>1, <1>2, <1>3, <1>4, <1>5, <1>6, Concluded, NothingRecorded

LEMMA HoldHolds == ASSUME IInv, Hold PROVE IInv'
<1>1. /\ run.pc = "hold" /\ slot' = "mine" /\ Rerun
      /\ challenge' = [service |-> run.service, kind |-> run.kind, live |-> TRUE,
                       opened |-> FALSE]
      /\ UNCHANGED <<batch, stamps, failures, notice, known, saved, stored, quiet, codes>>
  BY DEF Hold, AtPc, drive
<1>2. run.service \in Services /\ run.kind \in ChallengeKinds /\ run.pc \in InHand
  BY <1>1 DEF IInv, HandsOK, InHand
<1>3. challenge' \in Challenges /\ challenge'.service = run.service /\ challenge'.live
  BY <1>1, <1>2 DEF Challenges
<1>4. challenge' # NoChallenge
  BY <1>3, NothingIs
<1>5. run' \in Runs /\ run'.pc = "top" /\ run'.seen = {}
  BY <1>1, NothingIs DEF Rerun, Runs, Idle, Places
<1>6. run'.pc \notin InHand
  BY <1>5 DEF InHand
<1>7. HandsOK'
  BY <1>2, <1>3, <1>6, HandsAtRest
<1>8. HoldIsWatched'
  BY <1>3, <1>4, <1>5 DEF HoldIsWatched
<1>9. Continues
  BY <1>2, <1>3, <1>5, <1>6 DEF Continues
<1>10. QED  BY <1>1, <1>3, <1>5, <1>7, <1>8, <1>9, Parts, NothingRecorded

LEMMA HoldRefusedHolds == ASSUME IInv, HoldRefused PROVE IInv'
<1>1. /\ run.pc = "hold" /\ run' = [run EXCEPT !.pc = "lost", !.kind = "failed"]
      /\ UNCHANGED <<batch, challenge, stamps, failures, notice, known, saved, stored, quiet,
                     slot, codes>>
  BY DEF HoldRefused, AtPc, session, drive
<1>2. run.pc \in InHand /\ challenge = NoChallenge /\ run.service \in Services
  BY <1>1 DEF IInv, HandsOK, InHand, Unchallenged
<1>3. run' \in Runs /\ run'.pc = "lost" /\ run'.kind = "failed"
      /\ run'.service = run.service /\ run'.seen = run.seen
  BY <1>1, Parts DEF Runs, Places, Outcomes
<1>4. HandsOK'
  BY <1>1, <1>2, <1>3 DEF HandsOK, InHand, Unchallenged, Outcomes
<1>5. HoldIsWatched'
  BY <1>1, <1>2, <1>3 DEF IInv, HoldIsWatched
<1>6. Continues
  BY <1>1, <1>2, <1>3 DEF Continues
<1>7. QED  BY <1>1, <1>3, <1>4, <1>5, <1>6, Parts, NothingRecorded

\* A gate takes the sign-in off the count, and no gate has a code.
LEMMA AskedForHolds ==
    ASSUME IInv, NEW kind \in ChallengeKinds, AskedFor(kind) PROVE IInv'
<1>1. /\ run.pc = "fetching" /\ run' = [run EXCEPT !.pc = "hold", !.kind = kind]
      /\ kind = "gate" => run.service \in GateServices
      /\ stamps' = IF kind = "gate" THEN [stamps EXCEPT ![run.service] = 0] ELSE stamps
      /\ UNCHANGED <<batch, challenge, failures, notice, known, saved, stored, quiet, slot,
                     codes>>
  BY DEF AskedFor, AtPc, drive
<1>2. run.pc \in InHand /\ challenge = NoChallenge /\ run.service \in Services
  BY <1>1 DEF IInv, HandsOK, InHand, Unchallenged
<1>3. run' \in Runs /\ run'.pc = "hold" /\ run'.kind = kind
      /\ run'.service = run.service /\ run'.seen = run.seen
  BY <1>1, Parts DEF Runs, Places
<1>4. HandsOK'
  BY <1>1, <1>2, <1>3 DEF HandsOK, InHand, Unchallenged
<1>5. HoldIsWatched'
  BY <1>1, <1>2, <1>3 DEF IInv, HoldIsWatched
<1>6. Continues
  BY <1>1, <1>2, <1>3 DEF Continues
<1>7. stamps' \in [Services -> 0 .. MaxSignins]
  <2>1. 0 \in 0 .. MaxSignins
    BY MaxAssumption
  <2>2. QED  BY <1>1, <1>2, <2>1, Parts
<1>8. \A s \in CodeServices : stamps'[s] = stamps[s]
  BY <1>1, Parts DEF CodeServices
<1>9. CodesAreCovered'
  BY <1>1, <1>3, <1>6, <1>8, Parts, CodesKept DEF IInv
<1>10. TypeOK'
  BY <1>1, <1>3, <1>7, Parts DEF TypeOK, Runs, Batches, Challenges
<1>11. RecordIsTrue' /\ NoticeHonest'
  BY <1>1, <1>3 DEF IInv, RecordIsTrue, NoticeHonest
<1>12. QED  BY <1>4, <1>5, <1>9, <1>10, <1>11 DEF IInv

\* The world touches neither the script nor its challenge.
LEMMA ElsewhereHolds ==
    ASSUME IInv, UNCHANGED <<run, batch, challenge, stamps, failures, notice, known, stored,
                             quiet, codes>>,
           saved \subseteq saved', saved' \in SUBSET Services,
           slot' = slot \/ slot' \in {"nobody", "other"}
    PROVE  IInv'
<1>1. HandsOK' /\ HoldIsWatched'
  BY DEF IInv, HandsOK, HoldIsWatched
<1>2. Continues
  BY DEF Continues, InHand
<1>3. run'.seen \subseteq saved' /\ (run'.pc = "won" => run'.service \in saved')
  BY DEF IInv, RecordIsTrue
<1>4. QED  BY <1>1, <1>2, <1>3, Parts, NothingRecorded

LEMMA HoldEndsHolds == ASSUME IInv, HoldEnds PROVE IInv'
BY Parts, ElsewhereHolds DEF HoldEnds, session, drive

LEMMA OtherHoldsHolds == ASSUME IInv, OtherHolds PROVE IInv'
BY Parts, ElsewhereHolds DEF OtherHolds, session, drive

LEMMA OtherSavesHolds == ASSUME IInv, NEW s \in Services, OtherSaves(s) PROVE IInv'
<1>1. saved \subseteq saved' /\ saved' \in SUBSET Services
  BY Parts DEF OtherSaves
<1>2. QED  BY <1>1, ElsewhereHolds DEF OtherSaves, session

-------------------------------------------------------------------------------
(* Steps that end a service.                                               *)

\* The codes of s are covered before a step that ends s, and they stay covered:
\* its receipt is there, or its count stands, or its "not billed yet" is stored.
LEMMA CodesOfOneEnd ==
    ASSUME IInv, NEW s \in Services,
           run'.pc \in {"idle", "top"}, UNCHANGED <<saved, codes>>, known' = NotRead,
           quiet' => quiet /\ \A u \in stored : u # s => u \in stored',
           \A u \in Services : u # s => stamps'[u] = stamps[u],
           challenge'.service = 0 \/ challenge'.service = challenge.service,
           \/ s \in saved
           \/ stamps'[s] = stamps[s] /\ ~IsSettled(s)
           \/ challenge'.service # s /\ (quiet' => s \in stored')
    PROVE  CodesAreCovered'
<1>1. run'.pc # "waiting" /\ run'.pc \notin InHand
  BY DEF InHand
<1>2. ASSUME quiet', NEW u \in CodeServices
      PROVE  /\ u \in Services /\ u # 0 /\ codes[u] \in Nat /\ stamps[u] \in 0 .. MaxSignins
             /\ IsCounted(u) \/ IsSaved(u) \/ IsSettled(u)
             /\ Underway(u) \in {0, 1} /\ Underway(u)' = 0
  <2>1. u \in Services /\ u # 0 /\ codes[u] \in Nat /\ stamps[u] \in 0 .. MaxSignins
    BY Parts, MaxAssumption DEF CodeServices, Services
  <2>2. IsCounted(u) \/ IsSaved(u) \/ IsSettled(u)
    BY <1>2 DEF IInv, CodesAreCovered
  <2>3. Underway(u) \in {0, 1} /\ Underway(u)' = 0
    BY <1>1 DEF Underway
  <2>4. QED  BY <2>1, <2>2, <2>3
<1>3. ASSUME quiet', NEW u \in CodeServices
      PROVE  codes[u] <= MaxSignins
  BY <1>2, <1>3, MaxAssumption DEF IsCounted, IsSaved, IsSettled
<1>4. ASSUME quiet', NEW u \in CodeServices, IsCounted(u), stamps'[u] = stamps[u]
      PROVE  IsCounted(u)'
  BY <1>2, <1>4 DEF IsCounted
<1>5. ASSUME NEW u \in CodeServices, IsSaved(u)
      PROVE  IsSaved(u)'
  BY <1>5 DEF IsSaved
<1>6. ASSUME quiet', NEW u \in CodeServices, u # s, IsSettled(u)
      PROVE  IsSettled(u)'
  BY <1>1, <1>2, <1>3, <1>6, NothingIs DEF IsSettled
<1>7. ASSUME quiet', NEW u \in CodeServices
      PROVE  IsCounted(u)' \/ IsSaved(u)' \/ IsSettled(u)'
  <2>1. CASE u # s
    <3>1. stamps'[u] = stamps[u]
      BY <1>2, <1>7, <2>1
    <3>2. IsCounted(u) \/ IsSaved(u) \/ IsSettled(u)
      BY <1>2, <1>7
    <3>3. QED  BY <1>4, <1>5, <1>6, <1>7, <2>1, <3>1, <3>2
  <2>2. CASE u = s /\ s \in saved
    BY <1>3, <1>7, <2>2 DEF IsSaved
  <2>3. CASE u = s /\ stamps'[s] = stamps[s] /\ ~IsSettled(s)
    BY <1>2, <1>4, <1>5, <1>7, <2>3
  <2>4. CASE u = s /\ challenge'.service # s /\ (quiet' => s \in stored')
    <3>1. ~NotRead.read /\ codes[u] <= MaxSignins
      BY <1>3, <1>7, NothingIs
    <3>2. IsSettled(u)'
      BY <1>1, <1>7, <2>4, <3>1 DEF IsSettled
    <3>3. QED  BY <3>2
  <2>5. QED  BY <2>1, <2>2, <2>3, <2>4
<1>8. QED  BY <1>1, <1>7 DEF CodesAreCovered

\* A service that ends leaves the rest of the page in order.
LEMMA OneEnds ==
    ASSUME IInv, Rerun, UNCHANGED <<saved, codes>>, known' = NotRead, CodesAreCovered',
           batch' \in Batches, failures' \in SUBSET Services,
           notice' \in [tells: {"nothing", "all", "some"}, of: SUBSET Services],
           stored' \in SUBSET Services, quiet' \in BOOLEAN,
           stamps' \in [Services -> 0 .. MaxSignins],
           batch'.completed \subseteq saved, batch'.failed \subseteq failures', NoticeHonest',
           \/ challenge' = NoChallenge /\ slot' \in {"nobody", "other"}
           \/ UNCHANGED <<challenge, slot>>
    PROVE  IInv'
<1>1. run' \in Runs /\ run'.pc = "top" /\ run'.seen = {}
  BY NothingIs DEF Rerun, Idle, Runs, Places
<1>2. run'.pc \notin InHand /\ run'.pc \notin {"won", "waiting", "fetching", "hold"}
  BY <1>1 DEF InHand
<1>3. challenge' \in Challenges /\ slot' \in {"nobody", "mine", "other"}
  BY Parts, NothingIs
<1>4. HoldIsWatched'
  BY <1>2 DEF IInv, HoldIsWatched
<1>5. HandsOK'
  BY <1>2, Parts, HandsAtRest
<1>6. RecordIsTrue'
  BY <1>1 DEF RecordIsTrue
<1>7. TypeOK'
  BY <1>1, <1>3, Parts, NothingIs DEF TypeOK, Runs, Batches, Challenges
<1>8. QED  BY <1>4, <1>5, <1>6, <1>7 DEF IInv

LEMMA ReceiptAppearedHolds == ASSUME IInv, ReceiptAppeared PROVE IInv'
<1> DEFINE s == challenge.service
<1>1. DropChallenge /\ Complete(s) /\ Rerun /\ UNCHANGED <<saved, codes>> /\ s \in run.seen
  BY DEF ReceiptAppeared
<1>2. s \in saved /\ s \in Services
  BY <1>1, Parts
<1> HIDE DEF s
<1>3. challenge' = NoChallenge /\ slot' \in {"nobody", "other"}
  BY <1>1, DropsAtRest
<1>4. run'.pc \in {"idle", "top"} /\ challenge'.service = 0
  BY <1>1, <1>3, RunEnds, NothingIs
<1>5. CodesAreCovered'
  BY <1>1, <1>2, <1>4, Completed, CodesOfOneEnd
<1>6. QED  BY <1>1, <1>2, <1>3, <1>5, Completed, Parts, OneEnds

LEMMA WonHolds == ASSUME IInv, Won PROVE IInv'
<1> DEFINE s == run.service
<1>1. run.pc = "won" /\ Complete(s) /\ Rerun /\ UNCHANGED <<saved, codes, challenge, slot>>
  BY DEF Won, AtPc
<1>2. s \in saved /\ s \in Services
  BY <1>1 DEF IInv, RecordIsTrue, HandsOK, InHand
<1> HIDE DEF s
<1>3. run'.pc \in {"idle", "top"}
  BY <1>1, RunEnds
<1>4. CodesAreCovered'
  BY <1>1, <1>2, <1>3, Completed, CodesOfOneEnd
<1>5. QED  BY <1>1, <1>2, <1>4, Completed, Parts, OneEnds

\* A failure keeps the count of its service, unless it is "not billed yet".
LEMMA GiveUpHolds == ASSUME IInv, GiveUp PROVE IInv'
<1> DEFINE s == challenge.service
<1>1. /\ DropChallenge /\ Fail(s, "failed") /\ Rerun /\ UNCHANGED <<saved, codes>>
      /\ challenge # NoChallenge
  BY DEF GiveUp, Challenged
<1>2. s \in Services /\ "failed" \in Outcomes /\ ~IsSettled(s)
  BY <1>1, Parts DEF Outcomes, IsSettled
<1> HIDE DEF s
<1>3. challenge' = NoChallenge /\ slot' \in {"nobody", "other"}
  BY <1>1, DropsAtRest
<1>4. run'.pc \in {"idle", "top"} /\ challenge'.service = 0
  BY <1>1, <1>3, RunEnds, NothingIs
<1>5. \A u \in Services : stamps'[u] = stamps[u]
  BY <1>1, <1>2, Failed
<1>6. CodesAreCovered'
  BY <1>1, <1>2, <1>4, <1>5, Failed, CodesOfOneEnd
<1>7. QED  BY <1>1, <1>2, <1>3, <1>6, Failed, OneEnds

LEMMA CappedHolds == ASSUME IInv, NEW s \in Services, Capped(s) PROVE IInv'
<1>1. /\ Fail(s, "failed") /\ Rerun /\ UNCHANGED <<challenge, saved, slot, codes>>
      /\ known.read /\ s \notin known.unissued
  BY DEF Capped, Executes
<1>2. "failed" \in Outcomes /\ ~IsSettled(s)
  BY <1>1 DEF Outcomes, IsSettled
<1>3. run'.pc \in {"idle", "top"}
  BY <1>1, RunEnds
<1>4. \A u \in Services : stamps'[u] = stamps[u]
  BY <1>1, <1>2, Failed
<1>5. CodesAreCovered'
  BY <1>1, <1>2, <1>3, <1>4, Failed, CodesOfOneEnd
<1>6. QED  BY <1>1, <1>2, <1>5, Failed, OneEnds

LEMMA SettledHolds == ASSUME IInv, NEW s \in Services, Settled(s) PROVE IInv'
<1>1. /\ Fail(s, "unissued") /\ Rerun /\ UNCHANGED <<challenge, saved, slot, codes>>
      /\ challenge = NoChallenge
  BY DEF Settled, Executes
<1>2. "unissued" \in Outcomes /\ challenge'.service # s
  BY <1>1, NothingIs DEF Outcomes
<1>3. run'.pc \in {"idle", "top"}
  BY <1>1, RunEnds
<1>4. CodesAreCovered'
  BY <1>1, <1>2, <1>3, Failed, CodesOfOneEnd
<1>5. QED  BY <1>1, <1>2, <1>4, Failed, OneEnds

LEMMA LostHolds == ASSUME IInv, Lost PROVE IInv'
<1> DEFINE s == run.service
<1>1. /\ run.pc = "lost" /\ Fail(s, run.kind) /\ Rerun
      /\ UNCHANGED <<challenge, saved, slot, codes>>
  BY DEF Lost, AtPc
<1>2. /\ s \in Services /\ run.kind \in Outcomes /\ challenge = NoChallenge
      /\ run.pc \in InHand
  BY <1>1 DEF IInv, HandsOK, InHand, Unchallenged
<1>3. ~IsSettled(s)
  BY <1>2 DEF IsSettled
<1> HIDE DEF s
<1>4. run'.pc \in {"idle", "top"} /\ challenge'.service # s
  BY <1>1, <1>2, RunEnds, NothingIs
<1>5. CASE run.kind = "unissued"
  <2>1. CodesAreCovered'
    BY <1>1, <1>2, <1>4, <1>5, Failed, CodesOfOneEnd
  <2>2. QED  BY <1>1, <1>2, <2>1, Failed, OneEnds
<1>6. CASE run.kind # "unissued"
  <2>1. \A u \in Services : stamps'[u] = stamps[u]
    BY <1>1, <1>2, <1>6, Failed
  <2>2. CodesAreCovered'
    BY <1>1, <1>2, <1>3, <1>4, <2>1, Failed, CodesOfOneEnd
  <2>3. QED  BY <1>1, <1>2, <2>2, Failed, OneEnds
<1>7. QED  BY <1>5, <1>6

-------------------------------------------------------------------------------
(* A new batch, what is read of the outcomes, and the sign-in itself.      *)

LEMMA QueueBatchHolds == ASSUME IInv, NEW ids \in SUBSET Services, QueueBatch(ids) PROVE IInv'
<1>1. /\ slot' = "nobody" /\ challenge' = NoChallenge /\ Rerun /\ notice' = NoNotice
      /\ batch' = [NoBatch EXCEPT !.ids = ids] /\ failures' = failures \ ids
      /\ UNCHANGED <<stamps, known, saved, stored, quiet, codes>>
  BY DEF QueueBatch, drive
<1>2. batch' \in Batches /\ batch'.completed = {} /\ batch'.failed = {}
  BY <1>1 DEF NoBatch, Batches
<1>3. run' \in Runs /\ run'.pc = "top" /\ run'.seen = {}
  BY <1>1, NothingIs DEF Rerun, Idle, Runs, Places
<1>4. run'.pc \notin InHand /\ run'.pc \notin {"won", "waiting"}
  BY <1>3 DEF InHand
<1>5. TypeOK'
  BY <1>1, <1>2, <1>3, Parts, NothingIs DEF TypeOK, Runs, Batches, Challenges
<1>6. HandsOK'
  BY <1>1, <1>4, HandsAtRest
<1>7. RecordIsTrue' /\ NoticeHonest' /\ HoldIsWatched'
  BY <1>1, <1>2, <1>3, <1>4, NothingIs DEF RecordIsTrue, NoticeHonest, HoldIsWatched
<1>8. Continues
  BY <1>1, <1>4, NothingIs DEF Continues
<1>9. CodesAreCovered'
  BY <1>1, <1>4, <1>8, Parts, CodesKept DEF IInv
<1>10. QED  BY <1>5, <1>6, <1>7, <1>9 DEF IInv

\* What is read is what is stored, or the day is not quiet.
LEMMA RecallOutcomesHolds ==
    ASSUME IInv, NEW k \in {stored, {}}, RecallOutcomes(k) PROVE IInv'
<1>1. /\ run.pc = "listed" /\ known' = [read |-> TRUE, unissued |-> k]
      /\ quiet' = (quiet /\ k = stored)
      /\ UNCHANGED <<run, batch, challenge, stamps, failures, notice, saved, stored, slot,
                     codes>>
  BY DEF RecallOutcomes, AtPc
<1>2. run.pc \notin InHand /\ run.pc # "waiting"
  BY <1>1 DEF InHand
<1>3. k \in SUBSET Services
  BY Parts
<1>4. known' \in [read: BOOLEAN, unissued: SUBSET Services] /\ quiet' \in BOOLEAN
      /\ known'.unissued = k
  BY <1>1, <1>3
<1>5. TypeOK'
  BY <1>1, <1>4 DEF IInv, TypeOK
<1>6. HandsOK' /\ RecordIsTrue' /\ NoticeHonest' /\ HoldIsWatched'
  BY <1>1 DEF IInv, HandsOK, RecordIsTrue, NoticeHonest, HoldIsWatched
<1>7. ASSUME quiet', NEW s \in CodeServices
      PROVE  IsCounted(s)' \/ IsSaved(s)' \/ IsSettled(s)'
  <2>1. quiet /\ k = stored
    BY <1>1, <1>7, Zenon
  <2>2. IsCounted(s) \/ IsSaved(s) \/ IsSettled(s)
    BY <2>1 DEF IInv, CodesAreCovered
  <2>3. Underway(s)' = Underway(s)
    BY <1>1 DEF Underway
  <2>4. IsCounted(s) => IsCounted(s)'
    BY <1>1, <2>3 DEF IsCounted
  <2>5. IsSaved(s) => IsSaved(s)'
    BY <1>1 DEF IsSaved
  <2>6. IsSettled(s) => IsSettled(s)'
    BY <1>1, <1>4, <2>1 DEF IsSettled
  <2>7. QED  BY <2>2, <2>4, <2>5, <2>6
<1>8. CodesAreCovered'
  BY <1>1, <1>2, <1>7 DEF CodesAreCovered
<1>9. QED  BY <1>5, <1>6, <1>8 DEF IInv

\* A sign-in is counted before it is made, and no settled service is attempted.
LEMMA AttemptHolds == ASSUME IInv, NEW s \in Services, Attempt(s) PROVE IInv'
<1>1. /\ run.pc = "listed" /\ challenge = NoChallenge /\ known.read
      /\ s \notin known.unissued /\ stamps[s] < MaxSignins
      /\ stamps' = [stamps EXCEPT ![s] = @ + 1] /\ notice' = NoNotice
      /\ run' = [Idle EXCEPT !.pc = "waiting", !.service = s]
      /\ UNCHANGED <<batch, challenge, failures, known, saved, stored, quiet, slot, codes>>
  BY DEF Attempt, Executes, AtPc, drive
<1>2. run' \in Runs /\ run'.pc = "waiting" /\ run'.service = s /\ run'.seen = {}
  BY <1>1, RunTakes DEF Places
<1>3. stamps[s] \in Nat /\ stamps[s] + 1 \in 0 .. MaxSignins
  BY <1>1, Parts, MaxAssumption
<1>4. /\ stamps' \in [Services -> 0 .. MaxSignins] /\ stamps'[s] = stamps[s] + 1
      /\ \A u \in Services : u # s => stamps'[u] = stamps[u]
  BY <1>1, <1>3, Parts
<1>5. TypeOK'
  BY <1>1, <1>2, <1>4, Parts, NothingIs DEF TypeOK, Runs, Batches, Challenges
<1>6. HandsOK'
  BY <1>1, <1>2 DEF HandsOK, InHand, Unchallenged
<1>7. RecordIsTrue' /\ NoticeHonest'
  BY <1>1, <1>2, NothingIs DEF IInv, RecordIsTrue, NoticeHonest
<1>8. HoldIsWatched'
  BY <1>1 DEF IInv, HoldIsWatched
<1>9. ASSUME quiet', NEW u \in CodeServices
      PROVE  IsCounted(u)' \/ IsSaved(u)' \/ IsSettled(u)'
  <2>1. quiet /\ u \in Services /\ codes[u] \in Nat /\ stamps[u] \in Nat
    BY <1>1, <1>9, Parts, MaxAssumption DEF CodeServices
  <2>2. IsCounted(u) \/ IsSaved(u) \/ IsSettled(u)
    BY <2>1 DEF IInv, CodesAreCovered
  <2>3. Underway(u) = 0 /\ Underway(u)' = IF u = s THEN 1 ELSE 0
    BY <1>1, <1>2 DEF Underway
  <2>4. IsCounted(u) => IsCounted(u)'
    BY <1>1, <1>4, <2>1, <2>3 DEF IsCounted
  <2>5. IsSaved(u) => IsSaved(u)'
    BY <1>1 DEF IsSaved
  <2>6. IsSettled(u) => u # s
    BY <1>1 DEF IsSettled
  <2>7. IsSettled(u) => IsSettled(u)'
    BY <1>1, <1>2, <2>6 DEF IsSettled
  <2>8. QED  BY <2>2, <2>4, <2>5, <2>7
<1>10. stamps'[run'.service] >= 1
  BY <1>2, <1>3, <1>4
<1>11. CodesAreCovered'
  BY <1>9, <1>10 DEF CodesAreCovered
<1>12. QED  BY <1>5, <1>6, <1>7, <1>8, <1>11 DEF IInv

\* The code is sent by a sign-in that is counted, to a service not in Drive.
LEMMA SignInHolds == ASSUME IInv, SignIn PROVE IInv'
<1> DEFINE s == run.service
<1>1. /\ run.pc = "waiting"
      /\ UNCHANGED <<batch, challenge, stamps, failures, notice, known, saved, stored, quiet,
                     slot>>
      /\ \/ s \in saved /\ Goto("won") /\ codes' = codes
         \/ /\ s \notin saved /\ Goto("fetching")
            /\ codes' = [codes EXCEPT ![s] = Count(s, codes[s])]
  BY DEF SignIn, AtPc, session, drive
<1>2. s \in Services /\ challenge = NoChallenge /\ run.pc \in InHand
  BY <1>1 DEF IInv, HandsOK, InHand, Unchallenged
<1>3. slot # "mine"
  BY <1>1 DEF IInv, HoldIsWatched
<1> HIDE DEF s
<1>4. CASE s \in saved /\ Goto("won") /\ codes' = codes
  <2>1. run' \in Runs /\ run'.pc = "won" /\ run'.service = s /\ run'.seen = run.seen
    BY <1>4, Parts, RunGoesOn DEF Places, s
  <2>2. HandsOK'
    BY <1>1, <1>2, <2>1 DEF HandsOK, InHand, Unchallenged
  <2>3. HoldIsWatched'
    BY <1>1, <1>3 DEF HoldIsWatched
  <2>4. Continues
    BY <1>1, <1>2, <2>1 DEF Continues, s
  <2>5. QED  BY <1>1, <1>4, <2>1, <2>2, <2>3, <2>4, Parts, NothingRecorded
<1>5. CASE /\ s \notin saved /\ Goto("fetching")
           /\ codes' = [codes EXCEPT ![s] = Count(s, codes[s])]
  <2>1. run' \in Runs /\ run'.pc = "fetching" /\ run'.service = s /\ run'.seen = run.seen
    BY <1>5, Parts, RunGoesOn DEF Places, s
  <2>2. codes[s] \in 0 .. MaxSignins + 1
    BY <1>2, Parts
  <2>3. /\ Count(s, codes[s]) \in 0 .. MaxSignins + 1
        /\ Count(s, codes[s]) <= codes[s] + 1
    BY <2>2, MaxAssumption DEF Count
  <2>4. /\ codes' \in [Services -> 0 .. MaxSignins + 1] /\ codes'[s] <= codes[s] + 1
        /\ \A u \in Services : u # s => codes'[u] = codes[u]
    BY <1>2, <1>5, <2>3, Parts
  <2>5. TypeOK'
    BY <1>1, <2>1, <2>4, Parts DEF TypeOK, Runs, Batches, Challenges
  <2>6. HandsOK'
    BY <1>1, <1>2, <2>1 DEF HandsOK, InHand, Unchallenged
  <2>7. RecordIsTrue' /\ NoticeHonest'
    BY <1>1, <2>1 DEF IInv, RecordIsTrue, NoticeHonest
  <2>8. HoldIsWatched'
    BY <1>1, <1>3 DEF HoldIsWatched
  <2>9. ASSUME quiet', NEW u \in CodeServices
        PROVE  IsCounted(u)' \/ IsSaved(u)' \/ IsSettled(u)'
    <3>1. /\ quiet /\ u \in Services /\ codes[u] \in Nat /\ stamps[u] \in Nat
          /\ codes'[u] \in Nat
      BY <1>1, <2>4, <2>9, Parts, MaxAssumption DEF CodeServices
    <3>2. IsCounted(u) \/ IsSaved(u) \/ IsSettled(u)
      BY <3>1 DEF IInv, CodesAreCovered
    <3>3. Underway(u)' = 0
      BY <2>1 DEF Underway
    <3>4. CASE u = s
      <4>1. ~IsSaved(u) /\ ~IsSettled(u) /\ Underway(u) = 1
        BY <1>1, <1>2, <1>5, <3>4 DEF IsSaved, IsSettled, Underway, s
      <4>2. codes'[u] <= stamps'[u]
        BY <1>1, <2>4, <3>1, <3>2, <3>4, <4>1 DEF IsCounted
      <4>3. QED  BY <1>1, <3>1, <3>3, <4>2 DEF IsCounted
    <3>5. CASE u # s
      <4>1. codes'[u] = codes[u] /\ Underway(u) = 0
        BY <2>4, <3>1, <3>5 DEF Underway, s
      <4>2. IsCounted(u) => IsCounted(u)'
        BY <1>1, <3>3, <4>1 DEF IsCounted
      <4>3. IsSaved(u) => IsSaved(u)'
        BY <1>1, <4>1 DEF IsSaved
      <4>4. IsSettled(u) => IsSettled(u)'
        BY <1>1, <2>1, <3>5, <4>1 DEF IsSettled
      <4>5. QED  BY <3>2, <4>2, <4>3, <4>4
    <3>6. QED  BY <3>4, <3>5
  <2>10. CodesAreCovered'
    BY <2>1, <2>9 DEF CodesAreCovered
  <2>11. QED  BY <2>5, <2>6, <2>7, <2>8, <2>10 DEF IInv
<1>6. QED  BY <1>1, <1>4, <1>5

-------------------------------------------------------------------------------
(* A new session, a new day, and the other tabs.                           *)

\* Where no code has been sent every code sent is counted.
LEMMA CodesAfresh ==
    ASSUME codes' = [s \in Services |-> 0], stamps' \in [Services -> 0 .. MaxSignins],
           run'.pc = "waiting" => stamps'[run'.service] >= 1
    PROVE  CodesAreCovered' /\ codes' \in [Services -> 0 .. MaxSignins + 1]
<1>1. ASSUME NEW s \in CodeServices PROVE IsCounted(s)'
  <2>1. s \in Services /\ codes'[s] = 0 /\ stamps'[s] \in Nat
    BY MaxAssumption DEF CodeServices
  <2>2. CASE run'.pc = "waiting" /\ run'.service = s
    BY <2>1, <2>2 DEF IsCounted, Underway
  <2>3. CASE ~(run'.pc = "waiting" /\ run'.service = s)
    BY <2>1, <2>3 DEF IsCounted, Underway
  <2>4. QED  BY <2>2, <2>3
<1>2. 0 \in 0 .. MaxSignins + 1
  BY MaxAssumption
<1>3. QED  BY <1>1, <1>2 DEF CodesAreCovered

LEMMA NoStamps == [s \in Services |-> 0] \in [Services -> 0 .. MaxSignins]
<1>1. 0 \in 0 .. MaxSignins
  BY MaxAssumption
<1>2. QED  BY <1>1

LEMMA ReloadHolds == ASSUME IInv, Reload PROVE IInv'
<1>1. /\ Rerun /\ batch' = NoBatch /\ challenge' = NoChallenge /\ failures' = {}
      /\ notice' = NoNotice /\ known' = NotRead
      /\ slot' = IF slot = "mine" THEN "other" ELSE slot
      /\ stamps' = [s \in Services |-> 0] /\ codes' = [s \in Services |-> 0]
      /\ UNCHANGED <<saved, stored, quiet>>
  BY DEF Reload, drive
<1>2. run' \in Runs /\ run'.pc = "top" /\ run'.seen = {}
  BY <1>1, NothingIs DEF Rerun, Idle, Runs, Places
<1>3. run'.pc \notin InHand /\ run'.pc \notin {"won", "waiting"}
  BY <1>2 DEF InHand
<1>4. slot' \in {"nobody", "other"}
  BY <1>1, Parts
<1>5. stamps' \in [Services -> 0 .. MaxSignins]
  BY <1>1, NoStamps
<1>6. CodesAreCovered' /\ codes' \in [Services -> 0 .. MaxSignins + 1]
  BY <1>1, <1>3, <1>5, CodesAfresh
<1>7. TypeOK'
  BY <1>1, <1>2, <1>4, <1>5, <1>6, Parts, NothingIs DEF TypeOK, Runs, Batches, Challenges
<1>8. HandsOK'
  BY <1>1, <1>3, HandsAtRest
<1>9. RecordIsTrue' /\ NoticeHonest' /\ HoldIsWatched'
  BY <1>1, <1>2, <1>3, <1>4, NothingIs DEF RecordIsTrue, NoticeHonest, HoldIsWatched
<1>10. QED  BY <1>6, <1>7, <1>8, <1>9 DEF IInv

LEMMA OtherRemembersHolds ==
    ASSUME IInv, NEW S \in SUBSET Services, OtherRemembers(S) PROVE IInv'
<1>1. /\ stored' = S /\ quiet' = FALSE
      /\ UNCHANGED <<run, batch, challenge, stamps, failures, notice, known, saved, slot, codes>>
  BY DEF OtherRemembers, session
<1>2. TypeOK'
  BY <1>1 DEF IInv, TypeOK
<1>3. HandsOK' /\ RecordIsTrue' /\ NoticeHonest' /\ HoldIsWatched'
  BY <1>1 DEF IInv, HandsOK, RecordIsTrue, NoticeHonest, HoldIsWatched
<1>4. CodesAreCovered'
  BY <1>1 DEF IInv, CodesAreCovered
<1>5. QED  BY <1>2, <1>3, <1>4 DEF IInv

LEMMA CoolOffHolds == ASSUME IInv, CoolOff PROVE IInv'
<1>1. /\ run.pc = "idle"
      /\ stamps' = [s \in Services |-> 0] /\ codes' = [s \in Services |-> 0]
      /\ UNCHANGED <<run, batch, challenge, failures, notice, known, saved, stored, quiet, slot>>
  BY DEF CoolOff, AtPc, drive
<1>2. stamps' \in [Services -> 0 .. MaxSignins]
  BY <1>1, NoStamps
<1>3. CodesAreCovered' /\ codes' \in [Services -> 0 .. MaxSignins + 1]
  BY <1>1, <1>2, CodesAfresh
<1>4. TypeOK'
  BY <1>1, <1>2, <1>3 DEF IInv, TypeOK
<1>5. HandsOK' /\ RecordIsTrue' /\ NoticeHonest' /\ HoldIsWatched'
  BY <1>1 DEF IInv, HandsOK, RecordIsTrue, NoticeHonest, HoldIsWatched
<1>6. QED  BY <1>3, <1>4, <1>5 DEF IInv

LEMMA NextDayHolds == ASSUME IInv, NextDay PROVE IInv'
<1>1. /\ stored' = {} /\ quiet' = TRUE /\ known' = [known EXCEPT !.unissued = {}]
      /\ codes' = [s \in Services |-> 0]
      /\ UNCHANGED <<run, batch, challenge, stamps, failures, notice, saved, slot>>
  BY DEF NextDay
<1>2. known' \in [read: BOOLEAN, unissued: SUBSET Services]
  BY <1>1, Parts
<1>3. CodesAreCovered' /\ codes' \in [Services -> 0 .. MaxSignins + 1]
  <2>1. stamps' \in [Services -> 0 .. MaxSignins]
    BY <1>1, Parts
  <2>2. run'.pc = "waiting" => stamps'[run'.service] >= 1
    BY <1>1 DEF IInv, CodesAreCovered
  <2>3. QED  BY <1>1, <2>1, <2>2, CodesAfresh
<1>4. TypeOK'
  BY <1>1, <1>2, <1>3 DEF IInv, TypeOK
<1>5. HandsOK' /\ RecordIsTrue' /\ NoticeHonest' /\ HoldIsWatched'
  BY <1>1 DEF IInv, HandsOK, RecordIsTrue, NoticeHonest, HoldIsWatched
<1>6. QED  BY <1>3, <1>4, <1>5 DEF IInv

-------------------------------------------------------------------------------
(* The theorems.                                                           *)

LEMMA StutterHolds == ASSUME IInv, UNCHANGED vars PROVE IInv'
BY Parts, ElsewhereHolds DEF vars, session, drive

LEMMA ScriptHolds == ASSUME IInv, Script PROVE IInv'
<1>1. CASE \/ Snapshot \/ DriveDown \/ ReceiptAppeared \/ Rest \/ OfferRestart \/ GiveUp
           \/ Form \/ CodeBox \/ ClosedGate \/ Mirror \/ SignIn \/ Fetched \/ Hold
           \/ HoldRefused \/ Won \/ Lost \/ BeginResume \/ Resumed
  BY <1>1, SnapshotHolds, DriveDownHolds, ReceiptAppearedHolds, RestHolds, OfferRestartHolds,
     GiveUpHolds, FormHolds, CodeBoxHolds, ClosedGateHolds, MirrorHolds, SignInHolds,
     FetchedHolds, HoldHolds, HoldRefusedHolds, WonHolds, LostHolds, BeginResumeHolds,
     ResumedHolds
<1>2. ASSUME NEW ids \in SUBSET Services, QueueBatch(ids) PROVE IInv'
  BY <1>2, QueueBatchHolds
<1>3. CASE RecallOutcomes(stored) \/ RecallOutcomes({})
  <2>1. stored \in {stored, {}} /\ {} \in {stored, {}}
    OBVIOUS
  <2>2. QED  BY <1>3, <2>1, RecallOutcomesHolds
<1>4. ASSUME NEW s \in Services, FetchMail(s) \/ Settled(s) \/ Capped(s) \/ Attempt(s)
      PROVE  IInv'
  BY <1>4, FetchMailHolds, SettledHolds, CappedHolds, AttemptHolds
<1>5. ASSUME NEW kind \in ChallengeKinds, AskedFor(kind) \/ AskedAgain(kind) PROVE IInv'
  BY <1>5, AskedForHolds, AskedAgainHolds
<1>6. QED  BY <1>1, <1>2, <1>3, <1>4, <1>5 DEF Script

LEMMA WorldHolds == ASSUME IInv, World PROVE IInv'
<1>1. CASE Interrupt \/ Reload \/ HoldEnds \/ OtherHolds \/ CoolOff \/ NextDay
  BY <1>1, InterruptHolds, ReloadHolds, HoldEndsHolds, OtherHoldsHolds, CoolOffHolds,
     NextDayHolds
<1>2. ASSUME NEW c \in Clicks, Click(c) PROVE IInv'
  BY <1>2, ClickHolds
<1>3. ASSUME NEW s \in Services, OtherSaves(s) PROVE IInv'
  BY <1>3, OtherSavesHolds
<1>4. ASSUME NEW S \in SUBSET Services, OtherRemembers(S) PROVE IInv'
  BY <1>4, OtherRemembersHolds
<1>5. QED  BY <1>1, <1>2, <1>3, <1>4 DEF World

\* The invariant is kept by every step of the page and of the world around it.
THEOREM PageInvariant == Spec => []IInv
<1>1. IInv /\ [Next]_vars => IInv'
  BY ScriptHolds, WorldHolds, StutterHolds DEF Next
<1>2. QED  BY InitHolds, <1>1, PTL DEF Spec

\* The page's state has the values the code gives it.
THEOREM TypeIsOK == Spec => []TypeOK
<1>1. IInv => TypeOK
  BY DEF IInv
<1>2. QED  BY PageInvariant, <1>1, PTL

\* What the owner is told at the end of a batch is so (_finish_batch), whatever
\* the other tabs did in the meantime.
THEOREM OwnerIsToldTheTruth == Spec => []NoticeHonest
<1>1. IInv => NoticeHonest
  BY DEF IInv
<1>2. QED  BY PageInvariant, <1>1, PTL

\* On a quiet day no service sends the owner more codes than MAX_SIGNIN_ATTEMPTS,
\* although "not billed yet" takes its sign-ins off the count.
THEOREM CodesStayCapped == Spec => []CodesCapped
<1>1. IInv => CodesCapped
  <2> SUFFICES ASSUME IInv, quiet, NEW s \in CodeServices PROVE codes[s] <= MaxSignins
    BY DEF CodesCapped
  <2>1. codes[s] \in Nat /\ stamps[s] \in 0 .. MaxSignins /\ Underway(s) \in {0, 1}
    BY Parts, MaxAssumption DEF CodeServices, Underway
  <2>2. IsCounted(s) \/ IsSaved(s) \/ IsSettled(s)
    BY DEF IInv, CodesAreCovered
  <2>3. QED  BY <2>1, <2>2, MaxAssumption DEF IsCounted, IsSaved, IsSettled
<1>2. QED  BY PageInvariant, <1>1, PTL

\* The page's own hold is a challenge it can still end or resume, and is never in
\* the way of a sign-in of its own.
THEOREM HoldStaysWatched == Spec => []HoldIsWatched
<1>1. IInv => HoldIsWatched
  BY DEF IInv
<1>2. QED  BY PageInvariant, <1>1, PTL

===============================================================================
