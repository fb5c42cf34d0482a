--------------------------- MODULE ReceiptSavesProofs --------------------------
(***************************************************************************)
(* One receipt of a service and month, for any number of services, names,  *)
(* manual saves and crashes.  The lock alone does not give it: a look at   *)
(* Drive is good as long as whoever looked still has the lock.             *)
(***************************************************************************)
EXTENDS ReceiptSaves, TLAPS

AcquirerPlaces == {"idle", "wants", "fetching", "saving", "asking"}
Acquirers == [pc: AcquirerPlaces, live: BOOLEAN,
              file: [service: Services \cup {0}, name: Names \cup {0}]]
UploadPlaces == {"none", "sent", "admitted", "holding", "saving"}
UploadStates == [pc: UploadPlaces, file: Files \cup {NoFile}]

\* What each of those under way has in hand.
InHand ==
    /\ acquirer.pc # "idle" => acquirer.file.service \in Services
    /\ acquirer.pc = "saving" => acquirer.file \in Files
    /\ \A u \in Uploads : upload[u].pc # "none" => upload[u].file \in Files

\* Who is past the first look has the lock.
LockIsHeld ==
    /\ acquirer.pc \in {"fetching", "saving"} => lock = {TheThread}
    /\ \A u \in Uploads : upload[u].pc \in {"holding", "saving"} => lock = {u}

\* What a holder of the lock found missing still is.
LookIsGood ==
    /\ acquirer.pc = "saving" => ~Stored(acquirer.file.service)
    /\ \A u \in Uploads : upload[u].pc = "saving" => ~Stored(upload[u].file.service)

-------------------------------------------------------------------------------
(* The records that are written.                                           *)

Typed ==
    /\ folder \subseteq Files
    /\ lock \subseteq Uploads \cup {TheThread}
    /\ month \in BOOLEAN
    /\ acquirer \in Acquirers
    /\ upload \in [Uploads -> UploadStates]
    /\ form \in Uploads \cup {0}
    /\ crashes \in 0 .. MaxCrashes

IInv == Typed /\ InHand /\ LockIsHeld /\ LookIsGood /\ OneReceipt

LEMMA TypesAre == TypeOK <=> Typed
BY DEF TypeOK, Typed, Acquirers, AcquirerPlaces, UploadStates, UploadPlaces

LEMMA IdleIsOne == Idle \in Acquirers /\ Idle.pc = "idle"
BY DEF Idle, Acquirers, AcquirerPlaces, NoFile

LEMMA AcquirerMoves ==
    ASSUME NEW a \in Acquirers, NEW pc \in AcquirerPlaces, NEW b, b = [a EXCEPT !.pc = pc]
    PROVE  b \in Acquirers /\ b.pc = pc /\ b.file = a.file /\ b.live = a.live
BY DEF Acquirers, AcquirerPlaces

LEMMA AcquirerNames ==
    ASSUME NEW a \in Acquirers, a.file.service \in Services, NEW n \in Names,
           NEW b, b = [a EXCEPT !.pc = "saving", !.file.name = n]
    PROVE  /\ b \in Acquirers /\ b.pc = "saving" /\ b.live = a.live
           /\ b.file \in Files /\ b.file.service = a.file.service
BY DEF Acquirers, AcquirerPlaces, Files

LEMMA NoUploadIsOne == NoUpload \in UploadStates /\ NoUpload.pc = "none"
BY DEF NoUpload, UploadStates, UploadPlaces

\* One upload moves on with its document, or is over, and the others stay as they are.
LEMMA UploadMoves ==
    ASSUME Typed, NEW u \in Uploads, NEW pc \in UploadPlaces,
           Step(u, pc)
    PROVE  /\ upload' \in [Uploads -> UploadStates]
           /\ upload'[u].pc = pc /\ upload'[u].file = upload[u].file
           /\ \A v \in Uploads \ {u} : upload'[v] = upload[v]
BY DEF Step, Typed, UploadStates, UploadPlaces

LEMMA UploadEnds ==
    ASSUME Typed, NEW u \in Uploads, Answer(u)
    PROVE  /\ upload' \in [Uploads -> UploadStates] /\ upload'[u].pc = "none"
           /\ \A v \in Uploads \ {u} : upload'[v] = upload[v]
           /\ form' \in Uploads \cup {0}
BY NoUploadIsOne DEF Answer, Typed

\* A receipt that is missing can be put there; those of other services stay missing.
LEMMA MissingMayBeSaved ==
    ASSUME OneReceipt, NEW file, ~Stored(file.service), Upsert(file)
    PROVE  OneReceipt'
BY DEF OneReceipt, Stored, Upsert

LEMMA InitHolds == ASSUME MaxCrashes \in Nat, Init PROVE IInv
<1>1. Typed
  <2>1. acquirer \in Acquirers /\ upload \in [Uploads -> UploadStates]
    BY IdleIsOne, NoUploadIsOne DEF Init
  <2>2. folder = {} /\ lock = {} /\ month = FALSE /\ form = 0 /\ crashes \in 0 .. MaxCrashes
    BY DEF Init
  <2>3. QED  BY <2>1, <2>2 DEF Typed
<1>2. acquirer.pc = "idle" /\ \A u \in Uploads : upload[u].pc = "none"
  BY IdleIsOne, NoUploadIsOne DEF Init
<1>3. InHand /\ LockIsHeld /\ LookIsGood
  BY <1>2 DEF InHand, LockIsHeld, LookIsGood
<1>4. OneReceipt
  BY DEF Init, OneReceipt
<1>5. QED  BY <1>1, <1>3, <1>4 DEF IInv

-------------------------------------------------------------------------------
(* The thread's steps.                                                     *)

\* A step of the thread that leaves Drive alone.
LEMMA ThreadMoves ==
    ASSUME IInv, UNCHANGED <<folder, month, upload, form, crashes>>,
           acquirer' \in Acquirers,
           acquirer'.pc # "idle" => acquirer'.file.service \in Services,
           acquirer'.pc = "saving" => acquirer'.file \in Files
                                       /\ ~Stored(acquirer'.file.service),
           acquirer'.pc \in {"fetching", "saving"} => lock' = {TheThread},
           \/ lock' = lock
           \/ lock = {} /\ lock' = {TheThread}
           \/ lock = {TheThread} /\ lock' = {},
           TheThread \notin Uploads
    PROVE  IInv'
<1> USE DEF IInv
<1>1. Typed'
  BY DEF Typed
<1>2. InHand'
  BY DEF InHand
<1>3. LockIsHeld'
  BY DEF LockIsHeld
<1>4. LookIsGood' /\ OneReceipt'
  BY DEF LookIsGood, OneReceipt, Stored
<1>5. QED  BY <1>1, <1>2, <1>3, <1>4

LEMMA AcquirerKeeps ==
    ASSUME IInv, TheThread \notin Uploads,
           \/ \E s \in Services : Select(s)
           \/ AcquirerLooks \/ AcquirerFails \/ AcquirerAsks \/ AcquirerResumes
           \/ \E n \in Names : AcquirerFetches(n)
    PROVE  IInv'
<1>1. CASE \E s \in Services : Select(s)
  <2>1. PICK s \in Services : Select(s)
    BY <1>1
  <2>2. acquirer' = [pc |-> "wants", file |-> [NoFile EXCEPT !.service = s], live |-> TRUE]
    BY <2>1 DEF Select
  <2>3. acquirer' \in Acquirers /\ acquirer'.pc = "wants" /\ acquirer'.file.service = s
    BY <2>2 DEF Acquirers, AcquirerPlaces, NoFile
  <2>4. QED  BY <2>1, <2>3, ThreadMoves DEF Select
<1>2. CASE AcquirerLooks
  <2>1. CASE acquirer' = Idle /\ UNCHANGED lock
    BY <1>2, <2>1, IdleIsOne, ThreadMoves DEF AcquirerLooks
  <2>2. CASE acquirer.live /\ LockFor(TheThread) /\ Thread("fetching")
    <3>1. acquirer' \in Acquirers /\ acquirer'.pc = "fetching" /\ acquirer'.file = acquirer.file
      BY <2>2, AcquirerMoves DEF Thread, IInv, Typed, AcquirerPlaces
    <3>2. acquirer.pc = "wants" /\ lock = {} /\ lock' = {TheThread}
      BY <1>2, <2>2 DEF AcquirerLooks, LockFor
    <3>3. QED  BY <1>2, <3>1, <3>2, ThreadMoves DEF AcquirerLooks, IInv, InHand
  <2>3. QED  BY <1>2, <2>1, <2>2 DEF AcquirerLooks
<1>3. CASE AcquirerFails
  BY <1>3, IdleIsOne, ThreadMoves DEF AcquirerFails, IInv, LockIsHeld
<1>4. CASE AcquirerAsks
  <2>1. acquirer' \in Acquirers /\ acquirer'.pc = "asking" /\ acquirer'.file = acquirer.file
    BY <1>4, AcquirerMoves DEF AcquirerAsks, Thread, IInv, Typed, AcquirerPlaces
  <2>2. lock = {TheThread} /\ lock' = {} /\ acquirer.pc = "fetching"
    BY <1>4 DEF AcquirerAsks, IInv, LockIsHeld
  <2>3. QED  BY <1>4, <2>1, <2>2, ThreadMoves DEF AcquirerAsks, IInv, InHand
<1>5. CASE AcquirerResumes
  <2>1. CASE acquirer' = Idle
    BY <1>5, <2>1, IdleIsOne, ThreadMoves DEF AcquirerResumes
  <2>2. CASE Thread("wants")
    <3>1. acquirer' \in Acquirers /\ acquirer'.pc = "wants" /\ acquirer'.file = acquirer.file
      BY <2>2, AcquirerMoves DEF Thread, IInv, Typed, AcquirerPlaces
    <3>2. QED  BY <1>5, <3>1, ThreadMoves DEF AcquirerResumes, IInv, InHand
  <2>3. QED  BY <1>5, <2>1, <2>2 DEF AcquirerResumes
<1>6. CASE \E n \in Names : AcquirerFetches(n)
  <2>1. PICK n \in Names : AcquirerFetches(n)
    BY <1>6
  <2>2. lock = {TheThread}
    BY <2>1 DEF AcquirerFetches, IInv, LockIsHeld
  <2>3. CASE Stored(acquirer.file.service)
    BY <2>1, <2>2, <2>3, IdleIsOne, ThreadMoves DEF AcquirerFetches
  <2>4. CASE ~Stored(acquirer.file.service)
    <3>1. acquirer.file.service \in Services
      BY <2>1 DEF AcquirerFetches, IInv, InHand
    <3>2. acquirer' = [acquirer EXCEPT !.pc = "saving", !.file.name = n] /\ lock' = lock
      BY <2>1, <2>4 DEF AcquirerFetches
    <3>3. /\ acquirer' \in Acquirers /\ acquirer'.pc = "saving"
          /\ acquirer'.file \in Files /\ acquirer'.file.service = acquirer.file.service
      BY <3>1, <3>2, AcquirerNames DEF IInv, Typed
    <3>4. ~Stored(acquirer'.file.service)
      BY <2>4, <3>3
    <3>5. QED  BY <2>1, <2>2, <3>1, <3>2, <3>3, <3>4, ThreadMoves DEF AcquirerFetches
  <2>5. QED  BY <2>3, <2>4
<1>7. QED  BY <1>1, <1>2, <1>3, <1>4, <1>5, <1>6

LEMMA AcquirerSavesOne == ASSUME IInv, TheThread \notin Uploads, AcquirerSaves PROVE IInv'
<1>1. acquirer.pc = "saving" /\ lock = {TheThread} /\ lock' = {} /\ acquirer' = Idle
  BY DEF AcquirerSaves, IInv, LockIsHeld
<1>2. folder' = folder \/ Upsert(acquirer.file)
  BY DEF AcquirerSaves
<1>3. acquirer.file \in Files /\ ~Stored(acquirer.file.service)
  BY <1>1 DEF IInv, InHand, LookIsGood
<1>4. OneReceipt'
  BY <1>2, <1>3, MissingMayBeSaved DEF IInv, OneReceipt
<1>5. \A u \in Uploads : upload'[u].pc \notin {"holding", "saving"}
  BY <1>1 DEF AcquirerSaves, IInv, LockIsHeld
<1>6. LockIsHeld' /\ LookIsGood' /\ InHand'
  BY <1>1, <1>5, IdleIsOne DEF AcquirerSaves, IInv, LockIsHeld, LookIsGood, InHand
<1>7. Typed'
  BY <1>1, <1>2, <1>3, IdleIsOne DEF AcquirerSaves, IInv, Typed, Upsert
<1>8. QED  BY <1>4, <1>6, <1>7 DEF IInv

-------------------------------------------------------------------------------
(* The manual saves, the page, and the process.                            *)

\* A step of a manual save that leaves Drive alone.
LEMMA UploadKeeps ==
    ASSUME IInv, NEW u \in Uploads, TheThread \notin Uploads,
           UNCHANGED <<folder, month, acquirer, crashes>>,
           upload' \in [Uploads -> UploadStates], form' \in Uploads \cup {0},
           \A v \in Uploads \ {u} : upload'[v] = upload[v],
           upload'[u].pc # "none" => upload'[u].file \in Files,
           upload'[u].pc = "saving" => ~Stored(upload'[u].file.service),
           upload'[u].pc \in {"holding", "saving"} => lock' = {u},
           \/ lock' = lock
           \/ lock = {} /\ lock' = {u}
           \/ lock = {u} /\ lock' = {}
    PROVE  IInv'
<1>1. Typed'
  BY DEF IInv, Typed
<1>2. InHand'
  BY DEF IInv, InHand
<1>3. LockIsHeld'
  BY DEF IInv, LockIsHeld
<1>4. LookIsGood' /\ OneReceipt'
  BY DEF IInv, LookIsGood, OneReceipt, Stored
<1>5. QED  BY <1>1, <1>2, <1>3, <1>4 DEF IInv

LEMMA ManualKeeps ==
    ASSUME IInv, TheThread \notin Uploads, NEW u \in Uploads,
           \/ \E file \in Files : Press(u, file)
           \/ Admit(u) \/ UploadLooks(u) \/ UploadLooksAgain(u)
    PROVE  IInv'
<1> USE DEF IInv
<1>1. CASE \E file \in Files : Press(u, file)
  <2>1. PICK file \in Files : Press(u, file)
    BY <1>1
  <2>2. /\ upload' \in [Uploads -> UploadStates] /\ upload'[u].pc = "sent"
        /\ upload'[u].file = file /\ \A v \in Uploads \ {u} : upload'[v] = upload[v]
    BY <2>1 DEF Press, Typed, UploadStates, UploadPlaces
  <2>3. QED  BY <2>1, <2>2, UploadKeeps DEF Press
<1>2. CASE Admit(u)
  <2>1. CASE Step(u, "admitted") /\ UNCHANGED form
    <3>1. upload'[u].pc = "admitted" /\ upload'[u].file = upload[u].file
      BY <2>1, UploadMoves DEF UploadPlaces
    <3>2. upload[u].file \in Files
      BY <1>2 DEF Admit, InHand
    <3>3. QED  BY <1>2, <2>1, <3>1, <3>2, UploadMoves, UploadKeeps
              DEF Admit, UploadPlaces, Typed
  <2>2. CASE Answer(u)
    BY <1>2, <2>2, UploadEnds, UploadKeeps DEF Admit
  <2>3. QED  BY <1>2, <2>1, <2>2 DEF Admit
<1>3. CASE UploadLooks(u)
  <2>1. CASE Answer(u) /\ UNCHANGED lock
    BY <1>3, <2>1, UploadEnds, UploadKeeps DEF UploadLooks
  <2>2. CASE LockFor(u) /\ Step(u, "holding") /\ UNCHANGED form
    <3>1. upload'[u].pc = "holding" /\ upload'[u].file = upload[u].file
      BY <2>2, UploadMoves DEF UploadPlaces
    <3>2. upload[u].file \in Files /\ lock = {} /\ lock' = {u}
      BY <1>3, <2>2 DEF UploadLooks, InHand, LockFor
    <3>3. QED  BY <1>3, <2>2, <3>1, <3>2, UploadMoves, UploadKeeps
              DEF UploadLooks, UploadPlaces, Typed
  <2>3. QED  BY <1>3, <2>1, <2>2 DEF UploadLooks
<1>4. CASE UploadLooksAgain(u)
  <2>1. lock = {u} /\ upload[u].file \in Files
    BY <1>4 DEF UploadLooksAgain, InHand, LockIsHeld
  <2>2. CASE Answer(u) /\ lock' = {}
    BY <1>4, <2>1, <2>2, UploadEnds, UploadKeeps DEF UploadLooksAgain
  <2>3. CASE /\ ~Stored(upload[u].file.service)
             /\ Step(u, "saving") /\ UNCHANGED <<form, lock>>
    <3>1. upload'[u].pc = "saving" /\ upload'[u].file = upload[u].file
      BY <2>3, UploadMoves DEF UploadPlaces
    <3>2. QED  BY <1>4, <2>1, <2>3, <3>1, UploadMoves, UploadKeeps
              DEF UploadLooksAgain, UploadPlaces, Typed
  <2>4. QED  BY <1>4, <2>2, <2>3 DEF UploadLooksAgain
<1>5. QED  BY <1>1, <1>2, <1>3, <1>4

LEMMA ManualSavesOne ==
    ASSUME IInv, TheThread \notin Uploads, NEW u \in Uploads, UploadSaves(u) PROVE IInv'
<1>1. upload[u].pc = "saving" /\ lock = {u} /\ lock' = {} /\ Answer(u)
  BY DEF UploadSaves, IInv, LockIsHeld
<1>2. folder' = folder \/ Upsert(upload[u].file)
  BY DEF UploadSaves
<1>3. upload[u].file \in Files /\ ~Stored(upload[u].file.service)
  BY <1>1 DEF IInv, InHand, LookIsGood
<1>4. OneReceipt'
  BY <1>2, <1>3, MissingMayBeSaved DEF IInv, OneReceipt
<1>5. /\ upload' \in [Uploads -> UploadStates] /\ upload'[u].pc = "none"
      /\ \A v \in Uploads \ {u} : upload'[v] = upload[v]
      /\ form' \in Uploads \cup {0}
  BY <1>1, UploadEnds DEF IInv
<1>6. /\ \A v \in Uploads : upload'[v].pc \notin {"holding", "saving"}
      /\ acquirer.pc \notin {"fetching", "saving"}
  BY <1>1, <1>5 DEF IInv, LockIsHeld
<1>7. LockIsHeld' /\ LookIsGood' /\ InHand'
  BY <1>5, <1>6 DEF UploadSaves, IInv, LockIsHeld, LookIsGood, InHand
<1>8. Typed'
  BY <1>1, <1>2, <1>3, <1>5 DEF UploadSaves, IInv, Typed, Upsert
<1>9. QED  BY <1>4, <1>7, <1>8 DEF IInv

\* A crash may leave the one document behind that was being written.
LEMMA CrashKeeps ==
    ASSUME IInv, MaxCrashes \in Nat, TheThread \notin Uploads, Crash PROVE IInv'
<1> DEFINE writing == {upload[u].file : u \in {v \in Uploads : upload[v].pc = "saving"}}
                      \cup (IF acquirer.pc = "saving" /\ acquirer.live
                            THEN {acquirer.file} ELSE {})
<1>1. PICK done \in SUBSET writing : folder' = folder \cup done
  BY DEF Crash
<1>2. \A f \in writing : f \in Files /\ ~Stored(f.service)
  BY DEF IInv, InHand, LookIsGood
<1>3. \A f, g \in writing : f = g
  BY DEF IInv, LockIsHeld
<1>4. OneReceipt'
  BY <1>1, <1>2, <1>3 DEF IInv, OneReceipt, Stored
<1>5. /\ acquirer' \in Acquirers /\ acquirer'.pc = "idle"
      /\ upload' \in [Uploads -> UploadStates] /\ \A u \in Uploads : upload'[u].pc = "none"
  BY IdleIsOne, NoUploadIsOne DEF Crash
<1>6. LockIsHeld' /\ LookIsGood' /\ InHand'
  BY <1>5 DEF LockIsHeld, LookIsGood, InHand
<1>7. folder' \subseteq Files
  BY <1>1, <1>2 DEF IInv, Typed
<1>8. Typed'
  BY <1>5, <1>7 DEF Crash, IInv, Typed
<1>9. QED  BY <1>4, <1>6, <1>8 DEF IInv

\* The steps that touch neither Drive nor the lock, nor what is in hand.
LEMMA PageKeeps ==
    ASSUME IInv, JobStarts \/ JobEnds \/ GiveUp \/ UNCHANGED vars PROVE IInv'
<1>1. /\ UNCHANGED <<folder, lock, upload, crashes>>
      /\ month' \in BOOLEAN /\ form' \in Uploads \cup {0}
  BY DEF JobStarts, JobEnds, GiveUp, vars, IInv, Typed
<1>2. acquirer' \in Acquirers /\ acquirer'.pc = acquirer.pc /\ acquirer'.file = acquirer.file
  BY DEF JobStarts, JobEnds, GiveUp, vars, IInv, Typed, Acquirers
<1>3. QED
  BY <1>1, <1>2 DEF IInv, Typed, InHand, LockIsHeld, LookIsGood, OneReceipt, Stored

LEMMA StepKeeps ==
    ASSUME IInv, MaxCrashes \in Nat, TheThread \notin Uploads, [Next]_vars PROVE IInv'
BY AcquirerKeeps, AcquirerSavesOne, ManualKeeps, ManualSavesOne, CrashKeeps, PageKeeps DEF Next

-------------------------------------------------------------------------------
LEMMA InvHolds == ASSUME MaxCrashes \in Nat, TheThread \notin Uploads PROVE Spec => []IInv
<1>1. Init => IInv
  BY InitHolds
<1>2. IInv /\ [Next]_vars => IInv'
  BY StepKeeps
<1>3. QED  BY <1>1, <1>2, PTL DEF Spec

\* The variables of the thread's and the manual saves have the values the code
\* of auto_acquisition.py and manual_upload.py gives them.
THEOREM SavesTypeCorrect ==
    ASSUME MaxCrashes \in Nat, TheThread \notin Uploads
    PROVE  Spec => []TypeOK
<1>1. IInv => TypeOK
  BY TypesAre DEF IInv
<1>2. QED  BY <1>1, InvHolds, PTL

\* Drive holds one receipt of a service and month, however the thread of
\* runner.py, the manual saves of service.py and crashes follow one another.
THEOREM OneReceiptEver ==
    ASSUME MaxCrashes \in Nat, TheThread \notin Uploads
    PROVE  Spec => []OneReceipt
<1>1. IInv => OneReceipt
  BY DEF IInv
<1>2. QED  BY <1>1, InvHolds, PTL
===============================================================================
