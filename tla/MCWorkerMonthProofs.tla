-------------------------- MODULE MCWorkerMonthProofs --------------------------
(***************************************************************************)
(* What MCWorkerMonth checks on small constants, for all of them.          *)
(*                                                                         *)
(* Of WorkerProcess and ReceiptFolder the proofs are here.  Whoever is up  *)
(* has the lease, so all the other processes are down and have nothing in  *)
(* hand: an invariant of the one process is one of all.  And the months    *)
(* of a calendar are numbered, so that the month of use and the month in   *)
(* which a service is paid tell each other, over the end of a year too;    *)
(* and the file written last is the newest, for whatever month it counts.  *)
(*                                                                         *)
(* The other parts are proved in modules of their own; here each of them   *)
(* is shown to run alone, whatever the others do.                          *)
(***************************************************************************)
EXTENDS MCWorkerMonth, TLAPS

-------------------------------------------------------------------------------
(* The process: work is backed up, and stops are clean, for any number of  *)
(* processes, snapshot names and writes, and any retention.                *)

Places == {"down", "built", "first", "snapshots", "serves", "stopping", "workerStopped",
           "final", "stopped", "exiting"}
Procs == [pc: Places, failures: Nat, fatal: BOOLEAN, asked: BOOLEAN, joined: BOOLEAN,
          closed: BOOLEAN, final: BOOLEAN]
CopyStates == [pc: {"none", "copying", "published"}, name: Names \cup {0}, writes: Nat]

Typed ==
    /\ process \in [Processes -> Procs]
    /\ worker \in [Processes -> {"none", "runs", "ended"}]
    /\ backup \in [Processes -> {"none", "waits", "copies", "ended"}]
    /\ copying \in [Processes -> CopyStates]
    /\ writes \in Nat

IsDown(p) ==
    process[p] = Down /\ worker[p] = "none" /\ backup[p] = "none" /\ copying[p] = NoCopy

\* A process that is up has the lease, and one that is down has nothing.
LeaseIsHeld == \A p \in Processes : IF At(p, "down") THEN IsDown(p) ELSE lease = {p}

LastIs(n) == [name |-> last, writes |-> n] \in snapshots

\* What was published and is not pruned yet is the last snapshot; from the first
\* one on there is a last one.
Backed(p) ==
    /\ copying[p].pc = "published" => copying[p].name = last /\ LastIs(copying[p].writes)
    /\ process[p].pc \notin {"down", "built", "first", "exiting"} \/ worker[p] = "runs"
         => last \in PublishedNames

\* How far a process that stops has come.
Stops(p) ==
    /\ process[p].pc \in {"built", "first", "snapshots"} => worker[p] = "none" /\ ~process[p].joined
    /\ process[p].joined => worker[p] = "ended"
    /\ At(p, "final") => backup[p] = "ended" /\ (process[p].joined => copying[p].writes = writes)
    /\ process[p].final => /\ process[p].pc \in {"stopped", "exiting"}
                           /\ copying[p] = NoCopy /\ backup[p] = "ended"
                           /\ process[p].joined => LastIs(writes)
    /\ process[p].closed => /\ At(p, "exiting") /\ worker[p] # "runs"
                            /\ process[p].final => process[p].joined

IInv == Typed /\ LeaseIsHeld /\ \A p \in Processes : Backed(p) /\ Stops(p)

-------------------------------------------------------------------------------
LEMMA NothingIs ==
    /\ Down \in Procs /\ Down.pc = "down" /\ ~Down.joined /\ ~Down.closed /\ ~Down.final
    /\ NoCopy \in CopyStates /\ NoCopy.pc = "none"
BY DEF Down, NoCopy, Procs, Places, CopyStates

LEMMA InitHolds == Init => IInv
<1> SUFFICES ASSUME Init PROVE IInv  OBVIOUS
<1>1. Typed
  BY NothingIs DEF Init, Typed
<1>2. \A p \in Processes : At(p, "down") /\ IsDown(p) /\ copying[p].pc = "none"
  BY NothingIs DEF Init, At, IsDown
<1>3. LeaseIsHeld
  BY <1>2 DEF LeaseIsHeld
<1>4. ASSUME NEW p \in Processes PROVE Backed(p) /\ Stops(p)
  BY <1>2, NothingIs DEF Backed, Stops, At, IsDown
<1>5. QED  BY <1>1, <1>3, <1>4 DEF IInv

\* Nothing holds of a process that is down, whatever becomes of the snapshots.
LEMMA DownHolds ==
    ASSUME IInv, NEW q \in Processes, At(q, "down"), process'[q] = process[q],
           worker'[q] = worker[q], backup'[q] = backup[q], copying'[q] = copying[q]
    PROVE  At(q, "down")' /\ IsDown(q)' /\ Backed(q)' /\ Stops(q)'
<1>1. At(q, "down")' /\ IsDown(q)'
  BY DEF IInv, LeaseIsHeld, At, IsDown
<1>2. QED  BY <1>1, NothingIs DEF IsDown, At, Backed, Stops

\* A step of p, which is up, that changes nothing of the other processes.
LEMMA OneSteps ==
    ASSUME IInv, NEW p \in Processes, ~At(p, "down"), ~At(p, "down")',
           Typed', lease' = lease,
           \A q \in Processes \ {p} : /\ process'[q] = process[q] /\ worker'[q] = worker[q]
                                      /\ backup'[q] = backup[q] /\ copying'[q] = copying[q],
           Backed(p)', Stops(p)'
    PROVE  IInv'
<1>1. lease = {p} /\ \A q \in Processes \ {p} : At(q, "down")
  BY DEF IInv, LeaseIsHeld
<1>2. \A q \in Processes \ {p} : At(q, "down")' /\ IsDown(q)' /\ Backed(q)' /\ Stops(q)'
  BY <1>1, DownHolds
<1>3. LeaseIsHeld'
  BY <1>1, <1>2 DEF LeaseIsHeld
<1>4. QED  BY <1>2, <1>3 DEF IInv

-------------------------------------------------------------------------------
(* Up and down.                                                            *)

LEMMA BuildKeeps == ASSUME IInv, NEW p \in Processes, Build(p) PROVE IInv'
<1>1. lease = {} /\ lease' = {p}
  BY DEF Build, TakeLease
<1>2. \A q \in Processes : At(q, "down")
  BY <1>1 DEF IInv, LeaseIsHeld
<1>3. process' = [process EXCEPT ![p] = [Down EXCEPT !.pc = "built"]]
  BY DEF Build
<1>4. /\ [Down EXCEPT !.pc = "built"] \in Procs
      /\ process'[p].pc = "built" /\ ~process'[p].joined /\ ~process'[p].closed
      /\ ~process'[p].final
      /\ \A q \in Processes \ {p} : process'[q] = process[q]
  BY <1>3 DEF Down, Procs, Places, IInv, Typed
<1>5. Typed'
  BY <1>3, <1>4 DEF Build, IInv, Typed
<1>6. \A q \in Processes \ {p} : At(q, "down")' /\ IsDown(q)' /\ Backed(q)' /\ Stops(q)'
  BY <1>2, <1>4, DownHolds DEF Build
<1>7. worker'[p] = "none" /\ copying'[p].pc = "none"
  BY <1>2, NothingIs DEF Build, IInv, LeaseIsHeld, IsDown
<1>8. Backed(p)' /\ Stops(p)'
  BY <1>4, <1>7 DEF Backed, Stops, At
<1>9. LeaseIsHeld'
  BY <1>1, <1>4, <1>6 DEF LeaseIsHeld, At
<1>10. QED  BY <1>5, <1>6, <1>8, <1>9 DEF IInv

LEMMA EndsKeeps == ASSUME IInv, NEW p \in Processes, ~At(p, "down"), Ends(p) PROVE IInv'
<1>1. \A q \in Processes \ {p} : At(q, "down")
  BY DEF IInv, LeaseIsHeld
<1>2. Typed'
  BY NothingIs DEF Ends, IInv, Typed
<1>3. At(p, "down")' /\ IsDown(p)'
  BY NothingIs DEF Ends, At, IsDown, IInv, Typed
<1>4. Backed(p)' /\ Stops(p)'
  BY <1>3, NothingIs DEF Backed, Stops, IsDown, At
<1>5. \A q \in Processes \ {p} : At(q, "down")' /\ IsDown(q)' /\ Backed(q)' /\ Stops(q)'
  BY <1>1, DownHolds DEF Ends, IInv, Typed
<1>6. QED  BY <1>2, <1>3, <1>4, <1>5 DEF IInv, LeaseIsHeld

-------------------------------------------------------------------------------
(* The steps of a process that is up.  Each is shown to leave the other    *)
(* processes alone and to keep what holds of its own.                      *)

Others(p) ==
    \A q \in Processes \ {p} : /\ process'[q] = process[q] /\ worker'[q] = worker[q]
                               /\ backup'[q] = backup[q] /\ copying'[q] = copying[q]

Keeps(p) == Typed' /\ lease' = lease /\ Others(p) /\ ~At(p, "down")' /\ Backed(p)' /\ Stops(p)'

LEMMA Up ==
    ASSUME IInv, NEW p \in Processes, process[p] # Down \/ worker[p] # "none"
                                      \/ backup[p] # "none" \/ copying[p] # NoCopy
    PROVE  ~At(p, "down")
BY DEF IInv, LeaseIsHeld, IsDown

\* A move of the main thread that changes nothing else.
LEMMA Moves ==
    ASSUME Typed, NEW p \in Processes, NEW pc \in Places, Goto(p, pc)
    PROVE  /\ process' \in [Processes -> Procs]
           /\ process'[p].pc = pc /\ process'[p].joined = process[p].joined
           /\ process'[p].closed = process[p].closed /\ process'[p].final = process[p].final
           /\ \A q \in Processes \ {p} : process'[q] = process[q]
BY DEF Typed, Goto, Procs, Places

LEMMA NameIsThere ==
    ASSUME NEW S, NEW n, NEW w, [name |-> n, writes |-> w] \in S
    PROVE  n \in {s.name : s \in S}
OBVIOUS

LEMMA BeginCopyIs ==
    ASSUME Typed, NEW p \in Processes, BeginCopy(p)
    PROVE  /\ copying' \in [Processes -> CopyStates]
           /\ copying'[p].pc = "copying" /\ copying'[p].writes = writes /\ copying[p] = NoCopy
           /\ \A q \in Processes \ {p} : copying'[q] = copying[q]
<1>1. PICK n \in Names : copying' = [copying EXCEPT ![p] = [pc |-> "copying", name |-> n,
                                                            writes |-> writes]]
  BY DEF BeginCopy
<1>2. [pc |-> "copying", name |-> n, writes |-> writes] \in CopyStates
  BY DEF CopyStates, Typed
<1>3. QED  BY <1>1, <1>2 DEF Typed, BeginCopy

LEMMA CopyEnds ==
    ASSUME Typed, NEW p \in Processes, Pruned(p) \/ CopyFails(p)
    PROVE  /\ copying' \in [Processes -> CopyStates] /\ copying'[p] = NoCopy
           /\ copying[p].pc # "none"
           /\ \A q \in Processes \ {p} : copying'[q] = copying[q]
BY NothingIs DEF Typed, Pruned, CopyFails

LEMMA PublishKeeps == ASSUME IInv, NEW p \in Processes, Publish(p) PROVE Keeps(p)
<1>1. /\ copying' = [copying EXCEPT ![p].pc = "published"]
      /\ UNCHANGED <<process, worker, backup, writes>>
  BY DEF Publish
<1>2. /\ copying' \in [Processes -> CopyStates] /\ copying'[p].pc = "published"
      /\ copying'[p].name = copying[p].name /\ copying'[p].writes = copying[p].writes
      /\ \A q \in Processes \ {p} : copying'[q] = copying[q]
  BY <1>1 DEF IInv, Typed, CopyStates
<1>3. copying'[p].name = last' /\ LastIs(copying[p].writes)'
  BY <1>2 DEF Publish, LastIs
<1>4. (last \in PublishedNames)'
  BY <1>3, NameIsThere DEF LastIs, PublishedNames
<1>5. copying[p] # NoCopy
  BY NothingIs DEF Publish
<1>6. Stops(p)'
  BY <1>1, <1>2, <1>5 DEF IInv, Stops, At
<1>7. ~At(p, "down")
  BY <1>5, Up
<1>8. QED
  BY <1>1, <1>2, <1>3, <1>4, <1>6, <1>7 DEF Publish, Keeps, Others, Backed, IInv, Typed, At

\* Pruning leaves the snapshot just published.
LEMMA PruneKeeps == ASSUME IInv, NEW p \in Processes, Prune(p) PROVE Keeps(p)
<1>1. PICK s \in snapshots : s.name \notin Kept(copying[p].name) /\ snapshots' = snapshots \ {s}
  BY DEF Prune
<1>2. s.name # last /\ UNCHANGED <<lease, process, worker, backup, copying, last, writes>>
  BY <1>1 DEF Prune, IInv, Backed, Kept
<1>3. \A n : LastIs(n) => LastIs(n)'
  BY <1>1, <1>2 DEF LastIs
<1>4. last \in PublishedNames => (last \in PublishedNames)'
  BY <1>1, <1>2 DEF PublishedNames
<1>5. copying[p] # NoCopy
  BY NothingIs DEF Prune
<1>6. Stops(p)'
  BY <1>2, <1>5 DEF IInv, Stops, At
<1>7. Backed(p)'
  BY <1>2, <1>3, <1>4 DEF IInv, Backed
<1>8. ~At(p, "down")
  BY <1>5, Up
<1>9. QED  BY <1>2, <1>6, <1>7, <1>8 DEF Keeps, Others, IInv, Typed, At

LEMMA StartKeeps ==
    ASSUME IInv, NEW p \in Processes,
           FirstSnapshot(p) \/ FirstMade(p) \/ FirstFails(p) \/ StartWorker(p) \/ StartFails(p)
    PROVE  Keeps(p)
<1> USE DEF IInv
<1>1. CASE FirstSnapshot(p)
  <2>1. Goto(p, "first") /\ BeginCopy(p) /\ At(p, "built")
    BY <1>1 DEF FirstSnapshot
  <2>2. Typed' /\ Others(p) /\ process'[p].pc = "first"
    BY <1>1, <2>1, Moves, BeginCopyIs DEF FirstSnapshot, Typed, Others, Places
  <2>3. Backed(p)' /\ Stops(p)'
    BY <1>1, <2>1, Moves, BeginCopyIs DEF FirstSnapshot, Backed, Stops, At, Places
  <2>4. QED  BY <1>1, <2>2, <2>3 DEF FirstSnapshot, Keeps, At
<1>2. CASE FirstMade(p)
  <2>1. process' = [process EXCEPT ![p].pc = "snapshots", ![p].failures = 0]
    BY <1>2 DEF FirstMade
  <2>2. /\ process' \in [Processes -> Procs] /\ process'[p].pc = "snapshots"
        /\ process'[p].joined = process[p].joined /\ process'[p].closed = process[p].closed
        /\ process'[p].final = process[p].final
        /\ \A q \in Processes \ {p} : process'[q] = process[q]
    <3>1. process[p] \in Procs
      BY DEF Typed
    <3>2. [process[p] EXCEPT !.pc = "snapshots", !.failures = 0] \in Procs
      BY <3>1 DEF Procs, Places
    <3>3. /\ process' = [process EXCEPT ![p] = [process[p] EXCEPT !.pc = "snapshots", !.failures = 0]]
          /\ process' \in [Processes -> Procs]
      BY <2>1, <3>2 DEF Typed
    <3>4. process'[p] = [process[p] EXCEPT !.pc = "snapshots", !.failures = 0]
      BY <3>3
    <3>5. QED  BY <3>1, <3>3, <3>4 DEF Procs
  <2>3. last \in PublishedNames
    BY <1>2, NameIsThere DEF FirstMade, Pruned, Backed, LastIs, PublishedNames
  <2>4. Typed' /\ Others(p)
    BY <1>2, <2>2, CopyEnds DEF FirstMade, Typed, Others
  <2>5. Backed(p)' /\ Stops(p)'
    BY <1>2, <2>2, <2>3, CopyEnds, NothingIs DEF FirstMade, Backed, Stops, At, PublishedNames
  <2>6. QED  BY <1>2, <2>2, <2>4, <2>5 DEF FirstMade, Keeps, At
<1>3. CASE FirstFails(p)
  <2>1. process' = [process EXCEPT ![p].pc = "exiting", ![p].failures = 1, ![p].closed = TRUE]
    BY <1>3 DEF FirstFails
  <2>2. /\ process' \in [Processes -> Procs] /\ process'[p].pc = "exiting"
        /\ process'[p].joined = process[p].joined /\ process'[p].final = process[p].final
        /\ \A q \in Processes \ {p} : process'[q] = process[q]
    <3>1. process[p] \in Procs
      BY DEF Typed
    <3>2. [process[p] EXCEPT !.pc = "exiting", !.failures = 1, !.closed = TRUE] \in Procs
      BY <3>1 DEF Procs, Places
    <3>3. /\ process' = [process EXCEPT ![p] = [process[p] EXCEPT !.pc = "exiting", !.failures = 1, !.closed = TRUE]]
          /\ process' \in [Processes -> Procs]
      BY <2>1, <3>2 DEF Typed
    <3>4. process'[p] = [process[p] EXCEPT !.pc = "exiting", !.failures = 1, !.closed = TRUE]
      BY <3>3
    <3>5. QED  BY <3>1, <3>3, <3>4 DEF Procs
  <2>3. Typed' /\ Others(p)
    BY <1>3, <2>2, CopyEnds DEF FirstFails, Typed, Others
  <2>4. Backed(p)' /\ Stops(p)'
    BY <1>3, <2>2, CopyEnds, NothingIs DEF FirstFails, Backed, Stops, At
  <2>5. QED  BY <1>3, <2>2, <2>3, <2>4 DEF FirstFails, Keeps, At
<1>4. CASE StartWorker(p)
  <2>1. Goto(p, "serves") /\ At(p, "snapshots") /\ worker' = [worker EXCEPT ![p] = "runs"]
    BY <1>4 DEF StartWorker
  <2>2. Typed' /\ Others(p) /\ process'[p].pc = "serves"
    BY <1>4, <2>1, Moves DEF StartWorker, Typed, Others, Places
  <2>3. Backed(p)' /\ Stops(p)'
    BY <1>4, <2>1, Moves DEF StartWorker, Backed, Stops, At, Places, Typed, LastIs, PublishedNames
  <2>4. QED  BY <1>4, <2>2, <2>3 DEF StartWorker, Keeps, At
<1>5. CASE StartFails(p)
  <2>1. process' = [process EXCEPT ![p].pc = "exiting", ![p].closed = TRUE]
    BY <1>5 DEF StartFails
  <2>2. /\ process' \in [Processes -> Procs] /\ process'[p].pc = "exiting"
        /\ process'[p].joined = process[p].joined /\ process'[p].final = process[p].final
        /\ \A q \in Processes \ {p} : process'[q] = process[q]
    <3>1. process[p] \in Procs
      BY DEF Typed
    <3>2. [process[p] EXCEPT !.pc = "exiting", !.closed = TRUE] \in Procs
      BY <3>1 DEF Procs, Places
    <3>3. /\ process' = [process EXCEPT ![p] = [process[p] EXCEPT !.pc = "exiting", !.closed = TRUE]]
          /\ process' \in [Processes -> Procs]
      BY <2>1, <3>2 DEF Typed
    <3>4. process'[p] = [process[p] EXCEPT !.pc = "exiting", !.closed = TRUE]
      BY <3>3
    <3>5. QED  BY <3>1, <3>3, <3>4 DEF Procs
  <2>3. Typed' /\ Others(p)
    BY <1>5, <2>2 DEF StartFails, Typed, Others
  <2>4. Backed(p)' /\ Stops(p)'
    BY <1>5, <2>2 DEF StartFails, Backed, Stops, At, LastIs
  <2>5. QED  BY <1>5, <2>2, <2>3, <2>4 DEF StartFails, Keeps, At
<1>6. QED  BY <1>1, <1>2, <1>3, <1>4, <1>5

LEMMA WorkKeeps ==
    ASSUME IInv, Threshold \in Nat, NEW p \in Processes,
           Works(p) \/ LoopDies(p) \/ BackupWakes(p) \/ BackupMade(p) \/ BackupFails(p)
    PROVE  Keeps(p)
<1> USE DEF IInv
<1>1. CASE Works(p)
  <2>1. Typed' /\ Others(p) /\ ~At(p, "down")'
    BY <1>1, Up DEF Works, Typed, Others, At
  <2>2. Backed(p)' /\ Stops(p)'
    BY <1>1 DEF Works, Backed, Stops, At, LastIs, PublishedNames
  <2>3. QED  BY <1>1, <2>1, <2>2 DEF Works, Keeps
<1>2. CASE LoopDies(p)
  <2>1. process' = [process EXCEPT ![p].asked = TRUE]
    BY <1>2 DEF LoopDies
  <2>2. /\ process' \in [Processes -> Procs]
        /\ process'[p] = [process[p] EXCEPT !.asked = TRUE]
        /\ \A q \in Processes \ {p} : process'[q] = process[q]
    <3>1. process[p] \in Procs
      BY DEF Typed
    <3>2. [process[p] EXCEPT !.asked = TRUE] \in Procs
      BY <3>1 DEF Procs, Places
    <3>3. process' = [process EXCEPT ![p] = [process[p] EXCEPT !.asked = TRUE]]
      BY <2>1
    <3>4. QED  BY <3>2, <3>3 DEF Typed
  <2>3. Typed' /\ Others(p)
    BY <1>2, <2>2 DEF LoopDies, Typed, Others
  <2>4. Backed(p)' /\ Stops(p)'
    BY <1>2, <2>2 DEF LoopDies, Backed, Stops, At, Procs, Typed, LastIs, PublishedNames
  <2>5. QED  BY <1>2, <2>2, <2>3, <2>4, Up DEF LoopDies, Keeps, At, Procs, Typed
<1>3. CASE BackupWakes(p)
  <2>1. Typed' /\ Others(p) /\ ~At(p, "down")'
    BY <1>3, BeginCopyIs DEF BackupWakes, Typed, Others, At
  <2>2. Backed(p)' /\ Stops(p)'
    BY <1>3, BeginCopyIs DEF BackupWakes, Backed, Stops, At, LastIs, PublishedNames
  <2>3. QED  BY <1>3, <2>1, <2>2 DEF BackupWakes, Keeps
<1>4. CASE BackupMade(p)
  <2>1. process' = [process EXCEPT ![p].failures = 0]
    BY <1>4 DEF BackupMade
  <2>2. /\ process' \in [Processes -> Procs]
        /\ process'[p] = [process[p] EXCEPT !.failures = 0]
        /\ \A q \in Processes \ {p} : process'[q] = process[q]
    <3>1. process[p] \in Procs
      BY DEF Typed
    <3>2. [process[p] EXCEPT !.failures = 0] \in Procs
      BY <3>1 DEF Procs, Places
    <3>3. process' = [process EXCEPT ![p] = [process[p] EXCEPT !.failures = 0]]
      BY <2>1
    <3>4. QED  BY <3>2, <3>3 DEF Typed
  <2>3. Typed' /\ Others(p)
    BY <1>4, <2>2, CopyEnds, NothingIs DEF BackupMade, Typed, Others
  <2>4. Backed(p)' /\ Stops(p)'
    <3>1. /\ process'[p].pc = process[p].pc /\ process'[p].joined = process[p].joined
          /\ process'[p].closed = process[p].closed /\ process'[p].final = process[p].final
      BY <2>2 DEF Procs, Typed
    <3>2. copying'[p] = NoCopy /\ copying'[p].pc = "none"
      BY <1>4, CopyEnds, NothingIs DEF BackupMade
    <3>3. /\ backup[p] = "copies" /\ worker' = worker /\ snapshots' = snapshots
          /\ last' = last /\ writes' = writes
      BY <1>4 DEF BackupMade
    <3>4. Backed(p)'
      BY <3>1, <3>2, <3>3 DEF Backed, PublishedNames
    <3>5. Stops(p) /\ ~process[p].final /\ process[p].pc # "final"
      BY <3>3 DEF Stops, At
    <3>6. Stops(p)'
      BY <3>1, <3>3, <3>5 DEF Stops, At
    <3>7. QED  BY <3>4, <3>6
  <2>5. QED  BY <1>4, <2>2, <2>3, <2>4, Up DEF BackupMade, Keeps, At, Procs, Typed
<1>5. CASE BackupFails(p)
  <2> DEFINE fatal == Failures(p) >= Threshold
  <2>1. process' = [process EXCEPT ![p].failures = Failures(p), ![p].fatal = fatal,
                                   ![p].asked = @ \/ fatal]
    BY <1>5 DEF BackupFails
  <2>2. /\ process' \in [Processes -> Procs]
        /\ process'[p].pc = process[p].pc /\ process'[p].joined = process[p].joined
        /\ process'[p].closed = process[p].closed /\ process'[p].final = process[p].final
        /\ \A q \in Processes \ {p} : process'[q] = process[q]
    <3>1. process[p] \in Procs /\ Failures(p) \in Nat /\ fatal \in BOOLEAN
      BY DEF Typed, Failures, Procs
    <3>3. process' = [process EXCEPT ![p] = [process[p] EXCEPT
                        !.failures = Failures(p), !.fatal = fatal,
                        !.asked = process[p].asked \/ fatal]]
      BY <2>1
    <3> HIDE DEF fatal
    <3>4. PICK r : r = [process[p] EXCEPT !.failures = Failures(p), !.fatal = fatal,
                                          !.asked = process[p].asked \/ fatal]
      OBVIOUS
    <3>5. /\ r \in Procs /\ r.pc = process[p].pc /\ r.joined = process[p].joined
          /\ r.closed = process[p].closed /\ r.final = process[p].final
      BY <3>1, <3>4 DEF Procs
    <3>6. process' = [process EXCEPT ![p] = r]
      BY <3>3, <3>4
    <3>7. QED  BY <3>5, <3>6 DEF Typed
  <2>3. Typed' /\ Others(p)
    <3>1. backup' = [backup EXCEPT ![p] = IF fatal THEN "ended" ELSE "waits"]
      BY <1>5 DEF BackupFails
    <3>2. /\ CopyFails(p) /\ worker' = worker /\ writes' = writes
      BY <1>5 DEF BackupFails
    <3> HIDE DEF fatal
    <3>3. QED  BY <2>2, <3>1, <3>2, CopyEnds DEF Typed, Others
  <2>4. Backed(p)' /\ Stops(p)'
    <3>2. copying'[p] = NoCopy /\ copying'[p].pc = "none"
      BY <1>5, CopyEnds, NothingIs DEF BackupFails
    <3>3. /\ backup[p] = "copies" /\ worker' = worker /\ snapshots' = snapshots
          /\ last' = last /\ writes' = writes
      BY <1>5 DEF BackupFails
    <3>4. Backed(p)'
      BY <2>2, <3>2, <3>3 DEF Backed, PublishedNames
    <3>5. Stops(p) /\ ~process[p].final /\ process[p].pc # "final"
      BY <3>3 DEF Stops, At
    <3>6. Stops(p)'
      BY <2>2, <3>3, <3>5 DEF Stops, At
    <3>7. QED  BY <3>4, <3>6
  <2>5. QED  BY <1>5, <2>2, <2>3, <2>4, Up DEF BackupFails, Keeps, At
<1>6. QED  BY <1>1, <1>2, <1>3, <1>4, <1>5

LEMMA StopKeeps ==
    ASSUME IInv, NEW p \in Processes,
           \/ Terminate(p) \/ WorkerEnds(p) \/ WorkerStopped(p) \/ BackupEnds(p)
           \/ FinalSnapshot(p) \/ FinalMade(p) \/ NoFinal(p) \/ CloseStore(p)
    PROVE  Keeps(p)
<1> USE DEF IInv
<1>1. CASE Terminate(p)
  <2>1. Typed' /\ Others(p) /\ ~At(p, "down")'
    BY <1>1, Moves DEF Terminate, Typed, Others, At, Places
  <2>2. Backed(p)' /\ Stops(p)'
    BY <1>1, Moves DEF Terminate, Backed, Stops, At, Places, LastIs, PublishedNames
  <2>3. QED  BY <1>1, <2>1, <2>2 DEF Terminate, Keeps
<1>2. CASE WorkerEnds(p)
  <2>1. Typed' /\ Others(p) /\ ~At(p, "down")'
    BY <1>2, Up DEF WorkerEnds, Typed, Others, At
  <2>2. Backed(p)' /\ Stops(p)'
    BY <1>2 DEF WorkerEnds, Typed, Backed, Stops, At, LastIs, PublishedNames
  <2>3. QED  BY <1>2, <2>1, <2>2 DEF WorkerEnds, Keeps
<1>3. CASE WorkerStopped(p)
  <2>1. process' = [process EXCEPT ![p].pc = "workerStopped", ![p].joined = worker[p] = "ended"]
    BY <1>3 DEF WorkerStopped
  <2>2. /\ process' \in [Processes -> Procs]
        /\ process'[p] = [process[p] EXCEPT !.pc = "workerStopped", !.joined = worker[p] = "ended"]
        /\ \A q \in Processes \ {p} : process'[q] = process[q]
    <3>1. process[p] \in Procs
      BY DEF Typed
    <3>2. [process[p] EXCEPT !.pc = "workerStopped", !.joined = worker[p] = "ended"] \in Procs
      BY <3>1 DEF Procs, Places
    <3>3. process' = [process EXCEPT ![p] = [process[p] EXCEPT !.pc = "workerStopped", !.joined = worker[p] = "ended"]]
      BY <2>1
    <3>4. QED  BY <3>2, <3>3 DEF Typed
  <2>3. Typed' /\ Others(p)
    BY <1>3, <2>2 DEF WorkerStopped, Typed, Others
  <2>4. Backed(p)' /\ Stops(p)'
    BY <1>3, <2>2 DEF WorkerStopped, Backed, Stops, At, Procs, Typed, LastIs, PublishedNames
  <2>5. QED  BY <1>3, <2>2, <2>3, <2>4, Up DEF WorkerStopped, Keeps, At, Procs, Typed
<1>4. CASE BackupEnds(p)
  <2>1. Typed' /\ Others(p) /\ ~At(p, "down")'
    BY <1>4, Up DEF BackupEnds, Typed, Others, At
  <2>2. Backed(p)' /\ Stops(p)'
    BY <1>4 DEF BackupEnds, Typed, Backed, Stops, At, LastIs, PublishedNames
  <2>3. QED  BY <1>4, <2>1, <2>2 DEF BackupEnds, Keeps
<1>5. CASE FinalSnapshot(p)
  <2>1. Goto(p, "final") /\ BeginCopy(p) /\ At(p, "workerStopped") /\ backup[p] = "ended"
    BY <1>5 DEF FinalSnapshot
  <2>2. Typed' /\ Others(p) /\ process'[p].pc = "final"
    BY <1>5, <2>1, Moves, BeginCopyIs DEF FinalSnapshot, Typed, Others, Places
  <2>3. Backed(p)' /\ Stops(p)'
    BY <1>5, <2>1, Moves, BeginCopyIs
       DEF FinalSnapshot, Backed, Stops, At, Places, LastIs, PublishedNames
  <2>4. QED  BY <1>5, <2>2, <2>3 DEF FinalSnapshot, Keeps, At
<1>6. CASE FinalMade(p)
  <2>1. process' = [process EXCEPT ![p].pc = "stopped", ![p].final = TRUE]
    BY <1>6 DEF FinalMade
  <2>2. /\ process' \in [Processes -> Procs]
        /\ process'[p] = [process[p] EXCEPT !.pc = "stopped", !.final = TRUE]
        /\ \A q \in Processes \ {p} : process'[q] = process[q]
    <3>1. process[p] \in Procs
      BY DEF Typed
    <3>2. [process[p] EXCEPT !.pc = "stopped", !.final = TRUE] \in Procs
      BY <3>1 DEF Procs, Places
    <3>3. process' = [process EXCEPT ![p] = [process[p] EXCEPT !.pc = "stopped", !.final = TRUE]]
      BY <2>1
    <3>4. QED  BY <3>2, <3>3 DEF Typed
  <2>3. Typed' /\ Others(p)
    BY <1>6, <2>2, CopyEnds, NothingIs DEF FinalMade, Typed, Others
  <2>4. Backed(p)' /\ Stops(p)'
    <3>1. /\ process'[p].pc = "stopped" /\ process'[p].joined = process[p].joined
          /\ process'[p].closed = process[p].closed /\ process'[p].final
      BY <2>2 DEF Procs, Typed
    <3>2. copying'[p] = NoCopy /\ copying'[p].pc = "none"
      BY <1>6, CopyEnds, NothingIs DEF FinalMade
    <3>3. /\ process[p].pc = "final" /\ copying[p].pc = "published"
          /\ backup' = backup /\ worker' = worker
          /\ snapshots' = snapshots /\ last' = last /\ writes' = writes
      BY <1>6 DEF FinalMade, Pruned, At
    <3>4. LastIs(copying[p].writes) /\ last \in PublishedNames
      BY <3>3 DEF Backed
    <3>5. Backed(p)'
      BY <3>1, <3>2, <3>3, <3>4 DEF Backed, PublishedNames
    <3>6. /\ backup[p] = "ended"
          /\ process[p].joined => copying[p].writes = writes
          /\ process[p].joined => worker[p] = "ended"
          /\ ~process[p].closed
      BY <3>3 DEF Stops, At
    <3>7. process[p].joined => LastIs(writes)'
      BY <3>3, <3>4, <3>6 DEF LastIs
    <3>8. Stops(p)'
      BY <3>1, <3>2, <3>3, <3>6, <3>7 DEF Stops, At, LastIs
    <3>9. QED  BY <3>5, <3>8
  <2>5. QED  BY <1>6, <2>2, <2>3, <2>4, Up DEF FinalMade, Keeps, At, Procs, Typed
<1>7. CASE NoFinal(p)
  <2>1. Goto(p, "stopped") /\ (At(p, "final") \/ At(p, "workerStopped"))
    BY <1>7 DEF NoFinal
  <2>2. CASE CopyFails(p)
    <3>1. Typed' /\ Others(p)
      BY <1>7, <2>1, <2>2, Moves, CopyEnds DEF NoFinal, Typed, Others, Places
    <3>2. Backed(p)' /\ Stops(p)'
      BY <1>7, <2>1, <2>2, Moves, CopyEnds, NothingIs
         DEF NoFinal, Backed, Stops, At, Places, LastIs, PublishedNames
    <3>3. QED  BY <1>7, <2>1, <3>1, <3>2, Moves DEF NoFinal, Keeps, At, Places
  <2>3. CASE UNCHANGED copying
    <3>1. Typed' /\ Others(p)
      BY <1>7, <2>1, <2>3, Moves DEF NoFinal, Typed, Others, Places
    <3>2. Backed(p)' /\ Stops(p)'
      BY <1>7, <2>1, <2>3, Moves DEF NoFinal, Backed, Stops, At, Places, LastIs, PublishedNames
    <3>3. QED  BY <1>7, <2>1, <3>1, <3>2, Moves DEF NoFinal, Keeps, At, Places
  <2>4. QED  BY <1>7, <2>2, <2>3 DEF NoFinal
<1>8. CASE CloseStore(p)
  <2>1. process' = [process EXCEPT ![p].pc = "exiting", ![p].closed = process[p].joined]
    BY <1>8 DEF CloseStore
  <2>2. /\ process' \in [Processes -> Procs]
        /\ process'[p] = [process[p] EXCEPT !.pc = "exiting", !.closed = process[p].joined]
        /\ \A q \in Processes \ {p} : process'[q] = process[q]
    <3>1. process[p] \in Procs
      BY DEF Typed
    <3>2. [process[p] EXCEPT !.pc = "exiting", !.closed = process[p].joined] \in Procs
      BY <3>1 DEF Procs, Places
    <3>3. process' = [process EXCEPT ![p] = [process[p] EXCEPT !.pc = "exiting", !.closed = process[p].joined]]
      BY <2>1
    <3>4. QED  BY <3>2, <3>3 DEF Typed
  <2>3. Typed' /\ Others(p)
    BY <1>8, <2>2 DEF CloseStore, Typed, Others
  <2>4. Backed(p)' /\ Stops(p)'
    BY <1>8, <2>2 DEF CloseStore, Backed, Stops, At, Procs, Typed, LastIs, PublishedNames
  <2>5. QED  BY <1>8, <2>2, <2>3, <2>4, Up DEF CloseStore, Keeps, At, Procs, Typed
<1>9. QED  BY <1>1, <1>2, <1>3, <1>4, <1>5, <1>6, <1>7, <1>8

LEMMA StepKeeps == ASSUME IInv, Threshold \in Nat, [Next]_vars PROVE IInv'
<1>1. ASSUME NEW p \in Processes, ~At(p, "down"), Keeps(p) PROVE IInv'
  BY <1>1, OneSteps DEF Keeps, Others
<1>2. ASSUME NEW p \in Processes, Build(p) PROVE IInv'
  BY <1>2, BuildKeeps
<1>3. ASSUME NEW p \in Processes, Exit(p) \/ Crash(p) PROVE IInv'
  BY <1>3, EndsKeeps DEF Exit, Crash, At
<1>4. ASSUME NEW p \in Processes, Copies(p) PROVE IInv'
  <2>1. ~At(p, "down")
    BY <1>4, NothingIs, Up DEF Copies, Publish, Prune
  <2>2. QED  BY <1>1, <1>4, <2>1, PublishKeeps, PruneKeeps DEF Copies
<1>5. ASSUME NEW p \in Processes,
             FirstSnapshot(p) \/ FirstMade(p) \/ FirstFails(p) \/ StartWorker(p) \/ StartFails(p)
      PROVE  IInv'
  <2>1. ~At(p, "down")
    BY <1>5 DEF FirstSnapshot, FirstMade, FirstFails, StartWorker, StartFails, At
  <2>2. QED  BY <1>1, <1>5, <2>1, StartKeeps
<1>6. ASSUME NEW p \in Processes,
             Works(p) \/ LoopDies(p) \/ BackupWakes(p) \/ BackupMade(p) \/ BackupFails(p)
      PROVE  IInv'
  <2>1. ~At(p, "down")
    BY <1>6, Up DEF Works, LoopDies, BackupWakes, BackupMade, BackupFails
  <2>2. QED  BY <1>1, <1>6, <2>1, WorkKeeps
<1>7. ASSUME NEW p \in Processes,
             \/ Terminate(p) \/ WorkerEnds(p) \/ WorkerStopped(p) \/ BackupEnds(p)
             \/ FinalSnapshot(p) \/ FinalMade(p) \/ NoFinal(p) \/ CloseStore(p)
      PROVE  IInv'
  <2>1. WorkerEnds(p) \/ BackupEnds(p) => ~At(p, "down")
    BY Up DEF WorkerEnds, BackupEnds
  <2>2. ~(WorkerEnds(p) \/ BackupEnds(p)) => ~At(p, "down")
    BY <1>7 DEF Terminate, WorkerStopped, FinalSnapshot, FinalMade, NoFinal, CloseStore, At
  <2>3. QED  BY <1>1, <1>7, <2>1, <2>2, StopKeeps
<1>8. CASE UNCHANGED vars
  BY <1>8 DEF vars, IInv, Typed, LeaseIsHeld, IsDown, At, Backed, Stops, LastIs, PublishedNames
<1>9. QED
  BY <1>2, <1>3, <1>4, <1>5, <1>6, <1>7, <1>8 DEF Next, Main

LEMMA InvHolds == ASSUME Threshold \in Nat PROVE Spec => []IInv
<1>1. Init => IInv
  BY InitHolds
<1>2. IInv /\ [Next]_vars => IInv'
  BY StepKeeps
<1>3. QED  BY <1>1, <1>2, PTL DEF Spec

-------------------------------------------------------------------------------
\* The worker of one process at most writes to the job table, and the snapshot
\* published last is there while it does (sqlite_backup.py _prune).
THEOREM WorkIsAlwaysBackedUp == ASSUME Threshold \in Nat PROVE Spec => []WorkIsBackedUp
<1>1. ASSUME IInv PROVE WorkIsBackedUp
  <2>1. ASSUME NEW p \in Processes, worker[p] = "runs"
        PROVE  last \in PublishedNames /\ ~At(p, "down") /\ lease = {p}
    BY <1>1, <2>1, Up DEF IInv, Backed, LeaseIsHeld
  <2>2. QED  BY <2>1 DEF WorkIsBackedUp
<1>2. QED  BY <1>1, InvHolds, PTL

\* A store that the lifespan closed is not written to, and a final snapshot of it
\* misses no write (http_api.py _lifespan, backup_lifecycle.py stop).
THEOREM StopsAreClean == ASSUME Threshold \in Nat PROVE Spec => []StopIsClean
<1>1. IInv => StopIsClean
  BY DEF IInv, Stops, LastIs, StopIsClean
<1>2. QED  BY <1>1, InvHolds, PTL

-------------------------------------------------------------------------------
(* The types, with the bounds that the code and the model set.             *)

BoundedProcs == [pc: Places, failures: 0 .. Threshold, fatal: BOOLEAN, asked: BOOLEAN,
                 joined: BOOLEAN, closed: BOOLEAN, final: BOOLEAN]
BoundedCopies == [pc: {"none", "copying", "published"}, name: Names \cup {0},
                  writes: 0 .. MaxWrites]

\* A copy under way has a name of its own.
TypesHold ==
    /\ TypeOK
    /\ \A p \in Processes : copying[p].pc # "none" => copying[p].name \in Names

LEMMA TypesInit ==
    ASSUME Threshold \in Nat \ {0}, MaxWrites \in Nat, Init PROVE TypesHold
<1>1. Down \in BoundedProcs /\ NoCopy \in BoundedCopies /\ NoCopy.pc = "none"
  BY DEF Down, NoCopy, BoundedProcs, BoundedCopies, Places
<1>2. /\ process \in [Processes -> BoundedProcs] /\ copying \in [Processes -> BoundedCopies]
      /\ \A p \in Processes : copying[p].pc = "none"
  BY <1>1 DEF Init
<1>3. QED  BY <1>2 DEF Init, TypesHold, TypeOK, BoundedProcs, BoundedCopies, Places

\* What becomes of a copy.
LEMMA CopyTypes ==
    ASSUME TypesHold, NEW p \in Processes, MaxWrites \in Nat,
           BeginCopy(p) \/ Pruned(p) \/ CopyFails(p) \/ UNCHANGED copying
    PROVE  /\ copying' \in [Processes -> BoundedCopies]
           /\ \A q \in Processes : copying'[q].pc # "none" => copying'[q].name \in Names
<1>1. NoCopy \in BoundedCopies /\ NoCopy.pc = "none"
  BY DEF NoCopy, BoundedCopies
<1>2. copying \in [Processes -> BoundedCopies] /\ writes \in 0 .. MaxWrites
  BY DEF TypesHold, TypeOK, BoundedCopies
<1>3. CASE BeginCopy(p)
  <2>1. PICK n \in Names : copying' = [copying EXCEPT ![p] = [pc |-> "copying", name |-> n,
                                                              writes |-> writes]]
    BY <1>3 DEF BeginCopy
  <2>2. [pc |-> "copying", name |-> n, writes |-> writes] \in BoundedCopies
    BY <1>2 DEF BoundedCopies
  <2>3. QED  BY <1>2, <2>1, <2>2 DEF TypesHold
<1>4. CASE Pruned(p) \/ CopyFails(p)
  <2>1. copying' = [copying EXCEPT ![p] = NoCopy]
    BY <1>4 DEF Pruned, CopyFails
  <2>2. QED  BY <1>1, <1>2, <2>1 DEF TypesHold
<1>5. CASE UNCHANGED copying
  BY <1>2, <1>5 DEF TypesHold
<1>6. QED  BY <1>3, <1>4, <1>5

\* A step that keeps the types of the processes and their threads, and publishes nothing.
LEMMA TypesStay ==
    ASSUME TypesHold, NEW p \in Processes, MaxWrites \in Nat,
           BeginCopy(p) \/ Pruned(p) \/ CopyFails(p) \/ UNCHANGED copying,
           lease' \subseteq Processes,
           process' \in [Processes -> BoundedProcs],
           worker' \in [Processes -> {"none", "runs", "ended"}],
           backup' \in [Processes -> {"none", "waits", "copies", "ended"}],
           UNCHANGED <<snapshots, last, writes>>
    PROVE  TypesHold'
BY CopyTypes DEF TypesHold, TypeOK, BoundedProcs, BoundedCopies, Places

LEMMA TypesStep ==
    ASSUME TypesHold, Threshold \in Nat \ {0}, MaxWrites \in Nat, [Next]_vars PROVE TypesHold'
<1>1. /\ process \in [Processes -> BoundedProcs] /\ copying \in [Processes -> BoundedCopies]
      /\ worker \in [Processes -> {"none", "runs", "ended"}]
      /\ backup \in [Processes -> {"none", "waits", "copies", "ended"}]
      /\ lease \subseteq Processes
  BY DEF TypesHold, TypeOK, BoundedProcs, BoundedCopies, Places
<1>2. Down \in BoundedProcs /\ NoCopy \in BoundedCopies /\ NoCopy.pc = "none"
  BY DEF Down, NoCopy, BoundedProcs, BoundedCopies, Places
<1> DEFINE Sets(p, r) == process' = [process EXCEPT ![p] = r]
<1>0. \A p \in Processes, r \in BoundedProcs :
        Sets(p, r) => process' \in [Processes -> BoundedProcs]
  BY <1>1
<1>a. 0 \in 0 .. Threshold /\ 1 \in 0 .. Threshold
  OBVIOUS
<1>3. \A p \in Processes, pc \in Places :
        Goto(p, pc) => process' \in [Processes -> BoundedProcs]
  BY <1>1 DEF Goto, BoundedProcs
<1>4. ASSUME NEW p \in Processes, Copies(p) PROVE TypesHold'
  <2>1. CASE Publish(p)
    <3>1. /\ copying[p].name \in Names /\ copying[p].writes \in 0 .. MaxWrites
          /\ copying' = [copying EXCEPT ![p].pc = "published"]
      BY <1>1, <2>1 DEF Publish, TypesHold, BoundedCopies
    <3>2. /\ copying' \in [Processes -> BoundedCopies]
          /\ \A q \in Processes : copying'[q].pc # "none" => copying'[q].name \in Names
      BY <1>1, <3>1 DEF BoundedCopies, TypesHold
    <3>3. snapshots' \subseteq [name: Names, writes: 0 .. MaxWrites] /\ last' \in Names \cup {0}
      BY <2>1, <3>1 DEF Publish, TypesHold, TypeOK
    <3>4. QED  BY <2>1, <3>2, <3>3 DEF Publish, TypesHold, TypeOK, BoundedCopies
  <2>2. CASE Prune(p)
    BY <2>2 DEF Prune, TypesHold, TypeOK
  <2>3. QED  BY <1>4, <2>1, <2>2 DEF Copies
<1>5. ASSUME NEW p \in Processes, Build(p) \/ Exit(p) \/ Crash(p) PROVE TypesHold'
  <2>1. CASE Build(p)
    <3>1. [Down EXCEPT !.pc = "built"] \in BoundedProcs
      BY <1>2 DEF BoundedProcs, Places
    <3>2. QED  BY <1>1, <2>1, <3>1, TypesStay DEF Build, TakeLease
  <2>2. CASE Ends(p)
    <3>1. /\ copying' = [copying EXCEPT ![p] = NoCopy] /\ process' \in [Processes -> BoundedProcs]
          /\ worker' \in [Processes -> {"none", "runs", "ended"}]
          /\ backup' \in [Processes -> {"none", "waits", "copies", "ended"}]
          /\ lease' \subseteq Processes
      BY <1>1, <1>2, <2>2 DEF Ends
    <3>2. /\ copying' \in [Processes -> BoundedCopies]
          /\ \A q \in Processes : copying'[q].pc # "none" => copying'[q].name \in Names
      BY <1>1, <1>2, <3>1 DEF TypesHold
    <3>3. QED
      BY <2>2, <3>1, <3>2 DEF Ends, TypesHold, TypeOK, BoundedProcs, BoundedCopies, Places
  <2>3. QED  BY <1>5, <2>1, <2>2 DEF Exit, Crash
<1>6. ASSUME NEW p \in Processes,
             FirstSnapshot(p) \/ FirstMade(p) \/ FirstFails(p) \/ StartWorker(p) \/ StartFails(p)
      PROVE  TypesHold'
  <2>1. CASE FirstSnapshot(p)
    BY <1>1, <1>3, <2>1, TypesStay DEF FirstSnapshot, Places
  <2>2. CASE FirstMade(p)
    <3>1. process' \in [Processes -> BoundedProcs]
      <4>1. [process[p] EXCEPT !.pc = "snapshots", !.failures = 0] \in BoundedProcs
        <5>1. process[p] \in BoundedProcs
          BY <1>1
        <5>2. QED  BY <5>1, <1>a DEF BoundedProcs, Places
      <4>2. Sets(p, [process[p] EXCEPT !.pc = "snapshots", !.failures = 0])
        BY <2>2 DEF FirstMade
      <4>3. QED  BY <1>0, <4>1, <4>2
    <3>2. QED  BY <1>1, <2>2, <3>1, TypesStay DEF FirstMade
  <2>3. CASE FirstFails(p)
    <3>1. process' \in [Processes -> BoundedProcs]
      <4>1. [process[p] EXCEPT !.pc = "exiting", !.failures = 1, !.closed = TRUE] \in BoundedProcs
        <5>1. process[p] \in BoundedProcs
          BY <1>1
        <5>2. QED  BY <5>1, <1>a DEF BoundedProcs, Places
      <4>2. Sets(p, [process[p] EXCEPT !.pc = "exiting", !.failures = 1, !.closed = TRUE])
        BY <2>3 DEF FirstFails
      <4>3. QED  BY <1>0, <4>1, <4>2
    <3>2. QED  BY <1>1, <2>3, <3>1, TypesStay DEF FirstFails
  <2>4. CASE StartWorker(p)
    BY <1>1, <1>3, <2>4, TypesStay DEF StartWorker, Places
  <2>5. CASE StartFails(p)
    <3>1. process' \in [Processes -> BoundedProcs]
      <4>1. [process[p] EXCEPT !.pc = "exiting", !.closed = TRUE] \in BoundedProcs
        BY <1>1 DEF BoundedProcs, Places
      <4>2. Sets(p, [process[p] EXCEPT !.pc = "exiting", !.closed = TRUE])
        BY <2>5 DEF StartFails
      <4>3. QED  BY <1>0, <4>1, <4>2
    <3>2. QED  BY <1>1, <2>5, <3>1, TypesStay DEF StartFails
  <2>6. QED  BY <1>6, <2>1, <2>2, <2>3, <2>4, <2>5
<1>7. ASSUME NEW p \in Processes, Works(p) \/ LoopDies(p) \/ WorkerEnds(p) PROVE TypesHold'
  <2>1. CASE Works(p)
    BY <2>1 DEF Works, TypesHold, TypeOK
  <2>2. CASE LoopDies(p)
    <3>1. process' \in [Processes -> BoundedProcs]
      BY <1>1, <2>2 DEF LoopDies, BoundedProcs
    <3>2. QED  BY <1>1, <2>2, <3>1, TypesStay DEF LoopDies
  <2>3. CASE WorkerEnds(p)
    BY <1>1, <2>3, TypesStay DEF WorkerEnds
  <2>4. QED  BY <1>7, <2>1, <2>2, <2>3
<1>8. ASSUME NEW p \in Processes,
             BackupWakes(p) \/ BackupMade(p) \/ BackupFails(p) \/ BackupEnds(p)
      PROVE  TypesHold'
  <2>1. CASE BackupWakes(p)
    BY <1>1, <2>1, TypesStay DEF BackupWakes
  <2>2. CASE BackupMade(p)
    <3>1. process' \in [Processes -> BoundedProcs]
      BY <1>1, <2>2 DEF BackupMade, BoundedProcs
    <3>2. QED  BY <1>1, <2>2, <3>1, TypesStay DEF BackupMade
  <2>3. CASE BackupFails(p)
    <3>1. Failures(p) \in 0 .. Threshold
      BY <1>1 DEF Failures, BoundedProcs
    <3>2. process' \in [Processes -> BoundedProcs]
      <4> DEFINE fatal == Failures(p) >= Threshold
      <4>0. fatal \in BOOLEAN /\ process[p] \in BoundedProcs
        BY <1>1
      <4>2. process' = [process EXCEPT ![p] = [process[p] EXCEPT
                          !.failures = Failures(p), !.fatal = fatal,
                          !.asked = process[p].asked \/ fatal]]
        BY <2>3 DEF BackupFails
      <4> HIDE DEF fatal
      <4>3. PICK r : r = [process[p] EXCEPT !.failures = Failures(p), !.fatal = fatal,
                                            !.asked = process[p].asked \/ fatal]
        OBVIOUS
      <4>4. r \in BoundedProcs
        BY <3>1, <4>0, <4>3 DEF BoundedProcs
      <4>5. QED  BY <1>0, <4>2, <4>3, <4>4
    <3>3. backup' \in [Processes -> {"none", "waits", "copies", "ended"}]
      BY <1>1, <2>3 DEF BackupFails
    <3>4. QED  BY <1>1, <2>3, <3>2, <3>3, TypesStay DEF BackupFails
  <2>4. CASE BackupEnds(p)
    BY <1>1, <2>4, TypesStay DEF BackupEnds
  <2>5. QED  BY <1>8, <2>1, <2>2, <2>3, <2>4
<1>9. ASSUME NEW p \in Processes,
             Terminate(p) \/ FinalSnapshot(p) \/ NoFinal(p)
      PROVE  TypesHold'
  <2>1. \E pc \in Places : Goto(p, pc)
    BY <1>9 DEF Terminate, FinalSnapshot, NoFinal, Places
  <2>2. BeginCopy(p) \/ Pruned(p) \/ CopyFails(p) \/ UNCHANGED copying
    BY <1>9 DEF Terminate, FinalSnapshot, NoFinal
  <2>3. UNCHANGED <<lease, worker, backup, snapshots, last, writes>>
    BY <1>9 DEF Terminate, FinalSnapshot, NoFinal
  <2>4. QED  BY <1>1, <1>3, <2>1, <2>2, <2>3, TypesStay
<1>10. ASSUME NEW p \in Processes, WorkerStopped(p) \/ FinalMade(p) \/ CloseStore(p)
       PROVE  TypesHold'
  <2>1. process' \in [Processes -> BoundedProcs]
    <3>1. CASE WorkerStopped(p)
      <4> DEFINE ended == worker[p] = "ended"
      <4>1. process[p] \in BoundedProcs /\ ended \in BOOLEAN
        BY <1>1
      <4>2. process' = [process EXCEPT ![p] = [process[p] EXCEPT !.pc = "workerStopped",
                                                                 !.joined = ended]]
        BY <3>1 DEF WorkerStopped
      <4> HIDE DEF ended
      <4>3. [process[p] EXCEPT !.pc = "workerStopped", !.joined = ended] \in BoundedProcs
        BY <4>1 DEF BoundedProcs, Places
      <4>4. QED  BY <1>0, <4>2, <4>3
    <3>2. CASE FinalMade(p)
      <4>1. [process[p] EXCEPT !.pc = "stopped", !.final = TRUE] \in BoundedProcs
        BY <1>1 DEF BoundedProcs, Places
      <4>2. Sets(p, [process[p] EXCEPT !.pc = "stopped", !.final = TRUE])
        BY <3>2 DEF FinalMade
      <4>3. QED  BY <1>0, <4>1, <4>2
    <3>3. CASE CloseStore(p)
      <4>1. [process[p] EXCEPT !.pc = "exiting", !.closed = process[p].joined] \in BoundedProcs
        BY <1>1 DEF BoundedProcs, Places
      <4>2. Sets(p, [process[p] EXCEPT !.pc = "exiting", !.closed = process[p].joined])
        BY <3>3 DEF CloseStore
      <4>3. QED  BY <1>0, <4>1, <4>2
    <3>4. QED  BY <1>10, <3>1, <3>2, <3>3
  <2>2. /\ Pruned(p) \/ UNCHANGED copying
        /\ UNCHANGED <<lease, worker, backup, snapshots, last, writes>>
    BY <1>10 DEF WorkerStopped, FinalMade, CloseStore
  <2>3. QED  BY <1>1, <2>1, <2>2, TypesStay
<1>11. CASE UNCHANGED vars
  BY <1>11 DEF vars, TypesHold, TypeOK
<1>12. QED
  BY <1>4, <1>5, <1>6, <1>7, <1>8, <1>9, <1>10, <1>11 DEF Next, Main

\* The state of the processes, their threads and the snapshots has the values the
\* code gives it: no count of failures passes the threshold at which the worker
\* comes down, and what is copied has a name of its own.
THEOREM ProcessTypeOK ==
    ASSUME Threshold \in Nat \ {0}, MaxWrites \in Nat
    PROVE  Spec => []TypeOK
<1>1. Init => TypesHold
  BY TypesInit
<1>2. TypesHold /\ [Next]_vars => TypesHold'
  BY TypesStep
<1>3. TypesHold => TypeOK
  BY DEF TypesHold
<1>4. QED  BY <1>1, <1>2, <1>3, PTL DEF Spec

-------------------------------------------------------------------------------
(* The folder: the months of use and of payment, and the files.            *)

\* The months of a calendar.
Calendar == [year: Int, month: 1 .. 12]

\* shift_month goes on a number of months, and every month is reached so.
LEMMA ShiftIs ==
    ASSUME NEW m \in Calendar, NEW delta \in Int
    PROVE  /\ Folder!ShiftMonth(m, delta) \in Calendar
           /\ Folder!Index(Folder!ShiftMonth(m, delta)) = Folder!Index(m) + delta
<1> DEFINE n == Folder!Index(m) + delta
<1>1. n \in Int
  BY DEF Folder!Index, Calendar
<1>2. n \div 12 \in Int /\ n % 12 \in 0 .. 11 /\ n = (n \div 12) * 12 + (n % 12)
  BY <1>1
<1>3. Folder!ShiftMonth(m, delta) = [year |-> n \div 12, month |-> (n % 12) + 1]
  BY DEF Folder!ShiftMonth, Folder!Index
<1> HIDE DEF n
<1>4. (n % 12) + 1 \in 1 .. 12 /\ ((n % 12) + 1) - 1 = n % 12
  BY <1>2
<1>5. Folder!ShiftMonth(m, delta).year = n \div 12
      /\ Folder!ShiftMonth(m, delta).month = (n % 12) + 1
  BY <1>3
<1>6. Folder!ShiftMonth(m, delta) \in Calendar
  BY <1>2, <1>3, <1>4 DEF Calendar
<1>7. Folder!Index(Folder!ShiftMonth(m, delta)) = n
  BY <1>2, <1>4, <1>5 DEF Folder!Index
<1>8. QED  BY <1>6, <1>7 DEF n

LEMMA IndexTells ==
    ASSUME NEW m \in Calendar, NEW n \in Calendar, Folder!Index(m) = Folder!Index(n)
    PROVE  m = n
<1>1. /\ m.year \in Int /\ m.month \in 1 .. 12 /\ n.year \in Int /\ n.month \in 1 .. 12
      /\ m.year * 12 + (m.month - 1) = n.year * 12 + (n.month - 1)
  BY DEF Calendar, Folder!Index
<1>2. \A y, z \in Int, i, j \in 1 .. 12 : y * 12 + (i - 1) = z * 12 + (j - 1) => y = z /\ i = j
  OBVIOUS
<1>3. m = [year |-> m.year, month |-> m.month] /\ n = [year |-> n.year, month |-> n.month]
  BY DEF Calendar
<1>4. QED  BY <1>1, <1>2, <1>3

\* To shift by more and more is to shift by the sum, and by nothing is to stay.
LEMMA ShiftsAdd ==
    ASSUME NEW m \in Calendar, NEW a \in Int, NEW b \in Int
    PROVE  Folder!ShiftMonth(Folder!ShiftMonth(m, a), b) = Folder!ShiftMonth(m, a + b)
<1>1. Folder!ShiftMonth(m, a) \in Calendar /\ Folder!Index(Folder!ShiftMonth(m, a)) = Folder!Index(m) + a
  BY ShiftIs
<1>2. /\ Folder!ShiftMonth(Folder!ShiftMonth(m, a), b) \in Calendar
      /\ Folder!Index(Folder!ShiftMonth(Folder!ShiftMonth(m, a), b)) = Folder!Index(m) + a + b
  BY <1>1, ShiftIs
<1>3. /\ Folder!ShiftMonth(m, a + b) \in Calendar
      /\ Folder!Index(Folder!ShiftMonth(m, a + b)) = Folder!Index(m) + (a + b)
  BY ShiftIs
<1>4. Folder!Index(m) \in Int
  BY DEF Folder!Index, Calendar
<1>5. QED  BY <1>2, <1>3, <1>4, IndexTells

LEMMA ShiftByNothing ==
    ASSUME NEW m \in Calendar PROVE Folder!ShiftMonth(m, 0) = m
<1>1. Folder!Index(m) \in Int
  BY DEF Folder!Index, Calendar
<1>2. QED  BY <1>1, ShiftIs, IndexTells

\* A service is paid at most a month before or after its use.
LEMMA Offsets ==
    ASSUME NEW s \in Folder!Services PROVE Folder!Offset[s] \in -1 .. 1
BY DEF Folder!Services, Folder!Offset

\* usage_month_for undoes expected_transaction_month, so that no two months of
\* use share a paid month.
LEMMA UsageIs ==
    ASSUME NEW s \in Folder!Services, NEW m \in Calendar
    PROVE  /\ Folder!ExpectedTransactionMonth(s, m) \in Calendar
           /\ Folder!UsageMonthFor(s, m) \in Calendar
           /\ Folder!UsageMonthFor(s, Folder!ExpectedTransactionMonth(s, m)) = m
           /\ Folder!ExpectedTransactionMonth(s, Folder!UsageMonthFor(s, m)) = m
<1>1. Folder!Offset[s] \in Int /\ -Folder!Offset[s] \in Int
      /\ Folder!Offset[s] + (-Folder!Offset[s]) = 0 /\ (-Folder!Offset[s]) + Folder!Offset[s] = 0
  BY Offsets
<1>2. \A n \in Calendar :
        /\ Folder!ShiftMonth(n, Folder!Offset[s]) \in Calendar
        /\ Folder!ShiftMonth(n, -Folder!Offset[s]) \in Calendar
  BY <1>1, ShiftIs
<1>3. /\ Folder!ShiftMonth(Folder!ShiftMonth(m, Folder!Offset[s]), -Folder!Offset[s]) = m
      /\ Folder!ShiftMonth(Folder!ShiftMonth(m, -Folder!Offset[s]), Folder!Offset[s]) = m
  <2>1. /\ Folder!ShiftMonth(Folder!ShiftMonth(m, Folder!Offset[s]), -Folder!Offset[s])
           = Folder!ShiftMonth(m, 0)
        /\ Folder!ShiftMonth(Folder!ShiftMonth(m, -Folder!Offset[s]), Folder!Offset[s])
           = Folder!ShiftMonth(m, 0)
    BY <1>1, ShiftsAdd
  <2>2. QED  BY <2>1, ShiftByNothing
<1>4. QED  BY <1>2, <1>3 DEF Folder!ExpectedTransactionMonth, Folder!UsageMonthFor

LEMMA AroundIs ==
    /\ \A n \in Nat : Folder!Around(n) \subseteq Calendar
    /\ \A m \in Months : m \in Calendar
    /\ \A n \in Nat, m \in Months : \A delta \in -n .. n : Folder!ShiftMonth(m, delta) \in Folder!Around(n)
<1>1. \A m \in Months : m \in Calendar
  BY PartsAssumption DEF Calendar
<1>2. \A n \in Nat, m \in Months : \A delta \in -n .. n : Folder!ShiftMonth(m, delta) \in Calendar
  BY <1>1, ShiftIs
<1>3. QED  BY <1>1, <1>2 DEF Folder!Around

-------------------------------------------------------------------------------
(* Files.                                                                  *)

\* The first of a month is a date of that month, and one of Dates if it is near.
LEMMA FirstIs ==
    ASSUME NEW m \in Calendar
    PROVE  /\ Folder!MonthOf(Folder!OnDay(m, "first")) = m
           /\ Folder!OnDay(m, "first") # Folder!NoDate
           /\ m \in Folder!Around(1) => Folder!OnDay(m, "first") \in Folder!Dates
<1>1. m = [year |-> m.year, month |-> m.month]
  BY DEF Calendar
<1>2. Folder!OnDay(m, "first").year = m.year /\ Folder!OnDay(m, "first").month = m.month
      /\ Folder!OnDay(m, "first").day = "first" /\ Folder!NoDate.day = "none"
  BY DEF Folder!OnDay, Folder!NoDate
<1>3. Folder!MonthOf(Folder!OnDay(m, "first")) = m
  BY <1>1, <1>2 DEF Folder!MonthOf
<1>4. QED  BY <1>2, <1>3 DEF Folder!Dates

\* A file that was saved for a service and month of use bears the name of both.
IsFor(file, s, usage) ==
    /\ file.kind = "pdf" /\ file.partner = s /\ file.amount \in {"yen", "zero"}
    /\ file.date # Folder!NoDate
    /\ Folder!MonthOf(file.date) = Folder!ExpectedTransactionMonth(s, usage)

\* date_in_target_month: whatever date the document bears, the name's is in the
\* month in which the service is paid.
LEMMA NamedIsFor ==
    ASSUME NEW s \in Folder!Services, NEW usage \in Months,
           NEW candidate \in Folder!Dates \cup {Folder!NoDate}, NEW amount \in {"yen", "zero"}
    PROVE  /\ Folder!Named(s, usage, candidate, amount) \in Folder!Files
           /\ IsFor(Folder!Named(s, usage, candidate, amount), s, usage)
<1> DEFINE paid == Folder!ExpectedTransactionMonth(s, usage)
           date == Folder!DateInTargetMonth(paid, candidate)
<1>1. Folder!Offset[s] \in -1 .. 1 /\ usage \in Calendar
  BY Offsets, AroundIs
<1>2. paid \in Calendar /\ paid \in Folder!Around(1)
  BY <1>1, UsageIs, AroundIs DEF Folder!ExpectedTransactionMonth
<1>3. Folder!Named(s, usage, candidate, amount)
        = [kind |-> "pdf", partner |-> s, amount |-> amount, date |-> date]
  BY DEF Folder!Named
<1> HIDE DEF paid
<1>4. date \in Folder!Dates /\ date # Folder!NoDate /\ Folder!MonthOf(date) = paid
  BY <1>2, FirstIs DEF Folder!DateInTargetMonth
<1> HIDE DEF date
<1>5. Folder!Named(s, usage, candidate, amount) \in Folder!Files
  BY <1>3, <1>4 DEF Folder!Files
<1>6. QED  BY <1>3, <1>4, <1>5 DEF IsFor, paid

\* The page shows one whenever there is one to be found.
NewestIsThere ==
    \A s \in Folder!Services : \A usage \in Calendar :
      Folder!Found(s, usage) # {} => Folder!Shown(s, usage) # {}

\* No two files of one modification, and none of one to come.
FilesAre ==
    /\ changes \in 0 .. MaxChanges
    /\ \A f \in drive :
         /\ f \in [file: Folder!Files, at: 1 .. changes]
         /\ \A g \in drive : f.at = g.at => f = g

\* What is saved for somebody bears that name, and is not overwritten unless by its like.
ReceiptIs(r) ==
    /\ r \in [service: Folder!Services, month: Months, saved: [file: Folder!Files, at: 1 .. changes]]
    /\ r.month \in Folder!SelectableMonths
    /\ IsFor(r.saved.file, r.service, r.month)
    /\ IF r.saved.file.amount = "zero"
       THEN \E f \in drive : f.file = r.saved.file
       ELSE r.saved \in drive

FolderInv ==
    /\ FilesAre /\ NewestIsThere
    /\ today \in Months
    /\ \A r \in receipts : ReceiptIs(r)

LEMMA FolderInit == Folder!Init => FolderInv
<1> SUFFICES ASSUME Folder!Init PROVE FolderInv
  OBVIOUS
<1>1. drive = {} /\ changes = 0 /\ today \in Months /\ receipts = {}
  BY PartsAssumption DEF Folder!Init, Folder!Start
<1>2. FilesAre
  BY <1>1, PartsAssumption DEF FilesAre
<1>3. NewestIsThere
  BY <1>1 DEF NewestIsThere, Folder!Found
<1>4. QED  BY <1>1, <1>2, <1>3 DEF FolderInv

\* The months that have a page stay the ones that have one.
LEMMA MonthsStay ==
    ASSUME today \in Calendar
    PROVE  /\ Folder!SelectableMonths \subseteq Calendar
           /\ Folder!NextMonth => Folder!SelectableMonths \subseteq Folder!SelectableMonths'
<1>1. Folder!Start \in Calendar /\ Folder!Index(Folder!Start) \in Int /\ Folder!Index(today) \in Int
  BY DEF Folder!Start, Calendar, Folder!Index
<1>2. \A n \in Int : Folder!ShiftMonth(Folder!Start, n) \in Calendar
  BY <1>1, ShiftIs
<1>3. Folder!SelectableMonths \subseteq Calendar
  BY <1>1, <1>2 DEF Folder!SelectableMonths
<1>4. ASSUME Folder!NextMonth
      PROVE  Folder!SelectableMonths \subseteq Folder!SelectableMonths'
  <2>1. today' = Folder!ShiftMonth(today, 1)
    BY <1>4 DEF Folder!NextMonth
  <2>2. Folder!Index(today') = Folder!Index(today) + 1
    BY <2>1, ShiftIs
  <2>3. 0 .. Folder!Index(today) - Folder!Index(Folder!Start)
          \subseteq 0 .. Folder!Index(today') - Folder!Index(Folder!Start)
    BY <1>1, <2>2
  <2>4. Folder!SelectableMonths'
          = {Folder!ShiftMonth(Folder!Start, n) :
               n \in 0 .. Folder!Index(today') - Folder!Index(Folder!Start)}
    BY DEF Folder!SelectableMonths, Folder!Index
  <2>5. QED  BY <2>3, <2>4 DEF Folder!SelectableMonths
<1>5. QED  BY <1>3, <1>4

\* A file is written over only if it counts for no month; what is written is the
\* newest of all, for whomever it counts.
LEMMA WriteKeeps ==
    ASSUME FilesAre, NewestIsThere, changes < MaxChanges,
           NEW file \in Folder!Files, NEW replaced \in SUBSET drive, Folder!Write(file, replaced),
           \A f \in replaced : \A s \in Folder!Services : \A usage \in Calendar :
             ~Folder!Matches(f.file, s, usage)
    PROVE  FilesAre' /\ NewestIsThere'
<1> DEFINE new == [file |-> file, at |-> changes + 1]
<1>1. /\ drive' = (drive \ replaced) \cup {new} /\ changes' = changes + 1
      /\ new.file = file /\ new.at = changes + 1
  BY DEF Folder!Write
<1>2. changes \in Nat /\ changes' \in 0 .. MaxChanges /\ changes + 1 \in 1 .. changes'
  BY <1>1, PartsAssumption DEF FilesAre
<1>3. new \in [file: Folder!Files, at: 1 .. changes']
  BY <1>2
<1> HIDE DEF new
<1>4. \A f \in drive : f \in [file: Folder!Files, at: 1 .. changes'] /\ f.at < new.at
  <2> SUFFICES ASSUME NEW f \in drive
               PROVE  f \in [file: Folder!Files, at: 1 .. changes'] /\ f.at < new.at
    OBVIOUS
  <2>1. f \in [file: Folder!Files, at: 1 .. changes]
    BY DEF FilesAre
  <2>2. f.at \in 1 .. changes
    BY <2>1
  <2>3. 1 .. changes \subseteq 1 .. changes'
    BY <1>1, <1>2
  <2>4. QED  BY <1>1, <1>2, <2>1, <2>2, <2>3
<1>5. FilesAre'
  <2>1. ASSUME NEW f \in drive', NEW g \in drive', f.at = g.at PROVE f = g
    <3>1. new.at \in Int
      BY <1>1, <1>2
    <3>2. \A h \in drive : h.at \in Int /\ h.at # new.at
      BY <1>4, <3>1
    <3>3. CASE f = new \/ g = new
      BY <3>2, <3>3, <2>1, <1>1
    <3>4. CASE f # new /\ g # new
      BY <3>4, <2>1, <1>1 DEF FilesAre
    <3>5. QED  BY <3>3, <3>4
  <2>2. \A f \in drive' : f \in [file: Folder!Files, at: 1 .. changes']
    BY <1>1, <1>3, <1>4
  <2>3. QED  BY <1>2, <2>1, <2>2 DEF FilesAre
<1>6. NewestIsThere'
  <2> SUFFICES ASSUME NEW s \in Folder!Services, NEW usage \in Calendar,
                      Folder!Found(s, usage)' # {}
               PROVE  Folder!Shown(s, usage)' # {}
    BY DEF NewestIsThere
  <2>1. CASE Folder!Matches(file, s, usage)
    <3>1. new \in Folder!Found(s, usage)'
      BY <2>1, <1>1 DEF Folder!Found
    <3>2. \A g \in drive' : g.at <= new.at
      <4>1. \A g \in drive : g.at \in Int
        BY <1>4
      <4>2. QED  BY <1>1, <1>2, <1>4, <4>1
    <3>3. new \in Folder!Shown(s, usage)'
      BY <3>1, <3>2 DEF Folder!Shown, Folder!Found
    <3>4. QED  BY <3>3
  <2>2. CASE ~Folder!Matches(file, s, usage)
    <3>1. Folder!Found(s, usage)' = Folder!Found(s, usage)
      BY <2>2, <1>1 DEF Folder!Found
    <3>2. Folder!Shown(s, usage)' = Folder!Shown(s, usage)
      BY <3>1 DEF Folder!Shown
    <3>3. QED  BY <3>1, <3>2 DEF NewestIsThere
  <2>3. QED  BY <2>1, <2>2
<1>7. QED  BY <1>5, <1>6

\* A file with the name of a service and month of use matches no other.
LEMMA MatchesOne ==
    ASSUME NEW file, NEW s \in Folder!Services, NEW usage \in Calendar, IsFor(file, s, usage),
           NEW t \in Folder!Services, NEW m \in Calendar
    PROVE  Folder!Matches(file, t, m) <=> file.amount = "yen" /\ t = s /\ m = usage
<1>1. ASSUME Folder!Matches(file, t, m)
      PROVE  file.amount = "yen" /\ t = s /\ m = usage
  <2>1. /\ file.amount = "yen" /\ t = s
        /\ Folder!ExpectedTransactionMonth(s, m) = Folder!ExpectedTransactionMonth(s, usage)
    BY <1>1 DEF Folder!Matches, IsFor
  <2>2. QED  BY <2>1, UsageIs
<1>2. ASSUME file.amount = "yen", t = s, m = usage
      PROVE  Folder!Matches(file, t, m)
  BY <1>2 DEF Folder!Matches, IsFor
<1>3. QED  BY <1>1, <1>2

\* upsert_bytes writes over a file only where find_receipt had found none: the file
\* bears the name, so it counts for no month at all.
LEMMA ReplacedIsFound ==
    ASSUME NEW s \in Folder!Services, NEW usage \in Months, Folder!Found(s, usage) = {},
           NEW file, IsFor(file, s, usage), NEW f \in drive, Folder!SameName(f.file, file)
    PROVE  \A t \in Folder!Services : \A m \in Calendar : ~Folder!Matches(f.file, t, m)
<1> SUFFICES ASSUME NEW t \in Folder!Services, NEW m \in Calendar, Folder!Matches(f.file, t, m)
             PROVE  FALSE
  OBVIOUS
<1>1. Folder!Matches(f.file, s, usage)
  BY DEF Folder!Matches, Folder!SameName, IsFor
<1>2. QED  BY <1>1 DEF Folder!Found

\* Files of one name and kind are alike in all that is read of them.
LEMMA FilesAreAlike ==
    ASSUME NEW file \in Folder!Files, NEW other \in Folder!Files,
           Folder!SameName(file, other), file.kind = other.kind
    PROVE  file = other
<1>1. \A x \in Folder!Files :
        x = [kind |-> x.kind, date |-> x.date, partner |-> x.partner, amount |-> x.amount]
  BY DEF Folder!Files
<1>2. /\ file = [kind |-> file.kind, date |-> file.date, partner |-> file.partner,
                 amount |-> file.amount]
      /\ other = [kind |-> other.kind, date |-> other.date, partner |-> other.partner,
                  amount |-> other.amount]
  BY <1>1
<1>3. QED  BY <1>2 DEF Folder!SameName

\* What is true of a receipt stays so when other files, or its like, are written.
LEMMA ReceiptStays ==
    ASSUME FolderInv, NEW file \in Folder!Files, file.kind = "pdf",
           NEW replaced \in SUBSET drive, Folder!Write(file, replaced),
           \A f \in replaced : /\ Folder!SameName(f.file, file)
                               /\ \A s \in Folder!Services : \A usage \in Calendar :
                                    ~Folder!Matches(f.file, s, usage),
           NEW r \in receipts
    PROVE  ReceiptIs(r)'
<1> DEFINE new == [file |-> file, at |-> changes + 1]
<1>1. /\ drive' = (drive \ replaced) \cup {new} /\ changes' = changes + 1 /\ today' = today
      /\ new.file = file
  BY DEF Folder!Write
<1> HIDE DEF new
<1>2. /\ ReceiptIs(r) /\ changes \in Nat
      /\ \A f \in drive : f.file \in Folder!Files
  BY PartsAssumption DEF FolderInv, FilesAre
<1>3. r \in [service: Folder!Services, month: Months, saved: [file: Folder!Files, at: 1 .. changes']]
  <2>1. 1 .. changes \subseteq 1 .. changes'
    BY <1>1, <1>2
  <2>2. r \in [service: Folder!Services, month: Months, saved: [file: Folder!Files, at: 1 .. changes]]
    BY <1>2 DEF ReceiptIs
  <2> HIDE DEF new
  <2>3. [file: Folder!Files, at: 1 .. changes] \subseteq [file: Folder!Files, at: 1 .. changes']
    BY <2>1
  <2>4. QED  BY <2>2, <2>3
<1>4. /\ r.service \in Folder!Services /\ r.month \in Calendar /\ r.saved.file \in Folder!Files
      /\ IsFor(r.saved.file, r.service, r.month)
  BY <1>2, AroundIs DEF ReceiptIs
<1>5. r.month \in Folder!SelectableMonths'
  <2>1. Folder!SelectableMonths' = Folder!SelectableMonths
    BY <1>1 DEF Folder!SelectableMonths, Folder!Index
  <2>2. QED  BY <1>2, <2>1 DEF ReceiptIs
<1>6. ASSUME r.saved.file.amount = "zero"
      PROVE  \E f \in drive' : f.file = r.saved.file
  <2>1. PICK f \in drive : f.file = r.saved.file
    BY <1>2, <1>6 DEF ReceiptIs
  <2>2. CASE f \in replaced
    <3>1. f.file \in Folder!Files /\ f.file.kind = file.kind /\ Folder!SameName(f.file, file)
      BY <1>2, <1>4, <2>1, <2>2 DEF IsFor
    <3>2. f.file = file
      BY <3>1, FilesAreAlike
    <3>3. QED  BY <1>1, <2>1, <3>2
  <2>3. CASE f \notin replaced
    BY <1>1, <2>1, <2>3
  <2>4. QED  BY <2>2, <2>3
<1>7. ASSUME r.saved.file.amount # "zero"
      PROVE  r.saved \in drive'
  <2>1. r.saved \in drive /\ r.saved.file.amount = "yen"
    BY <1>2, <1>4, <1>7 DEF ReceiptIs, IsFor
  <2>2. Folder!Matches(r.saved.file, r.service, r.month)
    BY <1>4, <2>1, MatchesOne
  <2>3. r.saved \notin replaced
    BY <1>4, <2>2
  <2>4. QED  BY <1>1, <2>1, <2>3
<1>8. QED
  BY <1>3, <1>4, <1>5, <1>6, <1>7 DEF ReceiptIs, IsFor

LEMMA FolderStep ==
    ASSUME FolderInv, [Folder!Next]_(Folder!vars) PROVE FolderInv'
<1>1. ASSUME NEW file \in Folder!Files, changes < MaxChanges, Folder!PutFile(file)
      PROVE  FolderInv'
  <2>1. Folder!Write(file, {}) /\ UNCHANGED receipts /\ today' = today
    BY <1>1 DEF Folder!PutFile, Folder!Write
  <2>2. FilesAre' /\ NewestIsThere'
    BY <1>1, <2>1, WriteKeeps DEF FolderInv
  <2>3. ASSUME NEW r \in receipts PROVE ReceiptIs(r)'
    <3>1. ReceiptIs(r) /\ changes \in Nat
      BY PartsAssumption DEF FolderInv, FilesAre
    <3>2. drive \subseteq drive' /\ changes' = changes + 1
      BY <2>1 DEF Folder!Write
    <3>3. Folder!SelectableMonths' = Folder!SelectableMonths
      BY <2>1 DEF Folder!SelectableMonths, Folder!Index
    <3>4. r \in [service: Folder!Services, month: Months, saved: [file: Folder!Files, at: 1 .. changes']]
      <4>1. 1 .. changes \subseteq 1 .. changes'
        BY <3>1, <3>2
      <4>2. [file: Folder!Files, at: 1 .. changes] \subseteq [file: Folder!Files, at: 1 .. changes']
        BY <4>1
      <4>3. QED  BY <3>1, <4>2 DEF ReceiptIs
    <3>5. QED  BY <3>1, <3>2, <3>3, <3>4 DEF ReceiptIs, IsFor
  <2>4. QED  BY <2>1, <2>2, <2>3 DEF FolderInv
<1>2. ASSUME NEW s \in Folder!Services, NEW usage \in Months,
             NEW candidate \in Folder!Dates \cup {Folder!NoDate}, NEW amount \in {"yen", "zero"},
             changes < MaxChanges, Folder!Acquire(s, usage, candidate, amount)
      PROVE  FolderInv'
  <2> DEFINE file == Folder!Named(s, usage, candidate, amount)
             kept == [file |-> file, at |-> changes + 1]
             new == [service |-> s, month |-> usage, saved |-> kept]
  <2>1. file \in Folder!Files /\ IsFor(file, s, usage)
    BY NamedIsFor
  <2>2. /\ usage \in Folder!SelectableMonths /\ Folder!Found(s, usage) = {}
        /\ receipts' = receipts \cup {new}
    BY <1>2 DEF Folder!Acquire
  <2>3. PICK replaced \in SUBSET drive :
          /\ Folder!Write(file, replaced)
          /\ \A f \in replaced : Folder!SameName(f.file, file)
    BY <1>2 DEF Folder!Acquire
  <2>4. /\ kept.file = file /\ kept.at = changes + 1
        /\ new.service = s /\ new.month = usage /\ new.saved = kept
        /\ kept \in drive' /\ changes' = changes + 1 /\ today' = today
    BY <2>3 DEF Folder!Write
  <2>5. kept \in [file: Folder!Files, at: 1 .. changes']
    <3>1. changes \in Nat
      BY PartsAssumption DEF FolderInv, FilesAre
    <3>2. changes + 1 \in 1 .. changes'
      BY <2>4, <3>1
    <3>3. QED  BY <2>1, <3>2
  <2>6. new \in [service: Folder!Services, month: Months, saved: [file: Folder!Files, at: 1 .. changes']]
    BY <2>5
  <2> HIDE DEF file, kept, new
  <2>7. \A f \in replaced : \A t \in Folder!Services : \A m \in Calendar :
          ~Folder!Matches(f.file, t, m)
    BY <2>1, <2>2, <2>3, ReplacedIsFound
  <2>8. FilesAre' /\ NewestIsThere'
    BY <1>2, <2>1, <2>3, <2>7, WriteKeeps DEF FolderInv
  <2>9. ASSUME NEW r \in receipts PROVE ReceiptIs(r)'
    BY <2>1, <2>3, <2>7, ReceiptStays DEF IsFor
  <2>10. ASSUME NEW r, r = new PROVE ReceiptIs(r)'
    <3>1. Folder!SelectableMonths' = Folder!SelectableMonths
      BY <2>4 DEF Folder!SelectableMonths, Folder!Index
    <3>2. r.service = s /\ r.month = usage /\ r.saved = kept /\ r.saved.file = file
      BY <2>4, <2>10
    <3>3. r.month \in Folder!SelectableMonths' /\ IsFor(r.saved.file, r.service, r.month)
      BY <2>1, <2>2, <3>1, <3>2
    <3>4. r.saved \in drive' /\ \E f \in drive' : f.file = r.saved.file
      BY <2>4, <3>2
    <3>5. QED  BY <2>6, <2>10, <3>3, <3>4 DEF ReceiptIs, IsFor
  <2>11. \A r \in receipts' : ReceiptIs(r)'
    BY <2>2, <2>9, <2>10
  <2>12. QED  BY <2>4, <2>8, <2>11 DEF FolderInv
<1>3. ASSUME Folder!NextMonth PROVE FolderInv'
  <2>1. /\ today' \in Months /\ UNCHANGED <<drive, changes, receipts>>
        /\ Folder!SelectableMonths \subseteq Folder!SelectableMonths'
    BY <1>3, AroundIs, MonthsStay DEF FolderInv, Folder!NextMonth
  <2>2. FilesAre' /\ NewestIsThere'
    BY <2>1 DEF FolderInv, FilesAre, NewestIsThere, Folder!Found, Folder!Shown
  <2>3. \A r \in receipts : ReceiptIs(r)'
    BY <2>1 DEF FolderInv, ReceiptIs, IsFor
  <2>4. QED  BY <2>1, <2>2, <2>3 DEF FolderInv
<1>4. ASSUME UNCHANGED Folder!vars PROVE FolderInv'
  <2>1. drive' = drive /\ changes' = changes /\ today' = today /\ receipts' = receipts
    BY <1>4 DEF Folder!vars
  <2>2. FilesAre' /\ NewestIsThere'
    BY <2>1 DEF FolderInv, FilesAre, NewestIsThere, Folder!Found, Folder!Shown
  <2>3. \A r \in receipts : ReceiptIs(r)'
    BY <2>1 DEF FolderInv, ReceiptIs, IsFor, Folder!SelectableMonths, Folder!Index
  <2>4. QED  BY <2>1, <2>2, <2>3 DEF FolderInv
<1>5. QED  BY <1>1, <1>2, <1>3, <1>4 DEF Folder!Next

LEMMA FolderTypes == FolderInv => Folder!TypeOK
BY DEF FolderInv, FilesAre, ReceiptIs, Folder!TypeOK

LEMMA FolderFinds == FolderInv => Folder!SavedIsFound
<1> SUFFICES ASSUME FolderInv, NEW r \in receipts
             PROVE  /\ r.month \in Folder!SelectableMonths
                    /\ IF r.saved.file.amount = "zero"
                       THEN /\ Folder!Listing(r.saved.file) = "review"
                            /\ \E f \in drive : f.file = r.saved.file
                       ELSE /\ \A s \in Folder!Services, usage \in Folder!Around(2) :
                                 Folder!Matches(r.saved.file, s, usage)
                                   <=> s = r.service /\ usage = r.month
                            /\ \E f \in Folder!Shown(r.service, r.month) : f.at >= r.saved.at
  BY DEF Folder!SavedIsFound
<1>1. /\ ReceiptIs(r) /\ r.service \in Folder!Services /\ r.month \in Calendar
      /\ IsFor(r.saved.file, r.service, r.month)
  BY AroundIs DEF FolderInv, ReceiptIs
<1>2. r.month \in Folder!SelectableMonths
  BY <1>1 DEF ReceiptIs
<1>3. CASE r.saved.file.amount = "zero"
  <2>1. ~Folder!Recurring(r.saved.file) /\ ~Folder!Parsed(r.saved.file)
    BY <1>3 DEF Folder!Recurring, Folder!Matches, Folder!Parsed
  <2>2. Folder!Listing(r.saved.file) = "review"
    BY <1>1, <1>3, <2>1 DEF Folder!Listing, IsFor
  <2>3. QED  BY <1>1, <1>2, <1>3, <2>2 DEF ReceiptIs
<1>4. CASE r.saved.file.amount # "zero"
  <2>1. r.saved.file.amount = "yen" /\ r.saved \in drive
    BY <1>1, <1>4 DEF IsFor, ReceiptIs
  <2>2. \A usage \in Folder!Around(2) : usage \in Calendar
    BY AroundIs
  <2>3. \A s \in Folder!Services, usage \in Folder!Around(2) :
          Folder!Matches(r.saved.file, s, usage) <=> s = r.service /\ usage = r.month
    BY <1>1, <2>1, <2>2, MatchesOne
  <2>4. r.saved \in Folder!Found(r.service, r.month)
    BY <1>1, <2>1, MatchesOne DEF Folder!Found
  <2>5. PICK f \in Folder!Shown(r.service, r.month) : TRUE
    BY <1>1, <2>4 DEF FolderInv, NewestIsThere
  <2>6. r.saved.at <= f.at /\ f \in drive
    BY <2>4, <2>5 DEF Folder!Shown, Folder!Found
  <2>7. r.saved.at \in Int /\ f.at \in Int
    BY <2>1, <2>6 DEF FolderInv, FilesAre
  <2>8. QED  BY <1>2, <1>4, <2>3, <2>5, <2>6, <2>7
<1>5. QED  BY <1>3, <1>4

LEMMA FolderLeavesOut == FolderInv => Folder!OnlyOlderAreLeftOut
<1> SUFFICES ASSUME FolderInv PROVE Folder!OnlyOlderAreLeftOut
  OBVIOUS
<1>1. Folder!SelectableMonths \subseteq Calendar
  BY AroundIs, MonthsStay DEF FolderInv
<1>2. ASSUME NEW f \in Folder!OnAPage PROVE Folder!Listing(f.file) = "month"
  <2>1. PICK s \in Folder!Services, usage \in Folder!SelectableMonths : f \in Folder!Shown(s, usage)
    BY DEF Folder!OnAPage
  <2>2. Folder!Matches(f.file, s, usage)
    BY <2>1 DEF Folder!Shown, Folder!Found
  <2>3. Folder!UsageMonthFor(s, Folder!ExpectedTransactionMonth(s, usage)) = usage
    BY <1>1, UsageIs
  <2>4. /\ f.file.kind = "pdf" /\ f.file.date # Folder!NoDate
        /\ Folder!MonthOf(f.file.date) = Folder!ExpectedTransactionMonth(s, usage)
    BY <2>2 DEF Folder!Matches
  <2>5. Folder!Recurring(f.file)
    BY <2>2, <2>3, <2>4 DEF Folder!Recurring
  <2>6. QED  BY <2>4, <2>5 DEF Folder!Listing
<1>3. ASSUME NEW f \in drive \ Folder!OnAPage, Folder!Listing(f.file) = "month"
      PROVE  /\ f.file.partner \in Folder!Services
             /\ \A usage \in Folder!SelectableMonths :
                  Folder!ExpectedTransactionMonth(f.file.partner, usage) = Folder!MonthOf(f.file.date)
                    => \E g \in Folder!Shown(f.file.partner, usage) : g.at > f.at
  <2>1. Folder!Recurring(f.file)
    BY <1>3 DEF Folder!Listing
  <2>2. PICK s \in Folder!Services :
               Folder!Matches(f.file, s, Folder!UsageMonthFor(s, Folder!MonthOf(f.file.date)))
    BY <2>1 DEF Folder!Recurring
  <2>3. /\ f.file.kind = "pdf" /\ f.file.date # Folder!NoDate
        /\ f.file.partner = s /\ f.file.amount = "yen"
    BY <2>2 DEF Folder!Matches
  <2>4. ASSUME NEW usage \in Folder!SelectableMonths,
               Folder!ExpectedTransactionMonth(s, usage) = Folder!MonthOf(f.file.date)
        PROVE  \E g \in Folder!Shown(s, usage) : g.at > f.at
    <3>1. f \in Folder!Found(s, usage)
      BY <2>3, <2>4 DEF Folder!Found, Folder!Matches
    <3>2. PICK g \in Folder!Shown(s, usage) : TRUE
      BY <1>1, <3>1 DEF FolderInv, NewestIsThere
    <3>3. g \in drive /\ f.at <= g.at
      BY <3>1, <3>2 DEF Folder!Shown, Folder!Found
    <3>4. f # g
      BY <1>3, <3>2 DEF Folder!OnAPage
    <3>5. f.at # g.at /\ f.at \in Int /\ g.at \in Int
      BY <1>3, <3>3, <3>4 DEF FolderInv, FilesAre
    <3>6. QED  BY <3>2, <3>3, <3>5
  <2>5. QED  BY <2>3, <2>4
<1>4. QED  BY <1>2, <1>3 DEF Folder!OnlyOlderAreLeftOut

LEMMA FolderHolds == Folder!Spec => []FolderInv
<1>1. FolderInv /\ [Folder!Next]_(Folder!vars) => FolderInv'
  BY FolderStep
<1>2. QED  BY <1>1, FolderInit, PTL DEF Folder!Spec

\* A receipt that was saved for a service and month of use counts for these and for
\* no others, over the end of a year too, and find_receipt answers it or one that
\* was put there later.
THEOREM SavedIsAlwaysFound == Folder!Spec => []Folder!SavedIsFound
BY FolderHolds, FolderFinds, PTL

\* No file is on the page of a month and in the archive of build_receipt_archive;
\* one that is in neither is older than what the page of its month shows, or its
\* month is not one of selectable_months.
THEOREM OlderAloneAreLeftOut == Folder!Spec => []Folder!OnlyOlderAreLeftOut
BY FolderHolds, FolderLeavesOut, PTL

-------------------------------------------------------------------------------
(* The parts together.                                                     *)

LEMMA PartsBegin ==
    MCInit => /\ Month!Init /\ Codes!Init /\ Saves!Init /\ Folder!Init /\ Init /\ Link!Init
              /\ Inbox!Init
BY DEF MCInit

\* A step of all is a step of each part, or none of it.
LEMMA PartsStep ==
    ASSUME [MCNext]_allVars
    PROVE  /\ [Month!Next]_(Month!vars) /\ [Codes!Next]_(Codes!vars)
           /\ [Saves!Next]_(Saves!vars) /\ [Folder!Next]_(Folder!vars)
           /\ [Next]_vars
           /\ [Link!Next]_(Link!vars) /\ [Inbox!Next]_(Inbox!vars)
<1>1. Month!Next \/ UNCHANGED monthVars
  BY DEF MCNext, allVars
<1>2. Codes!Next \/ UNCHANGED codesVars
  BY DEF MCNext, allVars
<1>3. Saves!Next \/ UNCHANGED savesVars
  BY DEF MCNext, allVars
<1>4. Folder!Next \/ UNCHANGED driveVars
  BY DEF MCNext, allVars
<1>5. Next \/ UNCHANGED vars
  BY DEF MCNext, allVars
<1>6. Link!Next \/ UNCHANGED linkVars
  BY DEF MCNext, allVars
<1>7. Inbox!Next \/ UNCHANGED inboxVars
  BY DEF MCNext, allVars
<1>8. /\ UNCHANGED monthVars => UNCHANGED Month!vars
      /\ UNCHANGED codesVars => UNCHANGED Codes!vars
  BY DEF monthVars, codesVars, Month!vars, Month!worker, Codes!vars, Codes!worker
<1>9. /\ UNCHANGED savesVars => UNCHANGED Saves!vars
      /\ UNCHANGED driveVars => UNCHANGED Folder!vars
      /\ UNCHANGED linkVars => UNCHANGED Link!vars
      /\ UNCHANGED inboxVars => UNCHANGED Inbox!vars
  BY DEF savesVars, driveVars, linkVars, inboxVars, Saves!vars, Folder!vars, Link!vars,
         Link!history, Inbox!vars
<1>10. QED
  BY <1>1, <1>2, <1>3, <1>4, <1>5, <1>6, <1>7, <1>8, <1>9

LEMMA PartsBehave ==
    MCSpec => Saves!Spec /\ Folder!Spec /\ Spec /\ Link!Spec /\ Inbox!Spec
<1>1. [MCNext]_allVars => /\ [Saves!Next]_(Saves!vars) /\ [Folder!Next]_(Folder!vars)
                          /\ [Next]_vars
                          /\ [Link!Next]_(Link!vars) /\ [Inbox!Next]_(Inbox!vars)
  BY PartsStep
<1>2. QED
  BY <1>1, PartsBegin, PTL
     DEF MCSpec, Saves!Spec, Folder!Spec, Spec, Link!Spec, Inbox!Spec

\* What the instances of JobStore assume.
LEMMA ServicesAreOK ==
    ServiceIds \subseteq Nat \ {Month!NoService} /\ ServiceIds \subseteq Nat \ {Codes!NoService}
BY PartsAssumption DEF Month!NoService, Codes!NoService

\* Jobs and pages need no fairness for what is safe.
LEMMA MonthsHold == MCSpec => [](Month!IInv /\ Codes!IInv)
<1>1. MCInit => Month!IInv /\ Codes!IInv
  BY PartsBegin, ServicesAreOK, Month!InitHolds, Codes!InitHolds
<1>2. Month!IInv /\ [MCNext]_allVars => Month!IInv'
  BY PartsStep, ServicesAreOK, PartsAssumption, Month!NextHolds
<1>3. Codes!IInv /\ [MCNext]_allVars => Codes!IInv'
  BY PartsStep, ServicesAreOK, PartsAssumption, Codes!NextHolds
<1>4. QED  BY <1>1, <1>2, <1>3, PTL DEF MCSpec

LEMMA MonthsGive ==
    Month!IInv /\ Codes!IInv
      => /\ Month!TypeOK /\ Month!EndIsShown
         /\ Codes!TypeOK /\ Codes!AnswersMatch
BY ServicesAreOK, Month!InvGives, Codes!InvGives

LEMMA SavesHold == MCSpec => [](Saves!TypeOK /\ Saves!OneReceipt)
<1>1. MaxCrashes \in Nat /\ Saves!TheThread \notin Uploads
  BY PartsAssumption DEF Saves!TheThread
<1>2. Saves!Spec => []Saves!TypeOK
  BY <1>1, Saves!SavesTypeCorrect
<1>3. Saves!Spec => []Saves!OneReceipt
  BY <1>1, Saves!OneReceiptEver
<1>4. QED  BY <1>2, <1>3, PartsBehave, PTL

LEMMA LinkHolds == MCSpec => [](Link!TypeOK /\ Link!OneExchange /\ Link!TokensFollowOwner)
<1>1. Link!IInv => Link!TypeOK
  BY DEF Link!IInv
<1>2. QED
  BY <1>1, Link!InvHolds, Link!OneExchangeEver, Link!TokensAlwaysFollow, PartsBehave, PTL

LEMMA InboxHolds == MCSpec => []Inbox!TypeOK /\ []Inbox!AcceptedIsUsed /\ Inbox!ImplementsBox
<1>1. Inbox!Spec => []Inbox!TypeOK
  BY PartsAssumption, Inbox!InboxTypeOK
<1>2. Inbox!Spec => []Inbox!AcceptedIsUsed
  BY PartsAssumption, Inbox!AcceptedIsAlwaysUsed
<1>3. Inbox!Spec => Inbox!ImplementsBox
  BY PartsAssumption, Inbox!InboxIsABox
<1>4. QED  BY <1>1, <1>2, <1>3, PartsBehave, PTL

\* Every part has the values the code gives it, through all the steps of all parts.
THEOREM PartsTypesOK == MCSpec => []TypesOK
<1>1. Spec => []TypeOK
  BY PartsAssumption, ProcessTypeOK
<1>2. Month!IInv /\ Codes!IInv => Month!TypeOK /\ Codes!TypeOK
  BY MonthsGive
<1>3. /\ Month!TypeOK /\ Codes!TypeOK /\ Saves!TypeOK /\ FolderInv /\ TypeOK /\ Link!TypeOK
      /\ Inbox!TypeOK
      => TypesOK
  BY FolderTypes DEF TypesOK
<1>4. QED
  BY <1>1, <1>2, <1>3, MonthsHold, SavesHold, FolderHolds, LinkHolds, InboxHolds,
     PartsBehave, PTL

\* Of one job's challenges in any number: a reply of the page goes to the challenge
\* the owner saw (remote_jobs.py _render_challenge).
THEOREM PartAnswersMatch == MCSpec => []AnswersMatch
<1>1. Month!IInv /\ Codes!IInv => AnswersMatch
  BY MonthsGive DEF AnswersMatch
<1>2. QED  BY <1>1, MonthsHold, PTL

\* Of any jobs after one another: an ended one is not shown beside a list that
\* misses what it saved (remote_jobs.py render_remote_month).
THEOREM PartEndIsShown == MCSpec => []EndIsShown
<1>1. Month!IInv /\ Codes!IInv => EndIsShown
  BY MonthsGive DEF EndIsShown
<1>2. QED  BY <1>1, MonthsHold, PTL

\* Drive holds one receipt of a service and month (run_auto_acquisition,
\* save_manual_receipt).
THEOREM PartOneReceipt == MCSpec => []OneReceipt
<1>1. Saves!OneReceipt => OneReceipt
  BY DEF OneReceipt
<1>2. QED  BY <1>1, SavesHold, PTL

\* A saved receipt is found for its service and month of use, and no other
\* (periods.py, naming.py, drive_status.py find_receipt).
THEOREM PartSavedIsFound == MCSpec => []SavedIsFound
<1>1. Folder!SavedIsFound => SavedIsFound
  BY DEF SavedIsFound
<1>2. QED  BY <1>1, SavedIsAlwaysFound, PartsBehave, PTL

\* What neither a month's page nor the archive lists is older than what the page
\* shows, or of a month that has no page (drive_status.py find_receipt,
\* receipt_archive.py build_receipt_archive, config.py selectable_months).
THEOREM PartOnlyOlderAreLeftOut == MCSpec => []OnlyOlderAreLeftOut
<1>1. Folder!OnlyOlderAreLeftOut => OnlyOlderAreLeftOut
  BY DEF OnlyOlderAreLeftOut
<1>2. QED  BY <1>1, OlderAloneAreLeftOut, PartsBehave, PTL

\* The worker of one process at most writes, and can fall back on the snapshot
\* published last (backup_lifecycle.py, sqlite_backup.py).
THEOREM PartWorkIsBackedUp == MCSpec => []WorkIsBackedUp
<1>1. Spec => []WorkIsBackedUp
  BY PartsAssumption, WorkIsAlwaysBackedUp
<1>2. QED  BY <1>1, PartsBehave, PTL

\* A closed store is not written to, and its final snapshot misses nothing
\* (http_api.py _lifespan).
THEOREM PartStopIsClean == MCSpec => []StopIsClean
<1>1. Spec => []StopIsClean
  BY PartsAssumption, StopsAreClean
<1>2. QED  BY <1>1, PartsBehave, PTL

\* A state of an authorization buys one exchange of a code at most, and none once
\* it expired (microsoft.py complete).
THEOREM PartOneExchange == MCSpec => []OneExchange
<1>1. Link!OneExchange => OneExchange
  BY DEF OneExchange
<1>2. QED  BY <1>1, LinkHolds, PTL

\* The tokens are of the account connected last, but for a crossed refresh
\* (microsoft.py access_token).
THEOREM PartTokensFollowOwner == MCSpec => []TokensFollowOwner
<1>1. Link!TokensFollowOwner => TokensFollowOwner
  BY DEF TokensFollowOwner
<1>2. QED  BY <1>1, LinkHolds, PTL

\* An answer the owner was told is accepted reaches the thread that asked, unless the
\* challenge expired, the process stops or the job was cancelled (inbox.py submit).
THEOREM PartAcceptedIsUsed == MCSpec => []AcceptedIsUsed
<1>1. Inbox!AcceptedIsUsed => AcceptedIsUsed
  BY DEF AcceptedIsUsed
<1>2. QED  BY <1>1, InboxHolds, PTL

\* The inbox of challenges implements a box that takes one answer and gives it out
\* once, through the steps of all the other parts.
THEOREM PartImplementsBox == MCSpec => ImplementsBox
BY InboxHolds DEF ImplementsBox
===============================================================================
