--------------------------- MODULE BrowserLeaseProofs ---------------------------
(***************************************************************************)
(* The safety of the browser slot, for any number of sessions, tokens and  *)
(* extensions: type correctness, one attempt at a time, the last browser   *)
(* closed before the next opens, none closed under a page that uses it.    *)
(*                                                                         *)
(* The slot is held by whoever is inside a lifecycle operation, so at most *)
(* one thread is; a lease is "closing" only in the hands of that thread,   *)
(* and nothing is entered meanwhile.  A lease that is used is checked out  *)
(* by the page that uses it, so the one thread that would close it waits.  *)
(***************************************************************************)
EXTENDS BrowserLease, FiniteSetTheorems, TLAPS

\* Where a thread holds the slot, where a session has a lease checked out, and
\* where a thread has a token that is one.
Inside == {"locked", "close", "enter"}
CheckedOut == {"check", "using"}
Aiming == {"close", "peek", "operation"} \cup CheckedOut

ThreadStates == [pc: Places, wish: Wishes, token: Tokens \cup {NoToken}]

\* What the state r of thread a is like whatever the others do.  A timer that
\* has fired goes only to release what is its own.
Fits(a, r) ==
    /\ r \in ThreadStates
    /\ r.pc \in Aiming \/ r.wish = "promote" => r.token \in Tokens
    /\ a \in Timers => /\ r.pc \in TimerPlaces
                       /\ r.pc \in {"slot", "locked", "close"} => r.wish = "expire"

\* The slot belongs to the thread inside, so there is at most one.
SlotIsHeld == \A a \in Threads : slot = a <=> thread[a].pc \in Inside

\* A lease that is checked out stays locked until its user goes.
LeaseIsLocked ==
    \A a \in Sessions : thread[a].pc \in CheckedOut => operation[thread[a].token] = a

ThreadsOK ==
    /\ slot \in Threads \cup {NoOne}
    /\ operation \in [Tokens -> Sessions \cup {NoOne}]
    /\ thread \in [Threads -> ThreadStates]
    /\ \A a \in Threads : Fits(a, thread[a])
    /\ SlotIsHeld
    /\ LeaseIsLocked

\* A lease that is closing is in the hands of a thread that closes it.
ClosingIsInHand ==
    \A t \in Tokens : entry[t] = "closing" <=>
                        \E a \in Threads : At(a, "close") /\ thread[a].token = t

AtMostOneHeld == \A t, u \in Held : t = u

EntriesOK ==
    /\ entry \in [Tokens -> Entries]
    /\ expired \in [Tokens -> BOOLEAN]
    /\ armed \in [Tokens -> Generations \cup {NoTimer}]
    /\ ClosingIsInHand
    /\ AtMostOneHeld
    /\ ClosedBeforeNext
    /\ UsedIsOpen

IInv == ThreadsOK /\ EntriesOK

-------------------------------------------------------------------------------
LEMMA ThreadKinds ==
    /\ \A a \in Threads : a # NoOne
    /\ \A a \in Sessions : a \in Threads /\ a \notin Timers
    /\ \A a \in Timers : a \in Threads /\ a \notin Sessions
    /\ \A a \in Threads : a \in Sessions \/ a \in Timers
BY ThreadsAssumption DEF Threads

LEMMA InitHolds == Init => IInv
<1> SUFFICES ASSUME Init PROVE IInv  OBVIOUS
<1>1. IdleThread \in ThreadStates /\ IdleThread.pc = "idle" /\ IdleThread.wish = "none"
  BY DEF IdleThread, ThreadStates, Places, Wishes
<1>2. \A a \in Threads : thread[a] = IdleThread
  BY DEF Init
<1>3. \A a \in Threads : Fits(a, thread[a])
  BY <1>1, <1>2 DEF Fits, Aiming, CheckedOut, TimerPlaces
<1>4. SlotIsHeld /\ LeaseIsLocked
  BY <1>1, <1>2, ThreadKinds DEF Init, SlotIsHeld, LeaseIsLocked, Inside, CheckedOut
<1>5. ThreadsOK
  BY <1>1, <1>3, <1>4 DEF Init, ThreadsOK
<1>6. Held = {} /\ \A t \in Tokens : entry[t] = "unused"
  BY DEF Init, Held
<1>7. ClosingIsInHand /\ UsedIsOpen
  BY <1>1, <1>2, <1>6, ThreadKinds DEF ClosingIsInHand, UsedIsOpen, At
<1>8. EntriesOK
  BY <1>6, <1>7 DEF Init, EntriesOK, AtMostOneHeld, ClosedBeforeNext, Entries, Generations
<1>9. QED  BY <1>5, <1>8 DEF IInv

-------------------------------------------------------------------------------
(* One thread moves.                                                       *)

\* A thread that fits its new state, takes the slot only when it is free, lets
\* it go when it leaves, and touches no lease that another has checked out.
LEMMA ThreadMoves ==
    ASSUME ThreadsOK, NEW a \in Threads, NEW r,
           thread' = [thread EXCEPT ![a] = r],
           Fits(a, r),
           r.pc \in Inside => slot \in {a, NoOne},
           slot' = IF r.pc \in Inside THEN a ELSE IF slot = a THEN NoOne ELSE slot,
           operation' \in [Tokens -> Sessions \cup {NoOne}],
           \A t \in Tokens : operation'[t] = operation[t] \/ operation[t] \in {a, NoOne},
           r.pc \in CheckedOut => operation'[r.token] = a
    PROVE  /\ ThreadsOK'
           /\ thread'[a] = r
           /\ \A b \in Threads : b # a => thread'[b] = thread[b]
<1>1. r \in ThreadStates
  BY DEF Fits
<1>2. thread' \in [Threads -> ThreadStates] /\ thread'[a] = r
  BY <1>1 DEF ThreadsOK
<1>3. \A b \in Threads : b # a => thread'[b] = thread[b]
  BY DEF ThreadsOK
<1>4. \A b \in Threads : Fits(b, thread'[b])
  BY <1>2, <1>3 DEF ThreadsOK
<1>5. slot' \in Threads \cup {NoOne}
  BY DEF ThreadsOK
<1>6. SlotIsHeld'
  BY <1>2, <1>3, ThreadKinds DEF ThreadsOK, SlotIsHeld
<1>7. LeaseIsLocked'
  <2> SUFFICES ASSUME NEW b \in Sessions, thread'[b].pc \in CheckedOut
               PROVE  operation'[thread'[b].token] = b
    BY DEF LeaseIsLocked
  <2>1. CASE b = a
    BY <2>1, <1>2
  <2>2. CASE b # a
    <3>1. thread'[b] = thread[b] /\ b \in Threads /\ b # NoOne
      BY <2>2, <1>3, ThreadKinds
    <3>2. operation[thread[b].token] = b /\ thread[b].token \in Tokens
      BY <3>1 DEF ThreadsOK, LeaseIsLocked, Fits, Aiming
    <3>3. QED  BY <3>1, <3>2, <2>2
  <2>3. QED  BY <2>1, <2>2
<1>8. ThreadsOK'
  BY <1>2, <1>4, <1>5, <1>6, <1>7 DEF ThreadsOK, Fits
<1>9. QED  BY <1>2, <1>3, <1>8

\* A thread goes to another place under the wish and token it has.
LEMMA GoesTo ==
    ASSUME ThreadsOK, NEW a \in Threads, NEW pc, Goto(a, pc)
    PROVE  /\ thread' = [thread EXCEPT ![a] = [thread[a] EXCEPT !.pc = pc]]
           /\ [thread[a] EXCEPT !.pc = pc].pc = pc
           /\ [thread[a] EXCEPT !.pc = pc].wish = thread[a].wish
           /\ [thread[a] EXCEPT !.pc = pc].token = thread[a].token
           /\ pc \in Places => [thread[a] EXCEPT !.pc = pc] \in ThreadStates
<1>1. thread[a] \in ThreadStates
  BY DEF ThreadsOK
<1>2. QED  BY <1>1 DEF Goto, ThreadStates

\* A thread whose operation is over has no lock and is after nothing.
LEMMA Finishes ==
    ASSUME ThreadsOK, NEW a \in Threads, Finish(a)
    PROVE  /\ ThreadsOK'
           /\ thread'[a].pc \in {"idle", "done"}
           /\ \A b \in Threads : b # a => thread'[b] = thread[b]
           /\ \A t \in Tokens : operation'[t] = operation[t] \/ operation[t] = a
<1> DEFINE r == [IdleThread EXCEPT !.pc = IF a \in Sessions THEN "idle" ELSE "done"]
<1>1. r \in ThreadStates /\ r.wish = "none" /\ r.pc = IF a \in Sessions THEN "idle" ELSE "done"
  BY DEF IdleThread, ThreadStates, Places, Wishes
<1>2. thread' = [thread EXCEPT ![a] = r]
  BY DEF Finish
<1>3. Fits(a, r) /\ r.pc \notin Inside /\ r.pc \notin CheckedOut /\ r.pc \in {"idle", "done"}
  BY <1>1, ThreadKinds DEF Fits, Inside, CheckedOut, Aiming, TimerPlaces
<1>4. slot' = IF slot = a THEN NoOne ELSE slot
  BY DEF Finish
<1>5. operation' = [t \in Tokens |-> IF operation[t] = a THEN NoOne ELSE operation[t]]
  BY DEF Finish
<1>6. operation' \in [Tokens -> Sessions \cup {NoOne}]
  BY <1>5 DEF ThreadsOK
<1>7. \A t \in Tokens : operation'[t] = operation[t] \/ operation[t] = a
  BY <1>5
<1> HIDE DEF r
<1>8. QED  BY <1>2, <1>3, <1>4, <1>6, <1>7, ThreadMoves

\* While no entry changes, all that matters is that nobody begins or ends the
\* closing of a lease, or begins to use one that is not open.
LEMMA EntriesKeep ==
    ASSUME IInv, NEW a \in Threads, UNCHANGED entry,
           expired' \in [Tokens -> BOOLEAN],
           armed' \in [Tokens -> Generations \cup {NoTimer}],
           \A b \in Threads : b # a => thread'[b] = thread[b],
           ~At(a, "close"), thread'[a].pc # "close",
           thread'[a].pc = "using" => entry[thread'[a].token] \in {"lease", "closing"}
    PROVE  EntriesOK'
<1>1. Held' = Held
  BY DEF Held
<1>2. ClosingIsInHand'
  BY DEF IInv, EntriesOK, ClosingIsInHand, At
<1>3. UsedIsOpen'
  BY ThreadKinds DEF IInv, EntriesOK, UsedIsOpen, At
<1>4. QED
  BY <1>1, <1>2, <1>3 DEF IInv, EntriesOK, AtMostOneHeld, ClosedBeforeNext

-------------------------------------------------------------------------------
(* The steps that leave every entry as it is.                              *)

LEMMA AskKeeps ==
    ASSUME IInv, NEW a \in Sessions, NEW wish, NEW t, NEW pc,
           At(a, "idle"),
           Become(a, pc, wish, t),
           pc \in {"slot", "peek", "operation"}, wish \in Wishes, t \in Tokens \cup {NoToken},
           pc # "slot" \/ wish = "promote" => t \in Tokens,
           UNCHANGED <<entry, expired, armed, slot, operation>>
    PROVE  IInv'
<1> DEFINE r == [pc |-> pc, wish |-> wish, token |-> t]
<1>1. a \in Threads /\ a \notin Timers /\ slot # a
  BY ThreadKinds DEF IInv, ThreadsOK, SlotIsHeld, Inside, At
<1>2. thread' = [thread EXCEPT ![a] = r]
  BY DEF Become
<1>3. Fits(a, r) /\ r.pc \notin Inside /\ r.pc \notin CheckedOut /\ r.pc = pc
  BY <1>1 DEF Fits, ThreadStates, Places, Inside, CheckedOut, Aiming
<1> HIDE DEF r
<1>4. ThreadsOK' /\ thread'[a] = r /\ \A b \in Threads : b # a => thread'[b] = thread[b]
  BY <1>1, <1>2, <1>3, ThreadMoves DEF IInv, ThreadsOK
<1>5. EntriesOK'
  BY <1>1, <1>3, <1>4, EntriesKeep DEF IInv, EntriesOK, At
<1>6. QED  BY <1>4, <1>5 DEF IInv

LEMMA TakeSlotKeeps == ASSUME IInv, NEW a \in Threads, TakeSlot(a) PROVE IInv'
<1> DEFINE r == [thread[a] EXCEPT !.pc = "locked"]
<1>1. /\ thread' = [thread EXCEPT ![a] = r] /\ r \in ThreadStates
      /\ r.pc = "locked" /\ r.wish = thread[a].wish /\ r.token = thread[a].token
  BY GoesTo DEF TakeSlot, IInv, Places
<1>2. Fits(a, thread[a]) /\ thread[a].pc = "slot"
  BY DEF IInv, ThreadsOK, TakeSlot, At
<1>3. Fits(a, r)
  BY <1>1, <1>2 DEF Fits, Aiming, CheckedOut, TimerPlaces
<1> HIDE DEF r
<1>4. ThreadsOK' /\ thread'[a] = r /\ \A b \in Threads : b # a => thread'[b] = thread[b]
  BY <1>1, <1>3, ThreadMoves DEF IInv, ThreadsOK, TakeSlot, Inside, CheckedOut
<1>5. EntriesOK'
  BY <1>1, <1>2, <1>4, EntriesKeep DEF IInv, EntriesOK, At, TakeSlot
<1>6. QED  BY <1>4, <1>5 DEF IInv

\* The operation is over and no entry has changed.
LEMMA FinishKeeps ==
    ASSUME IInv, NEW a \in Threads, Finish(a), ~At(a, "close"), UNCHANGED entry,
           expired' \in [Tokens -> BOOLEAN], armed' \in [Tokens -> Generations \cup {NoTimer}]
    PROVE  IInv'
<1>1. ThreadsOK' /\ thread'[a].pc \in {"idle", "done"}
      /\ \A b \in Threads : b # a => thread'[b] = thread[b]
  BY Finishes DEF IInv
<1>2. EntriesOK'
  BY <1>1, EntriesKeep
<1>3. QED  BY <1>1, <1>2 DEF IInv

\* A claim or a lease may be entered next, once nothing has expired.
LEMMA EnterNextKeeps ==
    ASSUME IInv, NEW a \in Sessions, At(a, "locked"), thread[a].wish # "promote",
           Goto(a, "enter"), UNCHANGED <<entry, expired, armed, slot, operation>>
    PROVE  IInv'
<1> DEFINE r == [thread[a] EXCEPT !.pc = "enter"]
<1>1. a \in Threads /\ a \notin Timers /\ slot = a
  BY ThreadKinds DEF IInv, ThreadsOK, SlotIsHeld, Inside, At
<1>2. /\ thread' = [thread EXCEPT ![a] = r] /\ r \in ThreadStates
      /\ r.pc = "enter" /\ r.wish = thread[a].wish /\ r.token = thread[a].token
  BY <1>1, GoesTo DEF IInv, Places
<1>3. Fits(a, r)
  BY <1>1, <1>2 DEF Fits, Aiming, CheckedOut
<1> HIDE DEF r
<1>4. ThreadsOK' /\ thread'[a] = r /\ \A b \in Threads : b # a => thread'[b] = thread[b]
  BY <1>1, <1>2, <1>3, ThreadMoves DEF IInv, ThreadsOK, Inside, CheckedOut
<1>5. EntriesOK'
  BY <1>1, <1>2, <1>4, EntriesKeep DEF IInv, EntriesOK, At
<1>6. QED  BY <1>4, <1>5 DEF IInv

LEMMA TakeOperationKeeps == ASSUME IInv, NEW a \in Sessions, TakeOperation(a) PROVE IInv'
<1> DEFINE r == [thread[a] EXCEPT !.pc = "check"]
           t == thread[a].token
<1>1. a \in Threads /\ a \notin Timers /\ slot # a
  BY ThreadKinds DEF IInv, ThreadsOK, SlotIsHeld, Inside, At, TakeOperation
<1>2. /\ thread' = [thread EXCEPT ![a] = r] /\ r \in ThreadStates
      /\ r.pc = "check" /\ r.wish = thread[a].wish /\ r.token = t
  BY <1>1, GoesTo DEF TakeOperation, IInv, Places
<1>3. thread[a].pc = "operation" /\ t \in Tokens
  BY <1>1 DEF IInv, ThreadsOK, TakeOperation, At, Fits, Aiming
<1>4. Fits(a, r)
  BY <1>1, <1>2, <1>3 DEF Fits
<1>5. operation[t] = NoOne /\ operation' = [operation EXCEPT ![t] = a]
  BY DEF TakeOperation
<1>6. operation' \in [Tokens -> Sessions \cup {NoOne}] /\ operation'[t] = a
  BY <1>3, <1>5 DEF IInv, ThreadsOK
<1>7. \A u \in Tokens : operation'[u] = operation[u] \/ operation[u] \in {a, NoOne}
  BY <1>3, <1>5 DEF IInv, ThreadsOK
<1>8. slot' = slot /\ UNCHANGED <<entry, expired, armed>>
  BY DEF TakeOperation
<1> HIDE DEF r, t
<1>9. ThreadsOK' /\ thread'[a] = r /\ \A b \in Threads : b # a => thread'[b] = thread[b]
  BY <1>1, <1>2, <1>4, <1>6, <1>7, <1>8, ThreadMoves DEF IInv, ThreadsOK, Inside, CheckedOut
<1>10. EntriesOK'
  BY <1>1, <1>2, <1>3, <1>8, <1>9, EntriesKeep DEF IInv, EntriesOK, At
<1>11. QED  BY <1>9, <1>10 DEF IInv

\* What the second look at a lease leads to: it is used, discarded, or refused.
LEMMA CheckKeeps == ASSUME IInv, NEW a \in Sessions, Check(a) PROVE IInv'
<1> DEFINE t == thread[a].token
<1>1. a \in Threads /\ a \notin Timers /\ slot # a
  BY ThreadKinds DEF IInv, ThreadsOK, SlotIsHeld, Inside, At, Check
<1>2. thread[a].pc = "check" /\ t \in Tokens /\ operation[t] = a
  BY <1>1 DEF IInv, ThreadsOK, Check, At, Fits, Aiming, CheckedOut, LeaseIsLocked
<1>3. UNCHANGED <<entry, expired, armed>>
  BY DEF Check
<1>4. CASE entry[t] = "lease" /\ Goto(a, "using") /\ UNCHANGED <<slot, operation>>
  <2> DEFINE r == [thread[a] EXCEPT !.pc = "using"]
  <2>1. /\ thread' = [thread EXCEPT ![a] = r] /\ r \in ThreadStates
        /\ r.pc = "using" /\ r.wish = thread[a].wish /\ r.token = t
    BY <1>1, <1>4, GoesTo DEF IInv, Places
  <2>2. Fits(a, r)
    BY <1>1, <1>2, <2>1 DEF Fits
  <2> HIDE DEF r, t
  <2>3. ThreadsOK' /\ thread'[a] = r /\ \A b \in Threads : b # a => thread'[b] = thread[b]
    BY <1>1, <1>2, <1>4, <2>1, <2>2, ThreadMoves DEF IInv, ThreadsOK, Inside, CheckedOut
  <2>4. EntriesOK'
    BY <1>1, <1>2, <1>3, <1>4, <2>1, <2>3, EntriesKeep DEF IInv, EntriesOK, At
  <2>5. QED  BY <2>3, <2>4 DEF IInv
<1>5. CASE Become(a, "slot", "release", t) /\ UNCHANGED <<slot, operation>>
  <2> DEFINE r == [pc |-> "slot", wish |-> "release", token |-> t]
  <2>1. thread' = [thread EXCEPT ![a] = r]
    BY <1>5 DEF Become
  <2>2. Fits(a, r) /\ r.pc = "slot"
    BY <1>1, <1>2 DEF Fits, ThreadStates, Places, Wishes
  <2> HIDE DEF r, t
  <2>3. ThreadsOK' /\ thread'[a] = r /\ \A b \in Threads : b # a => thread'[b] = thread[b]
    BY <1>1, <1>5, <2>1, <2>2, ThreadMoves DEF IInv, ThreadsOK, Inside, CheckedOut
  <2>4. EntriesOK'
    BY <1>1, <1>2, <1>3, <2>2, <2>3, EntriesKeep DEF IInv, EntriesOK, At
  <2>5. QED  BY <2>3, <2>4 DEF IInv
<1>6. CASE Finish(a)
  BY <1>1, <1>2, <1>3, <1>6, FinishKeeps DEF IInv, EntriesOK, At
<1>7. QED  BY <1>4, <1>5, <1>6 DEF Check

\* A page that is done with a browser gives it back.
LEMMA ReturnKeeps == ASSUME IInv, NEW a \in Sessions, Return(a) PROVE IInv'
BY ThreadKinds, FinishKeeps DEF IInv, EntriesOK, At, Return

LEMMA ExtendKeeps == ASSUME IInv, NEW a \in Sessions, Extend(a) PROVE IInv'
<1> DEFINE t == thread[a].token
<1>1. a \in Threads /\ t \in Tokens /\ ~At(a, "close") /\ Finish(a) /\ UNCHANGED entry
  BY ThreadKinds DEF IInv, ThreadsOK, Fits, Aiming, Extend, At
<1>2. expired' \in [Tokens -> BOOLEAN] /\ armed' \in [Tokens -> Generations \cup {NoTimer}]
  <2>1. CASE entry[t] = "lease" /\ armed[t] < 1 + MaxExtends
    <3>1. armed[t] \in Generations \cup {NoTimer}
      BY <1>1 DEF IInv, EntriesOK
    <3>2. armed[t] + 1 \in Generations
      BY <2>1, <3>1, MaxExtendsAssumption DEF Generations, NoTimer
    <3>3. expired' = [expired EXCEPT ![t] = FALSE] /\ armed' = [armed EXCEPT ![t] = @ + 1]
      BY <2>1 DEF Extend
    <3>4. QED  BY <3>2, <3>3 DEF IInv, EntriesOK
  <2>2. CASE ~(entry[t] = "lease" /\ armed[t] < 1 + MaxExtends)
    BY <2>2 DEF IInv, EntriesOK, Extend
  <2>3. QED  BY <2>1, <2>2
<1>3. QED  BY <1>1, <1>2, FinishKeeps

LEMMA ExpireKeeps == ASSUME IInv, NEW t \in Tokens, Expire(t) PROVE IInv'
<1>1. UNCHANGED <<entry, armed, slot, operation, thread>> /\ Held' = Held
  BY DEF Expire, Held
<1>2. expired' \in [Tokens -> BOOLEAN]
  BY DEF Expire, IInv, EntriesOK
<1>3. ThreadsOK'
  BY <1>1 DEF IInv, ThreadsOK, Fits, SlotIsHeld, LeaseIsLocked
<1>4. EntriesOK'
  BY <1>1, <1>2 DEF IInv, EntriesOK, ClosingIsInHand, AtMostOneHeld, ClosedBeforeNext,
                    UsedIsOpen, At
<1>5. QED  BY <1>3, <1>4 DEF IInv

LEMMA FireKeeps ==
    ASSUME IInv, NEW t \in Tokens, NEW g \in Generations, Fire(t, g)
    PROVE  IInv'
<1> DEFINE a == [token |-> t, generation |-> g]
           r == [pc |-> "slot", wish |-> "expire", token |-> t]
<1>1. a \in Timers
  BY DEF Timers
<1>2. thread' = [thread EXCEPT ![a] = r] /\ thread[a].pc = "idle"
  BY DEF Fire, Become, At
<1>3. UNCHANGED <<entry, expired, armed, slot, operation>>
  BY DEF Fire
<1>4. Fits(a, r) /\ r.pc = "slot"
  BY DEF Fits, ThreadStates, Places, Wishes, TimerPlaces
<1> HIDE DEF a, r
<1>5. a \in Threads /\ slot # a
  BY <1>1, <1>2, ThreadKinds DEF IInv, ThreadsOK, SlotIsHeld, Inside
<1>6. ThreadsOK' /\ thread'[a] = r /\ \A b \in Threads : b # a => thread'[b] = thread[b]
  BY <1>2, <1>3, <1>4, <1>5, ThreadMoves DEF IInv, ThreadsOK, Inside, CheckedOut
<1>7. EntriesOK'
  BY <1>2, <1>3, <1>4, <1>5, <1>6, EntriesKeep DEF IInv, EntriesOK, At
<1>8. QED  BY <1>6, <1>7 DEF IInv

-------------------------------------------------------------------------------
(* The steps that change an entry.                                         *)

\* The slot in hand, and an attempt in the slot: nobody is closing a lease.
LEMMA NobodyCloses ==
    ASSUME IInv, NEW a \in Threads, slot = a, ~At(a, "close")
    PROVE  /\ \A b \in Threads : ~At(b, "close")
           /\ \A t \in Tokens : entry[t] # "closing"
<1>1. \A b \in Threads : ~At(b, "close")
  BY DEF IInv, ThreadsOK, SlotIsHeld, Inside, At
<1>2. QED  BY <1>1 DEF IInv, EntriesOK, ClosingIsInHand

\* The entry of t becomes e, at the hands of a.
LEMMA EntryChanges ==
    ASSUME IInv, NEW a \in Threads, NEW t \in Tokens, NEW e \in Entries,
           slot = a, e # "unused",
           entry' = [entry EXCEPT ![t] = e],
           expired' \in [Tokens -> BOOLEAN], armed' \in [Tokens -> Generations \cup {NoTimer}],
           \A b \in Threads : b # a => thread'[b] = thread[b],
           thread'[a].pc # "using",
           At(a, "close") => thread[a].token = t,
           e = "closing" <=> thread'[a].pc = "close",
           thread'[a].pc = "close" => thread'[a].token = t,
           e \in {"claim", "lease"} => /\ Held \subseteq {t}
                                       /\ entry[t] # "lease"
                                       /\ ~At(a, "close"),
           e = "closing" => t \in Held,
           e = "gone" => \A b \in Sessions : b # a /\ At(b, "using") => thread[b].token # t
    PROVE  EntriesOK'
<1>1. entry' \in [Tokens -> Entries] /\ entry'[t] = e
      /\ \A u \in Tokens : u # t => entry'[u] = entry[u]
  BY DEF IInv, EntriesOK
<1>2. \A b \in Threads : b # a => ~At(b, "close")
  BY DEF IInv, ThreadsOK, SlotIsHeld, Inside, At
<1>3. \A u \in Tokens : u # t => entry[u] # "closing"
  BY <1>2 DEF IInv, EntriesOK, ClosingIsInHand
<1>4. \A b \in Threads : b # a => thread'[b].pc # "close"
  BY <1>2 DEF At
<1>5. ClosingIsInHand'
  BY <1>1, <1>3, <1>4 DEF ClosingIsInHand, At
<1>6. Held' \subseteq Held \cup {t} /\ (e \notin {"claim", "lease"} => Held' = Held \ {t})
  BY <1>1 DEF Held
<1>7. AtMostOneHeld'
  <2>1. CASE e \in {"claim", "lease"}
    BY <2>1, <1>6 DEF AtMostOneHeld
  <2>2. CASE e \notin {"claim", "lease"}
    BY <2>2, <1>6 DEF IInv, EntriesOK, AtMostOneHeld
  <2>3. QED  BY <2>1, <2>2
<1>8. ClosedBeforeNext'
  <2>1. CASE e = "closing"
    BY <2>1, <1>6 DEF IInv, EntriesOK, AtMostOneHeld, ClosedBeforeNext
  <2>2. CASE e # "closing"
    BY <2>2, <1>1, <1>3 DEF ClosedBeforeNext
  <2>3. QED  BY <2>1, <2>2
<1>9. UsedIsOpen'
  <2> SUFFICES ASSUME NEW b \in Sessions, thread'[b].pc = "using"
               PROVE  entry'[thread'[b].token] \in {"lease", "closing"}
    BY DEF UsedIsOpen, At
  <2>1. b \in Threads /\ b # a /\ thread'[b] = thread[b]
    BY ThreadKinds
  <2>2. thread[b].token \in Tokens /\ entry[thread[b].token] \in {"lease", "closing"}
    BY <2>1 DEF IInv, ThreadsOK, Fits, Aiming, CheckedOut, EntriesOK, UsedIsOpen, At
  <2>3. CASE thread[b].token # t
    BY <2>1, <2>2, <2>3, <1>1
  <2>4. CASE thread[b].token = t
    <3>1. e # "gone"
      BY <2>1, <2>4 DEF At
    <3>2. entry[t] = "lease" \/ At(a, "close")
      BY <2>2, <2>4, <1>2 DEF IInv, EntriesOK, ClosingIsInHand, At
    <3>3. e = "closing"
      BY <3>1, <3>2 DEF Entries
    <3>4. QED  BY <2>1, <2>4, <3>3, <1>1
  <2>5. QED  BY <2>3, <2>4
<1>10. QED  BY <1>1, <1>5, <1>7, <1>8, <1>9 DEF EntriesOK

\* _release_attempt_under_slot: a lease is left to be closed, a claim is gone.
LEMMA PopKeeps ==
    ASSUME IInv, NEW a \in Threads, NEW t \in Held, NEW next, Pop(a, t, next),
           At(a, "locked"), UNCHANGED expired,
           next = "enter" => a \in Sessions
    PROVE  IInv'
<1>1. slot = a /\ ~At(a, "close") /\ t \in Tokens /\ thread[a].pc = "locked"
  BY DEF IInv, ThreadsOK, SlotIsHeld, Inside, At, Held
<1>2. Fits(a, thread[a]) /\ thread[a] \in ThreadStates
  BY DEF IInv, ThreadsOK
<1>3. armed' \in [Tokens -> Generations \cup {NoTimer}] /\ expired' \in [Tokens -> BOOLEAN]
  BY <1>1 DEF Pop, IInv, EntriesOK
<1>4. CASE entry[t] = "lease"
  <2> DEFINE r == [thread[a] EXCEPT !.pc = "close", !.token = t]
  <2>1. thread' = [thread EXCEPT ![a] = r]
    BY <1>4 DEF Pop
  <2>2. r \in ThreadStates /\ r.pc = "close" /\ r.wish = thread[a].wish /\ r.token = t
    BY <1>1, <1>2 DEF ThreadStates, Places
  <2>3. Fits(a, r)
    BY <1>1, <1>2, <2>2 DEF Fits, TimerPlaces
  <2>4. UNCHANGED <<slot, operation>> /\ entry' = [entry EXCEPT ![t] = "closing"]
    BY <1>4 DEF Pop
  <2> HIDE DEF r
  <2>5. ThreadsOK' /\ thread'[a] = r /\ \A b \in Threads : b # a => thread'[b] = thread[b]
    BY <1>1, <2>1, <2>2, <2>3, <2>4, ThreadMoves DEF IInv, ThreadsOK, Inside, CheckedOut
  <2>6. EntriesOK'
    BY <1>1, <1>3, <2>2, <2>4, <2>5, EntryChanges DEF Entries
  <2>7. QED  BY <2>5, <2>6 DEF IInv
<1>5. CASE entry[t] # "lease"
  <2>1. entry[t] = "claim" /\ entry' = [entry EXCEPT ![t] = "gone"]
    BY <1>5 DEF Pop, Held
  <2>2. \A b \in Sessions : At(b, "using") => thread[b].token # t
    BY <2>1 DEF IInv, EntriesOK, UsedIsOpen
  <2>3. /\ ThreadsOK' /\ thread'[a].pc \in {"idle", "done", "enter"}
        /\ \A b \in Threads : b # a => thread'[b] = thread[b]
    <3>1. CASE next = "enter"
      <4> DEFINE r == [thread[a] EXCEPT !.pc = "enter"]
      <4>1. UNCHANGED <<slot, operation>> /\ Goto(a, "enter")
        BY <1>5, <3>1 DEF Pop
      <4>2. /\ thread' = [thread EXCEPT ![a] = r] /\ r \in ThreadStates
            /\ r.pc = "enter" /\ r.wish = thread[a].wish /\ r.token = thread[a].token
        BY <4>1, GoesTo DEF IInv, Places
      <4>3. Fits(a, r)
        BY <1>2, <3>1, <4>2, ThreadKinds DEF Fits, Aiming, CheckedOut
      <4> HIDE DEF r
      <4>4. QED
        BY <1>1, <4>1, <4>2, <4>3, ThreadMoves DEF IInv, ThreadsOK, Inside, CheckedOut
    <3>2. CASE next # "enter"
      BY <1>5, <3>2, Finishes DEF Pop, IInv
    <3>3. QED  BY <3>1, <3>2
  <2>4. EntriesOK'
    BY <1>1, <1>3, <2>1, <2>2, <2>3, EntryChanges DEF Entries
  <2>5. QED  BY <2>3, <2>4 DEF IInv
<1>6. QED  BY <1>4, <1>5

\* _close_lease waits for the lease's lock, so nobody else uses the lease.
LEMMA CloseKeeps == ASSUME IInv, NEW a \in Threads, Close(a) PROVE IInv'
<1> DEFINE t == thread[a].token
<1>1. slot = a /\ thread[a].pc = "close"
  BY DEF Close, IInv, ThreadsOK, SlotIsHeld, Inside, At
<1>2. Fits(a, thread[a]) /\ thread[a] \in ThreadStates /\ t \in Tokens
  BY <1>1 DEF IInv, ThreadsOK, Fits, Aiming
<1>3. /\ entry' = [entry EXCEPT ![t] = "gone"]
      /\ armed' \in [Tokens -> Generations \cup {NoTimer}] /\ expired' \in [Tokens -> BOOLEAN]
  BY <1>2 DEF Close, IInv, EntriesOK
<1>4. \A b \in Sessions : b # a /\ At(b, "using") => thread[b].token # t
  <2> SUFFICES ASSUME NEW b \in Sessions, b # a, At(b, "using"), thread[b].token = t
               PROVE  FALSE
    OBVIOUS
  <2>1. operation[t] = b /\ b # NoOne
    BY ThreadKinds DEF IInv, ThreadsOK, LeaseIsLocked, At, CheckedOut
  <2>2. QED  BY <2>1 DEF Close
<1>5. /\ ThreadsOK' /\ thread'[a].pc \in {"idle", "done", "enter"}
      /\ \A b \in Threads : b # a => thread'[b] = thread[b]
  <2>1. CASE thread[a].wish \in {"claim", "create"}
    <3> DEFINE r == [thread[a] EXCEPT !.pc = "enter"]
    <3>1. UNCHANGED <<slot, operation>> /\ Goto(a, "enter")
      BY <2>1 DEF Close
    <3>2. /\ thread' = [thread EXCEPT ![a] = r] /\ r \in ThreadStates
          /\ r.pc = "enter" /\ r.wish = thread[a].wish /\ r.token = t
      BY <3>1, GoesTo DEF IInv, Places
    <3>3. Fits(a, r)
      BY <1>1, <1>2, <2>1, <3>2 DEF Fits
    <3> HIDE DEF r, t
    <3>4. QED
      BY <1>1, <3>1, <3>2, <3>3, ThreadMoves DEF IInv, ThreadsOK, Inside, CheckedOut
  <2>2. CASE thread[a].wish \notin {"claim", "create"}
    BY <2>2, Finishes DEF Close, IInv
  <2>3. QED  BY <2>1, <2>2
<1>6. EntriesOK'
  BY <1>1, <1>2, <1>3, <1>4, <1>5, EntryChanges DEF Entries
<1>7. QED  BY <1>5, <1>6 DEF IInv

\* A claim, or a lease without one, is entered into a slot without an attempt.
LEMMA EnterKeeps ==
    ASSUME IInv, NEW a \in Sessions, NEW t \in Tokens, Enter(a, t)
    PROVE  IInv'
<1> DEFINE e == IF thread[a].wish = "claim" THEN "claim" ELSE "lease"
<1>1. a \in Threads /\ slot = a /\ ~At(a, "close") /\ Finish(a)
  BY ThreadKinds DEF Enter, IInv, ThreadsOK, SlotIsHeld, Inside, At
<1>2. e \in {"claim", "lease"} /\ entry' = [entry EXCEPT ![t] = e]
  BY DEF Enter
<1>3. expired' \in [Tokens -> BOOLEAN] /\ armed' \in [Tokens -> Generations \cup {NoTimer}]
  BY MaxExtendsAssumption DEF Enter, IInv, EntriesOK, Generations
<1>4. ThreadsOK' /\ thread'[a].pc \in {"idle", "done"}
      /\ \A b \in Threads : b # a => thread'[b] = thread[b]
  BY <1>1, Finishes DEF IInv
<1>5. Held = {} /\ entry[t] = "unused"
  BY DEF Enter
<1> HIDE DEF e
<1>6. EntriesOK'
  BY <1>1, <1>2, <1>3, <1>4, <1>5, EntryChanges DEF Entries
<1>7. QED  BY <1>4, <1>6 DEF IInv

\* A claim becomes a lease, is released because it has expired, or was gone.
LEMMA PromoteKeeps == ASSUME IInv, NEW a \in Sessions, Promote(a) PROVE IInv'
<1> DEFINE t == thread[a].token
<1>1. a \in Threads /\ slot = a /\ At(a, "locked") /\ ~At(a, "close") /\ t \in Tokens
  BY ThreadKinds DEF Promote, IInv, ThreadsOK, SlotIsHeld, Inside, At, Fits
<1>2. UNCHANGED expired
  BY DEF Promote
<1>3. CASE /\ entry[t] = "claim"
           /\ entry' = [entry EXCEPT ![t] = "lease"]
           /\ armed' = [armed EXCEPT ![t] = 1]
           /\ Finish(a)
  <2>1. expired' \in [Tokens -> BOOLEAN] /\ armed' \in [Tokens -> Generations \cup {NoTimer}]
    <3>1. 1 \in Generations
      BY MaxExtendsAssumption DEF Generations
    <3>2. QED  BY <1>2, <1>3, <3>1 DEF IInv, EntriesOK
  <2>2. ThreadsOK' /\ thread'[a].pc \in {"idle", "done"}
        /\ \A b \in Threads : b # a => thread'[b] = thread[b]
    BY <1>1, <1>3, Finishes DEF IInv
  <2>3. Held \subseteq {t}
    BY <1>1, <1>3 DEF Held, IInv, EntriesOK, AtMostOneHeld
  <2> HIDE DEF t
  <2>4. EntriesOK'
    BY <1>1, <1>3, <2>1, <2>2, <2>3, EntryChanges DEF Entries
  <2>5. QED  BY <2>2, <2>4 DEF IInv
<1>4. CASE entry[t] = "claim" /\ Pop(a, t, "idle")
  <2>1. t \in Held
    BY <1>1, <1>4 DEF Held
  <2> HIDE DEF t
  <2>2. QED  BY <1>1, <1>2, <1>4, <2>1, PopKeeps
<1>5. CASE Finish(a) /\ UNCHANGED <<entry, armed>>
  BY <1>1, <1>2, <1>5, FinishKeeps DEF IInv, EntriesOK
<1>6. QED  BY <1>3, <1>4, <1>5 DEF Promote

\* claim_attempt and create release what has expired before they enter their own.
LEMMA SweepKeeps == ASSUME IInv, NEW a \in Sessions, Sweep(a) PROVE IInv'
<1>1. a \in Threads /\ At(a, "locked") /\ thread[a].wish # "promote" /\ UNCHANGED expired
  BY ThreadKinds DEF Sweep
<1>2. CASE \E t \in Held : Pop(a, t, "enter")
  BY <1>1, <1>2, PopKeeps
<1>3. CASE Goto(a, "enter") /\ UNCHANGED <<entry, armed, slot, operation>>
  BY <1>1, <1>3, EnterNextKeeps
<1>4. QED  BY <1>2, <1>3 DEF Sweep

\* Another attempt is in the slot, or the browser is not usable.
LEMMA RefuseKeeps == ASSUME IInv, NEW a \in Sessions, Refuse(a) PROVE IInv'
BY ThreadKinds, FinishKeeps DEF IInv, EntriesOK, At, Refuse

\* release_attempt, close_all and the callback of a timer release what they are after.
LEMMA ReleaseKeeps == ASSUME IInv, NEW a \in Threads, Release(a) PROVE IInv'
<1>1. At(a, "locked") /\ ~At(a, "close") /\ UNCHANGED expired
  BY DEF Release, At
<1>2. CASE \E t \in Targets(a) : Pop(a, t, "idle")
  <2>1. PICK t \in Targets(a) : Pop(a, t, "idle")
    BY <1>2
  <2>2. t \in Held
    BY DEF Targets, Release
  <2>3. QED  BY <1>1, <2>1, <2>2, PopKeeps
<1>3. CASE Finish(a) /\ UNCHANGED <<entry, armed>>
  BY <1>1, <1>3, FinishKeeps DEF IInv, EntriesOK
<1>4. QED  BY <1>2, <1>3 DEF Release

-------------------------------------------------------------------------------
LEMMA SessionStepKeeps == ASSUME IInv, NEW a \in Sessions, SessionStep(a) PROVE IInv'
<1>1. CASE \E wish \in {"claim", "create", "closeAll"} : Ask(a, wish, NoToken)
  BY <1>1, AskKeeps DEF Ask, Wishes
<1>2. ASSUME NEW t \in Tokens, NEW wish \in {"promote", "release"}, Ask(a, wish, t)
      PROVE  IInv'
  BY <1>2, AskKeeps DEF Ask, Wishes
<1>3. ASSUME NEW t \in Tokens, NEW wish \in {"checkout", "extend"}, Peek(a, wish, t)
      PROVE  IInv'
  BY <1>3, AskKeeps DEF Peek, Wishes
<1>4. ASSUME NEW t \in Tokens, PeekExpired(a, t) PROVE IInv'
  BY <1>4, AskKeeps DEF PeekExpired, Wishes
<1>5. ASSUME NEW t \in Tokens, Enter(a, t) PROVE IInv'
  BY <1>5, EnterKeeps
<1>6. QED
  BY <1>1, <1>2, <1>3, <1>4, <1>5, SweepKeeps, RefuseKeeps, PromoteKeeps, TakeOperationKeeps,
     CheckKeeps, ReturnKeeps, ExtendKeeps DEF SessionStep

LEMMA StepKeeps == IInv /\ [Next]_vars => IInv'
<1> SUFFICES ASSUME IInv, [Next]_vars PROVE IInv'  OBVIOUS
<1>1. ASSUME NEW a \in Sessions, SessionStep(a) PROVE IInv'
  BY <1>1, SessionStepKeeps
<1>2. ASSUME NEW a \in Threads, TakeSlot(a) \/ Release(a) \/ Close(a) PROVE IInv'
  BY <1>2, TakeSlotKeeps, ReleaseKeeps, CloseKeeps
<1>3. ASSUME NEW t \in Tokens, Expire(t) \/ \E g \in Generations : Fire(t, g) PROVE IInv'
  BY <1>3, ExpireKeeps, FireKeeps
<1>4. CASE UNCHANGED vars
  <2>1. ThreadsOK'
    BY <1>4 DEF vars, IInv, ThreadsOK, Fits, SlotIsHeld, LeaseIsLocked
  <2>2. EntriesOK'
    BY <1>4 DEF vars, IInv, EntriesOK, ClosingIsInHand, AtMostOneHeld, Held,
                ClosedBeforeNext, UsedIsOpen, At
  <2>3. QED  BY <2>1, <2>2 DEF IInv
<1>5. QED  BY <1>1, <1>2, <1>3, <1>4 DEF Next

LEMMA InvHolds == Spec => []IInv
BY InitHolds, StepKeeps, PTL DEF Spec

-------------------------------------------------------------------------------
\* The variables have the values the code gives them, and a timer's thread is
\* only ever where its callback can be.
THEOREM TypeIsOK == Spec => []TypeOK
<1>1. IInv => TypeOK
  BY ThreadKinds DEF IInv, ThreadsOK, EntriesOK, TypeOK, ThreadStates, Fits
<1>2. QED  BY <1>1, InvHolds, PTL

\* claim_attempt, create and promote_claim_to_lease never leave two attempts in
\* the slot, however many pages and timers ask for it.
THEOREM SlotIsSole == Spec => []OneAttempt
<1>1. IInv => OneAttempt
  <2> SUFFICES ASSUME AtMostOneHeld PROVE Cardinality(Held) <= 1
    BY DEF IInv, EntriesOK, OneAttempt
  <2>1. CASE Held = {}
    BY <2>1, FS_EmptySet
  <2>2. CASE Held # {}
    <3>1. PICK t \in Held : TRUE
      BY <2>2
    <3>2. Held = {t}
      BY <3>1 DEF AtMostOneHeld
    <3>3. Cardinality({t}) = 1
      BY FS_Singleton
    <3>4. QED  BY <3>2, <3>3
  <2>3. QED  BY <2>1, <2>2
<1>2. QED  BY <1>1, InvHolds, PTL

\* Whoever releases a lease - its page, another that sweeps, close_all, a timer -
\* its browser is closed before another attempt is in the slot.
THEOREM BrowserIsClosedFirst == Spec => []ClosedBeforeNext
<1>1. IInv => ClosedBeforeNext
  BY DEF IInv, EntriesOK
<1>2. QED  BY <1>1, InvHolds, PTL

\* The lease under a page that has checked it out is not closed by anybody.
THEOREM BrowserStaysOpen == Spec => []UsedIsOpen
<1>1. IInv => UsedIsOpen
  BY DEF IInv, EntriesOK
<1>2. QED  BY <1>1, InvHolds, PTL
===============================================================================
