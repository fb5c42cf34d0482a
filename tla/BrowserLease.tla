----------------------------- MODULE BrowserLease -----------------------------
(***************************************************************************)
(* BrowserLeaseRegistry of cloud/src/automation/security_challenge.py: the *)
(* single slot in which a Streamlit process keeps one live browser between *)
(* two reruns of the owner's page, for at most ten minutes.                *)
(*                                                                         *)
(* Three kinds of lock meet here.  _lock guards the dictionaries and is    *)
(* never held while another lock is asked for, so what happens under it is *)
(* one step.  _slot_lock is held through a whole lifecycle operation, and  *)
(* each lease has an _operation_lock held while its browser is used: those *)
(* two are variables.  Sessions are the threads of the owner's pages; a    *)
(* timer becomes a thread of its own when it fires.                        *)
(***************************************************************************)
EXTENDS Integers, FiniteSets

CONSTANTS
    Sessions,       \* threads that render the owner's pages
    Tokens,         \* opaque tokens: how many attempts may be made (bound)
    NoOne,          \* nobody holds a lock
    NoToken,        \* a thread that has no token in hand
    MaxExtends      \* bound: how often the hold of one lease is extended

ASSUME NoTokenAssumption == NoToken \notin Tokens
ASSUME MaxExtendsAssumption == MaxExtends \in Nat

\* The timers of a token: generation 0 is its claim's, 1 its lease's, and each
\* extension starts one more.
Generations == 0 .. 1 + MaxExtends
NoTimer == -1
Timers == [token: Tokens, generation: Generations]
Threads == Sessions \cup Timers

\* A timer's thread is no session, and neither of them is nobody.
ASSUME ThreadsAssumption == Sessions \cap Timers = {} /\ NoOne \notin Threads

VARIABLES
    entry,      \* what _claims and _leases hold under each token
    expired,    \* whether the expiry of that entry has passed
    armed,      \* the generation of the token's timer, unless cancelled
    slot,       \* who holds _slot_lock
    operation,  \* who holds the _operation_lock of the token's lease
    thread      \* what each thread is doing

vars == <<entry, expired, armed, slot, operation, thread>>

\* closing: taken out of _leases, its browser not closed yet.
Entries == {"unused", "claim", "lease", "closing", "gone"}

Places == {"idle", "peek", "slot", "locked", "close", "enter", "operation", "check",
           "using", "done"}

\* A timer that has not fired is idle, one that has run is done.
TimerPlaces == {"idle", "slot", "locked", "close", "done"}

\* What a thread wants, once it holds the lock it waits for.
Wishes == {"none", "claim", "create", "promote", "release", "closeAll", "expire",
           "checkout", "extend"}

IdleThread == [pc |-> "idle", wish |-> "none", token |-> NoToken]

\* The tokens in _claims or _leases.
Held == {t \in Tokens : entry[t] \in {"claim", "lease"}}

Init ==
    /\ entry = [t \in Tokens |-> "unused"]
    /\ expired = [t \in Tokens |-> FALSE]
    /\ armed = [t \in Tokens |-> NoTimer]
    /\ slot = NoOne
    /\ operation = [t \in Tokens |-> NoOne]
    /\ thread = [a \in Threads |-> IdleThread]

At(a, pc) == thread[a].pc = pc

Become(a, pc, wish, t) ==
    thread' = [thread EXCEPT ![a] = [pc |-> pc, wish |-> wish, token |-> t]]

Goto(a, pc) == thread' = [thread EXCEPT ![a].pc = pc]

\* The operation of a is over: it lets go of the slot, and of the lease it had
\* checked out, if any.
Finish(a) ==
    /\ thread' = [thread EXCEPT ![a] =
                    [IdleThread EXCEPT !.pc = IF a \in Sessions THEN "idle" ELSE "done"]]
    /\ slot' = IF slot = a THEN NoOne ELSE slot
    /\ operation' = [t \in Tokens |-> IF operation[t] = a THEN NoOne ELSE operation[t]]

-------------------------------------------------------------------------------
(* Taking the slot.                                                        *)

\* claim_attempt, create, promote_claim_to_lease, release_attempt (discard)
\* and close_all all begin by asking for _slot_lock.
Ask(a, wish, t) ==
    /\ At(a, "idle")
    /\ \/ wish \in {"claim", "create", "closeAll"} /\ t = NoToken
       \/ wish \in {"promote", "release"} /\ t \in Tokens /\ entry[t] # "unused"
    /\ Become(a, "slot", wish, t)
    /\ UNCHANGED <<entry, expired, armed, slot, operation>>

\* The lock is not waited for.
MutantTakeSlot(a) ==
    /\ At(a, "slot")
    /\ slot' = a
    /\ Goto(a, "locked")
    /\ UNCHANGED <<entry, expired, armed, operation>>

TakeSlot(a) ==
    /\ At(a, "slot")
    /\ slot = NoOne
    /\ slot' = a
    /\ Goto(a, "locked")
    /\ UNCHANGED <<entry, expired, armed, operation>>

\* _release_attempt_under_slot up to the lease's lock: the entry is gone from
\* the dictionaries, a claim at once, a lease once its browser is closed.
Pop(a, t, next) ==
    /\ armed' = [armed EXCEPT ![t] = IF entry[t] = "claim" THEN NoTimer ELSE @]
    /\ IF entry[t] = "lease"
       THEN /\ entry' = [entry EXCEPT ![t] = "closing"]
            /\ thread' = [thread EXCEPT ![a].pc = "close", ![a].token = t]
            /\ UNCHANGED <<slot, operation>>
       ELSE /\ entry' = [entry EXCEPT ![t] = "gone"]
            /\ IF next = "enter"
               THEN Goto(a, "enter") /\ UNCHANGED <<slot, operation>>
               ELSE Finish(a)

\* The browser is closed while somebody uses it.
MutantClose(a) ==
    /\ At(a, "close")
    /\ LET t == thread[a].token
       IN  /\ entry' = [entry EXCEPT ![t] = "gone"]
           /\ armed' = [armed EXCEPT ![t] = NoTimer]
    /\ IF thread[a].wish \in {"claim", "create"}
       THEN Goto(a, "enter") /\ UNCHANGED <<slot, operation>>
       ELSE Finish(a)
    /\ UNCHANGED expired

\* A timer's callback goes on like a claim.
MutantCloseGoesOn(a) ==
    /\ At(a, "close")
    /\ LET t == thread[a].token
       IN  /\ operation[t] \in {NoOne, a}
           /\ entry' = [entry EXCEPT ![t] = "gone"]
           /\ armed' = [armed EXCEPT ![t] = NoTimer]
    /\ Goto(a, "enter")
    /\ UNCHANGED <<expired, slot, operation>>

\* _close_lease, under the lease's lock.
Close(a) ==
    /\ At(a, "close")
    /\ LET t == thread[a].token
       IN  /\ operation[t] \in {NoOne, a}
           /\ entry' = [entry EXCEPT ![t] = "gone"]
           /\ armed' = [armed EXCEPT ![t] = NoTimer]
    /\ IF thread[a].wish \in {"claim", "create"}
       THEN Goto(a, "enter") /\ UNCHANGED <<slot, operation>>
       ELSE Finish(a)
    /\ UNCHANGED expired

-------------------------------------------------------------------------------
(* What is done under the slot.                                            *)

\* claim_attempt and create first release what has expired ...
Sweep(a) ==
    /\ At(a, "locked")
    /\ thread[a].wish \in {"claim", "create"}
    /\ \/ \E t \in Held : expired[t] /\ Pop(a, t, "enter")
       \/ /\ \A t \in Held : ~expired[t]
          /\ Goto(a, "enter")
          /\ UNCHANGED <<entry, armed, slot, operation>>
    /\ UNCHANGED expired

\* An attempt is entered beside the one that is in the slot.
MutantEnter(a, t) ==
    /\ At(a, "enter")
    /\ entry[t] = "unused"
    /\ entry' = [entry EXCEPT ![t] = IF thread[a].wish = "claim" THEN "claim" ELSE "lease"]
    /\ armed' = [armed EXCEPT ![t] = IF thread[a].wish = "claim" THEN 0 ELSE 1]
    /\ Finish(a)
    /\ UNCHANGED expired

\* ... then enter a new claim, or a lease made without one, and its timer ...
Enter(a, t) ==
    /\ At(a, "enter")
    /\ Held = {}
    /\ entry[t] = "unused"
    /\ entry' = [entry EXCEPT ![t] = IF thread[a].wish = "claim" THEN "claim" ELSE "lease"]
    /\ armed' = [armed EXCEPT ![t] = IF thread[a].wish = "claim" THEN 0 ELSE 1]
    /\ Finish(a)
    /\ UNCHANGED expired

\* ... unless another attempt is in the slot, or the browser is not usable.
\* (Or the bound on tokens.)
Refuse(a) ==
    /\ At(a, "enter")
    /\ \/ Held # {}
       \/ thread[a].wish = "create"
       \/ \A t \in Tokens : entry[t] # "unused"
    /\ Finish(a)
    /\ UNCHANGED <<entry, expired, armed>>

\* A claim becomes a lease under the same token, with a new timer.
Promote(a) ==
    /\ At(a, "locked")
    /\ thread[a].wish = "promote"
    /\ LET t == thread[a].token
       IN  \/ /\ entry[t] = "claim" /\ ~expired[t]
              /\ entry' = [entry EXCEPT ![t] = "lease"]
              /\ armed' = [armed EXCEPT ![t] = 1]
              /\ Finish(a)
           \/ entry[t] = "claim" /\ expired[t] /\ Pop(a, t, "idle")
           \/ Finish(a) /\ UNCHANGED <<entry, armed>>     \* no claim, or no usable browser
    /\ UNCHANGED expired

\* A fired timer releases the token only if the claim, or the lease, it was
\* started for is still there.
IsExpected(a) ==
    entry[a.token] = IF a.generation = 0 THEN "claim" ELSE "lease"

\* What release_attempt, close_all and the callback of a timer are after.
Targets(a) ==
    CASE thread[a].wish = "closeAll" -> Held
      [] thread[a].wish = "release" -> Held \cap {thread[a].token}
      [] thread[a].wish = "expire" -> {t \in Held : t = a.token /\ IsExpected(a)}

Release(a) ==
    /\ At(a, "locked")
    /\ thread[a].wish \in {"closeAll", "release", "expire"}
    /\ \/ \E t \in Targets(a) : Pop(a, t, "idle")
       \/ Targets(a) = {} /\ Finish(a) /\ UNCHANGED <<entry, armed>>
    /\ UNCHANGED expired

-------------------------------------------------------------------------------
(* Using the browser of a lease.                                           *)

\* checkout and extend look the lease up (_active_lease) without the slot ...
Peek(a, wish, t) ==
    /\ At(a, "idle")
    /\ wish \in {"checkout", "extend"}
    /\ entry[t] = "lease"
    /\ Become(a, IF wish = "extend" THEN "peek" ELSE "operation", wish, t)
    /\ ~expired[t]
    /\ UNCHANGED <<entry, expired, armed, slot, operation>>

\* ... and discard it when its hold is over.
PeekExpired(a, t) ==
    /\ At(a, "idle")
    /\ entry[t] = "lease"
    /\ expired[t]
    /\ Become(a, "slot", "release", t)
    /\ UNCHANGED <<entry, expired, armed, slot, operation>>

TakeOperation(a) ==
    /\ At(a, "operation")
    /\ operation[thread[a].token] = NoOne
    /\ operation' = [operation EXCEPT ![thread[a].token] = a]
    /\ Goto(a, "check")
    /\ UNCHANGED <<entry, expired, armed, slot>>

\* What was looked up is taken for granted.
MutantCheck(a) ==
    /\ At(a, "check")
    /\ Goto(a, "using")
    /\ UNCHANGED <<entry, expired, armed, slot, operation>>

\* With the lease's lock, the lease is looked at again.  One that has expired
\* is discarded with that lock still held; one of another service, or whose
\* page has gone, is refused.
Check(a) ==
    /\ At(a, "check")
    /\ LET t == thread[a].token
       IN  \/ /\ entry[t] = "lease" /\ ~expired[t]
              /\ Goto(a, "using")
              /\ UNCHANGED <<slot, operation>>
           \/ /\ entry[t] = "lease" /\ expired[t]
              /\ Become(a, "slot", "release", t)
              /\ UNCHANGED <<slot, operation>>
           \/ /\ entry[t] # "lease" \/ ~expired[t]
              /\ Finish(a)
    /\ UNCHANGED <<entry, expired, armed>>

\* The caller is done with the browser, or its page is gone.
Return(a) ==
    /\ At(a, "using")
    /\ Finish(a)
    /\ UNCHANGED <<entry, expired, armed>>

\* extend: the full hold again, from a new timer.
Extend(a) ==
    /\ At(a, "peek")
    /\ LET t == thread[a].token
       IN  IF entry[t] = "lease" /\ armed[t] < 1 + MaxExtends
           THEN /\ expired' = [expired EXCEPT ![t] = FALSE]
                /\ armed' = [armed EXCEPT ![t] = @ + 1]
           ELSE UNCHANGED <<expired, armed>>
    /\ Finish(a)
    /\ UNCHANGED entry

-------------------------------------------------------------------------------
(* Time.                                                                   *)

Expire(t) ==
    /\ t \in Held
    /\ ~expired[t]
    /\ expired' = [expired EXCEPT ![t] = TRUE]
    /\ UNCHANGED <<entry, armed, slot, operation, thread>>

\* A timer is due no sooner than the expiry it was started for.  From here on
\* cancelling it has no effect.
Fire(t, g) ==
    /\ armed[t] = g
    /\ expired[t]
    /\ At([token |-> t, generation |-> g], "idle")
    /\ Become([token |-> t, generation |-> g], "slot", "expire", t)
    /\ UNCHANGED <<entry, expired, armed, slot, operation>>

-------------------------------------------------------------------------------
SessionStep(a) ==
    \/ \E wish \in {"claim", "create", "closeAll"} : Ask(a, wish, NoToken)
    \/ \E t \in Tokens : \/ \E wish \in {"promote", "release"} : Ask(a, wish, t)
                         \/ \E wish \in {"checkout", "extend"} : Peek(a, wish, t)
                         \/ PeekExpired(a, t)
                         \/ Enter(a, t)
    \/ Sweep(a) \/ Refuse(a) \/ Promote(a)
    \/ TakeOperation(a) \/ Check(a) \/ Return(a) \/ Extend(a)

Next ==
    \/ \E a \in Sessions : SessionStep(a)
    \/ \E a \in Threads : TakeSlot(a) \/ Release(a) \/ Close(a)
    \/ \E t \in Tokens : Expire(t) \/ \E g \in Generations : Fire(t, g)

Spec == Init /\ [][Next]_vars

-------------------------------------------------------------------------------
(* What the registry promises.                                             *)

\* The variables have the values the code gives them.
TypeOK ==
    /\ entry \in [Tokens -> Entries]
    /\ expired \in [Tokens -> BOOLEAN]
    /\ armed \in [Tokens -> Generations \cup {NoTimer}]
    /\ slot \in Threads \cup {NoOne}
    /\ operation \in [Tokens -> Sessions \cup {NoOne}]
    /\ thread \in [Threads -> [pc: Places, wish: Wishes, token: Tokens \cup {NoToken}]]
    /\ \A a \in Timers : thread[a].pc \in TimerPlaces

\* At most one attempt is in the slot ("Atomically reserve the sole
\* acquisition slot", claim_attempt).
OneAttempt == Cardinality(Held) <= 1

\* An expiring browser is fully closed before another attempt is in the slot
\* (BrowserLeaseRegistry.__init__), whoever released it.
ClosedBeforeNext == (\E t \in Tokens : entry[t] = "closing") => Held = {}

\* No browser is closed while a page uses it.
UsedIsOpen ==
    \A a \in Sessions : At(a, "using") => entry[thread[a].token] \in {"lease", "closing"}

\* An expiry waits for the checked-out operation, never the other way round as
\* well ("Checkout deliberately does not take this lock: an expiry waits for
\* the checked-out operation to finish instead", __init__).
NoStandoff ==
    ~ \E a, b \in Threads : /\ slot = b /\ At(b, "close")
                            /\ a # b
                            /\ operation[thread[b].token] = a
                            /\ At(a, "slot")

\* A timer takes a lease only when its hold is over: extend gives the owner
\* "the full hold again".
HoldIsKept ==
    [][\A a \in Timers : At(a, "locked") /\ thread'[a].pc = "close" =>
                           expired[a.token]]_vars
===============================================================================
