-------------------------- MODULE ChallengeInboxProofs --------------------------
(***************************************************************************)
(* The inbox implements AnswerBox and loses no accepted answer without a   *)
(* reason, for any set of answers.                                         *)
(*                                                                         *)
(* The thread and the requests use an entry that may have been unlisted or *)
(* wiped since it was looked up; IInv says what its fields still mean.     *)
(***************************************************************************)
EXTENDS ChallengeInbox, TLAPS

Fields == [listed: BOOLEAN, answered: BOOLEAN, response: Answers \cup {NoAnswer},
           closed: BOOLEAN]
Places == {"loop", "asks", "looks", "waits", "pops", "leaves", "wipes", "done", "raised"}

Typed ==
    /\ entry \in Fields
    /\ waiter \in [pc: Places, answer: Answers \cup {NoAnswer}]
    /\ request \in [does: {"none", "submit", "wipe"}, answer: Answers \cup {NoAnswer}]
    /\ accepted \in Answers \cup {NoAnswer} /\ lapsed \in BOOLEAN
    /\ request.does = "submit" => request.answer # NoAnswer

\* Where an accepted answer is: in the entry, with the thread, or wiped.
AnswerIsKept ==
    /\ accepted # NoAnswer <=> entry.answered
    /\ entry.response # NoAnswer => entry.answered /\ entry.response = accepted
                                    /\ waiter.answer = NoAnswer
    /\ entry.answered /\ ~entry.closed => entry.response # NoAnswer
    /\ waiter.answer # NoAnswer => entry.closed

Excused == lapsed \/ stopping \/ cancelled

\* While the thread goes round its loop, whatever ends the entry is an excuse; and
\* it leaves the loop with an excuse or an answer.
EndIsExcused ==
    /\ request.does = "wipe" => cancelled
    /\ waiter.pc \in {"loop", "asks", "looks", "waits"}
         => (~entry.listed => cancelled) /\ (entry.closed => lapsed \/ cancelled)
    /\ waiter.pc \in {"leaves", "wipes", "raised"} => Excused
    /\ waiter.pc = "done" => Excused \/ waiter.answer # NoAnswer
    /\ waiter.pc = "pops" => waiter.answer # NoAnswer

IInv == Typed /\ AnswerIsKept /\ EndIsExcused

-------------------------------------------------------------------------------
LEMMA InitHolds == ASSUME NoAnswer \notin Answers PROVE Init => IInv
<1> SUFFICES ASSUME Init PROVE IInv  OBVIOUS
<1>1. Typed
  BY DEF Init, Typed, Fields, Places, NoRequest
<1>2. AnswerIsKept
  BY DEF Init, AnswerIsKept
<1>3. EndIsExcused
  BY DEF Init, EndIsExcused, NoRequest
<1>4. QED  BY <1>1, <1>2, <1>3 DEF IInv

\* What the two ways to change the entry leave of it.
LEMMA EntryChanges ==
    ASSUME entry \in Fields, lapsed \in BOOLEAN
    PROVE  /\ Unlist => /\ entry' \in Fields /\ ~entry'.listed
                        /\ entry'.answered = entry.answered
                        /\ entry'.response = entry.response /\ entry'.closed = entry.closed
           /\ Wipe => /\ entry' \in Fields /\ entry'.closed /\ entry'.response = NoAnswer
                      /\ entry'.answered = entry.answered /\ entry'.listed = entry.listed
           /\ entry' = [entry EXCEPT !.closed = @ \/ lapsed] =>
                /\ entry' \in Fields
                /\ entry'.answered = entry.answered /\ entry'.response = entry.response
                /\ entry'.listed = entry.listed /\ entry'.closed = (entry.closed \/ lapsed)
BY DEF Unlist, Wipe, Fields

LEMMA Moves ==
    ASSUME Typed, NEW pc \in Places, Goto(pc)
    PROVE  /\ waiter' \in [pc: Places, answer: Answers \cup {NoAnswer}]
           /\ waiter'.pc = pc /\ waiter'.answer = waiter.answer
BY DEF Typed, Goto

-------------------------------------------------------------------------------
(* The thread.                                                             *)

LEMMA ThreadKeeps ==
    ASSUME IInv,
           \/ LoopHead \/ AsksPending \/ LooksUp \/ Consume
           \/ Pops \/ SliceEnds \/ Leaves \/ LeavesWiped
    PROVE  IInv'
<1> USE DEF IInv
<1> USE EntryChanges, Moves DEF Typed, Places, outside
<1>1. CASE LoopHead
  <2>1. entry' = entry /\ Goto(IF stopping \/ ~entry.listed THEN "leaves" ELSE "asks")
    BY <1>1 DEF LoopHead
  <2>2. Typed'
    BY <1>1, <2>1 DEF LoopHead
  <2>3. AnswerIsKept'
    BY <1>1, <2>1 DEF LoopHead, AnswerIsKept
  <2>4. EndIsExcused'
    BY <1>1, <2>1 DEF LoopHead, EndIsExcused, Waits, Excused
  <2>5. QED  BY <2>2, <2>3, <2>4
<1>2. CASE AsksPending
  <2>1. entry' = entry /\ Goto(IF IsPending THEN "looks" ELSE "leaves")
    BY <1>2 DEF AsksPending
  <2>2. Typed'
    BY <1>2, <2>1 DEF AsksPending
  <2>3. AnswerIsKept'
    BY <1>2, <2>1 DEF AsksPending, AnswerIsKept
  <2>4. EndIsExcused'
    BY <1>2, <2>1 DEF AsksPending, EndIsExcused, Waits, Excused, IsPending
  <2>5. QED  BY <2>2, <2>3, <2>4
<1>3. CASE LooksUp
  <2>1. entry' = entry /\ Goto(IF entry.listed THEN "waits" ELSE "raised")
    BY <1>3 DEF LooksUp
  <2>2. Typed'
    BY <1>3, <2>1 DEF LooksUp
  <2>3. AnswerIsKept'
    BY <1>3, <2>1 DEF LooksUp, AnswerIsKept
  <2>4. EndIsExcused'
    BY <1>3, <2>1 DEF LooksUp, EndIsExcused, Waits, Excused
  <2>5. QED  BY <2>2, <2>3, <2>4
<1>4. CASE Consume
  <2>1. /\ Wipe /\ entry.response # NoAnswer
        /\ waiter' = [pc |-> "pops", answer |-> entry.response]
    BY <1>4 DEF Consume
  <2>2. Typed'
    <3>1. entry.response \in Answers \cup {NoAnswer} /\ entry' \in Fields
      BY <2>1 DEF Fields
    <3>2. waiter' \in [pc: Places, answer: Answers \cup {NoAnswer}]
      BY <2>1, <3>1
    <3>3. QED  BY <1>4, <3>1, <3>2 DEF Consume
  <2>3. AnswerIsKept'
    BY <1>4, <2>1 DEF Consume, AnswerIsKept
  <2>4. EndIsExcused'
    BY <1>4, <2>1 DEF Consume, EndIsExcused, Excused
  <2>5. QED  BY <2>2, <2>3, <2>4
<1>5. CASE Pops
  <2>1. Unlist /\ Goto("done")
    BY <1>5 DEF Pops
  <2>2. Typed'
    BY <1>5, <2>1 DEF Pops
  <2>3. AnswerIsKept'
    BY <1>5, <2>1 DEF Pops, AnswerIsKept
  <2>4. EndIsExcused'
    BY <1>5, <2>1 DEF Pops, EndIsExcused, Waits, Excused
  <2>5. QED  BY <2>2, <2>3, <2>4
<1>6. CASE SliceEnds
  <2>1. entry' = [entry EXCEPT !.closed = @ \/ lapsed] /\ Goto("loop")
    BY <1>6 DEF SliceEnds
  <2>2. Typed'
    BY <1>6, <2>1 DEF SliceEnds
  <2>3. AnswerIsKept'
    BY <1>6, <2>1 DEF SliceEnds, AnswerIsKept
  <2>4. EndIsExcused'
    BY <1>6, <2>1 DEF SliceEnds, EndIsExcused, Waits, Excused
  <2>5. QED  BY <2>2, <2>3, <2>4
<1>7. CASE Leaves
  <2>1. Unlist /\ Goto(IF entry.listed THEN "wipes" ELSE "done")
    BY <1>7 DEF Leaves
  <2>2. Typed'
    BY <1>7, <2>1 DEF Leaves
  <2>3. AnswerIsKept'
    BY <1>7, <2>1 DEF Leaves, AnswerIsKept
  <2>4. EndIsExcused'
    BY <1>7, <2>1 DEF Leaves, EndIsExcused, Waits, Excused
  <2>5. QED  BY <2>2, <2>3, <2>4
<1>8. CASE LeavesWiped
  <2>1. Wipe /\ Goto("done")
    BY <1>8 DEF LeavesWiped
  <2>2. Typed'
    BY <1>8, <2>1 DEF LeavesWiped
  <2>3. AnswerIsKept'
    BY <1>8, <2>1 DEF LeavesWiped, AnswerIsKept
  <2>4. EndIsExcused'
    BY <1>8, <2>1 DEF LeavesWiped, EndIsExcused, Waits, Excused
  <2>5. QED  BY <2>2, <2>3, <2>4
<1>9. QED  BY <1>1, <1>2, <1>3, <1>4, <1>5, <1>6, <1>7, <1>8

-------------------------------------------------------------------------------
(* The requests, the clock and the stop event.                             *)

LEMMA RequestKeeps ==
    ASSUME IInv, NoAnswer \notin Answers,
           \/ \E a \in Answers : SubmitLooks(a)
           \/ SubmitAccepts \/ SubmitRefused \/ CancelJob \/ CancelWipes \/ Lapse \/ StopAsked
    PROVE  IInv'
<1> USE DEF IInv
<1> USE EntryChanges DEF Typed, inside, NoRequest
<1>1. CASE \E a \in Answers : SubmitLooks(a)
  <2>1. PICK a \in Answers : SubmitLooks(a)
    BY <1>1
  <2>2. Typed' /\ AnswerIsKept'
    BY <2>1 DEF SubmitLooks, AnswerIsKept
  <2>3. EndIsExcused'
    BY <2>1 DEF SubmitLooks, EndIsExcused, Excused
  <2>4. QED  BY <2>2, <2>3
<1>2. CASE SubmitAccepts
  <2>1. /\ entry' = [entry EXCEPT !.answered = TRUE, !.response = request.answer]
        /\ accepted' = request.answer /\ request' = NoRequest /\ request.answer # NoAnswer
        /\ ~entry.closed /\ ~entry.answered /\ waiter' = waiter
    BY <1>2 DEF SubmitAccepts, TakesAnswers, Answered, Requests
  <2>2. /\ entry' \in Fields /\ entry'.answered /\ entry'.response = request.answer
        /\ entry'.closed = entry.closed /\ entry'.listed = entry.listed
    BY <2>1 DEF Fields
  <2>3. Typed'
    BY <1>2, <2>1, <2>2 DEF SubmitAccepts
  <2>4. AnswerIsKept'
    BY <2>1, <2>2 DEF AnswerIsKept
  <2>5. EndIsExcused'
    BY <1>2, <2>1, <2>2 DEF SubmitAccepts, EndIsExcused, Excused
  <2>6. QED  BY <2>3, <2>4, <2>5
<1>3. CASE SubmitRefused
  <2>1. entry' = [entry EXCEPT !.closed = @ \/ lapsed] /\ request' = NoRequest
    BY <1>3 DEF SubmitRefused, Answered
  <2>2. Typed'
    BY <1>3, <2>1 DEF SubmitRefused
  <2>3. AnswerIsKept'
    BY <1>3, <2>1 DEF SubmitRefused, AnswerIsKept
  <2>4. EndIsExcused'
    BY <1>3, <2>1 DEF SubmitRefused, EndIsExcused, Excused
  <2>5. QED  BY <2>2, <2>3, <2>4
<1>4. CASE CancelJob
  <2>1. Unlist /\ request'.does \in {"none", "wipe"} /\ cancelled'
    BY <1>4 DEF CancelJob
  <2>2. Typed'
    BY <1>4, <2>1 DEF CancelJob
  <2>3. AnswerIsKept'
    BY <1>4, <2>1 DEF CancelJob, AnswerIsKept
  <2>4. EndIsExcused'
    BY <1>4, <2>1 DEF CancelJob, EndIsExcused, Excused
  <2>5. QED  BY <2>2, <2>3, <2>4
<1>5. CASE CancelWipes
  <2>1. Wipe /\ request' = NoRequest /\ request.does = "wipe"
    BY <1>5 DEF CancelWipes, Answered, Requests
  <2>2. Typed'
    BY <1>5, <2>1 DEF CancelWipes
  <2>3. AnswerIsKept'
    BY <1>5, <2>1 DEF CancelWipes, AnswerIsKept
  <2>4. EndIsExcused'
    BY <1>5, <2>1 DEF CancelWipes, EndIsExcused, Excused
  <2>5. QED  BY <2>2, <2>3, <2>4
<1>6. CASE Lapse \/ StopAsked
  <2>1. Typed' /\ AnswerIsKept'
    BY <1>6 DEF Lapse, StopAsked, AnswerIsKept
  <2>2. EndIsExcused'
    BY <1>6 DEF Lapse, StopAsked, EndIsExcused, Excused
  <2>3. QED  BY <2>1, <2>2
<1>7. QED  BY <1>1, <1>2, <1>3, <1>4, <1>5, <1>6

LEMMA StepKeeps == ASSUME IInv, NoAnswer \notin Answers PROVE [Next]_vars => IInv'
<1>1. CASE Next
  BY <1>1, ThreadKeeps, RequestKeeps DEF Next
<1>2. CASE UNCHANGED vars
  BY <1>2 DEF vars, IInv, Typed, AnswerIsKept, EndIsExcused, Excused
<1>3. QED  BY <1>1, <1>2

LEMMA InvHolds == ASSUME NoAnswer \notin Answers PROVE Spec => []IInv
<1>1. Init => IInv
  BY InitHolds
<1>2. IInv /\ [Next]_vars => IInv'
  BY StepKeeps
<1>3. QED  BY <1>1, <1>2, PTL DEF Spec

-------------------------------------------------------------------------------
Flags == stopping \in BOOLEAN /\ cancelled \in BOOLEAN

LEMMA FlagsStay == ASSUME Flags, [Next]_vars PROVE Flags'
<1>1. CASE \/ LoopHead \/ AsksPending \/ LooksUp \/ Consume \/ Pops \/ SliceEnds \/ Leaves
           \/ LeavesWiped
  BY <1>1 DEF Flags, LoopHead, AsksPending, LooksUp, Consume, Pops, SliceEnds, Leaves, LeavesWiped,
         outside
<1>2. CASE (\E a \in Answers : SubmitLooks(a)) \/ SubmitAccepts \/ SubmitRefused
  BY <1>2 DEF Flags, SubmitLooks, SubmitAccepts, SubmitRefused, inside
<1>3. CASE CancelJob \/ CancelWipes \/ Lapse \/ StopAsked
  BY <1>3 DEF Flags, CancelJob, CancelWipes, Lapse, StopAsked, inside
<1>4. CASE UNCHANGED vars
  BY <1>4 DEF Flags, vars
<1>5. QED  BY <1>1, <1>2, <1>3, <1>4 DEF Next

\* The entry, the thread that waits on it and the requests have the values the code
\* gives them.
THEOREM InboxTypeOK == ASSUME NoAnswer \notin Answers PROVE Spec => []TypeOK
<1>1. Init => Flags
  BY DEF Init, Flags
<1>2. Flags /\ [Next]_vars => Flags'
  BY FlagsStay
<1>3. IInv /\ Flags => TypeOK
  BY DEF IInv, Typed, Fields, Places, Flags, TypeOK
<1>4. QED  BY <1>1, <1>2, <1>3, InvHolds, PTL DEF Spec

\* An answer the owner was told is accepted is given to the thread, unless the
\* challenge expired, the process stops or the job was cancelled (_wait_for_code).
THEOREM AcceptedIsAlwaysUsed ==
    ASSUME NoAnswer \notin Answers
    PROVE  Spec => []AcceptedIsUsed
<1>1. IInv => AcceptedIsUsed
  BY DEF IInv, EndIsExcused, AcceptedIsUsed, Excused
<1>2. QED  BY <1>1, InvHolds, PTL

\* What the entry is to AnswerBox.
TheBox == IF ~entry.closed THEN "open"
          ELSE IF entry.answered /\ entry.response # NoAnswer THEN "closed"
          ELSE "wiped"

LEMMA BoxInit == Init => Box!Init
BY DEF Init, Box!Init

\* Steps that leave the box alone, or wipe it.
LEMMA BoxRests ==
    ASSUME entry'.answered = entry.answered, entry'.response = entry.response,
           entry'.closed = entry.closed, waiter'.answer = waiter.answer, accepted' = accepted
    PROVE  UNCHANGED Box!vars
BY DEF Box!vars

LEMMA BoxWipes ==
    ASSUME Typed, Wipe, waiter'.answer = waiter.answer, accepted' = accepted
    PROVE  [Box!Next]_(Box!vars)
<1>1. entry'.closed /\ entry'.response = NoAnswer
  BY EntryChanges DEF Typed
<1>2. TheBox' = "wiped"
  BY <1>1 DEF TheBox
<1>3. CASE TheBox = "wiped"
  BY <1>2, <1>3 DEF TheBox, Box!vars
<1>4. CASE TheBox # "wiped"
  BY <1>2, <1>4 DEF TheBox, Box!Next, Box!Wipe
<1>5. QED  BY <1>3, <1>4

\* An entry found to have expired takes no more answers.
LEMMA BoxCloses ==
    ASSUME Typed, entry' = [entry EXCEPT !.closed = @ \/ lapsed],
           waiter'.answer = waiter.answer, accepted' = accepted
    PROVE  [Box!Next]_(Box!vars)
<1>1. /\ entry'.answered = entry.answered /\ entry'.response = entry.response
      /\ entry'.closed = (entry.closed \/ lapsed)
  BY EntryChanges DEF Typed
<1>2. CASE entry.closed \/ ~lapsed
  <2>1. TheBox' = TheBox
    BY <1>1, <1>2 DEF TheBox
  <2>2. QED  BY <2>1 DEF TheBox, Box!vars
<1>3. CASE ~entry.closed /\ lapsed
  <2>1. TheBox = "open" /\ TheBox' \in {"closed", "wiped"}
    BY <1>1, <1>3 DEF TheBox
  <2>2. QED  BY <2>1 DEF TheBox, Box!Next, Box!Close, Box!Wipe
<1>4. QED  BY <1>2, <1>3

LEMMA BoxStep ==
    ASSUME IInv, NoAnswer \notin Answers, [Next]_vars
    PROVE  [Box!Next]_(Box!vars)
<1> USE DEF IInv
<1>1. CASE LoopHead \/ AsksPending \/ LooksUp
  <2>1. entry' = entry /\ waiter'.answer = waiter.answer /\ accepted' = accepted
    BY <1>1, Moves DEF LoopHead, AsksPending, LooksUp, Places, outside
  <2>2. QED  BY <2>1, BoxRests
<1>2. CASE Consume
  <2>1. /\ Wipe /\ entry.response # NoAnswer /\ entry.answered
        /\ waiter'.answer = entry.response /\ accepted' = accepted
    BY <1>2 DEF Consume, outside
  <2>2. entry'.closed /\ entry'.response = NoAnswer
    BY <2>1, EntryChanges DEF Typed
  <2>3. TheBox # "wiped" /\ TheBox' = "wiped"
    BY <2>1, <2>2 DEF TheBox
  <2>4. accepted # NoAnswer /\ waiter.answer = NoAnswer /\ waiter'.answer = accepted
    BY <2>1 DEF AnswerIsKept
  <2>5. QED  BY <2>1, <2>3, <2>4 DEF TheBox, Box!Next, Box!Give
<1>3. CASE Pops \/ Leaves
  <2>1. Unlist /\ waiter'.answer = waiter.answer /\ accepted' = accepted
    BY <1>3, Moves DEF Pops, Leaves, Places, outside
  <2>2. QED  BY <2>1, EntryChanges, BoxRests DEF Typed
<1>4. CASE SliceEnds
  <2>1. waiter'.answer = waiter.answer /\ accepted' = accepted
    BY <1>4, Moves DEF SliceEnds, Places, outside
  <2>2. QED  BY <1>4, <2>1, BoxCloses DEF SliceEnds
<1>5. CASE LeavesWiped
  <2>1. Wipe /\ waiter'.answer = waiter.answer /\ accepted' = accepted
    BY <1>5, Moves DEF LeavesWiped, Places, outside
  <2>2. QED  BY <2>1, BoxWipes
<1>6. CASE (\E a \in Answers : SubmitLooks(a)) \/ Lapse \/ StopAsked
  BY <1>6, BoxRests DEF SubmitLooks, Lapse, StopAsked, inside
<1>7. CASE SubmitAccepts
  <2>1. /\ entry' = [entry EXCEPT !.answered = TRUE, !.response = request.answer]
        /\ accepted' = request.answer /\ request.answer \in Answers
        /\ ~entry.closed /\ ~entry.answered /\ waiter' = waiter
    BY <1>7 DEF SubmitAccepts, TakesAnswers, Requests, inside, Typed
  <2>2. ~entry'.closed
    BY <2>1 DEF Typed, Fields
  <2>3. TheBox = "open" /\ TheBox' = "open" /\ accepted = NoAnswer
    BY <2>1, <2>2 DEF TheBox, AnswerIsKept
  <2>4. QED  BY <2>1, <2>3 DEF TheBox, Box!Next, Box!Accept
<1>8. CASE SubmitRefused
  BY <1>8, BoxCloses DEF SubmitRefused, inside
<1>9. CASE CancelJob
  <2>1. Unlist /\ waiter' = waiter /\ accepted' = accepted
    BY <1>9 DEF CancelJob, inside
  <2>2. QED  BY <2>1, EntryChanges, BoxRests DEF Typed
<1>10. CASE CancelWipes
  BY <1>10, BoxWipes DEF CancelWipes, inside
<1>11. CASE UNCHANGED vars
  BY <1>11, BoxRests DEF vars
<1>12. QED
  BY <1>1, <1>2, <1>3, <1>4, <1>5, <1>6, <1>7, <1>8, <1>9, <1>10, <1>11 DEF Next

\* The inbox takes one answer of a challenge and gives it out once, however the
\* thread, submissions, expiry and discards of jobs/inbox.py follow one another.
THEOREM InboxIsABox ==
    ASSUME NoAnswer \notin Answers
    PROVE  Spec => ImplementsBox
<1>1. Init => Box!Init
  BY BoxInit
<1>2. IInv /\ [Next]_vars => [Box!Next]_(Box!vars)
  BY BoxStep
<1>3. QED  BY <1>1, <1>2, InvHolds, PTL DEF Spec, ImplementsBox, Box!Spec
===============================================================================
