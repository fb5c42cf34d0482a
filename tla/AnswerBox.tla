------------------------------- MODULE AnswerBox -------------------------------
(***************************************************************************)
(* What an inbox promises of one challenge: the first answer that comes    *)
(* while it takes answers is taken, and given out once, to whoever waits;  *)
(* once the box is wiped there is nothing left to give.                    *)
(***************************************************************************)
CONSTANTS Answers, NoAnswer

VARIABLES
    accepted,   \* the answer that was taken
    given,      \* the answer that was given out
    box         \* it takes answers, or takes no more, or is wiped

vars == <<accepted, given, box>>

Init == accepted = NoAnswer /\ given = NoAnswer /\ box = "open"

Accept(a) ==
    /\ box = "open" /\ accepted = NoAnswer
    /\ accepted' = a
    /\ UNCHANGED <<given, box>>

Close ==
    /\ box = "open"
    /\ box' = "closed"
    /\ UNCHANGED <<accepted, given>>

Give ==
    /\ box # "wiped" /\ accepted # NoAnswer /\ given = NoAnswer
    /\ given' = accepted
    /\ box' = "wiped"
    /\ UNCHANGED accepted

Wipe ==
    /\ box # "wiped"
    /\ box' = "wiped"
    /\ UNCHANGED <<accepted, given>>

Next == (\E a \in Answers : Accept(a)) \/ Close \/ Give \/ Wipe

Spec == Init /\ [][Next]_vars
===============================================================================
