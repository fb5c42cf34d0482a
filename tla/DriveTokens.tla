------------------------------ MODULE DriveTokens ------------------------------
(***************************************************************************)
(* The connection to the owner's mailbox without a worker: the same        *)
(* manager (oauth/microsoft.py), one for each session of the page, over    *)
(* one encrypted file in Drive (oauth/drive_token_store.py), which every   *)
(* write of it first reads and then writes as a whole.                     *)
(*                                                                         *)
(* A read that fails counts as a file with nothing in it (_load_blob).     *)
(* There is one Microsoft account; a refresh token is there or not.        *)
(***************************************************************************)
EXTENDS Naturals

CONSTANTS
    Sessions,   \* of the page: tabs, and the one Microsoft sends the owner back to
    States      \* bound: the authorizations that are started

VARIABLES
    blob,       \* the file: a refresh token or none, and the pending states
    session,    \* session[t]: what the run of session t is at, and the blob it read
    cached,     \* the sessions with an access token in memory
    started,    \* the states Microsoft was given
    allowed     \* history: the owner has connected, and nobody withdrew it

vars == <<blob, session, cached, started, allowed>>

Empty == [token |-> FALSE, pending |-> {}]
Blobs == [token: BOOLEAN, pending: SUBSET States]
Rest == [pc |-> "rest", state |-> 0, read |-> Empty]

Init ==
    /\ blob = Empty
    /\ session = [t \in Sessions |-> Rest]
    /\ cached = {} /\ started = {}
    /\ allowed = FALSE

At(t, pc) == session[t].pc = pc
Goto(t, to) == session' = [session EXCEPT ![t] = to]
Done(t) == Goto(t, Rest)

\* _load_blob finds what is there, or nothing as the download fails.
Loads(read) == read \in {blob, Empty}

-------------------------------------------------------------------------------
(* render_graph_connection, in every run of the script in which a receipt  *)
(* is missing that needs the mailbox.                                      *)

\* status: not connected, or so it seems, as a read of it fails.
SeemsUnconnected(t) ==
    /\ At(t, "rest")
    /\ Goto(t, [Rest EXCEPT !.pc = "start"])
    /\ UNCHANGED <<blob, cached, started, allowed>>

\* start, in the same run: save_pending_authorization reads,
StartReads(t) ==
    /\ At(t, "start")
    /\ \E s \in States \ started, read \in Blobs :
         /\ Loads(read)
         /\ Goto(t, [pc |-> "write", state |-> s, read |-> read])
         /\ started' = started \cup {s}
    /\ UNCHANGED <<blob, cached, allowed>>

\* and writes, with the states that expired meanwhile left out; or cannot.
StartWrites(t) ==
    /\ At(t, "write")
    /\ \/ \E kept \in SUBSET session[t].read.pending :
            blob' = [session[t].read EXCEPT !.pending = kept \cup {session[t].state}]
       \/ UNCHANGED blob
    /\ Done(t)
    /\ UNCHANGED <<cached, started, allowed>>

\* The button that ends the connection.
Disconnect(t) ==
    /\ At(t, "rest") /\ blob.token
    /\ cached' = cached \ {t}
    /\ \/ blob' = Empty /\ allowed' = FALSE
       \/ UNCHANGED <<blob, allowed>>
    /\ Done(t)
    /\ UNCHANGED started

-------------------------------------------------------------------------------
(* handle_microsoft_oauth_callback: complete.                              *)

\* consume_pending_authorization reads,
ConsumeReads(t) ==
    /\ At(t, "rest")
    /\ \E s \in started, read \in Blobs :
         /\ Loads(read)
         /\ Goto(t, [pc |-> "consume", state |-> s, read |-> read])
    /\ UNCHANGED <<blob, cached, started, allowed>>

\* and writes the file without the state and what expired; a state that was there
\* and had not expired is redeemed.
ConsumeWrites(t) ==
    /\ At(t, "consume")
    /\ LET was == session[t].read
           s == session[t].state
       IN  \/ /\ \E kept \in SUBSET (was.pending \ {s}) : blob' = [was EXCEPT !.pending = kept]
              /\ \/ s \in was.pending /\ Goto(t, [Rest EXCEPT !.pc = "redeem"])
                 \/ Done(t)
           \/ UNCHANGED blob /\ Done(t)
    /\ UNCHANGED <<cached, started, allowed>>

\* access_token: what is in memory, or the token in the file is refreshed.
TokenReads(t) ==
    /\ At(t, "rest") /\ t \notin cached /\ blob.token
    /\ Goto(t, [Rest EXCEPT !.pc = "refresh"])
    /\ UNCHANGED <<blob, cached, started, allowed>>

\* Microsoft answers with a refresh token: save_refresh_token reads.
SaveReads(t) ==
    /\ session[t].pc \in {"redeem", "refresh"}
    /\ \E read \in Blobs :
         /\ Loads(read)
         /\ Goto(t, [session[t] EXCEPT !.pc = IF At(t, "redeem") THEN "connect" ELSE "rotate",
                                       !.read = read])
    /\ UNCHANGED <<blob, cached, started, allowed>>

SaveWrites(t) ==
    /\ session[t].pc \in {"connect", "rotate"}
    /\ \/ /\ blob' = [session[t].read EXCEPT !.token = TRUE]
          /\ IF At(t, "connect")
             THEN allowed' = TRUE /\ UNCHANGED cached
             ELSE cached' = cached \cup {t} /\ UNCHANGED allowed
       \/ UNCHANGED <<blob, cached, allowed>>
    /\ Done(t)
    /\ UNCHANGED started

\* It answers with an access token only, or not at all.
NotSaved(t) ==
    /\ session[t].pc \in {"redeem", "refresh"}
    /\ cached' \in {cached, IF At(t, "refresh") THEN cached \cup {t} ELSE cached}
    /\ Done(t)
    /\ UNCHANGED <<blob, started, allowed>>

\* invalid_grant: the connection was withdrawn, and the file is emptied.
Refused(t) ==
    /\ At(t, "refresh")
    /\ blob' = Empty /\ allowed' = FALSE
    /\ Done(t)
    /\ UNCHANGED <<cached, started>>

\* The access token expires, or the session ends with its manager.
Ends(t) ==
    /\ cached' = cached \ {t}
    /\ Done(t)
    /\ UNCHANGED <<blob, started, allowed>>

Next ==
    \E t \in Sessions :
        \/ SeemsUnconnected(t) \/ StartReads(t) \/ StartWrites(t)
        \/ Disconnect(t) \/ ConsumeReads(t) \/ ConsumeWrites(t)
        \/ TokenReads(t) \/ SaveReads(t) \/ SaveWrites(t) \/ NotSaved(t) \/ Refused(t) \/ Ends(t)

Spec == Init /\ [][Next]_vars

-------------------------------------------------------------------------------
(* What the owner may rely on.                                             *)

\* The page says of the connection that allowing it once is enough: a refresh
\* token that was stored stays until the owner disconnects or Microsoft refuses it.
OnceIsEnough == allowed => blob.token
===============================================================================
