----------------------------- MODULE MicrosoftLink -----------------------------
(***************************************************************************)
(* The worker's connection to the owner's mailbox: oauth/microsoft.py over *)
(* the token tables of the worker's database.                              *)
(*                                                                         *)
(* The handlers of the requests run one after the other in the event loop, *)
(* each to its end (start, complete, disconnect).  The acquisition thread  *)
(* asks for access tokens beside them (access_token), and nothing is       *)
(* locked but single statements of the database.                           *)
(*                                                                         *)
(* A token is the account it is for.  Keys, verifiers and encryption are   *)
(* left out: no two states are alike, and what was stored can be read.     *)
(***************************************************************************)
EXTENDS Naturals

CONSTANTS
    States,     \* bound: the authorizations that are started
    Accounts    \* Microsoft accounts of the owner

NoAccount == 0

VARIABLES
    pending,    \* pending[s]: the row of an authorization's state
    stored,     \* the refresh token in the database
    cached,     \* the access token in memory
    handler,    \* the request in hand
    reader,     \* the acquisition thread in access_token
    exchanged,  \* history: exchanged[s]: codes redeemed with the verifier of s
    lapsed,     \* history: the states that expired before they were used
    chosen,     \* history: the account the owner connected last, unless disconnected
    crossed     \* history: a refresh and a change of the account ran into one another

history == <<exchanged, lapsed, chosen, crossed>>
vars == <<pending, stored, cached, handler, reader, history>>

NoRequest == [does |-> "none", state |-> 0, account |-> NoAccount]
Away == [pc |-> "away", account |-> NoAccount]

Init ==
    /\ pending = [s \in States |-> "unused"]
    /\ stored = NoAccount /\ cached = NoAccount
    /\ handler = NoRequest /\ reader = Away
    /\ exchanged = [s \in States |-> 0] /\ lapsed = {}
    /\ chosen = NoAccount /\ crossed = FALSE

Free == handler = NoRequest
Answered == handler' = NoRequest

-------------------------------------------------------------------------------
(* The requests of the owner's page (service.py, render_microsoft_connection). *)

\* start: expired rows go, and one for a new state comes.
StartAuthorization(s) ==
    /\ Free /\ pending[s] = "unused"
    /\ pending' = [t \in States |-> IF t = s THEN "live"
                                    ELSE IF pending[t] = "expired" THEN "gone" ELSE pending[t]]
    /\ UNCHANGED <<stored, cached, handler, reader, history>>

\* authorization_ttl_seconds
Expire(s) ==
    /\ pending[s] = "live"
    /\ pending' = [pending EXCEPT ![s] = "expired"]
    /\ lapsed' = lapsed \cup {s}
    /\ UNCHANGED <<stored, cached, handler, reader, exchanged, chosen, crossed>>

\* The row is read and left where it is.
MutantConsume(s) == UNCHANGED pending

\* consume_pending_authorization: the row is deleted, good or not.
Consume(s) == pending' = [pending EXCEPT ![s] = IF @ = "unused" THEN @ ELSE "gone"]

\* complete, called by whatever page Microsoft sends the owner back to, and again
\* when that page is loaded again; first the state is consumed,
Complete(s, account) ==
    /\ Free /\ pending[s] # "unused"
    /\ Consume(s)
    /\ IF pending[s] = "live"
       THEN handler' = [does |-> "exchange", state |-> s, account |-> account]
       ELSE UNCHANGED handler
    /\ UNCHANGED <<stored, cached, reader, history>>

\* then the code is redeemed; the answer may be that it cannot be,
Exchange ==
    /\ handler.does = "exchange"
    /\ exchanged' = [exchanged EXCEPT ![handler.state] = @ + 1]
    /\ \/ handler' = [handler EXCEPT !.does = "save"]
       \/ Answered
    /\ UNCHANGED <<pending, stored, cached, reader, lapsed, chosen, crossed>>

\* and the refresh token is saved.  The access token of before stays in memory.
SaveConnection ==
    /\ handler.does = "save"
    /\ stored' = handler.account /\ chosen' = handler.account
    /\ crossed' = (crossed \/ reader # Away \/ cached # NoAccount)
    /\ Answered
    /\ UNCHANGED <<pending, cached, reader, exchanged, lapsed>>

\* The access token is not thought of.
MutantForget == handler' = [NoRequest EXCEPT !.does = "delete"] /\ UNCHANGED cached

Forget == handler' = [NoRequest EXCEPT !.does = "delete"] /\ cached' = NoAccount

\* disconnect: first the access token is forgotten,
Disconnect ==
    /\ Free
    /\ Forget
    /\ UNCHANGED <<pending, stored, reader, history>>

\* then the refresh token is deleted, or the database does not answer.
DeleteToken ==
    /\ handler.does = "delete"
    /\ \/ /\ stored' = NoAccount /\ chosen' = NoAccount
          /\ crossed' = (crossed \/ reader # Away)
       \/ UNCHANGED <<stored, chosen, crossed>>
    /\ Answered
    /\ UNCHANGED <<pending, cached, reader, exchanged, lapsed>>

-------------------------------------------------------------------------------
(* access_token, in the acquisition thread.  The token in memory is used   *)
(* until it expires.                                                       *)

CacheExpires ==
    /\ cached # NoAccount
    /\ cached' = NoAccount
    /\ UNCHANGED <<pending, stored, handler, reader, history>>

\* The refresh token is loaded; without one the owner is asked to connect.
LoadToken ==
    /\ reader = Away /\ cached = NoAccount /\ stored # NoAccount
    /\ reader' = [pc |-> "refreshes", account |-> stored]
    /\ UNCHANGED <<pending, stored, cached, handler, history>>

\* Microsoft answers; a new refresh token comes with it, or not.
Refreshed ==
    /\ reader.pc = "refreshes"
    /\ reader' = [reader EXCEPT !.pc = "caches"]
    /\ stored' \in {stored, reader.account}
    /\ UNCHANGED <<pending, cached, handler, history>>

\* invalid_grant: whatever token is stored is deleted.  Other errors leave it.
Refused ==
    /\ reader.pc = "refreshes"
    /\ reader' = Away
    /\ stored' \in {stored, NoAccount}
    /\ UNCHANGED <<pending, cached, handler, history>>

CacheToken ==
    /\ reader.pc = "caches"
    /\ cached' = reader.account
    /\ reader' = Away
    /\ crossed' = (crossed \/ handler.does = "delete")
    /\ UNCHANGED <<pending, stored, handler, exchanged, lapsed, chosen>>

\* The process dies: what is in memory is lost.
Crash ==
    /\ cached' = NoAccount /\ Answered /\ reader' = Away
    /\ UNCHANGED <<pending, stored, history>>

Next ==
    \/ \E s \in States : \/ StartAuthorization(s) \/ Expire(s)
                         \/ \E account \in Accounts : Complete(s, account)
    \/ Exchange \/ SaveConnection \/ Disconnect \/ DeleteToken
    \/ CacheExpires \/ LoadToken \/ Refreshed \/ Refused \/ CacheToken \/ Crash

Spec == Init /\ [][Next]_vars

-------------------------------------------------------------------------------
(* What the owner may rely on.                                             *)

\* The variables have the values the code gives them.
TypeOK ==
    /\ pending \in [States -> {"unused", "live", "expired", "gone"}]
    /\ stored \in Accounts \cup {NoAccount} /\ cached \in Accounts \cup {NoAccount}
    /\ handler \in [does: {"none", "exchange", "save", "delete"}, state: States \cup {0},
                    account: Accounts \cup {NoAccount}]
    /\ reader \in [pc: {"away", "refreshes", "caches"}, account: Accounts \cup {NoAccount}]
    /\ exchanged \in [States -> Nat]
    /\ lapsed \subseteq States /\ crossed \in BOOLEAN
    /\ chosen \in Accounts \cup {NoAccount}

\* A state buys one exchange, and none once it has expired: whether its page is
\* loaded twice or late, or again after a crash in the middle of the first.
OneExchange == \A s \in States : exchanged[s] <= (IF s \in lapsed THEN 0 ELSE 1)

\* The worker holds no token of an account but the one the owner connected last,
\* and none after a disconnect, as long as no refresh and no other page's
\* completion came in between (crossed: then it may).
TokensFollowOwner == ~crossed => {stored, cached} \subseteq {chosen, NoAccount}
===============================================================================
