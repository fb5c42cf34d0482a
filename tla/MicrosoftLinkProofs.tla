-------------------------- MODULE MicrosoftLinkProofs --------------------------
(***************************************************************************)
(* What holds of the mailbox's tokens for any number of authorizations and *)
(* accounts.                                                               *)
(***************************************************************************)
EXTENDS MicrosoftLink, TLAPS

Handlers == [does: {"none", "exchange", "save", "delete"}, state: States \cup {0},
             account: Accounts \cup {NoAccount}]
Readers == [pc: {"away", "refreshes", "caches"}, account: Accounts \cup {NoAccount}]

\* The code that came with state s is about to be redeemed.
Redeeming(s) == handler.does = "exchange" /\ handler.state = s

\* A row that is there bought nothing yet; one that was live and is not any more
\* is being redeemed, was, or expired.
RowsBuyOnce ==
    \A s \in States :
        /\ pending[s] \in {"unused", "live"} => s \notin lapsed /\ ~Redeeming(s) /\ exchanged[s] = 0
        /\ Redeeming(s) => s \notin lapsed /\ exchanged[s] = 0
        /\ s \in lapsed => exchanged[s] = 0
        /\ exchanged[s] <= 1

\* Unless something crossed, the thread has the token of the account chosen in
\* hand, and the one in memory is gone before the stored one is.
HandsFollowOwner ==
    ~crossed => /\ {stored, cached, reader.account} \subseteq {chosen, NoAccount}
                /\ handler.does = "delete" => cached = NoAccount

IInv == TypeOK /\ RowsBuyOnce /\ HandsFollowOwner

LEMMA RequestsAre ==
    /\ NoRequest \in Handlers /\ NoRequest.does = "none" /\ NoRequest.state = 0
    /\ Away \in Readers /\ Away.pc = "away" /\ Away.account = NoAccount
BY DEF NoRequest, Away, Handlers, Readers

LEMMA InitHolds == Init => IInv
<1> SUFFICES ASSUME Init PROVE IInv  OBVIOUS
<1>1. TypeOK
  BY RequestsAre DEF Init, TypeOK, Handlers, Readers
<1>2. RowsBuyOnce
  <2>1. handler.does # "exchange" /\ lapsed = {} /\ \A s \in States : exchanged[s] = 0
    BY RequestsAre DEF Init
  <2>2. ASSUME NEW s \in States
        PROVE  s \notin lapsed /\ ~Redeeming(s) /\ exchanged[s] = 0 /\ exchanged[s] <= 1
    BY <2>1 DEF Redeeming
  <2>3. QED  BY <2>2 DEF RowsBuyOnce
<1>3. HandsFollowOwner
  BY RequestsAre DEF Init, HandsFollowOwner
<1>4. QED  BY <1>1, <1>2, <1>3 DEF IInv

LEMMA TypeStep == ASSUME TypeOK, [Next]_vars PROVE TypeOK'
<1> USE RequestsAre DEF TypeOK, Handlers, Readers, history
<1>1. ASSUME NEW s \in States, StartAuthorization(s) PROVE TypeOK'
  BY <1>1 DEF StartAuthorization
<1>2. ASSUME NEW s \in States, Expire(s) PROVE TypeOK'
  BY <1>2 DEF Expire
<1>3. ASSUME NEW s \in States, NEW account \in Accounts, Complete(s, account) PROVE TypeOK'
  BY <1>3 DEF Complete, Consume
<1>4. CASE Exchange
  <2>1. exchanged' \in [States -> Nat]
    <3>1. exchanged' = [exchanged EXCEPT ![handler.state] = @ + 1]
      BY <1>4 DEF Exchange
    <3>2. \A s \in States :
            exchanged'[s] = IF s = handler.state THEN exchanged[s] + 1 ELSE exchanged[s]
      BY <3>1
    <3>3. exchanged' = [s \in States |-> exchanged'[s]]
      BY <3>1
    <3>4. QED  BY <3>2, <3>3
  <2>2. handler' \in Handlers
    BY <1>4 DEF Exchange, Answered
  <2>3. QED  BY <1>4, <2>1, <2>2 DEF Exchange
<1>5. CASE SaveConnection
  BY <1>5 DEF SaveConnection, Answered
<1>6. CASE Disconnect
  BY <1>6 DEF Disconnect, Forget
<1>7. CASE DeleteToken
  BY <1>7 DEF DeleteToken, Answered
<1>8. CASE CacheExpires \/ LoadToken \/ Refreshed
  BY <1>8 DEF CacheExpires, LoadToken, Refreshed
<1>9. CASE Refused \/ CacheToken \/ Crash
  BY <1>9 DEF Refused, CacheToken, Crash, Answered
<1>10. CASE UNCHANGED vars
  BY <1>10 DEF vars
<1>11. QED
  BY <1>1, <1>2, <1>3, <1>4, <1>5, <1>6, <1>7, <1>8, <1>9, <1>10 DEF Next

LEMMA RowsStep == ASSUME TypeOK, RowsBuyOnce, [Next]_vars PROVE RowsBuyOnce'
<1> USE RequestsAre DEF TypeOK, RowsBuyOnce, Redeeming, history
<1>1. ASSUME NEW s \in States, StartAuthorization(s) PROVE RowsBuyOnce'
  BY <1>1 DEF StartAuthorization
<1>2. ASSUME NEW s \in States, Expire(s) PROVE RowsBuyOnce'
  BY <1>2 DEF Expire
<1>3. ASSUME NEW s \in States, NEW account \in Accounts, Complete(s, account) PROVE RowsBuyOnce'
  BY <1>3 DEF Complete, Consume
<1>4. CASE Exchange
  BY <1>4 DEF Exchange, Answered
<1>5. CASE SaveConnection \/ Disconnect \/ DeleteToken
  <2>1. handler'.does # "exchange"
    BY <1>5 DEF SaveConnection, Disconnect, DeleteToken, Forget, Answered, NoRequest
  <2>2. UNCHANGED <<pending, exchanged, lapsed>>
    BY <1>5 DEF SaveConnection, Disconnect, DeleteToken
  <2>3. QED  BY <2>1, <2>2
<1>6. CASE CacheExpires \/ LoadToken \/ Refreshed \/ Refused \/ CacheToken \/ Crash
  BY <1>6 DEF CacheExpires, LoadToken, Refreshed, Refused, CacheToken, Crash, Answered
<1>7. CASE UNCHANGED vars
  BY <1>7 DEF vars
<1>8. QED
  BY <1>1, <1>2, <1>3, <1>4, <1>5, <1>6, <1>7 DEF Next

LEMMA HandsStep == ASSUME TypeOK, HandsFollowOwner, [Next]_vars PROVE HandsFollowOwner'
<1> USE RequestsAre DEF TypeOK, HandsFollowOwner, history
<1>1. ASSUME NEW s \in States, StartAuthorization(s) \/ Expire(s) PROVE HandsFollowOwner'
  BY <1>1 DEF StartAuthorization, Expire
<1>2. ASSUME NEW s \in States, NEW account \in Accounts, Complete(s, account)
      PROVE  HandsFollowOwner'
  BY <1>2 DEF Complete, Free
<1>3. CASE Exchange
  BY <1>3 DEF Exchange, Answered
<1>4. CASE SaveConnection
  BY <1>4 DEF SaveConnection, Answered
<1>5. CASE Disconnect
  BY <1>5 DEF Disconnect, Forget
<1>6. CASE DeleteToken
  BY <1>6 DEF DeleteToken, Answered
<1>7. CASE CacheExpires \/ LoadToken \/ Refreshed
  BY <1>7 DEF CacheExpires, LoadToken, Refreshed
<1>8. CASE Refused \/ CacheToken \/ Crash
  BY <1>8 DEF Refused, CacheToken, Crash, Answered
<1>9. CASE UNCHANGED vars
  BY <1>9 DEF vars
<1>10. QED
  BY <1>1, <1>2, <1>3, <1>4, <1>5, <1>6, <1>7, <1>8, <1>9 DEF Next

LEMMA InvHolds == Spec => []IInv
<1>1. Init => IInv
  BY InitHolds
<1>2. IInv /\ [Next]_vars => IInv'
  BY TypeStep, RowsStep, HandsStep DEF IInv
<1>3. QED  BY <1>1, <1>2, PTL DEF Spec

-------------------------------------------------------------------------------
\* A state of an authorization buys one exchange of a code at most, and none once
\* it expired (consume_pending_authorization of oauth/microsoft.py).
THEOREM OneExchangeEver == Spec => []OneExchange
<1>1. IInv => OneExchange
  <2>1. ASSUME IInv, NEW s \in States
        PROVE  exchanged[s] <= (IF s \in lapsed THEN 0 ELSE 1)
    <3>1. exchanged[s] \in Nat /\ exchanged[s] <= 1 /\ (s \in lapsed => exchanged[s] = 0)
      BY <2>1 DEF IInv, RowsBuyOnce, TypeOK
    <3>2. QED  BY <3>1
  <2>2. QED  BY <2>1 DEF OneExchange
<1>2. QED  BY <1>1, InvHolds, PTL

\* The worker holds no token of another account than the owner chose last, unless
\* a refresh of access_token crossed with complete or disconnect.
THEOREM TokensAlwaysFollow == Spec => []TokensFollowOwner
<1>1. IInv => TokensFollowOwner
  BY DEF IInv, HandsFollowOwner, TokensFollowOwner
<1>2. QED  BY <1>1, InvHolds, PTL
===============================================================================
