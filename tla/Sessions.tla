------------------------------ MODULE Sessions ------------------------------
(***************************************************************************)
(* The sessions of the web UI: session.go, the login and logout handlers   *)
(* of handlers.go, the session middleware of api_handlers.go, and the      *)
(* LoadAndSave middleware of the scs library around all of them.           *)
(*                                                                         *)
(* LoadAndSave copies the session of the cookie's token into the request   *)
(* before the handler runs, and writes it back, if the handler changed it, *)
(* just before the response header.  Requests interleave between those     *)
(* two points, the store is shared, and it is lost at a restart.           *)
(***************************************************************************)
EXTENDS Naturals, FiniteSets

CONSTANTS
  Tokens,      \* the values a session token can take
  Requests,    \* the HTTP requests in flight
  Principals,  \* a user with the access list the directory returned
  TTL,         \* sessionTTL, in ticks
  NoToken,     \* no cookie, and the token of a session that has none yet
  NoSession,   \* no sessionData under the key "session"
  Absent       \* no item in the store

SessionItems == [sess : Principals, left : 0..TTL]

ASSUME SessionsAssumption ==
  /\ TTL \in Nat \ {0}
  /\ NoToken \notin Tokens
  /\ NoSession \notin Principals
  /\ Absent \notin SessionItems

VARIABLES
  store,      \* the memstore: per token an item with its time left, or Absent
  given,      \* the tokens a response has carried to a browser
  pc,         \* per request: "idle", "received", "loaded" or "respond"
  kind,       \* per request: "login", "logout" or "api"
  presented,  \* per request: the token of its cookie
  data        \* per request: scs's sessionData, the copy the handler works on

vars == <<store, given, pc, kind, presented, data>>

Kinds == {"login", "logout", "api"}

(* Status is scs's: only Modified data is written back.                    *)
SessionData == [token  : Tokens \cup {NoToken},
                status : {"Unmodified", "Modified", "Destroyed"},
                left   : 0..TTL,
                sess   : Principals \cup {NoSession}]

NewSessionData ==
  [token |-> NoToken, status |-> "Unmodified", left |-> TTL, sess |-> NoSession]

TypeOK ==
  /\ store \in [Tokens -> SessionItems \cup {Absent}]
  /\ given \subseteq Tokens
  /\ pc \in [Requests -> {"idle", "received", "loaded", "respond"}]
  /\ kind \in [Requests -> Kinds]
  /\ presented \in [Requests -> Tokens \cup {NoToken}]
  /\ data \in [Requests -> SessionData]

Init ==
  /\ store = [t \in Tokens |-> Absent]
  /\ given = {}
  /\ pc = [r \in Requests |-> "idle"]
  /\ kind = [r \in Requests |-> "api"]
  /\ presented = [r \in Requests |-> NoToken]
  /\ data = [r \in Requests |-> NewSessionData]

(* The store finds no item whose deadline has passed.                      *)
Live(t) == store[t] # Absent /\ store[t].left > 0

(* RenewToken draws a random token: one that no browser holds and that no  *)
(* other request has drawn.                                                *)
FreshTokens == {t \in Tokens : t \notin given /\ \A q \in Requests : data[q].token # t}

-----------------------------------------------------------------------------
(* A request arrives with no cookie or with any token ever given out, of   *)
(* this browser or copied from another, current or long since ended.       *)
(* Bound: a login is sent only while there are tokens for every login.     *)
LoginsUnderWay ==
  {q \in Requests : kind[q] = "login" /\ pc[q] \in {"received", "loaded"}}

Receive(r, k, t) ==
  /\ pc[r] = "idle"
  /\ k = "login" => Cardinality(LoginsUnderWay) < Cardinality(FreshTokens)
  /\ pc' = [pc EXCEPT ![r] = "received"]
  /\ kind' = [kind EXCEPT ![r] = k]
  /\ presented' = [presented EXCEPT ![r] = t]
  /\ UNCHANGED <<store, given, data>>

(* LoadAndSave, before the handler.  An unknown or expired token starts    *)
(* fresh data without a token; loading changes nothing (no idle timeout).  *)
LoadedData(t) ==
  IF t # NoToken /\ Live(t)
  THEN [token |-> t, status |-> "Unmodified",
        left |-> store[t].left, sess |-> store[t].sess]
  ELSE NewSessionData

(* Mutant: an expired item that is not swept yet is still loaded.          *)
LoadUnswept(r) ==
  /\ pc[r] = "received"
  /\ pc' = [pc EXCEPT ![r] = "loaded"]
  /\ data' = [data EXCEPT ![r] =
                IF presented[r] # NoToken /\ store[presented[r]] # Absent
                THEN [token |-> presented[r], status |-> "Unmodified",
                      left |-> store[presented[r]].left, sess |-> store[presented[r]].sess]
                ELSE NewSessionData]
  /\ UNCHANGED <<store, given, kind, presented>>

(* Mutant: every request gives its session another full lifetime.          *)
LoadTouching(r) ==
  /\ pc[r] = "received"
  /\ pc' = [pc EXCEPT ![r] = "loaded"]
  /\ data' = [data EXCEPT ![r] = LoadedData(presented[r])]
  /\ store' = [t \in Tokens |-> IF t = presented[r] /\ Live(t)
                                THEN [store[t] EXCEPT !.left = TTL]
                                ELSE store[t]]
  /\ UNCHANGED <<given, kind, presented>>

(* Mutant: an expired item that is not swept yet gets a new lifetime.      *)
LoadReviving(r) ==
  LET t == presented[r]
  IN  /\ pc[r] = "received"
      /\ pc' = [pc EXCEPT ![r] = "loaded"]
      /\ IF t \in Tokens /\ store[t] # Absent /\ ~Live(t)
         THEN /\ store' = [store EXCEPT ![t].left = TTL]
              /\ data' = [data EXCEPT ![r] = [token |-> t, status |-> "Unmodified",
                                              left |-> TTL, sess |-> store[t].sess]]
         ELSE /\ data' = [data EXCEPT ![r] = LoadedData(t)]
              /\ UNCHANGED store
      /\ UNCHANGED <<given, kind, presented>>

Load(r) ==
  /\ pc[r] = "received"
  /\ pc' = [pc EXCEPT ![r] = "loaded"]
  /\ data' = [data EXCEPT ![r] = LoadedData(presented[r])]
  /\ UNCHANGED <<store, given, kind, presented>>

(* getSession: the middleware lets the handler run with the session, or    *)
(* answers 401.  Either way the session data stays as loaded.              *)
HandleApi(r) ==
  /\ pc[r] = "loaded"
  /\ kind[r] = "api"
  /\ pc' = [pc EXCEPT ![r] = "respond"]
  /\ UNCHANGED <<store, given, kind, presented, data>>

(* The form is bad or the directory says no: the login page is served.     *)
RejectLogin(r) ==
  /\ pc[r] = "loaded"
  /\ kind[r] = "login"
  /\ pc' = [pc EXCEPT ![r] = "respond"]
  /\ UNCHANGED <<store, given, kind, presented, data>>

(* Mutant: the login draws a new token and leaves the old one in the store. *)
AcceptLoginKeepingOld(r, p, t) ==
  /\ pc[r] = "loaded"
  /\ kind[r] = "login"
  /\ t \in FreshTokens
  /\ data' = [data EXCEPT ![r] = [token |-> t, status |-> "Modified",
                                  left |-> TTL, sess |-> p]]
  /\ pc' = [pc EXCEPT ![r] = "respond"]
  /\ UNCHANGED <<store, given, kind, presented>>

(* The directory has returned p.  createSession: RenewToken deletes the    *)
(* old token from the store and draws a new one, Put sets the session.     *)
AcceptLogin(r, p, t) ==
  /\ pc[r] = "loaded"
  /\ kind[r] = "login"
  /\ t \in FreshTokens
  /\ store' = [u \in Tokens |-> IF u = data[r].token THEN Absent ELSE store[u]]
  /\ data' = [data EXCEPT ![r] = [token |-> t, status |-> "Modified",
                                  left |-> TTL, sess |-> p]]
  /\ pc' = [pc EXCEPT ![r] = "respond"]
  /\ UNCHANGED <<given, kind, presented>>

(* Mutant: logout deletes the item but leaves its copy to be written back. *)
LogoutWrittenBack(r) ==
  /\ pc[r] = "loaded"
  /\ kind[r] = "logout"
  /\ store' = [u \in Tokens |-> IF u = data[r].token THEN Absent ELSE store[u]]
  /\ data' = [data EXCEPT ![r].status = "Modified"]
  /\ pc' = [pc EXCEPT ![r] = "respond"]
  /\ UNCHANGED <<given, kind, presented>>

(* destroySession.                                                         *)
Logout(r) ==
  /\ pc[r] = "loaded"
  /\ kind[r] = "logout"
  /\ store' = [u \in Tokens |-> IF u = data[r].token THEN Absent ELSE store[u]]
  /\ data' = [data EXCEPT ![r] = [NewSessionData EXCEPT !.status = "Destroyed"]]
  /\ pc' = [pc EXCEPT ![r] = "respond"]
  /\ UNCHANGED <<given, kind, presented>>

(* LoadAndSave, just before the header: Modified data is committed under   *)
(* its token and the token goes out in the cookie.                         *)
WriteHeader(r) ==
  /\ pc[r] = "respond"
  /\ IF data[r].status = "Modified"
     THEN /\ store' = [store EXCEPT ![data[r].token] =
                         [sess |-> data[r].sess, left |-> data[r].left]]
          /\ given' = given \cup {data[r].token}
     ELSE UNCHANGED <<store, given>>
  /\ pc' = [pc EXCEPT ![r] = "idle"]
  /\ data' = [data EXCEPT ![r] = NewSessionData]
  /\ UNCHANGED <<kind, presented>>

-----------------------------------------------------------------------------
(* Deadlines are absolute: every one of them comes a tick closer, in the   *)
(* store and in the data of the requests that hold a deadline.             *)
Minus1(n) == IF n = 0 THEN 0 ELSE n - 1

Tick ==
  /\ store' = [t \in Tokens |->
                 IF store[t] = Absent THEN Absent
                 ELSE [store[t] EXCEPT !.left = Minus1(store[t].left)]]
  /\ data' = [r \in Requests |->
                IF data[r].token = NoToken THEN data[r]
                ELSE [data[r] EXCEPT !.left = Minus1(data[r].left)]]
  /\ UNCHANGED <<given, pc, kind, presented>>

(* The memstore's goroutine deletes what has expired.                      *)
Sweep ==
  /\ \E t \in Tokens : store[t] # Absent /\ ~Live(t)
  /\ store' = [t \in Tokens |-> IF Live(t) THEN store[t] ELSE Absent]
  /\ UNCHANGED <<given, pc, kind, presented, data>>

(* A crash or a redeployment: the store and the requests were in memory.   *)
Restart ==
  /\ store' = [t \in Tokens |-> Absent]
  /\ pc' = [r \in Requests |-> "idle"]
  /\ data' = [r \in Requests |-> NewSessionData]
  /\ UNCHANGED <<given, kind, presented>>

Handle(r) ==
  \/ Load(r)
  \/ HandleApi(r)
  \/ RejectLogin(r)
  \/ \E p \in Principals, t \in Tokens : AcceptLogin(r, p, t)
  \/ Logout(r)
  \/ WriteHeader(r)

Next ==
  \/ \E r \in Requests, k \in Kinds, t \in given \cup {NoToken} : Receive(r, k, t)
  \/ \E r \in Requests : Handle(r)
  \/ Tick
  \/ Sweep
  \/ Restart

Spec == Init /\ [][Next]_vars

(* Time passes and the memstore's goroutine runs; nothing is assumed of    *)
(* browsers, handlers or the directory, which may never answer.            *)
FairSpec == Spec /\ WF_vars(Tick) /\ WF_vars(Sweep)

-----------------------------------------------------------------------------
(* Properties.                                                             *)

(* Once a login has been accepted or a logout handled, the token that came *)
(* with the request admits nobody, whatever other requests were loaded     *)
(* with it and are still to be written back.                               *)
PresentedTokenRevoked ==
  \A r \in Requests :
    pc[r] = "respond" /\ data[r].status # "Unmodified" /\ presented[r] # NoToken =>
      ~Live(presented[r])

(* A stored session never changes hands, and no step gives it more time    *)
(* than it had: thirty minutes after the login it is over, used or not.    *)
LifetimeNeverExtended ==
  [][\A t \in Tokens :
       store[t] # Absent /\ store'[t] # Absent =>
         /\ store'[t].sess = store[t].sess
         /\ store'[t].left <= store[t].left]_vars

(* A token that a browser holds and that no longer admits anybody never    *)
(* admits anybody again: no write-back of a request that was loaded with   *)
(* it, no later login and no restart brings its session back.              *)
RevokedForGood == [][\A t \in given : ~Live(t) => ~Live(t)']_vars

(* No session stays in memory for ever, though the process keeps serving   *)
(* requests that present its token: those whose cookie was lost or who     *)
(* never log out included.                                                 *)
SessionsCollected == \A t \in Tokens : store[t] # Absent ~> store[t] = Absent

(* What TokenLifecycle calls a phase, a holder and an admission.           *)
Phase == [t \in Tokens |-> IF t \notin given THEN "unused"
                           ELSE IF Live(t) THEN "live" ELSE "ended"]
Holder == [t \in Tokens |-> IF t \in given /\ Live(t) THEN store[t].sess
                                                      ELSE NoSession]
Admitted == [r \in Requests |-> IF kind[r] = "api" THEN data[r].sess ELSE NoSession]

Lifecycle == INSTANCE TokenLifecycle
               WITH phase <- Phase, holder <- Holder, admitted <- Admitted

(* The interleaved requests, the write-back and the restart implement the  *)
(* promise of TokenLifecycle: a token is given out once, is bound to one   *)
(* principal, and admits no request after its end.                         *)
LifecycleSpec == Lifecycle!Spec

-----------------------------------------------------------------------------
(* Why it holds: what a request can still write back is a token that only  *)
(* it knows, and data loaded from the store is never written back.         *)

PendingIsUnknown ==
  \A r \in Requests :
    data[r].status = "Modified" =>
      /\ pc[r] = "respond" /\ kind[r] = "login"
      /\ data[r].token \in Tokens \ given
      /\ data[r].sess \in Principals

PendingIsPrivate ==
  \A r, q \in Requests :
    r # q /\ data[r].status = "Modified" => data[q].token # data[r].token

OnlyGivenIsKnown ==
  /\ \A t \in Tokens : store[t] # Absent => t \in given
  /\ \A r \in Requests : presented[r] \in given \cup {NoToken}

DataFollowsRequest(r) ==
  /\ pc[r] \in {"idle", "received"} => data[r] = NewSessionData
  /\ data[r].status = "Unmodified" => data[r].token \in {presented[r], NoToken}
  /\ data[r].status = "Destroyed" => data[r].token = NoToken
  /\ data[r].token = NoToken => data[r].sess = NoSession
  /\ pc[r] = "loaded" =>
       /\ data[r].status = "Unmodified"
       /\ presented[r] \notin {NoToken, data[r].token} => ~Live(presented[r])

LoadedIsPresented == \A r \in Requests : DataFollowsRequest(r)

Inv ==
  /\ TypeOK
  /\ PendingIsUnknown
  /\ PendingIsPrivate
  /\ OnlyGivenIsKnown
  /\ LoadedIsPresented
  /\ PresentedTokenRevoked
=============================================================================
