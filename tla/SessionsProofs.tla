--------------------------- MODULE SessionsProofs ---------------------------
(***************************************************************************)
(* Sessions keeps its invariant and implements TokenLifecycle, for any     *)
(* sets of tokens, requests and principals and any lifetime.               *)
(***************************************************************************)
EXTENDS Sessions, TLAPS

USE DEF Kinds

(* A tick leaves a countdown a countdown.                                  *)
LEMMA Minus1Type == \A n \in 0..TTL : Minus1(n) \in 0..TTL /\ Minus1(n) <= n
BY SessionsAssumption DEF Minus1

(* What LoadAndSave copies into a request is scs session data.             *)
LEMMA LoadedDataType ==
  ASSUME TypeOK, NEW t \in Tokens \cup {NoToken}
  PROVE  LoadedData(t) \in SessionData
<1>1. CASE t # NoToken /\ Live(t)
  <2>1. store[t] \in SessionItems
    BY <1>1 DEF TypeOK, Live
  <2> QED
    BY <1>1, <2>1 DEF LoadedData, SessionData, SessionItems
<1>2. CASE ~(t # NoToken /\ Live(t))
  BY <1>2, SessionsAssumption DEF LoadedData, SessionData, NewSessionData
<1> QED
  BY <1>1, <1>2

-----------------------------------------------------------------------------
(* The invariant holds at the start.                                       *)
LEMMA InitInv == Init => Inv
BY SessionsAssumption
   DEF Init, Inv, TypeOK, PendingIsUnknown, PendingIsPrivate, OnlyGivenIsKnown,
       LoadedIsPresented, DataFollowsRequest, PresentedTokenRevoked, NewSessionData, SessionData

(* Receiving a request touches neither the store nor any session data.     *)
LEMMA ReceiveInv ==
  ASSUME Inv, NEW r \in Requests, NEW k \in Kinds, NEW t \in given \cup {NoToken},
         Receive(r, k, t)
  PROVE  Inv'
<1> USE DEF Inv, Receive
<1>1. TypeOK'
  BY DEF TypeOK
<1>2. PendingIsUnknown'
  BY DEF TypeOK, PendingIsUnknown, LoadedIsPresented, DataFollowsRequest, NewSessionData
<1>3. PendingIsPrivate'
  BY DEF PendingIsPrivate
<1>4. OnlyGivenIsKnown'
  BY DEF TypeOK, OnlyGivenIsKnown
<1>5. LoadedIsPresented'
  BY DEF TypeOK, LoadedIsPresented, DataFollowsRequest, NewSessionData, Live
<1>6. PresentedTokenRevoked'
  BY DEF TypeOK, PresentedTokenRevoked, Live
<1> QED
  BY <1>1, <1>2, <1>3, <1>4, <1>5, <1>6

(* Loading gives the request the data of the token it presented, or fresh  *)
(* data if that token is not live.                                         *)
LEMMA LoadInv ==
  ASSUME Inv, NEW r \in Requests, Load(r)
  PROVE  Inv'
<1> USE DEF Inv, Load
<1>1. TypeOK'
  BY LoadedDataType DEF TypeOK
<1>2. /\ LoadedData(presented[r]).status = "Unmodified"
      /\ LoadedData(presented[r]).token \in {presented[r], NoToken}
      /\ LoadedData(presented[r]).token = NoToken =>
           LoadedData(presented[r]).sess = NoSession
      /\ presented[r] \notin {NoToken, LoadedData(presented[r]).token} =>
           ~Live(presented[r])
  BY DEF LoadedData, NewSessionData
<1>3. PendingIsUnknown'
  BY <1>2 DEF TypeOK, PendingIsUnknown
<1>4. PendingIsPrivate'
  BY <1>2, SessionsAssumption
  DEF TypeOK, PendingIsPrivate, PendingIsUnknown, OnlyGivenIsKnown
<1>5. OnlyGivenIsKnown'
  BY DEF TypeOK, OnlyGivenIsKnown
<1>6. LoadedIsPresented'
  BY <1>2 DEF TypeOK, LoadedIsPresented, DataFollowsRequest, Live
<1>7. PresentedTokenRevoked'
  BY DEF TypeOK, PresentedTokenRevoked, Live
<1> QED
  BY <1>1, <1>3, <1>4, <1>5, <1>6, <1>7

(* The API handler and a rejected login leave the session data alone.      *)
LEMMA UnchangedDataInv ==
  ASSUME Inv, NEW r \in Requests, HandleApi(r) \/ RejectLogin(r)
  PROVE  Inv'
<1>1. /\ pc[r] = "loaded"
      /\ pc' = [pc EXCEPT ![r] = "respond"]
      /\ UNCHANGED <<store, given, kind, presented, data>>
  BY DEF HandleApi, RejectLogin
<1> USE <1>1 DEF Inv
<1>2. TypeOK'
  BY DEF TypeOK
<1>3. PendingIsUnknown'
  BY DEF TypeOK, PendingIsUnknown
<1>4. PendingIsPrivate'
  BY DEF PendingIsPrivate
<1>5. OnlyGivenIsKnown'
  BY DEF OnlyGivenIsKnown
<1>6. LoadedIsPresented'
  BY DEF TypeOK, LoadedIsPresented, DataFollowsRequest, Live
<1>7. PresentedTokenRevoked'
  BY DEF TypeOK, PresentedTokenRevoked, LoadedIsPresented, DataFollowsRequest, Live
<1> QED
  BY <1>2, <1>3, <1>4, <1>5, <1>6, <1>7

(* Deleting from the store makes no token live.                            *)
LEMMA DeleteKills ==
  ASSUME TypeOK, NEW d,
         store' = [u \in Tokens |-> IF u = d THEN Absent ELSE store[u]]
  PROVE  /\ store' \in [Tokens -> SessionItems \cup {Absent}]
         /\ \A t \in Tokens : store'[t] = IF t = d THEN Absent ELSE store[t]
         /\ \A t \in Tokens : Live(t)' => Live(t) /\ t # d
BY DEF TypeOK, Live

(* Accepting a login deletes the presented token and draws one nobody has. *)
LEMMA AcceptLoginInv ==
  ASSUME Inv, NEW r \in Requests, NEW p \in Principals, NEW t \in Tokens,
         AcceptLogin(r, p, t)
  PROVE  Inv'
<1> USE DEF Inv, AcceptLogin
<1> DEFINE renewed == [token |-> t, status |-> "Modified", left |-> TTL, sess |-> p]
<1>1. /\ store' \in [Tokens -> SessionItems \cup {Absent}]
      /\ \A u \in Tokens : store'[u] = IF u = data[r].token THEN Absent ELSE store[u]
      /\ \A u \in Tokens : Live(u)' => Live(u) /\ u # data[r].token
  BY DeleteKills
<1>2. /\ \A q \in Requests : data'[q] = IF q = r THEN renewed ELSE data[q]
      /\ \A q \in Requests : pc'[q] = IF q = r THEN "respond" ELSE pc[q]
      /\ UNCHANGED <<given, kind, presented>>
  BY DEF TypeOK
<1>3. /\ t \notin given /\ t # NoToken
      /\ \A q \in Requests : data[q].token # t
  BY SessionsAssumption DEF FreshTokens
<1>4. TypeOK'
  BY <1>1, SessionsAssumption DEF TypeOK, SessionData
<1>5. PendingIsUnknown'
  BY <1>2, <1>3 DEF PendingIsUnknown
<1>6. PendingIsPrivate'
  BY <1>2, <1>3 DEF PendingIsPrivate
<1>7. OnlyGivenIsKnown'
  BY <1>1, <1>2 DEF OnlyGivenIsKnown
<1>8. LoadedIsPresented'
  <2> SUFFICES ASSUME NEW q \in Requests
               PROVE  DataFollowsRequest(q)'
    BY DEF LoadedIsPresented
  <2>1. CASE q = r
    BY <2>1, <1>2, <1>3 DEF DataFollowsRequest
  <2>2. CASE q # r
    BY <2>2, <1>1, <1>2 DEF LoadedIsPresented, DataFollowsRequest, TypeOK
  <2> QED
    BY <2>1, <2>2
<1>9. PresentedTokenRevoked'
  <2> SUFFICES ASSUME NEW q \in Requests, pc'[q] = "respond",
                      data'[q].status # "Unmodified", presented'[q] # NoToken
               PROVE  ~Live(presented[q])'
    BY DEF PresentedTokenRevoked
  <2>1. presented[q] \in Tokens
    BY <1>2 DEF TypeOK
  <2>2. CASE q = r
    BY <2>1, <2>2, <1>1, <1>2 DEF LoadedIsPresented, DataFollowsRequest
  <2>3. CASE q # r
    BY <2>1, <2>3, <1>1, <1>2 DEF PresentedTokenRevoked
  <2> QED
    BY <2>2, <2>3
<1> QED
  BY <1>4, <1>5, <1>6, <1>7, <1>8, <1>9

(* A logout deletes the presented token.                                   *)
LEMMA LogoutInv ==
  ASSUME Inv, NEW r \in Requests, Logout(r)
  PROVE  Inv'
<1> USE DEF Inv, Logout
<1> DEFINE cleared == [NewSessionData EXCEPT !.status = "Destroyed"]
<1>1. /\ store' \in [Tokens -> SessionItems \cup {Absent}]
      /\ \A u \in Tokens : store'[u] = IF u = data[r].token THEN Absent ELSE store[u]
      /\ \A u \in Tokens : Live(u)' => Live(u) /\ u # data[r].token
  BY DeleteKills
<1>2. /\ \A q \in Requests : data'[q] = IF q = r THEN cleared ELSE data[q]
      /\ \A q \in Requests : pc'[q] = IF q = r THEN "respond" ELSE pc[q]
      /\ UNCHANGED <<given, kind, presented>>
  BY DEF TypeOK
<1>3. cleared = [token |-> NoToken, status |-> "Destroyed",
                 left |-> TTL, sess |-> NoSession]
  BY DEF NewSessionData
<1>4. TypeOK'
  BY <1>1, <1>3, SessionsAssumption DEF TypeOK, SessionData
<1>5. PendingIsUnknown'
  BY <1>2, <1>3 DEF PendingIsUnknown
<1>6. PendingIsPrivate'
  <2> SUFFICES ASSUME NEW p \in Requests, NEW q \in Requests, p # q,
                      data'[p].status = "Modified"
               PROVE  data'[q].token # data'[p].token
    BY DEF PendingIsPrivate
  <2>1. p # r /\ data[p].token \in Tokens
    BY <1>2, <1>3 DEF PendingIsUnknown
  <2> QED
    BY <2>1, <1>2, <1>3, SessionsAssumption DEF PendingIsPrivate
<1>7. OnlyGivenIsKnown'
  BY <1>1, <1>2 DEF OnlyGivenIsKnown
<1>8. LoadedIsPresented'
  <2> SUFFICES ASSUME NEW q \in Requests
               PROVE  DataFollowsRequest(q)'
    BY DEF LoadedIsPresented
  <2>1. CASE q = r
    BY <2>1, <1>2, <1>3 DEF DataFollowsRequest
  <2>2. CASE q # r
    BY <2>2, <1>1, <1>2 DEF LoadedIsPresented, DataFollowsRequest, TypeOK
  <2> QED
    BY <2>1, <2>2
<1>9. PresentedTokenRevoked'
  <2> SUFFICES ASSUME NEW q \in Requests, pc'[q] = "respond",
                      data'[q].status # "Unmodified", presented'[q] # NoToken
               PROVE  ~Live(presented[q])'
    BY DEF PresentedTokenRevoked
  <2>1. presented[q] \in Tokens
    BY <1>2 DEF TypeOK
  <2>2. CASE q = r
    BY <2>1, <2>2, <1>1, <1>2 DEF LoadedIsPresented, DataFollowsRequest
  <2>3. CASE q # r
    BY <2>1, <2>3, <1>1, <1>2 DEF PresentedTokenRevoked
  <2> QED
    BY <2>2, <2>3
<1> QED
  BY <1>4, <1>5, <1>6, <1>7, <1>8, <1>9

(* Committing stores a token that nobody has presented yet.                *)
LEMMA WriteHeaderInv ==
  ASSUME Inv, NEW r \in Requests, WriteHeader(r)
  PROVE  Inv'
<1> USE DEF Inv
<1>1. /\ \A q \in Requests : data'[q] = IF q = r THEN NewSessionData ELSE data[q]
      /\ \A q \in Requests : pc'[q] = IF q = r THEN "idle" ELSE pc[q]
      /\ UNCHANGED <<kind, presented>>
  BY DEF WriteHeader, TypeOK
<1>2. /\ store' \in [Tokens -> SessionItems \cup {Absent}]
      /\ given' \subseteq Tokens /\ given \subseteq given'
      /\ \A t \in Tokens : \/ store'[t] = store[t]
                          \/ /\ data[r].status = "Modified"
                             /\ t = data[r].token
                             /\ t \notin given /\ t \in given'
      /\ \A t \in given' \ given : data[r].status = "Modified" /\ t = data[r].token
  <2>1. CASE data[r].status = "Modified"
    <3>1. /\ data[r].token \in Tokens \ given
          /\ [sess |-> data[r].sess, left |-> data[r].left] \in SessionItems
      BY <2>1 DEF PendingIsUnknown, TypeOK, SessionData, SessionItems
    <3> QED
      BY <2>1, <3>1 DEF WriteHeader, TypeOK
  <2>2. CASE data[r].status # "Modified"
    BY <2>2 DEF WriteHeader, TypeOK
  <2> QED
    BY <2>1, <2>2
<1>3. \A q \in Requests : presented[q] # NoToken =>
        presented[q] \in Tokens /\ (Live(presented[q])' => Live(presented[q]))
  BY <1>1, <1>2 DEF OnlyGivenIsKnown, TypeOK, Live
<1>4. TypeOK'
  BY <1>2, SessionsAssumption
  DEF WriteHeader, TypeOK, NewSessionData, SessionData
<1>5. PendingIsUnknown'
  BY <1>1, <1>2 DEF PendingIsUnknown, PendingIsPrivate, NewSessionData
<1>6. PendingIsPrivate'
  BY <1>1, SessionsAssumption
  DEF PendingIsPrivate, PendingIsUnknown, NewSessionData, TypeOK
<1>7. OnlyGivenIsKnown'
  BY <1>1, <1>2 DEF OnlyGivenIsKnown
<1>8. LoadedIsPresented'
  <2> SUFFICES ASSUME NEW q \in Requests
               PROVE  DataFollowsRequest(q)'
    BY DEF LoadedIsPresented
  <2>1. CASE q = r
    BY <2>1, <1>1 DEF DataFollowsRequest, NewSessionData
  <2>2. CASE q # r
    BY <2>2, <1>1, <1>3 DEF LoadedIsPresented, DataFollowsRequest
  <2> QED
    BY <2>1, <2>2
<1>9. PresentedTokenRevoked'
  BY <1>1, <1>3 DEF PresentedTokenRevoked
<1> QED
  BY <1>4, <1>5, <1>6, <1>7, <1>8, <1>9

(* A tick shortens what is left of each stored session: it revives none.   *)
LEMMA TickAges ==
  ASSUME TypeOK, Tick
  PROVE  /\ store' \in [Tokens -> SessionItems \cup {Absent}]
         /\ \A t \in Tokens : store[t] = Absent <=> store'[t] = Absent
         /\ \A t \in Tokens : store[t] # Absent =>
              store'[t].sess = store[t].sess /\ store'[t].left <= store[t].left
         /\ \A t \in Tokens : Live(t)' => Live(t)
<1> SUFFICES ASSUME NEW t \in Tokens
             PROVE  /\ store'[t] \in SessionItems \cup {Absent}
                    /\ store[t] = Absent <=> store'[t] = Absent
                    /\ store[t] # Absent => /\ store'[t].sess = store[t].sess
                                            /\ store'[t].left <= store[t].left
                    /\ Live(t)' => Live(t)
  BY DEF Tick
<1>1. CASE store[t] = Absent
  BY <1>1 DEF Tick, Live
<1>2. CASE store[t] # Absent
  <2>1. /\ store[t] \in SessionItems
        /\ store[t].left \in 0..TTL
        /\ Minus1(store[t].left) \in 0..TTL
        /\ Minus1(store[t].left) <= store[t].left
    BY <1>2, Minus1Type DEF TypeOK, SessionItems
  <2>2. store'[t] = [sess |-> store[t].sess, left |-> Minus1(store[t].left)]
    BY <1>2, <2>1 DEF Tick, SessionItems
  <2>3. store'[t] \in SessionItems
    BY <2>1, <2>2 DEF SessionItems
  <2> QED
    BY <1>2, <2>1, <2>2, <2>3, SessionsAssumption DEF Live
<1> QED
  BY <1>1, <1>2

(* A tick changes deadlines only.                                          *)
LEMMA TickInv ==
  ASSUME Inv, Tick
  PROVE  Inv'
<1> USE DEF Inv
<1>1. /\ store' \in [Tokens -> SessionItems \cup {Absent}]
      /\ \A t \in Tokens : store[t] = Absent <=> store'[t] = Absent
      /\ \A t \in Tokens : Live(t)' => Live(t)
  BY TickAges
<1>2. \A q \in Requests :
        /\ data'[q] \in SessionData
        /\ data'[q].token = data[q].token
        /\ data'[q].status = data[q].status
        /\ data'[q].sess = data[q].sess
        /\ data[q] = NewSessionData => data'[q] = NewSessionData
  <2> SUFFICES ASSUME NEW q \in Requests
               PROVE  /\ data'[q] \in SessionData
                      /\ data'[q].token = data[q].token
                      /\ data'[q].status = data[q].status
                      /\ data'[q].sess = data[q].sess
                      /\ data[q] = NewSessionData => data'[q] = NewSessionData
    OBVIOUS
  <2>1. CASE data[q].token = NoToken
    BY <2>1 DEF Tick, TypeOK
  <2>2. CASE data[q].token # NoToken
    <3>1. data[q] \in SessionData /\ Minus1(data[q].left) \in 0..TTL
      BY Minus1Type DEF TypeOK, SessionData
    <3>2. data'[q] = [token |-> data[q].token, status |-> data[q].status,
                      left |-> Minus1(data[q].left), sess |-> data[q].sess]
      BY <2>2, <3>1 DEF Tick, SessionData
    <3> QED
      BY <2>2, <3>1, <3>2 DEF SessionData, NewSessionData
  <2> QED
    BY <2>1, <2>2
<1>3. UNCHANGED <<given, pc, kind, presented>>
  BY DEF Tick
<1>4. TypeOK'
  BY <1>1, <1>2, <1>3 DEF TypeOK, Tick
<1>5. PendingIsUnknown'
  BY <1>2, <1>3 DEF PendingIsUnknown
<1>6. PendingIsPrivate'
  BY <1>2 DEF PendingIsPrivate
<1>7. OnlyGivenIsKnown'
  BY <1>1, <1>3 DEF OnlyGivenIsKnown
<1>8. LoadedIsPresented'
  BY <1>1, <1>2, <1>3 DEF LoadedIsPresented, DataFollowsRequest, TypeOK
<1>9. PresentedTokenRevoked'
  BY <1>1, <1>2, <1>3 DEF PresentedTokenRevoked, TypeOK
<1> QED
  BY <1>4, <1>5, <1>6, <1>7, <1>8, <1>9

(* The sweep deletes what is not live anyway.                              *)
LEMMA SweepInv ==
  ASSUME Inv, Sweep
  PROVE  Inv'
<1> USE DEF Inv
<1>1. /\ store' \in [Tokens -> SessionItems \cup {Absent}]
      /\ \A t \in Tokens : store'[t] # Absent => store'[t] = store[t]
      /\ \A t \in Tokens : Live(t)' <=> Live(t)
  BY DEF Sweep, TypeOK, Live
<1>2. UNCHANGED <<given, pc, kind, presented, data>>
  BY DEF Sweep
<1>3. TypeOK'
  BY <1>1, <1>2 DEF TypeOK
<1>4. PendingIsUnknown' /\ PendingIsPrivate'
  BY <1>2 DEF PendingIsUnknown, PendingIsPrivate
<1>5. OnlyGivenIsKnown'
  BY <1>1, <1>2 DEF OnlyGivenIsKnown
<1>6. LoadedIsPresented'
  BY <1>1, <1>2 DEF LoadedIsPresented, DataFollowsRequest, TypeOK, NewSessionData
<1>7. PresentedTokenRevoked'
  BY <1>1, <1>2 DEF PresentedTokenRevoked, TypeOK
<1> QED
  BY <1>3, <1>4, <1>5, <1>6, <1>7

(* After a restart there is nothing in the store and nothing to commit.    *)
LEMMA RestartInv ==
  ASSUME Inv, Restart
  PROVE  Inv'
BY SessionsAssumption
   DEF Inv, Restart, TypeOK, PendingIsUnknown, PendingIsPrivate, OnlyGivenIsKnown,
       LoadedIsPresented, DataFollowsRequest, PresentedTokenRevoked, Live,
       NewSessionData, SessionData

LEMMA StutterInv ==
  ASSUME Inv, UNCHANGED vars
  PROVE  Inv'
BY DEF Inv, vars, TypeOK, PendingIsUnknown, PendingIsPrivate, OnlyGivenIsKnown,
       LoadedIsPresented, DataFollowsRequest, PresentedTokenRevoked, Live

-----------------------------------------------------------------------------
LEMMA NextInv ==
  ASSUME Inv, [Next]_vars
  PROVE  Inv'
<1>1. CASE UNCHANGED vars
  BY <1>1, StutterInv
<1>2. ASSUME NEW r \in Requests, NEW k \in Kinds, NEW t \in given \cup {NoToken},
             Receive(r, k, t)
      PROVE  Inv'
  BY <1>2, ReceiveInv
<1>3. ASSUME NEW r \in Requests, Handle(r)
      PROVE  Inv'
  BY <1>3, LoadInv, UnchangedDataInv, AcceptLoginInv, LogoutInv, WriteHeaderInv
  DEF Handle
<1>4. CASE Tick \/ Sweep \/ Restart
  BY <1>4, TickInv, SweepInv, RestartInv
<1> QED
  BY <1>1, <1>2, <1>3, <1>4 DEF Next

(* The invariant that explains the session layer: a request can only write *)
(* back a token that nobody else knows, and a handled login or logout      *)
(* leaves the token it was presented dead.                                 *)
THEOREM Invariance == Spec => []Inv
<1>1. Init => Inv
  BY InitInv
<1>2. Inv /\ [Next]_vars => Inv'
  BY NextInv
<1> QED
  BY <1>1, <1>2, PTL DEF Spec

(* Sessions and requests in flight have their types in every state.        *)
THEOREM TypeCorrect == Spec => []TypeOK
<1>1. Inv => TypeOK
  BY DEF Inv
<1> QED
  BY <1>1, Invariance, PTL

(* After an accepted login or a logout the presented token admits nobody.  *)
THEOREM Revocation == Spec => []PresentedTokenRevoked
<1>1. Inv => PresentedTokenRevoked
  BY DEF Inv
<1> QED
  BY <1>1, Invariance, PTL

(* No step gives a stored session more time or another principal.          *)
THEOREM LifetimeBound == Spec => LifetimeNeverExtended
<1> DEFINE Kept == \A t \in Tokens :
                     store[t] # Absent /\ store'[t] # Absent =>
                       /\ store'[t].sess = store[t].sess
                       /\ store'[t].left <= store[t].left
<1>1. ASSUME Inv, Next
      PROVE  Kept
  <2>0. \A t \in Tokens : store[t] # Absent => store[t].left \in 0..TTL
    BY <1>1 DEF Inv, TypeOK, SessionItems
  <2>1. ASSUME \A t \in Tokens : store'[t] \in {store[t], Absent}
        PROVE  Kept
    BY <2>0, <2>1, SessionsAssumption
  <2>2. ASSUME NEW r \in Requests, WriteHeader(r)
        PROVE  Kept
    <3>1. \A t \in Tokens : store[t] # Absent => store'[t] = store[t]
      BY <1>1, <2>2
      DEF WriteHeader, Inv, TypeOK, PendingIsUnknown, OnlyGivenIsKnown
    <3> QED
      BY <2>0, <3>1, SessionsAssumption
  <2>3. CASE Tick
    BY <1>1, <2>3, TickAges DEF Inv
  <2>4. ASSUME NEW r \in Requests, Handle(r), ~WriteHeader(r)
        PROVE  Kept
    BY <2>1, <2>4 DEF Handle, Load, HandleApi, RejectLogin, AcceptLogin, Logout
  <2>5. CASE Sweep \/ Restart
    BY <2>1, <2>5 DEF Sweep, Restart
  <2>6. ASSUME NEW r \in Requests, NEW k \in Kinds, NEW t \in given \cup {NoToken},
               Receive(r, k, t)
        PROVE  Kept
    BY <2>1, <2>6 DEF Receive
  <2> QED
    BY <1>1, <2>2, <2>3, <2>4, <2>5, <2>6 DEF Next
<1>2. Inv /\ [Next]_vars => [Kept]_vars
  BY <1>1
<1> QED
  BY <1>2, Invariance, PTL DEF Spec, LifetimeNeverExtended

(* A token in a browser's hands that admits nobody never admits anybody    *)
(* again: the only write that makes a token live is that of a login, under *)
(* a token that no browser has seen.                                       *)
THEOREM RevocationIsFinal == Spec => RevokedForGood
<1> DEFINE NoneRevived == \A t \in given : ~Live(t) => ~Live(t)'
<1>1. ASSUME Inv, Next
      PROVE  NoneRevived
  <2>1. given \subseteq Tokens /\ TypeOK
    BY <1>1 DEF Inv, TypeOK
  <2>2. ASSUME \A t \in Tokens : store'[t] \in {store[t], Absent}
        PROVE  NoneRevived
    BY <2>1, <2>2 DEF Live
  <2>3. ASSUME NEW r \in Requests, WriteHeader(r)
        PROVE  NoneRevived
    <3>1. \A t \in given : store'[t] = store[t]
      BY <1>1, <2>1, <2>3 DEF WriteHeader, Inv, TypeOK, PendingIsUnknown
    <3> QED
      BY <3>1 DEF Live
  <2>4. CASE Tick
    BY <2>1, <2>4, TickAges
  <2>5. ASSUME NEW r \in Requests, Handle(r), ~WriteHeader(r)
        PROVE  NoneRevived
    BY <2>2, <2>5 DEF Handle, Load, HandleApi, RejectLogin, AcceptLogin, Logout
  <2>6. CASE Sweep \/ Restart
    BY <2>2, <2>6 DEF Sweep, Restart
  <2>7. ASSUME NEW r \in Requests, NEW k \in Kinds, NEW t \in given \cup {NoToken},
               Receive(r, k, t)
        PROVE  NoneRevived
    BY <2>2, <2>7 DEF Receive
  <2> QED
    BY <1>1, <2>3, <2>4, <2>5, <2>6, <2>7 DEF Next
<1>2. Inv /\ [Next]_vars => [NoneRevived]_vars
  BY <1>1
<1> QED
  BY <1>2, Invariance, PTL DEF Spec, RevokedForGood

-----------------------------------------------------------------------------
(* Sessions implements TokenLifecycle: what each action is up there.       *)

LEMMA InitRefines == Init => Lifecycle!Init
BY DEF Init, Lifecycle!Init, Phase, Holder, Admitted, NewSessionData

LEMMA ReceiveRefines ==
  ASSUME Inv, NEW r \in Requests, NEW k \in Kinds, NEW t \in given \cup {NoToken},
         Receive(r, k, t)
  PROVE  UNCHANGED Lifecycle!vars
<1>1. data[r].sess = NoSession
  BY DEF Receive, Inv, LoadedIsPresented, DataFollowsRequest, NewSessionData
<1>2. Admitted' = Admitted
  BY <1>1 DEF Receive, Inv, TypeOK, Admitted
<1>3. Phase' = Phase /\ Holder' = Holder
  BY DEF Receive, Phase, Holder, Live
<1> QED
  BY <1>2, <1>3 DEF Lifecycle!vars

LEMMA LoadRefines ==
  ASSUME Inv, NEW r \in Requests, Load(r)
  PROVE  \/ UNCHANGED Lifecycle!vars
         \/ \E t \in Tokens : Lifecycle!Admit(r, t)
<1>1. Phase' = Phase /\ Holder' = Holder
  BY DEF Load, Phase, Holder, Live
<1>2. /\ data[r].sess = NoSession
      /\ \A q \in Requests : data'[q] = IF q = r THEN LoadedData(presented[r])
                                                ELSE data[q]
      /\ kind' = kind
  BY DEF Load, Inv, TypeOK, LoadedIsPresented, DataFollowsRequest, NewSessionData
<1>3. CASE kind[r] = "api" /\ presented[r] # NoToken /\ Live(presented[r])
  <2>1. presented[r] \in Tokens /\ presented[r] \in given
    BY <1>3 DEF Inv, TypeOK, OnlyGivenIsKnown
  <2>2. Phase[presented[r]] = "live" /\ Holder[presented[r]] = store[presented[r]].sess
    BY <2>1, <1>3 DEF Phase, Holder
  <2>3. Admitted[r] = NoSession
    BY <1>2 DEF Admitted
  <2>4. LoadedData(presented[r]).sess = Holder[presented[r]]
    BY <1>3, <2>2 DEF LoadedData
  <2>5. Admitted' = [Admitted EXCEPT ![r] = Holder[presented[r]]]
    BY <1>2, <1>3, <2>4 DEF Admitted
  <2> QED
    BY <1>1, <2>1, <2>2, <2>3, <2>5 DEF Lifecycle!Admit
<1>4. CASE ~(kind[r] = "api" /\ presented[r] # NoToken /\ Live(presented[r]))
  <2>1. Admitted' = Admitted
    BY <1>2, <1>4 DEF Admitted, LoadedData, NewSessionData
  <2> QED
    BY <1>1, <2>1 DEF Lifecycle!vars
<1> QED
  BY <1>3, <1>4

LEMMA UnchangedDataRefines ==
  ASSUME NEW r \in Requests, HandleApi(r) \/ RejectLogin(r)
  PROVE  UNCHANGED Lifecycle!vars
BY DEF HandleApi, RejectLogin, Phase, Holder, Admitted, Live, Lifecycle!vars

(* Deleting a loaded token from the store ends it.                         *)
LEMMA DeleteRefines ==
  ASSUME Inv, NEW r \in Requests, pc[r] = "loaded", kind[r] # "api",
         NEW d, data' = [data EXCEPT ![r] = d],
         store' = [u \in Tokens |-> IF u = data[r].token THEN Absent ELSE store[u]],
         UNCHANGED <<given, kind>>
  PROVE  Lifecycle!End({data[r].token} \cap Tokens)
<1>1. data[r].token \in Tokens => data[r].token \in given
  BY SessionsAssumption
  DEF Inv, TypeOK, LoadedIsPresented, DataFollowsRequest, OnlyGivenIsKnown
<1>2. Admitted' = Admitted
  BY DEF Inv, TypeOK, Admitted
<1>3. Phase' = [t \in Tokens |-> IF t \in {data[r].token} \cap Tokens THEN "ended"
                                                                   ELSE Phase[t]]
  BY <1>1 DEF Inv, TypeOK, Phase, Live
<1>4. Holder' = [t \in Tokens |-> IF t \in {data[r].token} \cap Tokens THEN NoSession
                                                                    ELSE Holder[t]]
  BY <1>1 DEF Inv, TypeOK, Holder, Live
<1> QED
  BY <1>2, <1>3, <1>4 DEF Lifecycle!End

LEMMA WriteHeaderRefines ==
  ASSUME Inv, NEW r \in Requests, WriteHeader(r)
  PROVE  \/ \E t \in Tokens, p \in Principals : Lifecycle!Issue(t, p)
         \/ \E S \in SUBSET Tokens : Lifecycle!End(S)
         \/ Lifecycle!Release(r)
<1> DEFINE t == data[r].token
<1>1. CASE data[r].status # "Modified"
  <2>1. Phase' = Phase /\ Holder' = Holder
    BY <1>1 DEF WriteHeader, Phase, Holder, Live
  <2>2. Admitted' = [Admitted EXCEPT ![r] = NoSession]
    BY DEF WriteHeader, Inv, TypeOK, Admitted, NewSessionData
  <2> QED
    BY <2>1, <2>2 DEF Lifecycle!Release
<1>2. CASE data[r].status = "Modified"
  <2>1. /\ t \in Tokens /\ t \notin given
        /\ data[r].sess \in Principals /\ data[r].left \in 0..TTL
        /\ kind[r] = "login"
    BY <1>2 DEF Inv, TypeOK, PendingIsUnknown, SessionData
  <2>2. /\ given' = given \cup {t}
        /\ \A u \in Tokens : store'[u] = IF u = t THEN [sess |-> data[r].sess,
                                                      left |-> data[r].left]
                                                ELSE store[u]
    BY <1>2, <2>1 DEF WriteHeader, Inv, TypeOK
  <2>3. Admitted' = Admitted
    BY <2>1 DEF WriteHeader, Inv, TypeOK, Admitted
  <2>4. Phase[t] = "unused"
    BY <2>1 DEF Phase
  <2>5. [sess |-> data[r].sess, left |-> data[r].left] # Absent
    BY <2>1, SessionsAssumption DEF SessionItems
  <2>6. CASE data[r].left > 0
    <3>1. \A u \in Tokens : Live(u)' <=> u = t \/ Live(u)
      BY <2>2, <2>5, <2>6 DEF Live
    <3>2. store'[t].sess = data[r].sess
      BY <2>1, <2>2
    <3> HIDE DEF t
    <3>3. Phase' = [Phase EXCEPT ![t] = "live"]
      BY <2>1, <2>2, <3>1 DEF Phase
    <3>4. Holder' = [Holder EXCEPT ![t] = data[r].sess]
      BY <2>1, <2>2, <3>1, <3>2 DEF Holder
    <3> QED
      BY <2>1, <2>3, <2>4, <3>3, <3>4 DEF Lifecycle!Issue
  <2>7. CASE ~(data[r].left > 0)
    <3>1. Phase' = [u \in Tokens |-> IF u \in {t} THEN "ended" ELSE Phase[u]]
      BY <2>1, <2>2, <2>7 DEF Phase, Live
    <3>2. Holder' = [u \in Tokens |-> IF u \in {t} THEN NoSession ELSE Holder[u]]
      BY <2>1, <2>2, <2>7 DEF Holder, Live
    <3>3. Lifecycle!End({t})
      BY <2>3, <3>1, <3>2 DEF Lifecycle!End
    <3> QED
      BY <2>1, <3>3
  <2> QED
    BY <2>6, <2>7
<1> QED
  BY <1>1, <1>2

LEMMA TickRefines ==
  ASSUME Inv, Tick
  PROVE  \E S \in SUBSET Tokens : Lifecycle!End(S)
<1> DEFINE S == {t \in given : ~Live(t)'}
<1>1. /\ \A t \in Tokens : store[t] # Absent =>
           store'[t] # Absent /\ store'[t].sess = store[t].sess
      /\ \A t \in Tokens : Live(t)' => Live(t)
  BY TickAges DEF Inv
<1>2. given \subseteq Tokens /\ given' = given /\ kind' = kind
  BY DEF Inv, TypeOK, Tick
<1>3. \A q \in Requests : data'[q].sess = data[q].sess
  BY DEF Inv, TypeOK, SessionData, Tick
<1>4. Admitted' = Admitted
  BY <1>2, <1>3 DEF Admitted
<1>5. Phase' = [t \in Tokens |-> IF t \in S THEN "ended" ELSE Phase[t]]
  BY <1>1, <1>2 DEF Phase
<1>6. Holder' = [t \in Tokens |-> IF t \in S THEN NoSession ELSE Holder[t]]
  BY <1>1, <1>2 DEF Holder, Live
<1>7. Lifecycle!End(S)
  BY <1>4, <1>5, <1>6 DEF Lifecycle!End
<1> QED
  BY <1>2, <1>7

LEMMA SweepRefines ==
  ASSUME Inv, Sweep
  PROVE  UNCHANGED Lifecycle!vars
<1>1. Phase' = Phase
  BY DEF Sweep, Phase, Live
<1>2. Holder' = Holder
  BY DEF Sweep, Holder, Live
<1> QED
  BY <1>1, <1>2 DEF Sweep, Admitted, Lifecycle!vars

LEMMA RestartRefines ==
  ASSUME Inv, Restart
  PROVE  Lifecycle!Reset
<1>1. Phase' = [t \in Tokens |-> IF Phase[t] = "unused" THEN "unused" ELSE "ended"]
  BY DEF Restart, Phase, Live
<1>2. Holder' = [t \in Tokens |-> NoSession]
  BY DEF Restart, Holder, Live
<1>3. Admitted' = [r \in Requests |-> NoSession]
  BY DEF Restart, Admitted, NewSessionData
<1> QED
  BY <1>1, <1>2, <1>3 DEF Lifecycle!Reset

(* Every behaviour of the session layer, with its interleaved requests,    *)
(* its write-back and its restarts, is one of TokenLifecycle: a token is   *)
(* given out once, is bound to one principal, and once logged out, renewed,*)
(* expired or lost it admits no request again.                             *)
THEOREM Refinement == Spec => LifecycleSpec
<1>1. Init => Lifecycle!Init
  BY InitRefines
<1>2. ASSUME Inv, [Next]_vars
      PROVE  [Lifecycle!Next]_(Lifecycle!vars)
  <2>1. CASE UNCHANGED vars
    BY <2>1 DEF vars, Phase, Holder, Admitted, Live, Lifecycle!vars
  <2>2. ASSUME NEW r \in Requests, NEW k \in Kinds, NEW t \in given \cup {NoToken},
               Receive(r, k, t)
        PROVE  UNCHANGED Lifecycle!vars
    BY <1>2, <2>2, ReceiveRefines
  <2>3. ASSUME NEW r \in Requests, Handle(r)
        PROVE  [Lifecycle!Next]_(Lifecycle!vars)
    <3>1. CASE Load(r)
      BY <1>2, <3>1, LoadRefines DEF Lifecycle!Next
    <3>2. CASE HandleApi(r) \/ RejectLogin(r)
      BY <3>2, UnchangedDataRefines
    <3>3. ASSUME NEW p \in Principals, NEW t \in Tokens, AcceptLogin(r, p, t)
          PROVE  Lifecycle!Next
      <4>1. Lifecycle!End({data[r].token} \cap Tokens)
        BY <1>2, <3>3, DeleteRefines DEF AcceptLogin
      <4> QED
        BY <4>1 DEF Lifecycle!Next
    <3>4. CASE Logout(r)
      <4>1. Lifecycle!End({data[r].token} \cap Tokens)
        BY <1>2, <3>4, DeleteRefines DEF Logout
      <4> QED
        BY <4>1 DEF Lifecycle!Next
    <3>5. CASE WriteHeader(r)
      BY <1>2, <3>5, WriteHeaderRefines DEF Lifecycle!Next
    <3> QED
      BY <2>3, <3>1, <3>2, <3>3, <3>4, <3>5 DEF Handle
  <2>4. CASE Tick
    BY <1>2, <2>4, TickRefines DEF Lifecycle!Next
  <2>5. CASE Sweep
    BY <1>2, <2>5, SweepRefines
  <2>6. CASE Restart
    BY <1>2, <2>6, RestartRefines DEF Lifecycle!Next
  <2> QED
    BY <1>2, <2>1, <2>2, <2>3, <2>4, <2>5, <2>6 DEF Next
<1> QED
  BY <1>1, <1>2, Invariance, PTL DEF Spec, LifecycleSpec, Lifecycle!Spec
=============================================================================
