--------------------------- MODULE TokenLifecycle ---------------------------
(***************************************************************************)
(* What the session layer promises, without cookies, store or clock: a     *)
(* token is given out once, belongs to one principal while it lives, and   *)
(* once it has ended it never admits a request again.                      *)
(***************************************************************************)
CONSTANTS
  Tokens,      \* the values a session token can take
  Requests,    \* the HTTP requests in flight
  Principals,  \* a user with the access list the directory returned
  NoSession    \* no principal

VARIABLES
  phase,     \* phase[t]: "unused", "live" or "ended"
  holder,    \* holder[t]: the principal a live token stands for
  admitted   \* admitted[r]: the principal request r is served as

vars == <<phase, holder, admitted>>

Init ==
  /\ phase = [t \in Tokens |-> "unused"]
  /\ holder = [t \in Tokens |-> NoSession]
  /\ admitted = [r \in Requests |-> NoSession]

(* A login gives out a token nobody has seen.                              *)
Issue(t, p) ==
  /\ phase[t] = "unused"
  /\ phase' = [phase EXCEPT ![t] = "live"]
  /\ holder' = [holder EXCEPT ![t] = p]
  /\ UNCHANGED admitted

(* Logout, the renewal of a login and the lifetime end tokens; requests    *)
(* already admitted go on with what they were admitted as.                 *)
End(S) ==
  /\ phase' = [t \in Tokens |-> IF t \in S THEN "ended" ELSE phase[t]]
  /\ holder' = [t \in Tokens |-> IF t \in S THEN NoSession ELSE holder[t]]
  /\ UNCHANGED admitted

(* A request is admitted as the holder of a token that is live right now.  *)
Admit(r, t) ==
  /\ phase[t] = "live"
  /\ admitted[r] = NoSession
  /\ admitted' = [admitted EXCEPT ![r] = holder[t]]
  /\ UNCHANGED <<phase, holder>>

Release(r) ==
  /\ admitted' = [admitted EXCEPT ![r] = NoSession]
  /\ UNCHANGED <<phase, holder>>

(* A restart forgets every session and every request.                      *)
Reset ==
  /\ phase' = [t \in Tokens |-> IF phase[t] = "unused" THEN "unused" ELSE "ended"]
  /\ holder' = [t \in Tokens |-> NoSession]
  /\ admitted' = [r \in Requests |-> NoSession]

Next ==
  \/ \E t \in Tokens, p \in Principals : Issue(t, p)
  \/ \E S \in SUBSET Tokens : End(S)
  \/ \E r \in Requests, t \in Tokens : Admit(r, t)
  \/ \E r \in Requests : Release(r)
  \/ Reset

Spec == Init /\ [][Next]_vars
=============================================================================
