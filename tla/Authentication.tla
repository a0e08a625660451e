--------------------------- MODULE Authentication ---------------------------
(***************************************************************************)
(* What a login attempt promises, without connections, exchanges, loops    *)
(* and orders: the directory vouches for the user, names the groups, and   *)
(* the attempt gives exactly what the set of them entitles to.  Only an    *)
(* attempt without a name to bind with learns the groups unvouched.  It    *)
(* denies for two reasons only: an exchange failed before the groups were  *)
(* known, or none of them entitles to anything.                            *)
(***************************************************************************)
CONSTANTS
  Groups,               \* what a user can be a member of
  Qualifies(_),         \* does a group entitle to anything?
  EntryOf(_),           \* to what
  MorePermissive(_, _), \* the order of what groups entitle to
  NoUser                \* nobody

VARIABLES
  phase,    \* "asking", "judging", "granted" or "denied"
  nameless, \* has the attempt no name to bind with?
  vouched,  \* has the directory taken the password of this attempt?
  member,   \* the groups of the user, while they are judged
  rights,   \* what a granted attempt gives
  user      \* the one entry that stands for the user

vars == <<phase, nameless, vouched, member, rights, user>>

Init ==
  /\ phase = "asking"
  /\ nameless \in BOOLEAN
  /\ vouched = FALSE
  /\ member = {}
  /\ rights = {}
  /\ user = NoUser

Vouch ==
  /\ phase = "asking"
  /\ ~nameless
  /\ vouched' = TRUE
  /\ UNCHANGED <<phase, nameless, member, rights, user>>

Learn ==
  /\ phase = "asking"
  /\ vouched \/ nameless
  /\ phase' = "judging"
  /\ member' \in SUBSET Groups
  /\ UNCHANGED <<nameless, vouched, rights, user>>

Fail ==
  /\ phase = "asking"
  /\ phase' = "denied"
  /\ UNCHANGED <<nameless, vouched, member, rights, user>>

Entitled == {EntryOf(group) : group \in {g \in member : Qualifies(g)}}

Judge ==
  /\ phase = "judging"
  /\ member' = {}
  /\ rights' = Entitled
  /\ \/ /\ Entitled = {}
        /\ phase' = "denied"
        /\ user' = NoUser
     \/ /\ phase' = "granted"
        /\ user' \in Entitled
        /\ \A entry \in Entitled : ~MorePermissive(entry, user')
  /\ UNCHANGED <<nameless, vouched>>

Again ==
  /\ phase \in {"granted", "denied"}
  /\ phase' = "asking"
  /\ nameless' \in BOOLEAN
  /\ vouched' = FALSE
  /\ member' = {}
  /\ rights' = {}
  /\ user' = NoUser

Next == Vouch \/ Learn \/ Fail \/ Judge \/ Again

Spec == Init /\ [][Next]_vars
=============================================================================
