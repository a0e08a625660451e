------------------------------ MODULE LdapLogin ------------------------------
(***************************************************************************)
(* ldapAuthenticateAccess of ldap.go: dial the directory, bind as the      *)
(* user, search the user's entry, and turn its groups into an access list, *)
(* one group per iteration of accessFromGroups.  The directory is outside  *)
(* the program: each exchange with it fails or answers as it likes, and    *)
(* the groups it returns are any list of GroupLists.                       *)
(***************************************************************************)
EXTENDS AccessControl, Naturals

CONSTANTS
  GroupLists,      \* the values of the group attribute, sequences of GroupDNs
  StartTLS,        \* LDAP_STARTTLS on an ldap:// URL
  UserMailDomain,  \* is LDAP_USER_DOMAIN set?
  NoUser           \* the nil *User

ASSUME LdapAssumption ==
  /\ GroupLists \subseteq Seq(GroupDNs)
  /\ StartTLS \in BOOLEAN
  /\ UserMailDomain \in BOOLEAN
  /\ NoUser \notin AccessEntries

VARIABLES
  pc,        \* the step the attempt is at
  username,  \* how the user name was typed: "mail", "plain", or ""
  conn,      \* the connection: "none", "open" or "closed"
  bound,     \* has the directory accepted the password on this connection?
  groups,    \* the groups of the user's entry, once searched
  next,      \* the index of the group the loop is at
  access,    \* the access list built so far
  selected   \* the most permissive candidate so far

vars == <<pc, username, conn, bound, groups, next, access, selected>>

TypeOK ==
  /\ pc \in {"dial", "starttls", "bind", "search", "loop", "accepted", "rejected"}
  /\ username \in {"mail", "plain", ""}
  /\ conn \in {"none", "open", "closed"}
  /\ bound \in BOOLEAN
  /\ groups \in Seq(GroupDNs)
  /\ next \in Nat \ {0}
  /\ access \in Seq(AccessEntries)
  /\ selected \in AccessEntries \cup {NoUser}

Init ==
  /\ pc = "dial"
  /\ username \in {"mail", "plain", ""}
  /\ conn = "none"
  /\ bound = FALSE
  /\ groups = <<>>
  /\ next = 1
  /\ access = <<>>
  /\ selected = NoUser

-----------------------------------------------------------------------------
(* Every return after a successful dial runs the deferred conn.Close.      *)
Return(outcome) ==
  /\ pc' = outcome
  /\ conn' = IF conn = "open" THEN "closed" ELSE conn
  /\ UNCHANGED <<username, groups, next, access, selected>>

Dial ==
  /\ pc = "dial"
  /\ \/ /\ pc' = IF StartTLS THEN "starttls" ELSE "bind"
        /\ conn' = "open"
        /\ UNCHANGED <<username, groups, next, access, selected>>
     \/ Return("rejected")
  /\ UNCHANGED bound

(* Mutant: dialLDAP forgets the connection whose StartTLS failed.          *)
NegotiateTLSUnclosed ==
  /\ pc = "starttls"
  /\ pc' \in {"bind", "rejected"}
  /\ UNCHANGED <<username, conn, bound, groups, next, access, selected>>

(* dialLDAP closes the connection itself when StartTLS fails.              *)
NegotiateTLS ==
  /\ pc = "starttls"
  /\ \/ /\ pc' = "bind"
        /\ UNCHANGED <<username, conn, groups, next, access, selected>>
     \/ Return("rejected")
  /\ UNCHANGED bound

(* The bind id is the user name completed to a mail address.  An empty id  *)
(* is skipped by the loop, which then leaves bindErr nil.                  *)
BindIdEmpty == username = "" /\ ~UserMailDomain

(* Mutant: the error of the last bind is not looked at.                    *)
BindErrorIgnored ==
  /\ pc = "bind"
  /\ pc' = "search"
  /\ bound' \in BOOLEAN
  /\ UNCHANGED <<username, conn, groups, next, access, selected>>

Bind ==
  /\ pc = "bind"
  /\ \/ /\ pc' = "search"
        /\ bound' = ~BindIdEmpty
        /\ UNCHANGED <<username, conn, groups, next, access, selected>>
     \/ /\ ~BindIdEmpty
        /\ Return("rejected")
        /\ UNCHANGED bound

(* A failed search and an empty result both reject the attempt.            *)
Search ==
  /\ pc = "search"
  /\ \/ /\ pc' = "loop"
        /\ groups' \in GroupLists
        /\ UNCHANGED <<username, conn, next, access, selected>>
     \/ Return("rejected")
  /\ UNCHANGED bound

(* One iteration of accessFromGroups.                                      *)
Qualifies(dn) ==
  GroupNameFromDN(dn).prefixed /\ HasPermissionSuffix(GroupNameFromDN(dn))

EntryOf(dn) ==
  LET group == GroupNameFromDN(dn)
      perm  == PermissionsFromGroup(group)
  IN  [group         |-> group,
       namespace     |-> perm.namespace,
       pullOnly      |-> perm.pullOnly,
       deleteAllowed |-> perm.deleteAllowed]

(* Mutant: the last of several equals is kept.                             *)
ReplacesEqual(candidate) ==
  \/ selected = NoUser
  \/ ~MorePermissive(selected, candidate)

Replaces(candidate) ==
  \/ selected = NoUser
  \/ MorePermissive(candidate, selected)

(* Mutant: a group is listed only if it improves on the candidate.         *)
ConsiderGroupIfBetter ==
  /\ pc = "loop"
  /\ next <= Len(groups)
  /\ next' = next + 1
  /\ LET dn == groups[next]
     IN  IF Qualifies(dn) /\ Replaces(EntryOf(dn))
         THEN /\ access' = Append(access, EntryOf(dn))
              /\ selected' = EntryOf(dn)
         ELSE UNCHANGED <<access, selected>>
  /\ UNCHANGED <<pc, username, conn, bound, groups>>

ConsiderGroup ==
  /\ pc = "loop"
  /\ next <= Len(groups)
  /\ next' = next + 1
  /\ LET dn == groups[next]
     IN  IF Qualifies(dn)
         THEN /\ access' = Append(access, EntryOf(dn))
              /\ selected' = IF Replaces(EntryOf(dn)) THEN EntryOf(dn)
                                                      ELSE selected
         ELSE UNCHANGED <<access, selected>>
  /\ UNCHANGED <<pc, username, conn, bound, groups>>

(* Mutant: a group that gives no right fails the whole login.              *)
ConcludeAtIgnored ==
  /\ pc = "loop"
  /\ \/ /\ next > Len(groups)
        /\ Return(IF selected = NoUser THEN "rejected" ELSE "accepted")
     \/ /\ next <= Len(groups) /\ ~Qualifies(groups[next])
        /\ Return("rejected")
  /\ UNCHANGED bound

Conclude ==
  /\ pc = "loop"
  /\ next > Len(groups)
  /\ Return(IF selected = NoUser THEN "rejected" ELSE "accepted")
  /\ UNCHANGED bound

(* The next attempt starts from nothing.                                   *)
NewAttempt ==
  /\ pc \in {"accepted", "rejected"}
  /\ pc' = "dial"
  /\ username' \in {"mail", "plain", ""}
  /\ conn' = "none"
  /\ bound' = FALSE
  /\ groups' = <<>>
  /\ next' = 1
  /\ access' = <<>>
  /\ selected' = NoUser

Next ==
  \/ Dial
  \/ NegotiateTLS
  \/ Bind
  \/ Search
  \/ ConsiderGroup
  \/ Conclude
  \/ NewAttempt

Spec == Init /\ [][Next]_vars

-----------------------------------------------------------------------------
(* Properties.                                                             *)

(* An attempt that is over holds no connection: every early return of      *)
(* ldapAuthenticateAccess and of dialLDAP after a successful dial has      *)
(* closed it, whichever exchange with the directory failed.                *)
NoConnectionLeak ==
  pc \in {"accepted", "rejected"} => conn # "open"

(* An attempt that has a bind id is accepted only if the directory took    *)
(* the password on this very connection; the attempts without one, whose   *)
(* loop over the bind ids leaves bindErr nil, are exactly the others that  *)
(* reach the search.  Either way an accepted user has a qualifying group.  *)
AcceptedIsBound ==
  pc = "accepted" =>
    /\ bound <=> ~BindIdEmpty
    /\ \E i \in DOMAIN groups : Qualifies(groups[i])

(* The candidate kept by the loop is one of the entries, no entry is more  *)
(* permissive, and among equals it is the first: nil exactly while there   *)
(* is no entry, whatever the order in which the directory lists groups.    *)
SelectedIsStrongest ==
  IF access = <<>>
  THEN selected = NoUser
  ELSE \E i \in DOMAIN access :
         /\ selected = access[i]
         /\ \A j \in DOMAIN access : ~MorePermissive(access[j], access[i])
         /\ \A j \in 1..(i - 1) : MorePermissive(access[i], access[j])

(* What the groups give on a namespace, by the permission model of the     *)
(* README: any supported suffix reads, _rw and _rwd write, _rd and _rwd    *)
(* delete.                                                                 *)
GroupsGrant(namespace, suffixes) ==
  \E i \in DOMAIN groups :
    LET group == GroupNameFromDN(groups[i])
    IN  group.prefixed /\ group.base = namespace /\ group.suffix \in suffixes

RepositoryRequest(method, namespace) ==
  [method |-> method, path |-> "repository", namespace |-> namespace,
   encodedSeparator |-> FALSE, dotSegment |-> FALSE]

(* The proxy lets a method through exactly when some group of the accepted *)
(* user grants it: merging several groups of one namespace loses no right  *)
(* and invents none.                                                       *)
ProxyFollowsGroups ==
  pc = "accepted" =>
    \A ns \in Namespaces, method \in Methods :
      Authorize(access, RepositoryRequest(method, ns)) <=>
        GroupsGrant(ns, CASE method \in {"GET", "HEAD"} -> Suffixes
                          [] method = "DELETE"          -> {"_rwd", "_rd"}
                          [] OTHER -> {"_rwd", "_rw"})

(* The three deciders agree on every namespace: what the API lists and     *)
(* deletes is what the proxy reads and deletes, and the badge and delete   *)
(* button of the dashboard promise exactly what the servers will allow.    *)
DecidersAgree ==
  pc = "accepted" =>
    LET namespaces == NamespacesFromAccess(access)
        shown      == BuildNamespacePermissions(namespaces, access)
    IN  \A ns \in Namespaces :
          LET may(method) == Authorize(access, RepositoryRequest(method, ns))
          IN  /\ may("GET") <=> RequireNamespace(namespaces, ns)
              /\ may("GET") <=> ns \in DOMAIN shown
              /\ may("DELETE") <=> NamespaceDeleteAllowed(access, ns)
              /\ ns \in DOMAIN shown =>
                   PermissionKindFromFlags(shown[ns]) =
                     CASE may("PUT") /\ may("DELETE")   -> "rwd"
                       [] may("PUT") /\ ~may("DELETE")  -> "rw"
                       [] ~may("PUT") /\ may("DELETE")  -> "rd"
                       [] ~may("PUT") /\ ~may("DELETE") -> "r"

(* What the promise of Authentication calls a phase, the groups under      *)
(* judgement, and what an attempt gives.                                   *)
Phase == IF pc = "accepted" THEN "granted"
         ELSE IF pc = "rejected" THEN "denied"
         ELSE IF pc = "loop" THEN "judging" ELSE "asking"
Member == IF pc = "loop" THEN {groups[i] : i \in DOMAIN groups} ELSE {}
Rights == IF pc = "accepted" THEN Entries(access) ELSE {}
Person == IF pc = "accepted" THEN selected ELSE NoUser

Promise == INSTANCE Authentication
             WITH Groups <- GroupDNs,
                  phase <- Phase, nameless <- BindIdEmpty, vouched <- bound, member <- Member,
                  rights <- Rights, user <- Person

(* The exchanges with the directory and the loop over its answer implement *)
(* the promise of Authentication: an attempt gives what the set of groups  *)
(* gives, whatever their order, a user whose exchanges succeed and who has *)
(* a qualifying group is never rejected, and only an attempt without any   *)
(* bind id gets as far as its groups unvouched.                            *)
LoginSpec == Promise!Spec

-----------------------------------------------------------------------------
(* Why it holds: the access list is the image of the qualifying groups the *)
(* loop has passed, no more and no less.                                   *)

Passed == {groups[i] : i \in {j \in DOMAIN groups : j < next /\ Qualifies(groups[j])}}

AccessIsImage ==
  /\ Entries(access) = {EntryOf(dn) : dn \in Passed}
  /\ pc = "loop" => next <= Len(groups) + 1
  /\ pc = "accepted" => next > Len(groups) /\ selected # NoUser

NothingYet ==
  /\ pc \in {"dial", "starttls", "bind", "search"} => next = 1 /\ access = <<>>
  /\ pc \in {"dial", "starttls", "bind"} => bound = FALSE

BoundBeforeSearch ==
  pc \in {"search", "loop", "accepted"} => (bound <=> ~BindIdEmpty)

Inv ==
  /\ TypeOK
  /\ AccessIsImage
  /\ NothingYet
  /\ BoundBeforeSearch
  /\ NoConnectionLeak
  /\ SelectedIsStrongest
=============================================================================
