-------------------------- MODULE LdapLoginProofs --------------------------
(***************************************************************************)
(* What a login gives follows from the groups of the directory, for every  *)
(* list of groups; and the registry proxy, the JSON API and the dashboard  *)
(* read the same rights out of every access list.                          *)
(***************************************************************************)
EXTENDS LdapLogin, SequenceTheorems, TLAPS

(* The right suffixes, in the terms of permissionsFromGroup.               *)
LEMMA EntryOfGroup ==
  ASSUME NEW dn \in GroupDNs, Qualifies(dn)
  PROVE  LET group == GroupNameFromDN(dn)
         IN  /\ group \in GroupNames
             /\ EntryOf(dn) \in AccessEntries
             /\ EntryOf(dn).namespace = group.base
             /\ EntryOf(dn).pullOnly <=> group.suffix \in {"_rd", "_r"}
             /\ EntryOf(dn).deleteAllowed <=> group.suffix \in {"_rwd", "_rd"}
<1>1. GroupNameFromDN(dn) \in GroupNames
  BY DEF GroupDNs, GroupNames, GroupNameFromDN
<1> DEFINE group == GroupNameFromDN(dn)
<1>2. group.suffix \in Suffixes /\ group.base \in Namespaces \cup {NoNamespace}
  BY <1>1 DEF Qualifies, HasPermissionSuffix, GroupNames
<1>3. EntryOf(dn) = [group |-> group, namespace |-> group.base,
                     pullOnly |-> group.suffix \in {"_rd", "_r"},
                     deleteAllowed |-> group.suffix \in {"_rwd", "_rd"}]
  BY <1>2 DEF EntryOf, PermissionsFromGroup, HasPermissionSuffix
<1> DEFINE Result(p, d) == [group |-> group, namespace |-> group.base,
                            pullOnly |-> p, deleteAllowed |-> d]
<1>4. PICK p \in BOOLEAN, d \in BOOLEAN :
        /\ EntryOf(dn) = Result(p, d)
        /\ p <=> group.suffix \in {"_rd", "_r"}
        /\ d <=> group.suffix \in {"_rwd", "_rd"}
  <2>1. /\ (group.suffix \in {"_rd", "_r"}) \in BOOLEAN
        /\ (group.suffix \in {"_rwd", "_rd"}) \in BOOLEAN
    OBVIOUS
  <2>2. EntryOf(dn) = Result(group.suffix \in {"_rd", "_r"}, group.suffix \in {"_rwd", "_rd"})
    BY <1>3
  <2> QED
    BY <2>1, <2>2, Zenon
<1> QED
  BY <1>1, <1>2, <1>4 DEF AccessEntries

(* morePermissive is a strict order whose incomparable entries have equal  *)
(* rights: irreflexive, transitive, and so for its complement.             *)
LEMMA MorePermissiveOrder ==
  ASSUME NEW a \in AccessEntries, NEW b \in AccessEntries, NEW c \in AccessEntries
  PROVE  /\ ~MorePermissive(a, a)
         /\ MorePermissive(a, b) => ~MorePermissive(b, a)
         /\ MorePermissive(a, b) /\ MorePermissive(b, c) => MorePermissive(a, c)
         /\ ~MorePermissive(a, b) /\ ~MorePermissive(b, c) => ~MorePermissive(a, c)
BY DEF MorePermissive, AccessEntries

-----------------------------------------------------------------------------
LEMMA InitInv == Init => Inv
<1> SUFFICES ASSUME Init PROVE Inv
  OBVIOUS
<1>1. /\ groups = <<>> /\ groups \in Seq(GroupDNs)
      /\ access = <<>> /\ access \in Seq(AccessEntries)
  BY EmptySeq DEF Init
<1>2. Entries(access) = {}
  BY <1>1 DEF Entries
<1>3. Passed = {}
  BY <1>1 DEF Passed
<1>4. TypeOK
  <2>1. /\ pc = "dial" /\ username \in {"mail", "plain", ""}
        /\ conn = "none" /\ selected = NoUser
    BY DEF Init
  <2>3. bound \in BOOLEAN
    BY Zenon DEF Init
  <2>4. next \in Nat \ {0}
    <3>1. next = 1
      BY DEF Init
    <3>2. 1 \in Nat \ {0}
      OBVIOUS
    <3> QED
      BY <3>1, <3>2, Zenon
  <2>2. groups \in Seq(GroupDNs) /\ access \in Seq(AccessEntries)
    BY <1>1
  <2> QED
    BY <2>1, <2>2, <2>3, <2>4 DEF TypeOK
<1>5. AccessIsImage
  BY <1>2, <1>3 DEF Init, AccessIsImage
<1> QED
  BY <1>1, <1>4, <1>5
  DEF Init, Inv, NothingYet, BoundBeforeSearch, NoConnectionLeak, SelectedIsStrongest

(* A step that does not touch the loop's state.                            *)
LEMMA ExchangeInv ==
  ASSUME Inv, Dial \/ NegotiateTLS \/ Bind \/ Conclude
  PROVE  Inv'
<1>1. UNCHANGED <<username, groups, next, access, selected>>
  BY DEF Dial, NegotiateTLS, Bind, Conclude, Return
<1>2. TypeOK'
  BY LdapAssumption
  DEF Inv, TypeOK, Dial, NegotiateTLS, Bind, Conclude, Return, BindIdEmpty
<1>3. AccessIsImage'
  <2>1. Passed' = Passed /\ Entries(access)' = Entries(access)
    BY <1>1 DEF Passed, Entries
  <2>2. pc' # "loop" /\ (pc' = "accepted" => next > Len(groups) /\ selected # NoUser)
    BY DEF Dial, NegotiateTLS, Bind, Conclude, Return
  <2> QED
    BY <1>1, <2>1, <2>2 DEF Inv, AccessIsImage
<1>4. BoundBeforeSearch'
  <2>1. BindIdEmpty' <=> BindIdEmpty
    BY <1>1 DEF BindIdEmpty
  <2>2. CASE Bind
    <3>1. pc' = "rejected" \/ bound' = ~BindIdEmpty
      BY <2>2, Zenon DEF Bind, Return
    <3>2. pc' = "rejected" \/ (bound' <=> ~BindIdEmpty)
      BY <3>1, Zenon
    <3> QED
      BY <2>1, <3>2 DEF BoundBeforeSearch
  <2>3. CASE Dial \/ NegotiateTLS
    BY <2>3 DEF BoundBeforeSearch, Dial, NegotiateTLS, Return
  <2>4. CASE Conclude
    BY <2>1, <2>4 DEF Inv, BoundBeforeSearch, Conclude
  <2> QED
    BY <2>2, <2>3, <2>4
<1>5. NoConnectionLeak'
  BY DEF Inv, NoConnectionLeak, TypeOK, Dial, NegotiateTLS, Bind, Conclude, Return
<1>6. SelectedIsStrongest'
  BY <1>1 DEF Inv, SelectedIsStrongest
<1>7. NothingYet'
  BY <1>1 DEF Inv, NothingYet, Dial, NegotiateTLS, Bind, Conclude, Return
<1> QED
  BY <1>2, <1>3, <1>4, <1>5, <1>6, <1>7 DEF Inv

LEMMA SearchInv == ASSUME Inv, Search PROVE Inv'
<1>1. CASE Return("rejected") /\ UNCHANGED bound
  <2>1. UNCHANGED <<username, bound, groups, next, access, selected>> /\ pc' = "rejected"
    BY <1>1 DEF Return
  <2>2. TypeOK'
    BY <1>1, <2>1 DEF Inv, TypeOK, Return
  <2>3. Passed' = Passed /\ Entries(access)' = Entries(access)
    BY <2>1 DEF Passed, Entries
  <2>4. NoConnectionLeak'
    BY <1>1 DEF Inv, NoConnectionLeak, TypeOK, Return
  <2> QED
    BY <2>1, <2>2, <2>3, <2>4
    DEF Inv, AccessIsImage, NothingYet, BoundBeforeSearch, SelectedIsStrongest
<1>2. CASE pc' = "loop" /\ groups' \in GroupLists
             /\ UNCHANGED <<username, conn, bound, next, access, selected>>
  <2>1. next = 1 /\ access = <<>> /\ selected = NoUser
    BY DEF Inv, Search, NothingYet, SelectedIsStrongest
  <2>2. TypeOK'
    BY <1>2, LdapAssumption DEF Inv, TypeOK
  <2>3. Passed' = {} /\ Entries(access)' = {}
    <3>1. groups' \in Seq(GroupDNs)
      BY <2>2 DEF TypeOK
    <3>2. \A j \in DOMAIN groups' : ~(j < next')
      BY <1>2, <2>1, <3>1
    <3>3. Passed' = {}
      BY <3>2 DEF Passed
    <3>4. DOMAIN access' = {}
      BY <1>2, <2>1
    <3> QED
      BY <3>3, <3>4 DEF Entries
  <2>4. AccessIsImage'
    <3>1. Len(groups') \in Nat
      <4>1. groups' \in Seq(GroupDNs)
        BY <2>2 DEF TypeOK
      <4> QED
        BY <4>1, LenProperties
    <3>2. next' <= Len(groups') + 1
      BY <1>2, <2>1, <3>1
    <3> QED
      BY <1>2, <2>3, <3>2 DEF AccessIsImage
  <2>5. BoundBeforeSearch'
    <3>1. BindIdEmpty' = BindIdEmpty /\ bound' = bound /\ pc = "search"
      BY <1>2 DEF BindIdEmpty, Search
    <3>2. bound <=> ~BindIdEmpty
      BY <3>1 DEF Inv, BoundBeforeSearch
    <3> QED
      BY <3>1, <3>2, Zenon DEF BoundBeforeSearch
  <2>6. NoConnectionLeak' /\ NothingYet' /\ SelectedIsStrongest'
    BY <1>2, <2>1 DEF NoConnectionLeak, NothingYet, SelectedIsStrongest
  <2> QED
    BY <2>2, <2>4, <2>5, <2>6 DEF Inv
<1> QED
  BY <1>1, <1>2 DEF Search

(* Appending an entry to the list keeps the candidate the strongest, and   *)
(* the first among equals.                                                 *)
First(list, best) ==
  \E i \in DOMAIN list :
    /\ best = list[i]
    /\ \A j \in DOMAIN list : ~MorePermissive(list[j], list[i])
    /\ \A j \in 1..(i - 1) : MorePermissive(list[i], list[j])

LEMMA Strongest ==
  ASSUME NEW list \in Seq(AccessEntries), NEW best \in AccessEntries \cup {NoUser},
         NEW e \in AccessEntries,
         IF list = <<>> THEN best = NoUser ELSE First(list, best)
  PROVE  First(Append(list, e), IF best = NoUser \/ MorePermissive(e, best) THEN e ELSE best)
<1> DEFINE longer == Append(list, e)
           kept   == IF best = NoUser \/ MorePermissive(e, best) THEN e ELSE best
           n      == Len(list)
<1>1. /\ n \in Nat
      /\ DOMAIN list = 1..n
      /\ DOMAIN longer = 1..(n + 1)
      /\ longer[n + 1] = e
      /\ \A j \in 1..n : longer[j] = list[j] /\ list[j] \in AccessEntries
  OBVIOUS
<1> SUFFICES First(longer, kept)
  OBVIOUS
<1> HIDE DEF longer
<1>2. CASE list = <<>>
  <2>1. n = 0 /\ best = NoUser
    BY <1>2
  <2>2. kept = longer[1] /\ DOMAIN longer = {1} /\ longer[1] = e
    BY <1>1, <2>1
  <2>3. ~MorePermissive(e, e)
    BY MorePermissiveOrder
  <2>4. 1..(1 - 1) = {}
    OBVIOUS
  <2> QED
    BY <2>2, <2>3, <2>4, Zenon DEF First
<1>3. CASE list # <<>>
  <2>1. PICK i \in 1..n :
          /\ best = list[i]
          /\ \A j \in 1..n : ~MorePermissive(list[j], list[i])
          /\ \A j \in 1..(i - 1) : MorePermissive(list[i], list[j])
    BY <1>1, <1>3 DEF First
  <2>2. best \in AccessEntries /\ best # NoUser
    BY <1>1, <2>1, LdapAssumption
  <2>3. CASE MorePermissive(e, best)
    <3>1. kept = e
      BY <2>3
    <3>2. \A j \in 1..n : MorePermissive(e, list[j]) /\ ~MorePermissive(list[j], e)
      BY <1>1, <2>1, <2>2, <2>3, MorePermissiveOrder
    <3>3. \A j \in 1..(n + 1) : ~MorePermissive(longer[j], e)
      <4> TAKE j \in 1..(n + 1)
      <4>1. CASE j = n + 1
        BY <1>1, <4>1, MorePermissiveOrder
      <4>2. CASE j # n + 1
        BY <1>1, <3>2, <4>2
      <4> QED
        BY <4>1, <4>2
    <3>4. n + 1 \in DOMAIN longer /\ \A j \in 1..((n + 1) - 1) : MorePermissive(e, longer[j])
      BY <1>1, <3>2
    <3> QED
      BY <1>1, <3>1, <3>3, <3>4 DEF First
  <2>4. CASE ~MorePermissive(e, best)
    <3>1. kept = longer[i]
      BY <1>1, <2>1, <2>2, <2>4
    <3>2. \A j \in 1..(n + 1) : ~MorePermissive(longer[j], longer[i])
      <4> TAKE j \in 1..(n + 1)
      <4>1. CASE j = n + 1
        BY <1>1, <2>1, <2>4, <4>1
      <4>2. CASE j # n + 1
        BY <1>1, <2>1, <4>2
      <4> QED
        BY <4>1, <4>2
    <3>3. i \in DOMAIN longer /\ \A j \in 1..(i - 1) : MorePermissive(longer[i], longer[j])
      BY <1>1, <2>1
    <3> QED
      BY <1>1, <3>1, <3>2, <3>3 DEF First
  <2> QED
    BY <2>3, <2>4
<1> QED
  BY <1>2, <1>3

LEMMA ConsiderGroupInv == ASSUME Inv, ConsiderGroup PROVE Inv'
<1> DEFINE dn == groups[next]
<1>1. /\ pc = "loop" /\ pc' = "loop" /\ next \in Nat \ {0} /\ next <= Len(groups)
      /\ next' = next + 1 /\ groups \in Seq(GroupDNs) /\ groups' = groups
      /\ UNCHANGED <<username, conn, bound>>
  BY DEF ConsiderGroup, Inv, TypeOK
<1>2. next \in DOMAIN groups /\ dn \in GroupDNs
  BY <1>1
<1>3. BoundBeforeSearch' /\ NoConnectionLeak' /\ NothingYet'
  BY <1>1 DEF Inv, BoundBeforeSearch, BindIdEmpty, NoConnectionLeak, NothingYet
<1>4. next' <= Len(groups') + 1 /\ next' \in Nat \ {0}
  <2>1. Len(groups) \in Nat
    BY <1>1
  <2> QED
    BY <1>1, <2>1
<1>5. \A j \in DOMAIN groups : j < next' <=> j < next \/ j = next
  BY <1>1
<1>6. CASE ~Qualifies(dn)
  <2>1. UNCHANGED <<access, selected>>
    BY <1>6 DEF ConsiderGroup
  <2>2. Passed' = Passed /\ Entries(access)' = Entries(access)
    BY <1>1, <1>5, <1>6, <2>1 DEF Passed, Entries
  <2>3. TypeOK'
    BY <1>1, <1>4, <2>1 DEF Inv, TypeOK
  <2>4. AccessIsImage'
    BY <1>1, <1>4, <2>2 DEF Inv, AccessIsImage
  <2> QED
    BY <1>3, <2>1, <2>3, <2>4 DEF Inv, SelectedIsStrongest
<1>7. CASE Qualifies(dn)
  <2> DEFINE e == EntryOf(dn)
  <2>1. /\ access' = Append(access, e)
        /\ selected' = IF selected = NoUser \/ MorePermissive(e, selected) THEN e ELSE selected
    BY <1>7 DEF ConsiderGroup, Replaces
  <2>2. e \in AccessEntries
    BY <1>2, <1>7, EntryOfGroup
  <2>3. access \in Seq(AccessEntries) /\ selected \in AccessEntries \cup {NoUser}
    BY DEF Inv, TypeOK
  <2> HIDE DEF e
  <2>4. access' \in Seq(AccessEntries) /\ selected' \in AccessEntries \cup {NoUser}
    BY <2>1, <2>2, <2>3
  <2>5. TypeOK'
    BY <1>1, <1>4, <2>4 DEF Inv, TypeOK
  <2>6. Passed' = Passed \cup {dn}
    BY <1>1, <1>2, <1>5, <1>7 DEF Passed
  <2>7. Entries(access)' = Entries(access) \cup {e}
    <3>1. /\ DOMAIN access' = 1..(Len(access) + 1) /\ DOMAIN access = 1..Len(access)
          /\ Len(access) \in Nat /\ access'[Len(access) + 1] = e
          /\ \A j \in 1..Len(access) : access'[j] = access[j]
      BY <2>1, <2>2, <2>3
    <3>2. DOMAIN access' = DOMAIN access \cup {Len(access) + 1}
      BY <3>1
    <3> QED
      BY <3>1, <3>2 DEF Entries
  <2>8. AccessIsImage'
    <3>1. {EntryOf(d) : d \in Passed'} = {EntryOf(d) : d \in Passed} \cup {EntryOf(dn)}
      BY <2>6
    <3>2. Entries(access)' = {EntryOf(d) : d \in Passed'}
      BY <2>7, <3>1 DEF Inv, AccessIsImage, e
    <3> QED
      BY <1>1, <1>4, <3>2 DEF AccessIsImage
  <2>9. SelectedIsStrongest'
    <3>1. access' # <<>>
      BY <2>1, <2>2, <2>3
    <3>2. IF access = <<>> THEN selected = NoUser ELSE First(access, selected)
      BY DEF Inv, SelectedIsStrongest, First
    <3>3. First(access', selected')
      BY <2>1, <2>2, <2>3, <3>2, Strongest
    <3> QED
      BY <3>1, <3>3 DEF SelectedIsStrongest, First
  <2> QED
    BY <1>3, <2>5, <2>8, <2>9 DEF Inv
<1> QED
  BY <1>6, <1>7

LEMMA NewAttemptInv == ASSUME NewAttempt PROVE Inv'
<1>1. /\ groups' = <<>> /\ groups' \in Seq(GroupDNs)
      /\ access' = <<>> /\ access' \in Seq(AccessEntries)
  BY EmptySeq DEF NewAttempt
<1>2. Entries(access)' = {} /\ Passed' = {}
  BY <1>1 DEF Entries, Passed
<1>3. TypeOK'
  <2>1. /\ pc' = "dial" /\ username' \in {"mail", "plain", ""} /\ conn' = "none"
        /\ selected' = NoUser
    BY DEF NewAttempt
  <2>3. bound' \in BOOLEAN
    BY Zenon DEF NewAttempt
  <2>4. next' \in Nat \ {0}
    <3>1. next' = 1
      BY DEF NewAttempt
    <3>2. 1 \in Nat \ {0}
      OBVIOUS
    <3> QED
      BY <3>1, <3>2, Zenon
  <2>2. groups' \in Seq(GroupDNs) /\ access' \in Seq(AccessEntries)
    BY <1>1
  <2> QED
    BY <2>1, <2>2, <2>3, <2>4 DEF TypeOK
<1>4. AccessIsImage'
  BY <1>2 DEF NewAttempt, AccessIsImage
<1> QED
  BY <1>1, <1>3, <1>4
  DEF NewAttempt, Inv, NothingYet, BoundBeforeSearch, NoConnectionLeak, SelectedIsStrongest

LEMMA StutterInv == ASSUME Inv, UNCHANGED vars PROVE Inv'
<1>1. Passed' = Passed /\ Entries(access)' = Entries(access)
  BY DEF vars, Passed, Entries
<1> QED
  BY <1>1 DEF vars, Inv, TypeOK, AccessIsImage, NothingYet, BoundBeforeSearch,
              BindIdEmpty, NoConnectionLeak, SelectedIsStrongest

(* The inductive invariant of a login attempt, whatever the directory      *)
(* answers: the access list is the image of the groups passed so far, and  *)
(* the candidate the strongest and first of it.                            *)
THEOREM Invariance == Spec => []Inv
<1>1. Inv /\ [Next]_vars => Inv'
  <2> SUFFICES ASSUME Inv, [Next]_vars PROVE Inv'
    OBVIOUS
  <2>1. CASE Dial \/ NegotiateTLS \/ Bind \/ Conclude
    BY <2>1, ExchangeInv
  <2>2. CASE Search
    BY <2>2, SearchInv
  <2>3. CASE ConsiderGroup
    BY <2>3, ConsiderGroupInv
  <2>4. CASE NewAttempt
    BY <2>4, NewAttemptInv
  <2>5. CASE UNCHANGED vars
    BY <2>5, StutterInv
  <2> QED
    BY <2>1, <2>2, <2>3, <2>4, <2>5 DEF Next
<1> QED
  BY InitInv, <1>1, PTL DEF Spec

(* The user a login settles on is the first of its strongest entries, and  *)
(* is nil exactly when no group qualifies.                                 *)
THEOREM StrongestSelected == Spec => []SelectedIsStrongest
<1>1. Inv => SelectedIsStrongest
  BY DEF Inv
<1> QED
  BY Invariance, <1>1, PTL

(* However an attempt ends, its connection to the directory is not open.   *)
THEOREM ConnectionsClosed == Spec => []NoConnectionLeak
<1>1. Inv => NoConnectionLeak
  BY DEF Inv
<1> QED
  BY Invariance, <1>1, PTL

-----------------------------------------------------------------------------
(* The groups and the list: what the accepted attempt's access list says.  *)
LEMMA AcceptedList ==
  ASSUME Inv, pc = "accepted"
  PROVE  /\ Entries(access) = {EntryOf(groups[i]) : i \in {j \in DOMAIN groups : Qualifies(groups[j])}}
         /\ access \in Seq(AccessEntries) /\ access # <<>>
         /\ \A i \in DOMAIN groups : groups[i] \in GroupDNs
<1>1. /\ groups \in Seq(GroupDNs) /\ next \in Nat /\ next > Len(groups)
      /\ selected # NoUser /\ access \in Seq(AccessEntries)
  BY DEF Inv, TypeOK, AccessIsImage
<1>2. \A j \in DOMAIN groups : j < next
  <2>1. Len(groups) \in Nat /\ DOMAIN groups = 1..Len(groups)
    BY <1>1, LenProperties
  <2> QED
    BY <1>1, <2>1
<1>3. Passed = {groups[i] : i \in {j \in DOMAIN groups : Qualifies(groups[j])}}
  BY <1>2 DEF Passed
<1>4. access # <<>>
  BY <1>1 DEF Inv, SelectedIsStrongest
<1>5. \A i \in DOMAIN groups : groups[i] \in GroupDNs
  BY <1>1
<1> QED
  BY <1>1, <1>3, <1>4, <1>5 DEF Inv, AccessIsImage

(* Nobody who has a bind id is accepted without a bind on this connection, *)
(* and nobody at all without a group that qualifies.                       *)
THEOREM AcceptedWereBound == Spec => []AcceptedIsBound
<1>1. Inv => AcceptedIsBound
  <2> SUFFICES ASSUME Inv, pc = "accepted"
               PROVE  (bound <=> ~BindIdEmpty) /\ \E i \in DOMAIN groups : Qualifies(groups[i])
    BY DEF AcceptedIsBound
  <2>1. bound <=> ~BindIdEmpty
    BY DEF Inv, BoundBeforeSearch
  <2>2. Entries(access) # {}
    <3>1. access \in Seq(AccessEntries) /\ access # <<>>
      BY AcceptedList
    <3>2. 1 \in DOMAIN access
      BY <3>1
    <3> QED
      BY <3>2 DEF Entries
  <2> QED
    BY <2>1, <2>2, AcceptedList
<1> QED
  BY Invariance, <1>1, PTL

-----------------------------------------------------------------------------
(* What each of the three deciders answers, for every access list.         *)

LEMMA ProxyRights ==
  ASSUME NEW list \in Seq(AccessEntries), NEW ns \in Namespaces, NEW method \in Methods
  PROVE  Authorize(list, RepositoryRequest(method, ns)) <=>
           \E e \in Entries(list) :
             /\ e.namespace = ns
             /\ \/ method \in {"GET", "HEAD"}
                \/ method = "DELETE" /\ e.deleteAllowed
                \/ method \notin {"GET", "HEAD", "DELETE"} /\ ~e.pullOnly
<1> DEFINE req      == RepositoryRequest(method, ns)
           matching == {e \in Entries(list) : e.namespace # NoNamespace /\ e.namespace = ns}
           perm     == NamespacePermissions(list, ns)
<1>1. ns # NoNamespace
  BY NoNamespaceAssumption
<1>2. /\ req.method = method /\ req.path = "repository" /\ req.namespace = ns
      /\ IsSafeRequestPath(req)
  BY DEF RepositoryRequest, IsSafeRequestPath
<1>3. /\ perm.ok <=> matching # {}
      /\ perm.pullOnly <=> \A e \in matching : e.pullOnly
      /\ perm.deleteAllowed <=> \E e \in matching : e.deleteAllowed
  BY Zenon DEF NamespacePermissions
<1>4. \A e : e \in matching <=> e \in Entries(list) /\ e.namespace = ns
  BY <1>1
<1>5. Authorize(list, req) <=>
        /\ perm.ok
        /\ \/ method \in {"GET", "HEAD"}
           \/ method = "DELETE" /\ perm.deleteAllowed
           \/ method \notin {"GET", "HEAD", "DELETE"} /\ ~perm.pullOnly
  BY <1>1, <1>2, Zenon DEF Authorize
<1> HIDE DEF matching, perm, req
<1>6. QED
  BY <1>3, <1>4, <1>5, Zenon DEF req

LEMMA DashboardRights ==
  ASSUME NEW list \in Seq(AccessEntries), NEW ns \in Namespaces,
         \E e \in Entries(list) : e.namespace = ns
  PROVE  LET perm == MergedPermission(list, ns)
         IN  /\ perm.pullOnly \in BOOLEAN /\ perm.deleteAllowed \in BOOLEAN
             /\ perm.pullOnly <=> ~\E e \in Entries(list) : e.namespace = ns /\ ~e.pullOnly
             /\ perm.deleteAllowed <=> \E e \in Entries(list) : e.namespace = ns /\ e.deleteAllowed
<1> DEFINE matching == {e \in Entries(list) : e.namespace = ns}
           pullOnly == matching # {} /\ \A e \in matching : e.pullOnly
           deleteAllowed == \E e \in matching : e.deleteAllowed
<1>1. /\ MergedPermission(list, ns).pullOnly = pullOnly
      /\ MergedPermission(list, ns).deleteAllowed = deleteAllowed
  BY Zenon DEF MergedPermission
<1>2. pullOnly \in BOOLEAN /\ deleteAllowed \in BOOLEAN
  OBVIOUS
<1>3. pullOnly <=> ~\E e \in Entries(list) : e.namespace = ns /\ ~e.pullOnly
  OBVIOUS
<1>4. deleteAllowed <=> \E e \in Entries(list) : e.namespace = ns /\ e.deleteAllowed
  OBVIOUS
<1> HIDE DEF pullOnly, deleteAllowed
<1> QED
  BY <1>1, <1>2, <1>3, <1>4, Zenon

(* A group more never takes a right away: what the proxy, the API and the  *)
(* dashboard allow under some entries of a user, they allow under any list *)
(* that has these entries and others.  (A merge in which the strictest     *)
(* entry of a namespace wins would not have it.)                           *)
THEOREM MoreGroupsMoreRights ==
  ASSUME NEW few \in Seq(AccessEntries), NEW many \in Seq(AccessEntries),
         Entries(few) \subseteq Entries(many), NEW ns \in Namespaces
  PROVE  /\ \A req \in ProxyRequests : Authorize(few, req) => Authorize(many, req)
         /\ RequireNamespace(NamespacesFromAccess(few), ns) =>
              RequireNamespace(NamespacesFromAccess(many), ns)
         /\ NamespaceDeleteAllowed(few, ns) => NamespaceDeleteAllowed(many, ns)
         /\ ns \in NamespacesFromAccess(few) =>
              /\ MergedPermission(many, ns).pullOnly => MergedPermission(few, ns).pullOnly
              /\ MergedPermission(few, ns).deleteAllowed =>
                   MergedPermission(many, ns).deleteAllowed
<1>1. ASSUME NEW req \in ProxyRequests, Authorize(few, req)
      PROVE  Authorize(many, req)
  <2> DEFINE a == NamespacePermissions(few, req.namespace)
             b == NamespacePermissions(many, req.namespace)
  <2>1. /\ a.ok => b.ok
        /\ b.pullOnly => a.pullOnly
        /\ a.deleteAllowed => b.deleteAllowed
    BY Zenon DEF NamespacePermissions
  <2> HIDE DEF a, b
  <2> QED
    BY <1>1, <2>1, Zenon DEF Authorize, a, b
<1>2. ns \in NamespacesFromAccess(few) => ns \in NamespacesFromAccess(many)
  BY DEF NamespacesFromAccess
<1>3. RequireNamespace(NamespacesFromAccess(few), ns) =>
        RequireNamespace(NamespacesFromAccess(many), ns)
  BY <1>2 DEF RequireNamespace, NamespaceAllowed
<1>4. NamespaceDeleteAllowed(few, ns) => NamespaceDeleteAllowed(many, ns)
  BY DEF NamespaceDeleteAllowed
<1>5. ASSUME ns \in NamespacesFromAccess(few)
      PROVE  /\ MergedPermission(many, ns).pullOnly => MergedPermission(few, ns).pullOnly
             /\ MergedPermission(few, ns).deleteAllowed =>
                  MergedPermission(many, ns).deleteAllowed
  <2>1. /\ \E e \in Entries(few) : e.namespace = ns
        /\ \E e \in Entries(many) : e.namespace = ns
    BY <1>2, <1>5 DEF NamespacesFromAccess
  <2> QED
    BY <2>1, DashboardRights
<1> QED
  BY <1>1, <1>3, <1>4, <1>5

(* The proxy, the JSON API and the dashboard never contradict each other   *)
(* on a namespace, whatever the access list.                               *)
THEOREM OneDecision == Spec => []DecidersAgree
<1>1. Inv => DecidersAgree
  <2> SUFFICES ASSUME Inv, pc = "accepted", NEW ns \in Namespaces
               PROVE  LET namespaces == NamespacesFromAccess(access)
                          shown == BuildNamespacePermissions(namespaces, access)
                          may(method) == Authorize(access, RepositoryRequest(method, ns))
                      IN  /\ may("GET") <=> RequireNamespace(namespaces, ns)
                          /\ may("GET") <=> ns \in DOMAIN shown
                          /\ may("DELETE") <=> NamespaceDeleteAllowed(access, ns)
                          /\ ns \in DOMAIN shown =>
                               PermissionKindFromFlags(shown[ns]) =
                                 CASE may("PUT") /\ may("DELETE")   -> "rwd"
                                   [] may("PUT") /\ ~may("DELETE")  -> "rw"
                                   [] ~may("PUT") /\ may("DELETE")  -> "rd"
                                   [] ~may("PUT") /\ ~may("DELETE") -> "r"
    BY DEF DecidersAgree
  <2> DEFINE may(method) == Authorize(access, RepositoryRequest(method, ns))
             namespaces  == NamespacesFromAccess(access)
             shown       == BuildNamespacePermissions(namespaces, access)
  <2>1. access \in Seq(AccessEntries) /\ ns # NoNamespace
    BY NoNamespaceAssumption DEF Inv, TypeOK
  <2>2. /\ may("GET") <=> \E e \in Entries(access) : e.namespace = ns
        /\ may("DELETE") <=> \E e \in Entries(access) : e.namespace = ns /\ e.deleteAllowed
        /\ may("PUT") <=> \E e \in Entries(access) : e.namespace = ns /\ ~e.pullOnly
    <3>1. "GET" \in Methods /\ "DELETE" \in Methods /\ "PUT" \in Methods
      BY DEF Methods
    <3> QED
      BY <2>1, <3>1, ProxyRights
  <2>3. ns \in namespaces <=> \E e \in Entries(access) : e.namespace = ns
    BY DEF NamespacesFromAccess
  <2>4. ns \in DOMAIN shown <=> ns \in namespaces
    BY <2>1 DEF BuildNamespacePermissions
  <2>5. may("GET") <=> RequireNamespace(namespaces, ns)
    BY <2>1, <2>2, <2>3 DEF RequireNamespace, NamespaceAllowed
  <2>6. may("DELETE") <=> NamespaceDeleteAllowed(access, ns)
    BY <2>2 DEF NamespaceDeleteAllowed
  <2>7. ASSUME ns \in DOMAIN shown
        PROVE  /\ shown[ns].pullOnly \in BOOLEAN /\ shown[ns].deleteAllowed \in BOOLEAN
               /\ shown[ns].pullOnly <=> ~may("PUT")
               /\ shown[ns].deleteAllowed <=> may("DELETE")
    <3>1. shown[ns] = MergedPermission(access, ns)
      BY <2>1, <2>4, <2>7 DEF BuildNamespacePermissions
    <3> QED
      BY <2>1, <2>2, <2>3, <2>4, <2>7, <3>1, DashboardRights
  <2> HIDE DEF may, namespaces, shown
  <2>8. ASSUME ns \in DOMAIN shown
        PROVE  PermissionKindFromFlags(shown[ns]) =
                 CASE may("PUT") /\ may("DELETE")   -> "rwd"
                   [] may("PUT") /\ ~may("DELETE")  -> "rw"
                   [] ~may("PUT") /\ may("DELETE")  -> "rd"
                   [] ~may("PUT") /\ ~may("DELETE") -> "r"
    BY <2>7, <2>8 DEF PermissionKindFromFlags
  <2> QED
    BY <2>2, <2>3, <2>4, <2>5, <2>6, <2>8 DEF may, namespaces, shown
<1> QED
  BY Invariance, <1>1, PTL

(* Merging the entries of a namespace loses no right a group gives and     *)
(* invents none.                                                           *)
THEOREM RightsFollowGroups == Spec => []ProxyFollowsGroups
<1>1. Inv => ProxyFollowsGroups
  <2> SUFFICES ASSUME Inv, pc = "accepted", NEW ns \in Namespaces, NEW method \in Methods
               PROVE  Authorize(access, RepositoryRequest(method, ns)) <=>
                        GroupsGrant(ns, CASE method \in {"GET", "HEAD"} -> Suffixes
                                          [] method = "DELETE"          -> {"_rwd", "_rd"}
                                          [] OTHER -> {"_rwd", "_rw"})
    BY DEF ProxyFollowsGroups
  <2> DEFINE granting == CASE method \in {"GET", "HEAD"} -> Suffixes
                           [] method = "DELETE"          -> {"_rwd", "_rd"}
                           [] OTHER -> {"_rwd", "_rw"}
             gives(e) == \/ method \in {"GET", "HEAD"}
                         \/ method = "DELETE" /\ e.deleteAllowed
                         \/ method \notin {"GET", "HEAD", "DELETE"} /\ ~e.pullOnly
             name(i) == GroupNameFromDN(groups[i])
  <2>1. Authorize(access, RepositoryRequest(method, ns)) <=>
          \E e \in Entries(access) : e.namespace = ns /\ gives(e)
    BY ProxyRights, AcceptedList
  <2>2. \A i \in DOMAIN groups : Qualifies(groups[i]) =>
          LET e == EntryOf(groups[i])
          IN  /\ e.namespace = name(i).base
              /\ gives(e) <=> name(i).suffix \in granting
    <3> SUFFICES ASSUME NEW i \in DOMAIN groups, Qualifies(groups[i])
                 PROVE  LET e == EntryOf(groups[i])
                        IN  /\ e.namespace = name(i).base
                            /\ gives(e) <=> name(i).suffix \in granting
      OBVIOUS
    <3> DEFINE e == EntryOf(groups[i])
    <3>1. /\ e.namespace = name(i).base
          /\ e.pullOnly <=> name(i).suffix \in {"_rd", "_r"}
          /\ e.deleteAllowed <=> name(i).suffix \in {"_rwd", "_rd"}
      BY AcceptedList, EntryOfGroup
    <3>2. name(i).suffix \in Suffixes
      BY DEF Qualifies, HasPermissionSuffix
    <3> HIDE DEF e, name
    <3> QED
      BY <3>1, <3>2 DEF e, Suffixes
  <2>3. \A i \in DOMAIN groups :
          Qualifies(groups[i]) <=> name(i).prefixed /\ name(i).suffix \in Suffixes
    BY DEF Qualifies, HasPermissionSuffix
  <2>4. granting \subseteq Suffixes
    BY DEF Suffixes
  <2>5. \A e : e \in Entries(access) <=>
          \E i \in DOMAIN groups : Qualifies(groups[i]) /\ e = EntryOf(groups[i])
    BY AcceptedList
  <2>6. GroupsGrant(ns, granting) <=>
          \E i \in DOMAIN groups : name(i).prefixed /\ name(i).base = ns /\ name(i).suffix \in granting
    BY DEF GroupsGrant
  <2> HIDE DEF granting, gives, name
  <2>7. (\E e \in Entries(access) : e.namespace = ns /\ gives(e)) <=>
          \E i \in DOMAIN groups :
            Qualifies(groups[i]) /\ EntryOf(groups[i]).namespace = ns /\ gives(EntryOf(groups[i]))
    BY <2>5
  <2>8. (\E e \in Entries(access) : e.namespace = ns /\ gives(e)) <=> GroupsGrant(ns, granting)
    BY <2>2, <2>3, <2>4, <2>6, <2>7
  <2> QED
    BY <2>1, <2>8 DEF granting
<1> QED
  BY Invariance, <1>1, PTL

-----------------------------------------------------------------------------
(* The promise of Authentication, step by step.                            *)

LEMMA InitRefines == Init => Promise!Init
<1>1. BindIdEmpty \in BOOLEAN
  BY DEF BindIdEmpty
<1> QED
  BY <1>1, Zenon DEF Init, Promise!Init, Phase, Member, Rights, Person

(* An exchange fails, succeeds without a word about the user, or is the    *)
(* bind that the directory accepts.                                        *)
LEMMA ExchangeRefines ==
  ASSUME Inv, Dial \/ NegotiateTLS \/ Bind
  PROVE  Promise!Fail \/ Promise!Vouch \/ UNCHANGED Promise!vars
<1>0. BindIdEmpty' = BindIdEmpty
  BY DEF Dial, NegotiateTLS, Bind, Return, BindIdEmpty
<1>1. CASE pc' = "rejected"
  <2>1. pc \in {"dial", "starttls", "bind"} /\ bound' = bound
    BY <1>1 DEF Dial, NegotiateTLS, Bind
  <2> QED
    BY <1>0, <1>1, <2>1 DEF Promise!Fail, Phase, Member, Rights, Person
<1>2. CASE pc' # "rejected"
  <2>1. /\ pc \in {"dial", "starttls", "bind"} /\ pc' \in {"starttls", "bind", "search"}
    BY <1>2 DEF Dial, NegotiateTLS, Bind, Return
  <2>2. /\ Phase = "asking" /\ Phase' = "asking"
        /\ UNCHANGED <<Phase, Member, Rights, Person>>
    BY <2>1 DEF Phase, Member, Rights, Person
  <2>3. bound' = bound \/ (~BindIdEmpty /\ bound' = TRUE)
    <3>1. CASE pc # "bind"
      BY <3>1 DEF Dial, NegotiateTLS, Bind
    <3>2. CASE pc = "bind"
      <4>1. bound = FALSE
        BY <3>2 DEF Inv, NothingYet
      <4>2. bound' = ~BindIdEmpty
        BY <1>2, <3>2 DEF Dial, NegotiateTLS, Bind, Return
      <4> QED
        BY <4>1, <4>2, Zenon
    <3> QED
      BY <3>1, <3>2
  <2> QED
    BY <1>0, <2>2, <2>3, Zenon DEF Promise!Vouch, Promise!vars
<1> QED
  BY <1>1, <1>2

LEMMA SearchRefines ==
  ASSUME Inv, Search
  PROVE  Promise!Fail \/ Promise!Learn
<1>1. CASE Return("rejected") /\ UNCHANGED bound
  BY <1>1 DEF Search, Return, BindIdEmpty, Promise!Fail, Phase, Member, Rights, Person
<1>2. CASE pc' = "loop" /\ groups' \in GroupLists
             /\ UNCHANGED <<username, conn, bound, next, access, selected>>
  <2>1. pc = "search" /\ Phase = "asking" /\ Phase' = "judging"
    BY <1>2 DEF Search, Phase
  <2>2. UNCHANGED <<bound, BindIdEmpty, Rights, Person>>
    BY <1>2, <2>1 DEF BindIdEmpty, Rights, Person
  <2>3. Member' \in SUBSET GroupDNs
    <3>1. groups' \in Seq(GroupDNs)
      BY <1>2, LdapAssumption
    <3> QED
      BY <1>2, <3>1 DEF Member
  <2>4. bound \/ BindIdEmpty
    BY <2>1 DEF Inv, BoundBeforeSearch
  <2> QED
    BY <2>1, <2>2, <2>3, <2>4 DEF Promise!Learn
<1> QED
  BY <1>1, <1>2 DEF Search

(* The loop is invisible: the groups under judgement stay the same.        *)
LEMMA LoopRefines ==
  ASSUME ConsiderGroup
  PROVE  UNCHANGED Promise!vars
BY DEF ConsiderGroup, BindIdEmpty, Promise!vars, Phase, Member, Rights, Person

(* At the end of the list the entries are what the set of groups gives.    *)
LEMMA EntriesOfMember ==
  ASSUME Inv, pc = "loop", next > Len(groups)
  PROVE  Promise!Entitled = Entries(access)
<1>1. /\ groups \in Seq(GroupDNs) /\ next \in Nat
  BY DEF Inv, TypeOK
<1>2. \A j \in DOMAIN groups : j < next
  <2>1. Len(groups) \in Nat /\ DOMAIN groups = 1..Len(groups)
    BY <1>1, LenProperties
  <2> QED
    BY <1>1, <2>1
<1>3. Passed = {group \in Member : Qualifies(group)}
  BY <1>2 DEF Passed, Member
<1>4. Entries(access) = {EntryOf(dn) : dn \in Passed}
  BY DEF Inv, AccessIsImage
<1> QED
  BY <1>3, <1>4 DEF Promise!Entitled

LEMMA ConcludeRefines ==
  ASSUME Inv, Conclude
  PROVE  Promise!Judge
<1>1. /\ pc = "loop" /\ next > Len(groups)
      /\ pc' = IF selected = NoUser THEN "rejected" ELSE "accepted"
      /\ UNCHANGED <<groups, next, access, selected, bound, BindIdEmpty>>
  BY DEF Conclude, Return, BindIdEmpty
<1>2. Promise!Entitled = Entries(access)
  BY <1>1, EntriesOfMember
<1>3. access \in Seq(AccessEntries) /\ Entries(access)' = Entries(access)
  BY <1>1 DEF Inv, TypeOK, Entries
<1>4. Phase = "judging" /\ Member' = {}
  BY <1>1 DEF Phase, Member
<1>5. CASE selected = NoUser
  <2>1. access = <<>>
    <3> SUFFICES ASSUME access # <<>> PROVE FALSE
      OBVIOUS
    <3>1. PICK i \in DOMAIN access : selected = access[i]
      BY DEF Inv, SelectedIsStrongest
    <3> QED
      BY <1>3, <1>5, <3>1, LdapAssumption
  <2>2. Entries(access) = {}
    BY <2>1 DEF Entries
  <2>3. Phase' = "denied" /\ Rights' = {} /\ Person' = NoUser
    BY <1>1, <1>5 DEF Phase, Rights, Person
  <2> QED
    BY <1>1, <1>2, <1>4, <2>2, <2>3 DEF Promise!Judge
<1>6. CASE selected # NoUser
  <2>1. PICK i \in DOMAIN access :
          /\ selected = access[i]
          /\ \A j \in DOMAIN access : ~MorePermissive(access[j], access[i])
    BY <1>6 DEF Inv, SelectedIsStrongest
  <2>2. /\ selected \in Entries(access)
        /\ \A entry \in Entries(access) : ~MorePermissive(entry, selected)
    BY <2>1 DEF Entries
  <2>3. Phase' = "granted" /\ Rights' = Entries(access) /\ Person' = selected
    BY <1>1, <1>3, <1>6 DEF Phase, Rights, Person
  <2> QED
    BY <1>1, <1>2, <1>4, <2>2, <2>3 DEF Promise!Judge
<1> QED
  BY <1>5, <1>6

LEMMA NewAttemptRefines ==
  ASSUME NewAttempt
  PROVE  Promise!Again
<1>1. BindIdEmpty' \in BOOLEAN
  BY DEF BindIdEmpty
<1> QED
  BY <1>1, Zenon DEF NewAttempt, Promise!Again, Phase, Member, Rights, Person

(* Every login is one of Authentication, for every directory and every     *)
(* list of groups: the four exchanges and the loop of accessFromGroups     *)
(* give what the set of the user's groups gives and one of its strongest   *)
(* entries, and reject nobody without one of the two reasons.              *)
THEOREM Refinement == Spec => LoginSpec
<1>1. ASSUME Inv, [Next]_vars
      PROVE  [Promise!Next]_(Promise!vars)
  <2>1. CASE UNCHANGED vars
    BY <2>1 DEF vars, Promise!vars, BindIdEmpty, Phase, Member, Rights, Person, Entries
  <2>2. CASE Dial \/ NegotiateTLS \/ Bind
    BY <1>1, <2>2, ExchangeRefines DEF Promise!Next
  <2>3. CASE Search
    BY <1>1, <2>3, SearchRefines DEF Promise!Next
  <2>4. CASE ConsiderGroup
    BY <2>4, LoopRefines
  <2>5. CASE Conclude
    BY <1>1, <2>5, ConcludeRefines DEF Promise!Next
  <2>6. CASE NewAttempt
    BY <2>6, NewAttemptRefines DEF Promise!Next
  <2> QED
    BY <1>1, <2>1, <2>2, <2>3, <2>4, <2>5, <2>6 DEF Next
<1> QED
  BY InitRefines, <1>1, Invariance, PTL DEF Spec, LoginSpec, Promise!Spec
=============================================================================
