---------------------------- MODULE AccessControl ----------------------------
(***************************************************************************)
(* How LDAP group names become rights on namespaces, and the three places  *)
(* that decide on those rights: the registry proxy (auth.go), the JSON API *)
(* (session.go, handlers.go, api_handlers.go) and the dashboard            *)
(* (handlers.go, ui/ui.ts).                                                *)
(*                                                                         *)
(* A group name is a record: whether it starts with LDAP_GROUP_PREFIX, its *)
(* permission suffix, and what is left when the suffix is stripped.  An    *)
(* access list is a sequence of entries, in the order of the directory.    *)
(***************************************************************************)
EXTENDS Sequences

CONSTANTS
  Namespaces,   \* the non-empty namespace names
  NoNamespace   \* the empty string in the place of a namespace

ASSUME NoNamespaceAssumption == NoNamespace \notin Namespaces

Suffixes == {"_rwd", "_rw", "_rd", "_r"}

GroupNames == [prefixed : BOOLEAN,
               base     : Namespaces \cup {NoNamespace},
               suffix   : Suffixes \cup {"none"}]

(* A value of the group attribute: its first RDN is cn=<name>, ou=<name>,  *)
(* something else followed by the rest of the DN, or it is no DN at all.   *)
GroupDNs == [rdn : {"cn", "ou", "plain", "other"}, name : GroupNames]

(* A DN of another attribute is kept whole: it starts with the attribute,  *)
(* never with the prefix, and ends in the base DN, never in a suffix.      *)
GroupNameFromDN(dn) ==
  IF dn.rdn = "other"
  THEN [dn.name EXCEPT !.prefixed = FALSE, !.suffix = "none"]
  ELSE dn.name

HasPermissionSuffix(group) == group.suffix \in Suffixes

PermissionsFromGroup(group) ==
  [ok            |-> HasPermissionSuffix(group),
   namespace     |-> IF HasPermissionSuffix(group) THEN group.base
                                                   ELSE NoNamespace,
   pullOnly      |-> group.suffix \in {"_rd", "_r"},
   deleteAllowed |-> group.suffix \in {"_rwd", "_rd"}]

AccessEntries == [group         : GroupNames,
                  namespace     : Namespaces \cup {NoNamespace},
                  pullOnly      : BOOLEAN,
                  deleteAllowed : BOOLEAN]

MorePermissive(a, b) ==
  IF a.deleteAllowed # b.deleteAllowed
  THEN a.deleteAllowed
  ELSE ~a.pullOnly /\ b.pullOnly

Entries(access) == {access[i] : i \in DOMAIN access}

-----------------------------------------------------------------------------
(* The registry proxy: authorize and its helpers.                          *)

Methods == {"GET", "HEAD", "PUT", "POST", "PATCH", "DELETE"}

(* The URL path is "/v2/", "/v2/<namespace>/...", "/v2/<one segment>" or   *)
(* something outside /v2/.                                                 *)
ProxyRequests == [method           : Methods,
                  path             : {"ping", "repository", "bare", "outside"},
                  namespace        : Namespaces \cup {NoNamespace},
                  encodedSeparator : BOOLEAN,
                  dotSegment       : BOOLEAN]

IsSafeRequestPath(req) == ~req.encodedSeparator /\ ~req.dotSegment

(* Mutant: the strictest entry of a namespace decides on writing.          *)
NamespacePermissionsStrictest(access, namespace) ==
  LET matching == {e \in Entries(access) : /\ e.namespace # NoNamespace
                                           /\ e.namespace = namespace}
  IN  [ok            |-> matching # {},
       pullOnly      |-> \E e \in matching : e.pullOnly,
       deleteAllowed |-> \E e \in matching : e.deleteAllowed]

NamespacePermissions(access, namespace) ==
  LET matching == {e \in Entries(access) : /\ e.namespace # NoNamespace
                                           /\ e.namespace = namespace}
  IN  [ok            |-> matching # {},
       pullOnly      |-> \A e \in matching : e.pullOnly,
       deleteAllowed |-> \E e \in matching : e.deleteAllowed]

(* Mutant: DELETE is one more write.                                       *)
AuthorizeDeleteAsWrite(access, req) ==
  LET perm == NamespacePermissions(access, req.namespace)
  IN  /\ IsSafeRequestPath(req)
      /\ \/ req.path = "ping"
         \/ /\ req.path = "repository"
            /\ req.namespace # NoNamespace
            /\ perm.ok
            /\ req.method \in {"GET", "HEAD"} \/ ~perm.pullOnly

Authorize(access, req) ==
  LET perm == NamespacePermissions(access, req.namespace)
  IN  /\ IsSafeRequestPath(req)
      /\ \/ req.path = "ping"
         \/ /\ req.path = "repository"
            /\ req.namespace # NoNamespace
            /\ perm.ok
            /\ \/ req.method \in {"GET", "HEAD"}
               \/ req.method = "DELETE" /\ perm.deleteAllowed
               \/ req.method \notin {"GET", "HEAD", "DELETE"} /\ ~perm.pullOnly

-----------------------------------------------------------------------------
(* The JSON API: a session keeps the namespaces of its access list.        *)

NamespacesFromAccess(access) == {e.namespace : e \in Entries(access)}

NamespaceAllowed(namespaces, namespace) == namespace \in namespaces

RequireNamespace(namespaces, namespace) ==
  namespace # NoNamespace /\ NamespaceAllowed(namespaces, namespace)

NamespaceDeleteAllowed(access, namespace) ==
  \E e \in Entries(access) : e.namespace = namespace /\ e.deleteAllowed

-----------------------------------------------------------------------------
(* The dashboard: one merged permission per namespace of the session.      *)

(* Mutant: one pull-only group makes the badge read-only.                  *)
MergedPermissionStrictest(access, namespace) ==
  LET matching == {e \in Entries(access) : e.namespace = namespace}
  IN  [pullOnly      |-> \E e \in matching : e.pullOnly,
       deleteAllowed |-> \E e \in matching : e.deleteAllowed,
       groups        |-> {e.group : e \in {m \in matching :
                                             HasPermissionSuffix(m.group)}}]

(* A namespace without an entry is shown as writable.                      *)
MergedPermission(access, namespace) ==
  LET matching == {e \in Entries(access) : e.namespace = namespace}
  IN  [pullOnly      |-> matching # {} /\ \A e \in matching : e.pullOnly,
       deleteAllowed |-> \E e \in matching : e.deleteAllowed,
       groups        |-> {e.group : e \in {m \in matching :
                                             HasPermissionSuffix(m.group)}}]

BuildNamespacePermissions(namespaces, access) ==
  [ns \in namespaces \ {NoNamespace} |-> MergedPermission(access, ns)]

(* The badge of ui.ts: the kind of permission the user is told about.      *)
PermissionKindFromFlags(perm) ==
  CASE ~perm.pullOnly /\ perm.deleteAllowed  -> "rwd"
    [] ~perm.pullOnly /\ ~perm.deleteAllowed -> "rw"
    [] perm.pullOnly  /\ perm.deleteAllowed  -> "rd"
    [] perm.pullOnly  /\ ~perm.deleteAllowed -> "r"
=============================================================================
