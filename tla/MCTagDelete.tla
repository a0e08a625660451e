---------------------------- MODULE MCTagDelete ----------------------------
(* Model values for TagDelete: a namespace where one user deletes and      *)
(* another only writes, one where users write but nobody deletes, and one  *)
(* that everybody only reads.  The URL of one parameter leads from a       *)
(* fourth namespace, where the user who only reads the first may delete,   *)
(* to the repository of the first.                                         *)
EXTENDS TagDelete, TLC

CONSTANTS n1, n2, n3, n4, app, lib, os, v1, v2, d1, d2, r1, r2

MCNamespaceOf == [repo \in Repos |-> CASE repo = app  -> n1
                                       [] repo = lib  -> n2
                                       [] repo = os   -> n3]

Named(ns, repo) == [namespace |-> ns, repo |-> repo]

MCRepoParams == {Named(MCNamespaceOf[repo], repo) : repo \in Repos} \cup {Named(n4, app)}

(* The access entry that a group <namespace><suffix> gives.                *)
Granted(ns, sfx) ==
  LET name == [prefixed |-> TRUE, base |-> ns, suffix |-> sfx]
      perm == PermissionsFromGroup(name)
  IN  [group         |-> name,
       namespace     |-> perm.namespace,
       pullOnly      |-> perm.pullOnly,
       deleteAllowed |-> perm.deleteAllowed]

MCAccessLists ==
  {<<Granted(n1, "_rd"), Granted(n1, "_rw"), Granted(n3, "_r")>>,
   <<Granted(n1, "_r"), Granted(n2, "_rw"), Granted(n4, "_rd")>>}

(* A repository starts with one image, the one that nobody deletes from    *)
(* with both.                                                              *)
MCContents ==
  [repo \in Repos |-> IF repo = lib
                      THEN [manifests |-> {d1, d2}, tagOf |-> v1 :> d1 @@ v2 :> d2]
                      ELSE [manifests |-> {d1}, tagOf |-> v1 :> d1 @@ v2 :> NoDigest]]
=============================================================================
