------------------------------ MODULE Registry ------------------------------
(***************************************************************************)
(* The upstream registry (registry:2 with deletion enabled), as the proxy  *)
(* and the JSON API use it: a repository is a set of manifests and a map   *)
(* from tags to the digests of manifests.  It is outside the program.      *)
(***************************************************************************)
CONSTANTS
  Tags,      \* tag names
  Digests,   \* manifest digests
  NoDigest   \* an unused tag

ASSUME NoDigestAssumption == NoDigest \notin Digests

Repositories == [manifests : SUBSET Digests, tagOf : [Tags -> Digests \cup {NoDigest}]]

(* No tag names a manifest that is gone.                                   *)
Consistent(repo) == \A t \in Tags : repo.tagOf[t] \in repo.manifests \cup {NoDigest}

Resolve(repo, tag) == repo.tagOf[tag]

(* By digest, without a tag.                                               *)
AddManifest(repo, d) ==
  [manifests |-> repo.manifests \cup {d}, tagOf |-> repo.tagOf]

PushManifest(repo, tag, d) ==
  [manifests |-> repo.manifests \cup {d},
   tagOf     |-> [repo.tagOf EXCEPT ![tag] = d]]

(* DELETE by digest takes every tag of that digest with it.                *)
RemoveManifest(repo, d) ==
  [manifests |-> repo.manifests \ {d},
   tagOf     |-> [t \in Tags |-> IF repo.tagOf[t] = d THEN NoDigest
                                                      ELSE repo.tagOf[t]]]
=============================================================================
