------------------------------ MODULE Deletion ------------------------------
(***************************************************************************)
(* What the deletion of a tag promises, without calls, replies and         *)
(* timeouts: a request settles on the manifest its tag names at some       *)
(* moment, removes that manifest at one later moment or never, and is told *)
(* the truth about it; what others do with the registry is no part of it.  *)
(***************************************************************************)
EXTENDS Registry

CONSTANTS
  Repos,      \* repository names
  NoRepo,     \* no repository
  NoTag,      \* no tag
  Requests,   \* deletions asked for
  Contents,   \* what the registry holds at first
  Deletable,  \* repositories that somebody is let delete in
  Writable    \* repositories that somebody is let write or delete in

VARIABLES
  registry,  \* registry[repo]: the contents of a repository
  request    \* request[r]: a deletion, and what has become of it

vars == <<registry, request>>

(* The effect of a request is "open" until it has settled on a digest,     *)
(* "aimed" until it removes it, and "none" if it never will.               *)
Over(effect, told) ==
  [repo |-> NoRepo, tag |-> NoTag, waits |-> FALSE, digest |-> NoDigest,
   effect |-> effect, told |-> told]

Init ==
  /\ registry = Contents
  /\ request = [r \in Requests |-> Over("none", "nothing")]

Free(r) == ~request[r].waits /\ request[r].effect # "aimed"

Refuse(r) ==
  /\ Free(r)
  /\ request' = [request EXCEPT ![r] = Over("none", "not done")]
  /\ UNCHANGED registry

Ask(r, repo, tag) ==
  /\ Free(r)
  /\ request' = [request EXCEPT ![r] =
                   [repo |-> repo, tag |-> tag, waits |-> TRUE, digest |-> NoDigest,
                    effect |-> "open", told |-> "nothing"]]
  /\ UNCHANGED registry

Aim(r) ==
  LET digest == Resolve(registry[request[r].repo], request[r].tag)
  IN  /\ request[r].effect = "open"
      /\ digest # NoDigest
      /\ request' = [request EXCEPT ![r] =
                       [repo |-> request[r].repo, tag |-> request[r].tag, waits |-> TRUE,
                        digest |-> digest, effect |-> "aimed", told |-> "nothing"]]
      /\ UNCHANGED registry

(* From now on the effect is what it is, whether somebody waits or not.    *)
Settle(r, effect) ==
  request' = [request EXCEPT ![r] =
                IF request[r].waits
                THEN [repo |-> request[r].repo, tag |-> request[r].tag, waits |-> TRUE,
                      digest |-> NoDigest, effect |-> effect, told |-> "nothing"]
                ELSE Over(effect, request[r].told)]

Remove(r) ==
  LET repo == request[r].repo
  IN  /\ request[r].effect = "aimed"
      /\ request[r].digest \in registry[repo].manifests
      /\ registry' = [registry EXCEPT ![repo] = RemoveManifest(@, request[r].digest)]
      /\ Settle(r, "removed")

Drop(r) ==
  /\ request[r].effect \in {"open", "aimed"}
  /\ Settle(r, "none")
  /\ UNCHANGED registry

(* "Done" and "not done" are final; a deletion whose outcome is unknown    *)
(* may still take effect.                                                  *)
Tell(r) ==
  /\ request[r].waits
  /\ \/ /\ request[r].effect = "removed"
        /\ request' = [request EXCEPT ![r] = Over("removed", "done")]
     \/ /\ request[r].effect # "removed"
        /\ request' = [request EXCEPT ![r] = Over("none", "not done")]
     \/ /\ request[r].effect \in {"none", "removed"}
        /\ request' = [request EXCEPT ![r] = Over(request[r].effect, "unknown")]
     \/ /\ request[r].effect = "aimed"
        /\ request' = [request EXCEPT ![r] =
                         [repo |-> request[r].repo, tag |-> request[r].tag,
                          waits |-> FALSE, digest |-> request[r].digest,
                          effect |-> "aimed", told |-> "unknown"]]
  /\ UNCHANGED registry

OthersPush(repo, tag, d) ==
  registry' = [registry EXCEPT ![repo] = PushManifest(@, tag, d)]

OthersRemove(repo, d) ==
  /\ d \in registry[repo].manifests
  /\ registry' = [registry EXCEPT ![repo] = RemoveManifest(@, d)]

Others ==
  /\ UNCHANGED request
  /\ \/ \E repo \in Writable, tag \in Tags, d \in Digests : OthersPush(repo, tag, d)
     \/ \E repo \in Deletable, d \in Digests : OthersRemove(repo, d)

Next ==
  \/ Others
  \/ \E r \in Requests :
       \/ Refuse(r) \/ Aim(r) \/ Remove(r) \/ Drop(r) \/ Tell(r)
       \/ \E repo \in Deletable, tag \in Tags : Ask(r, repo, tag)

Spec == Init /\ [][Next]_vars
=============================================================================
