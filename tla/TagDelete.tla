----------------------------- MODULE TagDelete -----------------------------
(***************************************************************************)
(* DELETE /api/tag (handleTagDelete of api_handlers.go, with               *)
(* fetchTagDigest and deleteManifest of catalog.go): look the tag up, then *)
(* delete the manifest by its digest.  Between the two calls, and after a  *)
(* call the handler has given up on, the registry goes on serving other    *)
(* requests: pushes and deletes of docker clients through the proxy of     *)
(* main.go, and other users of the API.                                    *)
(*                                                                         *)
(* What the check reads of a repo parameter need not be the namespace of   *)
(* the repository its URL leads to: the check takes the text up to the     *)
(* first slash, the call goes where ResolveReference leads (RepoParams).   *)
(* Tag parameters are names of tags, or missing.                           *)
(***************************************************************************)
EXTENDS AccessControl, Registry

CONSTANTS
  Repos,        \* repository names <namespace>/<name>
  NamespaceOf,  \* the first segment of a repository name
  RepoParams,   \* repo parameters: what the check and the URL make of them
  NoRepo,       \* a repo parameter that is missing or has no slash
  NoTag,        \* a missing tag parameter
  AccessLists,  \* the access lists of the users logged in
  Requests,     \* DELETE /api/tag requests under way
  Contents      \* what the registry holds when the vault starts

ASSUME TagDeleteAssumption ==
  /\ NamespaceOf \in [Repos -> Namespaces]
  /\ RepoParams \subseteq [namespace : Namespaces \cup {NoNamespace}, repo : Repos]
  /\ \A repo \in Repos : [namespace |-> NamespaceOf[repo], repo |-> repo] \in RepoParams
  /\ NoRepo \notin Repos
  /\ NoTag \notin Tags
  /\ AccessLists \subseteq Seq(AccessEntries)
  /\ Contents \in [Repos -> Repositories]
  /\ \A repo \in Repos : Consistent(Contents[repo])

VARIABLES
  registry,  \* registry[repo]: the contents of a repository
  op         \* op[r]: request r and the registry call made for it

vars == <<registry, op>>

(* An answer stays in the record until the slot takes the next request.    *)
Answers == {"none", "ok", "bad request", "forbidden", "registry status",
            "registry unavailable", "delete failed"}

Replies == {"none", "found", "no digest", "accepted", "other status"}

Operations ==
  [pc      : {"idle", "lookup", "delete"},     \* what the handler waits for
   repo    : Repos \cup {NoRepo},
   tag     : Tags \cup {NoTag},
   digest  : Digests \cup {NoDigest},          \* found by the lookup
   call    : {"none", "HEAD", "DELETE"},       \* on its way to the registry
   reply   : Replies,                          \* on its way back
   answer  : Answers,                          \* what the browser was told
   removed : BOOLEAN]                          \* has its DELETE removed the manifest?

TypeOK ==
  /\ registry \in [Repos -> Repositories]
  /\ op \in [Requests -> Operations]

(* A request that is over, and one that has sent its HEAD.                 *)
Answered(answer, removed) ==
  [pc |-> "idle", repo |-> NoRepo, tag |-> NoTag, digest |-> NoDigest,
   call |-> "none", reply |-> "none", answer |-> answer, removed |-> removed]

LookingUp(repo, tag) ==
  [pc |-> "lookup", repo |-> repo, tag |-> tag, digest |-> NoDigest,
   call |-> "HEAD", reply |-> "none", answer |-> "none", removed |-> FALSE]

Init ==
  /\ registry = Contents
  /\ op = [r \in Requests |-> Answered("none", FALSE)]

-----------------------------------------------------------------------------
(* The handler.                                                            *)

Answer(r, answer) ==
  /\ op' = [op EXCEPT ![r] = Answered(answer, op[r].removed)]
  /\ UNCHANGED registry

(* Bound: a slot takes a new request once the registry has nothing left to *)
(* do for the last one.                                                    *)
Free(r) == op[r].pc = "idle" /\ op[r].call = "none"

RefuseParameters(r, param, tag) ==
  /\ Free(r)
  /\ param = NoRepo \/ tag = NoTag
  /\ op' = [op EXCEPT ![r] = Answered("bad request", FALSE)]
  /\ UNCHANGED registry

MayDelete(access, namespace) ==
  /\ NamespaceAllowed(NamespacesFromAccess(access), namespace)
  /\ NamespaceDeleteAllowed(access, namespace)

Forbid(r, access, param) ==
  /\ Free(r)
  /\ ~MayDelete(access, param.namespace)
  /\ op' = [op EXCEPT ![r] = Answered("forbidden", FALSE)]
  /\ UNCHANGED registry

(* fetchTagDigest sends its HEAD, to the repository of the URL.            *)
LookUp(r, access, param, tag) ==
  /\ Free(r)
  /\ MayDelete(access, param.namespace)
  /\ op' = [op EXCEPT ![r] = LookingUp(param.repo, tag)]
  /\ UNCHANGED registry

(* Mutant: a 200 without a digest is taken for a digest.                   *)
FinishLookUpUnchecked(r) ==
  /\ op[r].pc = "lookup"
  /\ \/ /\ op[r].reply \in {"found", "no digest"}
        /\ op' = [op EXCEPT ![r].pc = "delete", ![r].call = "DELETE",
                            ![r].reply = "none"]
        /\ UNCHANGED registry
     \/ op[r].reply = "other status" /\ Answer(r, "registry status")

(* A digest leads to the DELETE, a 200 without one is an error, and any    *)
(* other status is passed on.                                              *)
FinishLookUp(r) ==
  /\ op[r].pc = "lookup"
  /\ \/ /\ op[r].reply = "found"
        /\ op' = [op EXCEPT ![r].pc = "delete", ![r].call = "DELETE",
                            ![r].reply = "none"]
        /\ UNCHANGED registry
     \/ op[r].reply = "no digest" /\ Answer(r, "registry unavailable")
     \/ op[r].reply = "other status" /\ Answer(r, "registry status")

FinishDelete(r) ==
  /\ op[r].pc = "delete"
  /\ \/ op[r].reply = "accepted" /\ Answer(r, "ok")
     \/ op[r].reply = "other status" /\ Answer(r, "registry status")

(* Mutant: a lost DELETE is reported like a lost lookup.                   *)
GiveUpAlike(r) ==
  /\ op[r].pc # "idle"
  /\ op' = [op EXCEPT ![r].pc = "idle", ![r].reply = "none",
                      ![r].call = IF op[r].call = "DELETE" THEN "DELETE" ELSE "none",
                      ![r].answer = "registry unavailable"]
  /\ UNCHANGED registry

(* Mutant: the client of deleteManifest has no timeout.                    *)
GiveUpLookUpOnly(r) ==
  /\ op[r].pc = "lookup"
  /\ Answer(r, "registry unavailable")

(* Mutant: a DELETE whose reply was lost is sent once more.                *)
GiveUpOrRetry(r) ==
  \/ op[r].pc = "lookup" /\ Answer(r, "registry unavailable")
  \/ op[r].pc = "delete" /\ Answer(r, "delete failed")
  \/ /\ op[r].pc = "delete" /\ op[r].call = "none" /\ op[r].reply = "none"
     /\ op' = [op EXCEPT ![r].call = "DELETE"]
     /\ UNCHANGED registry

(* The ten seconds of the client have passed, the connection broke, or the *)
(* browser has gone.  Nothing recalls a DELETE that is on its way.         *)
GiveUp(r) ==
  \/ op[r].pc = "lookup" /\ Answer(r, "registry unavailable")
  \/ /\ op[r].pc = "delete"
     /\ op[r].call = "none"
     /\ Answer(r, "delete failed")
  \/ /\ op[r].pc = "delete"
     /\ op[r].call = "DELETE"
     /\ op' = [op EXCEPT ![r].pc = "idle", ![r].answer = "delete failed"]
     /\ UNCHANGED registry

-----------------------------------------------------------------------------
(* The registry serves the calls of the handler in its own time.           *)

(* The reply reaches the handler only if it still waits.                   *)
Served(o, reply) ==
  IF o.pc = "idle" THEN Answered(o.answer, o.removed)
                   ELSE [o EXCEPT !.call = "none", !.reply = reply]

ServeHead(r) ==
  /\ op[r].call = "HEAD"
  /\ LET digest == Resolve(registry[op[r].repo], op[r].tag)
     IN  \/ /\ digest # NoDigest
            /\ op' = [op EXCEPT ![r] = Served([op[r] EXCEPT !.digest = digest],
                                              "found")]
         \/ /\ digest # NoDigest
            /\ op' = [op EXCEPT ![r] = Served(op[r], "no digest")]
         \/ op' = [op EXCEPT ![r] = Served(op[r], "other status")]
  /\ UNCHANGED registry

(* Mutant: the URL of the DELETE names the tag instead of the digest.      *)
DeleteTargetTag(r) == Resolve(registry[op[r].repo], op[r].tag)

(* The URL of deleteManifest names the digest that was looked up.          *)
DeleteTarget(r) == op[r].digest

ServeDelete(r) ==
  /\ op[r].call = "DELETE"
  /\ DeleteTarget(r) \in registry[op[r].repo].manifests
  /\ registry' = [registry EXCEPT ![op[r].repo] = RemoveManifest(@, DeleteTarget(r))]
  /\ op' = [op EXCEPT ![r] = Served([op[r] EXCEPT !.removed = TRUE], "accepted")]

(* The manifest is unknown, deletion is disabled, or the registry fails    *)
(* before it has done anything.                                            *)
RefuseDelete(r) ==
  /\ op[r].call = "DELETE"
  /\ op' = [op EXCEPT ![r] = Served(op[r], "other status")]
  /\ UNCHANGED registry

(* A call or a reply is lost with its connection.                          *)
LoseMessage(r) ==
  /\ op[r].call # "none" \/ op[r].reply # "none"
  /\ op' = [op EXCEPT ![r] = Served(op[r], "none")]
  /\ UNCHANGED registry

-----------------------------------------------------------------------------
(* Docker clients, through the NotFound handler of main.go.                *)

RegistryRequest(method, repo) ==
  [method |-> method, path |-> "repository", namespace |-> NamespaceOf[repo],
   encodedSeparator |-> FALSE, dotSegment |-> FALSE]

DockerPush(access, repo, tag, d) ==
  /\ Authorize(access, RegistryRequest("PUT", repo))
  /\ registry' = [registry EXCEPT ![repo] = PushManifest(@, tag, d)]
  /\ UNCHANGED op

DockerDelete(access, repo, d) ==
  /\ Authorize(access, RegistryRequest("DELETE", repo))
  /\ d \in registry[repo].manifests
  /\ registry' = [registry EXCEPT ![repo] = RemoveManifest(@, d)]
  /\ UNCHANGED op

Handle(r) == FinishLookUp(r) \/ FinishDelete(r) \/ GiveUp(r)

Next ==
  \/ \E r \in Requests, param \in RepoParams \cup {NoRepo}, tag \in Tags \cup {NoTag} :
       RefuseParameters(r, param, tag)
  \/ \E r \in Requests, access \in AccessLists, param \in RepoParams :
       Forbid(r, access, param)
  \/ \E r \in Requests, access \in AccessLists, param \in RepoParams, tag \in Tags :
       LookUp(r, access, param, tag)
  \/ \E r \in Requests :
       Handle(r) \/ ServeHead(r) \/ ServeDelete(r) \/ RefuseDelete(r) \/ LoseMessage(r)
  \/ \E access \in AccessLists, repo \in Repos, tag \in Tags, d \in Digests :
       DockerPush(access, repo, tag, d)
  \/ \E access \in AccessLists, repo \in Repos, d \in Digests :
       DockerDelete(access, repo, d)

Spec == Init /\ [][Next]_vars

(* The timeouts of the clients run; the registry, which may never serve a  *)
(* call, gets no fairness.                                                 *)
FairSpec == Spec /\ \A r \in Requests : WF_vars(GiveUp(r))

-----------------------------------------------------------------------------
(* Properties.                                                             *)

(* What the browser is told is true, whenever the registry serves the      *)
(* DELETE: "ok" means this very request has removed the manifest, and any  *)
(* other answer than "delete failed" means it has not and never will.      *)
Uneventful == {"bad request", "forbidden", "registry status", "registry unavailable"}

StatusTellsEffect ==
  \A r \in Requests :
    /\ op[r].answer = "ok" => op[r].removed
    /\ op[r].answer \in Uneventful => ~op[r].removed /\ op[r].call # "DELETE"

(* The API frees a tag only if the tag names, at that moment, the manifest *)
(* the request had looked up: an image pushed under the tag between the    *)
(* lookup and the DELETE, or after the handler gave up, stays.             *)
FreedAsResolved ==
  [][\A repo \in Repos, tag \in Tags :
       LET before == registry[repo].tagOf[tag]
       IN  before # NoDigest /\ registry'[repo].tagOf[tag] = NoDigest /\ op' # op =>
             \E r \in Requests : /\ op[r].repo = repo
                                 /\ op[r].digest = before
                                 /\ op[r].call = "DELETE"]_vars

(* The rights of the users hold on both paths to the registry and at any   *)
(* delay: nothing is ever removed where no user may delete in any          *)
(* namespace that the check of handleTagDelete reads for the repository,   *)
(* and where none may write either the repository never changes.  It is    *)
(* less than the rights on its own namespace: a parameter whose URL leads  *)
(* to another namespace than the one checked is not refused.               *)
EntriesOn(namespaces) ==
  {e \in UNION {Entries(access) : access \in AccessLists} : e.namespace \in namespaces}

CheckedFor(repo) == {param.namespace : param \in {p \in RepoParams : p.repo = repo}}

Undeletable == {repo \in Repos : \A e \in EntriesOn(CheckedFor(repo)) : ~e.deleteAllowed}
ReadOnly == {repo \in Undeletable : \A e \in EntriesOn({NamespaceOf[repo]}) : e.pullOnly}

NamespacesProtected ==
  [][/\ \A repo \in Undeletable :
          registry[repo].manifests \subseteq registry'[repo].manifests
     /\ \A repo \in ReadOnly : registry'[repo] = registry[repo]]_vars

(* What the promise of Deletion calls a request.                           *)
EffectOf(o) ==
  IF o.removed THEN "removed"
  ELSE IF o.call = "DELETE" \/ o.reply = "found" THEN "aimed"
  ELSE IF o.call = "HEAD" THEN "open" ELSE "none"

Told(answer) ==
  CASE answer = "none" -> "nothing"
    [] answer = "ok" -> "done"
    [] answer = "delete failed" -> "unknown"
    [] answer \in Uneventful -> "not done"

RequestOf(o) ==
  [repo |-> o.repo, tag |-> o.tag, waits |-> o.pc # "idle",
   digest |-> IF EffectOf(o) = "aimed" THEN o.digest ELSE NoDigest,
   effect |-> EffectOf(o), told |-> Told(o.answer)]

Requested == [r \in Requests |-> RequestOf(op[r])]

Promise == INSTANCE Deletion
             WITH request <- Requested,
                  Deletable <- Repos \ Undeletable, Writable <- Repos \ ReadOnly

(* Two calls with lost messages and late effects implement the promise of  *)
(* Deletion: whatever happens between them, a request removes at most the  *)
(* one manifest that its tag named when it was looked up, and at most once. *)
DeletionSpec == Promise!Spec

(* A request for a deletion is answered, even if the registry never        *)
(* answers: every call the handler waits for has a timeout.                *)
DeletesAnswered == \A r \in Requests : op[r].pc # "idle" ~> op[r].pc = "idle"

-----------------------------------------------------------------------------
(* Why it holds: a request has at most one DELETE, sent for a digest it    *)
(* looked up in a repository that some user may delete in by the check of  *)
(* the handler, and only a request that was told "delete failed" is over   *)
(* before its DELETE.                                                      *)
WellFormed(o) ==
  /\ o.pc # "idle" \/ o.call # "none" => o.repo \in Repos \ Undeletable
  /\ o.pc = "lookup" => o.tag \in Tags /\ o.call # "DELETE" /\ ~o.removed
  /\ o.call = "HEAD" => o.pc = "lookup"
  /\ o.pc = "idle" \/ o.call # "none" => o.reply = "none"
  /\ o.reply = "found" => o.pc = "lookup"
  /\ o.call = "DELETE" \/ o.reply = "found" => o.digest \in Digests

AnswerIsTrue(o) ==
  /\ o.pc # "idle" => o.answer = "none"
  /\ o.pc = "idle" /\ o.call = "DELETE" => o.answer = "delete failed"
  /\ o.call = "DELETE" => ~o.removed
  /\ o.reply = "accepted" => o.removed /\ o.pc = "delete"
  /\ o.reply = "other status" => ~o.removed
  /\ o.answer = "ok" => o.removed
  /\ o.answer \in Uneventful => ~o.removed

Inv ==
  /\ TypeOK
  /\ \A r \in Requests : WellFormed(op[r]) /\ AnswerIsTrue(op[r])
=============================================================================
