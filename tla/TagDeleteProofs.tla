-------------------------- MODULE TagDeleteProofs --------------------------
(***************************************************************************)
(* The answers of DELETE /api/tag are true and the rights of the users     *)
(* hold, for any repositories, users and number of requests.               *)
(***************************************************************************)
EXTENDS TagDelete, TLAPS

USE DEF Answers, Replies, Uneventful

(* A request that is over is fine if its answer is true.                   *)
LEMMA AnsweredOK ==
  ASSUME NEW a \in Answers, NEW b \in BOOLEAN, a = "ok" => b, a \in Uneventful => ~b
  PROVE  /\ Answered(a, b) \in Operations
         /\ WellFormed(Answered(a, b))
         /\ AnswerIsTrue(Answered(a, b))
BY DEF Answered, Operations, WellFormed, AnswerIsTrue

(* A step that replaces one request by a good one keeps the invariant.     *)
LEMMA ReplaceInv ==
  ASSUME Inv, NEW r \in Requests, NEW o \in Operations, WellFormed(o), AnswerIsTrue(o),
         op' = [op EXCEPT ![r] = o], registry' \in [Repos -> Repositories]
  PROVE  Inv'
<1>1. \A q \in Requests : op'[q] = IF q = r THEN o ELSE op[q]
  BY DEF Inv, TypeOK
<1>2. TypeOK'
  BY DEF Inv, TypeOK
<1>3. ASSUME NEW q \in Requests
      PROVE  WellFormed(op'[q]) /\ AnswerIsTrue(op'[q])
  <2>1. CASE q = r
    BY <1>1, <2>1
  <2>2. CASE q # r
    BY <1>1, <2>2 DEF Inv
  <2> QED
    BY <2>1, <2>2
<1> QED
  BY <1>2, <1>3 DEF Inv, WellFormed, AnswerIsTrue

(* Answering ends a request truthfully.                                    *)
LEMMA AnswerInv ==
  ASSUME Inv, NEW r \in Requests, NEW a \in Answers, Answer(r, a),
         a = "ok" => op[r].removed, a \in Uneventful => ~op[r].removed
  PROVE  Inv'
<1> DEFINE o == Answered(a, op[r].removed)
<1>1. op[r].removed \in BOOLEAN
  BY DEF Inv, TypeOK, Operations
<1>2. o \in Operations /\ WellFormed(o) /\ AnswerIsTrue(o)
  BY <1>1, AnsweredOK
<1> HIDE DEF o
<1>3. op' = [op EXCEPT ![r] = o] /\ registry' \in [Repos -> Repositories]
  BY DEF Answer, o, Inv, TypeOK
<1> QED
  BY <1>2, <1>3, ReplaceInv

(* A refusal starts and ends a request without calling the registry.       *)
LEMMA RefuseInv ==
  ASSUME Inv, NEW r \in Requests, NEW a \in {"bad request", "forbidden"},
         op' = [op EXCEPT ![r] = Answered(a, FALSE)], UNCHANGED registry
  PROVE  Inv'
<1>1. /\ Answered(a, FALSE) \in Operations
      /\ WellFormed(Answered(a, FALSE))
      /\ AnswerIsTrue(Answered(a, FALSE))
  BY AnsweredOK
<1>2. registry' \in [Repos -> Repositories]
  BY DEF Inv, TypeOK
<1> QED
  BY <1>1, <1>2, ReplaceInv

(* Whoever passes the check of the handler has an entry that may delete, on *)
(* a namespace that a parameter for the repository is checked for.         *)
LEMMA MayDeleteIsDeletable ==
  ASSUME NEW access \in AccessLists, NEW param \in RepoParams,
         MayDelete(access, param.namespace)
  PROVE  param.repo \in Repos \ Undeletable
<1>1. param.repo \in Repos
  BY TagDeleteAssumption
<1>2. param.namespace \in CheckedFor(param.repo)
  BY DEF CheckedFor
<1>3. PICK e \in Entries(access) : e.namespace = param.namespace /\ e.deleteAllowed
  BY DEF MayDelete, NamespaceDeleteAllowed
<1>4. e \in EntriesOn(CheckedFor(param.repo))
  BY <1>2, <1>3 DEF EntriesOn
<1> QED
  BY <1>1, <1>3, <1>4 DEF Undeletable

(* The proper name of a repository is checked for its own namespace.       *)
LEMMA OwnNamespaceIsChecked ==
  ASSUME NEW repo \in Repos
  PROVE  NamespaceOf[repo] \in CheckedFor(repo)
<1>1. [namespace |-> NamespaceOf[repo], repo |-> repo] \in RepoParams
  BY TagDeleteAssumption
<1> QED
  BY <1>1 DEF CheckedFor

LEMMA LookUpInv ==
  ASSUME Inv, NEW r \in Requests, NEW access \in AccessLists, NEW param \in RepoParams,
         NEW tag \in Tags, LookUp(r, access, param, tag)
  PROVE  Inv'
<1> DEFINE o == LookingUp(param.repo, tag)
<1>2. param.repo \in Repos \ Undeletable
  BY MayDeleteIsDeletable DEF LookUp
<1>3. o \in Operations /\ WellFormed(o) /\ AnswerIsTrue(o)
  BY <1>2 DEF LookingUp, Operations, WellFormed, AnswerIsTrue
<1>4. op' = [op EXCEPT ![r] = o] /\ registry' \in [Repos -> Repositories]
  BY DEF LookUp, Inv, TypeOK
<1> HIDE DEF o
<1> QED
  BY <1>3, <1>4, ReplaceInv

(* A digest leads to the DELETE; every other reply ends the request.       *)
LEMMA FinishLookUpInv ==
  ASSUME Inv, NEW r \in Requests, FinishLookUp(r)
  PROVE  Inv'
<1>1. /\ op[r] \in Operations /\ op[r].pc = "lookup" /\ ~op[r].removed
      /\ WellFormed(op[r]) /\ AnswerIsTrue(op[r])
  BY DEF FinishLookUp, Inv, TypeOK, WellFormed
<1>2. CASE op[r].reply = "found"
  <2> DEFINE o == [op[r] EXCEPT !.pc = "delete", !.call = "DELETE", !.reply = "none"]
  <2>1. /\ o \in Operations
        /\ o.pc = "delete" /\ o.call = "DELETE" /\ o.reply = "none"
        /\ o.repo = op[r].repo /\ o.digest = op[r].digest
        /\ o.answer = op[r].answer /\ o.removed = op[r].removed
    BY <1>1 DEF Operations
  <2>2. WellFormed(o) /\ AnswerIsTrue(o)
    BY <1>1, <1>2, <2>1 DEF WellFormed, AnswerIsTrue
  <2>3. op' = [op EXCEPT ![r] = o] /\ registry' = registry
    BY <1>1, <1>2 DEF FinishLookUp, Inv, TypeOK
  <2>4. registry' \in [Repos -> Repositories]
    BY <2>3 DEF Inv, TypeOK
  <2> HIDE DEF o
  <2> QED
    BY <2>1, <2>2, <2>3, <2>4, ReplaceInv
<1>3. CASE op[r].reply # "found"
  <2>1. Answer(r, "registry unavailable") \/ Answer(r, "registry status")
    BY <1>3 DEF FinishLookUp
  <2> QED
    BY <1>1, <2>1, AnswerInv
<1> QED
  BY <1>2, <1>3

LEMMA FinishDeleteInv ==
  ASSUME Inv, NEW r \in Requests, FinishDelete(r)
  PROVE  Inv'
<1>1. CASE op[r].reply = "accepted" /\ Answer(r, "ok")
  BY <1>1, AnswerInv DEF Inv, AnswerIsTrue
<1>2. CASE op[r].reply = "other status" /\ Answer(r, "registry status")
  BY <1>2, AnswerInv DEF Inv, AnswerIsTrue
<1> QED
  BY <1>1, <1>2 DEF FinishDelete

(* Giving up promises nothing once the DELETE has been sent.               *)
LEMMA GiveUpInv ==
  ASSUME Inv, NEW r \in Requests, GiveUp(r)
  PROVE  Inv'
<1>1. CASE op[r].pc = "lookup" /\ Answer(r, "registry unavailable")
  BY <1>1, AnswerInv DEF Inv, WellFormed
<1>2. CASE Answer(r, "delete failed")
  BY <1>2, AnswerInv
<1>3. CASE /\ op[r].pc = "delete" /\ op[r].call = "DELETE"
           /\ op' = [op EXCEPT ![r].pc = "idle", ![r].answer = "delete failed"]
           /\ UNCHANGED registry
  <2> DEFINE o == [op[r] EXCEPT !.pc = "idle", !.answer = "delete failed"]
  <2>1. op[r] \in Operations /\ WellFormed(op[r]) /\ AnswerIsTrue(op[r])
    BY DEF Inv, TypeOK
  <2>2. /\ o \in Operations
        /\ o.pc = "idle" /\ o.answer = "delete failed"
        /\ o.repo = op[r].repo /\ o.digest = op[r].digest /\ o.call = op[r].call
        /\ o.reply = op[r].reply /\ o.removed = op[r].removed
    BY <2>1 DEF Operations
  <2>3. WellFormed(o) /\ AnswerIsTrue(o)
    BY <1>3, <2>1, <2>2 DEF WellFormed, AnswerIsTrue
  <2>4. op' = [op EXCEPT ![r] = o]
    BY <1>3 DEF Inv, TypeOK
  <2>5. registry' \in [Repos -> Repositories]
    BY <1>3 DEF Inv, TypeOK
  <2> HIDE DEF o
  <2> QED
    BY <2>2, <2>3, <2>4, <2>5, ReplaceInv
<1> QED
  BY <1>1, <1>2, <1>3 DEF GiveUp

-----------------------------------------------------------------------------
(* The registry's half.                                                    *)

(* Removing or pushing a manifest leaves a repository.                     *)
LEMMA RepositoryType ==
  ASSUME NEW c \in Repositories, NEW d \in Digests
  PROVE  /\ RemoveManifest(c, d) \in Repositories
         /\ \A tag \in Tags : PushManifest(c, tag, d) \in Repositories
BY DEF Repositories, RemoveManifest, PushManifest

(* What serving a call does to its request, still waited for or not.       *)
LEMMA ServedType ==
  ASSUME NEW o \in Operations, NEW p \in Replies
  PROVE  /\ Served(o, p) \in Operations
         /\ Served(o, p).call = "none"
         /\ Served(o, p).answer = o.answer /\ Served(o, p).removed = o.removed
         /\ o.pc = "idle" => Served(o, p) = Answered(o.answer, o.removed)
         /\ o.pc # "idle" =>
              /\ Served(o, p).pc = o.pc /\ Served(o, p).reply = p
              /\ Served(o, p).repo = o.repo /\ Served(o, p).tag = o.tag
              /\ Served(o, p).digest = o.digest
<1>1. CASE o.pc = "idle"
  BY <1>1 DEF Served, Answered, Operations
<1>2. CASE o.pc # "idle"
  BY <1>2 DEF Served, Operations
<1> QED
  BY <1>1, <1>2

(* A served request stays well-formed and its answer true, provided the    *)
(* reply says what was done.                                               *)
LEMMA ServedOK ==
  ASSUME NEW o \in Operations, NEW p \in Replies, WellFormed(o),
         o.pc # "idle" => o.answer = "none",
         o.answer = "ok" => o.removed,
         o.answer \in Uneventful => ~o.removed,
         p = "found" => o.digest \in Digests /\ o.pc = "lookup",
         p = "accepted" => o.pc # "lookup" /\ o.removed,
         p = "other status" => ~o.removed
  PROVE  /\ Served(o, p) \in Operations
         /\ WellFormed(Served(o, p))
         /\ AnswerIsTrue(Served(o, p))
<1>1. CASE o.pc = "idle"
  <2>1. Served(o, p) = Answered(o.answer, o.removed)
    BY <1>1, ServedType
  <2>2. o.answer \in Answers /\ o.removed \in BOOLEAN
    BY DEF Operations
  <2>3. /\ Answered(o.answer, o.removed) \in Operations
        /\ WellFormed(Answered(o.answer, o.removed))
        /\ AnswerIsTrue(Answered(o.answer, o.removed))
    BY <2>2, AnsweredOK
  <2> QED
    BY <2>1, <2>3
<1>2. CASE o.pc # "idle"
  <2>1. /\ Served(o, p) \in Operations
        /\ Served(o, p).pc = o.pc /\ Served(o, p).call = "none"
        /\ Served(o, p).reply = p /\ Served(o, p).repo = o.repo
        /\ Served(o, p).tag = o.tag /\ Served(o, p).digest = o.digest
        /\ Served(o, p).answer = o.answer /\ Served(o, p).removed = o.removed
    BY <1>2, ServedType
  <2>2. WellFormed(Served(o, p))
    BY <1>2, <2>1 DEF WellFormed
  <2>3. AnswerIsTrue(Served(o, p))
    BY <1>2, <2>1 DEF AnswerIsTrue, Operations
  <2> QED
    BY <2>1, <2>2, <2>3
<1> QED
  BY <1>1, <1>2

LEMMA ServeHeadInv ==
  ASSUME Inv, NEW r \in Requests, ServeHead(r)
  PROVE  Inv'
<1>1. /\ op[r] \in Operations /\ WellFormed(op[r]) /\ AnswerIsTrue(op[r])
      /\ op[r].pc = "lookup" /\ ~op[r].removed
      /\ op[r].repo \in Repos /\ op[r].tag \in Tags
  BY DEF ServeHead, Inv, TypeOK, WellFormed
<1>2. registry' \in [Repos -> Repositories]
  BY DEF ServeHead, Inv, TypeOK
<1> DEFINE digest == Resolve(registry[op[r].repo], op[r].tag)
           found == [op[r] EXCEPT !.digest = digest]
<1>3. CASE /\ digest # NoDigest
           /\ op' = [op EXCEPT ![r] = Served(found, "found")]
  <2>1. digest \in Digests
    BY <1>1, <1>3 DEF Inv, TypeOK, Repositories, Resolve
  <2> HIDE DEF digest
  <2>2. /\ found \in Operations
        /\ found.pc = "lookup" /\ found.repo = op[r].repo /\ found.tag = op[r].tag
        /\ found.digest = digest /\ found.call = op[r].call
        /\ found.reply = op[r].reply /\ found.answer = op[r].answer
        /\ found.removed = op[r].removed
    BY <1>1, <2>1 DEF Operations
  <2> HIDE DEF found
  <2>3. WellFormed(found)
    BY <1>1, <2>1, <2>2 DEF WellFormed
  <2>4. found.answer = "none"
    BY <1>1, <2>2 DEF AnswerIsTrue
  <2>5. /\ Served(found, "found") \in Operations
        /\ WellFormed(Served(found, "found"))
        /\ AnswerIsTrue(Served(found, "found"))
    BY <1>1, <2>1, <2>2, <2>3, <2>4, ServedOK
  <2> QED
    BY <1>2, <1>3, <2>5, ReplaceInv
<1>4. ASSUME NEW p \in {"no digest", "other status"},
             op' = [op EXCEPT ![r] = Served(op[r], p)]
      PROVE  Inv'
  <2>1. op[r].answer = "none"
    BY <1>1 DEF AnswerIsTrue
  <2>2. /\ Served(op[r], p) \in Operations
        /\ WellFormed(Served(op[r], p))
        /\ AnswerIsTrue(Served(op[r], p))
    BY <1>1, <2>1, ServedOK
  <2> QED
    BY <1>2, <1>4, <2>2, ReplaceInv
<1> QED
  BY <1>3, <1>4 DEF ServeHead

LEMMA ServeDeleteInv ==
  ASSUME Inv, NEW r \in Requests, ServeDelete(r)
  PROVE  Inv'
<1> DEFINE done == [op[r] EXCEPT !.removed = TRUE]
<1>1. /\ op[r] \in Operations /\ WellFormed(op[r]) /\ AnswerIsTrue(op[r])
      /\ op[r].call = "DELETE" /\ op[r].pc # "lookup"
      /\ op[r].repo \in Repos /\ op[r].digest \in Digests
  BY DEF ServeDelete, DeleteTarget, Inv, TypeOK, WellFormed
<1>2. registry' \in [Repos -> Repositories]
  BY <1>1, RepositoryType DEF ServeDelete, DeleteTarget, Inv, TypeOK
<1>3. /\ done \in Operations
      /\ done.pc = op[r].pc /\ done.repo = op[r].repo /\ done.tag = op[r].tag
      /\ done.digest = op[r].digest /\ done.call = "DELETE"
      /\ done.reply = op[r].reply /\ done.answer = op[r].answer /\ done.removed
  BY <1>1 DEF Operations
<1>4. op' = [op EXCEPT ![r] = Served(done, "accepted")]
  BY DEF ServeDelete, DeleteTarget
<1> HIDE DEF done
<1>5. WellFormed(done)
  BY <1>1, <1>3 DEF WellFormed
<1>6. /\ done.pc # "idle" => done.answer = "none"
      /\ done.pc = "idle" => done.answer = "delete failed"
  BY <1>1, <1>3 DEF AnswerIsTrue
<1>7. /\ Served(done, "accepted") \in Operations
      /\ WellFormed(Served(done, "accepted"))
      /\ AnswerIsTrue(Served(done, "accepted"))
  BY <1>1, <1>3, <1>5, <1>6, ServedOK
<1> QED
  BY <1>2, <1>4, <1>7, ReplaceInv

(* A refused or lost call has removed nothing.                             *)
LEMMA RefuseOrLoseInv ==
  ASSUME Inv, NEW r \in Requests, RefuseDelete(r) \/ LoseMessage(r)
  PROVE  Inv'
<1>1. /\ op[r] \in Operations /\ WellFormed(op[r]) /\ AnswerIsTrue(op[r])
      /\ registry' \in [Repos -> Repositories]
  BY DEF RefuseDelete, LoseMessage, Inv, TypeOK
<1>2. PICK p \in {"none", "other status"} :
        /\ op' = [op EXCEPT ![r] = Served(op[r], p)]
        /\ p = "other status" => op[r].call = "DELETE"
  BY DEF RefuseDelete, LoseMessage
<1>3. /\ op[r].pc # "idle" => op[r].answer = "none"
      /\ op[r].answer = "ok" => op[r].removed
      /\ op[r].answer \in Uneventful => ~op[r].removed
      /\ p = "other status" => ~op[r].removed
  BY <1>1, <1>2 DEF AnswerIsTrue
<1>4. /\ Served(op[r], p) \in Operations
      /\ WellFormed(Served(op[r], p))
      /\ AnswerIsTrue(Served(op[r], p))
  BY <1>1, <1>3, ServedOK
<1> QED
  BY <1>1, <1>2, <1>4, ReplaceInv

LEMMA DockerInv ==
  ASSUME Inv, NEW access \in AccessLists, NEW repo \in Repos, NEW d \in Digests,
         \/ \E tag \in Tags : DockerPush(access, repo, tag, d)
         \/ DockerDelete(access, repo, d)
  PROVE  Inv'
<1>1. registry' \in [Repos -> Repositories]
  BY RepositoryType DEF DockerPush, DockerDelete, Inv, TypeOK
<1>2. op' = op
  BY DEF DockerPush, DockerDelete
<1> QED
  BY <1>1, <1>2 DEF Inv, TypeOK

-----------------------------------------------------------------------------
LEMMA InitInv == Init => Inv
<1> SUFFICES ASSUME Init PROVE Inv
  OBVIOUS
<1>1. registry \in [Repos -> Repositories]
  BY TagDeleteAssumption DEF Init
<1>2. /\ Answered("none", FALSE) \in Operations
      /\ WellFormed(Answered("none", FALSE))
      /\ AnswerIsTrue(Answered("none", FALSE))
  BY AnsweredOK
<1> QED
  BY <1>1, <1>2 DEF Init, Inv, TypeOK

LEMMA NextInv ==
  ASSUME Inv, [Next]_vars
  PROVE  Inv'
<1>1. CASE UNCHANGED vars
  BY <1>1 DEF vars, Inv, TypeOK
<1>2. ASSUME NEW r \in Requests, NEW param \in RepoParams \cup {NoRepo},
             NEW tag \in Tags \cup {NoTag}, RefuseParameters(r, param, tag)
      PROVE  Inv'
  BY <1>2, RefuseInv DEF RefuseParameters
<1>3. ASSUME NEW r \in Requests, NEW access \in AccessLists, NEW param \in RepoParams,
             Forbid(r, access, param)
      PROVE  Inv'
  BY <1>3, RefuseInv DEF Forbid
<1>4. ASSUME NEW r \in Requests, NEW access \in AccessLists, NEW param \in RepoParams,
             NEW tag \in Tags, LookUp(r, access, param, tag)
      PROVE  Inv'
  BY <1>4, LookUpInv
<1>5. ASSUME NEW r \in Requests,
             Handle(r) \/ ServeHead(r) \/ ServeDelete(r) \/ RefuseDelete(r) \/ LoseMessage(r)
      PROVE  Inv'
  BY <1>5, FinishLookUpInv, FinishDeleteInv, GiveUpInv, ServeHeadInv, ServeDeleteInv,
     RefuseOrLoseInv
  DEF Handle
<1>6. ASSUME NEW access \in AccessLists, NEW repo \in Repos, NEW d \in Digests,
             \/ \E tag \in Tags : DockerPush(access, repo, tag, d)
             \/ DockerDelete(access, repo, d)
      PROVE  Inv'
  BY <1>6, DockerInv
<1> QED
  BY <1>1, <1>2, <1>3, <1>4, <1>5, <1>6 DEF Next

(* A request sends at most one DELETE, for a digest it looked up in a      *)
(* repository where its user may delete, and its answer follows from what  *)
(* the registry did.                                                       *)
THEOREM Invariance == Spec => []Inv
<1>1. Init => Inv
  BY InitInv
<1>2. Inv /\ [Next]_vars => Inv'
  BY NextInv
<1> QED
  BY <1>1, <1>2, PTL DEF Spec

(* The browser is never told that a manifest is gone when the request has  *)
(* not removed it, nor that nothing happened when it has or still may.     *)
THEOREM TruthfulAnswers == Spec => []StatusTellsEffect
<1>1. Inv => StatusTellsEffect
  BY DEF Inv, WellFormed, AnswerIsTrue, StatusTellsEffect
<1> QED
  BY <1>1, Invariance, PTL

(* A step that is not the registry serving a request of the API or of a    *)
(* docker client leaves the registry alone.                                *)
LEMMA WhoChangesRegistry ==
  ASSUME [Next]_vars
  PROVE  \/ registry' = registry
         \/ \E r \in Requests : ServeDelete(r)
         \/ /\ op' = op
            /\ \E access \in AccessLists, repo \in Repos, d \in Digests :
                 \/ \E tag \in Tags : DockerPush(access, repo, tag, d)
                 \/ DockerDelete(access, repo, d)
BY DEF vars, Next, RefuseParameters, Forbid, LookUp, Handle, FinishLookUp, FinishDelete,
       GiveUp, Answer, ServeHead, RefuseDelete, LoseMessage, DockerPush, DockerDelete

(* The API frees a tag only while the tag names the manifest looked up: a  *)
(* concurrent push under the same tag survives the deletion.               *)
THEOREM OnlyResolvedIsFreed == Spec => FreedAsResolved
<1> DEFINE Freed(repo, tag) ==
      LET before == registry[repo].tagOf[tag]
      IN  before # NoDigest /\ registry'[repo].tagOf[tag] = NoDigest /\ op' # op =>
            \E r \in Requests : /\ op[r].repo = repo
                                /\ op[r].digest = before
                                /\ op[r].call = "DELETE"
<1>1. ASSUME Inv, [Next]_vars, NEW repo \in Repos, NEW tag \in Tags
      PROVE  Freed(repo, tag)
  <2>1. CASE registry' = registry \/ op' = op
    BY <2>1
  <2>2. ASSUME NEW r \in Requests, ServeDelete(r)
        PROVE  Freed(repo, tag)
    <3>1. op[r].call = "DELETE"
      BY <2>2 DEF ServeDelete, DeleteTarget
    <3>2. CASE op[r].repo # repo
      BY <1>1, <2>2, <3>2 DEF ServeDelete, DeleteTarget, Inv, TypeOK
    <3>3. CASE op[r].repo = repo
      <4>1. registry'[repo] = RemoveManifest(registry[repo], op[r].digest)
        BY <1>1, <2>2, <3>3 DEF ServeDelete, DeleteTarget, Inv, TypeOK
      <4>2. registry'[repo].tagOf[tag] = NoDigest =>
              registry[repo].tagOf[tag] \in {NoDigest, op[r].digest}
        BY <4>1 DEF RemoveManifest
      <4> QED
        BY <3>1, <3>3, <4>2
    <3> QED
      BY <3>2, <3>3
  <2> QED
    BY <1>1, <2>1, <2>2, WhoChangesRegistry
<1>2. Inv /\ [Next]_vars => [\A repo \in Repos, tag \in Tags : Freed(repo, tag)]_vars
  BY <1>1
<1> QED
  BY <1>2, Invariance, PTL DEF Spec, FreedAsResolved

(* A docker client that the proxy lets delete, or push, has an entry that  *)
(* says so.                                                                *)
LEMMA AuthorizedDelete ==
  ASSUME NEW access \in AccessLists, NEW repo \in Repos,
         Authorize(access, RegistryRequest("DELETE", repo))
  PROVE  repo \notin Undeletable
<1>1. NamespacePermissions(access, NamespaceOf[repo]).deleteAllowed
  BY DEF Authorize, RegistryRequest
<1>2. PICK e \in Entries(access) : e.namespace = NamespaceOf[repo] /\ e.deleteAllowed
  BY <1>1 DEF NamespacePermissions
<1>3. e \in EntriesOn(CheckedFor(repo))
  BY <1>2, OwnNamespaceIsChecked DEF EntriesOn
<1> QED
  BY <1>2, <1>3 DEF Undeletable

LEMMA AuthorizedPush ==
  ASSUME NEW access \in AccessLists, NEW repo \in Repos,
         Authorize(access, RegistryRequest("PUT", repo))
  PROVE  repo \notin ReadOnly
<1>1. ~NamespacePermissions(access, NamespaceOf[repo]).pullOnly
  BY DEF Authorize, RegistryRequest
<1>2. PICK e \in Entries(access) : e.namespace = NamespaceOf[repo] /\ ~e.pullOnly
  BY <1>1 DEF NamespacePermissions
<1>3. e \in EntriesOn({NamespaceOf[repo]})
  BY <1>2 DEF EntriesOn
<1> QED
  BY <1>2, <1>3 DEF ReadOnly

(* Where no user may delete in any namespace the handler checks for the    *)
(* repository, no interleaving of API requests, late DELETEs and docker    *)
(* clients removes a manifest; where none may write either, the repository *)
(* never changes.                                                          *)
THEOREM RightsHold == Spec => NamespacesProtected
<1> DEFINE Protected ==
      /\ \A repo \in Undeletable : registry[repo].manifests \subseteq registry'[repo].manifests
      /\ \A repo \in ReadOnly : registry'[repo] = registry[repo]
<1>1. ASSUME Inv, [Next]_vars
      PROVE  Protected
  <2>0. Undeletable \subseteq Repos /\ ReadOnly \subseteq Undeletable
    BY DEF Undeletable, ReadOnly
  <2>1. CASE registry' = registry
    BY <2>1
  <2>2. ASSUME NEW r \in Requests, ServeDelete(r)
        PROVE  Protected
    <3>1. op[r].repo \in Repos \ Undeletable
      BY <1>1, <2>2 DEF ServeDelete, DeleteTarget, Inv, WellFormed
    <3>2. \A repo \in Repos : repo # op[r].repo => registry'[repo] = registry[repo]
      BY <1>1, <2>2 DEF ServeDelete, DeleteTarget, Inv, TypeOK
    <3> QED
      BY <2>0, <3>1, <3>2
  <2>3. ASSUME NEW access \in AccessLists, NEW repo \in Repos, NEW d \in Digests,
               NEW tag \in Tags, DockerPush(access, repo, tag, d)
        PROVE  Protected
    <3>1. repo \notin ReadOnly
      BY <2>3, AuthorizedPush DEF DockerPush
    <3>2. \A c \in Repos : registry'[c] = IF c = repo
                                          THEN PushManifest(registry[repo], tag, d)
                                          ELSE registry[c]
      BY <1>1, <2>3 DEF DockerPush, Inv, TypeOK
    <3>3. registry[repo].manifests \subseteq PushManifest(registry[repo], tag, d).manifests
      BY DEF PushManifest
    <3>4. \A c \in Undeletable : registry[c].manifests \subseteq registry'[c].manifests
      BY <2>0, <3>2, <3>3
    <3>5. \A c \in ReadOnly : registry'[c] = registry[c]
      BY <2>0, <3>1, <3>2
    <3> QED
      BY <3>4, <3>5
  <2>4. ASSUME NEW access \in AccessLists, NEW repo \in Repos, NEW d \in Digests,
               DockerDelete(access, repo, d)
        PROVE  Protected
    <3>1. repo \notin Undeletable
      BY <2>4, AuthorizedDelete DEF DockerDelete
    <3>2. \A c \in Repos : c # repo => registry'[c] = registry[c]
      BY <1>1, <2>4 DEF DockerDelete, Inv, TypeOK
    <3> QED
      BY <2>0, <3>1, <3>2
  <2> QED
    BY <1>1, <2>1, <2>2, <2>3, <2>4, WhoChangesRegistry
<1>2. Inv /\ [Next]_vars => [Protected]_vars
  BY <1>1
<1> QED
  BY <1>2, Invariance, PTL DEF Spec, NamespacesProtected

-----------------------------------------------------------------------------
(* The two calls implement the promise of Deletion.                        *)

(* What a change of one request is to the promise.                         *)
LEMMA RequestedOf ==
  ASSUME Inv, NEW r \in Requests, NEW o, op' = [op EXCEPT ![r] = o]
  PROVE  /\ Requested' = [Requested EXCEPT ![r] = RequestOf(o)]
         /\ Requested[r] = RequestOf(op[r])
BY DEF Requested, Inv, TypeOK

LEMMA RequestAnswered ==
  ASSUME NEW a \in Answers, NEW b \in BOOLEAN
  PROVE  RequestOf(Answered(a, b)) = Promise!Over(IF b THEN "removed" ELSE "none", Told(a))
BY DEF RequestOf, EffectOf, Answered, Promise!Over

(* The fields of what the promise calls a request.                         *)
LEMMA RequestFields ==
  ASSUME NEW o \in Operations
  PROVE  /\ RequestOf(o).repo = o.repo /\ RequestOf(o).tag = o.tag
         /\ RequestOf(o).waits = (o.pc # "idle")
         /\ RequestOf(o).digest = IF EffectOf(o) = "aimed" THEN o.digest ELSE NoDigest
         /\ RequestOf(o).effect = EffectOf(o) /\ RequestOf(o).told = Told(o.answer)
BY DEF RequestOf

LEMMA EffectCases ==
  ASSUME NEW o
  PROVE  /\ o.removed => EffectOf(o) = "removed"
         /\ ~o.removed => EffectOf(o) # "removed"
         /\ ~o.removed /\ (o.call = "DELETE" \/ o.reply = "found") => EffectOf(o) = "aimed"
         /\ ~o.removed /\ o.call = "HEAD" /\ o.reply # "found" => EffectOf(o) = "open"
         /\ ~o.removed /\ o.call = "none" /\ o.reply # "found" => EffectOf(o) = "none"
BY DEF EffectOf

LEMMA FreeRefines ==
  ASSUME Inv, NEW r \in Requests, Free(r)
  PROVE  ~RequestOf(op[r]).waits /\ RequestOf(op[r]).effect # "aimed"
<1>1. op[r] \in Operations /\ WellFormed(op[r])
  BY DEF Inv, TypeOK
<1>2. op[r].pc = "idle" /\ op[r].call = "none" /\ op[r].reply = "none"
  BY <1>1 DEF Free, WellFormed
<1>3. EffectOf(op[r]) # "aimed"
  BY <1>2 DEF EffectOf
<1> QED
  BY <1>1, <1>2, <1>3, RequestFields

LEMMA RefuseRefines ==
  ASSUME Inv, NEW r \in Requests, NEW a \in {"bad request", "forbidden"}, Free(r),
         op' = [op EXCEPT ![r] = Answered(a, FALSE)], UNCHANGED registry
  PROVE  Promise!Refuse(r)
<1>1. RequestOf(Answered(a, FALSE)) = Promise!Over("none", "not done")
  BY RequestAnswered DEF Told
<1>2. Requested' = [Requested EXCEPT ![r] = Promise!Over("none", "not done")]
  BY <1>1, RequestedOf
<1>3. Requested[r] = RequestOf(op[r])
  BY RequestedOf
<1> QED
  BY <1>2, <1>3, FreeRefines DEF Promise!Refuse, Promise!Free

LEMMA LookUpRefines ==
  ASSUME Inv, NEW r \in Requests, NEW access \in AccessLists, NEW param \in RepoParams,
         NEW tag \in Tags, LookUp(r, access, param, tag)
  PROVE  param.repo \in Repos \ Undeletable /\ Promise!Ask(r, param.repo, tag)
<1> DEFINE repo == param.repo
<1>1. RequestOf(LookingUp(repo, tag)) =
        [repo |-> repo, tag |-> tag, waits |-> TRUE, digest |-> NoDigest,
         effect |-> "open", told |-> "nothing"]
  BY DEF RequestOf, EffectOf, LookingUp, Told
<1>2. op' = [op EXCEPT ![r] = LookingUp(repo, tag)] /\ Free(r) /\ UNCHANGED registry
  BY DEF LookUp
<1>3. Requested' = [Requested EXCEPT ![r] = RequestOf(LookingUp(repo, tag))]
  BY <1>2, RequestedOf
<1>4. Requested[r] = RequestOf(op[r])
  BY <1>2, RequestedOf
<1>5. repo \in Repos \ Undeletable
  BY MayDeleteIsDeletable DEF LookUp
<1> QED
  BY <1>1, <1>2, <1>3, <1>4, <1>5, FreeRefines DEF Promise!Ask, Promise!Free

(* An answer tells what the promise says.                                  *)
LEMMA AnswerRefines ==
  ASSUME Inv, NEW r \in Requests, NEW a \in Answers \ {"none"}, Answer(r, a),
         op[r].pc # "idle",
         a = "ok" => op[r].removed, a \in Uneventful => ~op[r].removed,
         a = "delete failed" => EffectOf(op[r]) \in {"none", "removed"}
  PROVE  Promise!Tell(r)
<1>1. op[r] \in Operations /\ op[r].removed \in BOOLEAN
  BY DEF Inv, TypeOK, Operations
<1>2. /\ Requested[r].waits
      /\ Requested[r].effect = EffectOf(op[r])
      /\ Requested[r] = RequestOf(op[r])
  BY <1>1, RequestedOf, RequestFields DEF Answer
<1>3. Requested' = [Requested EXCEPT ![r] = RequestOf(Answered(a, op[r].removed))]
  BY RequestedOf DEF Answer
<1>4. RequestOf(Answered(a, op[r].removed)) =
        Promise!Over(IF op[r].removed THEN "removed" ELSE "none", Told(a))
  BY <1>1, RequestAnswered
<1>5. /\ op[r].removed => EffectOf(op[r]) = "removed"
      /\ ~op[r].removed => EffectOf(op[r]) # "removed"
  BY EffectCases
<1>6. UNCHANGED registry
  BY DEF Answer
<1>7. CASE a = "ok"
  BY <1>2, <1>3, <1>4, <1>5, <1>6, <1>7 DEF Promise!Tell, Told
<1>8. CASE a \in Uneventful
  BY <1>2, <1>3, <1>4, <1>5, <1>6, <1>8 DEF Promise!Tell, Told
<1>9. CASE a = "delete failed"
  <2>1. Requested' = [Requested EXCEPT ![r] = Promise!Over(Requested[r].effect, "unknown")]
    BY <1>2, <1>3, <1>4, <1>5, <1>9 DEF Told
  <2> QED
    BY <1>2, <1>6, <1>9, <2>1 DEF Promise!Tell
<1> QED
  BY <1>7, <1>8, <1>9

(* A step that changes the record but not what the promise sees of it.     *)
LEMMA HiddenRefines ==
  ASSUME Inv, NEW r \in Requests, NEW o, op' = [op EXCEPT ![r] = o],
         RequestOf(o) = RequestOf(op[r])
  PROVE  Requested' = Requested
<1>1. Requested' = [Requested EXCEPT ![r] = Requested[r]]
  BY RequestedOf
<1> QED
  BY <1>1 DEF Requested

LEMMA FinishLookUpRefines ==
  ASSUME Inv, NEW r \in Requests, FinishLookUp(r)
  PROVE  Promise!Tell(r) \/ (UNCHANGED registry /\ Requested' = Requested)
<1>1. /\ op[r] \in Operations /\ op[r].pc = "lookup" /\ ~op[r].removed
      /\ WellFormed(op[r]) /\ AnswerIsTrue(op[r])
  BY DEF FinishLookUp, Inv, TypeOK, WellFormed
<1>2. CASE op[r].reply = "found"
  <2> DEFINE o == [op[r] EXCEPT !.pc = "delete", !.call = "DELETE", !.reply = "none"]
  <2>1. /\ o \in Operations
        /\ o.pc = "delete" /\ o.call = "DELETE"
        /\ o.repo = op[r].repo /\ o.tag = op[r].tag /\ o.digest = op[r].digest
        /\ o.answer = op[r].answer /\ o.removed = op[r].removed
    BY <1>1 DEF Operations
  <2>2. op' = [op EXCEPT ![r] = o] /\ UNCHANGED registry
    BY <1>1, <1>2 DEF FinishLookUp, Inv, TypeOK
  <2> HIDE DEF o
  <2>3. EffectOf(o) = "aimed" /\ EffectOf(op[r]) = "aimed"
    BY <1>1, <1>2, <2>1, EffectCases
  <2>4. RequestOf(o) = RequestOf(op[r])
    BY <1>1, <2>1, <2>3 DEF RequestOf
  <2> QED
    BY <2>2, <2>4, HiddenRefines
<1>3. CASE op[r].reply # "found"
  <2>1. Answer(r, "registry unavailable") \/ Answer(r, "registry status")
    BY <1>3 DEF FinishLookUp
  <2> QED
    BY <1>1, <2>1, AnswerRefines
<1> QED
  BY <1>2, <1>3

LEMMA FinishDeleteRefines ==
  ASSUME Inv, NEW r \in Requests, FinishDelete(r)
  PROVE  Promise!Tell(r)
<1>1. op[r].pc # "idle" /\ AnswerIsTrue(op[r])
  BY DEF FinishDelete, Inv
<1>2. CASE op[r].reply = "accepted" /\ Answer(r, "ok")
  BY <1>1, <1>2, AnswerRefines DEF AnswerIsTrue
<1>3. CASE op[r].reply = "other status" /\ Answer(r, "registry status")
  BY <1>1, <1>3, AnswerRefines DEF AnswerIsTrue
<1> QED
  BY <1>2, <1>3 DEF FinishDelete

LEMMA GiveUpRefines ==
  ASSUME Inv, NEW r \in Requests, GiveUp(r)
  PROVE  Promise!Tell(r)
<1>1. op[r] \in Operations /\ WellFormed(op[r]) /\ AnswerIsTrue(op[r])
  BY DEF Inv, TypeOK
<1>2. CASE op[r].pc = "lookup" /\ Answer(r, "registry unavailable")
  BY <1>1, <1>2, AnswerRefines DEF WellFormed
<1>3. CASE op[r].pc = "delete" /\ op[r].call = "none" /\ Answer(r, "delete failed")
  <2>1. op[r].reply # "found"
    BY <1>1, <1>3 DEF WellFormed
  <2>2. EffectOf(op[r]) \in {"none", "removed"}
    BY <1>3, <2>1, EffectCases
  <2> QED
    BY <1>3, <2>2, AnswerRefines
<1>4. CASE /\ op[r].pc = "delete" /\ op[r].call = "DELETE"
           /\ op' = [op EXCEPT ![r].pc = "idle", ![r].answer = "delete failed"]
           /\ UNCHANGED registry
  <2> DEFINE o == [op[r] EXCEPT !.pc = "idle", !.answer = "delete failed"]
  <2>1. /\ o \in Operations
        /\ o.pc = "idle" /\ o.answer = "delete failed"
        /\ o.repo = op[r].repo /\ o.tag = op[r].tag /\ o.digest = op[r].digest
        /\ o.call = "DELETE" /\ o.removed = op[r].removed
    BY <1>1, <1>4 DEF Operations
  <2>2. op' = [op EXCEPT ![r] = o]
    BY <1>4 DEF Inv, TypeOK
  <2> HIDE DEF o
  <2>3. ~op[r].removed
    BY <1>1, <1>4 DEF AnswerIsTrue
  <2>4. EffectOf(o) = "aimed" /\ EffectOf(op[r]) = "aimed"
    BY <1>4, <2>1, <2>3, EffectCases
  <2>5. /\ Requested[r] = RequestOf(op[r])
        /\ Requested' = [Requested EXCEPT ![r] = RequestOf(o)]
    BY <2>2, RequestedOf
  <2>6. RequestOf(o) = [repo |-> op[r].repo, tag |-> op[r].tag, waits |-> FALSE,
                        digest |-> op[r].digest, effect |-> "aimed", told |-> "unknown"]
    BY <2>1, <2>4 DEF RequestOf, Told
  <2>7. /\ Requested[r].repo = op[r].repo /\ Requested[r].tag = op[r].tag
        /\ Requested[r].waits /\ Requested[r].digest = op[r].digest
        /\ Requested[r].effect = "aimed"
    BY <1>1, <1>4, <2>4, <2>5, RequestFields
  <2> QED
    BY <1>4, <2>5, <2>6, <2>7 DEF Promise!Tell
<1> QED
  BY <1>2, <1>3, <1>4 DEF GiveUp

(* Serving or losing a call settles its effect.                            *)
LEMMA SettleRefines ==
  ASSUME Inv, NEW r \in Requests, NEW o \in Operations, NEW p \in Replies,
         op' = [op EXCEPT ![r] = Served(o, p)],
         o.pc = op[r].pc, o.repo = op[r].repo, o.tag = op[r].tag,
         o.answer = op[r].answer, p # "found"
  PROVE  Promise!Settle(r, IF o.removed THEN "removed" ELSE "none")
<1> DEFINE effect == IF o.removed THEN "removed" ELSE "none"
<1>1. op[r] \in Operations /\ AnswerIsTrue(op[r]) /\ o.removed \in BOOLEAN
      /\ o.answer \in Answers
  BY DEF Inv, TypeOK, Operations
<1>2. /\ Requested' = [Requested EXCEPT ![r] = RequestOf(Served(o, p))]
      /\ Requested[r] = RequestOf(op[r])
  BY RequestedOf
<1>3. /\ Requested[r].repo = op[r].repo /\ Requested[r].tag = op[r].tag
      /\ Requested[r].waits = (op[r].pc # "idle")
      /\ Requested[r].told = Told(op[r].answer)
  BY <1>1, <1>2, RequestFields
<1>4. CASE op[r].pc = "idle"
  <2>1. Served(o, p) = Answered(o.answer, o.removed)
    BY <1>4 DEF Served
  <2>2. RequestOf(Served(o, p)) = Promise!Over(effect, Requested[r].told)
    BY <1>1, <1>3, <2>1, RequestAnswered
  <2> QED
    BY <1>2, <1>3, <1>4, <2>2 DEF Promise!Settle
<1>5. CASE op[r].pc # "idle"
  <2>1. /\ Served(o, p) \in Operations
        /\ Served(o, p).pc = o.pc /\ Served(o, p).call = "none"
        /\ Served(o, p).reply = p /\ Served(o, p).repo = o.repo
        /\ Served(o, p).tag = o.tag
        /\ Served(o, p).answer = o.answer /\ Served(o, p).removed = o.removed
    BY <1>5, ServedType
  <2>2. EffectOf(Served(o, p)) = effect
    BY <1>1, <2>1, EffectCases
  <2>3. o.answer = "none"
    BY <1>1, <1>5 DEF AnswerIsTrue
  <2>4. RequestOf(Served(o, p)) =
          [repo |-> Requested[r].repo, tag |-> Requested[r].tag, waits |-> TRUE,
           digest |-> NoDigest, effect |-> effect, told |-> "nothing"]
    BY <1>3, <1>5, <2>1, <2>2, <2>3 DEF RequestOf, Told
  <2> HIDE DEF effect
  <2>5. Promise!Settle(r, effect)
    BY <1>2, <1>3, <1>5, <2>4 DEF Promise!Settle
  <2> QED
    BY <2>5 DEF effect
<1> QED
  BY <1>4, <1>5

LEMMA ServeHeadRefines ==
  ASSUME Inv, NEW r \in Requests, ServeHead(r)
  PROVE  Promise!Aim(r) \/ Promise!Drop(r)
<1>1. /\ op[r] \in Operations /\ op[r].pc = "lookup" /\ op[r].call = "HEAD"
      /\ ~op[r].removed /\ op[r].reply # "found" /\ op[r].answer = "none"
      /\ op[r].repo \in Repos /\ op[r].tag \in Tags
  BY DEF ServeHead, Inv, TypeOK, WellFormed, AnswerIsTrue
<1>2. EffectOf(op[r]) = "open" /\ UNCHANGED registry
  BY <1>1, EffectCases DEF ServeHead
<1> DEFINE digest == Resolve(registry[op[r].repo], op[r].tag)
           found == [op[r] EXCEPT !.digest = digest]
<1>3. CASE /\ digest # NoDigest
           /\ op' = [op EXCEPT ![r] = Served(found, "found")]
  <2>1. digest \in Digests
    BY <1>1, <1>3 DEF Inv, TypeOK, Repositories, Resolve
  <2>2. /\ Requested[r] = RequestOf(op[r])
        /\ Requested' = [Requested EXCEPT ![r] = RequestOf(Served(found, "found"))]
    BY <1>3, RequestedOf
  <2> HIDE DEF digest
  <2>3. /\ found \in Operations
        /\ found.pc = "lookup" /\ found.repo = op[r].repo /\ found.tag = op[r].tag
        /\ found.digest = digest /\ found.answer = "none" /\ found.removed = op[r].removed
    BY <1>1, <2>1 DEF Operations
  <2> HIDE DEF found
  <2> DEFINE o == Served(found, "found")
  <2>4. /\ o.pc = "lookup" /\ o.reply = "found" /\ o.repo = op[r].repo
        /\ o.tag = op[r].tag /\ o.digest = digest /\ o.answer = "none"
        /\ o.removed = op[r].removed
    BY <2>3, ServedType
  <2> HIDE DEF o
  <2>5. EffectOf(o) = "aimed"
    BY <1>1, <2>4, EffectCases
  <2>6. RequestOf(o) = [repo |-> op[r].repo, tag |-> op[r].tag, waits |-> TRUE,
                        digest |-> digest, effect |-> "aimed", told |-> "nothing"]
    BY <2>4, <2>5 DEF RequestOf, Told
  <2>7. /\ Requested[r].repo = op[r].repo /\ Requested[r].tag = op[r].tag
        /\ Requested[r].effect = "open"
    BY <1>1, <1>2, <2>2, RequestFields
  <2>8. Requested' = [Requested EXCEPT ![r] = RequestOf(o)]
    BY <2>2 DEF o
  <2> QED
    BY <1>2, <1>3, <2>6, <2>7, <2>8 DEF Promise!Aim, Promise!Resolve, Resolve, digest
<1>4. ASSUME NEW p \in {"no digest", "other status"},
             op' = [op EXCEPT ![r] = Served(op[r], p)]
      PROVE  Promise!Drop(r)
  <2>1. Promise!Settle(r, "none")
    BY <1>1, <1>4, SettleRefines
  <2>2. Requested[r].effect = "open"
    BY <1>1, <1>2, <1>4, RequestedOf, RequestFields
  <2> QED
    BY <1>2, <2>1, <2>2 DEF Promise!Drop
<1> QED
  BY <1>3, <1>4 DEF ServeHead

LEMMA ServeDeleteRefines ==
  ASSUME Inv, NEW r \in Requests, ServeDelete(r)
  PROVE  Promise!Remove(r)
<1> DEFINE done == [op[r] EXCEPT !.removed = TRUE]
<1>1. op[r] \in Operations /\ op[r].call = "DELETE" /\ ~op[r].removed
  BY DEF ServeDelete, DeleteTarget, Inv, TypeOK, AnswerIsTrue
<1>2. /\ done \in Operations
      /\ done.pc = op[r].pc /\ done.repo = op[r].repo /\ done.tag = op[r].tag
      /\ done.answer = op[r].answer /\ done.removed
  BY <1>1 DEF Operations
<1>3. op' = [op EXCEPT ![r] = Served(done, "accepted")]
  BY DEF ServeDelete, DeleteTarget
<1> HIDE DEF done
<1>4. Promise!Settle(r, "removed")
  BY <1>2, <1>3, SettleRefines
<1>5. EffectOf(op[r]) = "aimed"
  BY <1>1, EffectCases
<1>6. /\ Requested[r].repo = op[r].repo /\ Requested[r].digest = op[r].digest
      /\ Requested[r].effect = "aimed"
  BY <1>1, <1>3, <1>5, RequestedOf, RequestFields
<1> QED
  BY <1>4, <1>6 DEF ServeDelete, DeleteTarget, Promise!Remove, Promise!RemoveManifest,
                    RemoveManifest

LEMMA RefuseOrLoseRefines ==
  ASSUME Inv, NEW r \in Requests, RefuseDelete(r) \/ LoseMessage(r)
  PROVE  Promise!Drop(r) \/ (UNCHANGED registry /\ Requested' = Requested)
<1>1. op[r] \in Operations /\ WellFormed(op[r]) /\ AnswerIsTrue(op[r])
  BY DEF Inv, TypeOK
<1>2. PICK p \in {"none", "other status"} :
        /\ op' = [op EXCEPT ![r] = Served(op[r], p)]
        /\ p = "other status" => op[r].call = "DELETE"
        /\ p = "none" => op[r].call # "none" \/ op[r].reply # "none"
        /\ UNCHANGED registry
  BY DEF RefuseDelete, LoseMessage
<1>3. CASE op[r].call # "none" \/ op[r].reply = "found"
  <2>1. ~op[r].removed /\ op[r].call \in {"none", "HEAD", "DELETE"}
    BY <1>1, <1>3 DEF WellFormed, AnswerIsTrue, Operations
  <2>2. EffectOf(op[r]) \in {"open", "aimed"}
    BY <1>3, <2>1, EffectCases
  <2>3. Promise!Settle(r, "none")
    BY <1>1, <1>2, <2>1, SettleRefines
  <2>4. Requested[r].effect = EffectOf(op[r])
    BY <1>1, <1>2, RequestedOf, RequestFields
  <2> QED
    BY <1>2, <2>2, <2>3, <2>4 DEF Promise!Drop
<1>4. CASE op[r].call = "none" /\ op[r].reply # "found"
  <2> DEFINE o == Served(op[r], p)
  <2>1. op[r].pc # "idle" /\ p \in Replies
    BY <1>1, <1>2, <1>4 DEF WellFormed
  <2>2. /\ o.pc = op[r].pc /\ o.call = "none" /\ o.reply = p
        /\ o.repo = op[r].repo /\ o.tag = op[r].tag /\ o.digest = op[r].digest
        /\ o.answer = op[r].answer /\ o.removed = op[r].removed
    BY <1>1, <2>1, ServedType
  <2> HIDE DEF o
  <2>3. EffectOf(o) = EffectOf(op[r]) /\ EffectOf(o) # "aimed"
    BY <1>2, <1>4, <2>2, EffectCases
  <2>4. RequestOf(o) = RequestOf(op[r])
    BY <2>2, <2>3 DEF RequestOf
  <2> QED
    BY <1>2, <2>4, HiddenRefines DEF o
<1> QED
  BY <1>3, <1>4

LEMMA DockerRefines ==
  ASSUME Inv, NEW access \in AccessLists, NEW repo \in Repos, NEW d \in Digests,
         \/ \E tag \in Tags : DockerPush(access, repo, tag, d)
         \/ DockerDelete(access, repo, d)
  PROVE  Promise!Others
<1>1. Requested' = Requested
  BY DEF DockerPush, DockerDelete, Requested
<1>2. ASSUME NEW tag \in Tags, DockerPush(access, repo, tag, d)
      PROVE  repo \in Repos \ ReadOnly /\ Promise!OthersPush(repo, tag, d)
  BY <1>2, AuthorizedPush
  DEF DockerPush, Promise!OthersPush, Promise!PushManifest, PushManifest
<1>3. ASSUME DockerDelete(access, repo, d)
      PROVE  repo \in Repos \ Undeletable /\ Promise!OthersRemove(repo, d)
  BY <1>3, AuthorizedDelete
  DEF DockerDelete, Promise!OthersRemove, Promise!RemoveManifest, RemoveManifest
<1> QED
  BY <1>1, <1>2, <1>3 DEF Promise!Others

(* The calls, their delays and losses implement the promise: a request     *)
(* removes one manifest at most, the one its tag named when it was looked  *)
(* up, at one moment, and its answer says so.                              *)
THEOREM Refinement == Spec => DeletionSpec
<1>1. Init => Promise!Init
  <2>1. RequestOf(Answered("none", FALSE)) = Promise!Over("none", "nothing")
    BY RequestAnswered DEF Told
  <2> QED
    BY <2>1 DEF Init, Promise!Init, Requested
<1>2. ASSUME Inv, [Next]_vars
      PROVE  [Promise!Next]_(Promise!vars)
  <2>1. CASE UNCHANGED vars
    BY <2>1 DEF vars, Promise!vars, Requested
  <2>2. ASSUME NEW r \in Requests, NEW param \in RepoParams \cup {NoRepo},
               NEW tag \in Tags \cup {NoTag}, RefuseParameters(r, param, tag)
        PROVE  Promise!Next
    BY <1>2, <2>2, RefuseRefines DEF RefuseParameters, Promise!Next
  <2>3. ASSUME NEW r \in Requests, NEW access \in AccessLists, NEW param \in RepoParams,
               Forbid(r, access, param)
        PROVE  Promise!Next
    BY <1>2, <2>3, RefuseRefines DEF Forbid, Promise!Next
  <2>4. ASSUME NEW r \in Requests, NEW access \in AccessLists, NEW param \in RepoParams,
               NEW tag \in Tags, LookUp(r, access, param, tag)
        PROVE  Promise!Next
    BY <1>2, <2>4, LookUpRefines DEF Promise!Next
  <2>5. ASSUME NEW r \in Requests, Handle(r)
        PROVE  Promise!Next \/ UNCHANGED Promise!vars
    BY <1>2, <2>5, FinishLookUpRefines, FinishDeleteRefines, GiveUpRefines
    DEF Handle, Promise!Next, Promise!vars
  <2>6. ASSUME NEW r \in Requests,
               ServeHead(r) \/ ServeDelete(r) \/ RefuseDelete(r) \/ LoseMessage(r)
        PROVE  Promise!Next \/ UNCHANGED Promise!vars
    BY <1>2, <2>6, ServeHeadRefines, ServeDeleteRefines, RefuseOrLoseRefines
    DEF Promise!Next, Promise!vars
  <2>7. ASSUME NEW access \in AccessLists, NEW repo \in Repos, NEW d \in Digests,
               \/ \E tag \in Tags : DockerPush(access, repo, tag, d)
               \/ DockerDelete(access, repo, d)
        PROVE  Promise!Next
    BY <1>2, <2>7, DockerRefines DEF Promise!Next
  <2> QED
    BY <1>2, <2>1, <2>2, <2>3, <2>4, <2>5, <2>6, <2>7 DEF Next
<1> QED
  BY <1>1, <1>2, Invariance, PTL DEF Spec, DeletionSpec, Promise!Spec
=============================================================================
