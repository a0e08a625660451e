------------------------------ MODULE TagReads ------------------------------
(***************************************************************************)
(* The reads of the JSON API (handleCatalog, handleRepos, handleTags,      *)
(* handleTagInfo, handleTagLayers of api_handlers.go over catalog.go): one *)
(* read makes from one to N+1 calls to the registry, one after the other,  *)
(* each under the ten seconds of its client, and the whole of it under the *)
(* write deadline of the server in main.go.  Between two calls the         *)
(* registry changes: images are pushed, tags move, manifests are deleted.  *)
(*                                                                         *)
(* A call that fails, times out or is not answered with 200 ends the read  *)
(* with "registry unavailable".  Sizes stand for the layers they are of.   *)
(* Tag parameters are names of tags, or missing; of a repo parameter the   *)
(* check and the URL of a call need not make the same (RepoParams).        *)
(***************************************************************************)
EXTENDS AccessControl, Registry, Integers, FiniteSets

CONSTANTS
  Repos,        \* repository names <namespace>/<name>
  NamespaceOf,  \* the first segment of a repository name
  RepoParams,   \* repo parameters: what the check and the URL make of them
  Position,     \* the place of a repository in the order of names
  NoRepo,       \* a repo parameter that is missing or has no slash
  NoTag,        \* a missing tag parameter
  ContentOf,    \* what the manifest of a digest says
  PageSize,     \* entries of one answer to GET /v2/_catalog
  CallTimeout,  \* the ten seconds of the HTTP clients
  WriteTimeout, \* the thirty seconds of the server
  Durations,    \* how long a call may take
  Readers,      \* API requests under way
  Kinds         \* bound: the reads that are asked for

Platforms == {"linux/amd64", "other"}

(* A manifest is of an image, or a list of manifests by platform.  An image *)
(* without a config blob has the empty config.                             *)
Images == [list : {FALSE}, config : [blob : BOOLEAN, size : Nat], layers : Seq(Nat)]
Lists  == [list : {TRUE}, entries : Seq([platform : Platforms, digest : Digests])]

ASSUME TagReadsAssumption ==
  /\ IsFiniteSet(Repos) /\ NoRepo \notin Repos /\ NoTag \notin Tags
  /\ NamespaceOf \in [Repos -> Namespaces]
  /\ RepoParams \subseteq [namespace : Namespaces \cup {NoNamespace}, repo : Repos]
  /\ \A repo \in Repos : [namespace |-> NamespaceOf[repo], repo |-> repo] \in RepoParams
  /\ Position \in [Repos -> Nat]
  /\ \A a, b \in Repos : Position[a] = Position[b] => a = b
  /\ ContentOf \in [Digests -> Images \cup Lists]
  /\ PageSize \in Nat

(* The server waits as long as three calls may take.                       *)
ASSUME TimeoutAssumption ==
  /\ CallTimeout \in Nat \ {0}
  /\ WriteTimeout \in Nat
  /\ WriteTimeout >= 3 * CallTimeout
  /\ Durations \subseteq 0..CallTimeout

-----------------------------------------------------------------------------
(* What the manifests say.                                                 *)

LinuxAmd64(entries) ==
  {i \in DOMAIN entries : entries[i].platform = "linux/amd64"}

First(indices) == CHOOSE i \in indices : \A j \in indices : i <= j

(* Mutant: the details are those of the first entry.                       *)
SelectManifestDigestFirst(entries) == entries[1].digest

SelectManifestDigest(entries) ==
  entries[IF LinuxAmd64(entries) # {} THEN First(LinuxAmd64(entries)) ELSE 1].digest

(* Mutant: the size is that of the first entry.                            *)
SizedManifestDigestFirst(entries) == entries[1].digest

(* manifestCompressedSize has its own copy of the choice.                  *)
SizedManifestDigest(entries) ==
  entries[IF LinuxAmd64(entries) # {} THEN First(LinuxAmd64(entries)) ELSE 1].digest

BuildPlatforms(entries) == [i \in DOMAIN entries |-> entries[i].platform]

(* Unmarshalled as an image, a list has neither config nor layers.         *)
ManifestSchema2(content) ==
  IF content.list
  THEN [config |-> [blob |-> FALSE, size |-> 0], layers |-> <<>>]
  ELSE [config |-> content.config, layers |-> content.layers]

(* The sum of the first n sizes.                                           *)
Total(sizes) ==
  LET sum[n \in 0..Len(sizes)] == IF n = 0 THEN 0 ELSE sum[n - 1] + sizes[n]
  IN  sum[Len(sizes)]

CompressedSize(manifest) == manifest.config.size + Total(manifest.layers)

Sizes == {CompressedSize(ManifestSchema2(ContentOf[d])) : d \in Digests}

TagInfo(digest, image) ==
  [status |-> "ok", digest |-> digest,
   size   |-> CompressedSize(ManifestSchema2(ContentOf[image]))]

TagDetails(digest, image) ==
  [status    |-> "ok", digest |-> digest,
   platforms |-> IF ContentOf[digest].list
                 THEN BuildPlatforms(ContentOf[digest].entries) ELSE <<>>,
   layers    |-> ManifestSchema2(ContentOf[image]).layers,
   config    |-> ManifestSchema2(ContentOf[image]).config]

-----------------------------------------------------------------------------
VARIABLES
  registry,  \* registry[repo]: the contents of a repository
  listed,    \* the repositories that _catalog lists
  read,      \* read[rd]: the read that reader rd has under way
  answer,    \* answer[rd]: what the last read of rd was answered
  before,    \* history: the repositories listed when the read began
  seen       \* history: what was true of its subject since then

vars == <<registry, listed, read, answer, before, seen>>
world == <<registry, listed, before, seen>>

Listings == {"catalog", "repos"}
Details  == {"taginfo", "taglayers"}

(* What a request asks for; repo is where the URLs of its calls lead.      *)
Queries ==
  [kind : Listings, namespace : Namespaces \cup {NoNamespace},
   repo : {NoRepo}, tag : {NoTag}]
  \cup
  [kind : {"tags"}, namespace : {NoNamespace}, repo : Repos \cup {NoRepo},
   tag : {NoTag}]
  \cup
  [kind : Details, namespace : {NoNamespace}, repo : Repos \cup {NoRepo},
   tag : Tags \cup {NoTag}]

TagListings == UNION {[repos -> SUBSET Tags] : repos \in SUBSET Repos}
NoRows == [repo \in {} |-> {}]

Reads ==
  [pc      : {"idle", "catalog", "tags", "manifest", "child", "config"},
   query   : Queries,
   todo    : SUBSET Repos,              \* repositories the loop has before it
   rows    : TagListings,               \* and those it has done
   digest  : Digests \cup {NoDigest},   \* the manifest the tag named
   image   : Digests \cup {NoDigest},   \* the manifest the details are read from
   elapsed : Nat]

Status(status) == [status |-> status]

Answers ==
  [status : {"none", "bad request", "forbidden", "registry unavailable", "cut"}]
  \cup [status : {"ok"}, rows : TagListings]
  \cup [status : {"ok"}, repos : SUBSET Repos]
  \cup [status : {"ok"}, tags : SUBSET Tags]
  \cup [status : {"ok"}, digest : Digests, size : Sizes]
  \cup [status : {"ok"}, digest : Digests, platforms : Seq(Platforms),
        layers : Seq(Nat), config : [blob : BOOLEAN, size : Nat]]

TagsOf(repo) == {tag \in Tags : repo.tagOf[tag] # NoDigest}

Facts == Repos \X ((SUBSET Tags) \cup Digests \cup {NoDigest})

TypeOK ==
  /\ registry \in [Repos -> Repositories]
  /\ listed \in SUBSET Repos
  /\ read \in [Readers -> Reads]
  /\ answer \in [Readers -> Answers]
  /\ before \in [Readers -> SUBSET Repos]
  /\ seen \in [Readers -> SUBSET Facts]

-----------------------------------------------------------------------------
(* A request arrives.                                                      *)

Idle(query) ==
  [pc |-> "idle", query |-> query, todo |-> {}, rows |-> NoRows,
   digest |-> NoDigest, image |-> NoDigest, elapsed |-> 0]

InNamespace(repos, namespace) == {repo \in repos : NamespaceOf[repo] = namespace}

(* What is true at the moment of the subject of a read.                    *)
FactsNow(query, reg) ==
  IF query.kind \in Details
  THEN {<<query.repo, Resolve(reg[query.repo], query.tag)>>}
  ELSE {<<repo, TagsOf(reg[repo])>> :
          repo \in IF query.kind = "tags" THEN {query.repo}
                                          ELSE InNamespace(Repos, query.namespace)}

NoQuery == [kind |-> "repos", namespace |-> NoNamespace, repo |-> NoRepo, tag |-> NoTag]

Init ==
  /\ registry = [repo \in Repos |->
                   [manifests |-> {}, tagOf |-> [tag \in Tags |-> NoDigest]]]
  /\ listed = {}
  /\ read = [rd \in Readers |-> Idle(NoQuery)]
  /\ answer = [rd \in Readers |-> Status("none")]
  /\ before = [rd \in Readers |-> {}]
  /\ seen = [rd \in Readers |-> {}]

Malformed(query) ==
  /\ query.kind \notin Listings
  /\ query.repo = NoRepo \/ (query.kind \in Details /\ query.tag = NoTag)

(* What the check may read of the parameters of a query.                   *)
CheckedFor(query) ==
  IF query.kind \in Listings
  THEN {query.namespace}
  ELSE {param.namespace : param \in {p \in RepoParams : p.repo = query.repo}}

Permitted(namespaces, query, checked) ==
  IF query.kind \in Listings THEN RequireNamespace(namespaces, checked)
                             ELSE NamespaceAllowed(namespaces, checked)

Refuse(rd, status) ==
  /\ read[rd].pc = "idle"
  /\ read' = [read EXCEPT ![rd] = Idle(NoQuery)]
  /\ answer' = [answer EXCEPT ![rd] = Status(status)]
  /\ before' = [before EXCEPT ![rd] = {}]
  /\ seen' = [seen EXCEPT ![rd] = {}]
  /\ UNCHANGED <<registry, listed>>

RefuseParameters(rd, query) == Malformed(query) /\ Refuse(rd, "bad request")

Forbid(rd, namespaces, query, checked) ==
  /\ ~Malformed(query)
  /\ ~Permitted(namespaces, query, checked)
  /\ Refuse(rd, "forbidden")

FirstCall(kind) ==
  CASE kind \in Listings -> "catalog"
    [] kind = "tags"     -> "tags"
    [] kind \in Details  -> "manifest"

Admit(rd, namespaces, query, checked) ==
  /\ read[rd].pc = "idle"
  /\ ~Malformed(query)
  /\ Permitted(namespaces, query, checked)
  /\ read' = [read EXCEPT ![rd] = [Idle(query) EXCEPT !.pc = FirstCall(query.kind)]]
  /\ answer' = [answer EXCEPT ![rd] = Status("none")]
  /\ before' = [before EXCEPT ![rd] = listed]
  /\ seen' = [seen EXCEPT ![rd] = FactsNow(query, registry)]
  /\ UNCHANGED <<registry, listed>>

-----------------------------------------------------------------------------
(* The registry answers the call the read waits for, after the time it     *)
(* took.                                                                   *)

(* Past the write deadline the connection is closed without an answer.     *)
Finish(rd, took, body) ==
  /\ answer' = [answer EXCEPT ![rd] =
                  IF read[rd].elapsed + took < WriteTimeout THEN body ELSE Status("cut")]
  /\ read' = [read EXCEPT ![rd] = Idle(read[rd].query)]
  /\ UNCHANGED world

GoOn(rd, took, next) ==
  /\ read' = [read EXCEPT ![rd] = [next EXCEPT !.elapsed = read[rd].elapsed + took]]
  /\ UNCHANGED answer
  /\ UNCHANGED world

(* The loop of fetchCatalog, over the repositories it has not asked yet.   *)
Loop(rd, took, todo, rows) ==
  IF todo = {}
  THEN Finish(rd, took, [status |-> "ok", rows |-> rows])
  ELSE GoOn(rd, took, [read[rd] EXCEPT !.pc = "tags", !.todo = todo, !.rows = rows])

(* One page: the first names, whatever their namespace.                    *)
Page(repos) ==
  {repo \in repos :
     Cardinality({other \in repos : Position[other] < Position[repo]}) < PageSize}

AnswerCatalog(rd, took) ==
  LET query == read[rd].query
      repos == InNamespace(Page(listed), query.namespace)
  IN  /\ read[rd].pc = "catalog"
      /\ IF query.kind = "repos"
         THEN Finish(rd, took, [status |-> "ok", repos |-> repos])
         ELSE Loop(rd, took, repos, NoRows)

AnswerTags(rd, took) ==
  LET query == read[rd].query
  IN  /\ read[rd].pc = "tags" /\ query.kind = "tags"
      /\ query.repo \in listed
      /\ Finish(rd, took, [status |-> "ok", tags |-> TagsOf(registry[query.repo])])

NextRepo(rd) ==
  CHOOSE repo \in read[rd].todo :
    \A other \in read[rd].todo : Position[repo] <= Position[other]

WithRow(rows, repo, tags) ==
  [r \in DOMAIN rows \cup {repo} |-> IF r = repo THEN tags ELSE rows[r]]

(* Mutant: a repository whose tags cannot be listed is skipped.            *)
AnswerRowOrSkip(rd, took) ==
  LET repo == NextRepo(rd)
      todo == read[rd].todo \ {repo}
      rows == read[rd].rows
  IN  /\ read[rd].pc = "tags" /\ read[rd].query.kind = "catalog"
      /\ \/ Loop(rd, took, todo, WithRow(rows, repo, TagsOf(registry[repo])))
         \/ Loop(rd, took, todo, rows)

(* Mutant: a repository whose tags cannot be listed is shown without tags. *)
AnswerRowOrEmpty(rd, took) ==
  LET repo == NextRepo(rd)
  IN  /\ read[rd].pc = "tags" /\ read[rd].query.kind = "catalog"
      /\ \E tags \in {TagsOf(registry[repo]), {}} :
           Loop(rd, took, read[rd].todo \ {repo}, WithRow(read[rd].rows, repo, tags))

(* Mutant: a repository whose tags cannot be listed is asked again while   *)
(* the time of one call lasts.                                             *)
AnswerRowOrRetry(rd, took) ==
  LET repo == NextRepo(rd)
      rows == WithRow(read[rd].rows, repo, TagsOf(registry[repo]))
  IN  /\ read[rd].pc = "tags" /\ read[rd].query.kind = "catalog"
      /\ \/ Loop(rd, took, read[rd].todo \ {repo}, rows)
         \/ read[rd].elapsed + took < CallTimeout /\ GoOn(rd, took, read[rd])

AnswerRow(rd, took) ==
  LET repo == NextRepo(rd)
      tags == TagsOf(registry[repo])
  IN  /\ read[rd].pc = "tags" /\ read[rd].query.kind = "catalog"
      /\ Loop(rd, took, read[rd].todo \ {repo}, WithRow(read[rd].rows, repo, tags))

(* What follows once the manifest of an image is there: its size, or its   *)
(* config blob if it has one.                                              *)
UseImage(rd, took, digest, image) ==
  \/ /\ read[rd].query.kind = "taginfo"
     /\ Finish(rd, took, TagInfo(digest, image))
  \/ /\ read[rd].query.kind = "taglayers"
     /\ ~ManifestSchema2(ContentOf[image]).config.blob
     /\ Finish(rd, took, TagDetails(digest, image))
  \/ /\ read[rd].query.kind = "taglayers"
     /\ ManifestSchema2(ContentOf[image]).config.blob
     /\ GoOn(rd, took, [read[rd] EXCEPT !.pc = "config", !.digest = digest,
                                        !.image = image])

SelectedFrom(kind, entries) ==
  IF kind = "taginfo" THEN SizedManifestDigest(entries)
                      ELSE SelectManifestDigest(entries)

(* An empty list is an error, which is GiveUp.                             *)
AnswerManifest(rd, took) ==
  LET query   == read[rd].query
      digest  == Resolve(registry[query.repo], query.tag)
      content == ContentOf[digest]
  IN  /\ read[rd].pc = "manifest"
      /\ digest # NoDigest
      /\ \/ ~content.list /\ UseImage(rd, took, digest, digest)
         \/ /\ content.list /\ content.entries # <<>>
            /\ GoOn(rd, took,
                    [read[rd] EXCEPT !.pc = "child", !.digest = digest,
                       !.image = SelectedFrom(query.kind, content.entries)])

(* Mutant: the answer names what the tag names by now.                     *)
AnswerChildByTag(rd, took) ==
  LET query == read[rd].query
      digest == Resolve(registry[query.repo], query.tag)
  IN  /\ read[rd].pc = "child"
      /\ digest # NoDigest
      /\ UseImage(rd, took, digest, read[rd].image)

AnswerChild(rd, took) ==
  /\ read[rd].pc = "child"
  /\ read[rd].image \in registry[read[rd].query.repo].manifests
  /\ UseImage(rd, took, read[rd].digest, read[rd].image)

AnswerConfig(rd, took) ==
  /\ read[rd].pc = "config"
  /\ Finish(rd, took, TagDetails(read[rd].digest, read[rd].image))

(* Mutant: the blob is fetched by a client without a timeout.              *)
GiveUpExceptConfig(rd, took) ==
  /\ read[rd].pc \notin {"idle", "config"}
  /\ Finish(rd, took, Status("registry unavailable"))

(* Another status than 200, a connection that breaks, a body that does not *)
(* parse, the timeout of the client, or the browser gone.                  *)
GiveUp(rd, took) ==
  /\ read[rd].pc # "idle"
  /\ Finish(rd, took, Status("registry unavailable"))

(* Mutant: the client waits for as long as the server does.                *)
InTimeOfServer == 0..WriteTimeout

(* A call that is answered took less than its timeout.                     *)
InTime == Durations \ {CallTimeout}

Serve(rd) ==
  \E took \in InTime :
    \/ AnswerCatalog(rd, took) \/ AnswerTags(rd, took) \/ AnswerRow(rd, took)
    \/ AnswerManifest(rd, took) \/ AnswerChild(rd, took) \/ AnswerConfig(rd, took)

-----------------------------------------------------------------------------
(* Docker clients.                                                         *)

Watch(reg) ==
  seen' = [rd \in Readers |->
             IF read[rd].pc = "idle" THEN seen[rd]
                                     ELSE seen[rd] \cup FactsNow(read[rd].query, reg)]

(* The manifests of a list are pushed, by digest, before it.               *)
Push(repo, tag, d) ==
  /\ ContentOf[d].list =>
       \A i \in DOMAIN ContentOf[d].entries :
         ContentOf[d].entries[i].digest \in registry[repo].manifests
  /\ registry' = [registry EXCEPT ![repo] =
                    IF tag = NoTag THEN AddManifest(@, d) ELSE PushManifest(@, tag, d)]
  /\ listed' = listed \cup {repo}
  /\ Watch(registry')
  /\ UNCHANGED <<read, answer, before>>

Remove(repo, d) ==
  /\ d \in registry[repo].manifests
  /\ registry' = [registry EXCEPT ![repo] = RemoveManifest(@, d)]
  /\ Watch(registry')
  /\ UNCHANGED <<listed, read, answer, before>>

Next ==
  \/ \E rd \in Readers, query \in {q \in Queries : q.kind \in Kinds} :
       \/ RefuseParameters(rd, query)
       \/ \E namespaces \in SUBSET Namespaces, checked \in CheckedFor(query) :
            \/ Forbid(rd, namespaces, query, checked)
            \/ Admit(rd, namespaces, query, checked)
  \/ \E rd \in Readers : Serve(rd) \/ \E took \in Durations : GiveUp(rd, took)
  \/ \E repo \in Repos, tag \in Tags \cup {NoTag}, d \in Digests : Push(repo, tag, d)
  \/ \E repo \in Repos, d \in Digests : Remove(repo, d)

Spec == Init /\ [][Next]_vars

(* Every call has a timeout; the registry need not answer any.             *)
FairSpec ==
  Spec /\ \A rd \in Readers : WF_vars(\E took \in Durations : GiveUp(rd, took))

-----------------------------------------------------------------------------
(* Properties.                                                             *)

Answered(rd, kinds) == answer[rd].status = "ok" /\ read[rd].query.kind \in kinds

(* The image a manifest stands for: itself, or of a list the first entry   *)
(* for linux/amd64, or the first entry when there is none.                 *)
StandsFor(digest, image) ==
  \/ ~ContentOf[digest].list /\ image = digest
  \/ /\ ContentOf[digest].list
     /\ \E i \in DOMAIN ContentOf[digest].entries :
          LET entries == ContentOf[digest].entries
          IN  /\ entries[i].digest = image
              /\ \/ /\ i \in LinuxAmd64(entries)
                    /\ \A j \in LinuxAmd64(entries) : i <= j
                 \/ i = 1 /\ LinuxAmd64(entries) = {}

(* What a read says of a tag is the whole of one image, and of one that    *)
(* the tag named at some moment of the read: digest, size, platforms,      *)
(* layers and config never come from two images, however the tag moves     *)
(* between the calls.                                                      *)
IsOneImage(rd, body) ==
  \E digest, image \in Digests :
    /\ StandsFor(digest, image)
    /\ <<read[rd].query.repo, digest>> \in seen[rd]
    /\ body = IF read[rd].query.kind = "taginfo" THEN TagInfo(digest, image)
                                                 ELSE TagDetails(digest, image)

AnswerIsOneImage ==
  \A rd \in Readers : Answered(rd, Details) => IsOneImage(rd, answer[rd])

(* The size of a row and the details under it agree: taginfo and taglayers *)
(* choose and add up in separate code, and for the same digest give the    *)
(* same total.                                                             *)
ViewsAgree ==
  \A a, b \in Readers :
    /\ Answered(a, {"taginfo"}) /\ Answered(b, {"taglayers"})
    /\ answer[a].digest = answer[b].digest
    => answer[a].size = CompressedSize(answer[b])

(* The rows of a catalog are repositories of its namespace, with the tags  *)
(* they had at some moment of the read.                                    *)
RowsOf(rows, rd) ==
  \A repo \in DOMAIN rows :
    /\ repo \in InNamespace(listed, read[rd].query.namespace)
    /\ <<repo, rows[repo]>> \in seen[rd]

RowsWereListed ==
  \A rd \in Readers : Answered(rd, {"catalog"}) => RowsOf(answer[rd].rows, rd)

ListedIn(rd, body) ==
  IF read[rd].query.kind = "repos" THEN body.repos ELSE DOMAIN body.rows

(* A listing is all or nothing: while the registry has no more names than  *)
(* one page, an answer omits no repository that was there when the read    *)
(* began, whichever calls fail.                                            *)
OmitsNone(repos, rd) ==
  Cardinality(listed) <= PageSize =>
    InNamespace(before[rd], read[rd].query.namespace) \subseteq repos

NothingOmitted ==
  \A rd \in Readers : Answered(rd, Listings) => OmitsNone(ListedIn(rd, answer[rd]), rd)

(* The write deadline cuts off no read but a catalog of a namespace with   *)
(* at least three repositories, however slow the registry is.              *)
IsLongCatalog(rd) ==
  /\ read[rd].query.kind = "catalog"
  /\ Cardinality(InNamespace(listed, read[rd].query.namespace)) >= 3

OnlyLongCatalogsAreCut ==
  \A rd \in Readers : answer[rd].status = "cut" => IsLongCatalog(rd)

(* "No repositories found." (ui.ts:271), the text of an empty listing, is  *)
(* true: none was there when the read began.                               *)
EmptyMeansNone ==
  \A rd \in Readers :
    Answered(rd, Listings) /\ ListedIn(rd, answer[rd]) = {} =>
      InNamespace(before[rd], read[rd].query.namespace) = {}

(* The calls that a read may still make.                                   *)
CallsLeft(r) ==
  CASE r.pc = "idle"     -> 0
    [] r.pc = "catalog"  -> IF r.query.kind = "repos" THEN 1 ELSE 1 + PageSize
    [] r.pc = "tags"     -> IF r.query.kind = "catalog" THEN Cardinality(r.todo) ELSE 1
    [] r.pc = "manifest" -> 3
    [] r.pc = "child"    -> 2
    [] r.pc = "config"   -> 1

(* Each answer, and each timeout, brings a read nearer to its end, whatever *)
(* is pushed meanwhile: no call is made twice, a catalog makes at most one  *)
(* call more than there are names on a page, details take at most three,    *)
(* and each adds no more than its timeout.                                  *)
ReadsGetOn ==
  [][\A rd \in Readers : read[rd].pc # "idle" /\ read'[rd] # read[rd] =>
       /\ CallsLeft(read'[rd]) < CallsLeft(read[rd])
       /\ read'[rd].pc # "idle" =>
            /\ read[rd].elapsed <= read'[rd].elapsed
            /\ read'[rd].elapsed <= read[rd].elapsed + CallTimeout]_vars

(* Every read ends, even if the registry answers nothing.                  *)
ReadsAnswered == \A rd \in Readers : read[rd].pc # "idle" ~> read[rd].pc = "idle"

-----------------------------------------------------------------------------
(* Why it holds: what the read has so far was true of its subject during   *)
(* the read, rows and what is still to ask together omit nothing, and each *)
(* answered call has left a little more than its timeout to the next.      *)
InLoop(rd) ==
  LET rows == read[rd].rows
      todo == read[rd].todo
  IN  /\ todo # {} /\ todo \cap DOMAIN rows = {}
      /\ todo \subseteq InNamespace(listed, read[rd].query.namespace)
      /\ RowsOf(rows, rd)
      /\ OmitsNone(todo \cup DOMAIN rows, rd)
      /\ DOMAIN rows = {} => read[rd].elapsed < CallTimeout
      /\ Cardinality(DOMAIN rows) <= 1 => read[rd].elapsed < 2 * CallTimeout - 1

HasImage(rd) ==
  /\ read[rd].query.kind \in Details
  /\ read[rd].digest \in Digests /\ read[rd].image \in Digests
  /\ <<read[rd].query.repo, read[rd].digest>> \in seen[rd]
  /\ StandsFor(read[rd].digest, read[rd].image)

UnderWay(rd) ==
  LET query == read[rd].query
  IN  /\ answer[rd] = Status("none")
      /\ ~Malformed(query)
      /\ FactsNow(query, registry) \subseteq seen[rd]
      /\ read[rd].pc = "catalog" => query.kind \in Listings /\ read[rd].elapsed = 0
      /\ read[rd].pc = "tags" /\ query.kind = "catalog" => InLoop(rd)
      /\ read[rd].pc = "tags" /\ query.kind # "catalog" =>
           query.kind = "tags" /\ read[rd].elapsed = 0
      /\ read[rd].pc = "manifest" => query.kind \in Details /\ read[rd].elapsed = 0
      /\ read[rd].pc = "child" => HasImage(rd) /\ read[rd].elapsed < CallTimeout
      /\ read[rd].pc = "config" =>
           /\ HasImage(rd) /\ query.kind = "taglayers"
           /\ read[rd].elapsed < 2 * CallTimeout - 1

Good(rd, body) ==
  LET kind == read[rd].query.kind
  IN  /\ body.status = "ok" /\ kind \in Details => IsOneImage(rd, body)
      /\ body.status = "ok" /\ kind = "catalog" => RowsOf(body.rows, rd)
      /\ body.status = "ok" /\ kind \in Listings => OmitsNone(ListedIn(rd, body), rd)
      /\ body.status = "cut" => IsLongCatalog(rd)

Inv ==
  /\ TypeOK
  /\ \A rd \in Readers :
       /\ before[rd] \subseteq listed
       /\ IF read[rd].pc = "idle" THEN Good(rd, answer[rd]) ELSE UnderWay(rd)
=============================================================================
