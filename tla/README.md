# ContainerVault in TLA+

ContainerVault (`main.go`, package `main`) is one Go process in front of a
self-hosted Docker registry. It authenticates against LDAP, turns group names
into rights on namespaces, proxies `/v2/*` to the registry for docker clients,
and serves a dashboard with a JSON API for browsers. This directory models the
parts that carry its own logic, checks them with TLC and proves the main
results with TLAPS.

## 1. The system

| part | state it keeps | operations | talks to |
| --- | --- | --- | --- |
| LDAP login (`ldap.go`) | one connection per attempt | dial, StartTLS, bind, search, `accessFromGroups` | the directory; called by the proxy on every request and by `POST /login` |
| Rights (`auth.go`, `session.go`, `handlers.go`, `api_handlers.go`, badge of `ui/ui.ts`) | none: functions of an access list | `authorize`, `namespaceAllowed`, `requireNamespace`, `namespaceDeleteAllowed`, `buildNamespacePermissions`, `permissionKindFromFlags` | used by proxy, API, dashboard |
| Web sessions (`session.go`, `handlers.go`, `main.go`) | the scs in-memory store, a per-request copy of one session, the browsers' cookies | login, logout, `sessionMiddleware`, the `LoadAndSave` middleware, expiry, sweep, restart | every browser request |
| Tag deletion (`handleTagDelete`, `fetchTagDigest`, `deleteManifest`) | none of its own; two calls to the registry | look up, delete | the registry, concurrently with everybody else |
| Registry proxy (`main.go`) | none | authenticate, `authorize`, forward | LDAP, the registry |
| Registry reads (`catalog.go`, `api_handlers.go`) | none of its own; one to N+1 calls per read | catalog, repos, tags, taginfo, taglayers | the registry, which others change between the calls |
| Dashboard (`ui/ui.ts`) | selection, caches, the DOM | clicks, refresh, fetches and their continuations | the JSON API |
| TLS start-up (`main.go`, `tls.go`, `config.go`) | two files | `certmagicTLSConfig`, `ensureTLSCert`, `ListenAndServeTLS` | the environment, the file system, the container runtime |
| Other configuration, pages | constants | | |

What is hard here:

* *Failure inside a sequence of calls.* A login is four exchanges with the
  directory, a tag deletion two calls to the registry; each can fail, and what
  was opened, said or done before must still be right.
* *Torn reads and short deadlines.* The details of a tag take up to three
  calls and a catalog one per repository. The tag moves and manifests vanish
  in between, any call can fail, and all of them together have thirty seconds.
* *Crashes between two writes.* The key is written after the certificate; the
  program may stop anywhere, and is started again.
* *Interleaving.* Requests with the same cookie share one session in the
  store, but each works on a copy that the middleware writes back later. The
  registry is changed by docker clients between the two calls of a deletion,
  and by a deletion whose handler has long given up.
* *Three deciders.* The same rights are computed by the proxy, by the API and
  by the dashboard, in separate code, and must not drift apart.
* *Loss.* Sessions live in memory only; cookies survive a restart.
* *Late answers.* The dashboard never cancels a fetch: an answer arrives after
  the user has gone on, the panel was redrawn, or the caches were cleared.

What makes each part correct is the list of properties in section 4;
`PROJECT.json` lists every hazard with its line and the properties on it.

## 2. Modules

| module | models | notes |
| --- | --- | --- |
| `AccessControl` | groups to rights, and the three deciders | operators only, used by the two state machines below |
| `Authentication` | what a login attempt promises | abstract specification, no code |
| `LdapLogin` | `ldapAuthenticateAccess`, `dialLDAP`, `accessFromGroups` | refines `Authentication`; one action per exchange and per loop iteration |
| `TokenLifecycle` | what the session layer promises | abstract specification, no code |
| `Sessions` | the session layer with interleaved requests | refines `TokenLifecycle` |
| `Registry` | a repository of the upstream registry | external, operators only, used by the next two |
| `Deletion` | what the deletion of a tag promises | abstract specification, no code |
| `TagDelete` | `DELETE /api/tag` among docker clients | refines `Deletion`, uses `Registry` and `AccessControl` |
| `TagReads` | the reads of the JSON API among docker clients | uses `Registry` and `AccessControl` |
| `TlsStartup` | from the environment and two files to a listening server | with crashes, restarts and operators |
| `Dashboard` | the event loop of `ui/ui.ts` | pending fetches are a bag; the API answers as it likes |
| `LdapLoginProofs`, `SessionsProofs`, `TagDeleteProofs`, `TagReadsProofs`, `TlsStartupProofs`, `DashboardProofs` | theorems | section 6 |
| `MCLdapLogin`, `MCSessions`, `MCTagDelete`, `MCTagReads`, `MCTlsStartup`, `MCDashboard` | model values for TLC | section 4 |

### How state and actions correspond to the code

**AccessControl.** A group name is a record: does it start with
`LDAP_GROUP_PREFIX`, which permission suffix has it, and what is left when the
suffix is stripped. An access list is a sequence of entries (`Access` of
`models.go`). A URL path is one of four classes (`/v2/`, `/v2/<ns>/...`, one
segment, outside), with two flags for what `isSafeRequestPath` refuses. The
empty string in the place of a namespace is the constant `NoNamespace`; the
deciders are compared on non-empty namespaces, which is what the directory of
the README yields.

**LdapLogin.** `pc` is the place in `ldapAuthenticateAccess`, `conn` the
connection with its deferred close, `bound` whether the directory has taken the
password on it, `groups`, `next`, `access` and `selected` the locals of
`accessFromGroups`. The directory answers or fails as it likes at every
exchange. An empty bind id is skipped by the loop in the code and leaves the
error nil: the model keeps that path (`BindIdEmpty`), reachable through the
proxy, whose Basic Auth may carry an empty user name, only if
`LDAP_USER_DOMAIN` is empty too. The run has it unset, so that this path is
part of it beside all others, and the properties say that nothing else gets
past the bind unbound. Towards `Authentication` an attempt is asking
until the groups are there, then judging them until the loop has ended
(`Phase`, `Member`), and has given nothing before that (`Rights`, `Person`).

**Sessions.** `store` is the memstore of scs; `data[r]` is the copy that
`LoadAndSave` put in the context of request `r`; `presented[r]` is the token of
its cookie. A request is received, loaded, handled (`HandleApi`,
`RejectLogin`, `AcceptLogin`, `Logout`) and written back (`WriteHeader`);
other requests take steps between any two of these. `AcceptLogin` and `Logout`
change the store inside the handler, as `RenewToken` and `Destroy` do, and only
modified data is written back. Deadlines are absolute, so `Tick` shortens
every copy. A browser may present any token that was ever given out.

**TagDelete.** `op[r]` is a request and the registry call made for it. A call
is served at some later moment (`ServeHead`, `ServeDelete`, `RefuseDelete`),
its reply or itself may be lost, and the handler may give up first; a DELETE
that was sent stays able to act after its handler has answered "registry delete
failed". Docker clients push and delete manifests through `authorize`.
A repo parameter (`RepoParams`) is what the code makes of it twice: the
namespace that the check reads, the text up to the first slash, and the
repository that the calls address, where the resolved URL leads. The handler
does not make the two agree, so the model does not either; the proxy, which
refuses the paths that could tell them apart (`isSafeRequestPath`), has one
namespace.

**TagReads.** `read[rd]` is the read a request has under way: where it is, the
repositories its loop has done and has before it, the manifest and the image it
works on, and the seconds its calls took so far. An action is the answer to one
call with all the code up to the next call; `GiveUp` is any failure of a call,
which every path of the code turns into 502. A manifest is an image or a list
with platforms; what its digest says (`ContentOf`) is a constant, as digests
are hashes. `selectManifestDigest` and the copy of it in
`manifestCompressedSize` are two operators. A list unmarshalled as an image is
an image without layers, so a list inside a list is answered as an empty image.
"cut" is an answer that comes after the write deadline, and so never arrives.
`before` and `seen` remember what was true of the subject during the read; no
action looks at them. Parameters are pairs of a checked namespace and an
addressed repository, as in `TagDelete`. A registry answer is assumed to carry
`Docker-Content-Digest`; without it the code answers with an empty digest
(`catalog.go:193`, `365`), which nothing else depends on.

**TlsStartup.** `files` are the certificate and the key, each missing, opened
but not filled, or of a pair; `unsynced` those whose content a crash of the
host can still lose. A step of the program is one `open` or `write` of
`os.WriteFile`; `Exit` between any two of them is a failure of a step or the
end of the process, `Start` the restart by docker. `handled` remembers that an
operator, or a crash of the host, had a hand in the files. A step that fails
(certmagic obtains no certificates, a directory or file cannot be made or
written) is an `Exit`, and so counts as an interruption in
`OnlyHopelessStartsFail` and `Recovers`. Of the environment
the model keeps what decides between certmagic, files and `log.Fatal`.

**Dashboard.** The variables are the fields of `state` in `ui/ui.ts`, the
content of `detailEl` (`panel`: what it shows, of which repository, and per tag
the statistics, the container of the details, the label of the toggle and the
delete button) and the fetches not yet answered. The tree has no variable:
`renderTree` follows every change of the state. A handler is one action up to
its `await`, the rest of it another (`Finish...`), taken when the fetch is
answered, fails or throws; `loadRepos` called by a refresh goes on with the
reload of the repository in the same step, as its continuation does. A pending
deletion knows whether its button is still on the page, since redrawing a row
replaces the element the code holds on to. The rows show the repository a
digest was fetched for in the place of the digest.

Operators whose comment begins with "Mutant" are deliberately broken variants
of the definition that follows them. No specification uses them; substituting
one must make the property named in `PROJECT.json` fail.

## 3. Plan

The order was: what decides about rights and sessions (`AccessControl`,
`LdapLogin`, `TokenLifecycle`, `Sessions`), what changes the registry
(`Registry`, `TagDelete`), the dashboard, what reads the registry (`TagReads`),
and the start of the server (`TlsStartup`), each with its proofs. What is left,
in this order:

1. `Vault`: sessions composed with the abstract `Deletion` (a deletion uses the
   access list of the session it was admitted with).
2. Versions of an image in `Dashboard`, to tell old details from new ones
   (the hazard at `ui.ts:601`).

## 4. Runs

Every property of a run that passes has a mutant in `PROJECT.json`: a plausible
bug in one definition that makes TLC find that property violated.

| run | instance | properties | shows |
| --- | --- | --- | --- |
| `ldap_login` | all lists of at most 3 out of 10 groups: every suffix on one namespace, three on another, and the ignored kinds; `LDAP_USER_DOMAIN` unset | `NoConnectionLeak`, `AcceptedIsBound`, `SelectedIsStrongest`, `ProxyFollowsGroups`, `DecidersAgree`, `LoginSpec`, `Inv` | the login implements `Authentication`: whichever exchange fails the connection is closed, nobody who has a bind id gets in without a bind, and the set of groups, not their order, decides the rights; proxy, API and badge agree |
| `sessions` | 2 requests, 2 tokens, 2 principals, TTL 2 | `PresentedTokenRevoked`, `RevokedForGood`, `LifetimeNeverExtended`, `LifecycleSpec`, `SessionsCollected`, `Inv` | the session layer implements `TokenLifecycle` under every interleaving with the write-back, expiry, the sweeper and restarts; no session stays in memory for ever |
| `tag_delete` | 2 deletions, 3 repositories in 3 of 4 namespaces, one addressed also by a name checked as the fourth, 2 tags, 2 digests, 2 users | `StatusTellsEffect`, `FreedAsResolved`, `NamespacesProtected`, `DeletionSpec`, `DeletesAnswered`, `Inv` | the two calls implement `Deletion`; answers are true at any delay; a fresh push survives, no request removes twice; what no checked namespace grants happens on neither path to the registry; a registry that never answers holds nobody |
| `read_details` | 2 readers, 1 repository, 1 tag, an image with a config blob, one without, and a list of both; kinds tags, taginfo, taglayers | `AnswerIsOneImage`, `ViewsAgree`, `Inv` | what is said of a tag is one image it named during the read; size and layers agree |
| `reads` | 1 reader, 3 repositories of one namespace, all kinds of reads; calls take 0, 3 or the whole 4 units of their timeout, of 12 | `RowsWereListed`, `NothingOmitted`, `OnlyLongCatalogsAreCut`, `ReadsGetOn`, `ReadsAnswered` | a listing is all or nothing; the deadline cuts only catalogs of three repositories and more; a read makes a bounded number of calls, and every one ends |
| `tls_startup` | 3 pairs, 1 domain, environments with every decision and the edges of the ports | `StuckOnlyByTornKey`, `OnlyHopelessStartsFail`, `PairKept`, `Recovers`, `Inv` | a pair that works is never overwritten; a crash leaves files the next start can use, with one exception; a start fails by itself only where it had to; the server listens in the end |
| `dashboard` | 2 repositories of 1 namespace, 1 common tag, 2 pending fetches | `LoadingIsUnderWay`, `PanelIsCached`, `SelectedIsCached`, `ShownCanBeHidden`, `SelectionIsOpen`, `Inv` | no spinner without a fetch; panel and caches agree; the selected repository never keeps the rows of a list a deletion has dropped; one deletion per button |
| `dashboard_live` | 1 repository, 2 namespaces, 1 tag, 2 pending fetches | `LoadingEnds` | nothing says "loading" for ever |
| `dashboard_panel`, `dashboard_rows`, `dashboard_empty` | as `dashboard` | one each, violated | section 8 |
| `read_page` | 1 reader, 3 repositories, one name per page | `EmptyMeansNone`, violated | section 8 |

### Why the bounds are enough

* *Groups.* What `accessFromGroups` does with a group depends on its kind and
  on the candidate so far; merging compares entries of one namespace in pairs.
  Three groups give every pair in both orders with a third one before, between
  or after them. The proofs remove the bound.
* *Sessions.* Requests meet in one token of the store: two requests show every
  race between a holder of a copy and one who changes the store, and the second
  token is the one a login renews to. TTL 2 separates a fresh, an ageing
  and an expired session. The proofs remove the bound.
* *Deletions.* One request and everybody else suffice for the race between
  lookup and DELETE; the second request adds two deletions of one digest. Two
  tags on one digest are the case in which a deletion takes more than it was
  asked for. A slot takes the next request once the registry has nothing left
  to do for the last one (`Free`). The proofs remove the bounds.
* *Reads.* Readers do not affect each other: one shows every race with the
  docker clients, the second is there to compare two answers. The bound `Kinds`
  splits the reads between the two runs. One tag that moves over an image and a
  list is enough to tear a read; three repositories are the first catalog that
  the deadline can cut. `Durations` are the extremes of what a call may take;
  with four units per call, 3 is the longest of an answered one. Longer, nested
  and empty manifest lists are covered by the proofs, which hold for every
  `ContentOf`. Where docker clients may push is left open here: the rights on
  that path are the subject of `tag_delete`.
* *TLS.* The three pairs are one for each file and a fresh one.
* *Dashboard.* Each race found or excluded is one late answer against one
  later event or answer, hence two pending fetches (`Room`: an event that
  fetches waits while there are `MaxFetches`; fetches that follow an answer
  do not wait). Two repositories with one tag name in common are what it takes
  to confuse them; one tag, because rows are independent of each other. With
  one repository, three pending fetches were also explored, without another
  outcome.

Readers are symmetric in `read_details`, repositories in `dashboard`; runs with
liveness properties use no symmetry. Deadlock is checked in every run.

## 5. Fairness

* `Sessions`: weak fairness of `Tick` (time passes) and of `Sweep` (the
  goroutine of the memstore runs every minute). None for browsers, handlers or
  the directory.
* `TagDelete`: weak fairness of `GiveUp`, the timeouts of the HTTP clients (ten
  seconds, `catalog.go`). None for the registry and none for its answers.
* `TagReads`: weak fairness of `GiveUp` of each reader: every call is made by a
  client with a timeout of ten seconds (`catalog.go`). None for the registry
  and none for answers.
* `TlsStartup`: weak fairness of `Start`, since `docker-compose.yml` says
  `restart: always`, and of the steps of the program. `Recovers` has as its
  premise that crashes stop at some time; it assumes nothing about operators.
* `Dashboard`: weak fairness of the delivery of each fetch: the server closes
  a connection after the write deadline of thirty seconds (`main.go:113`), and
  a broken connection rejects the promise. None for the user.

## 6. Proofs

All theorems hold for every value of the constants that satisfies the named
assumptions next to them: sentinels are not ordinary values, access lists and
initial contents of the registry are well-formed (no tag of a manifest that is
gone), and time-to-live and bounds are positive numbers. `TLC` checks each
assumption on the instances above, and every inductive invariant is an
invariant of a run.

* **`LdapLoginProofs`.** `Inv` says that the entries of `access` are exactly the
  images of the qualifying groups the loop has passed (`AccessIsImage`) and that
  `selected` is the first of the strongest of them. The second part alone is
  not inductive: that a new entry replaces the candidate only if strictly
  stronger keeps it first among equals because `MorePermissive` compares a rank
  (`MorePermissiveOrder`, `Strongest`). From `Inv` follow `StrongestSelected`,
  `ConnectionsClosed`, `AcceptedWereBound`; `ProxyRights` and `DashboardRights`
  translate the deciders to existence of an entry, which gives `OneDecision`
  and `RightsFollowGroups` for every list of groups. `Refinement` shows that the
  login implements `Authentication`, one lemma per action: dialling and
  StartTLS are stutters, the loop is one too, and its end is the one step that
  judges the groups as a set (`EntriesOfMember`, from `AccessIsImage` with
  `next` past the last group; the user is a strongest entry by
  `SelectedIsStrongest`). It needs that nothing was vouched for before the bind
  of this attempt (`NothingYet`), and that past the bind an attempt is unbound
  only for want of a bind id (`BoundBeforeSearch`).
  `MoreGroupsMoreRights` is about the operators alone: a group more takes no
  right away from any of the three deciders, which a merge in which the
  strictest entry of a namespace wins would do.
* **`SessionsProofs`.** That a revoked token stays revoked is not inductive: a
  request still holding a modified copy could write its token back. `Inv` adds
  that only an accepted login holds modified data, under a token no browser
  has seen (`PendingIsUnknown`) and no other request holds
  (`PendingIsPrivate`). `Revocation`, `RevocationIsFinal` (no step revives a
  token that a browser holds and that admits nobody), `LifetimeBound` and
  `Refinement` follow;
  in the refinement every step of `Sessions` is a step of `TokenLifecycle` or
  leaves phase, holder and admissions alone.
* **`TagDeleteProofs`.** `StatusTellsEffect` speaks about a DELETE that may
  outlive its handler. `Inv` ties call, reply and answer together: at most one
  DELETE, with a digest that was looked up in a repository for which the check
  read a namespace that some user may delete in, and "delete failed" as the only answer given while it is still on its way.
  `OnlyResolvedIsFreed` and `RightsHold` are step properties from it;
  `WhoChangesRegistry` reduces them to the three actions that write.
  `RightsHold` is about the namespaces checked for a repository
  (`CheckedFor`): for a repository that only its own names lead to they are its
  own namespace, for any other it promises no more than the check does.
  `Refinement` maps a request to what `Deletion` knows of it (`RequestOf`): calls
  and replies are hidden, a found digest or a DELETE on its way is an aim. It
  needs of `Inv` that a call under way has no reply, and that "found" is a reply
  to a lookup. It covers at once what the three properties above say apart, and
  that a request removes at most once.
* **`TagReadsProofs`.** That an answer is one image is not inductive: `Inv` says
  of a read under way that what it has so far was true of its subject since it
  began (`HasImage`), that the rows done and the repositories still to ask
  together omit nothing (`InLoop`), and that each answered call has left a
  little more than its timeout to the next (`TimeIsLeft`). `OneImage`,
  `CatalogIsTrue`, `CatalogIsWhole` and `DeadlineFits` follow. `SizesAgree` rests
  on `SelectedStandsFor` and `StandsForOne`: a manifest stands for one image
  only, and both copies of the choice find it. `ReadsEnd` is the part of
  `ReadsAnswered` that needs no fairness: each answer or timeout brings
  `CallsLeft` down, from at most a page of repositories and one call more.
  The end of the catalog call is the hard case: repositories may be pushed until
  it is answered, and `PageIsBounded` (all but the last name of a page come
  before the last) bounds what the loop starts with; after that the loop asks
  for what it has and nothing else. The theorems hold for every
  content of manifests, page size and timeout with three calls in the deadline.
* **`TlsStartupProofs`.** That an interrupted start leaves something usable
  needs the order of the two writes: `Inv` says that the key is opened only once
  the certificate is complete, and that while a pair is being written what is
  in the files does not load. `OnlyTheKeyTears` and `PairIsKept` follow.
  `StartsFailForCause` needs that no start reaches `ListenAndServeTLS` without
  certmagic or two files of some content, which `Inv` says of the step
  "listen"; then files that do not load are files no start can use.
* **`DashboardProofs`.** `SelectionIsOpen` is inductive: `OnlyClicksSelect`
  shows that no answer changes the selection. `Inv` rests on lemmas about the
  bag of pending fetches (`SentFetches`, `WithoutFetch`, `DetachedFetches`) and
  on `OneDeletion`: an attached deletion belongs to a button that says
  "Deleting", so no second one is attached to it. Given `Inv`, two facts about
  any step carry the rest: a fetch stays pending until it is answered
  (`StaysPending`), and the panel is drawn anew with a fetch for all it says is
  loading, or keeps its rows (`RedrawnOrKept`). `LoadingHasItsFetch`,
  `PanelShowsCache` and `DetailsCanBeHidden` follow for any number of
  repositories, tags and pending fetches. `SelectedShowsCache` needs the
  selection as well: a step draws rows from a list in the cache, or keeps the
  panel, what is selected and its list (`SelectedStep`).

## 7. What is only model-checked, and limits

Liveness (`SessionsCollected`, `DeletesAnswered`, `ReadsAnswered`, `Recovers`,
`LoadingEnds`) is beyond the proof system and rests on the runs. Every safety
property of a passing run is also a theorem, and for most of the liveness
properties that is the part which fairness cannot give: a read always gets
nearer to its end (`ReadsGetOn`), what says loading has a fetch under way whose
answer will replace it (`LoadingIsUnderWay`), a start that is sound does not
fail by itself (`OnlyHopelessStartsFail`), and the time a stored session has
left never grows (`LifetimeNeverExtended`). That the timeouts, deliveries and
ticks then come is the fairness of section 5.

Not modelled, and why:

* Streaming of blobs, header rewriting, HTML, configuration other than of TLS,
  and what certmagic does once it is set up (challenges, renewal): no state of
  the program, or state of a library configured once.
* How the registry cuts its catalog into pages and sorts names is external
  (`Page`, `Position`); the code reads one page only (`catalog.go:22`).
* The validity dates and names in the certificate, and the contents of keys.
* Failures of the random source and of the in-memory session store: they do not
  fail in practice, and the code answers 500.
* The registry deletes a manifest in one step, and a refusal has had no effect;
  its storage is not our subject.
* Tag parameters are names of tags or missing, and of repo parameters the model
  keeps the namespace checked and the repository addressed; how either comes
  out of the text is left out.
* The time of a read is the time of its calls; what the program itself takes
  between them is not counted. Three calls of ten seconds fit thirty without
  any margin, so a read that uses them up entirely may be cut off in practice.
* That the library never draws a session token twice (`FreshTokens`).
* The prefix is not stripped from a group, so one of prefix and suffix only has
  the prefix for its namespace. The empty namespace takes a group that is a
  suffix and nothing else, and an empty `LDAP_GROUP_PREFIX`; it is in the
  instance of `ldap_login`, and the deciders are compared on the others.

What the properties do not promise: an answer "ok" to a deletion says that this
request removed the manifest, not that the tag is free, since somebody may have
pushed it again; "delete failed" says nothing about the effect; and the access
list of a session is what the directory said at login, up to thirty minutes ago.
The files that a crash of the host has emptied are no place to start from:
`Recovers` excuses them (`Startable`), since the code does not sync what it
writes. Details on display can be hidden (`ShownCanBeHidden`), but not every
label that says so has details under it (section 8).

## 8. Where the code and its words differ

TLC's counterexamples are between six and ten steps long. Three come from
answers that outlive the view of the dashboard they were asked for:

* `dashboard_panel` (`PanelIsSelected`): select A, select B, B is answered, then
  A: the panel shows the tags of A while the tree marks B.
* `dashboard_rows` (`RowsShowTheirImage`): `updateTagRow` finds a row by the name
  of its tag, so the late digest of A:v1 goes into the row of B:v1. If it
  arrives after that of B:v1 it stays.
* `dashboard_empty` (`EmptyMeansAnswered`): a listing that failed is cached as an
  empty one, and the next visit shows "No tags available." without asking.

and one from a registry larger than its page:

* `read_page` (`EmptyMeansNone`): the one page that is read holds no repository of
  the namespace asked for, and the dashboard shows "No repositories found.".

Known besides, and inside the models without a run of their own:

* The API decides on the first segment of the repo parameter as it is written
  (`api_handlers.go:78-84`, `299-304`), while its calls go to the URL that it
  resolves to (`catalog.go:141`, `271`), without a counterpart of the proxy's
  `isSafeRequestPath`. Rights on the namespace checked are therefore not the
  same as rights on the repository addressed: `NamespacesProtected` and
  `Deletion` hold for the former only (`CheckedFor`, `RepoParams`). A check like
  the proxy's would make the two one.
* An attempt with an empty user name and no `LDAP_USER_DOMAIN` reaches the search
  without a bind (`BindIdEmpty` of `LdapLogin`); whether it gets an answer is up
  to the directory.
* Open the details of a tag, leave the repository and come back: the row says
  "Hide details" over an empty container. Click delete, close the repository in
  the tree (its panel stays), let the deletion succeed: the row stays with a
  disabled button that says "Deleting...". Both are states of `Dashboard`.
* `CERTMAGIC_ENABLE=false` does not disable certmagic while `CERTMAGIC_DOMAINS`
  is set; README.md:106 of the repository lists it as the setting that enables
  certmagic, `false` by default (`Certmagic` of `TlsStartup`).
* A key file torn by a crash is never repaired, since both files exist: every
  start fails until an operator removes one (`StuckOnlyByTornKey`). Nor is a
  certificate ever renewed that has expired.
